---------------------------------- MODULE Birp ---------------------------------
(* The BIRP program (hw1): a filter that reads a picture as a raster ("pgm") or *)
(* as a serialized BDD ("birp"), converts or transforms it, and writes it as a *)
(* raster, a BDD or text.  Each step of this module is one run of the program, *)
(* with a new node table, on the file the last successful run wrote.           *)
(* A raster is the flat array of the code; a stream is the sequence of the     *)
(* build instructions of bdd_serialize, [level, value, left, right], the value *)
(* being that of a leaf and left and right the serial numbers of the children. *)
(* The files read are rasters and what the program itself wrote.               *)
EXTENDS Bdd, Sequences

CONSTANTS RASTER_SIZE_MAX,   \* 2^26, the pixels raster_data has room for
          UINT_SIZE,         \* 2^32, where the product of two ints wraps
          Rasters,           \* the rasters to start from
          ArgLists,          \* the command lines to run the program with
          NumberOf           \* the words that are numbers: [len, value]

VARIABLES file,              \* [kind, w, h, raster, stream]
          options,           \* what validargs made of the last command line
          outcome,           \* how the last run ended
          shown              \* history variable: the picture in the file

vars == <<file, options, outcome, shown>>

LEAF_MAX == BDD_NUM_LEAVES - 1

Level(t, n) == t.nodes[n].level

Log(n) == CHOOSE d \in 0..n : n <= 2^d /\ \A e \in 0..d - 1 : n > 2^e

bdd_min_level(w, h) == Log(w) + Log(h)

SquareSide(w, h) == IF w > h THEN 2^Log(w) ELSE 2^Log(h)

--------------------------------------------------------------------------------
(* A BDD from a raster and back. *)

(* The node of the pixels of columns sw..ew-1 and rows sh..eh-1, which are     *)
(* split across the columns when wider than high and across the rows otherwise.*)
RECURSIVE split_raster_data(_, _, _, _, _, _)
split_raster_data(t, sw, ew, sh, eh, f) ==
    LET width == ew - sw
        height == eh - sh
        midw == sw + width \div 2
        midh == sh + height \div 2
        level == bdd_min_level(width, height)
        Split(a, b) == bdd_lookup(b.t, level, a.n, b.n)
    IN  IF width * height = 1
        THEN [t |-> t, n |-> IF sh < f.h /\ sw < f.w THEN f.raster[sh * f.w + sw + 1]
                             ELSE 0]
        ELSE IF width > height
        THEN LET left == split_raster_data(t, sw, midw, sh, eh, f)
             IN  Split(left, split_raster_data(left.t, midw, ew, sh, eh, f))
        ELSE LET top == split_raster_data(t, sw, ew, sh, midh, f)
             IN  Split(top, split_raster_data(top.t, sw, ew, midh, eh, f))

bdd_from_raster(f) ==
    LET square == SquareSide(f.w, f.h)
    IN  IF f.w <= 0 THEN [t |-> EmptyTable, n |-> -1]
        ELSE split_raster_data(EmptyTable, 0, square, 0, square, f)

(* The half of a block of the given level that holds row r and column c: the   *)
(* even levels halve the rows, the odd ones the columns.                       *)
InSecondHalf(level, r, c) ==
    IF level % 2 = 1 THEN (c \div 2^((level - 1) \div 2)) % 2 = 1
    ELSE (r \div 2^((level \div 2) - 1)) % 2 = 1

(* The walk of bdd_apply: a level the current node skips is passed without     *)
(* leaving the node.                                                           *)
RECURSIVE Walk(_, _, _, _, _)
Walk(t, n, level, r, c) ==
    LET child == IF InSecondHalf(level, r, c) THEN t.nodes[n].right
                 ELSE t.nodes[n].left
    IN  IF Level(t, n) # level THEN Walk(t, n, level - 1, r, c)
        ELSE IF child < BDD_NUM_LEAVES THEN child
        ELSE Walk(t, child, level - 1, r, c)

bdd_apply(t, n, r, c) ==
    IF Level(t, n) = 0 THEN n ELSE Walk(t, n, Level(t, n), r, c)

(* Mutant: the row and the column are not brought back into the node's block   *)
(* but held at its edge.                                                       *)
EdgeToRaster(t, n, w, h) ==
    LET level == Level(t, n)
        width_bound == 2^(level - level \div 2)
        height_bound == 2^(level \div 2)
        Hold(x, bound) == IF x < bound THEN x ELSE bound - 1
    IN  [i \in 1..w * h |-> bdd_apply(t, n, Hold((i - 1) \div w, height_bound),
                                            Hold((i - 1) % w, width_bound))]

(* The raster of a node whose own block may be a part of the picture only: the *)
(* picture repeats it.                                                         *)
bdd_to_raster(t, n, w, h) ==
    LET level == Level(t, n)
        width_bound == 2^(level - level \div 2)
        height_bound == 2^(level \div 2)
    IN  [i \in 1..w * h |-> bdd_apply(t, n, ((i - 1) \div w) % height_bound,
                                            ((i - 1) % w) % width_bound)]

--------------------------------------------------------------------------------
(* A BDD to a stream and back. *)

(* The instructions of the nodes below n and of n itself, children first, each *)
(* node once; serial holds the numbers already given (bdd_index_map).          *)
RECURSIVE bdd_serialize_helper(_, _, _)
bdd_serialize_helper(t, n, s) ==
    LET Number(record, z) ==
          IF n \in DOMAIN z.serial THEN z
          ELSE [out |-> Append(z.out, record),
                serial |-> [m \in DOMAIN z.serial \cup {n} |->
                              IF m = n THEN Len(z.out) + 1 ELSE z.serial[m]]]
    IN  IF Level(t, n) = 0
        THEN Number([level |-> 0, value |-> n, left |-> 0, right |-> 0], s)
        ELSE LET node == t.nodes[n]
                 z == bdd_serialize_helper(t, node.right,
                          bdd_serialize_helper(t, node.left, s))
             IN  Number([level |-> node.level, value |-> 0,
                         left |-> z.serial[node.left],
                         right |-> z.serial[node.right]], z)

bdd_serialize(t, n) ==
    bdd_serialize_helper(t, n, [out |-> <<>>, serial |-> [m \in {} |-> 0]]).out

(* Runs the instructions from the one after Len(index) on; index[i] is the     *)
(* node of serial number i.  The number BDD_NODES_MAX is one entry past the    *)
(* end of bdd_index_map.                                                       *)
RECURSIVE Build(_, _, _)
Build(t, stream, index) ==
    LET serial == Len(index) + 1
        record == stream[serial]
        r == IF record.level = 0 THEN [t |-> t, n |-> record.value]
             ELSE bdd_lookup(t, record.level, index[record.left], index[record.right])
    IN  IF serial > Len(stream) THEN [t |-> t, n |-> index[Len(index)], over |-> FALSE]
        ELSE IF serial >= BDD_NODES_MAX THEN [t |-> t, n |-> -1, over |-> TRUE]
        ELSE Build(r.t, stream, Append(index, r.n))

bdd_deserialize(stream) == Build(EmptyTable, stream, <<>>)

--------------------------------------------------------------------------------
(* The transformations, on the table of the BDD that was read. *)

complement == [c \in 0..LEAF_MAX |-> LEAF_MAX - c]
cap_pixel(threshold) ==
    [c \in 0..LEAF_MAX |-> IF c >= threshold THEN LEAF_MAX ELSE 0]

RECURSIVE bdd_map(_, _, _)
bdd_map(t, n, func) ==
    IF Level(t, n) = 0 THEN [t |-> t, n |-> func[n]]
    ELSE LET left == bdd_map(t, t.nodes[n].left, func)
             right == bdd_map(left.t, t.nodes[n].right, func)
         IN  bdd_lookup(right.t, t.nodes[n].level, left.n, right.n)

(* The left or right half of a half of a square of the given level: a node     *)
(* that skips the level in between is both of its halves.                      *)
LeftOf(t, n, level) == IF Level(t, n) = level - 1 THEN t.nodes[n].left ELSE n
RightOf(t, n, level) == IF Level(t, n) = level - 1 THEN t.nodes[n].right ELSE n

RECURSIVE bdd_rotate(_, _, _)
bdd_rotate(t, n, level) ==
    IF Level(t, n) = 0 THEN [t |-> t, n |-> n]
    ELSE IF Level(t, n) = level
    THEN LET top == t.nodes[n].left
             bottom == t.nodes[n].right
             Row(u, a, b) ==
                 LET left == bdd_rotate(u, a, level - 2)
                     right == bdd_rotate(left.t, b, level - 2)
                 IN  bdd_lookup(right.t, level - 1, left.n, right.n)
             new_top == Row(t, RightOf(t, top, level), RightOf(t, bottom, level))
             new_bottom == Row(new_top.t, LeftOf(t, top, level), LeftOf(t, bottom, level))
         IN  bdd_lookup(new_bottom.t, level, new_top.n, new_bottom.n)
    ELSE IF Level(t, n) = level - 1
    THEN LET new_top == bdd_rotate(t, t.nodes[n].right, level - 2)
             new_bottom == bdd_rotate(new_top.t, t.nodes[n].left, level - 2)
         IN  bdd_lookup(new_bottom.t, level, new_top.n, new_bottom.n)
    ELSE bdd_rotate(t, n, level - 2)

(* A block that one pixel replaces is white, or keeps its value when it is a   *)
(* leaf.                                                                       *)
RECURSIVE bdd_zoom(_, _, _)
bdd_zoom(t, n, factor) ==
    IF Level(t, n) = 0 THEN [t |-> t, n |-> n]
    ELSE IF factor < 0 /\ Level(t, n) + 2 * factor <= 0
    THEN [t |-> t, n |-> LEAF_MAX]
    ELSE LET left == bdd_zoom(t, t.nodes[n].left, factor)
             right == bdd_zoom(left.t, t.nodes[n].right, factor)
         IN  bdd_lookup(right.t, t.nodes[n].level + 2 * factor, left.n, right.n)

--------------------------------------------------------------------------------
(* The command line. *)

Default == [valid |-> TRUE, help |-> FALSE, in |-> "birp", out |-> "birp",
            op |-> "copy", arg |-> 0]
Invalid == [Default EXCEPT !.valid = FALSE]

(* The value of a word of at most so many digits, or -1. *)
string_to_int(word, digits, most) ==
    IF /\ word \in DOMAIN NumberOf
       /\ NumberOf[word].len <= digits
       /\ NumberOf[word].value <= most
    THEN NumberOf[word].value ELSE -1

Untouched(o) == o.in = "birp" /\ o.out = "birp" /\ o.op = "copy"

(* The words after those that made the options o of them; seen says which of   *)
(* -i and -o came already, and whether a transformation did ("op").            *)
RECURSIVE ScanWords(_, _, _)
ScanWords(o, seen, words) ==
    LET flag == Head(words)
        more == Len(words) > 1
        Format(field, formats) ==
            IF field \in seen \/ "op" \in seen \/ ~more THEN Invalid
            ELSE IF words[2] \notin formats THEN Invalid
            ELSE ScanWords([o EXCEPT ![field] = words[2]], seen \cup {field},
                           SubSeq(words, 3, Len(words)))
        Plain(op) ==
            IF Untouched(o)
            THEN ScanWords([o EXCEPT !.op = op], seen \cup {"op"}, Tail(words))
            ELSE Invalid
        Valued(op, digits, most, sign) ==
            LET value == IF more THEN string_to_int(words[2], digits, most) ELSE -1
            IN  IF Untouched(o) /\ value # -1
                THEN ScanWords([o EXCEPT !.op = op, !.arg = sign * value],
                               seen \cup {"op"}, SubSeq(words, 3, Len(words)))
                ELSE Invalid
    IN  IF words = <<>> THEN o
        ELSE CASE flag = "-i" -> Format("in", {"pgm", "birp"})
               [] flag = "-o" -> Format("out", {"pgm", "birp", "ascii"})
               [] flag = "-n" -> Plain("complement")
               [] flag = "-r" -> Plain("rotate")
               [] flag = "-t" -> Valued("threshold", 3, LEAF_MAX, 1)
               [] flag = "-z" -> Valued("zoom", 2, 16, -1)
               [] flag = "-Z" -> Valued("zoom", 2, 16, 1)
               [] OTHER -> Invalid

validargs(argv) ==
    IF argv = <<>> THEN Default
    ELSE IF Head(argv) = "-h" THEN [Default EXCEPT !.help = TRUE]
    ELSE IF Len(argv) > 6 THEN Invalid
    ELSE ScanWords(Default, {}, argv)

--------------------------------------------------------------------------------
(* What a file says, read off its records and never through a node table.      *)

(* The pixel at row r and column c of a block of the given level, as the i-th  *)
(* instruction of a stream describes it (bdd.h on bdd_serialize and bdd_apply).*)
RECURSIVE PixelOf(_, _, _, _, _)
PixelOf(stream, i, level, r, c) ==
    LET record == stream[i]
    IN  IF record.level = 0 THEN record.value
        ELSE IF record.level < level THEN PixelOf(stream, i, level - 1, r, c)
        ELSE PixelOf(stream,
                     IF InSecondHalf(level, r, c) THEN record.right ELSE record.left,
                     level - 1, r, c)

Picture(f) ==
    LET side == SquareSide(f.w, f.h)
        level == bdd_min_level(side, side)
    IN  [kind |-> f.kind, w |-> f.w, h |-> f.h,
         pix |-> IF f.kind = "birp"
                 THEN [x \in (0..side - 1) \X (0..side - 1) |->
                         PixelOf(f.stream, Len(f.stream), level, x[1], x[2])]
                 ELSE [x \in (0..f.h - 1) \X (0..f.w - 1) |->
                         f.raster[x[1] * f.w + x[2] + 1]]]

--------------------------------------------------------------------------------
(* One run of the program for each branch of main.  A run that fails writes    *)
(* nothing and leaves the user with the file there was.                        *)

Fails(how) == outcome' = how /\ UNCHANGED <<file, shown>>
Writes(f) == outcome' = "ok" /\ file' = f /\ shown' = Picture(f)

(* The sizes are compared after a product that wraps. *)
TooLarge(w, h) == (w * h) % UINT_SIZE > RASTER_SIZE_MAX
Overruns(w, h) == w * h > RASTER_SIZE_MAX

RasterFile(kind, w, h, raster) ==
    [kind |-> kind, w |-> w, h |-> h, raster |-> raster, stream |-> <<>>]
StreamFile(w, h, r) ==
    [kind |-> "birp", w |-> w, h |-> h, raster |-> <<>>,
     stream |-> bdd_serialize(r.t, r.n)]

raster_to_ascii(raster) ==
    [i \in DOMAIN raster |-> (4 * raster[i]) \div BDD_NUM_LEAVES]

(* img_read_pgm refuses another kind of file and a raster there is no room for.*)
Raster == file.kind = "pgm" /\ ~TooLarge(file.w, file.h)

pgm_to_birp ==
    IF ~Raster THEN Fails("failed")
    ELSE LET r == bdd_from_raster(file)
         IN  IF r.t.exit THEN Fails("exit")
             ELSE IF r.n = -1 THEN Fails("failed")
             ELSE Writes(StreamFile(file.w, file.h, r))

pgm_to_ascii ==
    IF ~Raster THEN Fails("failed")
    ELSE Writes(RasterFile("ascii", file.w, file.h, raster_to_ascii(file.raster)))

(* The node of the BDD in the file, and how reading it ended.                  *)
img_read_birp ==
    LET r == bdd_deserialize(file.stream)
    IN  IF file.kind # "birp" THEN [t |-> EmptyTable, n |-> -1, end |-> "failed"]
        ELSE [t |-> r.t, n |-> r.n, end |-> IF r.t.exit THEN "exit"
                                            ELSE IF r.over THEN "undefined" ELSE "ok"]

(* How writing the raster of that node ended: one with more pixels than        *)
(* raster_data has is written past its end.                                    *)
RasterEnd(r) ==
    IF r.end # "ok" THEN r.end
    ELSE IF TooLarge(file.w, file.h) THEN "failed"
    ELSE IF Overruns(file.w, file.h) THEN "undefined"
    ELSE "ok"

birp_to_pgm ==
    LET r == img_read_birp
    IN  IF RasterEnd(r) # "ok" THEN Fails(RasterEnd(r))
        ELSE Writes(RasterFile("pgm", file.w, file.h,
                               bdd_to_raster(r.t, r.n, file.w, file.h)))

birp_to_ascii ==
    LET r == img_read_birp
    IN  IF RasterEnd(r) # "ok" THEN Fails(RasterEnd(r))
        ELSE Writes(RasterFile("ascii", file.w, file.h,
                        raster_to_ascii(bdd_to_raster(r.t, r.n, file.w, file.h))))

(* The size of a picture after zooming. *)
Zoomed(n, factor) ==
    IF factor > 0 THEN n * 2^factor
    ELSE (n \div 2^(-factor)) + (IF n % 2^(-factor) = 0 THEN 0 ELSE 1)

(* The transformation asked for, of the BDD r that was read. *)
birp_to_birp(o) ==
    LET r == img_read_birp
        square == SquareSide(file.w, file.h)
        level == bdd_min_level(square, square)
        Write(w, h, made) ==
            IF made.t.exit THEN Fails("exit") ELSE Writes(StreamFile(w, h, made))
    IN  IF r.end # "ok" THEN Fails(r.end)
        ELSE CASE o.op = "copy" -> Write(file.w, file.h, r)
               [] o.op = "complement" ->
                     Write(file.w, file.h, bdd_map(r.t, r.n, complement))
               [] o.op = "threshold" ->
                     Write(file.w, file.h, bdd_map(r.t, r.n, cap_pixel(o.arg)))
               [] o.op = "zoom" ->
                     IF level + 2 * o.arg \notin Levels THEN Fails("failed")
                     ELSE Write(Zoomed(file.w, o.arg), Zoomed(file.h, o.arg),
                                bdd_zoom(r.t, r.n, o.arg))
               [] o.op = "rotate" ->
                     Write(square, square, bdd_rotate(r.t, r.n, level))

--------------------------------------------------------------------------------
Init ==
    /\ file \in Rasters
    /\ options = Default
    /\ outcome = "none"
    /\ shown = Picture(file)

(* The conversions main knows; "pgm" to "pgm" is not one of them. *)
Usage(o) == ~o.valid /\ Fails("failed")
Help(o) == o.valid /\ o.help /\ Fails("help")

Dispatch(o) ==
    /\ o.valid /\ ~o.help
    /\ \/ o.in = "pgm" /\ o.out = "pgm" /\ Fails("failed")
       \/ o.in = "pgm" /\ o.out = "birp" /\ pgm_to_birp
       \/ o.in = "pgm" /\ o.out = "ascii" /\ pgm_to_ascii
       \/ o.in = "birp" /\ o.out = "pgm" /\ birp_to_pgm
       \/ o.in = "birp" /\ o.out = "birp" /\ birp_to_birp(o)
       \/ o.in = "birp" /\ o.out = "ascii" /\ birp_to_ascii

(* A program that wrote past an array is not followed any further. *)
Next ==
    /\ outcome # "undefined"
    /\ \E o \in {validargs(argv) : argv \in ArgLists} :
          /\ options' = o
          /\ Usage(o) \/ Help(o) \/ Dispatch(o)

Spec == Init /\ [][Next]_vars

Pictures == INSTANCE Pictures WITH
    Max <- LEAF_MAX, Originals <- {Picture(f) : f \in Rasters},
    NoRequest <- Default,
    pic <- shown, request <- options, done <- outcome = "ok"

(* Every run of the program does to the picture what it was asked to, or       *)
(* nothing: the tables, the streams and the rasters of pgm_to_birp,            *)
(* birp_to_pgm, birp_to_birp and the two conversions to text never show.       *)
ImplementsPictures == Pictures!Spec

(* A stream the program wrote (bdd_serialize) builds every node once, after    *)
(* its children, which differ and lie below it, and ends with the root: so two *)
(* files of one picture are the same file.                                     *)
StreamCanonical ==
    LET stream == file.stream
        Used == {stream[i].left : i \in DOMAIN stream}
                    \cup {stream[i].right : i \in DOMAIN stream}
    IN  /\ \A i, j \in DOMAIN stream : stream[i] = stream[j] => i = j
        /\ \A i \in DOMAIN stream :
              /\ i < Len(stream) => i \in Used
              /\ stream[i].level > 0 =>
                    /\ stream[i].left \in 1..i - 1 /\ stream[i].right \in 1..i - 1
                    /\ stream[i].left # stream[i].right
                    /\ stream[stream[i].left].level < stream[i].level
                    /\ stream[stream[i].right].level < stream[i].level

(* The blocks of a square picture that need a node: those that the halving of  *)
(* rows and columns in turn leaves at some level and whose halves differ.      *)
(* A block is its pixels, the first half before the second.                    *)
RECURSIVE Pixels(_, _, _, _)
Pixels(pix, level, r, c) ==
    IF level = 0 THEN <<pix[<<r, c>>]>>
    ELSE Pixels(pix, level - 1, r, c) \o
         (IF level % 2 = 1 THEN Pixels(pix, level - 1, r, c + 2^((level - 1) \div 2))
          ELSE Pixels(pix, level - 1, r + 2^((level \div 2) - 1), c))

BlocksOf(p) ==
    LET side == SquareSide(p.w, p.h)
        level == bdd_min_level(side, side)
        whole == Pixels(p.pix, level, 0, 0)
        Block(l, a) == SubSeq(whole, a * 2^l + 1, (a + 1) * 2^l)
        Half(b, a) == SubSeq(b, a * (Len(b) \div 2) + 1, (a + 1) * (Len(b) \div 2))
    IN  UNION {{b \in {Block(l, a) : a \in 0..2^(level - l) - 1} : Half(b, 0) # Half(b, 1)} :
                 l \in 1..level}

(* The blocks a run needs nodes for: those of the picture it reads as a BDD    *)
(* and those of the picture it makes.                                          *)
Needed(o) ==
    IF o.in = "pgm" THEN BlocksOf(Pictures!Encoded(shown))
    ELSE IF o.out = "birp" THEN BlocksOf(shown) \cup BlocksOf(Pictures!Transformed(shown, o))
    ELSE BlocksOf(shown)

(* The table is full (bdd_lookup exits) exactly when the two pictures together *)
(* have more distinct blocks than the table has entries: sharing loses none,   *)
(* and no picture that fits is given up.                                       *)
ExitsOnlyWhenFull ==
    [][outcome' \in {"ok", "exit"} /\ options'.out # "ascii" =>
          (outcome' = "exit" <=>
             Cardinality(Needed(options')) > BDD_NODES_MAX - BDD_NUM_LEAVES)]_vars

(* No run writes past the end of bdd_index_map or of raster_data.  The code    *)
(* does not keep it: see the README.                                           *)
StaysInBounds == outcome # "undefined"

(* What bdd.h:205 says of zooming out: a pixel is black when the block it      *)
(* stands for is entirely black, and white otherwise.  The code does not do    *)
(* so for a block of one gray value: see the README.                           *)
ZoomOutAsDocumented ==
    [][outcome' = "ok" /\ options'.op = "zoom" /\ options'.arg < 0 =>
          LET side == 2^(-options'.arg)
              Block(x) == {shown.pix[<<side * x[1] + r, side * x[2] + c>>] :
                             r \in 0..side - 1, c \in 0..side - 1}
          IN  \A x \in DOMAIN shown'.pix :
                 shown'.pix[x] = IF Block(x) = {0} THEN 0 ELSE LEAF_MAX]_vars
================================================================================
