------------------------------- MODULE Pictures --------------------------------
(* What the BIRP program promises of the pictures it converts and transforms   *)
(* (hw1/include/bdd.h, hw1/README.md), with no node, stream or raster in it.    *)
(* A picture is pic.h rows of pic.w pixels, 0 being black.  In a "birp" file   *)
(* it lies in the top left corner of the smallest square with a side that is a *)
(* power of two, and every pixel of that square is in the file.                *)
EXTENDS Integers

CONSTANTS Max,           \* the value of a white pixel
          Originals,     \* the pictures to start from
          NoRequest      \* the request before the first run

VARIABLES pic,           \* [kind, w, h, pix]
          request,       \* what the last run of the program was asked for
          done           \* whether it did it

vars == <<pic, request, done>>

Grid(w, h) == (0..h - 1) \X (0..w - 1)

Side(w, h) ==
    2^(CHOOSE d \in 0..w + h : /\ w <= 2^d /\ h <= 2^d
                               /\ \A e \in 0..d - 1 : 2^e < w \/ 2^e < h)

Square(w, h) == Grid(Side(w, h), Side(w, h))

(* The square of a "pgm" picture, black outside the picture. *)
Padded(p) ==
    [x \in Square(p.w, p.h) |-> IF x \in Grid(p.w, p.h) THEN p.pix[x] ELSE 0]

Visible(p) == [x \in Grid(p.w, p.h) |-> p.pix[x]]

(* The four characters of a picture in text: 64 values to each. *)
Shade(v) == (4 * v) \div (Max + 1)

Encoded(p) == [p EXCEPT !.kind = "birp", !.pix = Padded(p)]
Decoded(p) == [p EXCEPT !.kind = "pgm", !.pix = Visible(p)]
InText(p) == [p EXCEPT !.kind = "ascii",
                       !.pix = [x \in Grid(p.w, p.h) |-> Shade(p.pix[x])]]

Complemented(p) == [p EXCEPT !.pix = [x \in DOMAIN p.pix |-> Max - p.pix[x]]]

Thresholded(p, v) ==
    [p EXCEPT !.pix = [x \in DOMAIN p.pix |-> IF p.pix[x] >= v THEN Max ELSE 0]]

(* A quarter turn counterclockwise of the whole square. *)
Rotated(p) ==
    LET s == Side(p.w, p.h)
    IN  [p EXCEPT !.w = s, !.h = s,
                  !.pix = [x \in DOMAIN p.pix |-> p.pix[<<x[2], s - 1 - x[1]>>]]]

ZoomedIn(p, k) ==
    LET s == Side(p.w, p.h) * 2^k
    IN  [p EXCEPT !.w = p.w * 2^k, !.h = p.h * 2^k,
                  !.pix = [x \in Grid(s, s) |->
                             p.pix[<<x[1] \div 2^k, x[2] \div 2^k>>]]]

(* One pixel for each square of 2^k by 2^k pixels: white unless all of them    *)
(* are equal, when it has their value.                                         *)
Summary(p, k, x) ==
    LET block == {p.pix[<<2^k * x[1] + r, 2^k * x[2] + c>>] :
                    r \in 0..2^k - 1, c \in 0..2^k - 1}
    IN  IF \E v \in block : block = {v} THEN CHOOSE v \in block : TRUE ELSE Max

ZoomedOut(p, k) ==
    LET s == Side(p.w, p.h) \div 2^k
        Ceil(n) == (n + 2^k - 1) \div 2^k
    IN  [p EXCEPT !.w = Ceil(p.w), !.h = Ceil(p.h),
                  !.pix = [x \in Grid(s, s) |-> Summary(p, k, x)]]

--------------------------------------------------------------------------------
(* A request [in, out, op, arg] names the kind of the input and of the output *)
(* and an operation with its argument; zooming out has a negative one.         *)
Transformed(p, q) ==
    CASE q.op = "copy" -> p
      [] q.op = "complement" -> Complemented(p)
      [] q.op = "threshold" -> Thresholded(p, q.arg)
      [] q.op = "rotate" -> Rotated(p)
      [] q.op = "zoom" -> IF q.arg > 0 THEN ZoomedIn(p, q.arg)
                          ELSE ZoomedOut(p, -q.arg)

Converted(p, q) ==
    CASE q.in = "pgm" /\ q.out = "birp" -> Encoded(p)
      [] q.in = "birp" /\ q.out = "pgm" -> Decoded(p)
      [] q.in = "birp" /\ q.out = "birp" -> Transformed(p, q)
      [] q.out = "ascii" -> InText(p)

Init == pic \in Originals /\ request = NoRequest /\ done = FALSE

(* A run that does what it is asked needs a picture of the kind it is told. *)
Do ==
    /\ done'
    /\ request'.in = pic.kind
    /\ pic' = Converted(pic, request')

Fail == ~done' /\ UNCHANGED pic

Spec == Init /\ [][Do \/ Fail]_vars
================================================================================
