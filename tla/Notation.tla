------------------------------ MODULE Notation ------------------------------
(***************************************************************************)
(* The chess notation tool (hw2): a scanner cuts the input into tokens and *)
(* each rule of the scanner is one action here, from the parse of a move   *)
(* to the text a driver writes for it.  The state is the heap of moves     *)
(* (depl records, linked by next, prev and sub), the boards, the stack of  *)
(* suspended lines, the driver and the output.                             *)
(*                                                                         *)
(* A token is a record; the spelling of a move is a sequence of symbols    *)
(* [k |-> "letter" | "col" | "lig" | "-" | "x" | "=" | "other", v |-> ...]. *)
(***************************************************************************)
EXTENDS Board, FiniteSets, SequencesExt

CONSTANTS
  Inputs,          \* the inputs: a sequence of inputs, each a sequence of alternatives for a token
  Options,         \* the command lines: a sequence of sequences of options
  Disciplined,     \* whether the input keeps to the two rules below
  DEFAULT_LANGUAGE,  \* of the input and of the output
  VARIATION_MAX,   \* levels of variation
  NB_MOVE_TO_DISP  \* size of the table of moves to display

VARIABLES
  pc, status,      \* "start", "reading" or "ended"; the exit status
  input, pos,      \* which input is read, and how many of its tokens were
  error_flag,
  node, counter,   \* the moves allocated, by uid, and new_move's counter
  m, chain,        \* the current move and theplay->chain
  board, nboards,  \* the boards allocated, by id, and how many ever were
  tos, stack,      \* the current board; the suspended lines
  dr,              \* the driver: type, format, level, iswhiteturn, interrupt
  shown,           \* the moves after which to display the board, and whether to stop there
  in_language, configuring, configside, movecount,
  out,             \* what was written
  did, base        \* history: what reading each node did; the board the play started from

heap   == <<node, counter, m, chain, board, nboards, tos, stack>>
parser == <<in_language, configuring, configside, movecount>>
vars   == <<pc, status, input, pos, error_flag, heap, dr, shown, parser, out, did, base>>

NULL == 0

-----------------------------------------------------------------------------
(***************************************************************************)
(* The letters of the pieces, and the parser's automaton.                  *)
(***************************************************************************)
c_language ==
  [french    |-> <<"@", "R", "D", "T", "F", "C", "P">>,
   english   |-> <<"@", "K", "Q", "R", "B", "N", "P">>,
   italian   |-> <<"@", "R", "D", "T", "A", "C", "P">>,
   spanish   |-> <<"@", "R", "D", "T", "A", "C", "P">>,
   german    |-> <<"@", "K", "D", "T", "L", "S", "B">>,
   dutch     |-> <<"@", "K", "D", "T", "L", "P", "O">>,
   czech     |-> <<"@", "K", "D", "V", "S", "J", "P">>,
   hungarian |-> <<"@", "K", "V", "B", "F", "H", "G">>,
   polish    |-> <<"@", "K", "H", "W", "G", "S", "P">>,
   romanian  |-> <<"@", "R", "D", "T", "N", "C", "P">>,
   FIDE      |-> <<"@", "K", "D", "T", "S", "N", "P">>]

ASSUME NotationAssumption ==
  /\ VARIATION_MAX \in Nat /\ NB_MOVE_TO_DISP \in Nat \ {0}
  /\ Disciplined \in BOOLEAN
  /\ DEFAULT_LANGUAGE \in DOMAIN c_language

\* what the scanner's patterns let through: the columns are a-h and the lines
\* 1-8; the numbers of the options "c" and "e" are digits.
sequence(s) == Len(s) \in Nat /\ s = [n \in 1 .. Len(s) |-> s[n]]

ASSUME InputsAssumption ==
  /\ \A i \in DOMAIN Inputs : sequence(Inputs[i])
  /\ \A i \in DOMAIN Inputs : \A p \in DOMAIN Inputs[i] : \A j \in DOMAIN Inputs[i][p] :
       LET t == Inputs[i][p][j]
       IN  /\ t.k \in {"move", "roque", "number", "comment", "keyword", "in", "out"}
           /\ t.k = "move"  => /\ sequence(t.v)
                               /\ \A n \in DOMAIN t.v : t.v[n].k \in {"col", "lig"} => t.v[n].v \in 1 .. 8
           /\ t.k = "roque" => t.v \in Roques

ASSUME OptionsAssumption ==
  \A i \in DOMAIN Options :
    /\ sequence(Options[i])
    /\ \A n \in DOMAIN Options[i] :
         /\ Options[i][n].o = "c" => Options[i][n].v \in Seq(Nat)
         /\ Options[i][n].o = "e" => Options[i][n].v \in Nat

ispiece(lang, c) == \E p \in VOID .. PAWN : c_language[lang][p + 1] = c
piece(lang, c)   == IF ispiece(lang, c)
                    THEN CHOOSE p \in VOID .. PAWN : c_language[lang][p + 1] = c
                    ELSE PAWN

END == [k |-> "end", v |-> 0]

typechar(lang, s) ==
  CASE s.k = "letter" /\ ispiece(lang, s.v) -> 0
    [] s.k = "col" -> 1
    [] s.k = "lig" -> 2
    [] s.k = "-"   -> 3
    [] s.k = "x"   -> 4
    [] s.k = "="   -> 5
    [] s.k = "end" -> 6
    [] OTHER       -> 7

TML == 10

\*          P  a-h  1-8   -    x    =   end   ?
transit ==
  <<<<  1,   2,  -1,  -1,  -1,  -1,  -1,  -1 >>,
    << -1,   2,  -1,  -1,   4,  -1,  -1,  -1 >>,
    << -1,   6,   3,   4,   4,   8, TML, TML >>,
    << -1,   6,  -1,   4,   4,   8, TML, TML >>,
    <<  5,   6,  -1,  -1,  -1,  -1,  -1,  -1 >>,
    << -1,   6,  -1,  -1,  -1,  -1,  -1,  -1 >>,
    << -1,  -1,   7,  -1,  -1,  -1,  -1,  -1 >>,
    << -1,  -1,  -1,  -1,  -1,   8, TML, TML >>,
    <<  9,  -1,  -1,  -1,  -1,  -1, TML,  -1 >>,
    << -1,  -1,  -1,  -1,  -1,  -1, TML, TML >>>>

action ==
  <<<<  1,   2,  -1,  -1,  -1,  -1,  -1,  -1 >>,
    << -1,   2,  -1,  -1,  10,  -1,  -1,  -1 >>,
    << -1,  13,   3,   4,   5,  14,   6,   7 >>,
    << -1,  13,  -1,   4,   5,  14,   6,   7 >>,
    <<  1,   2,  -1,  -1,  -1,  -1,  -1,  -1 >>,
    << -1,   2,  -1,  -1,  -1,  -1,  -1,  -1 >>,
    << -1,  -1,   3,  -1,  -1,  -1,  -1,  -1 >>,
    << -1,  -1,  -1,  -1,  -1,  14,   8,   9 >>,
    << 15,  -1,  -1,  -1,  -1,  -1,  17,  -1 >>,
    << -1,  -1,  -1,  -1,  -1,  -1,  17,  17 >>>>

\* What each action does to the move d and to the current piece, column and
\* line; the actions that end a move (6 to 9, 17) leave its execution to the
\* action that reads it.
execute(num, lang, s, a) ==
  LET from == [a.d EXCEPT !.piece = a.piece, !.fromcol = a.col, !.fromlig = a.lig]
      to   == [a.d EXCEPT !.tocol = a.col, !.tolig = a.lig]
  IN  CASE num \in {1, 15} ->
             LET p == piece(lang, s.v)
             IN  [a EXCEPT !.piece = p, !.d.promotion = IF num = 15 THEN p ELSE @]
        [] num = 2  -> [a EXCEPT !.col = s.v]
        [] num = 3  -> [a EXCEPT !.lig = s.v]
        [] num = 4  -> [a EXCEPT !.d = from]
        [] num = 5  -> [a EXCEPT !.d = [from EXCEPT !.type = PRISE, !.prise = a.piece]]
        [] num \in {6, 7} -> [a EXCEPT !.d = [to EXCEPT !.piece = a.piece]]
        [] num \in {8, 9} -> [a EXCEPT !.d = to]
        [] num = 10 -> [a EXCEPT !.d.piece = a.piece, !.d.type = PRISE]
        [] num = 13 -> [a EXCEPT !.d = [from EXCEPT !.type = MOVE], !.col = s.v]
        [] num = 14 ->
             [a EXCEPT !.piece = QUEEN,
                       !.d = [to EXCEPT !.promotion = QUEEN,
                                        !.type = IF @ = PRISE THEN PROM_ET_PRISE ELSE PROMOTION]]
        [] OTHER -> a

init_parse(d) ==
  [d EXCEPT !.type = MOVE, !.piece = VOID, !.fromcol = 0, !.fromlig = 0, !.tocol = 0,
            !.tolig = 0, !.promotion = VOID, !.prise = VOID]

\* The automaton run over a spelling: its last action, and the move it read.
parse(lang, d, spelling) ==
  LET token == Append(spelling, END)
      step(a, s) ==
        LET code == typechar(lang, s)
            num  == action[a.etat + 1][code + 1]
        IN  [execute(num, lang, s, a) EXCEPT !.num = num, !.etat = transit[a.etat + 1][code + 1]]
      run[i \in 0 .. Len(token)] ==
        IF i = 0 THEN [etat |-> 0, num |-> 0, d |-> init_parse(d), piece |-> VOID, col |-> 0, lig |-> 0]
        ELSE IF run[i - 1].etat \in {-1, TML} THEN run[i - 1]
        ELSE step(run[i - 1], token[i])
  IN  run[Len(token)]

-----------------------------------------------------------------------------
(***************************************************************************)
(* The output drivers.                                                     *)
(***************************************************************************)
Drivers     == {"ascii", "postscript", "tex", "roff", "xchess", "gnu"}
Replayers   == {"xchess", "gnu"}         \* formats another program reads
roque_alg(d)     == d.type \in Replayers
print_piece(d)   == d.type \notin Replayers
print_liaison(d) == d.type \notin Replayers
writes_moves(d)  == d.type # "postscript" /\ ~d.only_board
writes_text(d)   == d.type \notin Replayers \cup {"postscript"}

init_driver(d, type) ==
  [type |-> type, algebraic |-> d.algebraic \/ type \in Replayers, only_board |-> d.only_board,
   print_headers |-> d.print_headers, out_table |-> d.out_table,
   variation |-> 0, iswhiteturn |-> FALSE, interrupt |-> FALSE]

\* mutant: the coordinate the other pieces share is written
text_of_shared(d, n, amb) ==
  [roque  |-> VOID, piece |-> IF n.piece # PAWN THEN n.piece ELSE PAWN,
   debcol |-> IF ~d.algebraic /\ n.type = PRISE /\ n.piece = PAWN /\ ~amb.ambigue THEN n.fromcol ELSE 0,
   from   |-> IF amb.ambigue THEN IF amb.amcols THEN <<n.fromcol, 0>> ELSE <<0, n.fromlig>>
              ELSE IF d.algebraic THEN <<n.fromcol, n.fromlig>> ELSE <<0, 0>>,
   lie    |-> IF n.type \in {PRISE, PROM_ET_PRISE, EN_PASSANT} THEN "x" ELSE IF d.algebraic THEN "-" ELSE "none",
   to     |-> <<n.tocol, n.tolig>>, prom |-> n.promotion]

\* The text of a move: the letter, the column of a catching pawn, what is
\* written of the origin, the link, the destination, the promotion.
text_of(d, n, amb) ==
  LET disambiguate == amb.ambigue /\ print_liaison(d)
      both == <<n.fromcol, n.fromlig>>
      from == IF disambiguate /\ amb.amline /\ ~amb.amcols THEN <<n.fromcol, 0>>
              ELSE IF disambiguate /\ amb.amcols /\ ~amb.amline THEN <<0, n.fromlig>>
              ELSE IF d.algebraic \/ (disambiguate /\ amb.amline /\ amb.amcols) THEN both
              ELSE <<0, 0>>
      debcol == IF ~d.algebraic /\ n.type = PRISE /\ n.piece = PAWN /\ ~disambiguate
                THEN n.fromcol ELSE 0
  IN  [roque  |-> VOID,
       piece  |-> IF print_piece(d) /\ n.piece # PAWN THEN n.piece ELSE PAWN,
       debcol |-> debcol, from |-> from,
       lie    |-> IF ~print_liaison(d) THEN "none"
                  ELSE IF n.type \in {PRISE, PROM_ET_PRISE, EN_PASSANT} THEN "x"
                  ELSE IF d.algebraic THEN "-" ELSE "none",
       to     |-> <<n.tocol, n.tolig>>, prom |-> n.promotion]

roque_text(n) == [roque |-> n.type, piece |-> PAWN, debcol |-> 0, from |-> <<0, 0>>,
                  lie |-> "none", to |-> <<0, 0>>, prom |-> VOID]

\* a castling as the move of its king
roque_to_move(n) ==
  [n EXCEPT !.piece = KING, !.fromcol = 5, !.tocol = IF n.type = GRANDROQUE THEN 3 ELSE 7,
            !.fromlig = home(n), !.tolig = home(n)]

\* mutant: after an interruption white's moves get the dots as well
flush_always(d, n, txt) ==
  [k |-> "move", uid |-> n.uid, white |-> n.whiteturn, txt |-> txt,
   dots |-> d.interrupt /\ d.type \notin Replayers,
   num  |-> IF d.type # "gnu" /\ (n.whiteturn \/ d.interrupt) THEN n.move ELSE 0]

\* flush_buffer: a move written after an interruption repeats its number
\* before black's dots; otherwise only white's moves are numbered.
flush_buffer(d, n, txt) ==
  LET again == d.interrupt /\ ~n.whiteturn
  IN  [k |-> "move", uid |-> n.uid, white |-> n.whiteturn, txt |-> txt,
       dots |-> again /\ d.type \notin Replayers,
       num  |-> IF d.type = "gnu" THEN 0
                ELSE IF n.whiteturn \/ (again /\ d.type # "xchess") THEN n.move ELSE 0]

\* output_move: the driver, the move, the board and the output after it.
output_move(d, n, g, o) ==
  IF (d.type \in Replayers /\ d.variation > 0) \/ ~writes_moves(d)
  THEN [dr |-> d, m |-> n, board |-> g, out |-> o]
  ELSE LET castling == n.type \in Roques
           amb == ambiguity(g, n)
           n2  == IF castling /\ roque_alg(d) THEN roque_to_move(n) ELSE n
           txt == IF castling /\ ~roque_alg(d) THEN roque_text(n)
                  ELSE text_of(d, n2, IF castling THEN [ambigue |-> FALSE] ELSE amb)
           d2  == [d EXCEPT !.iswhiteturn = n.whiteturn, !.interrupt = FALSE]
       IN  [dr |-> d2, m |-> n2, board |-> IF castling THEN g ELSE amb.board,
            out |-> Append(o, flush_buffer(d, n2, txt))]

\* what the drivers write: the moves apart, one item each
wrote(o, what) == Append(o, [k |-> what])

output_variation_generic(o, inout) == wrote(o, inout)
output_text_generic(o)  == wrote(o, "text")
output_text_tex(o)      == wrote(o, "text")
output_init_tex(o)      == wrote(o, "init")
output_init_gnu(o)      == wrote(o, "init")
output_end_tex(o)       == wrote(o, "end")
output_board_ascii(d, o) == [dr |-> [d EXCEPT !.interrupt = TRUE], out |-> wrote(o, "board")]
output_board_ps(d, o)    == [dr |-> d, out |-> wrote(o, "board")]
output_board_roff(d, o)  == output_board_ascii(d, o)
output_board_tex(d, o)   == output_board_ascii(d, o)

output_init(d, o) ==
  CASE d.print_headers /\ d.type = "tex"    -> output_init_tex(o)
    [] d.print_headers /\ d.type = "xchess" -> output_init_gnu(o)
    [] OTHER -> o
output_variation(d, o, inout) == IF writes_text(d) THEN output_variation_generic(o, inout) ELSE o
output_text(d, o) ==
  CASE ~writes_text(d) -> o
    [] d.type = "tex"  -> output_text_tex(o)
    [] OTHER -> output_text_generic(o)
output_board(d, o) ==
  CASE d.type = "ascii"      -> output_board_ascii(d, o)
    [] d.type = "postscript" -> output_board_ps(d, o)
    [] d.type = "tex"        -> output_board_tex(d, o)
    [] d.type = "roff"       -> output_board_roff(d, o)
    [] OTHER -> [dr |-> d, out |-> o]
output_end(d, o) == IF d.print_headers /\ d.type = "tex" THEN output_end_tex(o) ELSE o

-----------------------------------------------------------------------------
(***************************************************************************)
(* The heap of moves.                                                      *)
(***************************************************************************)
new_move(uid) ==
  [uid |-> uid, next |-> NULL, prev |-> NULL, sub |-> NULL, move |-> 0, whiteturn |-> FALSE,
   type |-> VOID, piece |-> VOID, fromcol |-> 0, fromlig |-> 0, tocol |-> 0, tolig |-> 0,
   prise |-> VOID, promotion |-> VOID]

\* the move that comes after mo
add_trailing_move(mo) ==
  [new_move(counter + 1) EXCEPT
     !.prev = mo, !.whiteturn = ~node[mo].whiteturn,
     !.move = IF node[mo].whiteturn THEN node[mo].move ELSE node[mo].move + 1]

\* the nodes that free_move_list frees, link by link, below node d
under(nodes, d) ==
  LET list[x \in DOMAIN nodes \cup {NULL}] ==
        IF x = NULL THEN {} ELSE {x} \cup list[nodes[x].next] \cup list[nodes[x].sub]
  IN  list[nodes[d].next] \cup list[nodes[d].sub]

free_move_list(nodes, d) ==
  [x \in DOMAIN nodes \ under(nodes, d) |->
     IF x = d THEN [nodes[x] EXCEPT !.next = NULL, !.sub = NULL] ELSE nodes[x]]

exit(s) == pc' = "ended" /\ status' = s

\* free_resources: the boards of the open lines and the list of moves.
free_resources(nodes, boards) ==
  /\ node'  = [x \in DOMAIN nodes \ (under(nodes, chain) \cup {chain}) |-> nodes[x]]
  /\ board' = [b \in DOMAIN boards \ ({stack[i].b : i \in 0 .. dr.variation - 1} \cup {tos})
                 |-> boards[b]]

-----------------------------------------------------------------------------
(***************************************************************************)
(* The start of the program: the command line, and what main sets up.      *)
(***************************************************************************)
option(a, o) ==
  IF a.exit # "no" THEN a
  ELSE CASE o.o = "a" -> [a EXCEPT !.dr.algebraic = TRUE]
         [] o.o = "s" -> [a EXCEPT !.dr.algebraic = FALSE]
         [] o.o = "f" -> [a EXCEPT !.lang = IF o.v \in DOMAIN c_language THEN o.v ELSE DEFAULT_LANGUAGE]
         [] o.o = "t" -> [a EXCEPT !.dr.out_table = IF o.v \in DOMAIN c_language THEN o.v ELSE DEFAULT_LANGUAGE]
         [] o.o = "c" -> [a EXCEPT !.shown.moves = @ \o o.v,
                                   !.exit = IF Len(a.shown.moves \o o.v) > NB_MOVE_TO_DISP
                                            THEN "1" ELSE "no"]
         [] o.o = "e" -> [a EXCEPT !.shown = [moves |-> <<o.v>>, stop |-> TRUE]]
         [] o.o = "b" -> [a EXCEPT !.dr.only_board = TRUE]
         [] o.o = "d" -> [a EXCEPT !.driver = IF o.v \in Drivers THEN o.v ELSE "ascii"]
         [] o.o = "i" -> [a EXCEPT !.dr.print_headers = FALSE]
         [] o.o \in {"h", "file"} -> [a EXCEPT !.exit = IF o.v THEN IF o.o = "h" THEN "0" ELSE "no"
                                                        ELSE "1"]
         [] o.o = "v" -> [a EXCEPT !.exit = "0"]
         [] OTHER -> [a EXCEPT !.exit = "1"]

new_driver ==
  [type |-> "ascii", algebraic |-> FALSE, only_board |-> FALSE, print_headers |-> TRUE,
   out_table |-> DEFAULT_LANGUAGE, variation |-> 0, iswhiteturn |-> FALSE, interrupt |-> FALSE]

parse_options(opts) ==
  LET start == [dr |-> new_driver, driver |-> "ascii", lang |-> DEFAULT_LANGUAGE,
                shown |-> [moves |-> <<>>, stop |-> FALSE], exit |-> "no"]
      got[i \in 0 .. Len(opts)] == IF i = 0 THEN start ELSE option(got[i - 1], opts[i])
  IN  got[Len(opts)]

notation_main ==
  /\ pc = "start"
  /\ \E o \in DOMAIN Options :
       LET a == parse_options(Options[o])
           d == init_driver(a.dr, a.driver)
       IN  /\ dr' = d /\ in_language' = a.lang /\ shown' = a.shown
           /\ IF a.exit # "no"
              THEN exit(a.exit) /\ UNCHANGED <<heap, out, did, base>>
              ELSE /\ pc' = "reading" /\ status' = status
                   /\ tos' = 1 /\ nboards' = 1 /\ board' = [b \in {1} |-> init_board]
                   /\ m' = 1 /\ chain' = 1 /\ counter' = 1
                   /\ node' = [x \in {1} |-> init_parse(new_move(1))]
                   /\ out' = output_init(d, out)
                   /\ did' = <<"head">> /\ base' = init_board
                   /\ UNCHANGED stack
  /\ UNCHANGED <<input, pos, error_flag, configuring, configside, movecount>>

-----------------------------------------------------------------------------
(***************************************************************************)
(* Moves.                                                                  *)
(***************************************************************************)
uid == counter + 1

\* the heap with the move d linked after m
linked(d) ==
  [x \in DOMAIN node \cup {uid} |->
     IF x = uid THEN d ELSE IF x = m THEN [node[m] EXCEPT !.next = uid] ELSE node[x]]

NewMove(what) == m' = uid /\ counter' = uid /\ did' = Append(did, what)

\* The move was done and w was written: an illegal one ends the program, or the
\* board is displayed where asked for.
after_move(d, err, w) ==
  LET asked(i) == ~d.whiteturn /\ shown.moves[i] = d.move
      first  == output_board(w.dr, w.out)
      show[i \in 0 .. Len(shown.moves)] ==
        IF i = 0 THEN [dr |-> w.dr, out |-> w.out]
        ELSE IF asked(i) THEN output_board(show[i - 1].dr, show[i - 1].out) ELSE show[i - 1]
      all    == show[Len(shown.moves)]
      nodes  == [linked(d) EXCEPT ![uid] = w.m]
      boards == [board EXCEPT ![tos] = w.board]
      stops  == err \/ (shown.stop /\ \E i \in DOMAIN shown.moves : asked(i))
  IN  /\ NewMove("move")
      /\ error_flag' = err
      /\ out' = IF err THEN first.out ELSE IF stops THEN output_end(first.dr, first.out) ELSE all.out
      /\ dr'  = IF stops THEN first.dr ELSE all.dr
      /\ IF stops THEN exit("0") /\ free_resources(nodes, boards)
         ELSE node' = nodes /\ board' = boards /\ UNCHANGED <<pc, status>>
      /\ UNCHANGED base

\* execute_move: r is the move done, which is written even when it is illegal.
write_move(d, r) == after_move(d, error_flag \/ ~r.ok, output_move(dr, r.m, r.board, out))
execute_move(d)  == write_move(d, played(board[tos], d))

\* history: a piece put on the board, by its colour
Placed == {"white", "black"}

\* a piece is put on the board instead of being moved
configure(d) ==
  LET put(g) == setboard(g, d.tolig, d.tocol, IF d.piece = VOID THEN PAWN ELSE d.piece, configside)
  IN  /\ NewMove(IF configside = WHITE THEN "white" ELSE "black")
      /\ node'  = linked([d EXCEPT !.piece = IF @ = VOID THEN PAWN ELSE @])
      /\ board' = [board EXCEPT ![tos] = put(@)]
      /\ UNCHANGED <<pc, status, error_flag, dr, out, base>>

\* history: where the turn is set anew, a reader of the output has to be told
mark(n) == [k |-> "mark", move |-> n.move, white |-> n.whiteturn]

\* a token that is no move leaves a move behind it all the same
misread(d) ==
  /\ NewMove("nothing") /\ node' = linked(d)
  /\ out' = Append(out, mark(d))
  /\ UNCHANGED <<pc, status, error_flag, board, dr, base>>

parsed(p) ==
  /\ IF p.etat # TML THEN misread(p.d)
     ELSE IF configuring /\ p.num # 17 THEN configure(p.d)
     ELSE execute_move(p.d)
  /\ UNCHANGED <<chain, nboards, tos, stack, shown, parser>>

parse_move(spelling) == parsed(parse(in_language, add_trailing_move(m), spelling))

parse_roque(type) ==
  /\ execute_move([init_parse(add_trailing_move(m)) EXCEPT !.type = type])
  /\ UNCHANGED <<chain, nboards, tos, stack, shown, parser>>

-----------------------------------------------------------------------------
(***************************************************************************)
(* Variations.                                                             *)
(***************************************************************************)
\* mutant: the variation is linked to the move itself, over one that hangs there
insert_here(mo) == mo

\* The last of the variations that hang from mo: the next is linked there.
insertion_point(mo) ==
  LET ip[x \in DOMAIN node] == IF node[x].sub = NULL THEN x ELSE ip[node[x].sub]
  IN  ip[mo]

\* The head of a variation of mo: no move, with the turn before mo's.
add_variation(mo) ==
  LET prev == node[mo].prev
      head == [new_move(uid) EXCEPT !.prev = mo]
  IN  IF prev = NULL THEN head
      ELSE [head EXCEPT !.whiteturn = node[prev].whiteturn, !.move = node[prev].move]

enter_variation ==
  LET l    == dr.variation
      top  == nboards + 1
      ip   == insertion_point(m)
      prev == node[m].prev
      nodes == [x \in DOMAIN node \cup {uid} |->
                  IF x = uid THEN add_variation(m) ELSE IF x = ip THEN [node[x] EXCEPT !.sub = uid] ELSE node[x]]
      saved == board[tos]
  IN  /\ IF l >= VARIATION_MAX
         THEN error_flag' = TRUE /\ UNCHANGED <<pc, status, heap, dr, out, did>>
         ELSE /\ stack' = [stack EXCEPT ![l] = [d |-> m, b |-> tos, d1 |-> dr.iswhiteturn, d2 |-> TRUE]]
              /\ counter' = uid /\ did' = Append(did, "branch")
              /\ tos' = top /\ nboards' = top
              /\ IF prev = NULL      \* fatal: the saved board is freed with the others
                 THEN /\ exit("1")
                      /\ node'  = [x \in DOMAIN nodes \ (under(nodes, chain) \cup {chain}) |-> nodes[x]]
                      /\ board' = [b \in DOMAIN board \ ({stack[i].b : i \in 0 .. l - 1} \cup {tos})
                                     |-> board[b]]
                      /\ UNCHANGED <<m, dr, out>>
                 ELSE /\ m' = uid /\ node' = nodes
                      /\ board' = [b \in DOMAIN board \cup {top} |->
                                     IF b = top THEN undo_move(saved, node[m]) ELSE board[b]]
                      /\ dr' = [dr EXCEPT !.variation = l + 1, !.interrupt = TRUE]
                      /\ out' = output_variation(dr, out, "in")
                      /\ UNCHANGED <<pc, status>>
              /\ UNCHANGED <<chain, error_flag>>
      /\ UNCHANGED <<shown, parser, base>>

exit_variation ==
  /\ IF dr.variation = 0
     THEN error_flag' = TRUE /\ UNCHANGED <<heap, dr, out>>
     ELSE LET e == stack[dr.variation - 1]
          IN  /\ board' = [b \in DOMAIN board \ {tos} |-> board[b]]
              /\ m' = e.d /\ tos' = e.b
              /\ dr' = [dr EXCEPT !.iswhiteturn = e.d1, !.interrupt = e.d2, !.variation = @ - 1]
              /\ out' = output_variation(dr, out, "out")
              /\ UNCHANGED <<node, counter, chain, nboards, stack, error_flag>>
  /\ UNCHANGED <<pc, status, shown, parser, did, base>>

-----------------------------------------------------------------------------
(***************************************************************************)
(* Keywords, numbers, comments and texts.                                  *)
(***************************************************************************)
\* @startplay, @whitesmove and @blacksmove renumber the last move.
renumber(kw) ==
  LET n == [node[m] EXCEPT !.move = IF kw = "blacksmove" THEN 1 ELSE 0, !.whiteturn = (kw = "blacksmove")]
  IN  /\ node' = [node EXCEPT ![m] = n]
      /\ out'  = Append(out, mark(n))
      /\ configuring' = (configuring /\ kw # "startplay")
      /\ UNCHANGED <<counter, m, chain, board, nboards, tos, stack, dr, in_language, configside, base>>

\* @clearboard, @default, @configwhite and @configblack start from the first
\* move again; the last two keep the board as it is.
restart(kw) ==
  LET g == CASE kw = "clearboard" -> clear_board
             [] kw = "default"    -> init_board
             [] OTHER             -> board[tos]
  IN  /\ m' = chain /\ node' = free_move_list(node, chain)
      /\ board' = [board EXCEPT ![tos] = g] /\ base' = g
      /\ configuring' = (configuring \/ kw \in {"configwhite", "configblack"})
      /\ configside'  = CASE kw = "configwhite" -> WHITE [] kw = "configblack" -> BLACK
                          [] OTHER -> configside
      /\ out' = Append(out, mark(node[chain]))
      /\ UNCHANGED <<counter, chain, nboards, tos, stack, dr, in_language>>

parse_keyword(kw, text) ==
  /\ CASE kw \in {"startplay", "whitesmove", "blacksmove"} -> renumber(kw)
       [] kw \in {"clearboard", "default", "configwhite", "configblack"} -> restart(kw)
       [] kw = "showboard" ->
            LET w == output_board(dr, out)
            IN  dr' = w.dr /\ out' = w.out
                /\ UNCHANGED <<heap, in_language, configuring, configside, base>>
       [] kw \in {"title", "subtitle", "score"} ->
            out' = output_text(dr, out)
            /\ UNCHANGED <<heap, dr, in_language, configuring, configside, base>>
       [] kw = "special" ->
            out' = Append(out, [k |-> "text"])
            /\ UNCHANGED <<heap, dr, in_language, configuring, configside, base>>
       [] kw = "language" ->
            in_language' = (IF text \in DOMAIN c_language THEN text ELSE in_language)
            /\ UNCHANGED <<heap, dr, out, configuring, configside, base>>
       [] OTHER -> UNCHANGED <<heap, dr, out, in_language, configuring, configside, base>>
  /\ UNCHANGED <<pc, status, error_flag, shown, movecount, did>>

\* a number is only remembered: the tool numbers the moves itself
parse_number(n) ==
  /\ movecount' = n
  /\ UNCHANGED <<pc, status, error_flag, heap, dr, shown, in_language, configuring, configside, out, did, base>>

\* a text, or a comment: one the tables do not hold is dropped
parse_comment(known) ==
  /\ out' = IF known THEN output_text(dr, out) ELSE out
  /\ UNCHANGED <<pc, status, error_flag, heap, dr, shown, parser, did, base>>

-----------------------------------------------------------------------------
(***************************************************************************)
(* The scanner: one rule of yylex for each kind of token.                  *)
(***************************************************************************)
\* the tokens that look into the current move
Derefs(t) == \/ t.k \in {"move", "roque", "in"}
             \/ t.k = "keyword" /\ t.v \in {"startplay", "whitesmove", "blacksmove"}

\* What the manual asks of an input, and what it leaves unsaid: a move stands
\* between two levels of variation, the play is only set up again outside of
\* every variation, and the turn is only set before the first move.
Fair(t) ==
  CASE t.k = "in"      -> did[m] # "branch"
    [] t.k = "keyword" ->
         /\ t.v \in {"clearboard", "default", "configwhite", "configblack"} => dr.variation = 0
         /\ t.v \in {"startplay", "whitesmove", "blacksmove"} => did[m] \in {"head"} \cup Placed
    [] OTHER -> TRUE

rule(t) ==
  CASE t.k = "move"    -> parse_move(t.v)
    [] t.k = "roque"   -> parse_roque(t.v)
    [] t.k = "number"  -> parse_number(t.v)
    [] t.k = "comment" -> parse_comment(t.v)
    [] t.k = "keyword" -> parse_keyword(t.v, t.text)
    [] t.k = "in"      -> enter_variation
    [] t.k = "out"     -> exit_variation

\* A token that looks into a move already freed: what follows is undefined.
undefined ==
  /\ pc' = "undefined"
  /\ UNCHANGED <<status, error_flag, heap, dr, shown, parser, out, did, base>>

yylex ==
  /\ pc = "reading" /\ pos < Len(Inputs[input])
  /\ \E i \in DOMAIN Inputs[input][pos + 1] :
       LET t == Inputs[input][pos + 1][i]
       IN  IF Derefs(t) /\ m \notin DOMAIN node THEN undefined
           ELSE /\ IF Disciplined THEN Fair(t) ELSE TRUE
                /\ rule(t)
  /\ pos' = pos + 1 /\ UNCHANGED input

\* The input ends: the board is displayed, and everything is freed.
EndOfInput ==
  /\ pc = "reading"
  /\ LET w == output_board(dr, out)
     IN  /\ out' = IF error_flag THEN w.out ELSE output_end(w.dr, w.out)
         /\ dr'  = w.dr
  /\ exit(IF error_flag THEN "1" ELSE "0")
  /\ free_resources(node, board)
  /\ UNCHANGED <<input, pos, error_flag, counter, m, chain, nboards, tos, stack, shown, parser, did, base>>

Empty == [x \in {} |-> 0]

Init ==
  /\ pc = "start" /\ status = "none"
  /\ input \in DOMAIN Inputs /\ pos = 0
  /\ error_flag = FALSE
  /\ node = Empty /\ counter = 0 /\ m = NULL /\ chain = NULL
  /\ board = Empty /\ nboards = 0 /\ tos = NULL
  /\ stack = [l \in 0 .. VARIATION_MAX - 1 |-> [d |-> NULL, b |-> NULL, d1 |-> FALSE, d2 |-> FALSE]]
  /\ dr = new_driver /\ shown = [moves |-> <<>>, stop |-> FALSE]
  /\ in_language = DEFAULT_LANGUAGE /\ configuring = FALSE /\ configside = VOID /\ movecount = 1
  /\ out = <<>> /\ did = <<>> /\ base = clear_board

Next == notation_main \/ yylex \/ EndOfInput

Spec == Init /\ [][Next]_vars
-----------------------------------------------------------------------------
(***************************************************************************)
(* Properties.                                                             *)
(***************************************************************************)
\* the board a move is done on, as execute_move changes it: a pawn taken
\* "en passant" is removed by the check before the move is done
forward(g, n) ==
  do_move(IF n.type = EN_PASSANT THEN clsboard(g, n.fromlig, n.tocol) ELSE g, n)

\* the board on which a piece of the given colour was put instead
placing(g, n, colour) ==
  setboard(g, n.tolig, n.tocol, n.piece, IF colour = "white" THEN WHITE ELSE BLACK)

\* the board after node x, played from the beginning along x's own line: the
\* first node of a variation stands where the move it replaces was played
Position ==
  LET P[x \in DOMAIN node] ==
        CASE x = chain -> base
          [] did[x] = "branch" -> P[node[node[x].prev].prev]
          [] did[x] = "move"   -> forward(P[node[x].prev], node[x])
          [] did[x] \in Placed -> placing(P[node[x].prev], node[x], did[x])
          [] OTHER -> P[node[x].prev]
  IN  P

\* whether x's line starts, at some level, where a move was taken back that
\* undo_move does not take back exactly
Inexact ==
  LET I[x \in DOMAIN node] ==
        IF x = chain THEN FALSE
        ELSE LET p == node[x].prev
             IN  IF did[x] = "branch"
                 THEN \/ p = chain \/ did[p] # "move"
                      \/ ~Exact(Position[node[p].prev], node[p])
                      \/ I[node[p].prev]
                 ELSE I[p]
  IN  I

Lines == {<<tos, m>>} \cup {<<stack[l].b, stack[l].d>> : l \in 0 .. dr.variation - 1}

TypeOK ==
  /\ pc \in {"start", "reading", "ended", "undefined"}
  /\ status \in {"none", "0", "1"}
  /\ dr.variation \in 0 .. VARIATION_MAX
  /\ \A b \in DOMAIN board : board[b] \in Boards
  /\ \A x \in DOMAIN node : /\ node[x].type \in VOID .. PROM_ET_PRISE
                            /\ node[x].piece \in VOID .. PAWN
                            /\ {node[x].next, node[x].prev, node[x].sub} \subseteq 0 .. counter

\* The heap is sound: while the tool reads, the boards are those of the open
\* lines, one each, every move is reached from the head of the chain, and the
\* current move and the suspended ones are among them; at every exit nothing
\* is left allocated and nothing is freed that is not (add_variation,
\* enter_variation, exit_variation, free_move_list, free_resources).
MemorySound ==
  /\ pc = "reading" =>
       /\ DOMAIN board = {ln[1] : ln \in Lines}
       /\ Cardinality(DOMAIN board) = dr.variation + 1
       /\ DOMAIN node = under(node, chain) \cup {chain}
       /\ \A ln \in Lines : ln[2] \in DOMAIN node
  /\ pc = "ended" => node = Empty /\ board = Empty
  /\ pc # "undefined"

\* Every open line has its own position: the current board and each suspended
\* one is what its line's moves give when they are played from the start,
\* however many variations were entered and left and however often output
\* took a move back to look for ambiguity (do_move, undo_move, ambiguity).
BoardOfLine ==
  pc = "reading" => \A ln \in Lines : ~Inexact[ln[2]] => board[ln[1]] = Position[ln[2]]

\* What a reader of the output knows at each bracket level: the turn of the
\* last move and of the one before it, and whether a black move may stand here
\* without a number.  A mark tells the turn, and leaves that form open.
turn(move, white) == [move |-> move, white |-> white]
after(t) == turn(IF t.white THEN t.move ELSE t.move + 1, ~t.white)

Sheet ==
  LET line(last, before, bare) == [last |-> last, before |-> before, bare |-> bare]
      right(top, i) ==
        LET t == after(top.last)
        IN  /\ i.white = t.white
            /\ i.num \in {0, t.move}
            /\ IF i.white THEN i.num # 0 ELSE (i.num = 0) \in top.bare
            /\ i.dots = (~i.white /\ i.num # 0)
      read(a, i) ==
        LET n    == Len(a.lines)
            top  == a.lines[n]
            t    == after(top.last)
            interrupted == [a EXCEPT !.lines[n].bare = {FALSE}]
        IN  CASE i.k = "in" ->
                   [interrupted EXCEPT !.lines = Append(@, line(top.before, top.before, {FALSE}))]
              [] i.k = "out"   -> [a EXCEPT !.lines = SubSeq(@, 1, n - 1)]
              [] i.k = "mark"  -> [a EXCEPT !.lines[n] = line(turn(i.move, i.white), top.last, BOOLEAN)]
              [] i.k = "move"  -> [ok |-> a.ok /\ right(top, i),
                                   lines |-> [a.lines EXCEPT ![n] = line(t, top.last, {t.white})]]
              [] i.k = "board" -> interrupted
              [] OTHER -> a
      start == turn(0, FALSE)
  IN  FoldLeft(read, [lines |-> <<line(start, start, BOOLEAN)>>, ok |-> TRUE], out)

\* The sheet can be read alone: going through the output with one turn per
\* bracket level, every move has the number and colour expected there, and a
\* black move comes without a number exactly when it follows white's move of
\* the same level with nothing but texts between them (add_variation's
\* numbering, the turn saved on the stack, dr->interrupt, flush_buffer).
SheetConsistent ==
  dr.type \notin Replayers => Sheet.ok

\* the symbols of a written text
Spelling(txt, lang) ==
  LET opt(c, s) == IF c THEN <<s>> ELSE <<>>
      letter(p) == [k |-> "letter", v |-> c_language[lang][p + 1]]
      col(c) == opt(c # 0, [k |-> "col", v |-> c])
      lig(l) == opt(l # 0, [k |-> "lig", v |-> l])
  IN  opt(txt.piece # PAWN, letter(txt.piece)) \o col(txt.debcol) \o col(txt.from[1]) \o lig(txt.from[2])
      \o opt(txt.lie # "none", [k |-> txt.lie, v |-> 0]) \o col(txt.to[1]) \o lig(txt.to[2])
      \o (IF txt.prom # VOID THEN <<[k |-> "=", v |-> 0], letter(txt.prom)>> ELSE <<>>)

\* The moves the text may leave open: several pieces reach the square and they
\* are neither on one line nor on one column.
Apart(g, n) ==
  LET amb == ambiguity(do_move(g, n), n)
  IN  amb.ambigue /\ ~amb.amline /\ ~amb.amcols

\* A written move reads back as itself: the text just written, given to the
\* tool's own parser on the board the move was played on, is understood and
\* gives the same origin and destination, except where Apart leaves it open.
\* The tool does not read the forms "3e4" and, for "en passant", "xd6" that it
\* writes itself (text_of, ambiguity, the automaton, guess_depl).
ReadsBack ==
  LET i == out[Len(out)]
      n == node[i.uid]
      g == Position[n.prev]
      p == parse(dr.out_table, [n EXCEPT !.type = VOID], Spelling(i.txt, dr.out_table))
      Ends(d) == <<d.fromlig, d.fromcol, d.tolig, d.tocol>>
  IN  (/\ pc = "reading" /\ dr.type \in {"ascii", "roff"}
       /\ out # <<>> /\ i.k = "move" /\ i.uid \in DOMAIN node /\ ~Inexact[i.uid]
       /\ i.txt.roque = VOID /\ ~Apart(g, n)) =>
      IF p.etat = TML
      THEN Ends(played(g, p.d).m) = Ends(n)
      ELSE \/ n.type \in {EN_PASSANT, PROM_ET_PRISE}
           \/ i.txt.from[1] = 0 /\ i.txt.from[2] # 0
=============================================================================
