------------------------------- MODULE Board -------------------------------
(***************************************************************************)
(* The chess board of the notation tool (hw2/src/notation.c): the 10 x 10  *)
(* array of pieces and colours, the moves done on it and undone, and the   *)
(* search for the square a move comes from.  Everything here is a function *)
(* of a board g and of a move m (a depl record); the tool's state is in    *)
(* module Notation.  Lines ("lig") and columns run from 1 to 8 inside the  *)
(* frame of the array, whose border stays VOID.                            *)
(***************************************************************************)
EXTENDS Integers, Sequences


\* pieces and colours
VOID   == 0
KING   == 1
QUEEN  == 2
ROOK   == 3
BISHOP == 4
KNIGHT == 5
PAWN   == 6
WHITE  == 1
BLACK  == -1

\* types of moves
MOVE          == 1
PRISE         == 2
GRANDROQUE    == 3
PETITROQUE    == 4
EN_PASSANT    == 5
PROMOTION     == 6
PROM_ET_PRISE == 7

Roques == {GRANDROQUE, PETITROQUE}

SIZE    == 10
Squares == (0 .. SIZE - 1) \X (0 .. SIZE - 1)
Cells   == (VOID .. PAWN) \X (BLACK .. WHITE)
Boards  == [Squares -> Cells]

CURCOLOR(m) == IF m.whiteturn THEN WHITE ELSE BLACK
OPPCOLOR(m) == IF m.whiteturn THEN BLACK ELSE WHITE
home(m)     == IF m.whiteturn THEN 1 ELSE 8

-----------------------------------------------------------------------------
(***************************************************************************)
(* Writing the board.                                                      *)
(***************************************************************************)
setboard(g, l, c, p, col) == [g EXCEPT ![<<l, c>>] = <<p, col>>]
clsboard(g, l, c)         == [g EXCEPT ![<<l, c>>] = <<VOID, VOID>>]

clear_board == [s \in Squares |-> <<VOID, VOID>>]

init_board ==
  LET officers == <<ROOK, KNIGHT, BISHOP, QUEEN, KING, BISHOP, KNIGHT, ROOK>>
      piece(l, c) == IF l \in {1, 8} THEN officers[c] ELSE PAWN
  IN  [s \in Squares |->
         IF s[2] \in 1 .. 8 /\ s[1] \in {1, 2, 7, 8}
         THEN <<piece(s[1], s[2]), IF s[1] < 3 THEN WHITE ELSE BLACK>>
         ELSE <<VOID, VOID>>]

\* A castling has no squares of its own: doing it fills in its line.
castled(m) == IF m.type \in Roques THEN [m EXCEPT !.fromlig = home(m)] ELSE m

do_move(g, m) ==
  LET put == setboard(g, m.tolig, m.tocol, m.piece, CURCOLOR(m))
      h   == home(m)
      king(c) == setboard(g, h, c, KING, CURCOLOR(m))
  IN  CASE m.type \in {MOVE, PRISE, PROMOTION, PROM_ET_PRISE} ->
             clsboard(put, m.fromlig, m.fromcol)
        [] m.type = EN_PASSANT ->
             clsboard(clsboard(put, m.tolig, m.fromcol), m.fromlig, m.fromcol)
        [] m.type = GRANDROQUE ->
             clsboard(clsboard(setboard(king(3), h, 4, ROOK, CURCOLOR(m)), h, 1), h, 5)
        [] m.type = PETITROQUE ->
             clsboard(clsboard(setboard(king(7), h, 6, ROOK, CURCOLOR(m)), h, 5), h, 8)
        [] OTHER -> g

\* mutant: a catch is taken back as a move, without the piece it caught
undo_forgets(g, m) ==
  LET gone == clsboard(g, m.tolig, m.tocol)
  IN  IF m.type \in Roques \cup {VOID} THEN g
      ELSE setboard(gone, m.fromlig, m.fromcol, m.piece, CURCOLOR(m))

undo_move(g, m) ==
  LET h == home(m)
      back(b, p)   == setboard(b, m.fromlig, m.fromcol, p, CURCOLOR(m))
      unking(b, c) == setboard(setboard(b, h, 5, KING, CURCOLOR(m)), h, c, ROOK, CURCOLOR(m))
      gone    == clsboard(g, m.tolig, m.tocol)
      retaken == setboard(g, m.tolig, m.tocol, m.prise, OPPCOLOR(m))
  IN  CASE m.type = MOVE          -> back(gone, m.piece)
        [] m.type = PRISE         -> back(retaken, m.piece)
        [] m.type = GRANDROQUE    -> unking(clsboard(clsboard(g, h, 3), h, 4), 1)
        [] m.type = PETITROQUE    -> unking(clsboard(clsboard(g, h, 6), h, 7), 8)
        [] m.type = EN_PASSANT    ->
             back(setboard(gone, m.tolig, m.fromcol, PAWN, OPPCOLOR(m)), m.piece)
        [] m.type = PROMOTION     -> back(gone, PAWN)
        [] m.type = PROM_ET_PRISE -> back(retaken, PAWN)
        [] OTHER -> g

-----------------------------------------------------------------------------
(***************************************************************************)
(* The movement tables, as displacements <<lines, columns>>.               *)
(***************************************************************************)
Ray(l, c) == [i \in 1 .. 7 |-> <<(8 - i) * l, (8 - i) * c>>]

m_pawn_move(up) == <<<<up, 0>>, <<2 * up, 0>>>>
m_pawn_x(up)    == <<<<up, 1>>, <<up, -1>>>>
\* the catching moves come after the others: the first match is taken
m_pawn(up)      == m_pawn_move(up) \o m_pawn_x(up)
m_knight == <<<<2, 1>>, <<2, -1>>, <<-2, 1>>, <<-2, -1>>,
              <<1, 2>>, <<1, -2>>, <<-1, 2>>, <<-1, -2>>>>
m_bishop == Ray(1, 1) \o Ray(1, -1) \o Ray(-1, -1) \o Ray(-1, 1)
m_rook   == Ray(1, 0) \o Ray(-1, 0) \o Ray(0, 1) \o Ray(0, -1)
m_queen  == m_bishop \o m_rook
m_king   == <<<<1, 1>>, <<1, 0>>, <<1, -1>>, <<-1, 1>>,
              <<-1, 0>>, <<-1, -1>>, <<0, 1>>, <<0, -1>>>>

up(m) == IF m.whiteturn THEN 1 ELSE -1

-----------------------------------------------------------------------------
(***************************************************************************)
(* Where a move comes from.                                                *)
(***************************************************************************)
in_board(l, c) == l \in 1 .. 8 /\ c \in 1 .. 8

\* the squares strictly between two squares of a line, a column or a diagonal
path_free(g, l1, c1, l2, c2) ==
  LET sgn(x) == IF x > 0 THEN 1 ELSE IF x < 0 THEN -1 ELSE 0
      far    == IF l1 = l2 THEN sgn(c2 - c1) * (c2 - c1) ELSE sgn(l2 - l1) * (l2 - l1)
  IN  \A k \in 1 .. far - 1 :
        g[<<l1 + k * sgn(l2 - l1), c1 + k * sgn(c2 - c1)>>][1] = VOID

\* The squares, in the order of the table, that hold m's piece in m's colour
\* and from which it reaches m's destination; l1 or c1 = 0 leaves that
\* coordinate open (alternate_moves, of which the first is the guess).
guess_depl(g, m, tab, l1, c1, path) ==
  LET origin == [i \in DOMAIN tab |-> <<m.tolig - tab[i][1], m.tocol - tab[i][2]>>]
      fits(s) == /\ in_board(s[1], s[2])
                 /\ g[s] = <<m.piece, CURCOLOR(m)>>
                 /\ path => path_free(g, s[1], s[2], m.tolig, m.tocol)
                 /\ l1 \in {0, s[1]}
                 /\ c1 \in {0, s[2]}
      found[i \in 0 .. Len(tab)] ==
        IF i = 0 THEN <<>>
        ELSE IF fits(origin[i]) THEN Append(found[i - 1], origin[i]) ELSE found[i - 1]
  IN  found[Len(tab)]

\* the table of m's piece, a pawn's being given, and whether its path matters
alternates(g, m, pawn, l1, c1) ==
  CASE m.piece = PAWN   -> guess_depl(g, m, pawn, l1, c1, FALSE)
    [] m.piece = KNIGHT -> guess_depl(g, m, m_knight, l1, c1, FALSE)
    [] m.piece = BISHOP -> guess_depl(g, m, m_bishop, l1, c1, TRUE)
    [] m.piece = ROOK   -> guess_depl(g, m, m_rook, l1, c1, TRUE)
    [] m.piece = QUEEN  -> guess_depl(g, m, m_queen, l1, c1, TRUE)
    [] m.piece = KING   -> guess_depl(g, m, m_king, l1, c1, TRUE)
    [] OTHER -> <<>>

pawn_table(m) == IF m.prise # VOID THEN m_pawn_x(up(m)) ELSE m_pawn(up(m))

\* m with the first of its origins filled in, and whether it has one.
with_origin(m, alt) ==
  IF alt = <<>> THEN [ok |-> m.fromlig # 0 /\ m.fromcol # 0, m |-> m]
  ELSE [ok |-> TRUE, m |-> [m EXCEPT !.fromlig = alt[1][1], !.fromcol = alt[1][2]]]

guess_move(g, m) ==
  IF m.type \in Roques THEN [ok |-> TRUE, m |-> m]
  ELSE with_origin(m, alternates(g, m, pawn_table(m), m.fromlig, m.fromcol))

\* amline (amcols): all the origins are on one line (column).
compared(g, alt) ==
  [board   |-> g,
   ambigue |-> Len(alt) > 1,
   amline  |-> \A i \in DOMAIN alt : alt[i][1] = alt[1][1],
   amcols  |-> \A i \in DOMAIN alt : alt[i][2] = alt[1][2]]

\* ambiguity: the origins m could have had, looked for on the board without it.
ambiguity(g, m) ==
  LET b    == undo_move(g, m)
      pawn == IF m.type = PRISE THEN m_pawn_x(up(m)) ELSE m_pawn_move(up(m))
  IN  compared(do_move(b, m), alternates(b, m, pawn, 0, 0))

check_roque(g, m) ==
  \A c \in (IF m.type = GRANDROQUE THEN 2 .. 4 ELSE 6 .. 6) : g[<<home(m), c>>][1] = VOID

\* check_move: whether m may be played on g, with what the check itself changes:
\* the type of a castling or an "en passant", and the board, from which the
\* pawn taken "en passant" is removed here.
check_move(g, m) ==
  LET from == <<m.fromlig, m.fromcol>>
      to   == <<m.tolig, m.tocol>>
      wide == /\ m.piece = KING
              /\ m.fromcol - m.tocol \in {2, -2}
              /\ m.fromlig = m.tolig /\ m.fromlig \in {1, 8}
      n    == IF ~wide THEN m
              ELSE [m EXCEPT !.type = IF m.fromcol < m.tocol THEN PETITROQUE ELSE GRANDROQUE]
      fits == /\ g[from] = <<m.piece, CURCOLOR(m)>>
              /\ g[to][1] = VOID \/ m.type \in {PRISE, PROM_ET_PRISE}
              /\ m.prise = VOID \/ g[to][2] # g[from][2]
      passing == /\ m.piece = PAWN
                 /\ m.fromcol # m.tocol
                 /\ g[to][1] = VOID
                 /\ g[<<m.fromlig, m.tocol>>][1] = PAWN
      reached == \/ m.piece = VOID
                 \/ alternates(g, m, pawn_table(m), m.fromlig, m.fromcol) # <<>>
  IN  IF n.type \in Roques THEN [ok |-> check_roque(g, n), m |-> n, board |-> g]
      ELSE IF ~fits THEN [ok |-> FALSE, m |-> m, board |-> g]
      ELSE IF passing
      THEN [ok |-> TRUE, m |-> [m EXCEPT !.type = EN_PASSANT],
            board |-> clsboard(g, m.fromlig, m.tocol)]
      ELSE [ok |-> reached, m |-> m, board |-> g]

\* The piece and the catch of m read from the board, where its squares are known.
named(m) == IF m.piece = VOID THEN [m EXCEPT !.piece = PAWN] ELSE m

taking(g, m) ==
  LET held  == IF m.fromlig # 0 \/ m.fromcol # 0
               THEN [m EXCEPT !.piece = g[<<m.fromlig, m.fromcol>>][1]] ELSE m
      catch == g[<<m.tolig, m.tocol>>][1]
  IN  IF catch # VOID THEN [held EXCEPT !.type = PRISE, !.prise = catch] ELSE held

\* The move checked and, legal or not, done.
checked(guessed, c) ==
  [ok |-> guessed.ok /\ c.ok, m |-> castled(c.m), board |-> do_move(c.board, c.m)]

\* execute_move up to the board.
played(g, m) ==
  LET guessed == IF m.fromlig = 0 \/ m.fromcol = 0 THEN guess_move(g, named(m))
                 ELSE [ok |-> TRUE, m |-> named(m)]
  IN  checked(guessed, check_move(g, taking(g, guessed.m)))

-----------------------------------------------------------------------------
(***************************************************************************)
(* When undoing is the inverse of doing.                                   *)
(***************************************************************************)
Exact(g, m) ==
  LET from == <<m.fromlig, m.fromcol>>
      to   == <<m.tolig, m.tocol>>
      h    == home(m)
      void == <<VOID, VOID>>
      king == g[<<h, 5>>] = <<KING, CURCOLOR(m)>>
      rook(c) == g[<<h, c>>] = <<ROOK, CURCOLOR(m)>>
  IN  CASE m.type = MOVE          -> g[to] = void /\ g[from] = <<m.piece, CURCOLOR(m)>>
        [] m.type = PRISE         -> g[to] = <<m.prise, OPPCOLOR(m)>> /\ g[from] = <<m.piece, CURCOLOR(m)>>
        [] m.type = PROMOTION     -> g[to] = void /\ g[from] = <<PAWN, CURCOLOR(m)>>
        [] m.type = PROM_ET_PRISE -> g[to] = <<m.prise, OPPCOLOR(m)>> /\ g[from] = <<PAWN, CURCOLOR(m)>>
        [] m.type = GRANDROQUE    -> king /\ rook(1) /\ g[<<h, 3>>] = void /\ g[<<h, 4>>] = void
        [] m.type = PETITROQUE    -> king /\ rook(8) /\ g[<<h, 6>>] = void /\ g[<<h, 7>>] = void
        [] OTHER -> FALSE
=============================================================================
