----------------------------- MODULE MCNotation -----------------------------
(***************************************************************************)
(* Instances of Notation: short games with the letters of the english       *)
(* notation, each a sequence of the tokens that may come next.             *)
(***************************************************************************)
EXTENDS Notation

P(l)     == [k |-> "letter", v |-> l]
Sq(c, l) == <<[k |-> "col", v |-> c], [k |-> "lig", v |-> l]>>
X        == [k |-> "x", v |-> 0]
Dash     == [k |-> "-", v |-> 0]
Eq       == [k |-> "=", v |-> 0]
Col(c)   == [k |-> "col", v |-> c]

Mv(s)  == [k |-> "move", v |-> s]
Pawn(c, l) == Mv(Sq(c, l))                   \* e4
Pc(p, c, l) == Mv(<<P(p)>> \o Sq(c, l))      \* Nf3
PcX(p, c, l) == Mv(<<P(p), X>> \o Sq(c, l))  \* Nxe5
Alg(c1, l1, c2, l2) == Mv(Sq(c1, l1) \o <<Dash>> \o Sq(c2, l2))
AlgX(c1, l1, c2, l2) == Mv(Sq(c1, l1) \o <<X>> \o Sq(c2, l2))
ColX(c1, c, l) == Mv(<<Col(c1), X>> \o Sq(c, l))
Kw(w)  == [k |-> "keyword", v |-> w, text |-> ""]
In     == [k |-> "in"]
Out    == [k |-> "out"]
Note   == [k |-> "comment", v |-> TRUE]
Num    == [k |-> "number", v |-> 2]
Short  == [k |-> "roque", v |-> PETITROQUE]
Long   == [k |-> "roque", v |-> GRANDROQUE]

Begin  == Kw("startplay")
French == [k |-> "keyword", v |-> "language", text |-> "french"]

e4 == Pawn(5, 4)
e5 == Pawn(5, 5)
d4 == Pawn(4, 4)
d5 == Pawn(4, 5)
Nf3 == Pc("N", 6, 3)
Nc6 == Pc("N", 3, 6)

\* variations, nested and following each other, comments and boards
Branches ==
  <<<<e4, d4>>, <<e5, d5, In>>, <<Nf3, d4, In, Note>>, <<e5, In, Out, d5>>,
    <<In, Out, Nc6, ColX(4, 5, 5)>>, <<Out, Nf3, Note>>, <<Out, Kw("showboard"), Nc6>>, <<e5, Out>>>>

\* variations to the limit and beyond
Deep ==
  <<<<e4>>, <<In>>, <<d4>>, <<In, Out>>, <<Nf3, d5>>, <<In, Out>>, <<Nc6, Out, In>>, <<Out, e5>>>>

\* castlings, a catch, and variations on them
Castling ==
  <<<<e4>>, <<e5>>, <<Nf3>>, <<Pc("N", 6, 6)>>, <<Pc("B", 3, 4), PcX("N", 5, 5)>>, <<d5, d4>>,
    <<Short, Alg(5, 1, 7, 1), Long, ColX(5, 4, 5)>>, <<In, PcX("N", 5, 4)>>, <<In, Pc("Q", 5, 2)>>, <<Out, Long>>>>

\* catches by pawns, "en passant" and others
Passing ==
  <<<<e4>>, <<d5, Pawn(3, 5)>>, <<e5, ColX(5, 4, 5), Pawn(3, 4)>>, <<PcX("Q", 4, 5), Pawn(6, 5), d5>>,
    <<ColX(5, 4, 6), ColX(5, 6, 6), ColX(3, 4, 5), Pawn(4, 4)>>,
    <<In, ColX(3, 4, 6), ColX(5, 4, 6)>>, <<Nf3, In>>>>

\* a position set up: pieces that reach a square from one line, one column or
\* neither, and pawns about to be promoted
SetUp(white, black) ==
  <<<<Kw("clearboard")>>, <<Kw("configwhite")>>>> \o white \o
  <<<<Kw("configblack")>>>> \o black \o <<<<Begin>>>>

Pieces ==
  SetUp(<<<<Pc("N", 2, 1), Pc("Q", 1, 4)>>, <<Pc("N", 6, 1), Pc("Q", 7, 1)>>, <<Pc("N", 6, 3), Pawn(7, 7)>>>>,
        <<<<Pc("R", 8, 8), Pawn(4, 7)>>>>)
  \o <<<<Mv(<<P("N"), Col(2)>> \o Sq(4, 2)), Pc("N", 7, 3), Pc("Q", 4, 1), Mv(Sq(7, 8) \o <<Eq, P("Q")>>),
        Mv(<<Col(7), X>> \o Sq(8, 8) \o <<Eq>>)>>,
       <<In, Pc("R", 8, 7), d5>>, <<Pc("N", 5, 5), In>>>>

\* rooks and doubled pawns
Files ==
  SetUp(<<<<Pc("R", 4, 1), Pawn(5, 2)>>, <<Pc("R", 4, 8), Pawn(5, 3)>>>>, <<<<Pawn(1, 7)>>>>)
  \o <<<<Alg(4, 1, 4, 4), Alg(4, 8, 4, 5), e4, Pawn(5, 4)>>, <<Pawn(1, 5), In>>, <<Pawn(1, 6), Kw("default")>>>>

\* letters of two languages, tokens that are not moves, numbers, texts
Letters ==
  <<<<Num, Kw("title"), Kw("blacksmove")>>, <<e4, e5>>, <<French, Pc("Z", 3, 3), [k |-> "comment", v |-> FALSE]>>,
    <<Pc("C", 6, 6), Pc("N", 6, 6), Pawn(5, 5)>>, <<Pc("D", 7, 4), Pc("Q", 7, 4), In, Kw("special")>>,
    <<Kw("unknown"), e5, d5>>>>

Games == <<Branches, Deep, Castling, Passing, Pieces, Files, Letters>>

o(c, v) == [o |-> c, v |-> v]
Cmds ==
  <<<<>>, <<o("a", 0)>>, <<o("d", "gnu"), o("s", 0)>>, <<o("d", "xchess")>>, <<o("d", "roff"), o("t", "french"), o("i", 0)>>,
    <<o("d", "postscript"), o("e", 2)>>, <<o("b", 0), o("f", "french")>>, <<o("c", <<1, 3>>)>>, <<o("d", "tex"), o("e", 2)>>,
    <<o("h", TRUE)>>, <<o("c", <<1, 2>>), o("c", <<3, 4>>)>>, <<o("f", "none"), o("file", FALSE)>>, <<o("v", 0), o("?", 0)>>>>
=============================================================================
