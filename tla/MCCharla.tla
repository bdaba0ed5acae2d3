------------------------------ MODULE MCCharla ------------------------------
(* Small instances of the server: who sends what to whom.                  *)
EXTENDS Charla

CONSTANTS a, b

From(x, y, id) == [id |-> id, from |-> x, to |-> y]

OneWay == {From(a, b, 1), From(a, b, 2), From(a, a, 3)}
TwoWay == {From(a, b, 1), From(b, a, 2)}
OneMessage == {From(a, b, 1)}
NoTraffic == {}

(* Messages that differ in the id only are sent in the order of their ids: *)
(* to exchange two of them changes nothing, so no behaviour is lost.       *)
IdsInOrder ==
  \A x \in unsent \ unsent' : \A y \in unsent :
    x.from = y.from /\ x.to = y.to => x.id <= y.id
=============================================================================
