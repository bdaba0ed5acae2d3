-------------------------- MODULE MCClientRegistry --------------------------
(* Instances of ClientRegistry.                                            *)
EXTENDS ClientRegistry, TLC

CONSTANTS c1, c2, c3

(* Two clients that talk, and one that only takes a slot.                  *)
OneOneNone == c1 :> 1 @@ c2 :> 1 @@ c3 :> 0
TwoTwo     == c1 :> 2 @@ c2 :> 2
=============================================================================
