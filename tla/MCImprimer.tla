------------------------------ MODULE MCImprimer ------------------------------
(* Instances of Imprimer.                                                  *)
EXTENDS Imprimer, TLC

CONSTANTS ps, txt

(* Printer 0 prints ps, printer 1 text.                                    *)
PsTxt == 0 :> ps @@ 1 :> txt
OnlyPs == 0 :> ps

(* A file for any printer; a file for printer 0 alone.                     *)
AnyFile  == {[type |-> ps, eligible |-> {0, 1}]}
AnyPs    == {[type |-> ps, eligible |-> {0}]}
PsToTxt  == {<<ps, txt>>}
=============================================================================
