--------------------------- MODULE MCUserRegistry ---------------------------
(* A small instance of UserRegistry, with the bound on lost pointers.      *)
EXTENDS UserRegistry, TLC

CONSTANT MaxLeaks     \* bound: pointers lost per USER

Bound == \A u \in Users : leaked[u] <= MaxLeaks

Symmetry == Permutations(Threads) \cup Permutations(Handles)
              \cup Permutations(Users) \cup Permutations(Pointers)
=============================================================================
