--------------------------- MODULE MCClientLogin ---------------------------
(* Small instances of the login of clients.                                *)
EXTENDS ClientLogin, TLC

Symmetry == Permutations(Handles) \cup Permutations(Users)
=============================================================================
