------------------------------- MODULE MCSfmm -------------------------------
(***************************************************************************)
(* Instances of Sfmm for TLC.                                              *)
(***************************************************************************)
EXTENDS Sfmm
=============================================================================
