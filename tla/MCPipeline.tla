----------------------------- MODULE MCPipeline -----------------------------
(* Instances of Pipeline: up to three conversions, and a file that is      *)
(* larger than a pipe.                                                     *)
EXTENDS Pipeline
=============================================================================
