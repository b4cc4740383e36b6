----------------------------- MODULE MCPipeline -----------------------------
(* Pipeline for TLC; the bounds are given in the .cfg files. *)
EXTENDS Pipeline
=============================================================================
