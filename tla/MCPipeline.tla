----------------------------- MODULE MCPipeline -----------------------------
(***************************************************************************)
(* Instance of Pipeline: a network that only loses packets, or one that    *)
(* also reorders and duplicates them.                                      *)
(***************************************************************************)
EXTENDS Pipeline
==============================================================================
