----------------------------- MODULE MCPipeline -----------------------------
(* Routes with any declared slots and up to two guards, which may add two  *)
(* keys.                                                                   *)
EXTENDS Pipeline
=============================================================================
