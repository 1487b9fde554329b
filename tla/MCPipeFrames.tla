---------------------------- MODULE MCPipeFrames -----------------------------
(* Instances of PipeFrames for TLC. *)
EXTENDS PipeFrames
==============================================================================
