---------------------------- MODULE MCProgramStop ----------------------------
(* ProgramStop for TLC: up to three events queued at once, enough for a   *)
(* stop request to wait behind two others posted in every phase.         *)
EXTENDS ProgramStop
=============================================================================
