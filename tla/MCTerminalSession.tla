------------------------- MODULE MCTerminalSession -------------------------
(***************************************************************************)
(* TerminalSession with two calls that may overlap, one of them with a     *)
(* diff to review, and a command that never overlaps.                      *)
(***************************************************************************)
EXTENDS TerminalSession

MCCall == {"write_file", "spawn_subagent", "bash"}
MCParallel == {"write_file", "spawn_subagent"}
MCWithDiff == {"write_file"}
=============================================================================
