------------------------------ MODULE MCToolLoop ------------------------------
(* A small instance of ToolLoop.tla for TLC: one ordinary tool, one handoff. *)
EXTENDS ToolLoop

CONSTANTS search, escalate
=============================================================================
