---------------------------- MODULE MCMessageHook ----------------------------
(* Instances of MessageHook for TLC. *)
EXTENDS MessageHook, TLC

CONSTANTS a1, a2
=============================================================================
