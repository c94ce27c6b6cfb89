---------------------------- MODULE MCMemorySync ----------------------------
(* MemorySync for TLC: two turns of one conversation. *)
EXTENDS MemorySync

CONSTANTS t1, t2

TwoTurns == {t1, t2}
=============================================================================
