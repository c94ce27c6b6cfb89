----------------------------- MODULE MCChatTurn -----------------------------
(* ChatTurn for TLC: a submitted message and two regenerations.  History    *)
(* stops at three rows, so that a fourth hides the message.                 *)
EXTENDS ChatTurn

CONSTANTS s, r1, r2

OneSubmit == {s}
TwoRegenerates == {r1, r2}
OneCalling == {r1}
=============================================================================
