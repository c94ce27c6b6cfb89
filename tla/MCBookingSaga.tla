---------------------------- MODULE MCBookingSaga ----------------------------
(* Constants for TLC: two calls that carry the same idempotency key. *)
EXTENDS BookingSaga

CONSTANTS b1, b2, shared

KeyOfCall == [c \in Calls |-> shared]

=============================================================================
