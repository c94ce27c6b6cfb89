---------------------------- MODULE MCQstashJob -----------------------------
(* Constants for TLC: few faults of each kind. *)
EXTENDS QstashJob, TLC

\* One fault of every kind, but a throw on every attempt except one.
FaultsMixed == [k \in FaultKinds |-> IF k = "throw" THEN MaxRetries ELSE 1]

=============================================================================
