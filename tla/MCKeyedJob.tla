----------------------------- MODULE MCKeyedJob -----------------------------
(* Constants for TLC: two messages that carry the same business key. *)
EXTENDS KeyedJob, TLC

CONSTANT k1

OneKey == [m \in Messages |-> k1]

\* No kind is bounded below MaxFaults.
FaultsAny == [k \in FaultKinds |-> MaxFaults]

=============================================================================
