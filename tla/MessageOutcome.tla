--------------------------- MODULE MessageOutcome ---------------------------
(***************************************************************************)
(* What the job layer promises about one message, without runs, locks or   *)
(* time: it is settled at most once, acknowledged only when a handler has  *)
(* processed it, and whether it was processed is never forgotten.  A run   *)
(* that outlives its delivery may still process a dead-lettered message.   *)
(***************************************************************************)
CONSTANT Messages

VARIABLES
    outcome,   \* [Messages -> "pending", "acked" or "dlq"]
    processed  \* the messages some handler run has returned for

vars == <<outcome, processed>>

Init ==
    /\ outcome = [m \in Messages |-> "pending"]
    /\ processed = {}

Process(m) ==
    /\ processed' = processed \cup {m}
    /\ UNCHANGED outcome

Acknowledge(m) ==
    /\ outcome[m] = "pending" /\ m \in processed
    /\ outcome' = [outcome EXCEPT ![m] = "acked"]
    /\ UNCHANGED processed

DeadLetter(m) ==
    /\ outcome[m] = "pending"
    /\ outcome' = [outcome EXCEPT ![m] = "dlq"]
    /\ UNCHANGED processed

Next == \E m \in Messages : Process(m) \/ Acknowledge(m) \/ DeadLetter(m)

Spec == Init /\ [][Next]_vars

=============================================================================
