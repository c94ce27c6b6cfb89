------------------------------ MODULE JobLayer ------------------------------
(***************************************************************************)
(* What the layers around a job's handler - QStash, the message lock and   *)
(* the business key - may do to a job that has a business key of its own,  *)
(* without messages, locks or time.                                        *)
(*                                                                         *)
(* In a calm system a job is worked on by one run at a time, each attempt  *)
(* works once at most, only a job without attempts left is given up, and a *)
(* job that is done rests.  A fault of the layers themselves (a run that   *)
(* dies, an answer or a Redis call that is lost, a payload that is         *)
(* rejected) may cost attempts, end a job or hand it out again, at once or *)
(* later; one run at a time, and one for each attempt, it stays.           *)
(***************************************************************************)
EXTENDS Naturals

CONSTANTS
    Jobs,
    MaxAttempts   \* attempts QStash gives a job

VARIABLES
    job,   \* [Jobs -> where the job stands]
    left,  \* [Jobs -> attempts that may still get to the work]
    calm   \* whether no fault of the layers has happened

vars == <<job, left, calm>>

AtWork == {"working", "reworking"}

Init ==
    /\ job \in [Jobs -> {"none", "queued"}]
    /\ left = [j \in Jobs |-> MaxAttempts]
    /\ calm = TRUE

\* Job j comes to stand at s, with n attempts left.
Move(j, s, n) ==
    /\ job' = [job EXCEPT ![j] = s]
    /\ left' = [left EXCEPT ![j] = n]

Publish(j) ==
    /\ job[j] = "none"
    /\ Move(j, "queued", left[j])
    /\ UNCHANGED calm

\* An attempt gets to the work, behind a fault perhaps to that of a job that
\* is done already.
Start(j) ==
    /\ left[j] > 0
    /\ \/ /\ job[j] = "queued" \/ (~calm /\ job[j] = "lost")
          /\ Move(j, "working", left[j] - 1)
       \/ /\ ~calm /\ job[j] = "done"
          /\ Move(j, "reworking", left[j] - 1)
    /\ UNCHANGED calm

Finish(j) ==
    /\ job[j] \in AtWork
    /\ Move(j, "done", left[j])
    /\ UNCHANGED calm

\* Where a job with work to do stands when it has n attempts left.
Retried(n) == IF n > 0 THEN "queued" ELSE "dead"

\* The work throws.
Fail(j) ==
    /\ \/ job[j] = "working" /\ Move(j, Retried(left[j]), left[j])
       \/ job[j] = "reworking" /\ Move(j, "done", left[j])
    /\ UNCHANGED calm

\* An attempt fails before it gets to the work.
Refuse(j) ==
    /\ job[j] = "queued" /\ left[j] > 0
    /\ Move(j, Retried(left[j] - 1), left[j] - 1)
    /\ UNCHANGED calm

\* Attempts fail, a run is over, or one counts its job as a duplicate.
Unsettle(j) ==
    \E n \in 0 .. left[j] :
        \/ job[j] = "queued" /\ \E s \in {Retried(n), "lost"} : Move(j, s, n)
        \/ job[j] = "working" /\ \E s \in {"working", Retried(n), "lost"} : Move(j, s, n)
        \/ job[j] = "reworking" /\ \E s \in {"reworking", "done"} : Move(j, s, n)
        \/ job[j] \in {"done", "dead", "lost"} /\ Move(j, job[j], n)

\* A fault of the layers, and what it brings about later.
Disturb(j) == Unsettle(j) /\ calm' = FALSE
Aftermath(j) == ~calm /\ Unsettle(j) /\ UNCHANGED calm

Next == \E j \in Jobs :
    \/ Publish(j) \/ Start(j) \/ Finish(j) \/ Fail(j) \/ Refuse(j)
    \/ Disturb(j) \/ Aftermath(j)

Spec == Init /\ [][Next]_vars

=============================================================================
