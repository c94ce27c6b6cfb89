------------------------------ MODULE KeyedJob ------------------------------
(***************************************************************************)
(* The job routes that guard their work with a business key on top of the  *)
(* message lock: notify-collaborators (notify:<eventKey>) and memory-sync  *)
(* (memory-sync:<idempotencyKey>).  Several messages may carry the same    *)
(* key: the key, idemp:<key> in Redis, must keep their work apart.         *)
(*                                                                         *)
(* The module composes with QstashJob: the "handle" point of a run there   *)
(* is taken apart here into reserving the key, the work, and the return.   *)
(***************************************************************************)
EXTENDS QstashJob, FiniteSets

CONSTANTS
    Keys,       \* business keys
    keyOf,      \* [Messages -> Keys]
    KeyTtl,     \* ttlSeconds of the reservation, in ticks
    MaxKeyFaults  \* bound on the number of failed Redis calls on business keys

ASSUME KeyedJobConstants ==
    /\ keyOf \in [Messages -> Keys]
    /\ KeyTtl \in Nat
    /\ MaxKeyFaults \in Nat

\* The reservation outlives every function run (300 s against 60 s).
ASSUME RunEndsBeforeKey == RunLimit < KeyTtl

VARIABLES
    stage,     \* [Messages -> [Attempts -> where a run is inside its handler]]
    keyTtl,    \* [Keys -> ticks until the reservation expires, 0 if free]
    worked,    \* [Keys -> number of times the key's work was completed]
    keyFaults  \* failed Redis calls on business keys so far

keyedVars == <<stage, keyTtl, worked, keyFaults>>

Stages == {"reserve", "work", "worked"}

KeyedTypeOK ==
    /\ stage \in [Messages -> [Attempts -> Stages]]
    /\ keyTtl \in [Keys -> 0..KeyTtl]
    /\ worked \in [Keys -> Nat]
    /\ keyFaults \in Nat

KeyedInit ==
    /\ Init
    /\ stage = [m \in Messages |-> [a \in Attempts |-> "reserve"]]
    /\ keyTtl = [k \in Keys |-> 0]
    /\ worked = [k \in Keys |-> 0]
    /\ keyFaults = 0

-----------------------------------------------------------------------------
(* The handler *)

\* The handler of attempt a of m is at stage s.
AtStage(m, a, s) == pc[m][a] = "handle" /\ stage[m][a] = s

SetStage(m, a, s) == stage' = [stage EXCEPT ![m][a] = s]

\* The key of m is given the TTL t.
SetKey(m, t) == keyTtl' = [keyTtl EXCEPT ![keyOf[m]] = t]

KeyFault ==
    /\ keyFaults < MaxKeyFaults
    /\ keyFaults' = keyFaults + 1

\* Variant: the reservation is written without NX.
ReserveAnyway(m, a) ==
    /\ AtStage(m, a, "reserve")
    /\ SetKey(m, KeyTtl)
    /\ SetStage(m, a, "work")
    /\ UNCHANGED <<vars, worked, keyFaults>>

\* Variant: a TTL in milliseconds where the option takes seconds.
ReserveInMilliseconds(m, a) ==
    /\ AtStage(m, a, "reserve") /\ keyTtl[keyOf[m]] = 0
    /\ SetKey(m, KeyTtl * 1000)
    /\ SetStage(m, a, "work")
    /\ UNCHANGED <<vars, worked, keyFaults>>

\* tryReserveKey: SET idemp:<key> "1" EX 300 NX answers OK.
Reserve(m, a) ==
    /\ AtStage(m, a, "reserve") /\ keyTtl[keyOf[m]] = 0
    /\ SetKey(m, KeyTtl)
    /\ SetStage(m, a, "work")
    /\ UNCHANGED <<vars, worked, keyFaults>>

\* The key is taken: the handler returns { duplicate: true } and the message
\* counts as processed.
Duplicate(m, a) ==
    /\ AtStage(m, a, "reserve") /\ keyTtl[keyOf[m]] > 0
    /\ HandlerReturns(m, a)
    /\ UNCHANGED keyedVars

\* What the routes answer when their handler throws: neither maps an error to
\* 489.
Throws(m, a) == HandlerThrows(m, a) /\ reply'[m][a] = 500

\* Redis is not configured or the SET fails, perhaps after it was applied: fail
\* closed.  The call is outside the try block, so the key is not released.
ReserveFails(m, a) ==
    /\ AtStage(m, a, "reserve")
    /\ Throws(m, a)
    /\ KeyFault
    /\ \/ UNCHANGED keyTtl
       \/ keyTtl[keyOf[m]] = 0 /\ SetKey(m, KeyTtl)
    /\ UNCHANGED <<stage, worked>>

\* The notifications are sent, or the turns stored.
PerformWork(m, a) ==
    /\ AtStage(m, a, "work")
    /\ SetStage(m, a, "worked")
    /\ worked' = [worked EXCEPT ![keyOf[m]] = @ + 1]
    /\ UNCHANGED <<vars, keyTtl, keyFaults>>

Return(m, a) ==
    /\ AtStage(m, a, "worked")
    /\ SetStage(m, a, "reserve")
    /\ HandlerReturns(m, a)
    /\ UNCHANGED <<keyTtl, worked, keyFaults>>

\* Variant: the catch block forgets to release the key.
WorkThrowsKeepingKey(m, a) ==
    /\ AtStage(m, a, "work")
    /\ Throws(m, a)
    /\ SetStage(m, a, "reserve")
    /\ UNCHANGED <<keyTtl, worked, keyFaults>>

\* The work throws: releaseKey deletes the key, whoever holds it, and the error
\* is rethrown.
WorkThrows(m, a) ==
    /\ AtStage(m, a, "work")
    /\ Throws(m, a)
    /\ SetKey(m, 0)
    /\ SetStage(m, a, "reserve")
    /\ UNCHANGED <<worked, keyFaults>>

\* The work throws and the DEL fails too: releaseKey fails open.
WorkThrowsReleaseFails(m, a) ==
    /\ AtStage(m, a, "work")
    /\ Throws(m, a)
    /\ KeyFault
    /\ SetStage(m, a, "reserve")
    /\ UNCHANGED <<keyTtl, worked>>

-----------------------------------------------------------------------------
(* The rest of the run, the platform and time *)

KeyedCrash(m, a) ==
    /\ Crash(m, a)
    /\ SetStage(m, a, "reserve")
    /\ UNCHANGED <<keyTtl, worked, keyFaults>>

KeyedTick ==
    /\ Tick
    /\ keyTtl' = [k \in Keys |-> CountDown(keyTtl[k])]
    /\ UNCHANGED <<stage, worked, keyFaults>>

Handler(m, a) ==
    \/ Reserve(m, a)
    \/ Duplicate(m, a)
    \/ ReserveFails(m, a)
    \/ PerformWork(m, a)
    \/ Return(m, a)
    \/ WorkThrows(m, a)
    \/ WorkThrowsReleaseFails(m, a)

\* What a run does outside its handler.
Frame(m, a) ==
    \/ VerifyOk(m, a) \/ VerifyFails(m, a)
    \/ Acquire(m, a) \/ AcquireFails(m, a)
    \/ Inspect(m, a) \/ InspectFails(m, a)
    \/ Parse(m, a)
    \/ Commit(m, a) \/ CommitFails(m, a)
    \/ Release(m, a) \/ ReleaseFails(m, a)

KeyedStep ==
    \/ \E m \in Messages :
          (Deliver(m) \/ Receive(m) \/ LoseReply(m)) /\ UNCHANGED keyedVars
    \/ \E m \in Messages, a \in Attempts : Frame(m, a) /\ UNCHANGED keyedVars
    \/ \E m \in Messages, a \in Attempts : Handler(m, a) \/ KeyedCrash(m, a)

KeyedNext == KeyedStep \/ KeyedTick

KeyedSpec == KeyedInit /\ [][KeyedNext]_<<vars, keyedVars>>

-----------------------------------------------------------------------------
(* Properties *)

\* Attempt a of m holds the reservation of its business key.
HoldsKey(m, a) == pc[m][a] = "handle" /\ stage[m][a] \in {"work", "worked"}

\* The work of one business key is exclusive across all messages and attempts
\* that carry the key, though the key has no owner token and releaseKey deletes
\* it unconditionally.
WorkIsExclusive ==
    \A m, n \in Messages, a, b \in Attempts :
        HoldsKey(m, a) /\ HoldsKey(n, b) /\ keyOf[m] = keyOf[n] => m = n /\ a = b

\* The reservation of a run at work does not expire under it.
KeyIsLive ==
    \A m \in Messages, a \in Attempts :
        HoldsKey(m, a) => keyTtl[keyOf[m]] + age[m][a] >= KeyTtl

\* Nothing is lost by handlers that throw, deliveries that time out, duplicate
\* messages and expiring keys: while no run died and no Redis call failed, the
\* messages of a key are not all acknowledged before its work was done.
NothingLost ==
    faults["crash"] = 0 /\ faults["redis"] = 0 /\ keyFaults = 0 =>
        \A k \in Keys :
            LET carriers == {m \in Messages : keyOf[m] = k} IN
            carriers # {} /\ (\A m \in carriers : phase[m] = "acked") => worked[k] > 0

-----------------------------------------------------------------------------
(* What the work of a job may rely on: JobLayer *)

\* Every message has a key of its own, as a memory-sync job has: its key names
\* the session and the turn.
DistinctKeys == \A m, n \in Messages : keyOf[m] = keyOf[n] => m = n

AtWork(m) == \E a \in Attempts : AtStage(m, a, "work")

\* Attempt a of m may still get to the work.
Fresh(m, a) ==
    \/ pc[m][a] = "idle" /\ phase[m] # "dlq"
    \/ pc[m][a] \in {"verify", "guard", "parse"}
    \/ AtStage(m, a, "reserve")

LeftOf(m) == Cardinality({a \in Attempts : Fresh(m, a)})

\* Where the job of m stands.
JobOf(m) ==
    CASE AtWork(m) -> IF worked[keyOf[m]] > 0 THEN "reworking" ELSE "working"
      [] ~AtWork(m) /\ worked[keyOf[m]] > 0 -> "done"
      [] ~AtWork(m) /\ worked[keyOf[m]] = 0 /\ handled[m] > 0 -> "lost"
      [] OTHER -> IF LeftOf(m) > 0 THEN "queued" ELSE "dead"

\* No run has died, no answer or Redis call was lost, no payload was rejected.
\* Handlers may throw, and requests fail their verification.
Calm ==
    /\ faults["crash"] = 0 /\ faults["redis"] = 0 /\ faults["lost"] = 0 /\ keyFaults = 0
    /\ \A m \in Messages : ~Rejected(m)

\* What JobLayer promises to the work of a job is kept.
Layer == INSTANCE JobLayer WITH
    Jobs        <- Messages,
    MaxAttempts <- MaxRetries + 1,
    job         <- [m \in Messages |-> JobOf(m)],
    left        <- [m \in Messages |-> LeftOf(m)],
    calm        <- Calm
LayerSpec == Layer!Spec

=============================================================================
