------------------------------ MODULE QstashJob ------------------------------
(***************************************************************************)
(* One background job message of TripSage: the QStash broker that delivers *)
(* and redelivers it, the worker function runs that answer each delivery   *)
(* (runQstashJob with enforceQstashMessageIdempotency), and the Redis key  *)
(* qstash:message:<id> that is first an in-flight lock, then a processed   *)
(* marker.                                                                 *)
(*                                                                         *)
(* Attempt a of message m is a process of its own: when QStash stops       *)
(* waiting for a delivery the function run behind it keeps going, so runs  *)
(* of several attempts may overlap.  Time is counted in ticks of ten       *)
(* seconds, as countdowns (ttl, due) and ages (age), never as a clock.     *)
(***************************************************************************)
EXTENDS Integers

CONSTANTS
    Messages,     \* QStash message ids
    MaxRetries,   \* QSTASH_RETRY_CONFIG.retries
    BaseDelay,    \* 10 s in ticks: delivery delay and base of the backoff
    LockTtl,      \* DEFAULT_MESSAGE_LOCK_TTL_SECONDS in ticks
    RunLimit,     \* maxDuration of a function run in ticks
    FaultKinds,   \* kinds of fault the environment may inject
    FaultBudget,  \* bound on the number of faults of each kind
    MaxFaults     \* bound on the number of faults in all

Attempts == 0..MaxRetries

\* Variant: a constant delay.
RetryDelayConstant(a) == BaseDelay

\* The delay QStash waits after attempt a failed: 10000 * pow(2, retried) ms.
RetryDelay(a) == BaseDelay * 2^a

ASSUME QstashJobConstants ==
    /\ MaxRetries \in Nat
    /\ BaseDelay \in Nat
    /\ LockTtl \in Nat
    /\ RunLimit \in Nat
    /\ FaultKinds = {"crash", "redis", "throw", "lost"}
    /\ FaultBudget \in [FaultKinds -> Nat]
    /\ MaxFaults \in Nat

\* What exponentiation does, for the attempts there are.
ASSUME PowersOfTwo == \A a \in Attempts : 2^a \in Nat /\ 2^(a + 1) = 2 * 2^a

\* The lock outlives every function run (240 s against Vercel's 60 s).
ASSUME RunEndsBeforeLock == RunLimit < LockTtl

VARIABLES
    phase,    \* [Messages -> broker's view of the message]
    retried,  \* [Messages -> Upstash-Retried of the current attempt]
    due,      \* [Messages -> ticks until the current attempt is delivered]
    pc,       \* [Messages -> [Attempts -> control point of the run]]
    age,      \* [Messages -> [Attempts -> ticks the run has been running]]
    reply,    \* [Messages -> [Attempts -> HTTP status decided, 0 if none]]
    marker,   \* [Messages -> value of the Redis key]
    ttl,      \* [Messages -> ticks until the in-flight lock expires]
    handled,  \* [Messages -> number of runs whose handler returned]
    faults    \* [FaultKinds -> faults injected so far]

brokerVars == <<phase, retried, due>>
runVars    == <<pc, age, reply>>
redisVars  == <<marker, ttl>>
vars == <<phase, retried, due, pc, age, reply, marker, ttl, handled, faults>>

Phases  == {"waiting", "inflight", "acked", "dlq"}
Inside  == {"parse", "handle", "commit", "release"}      \* holds the lock
Running == {"verify", "guard", "inspect"} \cup Inside
Points  == Running \cup {"idle", "reply", "dead"}
Statuses == {0, 200, 401, 409, 489, 500, 503}

BrokerTypeOK ==
    /\ phase \in [Messages -> Phases]
    /\ retried \in [Messages -> Attempts]
    /\ due \in [Messages -> Nat]

RunTypeOK ==
    /\ pc \in [Messages -> [Attempts -> Points]]
    /\ age \in [Messages -> [Attempts -> 0..RunLimit]]
    /\ reply \in [Messages -> [Attempts -> Statuses]]

RedisTypeOK ==
    /\ marker \in [Messages -> {"none", "processing", "done"}]
    /\ ttl \in [Messages -> 0..LockTtl]

TypeOK ==
    /\ BrokerTypeOK /\ RunTypeOK /\ RedisTypeOK
    /\ handled \in [Messages -> Nat]
    /\ faults \in [FaultKinds -> Nat]

Init ==
    /\ phase = [m \in Messages |-> "waiting"]
    /\ retried = [m \in Messages |-> 0]
    /\ due = [m \in Messages |-> BaseDelay]
    /\ pc = [m \in Messages |-> [a \in Attempts |-> "idle"]]
    /\ age = [m \in Messages |-> [a \in Attempts |-> 0]]
    /\ reply = [m \in Messages |-> [a \in Attempts |-> 0]]
    /\ marker = [m \in Messages |-> "none"]
    /\ ttl = [m \in Messages |-> 0]
    /\ handled = [m \in Messages |-> 0]
    /\ faults = [k \in FaultKinds |-> 0]

-----------------------------------------------------------------------------
(* Helpers *)

Goto(m, a, from, to) ==
    /\ pc[m][a] = from
    /\ pc' = [pc EXCEPT ![m][a] = to]

\* The run ends with an HTTP response; its function stops being billed.
Respond(m, a, from, status) ==
    /\ Goto(m, a, from, "reply")
    /\ reply' = [reply EXCEPT ![m][a] = status]
    /\ age' = [age EXCEPT ![m][a] = 0]

\* The environment injects one more fault of kind k, within the bounds.
Injected == faults["crash"] + faults["redis"] + faults["throw"] + faults["lost"]

Fault(k) ==
    /\ Injected < MaxFaults
    /\ faults[k] < FaultBudget[k]
    /\ faults' = [faults EXCEPT ![k] = @ + 1]

SetMarker(m, value, ticks) ==
    /\ marker' = [marker EXCEPT ![m] = value]
    /\ ttl' = [ttl EXCEPT ![m] = ticks]

-----------------------------------------------------------------------------
(* The broker *)

\* QStash posts the current attempt; the function starts.
Deliver(m) ==
    /\ phase[m] = "waiting" /\ due[m] = 0
    /\ phase' = [phase EXCEPT ![m] = "inflight"]
    /\ Goto(m, retried[m], "idle", "verify")
    /\ UNCHANGED <<retried, due, age, reply, redisVars, handled, faults>>

\* A failed attempt is retried after the backoff, the last one dead-lettered.
AttemptFailed(m) ==
    IF retried[m] < MaxRetries
      THEN /\ phase' = [phase EXCEPT ![m] = "waiting"]
           /\ retried' = [retried EXCEPT ![m] = @ + 1]
           /\ due' = [due EXCEPT ![m] = RetryDelay(retried[m])]
      ELSE /\ phase' = [phase EXCEPT ![m] = "dlq"]
           /\ UNCHANGED <<retried, due>>

\* The answer of the current attempt reaches QStash: 2xx acknowledges, 489
\* dead-letters at once, every other status is a failed attempt.
ReceiveReply(m) ==
    /\ phase[m] = "inflight"
    /\ pc[m][retried[m]] = "reply"
    /\ LET status == reply[m][retried[m]] IN
         \/ /\ status = 200
            /\ phase' = [phase EXCEPT ![m] = "acked"]
            /\ UNCHANGED <<retried, due>>
         \/ /\ status = 489
            /\ phase' = [phase EXCEPT ![m] = "dlq"]
            /\ UNCHANGED <<retried, due>>
         \/ /\ status \notin {200, 489}
            /\ AttemptFailed(m)
    /\ UNCHANGED <<runVars, redisVars, handled, faults>>

\* The platform reports a run that crashed or was killed (a 5xx).
ReceiveCrash(m) ==
    /\ phase[m] = "inflight"
    /\ pc[m][retried[m]] = "dead"
    /\ AttemptFailed(m)
    /\ UNCHANGED <<runVars, redisVars, handled, faults>>

\* The connection is lost or times out: QStash counts a failed attempt while
\* the run behind it goes on.
LoseReply(m) ==
    /\ phase[m] = "inflight"
    /\ pc[m][retried[m]] # "dead"
    /\ Fault("lost")
    /\ AttemptFailed(m)
    /\ UNCHANGED <<runVars, redisVars, handled>>

-----------------------------------------------------------------------------
(* The worker run, up to the in-flight lock *)

\* The request carries a valid signature, a readable body and a message id.
VerifyOk(m, a) ==
    /\ Goto(m, a, "verify", "guard")
    /\ UNCHANGED <<brokerVars, age, reply, redisVars, handled, faults>>

\* Signing keys misconfigured (500), signature missing or rejected (401), body
\* too large or unreadable, or no message id (489): no Redis call is made.
VerifyFails(m, a) ==
    /\ \E status \in {401, 489, 500} : Respond(m, a, "verify", status)
    /\ Fault("throw")
    /\ UNCHANGED <<brokerVars, redisVars, handled>>

\* Variant: SET without NX.
AcquireAnyway(m, a) ==
    /\ Goto(m, a, "guard", "parse")
    /\ SetMarker(m, "processing", LockTtl)
    /\ UNCHANGED <<brokerVars, age, reply, handled, faults>>

\* SET key "processing" EX lockTtl NX: the run takes the lock, or finds the key
\* set and goes on to GET it.
Acquire(m, a) ==
    /\ \/ /\ marker[m] = "none"
          /\ Goto(m, a, "guard", "parse")
          /\ SetMarker(m, "processing", LockTtl)
       \/ /\ marker[m] # "none"
          /\ Goto(m, a, "guard", "inspect")
          /\ UNCHANGED redisVars
    /\ UNCHANGED <<brokerVars, age, reply, handled, faults>>

\* Redis is not configured or the SET fails: 503.  Redis may have applied a SET
\* whose answer was lost; no run then holds the lock.
AcquireFails(m, a) ==
    /\ Respond(m, a, "guard", 503)
    /\ Fault("redis")
    /\ \/ UNCHANGED redisVars
       \/ /\ marker[m] = "none"
          /\ SetMarker(m, "processing", LockTtl)
    /\ UNCHANGED <<brokerVars, handled>>

\* Variant: a message in progress is answered like a processed one.
InspectLenient(m, a) ==
    /\ Respond(m, a, "inspect", IF marker[m] = "none" THEN 409 ELSE 200)
    /\ UNCHANGED <<brokerVars, redisVars, handled, faults>>

\* Variant: a processed message is refused like one in progress.
InspectStrict(m, a) ==
    /\ Respond(m, a, "inspect", 409)
    /\ UNCHANGED <<brokerVars, redisVars, handled, faults>>

\* GET key: "done" is a duplicate (200); "processing", and a key that vanished
\* since the SET, answer 409.
Inspect(m, a) ==
    /\ Respond(m, a, "inspect", IF marker[m] = "done" THEN 200 ELSE 409)
    /\ UNCHANGED <<brokerVars, redisVars, handled, faults>>

InspectFails(m, a) ==
    /\ Respond(m, a, "inspect", 503)
    /\ Fault("redis")
    /\ UNCHANGED <<brokerVars, redisVars, handled>>

-----------------------------------------------------------------------------
(* The worker run, while it holds the lock *)

\* JSON.parse and the job's schema, that of the deployment the attempt runs in:
\* the payload is good, or the lock is released and 489 answered.
Parse(m, a) ==
    /\ \/ /\ Goto(m, a, "parse", "handle")
          /\ UNCHANGED reply
       \/ /\ Goto(m, a, "parse", "release")
          /\ reply' = [reply EXCEPT ![m][a] = 489]
    /\ UNCHANGED <<brokerVars, age, redisVars, handled, faults>>

HandlerReturns(m, a) ==
    /\ Goto(m, a, "handle", "commit")
    /\ handled' = [handled EXCEPT ![m] = @ + 1]
    /\ UNCHANGED <<brokerVars, age, reply, redisVars, faults>>

\* Variant: the catch block answers without releasing the lock.
HandlerThrowsKeepingLock(m, a) ==
    /\ \E status \in {489, 500} : Respond(m, a, "handle", status)
    /\ Fault("throw")
    /\ UNCHANGED <<brokerVars, redisVars, handled>>

\* Variants: the payload error's own status instead of 489; the error is
\* swallowed and the run answers 200.
HandlerThrowsUnmapped(m, a) ==
    /\ Goto(m, a, "handle", "release")
    /\ \E status \in {422, 500} : reply' = [reply EXCEPT ![m][a] = status]
    /\ Fault("throw")
    /\ UNCHANGED <<brokerVars, age, redisVars, handled>>

HandlerErrorSwallowed(m, a) ==
    /\ Goto(m, a, "handle", "release")
    /\ reply' = [reply EXCEPT ![m][a] = 200]
    /\ Fault("throw")
    /\ UNCHANGED <<brokerVars, age, redisVars, handled>>

\* The handler throws: the lock is released, then mapNonRetryableError decides
\* between 489 and 500.
HandlerThrows(m, a) ==
    /\ Goto(m, a, "handle", "release")
    /\ \E status \in {489, 500} : reply' = [reply EXCEPT ![m][a] = status]
    /\ Fault("throw")
    /\ UNCHANGED <<brokerVars, age, redisVars, handled>>

\* commitProcessed: if GET key = "processing" then SET key "done" EX 24h.  A lock
\* that is gone makes it throw; the run answers 200 either way.  The marker
\* outlives every redelivery of the message, so it is not given a countdown.
Commit(m, a) ==
    /\ Respond(m, a, "commit", 200)
    /\ IF marker[m] = "processing" THEN SetMarker(m, "done", 0)
                                   ELSE UNCHANGED redisVars
    /\ UNCHANGED <<brokerVars, handled, faults>>

\* The EVAL fails before reaching Redis: logged, and still 200.
CommitFails(m, a) ==
    /\ Respond(m, a, "commit", 200)
    /\ Fault("redis")
    /\ UNCHANGED <<brokerVars, redisVars, handled>>

\* release: an unconditional DEL of the key, whoever holds it.
Release(m, a) ==
    /\ Respond(m, a, "release", reply[m][a])
    /\ SetMarker(m, "none", 0)
    /\ UNCHANGED <<brokerVars, handled, faults>>

\* The DEL fails: logged, and the run answers as if it had released.
ReleaseFails(m, a) ==
    /\ Respond(m, a, "release", reply[m][a])
    /\ Fault("redis")
    /\ UNCHANGED <<brokerVars, redisVars, handled>>

-----------------------------------------------------------------------------
(* The platform and the passing of time *)

\* The run dies: out of memory, a redeployment, or the 60 s limit.
Crash(m, a) ==
    /\ pc[m][a] \in Running
    /\ pc' = [pc EXCEPT ![m][a] = "dead"]
    /\ reply' = [reply EXCEPT ![m][a] = 0]
    /\ age' = [age EXCEPT ![m][a] = 0]
    /\ Fault("crash")
    /\ UNCHANGED <<brokerVars, redisVars, handled>>

CountDown(n) == IF n = 0 THEN 0 ELSE n - 1

\* Ten seconds pass.  No run may outlive RunLimit: it ends, or it is killed.
Tick ==
    /\ \A m \in Messages, a \in Attempts : pc[m][a] \in Running => age[m][a] < RunLimit
    /\ age' = [m \in Messages |-> [a \in Attempts |->
                 IF pc[m][a] \in Running THEN age[m][a] + 1 ELSE age[m][a]]]
    /\ ttl' = [m \in Messages |-> CountDown(ttl[m])]
    /\ marker' = [m \in Messages |->
                    IF marker[m] = "processing" /\ ttl[m] <= 1 THEN "none" ELSE marker[m]]
    /\ due' = [m \in Messages |->
                 IF phase[m] = "waiting" THEN CountDown(due[m]) ELSE due[m]]
    /\ UNCHANGED <<phase, retried, pc, reply, handled, faults>>

-----------------------------------------------------------------------------
(* The specification *)

\* What a run does by itself.
Work(m, a) ==
    \/ VerifyOk(m, a)
    \/ Acquire(m, a)
    \/ Inspect(m, a)
    \/ Parse(m, a)
    \/ HandlerReturns(m, a)
    \/ Commit(m, a)
    \/ Release(m, a)

\* What may go wrong in it.
Disturb(m, a) ==
    \/ VerifyFails(m, a)
    \/ AcquireFails(m, a)
    \/ InspectFails(m, a)
    \/ HandlerThrows(m, a)
    \/ CommitFails(m, a)
    \/ ReleaseFails(m, a)
    \/ Crash(m, a)

Receive(m) == ReceiveReply(m) \/ ReceiveCrash(m)

Next ==
    \/ \E m \in Messages : Deliver(m) \/ Receive(m) \/ LoseReply(m)
    \/ \E m \in Messages, a \in Attempts : Work(m, a) \/ Disturb(m, a)
    \/ Tick

Spec == Init /\ [][Next]_vars

\* QStash keeps its schedule, a run that is not disturbed goes on, time passes.
Fairness ==
    /\ \A m \in Messages : WF_vars(Deliver(m)) /\ WF_vars(Receive(m))
    /\ \A m \in Messages, a \in Attempts : WF_vars(Work(m, a))
    /\ WF_vars(Tick)

FairSpec == Spec /\ Fairness

-----------------------------------------------------------------------------
(* Properties *)

\* Mutual exclusion: two overlapping attempts of a message are never both
\* between taking the in-flight lock and giving it up, so its handler never
\* runs twice at the same time.  The lock has no owner token and is deleted
\* unconditionally; what saves it is RunEndsBeforeLock.
OneWorker ==
    \A m \in Messages, a, b \in Attempts :
        pc[m][a] \in Inside /\ pc[m][b] \in Inside => a = b

\* A run that is inside owns a live lock: no tick before its own limit can
\* expire it, because what is left of the TTL and the run's age add up to at
\* least the TTL the lock was taken with.
LockHeld ==
    \A m \in Messages, a \in Attempts : pc[m][a] \in Inside =>
        marker[m] = "processing" /\ ttl[m] + age[m][a] >= LockTtl

\* No acknowledgement without the work: when QStash has seen a 2xx, some run's
\* handler has returned (this one's, or that of the run that left "done").
AckedIsHandled == \A m \in Messages : phase[m] = "acked" => handled[m] > 0

\* Every exit path of runQstashJob frees the lock: unless a run died or a Redis
\* call failed, a "processing" marker belongs to a run that is still at work.
NoOrphanLock ==
    faults["crash"] = 0 /\ faults["redis"] = 0 =>
        \A m \in Messages : marker[m] = "processing" =>
            \E a \in Attempts : pc[m][a] \in Inside

\* The processed marker is final: once it says "done" it is never deleted or
\* overwritten, and no run's handler returns any more.
ProcessedIsFinal ==
    [][\A m \in Messages : marker[m] = "done" =>
          marker'[m] = "done" /\ handled'[m] = handled[m]]_vars

\* The backoff of a message's retries reaches past the in-flight lock: 310 s of
\* delays between the first attempt and the last against a TTL of 240 s.
BackoffOutlastsLock == RetryDelay(MaxRetries) - RetryDelay(0) >= LockTtl

\* Some attempt of m has decided to answer 489.
Rejected(m) == \E a \in Attempts : reply[m][a] = 489

\* A message is dead-lettered only for good reason: while at most one fault has
\* been injected, the backoff reaches past a stale lock, and only a 489 (a bad
\* payload, a non-retryable error) sends a message to the DLQ.
OneFaultIsSurvived ==
    Injected <= 1 =>
        \A m \in Messages : phase[m] = "dlq" => Rejected(m)

\* The faults so far leave an attempt to spare: one of any kind, or handlers
\* and requests that failed on fewer attempts than there are.
Survivable ==
    Injected <= 1 \/ (Injected = faults["throw"] /\ Injected <= MaxRetries)

\* The retries, their growing delays, the statuses and the lock's TTL fit
\* together: whatever the attempts before it left behind, a message that no
\* answer of 489 sent away is in the end acknowledged with its work done, if
\* what has gone wrong leaves an attempt to spare.
Delivered ==
    \A m \in Messages :
        <>(\/ phase[m] = "acked" /\ handled[m] > 0
           \/ Rejected(m)
           \/ ~ Survivable)

\* What the job layer promises, MessageOutcome, is kept.
Outcome == INSTANCE MessageOutcome WITH
    outcome   <- [m \in Messages |->
                    IF phase[m] \in {"acked", "dlq"} THEN phase[m] ELSE "pending"],
    processed <- {m \in Messages : handled[m] > 0}
OutcomeSpec == Outcome!Spec

=============================================================================
