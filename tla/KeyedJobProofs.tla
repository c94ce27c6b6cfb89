--------------------------- MODULE KeyedJobProofs ---------------------------
(***************************************************************************)
(* Proofs about QstashJob and KeyedJob.                                    *)
(*                                                                         *)
(* First the job runner, for every set of messages, retry count, TTL and   *)
(* fault budget that satisfies the assumptions of QstashJob.  Then the     *)
(* keyed job: it implements QstashJob, so that every theorem of the first  *)
(* part holds of it too; its business key keeps the work of one key        *)
(* exclusive, and without crashes and Redis faults no work is lost.        *)
(***************************************************************************)
EXTENDS KeyedJob, FiniteSetTheorems, TLAPS


(* What the updates the actions are built from do to the types. *)

\* The backoff delays are natural numbers and double from one attempt to the next.
LEMMA RetryDelayDoubles ==
    ASSUME NEW a \in Attempts
    PROVE  RetryDelay(a) \in Nat /\ RetryDelay(a + 1) = 2 * RetryDelay(a)
<1>1. PICK p \in Nat : p = 2^a
  BY PowersOfTwo
<1>2. BaseDelay * p \in Nat /\ BaseDelay * (2 * p) = 2 * (BaseDelay * p)
  BY <1>1, QstashJobConstants
<1>3. QED
  BY <1>1, <1>2, PowersOfTwo DEF RetryDelay

\* Moving a run to another control point keeps pc a table of points.
LEMMA GotoType ==
    ASSUME RunTypeOK, NEW m \in Messages, NEW a \in Attempts,
           NEW from, NEW to \in Points, Goto(m, a, from, to)
    PROVE  pc' \in [Messages -> [Attempts -> Points]]
BY DEF RunTypeOK, Goto

\* Answering a request keeps the types of the run's control point, age and reply.
LEMMA RespondType ==
    ASSUME RunTypeOK, NEW m \in Messages, NEW a \in Attempts,
           NEW from, NEW status \in Statuses, Respond(m, a, from, status)
    PROVE  RunTypeOK'
<1>1. "reply" \in Points
  BY DEF Points
<1>2. pc' \in [Messages -> [Attempts -> Points]]
  BY <1>1, GotoType DEF Respond
<1>3. 0 \in 0..RunLimit
  BY QstashJobConstants
<1>4. age' \in [Messages -> [Attempts -> 0..RunLimit]]
  BY <1>3 DEF Respond, RunTypeOK
<1>5. reply' \in [Messages -> [Attempts -> Statuses]]
  BY DEF Respond, RunTypeOK
<1>6. QED
  BY <1>2, <1>4, <1>5 DEF RunTypeOK

\* Writing the Redis key, with no TTL or the lock's, keeps the Redis state typed.
LEMMA MarkerType ==
    ASSUME RedisTypeOK, NEW m \in Messages,
           NEW value \in {"none", "processing", "done"}, NEW ticks \in {0, LockTtl},
           SetMarker(m, value, ticks)
    PROVE  RedisTypeOK'
<1>1. ticks \in 0..LockTtl
  BY QstashJobConstants
<1>2. QED
  BY <1>1 DEF RedisTypeOK, SetMarker

\* Injecting a fault keeps the fault counters natural numbers.
LEMMA FaultType ==
    ASSUME faults \in [FaultKinds -> Nat], NEW k \in FaultKinds, Fault(k)
    PROVE  faults' \in [FaultKinds -> Nat]
BY DEF Fault

\* Retrying or dead-lettering a failed attempt keeps the broker's state typed.
LEMMA FailedType ==
    ASSUME BrokerTypeOK, NEW m \in Messages, AttemptFailed(m)
    PROVE  BrokerTypeOK'
<1>1. CASE retried[m] < MaxRetries
  <2>1. retried[m] + 1 \in Attempts
    BY <1>1, QstashJobConstants DEF BrokerTypeOK, Attempts
  <2>2. RetryDelay(retried[m]) \in Nat
    BY RetryDelayDoubles DEF BrokerTypeOK
  <2>3. "waiting" \in Phases
    BY DEF Phases
  <2>4. QED
    BY <1>1, <2>1, <2>2, <2>3 DEF BrokerTypeOK, AttemptFailed
<1>2. CASE ~(retried[m] < MaxRetries)
  BY <1>2 DEF BrokerTypeOK, AttemptFailed, Phases
<1>3. QED
  BY <1>1, <1>2

-----------------------------------------------------------------------------
(* Type correctness *)

\* Every step of the broker, the runs, Redis and the clock keeps the types.
LEMMA TypeStep == TypeOK /\ [Next]_vars => TypeOK'
<1> SUFFICES ASSUME TypeOK, [Next]_vars PROVE TypeOK'
  OBVIOUS
<1> USE DEF TypeOK
<1>kinds. {"crash", "redis", "throw", "lost"} = FaultKinds
  BY QstashJobConstants
<1>broker. brokerVars' = brokerVars => BrokerTypeOK'
  BY DEF BrokerTypeOK, brokerVars
<1>redis. redisVars' = redisVars => RedisTypeOK'
  BY DEF RedisTypeOK, redisVars
<1>runs. runVars' = runVars => RunTypeOK'
  BY DEF RunTypeOK, runVars
<1>statuses. {0, 200, 401, 409, 489, 500, 503} \subseteq Statuses
  BY DEF Statuses
<1>goto. ASSUME NEW m \in Messages, NEW a \in Attempts, NEW from, NEW to \in Points,
                Goto(m, a, from, to), age' = age,
                reply' = reply \/ \E s \in Statuses : reply' = [reply EXCEPT ![m][a] = s]
         PROVE  RunTypeOK'
  <2>1. pc' \in [Messages -> [Attempts -> Points]]
    BY <1>goto, GotoType
  <2>2. reply' \in [Messages -> [Attempts -> Statuses]]
    <3>1. CASE reply' = reply
      BY <3>1 DEF RunTypeOK
    <3>2. ASSUME NEW s \in Statuses, reply' = [reply EXCEPT ![m][a] = s]
          PROVE  reply' \in [Messages -> [Attempts -> Statuses]]
      BY <3>2 DEF RunTypeOK
    <3>3. QED
      BY <1>goto, <3>1, <3>2
  <2>3. QED
    BY <1>goto, <2>1, <2>2 DEF RunTypeOK
<1>1. ASSUME NEW m \in Messages, Deliver(m) PROVE TypeOK'
  <2>1. retried[m] \in Attempts /\ "verify" \in Points /\ "inflight" \in Phases
    BY DEF BrokerTypeOK, Points, Running, Phases
  <2>2. RunTypeOK'
    BY <1>1, <2>1, <1>goto DEF Deliver
  <2>3. BrokerTypeOK'
    BY <1>1, <2>1 DEF Deliver, BrokerTypeOK
  <2>4. QED
    BY <1>1, <2>2, <2>3, <1>redis DEF Deliver
<1>2. ASSUME NEW m \in Messages, ReceiveReply(m) PROVE TypeOK'
  <2>1. BrokerTypeOK'
    <3>1. "acked" \in Phases /\ "dlq" \in Phases
      BY DEF Phases
    <3>2. QED
      BY <1>2, <3>1, FailedType DEF ReceiveReply, BrokerTypeOK
  <2>2. QED
    BY <1>2, <2>1, <1>runs, <1>redis DEF ReceiveReply
<1>3. ASSUME NEW m \in Messages, ReceiveCrash(m) PROVE TypeOK'
  BY <1>3, FailedType, <1>runs, <1>redis DEF ReceiveCrash
<1>4. ASSUME NEW m \in Messages, LoseReply(m) PROVE TypeOK'
  BY <1>4, FailedType, FaultType, <1>kinds, <1>runs, <1>redis DEF LoseReply
<1>5. ASSUME NEW m \in Messages, NEW a \in Attempts, VerifyOk(m, a) PROVE TypeOK'
  <2>1. "guard" \in Points
    BY DEF Points, Running, Inside
  <2>2. RunTypeOK'
    BY <1>5, <2>1, <1>goto, <1>statuses DEF VerifyOk
  <2>3. QED
    BY <1>5, <2>2, <1>broker, <1>redis DEF VerifyOk
<1>6. ASSUME NEW m \in Messages, NEW a \in Attempts, VerifyFails(m, a) PROVE TypeOK'
  BY <1>6, RespondType, <1>statuses, <1>broker, <1>redis, FaultType, <1>kinds DEF VerifyFails
<1>7. ASSUME NEW m \in Messages, NEW a \in Attempts, Acquire(m, a) PROVE TypeOK'
  <2>1. "parse" \in Points /\ "inspect" \in Points
    BY DEF Points, Running, Inside
  <2>2. RunTypeOK'
    BY <1>7, <2>1, <1>goto DEF Acquire
  <2>3. RedisTypeOK'
    BY <1>7, MarkerType, <1>redis DEF Acquire
  <2>4. QED
    BY <1>7, <2>2, <2>3, <1>broker DEF Acquire
<1>8. ASSUME NEW m \in Messages, NEW a \in Attempts, AcquireFails(m, a) PROVE TypeOK'
  <2>1. RedisTypeOK'
    BY <1>8, MarkerType, <1>redis DEF AcquireFails
  <2>2. QED
    BY <1>8, <2>1, RespondType, <1>statuses, <1>broker, FaultType, <1>kinds DEF AcquireFails
<1>9. ASSUME NEW m \in Messages, NEW a \in Attempts, Inspect(m, a) PROVE TypeOK'
  BY <1>9, RespondType, <1>statuses, <1>broker, <1>redis DEF Inspect
<1>10. ASSUME NEW m \in Messages, NEW a \in Attempts, InspectFails(m, a) PROVE TypeOK'
  BY <1>10, RespondType, <1>statuses, <1>broker, <1>redis, FaultType, <1>kinds DEF InspectFails
<1>11. ASSUME NEW m \in Messages, NEW a \in Attempts, Parse(m, a) PROVE TypeOK'
  <2>1. "handle" \in Points /\ "release" \in Points
    BY DEF Points, Running, Inside
  <2>2. RunTypeOK'
    BY <1>11, <2>1, <1>goto, <1>statuses DEF Parse
  <2>3. QED
    BY <1>11, <2>2, <1>broker, <1>redis DEF Parse
<1>12. ASSUME NEW m \in Messages, NEW a \in Attempts, HandlerReturns(m, a) PROVE TypeOK'
  <2>1. "commit" \in Points
    BY DEF Points, Running, Inside
  <2>2. RunTypeOK'
    BY <1>12, <2>1, <1>goto, <1>statuses DEF HandlerReturns
  <2>3. QED
    BY <1>12, <2>2, <1>broker, <1>redis DEF HandlerReturns
<1>13. ASSUME NEW m \in Messages, NEW a \in Attempts, HandlerThrows(m, a) PROVE TypeOK'
  <2>1. "release" \in Points
    BY DEF Points, Running, Inside
  <2>2. RunTypeOK'
    <3>1. PICK status \in {489, 500} : reply' = [reply EXCEPT ![m][a] = status]
      BY <1>13 DEF HandlerThrows
    <3>2. status \in Statuses
      BY <1>statuses
    <3>3. QED
      BY <1>13, <2>1, <3>1, <3>2, <1>goto DEF HandlerThrows
  <2>3. QED
    BY <1>13, <2>2, <1>broker, <1>redis, FaultType, <1>kinds DEF HandlerThrows
<1>14. ASSUME NEW m \in Messages, NEW a \in Attempts, Commit(m, a) PROVE TypeOK'
  <2>1. RedisTypeOK'
    BY <1>14, MarkerType, <1>redis DEF Commit
  <2>2. QED
    BY <1>14, <2>1, RespondType, <1>statuses, <1>broker DEF Commit
<1>15. ASSUME NEW m \in Messages, NEW a \in Attempts, CommitFails(m, a) PROVE TypeOK'
  BY <1>15, RespondType, <1>statuses, <1>broker, <1>redis, FaultType, <1>kinds DEF CommitFails
<1>16. ASSUME NEW m \in Messages, NEW a \in Attempts, Release(m, a) PROVE TypeOK'
  <2>1. reply[m][a] \in Statuses
    BY DEF RunTypeOK
  <2>2. RedisTypeOK'
    BY <1>16, MarkerType DEF Release
  <2>3. QED
    BY <1>16, <2>1, <2>2, RespondType, <1>broker DEF Release
<1>17. ASSUME NEW m \in Messages, NEW a \in Attempts, ReleaseFails(m, a) PROVE TypeOK'
  <2>1. reply[m][a] \in Statuses
    BY DEF RunTypeOK
  <2>2. QED
    BY <1>17, <2>1, RespondType, <1>broker, <1>redis, FaultType, <1>kinds DEF ReleaseFails
<1>18. ASSUME NEW m \in Messages, NEW a \in Attempts, Crash(m, a) PROVE TypeOK'
  <2>1. "dead" \in Points /\ 0 \in Statuses /\ 0 \in 0..RunLimit
    BY QstashJobConstants DEF Points, Statuses
  <2>2. RunTypeOK'
    BY <1>18, <2>1 DEF Crash, RunTypeOK
  <2>3. QED
    BY <1>18, <2>2, <1>broker, <1>redis, FaultType, <1>kinds DEF Crash
<1>19. CASE Tick
  <2>1. BrokerTypeOK'
    BY <1>19 DEF Tick, CountDown, BrokerTypeOK
  <2>2. age' \in [Messages -> [Attempts -> 0..RunLimit]]
    BY <1>19, QstashJobConstants DEF Tick, RunTypeOK
  <2>3. RunTypeOK'
    BY <1>19, <2>2 DEF Tick, RunTypeOK
  <2>4. RedisTypeOK'
    <3>1. marker' \in [Messages -> {"none", "processing", "done"}]
      BY <1>19 DEF Tick, RedisTypeOK
    <3>2. \A n \in 0..LockTtl : CountDown(n) \in 0..LockTtl
      BY QstashJobConstants DEF CountDown
    <3>3. ttl' \in [Messages -> 0..LockTtl]
      BY <1>19, <3>2 DEF Tick, RedisTypeOK
    <3>4. QED
      BY <3>1, <3>3 DEF RedisTypeOK
  <2>5. QED
    BY <1>19, <2>1, <2>3, <2>4 DEF Tick
<1>20. CASE UNCHANGED vars
  BY <1>20 DEF vars, BrokerTypeOK, RunTypeOK, RedisTypeOK
<1>21. QED
  BY <1>1, <1>2, <1>3, <1>4, <1>5, <1>6, <1>7, <1>8, <1>9, <1>10, <1>11, <1>12,
     <1>13, <1>14, <1>15, <1>16, <1>17, <1>18, <1>19, <1>20
  DEF Next, Receive, Work, Disturb

\* Type correctness: whatever is delivered, lost, killed or expires, every
\* variable keeps its type; no run is older than the function limit.
THEOREM TypeCorrect == Spec => []TypeOK
<1>1. Init => TypeOK
  BY QstashJobConstants
  DEF Init, TypeOK, BrokerTypeOK, RunTypeOK, RedisTypeOK, Phases, Points, Statuses, Attempts
<1>2. QED
  BY <1>1, TypeStep, PTL DEF Spec

-----------------------------------------------------------------------------
(* The in-flight lock *)

LockInv == LockHeld /\ OneWorker

\* What Goto leaves in every other run: pc pointwise after the step.
LEMMA GotoPoint ==
    ASSUME RunTypeOK, NEW m \in Messages, NEW a \in Attempts,
           NEW from, NEW to, Goto(m, a, from, to)
    PROVE  \A n \in Messages, b \in Attempts :
               pc'[n][b] = IF n = m /\ b = a THEN to ELSE pc[n][b]
BY DEF RunTypeOK, Goto

\* What Respond leaves in every run: pc, age and reply pointwise after the step.
LEMMA RespondPoint ==
    ASSUME RunTypeOK, NEW m \in Messages, NEW a \in Attempts,
           NEW from, NEW status, Respond(m, a, from, status)
    PROVE  \A n \in Messages, b \in Attempts :
               /\ pc'[n][b] = IF n = m /\ b = a THEN "reply" ELSE pc[n][b]
               /\ age'[n][b] = IF n = m /\ b = a THEN 0 ELSE age[n][b]
               /\ reply'[n][b] = IF n = m /\ b = a THEN status ELSE reply[n][b]
BY GotoPoint DEF RunTypeOK, Respond

\* No run comes inside and no lock is touched.
LEMMA LockFrame ==
    ASSUME LockInv, redisVars' = redisVars,
           \A n \in Messages, b \in Attempts : pc'[n][b] \in Inside =>
               pc[n][b] \in Inside /\ age'[n][b] = age[n][b]
    PROVE  LockInv'
BY DEF LockInv, LockHeld, OneWorker, redisVars

\* Run a gives its place up and the marker of its message may change.
LEMMA LockGivenUp ==
    ASSUME LockInv, NEW m \in Messages, NEW a \in Attempts,
           pc[m][a] \in Inside, pc'[m][a] \notin Inside,
           \A n \in Messages \ {m} : marker'[n] = marker[n] /\ ttl'[n] = ttl[n],
           \A n \in Messages, b \in Attempts : n # m \/ b # a =>
               pc'[n][b] = pc[n][b] /\ age'[n][b] = age[n][b]
    PROVE  LockInv'
BY DEF LockInv, LockHeld, OneWorker

\* The in-flight lock is inductive: every step keeps the holder's lock live and the
\* holder alone.
LEMMA LockStep == TypeOK /\ LockInv /\ [Next]_vars => LockInv'
<1> SUFFICES ASSUME TypeOK, LockInv, [Next]_vars PROVE LockInv'
  OBVIOUS
<1> RunTypeOK /\ RedisTypeOK
  BY DEF TypeOK
<1> USE DEF Inside
<1>1. ASSUME NEW m \in Messages, Deliver(m) PROVE LockInv'
  <2>1. retried[m] \in Attempts
    BY DEF TypeOK, BrokerTypeOK
  <2>2. QED
    BY <1>1, <2>1, GotoPoint, LockFrame DEF Deliver
<1>2. ASSUME NEW m \in Messages, ReceiveReply(m) \/ ReceiveCrash(m) \/ LoseReply(m)
      PROVE  LockInv'
  BY <1>2, LockFrame DEF ReceiveReply, ReceiveCrash, LoseReply, runVars
<1>3. ASSUME NEW m \in Messages, NEW a \in Attempts,
             VerifyOk(m, a) \/ Parse(m, a) \/ HandlerReturns(m, a) \/ HandlerThrows(m, a)
      PROVE  LockInv'
  BY <1>3, GotoPoint, LockFrame DEF VerifyOk, Parse, HandlerReturns, HandlerThrows, Goto
<1>4. ASSUME NEW m \in Messages, NEW a \in Attempts,
             VerifyFails(m, a) \/ Inspect(m, a) \/ InspectFails(m, a) \/ CommitFails(m, a)
             \/ ReleaseFails(m, a)
      PROVE  LockInv'
  BY <1>4, RespondPoint, LockFrame
  DEF VerifyFails, Inspect, InspectFails, CommitFails, ReleaseFails
<1>5. ASSUME NEW m \in Messages, NEW a \in Attempts, Acquire(m, a) PROVE LockInv'
  <2>1. CASE marker[m] = "none"
    <3>1. \A b \in Attempts : pc[m][b] \notin Inside
      BY <2>1 DEF LockInv, LockHeld
    <3>2. \A n \in Messages, b \in Attempts :
              pc'[n][b] = IF n = m /\ b = a THEN "parse" ELSE pc[n][b]
      BY <1>5, <2>1, GotoPoint DEF Acquire
    <3>3. /\ \A n \in Messages : marker'[n] = IF n = m THEN "processing" ELSE marker[n]
          /\ \A n \in Messages : ttl'[n] = IF n = m THEN LockTtl ELSE ttl[n]
          /\ age' = age
      BY <1>5, <2>1 DEF Acquire, SetMarker, RedisTypeOK
    <3>4. age[m][a] \in Nat
      BY QstashJobConstants DEF RunTypeOK
    <3>5. LockHeld'
      BY <3>1, <3>2, <3>3, <3>4, QstashJobConstants DEF LockInv, LockHeld
    <3>6. OneWorker'
      BY <3>1, <3>2 DEF LockInv, OneWorker
    <3>7. QED
      BY <3>5, <3>6 DEF LockInv
  <2>2. CASE marker[m] # "none"
    BY <1>5, <2>2, GotoPoint, LockFrame DEF Acquire
  <2>3. QED
    BY <2>1, <2>2
<1>6. ASSUME NEW m \in Messages, NEW a \in Attempts, AcquireFails(m, a) PROVE LockInv'
  <2>1. CASE redisVars' = redisVars
    BY <1>6, <2>1, RespondPoint, LockFrame DEF AcquireFails
  <2>2. CASE marker[m] = "none" /\ SetMarker(m, "processing", LockTtl)
    <3>1. \A b \in Attempts : pc[m][b] \notin Inside
      BY <2>2 DEF LockInv, LockHeld
    <3>2. \A n \in Messages \ {m} : marker'[n] = marker[n] /\ ttl'[n] = ttl[n]
      BY <2>2 DEF SetMarker, RedisTypeOK
    <3>3. QED
      BY <1>6, <3>1, <3>2, RespondPoint DEF AcquireFails, LockInv, LockHeld, OneWorker
  <2>3. QED
    BY <1>6, <2>1, <2>2 DEF AcquireFails
<1>7. ASSUME NEW m \in Messages, NEW a \in Attempts, Commit(m, a) \/ Release(m, a)
      PROVE  LockInv'
  <2>1. \A n \in Messages \ {m} : marker'[n] = marker[n] /\ ttl'[n] = ttl[n]
    BY <1>7 DEF Commit, Release, SetMarker, RedisTypeOK, redisVars
  <2>2. pc[m][a] \in Inside
    BY <1>7 DEF Commit, Release, Respond, Goto
  <2>3. QED
    BY <1>7, <2>1, <2>2, RespondPoint, LockGivenUp DEF Commit, Release
<1>8. ASSUME NEW m \in Messages, NEW a \in Attempts, Crash(m, a) PROVE LockInv'
  BY <1>8, LockFrame DEF Crash, RunTypeOK
<1>9. CASE Tick
  <2>1. \A m \in Messages, a \in Attempts : pc[m][a] \in Inside =>
            /\ age[m][a] \in Nat /\ ttl[m] \in Nat
            /\ age[m][a] < RunLimit
            /\ age'[m][a] = age[m][a] + 1
    BY <1>9, QstashJobConstants DEF Tick, Running, RunTypeOK, RedisTypeOK
  <2>2. \A m \in Messages, a \in Attempts : pc[m][a] \in Inside =>
            ttl[m] > 1 /\ ttl'[m] = ttl[m] - 1 /\ marker'[m] = marker[m]
    BY <1>9, <2>1, QstashJobConstants, RunEndsBeforeLock
    DEF Tick, CountDown, LockInv, LockHeld
  <2>3. pc' = pc
    BY <1>9 DEF Tick
  <2>4. QED
    BY <2>1, <2>2, <2>3, QstashJobConstants DEF LockInv, LockHeld, OneWorker
<1>10. CASE UNCHANGED vars
  BY <1>10, LockFrame DEF vars, redisVars
<1>11. QED
  BY <1>1, <1>2, <1>3, <1>4, <1>5, <1>6, <1>7, <1>8, <1>9, <1>10
  DEF Next, Receive, Work, Disturb

\* Mutual exclusion of the handlers of one message: two overlapping attempts
\* are never both inside, for any retry schedule and any faults, as long as the
\* function limit is below the lock's TTL.
THEOREM MutualExclusion == Spec => []OneWorker
<1>1. Init => LockInv
  BY DEF Init, LockInv, LockHeld, OneWorker, Inside
<1>2. Spec => []LockInv
  BY <1>1, LockStep, TypeCorrect, PTL DEF Spec
<1>3. LockInv => OneWorker
  BY DEF LockInv
<1>4. QED
  BY <1>2, <1>3, PTL

\* The lock of a run that is inside is its own and is still live.
THEOREM LockIsLive == Spec => []LockHeld
<1>1. Init => LockInv
  BY DEF Init, LockInv, LockHeld, OneWorker, Inside
<1>2. Spec => []LockInv
  BY <1>1, LockStep, TypeCorrect, PTL DEF Spec
<1>3. LockInv => LockHeld
  BY DEF LockInv
<1>4. QED
  BY <1>2, <1>3, PTL

-----------------------------------------------------------------------------
(* Acknowledged messages have been handled *)

\* AckedIsHandled with what it rests on: the marker, a run about to commit and
\* a 200 on its way all stand for a handler that returned.
HandledInv ==
    /\ AckedIsHandled
    /\ \A m \in Messages : marker[m] = "done" => handled[m] > 0
    /\ \A m \in Messages, a \in Attempts :
          /\ pc[m][a] = "commit" => handled[m] > 0
          /\ pc[m][a] = "reply" /\ reply[m][a] = 200 => handled[m] > 0
          /\ pc[m][a] = "release" => reply[m][a] # 200

\* Every step keeps 'a 200, a done marker and an ack stand for a handled message'.
LEMMA HandledStep == TypeOK /\ HandledInv /\ [Next]_vars => HandledInv'
<1> SUFFICES ASSUME TypeOK, HandledInv, [Next]_vars PROVE HandledInv'
  OBVIOUS
<1> RunTypeOK /\ RedisTypeOK /\ BrokerTypeOK
  BY DEF TypeOK
<1> USE DEF HandledInv, AckedIsHandled
<1>1. ASSUME NEW m \in Messages, Deliver(m) PROVE HandledInv'
  <2>1. retried[m] \in Attempts
    BY DEF BrokerTypeOK
  <2>2. \A n \in Messages : phase'[n] = "acked" => phase[n] = "acked"
    BY <1>1 DEF Deliver, BrokerTypeOK
  <2>3. QED
    BY <1>1, <2>1, <2>2, GotoPoint DEF Deliver, redisVars
<1>2. ASSUME NEW m \in Messages, ReceiveReply(m) \/ ReceiveCrash(m) \/ LoseReply(m)
      PROVE  HandledInv'
  <2>1. \A n \in Messages : phase'[n] = "acked" => phase[n] = "acked" \/ handled[n] > 0
    BY <1>2 DEF ReceiveReply, ReceiveCrash, LoseReply, AttemptFailed, BrokerTypeOK
  <2>2. QED
    BY <1>2, <2>1 DEF ReceiveReply, ReceiveCrash, LoseReply, runVars, redisVars
<1>3. ASSUME NEW m \in Messages, NEW a \in Attempts, VerifyOk(m, a) PROVE HandledInv'
  BY <1>3, GotoPoint DEF VerifyOk, brokerVars, redisVars
<1>4. ASSUME NEW m \in Messages, NEW a \in Attempts,
             VerifyFails(m, a) \/ Inspect(m, a) \/ InspectFails(m, a) \/ CommitFails(m, a)
             \/ ReleaseFails(m, a)
      PROVE  HandledInv'
  <2>1. handled' = handled /\ marker' = marker /\ phase' = phase
    BY <1>4 DEF VerifyFails, Inspect, InspectFails, CommitFails, ReleaseFails,
                brokerVars, redisVars
  <2>2. ASSUME NEW from, NEW status, Respond(m, a, from, status),
               status = 200 => handled[m] > 0
        PROVE  HandledInv'
    BY <2>1, <2>2, RespondPoint
  <2>3. CASE VerifyFails(m, a) \/ InspectFails(m, a)
    BY <2>2, <2>3 DEF VerifyFails, InspectFails
  <2>4. CASE Inspect(m, a)
    BY <2>2, <2>4 DEF Inspect
  <2>5. CASE CommitFails(m, a)
    <3>1. handled[m] > 0
      BY <2>5 DEF CommitFails, Respond, Goto
    <3>2. QED
      BY <2>2, <2>5, <3>1 DEF CommitFails
  <2>6. CASE ReleaseFails(m, a)
    <3>1. reply[m][a] # 200
      BY <2>6 DEF ReleaseFails, Respond, Goto
    <3>2. QED
      BY <2>2, <2>6, <3>1 DEF ReleaseFails
  <2>7. QED
    BY <1>4, <2>3, <2>4, <2>5, <2>6
<1>5. ASSUME NEW m \in Messages, NEW a \in Attempts, Acquire(m, a) PROVE HandledInv'
  <2>1. \A n \in Messages : marker'[n] = "done" => marker[n] = "done"
    BY <1>5 DEF Acquire, SetMarker, RedisTypeOK, redisVars
  <2>2. \A n \in Messages, b \in Attempts :
            pc'[n][b] \in {"commit", "reply", "release"} => pc'[n][b] = pc[n][b]
    BY <1>5, GotoPoint DEF Acquire
  <2>3. QED
    BY <1>5, <2>1, <2>2 DEF Acquire, brokerVars
<1>6. ASSUME NEW m \in Messages, NEW a \in Attempts, AcquireFails(m, a) PROVE HandledInv'
  <2>1. \A n \in Messages : marker'[n] = "done" => marker[n] = "done"
    BY <1>6 DEF AcquireFails, SetMarker, RedisTypeOK, redisVars
  <2>2. QED
    BY <1>6, <2>1, RespondPoint DEF AcquireFails, brokerVars
<1>7. ASSUME NEW m \in Messages, NEW a \in Attempts, Parse(m, a) \/ HandlerThrows(m, a)
      PROVE  HandledInv'
  <2>1. \A n \in Messages, b \in Attempts :
            /\ pc'[n][b] \in {"commit", "reply"} => pc'[n][b] = pc[n][b] /\ reply'[n][b] = reply[n][b]
            /\ pc'[n][b] = "release" => reply'[n][b] # 200
    BY <1>7, GotoPoint DEF Parse, HandlerThrows, RunTypeOK
  <2>2. QED
    BY <1>7, <2>1 DEF Parse, HandlerThrows, brokerVars, redisVars
<1>8. ASSUME NEW m \in Messages, NEW a \in Attempts, HandlerReturns(m, a) PROVE HandledInv'
  <2>1. \A n \in Messages : handled'[n] >= handled[n] /\ handled'[m] > 0
    BY <1>8 DEF HandlerReturns, TypeOK
  <2>2. \A n \in Messages : handled[n] \in Nat /\ handled'[n] \in Nat
    BY <1>8, TypeStep DEF TypeOK
  <2>3. QED
    BY <1>8, <2>1, <2>2, GotoPoint DEF HandlerReturns, brokerVars, redisVars
<1>9. ASSUME NEW m \in Messages, NEW a \in Attempts, Commit(m, a) \/ Release(m, a)
      PROVE  HandledInv'
  <2>1. \A n \in Messages : marker'[n] = "done" => marker[n] = "done" \/ handled[n] > 0
    BY <1>9 DEF Commit, Release, SetMarker, Respond, Goto, RedisTypeOK, redisVars
  <2>2. handled' = handled /\ phase' = phase
    BY <1>9 DEF Commit, Release, brokerVars
  <2>3. CASE Commit(m, a)
    <3>1. Respond(m, a, "commit", 200) /\ handled[m] > 0
      BY <2>3 DEF Commit, Respond, Goto
    <3>2. QED
      BY <2>1, <2>2, <3>1, RespondPoint
  <2>4. CASE Release(m, a)
    <3>1. Respond(m, a, "release", reply[m][a]) /\ reply[m][a] # 200
      BY <2>4 DEF Release, Respond, Goto
    <3>2. QED
      BY <2>1, <2>2, <3>1, RespondPoint
  <2>5. QED
    BY <1>9, <2>3, <2>4
<1>10. ASSUME NEW m \in Messages, NEW a \in Attempts, Crash(m, a) PROVE HandledInv'
  BY <1>10 DEF Crash, RunTypeOK, brokerVars, redisVars
<1>11. CASE Tick
  BY <1>11 DEF Tick, RedisTypeOK
<1>12. CASE UNCHANGED vars
  BY <1>12 DEF vars
<1>13. QED
  BY <1>1, <1>2, <1>3, <1>4, <1>5, <1>6, <1>7, <1>8, <1>9, <1>10, <1>11, <1>12
  DEF Next, Receive, Work, Disturb

\* QStash is never told 2xx for a message no handler run has completed.
THEOREM AcknowledgedMeansHandled == Spec => []AckedIsHandled
<1>1. Init => HandledInv
  BY DEF Init, HandledInv, AckedIsHandled
<1>2. HandledInv => AckedIsHandled
  BY DEF HandledInv
<1>3. QED
  BY <1>1, <1>2, HandledStep, TypeCorrect, PTL DEF Spec

-----------------------------------------------------------------------------
(* The processed marker is final *)

\* No step deletes or overwrites a done marker, or completes a handler behind it.
LEMMA FinalStep ==
    TypeOK /\ LockInv /\ [Next]_vars =>
        [\A m \in Messages : marker[m] = "done" =>
            marker'[m] = "done" /\ handled'[m] = handled[m]]_vars
<1> SUFFICES ASSUME TypeOK, LockInv, [Next]_vars, NEW n \in Messages, marker[n] = "done"
             PROVE  marker'[n] = "done" /\ handled'[n] = handled[n]
  OBVIOUS
<1> RedisTypeOK /\ handled \in [Messages -> Nat]
  BY DEF TypeOK
<1>out. \A a \in Attempts : pc[n][a] \notin Inside
  BY DEF LockInv, LockHeld
<1> USE DEF redisVars
<1>1. ASSUME NEW m \in Messages, Deliver(m) \/ Receive(m) \/ LoseReply(m)
      PROVE  marker'[n] = "done" /\ handled'[n] = handled[n]
  BY <1>1 DEF Deliver, Receive, ReceiveReply, ReceiveCrash, LoseReply
<1>2. ASSUME NEW m \in Messages, NEW a \in Attempts, Work(m, a)
      PROVE  marker'[n] = "done" /\ handled'[n] = handled[n]
  <2>1. CASE VerifyOk(m, a) \/ Inspect(m, a) \/ Parse(m, a)
    BY <2>1 DEF VerifyOk, Inspect, Parse
  <2>2. CASE Acquire(m, a)
    BY <2>2 DEF Acquire, SetMarker, RedisTypeOK
  <2>3. CASE HandlerReturns(m, a) \/ Commit(m, a) \/ Release(m, a)
    <3>1. pc[m][a] \in Inside
      BY <2>3 DEF HandlerReturns, Commit, Release, Respond, Goto, Inside
    <3>2. m # n
      BY <3>1, <1>out
    <3>3. QED
      BY <2>3, <3>2 DEF HandlerReturns, Commit, Release, SetMarker, RedisTypeOK
  <2>4. QED
    BY <1>2, <2>1, <2>2, <2>3 DEF Work
<1>3. ASSUME NEW m \in Messages, NEW a \in Attempts, Disturb(m, a)
      PROVE  marker'[n] = "done" /\ handled'[n] = handled[n]
  BY <1>3 DEF Disturb, VerifyFails, AcquireFails, InspectFails, HandlerThrows,
              CommitFails, ReleaseFails, Crash, SetMarker, RedisTypeOK
<1>4. CASE Tick
  BY <1>4 DEF Tick
<1>5. CASE UNCHANGED vars
  BY <1>5 DEF vars
<1>6. QED
  BY <1>1, <1>2, <1>3, <1>4, <1>5 DEF Next

\* Once a message is marked done, no overlapping or later attempt deletes the
\* mark or completes the handler again.
THEOREM DoneIsFinal == Spec => ProcessedIsFinal
<1>1. Init => LockInv
  BY DEF Init, LockInv, LockHeld, OneWorker, Inside
<1>2. Spec => [](TypeOK /\ LockInv)
  BY <1>1, LockStep, TypeCorrect, PTL DEF Spec
<1>3. QED
  BY <1>2, FinalStep, PTL DEF Spec, ProcessedIsFinal

-----------------------------------------------------------------------------
(* Only a crash or a failed Redis call leaves the lock behind *)

\* A fault raises the counter of its kind and no other.
LEMMA FaultCounts ==
    ASSUME TypeOK, NEW k \in FaultKinds, Fault(k)
    PROVE  /\ faults'[k] # 0
           /\ \A j \in FaultKinds : j # k => faults'[j] = faults[j]
BY DEF TypeOK, Fault

\* Without crashes and Redis faults, every step leaves the lock with a run at work.
LEMMA OrphanStep == TypeOK /\ NoOrphanLock /\ [Next]_vars => NoOrphanLock'
<1> SUFFICES ASSUME TypeOK, NoOrphanLock, [Next]_vars PROVE NoOrphanLock'
  OBVIOUS
<1> RunTypeOK /\ RedisTypeOK
  BY DEF TypeOK
<1> {"crash", "redis", "throw", "lost"} = FaultKinds
  BY QstashJobConstants
<1>keep. ASSUME \A k \in {"crash", "redis"} : faults'[k] = faults[k],
                \A n \in Messages : marker'[n] = "processing" => marker[n] = "processing",
                \A n \in Messages, b \in Attempts :
                    marker'[n] = "processing" /\ pc[n][b] \in Inside => pc'[n][b] \in Inside
         PROVE  NoOrphanLock'
  BY <1>keep DEF NoOrphanLock
<1>1. ASSUME NEW m \in Messages, Deliver(m) PROVE NoOrphanLock'
  <2>1. retried[m] \in Attempts
    BY DEF TypeOK, BrokerTypeOK
  <2>2. \A n \in Messages, b \in Attempts : pc[n][b] \in Inside => pc'[n][b] \in Inside
    BY <1>1, <2>1, GotoPoint DEF Deliver, Goto, Inside
  <2>3. QED
    BY <1>1, <2>2, <1>keep DEF Deliver, redisVars
<1>2. ASSUME NEW m \in Messages, Receive(m) \/ LoseReply(m) PROVE NoOrphanLock'
  <2>1. \A k \in {"crash", "redis"} : faults'[k] = faults[k]
    BY <1>2, FaultCounts DEF Receive, ReceiveReply, ReceiveCrash, LoseReply
  <2>2. pc' = pc /\ marker' = marker
    BY <1>2 DEF Receive, ReceiveReply, ReceiveCrash, LoseReply, runVars, redisVars
  <2>3. QED
    BY <2>1, <2>2, <1>keep
<1>3. ASSUME NEW m \in Messages, NEW a \in Attempts,
             VerifyOk(m, a) \/ Parse(m, a) \/ HandlerReturns(m, a) \/ HandlerThrows(m, a)
      PROVE  NoOrphanLock'
  <2>1. \A k \in {"crash", "redis"} : faults'[k] = faults[k]
    BY <1>3, FaultCounts DEF VerifyOk, Parse, HandlerReturns, HandlerThrows
  <2>2. \A n \in Messages, b \in Attempts : pc[n][b] \in Inside => pc'[n][b] \in Inside
    BY <1>3, GotoPoint DEF VerifyOk, Parse, HandlerReturns, HandlerThrows, Goto, Inside
  <2>3. marker' = marker
    BY <1>3 DEF VerifyOk, Parse, HandlerReturns, HandlerThrows, redisVars
  <2>4. QED
    BY <2>1, <2>2, <2>3, <1>keep
<1>4. ASSUME NEW m \in Messages, NEW a \in Attempts, VerifyFails(m, a) \/ Inspect(m, a)
      PROVE  NoOrphanLock'
  <2>1. \A k \in {"crash", "redis"} : faults'[k] = faults[k]
    BY <1>4, FaultCounts DEF VerifyFails, Inspect
  <2>2. pc[m][a] \notin Inside
    BY <1>4 DEF VerifyFails, Inspect, Respond, Goto, Inside
  <2>3. \A n \in Messages, b \in Attempts : n # m \/ b # a => pc'[n][b] = pc[n][b]
    BY <1>4, RespondPoint DEF VerifyFails, Inspect
  <2>4. marker' = marker
    BY <1>4 DEF VerifyFails, Inspect, redisVars
  <2>5. QED
    BY <2>1, <2>2, <2>3, <2>4, <1>keep
<1>5. ASSUME NEW m \in Messages, NEW a \in Attempts, Acquire(m, a) PROVE NoOrphanLock'
  <2>1. \A n \in Messages, b \in Attempts : pc[n][b] \in Inside => pc'[n][b] \in Inside
    BY <1>5, GotoPoint DEF Acquire, Goto, Inside
  <2>2. \A n \in Messages : marker'[n] = "processing" =>
            marker[n] = "processing" \/ (n = m /\ pc'[m][a] \in Inside)
    BY <1>5, GotoPoint DEF Acquire, SetMarker, RedisTypeOK, Inside, redisVars
  <2>3. QED
    BY <1>5, <2>1, <2>2 DEF Acquire, NoOrphanLock
<1>6. ASSUME NEW m \in Messages, NEW a \in Attempts,
             AcquireFails(m, a) \/ InspectFails(m, a) \/ CommitFails(m, a)
             \/ ReleaseFails(m, a) \/ Crash(m, a)
      PROVE  NoOrphanLock'
  BY <1>6, FaultCounts
  DEF AcquireFails, InspectFails, CommitFails, ReleaseFails, Crash, NoOrphanLock
<1>7. ASSUME NEW m \in Messages, NEW a \in Attempts, Commit(m, a) \/ Release(m, a)
      PROVE  NoOrphanLock'
  <2>1. marker'[m] # "processing"
    BY <1>7 DEF Commit, Release, SetMarker, RedisTypeOK, redisVars
  <2>2. \A n \in Messages : n # m => marker'[n] = marker[n]
    BY <1>7 DEF Commit, Release, SetMarker, RedisTypeOK, redisVars
  <2>3. \A n \in Messages, b \in Attempts : n # m => pc'[n][b] = pc[n][b]
    BY <1>7, RespondPoint DEF Commit, Release
  <2>4. QED
    BY <1>7, <2>1, <2>2, <2>3, <1>keep DEF Commit, Release
<1>8. CASE Tick
  BY <1>8, <1>keep DEF Tick, RedisTypeOK
<1>9. CASE UNCHANGED vars
  BY <1>9, <1>keep DEF vars
<1>10. QED
  BY <1>1, <1>2, <1>3, <1>4, <1>5, <1>6, <1>7, <1>8, <1>9 DEF Next, Work, Disturb

\* Every exit of a run that is neither killed nor cut off from Redis frees the
\* lock, whatever the handler throws and whatever QStash loses.
THEOREM LockIsNeverOrphaned == Spec => []NoOrphanLock
<1>1. Init => NoOrphanLock
  BY DEF Init, NoOrphanLock
<1>2. QED
  BY <1>1, OrphanStep, TypeCorrect, PTL DEF Spec

\* No run died and no Redis call on a message key failed.
CleanJob == faults["crash"] = 0 /\ faults["redis"] = 0

\* In a clean system a handler that returned is recorded: the message is marked
\* done, or the run is about to mark it.
DoneInv ==
    CleanJob => \A m \in Messages : handled[m] > 0 =>
        marker[m] = "done" \/ \E a \in Attempts : pc[m][a] = "commit"

\* Faults are never taken back: a system that is clean after a step was clean
\* before it.
LEMMA CleanStep == TypeOK /\ [Next]_vars => (CleanJob' => CleanJob)
<1> SUFFICES ASSUME TypeOK, [Next]_vars PROVE CleanJob' => CleanJob
  OBVIOUS
<1> FaultKinds = {"crash", "redis", "throw", "lost"}
  BY QstashJobConstants
<1>1. ASSUME NEW k \in FaultKinds, Fault(k) PROVE CleanJob' => CleanJob
  BY <1>1, FaultCounts DEF CleanJob
<1>2. CASE UNCHANGED faults
  BY <1>2 DEF CleanJob
<1>3. ASSUME NEW m \in Messages, Deliver(m) \/ Receive(m) \/ LoseReply(m)
      PROVE  CleanJob' => CleanJob
  BY <1>1, <1>2, <1>3 DEF Deliver, Receive, ReceiveReply, ReceiveCrash, LoseReply
<1>4. ASSUME NEW m \in Messages, NEW a \in Attempts, Work(m, a) PROVE CleanJob' => CleanJob
  BY <1>2, <1>4 DEF Work, VerifyOk, Acquire, Inspect, Parse, HandlerReturns, Commit, Release
<1>5. ASSUME NEW m \in Messages, NEW a \in Attempts, Disturb(m, a)
      PROVE  CleanJob' => CleanJob
  BY <1>1, <1>5
  DEF Disturb, VerifyFails, AcquireFails, InspectFails, HandlerThrows, CommitFails,
      ReleaseFails, Crash
<1>6. CASE Tick \/ UNCHANGED vars
  BY <1>2, <1>6 DEF Tick, vars
<1>7. QED
  BY <1>3, <1>4, <1>5, <1>6 DEF Next

\* Every step of a clean system keeps handled messages recorded as such.
LEMMA DoneStep == TypeOK /\ LockInv /\ DoneInv /\ [Next]_vars => DoneInv'
<1> SUFFICES ASSUME TypeOK, LockInv, DoneInv, [Next]_vars, CleanJob'
             PROVE  DoneInv'
  BY DEF DoneInv
<1> /\ RunTypeOK /\ RedisTypeOK /\ CleanJob
    /\ FaultKinds = {"crash", "redis", "throw", "lost"}
  BY CleanStep, QstashJobConstants DEF TypeOK
<1> /\ \A m \in Messages : handled[m] > 0 =>
          marker[m] = "done" \/ \E a \in Attempts : pc[m][a] = "commit"
    /\ \A m \in Messages, a \in Attempts : pc[m][a] \in Inside => marker[m] = "processing"
    /\ OneWorker
  BY DEF DoneInv, LockInv, LockHeld
<1>keep. ASSUME handled' = handled,
                \A n \in Messages : marker[n] = "done" => marker'[n] = "done",
                \A n \in Messages, b \in Attempts :
                    pc[n][b] = "commit" => pc'[n][b] = "commit"
         PROVE  DoneInv'
  BY <1>keep DEF DoneInv
<1>1. ASSUME NEW m \in Messages, Deliver(m) PROVE DoneInv'
  <2>1. retried[m] \in Attempts
    BY DEF TypeOK, BrokerTypeOK
  <2>2. QED
    BY <1>1, <2>1, <1>keep, GotoPoint DEF Deliver, Goto, redisVars
<1>2. ASSUME NEW m \in Messages, Receive(m) \/ LoseReply(m) PROVE DoneInv'
  BY <1>2, <1>keep DEF Receive, ReceiveReply, ReceiveCrash, LoseReply, runVars, redisVars
<1>3. ASSUME NEW m \in Messages, NEW a \in Attempts,
             VerifyOk(m, a) \/ Parse(m, a) \/ HandlerThrows(m, a)
      PROVE  DoneInv'
  BY <1>3, <1>keep, GotoPoint DEF VerifyOk, Parse, HandlerThrows, Goto, redisVars
<1>4. ASSUME NEW m \in Messages, NEW a \in Attempts, HandlerReturns(m, a) PROVE DoneInv'
  <2>1. \A n \in Messages, b \in Attempts :
            pc'[n][b] = IF n = m /\ b = a THEN "commit" ELSE pc[n][b]
    BY <1>4, GotoPoint DEF HandlerReturns
  <2>2. \A n \in Messages : n # m => handled'[n] = handled[n]
    BY <1>4 DEF HandlerReturns, TypeOK
  <2>3. marker' = marker
    BY <1>4 DEF HandlerReturns, redisVars
  <2>4. QED
    BY <2>1, <2>2, <2>3 DEF DoneInv
<1>5. ASSUME NEW m \in Messages, NEW a \in Attempts, VerifyFails(m, a) \/ Inspect(m, a)
      PROVE  DoneInv'
  <2>1. pc[m][a] # "commit"
    BY <1>5 DEF VerifyFails, Inspect, Respond, Goto
  <2>2. \A n \in Messages, b \in Attempts : n # m \/ b # a => pc'[n][b] = pc[n][b]
    BY <1>5, RespondPoint DEF VerifyFails, Inspect
  <2>3. marker' = marker /\ handled' = handled
    BY <1>5 DEF VerifyFails, Inspect, redisVars
  <2>4. QED
    BY <2>1, <2>2, <2>3, <1>keep
<1>6. ASSUME NEW m \in Messages, NEW a \in Attempts, Acquire(m, a) PROVE DoneInv'
  <2>1. \A n \in Messages, b \in Attempts : pc[n][b] = "commit" => pc'[n][b] = "commit"
    BY <1>6, GotoPoint DEF Acquire, Goto
  <2>2. \A n \in Messages : marker[n] = "done" => marker'[n] = "done"
    BY <1>6 DEF Acquire, SetMarker, RedisTypeOK, redisVars
  <2>3. QED
    BY <1>6, <2>1, <2>2, <1>keep DEF Acquire
<1>7. ASSUME NEW m \in Messages, NEW a \in Attempts,
             AcquireFails(m, a) \/ InspectFails(m, a) \/ CommitFails(m, a)
             \/ ReleaseFails(m, a) \/ Crash(m, a)
      PROVE  DoneInv'
  BY <1>7, FaultCounts
  DEF AcquireFails, InspectFails, CommitFails, ReleaseFails, Crash, CleanJob
<1>8. ASSUME NEW m \in Messages, NEW a \in Attempts, Commit(m, a) PROVE DoneInv'
  <2>1. marker[m] = "processing"
    BY <1>8 DEF Commit, Respond, Goto, Inside
  <2>2. \A n \in Messages : marker'[n] = IF n = m THEN "done" ELSE marker[n]
    BY <1>8, <2>1 DEF Commit, SetMarker, RedisTypeOK
  <2>3. \A n \in Messages, b \in Attempts : n # m => pc'[n][b] = pc[n][b]
    BY <1>8, RespondPoint DEF Commit
  <2>4. QED
    BY <1>8, <2>2, <2>3 DEF Commit, DoneInv
<1>9. ASSUME NEW m \in Messages, NEW a \in Attempts, Release(m, a) PROVE DoneInv'
  <2>1. pc[m][a] = "release" /\ marker[m] = "processing"
    BY <1>9 DEF Release, Respond, Goto, Inside
  <2>2. \A b \in Attempts : pc[m][b] # "commit"
    BY <2>1 DEF OneWorker, Inside
  <2>3. ~(handled[m] > 0)
    BY <2>1, <2>2
  <2>4. \A n \in Messages : n # m => marker'[n] = marker[n]
    BY <1>9 DEF Release, SetMarker, RedisTypeOK
  <2>5. \A n \in Messages, b \in Attempts : n # m => pc'[n][b] = pc[n][b]
    BY <1>9, RespondPoint DEF Release
  <2>6. QED
    BY <1>9, <2>3, <2>4, <2>5 DEF Release, DoneInv
<1>10. CASE Tick
  BY <1>10, <1>keep DEF Tick
<1>11. CASE UNCHANGED vars
  BY <1>11, <1>keep DEF vars
<1>12. QED
  BY <1>1, <1>2, <1>3, <1>4, <1>5, <1>6, <1>7, <1>8, <1>9, <1>10, <1>11
  DEF Next, Work, Disturb

\* In a clean system every handled message is marked done or about to be.
LEMMA DoneHolds == Spec => [](LockInv /\ DoneInv)
<1>1. Init => LockInv /\ DoneInv
  BY DEF Init, LockInv, LockHeld, OneWorker, Inside, DoneInv
<1>2. QED
  BY <1>1, LockStep, DoneStep, TypeCorrect, PTL DEF Spec

-----------------------------------------------------------------------------
(* One fault is survived *)

\* How long ago, at least, the first attempt of m failed: the delays between the
\* retries, less what is left of the current one.
Elapsed(m) ==
    IF retried[m] = 0 THEN 0
    ELSE RetryDelay(retried[m]) - RetryDelay(0) - (IF phase[m] = "waiting" THEN due[m] ELSE 0)

\* What holds of every message whatever happens to it: attempts run in turn, a
\* lock has time left, and a 489 is decided once and answered.
Orderly(m) ==
    /\ \A a \in Attempts : a > retried[m] => pc[m][a] = "idle"
    /\ phase[m] = "waiting" => pc[m][retried[m]] = "idle"
    /\ marker[m] = "processing" => ttl[m] > 0
    /\ \A a \in Attempts : reply[m][a] = 489 => pc[m][a] \in {"release", "reply"}

\* A message no fault has hit: its first attempt finds the key free, and fails by
\* a 489 only.
Untouched(m) ==
    /\ retried[m] = 0
    /\ pc[m][0] \notin {"inspect", "dead"}
    /\ pc[m][0] = "release" => reply[m][0] = 489
    /\ pc[m][0] = "reply" => reply[m][0] \in {200, 489}
    /\ marker[m] = "processing" => pc[m][0] \in Inside
    /\ marker[m] = "done" => pc[m][0] = "reply"
    /\ phase[m] = "dlq" => pc[m][0] = "reply" /\ reply[m][0] = 489

\* A message that one fault may have hit, before any 489: a retry fails by a 409
\* only; a run or a lock that the fault left behind is at least as old as the
\* fault; and so the last attempt meets neither.
Recovering(m) ==
    /\ phase[m] # "dlq"
    /\ retried[m] > 0 =>
          /\ pc[m][retried[m]] \notin {"dead", "release"}
          /\ pc[m][retried[m]] = "reply" => reply[m][retried[m]] \in {200, 409}
    /\ \A a \in Attempts : a < retried[m] /\ pc[m][a] \in Running => age[m][a] >= Elapsed(m)
    /\ marker[m] = "processing" =>
          (\E a \in Attempts : pc[m][a] \in Inside) \/ ttl[m] + Elapsed(m) <= LockTtl
    /\ retried[m] = MaxRetries =>
          /\ pc[m][MaxRetries] = "inspect" => marker[m] = "done"
          /\ pc[m][MaxRetries] = "reply" => reply[m][MaxRetries] = 200

Survives(m) ==
    /\ Orderly(m)
    /\ Injected = 0 => Untouched(m)
    /\ Injected = 1 => Rejected(m) \/ Recovering(m)

\* The steps of one message: those the environment disturbs, and the others.
CalmStep(m) == Deliver(m) \/ Receive(m) \/ \E a \in Attempts : Work(m, a)
FaultStep(m) == LoseReply(m) \/ \E a \in Attempts : Disturb(m, a)

\* Everything the system keeps of message m.
View(m) == <<phase[m], retried[m], due[m], pc[m], age[m], reply[m], marker[m], ttl[m]>>

\* A fault is counted once; the other steps count none.
LEMMA FaultAdds ==
    ASSUME TypeOK, NEW k \in FaultKinds, Fault(k)
    PROVE  Injected' = Injected + 1
<1>1. \A j \in FaultKinds : faults[j] \in Nat /\ faults'[j] = IF j = k THEN faults[j] + 1 ELSE faults[j]
  BY DEF TypeOK, Fault
<1>2. k \in {"crash", "redis", "throw", "lost"} /\ FaultKinds = {"crash", "redis", "throw", "lost"}
  BY QstashJobConstants
<1>3. QED
  BY <1>1, <1>2 DEF Injected

\* A disturbed step counts one fault.
LEMMA FaultStepAdds ==
    ASSUME TypeOK, NEW m \in Messages, FaultStep(m)
    PROVE  Injected' = Injected + 1
<1> FaultKinds = {"crash", "redis", "throw", "lost"}
  BY QstashJobConstants
<1>1. CASE LoseReply(m)
  BY <1>1, FaultAdds DEF LoseReply
<1>2. ASSUME NEW a \in Attempts, Disturb(m, a) PROVE Injected' = Injected + 1
  BY <1>2, FaultAdds
  DEF Disturb, VerifyFails, AcquireFails, InspectFails, HandlerThrows, CommitFails,
      ReleaseFails, Crash
<1>3. QED
  BY <1>1, <1>2 DEF FaultStep

\* An undisturbed step, the clock and a stutter count none.
LEMMA CalmStepAddsNone ==
    ASSUME (\E m \in Messages : CalmStep(m)) \/ Tick \/ UNCHANGED vars
    PROVE  Injected' = Injected
<1>1. ASSUME NEW m \in Messages, Deliver(m) \/ Receive(m) PROVE faults' = faults
  BY <1>1 DEF Deliver, Receive, ReceiveReply, ReceiveCrash
<1>2. ASSUME NEW m \in Messages, NEW a \in Attempts, Work(m, a) PROVE faults' = faults
  BY <1>2 DEF Work, VerifyOk, Acquire, Inspect, Parse, HandlerReturns, Commit, Release
<1>3. CASE Tick \/ UNCHANGED vars
  BY <1>3 DEF Tick, vars, Injected
<1>4. QED
  BY <1>1, <1>2, <1>3 DEF CalmStep, Injected

\* A step of one message leaves every other message alone.
LEMMA ElsewhereStep ==
    ASSUME TypeOK, NEW m \in Messages, CalmStep(m) \/ FaultStep(m),
           NEW n \in Messages, n # m
    PROVE  View(n)' = View(n)
<1> RunTypeOK /\ RedisTypeOK /\ BrokerTypeOK
  BY DEF TypeOK
<1> USE DEF View, brokerVars, runVars, redisVars, RunTypeOK, RedisTypeOK, BrokerTypeOK
<1>1. CASE Deliver(m) \/ ReceiveReply(m) \/ ReceiveCrash(m) \/ LoseReply(m)
  BY <1>1 DEF Deliver, ReceiveReply, ReceiveCrash, LoseReply, AttemptFailed, Goto
<1>2. ASSUME NEW a \in Attempts, Work(m, a) PROVE View(n)' = View(n)
  BY <1>2 DEF Work, VerifyOk, Acquire, Inspect, Parse, HandlerReturns, Commit, Release,
              Goto, Respond, SetMarker
<1>3. ASSUME NEW a \in Attempts, Disturb(m, a) PROVE View(n)' = View(n)
  BY <1>3 DEF Disturb, VerifyFails, AcquireFails, InspectFails, HandlerThrows, CommitFails,
              ReleaseFails, Crash, Goto, Respond, SetMarker
<1>4. QED
  BY <1>1, <1>2, <1>3 DEF CalmStep, FaultStep, Receive

\* What is said of a message depends on its own state only.
LEMMA ViewFrame ==
    ASSUME NEW n \in Messages, View(n)' = View(n)
    PROVE  /\ Orderly(n)' = Orderly(n)
           /\ Untouched(n)' = Untouched(n)
           /\ Rejected(n)' = Rejected(n)
           /\ Recovering(n)' = Recovering(n)
<1>1. /\ phase'[n] = phase[n] /\ retried'[n] = retried[n] /\ due'[n] = due[n]
      /\ pc'[n] = pc[n] /\ age'[n] = age[n] /\ reply'[n] = reply[n]
      /\ marker'[n] = marker[n] /\ ttl'[n] = ttl[n]
  BY DEF View
<1>2. Elapsed(n)' = Elapsed(n)
  BY <1>1 DEF Elapsed
<1>3. QED
  BY <1>1, <1>2 DEF Orderly, Untouched, Rejected, Recovering


\* A step of a run concerns that run alone: it has begun, the other attempts of the
\* message and the broker are left alone.
LEMMA RunStepFrame ==
    ASSUME TypeOK, NEW m \in Messages, NEW a \in Attempts, Work(m, a) \/ Disturb(m, a)
    PROVE  /\ pc[m][a] # "idle"
           /\ \A b \in Attempts : b # a =>
                 pc'[m][b] = pc[m][b] /\ age'[m][b] = age[m][b] /\ reply'[m][b] = reply[m][b]
           /\ phase' = phase /\ retried' = retried /\ due' = due
<1> RunTypeOK
  BY DEF TypeOK
<1> USE DEF RunTypeOK, brokerVars, runVars
<1>1. CASE Work(m, a)
  BY <1>1 DEF Work, VerifyOk, Acquire, Inspect, Parse, HandlerReturns, Commit, Release,
              Goto, Respond
<1>2. CASE Disturb(m, a)
  BY <1>2 DEF Disturb, VerifyFails, AcquireFails, InspectFails, HandlerThrows, CommitFails,
              ReleaseFails, Crash, Goto, Respond, Running, Inside
<1>3. QED
  BY <1>1, <1>2

\* A failed attempt is rescheduled as the next one, after the delay of its number,
\* or was the last one.
LEMMA FailedPoint ==
    ASSUME BrokerTypeOK, NEW m \in Messages, AttemptFailed(m)
    PROVE  \/ /\ retried[m] < MaxRetries
              /\ phase'[m] = "waiting"
              /\ retried'[m] = retried[m] + 1
              /\ due'[m] = RetryDelay(retried[m])
           \/ /\ retried[m] = MaxRetries
              /\ phase'[m] = "dlq"
              /\ retried'[m] = retried[m]
BY QstashJobConstants DEF AttemptFailed, BrokerTypeOK, Attempts

\* A lock is only ever taken with its full TTL.
LEMMA LockHasTime ==
    ASSUME TypeOK, NEW m \in Messages, marker[m] = "processing" => ttl[m] > 0,
           CalmStep(m) \/ FaultStep(m) \/ Tick
    PROVE  marker'[m] = "processing" => ttl'[m] > 0
<1> RedisTypeOK /\ LockTtl > 0
  BY QstashJobConstants, RunEndsBeforeLock DEF TypeOK
<1> USE DEF redisVars, RedisTypeOK
<1>1. CASE Deliver(m) \/ ReceiveReply(m) \/ ReceiveCrash(m) \/ LoseReply(m)
  BY <1>1 DEF Deliver, ReceiveReply, ReceiveCrash, LoseReply
<1>2. ASSUME NEW a \in Attempts, Work(m, a)
      PROVE  marker'[m] = "processing" => ttl'[m] > 0
  BY <1>2 DEF Work, VerifyOk, Acquire, Inspect, Parse, HandlerReturns, Commit, Release, SetMarker
<1>3. ASSUME NEW a \in Attempts, Disturb(m, a)
      PROVE  marker'[m] = "processing" => ttl'[m] > 0
  BY <1>3 DEF Disturb, VerifyFails, AcquireFails, InspectFails, HandlerThrows, CommitFails,
              ReleaseFails, Crash, SetMarker
<1>4. CASE Tick
  BY <1>4 DEF Tick, CountDown
<1>5. QED
  BY <1>1, <1>2, <1>3, <1>4 DEF CalmStep, FaultStep, Receive

\* Every step of the message or of the clock keeps the order of its attempts.
LEMMA OrderlyStep ==
    ASSUME TypeOK, NEW m \in Messages, Orderly(m), CalmStep(m) \/ FaultStep(m) \/ Tick
    PROVE  Orderly(m)'
<1> /\ RunTypeOK /\ RedisTypeOK /\ BrokerTypeOK /\ retried[m] \in Attempts
    /\ Attempts = 0..MaxRetries /\ MaxRetries \in Nat
  BY QstashJobConstants DEF TypeOK, BrokerTypeOK, Attempts
<1>lock. marker'[m] = "processing" => ttl'[m] > 0
  BY LockHasTime DEF Orderly
<1>1. CASE Deliver(m)
  <2>1. \A b \in Attempts : pc'[m][b] = IF b = retried[m] THEN "verify" ELSE pc[m][b]
    BY <1>1, GotoPoint DEF Deliver
  <2>2. retried' = retried /\ phase'[m] = "inflight" /\ reply' = reply /\ pc[m][retried[m]] = "idle"
    BY <1>1 DEF Deliver, BrokerTypeOK, Goto
  <2>3. QED
    BY <1>lock, <2>1, <2>2 DEF Orderly
<1>2. CASE ReceiveReply(m) \/ ReceiveCrash(m) \/ LoseReply(m)
  <2>1. pc' = pc /\ reply' = reply
    BY <1>2 DEF ReceiveReply, ReceiveCrash, LoseReply, runVars
  <2>2. (phase'[m] # "waiting" /\ retried'[m] = retried[m])
        \/ (phase'[m] = "waiting" /\ retried[m] < MaxRetries /\ retried'[m] = retried[m] + 1)
    BY <1>2, FailedPoint DEF ReceiveReply, ReceiveCrash, LoseReply, BrokerTypeOK
  <2>3. QED
    BY <1>lock, <2>1, <2>2 DEF Orderly
<1>3. ASSUME NEW a \in Attempts, Work(m, a) \/ Disturb(m, a) PROVE Orderly(m)'
  <2>1. /\ pc[m][a] # "idle"
        /\ \A b \in Attempts : b # a => pc'[m][b] = pc[m][b] /\ reply'[m][b] = reply[m][b]
        /\ retried' = retried /\ phase' = phase
    BY <1>3, RunStepFrame
  <2>2. reply'[m][a] = 489 => pc'[m][a] \in {"release", "reply"}
    <3>1. CASE VerifyOk(m, a) \/ Acquire(m, a) \/ HandlerReturns(m, a)
      <4>1. pc[m][a] \in {"verify", "guard", "handle"} /\ reply' = reply
        BY <3>1 DEF VerifyOk, Acquire, HandlerReturns, Goto
      <4>2. QED
        BY <4>1 DEF Orderly
    <3>2. CASE Parse(m, a)
      <4>1. pc[m][a] = "parse"
        BY <3>2 DEF Parse, Goto
      <4>2. reply' = reply \/ pc'[m][a] = "release"
        BY <3>2, GotoPoint DEF Parse
      <4>3. QED
        BY <4>1, <4>2 DEF Orderly
    <3>3. CASE Inspect(m, a) \/ Commit(m, a) \/ Release(m, a)
      BY <3>3, RespondPoint DEF Inspect, Commit, Release
    <3>4. CASE HandlerThrows(m, a)
      BY <3>4, GotoPoint DEF HandlerThrows
    <3>5. CASE Crash(m, a)
      BY <3>5 DEF Crash, RunTypeOK
    <3>6. CASE VerifyFails(m, a) \/ AcquireFails(m, a) \/ InspectFails(m, a)
               \/ CommitFails(m, a) \/ ReleaseFails(m, a)
      BY <3>6, RespondPoint
      DEF VerifyFails, AcquireFails, InspectFails, CommitFails, ReleaseFails
    <3>7. QED
      BY <1>3, <3>1, <3>2, <3>3, <3>4, <3>5, <3>6 DEF Work, Disturb
  <2>3. QED
    BY <1>lock, <2>1, <2>2 DEF Orderly
<1>4. CASE Tick
  BY <1>4, <1>lock DEF Tick, Orderly
<1>5. QED
  BY <1>1, <1>2, <1>3, <1>4 DEF CalmStep, FaultStep, Receive

\* Only a crash takes a decided 489 back.
LEMMA RejectedStays ==
    ASSUME TypeOK, NEW m \in Messages, Orderly(m), Rejected(m), CalmStep(m) \/ Tick
    PROVE  Rejected(m)'
<1> PICK r \in Attempts : reply[m][r] = 489
  BY DEF Rejected
<1> RunTypeOK /\ pc[m][r] \in {"release", "reply"}
  BY DEF TypeOK, Orderly
<1>1. CASE Deliver(m) \/ ReceiveReply(m) \/ ReceiveCrash(m) \/ Tick
  BY <1>1 DEF Deliver, ReceiveReply, ReceiveCrash, Tick, runVars, Rejected
<1>2. ASSUME NEW a \in Attempts, Work(m, a), a = r PROVE reply'[m][r] = 489
  BY <1>2 DEF Work, VerifyOk, Acquire, Inspect, Parse, HandlerReturns, Commit, Release,
              Goto, Respond, RunTypeOK
<1>3. ASSUME NEW a \in Attempts, Work(m, a) PROVE reply'[m][r] = 489
  BY <1>2, <1>3, RunStepFrame
<1>4. QED
  BY <1>1, <1>3 DEF CalmStep, Receive, Rejected


\* A message that has had no fault goes straight through: acquired, handled and
\* acknowledged, or rejected.
LEMMA UntouchedStep ==
    ASSUME TypeOK, NEW m \in Messages, Orderly(m), Untouched(m), CalmStep(m) \/ Tick
    PROVE  Untouched(m)'
<1> /\ RunTypeOK /\ RedisTypeOK /\ BrokerTypeOK /\ 0 \in Attempts
    /\ \A b \in Attempts : b # 0 => b > 0
  BY QstashJobConstants DEF TypeOK, Attempts
<1> USE DEF Untouched, Inside
<1>1. CASE Deliver(m)
  BY <1>1, GotoPoint DEF Deliver, BrokerTypeOK, Goto, redisVars
<1>2. CASE ReceiveReply(m)
  BY <1>2 DEF ReceiveReply, BrokerTypeOK, runVars, redisVars
<1>3. CASE ReceiveCrash(m)
  BY <1>3 DEF ReceiveCrash
<1>4. ASSUME NEW a \in Attempts, Work(m, a) PROVE Untouched(m)'
  <2>1. a = 0
    BY <1>4, RunStepFrame DEF Orderly
  <2>2. retried' = retried /\ phase' = phase
    BY <1>4, RunStepFrame
  <2>3. CASE VerifyOk(m, a) \/ HandlerReturns(m, a)
    <3>1. pc[m][0] \in {"verify", "handle"} /\ marker' = marker /\ reply' = reply
      BY <2>1, <2>3 DEF VerifyOk, HandlerReturns, Goto, redisVars
    <3>2. /\ pc[m][0] = "verify" => pc'[m][0] = "guard"
          /\ pc[m][0] = "handle" => pc'[m][0] = "commit"
      BY <2>1, <2>3, GotoPoint DEF VerifyOk, HandlerReturns, Goto
    <3>3. pc[m][0] = "verify" => marker[m] \notin {"processing", "done"}
      OBVIOUS
    <3>4. pc[m][0] = "handle" => marker[m] # "done"
      OBVIOUS
    <3>5. phase'[m] # "dlq" /\ retried'[m] = 0
      BY <2>2, <3>1
    <3>6. QED
      BY <3>1, <3>2, <3>3, <3>4, <3>5
  <2>4. CASE Acquire(m, a)
    <3>1. pc[m][0] = "guard"
      BY <2>1, <2>4 DEF Acquire, Goto
    <3>2. marker[m] = "none"
      BY <3>1 DEF RedisTypeOK
    <3>3. QED
      BY <2>1, <2>2, <2>4, <3>1, <3>2, GotoPoint DEF Acquire, SetMarker, RedisTypeOK
  <2>5. CASE Inspect(m, a)
    BY <2>1, <2>5 DEF Inspect, Respond, Goto
  <2>6. CASE Parse(m, a)
    <3>1. pc[m][0] = "parse" /\ marker' = marker
      BY <2>1, <2>6 DEF Parse, Goto, redisVars
    <3>2. pc'[m][0] = "handle" \/ (pc'[m][0] = "release" /\ reply'[m][0] = 489)
      BY <2>1, <2>6, GotoPoint DEF Parse, RunTypeOK
    <3>3. QED
      BY <2>2, <3>1, <3>2
  <2>7. CASE Commit(m, a) \/ Release(m, a)
    <3>1. pc[m][0] \in {"commit", "release"} /\ pc'[m][0] = "reply" /\ reply'[m][0] \in {200, 489}
      BY <2>1, <2>7, RespondPoint DEF Commit, Release, Respond, Goto
    <3>2. marker'[m] # "processing"
      BY <2>7 DEF Commit, Release, SetMarker, RedisTypeOK, redisVars
    <3>3. QED
      BY <2>2, <3>1, <3>2
  <2>8. QED
    BY <1>4, <2>3, <2>4, <2>5, <2>6, <2>7 DEF Work
<1>5. CASE Tick
  BY <1>5 DEF Tick
<1>6. QED
  BY <1>1, <1>2, <1>3, <1>4, <1>5 DEF CalmStep, Receive

\* A message without a fault recovers from none.
LEMMA UntouchedRecovers ==
    ASSUME TypeOK, NEW m \in Messages, Untouched(m), MaxRetries > 0
    PROVE  Rejected(m) \/ Recovering(m)
<1> 0 \in Attempts /\ \A a \in Attempts : ~(a < 0)
  BY QstashJobConstants DEF Attempts
<1>1. CASE phase[m] = "dlq"
  BY <1>1 DEF Untouched, Rejected
<1>2. CASE phase[m] # "dlq"
  BY <1>2, QstashJobConstants DEF Untouched, Recovering
<1>3. QED
  BY <1>1, <1>2

\* The fault itself: the first attempt may fail, die or leave its lock behind, and
\* the message recovers from here on.
LEMMA FaultHits ==
    ASSUME TypeOK, NEW m \in Messages, Orderly(m), Untouched(m), FaultStep(m), MaxRetries > 0
    PROVE  Rejected(m)' \/ Recovering(m)'
<1> /\ RunTypeOK /\ RedisTypeOK /\ BrokerTypeOK /\ 0 \in Attempts /\ 1 \in Attempts
    /\ \A a \in Attempts : ~(a < 0) /\ (a # 0 => a > 0)
  BY QstashJobConstants DEF TypeOK, Attempts
<1>1. CASE LoseReply(m)
  <2>1. /\ phase'[m] = "waiting" /\ retried'[m] = 1 /\ due'[m] = RetryDelay(0)
        /\ pc' = pc /\ age' = age /\ marker' = marker /\ ttl' = ttl
    BY <1>1, FailedPoint DEF LoseReply, Untouched, runVars, redisVars
  <2>2. RetryDelay(0) \in Nat /\ RetryDelay(1) = 2 * RetryDelay(0)
    BY RetryDelayDoubles
  <2>3. Elapsed(m)' = 0
    BY <2>1, <2>2 DEF Elapsed
  <2>4. pc'[m][1] = "idle"
    BY <2>1 DEF Orderly, Untouched
  <2>5. \A a \in Attempts : age'[m][a] >= Elapsed(m)'
    BY <2>1, <2>3, QstashJobConstants DEF RunTypeOK
  <2>6. ttl'[m] + Elapsed(m)' <= LockTtl
    BY <2>1, <2>3, QstashJobConstants DEF RedisTypeOK
  <2>7. retried'[m] = MaxRetries => pc'[m][MaxRetries] = "idle"
    BY <2>1, <2>4
  <2>8. QED
    BY <2>1, <2>4, <2>5, <2>6, <2>7 DEF Recovering
<1>2. ASSUME NEW a \in Attempts, Disturb(m, a) PROVE Rejected(m)' \/ Recovering(m)'
  <2>1. retried'[m] = 0 /\ phase'[m] = phase[m] /\ pc[m][a] # "idle"
    BY <1>2, RunStepFrame DEF Untouched
  <2>2. a = 0
    BY <2>1 DEF Orderly, Untouched
  <2>3. Elapsed(m)' = 0
    BY <2>1 DEF Elapsed
  <2>4. ttl'[m] + Elapsed(m)' <= LockTtl
    <3>1. Next
      BY <1>2 DEF Next
    <3>2. RedisTypeOK'
      BY <3>1, TypeStep DEF TypeOK
    <3>3. QED
      BY <2>3, <3>2, QstashJobConstants DEF RedisTypeOK
  <2>5. CASE phase[m] # "dlq"
    BY <2>1, <2>4, <2>5, QstashJobConstants DEF Recovering
  <2>6. CASE phase[m] = "dlq"
    <3>1. pc[m][0] = "reply"
      BY <2>6 DEF Untouched
    <3>2. QED
      BY <1>2, <2>2, <3>1
      DEF Disturb, VerifyFails, AcquireFails, InspectFails, HandlerThrows, CommitFails,
          ReleaseFails, Crash, Goto, Respond, Running, Inside
  <2>7. QED
    BY <2>5, <2>6
<1>3. QED
  BY <1>1, <1>2 DEF FaultStep


\* When the last attempt has begun, every earlier run has reached the function
\* limit, and a lock nobody holds has expired.
LEMMA LastAttemptIsAlone ==
    ASSUME TypeOK, BackoffOutlastsLock, NEW m \in Messages, Orderly(m), Recovering(m),
           MaxRetries > 0, retried[m] = MaxRetries, pc[m][MaxRetries] # "idle"
    PROVE  /\ \A a \in Attempts : a # MaxRetries => pc[m][a] \notin Running
           /\ marker[m] = "processing" => pc[m][MaxRetries] \in Inside
<1> /\ RunTypeOK /\ RedisTypeOK /\ MaxRetries \in Nat /\ LockTtl \in Nat /\ RunLimit \in Nat
    /\ RunLimit < LockTtl /\ MaxRetries \in Attempts
    /\ \A a \in Attempts : a # MaxRetries => a < MaxRetries
  BY QstashJobConstants, RunEndsBeforeLock DEF TypeOK, Attempts
<1>1. Elapsed(m) >= LockTtl /\ Elapsed(m) \in Int
  <2>1. phase[m] # "waiting"
    BY DEF Orderly
  <2>2. 0 \in Attempts
    BY DEF Attempts
  <2>3. QED
    BY <2>1, <2>2, RetryDelayDoubles DEF Elapsed, BackoffOutlastsLock
<1>2. \A a \in Attempts : a # MaxRetries => pc[m][a] \notin Running
  <2> SUFFICES ASSUME NEW a \in Attempts, a # MaxRetries, pc[m][a] \in Running PROVE FALSE
    OBVIOUS
  <2>1. age[m][a] >= Elapsed(m) /\ age[m][a] \in 0..RunLimit
    BY DEF Recovering, RunTypeOK
  <2>2. QED
    BY <1>1, <2>1
<1>3. marker[m] = "processing" => pc[m][MaxRetries] \in Inside
  <2> SUFFICES ASSUME marker[m] = "processing" PROVE pc[m][MaxRetries] \in Inside
    OBVIOUS
  <2>1. ttl[m] > 0 /\ ttl[m] \in 0..LockTtl
    BY DEF Orderly, RedisTypeOK
  <2>2. PICK a \in Attempts : pc[m][a] \in Inside
    BY <1>1, <2>1 DEF Recovering
  <2>3. QED
    BY <1>2, <2>2 DEF Running
<1>4. QED
  BY <1>2, <1>3

\* An attempt that failed without a fault of its own leaves nothing younger than
\* the first failure.
LEMMA RetryRecovers ==
    ASSUME TypeOK, NEW m \in Messages, Orderly(m), Recovering(m),
           retried[m] < MaxRetries, AttemptFailed(m), phase[m] # "waiting",
           pc[m][retried[m]] \in {"reply", "dead"}, UNCHANGED <<runVars, redisVars>>
    PROVE  Recovering(m)'
<1> DEFINE r == retried[m]
<1> /\ BrokerTypeOK /\ RunTypeOK /\ r \in Attempts /\ 0 \in Attempts /\ r \in Nat /\ MaxRetries \in Nat
    /\ Attempts = 0..MaxRetries /\ r + 1 \in Attempts
  BY QstashJobConstants DEF TypeOK, BrokerTypeOK, Attempts
<1>1. phase'[m] = "waiting" /\ retried'[m] = r + 1 /\ due'[m] = RetryDelay(r)
  BY FailedPoint
<1>2. pc' = pc /\ age' = age /\ reply' = reply /\ marker' = marker /\ ttl' = ttl
  BY DEF runVars, redisVars
<1>3. Elapsed(m)' = Elapsed(m)
  <2>1. /\ RetryDelay(0) \in Nat /\ RetryDelay(r) \in Nat
        /\ RetryDelay(r + 1) = 2 * RetryDelay(r)
    BY RetryDelayDoubles
  <2>2. Elapsed(m)' = RetryDelay(r) - RetryDelay(0)
    BY <1>1, <2>1 DEF Elapsed
  <2>3. Elapsed(m) = RetryDelay(r) - RetryDelay(0)
    BY <2>1 DEF Elapsed
  <2>4. QED
    BY <2>2, <2>3
<1>4. pc[m][r + 1] = "idle" /\ pc[m][r] \notin Running
  BY DEF Orderly, Running, Inside
<1>5. \A a \in Attempts : a < r + 1 /\ pc[m][a] \in Running => age[m][a] >= Elapsed(m)
  BY <1>4 DEF Recovering
<1>6. r + 1 = MaxRetries => pc[m][MaxRetries] = "idle"
  BY <1>4
<1>7. QED
  BY <1>1, <1>2, <1>3, <1>4, <1>5, <1>6 DEF Recovering

\* A step of a run of a recovering message, its own or an older one's.
LEMMA WorkRecovers ==
    ASSUME TypeOK, LockInv, BackoffOutlastsLock, MaxRetries > 0, NEW m \in Messages,
           Orderly(m), Recovering(m), NEW a \in Attempts, Work(m, a)
    PROVE  Rejected(m)' \/ Recovering(m)'
<1> DEFINE r == retried[m]
<1> /\ RunTypeOK /\ RedisTypeOK /\ r \in Attempts /\ MaxRetries \in Attempts
  BY QstashJobConstants DEF TypeOK, BrokerTypeOK, Attempts
<1> SUFFICES ASSUME ~Rejected(m)' PROVE Recovering(m)'
  OBVIOUS
<1>f. /\ pc[m][a] # "idle"
      /\ \A b \in Attempts : b # a =>
            pc'[m][b] = pc[m][b] /\ age'[m][b] = age[m][b] /\ reply'[m][b] = reply[m][b]
      /\ phase' = phase /\ retried' = retried /\ due' = due
  BY RunStepFrame
<1>e. Elapsed(m)' = Elapsed(m)
  BY <1>f DEF Elapsed
<1>n. Next
  BY DEF Next
<1>d. marker[m] = "done" => marker'[m] = "done"
  BY <1>n, FinalStep DEF vars
<1>1. r > 0 => /\ pc'[m][r] \notin {"dead", "release"}
               /\ pc'[m][r] = "reply" => reply'[m][r] \in {200, 409}
  <2>1. CASE a # r
    BY <2>1, <1>f DEF Recovering
  <2> SUFFICES ASSUME a = r, r > 0
               PROVE  /\ pc'[m][a] \notin {"dead", "release"}
                      /\ pc'[m][a] = "reply" => reply'[m][a] \in {200, 409}
    BY <2>1
  <2>2. CASE VerifyOk(m, a) \/ Acquire(m, a) \/ HandlerReturns(m, a)
    BY <2>2, GotoPoint DEF VerifyOk, Acquire, HandlerReturns
  <2>3. CASE Parse(m, a)
    <3>1. reply'[m][a] # 489
      BY DEF Rejected
    <3>2. QED
      BY <2>3, <3>1, GotoPoint DEF Parse, RunTypeOK
  <2>4. CASE Inspect(m, a) \/ Commit(m, a)
    BY <2>4, RespondPoint DEF Inspect, Commit
  <2>5. CASE Release(m, a)
    BY <2>5 DEF Release, Respond, Goto, Recovering
  <2>6. QED
    BY <2>2, <2>3, <2>4, <2>5 DEF Work
<1>2. \A b \in Attempts : b < r /\ pc'[m][b] \in Running => age'[m][b] >= Elapsed(m)
  <2>1. pc'[m][a] \in Running => pc[m][a] \in Running /\ age'[m][a] = age[m][a]
    <3>1. CASE VerifyOk(m, a) \/ Acquire(m, a) \/ Parse(m, a) \/ HandlerReturns(m, a)
      BY <3>1 DEF VerifyOk, Acquire, Parse, HandlerReturns, Goto, Running, Inside
    <3>2. CASE Inspect(m, a) \/ Commit(m, a) \/ Release(m, a)
      BY <3>2, RespondPoint DEF Inspect, Commit, Release, Running, Inside
    <3>3. QED
      BY <3>1, <3>2 DEF Work
  <2>2. QED
    BY <1>f, <2>1 DEF Recovering
<1>3. marker'[m] = "processing" =>
          (\E b \in Attempts : pc'[m][b] \in Inside) \/ ttl'[m] + Elapsed(m) <= LockTtl
  <2>1. CASE Acquire(m, a) /\ marker[m] = "none"
    BY <2>1, GotoPoint DEF Acquire, Inside
  <2>2. CASE Commit(m, a) \/ Release(m, a)
    <3>1. pc[m][a] \in Inside
      BY <2>2 DEF Commit, Release, Respond, Goto, Inside
    <3>2. marker[m] = "processing"
      BY <3>1 DEF LockInv, LockHeld
    <3>3. marker'[m] # "processing"
      BY <2>2, <3>2 DEF Commit, Release, SetMarker, RedisTypeOK
    <3>4. QED
      BY <3>3
  <2>3. CASE \/ VerifyOk(m, a) \/ (Acquire(m, a) /\ marker[m] # "none") \/ Inspect(m, a)
             \/ Parse(m, a) \/ HandlerReturns(m, a)
    <3>1. marker' = marker /\ ttl' = ttl
      BY <2>3 DEF VerifyOk, Acquire, Inspect, Parse, HandlerReturns, redisVars
    <3>2. pc[m][a] \in Inside => pc'[m][a] \in Inside
      <4>1. CASE VerifyOk(m, a) \/ Acquire(m, a) \/ Inspect(m, a)
        BY <4>1 DEF VerifyOk, Acquire, Inspect, Respond, Goto, Inside
      <4>2. CASE Parse(m, a) \/ HandlerReturns(m, a)
        BY <4>2, GotoPoint DEF Parse, HandlerReturns, Inside
      <4>3. QED
        BY <2>3, <4>1, <4>2
    <3>3. \A b \in Attempts : pc[m][b] \in Inside => pc'[m][b] \in Inside
      BY <1>f, <3>2
    <3>4. QED
      BY <3>1, <3>3 DEF Recovering
  <2>4. QED
    BY <2>1, <2>2, <2>3 DEF Work
<1>4. ASSUME r = MaxRetries
      PROVE  /\ pc'[m][MaxRetries] = "inspect" => marker'[m] = "done"
             /\ pc'[m][MaxRetries] = "reply" => reply'[m][MaxRetries] = 200
  <2>1. CASE a # MaxRetries
    BY <1>4, <1>d, <1>f, <2>1 DEF Recovering
  <2>2. CASE a = MaxRetries
    <3>1. marker[m] = "processing" => pc[m][a] \in Inside
      BY <1>4, <1>f, <2>2, LastAttemptIsAlone
    <3>2. CASE Acquire(m, a)
      <4>1. pc[m][a] = "guard"
        BY <3>2 DEF Acquire, Goto
      <4>2. marker[m] \in {"none", "done"}
        BY <3>1, <4>1 DEF Inside, RedisTypeOK
      <4>3. QED
        BY <2>2, <3>2, <4>2, <1>d, GotoPoint DEF Acquire
    <3>3. CASE VerifyOk(m, a) \/ HandlerReturns(m, a)
      BY <2>2, <3>3, GotoPoint DEF VerifyOk, HandlerReturns
    <3>4. CASE Parse(m, a)
      BY <2>2, <3>4, GotoPoint DEF Parse
    <3>5. CASE Inspect(m, a)
      <4>1. marker[m] = "done"
        BY <1>4, <2>2, <3>5 DEF Inspect, Respond, Goto, Recovering
      <4>2. QED
        BY <2>2, <3>5, <4>1, RespondPoint DEF Inspect
    <3>6. CASE Commit(m, a)
      BY <2>2, <3>6, RespondPoint DEF Commit
    <3>7. CASE Release(m, a)
      BY <1>4, <2>2, <3>7 DEF Release, Respond, Goto, Recovering
    <3>8. QED
      BY <3>2, <3>3, <3>4, <3>5, <3>6, <3>7 DEF Work
  <2>3. QED
    BY <2>1, <2>2
<1>5. QED
  BY <1>f, <1>e, <1>1, <1>2, <1>3, <1>4 DEF Recovering

\* Time passes: what is left of a stale lock shrinks, and the runs age, at least as
\* fast as the backoff goes by.
LEMMA TickRecovers ==
    ASSUME TypeOK, NEW m \in Messages, Orderly(m), Recovering(m), Tick
    PROVE  Recovering(m)'
<1> /\ RunTypeOK /\ RedisTypeOK /\ BrokerTypeOK /\ LockTtl \in Nat /\ RunLimit \in Nat
    /\ retried[m] \in Attempts /\ 0 \in Attempts
  BY QstashJobConstants DEF TypeOK, BrokerTypeOK, Attempts
<1>1. phase' = phase /\ retried' = retried /\ pc' = pc /\ reply' = reply
  BY DEF Tick
<1>2. Elapsed(m) \in Int /\ Elapsed(m)' \in Int /\ Elapsed(m)' <= Elapsed(m) + 1
  <2>1. RetryDelay(0) \in Nat /\ RetryDelay(retried[m]) \in Nat /\ due[m] \in Nat
    BY RetryDelayDoubles DEF BrokerTypeOK
  <2>2. due'[m] = due[m] \/ due'[m] = CountDown(due[m])
    BY DEF Tick
  <2>3. due'[m] \in Nat /\ due'[m] >= due[m] - 1
    BY <2>1, <2>2 DEF CountDown
  <2>4. QED
    BY <1>1, <2>1, <2>3 DEF Elapsed
<1>3. \A a \in Attempts : pc[m][a] \in Running => age[m][a] \in Nat /\ age'[m][a] = age[m][a] + 1
  BY DEF Tick, RunTypeOK
<1>4. marker'[m] = "processing" =>
          marker[m] = "processing" /\ ttl[m] \in Nat /\ ttl'[m] = ttl[m] - 1
  BY DEF Tick, CountDown, RedisTypeOK, Orderly
<1>5. marker[m] = "done" => marker'[m] = "done"
  BY DEF Tick
<1>6. \A a \in Attempts : a < retried[m] /\ pc[m][a] \in Running => age'[m][a] >= Elapsed(m)'
  BY <1>2, <1>3 DEF Recovering
<1>7. marker'[m] = "processing" =>
          (\E a \in Attempts : pc[m][a] \in Inside) \/ ttl'[m] + Elapsed(m)' <= LockTtl
  BY <1>2, <1>4 DEF Recovering
<1>8. QED
  BY <1>1, <1>5, <1>6, <1>7 DEF Recovering


\* Deliveries and answers of a recovering message: a failed retry is not its last.
LEMMA BrokerRecovers ==
    ASSUME TypeOK, MaxRetries > 0, NEW m \in Messages, Orderly(m), Recovering(m),
           Deliver(m) \/ Receive(m)
    PROVE  Rejected(m)' \/ Recovering(m)'
<1> /\ RunTypeOK /\ BrokerTypeOK /\ retried[m] \in Attempts
    /\ Attempts = 0..MaxRetries /\ MaxRetries \in Nat
  BY QstashJobConstants DEF TypeOK, BrokerTypeOK, Attempts
<1>1. CASE Deliver(m)
  <2>1. \A b \in Attempts : pc'[m][b] = IF b = retried[m] THEN "verify" ELSE pc[m][b]
    BY <1>1, GotoPoint DEF Deliver
  <2>2. /\ phase[m] = "waiting" /\ due[m] = 0 /\ phase'[m] = "inflight"
        /\ pc[m][retried[m]] = "idle"
        /\ retried' = retried /\ reply' = reply /\ age' = age /\ marker' = marker /\ ttl' = ttl
    BY <1>1 DEF Deliver, BrokerTypeOK, Goto, redisVars
  <2>3. RetryDelay(retried[m]) \in Nat /\ RetryDelay(0) \in Nat
    BY RetryDelayDoubles DEF Attempts
  <2>4. Elapsed(m)' = Elapsed(m)
    BY <2>2, <2>3 DEF Elapsed
  <2>5. \A b \in Attempts : pc[m][b] \in Inside => pc'[m][b] \in Inside
    BY <2>1, <2>2 DEF Inside
  <2>6. QED
    BY <2>1, <2>2, <2>4, <2>5 DEF Recovering
<1>2. ASSUME AttemptFailed(m), pc[m][retried[m]] \in {"reply", "dead"}, phase[m] = "inflight",
             pc[m][retried[m]] = "reply" => reply[m][retried[m]] # 200,
             UNCHANGED <<runVars, redisVars>>
      PROVE  Recovering(m)'
  <2>1. retried[m] # MaxRetries
    BY <1>2 DEF Recovering
  <2>2. retried[m] < MaxRetries
    BY <2>1
  <2>3. QED
    BY <1>2, <2>2, RetryRecovers
<1>3. CASE ReceiveReply(m)
  <2>1. CASE reply[m][retried[m]] = 200
    <3>1. View(m)' = <<"acked", retried[m], due[m], pc[m], age[m], reply[m], marker[m], ttl[m]>>
      BY <1>3, <2>1 DEF ReceiveReply, View, BrokerTypeOK, runVars, redisVars
    <3>2. Elapsed(m)' = Elapsed(m)
      BY <1>3, <3>1 DEF ReceiveReply, View, Elapsed
    <3>3. QED
      BY <3>1, <3>2 DEF View, Recovering
  <2>2. CASE reply[m][retried[m]] = 489
    BY <1>3, <2>2 DEF ReceiveReply, runVars, Rejected
  <2>3. CASE reply[m][retried[m]] \notin {200, 489}
    BY <1>2, <1>3, <2>3 DEF ReceiveReply
  <2>4. QED
    BY <2>1, <2>2, <2>3
<1>4. CASE ReceiveCrash(m)
  BY <1>2, <1>4 DEF ReceiveCrash
<1>5. QED
  BY <1>1, <1>3, <1>4 DEF Receive

\* Every step keeps the state of every message one that survives a single fault.
LEMMA SurvivalStep ==
    ASSUME BackoffOutlastsLock
    PROVE  TypeOK /\ LockInv /\ (\A n \in Messages : Survives(n)) /\ [Next]_vars
               => (\A n \in Messages : Survives(n))'
<1> SUFFICES ASSUME TypeOK, LockInv, \A n \in Messages : Survives(n), [Next]_vars,
                    NEW n \in Messages
             PROVE  Survives(n)'
  OBVIOUS
<1>i. Injected \in Nat
  BY QstashJobConstants DEF TypeOK, Injected
<1>r. MaxRetries > 0
  <2>1. RetryDelay(0) \in Nat
    BY QstashJobConstants, RetryDelayDoubles DEF Attempts
  <2>2. LockTtl > 0
    BY QstashJobConstants, RunEndsBeforeLock
  <2>3. QED
    BY <2>1, <2>2, QstashJobConstants DEF BackoffOutlastsLock
<1>s. Survives(n)
  OBVIOUS
<1>1. ASSUME NEW m \in Messages, m # n, CalmStep(m) \/ FaultStep(m) PROVE Survives(n)'
  <2>1. /\ Orderly(n)' = Orderly(n) /\ Untouched(n)' = Untouched(n)
        /\ Rejected(n)' = Rejected(n) /\ Recovering(n)' = Recovering(n)
    BY <1>1, ElsewhereStep, ViewFrame
  <2>2. Injected' = Injected \/ Injected' = Injected + 1
    BY <1>1, CalmStepAddsNone, FaultStepAdds
  <2>3. QED
    BY <1>i, <1>r, <1>s, <2>1, <2>2, UntouchedRecovers DEF Survives
<1>2. CASE FaultStep(n)
  <2>1. Injected' = Injected + 1
    BY <1>2, FaultStepAdds
  <2>2. Orderly(n)'
    BY <1>2, <1>s, OrderlyStep DEF Survives
  <2>3. Injected = 0 => Rejected(n)' \/ Recovering(n)'
    BY <1>2, <1>r, <1>s, FaultHits DEF Survives
  <2>4. QED
    BY <1>i, <2>1, <2>2, <2>3 DEF Survives
<1>3. CASE CalmStep(n) \/ Tick
  <2>1. Injected' = Injected
    BY <1>3, CalmStepAddsNone
  <2>2. Orderly(n)'
    BY <1>3, <1>s, OrderlyStep DEF Survives
  <2>3. Injected = 0 => Untouched(n)'
    BY <1>3, <1>s, UntouchedStep DEF Survives
  <2>4. Rejected(n) => Rejected(n)'
    BY <1>3, <1>s, RejectedStays DEF Survives
  <2>5. Recovering(n) => Rejected(n)' \/ Recovering(n)'
    BY <1>3, <1>r, <1>s, BrokerRecovers, WorkRecovers, TickRecovers DEF Survives, CalmStep
  <2>6. QED
    BY <1>s, <2>1, <2>2, <2>3, <2>4, <2>5 DEF Survives
<1>4. CASE UNCHANGED vars
  <2>1. View(n)' = View(n) /\ Injected' = Injected
    BY <1>4, CalmStepAddsNone DEF vars, View
  <2>2. QED
    BY <1>s, <2>1, ViewFrame DEF Survives
<1>5. QED
  BY <1>1, <1>2, <1>3, <1>4 DEF Next, CalmStep, FaultStep

\* One fault is survived, for any number of messages, when the backoff reaches past
\* the lock: whatever single thing goes wrong - a run killed with the lock held, a
\* lost answer, a failed Redis call, a throw - no message is dead-lettered except
\* by a 489.
THEOREM OneFaultSurvived ==
    ASSUME BackoffOutlastsLock
    PROVE  Spec => []OneFaultIsSurvived
<1>1. Init => LockInv /\ \A m \in Messages : Survives(m)
  BY QstashJobConstants
  DEF Init, LockInv, LockHeld, OneWorker, Inside, Survives, Orderly, Untouched, Injected, Attempts
<1>2. TypeOK /\ LockInv /\ (\A m \in Messages : Survives(m)) /\ [Next]_vars
          => (LockInv /\ \A m \in Messages : Survives(m))'
  BY LockStep, SurvivalStep
<1>3. Spec => [](TypeOK /\ LockInv /\ \A m \in Messages : Survives(m))
  BY <1>1, <1>2, TypeCorrect, PTL DEF Spec
<1>4. TypeOK /\ (\A m \in Messages : Survives(m)) => OneFaultIsSurvived
  <2> SUFFICES ASSUME TypeOK, \A n \in Messages : Survives(n), Injected <= 1,
                      NEW m \in Messages, phase[m] = "dlq"
               PROVE  Rejected(m)
    BY DEF OneFaultIsSurvived
  <2>1. Injected \in Nat /\ 0 \in Attempts
    BY QstashJobConstants DEF TypeOK, Injected, Attempts
  <2>2. Survives(m)
    OBVIOUS
  <2>3. CASE Injected = 0
    BY <2>1, <2>2, <2>3 DEF Survives, Untouched, Rejected
  <2>4. CASE Injected = 1
    BY <2>2, <2>4 DEF Survives, Recovering
  <2>5. QED
    BY <2>1, <2>3, <2>4
<1>5. QED
  BY <1>3, <1>4, PTL

-----------------------------------------------------------------------------
(* The job layer implements MessageOutcome *)

\* Initially no message is settled or processed.
LEMMA OutcomeInit == Init => Outcome!Init
BY DEF Init, Outcome!Init

\* Every step of the job layer is a step of MessageOutcome or leaves it alone.
LEMMA OutcomeStep == TypeOK /\ HandledInv /\ [Next]_vars => [Outcome!Next]_(Outcome!vars)
<1> SUFFICES ASSUME TypeOK, HandledInv, [Next]_vars
             PROVE  [Outcome!Next]_(Outcome!vars)
  OBVIOUS
<1> BrokerTypeOK /\ handled \in [Messages -> Nat]
  BY DEF TypeOK
<1> DEFINE Settled(m) == IF phase[m] \in {"acked", "dlq"} THEN phase[m] ELSE "pending"
           outcome == [m \in Messages |-> Settled(m)]
           processed == {m \in Messages : handled[m] > 0}
<1> USE DEF Outcome!vars
<1>stay. ASSUME phase' = phase, handled' = handled PROVE UNCHANGED Outcome!vars
  BY <1>stay
<1>1. ASSUME NEW m \in Messages, Deliver(m) PROVE UNCHANGED Outcome!vars
  <2>1. \A n \in Messages : Settled(n)' = Settled(n)
    BY <1>1 DEF Deliver, BrokerTypeOK
  <2>2. QED
    BY <1>1, <2>1 DEF Deliver
<1>fail. ASSUME NEW m \in Messages, phase[m] = "inflight", AttemptFailed(m), handled' = handled
         PROVE  [Outcome!Next]_(Outcome!vars)
  <2>1. CASE retried[m] < MaxRetries
    <3>1. \A n \in Messages : Settled(n)' = Settled(n)
      BY <2>1, <1>fail DEF AttemptFailed, BrokerTypeOK
    <3>2. QED
      BY <1>fail, <3>1
  <2>2. CASE ~(retried[m] < MaxRetries)
    <3>1. outcome' = [outcome EXCEPT ![m] = "dlq"] /\ outcome[m] = "pending"
      BY <2>2, <1>fail DEF AttemptFailed, BrokerTypeOK
    <3>2. QED
      BY <1>fail, <3>1 DEF Outcome!Next, Outcome!DeadLetter
  <2>3. QED
    BY <2>1, <2>2
<1>2. ASSUME NEW m \in Messages, ReceiveReply(m) PROVE [Outcome!Next]_(Outcome!vars)
  <2>1. CASE reply[m][retried[m]] = 200
    <3>1. outcome' = [outcome EXCEPT ![m] = "acked"] /\ outcome[m] = "pending"
      <4>1. phase[m] = "inflight" /\ phase' = [phase EXCEPT ![m] = "acked"]
        BY <1>2, <2>1 DEF ReceiveReply
      <4>2. QED
        BY <4>1 DEF BrokerTypeOK
    <3>2. retried[m] \in Attempts
      BY DEF BrokerTypeOK
    <3>3. m \in processed /\ processed' = processed
      BY <1>2, <2>1, <3>2 DEF ReceiveReply, HandledInv
    <3>4. QED
      BY <3>1, <3>3 DEF Outcome!Next, Outcome!Acknowledge
  <2>2. CASE reply[m][retried[m]] = 489
    <3>1. outcome' = [outcome EXCEPT ![m] = "dlq"] /\ outcome[m] = "pending"
      <4>1. phase[m] = "inflight" /\ phase' = [phase EXCEPT ![m] = "dlq"]
        BY <1>2, <2>2 DEF ReceiveReply
      <4>2. QED
        BY <4>1 DEF BrokerTypeOK
    <3>2. QED
      BY <1>2, <3>1 DEF ReceiveReply, Outcome!Next, Outcome!DeadLetter
  <2>3. CASE reply[m][retried[m]] \notin {200, 489}
    BY <1>2, <2>3, <1>fail DEF ReceiveReply
  <2>4. QED
    BY <2>1, <2>2, <2>3
<1>3. ASSUME NEW m \in Messages, ReceiveCrash(m) \/ LoseReply(m)
      PROVE  [Outcome!Next]_(Outcome!vars)
  BY <1>3, <1>fail DEF ReceiveCrash, LoseReply
<1>4. ASSUME NEW m \in Messages, NEW a \in Attempts, HandlerReturns(m, a)
      PROVE  [Outcome!Next]_(Outcome!vars)
  <2>1. processed' = processed \cup {m}
    BY <1>4 DEF HandlerReturns
  <2>2. outcome' = outcome
    BY <1>4 DEF HandlerReturns, brokerVars
  <2>3. QED
    BY <2>1, <2>2 DEF Outcome!Next, Outcome!Process
<1>5. ASSUME NEW m \in Messages, NEW a \in Attempts,
             Work(m, a) \/ Disturb(m, a), ~HandlerReturns(m, a)
      PROVE  UNCHANGED Outcome!vars
  BY <1>5, <1>stay
  DEF Work, Disturb, VerifyOk, Acquire, Inspect, Parse, Commit, Release, VerifyFails,
      AcquireFails, InspectFails, HandlerThrows, CommitFails, ReleaseFails, Crash, brokerVars
<1>6. CASE Tick
  BY <1>6, <1>stay DEF Tick
<1>7. CASE UNCHANGED vars
  BY <1>7, <1>stay DEF vars
<1>8. QED
  BY <1>1, <1>2, <1>3, <1>4, <1>5, <1>6, <1>7 DEF Next, Receive

\* The whole job layer, with its retries, locks and faults, keeps the promise of
\* MessageOutcome: one final outcome per message, acknowledged only if processed.
THEOREM ImplementsOutcome == Spec => OutcomeSpec
<1>1. Init => HandledInv
  BY DEF Init, HandledInv, AckedIsHandled
<1>2. Spec => [](TypeOK /\ HandledInv)
  BY <1>1, HandledStep, TypeCorrect, PTL DEF Spec
<1>3. QED
  BY <1>2, OutcomeInit, OutcomeStep, PTL DEF Spec, OutcomeSpec, Outcome!Spec

-----------------------------------------------------------------------------
(* The keyed job *)


allVars == <<vars, keyedVars>>

-----------------------------------------------------------------------------
(* KeyedJob implements QstashJob *)

\* What a handler step is for QstashJob: nothing, or its handler's return or
\* throw.
LEMMA HandlerMaps ==
    ASSUME NEW m \in Messages, NEW a \in Attempts, Handler(m, a)
    PROVE  UNCHANGED vars \/ HandlerReturns(m, a) \/ HandlerThrows(m, a)
BY DEF Handler, Reserve, Duplicate, ReserveFails, PerformWork, Return, WorkThrows,
       WorkThrowsReleaseFails, Throws

\* A run's step outside its handler is a step of QstashJob.
LEMMA FrameMaps ==
    ASSUME NEW m \in Messages, NEW a \in Attempts, Frame(m, a)
    PROVE  Work(m, a) \/ Disturb(m, a)
BY DEF Frame, Work, Disturb

\* Every step of KeyedJob is a step of QstashJob or leaves its variables alone.
LEMMA JobStep == [KeyedNext]_allVars => [Next]_vars
<1> SUFFICES ASSUME [KeyedNext]_allVars PROVE [Next]_vars
  OBVIOUS
<1>1. ASSUME NEW m \in Messages, Deliver(m) \/ Receive(m) \/ LoseReply(m) PROVE Next
  BY <1>1 DEF Next
<1>2. ASSUME NEW m \in Messages, NEW a \in Attempts, Frame(m, a) PROVE Next
  BY <1>2, FrameMaps DEF Next
<1>3. ASSUME NEW m \in Messages, NEW a \in Attempts, Handler(m, a) PROVE [Next]_vars
  BY <1>3, HandlerMaps DEF Next, Work, Disturb
<1>4. ASSUME NEW m \in Messages, NEW a \in Attempts, KeyedCrash(m, a) PROVE Next
  BY <1>4 DEF KeyedCrash, Next, Disturb
<1>5. CASE KeyedTick
  BY <1>5 DEF KeyedTick, Next
<1>6. CASE UNCHANGED allVars
  BY <1>6 DEF allVars
<1>7. QED
  BY <1>1, <1>2, <1>3, <1>4, <1>5, <1>6 DEF KeyedNext, KeyedStep

\* A job with a business key is a job: every property proved of QstashJob, its
\* mutual exclusion and its acknowledgements included, holds of KeyedJob.
THEOREM ImplementsQstashJob == KeyedSpec => Spec
<1>1. KeyedInit => Init
  BY DEF KeyedInit
<1>2. QED
  BY <1>1, JobStep, PTL DEF KeyedSpec, Spec, allVars

-----------------------------------------------------------------------------
(* Type correctness *)

\* Moving a handler to another stage keeps the stages typed.
LEMMA StageType ==
    ASSUME KeyedTypeOK, NEW m \in Messages, NEW a \in Attempts, NEW s \in Stages,
           SetStage(m, a, s)
    PROVE  stage' \in [Messages -> [Attempts -> Stages]]
BY DEF KeyedTypeOK, SetStage

\* Reserving or releasing a key keeps its TTL typed.
LEMMA KeyType ==
    ASSUME KeyedTypeOK, NEW m \in Messages, NEW t \in {0, KeyTtl}, SetKey(m, t)
    PROVE  keyTtl' \in [Keys -> 0..KeyTtl]
<1>1. t \in 0..KeyTtl
  BY KeyedJobConstants
<1>2. QED
  BY <1>1 DEF KeyedTypeOK, SetKey

\* Every step keeps the types of the business keys and of the handlers' stages.
LEMMA KeyedTypeStep == KeyedTypeOK /\ [KeyedNext]_allVars => KeyedTypeOK'
<1> SUFFICES ASSUME KeyedTypeOK, [KeyedNext]_allVars PROVE KeyedTypeOK'
  OBVIOUS
<1> /\ "reserve" \in Stages /\ "work" \in Stages /\ "worked" \in Stages
    /\ \A m \in Messages : keyOf[m] \in Keys
  BY KeyedJobConstants DEF Stages
<1>1. CASE UNCHANGED keyedVars
  BY <1>1 DEF keyedVars, KeyedTypeOK
<1>2. ASSUME NEW m \in Messages, NEW a \in Attempts, Handler(m, a) PROVE KeyedTypeOK'
  <2>1. CASE Reserve(m, a)
    BY <2>1, StageType, KeyType DEF Reserve, KeyedTypeOK
  <2>2. CASE Duplicate(m, a)
    BY <1>1, <2>2 DEF Duplicate
  <2>3. CASE ReserveFails(m, a)
    BY <2>3, KeyType DEF ReserveFails, KeyFault, KeyedTypeOK
  <2>4. CASE PerformWork(m, a)
    <3>1. worked' \in [Keys -> Nat]
      BY <2>4 DEF PerformWork, KeyedTypeOK
    <3>2. QED
      BY <2>4, <3>1, StageType DEF PerformWork, KeyedTypeOK
  <2>5. CASE Return(m, a)
    BY <2>5, StageType DEF Return, KeyedTypeOK
  <2>6. CASE WorkThrows(m, a)
    BY <2>6, StageType, KeyType DEF WorkThrows, KeyedTypeOK
  <2>7. CASE WorkThrowsReleaseFails(m, a)
    BY <2>7, StageType DEF WorkThrowsReleaseFails, KeyFault, KeyedTypeOK
  <2>8. QED
    BY <1>2, <2>1, <2>2, <2>3, <2>4, <2>5, <2>6, <2>7 DEF Handler
<1>3. ASSUME NEW m \in Messages, NEW a \in Attempts, KeyedCrash(m, a) PROVE KeyedTypeOK'
  BY <1>3, StageType DEF KeyedCrash, KeyedTypeOK
<1>4. CASE KeyedTick
  <2>1. \A n \in 0..KeyTtl : CountDown(n) \in 0..KeyTtl
    BY KeyedJobConstants DEF CountDown
  <2>2. QED
    BY <1>4, <2>1 DEF KeyedTick, KeyedTypeOK
<1>5. QED
  BY <1>1, <1>2, <1>3, <1>4 DEF KeyedNext, KeyedStep, allVars

\* Type correctness of the composed system.
THEOREM KeyedTypeCorrect == KeyedSpec => [](TypeOK /\ KeyedTypeOK)
<1>1. KeyedInit => KeyedTypeOK
  BY KeyedJobConstants DEF KeyedInit, KeyedTypeOK, Stages
<1>2. KeyedSpec => []KeyedTypeOK
  BY <1>1, KeyedTypeStep, PTL DEF KeyedSpec, allVars
<1>3. QED
  BY <1>2, ImplementsQstashJob, TypeCorrect, PTL

-----------------------------------------------------------------------------
(* The business key *)

\* A run outside its handler has no stage; a run that holds the key is alone and
\* its reservation live.
KeyInv ==
    /\ \A m \in Messages, a \in Attempts : pc[m][a] # "handle" => stage[m][a] = "reserve"
    /\ KeyIsLive
    /\ WorkIsExclusive

\* No run comes to hold a key, no run's stage is out of step, no key is touched.
LEMMA KeyFrame ==
    ASSUME KeyInv, keyTtl' = keyTtl,
           \A n \in Messages, b \in Attempts :
              /\ HoldsKey(n, b)' => HoldsKey(n, b) /\ age'[n][b] = age[n][b]
              /\ pc'[n][b] # "handle" => stage'[n][b] = "reserve"
    PROVE  KeyInv'
BY DEF KeyInv, KeyIsLive, WorkIsExclusive

\* A step outside the handler neither ends a handler nor changes its age; a run
\* enters the handler from "parse".
LEMMA FramePoint ==
    ASSUME RunTypeOK, NEW m \in Messages, NEW a \in Attempts, Frame(m, a)
    PROVE  \A n \in Messages, b \in Attempts :
              /\ pc[n][b] = "handle" => pc'[n][b] = "handle"
              /\ pc'[n][b] = "handle" =>
                     pc[n][b] \in {"parse", "handle"} /\ age'[n][b] = age[n][b]
<1>1. CASE VerifyOk(m, a) \/ Parse(m, a)
  BY <1>1, GotoPoint DEF VerifyOk, Parse, Goto
<1>2. CASE Acquire(m, a)
  BY <1>2, GotoPoint DEF Acquire, Goto
<1>3. ASSUME NEW from, NEW status, from # "handle", Respond(m, a, from, status)
      PROVE  \A n \in Messages, b \in Attempts :
                /\ pc[n][b] = "handle" => pc'[n][b] = "handle"
                /\ pc'[n][b] = "handle" => pc[n][b] = "handle" /\ age'[n][b] = age[n][b]
  <2>1. pc[m][a] = from
    BY <1>3 DEF Respond, Goto
  <2>2. QED
    BY <1>3, <2>1, RespondPoint
<1>4. CASE VerifyFails(m, a) \/ AcquireFails(m, a) \/ Inspect(m, a) \/ InspectFails(m, a)
  BY <1>3, <1>4 DEF VerifyFails, AcquireFails, Inspect, InspectFails
<1>5. CASE Commit(m, a) \/ CommitFails(m, a) \/ Release(m, a) \/ ReleaseFails(m, a)
  BY <1>3, <1>5 DEF Commit, CommitFails, Release, ReleaseFails
<1>6. QED
  BY <1>1, <1>2, <1>4, <1>5 DEF Frame

\* What SetStage leaves in every handler: stage pointwise after the step.
LEMMA StagePoint ==
    ASSUME KeyedTypeOK, NEW m \in Messages, NEW a \in Attempts, NEW s, SetStage(m, a, s)
    PROVE  \A n \in Messages, b \in Attempts :
               stage'[n][b] = IF n = m /\ b = a THEN s ELSE stage[n][b]
BY DEF KeyedTypeOK, SetStage

\* What SetKey leaves in every key: keyTtl pointwise after the step.
LEMMA KeyPoint ==
    ASSUME KeyedTypeOK, NEW m \in Messages, NEW t, SetKey(m, t)
    PROVE  \A k \in Keys : keyTtl'[k] = IF k = keyOf[m] THEN t ELSE keyTtl[k]
BY DEF KeyedTypeOK, SetKey

\* The handler of m's attempt a leaves "handle"; every other run stays.
LEMMA HandlerLeaves ==
    ASSUME RunTypeOK, NEW m \in Messages, NEW a \in Attempts,
           HandlerReturns(m, a) \/ HandlerThrows(m, a)
    PROVE  /\ pc[m][a] = "handle" /\ pc'[m][a] # "handle" /\ age' = age
           /\ \A n \in Messages, b \in Attempts :
                 n # m \/ b # a => pc'[n][b] = pc[n][b]
BY GotoPoint DEF HandlerReturns, HandlerThrows, Goto

\* The business key is inductive: every step keeps the holder's reservation live
\* and the holder alone.
LEMMA KeyStep ==
    TypeOK /\ TypeOK' /\ KeyedTypeOK /\ KeyInv /\ [KeyedNext]_allVars => KeyInv'
<1> SUFFICES ASSUME TypeOK, TypeOK', KeyedTypeOK, KeyInv, [KeyedNext]_allVars
             PROVE  KeyInv'
  OBVIOUS
<1> /\ RunTypeOK
    /\ \A m \in Messages : keyOf[m] \in Keys
  BY KeyedJobConstants DEF TypeOK
<1> \A m \in Messages, a \in Attempts : age[m][a] \in Nat /\ age[m][a] <= RunLimit
  BY QstashJobConstants DEF RunTypeOK
<1>1. ASSUME NEW m \in Messages, Deliver(m), UNCHANGED keyedVars PROVE KeyInv'
  <2>1. retried[m] \in Attempts
    BY DEF TypeOK, BrokerTypeOK
  <2>2. \A n \in Messages, b \in Attempts :
            (pc'[n][b] = "handle") <=> (pc[n][b] = "handle")
    BY <1>1, <2>1, GotoPoint DEF Deliver, Goto
  <2>3. QED
    BY <1>1, <2>2, KeyFrame DEF Deliver, keyedVars, KeyInv, HoldsKey
<1>2. ASSUME NEW m \in Messages, Receive(m) \/ LoseReply(m), UNCHANGED keyedVars
      PROVE  KeyInv'
  <2>1. pc' = pc /\ age' = age
    BY <1>2 DEF Receive, ReceiveReply, ReceiveCrash, LoseReply, runVars
  <2>2. QED
    BY <1>2, <2>1, KeyFrame DEF keyedVars, KeyInv, HoldsKey
<1>3. ASSUME NEW m \in Messages, NEW a \in Attempts, Frame(m, a), UNCHANGED keyedVars
      PROVE  KeyInv'
  <2>1. \A n \in Messages, b \in Attempts :
            /\ HoldsKey(n, b)' => HoldsKey(n, b) /\ age'[n][b] = age[n][b]
            /\ pc'[n][b] # "handle" => stage'[n][b] = "reserve"
    BY <1>3, FramePoint DEF keyedVars, KeyInv, HoldsKey
  <2>2. QED
    BY <1>3, <2>1, KeyFrame DEF keyedVars
<1>4. ASSUME NEW m \in Messages, NEW a \in Attempts, Reserve(m, a) PROVE KeyInv'
  <2>1. \A n \in Messages, b \in Attempts : keyOf[n] = keyOf[m] => ~HoldsKey(n, b)
    BY <1>4, RunEndsBeforeKey, QstashJobConstants, KeyedJobConstants
    DEF Reserve, KeyInv, KeyIsLive
  <2>2. pc' = pc /\ age' = age /\ pc[m][a] = "handle"
    BY <1>4 DEF Reserve, AtStage, vars
  <2>3. \A n \in Messages, b \in Attempts :
            stage'[n][b] = IF n = m /\ b = a THEN "work" ELSE stage[n][b]
    BY <1>4, StagePoint DEF Reserve
  <2>4. \A k \in Keys : keyTtl'[k] = IF k = keyOf[m] THEN KeyTtl ELSE keyTtl[k]
    BY <1>4, KeyPoint DEF Reserve
  <2>5. \A n \in Messages, b \in Attempts :
            HoldsKey(n, b)' => HoldsKey(n, b) \/ (n = m /\ b = a)
    BY <2>2, <2>3 DEF HoldsKey
  <2>6. KeyIsLive'
    BY <2>1, <2>2, <2>4, <2>5, KeyedJobConstants DEF KeyInv, KeyIsLive
  <2>7. WorkIsExclusive'
    BY <2>1, <2>5 DEF KeyInv, WorkIsExclusive
  <2>8. QED
    BY <2>2, <2>3, <2>6, <2>7 DEF KeyInv
<1>5. ASSUME NEW m \in Messages, NEW a \in Attempts, PerformWork(m, a) PROVE KeyInv'
  <2>1. pc' = pc /\ age' = age /\ pc[m][a] = "handle" /\ stage[m][a] = "work"
    BY <1>5 DEF PerformWork, AtStage, vars
  <2>2. \A n \in Messages, b \in Attempts :
            stage'[n][b] = IF n = m /\ b = a THEN "worked" ELSE stage[n][b]
    BY <1>5, StagePoint DEF PerformWork
  <2>3. QED
    BY <1>5, <2>1, <2>2, KeyFrame DEF PerformWork, KeyInv, HoldsKey
<1>6. ASSUME NEW m \in Messages, NEW a \in Attempts, Duplicate(m, a) \/ Return(m, a)
      PROVE  KeyInv'
  <2>1. /\ pc[m][a] = "handle" /\ pc'[m][a] # "handle" /\ age' = age
        /\ \A n \in Messages, b \in Attempts : n # m \/ b # a => pc'[n][b] = pc[n][b]
    BY <1>6, HandlerLeaves DEF Duplicate, Return
  <2>2. \A n \in Messages, b \in Attempts :
            stage'[n][b] = IF n = m /\ b = a THEN "reserve" ELSE stage[n][b]
    BY <1>6, StagePoint DEF Duplicate, Return, AtStage, keyedVars
  <2>3. keyTtl' = keyTtl
    BY <1>6 DEF Duplicate, Return, keyedVars
  <2>4. QED
    BY <2>1, <2>2, <2>3, KeyFrame DEF KeyInv, HoldsKey
<1>7. ASSUME NEW m \in Messages, NEW a \in Attempts, ReserveFails(m, a) PROVE KeyInv'
  <2>1. /\ pc[m][a] = "handle" /\ pc'[m][a] # "handle" /\ age' = age
        /\ \A n \in Messages, b \in Attempts : n # m \/ b # a => pc'[n][b] = pc[n][b]
    BY <1>7, HandlerLeaves DEF ReserveFails, Throws
  <2>2. stage' = stage /\ stage[m][a] = "reserve"
    BY <1>7 DEF ReserveFails, AtStage
  <2>3. \A n \in Messages, b \in Attempts : HoldsKey(n, b)' => HoldsKey(n, b)
    BY <2>1, <2>2 DEF HoldsKey
  <2>4. CASE keyTtl' = keyTtl
    BY <2>1, <2>2, <2>3, <2>4, KeyFrame DEF KeyInv
  <2>5. CASE keyTtl[keyOf[m]] = 0 /\ SetKey(m, KeyTtl)
    <3>1. \A n \in Messages, b \in Attempts : keyOf[n] = keyOf[m] => ~HoldsKey(n, b)
      BY <2>5, RunEndsBeforeKey, QstashJobConstants, KeyedJobConstants
      DEF KeyInv, KeyIsLive
    <3>2. \A k \in Keys : keyTtl'[k] = IF k = keyOf[m] THEN KeyTtl ELSE keyTtl[k]
      BY <2>5, KeyPoint
    <3>3. KeyIsLive' /\ WorkIsExclusive'
      BY <2>1, <2>3, <3>1, <3>2 DEF KeyInv, KeyIsLive, WorkIsExclusive
    <3>4. QED
      BY <2>1, <2>2, <3>3 DEF KeyInv
  <2>6. QED
    BY <1>7, <2>4, <2>5 DEF ReserveFails
<1>8. ASSUME NEW m \in Messages, NEW a \in Attempts, WorkThrows(m, a) PROVE KeyInv'
  <2>1. /\ pc[m][a] = "handle" /\ pc'[m][a] # "handle" /\ age' = age
        /\ \A n \in Messages, b \in Attempts : n # m \/ b # a => pc'[n][b] = pc[n][b]
    BY <1>8, HandlerLeaves DEF WorkThrows, Throws
  <2>2. \A n \in Messages, b \in Attempts :
            stage'[n][b] = IF n = m /\ b = a THEN "reserve" ELSE stage[n][b]
    BY <1>8, StagePoint DEF WorkThrows
  <2>3. \A k \in Keys : keyTtl'[k] = IF k = keyOf[m] THEN 0 ELSE keyTtl[k]
    BY <1>8, KeyPoint DEF WorkThrows
  <2>4. \A n \in Messages, b \in Attempts :
            HoldsKey(n, b)' => HoldsKey(n, b) /\ ~(n = m /\ b = a)
    BY <2>1, <2>2 DEF HoldsKey
  <2>5. HoldsKey(m, a)
    BY <1>8 DEF WorkThrows, AtStage, HoldsKey
  <2>6. \A n \in Messages, b \in Attempts : HoldsKey(n, b)' => keyOf[n] # keyOf[m]
    BY <2>4, <2>5 DEF KeyInv, WorkIsExclusive
  <2>7. KeyIsLive' /\ WorkIsExclusive'
    BY <2>1, <2>3, <2>4, <2>6 DEF KeyInv, KeyIsLive, WorkIsExclusive
  <2>8. QED
    BY <2>1, <2>2, <2>7 DEF KeyInv
<1>9. ASSUME NEW m \in Messages, NEW a \in Attempts,
             WorkThrowsReleaseFails(m, a) \/ KeyedCrash(m, a)
      PROVE  KeyInv'
  <2>1. /\ pc'[m][a] # "handle"
        /\ \A n \in Messages, b \in Attempts :
              n # m \/ b # a => pc'[n][b] = pc[n][b] /\ age'[n][b] = age[n][b]
    <3>1. CASE WorkThrowsReleaseFails(m, a)
      BY <3>1, HandlerLeaves DEF WorkThrowsReleaseFails, Throws
    <3>2. CASE KeyedCrash(m, a)
      BY <3>2 DEF KeyedCrash, Crash, RunTypeOK
    <3>3. QED
      BY <1>9, <3>1, <3>2
  <2>2. \A n \in Messages, b \in Attempts :
            stage'[n][b] = IF n = m /\ b = a THEN "reserve" ELSE stage[n][b]
    BY <1>9, StagePoint DEF WorkThrowsReleaseFails, KeyedCrash
  <2>3. keyTtl' = keyTtl
    BY <1>9 DEF WorkThrowsReleaseFails, KeyedCrash
  <2>4. QED
    BY <2>1, <2>2, <2>3, KeyFrame DEF KeyInv, HoldsKey
<1>10. CASE KeyedTick
  <2>1. pc' = pc /\ stage' = stage
    BY <1>10 DEF KeyedTick, Tick
  <2>2. \A m \in Messages, a \in Attempts : HoldsKey(m, a) =>
            age[m][a] < RunLimit /\ age'[m][a] = age[m][a] + 1
    BY <1>10, QstashJobConstants DEF KeyedTick, Tick, HoldsKey, Running, Inside, RunTypeOK
  <2>3. \A k \in Keys : keyTtl[k] \in Nat
                        /\ keyTtl'[k] = IF keyTtl[k] = 0 THEN 0 ELSE keyTtl[k] - 1
    BY <1>10, KeyedJobConstants DEF KeyedTick, CountDown, KeyedTypeOK
  <2>4. \A m \in Messages, a \in Attempts : HoldsKey(m, a) =>
            keyTtl'[keyOf[m]] + age'[m][a] >= KeyTtl
    BY <2>2, <2>3, RunEndsBeforeKey, QstashJobConstants, KeyedJobConstants
    DEF KeyInv, KeyIsLive
  <2>5. QED
    BY <2>1, <2>4 DEF KeyInv, KeyIsLive, WorkIsExclusive, HoldsKey
<1>11. CASE UNCHANGED allVars
  BY <1>11, KeyFrame DEF allVars, vars, keyedVars, KeyInv, HoldsKey
<1>12. QED
  BY <1>1, <1>2, <1>3, <1>4, <1>5, <1>6, <1>7, <1>8, <1>9, <1>10, <1>11
  DEF KeyedNext, KeyedStep, Handler

\* KeyInv is an invariant of the composed system.
LEMMA KeyHolds == KeyedSpec => []KeyInv
<1>1. KeyedInit => KeyInv
  BY DEF KeyedInit, Init, KeyInv, KeyIsLive, WorkIsExclusive, HoldsKey
<1>2. QED
  BY <1>1, KeyStep, KeyedTypeCorrect, PTL DEF KeyedSpec, allVars

\* The work of one business key is exclusive, for every number of messages that
\* carry it, as long as the function limit is below the reservation's TTL.
THEOREM ExclusiveWork == KeyedSpec => []WorkIsExclusive
<1>1. KeyInv => WorkIsExclusive
  BY DEF KeyInv
<1>2. QED
  BY <1>1, KeyHolds, PTL

\* The reservation of a run at work is live.
THEOREM ReservationIsLive == KeyedSpec => []KeyIsLive
<1>1. KeyInv => KeyIsLive
  BY DEF KeyInv
<1>2. QED
  BY <1>1, KeyHolds, PTL

-----------------------------------------------------------------------------
(* No work is lost *)

Clean == CleanJob /\ keyFaults = 0

\* NothingLost with what it rests on: a reservation stands for work that is done
\* or going on, and while a key's work is not done, some message that carries it
\* has not been counted as processed.
LossInv == Clean =>
    /\ \A m \in Messages, a \in Attempts :
          AtStage(m, a, "worked") => worked[keyOf[m]] > 0
    /\ \A k \in Keys : keyTtl[k] > 0 =>
          worked[k] > 0 \/ \E m \in Messages, a \in Attempts :
                               keyOf[m] = k /\ AtStage(m, a, "work")
    /\ \A m \in Messages : worked[keyOf[m]] > 0 \/ \E n \in Messages :
                               keyOf[n] = keyOf[m] /\ handled[n] = 0

\* Every step of a clean system keeps track of the work that is still to do.
LEMMA LossStep ==
    TypeOK /\ KeyedTypeOK /\ LockInv /\ DoneInv /\ KeyInv /\ LossInv /\ [KeyedNext]_allVars
    => LossInv'
<1> SUFFICES ASSUME TypeOK, KeyedTypeOK, LockInv, DoneInv, KeyInv, LossInv,
                    [KeyedNext]_allVars, Clean'
             PROVE  LossInv'
  BY DEF LossInv
<1> /\ RunTypeOK /\ handled \in [Messages -> Nat]
    /\ \A m \in Messages : keyOf[m] \in Keys
  BY KeyedJobConstants DEF TypeOK
<1>clean. Clean
  <2>1. CleanJob
    BY JobStep, CleanStep DEF Clean
  <2>2. keyFaults' = 0 => keyFaults = 0
    <3>1. \A m \in Messages, a \in Attempts : Handler(m, a) \/ KeyedCrash(m, a) =>
              keyFaults' = keyFaults \/ keyFaults' = keyFaults + 1
      BY DEF Handler, Reserve, Duplicate, ReserveFails, PerformWork, Return, WorkThrows,
             WorkThrowsReleaseFails, KeyedCrash, KeyFault, keyedVars
    <3>2. keyFaults' = keyFaults \/ keyFaults' = keyFaults + 1
      BY <3>1 DEF KeyedNext, KeyedStep, KeyedTick, allVars, keyedVars
    <3>3. QED
      BY <3>2 DEF KeyedTypeOK
  <2>3. QED
    BY <2>1, <2>2 DEF Clean
<1>keep. ASSUME worked' = worked, handled' = handled,
                \A k \in Keys : keyTtl'[k] > 0 => keyTtl[k] > 0,
                \A n \in Messages, b \in Attempts :
                    /\ AtStage(n, b, "worked")' => AtStage(n, b, "worked")
                    /\ AtStage(n, b, "work") =>
                           AtStage(n, b, "work")' \/ ~(keyTtl'[keyOf[n]] > 0)
         PROVE  LossInv'
  BY <1>clean, <1>keep DEF LossInv
<1>1. ASSUME NEW m \in Messages, Deliver(m) \/ Receive(m) \/ LoseReply(m),
             UNCHANGED keyedVars
      PROVE  LossInv'
  <2>1. retried[m] \in Attempts
    BY DEF TypeOK, BrokerTypeOK
  <2>2. \A n \in Messages, b \in Attempts :
            (pc'[n][b] = "handle") <=> (pc[n][b] = "handle")
    <3>1. CASE Deliver(m)
      BY <2>1, <3>1, GotoPoint DEF Deliver, Goto
    <3>2. CASE Receive(m) \/ LoseReply(m)
      BY <3>2 DEF Receive, ReceiveReply, ReceiveCrash, LoseReply, runVars
    <3>3. QED
      BY <1>1, <3>1, <3>2
  <2>3. handled' = handled
    BY <1>1 DEF Deliver, Receive, ReceiveReply, ReceiveCrash, LoseReply
  <2>4. QED
    BY <1>1, <2>2, <2>3, <1>keep DEF keyedVars, AtStage
<1>2. ASSUME NEW m \in Messages, NEW a \in Attempts, Frame(m, a), UNCHANGED keyedVars
      PROVE  LossInv'
  <2>1. handled' = handled
    BY <1>2 DEF Frame, VerifyOk, VerifyFails, Acquire, AcquireFails, Inspect, InspectFails,
                Parse, Commit, CommitFails, Release, ReleaseFails
  <2>2. \A n \in Messages, b \in Attempts :
            /\ AtStage(n, b, "worked")' => AtStage(n, b, "worked")
            /\ AtStage(n, b, "work") => AtStage(n, b, "work")'
    BY <1>2, FramePoint DEF keyedVars, AtStage, KeyInv
  <2>3. QED
    BY <1>2, <2>1, <2>2, <1>keep DEF keyedVars
<1>3. ASSUME NEW m \in Messages, NEW a \in Attempts, Reserve(m, a) PROVE LossInv'
  <2>1. /\ pc' = pc /\ handled' = handled /\ worked' = worked
        /\ pc[m][a] = "handle" /\ stage[m][a] = "reserve"
    BY <1>3 DEF Reserve, AtStage, vars
  <2>2. \A n \in Messages, b \in Attempts :
            stage'[n][b] = IF n = m /\ b = a THEN "work" ELSE stage[n][b]
    BY <1>3, StagePoint DEF Reserve
  <2>3. \A k \in Keys : keyTtl'[k] = IF k = keyOf[m] THEN KeyTtl ELSE keyTtl[k]
    BY <1>3, KeyPoint DEF Reserve
  <2>4. /\ AtStage(m, a, "work")'
        /\ \A n \in Messages, b \in Attempts :
              /\ AtStage(n, b, "worked")' => AtStage(n, b, "worked")
              /\ AtStage(n, b, "work") => AtStage(n, b, "work")'
    BY <2>1, <2>2 DEF AtStage
  <2>5. QED
    BY <1>clean, <2>1, <2>3, <2>4 DEF LossInv
<1>4. ASSUME NEW m \in Messages, NEW a \in Attempts, PerformWork(m, a) PROVE LossInv'
  <2>1. pc' = pc /\ handled' = handled /\ keyTtl' = keyTtl
    BY <1>4 DEF PerformWork, vars
  <2>2. \A n \in Messages, b \in Attempts :
            stage'[n][b] = IF n = m /\ b = a THEN "worked" ELSE stage[n][b]
    BY <1>4, StagePoint DEF PerformWork
  <2>3. \A k \in Keys : worked[k] \in Nat
                        /\ worked'[k] = IF k = keyOf[m] THEN worked[k] + 1 ELSE worked[k]
    BY <1>4 DEF PerformWork, KeyedTypeOK
  <2>4. \A n \in Messages, b \in Attempts :
            /\ AtStage(n, b, "worked")' => AtStage(n, b, "worked") \/ n = m
            /\ AtStage(n, b, "work") => AtStage(n, b, "work")' \/ n = m
    BY <2>1, <2>2 DEF AtStage
  <2>5. QED
    BY <1>clean, <2>1, <2>3, <2>4 DEF LossInv
<1>5. ASSUME NEW m \in Messages, NEW a \in Attempts, Duplicate(m, a) \/ Return(m, a)
      PROVE  LossInv'
  <2>1. /\ pc[m][a] = "handle" /\ pc'[m][a] # "handle"
        /\ \A n \in Messages, b \in Attempts : n # m \/ b # a => pc'[n][b] = pc[n][b]
    BY <1>5, HandlerLeaves DEF Duplicate, Return
  <2>2. \A n \in Messages, b \in Attempts :
            stage'[n][b] = IF n = m /\ b = a THEN "reserve" ELSE stage[n][b]
    BY <1>5, StagePoint DEF Duplicate, Return, AtStage, keyedVars
  <2>3. keyTtl' = keyTtl /\ worked' = worked
    BY <1>5 DEF Duplicate, Return, keyedVars
  <2>4. \A n \in Messages : n # m => handled'[n] = handled[n]
    BY <1>5 DEF Duplicate, Return, HandlerReturns
  <2>5. stage[m][a] # "work"
    BY <1>5 DEF Duplicate, Return, AtStage
  <2>6. \A n \in Messages, b \in Attempts :
            /\ AtStage(n, b, "worked")' => AtStage(n, b, "worked")
            /\ AtStage(n, b, "work") => AtStage(n, b, "work")' /\ n # m
    <3>1. \A b \in Attempts : pc[m][b] = "handle" => b = a
      BY <2>1 DEF LockInv, OneWorker, Inside
    <3>2. QED
      BY <2>1, <2>2, <2>5, <3>1 DEF AtStage
  <2>7. \A n \in Messages, b \in Attempts : AtStage(n, b, "work") => handled[n] = 0
    <3> SUFFICES ASSUME NEW n \in Messages, NEW b \in Attempts, AtStage(n, b, "work"),
                        handled[n] # 0
                 PROVE  FALSE
      OBVIOUS
    <3>1. pc[n][b] = "handle" /\ handled[n] > 0
      BY DEF AtStage
    <3>2. marker[n] = "processing"
      BY <3>1 DEF LockInv, LockHeld, Inside
    <3>3. PICK c \in Attempts : pc[n][c] = "commit"
      BY <1>clean, <3>1, <3>2 DEF Clean, DoneInv
    <3>4. QED
      BY <3>1, <3>3 DEF LockInv, OneWorker, Inside
  <2>8. worked[keyOf[m]] > 0 \/ keyTtl[keyOf[m]] > 0
    BY <1>5, <1>clean DEF Duplicate, Return, LossInv
  <2>9. \A k \in Keys : keyTtl[k] > 0 =>
            worked[k] > 0 \/ \E n \in Messages \ {m}, b \in Attempts :
                                 keyOf[n] = k /\ AtStage(n, b, "work")
    BY <1>clean, <2>6 DEF LossInv
  <2>10. worked[keyOf[m]] > 0 \/ \E n \in Messages \ {m} :
                                     keyOf[n] = keyOf[m] /\ handled[n] = 0
    BY <2>7, <2>8, <2>9
  <2>11. \A n \in Messages : worked[keyOf[n]] > 0 \/ \E o \in Messages :
                                 keyOf[o] = keyOf[n] /\ handled'[o] = 0
    <3> SUFFICES ASSUME NEW n \in Messages
                 PROVE  worked[keyOf[n]] > 0 \/ \E o \in Messages :
                            keyOf[o] = keyOf[n] /\ handled'[o] = 0
      OBVIOUS
    <3>1. CASE keyOf[n] = keyOf[m]
      BY <2>4, <2>10, <3>1
    <3>2. CASE keyOf[n] # keyOf[m]
      BY <1>clean, <2>4, <3>2 DEF LossInv
    <3>3. QED
      BY <3>1, <3>2
  <2>12. QED
    BY <1>clean, <2>3, <2>6, <2>9, <2>11 DEF LossInv
<1>6. ASSUME NEW m \in Messages, NEW a \in Attempts, WorkThrows(m, a) PROVE LossInv'
  <2>1. /\ pc'[m][a] # "handle"
        /\ \A n \in Messages, b \in Attempts : n # m \/ b # a => pc'[n][b] = pc[n][b]
    BY <1>6, HandlerLeaves DEF WorkThrows, Throws
  <2>2. \A n \in Messages, b \in Attempts :
            stage'[n][b] = IF n = m /\ b = a THEN "reserve" ELSE stage[n][b]
    BY <1>6, StagePoint DEF WorkThrows
  <2>3. \A k \in Keys : keyTtl'[k] = IF k = keyOf[m] THEN 0 ELSE keyTtl[k]
    BY <1>6, KeyPoint DEF WorkThrows
  <2>4. worked' = worked /\ handled' = handled
    BY <1>6 DEF WorkThrows, Throws, HandlerThrows
  <2>5. \A n \in Messages, b \in Attempts :
            /\ AtStage(n, b, "worked")' => AtStage(n, b, "worked")
            /\ AtStage(n, b, "work") => AtStage(n, b, "work")' \/ n = m
    BY <2>1, <2>2 DEF AtStage
  <2>6. QED
    BY <2>3, <2>4, <2>5, <1>keep
<1>7. ASSUME NEW m \in Messages, NEW a \in Attempts,
             ReserveFails(m, a) \/ WorkThrowsReleaseFails(m, a)
      PROVE  LossInv'
  BY <1>7 DEF ReserveFails, WorkThrowsReleaseFails, KeyFault, KeyedTypeOK, Clean
<1>8. ASSUME NEW m \in Messages, NEW a \in Attempts, KeyedCrash(m, a) PROVE LossInv'
  BY <1>8, FaultCounts, QstashJobConstants DEF KeyedCrash, Crash, Clean, CleanJob
<1>9. CASE KeyedTick
  <2>1. \A k \in Keys : keyTtl'[k] > 0 => keyTtl[k] > 0
    BY <1>9, KeyedJobConstants DEF KeyedTick, CountDown, KeyedTypeOK
  <2>2. QED
    BY <1>9, <2>1, <1>keep DEF KeyedTick, Tick, AtStage
<1>10. CASE UNCHANGED allVars
  BY <1>10, <1>keep DEF allVars, vars, keyedVars, AtStage
<1>11. QED
  BY <1>1, <1>2, <1>3, <1>4, <1>5, <1>6, <1>7, <1>8, <1>9, <1>10
  DEF KeyedNext, KeyedStep, Handler

\* No message layer, key layer or timing loses work by itself: it takes a killed
\* run or a failed Redis call to have every message of a key acknowledged while
\* its work was never done.
THEOREM NoWorkIsLost == KeyedSpec => []NothingLost
<1>1. KeyedInit => LossInv
  BY DEF KeyedInit, Init, LossInv, AtStage
<1>2. KeyedSpec => []LossInv
  BY <1>1, LossStep, KeyHolds, KeyedTypeCorrect, DoneHolds, ImplementsQstashJob, PTL
  DEF KeyedSpec, allVars
<1>3. TypeOK /\ LossInv /\ AckedIsHandled => NothingLost
  BY DEF LossInv, Clean, CleanJob, NothingLost, AckedIsHandled, TypeOK
<1>4. QED
  BY <1>2, <1>3, AcknowledgedMeansHandled, ImplementsQstashJob, KeyedTypeCorrect, PTL

-----------------------------------------------------------------------------
(* KeyedJob implements JobLayer *)

\* Every message is orderly, whatever the backoff.
AllOrderly == \A m \in Messages : Orderly(m)

LEMMA AllOrderlyStep == TypeOK /\ AllOrderly /\ [Next]_vars => AllOrderly'
<1> SUFFICES ASSUME TypeOK, AllOrderly, [Next]_vars, NEW n \in Messages PROVE Orderly(n)'
  BY DEF AllOrderly
<1> Orderly(n)
  BY DEF AllOrderly
<1>1. ASSUME NEW m \in Messages, m # n, CalmStep(m) \/ FaultStep(m) PROVE Orderly(n)'
  BY <1>1, ElsewhereStep, ViewFrame
<1>2. CASE CalmStep(n) \/ FaultStep(n) \/ Tick
  BY <1>2, OrderlyStep
<1>3. CASE UNCHANGED vars
  <2>1. View(n)' = View(n)
    BY <1>3 DEF vars, View
  <2>2. QED
    BY <2>1, ViewFrame
<1>4. QED
  BY <1>1, <1>2, <1>3 DEF Next, CalmStep, FaultStep

LEMMA OrderlyHolds == Spec => []AllOrderly
<1>1. Init => AllOrderly
  <2> SUFFICES ASSUME Init, NEW m \in Messages PROVE Orderly(m)
    BY Zenon DEF AllOrderly
  <2>1. /\ pc[m] = [a \in Attempts |-> "idle"] /\ reply[m] = [a \in Attempts |-> 0]
        /\ retried[m] \in Attempts /\ marker[m] = "none"
    BY QstashJobConstants DEF Init, Attempts
  <2>2. QED
    BY <2>1 DEF Orderly
<1>2. QED
  BY <1>1, AllOrderlyStep, TypeCorrect, PTL DEF Spec

\* The steps of one message.
MessageStep(m) ==
    \/ (Deliver(m) \/ Receive(m) \/ LoseReply(m)) /\ UNCHANGED keyedVars
    \/ \E a \in Attempts : Frame(m, a) /\ UNCHANGED keyedVars
    \/ \E a \in Attempts : Handler(m, a) \/ KeyedCrash(m, a)

\* Everything that is kept of message m, when its key is its own.
KeyedView(m) == <<View(m), stage[m], handled[m], worked[keyOf[m]]>>

\* What a message is like while no fault of the layers has happened: its attempts
\* run one after the other, the lock and the marker belong to the current one, and
\* the work is done when a run has returned, not before and not without it.
Smooth(m) ==
    LET r == retried[m] IN
    /\ \A a \in Attempts : a < r => pc[m][a] = "reply"
    /\ pc[m][r] \notin {"inspect", "dead"}
    /\ marker[m] = "processing" => pc[m][r] \in Inside
    /\ marker[m] = "done" => pc[m][r] = "reply" /\ reply[m][r] = 200
    /\ handled[m] > 0 => marker[m] = "done" \/ pc[m][r] = "commit"
    /\ worked[keyOf[m]] > 0 => handled[m] > 0 \/ AtStage(m, r, "worked")
    /\ handled[m] > 0 => worked[keyOf[m]] > 0
    /\ phase[m] = "dlq" => pc[m][r] = "reply" /\ reply[m][r] # 200

CalmInv == Calm => \A m \in Messages : Smooth(m)

\* For QstashJob a message's step is one of the message too, or none.
LEMMA MessageMaps ==
    ASSUME NEW m \in Messages, MessageStep(m)
    PROVE  CalmStep(m) \/ FaultStep(m) \/ UNCHANGED vars
<1>1. CASE (Deliver(m) \/ Receive(m) \/ LoseReply(m)) /\ UNCHANGED keyedVars
  BY <1>1 DEF CalmStep, FaultStep
<1>2. ASSUME NEW a \in Attempts, Frame(m, a)
      PROVE  CalmStep(m) \/ FaultStep(m)
  BY <1>2, FrameMaps DEF CalmStep, FaultStep
<1>3. ASSUME NEW a \in Attempts, Handler(m, a)
      PROVE  CalmStep(m) \/ FaultStep(m) \/ UNCHANGED vars
  BY <1>3, HandlerMaps DEF CalmStep, FaultStep, Work, Disturb
<1>4. ASSUME NEW a \in Attempts, KeyedCrash(m, a) PROVE FaultStep(m)
  BY <1>4 DEF KeyedCrash, FaultStep, Disturb
<1>5. QED
  BY <1>1, <1>2, <1>3, <1>4 DEF MessageStep

\* A message's step leaves the messages of other keys alone.
LEMMA KeyedElsewhere ==
    ASSUME DistinctKeys, TypeOK, KeyedTypeOK, NEW m \in Messages, MessageStep(m),
           NEW n \in Messages, n # m
    PROVE  KeyedView(n)' = KeyedView(n)
<1> keyOf[n] # keyOf[m] /\ keyOf[n] \in Keys
  BY KeyedJobConstants DEF DistinctKeys
<1>1. View(n)' = View(n)
  <2>1. CASE UNCHANGED vars
    BY <2>1 DEF vars, View
  <2>2. QED
    BY <2>1, MessageMaps, ElsewhereStep
<1>2. stage'[n] = stage[n] /\ worked'[keyOf[n]] = worked[keyOf[n]]
  BY DEF KeyedTypeOK, MessageStep, keyedVars, Handler, Reserve, Duplicate, ReserveFails,
         PerformWork, Return, WorkThrows, WorkThrowsReleaseFails, KeyedCrash, SetStage
<1>3. handled'[n] = handled[n]
  <2>1. CASE UNCHANGED vars
    BY <2>1 DEF vars
  <2>2. CASE CalmStep(m)
    BY <2>2 DEF TypeOK, CalmStep, Deliver, Receive, ReceiveReply, ReceiveCrash, Work,
       VerifyOk, Acquire, Inspect, Parse, HandlerReturns, Commit, Release
  <2>3. CASE FaultStep(m)
    BY <2>3 DEF FaultStep, LoseReply, Disturb, VerifyFails, AcquireFails, InspectFails,
       HandlerThrows, CommitFails, ReleaseFails, Crash
  <2>4. QED
    BY <2>1, <2>2, <2>3, MessageMaps
<1>4. QED
  BY <1>1, <1>2, <1>3 DEF KeyedView

\* What JobLayer sees of a message depends on its own state only.
LEMMA LayerFrame ==
    ASSUME NEW n \in Messages, KeyedView(n)' = KeyedView(n)
    PROVE  /\ JobOf(n)' = JobOf(n) /\ LeftOf(n)' = LeftOf(n)
           /\ Rejected(n)' = Rejected(n) /\ Smooth(n)' = Smooth(n)
<1>1. /\ phase'[n] = phase[n] /\ retried'[n] = retried[n]
      /\ pc'[n] = pc[n] /\ reply'[n] = reply[n] /\ marker'[n] = marker[n]
      /\ stage'[n] = stage[n] /\ handled'[n] = handled[n]
      /\ worked'[keyOf[n]] = worked[keyOf[n]]
  BY DEF KeyedView, View
<1>2. \A a \in Attempts : Fresh(n, a)' = Fresh(n, a)
  BY <1>1 DEF Fresh, AtStage
<1>3. {a \in Attempts : Fresh(n, a)'} = {a \in Attempts : Fresh(n, a)}
  BY <1>2
<1>4. LeftOf(n)' = LeftOf(n)
  BY <1>3 DEF LeftOf
<1>5. AtWork(n)' = AtWork(n)
  BY <1>1 DEF AtWork, AtStage
<1>6. JobOf(n)' = JobOf(n)
  BY <1>1, <1>4, <1>5 DEF JobOf
<1>7. Rejected(n)' = Rejected(n)
  BY <1>1 DEF Rejected
<1>8. Smooth(n)' = Smooth(n)
  BY <1>1 DEF Smooth, AtStage
<1>9. QED
  BY <1>4, <1>6, <1>7, <1>8

\* Work that a run has completed is counted, and the count is not taken back.
WorkedInv == \A m \in Messages, a \in Attempts : AtStage(m, a, "worked") => worked[keyOf[m]] > 0

LEMMA WorkedStep == TypeOK /\ KeyedTypeOK /\ KeyInv /\ WorkedInv /\ [KeyedNext]_allVars => WorkedInv'
<1> SUFFICES ASSUME TypeOK, KeyedTypeOK, KeyInv, WorkedInv, [KeyedNext]_allVars,
                    NEW n \in Messages, NEW b \in Attempts, AtStage(n, b, "worked")'
             PROVE  worked'[keyOf[n]] > 0
  BY DEF WorkedInv
<1> RunTypeOK /\ keyOf[n] \in Keys /\ retried \in [Messages -> Attempts]
  BY KeyedJobConstants DEF TypeOK, BrokerTypeOK
<1>1. ASSUME UNCHANGED <<stage, worked>>, pc[n][b] = "handle" \/ stage[n][b] = "reserve"
      PROVE  worked'[keyOf[n]] > 0
  BY <1>1 DEF AtStage, WorkedInv
<1>2. ASSUME NEW m \in Messages, Deliver(m) \/ Receive(m) \/ LoseReply(m), UNCHANGED keyedVars
      PROVE  worked'[keyOf[n]] > 0
  BY <1>1, <1>2 DEF KeyInv, keyedVars
<1>3. ASSUME NEW m \in Messages, NEW a \in Attempts, Frame(m, a), UNCHANGED keyedVars
      PROVE  worked'[keyOf[n]] > 0
  BY <1>1, <1>3 DEF KeyInv, keyedVars
<1>4. ASSUME NEW m \in Messages, NEW a \in Attempts, PerformWork(m, a)
      PROVE  worked'[keyOf[n]] > 0
  <2>1. /\ worked \in [Keys -> Nat] /\ keyOf[m] \in Keys
        /\ worked' = [worked EXCEPT ![keyOf[m]] = @ + 1]
    BY <1>4, KeyedJobConstants DEF PerformWork, KeyedTypeOK
  <2>2. pc' = pc /\ stage'[n][b] = IF n = m /\ b = a THEN "worked" ELSE stage[n][b]
    BY <1>4, StagePoint DEF PerformWork, vars
  <2>3. CASE n = m
    BY <2>1, <2>3
  <2>4. CASE n # m
    BY <2>1, <2>2, <2>4 DEF AtStage, WorkedInv
  <2>5. QED
    BY <2>3, <2>4
<1>5. ASSUME NEW m \in Messages, NEW a \in Attempts,
             Reserve(m, a) \/ Duplicate(m, a) \/ ReserveFails(m, a) \/ Return(m, a)
             \/ WorkThrows(m, a) \/ WorkThrowsReleaseFails(m, a) \/ KeyedCrash(m, a)
      PROVE  worked'[keyOf[n]] > 0
  <2>1. worked' = worked
    BY <1>5 DEF Reserve, Duplicate, ReserveFails, Return, WorkThrows, WorkThrowsReleaseFails,
       KeyedCrash, keyedVars
  <2>2. stage' = stage \/ SetStage(m, a, "work") \/ SetStage(m, a, "reserve")
    BY <1>5 DEF Reserve, Duplicate, ReserveFails, Return, WorkThrows, WorkThrowsReleaseFails,
       KeyedCrash, keyedVars
  <2>3. stage[n][b] = "worked"
    BY <2>2, StagePoint DEF AtStage
  <2>4. QED
    BY <2>1, <2>3 DEF KeyInv, WorkedInv, AtStage
<1>6. CASE KeyedTick \/ UNCHANGED allVars
  BY <1>6 DEF KeyedTick, Tick, allVars, vars, keyedVars, AtStage, WorkedInv
<1>7. QED
  BY <1>2, <1>3, <1>4, <1>5, <1>6 DEF KeyedNext, KeyedStep, Handler

LEMMA WorkedHolds == KeyedSpec => []WorkedInv
<1>1. KeyedInit => WorkedInv
  BY DEF KeyedInit, Init, WorkedInv, AtStage
<1>2. QED
  BY <1>1, WorkedStep, KeyHolds, KeyedTypeCorrect, PTL DEF KeyedSpec, allVars

\* Faults are counted and never taken back.
LEMMA FaultsGrow ==
    ASSUME TypeOK, KeyedTypeOK, [KeyedNext]_allVars
    PROVE  /\ \A k \in FaultKinds : faults'[k] >= faults[k]
           /\ keyFaults' >= keyFaults
<1>1. UNCHANGED faults \/ (\E k \in FaultKinds : Fault(k)) =>
          \A j \in FaultKinds : faults'[j] >= faults[j]
  BY DEF Fault, TypeOK
<1> FaultKinds = {"crash", "redis", "throw", "lost"} /\ [Next]_vars
  BY QstashJobConstants, JobStep
<1>2. ASSUME NEW m \in Messages, CalmStep(m) PROVE UNCHANGED faults
  BY <1>2 DEF CalmStep, Deliver, Receive, ReceiveReply, ReceiveCrash, Work, VerifyOk, Acquire,
     Inspect, Parse, HandlerReturns, Commit, Release
<1>3. ASSUME NEW m \in Messages, FaultStep(m) PROVE \E k \in FaultKinds : Fault(k)
  BY <1>3 DEF FaultStep, LoseReply, Disturb, VerifyFails, AcquireFails, InspectFails,
     HandlerThrows, CommitFails, ReleaseFails, Crash
<1>4. Tick \/ UNCHANGED vars => UNCHANGED faults
  BY DEF Tick, vars
<1>5. \A k \in FaultKinds : faults'[k] >= faults[k]
  BY <1>1, <1>2, <1>3, <1>4 DEF Next, CalmStep, FaultStep
<1>6. keyFaults' = keyFaults \/ keyFaults' = keyFaults + 1
  <2>1. ASSUME NEW m \in Messages, NEW a \in Attempts, Handler(m, a) \/ KeyedCrash(m, a)
        PROVE  keyFaults' = keyFaults \/ keyFaults' = keyFaults + 1
    BY <2>1 DEF Handler, Reserve, Duplicate, ReserveFails, PerformWork, Return, WorkThrows,
       WorkThrowsReleaseFails, KeyedCrash, KeyFault, keyedVars
  <2>2. QED
    BY <2>1 DEF KeyedNext, KeyedStep, KeyedTick, allVars, keyedVars
<1>7. keyFaults' >= keyFaults
  BY <1>6 DEF KeyedTypeOK
<1>8. QED
  BY <1>5, <1>7

\* Only a crash takes a 489 back.
LEMMA RejectionStays ==
    ASSUME TypeOK, AllOrderly, [Next]_vars, NEW n \in Messages, Rejected(n),
           faults'["crash"] = faults["crash"]
    PROVE  Rejected(n)'
<1> RunTypeOK /\ Orderly(n) /\ FaultKinds = {"crash", "redis", "throw", "lost"}
  BY QstashJobConstants DEF TypeOK, AllOrderly
<1>1. ASSUME NEW m \in Messages, m # n, CalmStep(m) \/ FaultStep(m) PROVE Rejected(n)'
  BY <1>1, ElsewhereStep, ViewFrame
<1>2. CASE CalmStep(n) \/ Tick
  BY <1>2, RejectedStays
<1>3. CASE LoseReply(n) \/ UNCHANGED vars
  BY <1>3 DEF LoseReply, runVars, vars, Rejected
<1>4. ASSUME NEW a \in Attempts, Disturb(n, a) PROVE Rejected(n)'
  <2>1. PICK r \in Attempts : reply[n][r] = 489
    BY DEF Rejected
  <2>2. pc[n][r] \in {"release", "reply"}
    BY <2>1 DEF Orderly
  <2>3. reply'[n][r] = 489
    <3>1. CASE a # r
      BY <1>4, <2>1, <3>1, RunStepFrame
    <3>2. CASE a = r
      <4>1. ~Crash(n, a)
        BY DEF Crash, Fault, TypeOK
      <4>2. ReleaseFails(n, a)
        BY <1>4, <2>2, <3>2, <4>1 DEF Disturb, VerifyFails, AcquireFails, InspectFails,
           HandlerThrows, CommitFails, Goto, Respond
      <4>3. QED
        BY <2>1, <3>2, <4>2, RespondPoint DEF ReleaseFails
    <3>3. QED
      BY <3>1, <3>2
  <2>4. QED
    BY <2>3 DEF Rejected
<1>5. QED
  BY <1>1, <1>2, <1>3, <1>4 DEF Next, CalmStep, FaultStep

\* A system that is calm after a step was calm before it.
LEMMA CalmWas ==
    ASSUME TypeOK, KeyedTypeOK, AllOrderly, [KeyedNext]_allVars, Calm'
    PROVE  Calm
<1> FaultKinds = {"crash", "redis", "throw", "lost"} /\ [Next]_vars
  BY QstashJobConstants, JobStep
<1>1. /\ \A k \in FaultKinds : faults[k] \in Nat /\ faults'[k] >= faults[k]
      /\ keyFaults \in Nat /\ keyFaults' >= keyFaults
  BY FaultsGrow DEF TypeOK, KeyedTypeOK
<1>2. faults["crash"] = 0 /\ faults["redis"] = 0 /\ faults["lost"] = 0 /\ keyFaults = 0
  BY <1>1 DEF Calm
<1>3. faults'["crash"] = faults["crash"]
  BY <1>2 DEF Calm
<1>4. \A n \in Messages : ~Rejected(n)
  BY <1>3, RejectionStays DEF Calm
<1>5. QED
  BY <1>2, <1>4 DEF Calm

\* A fault of the layers ends the calm.
LEMMA CalmEnds ==
    ASSUME TypeOK, KeyedTypeOK,
           Fault("crash") \/ Fault("redis") \/ Fault("lost") \/ KeyFault
    PROVE  ~Calm'
<1> FaultKinds = {"crash", "redis", "throw", "lost"} /\ keyFaults \in Nat
  BY QstashJobConstants DEF KeyedTypeOK
<1>1. CASE KeyFault
  BY <1>1 DEF KeyFault, Calm
<1>2. ASSUME NEW k \in {"crash", "redis", "lost"}, Fault(k) PROVE ~Calm'
  BY <1>2 DEF TypeOK, Fault, Calm
<1>3. QED
  BY <1>1, <1>2

\* What holds of every keyed job, whatever happens.
LayerInv ==
    /\ TypeOK /\ KeyedTypeOK /\ LockInv /\ DoneInv
    /\ KeyInv /\ LossInv /\ WorkedInv /\ AllOrderly

LEMMA LayerInvHolds == KeyedSpec => []LayerInv
<1>1. KeyedInit => LossInv
  BY DEF KeyedInit, Init, LossInv, AtStage
<1>2. KeyedSpec => []LossInv
  BY <1>1, LossStep, KeyHolds, KeyedTypeCorrect, DoneHolds, ImplementsQstashJob, PTL
  DEF KeyedSpec, allVars
<1>3. QED
  BY <1>2, KeyHolds, KeyedTypeCorrect, DoneHolds, WorkedHolds, OrderlyHolds,
     ImplementsQstashJob, PTL DEF LayerInv

\* In the calm the only run under way is that of the current attempt.
LEMMA CurrentRun ==
    ASSUME LayerInv, NEW m \in Messages, Smooth(m), NEW a \in Attempts,
           pc[m][a] \notin {"idle", "reply"}
    PROVE  a = retried[m]
<1>1. Orderly(m) /\ a \in Int /\ retried[m] \in Int /\ retried[m] \in Attempts
  BY QstashJobConstants DEF LayerInv, TypeOK, BrokerTypeOK, AllOrderly, Attempts
<1>2. ~(a > retried[m]) /\ ~(a < retried[m])
  BY <1>1 DEF Orderly, Smooth
<1>3. QED
  BY <1>1, <1>2

\* In the calm a run that has not come to its end finds nothing handled and, up to
\* the work itself, nothing done.
LEMMA NothingYet ==
    ASSUME LayerInv, NEW m \in Messages, Smooth(m),
           pc[m][retried[m]] \notin {"commit", "reply"}
    PROVE  /\ handled[m] = 0
           /\ ~AtStage(m, retried[m], "worked") => worked[keyOf[m]] = 0
<1>1. handled[m] \in Nat /\ worked[keyOf[m]] \in Nat
  BY KeyedJobConstants DEF LayerInv, TypeOK, KeyedTypeOK
<1>2. handled[m] = 0
  BY <1>1 DEF Smooth
<1>3. QED
  BY <1>1, <1>2 DEF Smooth

\* In the calm no run finds its key taken: a reservation stands for the work of
\* another run.
LEMMA KeyIsFree ==
    ASSUME LayerInv, DistinctKeys, Calm, NEW m \in Messages, Smooth(m), NEW a \in Attempts,
           AtStage(m, a, "reserve")
    PROVE  keyTtl[keyOf[m]] = 0
<1> SUFFICES ASSUME keyTtl[keyOf[m]] > 0 PROVE FALSE
  BY KeyedJobConstants DEF LayerInv, KeyedTypeOK
<1>1. a = retried[m]
  BY CurrentRun DEF AtStage
<1>2. worked[keyOf[m]] = 0
  BY <1>1, NothingYet DEF AtStage
<1>3. keyOf[m] \in Keys /\ Clean
  BY KeyedJobConstants DEF Calm, Clean, CleanJob
<1>4. PICK n \in Messages, b \in Attempts : keyOf[n] = keyOf[m] /\ AtStage(n, b, "work")
  BY <1>2, <1>3 DEF LayerInv, LossInv
<1>5. n = m
  BY <1>4 DEF DistinctKeys
<1>6. b = a
  BY <1>4, <1>5 DEF AtStage, LayerInv, LockInv, OneWorker, Inside
<1>7. QED
  BY <1>4, <1>5, <1>6 DEF AtStage

\* What the broker does to a message in the calm.
LEMMA BrokerSmooth ==
    ASSUME LayerInv, NEW m \in Messages, Smooth(m), Deliver(m) \/ Receive(m),
           UNCHANGED keyedVars
    PROVE  Smooth(m)'
<1> DEFINE r == retried[m]
<1> /\ RunTypeOK /\ BrokerTypeOK /\ r \in Attempts /\ r \in Nat /\ Orderly(m)
    /\ Attempts = 0..MaxRetries /\ MaxRetries \in Nat
    /\ handled[m] \in Nat /\ worked[keyOf[m]] \in Nat
    /\ marker[m] \in {"none", "processing", "done"}
  BY QstashJobConstants, KeyedJobConstants
  DEF LayerInv, TypeOK, KeyedTypeOK, BrokerTypeOK, RedisTypeOK, AllOrderly, Attempts
<1>1. UNCHANGED <<reply, marker, handled, stage, worked>>
  BY DEF Deliver, Receive, ReceiveReply, ReceiveCrash, runVars, redisVars, keyedVars
<1>2. CASE Deliver(m)
  <2>1. /\ pc[m][r] = "idle" /\ retried'[m] = r /\ phase'[m] = "inflight"
        /\ \A b \in Attempts : pc'[m][b] = IF b = r THEN "verify" ELSE pc[m][b]
    BY <1>2 DEF Deliver, Goto, BrokerTypeOK, RunTypeOK
  <2>2. handled[m] = 0 /\ worked[keyOf[m]] = 0 /\ marker[m] = "none"
    BY <2>1, NothingYet DEF Smooth, AtStage, Inside
  <2>3. QED
    BY <1>1, <2>1, <2>2 DEF Smooth
<1>3. CASE Receive(m)
  <2>1. ReceiveReply(m) /\ pc[m][r] = "reply" /\ pc' = pc
    BY <1>3 DEF Receive, ReceiveReply, ReceiveCrash, Smooth, runVars
  <2>2. CASE reply[m][r] = 200
    <3>1. retried' = retried /\ phase'[m] = "acked"
      BY <2>1, <2>2 DEF ReceiveReply, BrokerTypeOK, AttemptFailed
    <3>2. QED
      BY <1>1, <2>1, <3>1 DEF Smooth, AtStage
  <2>3. CASE reply[m][r] # 200
    <3>1. marker[m] = "none" /\ handled[m] = 0 /\ worked[keyOf[m]] = 0
      BY <2>1, <2>3 DEF Smooth, AtStage, Inside
    <3>2. \/ retried'[m] = r
          \/ retried'[m] = r + 1 /\ r + 1 \in Attempts /\ phase'[m] = "waiting"
      BY <2>1, <2>3, FailedPoint DEF ReceiveReply
    <3>3. CASE retried'[m] = r
      BY <1>1, <2>1, <2>3, <3>1, <3>3 DEF Smooth
    <3>4. CASE retried'[m] = r + 1 /\ r + 1 \in Attempts /\ phase'[m] = "waiting"
      <4>1. pc[m][r + 1] = "idle"
        BY <3>4 DEF Orderly
      <4>2. \A b \in Attempts : b < r + 1 => pc[m][b] = "reply"
        BY <2>1 DEF Smooth
      <4>3. QED
        BY <1>1, <2>1, <3>1, <3>4, <4>1, <4>2 DEF Smooth
    <3>5. QED
      BY <3>2, <3>3, <3>4
  <2>4. QED
    BY <2>2, <2>3
<1>4. QED
  BY <1>2, <1>3

\* What a run does outside its handler in the calm.
LEMMA FrameSmooth ==
    ASSUME LayerInv, Calm', NEW m \in Messages, Smooth(m), NEW a \in Attempts, Frame(m, a),
           UNCHANGED keyedVars
    PROVE  Smooth(m)'
<1> DEFINE r == retried[m]
<1> TypeOK /\ KeyedTypeOK
  BY DEF LayerInv
<1> /\ RunTypeOK /\ RedisTypeOK /\ r \in Attempts /\ r \in Nat
    /\ Attempts = 0..MaxRetries /\ MaxRetries \in Nat
    /\ handled[m] \in Nat /\ worked[keyOf[m]] \in Nat
    /\ marker[m] \in {"none", "processing", "done"}
  BY QstashJobConstants, KeyedJobConstants
  DEF LayerInv, TypeOK, KeyedTypeOK, BrokerTypeOK, RedisTypeOK, Attempts
<1>1. ~AcquireFails(m, a) /\ ~InspectFails(m, a) /\ ~CommitFails(m, a) /\ ~ReleaseFails(m, a)
  BY CalmEnds DEF AcquireFails, InspectFails, CommitFails, ReleaseFails
<1>2. pc[m][a] \in {"verify", "guard", "inspect", "parse", "commit", "release"}
  BY DEF Frame, VerifyOk, VerifyFails, Acquire, AcquireFails, Inspect, InspectFails, Parse,
     Commit, CommitFails, Release, ReleaseFails, Respond, Goto
<1>3. a = r
  BY <1>2, CurrentRun
<1>4. /\ \A b \in Attempts : b # r => pc'[m][b] = pc[m][b]
      /\ retried' = retried /\ phase' = phase /\ UNCHANGED <<stage, worked>>
  BY <1>3, FrameMaps, RunStepFrame DEF keyedVars
<1>5. phase[m] # "dlq" /\ marker[m] # "done"
  BY <1>2, <1>3 DEF Smooth
<1>6. CASE pc[m][r] # "commit"
  <2>1. handled' = handled /\ handled[m] = 0 /\ worked[keyOf[m]] = 0
    BY <1>1, <1>2, <1>3, <1>6, NothingYet DEF Frame, VerifyOk, VerifyFails, Acquire, Inspect, Parse,
       Commit, Release, Respond, Goto, AtStage
  <2>2. CASE VerifyOk(m, a) \/ VerifyFails(m, a) \/ Parse(m, a)
    <3>1. marker' = marker /\ (marker[m] = "processing" => Parse(m, a))
      BY <1>3, <2>2 DEF VerifyOk, VerifyFails, Parse, redisVars, Smooth, Respond, Goto, Inside
    <3>2. /\ VerifyOk(m, a) => pc'[m][r] = "guard"
          /\ VerifyFails(m, a) => pc'[m][r] = "reply"
          /\ Parse(m, a) => pc'[m][r] \in {"handle", "release"}
      BY <1>3 DEF VerifyOk, VerifyFails, Parse, Respond, Goto, RunTypeOK
    <3>3. QED
      BY <1>4, <1>5, <2>1, <2>2, <3>1, <3>2 DEF Smooth, Inside
  <2>3. CASE Acquire(m, a)
    <3>1. marker[m] = "none"
      BY <1>3, <1>5, <2>3 DEF Acquire, Goto, Smooth, Inside
    <3>2. pc'[m][r] = "parse" /\ marker'[m] = "processing"
      BY <1>3, <2>3, <3>1, GotoPoint DEF Acquire, SetMarker, RedisTypeOK
    <3>3. QED
      BY <1>4, <1>5, <2>1, <3>2 DEF Smooth, Inside
  <2>4. CASE Release(m, a)
    <3>1. pc'[m][r] = "reply" /\ marker'[m] = "none"
      BY <1>3, <2>4, GotoPoint DEF Release, Respond, SetMarker, RedisTypeOK
    <3>2. QED
      BY <1>4, <1>5, <2>1, <3>1 DEF Smooth
  <2>5. ~Inspect(m, a) /\ ~Commit(m, a)
    BY <1>3, <1>6 DEF Inspect, Commit, Respond, Goto, Smooth
  <2>6. QED
    BY <1>1, <2>2, <2>3, <2>4, <2>5 DEF Frame
<1>7. CASE pc[m][r] = "commit"
  <2>1. Commit(m, a)
    BY <1>1, <1>3, <1>7 DEF Frame, VerifyOk, VerifyFails, Acquire, Inspect, Parse,
       Release, Respond, Goto
  <2>2. marker[m] = "processing"
    BY <1>7 DEF LayerInv, LockInv, LockHeld, Inside
  <2>3. marker'[m] = "done" /\ handled' = handled
    BY <2>1, <2>2 DEF Commit, SetMarker, RedisTypeOK
  <2>4. pc'[m][r] = "reply" /\ reply'[m][r] = 200
    BY <1>3, <2>1, RespondPoint DEF Commit
  <2>5. worked[keyOf[m]] > 0 => handled[m] > 0
    BY <1>7 DEF Smooth, AtStage
  <2>6. QED
    BY <1>4, <1>5, <2>3, <2>4, <2>5 DEF Smooth
<1>8. QED
  BY <1>6, <1>7

\* What a handler does in the calm.
LEMMA HandlerSmooth ==
    ASSUME LayerInv, DistinctKeys, Calm, Calm', NEW m \in Messages, Smooth(m),
           NEW a \in Attempts, Handler(m, a)
    PROVE  Smooth(m)'
<1> DEFINE r == retried[m]
<1> TypeOK /\ KeyedTypeOK
  BY DEF LayerInv
<1> /\ RunTypeOK /\ r \in Attempts /\ r \in Nat
    /\ Attempts = 0..MaxRetries /\ MaxRetries \in Nat
    /\ handled \in [Messages -> Nat] /\ worked \in [Keys -> Nat] /\ keyOf[m] \in Keys
  BY QstashJobConstants, KeyedJobConstants
  DEF LayerInv, TypeOK, KeyedTypeOK, BrokerTypeOK, Attempts
<1>1. ~ReserveFails(m, a) /\ ~WorkThrowsReleaseFails(m, a)
  BY CalmEnds DEF ReserveFails, WorkThrowsReleaseFails
<1>2. pc[m][a] = "handle" /\ a = r
  BY CurrentRun DEF Handler, Reserve, Duplicate, ReserveFails, PerformWork, Return, WorkThrows,
     WorkThrowsReleaseFails, AtStage
<1>3. ~Duplicate(m, a)
  BY KeyIsFree DEF Duplicate
<1>4. UNCHANGED <<marker, retried, phase>>
  BY <1>1, <1>3 DEF Handler, Reserve, PerformWork, Return, WorkThrows, Throws, HandlerReturns,
     HandlerThrows, vars, redisVars, brokerVars
<1>5. phase[m] # "dlq" /\ marker[m] # "done" /\ handled[m] = 0
  BY <1>2, NothingYet DEF Smooth
<1>6. CASE Reserve(m, a) \/ PerformWork(m, a)
  <2>1. pc' = pc /\ handled' = handled
    BY <1>6 DEF Reserve, PerformWork, vars
  <2>2. worked[keyOf[m]] = 0
    BY <1>2, <1>6, NothingYet DEF Reserve, PerformWork, AtStage
  <2>3. worked'[keyOf[m]] > 0 => AtStage(m, r, "worked")'
    <3>1. Reserve(m, a) => worked' = worked
      BY DEF Reserve
    <3>2. PerformWork(m, a) => stage'[m][r] = "worked"
      BY <1>2 DEF PerformWork, SetStage, KeyedTypeOK
    <3>3. QED
      BY <1>2, <1>4, <1>6, <2>1, <2>2, <3>1, <3>2 DEF AtStage
  <2>4. QED
    BY <1>2, <1>4, <1>5, <2>1, <2>3 DEF Smooth
<1>7. CASE Return(m, a)
  <2>1. worked' = worked /\ worked[keyOf[m]] > 0
    BY <1>7 DEF Return, LayerInv, WorkedInv
  <2>2. handled'[m] = 1
    BY <1>5, <1>7 DEF Return, HandlerReturns
  <2>3. \A b \in Attempts : pc'[m][b] = IF b = r THEN "commit" ELSE pc[m][b]
    BY <1>2, <1>7, GotoPoint DEF Return, HandlerReturns
  <2>4. QED
    BY <1>2, <1>4, <1>5, <2>1, <2>2, <2>3 DEF Smooth, Inside
<1>8. CASE WorkThrows(m, a)
  <2>1. UNCHANGED <<worked, handled>> /\ worked[keyOf[m]] = 0
    BY <1>2, <1>8, NothingYet DEF WorkThrows, Throws, HandlerThrows, AtStage
  <2>2. \A b \in Attempts : pc'[m][b] = IF b = r THEN "release" ELSE pc[m][b]
    BY <1>2, <1>8, GotoPoint DEF WorkThrows, Throws, HandlerThrows
  <2>3. QED
    BY <1>2, <1>4, <1>5, <2>1, <2>2 DEF Smooth, Inside
<1>9. QED
  BY <1>1, <1>3, <1>6, <1>7, <1>8 DEF Handler

LEMMA CalmInvStep ==
    ASSUME DistinctKeys
    PROVE  LayerInv /\ CalmInv /\ [KeyedNext]_allVars => CalmInv'
<1> SUFFICES ASSUME LayerInv, CalmInv, [KeyedNext]_allVars, Calm', NEW n \in Messages
             PROVE  Smooth(n)'
  BY DEF CalmInv
<1> TypeOK /\ KeyedTypeOK /\ AllOrderly
  BY DEF LayerInv
<1> Calm /\ Smooth(n)
  BY CalmWas DEF CalmInv
<1>1. ASSUME NEW m \in Messages, MessageStep(m), m # n PROVE Smooth(n)'
  BY <1>1, KeyedElsewhere, LayerFrame
<1>2. CASE MessageStep(n)
  <2>1. ~LoseReply(n) /\ \A a \in Attempts : ~KeyedCrash(n, a)
    BY CalmEnds DEF LoseReply, KeyedCrash, Crash
  <2>2. QED
    BY <1>2, <2>1, BrokerSmooth, FrameSmooth, HandlerSmooth DEF MessageStep
<1>3. CASE KeyedTick \/ UNCHANGED allVars
  <2>1. /\ UNCHANGED <<pc, retried, reply, phase, handled, worked, stage>>
        /\ marker'[n] = marker[n] \/ marker'[n] = "none"
    BY <1>3 DEF KeyedTick, Tick, allVars, vars, keyedVars
  <2>2. marker[n] = "done" => marker'[n] = "done"
    BY <1>3 DEF KeyedTick, Tick, allVars, vars
  <2>3. QED
    BY <2>1, <2>2 DEF Smooth, AtStage
<1>4. QED
  BY <1>1, <1>2, <1>3 DEF KeyedNext, KeyedStep, MessageStep

LEMMA CalmInvHolds == ASSUME DistinctKeys PROVE KeyedSpec => []CalmInv
<1>1. KeyedInit => CalmInv
  <2> SUFFICES ASSUME KeyedInit, NEW m \in Messages PROVE Smooth(m)
    BY Zenon DEF CalmInv
  <2>1. /\ pc[m] = [a \in Attempts |-> "idle"] /\ retried[m] = 0 /\ marker[m] = "none"
        /\ handled[m] = 0 /\ worked[keyOf[m]] = 0 /\ phase[m] = "waiting" /\ 0 \in Attempts
    BY QstashJobConstants, KeyedJobConstants DEF KeyedInit, Init, Attempts
  <2>2. QED
    BY <2>1, QstashJobConstants DEF Smooth, Attempts
<1>2. QED
  BY <1>1, CalmInvStep, LayerInvHolds, PTL DEF KeyedSpec, allVars

\* The attempts are counted.
LEMMA AttemptsFinite == IsFiniteSet(Attempts) /\ Cardinality(Attempts) = MaxRetries + 1
<1>1. 0 \in Int /\ MaxRetries \in Int /\ ~(0 > MaxRetries) /\ MaxRetries - 0 + 1 = MaxRetries + 1
  BY QstashJobConstants
<1>2. /\ IsFiniteSet(0..MaxRetries)
      /\ Cardinality(0..MaxRetries) = IF 0 > MaxRetries THEN 0 ELSE MaxRetries - 0 + 1
  BY <1>1, FS_Interval
<1>3. QED
  BY <1>1, <1>2 DEF Attempts

\* What the attempts that may still get to the work add up to.
LEMMA LeftType ==
    ASSUME NEW m \in Messages
    PROVE  /\ LeftOf(m) \in Nat
           /\ \A a \in Attempts : Fresh(m, a) => LeftOf(m) > 0
           /\ (\A a \in Attempts : Fresh(m, a)) => LeftOf(m) = MaxRetries + 1
<1> DEFINE S == {a \in Attempts : Fresh(m, a)}
<1>1. IsFiniteSet(Attempts) /\ Cardinality(Attempts) = MaxRetries + 1
  BY AttemptsFinite
<1>2. IsFiniteSet(S)
  <2>1. S \in SUBSET Attempts
    OBVIOUS
  <2> HIDE DEF S
  <2>2. QED
    BY <1>1, <2>1, FS_Subset
<1>3. Cardinality(S) \in Nat
  BY <1>2, FS_CardinalityType
<1>4. S # {} => Cardinality(S) # 0
  BY <1>2, FS_EmptySet
<1>5. (\A a \in Attempts : Fresh(m, a)) => S = Attempts
  OBVIOUS
<1> HIDE DEF S
<1>6. LeftOf(m) = Cardinality(S)
  BY DEF LeftOf, S
<1>7. \A a \in Attempts : Fresh(m, a) => S # {}
  BY DEF S
<1>8. QED
  BY <1>1, <1>3, <1>4, <1>5, <1>6, <1>7

\* Attempts are used up, one at a time when a single one is.
LEMMA LeftShrinks ==
    ASSUME NEW m \in Messages, \A a \in Attempts : Fresh(m, a)' => Fresh(m, a)
    PROVE  /\ LeftOf(m)' \in Nat /\ LeftOf(m)' <= LeftOf(m)
           /\ (\A a \in Attempts : Fresh(m, a) => Fresh(m, a)') => LeftOf(m)' = LeftOf(m)
           /\ \A a \in Attempts :
                 Fresh(m, a) /\ (\A b \in Attempts : Fresh(m, b)' <=> Fresh(m, b) /\ b # a)
                 => LeftOf(m)' = LeftOf(m) - 1
<1> DEFINE S == {a \in Attempts : Fresh(m, a)}
           T == {a \in Attempts : Fresh(m, a)'}
<1>1. IsFiniteSet(S)
  <2>1. S \in SUBSET Attempts
    OBVIOUS
  <2> HIDE DEF S
  <2>2. QED
    BY <2>1, AttemptsFinite, FS_Subset
<1>2. T \in SUBSET S
  OBVIOUS
<1>3. (\A a \in Attempts : Fresh(m, a) => Fresh(m, a)') => T = S
  OBVIOUS
<1>4. \A a \in Attempts :
          Fresh(m, a) /\ (\A b \in Attempts : Fresh(m, b)' <=> Fresh(m, b) /\ b # a)
          => a \in S /\ T = S \ {a}
  OBVIOUS
<1>5. LeftOf(m) = Cardinality(S) /\ LeftOf(m)' = Cardinality(T)
  BY DEF LeftOf
<1> HIDE DEF S, T
<1>6. IsFiniteSet(T) /\ Cardinality(T) <= Cardinality(S)
  BY <1>1, <1>2, FS_Subset
<1>7. Cardinality(T) \in Nat
  BY <1>6, FS_CardinalityType
<1>8. \A a \in S : Cardinality(S \ {a}) = Cardinality(S) - 1
  BY <1>1, FS_RemoveElement
<1>9. QED
  BY <1>3, <1>4, <1>5, <1>6, <1>7, <1>8

\* The standings of a job, one by one.
LEMMA JobCases ==
    ASSUME NEW m \in Messages, worked[keyOf[m]] \in Nat, handled[m] \in Nat
    PROVE  /\ AtWork(m) /\ worked[keyOf[m]] > 0 => JobOf(m) = "reworking"
           /\ AtWork(m) /\ worked[keyOf[m]] = 0 => JobOf(m) = "working"
           /\ ~AtWork(m) /\ worked[keyOf[m]] > 0 => JobOf(m) = "done"
           /\ ~AtWork(m) /\ worked[keyOf[m]] = 0 =>
                 JobOf(m) = IF handled[m] > 0 THEN "lost"
                            ELSE IF LeftOf(m) > 0 THEN "queued" ELSE "dead"
<1>1. AtWork(m) \in BOOLEAN
  BY DEF AtWork
<1>2. QED
  BY <1>1 DEF JobOf

LEMMA JobValue ==
    ASSUME LayerInv, NEW m \in Messages
    PROVE  /\ AtWork(m) /\ worked[keyOf[m]] > 0 => JobOf(m) = "reworking"
           /\ AtWork(m) /\ worked[keyOf[m]] = 0 => JobOf(m) = "working"
           /\ ~AtWork(m) /\ worked[keyOf[m]] > 0 => JobOf(m) = "done"
           /\ ~AtWork(m) /\ worked[keyOf[m]] = 0 =>
                 JobOf(m) = IF handled[m] > 0 THEN "lost"
                            ELSE IF LeftOf(m) > 0 THEN "queued" ELSE "dead"
           /\ worked[keyOf[m]] \in Nat /\ handled[m] \in Nat
<1>1. worked[keyOf[m]] \in Nat /\ handled[m] \in Nat
  BY KeyedJobConstants DEF LayerInv, TypeOK, KeyedTypeOK
<1>2. QED
  BY <1>1, JobCases

\* What a step of m makes of the layer's variables.
LEMMA LayerMove ==
    ASSUME NEW m \in Messages, NEW s, NEW n, JobOf(m)' = s, LeftOf(m)' = n,
           \A o \in Messages \ {m} : JobOf(o)' = JobOf(o) /\ LeftOf(o)' = LeftOf(o)
    PROVE  Layer!Move(m, s, n)
BY DEF Layer!Move

\* The steps of a message that neither start nor finish its work.
OtherStep(m) ==
    MessageStep(m) /\ \A a \in Attempts : ~Reserve(m, a) /\ ~PerformWork(m, a)

\* A step other than these brings no run to the work, uses attempts up, and counts
\* a job as processed only if it has work to do or is done.
LEMMA OtherPoint ==
    ASSUME LayerInv, NEW m \in Messages, OtherStep(m)
    PROVE  /\ \A a \in Attempts : AtStage(m, a, "work")' => AtStage(m, a, "work")
           /\ \A a \in Attempts : Fresh(m, a)' => Fresh(m, a)
           /\ worked'[keyOf[m]] = worked[keyOf[m]]
           /\ \/ handled'[m] = handled[m]
              \/ /\ handled'[m] = handled[m] + 1
                 /\ worked[keyOf[m]] > 0 \/ \E a \in Attempts : Fresh(m, a)
<1> TypeOK /\ KeyedTypeOK
  BY DEF LayerInv
<1> /\ RunTypeOK /\ BrokerTypeOK /\ retried[m] \in Attempts
    /\ handled \in [Messages -> Nat]
    /\ \A a \in Attempts : pc[m][a] # "handle" => stage[m][a] = "reserve"
  BY DEF TypeOK, BrokerTypeOK, LayerInv, KeyInv
<1> DEFINE Goal ==
      /\ \A b \in Attempts : AtStage(m, b, "work")' => AtStage(m, b, "work")
      /\ \A b \in Attempts : Fresh(m, b)' => Fresh(m, b)
      /\ worked'[keyOf[m]] = worked[keyOf[m]]
      /\ \/ handled'[m] = handled[m]
         \/ /\ handled'[m] = handled[m] + 1
            /\ worked[keyOf[m]] > 0 \/ \E b \in Attempts : Fresh(m, b)
<1>1. ASSUME Deliver(m), UNCHANGED keyedVars PROVE Goal
  <2>1. /\ phase[m] = "waiting" /\ handled' = handled
        /\ pc[m][retried[m]] = "idle"
        /\ \A b \in Attempts : pc'[m][b] = IF b = retried[m] THEN "verify" ELSE pc[m][b]
    BY <1>1 DEF Deliver, Goto, RunTypeOK
  <2>2. QED
    BY <1>1, <2>1 DEF keyedVars, AtStage, Fresh
<1>2. ASSUME Receive(m) \/ LoseReply(m), UNCHANGED keyedVars PROVE Goal
  <2>1. pc' = pc /\ phase[m] = "inflight" /\ handled' = handled
    BY <1>2 DEF Receive, ReceiveReply, ReceiveCrash, LoseReply, runVars
  <2>2. QED
    BY <1>2, <2>1 DEF keyedVars, AtStage, Fresh
<1>3. ASSUME NEW a \in Attempts, Frame(m, a), UNCHANGED keyedVars PROVE Goal
  <2>1. /\ phase' = phase
        /\ \A b \in Attempts : b # a => pc'[m][b] = pc[m][b]
    BY <1>3, FrameMaps, RunStepFrame
  <2>2. /\ handled' = handled
        /\ \/ pc[m][a] = "verify" /\ pc'[m][a] = "guard"
           \/ pc[m][a] = "guard" /\ pc'[m][a] = "parse"
           \/ pc[m][a] = "parse" /\ pc'[m][a] = "handle"
           \/ pc'[m][a] \in {"inspect", "release", "reply"}
    BY <1>3 DEF Frame, VerifyOk, VerifyFails, Acquire, AcquireFails, Inspect, InspectFails,
       Parse, Commit, CommitFails, Release, ReleaseFails, Respond, Goto, RunTypeOK
  <2>3. \A b \in Attempts : AtStage(m, b, "work")' => AtStage(m, b, "work")
    BY <1>3, <2>1, <2>2 DEF keyedVars, AtStage
  <2>4. \A b \in Attempts : Fresh(m, b)' => Fresh(m, b)
    BY <1>3, <2>1, <2>2 DEF keyedVars, AtStage, Fresh
  <2>5. QED
    BY <1>3, <2>2, <2>3, <2>4 DEF keyedVars
<1>4. ASSUME NEW a \in Attempts, KeyedCrash(m, a) PROVE Goal
  <2>1. /\ phase' = phase /\ handled' = handled /\ worked' = worked
        /\ \A b \in Attempts : pc'[m][b] = IF b = a THEN "dead" ELSE pc[m][b]
    BY <1>4 DEF KeyedCrash, Crash, RunTypeOK, brokerVars
  <2>2. \A b \in Attempts : b # a => stage'[m][b] = stage[m][b]
    BY <1>4, StagePoint DEF KeyedCrash
  <2>3. QED
    BY <2>1, <2>2 DEF AtStage, Fresh
<1>5. ASSUME NEW a \in Attempts,
             Duplicate(m, a) \/ ReserveFails(m, a) \/ Return(m, a) \/ WorkThrows(m, a)
             \/ WorkThrowsReleaseFails(m, a)
      PROVE  Goal
  <2>1. HandlerReturns(m, a) \/ HandlerThrows(m, a)
    BY <1>5 DEF Duplicate, ReserveFails, Return, WorkThrows, WorkThrowsReleaseFails, Throws
  <2>2. /\ \A b \in Attempts : b # a => pc'[m][b] = pc[m][b]
        /\ phase' = phase /\ pc'[m][a] \in {"commit", "release"}
    BY <2>1 DEF HandlerReturns, HandlerThrows, Goto, RunTypeOK, brokerVars
  <2>3. worked' = worked /\ \A b \in Attempts : b # a => stage'[m][b] = stage[m][b]
    BY <1>5, StagePoint DEF Duplicate, ReserveFails, Return, WorkThrows,
       WorkThrowsReleaseFails, keyedVars
  <2>4. \A b \in Attempts : AtStage(m, b, "work")' => AtStage(m, b, "work")
    BY <2>2, <2>3 DEF AtStage
  <2>5. \A b \in Attempts : Fresh(m, b)' => Fresh(m, b)
    BY <2>2, <2>3 DEF AtStage, Fresh
  <2>6. \/ handled'[m] = handled[m]
        \/ /\ handled'[m] = handled[m] + 1
           /\ worked[keyOf[m]] > 0 \/ Fresh(m, a)
    <3>1. CASE HandlerThrows(m, a)
      BY <3>1 DEF HandlerThrows
    <3>2. CASE HandlerReturns(m, a)
      <4>1. handled'[m] = handled[m] + 1
        BY <3>2 DEF HandlerReturns
      <4>2. Duplicate(m, a) \/ Return(m, a)
        BY <1>5, <3>2 DEF HandlerReturns, HandlerThrows, Goto, ReserveFails, WorkThrows,
           WorkThrowsReleaseFails, Throws, RunTypeOK
      <4>3. worked[keyOf[m]] > 0 \/ Fresh(m, a)
        BY <4>2 DEF Duplicate, Return, Fresh, LayerInv, WorkedInv
      <4>4. QED
        BY <4>1, <4>3
    <3>3. QED
      BY <2>1, <3>1, <3>2
  <2>7. QED
    BY <2>3, <2>4, <2>5, <2>6
<1>6. QED
  BY <1>1, <1>2, <1>3, <1>4, <1>5 DEF OtherStep, MessageStep, Handler

\* Nothing that JobLayer sees changes: the others' standing is theirs.
LEMMA OthersStand ==
    ASSUME DistinctKeys, LayerInv, NEW m \in Messages, MessageStep(m)
    PROVE  \A o \in Messages \ {m} : JobOf(o)' = JobOf(o) /\ LeftOf(o)' = LeftOf(o)
BY KeyedElsewhere, LayerFrame DEF LayerInv

\* The run that reserves the key of a job starts its work, alone.
LEMMA ReserveStarts ==
    ASSUME DistinctKeys, LayerInv, CalmInv, NEW m \in Messages, NEW a \in Attempts,
           Reserve(m, a)
    PROVE  Layer!Start(m)
<1> TypeOK /\ KeyedTypeOK /\ keyOf[m] \in Keys
  BY KeyedJobConstants DEF LayerInv
<1>1. UNCHANGED vars /\ worked' = worked /\ keyFaults' = keyFaults /\ AtStage(m, a, "reserve")
  BY DEF Reserve
<1>2. \A b \in Attempts : stage'[m][b] = IF b = a THEN "work" ELSE stage[m][b]
  BY StagePoint DEF Reserve
<1>3. Calm' = Calm
  BY <1>1 DEF Calm, vars, Rejected
<1>4. ~AtWork(m)
  <2> SUFFICES ASSUME NEW b \in Attempts, AtStage(m, b, "work") PROVE FALSE
    BY DEF AtWork
  <2>1. keyTtl[keyOf[m]] + age[m][b] >= KeyTtl
    BY DEF LayerInv, KeyInv, KeyIsLive, HoldsKey, AtStage
  <2>2. age[m][b] \in 0..RunLimit /\ keyTtl[keyOf[m]] = 0
    BY DEF TypeOK, RunTypeOK, Reserve
  <2>3. QED
    BY <2>1, <2>2, RunEndsBeforeKey, QstashJobConstants, KeyedJobConstants
<1>5. AtWork(m)'
  BY <1>1, <1>2 DEF AtWork, AtStage, vars
<1>6. LeftOf(m) \in Nat /\ LeftOf(m) > 0
  BY <1>1, LeftType DEF Fresh
<1>7. LeftOf(m)' = LeftOf(m) - 1
  <2>1. \A b \in Attempts : Fresh(m, b)' <=> Fresh(m, b) /\ b # a
    BY <1>1, <1>2 DEF Fresh, AtStage, vars
  <2>2. Fresh(m, a)
    BY <1>1 DEF Fresh
  <2>3. \A b \in Attempts : Fresh(m, b)' => Fresh(m, b)
    BY <2>1
  <2>4. QED
    BY <2>1, <2>2, <2>3, LeftShrinks
<1>8. handled[m] > 0 \/ worked[keyOf[m]] > 0 => ~Calm
  <2> SUFFICES ASSUME Calm PROVE handled[m] = 0 /\ worked[keyOf[m]] = 0
    BY JobValue
  <2>1. Smooth(m) /\ a = retried[m]
    BY <1>1, CurrentRun DEF CalmInv, AtStage
  <2>2. QED
    BY <1>1, <2>1, NothingYet DEF AtStage
<1>9. JobOf(m)' = IF worked[keyOf[m]] > 0 THEN "reworking" ELSE "working"
  BY <1>1, <1>5 DEF JobOf
<1>10. \/ worked[keyOf[m]] > 0 /\ JobOf(m) = "done"
       \/ worked[keyOf[m]] = 0 /\ handled[m] > 0 /\ JobOf(m) = "lost"
       \/ worked[keyOf[m]] = 0 /\ JobOf(m) = "queued"
  BY <1>4, <1>6, JobValue
<1>11. ASSUME NEW s, s = JobOf(m)' PROVE Layer!Move(m, s, LeftOf(m) - 1)
  <2>1. MessageStep(m)
    BY DEF MessageStep, Handler
  <2>2. QED
    BY <1>7, <1>11, <2>1, OthersStand, LayerMove
<1>12. CASE worked[keyOf[m]] > 0
  <2>1. Layer!Move(m, "reworking", LeftOf(m) - 1)
    BY <1>9, <1>11, <1>12
  <2>2. QED
    BY <1>3, <1>6, <1>8, <1>10, <1>12, <2>1 DEF Layer!Start
<1>13. CASE worked[keyOf[m]] = 0
  <2>1. Layer!Move(m, "working", LeftOf(m) - 1)
    BY <1>9, <1>11, <1>13
  <2>2. QED
    BY <1>3, <1>6, <1>8, <1>10, <1>13, <2>1 DEF Layer!Start
<1>14. QED
  BY <1>12, <1>13, JobValue

\* The run that completes the work finishes the job.
LEMMA WorkFinishes ==
    ASSUME DistinctKeys, LayerInv, NEW m \in Messages, NEW a \in Attempts, PerformWork(m, a)
    PROVE  Layer!Finish(m)
<1> TypeOK /\ KeyedTypeOK /\ keyOf[m] \in Keys
  BY KeyedJobConstants DEF LayerInv
<1>1. UNCHANGED vars /\ keyFaults' = keyFaults /\ AtStage(m, a, "work")
  BY DEF PerformWork
<1>2. \A b \in Attempts : stage'[m][b] = IF b = a THEN "worked" ELSE stage[m][b]
  BY StagePoint DEF PerformWork
<1>3. Calm' = Calm
  BY <1>1 DEF Calm, vars, Rejected
<1>4. JobOf(m) \in Layer!AtWork
  BY <1>1, JobValue DEF AtWork, Layer!AtWork
<1>5. ~AtWork(m)'
  <2> SUFFICES ASSUME NEW b \in Attempts, AtStage(m, b, "work")' PROVE FALSE
    BY DEF AtWork
  <2>1. b # a /\ AtStage(m, b, "work")
    BY <1>1, <1>2 DEF AtStage, vars
  <2>2. QED
    BY <1>1, <2>1 DEF LayerInv, KeyInv, WorkIsExclusive, HoldsKey, AtStage
<1>6. worked'[keyOf[m]] > 0
  BY DEF PerformWork, KeyedTypeOK
<1>7. LeftOf(m)' = LeftOf(m)
  <2>1. \A b \in Attempts : Fresh(m, b)' = Fresh(m, b)
    BY <1>1, <1>2 DEF Fresh, AtStage, vars
  <2>2. QED
    BY <2>1, LeftShrinks
<1>8. JobOf(m)' = "done"
  BY <1>5, <1>6 DEF JobOf
<1>9. Layer!Move(m, "done", LeftOf(m))
  <2>1. MessageStep(m)
    BY DEF MessageStep, Handler
  <2>2. QED
    BY <1>7, <1>8, <2>1, OthersStand, LayerMove
<1>10. QED
  BY <1>3, <1>4, <1>9 DEF Layer!Finish

\* Whatever else a step of m does, JobLayer lets a fault do it.
LEMMA OtherUnsettles ==
    ASSUME DistinctKeys, LayerInv, NEW m \in Messages, OtherStep(m)
    PROVE  Layer!Unsettle(m)
<1>1. /\ \A a \in Attempts : AtStage(m, a, "work")' => AtStage(m, a, "work")
      /\ \A a \in Attempts : Fresh(m, a)' => Fresh(m, a)
      /\ worked'[keyOf[m]] = worked[keyOf[m]]
      /\ \/ handled'[m] = handled[m]
         \/ /\ handled'[m] = handled[m] + 1
            /\ worked[keyOf[m]] > 0 \/ \E a \in Attempts : Fresh(m, a)
  BY OtherPoint
<1>2. AtWork(m)' => AtWork(m)
  BY <1>1 DEF AtWork
<1>3. /\ LeftOf(m) \in Nat /\ LeftOf(m)' \in 0 .. LeftOf(m)
      /\ (\E a \in Attempts : Fresh(m, a)) => LeftOf(m) > 0
  <2>1. /\ LeftOf(m) \in Nat /\ \A a \in Attempts : Fresh(m, a) => LeftOf(m) > 0
    BY LeftType
  <2>2. LeftOf(m)' \in Nat /\ LeftOf(m)' <= LeftOf(m)
    BY <1>1, LeftShrinks
  <2>3. QED
    BY <2>1, <2>2
<1>4. worked[keyOf[m]] \in Nat /\ handled[m] \in Nat
  BY JobValue
<1>5. PICK n : n = LeftOf(m)'
  OBVIOUS
<1>6. ASSUME NEW s, s = JobOf(m)' PROVE Layer!Move(m, s, n)
  BY <1>5, <1>6, OthersStand, LayerMove DEF OtherStep
<1>7. Layer!Retried(n) = IF n > 0 THEN "queued" ELSE "dead"
  BY DEF Layer!Retried
<1>8. n \in 0 .. LeftOf(m)
  BY <1>3, <1>5
<1>9. CASE worked[keyOf[m]] > 0
  <2>1. JobOf(m)' = IF AtWork(m)' THEN "reworking" ELSE "done"
    BY <1>1, <1>9 DEF JobOf
  <2>2. JobOf(m) = IF AtWork(m) THEN "reworking" ELSE "done"
    BY <1>9 DEF JobOf
  <2>3. QED
    BY <1>2, <1>6, <1>8, <2>1, <2>2 DEF Layer!Unsettle
<1>10. CASE worked[keyOf[m]] = 0
  <2> DEFINE idle  == IF handled[m] > 0 THEN "lost"
                      ELSE IF LeftOf(m) > 0 THEN "queued" ELSE "dead"
             later == IF handled'[m] > 0 THEN "lost" ELSE Layer!Retried(n)
  <2>1. JobOf(m) = IF AtWork(m) THEN "working" ELSE idle
    BY <1>4, <1>10, JobValue
  <2>2. JobOf(m)' = IF AtWork(m)' THEN "working" ELSE later
    BY <1>1, <1>5, <1>7, <1>10 DEF JobOf
  <2>3. PICK s : s = JobOf(m)'
    OBVIOUS
  <2>4. Layer!Move(m, s, n)
    BY <1>6, <2>3
  <2>5. CASE AtWork(m)
    <3>1. s \in {"working", Layer!Retried(n), "lost"}
      BY <2>2, <2>3
    <3>2. QED
      BY <1>8, <2>1, <2>4, <2>5, <3>1 DEF Layer!Unsettle
  <2>6. CASE ~AtWork(m)
    <3>1. JobOf(m) = idle /\ s = later
      BY <1>2, <2>1, <2>2, <2>3, <2>6
    <3>2. CASE idle = "queued"
      BY <1>8, <2>4, <3>1, <3>2 DEF Layer!Unsettle
    <3>3. CASE idle # "queued"
      <4>1. later = idle /\ idle \in {"lost", "dead"}
        BY <1>1, <1>3, <1>4, <1>7, <1>8, <1>10, <3>3
      <4>2. QED
        BY <1>8, <2>4, <3>1, <4>1 DEF Layer!Unsettle
    <3>4. QED
      BY <3>2, <3>3
  <2>7. QED
    BY <2>5, <2>6
<1>11. QED
  BY <1>4, <1>9, <1>10

\* A step that brings no run to the work or away from it and uses no attempt up
\* leaves the job where it stands.
LEMMA StandsStill ==
    ASSUME LayerInv, NEW m \in Messages,
           \A a \in Attempts : AtStage(m, a, "work")' <=> AtStage(m, a, "work"),
           \A a \in Attempts : Fresh(m, a)' <=> Fresh(m, a),
           worked'[keyOf[m]] = worked[keyOf[m]],
           handled'[m] = handled[m] \/ worked[keyOf[m]] > 0
    PROVE  JobOf(m)' = JobOf(m) /\ LeftOf(m)' = LeftOf(m)
<1>1. AtWork(m)' <=> AtWork(m)
  BY DEF AtWork
<1>2. AtWork(m) \in BOOLEAN /\ AtWork(m)' \in BOOLEAN
  BY DEF AtWork
<1>3. LeftOf(m)' = LeftOf(m)
  BY LeftShrinks
<1>4. CASE worked[keyOf[m]] > 0
  BY <1>1, <1>2, <1>3, <1>4 DEF JobOf
<1>5. CASE ~(worked[keyOf[m]] > 0)
  BY <1>1, <1>2, <1>3, <1>5 DEF JobOf
<1>6. QED
  BY <1>3, <1>4, <1>5

\* In the calm the broker leaves a job where it stands: it dead-letters a message
\* only when its last attempt has failed.
LEMMA CalmBroker ==
    ASSUME LayerInv, Calm, NEW m \in Messages, Smooth(m), Deliver(m) \/ Receive(m),
           UNCHANGED keyedVars
    PROVE  JobOf(m)' = JobOf(m) /\ LeftOf(m)' = LeftOf(m)
<1> DEFINE r == retried[m]
<1> /\ RunTypeOK /\ BrokerTypeOK /\ r \in Attempts /\ r \in Nat /\ Orderly(m)
    /\ Attempts = 0..MaxRetries /\ MaxRetries \in Nat
  BY QstashJobConstants DEF LayerInv, TypeOK, BrokerTypeOK, AllOrderly, Attempts
<1>1. stage' = stage /\ worked' = worked /\ handled' = handled
  BY DEF keyedVars, Deliver, Receive, ReceiveReply, ReceiveCrash
<1>2. CASE Deliver(m)
  <2>1. /\ phase[m] = "waiting" /\ phase'[m] = "inflight" /\ pc[m][r] = "idle"
        /\ \A b \in Attempts : pc'[m][b] = IF b = r THEN "verify" ELSE pc[m][b]
    BY <1>2 DEF Deliver, Goto, BrokerTypeOK, RunTypeOK
  <2>2. \A b \in Attempts : AtStage(m, b, "work")' <=> AtStage(m, b, "work")
    BY <1>1, <2>1 DEF AtStage
  <2>3. \A b \in Attempts : Fresh(m, b)' <=> Fresh(m, b)
    BY <1>1, <2>1 DEF AtStage, Fresh
  <2>4. QED
    BY <1>1, <2>2, <2>3, StandsStill
<1>3. CASE Receive(m)
  <2>1. ReceiveReply(m) /\ phase[m] = "inflight" /\ pc[m][r] = "reply" /\ pc' = pc
    BY <1>3 DEF Receive, ReceiveReply, ReceiveCrash, Smooth, runVars
  <2>2. reply[m][r] # 489
    BY DEF Calm, Rejected
  <2>3. phase'[m] = "dlq" => r = MaxRetries
    BY <2>1, <2>2 DEF ReceiveReply, AttemptFailed, BrokerTypeOK
  <2>4. phase'[m] = "dlq" => \A b \in Attempts : pc[m][b] # "idle"
    BY <2>1, <2>3 DEF Smooth
  <2>5. \A b \in Attempts : AtStage(m, b, "work")' <=> AtStage(m, b, "work")
    BY <1>1, <2>1 DEF AtStage
  <2>6. \A b \in Attempts : Fresh(m, b)' <=> Fresh(m, b)
    BY <1>1, <2>1, <2>4 DEF AtStage, Fresh
  <2>7. QED
    BY <1>1, <2>5, <2>6, StandsStill
<1>4. QED
  BY <1>2, <1>3

\* In the calm what a run does outside its handler leaves the job where it stands,
\* but for a request that fails its verification.
LEMMA CalmFrame ==
    ASSUME LayerInv, Calm, Calm', NEW m \in Messages, Smooth(m), Smooth(m)',
           NEW a \in Attempts, Frame(m, a), ~VerifyFails(m, a), UNCHANGED keyedVars
    PROVE  JobOf(m)' = JobOf(m) /\ LeftOf(m)' = LeftOf(m)
<1> TypeOK /\ KeyedTypeOK /\ RunTypeOK
    /\ \A b \in Attempts : pc[m][b] # "handle" => stage[m][b] = "reserve"
  BY DEF LayerInv, TypeOK, KeyInv
<1>1. ~AcquireFails(m, a) /\ ~InspectFails(m, a) /\ ~CommitFails(m, a) /\ ~ReleaseFails(m, a)
  BY CalmEnds DEF AcquireFails, InspectFails, CommitFails, ReleaseFails
<1>2. /\ phase' = phase /\ retried' = retried
      /\ \A b \in Attempts : b # a => pc'[m][b] = pc[m][b] /\ reply'[m][b] = reply[m][b]
  BY FrameMaps, RunStepFrame
<1>3. pc[m][a] \notin {"idle", "reply"}
  BY DEF Frame, VerifyOk, VerifyFails, Acquire, AcquireFails, Inspect, InspectFails, Parse,
     Commit, CommitFails, Release, ReleaseFails, Respond, Goto
<1>4. a = retried[m]
  BY <1>3, CurrentRun
<1>5. pc[m][a] # "inspect" /\ pc'[m][a] # "inspect"
  BY <1>2, <1>4 DEF Smooth
<1>6. reply'[m][a] # 489
  BY DEF Calm, Rejected
<1>7. /\ worked' = worked /\ stage' = stage /\ handled' = handled
      /\ \/ pc[m][a] = "verify" /\ pc'[m][a] = "guard"
         \/ pc[m][a] = "guard" /\ pc'[m][a] = "parse"
         \/ pc[m][a] = "parse" /\ pc'[m][a] = "handle"
         \/ pc[m][a] \in {"commit", "release"} /\ pc'[m][a] = "reply"
  BY <1>1, <1>5, <1>6 DEF Frame, VerifyOk, Acquire, Inspect, Parse, Commit, Release, Respond,
     Goto, RunTypeOK, TypeOK, keyedVars
<1>8. \A b \in Attempts : AtStage(m, b, "work")' <=> AtStage(m, b, "work")
  BY <1>2, <1>7 DEF AtStage
<1>9. \A b \in Attempts : Fresh(m, b)' <=> Fresh(m, b)
  BY <1>2, <1>7 DEF AtStage, Fresh
<1>10. QED
  BY <1>7, <1>8, <1>9, StandsStill

\* In the calm a run that returns from its handler leaves the job done.
LEMMA CalmReturn ==
    ASSUME LayerInv, NEW m \in Messages, NEW a \in Attempts, Return(m, a)
    PROVE  JobOf(m)' = JobOf(m) /\ LeftOf(m)' = LeftOf(m)
<1> TypeOK /\ KeyedTypeOK
  BY DEF LayerInv
<1>1. /\ phase' = phase /\ AtStage(m, a, "worked")
      /\ \A b \in Attempts : pc'[m][b] = IF b = a THEN "commit" ELSE pc[m][b]
  BY DEF Return, HandlerReturns, Goto, TypeOK, RunTypeOK, brokerVars
<1>2. \A b \in Attempts : b # a => stage'[m][b] = stage[m][b]
  BY StagePoint DEF Return
<1>3. worked' = worked /\ worked[keyOf[m]] > 0
  BY <1>1 DEF Return, LayerInv, WorkedInv
<1>4. \A b \in Attempts : AtStage(m, b, "work")' <=> AtStage(m, b, "work")
  BY <1>1, <1>2 DEF AtStage
<1>5. \A b \in Attempts : Fresh(m, b)' <=> Fresh(m, b)
  BY <1>1, <1>2 DEF AtStage, Fresh
<1>6. QED
  BY <1>3, <1>4, <1>5, StandsStill

\* In the calm the work that throws fails the attempt.
LEMMA CalmThrow ==
    ASSUME DistinctKeys, LayerInv, Calm, Calm', NEW m \in Messages, Smooth(m),
           NEW a \in Attempts, WorkThrows(m, a)
    PROVE  Layer!Fail(m)
<1> TypeOK /\ KeyedTypeOK
  BY DEF LayerInv
<1>1. /\ phase' = phase /\ AtStage(m, a, "work")
      /\ \A b \in Attempts : pc'[m][b] = IF b = a THEN "release" ELSE pc[m][b]
      /\ handled' = handled /\ worked' = worked
  BY DEF WorkThrows, Throws, HandlerThrows, Goto, TypeOK, RunTypeOK, brokerVars
<1>2. \A b \in Attempts : b # a => stage'[m][b] = stage[m][b]
  BY StagePoint DEF WorkThrows
<1>3. AtWork(m) /\ ~AtWork(m)'
  <2>1. ASSUME NEW b \in Attempts, AtStage(m, b, "work")' PROVE FALSE
    <3>1. b # a /\ AtStage(m, b, "work")
      BY <1>1, <1>2, <2>1 DEF AtStage
    <3>2. QED
      BY <1>1, <3>1 DEF LayerInv, KeyInv, WorkIsExclusive, HoldsKey, AtStage
  <2>2. QED
    BY <1>1, <2>1 DEF AtWork
<1>4. handled[m] = 0 /\ worked[keyOf[m]] = 0
  <2>1. a = retried[m]
    BY <1>1, CurrentRun DEF AtStage
  <2>2. QED
    BY <1>1, <2>1, NothingYet DEF AtStage
<1>5. LeftOf(m)' = LeftOf(m)
  <2>1. \A b \in Attempts : Fresh(m, b)' <=> Fresh(m, b)
    BY <1>1, <1>2 DEF AtStage, Fresh
  <2>2. QED
    BY <2>1, LeftShrinks
<1>6. JobOf(m) = "working"
  BY <1>3, <1>4, JobValue
<1>7. JobOf(m)' = Layer!Retried(LeftOf(m))
  BY <1>1, <1>3, <1>4, <1>5 DEF JobOf, Layer!Retried
<1>8. Layer!Move(m, Layer!Retried(LeftOf(m)), LeftOf(m))
  <2>1. MessageStep(m)
    BY DEF MessageStep, Handler
  <2>2. QED
    BY <1>5, <1>7, <2>1, OthersStand, LayerMove
<1>9. QED
  BY <1>6, <1>8 DEF Layer!Fail, Calm

\* In the calm a request that fails its verification costs the job an attempt.
LEMMA CalmRefusal ==
    ASSUME DistinctKeys, LayerInv, Calm, Calm', NEW m \in Messages, Smooth(m),
           NEW a \in Attempts, VerifyFails(m, a), UNCHANGED keyedVars
    PROVE  Layer!Refuse(m)
<1> TypeOK /\ KeyedTypeOK
  BY DEF LayerInv
<1>1. /\ phase' = phase /\ pc[m][a] = "verify"
      /\ \A b \in Attempts : pc'[m][b] = IF b = a THEN "reply" ELSE pc[m][b]
      /\ handled' = handled /\ worked' = worked /\ stage' = stage
  BY DEF VerifyFails, Respond, Goto, TypeOK, RunTypeOK, brokerVars, keyedVars
<1>2. a = retried[m]
  BY <1>1, CurrentRun
<1>3. ~AtWork(m) /\ ~AtWork(m)'
  <2>1. ASSUME NEW b \in Attempts, AtStage(m, b, "work") PROVE FALSE
    BY <1>1, <1>2, <2>1, CurrentRun DEF AtStage
  <2>2. \A b \in Attempts : AtStage(m, b, "work")' => AtStage(m, b, "work")
    BY <1>1 DEF AtStage
  <2>3. QED
    BY <2>1, <2>2 DEF AtWork
<1>4. handled[m] = 0 /\ worked[keyOf[m]] = 0
  BY <1>1, <1>2, NothingYet DEF AtStage
<1>5. LeftOf(m) > 0 /\ LeftOf(m)' = LeftOf(m) - 1
  <2>1. \A b \in Attempts : Fresh(m, b)' <=> Fresh(m, b) /\ b # a
    BY <1>1 DEF AtStage, Fresh
  <2>2. Fresh(m, a)
    BY <1>1 DEF Fresh
  <2>3. \A b \in Attempts : Fresh(m, b)' => Fresh(m, b)
    BY <2>1
  <2>4. QED
    BY <2>1, <2>2, <2>3, LeftShrinks, LeftType
<1>6. JobOf(m) = "queued"
  BY <1>3, <1>4, <1>5, JobValue
<1>7. JobOf(m)' = Layer!Retried(LeftOf(m) - 1)
  BY <1>1, <1>3, <1>4, <1>5 DEF JobOf, Layer!Retried
<1>8. Layer!Move(m, Layer!Retried(LeftOf(m) - 1), LeftOf(m) - 1)
  <2>1. MessageStep(m)
    BY DEF MessageStep, Frame
  <2>2. QED
    BY <1>5, <1>7, <2>1, OthersStand, LayerMove
<1>9. QED
  BY <1>5, <1>6, <1>8 DEF Layer!Refuse, Calm

LEMMA CalmOther ==
    ASSUME DistinctKeys, LayerInv, Calm, Calm', NEW m \in Messages, Smooth(m), Smooth(m)',
           OtherStep(m)
    PROVE  [Layer!Next]_(Layer!vars)
<1> TypeOK /\ KeyedTypeOK
  BY DEF LayerInv
<1>1. ASSUME JobOf(m)' = JobOf(m), LeftOf(m)' = LeftOf(m) PROVE UNCHANGED Layer!vars
  <2>1. \A n \in Messages : JobOf(n)' = JobOf(n) /\ LeftOf(n)' = LeftOf(n)
    BY <1>1, OthersStand DEF OtherStep
  <2>2. Calm' = Calm
    BY DEF Calm
  <2>3. QED
    BY <2>1, <2>2 DEF Layer!vars
<1>2. ASSUME Deliver(m) \/ Receive(m), UNCHANGED keyedVars PROVE UNCHANGED Layer!vars
  BY <1>1, <1>2, CalmBroker
<1>3. ~LoseReply(m)
  BY CalmEnds DEF LoseReply
<1>4. ASSUME NEW a \in Attempts, Frame(m, a), UNCHANGED keyedVars
      PROVE  [Layer!Next]_(Layer!vars)
  <2>1. CASE VerifyFails(m, a)
    BY <1>4, <2>1, CalmRefusal DEF Layer!Next
  <2>2. CASE ~VerifyFails(m, a)
    BY <1>1, <1>4, <2>2, CalmFrame
  <2>3. QED
    BY <2>1, <2>2
<1>5. ASSUME NEW a \in Attempts, Handler(m, a) \/ KeyedCrash(m, a)
      PROVE  [Layer!Next]_(Layer!vars)
  <2>1. /\ ~KeyedCrash(m, a) /\ ~ReserveFails(m, a) /\ ~WorkThrowsReleaseFails(m, a)
        /\ ~Reserve(m, a) /\ ~PerformWork(m, a)
    BY CalmEnds DEF KeyedCrash, Crash, ReserveFails, WorkThrowsReleaseFails, OtherStep
  <2>2. ~Duplicate(m, a)
    BY KeyIsFree DEF Duplicate
  <2>3. CASE Return(m, a)
    BY <1>1, <2>3, CalmReturn
  <2>4. CASE WorkThrows(m, a)
    BY <2>4, CalmThrow DEF Layer!Next
  <2>5. QED
    BY <1>5, <2>1, <2>2, <2>3, <2>4 DEF Handler
<1>6. QED
  BY <1>2, <1>3, <1>4, <1>5 DEF OtherStep, MessageStep

\* Every step of a message is a step of its job in the layer.
LEMMA LayerMessage ==
    ASSUME DistinctKeys, LayerInv, CalmInv, CalmInv', [KeyedNext]_allVars,
           NEW m \in Messages, MessageStep(m)
    PROVE  [Layer!Next]_(Layer!vars)
<1>1. CASE \E a \in Attempts : Reserve(m, a)
  BY <1>1, ReserveStarts DEF Layer!Next
<1>2. CASE \E a \in Attempts : PerformWork(m, a)
  BY <1>2, WorkFinishes DEF Layer!Next
<1>3. CASE OtherStep(m)
  <2>1. Layer!Unsettle(m)
    BY <1>3, OtherUnsettles
  <2>2. CASE ~Calm'
    BY <2>1, <2>2 DEF Layer!Next, Layer!Disturb, Calm
  <2>3. CASE Calm'
    <3>1. Calm
      BY <2>3, CalmWas DEF LayerInv
    <3>2. Smooth(m) /\ Smooth(m)'
      BY <2>3, <3>1 DEF CalmInv
    <3>3. QED
      BY <1>3, <2>3, <3>1, <3>2, CalmOther
  <2>4. QED
    BY <2>2, <2>3
<1>4. QED
  BY <1>1, <1>2, <1>3 DEF OtherStep

LEMMA LayerInit == KeyedInit => Layer!Init
<1> SUFFICES ASSUME KeyedInit PROVE Layer!Init
  OBVIOUS
<1>1. ASSUME NEW m \in Messages
      PROVE  JobOf(m) = "queued" /\ LeftOf(m) = MaxRetries + 1
  <2>1. /\ phase[m] = "waiting" /\ handled[m] = 0 /\ worked[keyOf[m]] = 0
        /\ \A a \in Attempts : pc[m][a] = "idle"
    BY KeyedJobConstants DEF KeyedInit, Init
  <2>2. LeftOf(m) = MaxRetries + 1
    BY <2>1, LeftType DEF Fresh
  <2>3. ~AtWork(m)
    BY <2>1 DEF AtWork, AtStage
  <2>4. LeftOf(m) > 0
    BY <2>2, QstashJobConstants
  <2>5. QED
    BY <2>1, <2>2, <2>3, <2>4, JobCases
<1>2. Calm
  <2>1. \A m \in Messages, a \in Attempts : reply[m][a] # 489
    BY DEF KeyedInit, Init
  <2>2. QED
    BY <2>1, QstashJobConstants DEF KeyedInit, Init, Calm, Rejected
<1>3. QED
  BY <1>1, <1>2 DEF Layer!Init

LEMMA LayerStep ==
    ASSUME DistinctKeys
    PROVE  LayerInv /\ CalmInv /\ CalmInv' /\ [KeyedNext]_allVars => [Layer!Next]_(Layer!vars)
<1> SUFFICES ASSUME LayerInv, CalmInv, CalmInv', [KeyedNext]_allVars
             PROVE  [Layer!Next]_(Layer!vars)
  OBVIOUS
<1>1. CASE \E m \in Messages : MessageStep(m)
  BY <1>1, LayerMessage
<1>2. CASE KeyedTick \/ UNCHANGED allVars
  <2>1. UNCHANGED <<phase, pc, reply, handled, faults, stage, worked, keyFaults>>
    BY <1>2 DEF KeyedTick, Tick, allVars, vars, keyedVars
  <2>2. Calm' = Calm
    BY <2>1 DEF Calm, Rejected
  <2>3. ASSUME NEW m \in Messages PROVE JobOf(m)' = JobOf(m) /\ LeftOf(m)' = LeftOf(m)
    <3>1. \A a \in Attempts : AtStage(m, a, "work")' <=> AtStage(m, a, "work")
      BY <2>1 DEF AtStage
    <3>2. \A a \in Attempts : Fresh(m, a)' <=> Fresh(m, a)
      BY <2>1 DEF Fresh, AtStage
    <3>3. QED
      BY <2>1, <3>1, <3>2, StandsStill
  <2>4. QED
    BY <2>2, <2>3 DEF Layer!vars
<1>3. QED
  BY <1>1, <1>2 DEF KeyedNext, KeyedStep, MessageStep

\* The message lock, the retries of QStash and the business key together keep what
\* the work of a job relies on (JobLayer), for every number of messages, retries and
\* faults, if each message has a key of its own.
THEOREM ImplementsJobLayer == ASSUME DistinctKeys PROVE KeyedSpec => LayerSpec
<1>1. KeyedSpec => [](LayerInv /\ CalmInv)
  BY LayerInvHolds, CalmInvHolds, PTL
<1>2. QED
  BY <1>1, LayerInit, LayerStep, PTL DEF KeyedSpec, allVars, LayerSpec, Layer!Spec

=============================================================================
