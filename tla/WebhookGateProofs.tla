------------------------- MODULE WebhookGateProofs -------------------------
(***************************************************************************)
(* Proofs about WebhookGate, for every set of postings and endpoints, every *)
(* number of reposts and every number of faults: one event is handled by   *)
(* one run at a time, its reservation outlives that run, no undisturbed    *)
(* run leaves its reservation behind, and reposting makes up for failing   *)
(* handlers.                                                               *)
(***************************************************************************)
EXTENDS WebhookGate, TLAPS

-----------------------------------------------------------------------------
(* What the helpers do, pointwise *)

\* Goto moves one run and no other.
LEMMA GotoPoint ==
    ASSUME GateTypeOK, NEW p \in Postings, NEW a \in Attempts, NEW from, NEW to,
           Goto(p, a, from, to)
    PROVE  /\ pc[p][a] = from
           /\ \A q \in Postings, b \in Attempts :
                 pc'[q][b] = IF q = p /\ b = a THEN to ELSE pc[q][b]
BY DEF GateTypeOK, Goto

\* SetStatus decides the status of one attempt and of no other.
LEMMA StatusPoint ==
    ASSUME GateTypeOK, NEW p \in Postings, NEW a \in Attempts, NEW code,
           SetStatus(p, a, code)
    PROVE  \A q \in Postings, b \in Attempts :
               status'[q][b] = IF q = p /\ b = a THEN code ELSE status[q][b]
BY DEF GateTypeOK, SetStatus

\* Answer ends one run with its status, and touches no other.
LEMMA AnswerPoint ==
    ASSUME GateTypeOK, NEW p \in Postings, NEW a \in Attempts, NEW from, NEW code,
           Answer(p, a, from, code)
    PROVE  /\ pc[p][a] = from
           /\ \A q \in Postings, b \in Attempts :
                 /\ pc'[q][b] = IF q = p /\ b = a THEN "answered" ELSE pc[q][b]
                 /\ status'[q][b] = IF q = p /\ b = a THEN code ELSE status[q][b]
                 /\ held'[q][b] = IF q = p /\ b = a THEN 0 ELSE held[q][b]
<1>1. Goto(p, a, from, "answered") /\ SetStatus(p, a, code)
  BY DEF Answer
<1>2. \A q \in Postings, b \in Attempts :
          held'[q][b] = IF q = p /\ b = a THEN 0 ELSE held[q][b]
  BY DEF Answer, GateTypeOK
<1>3. QED
  BY <1>1, <1>2, GotoPoint, StatusPoint

\* Every posting has a key.
LEMMA KeyInKeys == \A p \in Postings : Key(p) \in Keys
BY DEF Keys

\* SetKey sets the key of one event and of no other.
LEMMA KeyPoint ==
    ASSUME GateTypeOK, NEW p \in Postings, NEW ticks, SetKey(p, ticks)
    PROVE  \A k \in Keys : keyTtl'[k] = IF k = Key(p) THEN ticks ELSE keyTtl[k]
BY DEF GateTypeOK, SetKey

\* A fault adds one to its own count and nothing to the others.
LEMMA FaultPoint ==
    ASSUME GateTypeOK, NEW k \in FaultKinds, Fault(k)
    PROVE  /\ faults' \in [FaultKinds -> Nat]
           /\ \A j \in FaultKinds :
                 faults'[j] = IF j = k THEN faults[j] + 1 ELSE faults[j]
BY DEF GateTypeOK, Fault

-----------------------------------------------------------------------------
(* Type correctness *)

RunTypes ==
    /\ pc \in [Postings -> [Attempts -> Points]]
    /\ status \in [Postings -> [Attempts -> Statuses]]
    /\ held \in [Postings -> [Attempts -> 0..HoldLimit]]

\* Moving a run to a control point keeps the points typed.
LEMMA GotoType ==
    ASSUME GateTypeOK, NEW p \in Postings, NEW a \in Attempts, NEW from,
           NEW to \in Points, Goto(p, a, from, to)
    PROVE  pc' \in [Postings -> [Attempts -> Points]]
BY DEF GateTypeOK, Goto

\* Deciding a status keeps the statuses typed.
LEMMA StatusType ==
    ASSUME GateTypeOK, NEW p \in Postings, NEW a \in Attempts, NEW code \in Statuses,
           SetStatus(p, a, code)
    PROVE  status' \in [Postings -> [Attempts -> Statuses]]
BY DEF GateTypeOK, SetStatus

\* Releasing the hold of a run keeps the holds typed.
LEMMA HeldType ==
    ASSUME GateTypeOK, NEW p \in Postings, NEW a \in Attempts,
           held' = [held EXCEPT ![p][a] = 0]
    PROVE  held' \in [Postings -> [Attempts -> 0..HoldLimit]]
<1>1. 0 \in 0..HoldLimit
  BY WebhookGateConstants
<1>2. QED
  BY <1>1 DEF GateTypeOK

\* Answering keeps all that is kept of a run typed.
LEMMA AnswerType ==
    ASSUME GateTypeOK, NEW p \in Postings, NEW a \in Attempts, NEW from,
           NEW code \in Statuses, Answer(p, a, from, code)
    PROVE  RunTypes'
<1>1. "answered" \in Points
  BY DEF Points
<1>2. QED
  BY <1>1, GotoType, StatusType, HeldType DEF Answer, RunTypes

\* Setting the key of an event keeps the keys typed.
LEMMA KeyType ==
    ASSUME GateTypeOK, NEW p \in Postings, NEW ticks \in Nat, SetKey(p, ticks)
    PROVE  keyTtl' \in [Keys -> Nat]
BY DEF GateTypeOK, SetKey

\* The statuses an endpoint answers with.
LEMMA Codes ==
    /\ ThrownStatuses \subseteq Statuses
    /\ {0, 200, 400, 401, 413, 429, 503} \subseteq Statuses
BY WebhookGateConstants DEF Statuses

\* Reposting keeps the sender's view typed.
LEMMA RepostType ==
    ASSUME GateTypeOK, NEW p \in Postings, Repost(p)
    PROVE  phase' \in [Postings -> Phases] /\ posts' \in [Postings -> Attempts]
<1>1. posts[p] \in Nat /\ (posts[p] < MaxPosts => posts[p] + 1 \in Attempts)
  BY WebhookGateConstants DEF GateTypeOK, Attempts
<1>2. "due" \in Phases /\ "dropped" \in Phases
  BY DEF Phases
<1>3. QED
  BY <1>1, <1>2 DEF GateTypeOK, Repost

\* Every step keeps the types.
LEMMA GateTypeStep == GateTypeOK /\ [Next]_vars => GateTypeOK'
<1> SUFFICES ASSUME GateTypeOK, [Next]_vars PROVE GateTypeOK'
  OBVIOUS
<1> /\ {"check", "reserve", "filter", "handle", "release", "dead"} \subseteq Points
    /\ {"inflight", "acked"} \subseteq Phases
    /\ {"crash", "redis", "throw", "reject", "lost", "refuse"} = FaultKinds
  BY DEF Points, Holding, Phases, FaultKinds
<1>1. ASSUME NEW p \in Postings, Post(p) PROVE GateTypeOK'
  <2>1. posts[p] \in Attempts
    BY DEF GateTypeOK
  <2>2. pc' \in [Postings -> [Attempts -> Points]]
    BY <1>1, <2>1, GotoType DEF Post
  <2>3. phase' \in [Postings -> Phases]
    BY <1>1 DEF Post, GateTypeOK
  <2>4. QED
    BY <1>1, <2>2, <2>3 DEF Post, GateTypeOK
<1>2. ASSUME NEW p \in Postings, Receive(p) PROVE GateTypeOK'
  <2>1. phase' \in [Postings -> Phases] /\ posts' \in [Postings -> Attempts]
    <3>1. CASE phase' = [phase EXCEPT ![p] = "acked"] /\ posts' = posts
      BY <3>1 DEF GateTypeOK
    <3>2. CASE Repost(p)
      BY <3>2, RepostType
    <3>3. QED
      BY <1>2, <3>1, <3>2 DEF Receive
  <2>2. QED
    BY <1>2, <2>1 DEF Receive, runVars, GateTypeOK
<1>3. ASSUME NEW p \in Postings, GiveUpOn(p) PROVE GateTypeOK'
  BY <1>3, RepostType, FaultPoint DEF GiveUpOn, runVars, GateTypeOK
<1>4. ASSUME NEW p \in Postings, NEW a \in Attempts, Admit(p, a) PROVE GateTypeOK'
  BY <1>4, GotoType DEF Admit, senderVars, GateTypeOK
<1>5. ASSUME NEW p \in Postings, NEW a \in Attempts, Refuse(p, a) PROVE GateTypeOK'
  <2>1. RunTypes'
    BY <1>5, AnswerType, Codes DEF Refuse
  <2>2. QED
    BY <1>5, <2>1, FaultPoint DEF Refuse, RunTypes, senderVars, GateTypeOK
<1>6. ASSUME NEW p \in Postings, NEW a \in Attempts, Reserve(p, a) PROVE GateTypeOK'
  <2>1. Ttl(p) \in Nat
    BY WebhookGateConstants
  <2>2. QED
    BY <1>6, <2>1, GotoType, KeyType DEF Reserve, senderVars, GateTypeOK
<1>7. ASSUME NEW p \in Postings, NEW a \in Attempts, Duplicate(p, a) PROVE GateTypeOK'
  <2>1. RunTypes'
    BY <1>7, AnswerType, Codes DEF Duplicate
  <2>2. QED
    BY <1>7, <2>1 DEF Duplicate, RunTypes, senderVars, GateTypeOK
<1>8. ASSUME NEW p \in Postings, NEW a \in Attempts, ReserveFails(p, a) PROVE GateTypeOK'
  <2>1. RunTypes'
    BY <1>8, AnswerType, Codes DEF ReserveFails
  <2>2. Ttl(p) \in Nat
    BY WebhookGateConstants
  <2>3. keyTtl' \in [Keys -> Nat]
    BY <1>8, <2>2, KeyType DEF ReserveFails, GateTypeOK
  <2>4. QED
    BY <1>8, <2>1, <2>3, FaultPoint DEF ReserveFails, RunTypes, senderVars, GateTypeOK
<1>9. ASSUME NEW p \in Postings, NEW a \in Attempts, Filter(p, a) PROVE GateTypeOK'
  <2>1. CASE Accepts(p)
    BY <1>9, <2>1, GotoType DEF Filter, senderVars, GateTypeOK
  <2>2. CASE ~Accepts(p)
    <3>1. RunTypes'
      BY <1>9, <2>2, AnswerType, Codes DEF Filter
    <3>2. skipped' \subseteq {q \in Postings : ~Accepts(q)}
      BY <1>9, <2>2 DEF Filter, GateTypeOK
    <3>3. QED
      BY <1>9, <2>2, <3>1, <3>2 DEF Filter, RunTypes, senderVars, GateTypeOK
  <2>3. QED
    BY <2>1, <2>2
<1>10. ASSUME NEW p \in Postings, NEW a \in Attempts, Handle(p, a) PROVE GateTypeOK'
  <2>1. RunTypes'
    BY <1>10, AnswerType, Codes DEF Handle
  <2>2. handled' \in [Postings -> Nat]
    BY <1>10 DEF Handle, GateTypeOK
  <2>3. QED
    BY <1>10, <2>1, <2>2 DEF Handle, RunTypes, senderVars, GateTypeOK
<1>11. ASSUME NEW p \in Postings, NEW a \in Attempts, HandleFails(p, a) PROVE GateTypeOK'
  <2>1. PICK code \in ThrownStatuses :
            IF code >= 500
              THEN /\ Goto(p, a, "handle", "release") /\ SetStatus(p, a, code)
                   /\ UNCHANGED held /\ Fault("throw")
              ELSE Answer(p, a, "handle", code) /\ Fault("reject")
    BY <1>11 DEF HandleFails
  <2>2. code \in Statuses
    BY Codes
  <2>3. RunTypes'
    BY <2>1, <2>2, GotoType, StatusType, AnswerType DEF RunTypes, GateTypeOK
  <2>4. faults' \in [FaultKinds -> Nat]
    BY <2>1, FaultPoint
  <2>5. QED
    BY <1>11, <2>3, <2>4 DEF HandleFails, RunTypes, senderVars, GateTypeOK
<1>12. ASSUME NEW p \in Postings, NEW a \in Attempts, Release(p, a) \/ ReleaseFails(p, a)
       PROVE  GateTypeOK'
  <2>1. status[p][a] \in Statuses
    BY DEF GateTypeOK
  <2>2. RunTypes'
    BY <1>12, <2>1, AnswerType DEF Release, ReleaseFails
  <2>3. keyTtl' \in [Keys -> Nat]
    BY <1>12, KeyType DEF Release, ReleaseFails, GateTypeOK
  <2>4. QED
    BY <1>12, <2>2, <2>3, FaultPoint
    DEF Release, ReleaseFails, RunTypes, senderVars, GateTypeOK
<1>13. ASSUME NEW p \in Postings, NEW a \in Attempts, Crash(p, a) PROVE GateTypeOK'
  <2>1. pc' \in [Postings -> [Attempts -> Points]]
    BY <1>13 DEF Crash, GateTypeOK
  <2>2. status' \in [Postings -> [Attempts -> Statuses]]
    BY <1>13, StatusType, Codes DEF Crash
  <2>3. QED
    BY <1>13, <2>1, <2>2, HeldType, FaultPoint DEF Crash, senderVars, GateTypeOK
<1>14. CASE Tick
  <2>1. \A p \in Postings, a \in Attempts :
            held[p][a] \in 0..HoldLimit
            /\ (pc[p][a] \in Holding => held[p][a] + 1 \in 0..HoldLimit)
    BY <1>14, WebhookGateConstants DEF Tick, GateTypeOK
  <2>2. held' \in [Postings -> [Attempts -> 0..HoldLimit]]
    BY <1>14, <2>1 DEF Tick
  <2>3. \A n \in Nat : CountDown(n) \in Nat
    BY DEF CountDown
  <2>4. QED
    BY <1>14, <2>2, <2>3 DEF Tick, senderVars, GateTypeOK
<1>15. CASE UNCHANGED vars
  BY <1>15 DEF vars, GateTypeOK
<1>16. QED
  BY <1>1, <1>2, <1>3, <1>4, <1>5, <1>6, <1>7, <1>8, <1>9, <1>10, <1>11, <1>12, <1>13,
     <1>14, <1>15
  DEF Next, Run

\* Type correctness of the endpoints and their senders.
THEOREM GateTypeCorrect == Spec => []GateTypeOK
<1>1. Init => GateTypeOK
  <2> SUFFICES ASSUME Init PROVE GateTypeOK
    OBVIOUS
  <2>1. 0 \in Attempts /\ 0 \in 0..HoldLimit /\ 0 \in Statuses /\ "idle" \in Points
        /\ "due" \in Phases
    BY WebhookGateConstants DEF Attempts, Statuses, Points, Phases
  <2>2. QED
    BY <2>1 DEF Init, GateTypeOK
<1>2. QED
  BY <1>1, GateTypeStep, PTL DEF Spec

-----------------------------------------------------------------------------
(* One event at a time *)

\* A run at work has its event's reservation to itself, and the reservation has
\* as much life left as it was given, less what the run has used.
KeyInv == OneHandler /\ ReservationLives

\* The holder of a key leaves it some life.
LEMMA FreeKey ==
    ASSUME GateTypeOK, KeyInv, NEW p \in Postings, keyTtl[Key(p)] = 0
    PROVE  \A q \in Postings, b \in Attempts : Key(q) = Key(p) => ~Holds(q, b)
<1> SUFFICES ASSUME NEW q \in Postings, NEW b \in Attempts, Key(q) = Key(p), Holds(q, b)
             PROVE  FALSE
  OBVIOUS
<1>1. held[q][b] >= Ttl(q)
  <2>1. held[q][b] \in Nat
    BY WebhookGateConstants DEF GateTypeOK
  <2>2. keyTtl[Key(q)] + held[q][b] >= Ttl(q)
    BY DEF KeyInv, ReservationLives
  <2>3. QED
    BY <2>1, <2>2
<1>2. held[q][b] \in 0..HoldLimit /\ HoldLimit < Ttl(q) /\ Ttl(q) \in Nat
  BY HoldEndsBeforeKey, WebhookGateConstants DEF GateTypeOK
<1>3. QED
  BY <1>1, <1>2, WebhookGateConstants

\* No run comes to hold a key, no holder's clock moves, and no held key is set.
LEMMA KeyFrame ==
    ASSUME KeyInv,
           \A q \in Postings, b \in Attempts : Holds(q, b)' =>
              /\ Holds(q, b) /\ held'[q][b] = held[q][b]
              /\ keyTtl'[Key(q)] = keyTtl[Key(q)]
    PROVE  KeyInv'
BY DEF KeyInv, OneHandler, ReservationLives, Key, BuildEventKey, Ttl

\* An answered run does not hold the key; the other runs are as they were.
LEMMA AnswerHolds ==
    ASSUME GateTypeOK, NEW p \in Postings, NEW a \in Attempts, NEW from, NEW code,
           Answer(p, a, from, code)
    PROVE  \A q \in Postings, b \in Attempts : Holds(q, b)' =>
              Holds(q, b) /\ held'[q][b] = held[q][b] /\ ~(q = p /\ b = a)
<1>1. "answered" \notin Holding
  BY DEF Holding
<1>2. QED
  BY <1>1, AnswerPoint DEF Holds

\* The reservation is inductive: every step keeps the holder alone and its key
\* alive.
LEMMA KeyStep == GateTypeOK /\ KeyInv /\ [Next]_vars => KeyInv'
<1> SUFFICES ASSUME GateTypeOK, KeyInv, [Next]_vars PROVE KeyInv'
  OBVIOUS
<1> /\ \A p \in Postings : Key(p) \in Keys /\ Ttl(p) \in Nat
    /\ {"filter", "handle", "release"} = Holding
    /\ {"idle", "check", "reserve", "answered", "dead"} \cap Holding = {}
  BY KeyInKeys, WebhookGateConstants DEF Holding
<1>same. ASSUME UNCHANGED <<runVars, keyTtl>> PROVE KeyInv'
  BY <1>same, KeyFrame DEF runVars, Holds
<1>move. ASSUME NEW p \in Postings, NEW a \in Attempts, NEW from, NEW to,
                Goto(p, a, from, to), to \in Holding => from \in Holding,
                UNCHANGED <<held, keyTtl>>
         PROVE  KeyInv'
  BY <1>move, GotoPoint, KeyFrame DEF Holds
<1>end. ASSUME NEW p \in Postings, NEW a \in Attempts, NEW from, NEW code,
               Answer(p, a, from, code), keyTtl' = keyTtl
        PROVE  KeyInv'
  BY <1>end, AnswerHolds, KeyFrame
<1>1. ASSUME NEW p \in Postings, Post(p) PROVE KeyInv'
  <2>1. posts[p] \in Attempts
    BY DEF GateTypeOK
  <2>2. QED
    BY <1>1, <2>1, <1>move DEF Post
<1>2. ASSUME NEW p \in Postings, Receive(p) \/ GiveUpOn(p) PROVE KeyInv'
  BY <1>2, <1>same DEF Receive, GiveUpOn
<1>3. ASSUME NEW p \in Postings, NEW a \in Attempts, Admit(p, a) PROVE KeyInv'
  BY <1>3, <1>move DEF Admit
<1>4. ASSUME NEW p \in Postings, NEW a \in Attempts,
             Refuse(p, a) \/ Duplicate(p, a) \/ Handle(p, a) \/ ReleaseFails(p, a)
      PROVE  KeyInv'
  BY <1>4, <1>end DEF Refuse, Duplicate, Handle, ReleaseFails
<1>5. ASSUME NEW p \in Postings, NEW a \in Attempts, Reserve(p, a) PROVE KeyInv'
  <2>1. \A q \in Postings, b \in Attempts : Key(q) = Key(p) => ~Holds(q, b)
    BY <1>5, FreeKey DEF Reserve
  <2>2. \A q \in Postings, b \in Attempts :
            Holds(q, b)' => Holds(q, b) \/ (q = p /\ b = a)
    BY <1>5, GotoPoint DEF Reserve, Holds
  <2>3. held' = held
    BY <1>5 DEF Reserve
  <2>4. \A q \in Postings :
            keyTtl'[Key(q)] = IF Key(q) = Key(p) THEN Ttl(p) ELSE keyTtl[Key(q)]
    BY <1>5, KeyPoint DEF Reserve
  <2>5. OneHandler'
    BY <2>1, <2>2 DEF KeyInv, OneHandler, Key, BuildEventKey
  <2>6. ASSUME NEW q \in Postings, NEW b \in Attempts, Holds(q, b)'
        PROVE  keyTtl'[Key(q)] + held'[q][b] >= Ttl(q)
    <3>1. CASE q = p /\ b = a
      <4>1. held[p][a] \in Nat
        BY WebhookGateConstants DEF GateTypeOK
      <4>2. QED
        BY <2>3, <2>4, <3>1, <4>1
    <3>2. CASE Holds(q, b)
      BY <2>1, <2>3, <2>4, <3>2 DEF KeyInv, ReservationLives
    <3>3. QED
      BY <2>2, <2>6, <3>1, <3>2
  <2>7. ReservationLives'
    BY <2>6 DEF ReservationLives, Key, BuildEventKey, Ttl
  <2>8. QED
    BY <2>5, <2>7 DEF KeyInv
<1>6. ASSUME NEW p \in Postings, NEW a \in Attempts, ReserveFails(p, a) PROVE KeyInv'
  <2>1. CASE keyTtl' = keyTtl
    BY <1>6, <2>1, <1>end DEF ReserveFails
  <2>2. CASE keyTtl[Key(p)] = 0 /\ SetKey(p, Ttl(p))
    <3>1. \A q \in Postings, b \in Attempts : Key(q) = Key(p) => ~Holds(q, b)
      BY <2>2, FreeKey
    <3>2. \A q \in Postings : Key(q) # Key(p) => keyTtl'[Key(q)] = keyTtl[Key(q)]
      BY <2>2, KeyPoint
    <3>3. QED
      BY <1>6, <3>1, <3>2, AnswerHolds, KeyFrame DEF ReserveFails
  <2>3. QED
    BY <1>6, <2>1, <2>2 DEF ReserveFails
<1>7. ASSUME NEW p \in Postings, NEW a \in Attempts, Filter(p, a) PROVE KeyInv'
  BY <1>7, <1>move, <1>end DEF Filter
<1>8. ASSUME NEW p \in Postings, NEW a \in Attempts, HandleFails(p, a) PROVE KeyInv'
  BY <1>8, <1>move, <1>end DEF HandleFails
<1>9. ASSUME NEW p \in Postings, NEW a \in Attempts, Release(p, a) PROVE KeyInv'
  <2>1. Answer(p, a, "release", status[p][a])
    BY <1>9 DEF Release
  <2>2. Holds(p, a)
    BY <2>1, AnswerPoint DEF Holds
  <2>3. \A q \in Postings, b \in Attempts :
            Holds(q, b)' => Holds(q, b) /\ held'[q][b] = held[q][b] /\ ~(q = p /\ b = a)
    BY <2>1, AnswerHolds
  <2>4. \A q \in Postings, b \in Attempts : Holds(q, b)' => Key(q) # Key(p)
    BY <2>2, <2>3 DEF KeyInv, OneHandler
  <2>5. \A q \in Postings : Key(q) # Key(p) => keyTtl'[Key(q)] = keyTtl[Key(q)]
    BY <1>9, KeyPoint DEF Release
  <2>6. QED
    BY <2>3, <2>4, <2>5, KeyFrame
<1>10. ASSUME NEW p \in Postings, NEW a \in Attempts, Crash(p, a) PROVE KeyInv'
  <2>1. \A q \in Postings, b \in Attempts :
            /\ pc'[q][b] = IF q = p /\ b = a THEN "dead" ELSE pc[q][b]
            /\ held'[q][b] = IF q = p /\ b = a THEN 0 ELSE held[q][b]
    BY <1>10 DEF Crash, GateTypeOK
  <2>2. QED
    BY <1>10, <2>1, KeyFrame DEF Crash, Holds
<1>11. CASE Tick
  <2>1. pc' = pc
    BY <1>11 DEF Tick
  <2>2. \A p \in Postings, a \in Attempts : Holds(p, a) =>
            /\ held[p][a] \in Nat /\ held[p][a] < HoldLimit
            /\ held'[p][a] = held[p][a] + 1
    BY <1>11, WebhookGateConstants DEF Tick, Holds, GateTypeOK
  <2>3. \A k \in Keys : keyTtl[k] \in Nat
                        /\ keyTtl'[k] = IF keyTtl[k] = 0 THEN 0 ELSE keyTtl[k] - 1
    BY <1>11 DEF Tick, CountDown, GateTypeOK
  <2>4. ASSUME NEW p \in Postings, NEW a \in Attempts, Holds(p, a)
        PROVE  keyTtl'[Key(p)] + held'[p][a] >= Ttl(p)
    <3>1. keyTtl[Key(p)] # 0
      BY <2>4, FreeKey
    <3>2. keyTtl[Key(p)] + held[p][a] >= Ttl(p)
      BY <2>4 DEF KeyInv, ReservationLives
    <3>3. QED
      BY <2>2, <2>3, <2>4, <3>1, <3>2
  <2>5. QED
    BY <2>1, <2>4 DEF KeyInv, OneHandler, ReservationLives, Holds, Key, BuildEventKey, Ttl
<1>12. CASE UNCHANGED vars
  BY <1>12, <1>same DEF vars, runVars
<1>13. QED
  BY <1>1, <1>2, <1>3, <1>4, <1>5, <1>6, <1>7, <1>8, <1>9, <1>10, <1>11, <1>12
  DEF Next, Run

\* KeyInv is an invariant.
LEMMA KeyHolds == Spec => []KeyInv
<1>1. Init => KeyInv
  BY DEF Init, KeyInv, OneHandler, ReservationLives, Holds, Holding
<1>2. QED
  BY <1>1, KeyStep, GateTypeCorrect, PTL DEF Spec

\* However many endpoints share an event key, for however long each of them
\* reserves it, one run at a time is between its reservation and its answer.
THEOREM OneHandlerPerEvent == Spec => []OneHandler
<1>1. KeyInv => OneHandler
  BY DEF KeyInv
<1>2. QED
  BY <1>1, KeyHolds, PTL

\* No reservation expires under the run that made it.
THEOREM ReservationsLive == Spec => []ReservationLives
<1>1. KeyInv => ReservationLives
  BY DEF KeyInv
<1>2. QED
  BY <1>1, KeyHolds, PTL

-----------------------------------------------------------------------------
(* Reservations and reposts *)

\* A fault of these kinds never goes away.
LEMMA FaultStep ==
    GateTypeOK /\ [Next]_vars =>
        \A k \in FaultKinds : faults[k] \in Nat /\ faults'[k] >= faults[k]
<1> SUFFICES ASSUME GateTypeOK, [Next]_vars
             PROVE  \A k \in FaultKinds : faults[k] \in Nat /\ faults'[k] >= faults[k]
  OBVIOUS
<1> /\ \A k \in FaultKinds : faults[k] \in Nat
    /\ {"crash", "redis", "throw", "reject", "lost", "refuse"} = FaultKinds
  BY DEF GateTypeOK, FaultKinds
<1>1. ASSUME NEW k \in FaultKinds, Fault(k)
      PROVE  \A j \in FaultKinds : faults'[j] >= faults[j]
  BY <1>1, FaultPoint
<1>2. faults' = faults \/ \E k \in FaultKinds : Fault(k)
  <2>1. ASSUME NEW p \in Postings, Post(p) \/ Receive(p) \/ GiveUpOn(p)
        PROVE  faults' = faults \/ \E k \in FaultKinds : Fault(k)
    BY <2>1 DEF Post, Receive, GiveUpOn
  <2>2. ASSUME NEW p \in Postings, NEW a \in Attempts, Run(p, a)
        PROVE  faults' = faults \/ \E k \in FaultKinds : Fault(k)
    BY <2>2 DEF Run, Admit, Refuse, Reserve, Duplicate, ReserveFails, Filter, Handle,
                HandleFails, Release, ReleaseFails, Crash
  <2>3. QED
    BY <2>1, <2>2 DEF Next, Tick, vars
<1>3. QED
  BY <1>1, <1>2

\* An event that was consumed stays consumed.
LEMMA ConsumedStays ==
    GateTypeOK /\ [Next]_vars => \A k \in Keys : Consumed(k) => Consumed(k)'
<1> SUFFICES ASSUME GateTypeOK, [Next]_vars, NEW k \in Keys, NEW q \in Postings,
                    Key(q) = k, handled[q] > 0 \/ q \in skipped
             PROVE  handled'[q] > 0 \/ q \in skipped'
  BY DEF Consumed, Key, BuildEventKey
<1> handled \in [Postings -> Nat]
  BY DEF GateTypeOK
<1>1. ASSUME NEW p \in Postings, Post(p) \/ Receive(p) \/ GiveUpOn(p)
      PROVE  handled'[q] > 0 \/ q \in skipped'
  BY <1>1 DEF Post, Receive, GiveUpOn
<1>2. ASSUME NEW p \in Postings, NEW a \in Attempts, Run(p, a)
      PROVE  handled'[q] > 0 \/ q \in skipped'
  <2>1. CASE Handle(p, a)
    BY <2>1 DEF Handle
  <2>2. CASE Filter(p, a)
    BY <2>2 DEF Filter
  <2>3. CASE Crash(p, a) \/ Release(p, a) \/ ReleaseFails(p, a) \/ HandleFails(p, a)
    BY <2>3 DEF Crash, Release, ReleaseFails, HandleFails
  <2>4. QED
    BY <1>2, <2>1, <2>2, <2>3
    DEF Run, Admit, Refuse, Reserve, Duplicate, ReserveFails
<1>3. QED
  BY <1>1, <1>2 DEF Next, Tick, vars

\* The run or the outcome that accounts for a reserved key.
Accounted(k) == Consumed(k) \/ \E p \in Postings, a \in Attempts : Key(p) = k /\ Holds(p, a)

\* Every step of an undisturbed history leaves every reservation accounted for.
LEMMA OrphanStep ==
    GateTypeOK /\ KeyInv /\ NoOrphanKey /\ [Next]_vars => NoOrphanKey'
<1> SUFFICES ASSUME GateTypeOK, KeyInv, NoOrphanKey, [Next]_vars, Undisturbed'
             PROVE  \A k \in Keys : keyTtl'[k] > 0 => Accounted(k)'
  BY DEF NoOrphanKey, Accounted, Keys, Key, BuildEventKey
<1> /\ \A p \in Postings : Key(p) \in Keys
    /\ {"filter", "handle", "release"} = Holding
    /\ {"idle", "check", "reserve", "answered", "dead"} \cap Holding = {}
    /\ {"crash", "redis", "throw", "reject", "lost", "refuse"} = FaultKinds
  BY KeyInKeys DEF Holding, FaultKinds
<1>u. Undisturbed
  BY FaultStep, FaultPoint DEF Undisturbed
<1>k. \A k \in Keys : keyTtl[k] > 0 => Accounted(k)
  BY <1>u DEF NoOrphanKey, Accounted
<1>keep. ASSUME \A k \in Keys : keyTtl'[k] > 0 => keyTtl[k] > 0,
                \A q \in Postings, b \in Attempts :
                    Holds(q, b) => Holds(q, b)' \/ Consumed(Key(q))' \/ ~(keyTtl'[Key(q)] > 0)
         PROVE  \A k \in Keys : keyTtl'[k] > 0 => Accounted(k)'
  BY <1>k, <1>keep, ConsumedStays DEF Accounted, Key, BuildEventKey
<1>same. ASSUME UNCHANGED <<pc, keyTtl>>
         PROVE  \A k \in Keys : keyTtl'[k] > 0 => Accounted(k)'
  BY <1>same, <1>keep DEF Holds
<1>move. ASSUME NEW p \in Postings, NEW a \in Attempts, NEW from, NEW to,
                Goto(p, a, from, to), from \in Holding => to \in Holding,
                UNCHANGED keyTtl
         PROVE  \A k \in Keys : keyTtl'[k] > 0 => Accounted(k)'
  BY <1>move, GotoPoint, <1>keep DEF Holds
<1>end. ASSUME NEW p \in Postings, NEW a \in Attempts, NEW from, NEW code,
               Answer(p, a, from, code), UNCHANGED keyTtl,
               from \in Holding => Consumed(Key(p))'
        PROVE  \A k \in Keys : keyTtl'[k] > 0 => Accounted(k)'
  BY <1>end, AnswerPoint, <1>keep DEF Holds
<1>1. ASSUME NEW p \in Postings, Post(p) \/ Receive(p) \/ GiveUpOn(p)
      PROVE  \A k \in Keys : keyTtl'[k] > 0 => Accounted(k)'
  <2>1. posts[p] \in Attempts
    BY DEF GateTypeOK
  <2>2. QED
    BY <1>1, <2>1, <1>move, <1>same DEF Post, Receive, GiveUpOn, runVars
<1>2. ASSUME NEW p \in Postings, NEW a \in Attempts,
             Admit(p, a) \/ Refuse(p, a) \/ Duplicate(p, a)
      PROVE  \A k \in Keys : keyTtl'[k] > 0 => Accounted(k)'
  BY <1>2, <1>move, <1>end DEF Admit, Refuse, Duplicate
<1>3. ASSUME NEW p \in Postings, NEW a \in Attempts, Reserve(p, a)
      PROVE  \A k \in Keys : keyTtl'[k] > 0 => Accounted(k)'
  <2>1. \A q \in Postings, b \in Attempts :
            pc'[q][b] = IF q = p /\ b = a THEN "filter" ELSE pc[q][b]
    BY <1>3, GotoPoint DEF Reserve
  <2>2. Holds(p, a)' /\ \A q \in Postings, b \in Attempts : Holds(q, b) => Holds(q, b)'
    BY <2>1 DEF Holds
  <2>3. \A k \in Keys : k # Key(p) => keyTtl'[k] = keyTtl[k]
    BY <1>3, KeyPoint DEF Reserve
  <2>4. QED
    BY <1>k, <2>2, <2>3, ConsumedStays DEF Accounted, Key, BuildEventKey
<1>4. ASSUME NEW p \in Postings, NEW a \in Attempts,
             ReserveFails(p, a) \/ ReleaseFails(p, a) \/ Crash(p, a)
      PROVE  FALSE
  BY <1>4, <1>u, FaultPoint DEF ReserveFails, ReleaseFails, Crash, Undisturbed
<1>5. ASSUME NEW p \in Postings, NEW a \in Attempts, Filter(p, a)
      PROVE  \A k \in Keys : keyTtl'[k] > 0 => Accounted(k)'
  <2>1. p \in skipped' => Consumed(Key(p))'
    BY DEF Consumed, Key, BuildEventKey
  <2>2. QED
    BY <1>5, <2>1, <1>move, <1>end DEF Filter
<1>6. ASSUME NEW p \in Postings, NEW a \in Attempts, Handle(p, a)
      PROVE  \A k \in Keys : keyTtl'[k] > 0 => Accounted(k)'
  <2>1. handled'[p] > 0
    BY <1>6 DEF Handle, GateTypeOK
  <2>2. Consumed(Key(p))'
    BY <2>1 DEF Consumed, Key, BuildEventKey
  <2>3. QED
    BY <1>6, <2>2, <1>end DEF Handle
<1>7. ASSUME NEW p \in Postings, NEW a \in Attempts, HandleFails(p, a)
      PROVE  \A k \in Keys : keyTtl'[k] > 0 => Accounted(k)'
  <2>1. ~Fault("reject")
    BY <1>u, FaultPoint DEF Undisturbed
  <2>2. QED
    BY <1>7, <2>1, <1>move DEF HandleFails
<1>8. ASSUME NEW p \in Postings, NEW a \in Attempts, Release(p, a)
      PROVE  \A k \in Keys : keyTtl'[k] > 0 => Accounted(k)'
  <2>1. \A k \in Keys : keyTtl'[k] = IF k = Key(p) THEN 0 ELSE keyTtl[k]
    BY <1>8, KeyPoint DEF Release
  <2>2. \A q \in Postings, b \in Attempts : Holds(q, b) => Holds(q, b)' \/ q = p
    BY <1>8, AnswerPoint DEF Release, Holds
  <2>3. QED
    BY <2>1, <2>2, <1>keep
<1>9. CASE Tick
  <2>1. \A k \in Keys : keyTtl'[k] > 0 => keyTtl[k] > 0
    BY <1>9 DEF Tick, CountDown, GateTypeOK
  <2>2. QED
    BY <1>9, <2>1, <1>keep DEF Tick, Holds
<1>10. CASE UNCHANGED vars
  BY <1>10, <1>same DEF vars
<1>11. QED
  BY <1>1, <1>2, <1>3, <1>4, <1>5, <1>6, <1>7, <1>8, <1>9, <1>10 DEF Next, Run

\* Without a crash, a Redis fault or a 4xx of a handler, no reservation outlives
\* both its run and the event's consumption: what the endpoint refuses is free
\* to be posted again.
THEOREM NoReservationIsOrphaned == Spec => []NoOrphanKey
<1>1. Init => NoOrphanKey
  BY DEF Init, NoOrphanKey
<1>2. QED
  BY <1>1, OrphanStep, GateTypeCorrect, KeyHolds, PTL DEF Spec

Busy == {"check", "reserve", "filter", "handle", "release"}
Reliable == Undisturbed /\ faults["lost"] = 0

\* What a reliable history knows of its senders: the only run at work is that of
\* the attempt a sender waits for, a posting is acknowledged by the 200 of its
\* last attempt, and an event not yet consumed has a posting without a 200.
SenderFacts ==
    /\ \A p \in Postings, a \in Attempts :
          /\ pc[p][a] \in Busy => a = posts[p] /\ phase[p] = "inflight"
          /\ status[p][a] = 200 => pc[p][a] = "answered"
          /\ a > posts[p] => status[p][a] = 0
    /\ \A p \in Postings : phase[p] = "acked" => status[p][posts[p]] = 200
    /\ \A k \in Keys : Consumed(k) \/
          \E p \in Postings : Key(p) = k /\ status[p][posts[p]] # 200

RepostInv == Reliable => SenderFacts

\* A step of a run keeps the sender's facts, if a 200 it answers leaves its event
\* consumed or another posting of it without a 200.
LEMMA RunKeeps ==
    ASSUME GateTypeOK, SenderFacts, UNCHANGED senderVars,
           \A k \in Keys : Consumed(k) => Consumed(k)',
           NEW p \in Postings, NEW a \in Attempts, NEW to \in Busy \cup {"answered"},
           NEW code,
           pc[p][a] \in Busy,
           code = 200 => /\ to = "answered"
                         /\ \/ Consumed(Key(p))'
                            \/ \E q \in Postings \ {p} :
                                  Key(q) = Key(p) /\ status[q][posts[q]] # 200,
           \A q \in Postings, b \in Attempts :
              /\ pc'[q][b] = IF q = p /\ b = a THEN to ELSE pc[q][b]
              /\ status'[q][b] = IF q = p /\ b = a THEN code ELSE status[q][b]
    PROVE  SenderFacts'
<1>1. /\ posts' = posts /\ phase' = phase
      /\ a = posts[p] /\ phase[p] = "inflight" /\ Key(p) \in Keys
      /\ \A q \in Postings : posts[q] \in Attempts
      /\ "answered" \notin Busy
  BY KeyInKeys DEF senderVars, SenderFacts, GateTypeOK, Busy
<1>2. \A q \in Postings, b \in Attempts :
          /\ pc'[q][b] \in Busy => b = posts[q] /\ phase[q] = "inflight"
          /\ status'[q][b] = 200 => pc'[q][b] = "answered"
          /\ b > posts[q] => status'[q][b] = 0
  <2>1. ~(posts[p] > posts[p])
    BY WebhookGateConstants DEF GateTypeOK, Attempts
  <2>2. QED
    BY <1>1, <2>1 DEF SenderFacts
<1>3. \A q \in Postings : phase[q] = "acked" => status'[q][posts[q]] = 200
  BY <1>1 DEF SenderFacts
<1>4. ASSUME NEW k \in Keys, ~Consumed(k)'
      PROVE  \E q \in Postings : Key(q) = k /\ status'[q][posts[q]] # 200
  <2>1. PICK q \in Postings : Key(q) = k /\ status[q][posts[q]] # 200
    BY <1>4 DEF SenderFacts
  <2>2. CASE q # p
    BY <1>1, <2>1, <2>2
  <2>3. CASE q = p /\ code # 200
    BY <1>1, <2>1, <2>3
  <2>4. CASE q = p /\ code = 200
    <3>1. PICK o \in Postings \ {p} : Key(o) = Key(p) /\ status[o][posts[o]] # 200
      BY <1>4, <2>1, <2>4
    <3>2. QED
      BY <1>1, <2>1, <2>4, <3>1
  <2>5. QED
    BY <2>2, <2>3, <2>4
<1>5. QED
  BY <1>1, <1>2, <1>3, <1>4 DEF SenderFacts, Key, BuildEventKey

\* What the sender does keeps its facts.
LEMMA SenderKeeps ==
    ASSUME GateTypeOK, SenderFacts, \A k \in Keys : Consumed(k) => Consumed(k)',
           NEW p \in Postings, Post(p) \/ Receive(p)
    PROVE  SenderFacts'
<1>1. /\ \A q \in Postings : posts[q] \in Attempts
      /\ \A b \in Attempts : b \in Nat
      /\ {"idle", "answered", "dead"} \cap Busy = {} /\ "check" \in Busy
  BY WebhookGateConstants DEF GateTypeOK, Busy, Attempts
<1>2. CASE Post(p)
  <2>1. /\ posts' = posts /\ status' = status /\ phase[p] = "due"
        /\ \A q \in Postings : phase'[q] = IF q = p THEN "inflight" ELSE phase[q]
    BY <1>2 DEF Post, GateTypeOK
  <2>2. /\ pc[p][posts[p]] = "idle"
        /\ \A q \in Postings, b \in Attempts :
              pc'[q][b] = IF q = p /\ b = posts[p] THEN "check" ELSE pc[q][b]
    BY <1>1, <1>2, GotoPoint DEF Post
  <2>3. \A k \in Keys : Consumed(k)' \/
            \E q \in Postings : Key(q) = k /\ status[q][posts[q]] # 200
    BY DEF SenderFacts
  <2>4. \A q \in Postings, b \in Attempts :
            /\ pc'[q][b] \in Busy => b = posts[q] /\ phase'[q] = "inflight"
            /\ status[q][b] = 200 => pc'[q][b] = "answered"
            /\ b > posts[q] => status[q][b] = 0
    BY <1>1, <2>1, <2>2 DEF SenderFacts
  <2>5. \A q \in Postings : phase'[q] = "acked" => status[q][posts[q]] = 200
    BY <2>1 DEF SenderFacts
  <2>6. QED
    BY <2>1, <2>3, <2>4, <2>5 DEF SenderFacts, Key, BuildEventKey
<1>3. CASE Receive(p)
  <2>1. /\ pc' = pc /\ status' = status
        /\ pc[p][posts[p]] \in {"answered", "dead"} /\ phase[p] = "inflight"
    BY <1>3 DEF Receive, runVars
  <2>2. \A b \in Attempts : pc[p][b] \notin Busy
    BY <1>1, <2>1 DEF SenderFacts
  <2>3. \A q \in Postings : q # p => phase'[q] = phase[q] /\ posts'[q] = posts[q]
    BY <1>3 DEF Receive, Repost, GateTypeOK
  <2>4. \/ posts'[p] = posts[p] /\ phase'[p] = "acked" /\ status[p][posts[p]] = 200
        \/ posts'[p] = posts[p] /\ phase'[p] = "dropped"
        \/ posts'[p] = posts[p] + 1 /\ phase'[p] = "due" /\ posts[p] + 1 \in Attempts
    <3>1. posts[p] < MaxPosts => posts[p] + 1 \in Attempts
      BY <1>1, WebhookGateConstants DEF Attempts
    <3>2. QED
      BY <1>3, <3>1 DEF Receive, Repost, GateTypeOK
  <2>5. \A q \in Postings, b \in Attempts :
            pc[q][b] \in Busy => b = posts'[q] /\ phase'[q] = "inflight"
    BY <2>2, <2>3 DEF SenderFacts
  <2>6. \A q \in Postings, b \in Attempts : b > posts'[q] => status[q][b] = 0
    BY <1>1, <2>3, <2>4 DEF SenderFacts
  <2>7. \A q \in Postings : phase'[q] = "acked" => status[q][posts'[q]] = 200
    BY <2>3, <2>4 DEF SenderFacts
  <2>8. status[p][posts[p]] # 200 => status[p][posts'[p]] # 200
    <3>1. posts[p] + 1 > posts[p]
      BY <1>1
    <3>2. posts[p] + 1 \in Attempts => status[p][posts[p] + 1] = 0
      BY <3>1 DEF SenderFacts
    <3>3. QED
      BY <2>4, <3>2
  <2>9. \A k \in Keys : Consumed(k)' \/
            \E q \in Postings : Key(q) = k /\ status[q][posts'[q]] # 200
    BY <2>3, <2>8 DEF SenderFacts
  <2>10. \A q \in Postings, b \in Attempts : status[q][b] = 200 => pc[q][b] = "answered"
    BY DEF SenderFacts
  <2>11. QED
    BY <2>1, <2>5, <2>6, <2>7, <2>9, <2>10 DEF SenderFacts, Key, BuildEventKey
<1>4. QED
  BY <1>2, <1>3

\* Every step of a reliable history keeps the sender's facts.
LEMMA RepostStep ==
    GateTypeOK /\ NoOrphanKey /\ RepostInv /\ [Next]_vars => RepostInv'
<1> SUFFICES ASSUME GateTypeOK, NoOrphanKey, RepostInv, [Next]_vars, Reliable'
             PROVE  SenderFacts'
  BY DEF RepostInv
<1> /\ Holding \subseteq Busy
    /\ {"check", "reserve", "filter", "handle", "release"} = Busy
    /\ {"crash", "redis", "throw", "reject", "lost", "refuse"} = FaultKinds
  BY DEF Holding, Busy, FaultKinds
<1>r. Reliable
  BY FaultStep DEF Reliable, Undisturbed
<1>s. SenderFacts /\ \A k \in Keys : Consumed(k) => Consumed(k)'
  BY <1>r, ConsumedStays DEF RepostInv
<1>f. ~Fault("crash") /\ ~Fault("redis") /\ ~Fault("reject") /\ ~Fault("lost")
  BY <1>r, FaultPoint DEF Reliable, Undisturbed
<1>move. ASSUME NEW p \in Postings, NEW a \in Attempts, NEW from \in Busy,
                NEW to \in Busy, Goto(p, a, from, to), UNCHANGED <<senderVars, status>>
         PROVE  SenderFacts'
  <2>1. pc[p][a] \in Busy /\ status[p][a] # 200
    BY <1>move, <1>s, GotoPoint DEF SenderFacts
  <2>2. UNCHANGED senderVars
    BY <1>move
  <2>3. \A q \in Postings, b \in Attempts :
            /\ pc'[q][b] = IF q = p /\ b = a THEN to ELSE pc[q][b]
            /\ status'[q][b] = IF q = p /\ b = a THEN status[p][a] ELSE status[q][b]
    BY <1>move, GotoPoint
  <2>4. QED
    BY <1>s, <2>1, <2>2, <2>3, RunKeeps
<1>end. ASSUME NEW p \in Postings, NEW a \in Attempts, NEW from \in Busy, NEW code,
               Answer(p, a, from, code), UNCHANGED senderVars,
               code = 200 => \/ Consumed(Key(p))'
                             \/ \E q \in Postings \ {p} :
                                   Key(q) = Key(p) /\ status[q][posts[q]] # 200
        PROVE  SenderFacts'
  <2>1. /\ pc[p][a] \in Busy
        /\ \A q \in Postings, b \in Attempts :
              /\ pc'[q][b] = IF q = p /\ b = a THEN "answered" ELSE pc[q][b]
              /\ status'[q][b] = IF q = p /\ b = a THEN code ELSE status[q][b]
    BY <1>end, AnswerPoint
  <2>2. UNCHANGED senderVars /\ "answered" \in Busy \cup {"answered"}
    BY <1>end
  <2>3. code = 200 => /\ "answered" = "answered"
                      /\ \/ Consumed(Key(p))'
                         \/ \E q \in Postings \ {p} :
                               Key(q) = Key(p) /\ status[q][posts[q]] # 200
    BY <1>end
  <2>4. QED
    BY <1>s, <2>1, <2>2, <2>3, RunKeeps
<1>1. ASSUME NEW p \in Postings, Post(p) \/ Receive(p) PROVE SenderFacts'
  BY <1>1, <1>s, SenderKeeps
<1>2. ASSUME NEW p \in Postings, GiveUpOn(p) PROVE FALSE
  BY <1>2, <1>f DEF GiveUpOn
<1>3. ASSUME NEW p \in Postings, NEW a \in Attempts, Admit(p, a) \/ Reserve(p, a)
      PROVE  SenderFacts'
  BY <1>3, <1>move DEF Admit, Reserve
<1>4. ASSUME NEW p \in Postings, NEW a \in Attempts, Refuse(p, a) PROVE SenderFacts'
  BY <1>4, <1>end DEF Refuse
<1>5. ASSUME NEW p \in Postings, NEW a \in Attempts, Duplicate(p, a) PROVE SenderFacts'
  <2>1. Answer(p, a, "reserve", 200) /\ UNCHANGED senderVars /\ pc[p][a] = "reserve"
    BY <1>5, AnswerPoint DEF Duplicate
  <2>2. CASE Consumed(Key(p))
    BY <1>s, <2>1, <2>2, <1>end, KeyInKeys
  <2>3. CASE \E q \in Postings, b \in Attempts : Key(q) = Key(p) /\ Holds(q, b)
    <3>1. PICK q \in Postings, b \in Attempts : Key(q) = Key(p) /\ Holds(q, b)
      BY <2>3
    <3>2. b = posts[q] /\ status[q][b] # 200 /\ a = posts[p]
      BY <1>s, <2>1, <3>1 DEF SenderFacts, Holds, Holding, Busy
    <3>3. q # p
      BY <2>1, <3>1, <3>2 DEF Holds, Holding
    <3>4. QED
      BY <2>1, <3>1, <3>2, <3>3, <1>end
  <2>4. keyTtl[Key(p)] > 0
    BY <1>5 DEF Duplicate
  <2>5. QED
    BY <1>r, <2>2, <2>3, <2>4, KeyInKeys DEF Reliable, NoOrphanKey
<1>6. ASSUME NEW p \in Postings, NEW a \in Attempts, Filter(p, a) PROVE SenderFacts'
  <2>1. p \in skipped' => Consumed(Key(p))'
    BY DEF Consumed, Key, BuildEventKey
  <2>2. QED
    BY <1>6, <2>1, <1>move, <1>end DEF Filter
<1>7. ASSUME NEW p \in Postings, NEW a \in Attempts, Handle(p, a) PROVE SenderFacts'
  <2>1. handled'[p] > 0
    BY <1>7 DEF Handle, GateTypeOK
  <2>2. Consumed(Key(p))'
    BY <2>1 DEF Consumed, Key, BuildEventKey
  <2>3. QED
    BY <1>7, <2>2, <1>end DEF Handle
<1>8. ASSUME NEW p \in Postings, NEW a \in Attempts, HandleFails(p, a) PROVE SenderFacts'
  <2>1. PICK code \in ThrownStatuses :
            Goto(p, a, "handle", "release") /\ SetStatus(p, a, code)
    BY <1>8, <1>f DEF HandleFails
  <2>2. code # 200
    BY WebhookGateConstants
  <2>3. UNCHANGED senderVars
    BY <1>8 DEF HandleFails
  <2>4. pc[p][a] \in Busy
    BY <2>1, GotoPoint
  <2>5. \A q \in Postings, b \in Attempts :
            /\ pc'[q][b] = IF q = p /\ b = a THEN "release" ELSE pc[q][b]
            /\ status'[q][b] = IF q = p /\ b = a THEN code ELSE status[q][b]
    BY <2>1, GotoPoint, StatusPoint
  <2>6. QED
    BY <1>s, <2>2, <2>3, <2>4, <2>5, RunKeeps
<1>9. ASSUME NEW p \in Postings, NEW a \in Attempts, Release(p, a) PROVE SenderFacts'
  <2>1. pc[p][a] = "release"
    BY <1>9, AnswerPoint DEF Release
  <2>2. status[p][a] # 200
    BY <1>s, <2>1 DEF SenderFacts
  <2>3. QED
    BY <1>9, <2>2, <1>end DEF Release
<1>10. ASSUME NEW p \in Postings, NEW a \in Attempts,
              ReserveFails(p, a) \/ ReleaseFails(p, a) \/ Crash(p, a)
       PROVE  FALSE
  BY <1>10, <1>f DEF ReserveFails, ReleaseFails, Crash
<1>11. CASE Tick \/ UNCHANGED vars
  BY <1>11, <1>s DEF Tick, vars, senderVars, SenderFacts, Consumed, Key, BuildEventKey
<1>12. QED
  BY <1>1, <1>2, <1>3, <1>4, <1>5, <1>6, <1>7, <1>8, <1>9, <1>10, <1>11 DEF Next, Run

\* A handler that fails and answers 5xx costs nothing but another post: if no run
\* dies, no Redis call fails, no handler answers 4xx and no sender gives up on a
\* running attempt, then not every posting of an event is acknowledged before an
\* endpoint has consumed the event.
THEOREM RepostsMakeUp == Spec => []RepostingSuffices
<1>1. Init => RepostInv
  <2>1. 0 \in Attempts /\ ~(0 > 0)
    BY WebhookGateConstants DEF Attempts
  <2>2. Init => \A p \in Postings : posts[p] \in Attempts
    BY <2>1 DEF Init
  <2>3. QED
    BY <2>1, <2>2 DEF Init, RepostInv, SenderFacts, Keys, Busy
<1>2. Spec => []RepostInv
  BY <1>1, RepostStep, GateTypeCorrect, NoReservationIsOrphaned, PTL DEF Spec
<1>3. RepostInv => RepostingSuffices
  BY KeyInKeys DEF RepostInv, RepostingSuffices, Reliable, SenderFacts
<1>4. QED
  BY <1>2, <1>3, PTL

=============================================================================
