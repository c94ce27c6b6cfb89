------------------------ MODULE CircuitBreakerProofs ------------------------
(***************************************************************************)
(* Proofs about CircuitBreaker, for any number of senders, thresholds and  *)
(* expiries: its types, that an open circuit lets nobody in during its     *)
(* cooldown, and that it opens only on as many failures as the threshold   *)
(* asks for.                                                               *)
(***************************************************************************)
EXTENDS CircuitBreaker, FiniteSetTheorems, TLAPS

-----------------------------------------------------------------------------
(* Type correctness *)

\* Every command leaves keys of the right shape, whose counters expire.
StoreOK(s) ==
    /\ s \in [opened : Opening, failures : Counter, successes : Counter]
    /\ s.failures.n > 0 => s.failures.ttl > 0
    /\ s.successes.n > 0 => s.successes.ttl > 0

\* What a sender holds for its next command is in range.
HeldOK == \A c \in Senders : pc[c] = "probe" => ttlSeen[c] > 0

LEMMA OpenedOK == ASSUME StoreOK(store) PROVE StoreOK(Opened)
BY BreakerAssumption DEF StoreOK, Opened, Opening, OpenTtl

LEMMA FailureCountedOK == ASSUME StoreOK(store) PROVE StoreOK(FailureCounted)
BY BreakerAssumption DEF StoreOK, FailureCounted, Counter

LEMMA SuccessCountedOK ==
    ASSUME StoreOK(store), NEW c \in Senders, ttlSeen[c] \in Nat, ttlSeen[c] > 0
    PROVE  StoreOK(SuccessCounted(c))
BY DEF StoreOK, SuccessCounted, Counter

LEMMA DeletedOK == ASSUME StoreOK(store), NEW k PROVE StoreOK(Deleted(k))
BY DEF StoreOK, Deleted, Counter, Opening, Absent, NotOpened

LEMMA CountDownOK ==
    ASSUME NEW k \in Counter, k.n > 0 => k.ttl > 0
    PROVE  CountDown(k) \in Counter /\ (CountDown(k).n > 0 => CountDown(k).ttl > 0)
BY DEF CountDown, Counter, Absent

LEMMA AppliedOK ==
    ASSUME BreakerTypeOK, HeldOK, NEW c \in Senders
    PROVE  StoreOK(Applied(c))
<1>1. StoreOK(store)
  BY DEF BreakerTypeOK, StoreOK
<1>2. ttlSeen[c] \in Nat
  BY DEF BreakerTypeOK
<1>3. CASE pc[c] = "probe"
  BY <1>1, <1>2, <1>3, SuccessCountedOK DEF HeldOK, Applied
<1>4. CASE pc[c] # "probe"
  BY <1>1, <1>4, OpenedOK, FailureCountedOK, DeletedOK DEF Applied
<1>5. QED
  BY <1>3, <1>4

TypeInv == BreakerTypeOK /\ HeldOK

\* A step keeps the keys in shape.
LEMMA StoreStep == TypeInv /\ [Next]_vars => StoreOK(store')
<1> SUFFICES ASSUME TypeInv, [Next]_vars PROVE StoreOK(store')
  OBVIOUS
<1>0. StoreOK(store)
  BY DEF TypeInv, BreakerTypeOK, StoreOK
<1>1. CASE Tick
  <2>1. store.opened \in Opening /\ store.failures \in Counter
           /\ store.successes \in Counter
    BY <1>0 DEF StoreOK
  <2> DEFINE o == IF store.opened.ttl > 1
                  THEN [age |-> store.opened.age + 1, ttl |-> store.opened.ttl - 1]
                  ELSE NotOpened
  <2>2. o \in Opening
    BY <2>1 DEF Opening, NotOpened
  <2>3. /\ CountDown(store.failures) \in Counter
        /\ CountDown(store.failures).n > 0 => CountDown(store.failures).ttl > 0
    BY <2>1, <1>0, CountDownOK DEF StoreOK
  <2>4. /\ CountDown(store.successes) \in Counter
        /\ CountDown(store.successes).n > 0 => CountDown(store.successes).ttl > 0
    BY <2>1, <1>0, CountDownOK DEF StoreOK
  <2>5. store' = [opened |-> o, failures |-> CountDown(store.failures),
                  successes |-> CountDown(store.successes)]
    BY <1>1 DEF Tick
  <2> HIDE DEF o
  <2>6. QED
    BY <2>2, <2>3, <2>4, <2>5 DEF StoreOK
<1>2. ASSUME NEW c \in Senders, Begin(c) \/ ResetCircuit(c) \/ Work(c)
      PROVE  StoreOK(store')
  <2>1. \/ store' = store \/ store' = Applied(c)
        \/ \E k \in dels[c] : store' = Deleted(k)
    BY <1>2 DEF Begin, ResetCircuit, Work, GetOpenedAt, GetFailures, SetOpenedAt,
         Send, SendFails, ReadOpenedAt, ReadTtl, CountSuccess, ClearFailures,
         DelKey, Closed, WasReset, CountFailure, ResetSuccesses, RedisFails,
         DelFails, Post
  <2>2. StoreOK(Applied(c))
    BY AppliedOK DEF TypeInv
  <2>3. QED
    BY <2>1, <2>2, <1>0, DeletedOK
<1>3. CASE UNCHANGED vars
  BY <1>0, <1>3 DEF vars
<1>4. QED
  BY <1>1, <1>2, <1>3 DEF Next

\* A step moves one sender at most, to a point of its program.
LEMMA PcStep ==
    ASSUME TypeInv, NEW c \in Senders, Begin(c) \/ ResetCircuit(c) \/ Work(c)
    PROVE  \E p \in Points : pc' = [pc EXCEPT ![c] = p]
<1>0. pc = [pc EXCEPT ![c] = pc[c]] /\ pc[c] \in Points
  BY DEF TypeInv, BreakerTypeOK
<1>1. CASE Begin(c) \/ ResetCircuit(c) \/ GetOpenedAt(c) \/ GetFailures(c)
             \/ SetOpenedAt(c) \/ Send(c) \/ SendFails(c)
  BY <1>1 DEF Begin, ResetCircuit, GetOpenedAt, GetFailures, SetOpenedAt, Send,
       SendFails, Goto, Points, Checking, Succeeding, Failing
<1>2. CASE ReadOpenedAt(c) \/ ReadTtl(c) \/ CountSuccess(c) \/ ClearFailures(c)
             \/ Closed(c) \/ WasReset(c)
  BY <1>2 DEF ReadOpenedAt, ReadTtl, CountSuccess, ClearFailures, Closed, WasReset, Goto, Points, Checking, Succeeding, Failing
<1>3. CASE DelKey(c)
  BY <1>0, <1>3 DEF DelKey
<1>4. CASE CountFailure(c) \/ ResetSuccesses(c) \/ RedisFails(c) \/ DelFails(c) \/ Post(c)
  BY <1>4 DEF CountFailure, ResetSuccesses, RedisFails, DelFails, Post, Goto, Points,
       Checking, Succeeding, Failing
<1>5. QED
  BY <1>1, <1>2, <1>3, <1>4 DEF Work

\* The rest of a sender's state keeps its type.
LEMMA SenderStep ==
    ASSUME TypeInv, NEW c \in Senders, Begin(c) \/ ResetCircuit(c) \/ Work(c)
    PROVE  /\ ttlSeen' \in [Senders -> Nat]
           /\ dels' \in [Senders -> SUBSET Keys]
           /\ bystanders' \subseteq Senders
           /\ failed' \in 0 .. MaxFailures
           /\ faults' \in 0 .. MaxFaults
<1>0. /\ ttlSeen \in [Senders -> Nat] /\ dels \in [Senders -> SUBSET Keys]
      /\ bystanders \subseteq Senders
      /\ failed \in 0 .. MaxFailures /\ faults \in 0 .. MaxFaults
      /\ store.opened.ttl \in Nat
  BY DEF TypeInv, BreakerTypeOK, Opening
<1>a. OpenTtl \in Nat /\ DefaultTtl \in Nat /\ MaxFailures \in Nat /\ MaxFaults \in Nat
  BY BreakerAssumption DEF OpenTtl
<1>1. ttlSeen' \in [Senders -> Nat]
  BY <1>0, <1>a DEF Begin, ResetCircuit, Work, GetOpenedAt, GetFailures, SetOpenedAt,
       Send, SendFails, ReadOpenedAt, ReadTtl, CountSuccess, ClearFailures, DelKey,
       Closed, WasReset, CountFailure, ResetSuccesses, RedisFails, DelFails, Post
<1>2. dels' \in [Senders -> SUBSET Keys]
  <2>1. dels' = dels \/ dels' = [dels EXCEPT ![c] = Keys]
          \/ \E k : dels' = [dels EXCEPT ![c] = @ \ {k}]
    BY DEF Begin, ResetCircuit, Work, GetOpenedAt, GetFailures, SetOpenedAt,
       Send, SendFails, ReadOpenedAt, ReadTtl, CountSuccess, ClearFailures, DelKey,
       Closed, WasReset, CountFailure, ResetSuccesses, RedisFails, DelFails, Post
  <2>2. QED
    BY <2>1, <1>0
<1>3. bystanders' \subseteq Senders
  BY <1>0 DEF Begin, ResetCircuit, Work, GetOpenedAt, GetFailures, SetOpenedAt,
       Send, SendFails, ReadOpenedAt, ReadTtl, CountSuccess, ClearFailures, DelKey,
       Closed, WasReset, CountFailure, ResetSuccesses, RedisFails, DelFails, Post,
       NoteOpening
<1>4. failed' \in 0 .. MaxFailures /\ faults' \in 0 .. MaxFaults
  BY <1>0, <1>a DEF Begin, ResetCircuit, Work, GetOpenedAt, GetFailures, SetOpenedAt,
       Send, SendFails, ReadOpenedAt, ReadTtl, CountSuccess, ClearFailures, DelKey,
       Closed, WasReset, CountFailure, ResetSuccesses, RedisFails, DelFails, Post
<1>5. QED
  BY <1>1, <1>2, <1>3, <1>4

\* Only ReadTtl leads to the count of a success, and it holds an expiry then.
LEMMA HeldStep == TypeInv /\ [Next]_vars => HeldOK'
<1> SUFFICES ASSUME TypeInv, [Next]_vars, NEW d \in Senders, pc'[d] = "probe"
             PROVE  ttlSeen'[d] > 0
  BY DEF HeldOK
<1>0. /\ pc \in [Senders -> Points] /\ ttlSeen \in [Senders -> Nat]
      /\ pc[d] = "probe" => ttlSeen[d] > 0
  BY DEF TypeInv, BreakerTypeOK, HeldOK
<1>1. CASE Tick \/ UNCHANGED vars
  BY <1>0, <1>1 DEF Tick, vars
<1>2. ASSUME NEW c \in Senders, Begin(c) \/ ResetCircuit(c) \/ Work(c)
      PROVE  ttlSeen'[d] > 0
  <2>1. CASE ReadTtl(c)
    <3>1. store.opened.ttl \in Nat /\ DefaultTtl \in Nat \ {0}
      BY BreakerAssumption DEF TypeInv, BreakerTypeOK, Opening
    <3>2. QED
      BY <3>1, <2>1, <1>0 DEF ReadTtl, Goto
  <2>2. CASE ~ReadTtl(c)
    <3>1. ttlSeen' = ttlSeen
      BY <2>2, <1>2 DEF Begin, ResetCircuit, Work, GetOpenedAt, GetFailures,
           SetOpenedAt, Send, SendFails, ReadOpenedAt, CountSuccess, ClearFailures,
           DelKey, Closed, WasReset, CountFailure, ResetSuccesses, RedisFails,
           DelFails, Post
    <3>2. pc'[d] = "probe" => pc[d] = "probe"
      BY <2>2, <1>2, <1>0 DEF Begin, ResetCircuit, Work, GetOpenedAt, GetFailures,
           SetOpenedAt, Send, SendFails, ReadOpenedAt, CountSuccess, ClearFailures,
           DelKey, Closed, WasReset, CountFailure, ResetSuccesses, RedisFails,
           DelFails, Post, Goto
    <3>3. QED
      BY <3>1, <3>2, <1>0
  <2>3. QED
    BY <2>1, <2>2
<1>3. QED
  BY <1>1, <1>2 DEF Next

LEMMA TypeInit == Init => TypeInv
BY BreakerAssumption DEF Init, TypeInv, BreakerTypeOK, HeldOK, Opening, Counter,
   NotOpened, Absent, Points

LEMMA TypeStep == TypeInv /\ [Next]_vars => TypeInv'
<1> SUFFICES ASSUME TypeInv, [Next]_vars PROVE TypeInv'
  OBVIOUS
<1>1. StoreOK(store') /\ HeldOK'
  BY StoreStep, HeldStep
<1> DEFINE Typed ==
      /\ pc' \in [Senders -> Points] /\ ttlSeen' \in [Senders -> Nat]
      /\ dels' \in [Senders -> SUBSET Keys]
      /\ bystanders' \subseteq Senders
      /\ failed' \in 0 .. MaxFailures /\ faults' \in 0 .. MaxFaults
<1>2. Typed
  <2>1. CASE Tick \/ UNCHANGED vars
    BY <2>1 DEF Tick, vars, TypeInv, BreakerTypeOK
  <2>2. ASSUME NEW c \in Senders, Begin(c) \/ ResetCircuit(c) \/ Work(c)
        PROVE  Typed
    <3>1. pc \in [Senders -> Points]
      BY DEF TypeInv, BreakerTypeOK
    <3>2. PICK p \in Points : pc' = [pc EXCEPT ![c] = p]
      BY <2>2, PcStep
    <3>3. pc' \in [Senders -> Points]
      BY <3>1, <3>2
    <3>4. QED
      BY <2>2, <3>3, SenderStep
  <2>3. QED
    BY <2>1, <2>2 DEF Next
<1>3. QED
  BY <1>1, <1>2 DEF TypeInv, BreakerTypeOK, StoreOK

\* Every variable keeps its type, and no counter is left without an expiry.
THEOREM BreakerTypeCorrect == Spec => []BreakerTypeOK
<1>1. TypeInv => BreakerTypeOK
  BY DEF TypeInv
<1>2. QED
  BY TypeInit, TypeStep, <1>1, PTL DEF Spec

-----------------------------------------------------------------------------
(* The cooldown *)

\* An opening that is fresh after a step was fresh before it, unless the step
\* is the one that opens the circuit.
LEMMA FreshComesFromOpening ==
    ASSUME TypeInv, NEW c \in Senders, Begin(c) \/ ResetCircuit(c) \/ Work(c),
           Fresh', ~ Fresh
    PROVE  pc[c] = "open" /\ store' = Applied(c)
<1>0. store \in [opened : Opening, failures : Counter, successes : Counter]
  BY DEF TypeInv, BreakerTypeOK
<1>1. \/ store' = store \/ store' = Applied(c)
      \/ \E k \in dels[c] : store' = Deleted(k)
  BY DEF Begin, ResetCircuit, Work, GetOpenedAt, GetFailures, SetOpenedAt,
       Send, SendFails, ReadOpenedAt, ReadTtl, CountSuccess, ClearFailures,
       DelKey, Closed, WasReset, CountFailure, ResetSuccesses, RedisFails,
       DelFails, Post
<1>2. ASSUME NEW k, store' = Deleted(k) PROVE FALSE
  BY <1>0, <1>2 DEF Deleted, Fresh, NotOpened
<1>3. CASE store' = Applied(c) /\ pc[c] # "open"
  <2>1. store'.opened = store.opened
    BY <1>0, <1>3 DEF Applied, Deleted, FailureCounted, SuccessCounted
  <2>2. QED
    BY <2>1 DEF Fresh
<1>4. store' # store
  BY DEF Fresh
<1>5. QED
  BY <1>1, <1>2, <1>3, <1>4

\* A step that opens the circuit notes who is past its check and ends its own
\* call, which never gets there.
LEMMA OpeningStep ==
    ASSUME TypeInv, NEW c \in Senders, Begin(c) \/ ResetCircuit(c) \/ Work(c),
           pc[c] = "open", store' # store
    PROVE  /\ bystanders' = {d \in Senders : Inside(d)} \/ DelKey(c)
           /\ DelKey(c) \/ pc' = [pc EXCEPT ![c] = "post"]
BY DEF Begin, ResetCircuit, Work, GetOpenedAt, GetFailures, SetOpenedAt,
       Send, SendFails, ReadOpenedAt, ReadTtl, CountSuccess, ClearFailures,
       DelKey, Closed, WasReset, CountFailure, ResetSuccesses, RedisFails,
       DelFails, Post, Goto, NoteOpening, Checking, Succeeding

\* In a fresh circuit nobody gets past a check.
LEMMA NobodyEnters ==
    ASSUME TypeInv, NEW c \in Senders, Begin(c) \/ ResetCircuit(c) \/ Work(c),
           Fresh, NEW d \in Senders, Inside(d)'
    PROVE  Inside(d) \/ (pc[d] = "open" /\ c = d)
<1>0. pc \in [Senders -> Points]
  BY DEF TypeInv, BreakerTypeOK
<1>1. CASE c # d
  <2>1. pc'[d] = pc[d]
    BY <1>0, <1>1, PcStep
  <2>2. QED
    BY <2>1 DEF Inside, Succeeding, Failing
<1>2. CASE c = d
  <2>1. CASE Begin(c) \/ ResetCircuit(c) \/ WasReset(c) \/ Post(c) \/ SetOpenedAt(c)
    BY <1>0, <1>2, <2>1 DEF Begin, ResetCircuit, WasReset, Post, SetOpenedAt, Goto,
         Inside, Succeeding, Failing
  <2>2. CASE GetOpenedAt(c)
    BY <1>0, <1>2, <2>2 DEF GetOpenedAt, Goto, Inside, Succeeding, Failing
  <2>3. CASE DelKey(c)
    BY <2>3 DEF DelKey, Inside, Succeeding, Failing
  <2>4. CASE RedisFails(c) \/ DelFails(c)
    BY <1>0, <1>2, <2>4 DEF RedisFails, DelFails, Goto, Inside, Checking, Succeeding,
         Failing
  <2>5. CASE \/ GetFailures(c) \/ Send(c) \/ SendFails(c) \/ ReadOpenedAt(c)
             \/ ReadTtl(c) \/ CountSuccess(c) \/ ClearFailures(c) \/ Closed(c)
             \/ CountFailure(c) \/ ResetSuccesses(c)
    BY <1>2, <2>5 DEF GetFailures, Send, SendFails, ReadOpenedAt, ReadTtl,
         CountSuccess, ClearFailures, Closed, CountFailure, ResetSuccesses, Inside,
         Succeeding, Failing
  <2>6. QED
    BY <2>1, <2>2, <2>3, <2>4, <2>5 DEF Work
<1>3. QED
  BY <1>1, <1>2

\* A bystander stays one until its call is over.
LEMMA BystandersStay ==
    ASSUME TypeInv, NEW c \in Senders, Begin(c) \/ ResetCircuit(c) \/ Work(c),
           NEW d \in bystanders, Inside(d), Inside(d)'
    PROVE  d \in bystanders'
<1>0. pc \in [Senders -> Points] /\ bystanders \subseteq Senders
  BY DEF TypeInv, BreakerTypeOK
<1>1. CASE Post(c)
  BY <1>0, <1>1 DEF Post, Goto, Inside, Succeeding, Failing
<1>2. CASE ~ Post(c)
  <2>1. bystanders' = bystanders \/ NoteOpening(c)
    BY <1>2 DEF Begin, ResetCircuit, Work, GetOpenedAt, GetFailures, SetOpenedAt, Send,
         SendFails, ReadOpenedAt, ReadTtl, CountSuccess, ClearFailures, DelKey, Closed,
         WasReset, CountFailure, ResetSuccesses, RedisFails, DelFails
  <2>2. QED
    BY <2>1, <1>0 DEF NoteOpening
<1>3. QED
  BY <1>1, <1>2

LEMMA CooldownStep == TypeInv /\ CooldownHolds /\ [Next]_vars => CooldownHolds'
<1> SUFFICES ASSUME TypeInv, CooldownHolds, [Next]_vars, Fresh',
                    NEW d \in Senders, Inside(d)'
             PROVE  d \in bystanders'
  BY DEF CooldownHolds
<1>0. /\ store \in [opened : Opening, failures : Counter, successes : Counter]
      /\ pc \in [Senders -> Points]
  BY DEF TypeInv, BreakerTypeOK
<1>1. CASE Tick
  <2>1. pc' = pc /\ bystanders' = bystanders
    BY <1>1 DEF Tick
  <2>2. store.opened \in Opening
    BY <1>0
  <2>3. Fresh
    <3>1. /\ store.opened.ttl > 1
          /\ store'.opened = [age |-> store.opened.age + 1, ttl |-> store.opened.ttl - 1]
      BY <1>1, <2>2 DEF Tick, Fresh, NotOpened, Opening
    <3>2. store.opened.age + 1 < CooldownSeconds
      BY <3>1 DEF Fresh
    <3>3. QED
      BY <3>1, <3>2, <2>2, BreakerAssumption DEF Fresh, Opening
  <2>4. QED
    BY <2>1, <2>3 DEF CooldownHolds, Inside
<1>2. ASSUME NEW c \in Senders, Begin(c) \/ ResetCircuit(c) \/ Work(c)
      PROVE  d \in bystanders'
  <2>1. CASE ~ Fresh
    <3>1. pc[c] = "open" /\ store' = Applied(c)
      BY <1>2, <2>1, FreshComesFromOpening
    <3>2. store' # store
      BY <2>1 DEF Fresh
    <3>3. ~ DelKey(c)
      <4>1. SUFFICES ASSUME NEW k, store' = Deleted(k) PROVE FALSE
        BY DEF DelKey
      <4>2. QED
        BY <4>1, <2>1, <1>0 DEF Deleted, Fresh, NotOpened
    <3>4. bystanders' = {e \in Senders : Inside(e)} /\ pc' = [pc EXCEPT ![c] = "post"]
      BY <1>2, <3>1, <3>2, <3>3, OpeningStep
    <3>5. d # c
      BY <3>4, <1>0 DEF Inside, Succeeding, Failing
    <3>6. Inside(d)
      BY <3>4, <3>5, <1>0 DEF Inside
    <3>7. QED
      BY <3>4, <3>6
  <2>2. CASE Fresh
    <3>1. ~ (pc[d] = "open" /\ c = d)
      <4>1. SUFFICES ASSUME pc[d] = "open", c = d PROVE FALSE
        OBVIOUS
      <4>2. pc'[d] \in {"open", "post"}
        BY <1>2, <4>1, <1>0 DEF Begin, ResetCircuit, Work, GetOpenedAt,
             GetFailures, SetOpenedAt, Send, SendFails, ReadOpenedAt, ReadTtl,
             CountSuccess, ClearFailures, DelKey, Closed, WasReset, CountFailure,
             ResetSuccesses, RedisFails, DelFails, Post, Goto, Succeeding
      <4>3. QED
        BY <4>2 DEF Inside, Succeeding, Failing
    <3>2. Inside(d)
      BY <1>2, <2>2, <3>1, NobodyEnters
    <3>3. d \in bystanders
      BY <3>2, <2>2 DEF CooldownHolds
    <3>4. QED
      BY <1>2, <3>2, <3>3, BystandersStay
  <2>3. QED
    BY <2>1, <2>2
<1>3. CASE UNCHANGED vars
  BY <1>3 DEF vars, CooldownHolds, Fresh, Inside
<1>4. QED
  BY <1>1, <1>2, <1>3 DEF Next

\* Whatever the senders inside do to the keys, and whichever commands fail:
\* nobody whose check begins after the circuit opened is let through before
\* its cooldown has passed.
THEOREM CooldownIsKept == Spec => []CooldownHolds
<1>1. Init => CooldownHolds
  BY DEF Init, CooldownHolds, Fresh, NotOpened
<1>2. QED
  BY TypeInit, TypeStep, CooldownStep, <1>1, PTL DEF Spec

-----------------------------------------------------------------------------
(* Opening on evidence *)

\* Senders whose failure is not counted yet.
Uncounted == {c \in Senders : pc[c] = "failure"}

\* Each failure is counted once at most: the count and the failures still to
\* be counted are covered by those that happened.
Covered ==
    /\ store.failures.n + Cardinality(Uncounted) <= failed + faults
    /\ \A c \in Senders : pc[c] = "open" => failed + faults >= FailureThreshold
    /\ OpensOnFailures

LEMMA UncountedFinite == IsFiniteSet(Uncounted) /\ Cardinality(Uncounted) \in Nat
<1>1. IsFiniteSet(Uncounted)
  BY BreakerAssumption, FS_Subset DEF Uncounted
<1>2. QED
  BY <1>1, FS_CardinalityType

LEMMA UncountedNext == Cardinality(Uncounted') \in Nat
<1>1. IsFiniteSet(Uncounted')
  BY BreakerAssumption, FS_Subset DEF Uncounted
<1>2. QED
  BY <1>1, FS_CardinalityType

LEMMA UncountedMoves ==
    ASSUME pc \in [Senders -> Points], NEW c \in Senders, NEW p,
           pc' = [pc EXCEPT ![c] = p]
    PROVE  /\ p = "failure" => \/ Cardinality(Uncounted') = Cardinality(Uncounted)
                               \/ Cardinality(Uncounted') = Cardinality(Uncounted) + 1
           /\ p # "failure" /\ pc[c] # "failure" =>
                Cardinality(Uncounted') = Cardinality(Uncounted)
           /\ p # "failure" /\ pc[c] = "failure" =>
                Cardinality(Uncounted') + 1 = Cardinality(Uncounted)
<1>0. Cardinality(Uncounted) \in Nat
  BY UncountedFinite
<1>1. CASE p = "failure" /\ pc[c] # "failure"
  <2>1. Uncounted' = Uncounted \cup {c} /\ c \notin Uncounted
    BY <1>1 DEF Uncounted
  <2>2. Cardinality(Uncounted \cup {c}) = Cardinality(Uncounted) + 1
    BY <2>1, UncountedFinite, FS_AddElement
  <2>3. QED
    BY <2>1, <2>2, <1>1
<1>2. CASE p # "failure" /\ pc[c] = "failure"
  <2>1. Uncounted' = Uncounted \ {c} /\ c \in Uncounted
    BY <1>2 DEF Uncounted
  <2>2. Cardinality(Uncounted \ {c}) = Cardinality(Uncounted) - 1
    BY <2>1, UncountedFinite, FS_RemoveElement
  <2>3. Cardinality(Uncounted') = Cardinality(Uncounted) - 1
    BY <2>1, <2>2
  <2>4. QED
    BY <2>3, <1>2, <1>0
<1>3. CASE (p = "failure") = (pc[c] = "failure")
  <2>1. Uncounted' = Uncounted
    BY <1>3 DEF Uncounted
  <2>2. QED
    BY <2>1, <1>3
<1>4. QED
  BY <1>1, <1>2, <1>3

\* What a sender's step adds to the count, to the failures and to the senders
\* that still have to count theirs.
LEMMA SenderCovered ==
    ASSUME TypeInv, Covered, NEW c \in Senders,
           Begin(c) \/ ResetCircuit(c) \/ Work(c)
    PROVE  /\ store'.failures.n + Cardinality(Uncounted') <= failed' + faults'
           /\ failed' + faults' >= failed + faults
<1>0. /\ store \in [opened : Opening, failures : Counter, successes : Counter]
      /\ pc \in [Senders -> Points] /\ failed \in Nat /\ faults \in Nat
      /\ store.failures.n \in Nat /\ Cardinality(Uncounted) \in Nat
      /\ store.failures.n + Cardinality(Uncounted) <= failed + faults
  BY BreakerAssumption, UncountedFinite DEF TypeInv, BreakerTypeOK, Covered, Counter
<1>n. /\ failed \in Nat /\ faults \in Nat
      /\ store.failures.n \in Nat /\ Cardinality(Uncounted) \in Nat
      /\ store.failures.n + Cardinality(Uncounted) <= failed + faults
  BY <1>0
<1>1. CASE SendFails(c)
  <2>1. /\ store' = store /\ failed' = failed + 1 /\ faults' = faults
        /\ pc[c] = "send" /\ pc' = [pc EXCEPT ![c] = "failure"]
    BY <1>1 DEF SendFails, Goto
  <2>2. PICK p : p = "failure" /\ pc' = [pc EXCEPT ![c] = p]
    BY <2>1
  <2>3. \/ Cardinality(Uncounted') = Cardinality(Uncounted)
        \/ Cardinality(Uncounted') = Cardinality(Uncounted) + 1
    BY <2>2, <1>0, UncountedMoves
  <2>4. QED
    BY <1>n, <2>1, <2>3
<1>2. CASE CountFailure(c)
  <2>1. /\ store' = FailureCounted /\ failed' = failed /\ faults' = faults
        /\ pc[c] = "failure" /\ pc' = [pc EXCEPT ![c] = "resetSuccesses"]
    BY <1>2 DEF CountFailure, Goto, Applied
  <2>2. PICK p : p = "resetSuccesses" /\ pc' = [pc EXCEPT ![c] = p]
    BY <2>1
  <2>3. Cardinality(Uncounted') + 1 = Cardinality(Uncounted)
    BY <2>1, <2>2, <1>0, UncountedMoves
  <2>4. store'.failures.n = store.failures.n + 1
    BY <2>1, <1>0 DEF FailureCounted
  <2>5. Cardinality(Uncounted') \in Nat
    BY UncountedNext
  <2>6. QED
    BY <1>n, <2>1, <2>3, <2>4, <2>5
<1>3. CASE RedisFails(c)
  <2>1. PICK p \in {"failure", "post"} :
          /\ pc' = [pc EXCEPT ![c] = p]
          /\ p = "failure" => pc[c] \in Succeeding
    BY <1>3 DEF RedisFails, Goto
  <2>2. failed' = failed /\ faults' = faults + 1 /\ (store' = store \/ store' = Applied(c))
    BY <1>3 DEF RedisFails
  <2>3. CASE pc[c] = "failure"
    <3>1. p = "post"
      BY <2>1, <2>3 DEF Succeeding
    <3>2. Cardinality(Uncounted') + 1 = Cardinality(Uncounted)
      BY <2>1, <2>3, <3>1, <1>0, UncountedMoves
    <3>3. store'.failures.n \in {store.failures.n, store.failures.n + 1}
      BY <2>2, <2>3, <1>0 DEF Applied, FailureCounted
    <3>4. Cardinality(Uncounted') \in Nat
      BY UncountedNext
    <3>5. QED
      BY <1>n, <2>2, <3>2, <3>3, <3>4
  <2>4. CASE pc[c] # "failure"
    <3>1. \/ Cardinality(Uncounted') = Cardinality(Uncounted)
          \/ Cardinality(Uncounted') = Cardinality(Uncounted) + 1
      BY <2>1, <2>4, <1>0, UncountedMoves
    <3>2. store'.failures.n \in {store.failures.n, 0}
      BY <2>2, <2>4, <1>0 DEF Applied, Opened, Deleted, SuccessCounted, Absent
    <3>3. QED
      BY <1>0, <2>2, <3>1, <3>2
  <2>5. QED
    BY <2>3, <2>4
<1>4. CASE DelFails(c)
  <2>1. PICK p \in {"failure", "idle"} : pc' = [pc EXCEPT ![c] = p]
    BY <1>4 DEF DelFails, Goto
  <2>2. /\ store' = store /\ failed' = failed /\ faults' = faults + 1
        /\ pc[c] # "failure"
    BY <1>4 DEF DelFails
  <2>3. \/ Cardinality(Uncounted') = Cardinality(Uncounted)
          \/ Cardinality(Uncounted') = Cardinality(Uncounted) + 1
    BY <2>1, <2>2, <1>0, UncountedMoves
  <2>4. QED
    BY <1>0, <2>2, <2>3
<1>5. CASE DelKey(c)
  <2>1. Uncounted' = Uncounted /\ failed' = failed /\ faults' = faults
    BY <1>5 DEF DelKey, Uncounted
  <2>2. store'.failures.n \in {store.failures.n, 0}
    BY <1>5, <1>0 DEF DelKey, Deleted, Absent
  <2>3. QED
    BY <1>0, <2>1, <2>2
<1>6. CASE \/ Begin(c) \/ ResetCircuit(c) \/ GetOpenedAt(c) \/ GetFailures(c)
           \/ SetOpenedAt(c) \/ Send(c) \/ ReadOpenedAt(c) \/ ReadTtl(c)
           \/ CountSuccess(c) \/ ClearFailures(c) \/ Closed(c) \/ WasReset(c)
           \/ ResetSuccesses(c) \/ Post(c)
  <2>1. /\ pc[c] # "failure" /\ failed' = failed /\ faults' = faults
        /\ store' = store \/ store' = Applied(c)
    BY <1>6 DEF Begin, ResetCircuit, GetOpenedAt, GetFailures, SetOpenedAt, Send,
         ReadOpenedAt, ReadTtl, CountSuccess, ClearFailures, Closed, WasReset,
         ResetSuccesses, Post
  <2>2. PICK p : pc' = [pc EXCEPT ![c] = p] /\ p # "failure"
    BY <1>6 DEF Begin, ResetCircuit, GetOpenedAt, GetFailures, SetOpenedAt, Send,
         ReadOpenedAt, ReadTtl, CountSuccess, ClearFailures, Closed, WasReset,
         ResetSuccesses, Post, Goto
  <2>3. Cardinality(Uncounted') = Cardinality(Uncounted)
    BY <2>1, <2>2, <1>0, UncountedMoves
  <2>4. store'.failures.n \in {store.failures.n, 0}
    BY <2>1, <1>0 DEF Applied, Opened, Deleted, SuccessCounted, Absent
  <2>5. QED
    BY <1>0, <2>1, <2>3, <2>4
<1>7. QED
  BY <1>1, <1>2, <1>3, <1>4, <1>5, <1>6 DEF Work

LEMMA Exceeds ==
    ASSUME NEW a \in Nat, NEW b \in Nat, NEW t \in Nat, a >= t, b >= a
    PROVE  b >= t
  OBVIOUS

\* A sender opens the circuit only with a count that reached the threshold.
LEMMA SenderOpens ==
    ASSUME TypeInv, Covered, NEW c \in Senders,
           Begin(c) \/ ResetCircuit(c) \/ Work(c)
    PROVE  /\ \A d \in Senders : pc'[d] = "open" => failed' + faults' >= FailureThreshold
           /\ store'.opened.ttl > 0 => failed' + faults' >= FailureThreshold
<1>0. /\ store \in [opened : Opening, failures : Counter, successes : Counter]
      /\ pc \in [Senders -> Points] /\ failed \in Nat /\ faults \in Nat
      /\ failed' \in Nat /\ faults' \in Nat
      /\ store.failures.n \in Nat /\ Cardinality(Uncounted) \in Nat
      /\ store.failures.n + Cardinality(Uncounted) <= failed + faults
      /\ FailureThreshold \in Nat
  BY BreakerAssumption, UncountedFinite, SenderStep
     DEF TypeInv, BreakerTypeOK, Covered, Counter
<1>1. ASSUME failed + faults >= FailureThreshold
      PROVE  failed' + faults' >= FailureThreshold
  <2>1. failed' + faults' >= failed + faults
    BY SenderCovered
  <2> DEFINE a == failed + faults
             b == failed' + faults'
  <2>2. a \in Nat /\ b \in Nat /\ FailureThreshold \in Nat
    <3>1. failed \in Nat /\ faults \in Nat
      BY <1>0
    <3>2. failed' \in Nat /\ faults' \in Nat
      BY <1>0
    <3>3. a \in Nat
      BY <3>1
    <3>4. b \in Nat
      <4>1. PICK f \in Nat, g \in Nat : failed' = f /\ faults' = g
        BY <3>2
      <4>2. f + g \in Nat
        OBVIOUS
      <4>3. QED
        BY <4>1, <4>2
    <3>5. QED
      BY <3>3, <3>4, <1>0
  <2>3. a >= FailureThreshold /\ b >= a
    BY <1>1, <2>1
  <2> HIDE DEF a, b
  <2>4. b >= FailureThreshold
    BY <2>2, <2>3, Exceeds
  <2>5. QED
    BY <2>4 DEF b
<1>2. ASSUME NEW d \in Senders, pc'[d] = "open"
      PROVE  failed' + faults' >= FailureThreshold
  <2>1. CASE pc[d] = "open"
    BY <2>1, <1>1 DEF Covered
  <2>2. CASE pc[d] # "open"
    <3>1. GetFailures(d) /\ store.failures.n >= FailureThreshold
      BY <1>2, <2>2, <1>0 DEF Begin, ResetCircuit, Work, GetOpenedAt, GetFailures,
           SetOpenedAt, Send, SendFails, ReadOpenedAt, ReadTtl, CountSuccess,
           ClearFailures, DelKey, Closed, WasReset, CountFailure, ResetSuccesses,
           RedisFails, DelFails, Post, Goto
    <3>2. failed + faults >= FailureThreshold
      BY <3>1, <1>0
    <3>3. QED
      BY <3>2, <1>1
  <2>3. QED
    BY <2>1, <2>2
<1>3. ASSUME store'.opened.ttl > 0
      PROVE  failed' + faults' >= FailureThreshold
  <2>1. \/ store' = store \/ store' = Applied(c)
        \/ \E k \in dels[c] : store' = Deleted(k)
    BY DEF Begin, ResetCircuit, Work, GetOpenedAt, GetFailures, SetOpenedAt,
         Send, SendFails, ReadOpenedAt, ReadTtl, CountSuccess, ClearFailures,
         DelKey, Closed, WasReset, CountFailure, ResetSuccesses, RedisFails,
         DelFails, Post
  <2>2. store.opened.ttl > 0 \/ pc[c] = "open"
    BY <2>1, <1>3, <1>0 DEF Applied, Deleted, FailureCounted, SuccessCounted, NotOpened
  <2>3. failed + faults >= FailureThreshold
    BY <2>2 DEF Covered, OpensOnFailures
  <2>4. QED
    BY <2>3, <1>1
<1>4. QED
  BY <1>2, <1>3

LEMMA CoveredStep == TypeInv /\ Covered /\ [Next]_vars => Covered'
<1> SUFFICES ASSUME TypeInv, Covered, [Next]_vars PROVE Covered'
  OBVIOUS
<1>1. CASE Tick
  <2>0. /\ store \in [opened : Opening, failures : Counter, successes : Counter]
        /\ failed \in Nat /\ faults \in Nat /\ Cardinality(Uncounted) \in Nat
        /\ store.failures.n \in Nat /\ store.opened.ttl \in Nat
    BY BreakerAssumption, UncountedFinite
       DEF TypeInv, BreakerTypeOK, Counter, Opening
  <2>1. pc' = pc /\ failed' = failed /\ faults' = faults /\ Uncounted' = Uncounted
    BY <1>1 DEF Tick, Uncounted
  <2>2. store'.failures.n \in {store.failures.n, 0}
    BY <1>1, <2>0 DEF Tick, CountDown, Counter, Absent
  <2>3. store'.opened.ttl > 0 => store.opened.ttl > 0
    BY <1>1, <2>0 DEF Tick, NotOpened
  <2>4. QED
    BY <2>0, <2>1, <2>2, <2>3 DEF Covered, OpensOnFailures
<1>2. ASSUME NEW c \in Senders, Begin(c) \/ ResetCircuit(c) \/ Work(c)
      PROVE  Covered'
  BY <1>2, SenderCovered, SenderOpens DEF Covered, OpensOnFailures
<1>3. CASE UNCHANGED vars
  BY <1>3 DEF vars, Covered, OpensOnFailures, Uncounted
<1>4. QED
  BY <1>1, <1>2, <1>3 DEF Next

LEMMA CoveredInit == Init => Covered
<1> SUFFICES ASSUME Init PROVE Covered
  OBVIOUS
<1>1. Uncounted = {}
  BY DEF Init, Uncounted
<1>2. Cardinality(Uncounted) = 0
  BY <1>1, FS_EmptySet
<1>3. QED
  BY <1>2 DEF Init, Covered, OpensOnFailures, Absent, NotOpened

\* The circuit opens only after as many thrown calls, or Redis errors taken
\* for them, as the threshold says: no interleaving counts one twice.
THEOREM OpeningNeedsFailures == Spec => []OpensOnFailures
<1>1. Covered => OpensOnFailures
  BY DEF Covered
<1>2. QED
  BY TypeInit, TypeStep, CoveredInit, CoveredStep, <1>1, PTL DEF Spec

=============================================================================
