-------------------------- MODULE AgentConfigProofs --------------------------
(***************************************************************************)
(* Proofs about AgentConfig, for any agents, updates and requests: once    *)
(* the tag was bumped a first time, a request that begins after an         *)
(* invalidation never gets what the invalidation was about.                *)
(***************************************************************************)
EXTENDS AgentConfig, TLAPS

Key(r) == <<agentOf[r], keyVersion[r]>>

\* Requests whose cache key is chosen.
Keyed(r) == reading[r] \in {"lookup", "load", "store", "done"}

\* Nothing is reported as invalidated that the row does not have.
RowsAhead ==
    /\ \A a \in Agents : invalidated[a] <= row[a]
    /\ \A u \in Updates : written[u] <= row[agentOf[u]]

\* What is cached, or about to be, under the current version is as new as the
\* last invalidation: no invalidation leaves the version as it was.
CurrentIsFresh ==
    /\ \A e \in cache :
          /\ e.version <= counter
          /\ e.version = counter => invalidated[e.agent] <= e.config
    /\ \A q \in Requests :
          reading[q] = "store" /\ keyVersion[q] = counter =>
              invalidated[agentOf[q]] <= config[q]

\* A request's key is never ahead of the tag, nor its floor ahead of the
\* invalidations.
KeysBehind ==
    \A r \in Requests : Keyed(r) =>
        /\ keyVersion[r] <= counter
        /\ floor[r] <= invalidated[agentOf[r]]

\* Whatever is under a request's key, or about to be stored there by some other
\* request, is new enough for it; so is what it has got itself.
KeyIsFresh ==
    \A r \in Requests : Keyed(r) =>
        /\ \A e \in EntryOf(r, keyVersion[r]) : floor[r] <= e.config
        /\ \A q \in Requests :
              reading[q] = "store" /\ Key(q) = Key(r) => floor[r] <= config[q]
        /\ reading[r] \in {"store", "done"} => floor[r] <= config[r]

FreshInv ==
    /\ counter > 0
    /\ RowsAhead
    /\ CurrentIsFresh
    /\ KeysBehind
    /\ KeyIsFresh


-----------------------------------------------------------------------------
(* What the helpers do, pointwise *)

\* The agent of an update or a request is an agent.
LEMMA AgentOfAgent == \A x \in Updates \cup Requests : agentOf[x] \in Agents
BY AgentConfigConstants

\* StepRead moves one request and no other.
LEMMA StepReadPoint ==
    ASSUME ConfigTypeOK, NEW r \in Requests, NEW from, NEW to, StepRead(r, from, to)
    PROVE  /\ reading[r] = from
           /\ \A q \in Requests : reading'[q] = IF q = r THEN to ELSE reading[q]
BY DEF ConfigTypeOK, StepRead

\* WriteRow makes one row newer, and notes its serial for one update.
LEMMA WriteRowPoint ==
    ASSUME ConfigTypeOK, NEW u \in Updates, WriteRow(u)
    PROVE  /\ \A a \in Agents :
                 row'[a] = IF a = agentOf[u] THEN row[a] + 1 ELSE row[a]
           /\ \A v \in Updates :
                 written'[v] = IF v = u THEN row[agentOf[u]] + 1 ELSE written[v]
BY AgentOfAgent DEF ConfigTypeOK, WriteRow

\* The tag's version is a number, and the counter once it counts.
LEMMA TagVersionType ==
    ASSUME ConfigTypeOK
    PROVE  TagVersion \in Nat /\ (counter > 0 => TagVersion = counter)
BY DEF ConfigTypeOK, TagVersion

\* PutEntry adds one entry at most.
LEMMA PutEntryPoint ==
    ASSUME ConfigTypeOK, NEW r \in Requests, NEW version \in Nat, PutEntry(r, version)
    PROVE  /\ cache' \subseteq Entries
           /\ \A e \in cache' :
                 \/ e \in cache
                 \/ e.agent = agentOf[r] /\ e.version = version /\ e.config = config[r]
<1>1. [agent |-> agentOf[r], version |-> version, config |-> config[r]] \in Entries
  BY AgentOfAgent DEF ConfigTypeOK, Entries
<1>2. cache' \subseteq Entries
  BY <1>1 DEF ConfigTypeOK, PutEntry
<1>3. QED
  BY <1>2 DEF PutEntry

-----------------------------------------------------------------------------
(* Types *)

\* Updates keep the types.
LEMMA UpdateKeepsType ==
    ASSUME ConfigTypeOK, NEW u \in Updates, Update(u)
    PROVE  ConfigTypeOK'
<1>1. CASE Upsert(u)
  BY <1>1, AgentOfAgent DEF Upsert, StepUpdate, WriteRow, ConfigTypeOK, readVars
<1>2. CASE UpsertFails(u)
  BY <1>2, AgentOfAgent DEF UpsertFails, StepUpdate, WriteRow, ConfigTypeOK, readVars
<1>3. CASE Invalidate(u)
  BY <1>3, AgentOfAgent DEF Invalidate, StepUpdate, BumpTag, ConfigTypeOK, readVars
<1>4. CASE InvalidateFails(u)
  BY <1>4 DEF InvalidateFails, StepUpdate, BumpTag, ConfigTypeOK, readVars
<1>5. QED
  BY <1>1, <1>2, <1>3, <1>4 DEF Update

\* Requests keep the types.
LEMMA ResolveKeepsType ==
    ASSUME ConfigTypeOK, NEW r \in Requests, Resolve(r)
    PROVE  ConfigTypeOK'
<1> USE DEF StepRead, ConfigTypeOK, updateVars
<1>1. CASE VersionedKey(r)
  BY <1>1, AgentOfAgent, TagVersionType DEF VersionedKey
<1>2. CASE Hit(r)
  <2>1. PICK e \in EntryOf(r, keyVersion[r]) : config' = [config EXCEPT ![r] = e.config]
    BY <1>2 DEF Hit
  <2>2. e.config \in Nat
    BY <2>1 DEF EntryOf, Entries
  <2>3. QED
    BY <1>2, <2>1, <2>2 DEF Hit
<1>3. CASE Miss(r)
  BY <1>3 DEF Miss
<1>4. CASE Load(r)
  BY <1>4, AgentOfAgent DEF Load
<1>5. CASE Store(r)
  BY <1>5, PutEntryPoint DEF Store
<1>6. CASE ReadFails(r)
  BY <1>6 DEF ReadFails
<1>7. QED
  BY <1>1, <1>2, <1>3, <1>4, <1>5, <1>6 DEF Resolve

\* Every variable of the configuration cache keeps its type: the cache keys are
\* numbered from the counter, whatever bumps fail.
THEOREM ConfigTypeCorrect == Spec => []ConfigTypeOK
<1>1. Init => ConfigTypeOK
  BY AgentConfigConstants DEF Init, ConfigTypeOK
<1>2. ConfigTypeOK /\ [Next]_vars => ConfigTypeOK'
  <2> SUFFICES ASSUME ConfigTypeOK, [Next]_vars PROVE ConfigTypeOK'
    OBVIOUS
  <2>1. CASE Expire
    BY <2>1 DEF Expire, ConfigTypeOK, updateVars, readVars
  <2>2. CASE UNCHANGED vars
    BY <2>2 DEF vars, ConfigTypeOK, updateVars, readVars
  <2>3. QED
    BY <2>1, <2>2, UpdateKeepsType, ResolveKeepsType DEF Next
<1>3. QED
  BY <1>1, <1>2, PTL DEF Spec

-----------------------------------------------------------------------------
(* Freshness *)

\* Once the tag was bumped, every initial state is fresh.
LEMMA FreshAtFirst == InitialVersion # 0 /\ Init => FreshInv
<1> SUFFICES ASSUME InitialVersion # 0, Init PROVE FreshInv
  OBVIOUS
<1>1. counter > 0
  BY AgentConfigConstants DEF Init
<1>2. RowsAhead
  <2>1. row \in [Agents -> {0, 1}]
    BY DEF Init
  <2>2. \A a \in Agents : row[a] \in {0, 1} /\ invalidated[a] = 0
    BY <2>1 DEF Init
  <2>3. \A u \in Updates : written[u] = 0 /\ agentOf[u] \in Agents
    BY AgentOfAgent DEF Init
  <2>4. QED
    BY <2>2, <2>3 DEF RowsAhead
<1>3. \A r \in Requests : reading[r] = "key"
  BY DEF Init
<1>4. cache = {}
  BY DEF Init
<1>5. QED
  BY <1>1, <1>2, <1>3, <1>4
  DEF FreshInv, CurrentIsFresh, KeysBehind, KeyIsFresh, Keyed

\* A step of an update: either the version stays and nothing is invalidated, or
\* the version is a new one, under which nothing is cached yet.
LEMMA BumpKeepsFresh ==
    ASSUME ConfigTypeOK, FreshInv, RowsAhead', UNCHANGED <<cache, readVars>>,
           \/ UNCHANGED <<counter, invalidated>>
           \/ /\ counter' = counter + 1
              /\ \A a \in Agents : invalidated'[a] \in Nat /\ invalidated[a] <= invalidated'[a]
    PROVE  FreshInv'
<1>1. counter' > 0 /\ counter <= counter'
  BY DEF ConfigTypeOK, FreshInv
<1>2. CurrentIsFresh'
  <2>1. CASE UNCHANGED <<counter, invalidated>>
    BY <2>1 DEF FreshInv, CurrentIsFresh, readVars
  <2>2. CASE counter' = counter + 1
    <3>1. \A e \in cache : e.version \in Nat /\ e.version <= counter
      BY DEF FreshInv, CurrentIsFresh, ConfigTypeOK, Entries
    <3>2. \A e \in cache' : e.version <= counter' /\ e.version # counter'
      BY <2>2, <3>1 DEF ConfigTypeOK
    <3>3. \A q \in Requests : reading[q] = "store" => keyVersion[q] <= counter
      BY DEF FreshInv, KeysBehind, Keyed
    <3>4. \A q \in Requests : reading'[q] = "store" => keyVersion'[q] # counter'
      BY <2>2, <3>3 DEF ConfigTypeOK, readVars
    <3>5. QED
      BY <3>2, <3>4 DEF CurrentIsFresh
  <2>3. QED
    BY <2>1, <2>2
<1>3. KeysBehind'
  <2>1. \A r \in Requests : Keyed(r)' <=> Keyed(r)
    BY DEF Keyed, readVars
  <2>2. \A r \in Requests :
           /\ agentOf[r] \in Agents
           /\ keyVersion[r] \in Nat
           /\ floor[r] \in Nat
           /\ invalidated[agentOf[r]] \in Nat
    BY AgentOfAgent DEF ConfigTypeOK
  <2>3. \A a \in Agents : invalidated[a] <= invalidated'[a] /\ invalidated'[a] \in Nat
    BY DEF ConfigTypeOK
  <2>4. SUFFICES ASSUME NEW r \in Requests, Keyed(r)
                 PROVE  keyVersion'[r] <= counter' /\ floor'[r] <= invalidated'[agentOf[r]]
    BY <2>1 DEF KeysBehind
  <2>5. keyVersion[r] <= counter /\ floor[r] <= invalidated[agentOf[r]]
    BY <2>4 DEF FreshInv, KeysBehind
  <2>6. counter \in Nat /\ counter' \in Nat
    BY DEF ConfigTypeOK
  <2>7. QED
    BY <1>1, <2>2, <2>3, <2>5, <2>6 DEF readVars
<1>4. KeyIsFresh'
  BY DEF FreshInv, KeyIsFresh, Keyed, Key, EntryOf, readVars
<1>5. QED
  BY <1>1, <1>2, <1>3, <1>4 DEF FreshInv

\* Writing a row, or not, invalidates nothing.
LEMMA WritesKeepRowsAhead ==
    ASSUME ConfigTypeOK, RowsAhead, NEW u \in Updates, UNCHANGED invalidated,
           WriteRow(u) \/ UNCHANGED <<row, written>>
    PROVE  RowsAhead'
<1>1. CASE WriteRow(u)
  <2>1. /\ \A a \in Agents : row[a] \in Nat /\ invalidated[a] \in Nat
        /\ \A v \in Updates : written[v] \in Nat /\ agentOf[v] \in Agents
    BY AgentOfAgent DEF ConfigTypeOK
  <2>2. QED
    BY <1>1, <2>1, WriteRowPoint DEF RowsAhead
<1>2. CASE UNCHANGED <<row, written>>
  BY <1>2 DEF RowsAhead
<1>3. QED
  BY <1>1, <1>2

\* Updates keep the cache fresh.
LEMMA UpdateKeepsFresh ==
    ASSUME ConfigTypeOK, FreshInv, NEW u \in Updates, Update(u)
    PROVE  FreshInv'
<1>1. RowsAhead
  BY DEF FreshInv
<1>2. CASE Upsert(u) \/ UpsertFails(u)
  <2>1. UNCHANGED <<counter, cache, invalidated, readVars>>
    BY <1>2 DEF Upsert, UpsertFails
  <2>2. WriteRow(u) \/ UNCHANGED <<row, written>>
    BY <1>2 DEF Upsert, UpsertFails
  <2>3. QED
    BY <1>1, <2>1, <2>2, WritesKeepRowsAhead, BumpKeepsFresh
<1>3. CASE Invalidate(u)
  <2>1. /\ \A a \in Agents : row[a] \in Nat /\ invalidated[a] \in Nat
        /\ \A v \in Updates : written[v] \in Nat /\ agentOf[v] \in Agents
    BY AgentOfAgent DEF ConfigTypeOK
  <2>2. \A a \in Agents :
           invalidated'[a] = IF a = agentOf[u] /\ written[u] > invalidated[a]
                             THEN written[u] ELSE invalidated[a]
    BY <1>3, <2>1 DEF Invalidate, ConfigTypeOK
  <2>3. RowsAhead'
    BY <1>1, <1>3, <2>1, <2>2 DEF RowsAhead, Invalidate
  <2>4. \A a \in Agents : invalidated'[a] \in Nat /\ invalidated[a] <= invalidated'[a]
    BY <2>1, <2>2
  <2>5. QED
    BY <1>3, <2>3, <2>4, BumpKeepsFresh DEF Invalidate, BumpTag
<1>4. CASE InvalidateFails(u)
  <2>1. RowsAhead'
    BY <1>1, <1>4 DEF RowsAhead, InvalidateFails
  <2>2. \A a \in Agents : invalidated'[a] \in Nat /\ invalidated[a] <= invalidated'[a]
    BY <1>4 DEF InvalidateFails, ConfigTypeOK
  <2>3. QED
    BY <1>4, <2>1, <2>2, BumpKeepsFresh DEF InvalidateFails, BumpTag
<1>5. QED
  BY <1>2, <1>3, <1>4 DEF Update

\* A request takes its key: all that is under the current version, or will be, is
\* as new as the last invalidation, which is its floor.
LEMMA VersionedKeyKeepsFresh ==
    ASSUME ConfigTypeOK, FreshInv, NEW r \in Requests, VersionedKey(r)
    PROVE  FreshInv'
<1>1. \A q \in Requests : /\ reading'[q] = IF q = r THEN "lookup" ELSE reading[q]
                          /\ keyVersion'[q] = IF q = r THEN counter ELSE keyVersion[q]
                          /\ floor'[q] = IF q = r THEN invalidated[agentOf[r]] ELSE floor[q]
                          /\ config'[q] = config[q]
  BY StepReadPoint, TagVersionType DEF VersionedKey, ConfigTypeOK, FreshInv
<1>2. reading[r] = "key"
  BY StepReadPoint DEF VersionedKey
<1>3. UNCHANGED <<row, counter, cache, written, invalidated>>
  BY DEF VersionedKey, updateVars
<1>4. counter \in Nat /\ invalidated[agentOf[r]] \in Nat
  BY AgentOfAgent DEF ConfigTypeOK
<1>5. CurrentIsFresh'
  BY <1>1, <1>3 DEF FreshInv, CurrentIsFresh
<1>6. KeysBehind'
  BY <1>1, <1>3, <1>4 DEF FreshInv, KeysBehind, Keyed
<1>7. KeyIsFresh'
  <2> SUFFICES ASSUME NEW x \in Requests, Keyed(x)'
               PROVE  /\ \A e \in EntryOf(x, keyVersion[x])' : floor'[x] <= e.config
                      /\ \A q \in Requests :
                            reading'[q] = "store" /\ Key(q)' = Key(x)' => floor'[x] <= config'[q]
                      /\ reading'[x] \in {"store", "done"} => floor'[x] <= config'[x]
    BY DEF KeyIsFresh
  <2>1. CASE x = r
    <3>1. \A e \in EntryOf(r, keyVersion[r])' : e \in cache /\ e.agent = agentOf[r] /\ e.version = counter
      BY <1>1, <1>3 DEF EntryOf
    <3>2. \A q \in Requests : reading'[q] = "store" /\ Key(q)' = Key(r)' =>
             reading[q] = "store" /\ keyVersion[q] = counter /\ agentOf[q] = agentOf[r]
      BY <1>1 DEF Key
    <3>3. QED
      BY <2>1, <1>1, <3>1, <3>2 DEF FreshInv, CurrentIsFresh
  <2>2. CASE x # r
    <3>1. Keyed(x)
      BY <1>1, <2>2 DEF Keyed
    <3>2. EntryOf(x, keyVersion[x])' = EntryOf(x, keyVersion[x])
      BY <1>1, <1>3, <2>2 DEF EntryOf
    <3>3. \A q \in Requests : reading'[q] = "store" /\ Key(q)' = Key(x)' =>
             reading[q] = "store" /\ Key(q) = Key(x)
      BY <1>1, <2>2 DEF Key
    <3>4. QED
      BY <1>1, <2>2, <3>1, <3>2, <3>3 DEF FreshInv, KeyIsFresh
  <2>3. QED
    BY <2>1, <2>2
<1>8. RowsAhead' /\ counter' > 0
  BY <1>3 DEF FreshInv, RowsAhead
<1>9. QED
  BY <1>5, <1>6, <1>7, <1>8 DEF FreshInv

\* A request moves on, with a configuration that is new enough if it now has one,
\* and may have put that configuration into the cache under its own key.
LEMMA StepKeepsFresh ==
    ASSUME ConfigTypeOK, FreshInv, NEW r \in Requests, NEW from, NEW to,
           StepRead(r, from, to), from # "key", Keyed(r), to # "key",
           UNCHANGED <<row, counter, updateVars, keyVersion, floor>>,
           \A q \in Requests \ {r} : config'[q] = config[q],
           to = "store" => config'[r] = row[agentOf[r]],
           to = "done" => floor[r] <= config'[r],
           \/ UNCHANGED cache
           \/ from = "store" /\ to = "done" /\ PutEntry(r, keyVersion[r]) /\ UNCHANGED config
    PROVE  FreshInv'
<1>1. \A q \in Requests : reading'[q] = IF q = r THEN to ELSE reading[q]
  BY StepReadPoint
<1>2. reading[r] = from
  BY StepReadPoint
<1>3. UNCHANGED <<row, counter, written, invalidated, keyVersion, floor>>
  BY DEF updateVars
<1>4. \A q \in Requests :
         /\ agentOf[q] \in Agents
         /\ invalidated[agentOf[q]] \in Nat
         /\ row[agentOf[q]] \in Nat
         /\ floor[q] \in Nat
         /\ keyVersion[q] \in Nat
         /\ invalidated[agentOf[q]] <= row[agentOf[q]]
         /\ Keyed(q) => floor[q] <= invalidated[agentOf[q]]
  BY AgentOfAgent DEF ConfigTypeOK, FreshInv, RowsAhead, KeysBehind
<1>5. \A e \in cache' :
         \/ e \in cache
         \/ /\ reading[r] = "store"
            /\ e.agent = agentOf[r] /\ e.version = keyVersion[r] /\ e.config = config[r]
  BY <1>2, <1>4, PutEntryPoint
<1>6. \A q \in Requests : Keyed(q)' => Keyed(q)
  BY <1>1 DEF Keyed
<1>7. CurrentIsFresh'
  <2>1. ASSUME NEW e \in cache'
        PROVE  e.version <= counter /\ (e.version = counter => invalidated[e.agent] <= e.config)
    BY <1>5 DEF FreshInv, CurrentIsFresh, KeysBehind, Keyed
  <2>2. ASSUME NEW q \in Requests, reading'[q] = "store", keyVersion[q] = counter
        PROVE  invalidated[agentOf[q]] <= config'[q]
    <3>1. CASE q = r
      BY <1>1, <1>4, <2>2, <3>1
    <3>2. CASE q # r
      BY <1>1, <2>2, <3>2 DEF FreshInv, CurrentIsFresh
    <3>3. QED
      BY <3>1, <3>2
  <2>3. QED
    BY <1>3, <2>1, <2>2 DEF CurrentIsFresh
<1>8. KeysBehind'
  BY <1>3, <1>6 DEF FreshInv, KeysBehind
<1>9. KeyIsFresh'
  <2> SUFFICES ASSUME NEW x \in Requests, Keyed(x)
               PROVE  /\ \A e \in EntryOf(x, keyVersion[x])' : floor[x] <= e.config
                      /\ \A q \in Requests :
                            reading'[q] = "store" /\ Key(q) = Key(x) => floor[x] <= config'[q]
                      /\ reading'[x] \in {"store", "done"} => floor[x] <= config'[x]
    BY <1>3, <1>6 DEF KeyIsFresh, Key
  <2>1. ASSUME NEW e \in EntryOf(x, keyVersion[x])' PROVE floor[x] <= e.config
    <3>1. e \in cache' /\ e.agent = agentOf[x] /\ e.version = keyVersion[x]
      BY <1>3 DEF EntryOf
    <3>2. CASE e \in cache
      BY <3>1, <3>2 DEF FreshInv, KeyIsFresh, EntryOf
    <3>3. CASE e \notin cache
      <4>1. reading[r] = "store" /\ Key(r) = Key(x) /\ e.config = config[r]
        BY <1>5, <3>1, <3>3 DEF Key
      <4>2. QED
        BY <4>1 DEF FreshInv, KeyIsFresh
    <3>4. QED
      BY <3>2, <3>3
  <2>2. ASSUME NEW q \in Requests, reading'[q] = "store", Key(q) = Key(x)
        PROVE  floor[x] <= config'[q]
    <3>1. CASE q = r
      <4>1. config'[r] = row[agentOf[r]] /\ agentOf[r] = agentOf[x]
        BY <1>1, <2>2, <3>1 DEF Key
      <4>2. QED
        BY <1>4, <3>1, <4>1
    <3>2. CASE q # r
      BY <1>1, <2>2, <3>2 DEF FreshInv, KeyIsFresh
    <3>3. QED
      BY <3>1, <3>2
  <2>3. ASSUME reading'[x] \in {"store", "done"} PROVE floor[x] <= config'[x]
    <3>1. CASE x = r
      BY <1>1, <1>4, <2>3, <3>1
    <3>2. CASE x # r
      BY <1>1, <2>3, <3>2 DEF FreshInv, KeyIsFresh
    <3>3. QED
      BY <3>1, <3>2
  <2>4. QED
    BY <2>1, <2>2, <2>3
<1>10. RowsAhead' /\ counter' > 0
  BY <1>3 DEF FreshInv, RowsAhead
<1>11. QED
  BY <1>7, <1>8, <1>9, <1>10 DEF FreshInv

\* Requests keep the cache fresh.
LEMMA ResolveKeepsFresh ==
    ASSUME ConfigTypeOK, FreshInv, NEW r \in Requests, Resolve(r)
    PROVE  FreshInv'
<1>1. CASE VersionedKey(r)
  BY <1>1, VersionedKeyKeepsFresh
<1>2. CASE Hit(r)
  <2>1. PICK e \in EntryOf(r, keyVersion[r]) : config' = [config EXCEPT ![r] = e.config]
    BY <1>2 DEF Hit
  <2>2. /\ config'[r] = e.config
        /\ \A q \in Requests \ {r} : config'[q] = config[q]
    BY <2>1 DEF ConfigTypeOK
  <2>3. reading[r] = "lookup"
    BY <1>2, StepReadPoint DEF Hit
  <2>4. Keyed(r)
    BY <2>3 DEF Keyed
  <2>5. floor[r] <= config'[r]
    BY <2>1, <2>2, <2>4 DEF FreshInv, KeyIsFresh
  <2>6. QED
    BY <1>2, <2>2, <2>4, <2>5, StepKeepsFresh DEF Hit
<1>3. CASE Miss(r)
  <2>1. Keyed(r)
    BY <1>3, StepReadPoint DEF Miss, Keyed
  <2>2. QED
    BY <1>3, <2>1, StepKeepsFresh DEF Miss
<1>4. CASE Load(r)
  <2>1. Keyed(r)
    BY <1>4, StepReadPoint DEF Load, Keyed
  <2>2. /\ config'[r] = row[agentOf[r]]
        /\ \A q \in Requests \ {r} : config'[q] = config[q]
    BY <1>4 DEF Load, ConfigTypeOK
  <2>3. QED
    BY <1>4, <2>1, <2>2, StepKeepsFresh DEF Load
<1>5. CASE Store(r)
  <2>1. reading[r] = "store"
    BY <1>5, StepReadPoint DEF Store
  <2>2. Keyed(r)
    BY <2>1 DEF Keyed
  <2>3. floor[r] <= config[r]
    BY <2>1, <2>2 DEF FreshInv, KeyIsFresh
  <2>4. QED
    BY <1>5, <2>2, <2>3, StepKeepsFresh DEF Store
<1>6. CASE ReadFails(r)
  <2>1. CASE StepRead(r, "load", "failed")
    <3>1. Keyed(r)
      BY <2>1, StepReadPoint DEF Keyed
    <3>2. QED
      BY <1>6, <2>1, <3>1, StepKeepsFresh DEF ReadFails
  <2>2. CASE StepRead(r, "key", "failed")
    <3>1. /\ \A q \in Requests : reading'[q] = IF q = r THEN "failed" ELSE reading[q]
          /\ UNCHANGED <<row, counter, cache, written, invalidated, keyVersion, config, floor>>
      BY <1>6, <2>2, StepReadPoint DEF ReadFails, updateVars
    <3>2. \A q \in Requests : /\ Keyed(q)' => Keyed(q)
                              /\ reading'[q] = "store" => reading[q] = "store"
                              /\ reading'[q] = "done" => reading[q] = "done"
      BY <3>1 DEF Keyed
    <3>3. CurrentIsFresh' /\ KeysBehind' /\ KeyIsFresh'
      BY <3>1, <3>2 DEF FreshInv, CurrentIsFresh, KeysBehind, KeyIsFresh, Key, EntryOf
    <3>4. QED
      BY <3>1, <3>3 DEF FreshInv, RowsAhead
  <2>3. QED
    BY <1>6, <2>1, <2>2 DEF ReadFails
<1>7. QED
  BY <1>1, <1>2, <1>3, <1>4, <1>5, <1>6 DEF Resolve

\* Once the tag was bumped a first time, a request that begins after an update was
\* reported as saved and invalidated gets that update or a newer one: a slower
\* request stores what it loaded before under a version nobody reads any more.
THEOREM InvalidationIsSeen ==
    ASSUME InitialVersion # 0
    PROVE  Spec => []FreshRead
<1>1. Init => FreshInv
  BY FreshAtFirst
<1>2. ConfigTypeOK /\ FreshInv /\ [Next]_vars => FreshInv'
  <2> SUFFICES ASSUME ConfigTypeOK, FreshInv, [Next]_vars PROVE FreshInv'
    OBVIOUS
  <2>1. CASE Expire
    <3>1. PICK e \in cache : cache' = cache \ {e}
      BY <2>1 DEF Expire
    <3>2. UNCHANGED <<row, counter, written, invalidated, reading, keyVersion, config, floor>>
      BY <2>1 DEF Expire, updateVars, readVars
    <3>3. CurrentIsFresh' /\ KeysBehind' /\ KeyIsFresh'
      BY <3>1, <3>2
      DEF FreshInv, CurrentIsFresh, KeysBehind, KeyIsFresh, Keyed, Key, EntryOf
    <3>4. QED
      BY <3>2, <3>3 DEF FreshInv, RowsAhead
  <2>2. CASE UNCHANGED vars
    BY <2>2 DEF vars, updateVars, readVars, FreshInv, RowsAhead, CurrentIsFresh,
                KeysBehind, KeyIsFresh, Keyed, Key, EntryOf
  <2>3. QED
    BY <2>1, <2>2, UpdateKeepsFresh, ResolveKeepsFresh DEF Next
<1>3. FreshInv => FreshRead
  BY DEF FreshInv, KeyIsFresh, Keyed, FreshRead, ConfigTypeOK
<1>4. QED
  BY <1>1, <1>2, <1>3, ConfigTypeCorrect, PTL DEF Spec

=============================================================================
