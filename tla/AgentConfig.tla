----------------------------- MODULE AgentConfig -----------------------------
(***************************************************************************)
(* The agent configuration of TripSage behind its versioned Redis cache:   *)
(* administrators update or roll back the row of an agent and then bump    *)
(* the cache tag (config/agents routes, invalidateAgentConfigCache);       *)
(* requests resolve a configuration through the cache                      *)
(* (resolveAgentConfig), under a key that carries the tag's version        *)
(* (lib/cache/tags.ts).                                                    *)
(*                                                                         *)
(* A configuration is the serial number of the write that made it.  One    *)
(* tag covers all agents.  Next's own cache in front of resolveAgentConfig *)
(* is not part of this module.                                             *)
(***************************************************************************)
EXTENDS Integers

CONSTANTS
    Agents,
    Updates,         \* PUT and rollback requests
    Requests,        \* calls of resolveAgentConfig
    agentOf,         \* [Updates \cup Requests -> Agents]
    InitialVersion   \* tag counter at the start, 0 if it was never bumped

ASSUME AgentConfigConstants ==
    /\ InitialVersion \in Nat
    /\ agentOf \in [Updates \cup Requests -> Agents]

VARIABLES
    row,          \* [Agents -> serial of the row's configuration, 0 if no row]
    counter,      \* the Redis counter tagver:configuration, 0 if absent
    cache,        \* set of the cached entries
    updating,     \* [Updates -> where the update is]
    written,      \* [Updates -> serial it wrote, 0 before]
    reading,      \* [Requests -> where the resolver is]
    keyVersion,   \* [Requests -> tag version in its cache key]
    config,       \* [Requests -> configuration it has, 0 before]
    invalidated,  \* [Agents -> newest serial reported as invalidated]
    floor         \* [Requests -> invalidated[its agent] when it began]

updateVars == <<updating, written, invalidated>>
readVars   == <<reading, keyVersion, config, floor>>
vars == <<row, counter, cache, updateVars, readVars>>

Entries == [agent : Agents, version : Nat, config : Nat]

ConfigTypeOK ==
    /\ row \in [Agents -> Nat]
    /\ counter \in Nat
    /\ cache \subseteq Entries
    /\ updating \in [Updates -> {"upsert", "bump", "done", "degraded", "failed"}]
    /\ written \in [Updates -> Nat]
    /\ reading \in [Requests -> {"key", "lookup", "load", "store", "done", "failed"}]
    /\ keyVersion \in [Requests -> Nat]
    /\ config \in [Requests -> Nat]
    /\ invalidated \in [Agents -> Nat]
    /\ floor \in [Requests -> Nat]

Init ==
    /\ row \in [Agents -> {0, 1}]
    /\ counter = InitialVersion
    /\ cache = {}
    /\ updating = [u \in Updates |-> "upsert"]
    /\ written = [u \in Updates |-> 0]
    /\ reading = [r \in Requests |-> "key"]
    /\ keyVersion = [r \in Requests |-> 0]
    /\ config = [r \in Requests |-> 0]
    /\ invalidated = [a \in Agents |-> 0]
    /\ floor = [r \in Requests |-> 0]

-----------------------------------------------------------------------------
(* Cache tags *)

\* getTagVersion: the counter, or 1 if there is none.
TagVersion == IF counter > 0 THEN counter ELSE 1

\* Variant: DECR.
BumpTagDown == counter' = counter - 1

\* bumpTag: INCR, which counts an absent key from 0.
BumpTag == counter' = counter + 1

EntryOf(r, version) == {e \in cache : e.agent = agentOf[r] /\ e.version = version}

\* setCachedJson under the key agent:version.
PutEntry(r, version) ==
    cache' = (cache \ EntryOf(r, version))
             \cup {[agent |-> agentOf[r], version |-> version, config |-> config[r]]}

\* An entry's TTL runs out.
Expire ==
    /\ \E e \in cache : cache' = cache \ {e}
    /\ UNCHANGED <<row, counter, updateVars, readVars>>

-----------------------------------------------------------------------------
(* Updates *)

StepUpdate(u, from, to) ==
    /\ updating[u] = from
    /\ updating' = [updating EXCEPT ![u] = to]

WriteRow(u) ==
    /\ row' = [row EXCEPT ![agentOf[u]] = @ + 1]
    /\ written' = [written EXCEPT ![u] = row[agentOf[u]] + 1]

\* agent_config_upsert commits, its version id comes back.
Upsert(u) ==
    /\ StepUpdate(u, "upsert", "bump")
    /\ WriteRow(u)
    /\ UNCHANGED <<counter, cache, invalidated, readVars>>

\* The load of the existing row or the version fails, or the upsert does, or its
\* answer has no version id although it committed: 500, nothing is invalidated.
UpsertFails(u) ==
    /\ StepUpdate(u, "upsert", "failed")
    /\ \/ WriteRow(u)
       \/ UNCHANGED <<row, written>>
    /\ UNCHANGED <<counter, cache, invalidated, readVars>>

\* invalidateAgentConfigCache succeeds: 200 without "degraded".
Invalidate(u) ==
    /\ StepUpdate(u, "bump", "done")
    /\ BumpTag
    /\ invalidated' = [invalidated EXCEPT ![agentOf[u]] =
                          IF written[u] > @ THEN written[u] ELSE @]
    /\ UNCHANGED <<row, cache, written, readVars>>

\* The bump fails, perhaps after it was applied: 200 with "degraded".
InvalidateFails(u) ==
    /\ StepUpdate(u, "bump", "degraded")
    /\ BumpTag \/ UNCHANGED counter
    /\ UNCHANGED <<row, cache, written, invalidated, readVars>>

-----------------------------------------------------------------------------
(* Requests *)

StepRead(r, from, to) ==
    /\ reading[r] = from
    /\ reading' = [reading EXCEPT ![r] = to]

\* versionedKey: the request reads the tag's version into its cache key.
VersionedKey(r) ==
    /\ StepRead(r, "key", "lookup")
    /\ keyVersion' = [keyVersion EXCEPT ![r] = TagVersion]
    /\ floor' = [floor EXCEPT ![r] = invalidated[agentOf[r]]]
    /\ UNCHANGED <<row, counter, cache, updateVars, config>>

Hit(r) ==
    /\ StepRead(r, "lookup", "done")
    /\ \E e \in EntryOf(r, keyVersion[r]) : config' = [config EXCEPT ![r] = e.config]
    /\ UNCHANGED <<row, counter, cache, updateVars, keyVersion, floor>>

\* No entry, or getCachedJson answers null because Redis failed.
Miss(r) ==
    /\ StepRead(r, "lookup", "load")
    /\ UNCHANGED <<row, counter, cache, updateVars, keyVersion, config, floor>>

Load(r) ==
    /\ row[agentOf[r]] > 0
    /\ StepRead(r, "load", "store")
    /\ config' = [config EXCEPT ![r] = row[agentOf[r]]]
    /\ UNCHANGED <<row, counter, cache, updateVars, keyVersion, floor>>

\* Variant: the entry is stored under the version the tag has by then.
StoreUnderCurrent(r) ==
    /\ StepRead(r, "store", "done")
    /\ PutEntry(r, TagVersion)
    /\ UNCHANGED <<row, counter, updateVars, keyVersion, config, floor>>

\* setCachedJson, which swallows a failing SET.
Store(r) ==
    /\ StepRead(r, "store", "done")
    /\ PutEntry(r, keyVersion[r]) \/ UNCHANGED cache
    /\ UNCHANGED <<row, counter, updateVars, keyVersion, config, floor>>

\* The tag's version cannot be read; or there is no row (404), the query fails,
\* or the row is not a valid configuration.
ReadFails(r) ==
    /\ StepRead(r, "key", "failed") \/ StepRead(r, "load", "failed")
    /\ UNCHANGED <<row, counter, cache, updateVars, keyVersion, config, floor>>

-----------------------------------------------------------------------------
(* The specification *)

Update(u) == Upsert(u) \/ UpsertFails(u) \/ Invalidate(u) \/ InvalidateFails(u)

Resolve(r) ==
    VersionedKey(r) \/ Hit(r) \/ Miss(r) \/ Load(r) \/ Store(r) \/ ReadFails(r)

Next ==
    \/ \E u \in Updates : Update(u)
    \/ \E r \in Requests : Resolve(r)
    \/ Expire

Spec == Init /\ [][Next]_vars

-----------------------------------------------------------------------------
(* Properties *)

\* A request that begins after an update was reported as saved and invalidated
\* gets that update's configuration or a newer one, whatever slower requests
\* still load and store: what they load before the update they store under a key
\* nobody reads any more.
FreshRead == \A r \in Requests : reading[r] = "done" => config[r] >= floor[r]

=============================================================================
