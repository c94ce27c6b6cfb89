---------------------------- MODULE WebhookGate ----------------------------
(***************************************************************************)
(* The webhook endpoints of TripSage (createWebhookHandler and the routes  *)
(* hooks/trips, hooks/cache and hooks/files).  Database triggers post each *)
(* change of a row to one or more endpoints; all endpoints guard their     *)
(* handler with one Redis key per event, idemp:<eventKey>, that they share.*)
(*                                                                         *)
(* A posting is one change posted to one endpoint.  Its sender posts it    *)
(* again when the answer is not 2xx or does not come; the run behind an    *)
(* abandoned attempt goes on, so attempts of a posting overlap.            *)
(***************************************************************************)
EXTENDS Integers

CONSTANTS
    Postings,        \* what the database posts: a change to an endpoint
    payloadOf,       \* [Postings -> its table, type, occurredAt and record]
    endpointOf,      \* [Postings -> endpoint]
    tableFilter,     \* [endpoints -> the table it handles, or AnyTable]
    idempotencyTTL,  \* [endpoints -> seconds of its reservations, in ticks]
    AnyTable,
    MaxPosts,        \* the sender posts 1 + MaxPosts times at most
    HoldLimit,       \* ticks a run can live after its reservation
    ThrownStatuses,  \* statuses of handler errors, 409 for every 4xx
    MaxFaults        \* bound on the number of faults of each kind

Attempts == 0..MaxPosts

\* buildEventKey: table:type:occurredAt:record id.  A missing occurredAt counts
\* as the empty string.
BuildEventKey(payload) ==
    <<payload.table, payload.type, payload.occurredAt, payload.record>>

Key(p) == BuildEventKey(payloadOf[p])
Keys == {Key(p) : p \in Postings}

\* The table filter of the posting's endpoint lets it pass.
Accepts(p) == tableFilter[endpointOf[p]] \in {AnyTable, payloadOf[p].table}

Ttl(p) == idempotencyTTL[endpointOf[p]]

ASSUME WebhookGateConstants ==
    /\ MaxPosts \in Nat
    /\ HoldLimit \in Nat
    /\ MaxFaults \in Nat
    /\ ThrownStatuses \subseteq {409, 500, 503}
    /\ \A p \in Postings : Ttl(p) \in Nat

\* A function run lives 60 s from the request on and takes the key after that,
\* the shortest reservation, of hooks/cache, lasts 60 s.
ASSUME HoldEndsBeforeKey == \A p \in Postings : HoldLimit < Ttl(p)

VARIABLES
    phase,    \* [Postings -> the sender's view of the posting]
    posts,    \* [Postings -> number of the current attempt]
    pc,       \* [Postings -> [Attempts -> control point of the run]]
    status,   \* [Postings -> [Attempts -> HTTP status decided, 0 if none]]
    held,     \* [Postings -> [Attempts -> ticks since the run reserved]]
    keyTtl,   \* [Keys -> ticks until the reservation expires, 0 if free]
    handled,  \* [Postings -> number of runs whose handler returned]
    skipped,  \* set of postings answered "skipped" by a table filter
    faults    \* [FaultKinds -> faults so far]

senderVars == <<phase, posts>>
runVars    == <<pc, status, held>>
vars == <<phase, posts, pc, status, held, keyTtl, handled, skipped, faults>>

FaultKinds == {"crash", "redis", "throw", "reject", "lost", "refuse"}
Phases  == {"due", "inflight", "acked", "dropped"}
Holding == {"filter", "handle", "release"}       \* the run has the reservation
Points  == Holding \cup {"idle", "check", "reserve", "answered", "dead"}
Statuses == {0, 200, 400, 401, 409, 413, 429, 500, 503}

GateTypeOK ==
    /\ phase \in [Postings -> Phases]
    /\ posts \in [Postings -> Attempts]
    /\ pc \in [Postings -> [Attempts -> Points]]
    /\ status \in [Postings -> [Attempts -> Statuses]]
    /\ held \in [Postings -> [Attempts -> 0..HoldLimit]]
    /\ keyTtl \in [Keys -> Nat]
    /\ handled \in [Postings -> Nat]
    /\ skipped \subseteq {p \in Postings : ~Accepts(p)}
    /\ faults \in [FaultKinds -> Nat]

Init ==
    /\ phase = [p \in Postings |-> "due"]
    /\ posts = [p \in Postings |-> 0]
    /\ pc = [p \in Postings |-> [a \in Attempts |-> "idle"]]
    /\ status = [p \in Postings |-> [a \in Attempts |-> 0]]
    /\ held = [p \in Postings |-> [a \in Attempts |-> 0]]
    /\ keyTtl = [k \in Keys |-> 0]
    /\ handled = [p \in Postings |-> 0]
    /\ skipped = {}
    /\ faults = [k \in FaultKinds |-> 0]

-----------------------------------------------------------------------------
(* Helpers *)

Goto(p, a, from, to) ==
    /\ pc[p][a] = from
    /\ pc' = [pc EXCEPT ![p][a] = to]

SetStatus(p, a, code) == status' = [status EXCEPT ![p][a] = code]

Answer(p, a, from, code) ==
    /\ Goto(p, a, from, "answered")
    /\ SetStatus(p, a, code)
    /\ held' = [held EXCEPT ![p][a] = 0]

SetKey(p, ticks) == keyTtl' = [keyTtl EXCEPT ![Key(p)] = ticks]

Fault(k) ==
    /\ faults[k] < MaxFaults
    /\ faults' = [faults EXCEPT ![k] = @ + 1]

-----------------------------------------------------------------------------
(* The sender *)

Post(p) ==
    /\ phase[p] = "due"
    /\ phase' = [phase EXCEPT ![p] = "inflight"]
    /\ Goto(p, posts[p], "idle", "check")
    /\ UNCHANGED <<posts, status, held, keyTtl, handled, skipped, faults>>

Repost(p) ==
    IF posts[p] < MaxPosts
      THEN /\ phase' = [phase EXCEPT ![p] = "due"]
           /\ posts' = [posts EXCEPT ![p] = @ + 1]
      ELSE /\ phase' = [phase EXCEPT ![p] = "dropped"]
           /\ UNCHANGED posts

\* The sender sees the answer of its current attempt, or that the run died.
Receive(p) ==
    /\ phase[p] = "inflight"
    /\ pc[p][posts[p]] \in {"answered", "dead"}
    /\ \/ /\ status[p][posts[p]] = 200
          /\ phase' = [phase EXCEPT ![p] = "acked"]
          /\ UNCHANGED posts
       \/ /\ status[p][posts[p]] # 200
          /\ Repost(p)
    /\ UNCHANGED <<runVars, keyTtl, handled, skipped, faults>>

\* The sender's timeout: the attempt is abandoned, its run is not.
GiveUpOn(p) ==
    /\ phase[p] = "inflight"
    /\ pc[p][posts[p]] # "dead"
    /\ Fault("lost")
    /\ Repost(p)
    /\ UNCHANGED <<runVars, keyTtl, handled, skipped>>

-----------------------------------------------------------------------------
(* The endpoint *)

\* Within the rate limit and the size limit, and the signature verifies.
Admit(p, a) ==
    /\ Goto(p, a, "check", "reserve")
    /\ UNCHANGED <<senderVars, status, held, keyTtl, handled, skipped, faults>>

\* Rate limited (429) or the limiter unavailable (503), too large (413), a body
\* or JSON that is no payload (400), a bad signature (401), no secret (503).
Refuse(p, a) ==
    /\ \E code \in {400, 401, 413, 429, 503} : Answer(p, a, "check", code)
    /\ Fault("refuse")
    /\ UNCHANGED <<senderVars, keyTtl, handled, skipped>>

\* Variant: the key is set without NX.
ReserveAnyway(p, a) ==
    /\ Goto(p, a, "reserve", "filter")
    /\ SetKey(p, Ttl(p))
    /\ UNCHANGED <<senderVars, status, held, handled, skipped, faults>>

\* tryReserveKey: SET idemp:<eventKey> EX ttl NX.
Reserve(p, a) ==
    /\ keyTtl[Key(p)] = 0
    /\ Goto(p, a, "reserve", "filter")
    /\ SetKey(p, Ttl(p))
    /\ UNCHANGED <<senderVars, status, held, handled, skipped, faults>>

\* The key is taken, by whatever endpoint: { duplicate: true } with 200.
Duplicate(p, a) ==
    /\ keyTtl[Key(p)] > 0
    /\ Answer(p, a, "reserve", 200)
    /\ UNCHANGED <<senderVars, keyTtl, handled, skipped, faults>>

\* Redis is not configured or the SET fails, perhaps after it was applied: 503,
\* and nothing is released because nothing was reserved.
ReserveFails(p, a) ==
    /\ Answer(p, a, "reserve", 503)
    /\ Fault("redis")
    /\ \/ UNCHANGED keyTtl
       \/ keyTtl[Key(p)] = 0 /\ SetKey(p, Ttl(p))
    /\ UNCHANGED <<senderVars, handled, skipped>>

\* Variant: the comparison of the filter is turned round.
FilterInverted(p, a) ==
    \/ /\ ~Accepts(p)
       /\ Goto(p, a, "filter", "handle")
       /\ UNCHANGED <<senderVars, status, held, keyTtl, handled, skipped, faults>>
    \/ /\ Accepts(p)
       /\ Answer(p, a, "filter", 200)
       /\ skipped' = skipped \cup {p}
       /\ UNCHANGED <<senderVars, keyTtl, handled, faults>>

\* The filter runs after the reservation: a table mismatch is answered
\* { skipped: true } with 200 and keeps the key.
Filter(p, a) ==
    \/ /\ Accepts(p)
       /\ Goto(p, a, "filter", "handle")
       /\ UNCHANGED <<senderVars, status, held, keyTtl, handled, skipped, faults>>
    \/ /\ ~Accepts(p)
       /\ Answer(p, a, "filter", 200)
       /\ skipped' = skipped \cup {p}
       /\ UNCHANGED <<senderVars, keyTtl, handled, faults>>

\* The route's handler has published its job, bumped the tags, or found that the
\* trip is gone: 200.
Handle(p, a) ==
    /\ Answer(p, a, "handle", 200)
    /\ handled' = [handled EXCEPT ![p] = @ + 1]
    /\ UNCHANGED <<senderVars, keyTtl, skipped, faults>>

\* Variant: no error releases the reservation.
HandleFailsKeepingKey(p, a) ==
    /\ \E code \in ThrownStatuses : Answer(p, a, "handle", code)
    /\ Fault("throw")
    /\ UNCHANGED <<senderVars, keyTtl, handled, skipped>>

\* Variant: the error of the handler is reported in a 200 body.
HandleFailsSoftly(p, a) ==
    /\ Goto(p, a, "handle", "release")
    /\ SetStatus(p, a, 200)
    /\ Fault("throw")
    /\ UNCHANGED <<senderVars, held, keyTtl, handled, skipped>>

\* The handler throws (the lookup fails, tryEnqueueJob reports no success): an
\* error of status 500 and above goes on to release the key.
HandleFails(p, a) ==
    /\ \E code \in ThrownStatuses :
          IF code >= 500
            THEN /\ Goto(p, a, "handle", "release")
                 /\ SetStatus(p, a, code)
                 /\ UNCHANGED held
                 /\ Fault("throw")
            ELSE /\ Answer(p, a, "handle", code)
                 /\ Fault("reject")
    /\ UNCHANGED <<senderVars, keyTtl, handled, skipped>>

\* releaseKey deletes the key, whoever holds it.
Release(p, a) ==
    /\ Answer(p, a, "release", status[p][a])
    /\ SetKey(p, 0)
    /\ UNCHANGED <<senderVars, handled, skipped, faults>>

\* The DEL fails: fail open, the answer is the same.
ReleaseFails(p, a) ==
    /\ Answer(p, a, "release", status[p][a])
    /\ Fault("redis")
    /\ UNCHANGED <<senderVars, keyTtl, handled, skipped>>

\* The run dies: a redeployment, out of memory, or the function limit.
Crash(p, a) ==
    /\ pc[p][a] \in Holding \cup {"check", "reserve"}
    /\ pc' = [pc EXCEPT ![p][a] = "dead"]
    /\ SetStatus(p, a, 0)
    /\ held' = [held EXCEPT ![p][a] = 0]
    /\ Fault("crash")
    /\ UNCHANGED <<senderVars, keyTtl, handled, skipped>>

CountDown(n) == IF n = 0 THEN 0 ELSE n - 1

\* Time passes; no run holds its reservation longer than HoldLimit.
Tick ==
    /\ \A p \in Postings, a \in Attempts : pc[p][a] \in Holding => held[p][a] < HoldLimit
    /\ held' = [p \in Postings |-> [a \in Attempts |->
                  IF pc[p][a] \in Holding THEN held[p][a] + 1 ELSE held[p][a]]]
    /\ keyTtl' = [k \in Keys |-> CountDown(keyTtl[k])]
    /\ UNCHANGED <<senderVars, pc, status, handled, skipped, faults>>

-----------------------------------------------------------------------------
(* The specification *)

Run(p, a) ==
    \/ Admit(p, a)   \/ Refuse(p, a)
    \/ Reserve(p, a) \/ Duplicate(p, a) \/ ReserveFails(p, a)
    \/ Filter(p, a)
    \/ Handle(p, a)  \/ HandleFails(p, a)
    \/ Release(p, a) \/ ReleaseFails(p, a)
    \/ Crash(p, a)

Next ==
    \/ \E p \in Postings : Post(p) \/ Receive(p) \/ GiveUpOn(p)
    \/ \E p \in Postings, a \in Attempts : Run(p, a)
    \/ Tick

Spec == Init /\ [][Next]_vars

-----------------------------------------------------------------------------
(* Properties *)

Holds(p, a) == pc[p][a] \in Holding

\* One event at a time: of all attempts of all postings with the same event key,
\* to whatever endpoints, at most one is between its reservation and its answer,
\* though the endpoints reserve for different times and releaseKey deletes the
\* key without asking whose it is.
OneHandler ==
    \A p, q \in Postings, a, b \in Attempts :
        Holds(p, a) /\ Holds(q, b) /\ Key(p) = Key(q) => p = q /\ a = b

\* The reservation of a run does not expire under it.
ReservationLives ==
    \A p \in Postings, a \in Attempts :
        Holds(p, a) => keyTtl[Key(p)] + held[p][a] >= Ttl(p)

\* The event with key k has been dealt with by some endpoint.
Consumed(k) == \E p \in Postings : Key(p) = k /\ (handled[p] > 0 \/ p \in skipped)

\* No run died, no Redis call failed, no handler rejected its event with a 4xx.
Undisturbed == faults["crash"] = 0 /\ faults["redis"] = 0 /\ faults["reject"] = 0

\* A reservation is never left behind: in an undisturbed history the key belongs
\* to a run at work or to an event that was consumed.
NoOrphanKey ==
    Undisturbed =>
        \A k \in Keys : keyTtl[k] > 0 =>
            Consumed(k) \/ \E p \in Postings, a \in Attempts : Key(p) = k /\ Holds(p, a)

\* Reposting makes up for failing handlers: if besides no sender gave up on a
\* running attempt, the postings of an event are not all acknowledged before one
\* endpoint has consumed it.
RepostingSuffices ==
    Undisturbed /\ faults["lost"] = 0 =>
        \A p \in Postings :
            (\A q \in Postings : Key(q) = Key(p) => phase[q] = "acked") => Consumed(Key(p))

\* Claimed by docs/api/internal/webhooks.md:115 and 121: hooks/cache and
\* hooks/trips both serve trip_collaborators.
EachEndpointServes ==
    \A p \in Postings : phase[p] = "acked" /\ Accepts(p) => handled[p] > 0

=============================================================================
