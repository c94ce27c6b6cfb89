# TripSage: TLA+ models

TripSage AI is a Next.js application (TypeScript) for travel planning. Its state
lives outside the process: Supabase Postgres, Upstash Redis, and the Upstash
QStash message broker that calls back into the application's own job routes.
Function runs are short (`vercel.json` caps API routes at 60 s), stateless, and
run concurrently; whatever must not happen twice, or must happen once at least,
rests on Redis keys with a TTL, on HTTP status codes and on the order of awaits.
That is the logic modelled here, because it is the logic tests reach least.

All paths below are relative to the repository root; `PROJECT.json` puts
`src/` before them.

## Inventory

| Component | State | Operations | What is hard | What makes it correct |
|---|---|---|---|---|
| QStash job runner (`src/lib/qstash/{receiver,job-route,config}.ts`) | Redis key `qstash:message:<id>`: absent, `processing` (240 s), `done` (24 h) | verify, lock, inspect, parse, handle, commit, release | attempts that overlap, crash between lock and commit, lost answers, failed Redis calls | one handler at a time per message, acknowledged only when handled, lock never left behind without a crash or a Redis fault, a message with an attempt to spare is delivered |
| QStash publisher (`src/lib/qstash/client.ts`) | messages at the broker | enqueueJob, tryEnqueueJob | publish whose answer is lost, deduplication ids | a reserved event is enqueued or its reservation given back |
| Business idempotency keys (`src/lib/idempotency/redis.ts`) | Redis keys `idemp:<key>` with TTL | tryReserveKey, hasKey, releaseKey; fail-open and fail-closed | crash after reservation, failed release, expiry before the retry | no two concurrent side effects per key; no work lost silently |
| Collaborator notification job (`src/app/api/jobs/notify-collaborators`) | none of its own (key `notify:<eventKey>`) | reserve, send, release on error | retry after a crash sees its own key | one send at a time per event |
| Notification sender (`src/lib/notifications/collaborators.ts`) | none | e-mail behind the circuit breaker, downstream webhook | errors of both channels swallowed | one channel's failure does not stop the other |
| Webhook gate (`src/lib/webhooks/{handler,payload}.ts`, `src/app/api/hooks/*`) | Redis keys `idemp:<eventKey>`, shared by all endpoints | rate limit, verify, reserve, filter, handle, release on 5xx | several endpoints, several deliveries, one key | an event is handled by the endpoint it is meant for |
| Circuit breaker (`src/lib/circuit-breaker/index.ts`) | Redis counters `failures`, `successes`, key `opened_at` | checkCircuit, recordSuccess, recordFailure | many concurrent callers, non-atomic reads and writes, expiring keys | opens at the threshold, admits nobody while open |
| Memory sync job (`src/app/api/jobs/memory-sync`) | Postgres `memories.sessions` and turns | access check, session, read-dedupe-insert, updates | retries after a partial run, the race to create the session, deletions under way | every queued turn stored or its job given up, what is deleted stays deleted |
| Attachments ingest and RAG index jobs (`src/app/api/jobs/{attachments-ingest,rag-index}`, `src/lib/rag/indexer.ts`) | document chunks by (id, index) | chunk, embed, upsert | partial failure, shrinking document | chunks cover the text; the index matches the last document |
| Stripe webhook (`src/lib/payments/stripe-webhook.ts`) | key `stripe:<id>` (3 days) | verify, reserve, dispatch, release on error; the handlers record telemetry only | a retry while the first delivery is handled | an event is not lost when its first delivery fails |
| Booking (`src/domain/accommodations/{booking-orchestrator,service}.ts`, `src/ai/tools/server/{accommodations,approvals}.ts`, `src/lib/payments`) | approval key in Redis, payment intent at Stripe, reservation at Amadeus, row in `bookings` | approval, charge, provider booking with retries, persist, refund, cache invalidation | failure, or a lost answer, of one step after the earlier ones took effect; decisions that change under a call | nothing charged without approval; a failed call refunded; a stored row paid for and reserved |
| Versioned cache tags (`src/lib/cache/{tags,registry}.ts`) | Redis version counter per tag | getVersion, bump, versioned keys | first bump, read-compute-write races | after a bump no old value is served |
| Agent configuration (`src/lib/agents/config-resolver.ts`) | cached configuration per agent and tag version | resolve, invalidate | stale configuration after update | an update is seen after invalidation |
| Chat turn (`src/app/api/chat/_handler.ts`) | `chat_messages` rows with metadata (status, superseded) | ensure session, persist user message, placeholder, stream steps, finish, abort, regenerate | concurrent regenerates, failure after the placeholder, metadata overwritten from a stale copy | one visible answer per user message; no row stays `streaming` |
| Memory orchestrator (`src/lib/memory`) | adapters' stores | intents handed to one adapter after the other | partial failure, lost answers | the reported status is true of the stores |
| HTTP retry (`src/lib/http/retry.ts`) | none | fetchWithRetry | delay bounds, abort during sleep | attempts and delays bounded |
| MFA, sessions (`src/lib/security`) | challenges, backup codes | enrol, verify, consume | concurrent consumption | a code is used once |
| API factory, rate limiting (`src/lib/api`, `src/lib/ratelimit`) | Redis windows | withApiGuards | degraded mode | - |
| Tool factory, planning tools (`src/ai`) | plans in Redis | tool calls, cache, limits | non-atomic read-modify-write of a plan | - |
| Search services (`src/domain`, `src/lib/activities`, `src/lib/google`, `src/lib/calendar`) | caches, external APIs | search, details, quota | mostly I/O | - |
| Realtime channel (`src/hooks/supabase/use-realtime-channel.ts`, `src/lib/realtime/backoff.ts`) | channel state, retry timer | subscribe, error, backoff, unmount | callbacks after unmount, timer races | at most one live channel |
| Client trips and stores (`src/hooks/use-trips.ts`, `src/lib/trips`, `src/features/*/store`, `src/stores`) | query cache (itinerary and saved places of a trip, trip lists), zustand stores | optimistic change, rollback, refetch, hydration of a rendered page | mutations that overlap, fetches cancelled by others, calls that fail after they wrote | a list that is not flagged is true; no entry shown twice; the cache converges to the server |
| Token budget, recurring rules, itinerary helpers (`src/lib/tokens`, `src/lib/dates`, `src/lib/trips`) | none | pure algorithms | boundaries | agree with their definition |
| Database schema (`supabase/migrations`) | tables, policies, triggers | SQL | - | - |
| UI (`src/app/(app)`, `src/components`) | React state | rendering | - | - |

How they interact: a Postgres trigger posts a change to one or more webhook
endpoints; an endpoint reserves the event key in Redis and publishes a QStash
message; the broker posts the message to a job route until it is answered 2xx,
the retries run out or the route answers 489; the job route takes the message's
in-flight lock, and the job handler a second, business key; the notification
sender calls Resend behind the circuit breaker. Redis is the only memory these
runs share.

A chat turn writes its rows step by step while other turns of the conversation run,
and hands what was said to the memory orchestrator, which stores it and queues a
memory-sync job. In the browser the query cache of a trip meets the Server Actions
that change it and the pages they render anew.

Besides these, administrators' updates of an agent's configuration meet
requests that resolve it through the cache, and a booking runs through approval
(Redis), payment (Stripe), reservation (Amadeus) and persistence (Postgres) in one
tool call. The hazards of each part, with the line where each one bites, are listed
in `PROJECT.json`.

## Modules

| Module | What it models | Composes |
|---|---|---|
| `MessageOutcome` | what the job layer promises about a message | - |
| `QstashJob` | a message, its delivery attempts and their function runs, the in-flight lock | implements `MessageOutcome` |
| `KeyedJob` | the job routes with a business key on top of the message lock | `QstashJob` (its `handle` step taken apart); implements `JobLayer` |
| `JobLayer` | what the layers around a handler may do to a job that has a business key of its own | - |
| `WebhookGate` | the webhook endpoints and the event keys they share | - |
| `AgentConfig` | configuration rows, the cache tag, updates and readers | the cache tags |
| `BookingSaga` | approval, charge, reservation, row, refund | the retry helper, the approvals |
| `CircuitBreaker` | concurrent senders on the breaker's three Redis keys | the notification sender |
| `MemorySync` | turns on their way into memory, by request and by job | the orchestrator, its adapters, the job's handler, under `JobLayer` |
| `ChatTurn` | submits and regenerations of one conversation | the chat rows, tool calls, the hand-over to memory |
| `TripLists` | a trip's itinerary or saved places in the query cache | the hooks, the Server Actions, the rendered page |

`MC<Module>` gives the constants values for TLC, `<Module>_<question>.cfg` is a run,
`<Module>Proofs` holds the theorems
(those of `QstashJob` are in `KeyedJobProofs`, which needs them). "Variant" definitions stand before the operator
they vary: a plausible bug in that place, by which each property was tested (see
"mutants" in `PROJECT.json`).

The modules share their conventions. An await of the code is a boundary between two
actions; a Redis command, a Lua script, a SQL function, a call of a remote API is
atomic. A remote call that fails may have been applied or not. Data is abstracted to
what the properties tell apart: a configuration is the number of its write, an event
is its key's fields, amounts, names and payloads are left out. Seconds become ticks;
time is kept as countdowns and ages, so that the state space does not grow with the
length of a run.

## QstashJob: one background message

`QstashJob.tla` composes three parties: the broker (`phase`, `retried`, `due`),
the function runs that answer its deliveries (`pc`, `age`, `reply`, one run per
attempt) and Redis (`marker`, `ttl`). Attempt `a` of message `m` is a process of
its own, because when QStash stops waiting for a delivery the function run
behind it keeps going: two attempts of one message really overlap.

| Control point of a run | Code |
|---|---|
| `verify` | `runQstashJob` from entry to the guard: signing keys, `verifyQstashRequest`, message id |
| `guard` | the `SET key "processing" EX 240 NX` of `enforceQstashMessageIdempotency` |
| `inspect` | the `GET key` when the SET found the key taken |
| `parse` | `JSON.parse` and the schema; a failure releases and answers 489. Whether a message fits the schema is open at every attempt: the schema is that of the deployment the attempt runs in |
| `handle` | `options.handle` |
| `commit` | the Lua script behind `commitProcessed`; its failure is logged, the answer is 200 all the same |
| `release` | `redis.del(key)`, unconditional, then 489 or 500 |
| `reply` | answered; `reply[m][a]` is the HTTP status |
| `dead` | crashed or killed at the function limit |

The await points of the code are the boundaries of the actions: between two of
them anything else may happen, another attempt's Redis call included. The Redis
calls are atomic (a single command or one script).

Time is discrete, one tick for ten seconds, and kept as countdowns (`ttl` of the
lock, `due` of the next delivery) and ages of runs, so the state space does not
grow with the length of a run of the system. `Tick` cannot let a run grow older
than `RunLimit`: a run at its limit must end or crash first, the platform's
guarantee (`vercel.json` maxDuration). The 24-hour `done` marker outlives all
redeliveries of a message (at most 320 s of backoff plus six runs), so it has no
countdown.

What may go wrong is the environment's: `crash` (a run dies), `redis` (a call
fails, and a SET may have been applied although its answer was lost), `throw`
(verification or the handler fails), `lost` (the broker does not see the
answer). `FaultBudget` bounds each kind and `MaxFaults` all of them, in the
guards of the actions.

The broker is external, modelled from the constants and headers the code sends
it (`config.ts`, `client.ts`) and the statuses it answers: 2xx acknowledges, 489
dead-letters, all else is retried after `10000 * 2^retried` ms up to five times.

That retries end is the broker's doing; that they end well is the code's. `Delivered`
says that a message is acknowledged with its work done as long as the faults leave an
attempt to spare (`Survivable`: one fault of any kind, or throws on all attempts but
one) and no attempt answered 489. It needs every failed attempt to free the lock, a
processed message to be acknowledged when its first answer was lost, and the delays to
reach past the lock of a run that died.

### Abstract specification

`MessageOutcome.tla` is what the job layer promises without runs, locks or time:
a message is settled at most once, acknowledged only when processed, and
processing is not forgotten. `OutcomeSpec` maps QstashJob to it.

## KeyedJob: a business key on top of the message lock

`notify-collaborators` and `memory-sync` do their work under a second Redis key
(`notify:<eventKey>`, `memory-sync:<idempotencyKey>`, 300 s), which several messages
may carry. `KeyedJob` extends `QstashJob` and refines its `handle` point:

| Stage of a run at `handle` | Code |
|---|---|
| `reserve` | `tryReserveKey`, fail closed: taken → `Duplicate` (the handler returns `{ duplicate: true }`, the message counts as processed), Redis failure → the handler throws, the key perhaps set |
| `work` | the notifications or the turns; `worked` counts completed passes per key |
| `worked` | the handler returns |

When the work throws, the key is deleted (`releaseKey`, whoever holds it, fail open)
and the error goes on to the job runner. All other steps of a run, the broker's and
the platform's, are those of `QstashJob`. The notification sender swallows the errors
of its own channels, so a completed pass is not a delivered mail; `worked` says that
the pass was made.

### What a handler may rely on: JobLayer

`JobLayer.tla` says what all of this amounts to for a job whose business key is its
own, without messages, locks or time. `LayerSpec` maps KeyedJob to it:

| JobLayer | KeyedJob |
|---|---|
| `job[m]` (`JobOf`) | `working`, `reworking`: a run is at the stage `work`, and the work was done before or not; `done`: the work was done; `lost`: a run has returned and the work was not done; `queued`, `dead`: none of these, and attempts are left or not |
| `left[m]` (`LeftOf`) | the attempts that may still get to the work: those not begun, and those on their way to it |
| `calm` (`Calm`) | no run has died, no answer or Redis call was lost, no payload was rejected; handlers may throw and requests fail their verification |

While the layers are calm a job is worked on once for each attempt, a throw costs that
attempt and no more, only a job without attempts left is given up, and a job that is
done rests. Behind a fault JobLayer promises less, and more than the code does in
places: any number of attempts may be spent (a run that dies leaves a lock of 240 s,
which turns attempts away for as long), the job may end as `lost` (a retry that meets
its own earlier reservation counts as a duplicate), a done job may be worked on again.
One run at a time it stays, and one for each attempt.

The mapping is for messages with keys of their own (`DistinctKeys`), as the jobs of
`memory-sync` are: `src/lib/memory/upstash-adapter.ts:43` builds the key from the
session and the turn. It is proved (`ImplementsJobLayer`), and in no run: the keyed run
is about two messages of one key.

## WebhookGate: endpoints that share event keys

A posting is one change posted to one endpoint; it has attempts, each with a function
run of its own, for the sender's timeout does not stop the run.

| Control point of a run | Code |
|---|---|
| `check` | rate limit, size, signature, schema (`createWebhookHandler` up to the reservation) |
| `reserve` | `tryReserveKey(eventKey)`, fail closed |
| `filter` | the endpoint's table filter, behind the reservation |
| `handle` | the route's handler: returns, or throws with a status |
| `release` | the reservation given back when the status is 500 or above |
| `answered`, `dead` | HTTP status in `status`; killed |

The key is table, type, time and record, without the endpoint: `hooks/cache`,
`hooks/trips` and `hooks/files` share it, with TTLs of 60 and 300 s.
`HoldEndsBeforeKey` assumes that a run does not outlive its own reservation. With
60 s for both the function and the reservation of `hooks/cache` it holds because the
run is some time old when it reserves; the margin is that small, and the assumption
is named for it. `WebhookDuplicateError` (status 200) is never thrown in the
repository and is not among the statuses.

## AgentConfig: a cache tag and its readers

Updates (`PUT` and rollback) write the row and then bump the tag `configuration`;
readers take the tag's version into their key, look up, load the row and store it.

| Variable | Code |
|---|---|
| `row` | `agent_config`: serial number of the last write, 0 if absent |
| `counter` | Redis `tagver:configuration`, 0 if absent |
| `cache` | entries `agent:version` with their configuration |
| `updating`, `reading` | where an update or a reader is between its awaits |
| `invalidated`, `floor` | bookkeeping of the property: the newest write whose invalidation was reported, and its value when a reader began |

Failing calls: a row written although the answer was lost, a bump applied although it
failed, reads answered as a miss, a store swallowed; any entry may expire at any
time. Next's own `"use cache"` layer in front of the resolver has its own tags and is
not modelled, nor is the merge of a PUT body with the row it loaded before
(a configuration is one value here; see the hazards).

## BookingSaga: charge, reservation, row, refund

A call is one execution of the tool `bookAccommodation`.

| Control point of a call | Code |
|---|---|
| `approve`, `ask` | guards of `AccommodationsService.book`; `requireApproval`: GET, then SET `pending` and throw |
| `pay` | `processBookingPayment`: create and confirm the payment intent |
| `book` | `createBooking` under `retryWithBackoff`: only 5xx is tried again, 408 after a timeout is not |
| `persist` | insert into `bookings`, status CONFIRMED |
| `refund` | `refundOnFailure`, whose own failure only raises an alert |
| `tidy` | `bumpTag(CACHE_TAG_SEARCH)`, behind the orchestrator |
| `booked`, `failed`, `dead` | returned; `accom_booking_failed`; killed |

`approval` is the Redis key that a user's decision writes; nothing consumes it, calls
with the same idempotency key share it, and it may be granted, denied or expire at
any moment. (The functions that write a decision are exported; their caller, the
approval dialog, is not in the repository.) `granted` remembers what was ever
approved. `trouble` remembers, per call, the lost answers and failures that
excuse what they leave behind: the properties name them one by one, so that nothing
else is excused. A provider request that a timeout abandoned may still be carried out
later; it is a reservation made at the time of the timeout here. No cancellation of a
reservation exists in the code.

## CircuitBreaker: many senders, three keys

A sender is one run of `sendCollaboratorNotifications` (or of `resetCircuit`); it
issues one Redis command at a time and anything may happen between two of them.

| Control point of a sender | Code |
|---|---|
| `check`, `count`, `open` | `checkCircuit`: GET `opened_at`, GET `failures`, SET `opened_at` with an expiry of twice the cooldown |
| `send` | the mail client returns, with the mail sent or with an error, or it throws |
| `success`, `clear` | `recordSuccess` with the circuit closed: `failures` is deleted |
| `success`, `ttl`, `probe`, `closing` | `recordSuccess` with it open: TTL of `opened_at`, INCR and EXPIRE of `successes`, and at the threshold three deletions at once, in any order |
| `failure`, `resetSuccesses` | `recordFailure` |
| `resetting` | `resetCircuit` |
| `post`, `done` | the downstream webhook; returned |

A failing command, executed or not, leaves the way the code lets it: out of
`withCircuitBreaker` in `checkCircuit`, into the `catch` in `recordSuccess` (where it
counts as a failure of the call), out of the `catch` in `recordFailure`.

`Send` covers every call that returns. The Resend client resolves to `{ data, error }`
and reports what it could not send, network errors included, in `error`;
`src/lib/notifications/collaborators.ts:91` awaits the call and returns `true` without
looking. So a refused mail is a success to the breaker: it clears the failure count,
it is a probe that closes an open circuit, and it never counts towards opening one.
`SendFails` is a call that throws, which `failed` counts: `OpensOnFailures` says that
nothing else but Redis errors opens the circuit. The sender's result is left out of the
model; `emailed` is true for a refused mail as for one that was sent, though the comment
at `:43` has it indicate "which notification methods succeeded" and the one at `:75` has
the breaker there for Resend outages.

What the code allows, and the properties therefore except or leave open: the successes
of senders that were let in before the circuit opened may close it; a check that lags
behind may open a circuit that was closed meanwhile, on failures that did happen; all
callers behind the cooldown are probes at once, and a failing probe does not open the
circuit again. When `opened_at` expires between two commands the successes live for
twice the default cooldown (`DefaultTtl`), not twice the caller's. Without Redis the
breaker is absent.

## MemorySync: a turn's two ways into memory

A request hands a turn to the Supabase adapter, which stores it, and then to the
Upstash adapter, which queues a job whose handler stores it too: in the normal case
a turn has two rows (`rows[t].adapter`, `rows[t].job`).

| Control point | Code |
|---|---|
| request: `check`, `create`, `insert`, `touch` | `handleOnTurnCommitted` of the Supabase adapter |
| request: `enqueue` | the Upstash adapter; the orchestrator's status follows from both answers |
| job: `access` | the check of the chat session |
| job: `check`, `create` | the memory session, inserted if it is not there: the loser of a race gets an error and the run is retried |
| job: `lookup`, `insert` | the read of stored turns, the dedupe keys, the insert |
| job: `touch`, `chatTouch` | the two `updated_at` |
| job: `queued`, `working`, `reworking`, `done`, `dead`, `lost` | where the job stands with the layers around the handler: the variables `job`, `left`, `calm` and the actions on them are those of `JobLayer` |

`Sent` and `ReadBack` are the two texts of one time, "Z" in the message and "+00:00"
in what PostgREST returns: the dedupe keys are built from the text as it is. A message
carries one turn; batches of 50, which the adapter never queues, collapse to that.

`step` is the next call of the run that is at work. `Deliver` is JobLayer's `Start`, a
throw its `Fail`, the answer of the last call its `Finish`; `LayerFails` and
`LayerRecovers` are its `Disturb` and `Aftermath`, a fault of the layers and what it
leads to later (a run killed between two of its calls, attempts that meet a stale lock, a
retry that counts as a duplicate). KeyedJob stays at its stage `work` from the first
call to the last; what happens in between is MemorySync's. As KeyedJob implements
JobLayer, what is proved of a memory job covers the locks, keys and retries of the code,
under `DistinctKeys`.
`DeleteUserMemories` and `DeleteChat` are the user's, at any moment.

## ChatTurn: the rows of a conversation

A turn is one call of `handleChat`, a submit or a regeneration.

| Control point of a turn | Code |
|---|---|
| `idle` | the history is loaded: the latest `HistoryLimit` rows without the superseded ones; an answer to regenerate must be among them, behind a user's row |
| `user` | memory hand-over and insert of the user's message |
| `supersede` | the metadata of the answer to replace |
| `insert` | the placeholder of the new answer, then the token budget, which may refuse the turn |
| `stream`, `step` | `onStepEnd`: tool calls and their outcomes, the checkpoint of the row |
| `close` | `onEnd`: calls without outcome, the final update (`completed`, `aborted`, `failed`) |
| `memory`, `done`, `refused`, `crashed` | the assistant's hand-over; returned; killed |

In an ephemeral session a failing insert is tolerated and the turn goes on without a
row (`owned` is false); otherwise it refuses. `raced` and `harmed` remember, message by
message, what `OneAnswer` excepts: turns of one message that overlap (nothing in the
code orders them: two regenerations leave two visible answers, and the end of a stream
may write over "superseded", as its metadata is a copy of the start), and faults (a
failed insert behind the superseding leaves no visible answer). A refusal by the budget
leaves its placeholder `streaming`, visible until it is regenerated. A regenerated
answer is a new row at the end, wherever the old one stood. `chat_tool_calls` has no
unique index, so a call may have several rows after a lost answer, none of them with a
wrong outcome.

Not in the model: creation and deletion of sessions under a turn, the memory context
put into the prompt, the arithmetic of the budget.

## TripLists: optimistic lists in the browser

A mutation is one call of a hook of `src/hooks/use-trips.ts`.

| Control point of a mutation | Code |
|---|---|
| `idle` → `cancelled` | `onMutate` up to its await: `cancelQueries` |
| `cancelled` → `sent` | the rest of it: the list is kept (`previous`) and replaced (`Optimistic`) |
| `sent` → `ok`, `error` | the Server Action (`src/lib/trips/actions/{itinerary,saved-places}.ts`): it writes and answers, writes and answers an error (a created row that fails validation, a lost answer), refuses, or is given up and perhaps carried out later (`late`) |
| `ok`, `error` → `settling` | `onSuccess` puts the row in place of the optimistic entry, `onError` puts `previous` back |
| `settling` → `settled` | `onSettled`: `invalidateQueries` |

`useUpdateTrip` cancels the fetches of both lists (its key is a prefix of theirs) and
has them fetched again only when it succeeds. The query cache is TanStack Query's,
external, modelled by what the calls do: `data`, `invalid`, the running `fetch` and
`revert`, what the query returns to when the fetch is cancelled. `page` is the list of
a trip page on its way (`HydrationBoundary`): rendered for a visit, or because
`savePlace` and `removePlace` revalidate the path.

Of a list the order is left out. Next's router runs one Server Action after the other;
the model lets them overlap, so what it shows holds with and without that. The clocks
of server and browser, by which a page is taken or left, are taken to agree, and a page
is read and stamped in one step.

`marks` names what the properties except. "disturbed": an invalidation left a running
fetch going (list off the screen, or its first fetch), which then clears the flag; a
call that was given up and may be carried out later; a write while a page was on its
way. "unrefreshed": a list that is flagged only, a fetch that failed for good, a trip
update that failed after cancelling a fetch.

## Runs

| Run | Question | Bounds | Why they are enough |
|---|---|---|---|
| `job_safety` | Are the job runner's safety properties and `OutcomeSpec` kept, does a message survive any one fault, and is it delivered while attempts are left? | one message, four retries, delays 1, 2, 4, 8 ticks, lock 12, runs up to 3; four throws, one fault of every other kind, four in all | messages share nothing; attempts overlap, a third finds what they left; as in the code (10..160 s against 240 s) the sum of the delays passes the lock and no single delay does |
| `keyed_safety` | Is the work exclusive, is nothing lost? | two messages of one key, one retry each, two faults, one failed key call | four runs contend for one key; its TTL (3) passes between attempts |
| `breaker_safety` | Does an open circuit keep new senders out, open on failures only, and recover? | two senders, thresholds 2, cooldown 1, window 2, two calls that throw, one failing command | a sender begins again and again, so two suffice for one inside and one that checks; failures and the fault reach the threshold in every mixture |
| `memory_safety` | Is the orchestrator's answer true, do deletions last, do retries suffice, is every queued turn stored? | two turns, two attempts of a job, one fault (of a request, a handler or the layers), one deletion | two requests and two jobs race for one session; the lost race costs one attempt and leaves one; a fault of the layers hands a job out again, loses it or spends its attempts |
| `memory_twice` (violation) | Does a rerun store a message once? | one fault | - |
| `chat_safety` | One answer to a message, tool calls recorded, memory true, no answer left streaming? | one submit, two regenerations, one of them calling a tool, history of three rows, two faults | regenerations of an answer, of a regenerated one and of the same at once; a fourth row pushes the message out of the history |
| `gate_safety` | Is one event handled by one run, its key never orphaned, and does reposting suffice? | one change to two endpoints with different TTLs, one of which skips it; one repost each, one fault of each kind | four runs on one key, every pair of endpoints and attempts among them |
| `gate_serves` (violation) | Does each endpoint serve the tables it is documented for? | one change, two endpoints, no faults | - |
| `config_safety` | Does no reader get less than what was invalidated before it began? | two updates of one agent, one of another, two readers, any failures and expiry | a stale store needs one reader that is slow and one that begins later; a second update makes versions and writes diverge, another agent bumps the same tag |
| `config_first` (violation) | The same on a tag that was never bumped | one update, two readers | - |
| `booking_safety` | Are charges approved, failures refunded, rows paid for, reservations single? | two calls with one idempotency key, three attempts at the provider (the default), no bound on faults | a call is finite by itself; the key is the only thing calls share |
| `trip_lists_safety` | Is an unflagged list true, an entry shown once, does a list converge? | every pair of two calls on one list (create, edit, delete, trip; save, save with prefix, remove with and without, trip), one row that may be there, any failures, any number of fetches and pages | rollback over another's change, a fetch cancelled by another and a created row beside its draft each need two mutations; a third adds no new relation between two of them |

The largest run, `trip_lists_safety` (1.3 million states), takes three minutes with two
workers, `memory_safety` (0.38 million) two, all others less. Deadlock is checked where
the system cannot stop: time always passes in `QstashJob` and `KeyedJob`, a sender can
always begin again, a user can always decide or reload. Postings, updates, readers and
turns are finitely many and end; the runs of `WebhookGate`, `AgentConfig`, `MemorySync`
and `ChatTurn` say `CHECK_DEADLOCK FALSE`.

The bounds on faults (`FaultBudget`, `MaxFaults`, `MaxKeyFaults`, `MaxFailures`,
`MaxDeletions`) are in the guards of the actions that inject them; the number of
attempts (`MaxRetries`, `MaxPosts`, `MaxAttempts`, `RetryAttempts`) is the code's or the
sender's own limit. The one state constraint, `NoPageBehind` of `MCTripLists`, drops
pages rendered behind a disturbance, of which `FreshIsTrue` and `Converges` do not speak
any more: `Converges` is true of a behaviour once it is marked, so that the constraint
hides no counterexample of it; `ShownOnce` does speak of them and is proved without it.

### Fairness

`job_safety`, `breaker_safety`, `memory_safety`, `chat_safety` and `trip_lists_safety`
check liveness, under a `FairSpec`; all fairness is weak.

| Module | Assumed | Because |
|---|---|---|
| `QstashJob` | the broker delivers what is due and takes in answers, a run goes on, time passes | the broker's contract; an event loop with no lock to wait for |
| `CircuitBreaker` | a sender inside goes on (an answer or an error), time passes | every command is answered or times out; keys expire |
| `MemorySync` | what is queued is delivered, and a run goes on, fails or is over | as above |
| `ChatTurn` | a turn goes on | calls are answered or fail; step count, timeout and abort signal bound the stream |
| `TripLists` | a mutation and a fetch that began go on, a call is answered, or given up | promises of the browser are settled |

Nothing is assumed of faults, crashes, lost answers, users, of pages, nor of calls
carried out late: they may or may not happen.

## Theorems

Everything below holds for every number of messages, attempts, keys, postings,
endpoints, updates, readers, bookings, senders, turns and mutations, every schedule and
every fault budget.

| Module | Theorem | States |
|---|---|---|
| `KeyedJobProofs` | `TypeCorrect`, `MutualExclusion`, `AcknowledgedMeansHandled`, `LockIsNeverOrphaned`, `ImplementsOutcome` | the properties of `job_safety` |
| | `OneFaultSurvived` | of `job_safety` too, under `BackoffOutlastsLock` |
| | `LockIsLive`, `DoneIsFinal` | a run inside holds a live lock (`LockHeld`); `done` is never undone (`ProcessedIsFinal`) |
| | `ImplementsQstashJob` | `KeyedSpec => Spec`: all of the above holds of the keyed jobs |
| | `KeyedTypeCorrect`, `ExclusiveWork`, `NoWorkIsLost` | the properties of `keyed_safety` |
| | `ReservationIsLive` | a run at work holds a live business key (`KeyIsLive`) |
| | `ImplementsJobLayer` | `KeyedSpec => LayerSpec` under `DistinctKeys`: the layers that `MemorySync` takes for granted are those the code has |
| `WebhookGateProofs` | `GateTypeCorrect`, `OneHandlerPerEvent`, `NoReservationIsOrphaned`, `RepostsMakeUp` | the properties of `gate_safety` |
| | `ReservationsLive` | a run at work holds a live event key (`ReservationLives`) |
| `AgentConfigProofs` | `ConfigTypeCorrect`, `InvalidationIsSeen` | the properties of `config_safety` |
| `BookingSagaProofs` | `BookingTypeCorrect`, `ChargesAreApproved`, `FailuresAreRefunded`, `RowsArePaidFor`, `OneReservation` | the properties of `booking_safety` |
| `CircuitBreakerProofs` | `BreakerTypeCorrect`, `CooldownIsKept`, `OpeningNeedsFailures` | the invariants of `breaker_safety` |
| `MemorySyncProofs` | `MemoryTypeCorrect`, `ReportsAreKept`, `DeletedStaysDeleted`, `RetriesAlwaysSuffice` | the invariants of `memory_safety` |
| | `OneRowPerAttempt` | a job stores its message once for each attempt at most, whatever fails (how far `memory_twice` can go) |
| | `ImplementsLayer` | `Spec => LayerSpec`: what requests, handlers and deletions do to a job is what `JobLayer` allows |
| `ChatTurnProofs` | `ChatTypeCorrect`, `AnswersAreReplaced`, `ToolsAreRecorded`, `MemoryIsTrue` | the invariants of `chat_safety` |
| `TripListsProofs` | `TripListsTypeCorrect`, `UnflaggedIsTrue`, `NewItemShownOnce` | the invariants of `trip_lists_safety` |

Assumptions, besides the types of the constants: `RunEndsBeforeLock` (runs of at most
60 s under a lock of 240 s), `RunEndsBeforeKey` (under a key of 300 s),
`HoldEndsBeforeKey` (see WebhookGate), `PowersOfTwo` (2^a is a number, twice as large
for the next a), for `OneFaultSurvived` that `BackoffOutlastsLock` (310 s of delays
between the first attempt and the last, against a lock of 240 s; 15 ticks against 12 in
the run), for `ImplementsJobLayer` that `DistinctKeys` (see KeyedJob), finitely many
senders (their failures are counted), and for `InvalidationIsSeen` that the tag
was bumped before (`InitialVersion # 0`), without which it is false (`config_first`).

The inductive invariants:

- **Locks.** That two runs are never inside together is not inductive: a lock might
  expire under its holder. `LockInv` adds that the lock's remaining time and the
  holder's age sum to at least the lock's TTL; since no run is older than `RunLimit`,
  which is below the TTL, a held lock has not expired, and the next SET NX fails. The
  business key (`KeyInv` of KeyedJobProofs) and the event key (`KeyInv` of
  WebhookGateProofs, over endpoints with different TTLs) follow the same argument.
- **Acknowledged is handled.** `HandledInv` carries the fact from the handler through
  `commit`, `reply` 200 and the `done` marker to the broker.
- **One fault.** `Survives` says of every message: attempts begin in turn; before any
  fault the first attempt finds the key free and fails by a 489 only; behind one fault a
  retry fails by a 409 only, what the fault left behind (a run going on, a lock nobody
  holds) is as old as the delays since, and so the last attempt meets neither, a lock
  having expired by then, and a run having reached its limit. `LockInv` gives the lock's
  side of it.
- **Calm layers.** `CalmInv`: without a fault of the layers a message's attempts run one
  after the other, the lock, the marker and the business key belong to the current one,
  and the work is done if and only if a run has returned. It needs the invariants of the
  business key and `WorkedInv`. A fault makes it vacuous, and JobLayer's steps wide.
- **Nothing lost.** `LossInv`: in a clean history a taken business key stands for work
  done or a run at it, and a key whose work is not done has a message not handled. It
  rests on `DoneInv`: a handled message has its `done` marker or a run about to
  write it, so no later attempt is turned away for a reason that does not exist.
- **Reposting.** `SenderFacts`: the only run at work is the one its sender waits for,
  so a duplicate never answers for a run that may still fail unnoticed by its sender.
- **Freshness of the configuration.** `FreshInv`: what is cached, or about to be stored,
  under the current version is as new as the last invalidation; no key is ahead of the
  tag; what is under a reader's key is new enough for that reader. A bump makes the
  first part vacuous, and a store under an old version disturbs only readers that began
  before.
- **Booking.** `SagaInv` says for each control point what has happened at Stripe, at
  the provider and in the table, and bounds reservations by failed attempts.
- **The breaker.** The cooldown rests on the types: no command of a sender makes an
  opening younger but SET `opened_at`, and that notes who is inside. Opening on
  evidence is a counting argument, `Covered`: the count in Redis and the failures
  not yet counted are together at most the failures that happened.
- **Memory.** `Reported` follows a request through its two adapters; `Gone`: an erased
  turn has nothing under way, so nothing of it can come back unless the layers run its
  job again; `Tries`: with calm layers the attempts a job has spent are at most the
  faults that were injected and one, and that one behind a session that is there from
  then on. `PaidFor`: the rows of a job, the attempts it has left and the run that has
  not stored yet are together at most `MaxAttempts`.
- **Chat.** `PhaseInv`: of a message whose turns did not overlap and met no fault one
  turn is at work at a time, at most one answer is shown, none between the superseding
  and the next insert, and the turn's own while it streams. It rests on `RootInv`: what
  a turn regenerates is an answer, with a row, to the same message. `ToolInv` relates the stream's
  view of a call to its rows at every point of the stream, `RememberInv` the memory to
  the row's status.
- **Lists.** `FreshInv`: a page on its way is what the server has, and unless a
  mutation has changed the list and not yet asked for it again, so are what a fetch has
  read and the list, now and after a cancellation, if not flagged. `OnceInv`: no list
  anywhere (shown, kept for a rollback, read, at the server, on a page) has both the
  row and the draft of a mutation, and the row only once its action may have been
  called. Neither property is inductive without the lists nobody sees.

Refinement is proved by step simulation: `ImplementsOutcome` maps a message's phase
and handler count to `MessageOutcome`; `ImplementsQstashJob` shows that every step of
a keyed run is a step of `QstashJob` or a stutter. `ImplementsJobLayer` takes the steps
of one message apart by what they do to the count of attempts left (`LeftShrinks`) and to
the work (`JobCases`): reserving the key in the calm is `Start`, the work `Finish`, its
throw `Fail`, a failing verification `Refuse`; everything behind a fault is an unsettling
step or nothing. `MemorySync` uses the actions of `JobLayer` through an INSTANCE, so that
the theorems of the two modules meet at that specification (`ImplementsJobLayer`,
`ImplementsLayer`).

Only model-checked: the liveness properties `Delivered`, `Recovers`, `QueuedIsStored`,
`StreamingEnds` and `Converges`, which are out of the prover's reach.

## What the models found

Three statements of documentation or comments are not what the code does; each is the
property of a violation run, with its counterexample.

- `gate_serves`: endpoints share event keys, so of two endpoints documented for one
  table only the first to reserve does its work.
- `config_first`: the first bump of a tag (INCR of an absent key) gives the version
  an absent key stands for, and invalidates nothing.
- `memory_twice`: the dedupe keys of stored and of new turns are built from two texts of
  the same time and never agree, so a rerun behind a successful insert stores its turns
  again; the comment at `src/app/api/jobs/memory-sync/_handler.ts:128` calls that safe.

Other behaviours a reader should know of, which the properties except or which follow
from the code's numbers:

- The lock of a message is 240 s, its last backoff 160 s. A crash at the fifth attempt
  leaves a lock that turns the last attempt away, and the message is dead-lettered.
  `OneFaultIsSurvived` holds since earlier attempts must have failed as well.
- A failed `commitProcessed` is only logged. If the 200 is lost as well, the message is
  processed again.
- A run that dies after reserving its business key makes its own retry a "duplicate",
  which is acknowledged: the work is never done. `NothingLost` excepts runs that died.
- The search tag is bumped behind the committed booking; when that fails, a paid and
  stored booking is reported as `accom_booking_failed`.
- Those of the breaker, the conversation and the lists are in their sections above.
- The example of `src/lib/realtime/backoff.ts` has a delay of 1000 ms for attempt 0 where
  the code gives 0; the channel is not modelled.

## Not modelled, and why

- Search, details and activity services: calls of external APIs behind caches.
- The API factory and rate limits: a stateless pipeline; the sliding window is the
  library's. User interface: rendering. Generated types, schemas, seeds: data.
- MFA and sessions: mostly calls of Supabase Auth; last in the plan.
- Deduplication ids at the broker: the broker's.
- Inside modelled parts: the merge of a PUT body with the row it loaded before
  (`src/app/api/config/agents/[agentType]/route.ts:149`; a configuration is one value in
  `AgentConfig`), Next's "use cache" layer, delays of `retryWithBackoff`; `fetchContext`,
  which only reads, the insights cache, `syncSession` and `backfillSession`, which
  nothing calls; sessions that come and go under a chat turn; the trips themselves in
  the query cache (`useCreateTrip`, `useDeleteTrip`, the lists of trips) and what other
  users change.
- `components` in `PROJECT.json` gives the status of each part.

## Plan

Done: QstashJob, KeyedJob, WebhookGate, AgentConfig, BookingSaga, CircuitBreaker,
MemorySync, ChatTurn, TripLists, with proofs. Next, in this order:

1. **JobPipeline**: posting to notification, composing WebhookGate and KeyedJob by
   what they promise; an event accepted by an endpoint is worked on once at least in
   a clean history. (MemorySync is composed with the job layers, by JobLayer; a chat
   turn's hand-over to it is not.)
2. Merge of PUT bodies in AgentConfig; expiry-driven re-sending in KeyedJob.
3. **StripeWebhook**: the gate with release on any error and a key of three days.
4. **RealtimeChannel** (channel callbacks, backoff timer, unmount), and trips in the
   query cache.
5. Attachments and the RAG index (partial failure, a document that shrinks); the
   read-modify-write of a stored plan.
6. Pure algorithms (retry delays, `chunkText`, token budget, recurring rules) as
   functions against reference definitions.
