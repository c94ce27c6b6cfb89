--------------------------- MODULE CircuitBreaker ---------------------------
(***************************************************************************)
(* The circuit breaker of src/src/lib/circuit-breaker/index.ts around the  *)
(* mail that sendCollaboratorNotifications                                 *)
(* (src/src/lib/notifications/collaborators.ts) sends, for any number of   *)
(* concurrent senders.  The breaker's state is three Redis keys, each with *)
(* its own expiry; a sender reads and writes them one command at a time,   *)
(* and everything may happen between two commands.                         *)
(*                                                                         *)
(* A failure is a call of the mail client that throws.  Whatever the call  *)
(* resolves to is a success to the breaker and to the sender: nobody looks *)
(* at the error a Resend client returns for a mail it could not send.      *)
(* What a sender reports of its mail is therefore not modelled.            *)
(*                                                                         *)
(* Time is counted in the units of the keys' expiries.  A command whose    *)
(* answer is lost may have been executed.                                  *)
(***************************************************************************)
EXTENDS Naturals, FiniteSets

CONSTANTS
    Senders,            \* runs of the notification job, and of resetCircuit
    FailureThreshold,   \* failures that open the circuit
    SuccessThreshold,   \* successes that close it
    CooldownSeconds,    \* how long an open circuit rejects
    FailureWindow,      \* expiry of the failure count
    DefaultTtl,         \* twice the default cooldown, not the caller's
    MaxFailures,        \* bound: calls of the mail client that throw
    MaxFaults           \* bound: Redis commands that fail

ASSUME BreakerAssumption ==
    /\ IsFiniteSet(Senders)
    /\ FailureThreshold \in Nat \ {0}
    /\ SuccessThreshold \in Nat \ {0}
    /\ CooldownSeconds \in Nat \ {0}
    /\ FailureWindow \in Nat \ {0}
    /\ DefaultTtl \in Nat \ {0}
    /\ MaxFailures \in Nat
    /\ MaxFaults \in Nat

VARIABLES
    store,      \* the three keys
    pc,         \* the command a sender issues next
    ttlSeen,    \* the expiry a sender read for opened_at
    dels,       \* deletions a sender has issued and Redis not yet executed
    bystanders, \* history: senders past their check when the circuit opened
    failed,     \* history: calls of the mail client that threw
    faults      \* history: Redis commands that failed

vars == <<store, pc, ttlSeen, dels, bystanders, failed, faults>>

OpenTtl == 2 * CooldownSeconds

Keys == {"opened_at", "failures", "successes"}
Absent == [n |-> 0, ttl |-> 0]
NotOpened == [age |-> 0, ttl |-> 0]

\* Where a sender stands: "idle" and "done" are outside, "post" is behind
\* withCircuitBreaker, the others are the commands of the breaker.
Checking == {"check", "count", "open"}
Succeeding == {"success", "clear", "ttl", "probe", "closing"}
Failing == {"failure", "resetSuccesses"}
Points == {"idle", "send", "post", "done", "resetting"}
            \cup Checking \cup Succeeding \cup Failing

\* A circuit whose cooldown has not passed.
Fresh == store.opened.ttl > 0 /\ store.opened.age < CooldownSeconds

\* A sender that is past its check: it was let through, or is about to be
\* unless the failure count stops it, or its deletions are under way.
Inside(c) == pc[c] \in {"count", "send"} \cup Succeeding \cup Failing

Init ==
    /\ store = [opened |-> NotOpened, failures |-> Absent, successes |-> Absent]
    /\ pc = [c \in Senders |-> "idle"]
    /\ ttlSeen = [c \in Senders |-> 0]
    /\ dels = [c \in Senders |-> {}]
    /\ bystanders = {}
    /\ failed = 0
    /\ faults = 0

-----------------------------------------------------------------------------
(* What the command a sender is about to issue does to the keys. *)

Opened == [store EXCEPT !.opened = [age |-> 0, ttl |-> OpenTtl]]

FailureCounted ==
    [store EXCEPT !.failures = [n |-> store.failures.n + 1, ttl |-> FailureWindow]]

SuccessCounted(c) ==
    [store EXCEPT !.successes = [n |-> store.successes.n + 1, ttl |-> ttlSeen[c]]]

Deleted(k) ==
    IF k = "opened_at" THEN [store EXCEPT !.opened = NotOpened]
    ELSE IF k = "failures" THEN [store EXCEPT !.failures = Absent]
    ELSE [store EXCEPT !.successes = Absent]

Applied(c) ==
    CASE pc[c] = "open" -> Opened
      [] pc[c] = "clear" -> Deleted("failures")
      [] pc[c] = "probe" -> SuccessCounted(c)
      [] pc[c] = "failure" -> FailureCounted
      [] pc[c] = "resetSuccesses" -> Deleted("successes")
      [] OTHER -> store

Goto(c, p) == pc' = [pc EXCEPT ![c] = p]

\* The circuit opens: whoever is past its check now is a bystander.
NoteOpening(c) ==
    bystanders' = IF pc[c] = "open" THEN {d \in Senders : Inside(d)}
                                    ELSE bystanders

-----------------------------------------------------------------------------
(* sendCollaboratorNotifications up to the breaker, and resetCircuit. *)

\* A sender without a mail key or an address goes on to the webhook at once.
Begin(c) ==
    /\ pc[c] \in {"idle", "done"} /\ dels[c] = {}
    /\ \E p \in {"check", "post"} : Goto(c, p)
    /\ UNCHANGED <<store, ttlSeen, dels, bystanders, failed, faults>>

ResetCircuit(c) ==
    /\ pc[c] \in {"idle", "done"} /\ dels[c] = {}
    /\ Goto(c, "resetting")
    /\ dels' = [dels EXCEPT ![c] = Keys]
    /\ UNCHANGED <<store, ttlSeen, bystanders, failed, faults>>

-----------------------------------------------------------------------------
(* checkCircuit. *)

\* Variant: a rejection renews the opening.
GetOpenedAtRenewing(c) ==
    /\ pc[c] = "check"
    /\ Goto(c, IF Fresh THEN "open"
               ELSE IF store.opened.ttl > 0 THEN "send" ELSE "count")
    /\ UNCHANGED <<store, ttlSeen, dels, bystanders, failed, faults>>

\* Variant: an open circuit is left to the failure count.
GetOpenedAtTrustingCount(c) ==
    /\ pc[c] = "check"
    /\ Goto(c, IF ~Fresh /\ store.opened.ttl > 0 THEN "send" ELSE "count")
    /\ UNCHANGED <<store, ttlSeen, dels, bystanders, failed, faults>>

GetOpenedAt(c) ==
    /\ pc[c] = "check"
    /\ Goto(c, IF Fresh THEN "post"
               ELSE IF store.opened.ttl > 0 THEN "send" ELSE "count")
    /\ UNCHANGED <<store, ttlSeen, dels, bystanders, failed, faults>>

\* Variant: the circuit opens one failure early.
GetFailuresEarly(c) ==
    /\ pc[c] = "count"
    /\ Goto(c, IF store.failures.n + 1 >= FailureThreshold THEN "open" ELSE "send")
    /\ UNCHANGED <<store, ttlSeen, dels, bystanders, failed, faults>>

GetFailures(c) ==
    /\ pc[c] = "count"
    /\ Goto(c, IF store.failures.n >= FailureThreshold THEN "open" ELSE "send")
    /\ UNCHANGED <<store, ttlSeen, dels, bystanders, failed, faults>>

SetOpenedAt(c) ==
    /\ pc[c] = "open"
    /\ store' = Applied(c)
    /\ NoteOpening(c)
    /\ Goto(c, "post")
    /\ UNCHANGED <<ttlSeen, dels, failed, faults>>

-----------------------------------------------------------------------------
(* The call.  The mail client returns, with the mail sent or with an error  *)
(* that is not read, or it throws.                                         *)

Send(c) ==
    /\ pc[c] = "send"
    /\ Goto(c, "success")
    /\ UNCHANGED <<store, ttlSeen, dels, bystanders, failed, faults>>

SendFails(c) ==
    /\ pc[c] = "send" /\ failed < MaxFailures
    /\ failed' = failed + 1
    /\ Goto(c, "failure")
    /\ UNCHANGED <<store, ttlSeen, dels, bystanders, faults>>

-----------------------------------------------------------------------------
(* recordSuccess. *)

ReadOpenedAt(c) ==
    /\ pc[c] = "success"
    /\ Goto(c, IF store.opened.ttl > 0 THEN "ttl" ELSE "clear")
    /\ UNCHANGED <<store, ttlSeen, dels, bystanders, failed, faults>>

\* Variant: no default for a key that expired meanwhile.
ReadTtlRaw(c) ==
    /\ pc[c] = "ttl"
    /\ ttlSeen' = [ttlSeen EXCEPT ![c] = store.opened.ttl]
    /\ Goto(c, "probe")
    /\ UNCHANGED <<store, dels, bystanders, failed, faults>>

ReadTtl(c) ==
    /\ pc[c] = "ttl"
    /\ ttlSeen' = [ttlSeen EXCEPT
                     ![c] = IF store.opened.ttl > 0 THEN store.opened.ttl ELSE DefaultTtl]
    /\ Goto(c, "probe")
    /\ UNCHANGED <<store, dels, bystanders, failed, faults>>

CountSuccess(c) ==
    /\ pc[c] = "probe"
    /\ store' = Applied(c)
    /\ \/ /\ store.successes.n + 1 >= SuccessThreshold
          /\ dels' = [dels EXCEPT ![c] = Keys]
          /\ Goto(c, "closing")
       \/ /\ store.successes.n + 1 < SuccessThreshold
          /\ Goto(c, "post")
          /\ UNCHANGED dels
    /\ UNCHANGED <<ttlSeen, bystanders, failed, faults>>

ClearFailures(c) ==
    /\ pc[c] = "clear"
    /\ store' = Applied(c)
    /\ Goto(c, "post")
    /\ UNCHANGED <<ttlSeen, dels, bystanders, failed, faults>>

\* The three deletions are issued together and executed in any order.
DelKey(c) ==
    /\ \E k \in dels[c] :
         /\ store' = Deleted(k)
         /\ dels' = [dels EXCEPT ![c] = @ \ {k}]
    /\ UNCHANGED <<pc, ttlSeen, bystanders, failed, faults>>

Closed(c) ==
    /\ pc[c] = "closing" /\ dels[c] = {}
    /\ Goto(c, "post")
    /\ UNCHANGED <<store, ttlSeen, dels, bystanders, failed, faults>>

WasReset(c) ==
    /\ pc[c] = "resetting" /\ dels[c] = {}
    /\ Goto(c, "idle")
    /\ UNCHANGED <<store, ttlSeen, dels, bystanders, failed, faults>>

-----------------------------------------------------------------------------
(* recordFailure. *)

CountFailure(c) ==
    /\ pc[c] = "failure"
    /\ store' = Applied(c)
    /\ Goto(c, "resetSuccesses")
    /\ UNCHANGED <<ttlSeen, dels, bystanders, failed, faults>>

ResetSuccesses(c) ==
    /\ pc[c] = "resetSuccesses"
    /\ store' = Applied(c)
    /\ Goto(c, "post")
    /\ UNCHANGED <<ttlSeen, dels, bystanders, failed, faults>>

-----------------------------------------------------------------------------
(* A Redis command fails, executed or not.  In checkCircuit the error      *)
(* leaves withCircuitBreaker before its try; in recordSuccess it is caught *)
(* and recorded as a failure of the call; in recordFailure it leaves from  *)
(* the catch.  The sender swallows it in each case.                        *)

RedisFails(c) ==
    /\ faults < MaxFaults
    /\ pc[c] \in Checking \cup (Succeeding \ {"closing"}) \cup Failing
    /\ faults' = faults + 1
    /\ \/ UNCHANGED <<store, bystanders>>
       \/ /\ store' = Applied(c)
          /\ NoteOpening(c)
    /\ Goto(c, IF pc[c] \in Succeeding THEN "failure" ELSE "post")
    /\ UNCHANGED <<ttlSeen, dels, failed>>

\* One of the deletions fails; the others stay under way.
DelFails(c) ==
    /\ faults < MaxFaults
    /\ pc[c] \in {"closing", "resetting"}
    /\ \E k \in dels[c] : dels' = [dels EXCEPT ![c] = @ \ {k}]
    /\ faults' = faults + 1
    /\ Goto(c, IF pc[c] = "closing" THEN "failure" ELSE "idle")
    /\ UNCHANGED <<store, ttlSeen, bystanders, failed>>

\* The webhook behind the mail is best effort, and the sender returns.
Post(c) ==
    /\ pc[c] = "post"
    /\ Goto(c, "done")
    /\ bystanders' = bystanders \ {c}
    /\ UNCHANGED <<store, ttlSeen, dels, failed, faults>>

-----------------------------------------------------------------------------
(* Time. *)

CountDown(key) == IF key.ttl > 1 THEN [key EXCEPT !.ttl = @ - 1] ELSE Absent

Tick ==
    /\ \E k \in {"opened", "failures", "successes"} : store[k].ttl > 0
    /\ store' = [opened |-> IF store.opened.ttl > 1
                            THEN [age |-> store.opened.age + 1,
                                  ttl |-> store.opened.ttl - 1]
                            ELSE NotOpened,
                 failures |-> CountDown(store.failures),
                 successes |-> CountDown(store.successes)]
    /\ UNCHANGED <<pc, ttlSeen, dels, bystanders, failed, faults>>

Work(c) ==
    \/ GetOpenedAt(c) \/ GetFailures(c) \/ SetOpenedAt(c)
    \/ Send(c) \/ SendFails(c)
    \/ ReadOpenedAt(c) \/ ReadTtl(c) \/ CountSuccess(c) \/ ClearFailures(c)
    \/ DelKey(c) \/ Closed(c) \/ WasReset(c)
    \/ CountFailure(c) \/ ResetSuccesses(c)
    \/ RedisFails(c) \/ DelFails(c) \/ Post(c)

Next ==
    \/ Tick
    \/ \E c \in Senders : Begin(c) \/ ResetCircuit(c) \/ Work(c)

Spec == Init /\ [][Next]_vars

\* Commands are answered or fail, the mail client returns or throws, and
\* time goes on; nobody has to send.
FairSpec == Spec /\ WF_vars(Tick) /\ \A c \in Senders : WF_vars(Work(c))

-----------------------------------------------------------------------------
(* Properties. *)

Opening == [age : Nat, ttl : Nat]
Counter == [n : Nat, ttl : Nat]

\* The keys and the senders have the values the code gives them, and no
\* counter outlives its window: one that counts has an expiry.
BreakerTypeOK ==
    /\ store \in [opened : Opening, failures : Counter, successes : Counter]
    /\ store.failures.n > 0 => store.failures.ttl > 0
    /\ store.successes.n > 0 => store.successes.ttl > 0
    /\ pc \in [Senders -> Points]
    /\ ttlSeen \in [Senders -> Nat]
    /\ dels \in [Senders -> SUBSET Keys]
    /\ bystanders \subseteq Senders
    /\ failed \in 0 .. MaxFailures
    /\ faults \in 0 .. MaxFaults

\* While the cooldown of an open circuit has not passed, a sender is past
\* checkCircuit only if it was so when the circuit opened: nobody who asks
\* afterwards gets through, whatever the senders inside do to the keys.
CooldownHolds ==
    Fresh => \A c \in Senders : Inside(c) => c \in bystanders

\* The circuit opens on evidence: never before FailureThreshold calls of the
\* mail client have thrown, or Redis errors been taken for such calls.  A call
\* that returned, whatever became of its mail, never counts towards it.
OpensOnFailures ==
    store.opened.ttl > 0 => failed + faults >= FailureThreshold

\* Once the mail client stops throwing and Redis stops failing the circuit
\* closes for good: by successes, or because its keys expire.
Recovers == <>[](store.opened.ttl = 0)
=============================================================================
