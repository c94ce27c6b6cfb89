----------------------------- MODULE MemorySync -----------------------------
(***************************************************************************)
(* How a turn of a conversation gets into memory: the orchestrator         *)
(* (src/src/lib/memory/orchestrator.ts) hands it to the Supabase adapter,  *)
(* which stores it, and then to the Upstash adapter, which queues a        *)
(* memory-sync job, whose handler                                          *)
(* (src/src/app/api/jobs/memory-sync/_handler.ts) stores it as well.       *)
(* Requests and jobs of one conversation run side by side, one database    *)
(* call at a time, and the user may delete the memories in between.        *)
(*                                                                         *)
(* What happens to a job between its publication and its handler is        *)
(* JobLayer, the promise that KeyedJob is proved to keep for jobs whose    *)
(* business key is their own, as the key of a turn is.  A call whose       *)
(* answer is lost may have been executed.                                  *)
(***************************************************************************)
EXTENDS Naturals

CONSTANTS
    Turns,         \* turns committed to one conversation
    MaxAttempts,   \* runs QStash gives a job
    MaxFaults,     \* bound: calls that fail, runs that die
    MaxDeletions   \* bound: deletions of the user's memories

ASSUME MemoryAssumption ==
    /\ MaxAttempts \in Nat \ {0}
    /\ MaxFaults \in Nat
    /\ MaxDeletions \in Nat

VARIABLES
    chat,      \* whether the row of chat_sessions exists
    session,   \* whether the row of memories.sessions exists
    rows,      \* how often the adapter and the job have stored a turn
    pc,        \* the call a request issues next for its turn
    result,    \* what the two adapters answered
    job,       \* where a turn's job stands
    left,      \* attempts of a job that may still get to its handler
    calm,      \* whether no fault of the layers around the handler has happened
    step,      \* the call a job's run issues next
    again,     \* history: turns whose job was run again after it had ended
    erased,    \* history: turns that were settled when memories were deleted
    deletions, \* history: deletions so far
    faults     \* history: injected faults so far

rowVars == <<chat, session, rows>>
requestVars == <<pc, result>>
layerVars == <<job, left, calm>>
jobVars == <<layerVars, step>>
history == <<again, erased, deletions, faults>>
vars == <<rowVars, requestVars, jobVars, history>>

Storing == {"check", "create", "insert", "touch"}
Ended == {"done", "dead", "lost"}
Calls == {"access", "chatTouch", "lookup"} \cup Storing

\* The layers around the job handler.
Layer == INSTANCE JobLayer WITH Jobs <- Turns

\* A turn nothing is under way for.
Settled(t) == pc[t] \in {"done", "crashed"} /\ job[t] \in {"none"} \cup Ended

Init ==
    /\ chat = TRUE
    /\ session = FALSE
    /\ rows = [t \in Turns |-> [adapter |-> 0, job |-> 0]]
    /\ pc = [t \in Turns |-> "idle"]
    /\ result = [t \in Turns |-> [supabase |-> "none", upstash |-> "none"]]
    /\ job = [t \in Turns |-> "none"]
    /\ left = [t \in Turns |-> MaxAttempts]
    /\ calm = TRUE
    /\ step = [t \in Turns |-> "access"]
    /\ again = {} /\ erased = {}
    /\ deletions = 0 /\ faults = 0

Goto(t, p) == pc' = [pc EXCEPT ![t] = p]
Fault == faults < MaxFaults /\ faults' = faults + 1 /\ UNCHANGED <<again, erased, deletions>>

-----------------------------------------------------------------------------
(* The Supabase adapter, handleOnTurnCommitted.  Whatever it answers, the  *)
(* orchestrator goes on to the next adapter.                               *)

Commit(t) ==
    /\ pc[t] = "idle"
    /\ Goto(t, "check")
    /\ UNCHANGED <<rowVars, result, jobVars, history>>

CheckSession(t) ==
    /\ pc[t] = "check"
    /\ Goto(t, IF session THEN "insert" ELSE "create")
    /\ UNCHANGED <<rowVars, result, jobVars, history>>

Answer(t, adapter, status) ==
    /\ result' = [result EXCEPT ![t][adapter] = status]
    /\ Goto(t, IF adapter = "supabase" THEN "enqueue" ELSE "done")

\* The session's primary key lets one of two requests create it.
CreateSession(t) ==
    /\ pc[t] = "create"
    /\ \/ ~session /\ Goto(t, "insert") /\ UNCHANGED result
       \/ session /\ Answer(t, "supabase", "error")
    /\ session' = TRUE
    /\ UNCHANGED <<chat, rows, jobVars, history>>

\* The foreign key to the session holds the turn back once that is deleted.
\* The row's created_at is the database's, not the turn's.
InsertTurn(t) ==
    /\ pc[t] = "insert"
    /\ \/ /\ session
          /\ rows' = [rows EXCEPT ![t].adapter = @ + 1]
          /\ Goto(t, "touch")
          /\ UNCHANGED result
       \/ /\ ~session
          /\ Answer(t, "supabase", "error")
          /\ UNCHANGED rows
    /\ UNCHANGED <<chat, session, jobVars, history>>

TouchSession(t) ==
    /\ pc[t] = "touch"
    /\ Answer(t, "supabase", IF session THEN "ok" ELSE "error")
    /\ UNCHANGED <<rowVars, jobVars, history>>

\* Variant: an error whose row may be there after all counts as success.
StoreFailsHopefully(t) ==
    /\ pc[t] \in Storing
    /\ Fault
    /\ Answer(t, "supabase", IF pc[t] = "insert" THEN "ok" ELSE "error")
    /\ UNCHANGED <<rowVars, jobVars>>

StoreFails(t) ==
    /\ pc[t] \in Storing
    /\ Fault
    /\ Answer(t, "supabase", "error")
    /\ session' \in {session, session \/ pc[t] = "create"}
    /\ rows' \in {rows, IF pc[t] = "insert" /\ session
                        THEN [rows EXCEPT ![t].adapter = @ + 1] ELSE rows}
    /\ UNCHANGED <<chat, jobVars>>

-----------------------------------------------------------------------------
(* The Upstash adapter: one job for each turn. *)

Enqueue(t) ==
    /\ pc[t] = "enqueue"
    /\ Layer!Publish(t)
    /\ Answer(t, "upstash", "ok")
    /\ UNCHANGED <<rowVars, step, history>>

EnqueueFails(t) ==
    /\ pc[t] = "enqueue"
    /\ Fault
    /\ Layer!Publish(t) \/ UNCHANGED layerVars
    /\ Answer(t, "upstash", "error")
    /\ UNCHANGED <<rowVars, step>>

\* The status of runMemoryOrchestrator.
Status(t) ==
    LET answers == {result[t].supabase, result[t].upstash}
    IN  IF "error" \notin answers THEN "ok"
        ELSE IF "ok" \in answers THEN "partial" ELSE "error"

RequestCrashes(t) ==
    /\ pc[t] \notin {"idle", "done", "crashed"}
    /\ Fault
    /\ Goto(t, "crashed")
    /\ UNCHANGED <<rowVars, result, jobVars>>

-----------------------------------------------------------------------------
(* The job's handler, handleMemorySyncJob. *)

\* The text a turn carries for its time, and the text the database returns
\* for the same time.
Sent == "Z"
ReadBack == "+00:00"

\* buildTurnDedupeKey, for the rows the lookup by created_at finds.
DedupeKey(text, t) == <<text, t>>
ExistingKeys(t) == {DedupeKey(ReadBack, u) : u \in {u \in {t} : rows[u].job > 0}}

\* The run of a turn's job is about to issue call c.
At(t, c) == job[t] \in Layer!AtWork /\ step[t] = c

\* It goes on to call c.
Then(t, c) ==
    /\ step' = [step EXCEPT ![t] = c]
    /\ UNCHANGED layerVars

\* A run ends; the next one begins at the top.
Leave(t) == step' = [step EXCEPT ![t] = "access"]

\* Variant: the last attempt is retried too.
ThrowForever(t) ==
    /\ Layer!Move(t, "queued", left[t])
    /\ Leave(t)
    /\ UNCHANGED calm

\* A run throws: the layers count the attempt as failed.
Throw(t) == Layer!Fail(t) /\ Leave(t)

CheckAccess(t) ==
    /\ At(t, "access")
    /\ \/ chat /\ Then(t, "check")
       \/ ~chat /\ Throw(t)
    /\ UNCHANGED <<rowVars, requestVars, history>>

\* Variant: the check does not find the session of another writer.
CheckMemorySessionMissed(t) ==
    /\ At(t, "check")
    /\ Then(t, "create")
    /\ UNCHANGED <<rowVars, requestVars, history>>

CheckMemorySession(t) ==
    /\ At(t, "check")
    /\ Then(t, IF session THEN "lookup" ELSE "create")
    /\ UNCHANGED <<rowVars, requestVars, history>>

CreateMemorySession(t) ==
    /\ At(t, "create")
    /\ \/ ~session /\ Then(t, "lookup")
       \/ session /\ Throw(t)
    /\ session' = TRUE
    /\ UNCHANGED <<chat, rows, requestVars, history>>

\* Variant: the keys are compared the wrong way round.
LookUpInverted(t) ==
    /\ At(t, "lookup")
    /\ Then(t, IF DedupeKey(Sent, t) \in ExistingKeys(t) THEN "insert" ELSE "touch")
    /\ UNCHANGED <<rowVars, requestVars, history>>

\* Only a message that is not found is inserted.
LookUp(t) ==
    /\ At(t, "lookup")
    /\ Then(t, IF DedupeKey(Sent, t) \notin ExistingKeys(t) THEN "insert" ELSE "touch")
    /\ UNCHANGED <<rowVars, requestVars, history>>

InsertTurns(t) ==
    /\ At(t, "insert")
    /\ \/ /\ session
          /\ rows' = [rows EXCEPT ![t].job = @ + 1]
          /\ Then(t, "touch")
       \/ ~session /\ Throw(t) /\ UNCHANGED rows
    /\ UNCHANGED <<chat, session, requestVars, history>>

TouchMemorySession(t) ==
    /\ At(t, "touch")
    /\ \/ session /\ Then(t, "chatTouch")
       \/ ~session /\ Throw(t)
    /\ UNCHANGED <<rowVars, requestVars, history>>

TouchChatSession(t) ==
    /\ At(t, "chatTouch")
    /\ \/ chat /\ Layer!Finish(t) /\ Leave(t)
       \/ ~chat /\ Throw(t)
    /\ UNCHANGED <<rowVars, requestVars, history>>

\* A call fails, perhaps after it was executed: the run throws.
JobFails(t) ==
    /\ job[t] \in Layer!AtWork
    /\ Fault
    /\ Throw(t)
    /\ session' \in {session, session \/ step[t] = "create"}
    /\ rows' \in {rows, IF step[t] = "insert" /\ session
                        THEN [rows EXCEPT ![t].job = @ + 1] ELSE rows}
    /\ UNCHANGED <<chat, requestVars>>

-----------------------------------------------------------------------------
(* Around the handler: JobLayer. *)

\* A run begins, the first one of the attempt or, behind a fault, one of a job
\* that has ended.
Deliver(t) ==
    /\ Layer!Start(t)
    /\ again' = IF job[t] \in Ended THEN again \cup {t} ELSE again
    /\ UNCHANGED <<rowVars, requestVars, step, erased, deletions, faults>>

\* An attempt fails on its way to the handler.
Refused(t) ==
    /\ Fault
    /\ Layer!Refuse(t)
    /\ UNCHANGED <<rowVars, requestVars, step>>

\* A run whose job has left it behind is over.
LeaveBehind(t) == IF job'[t] \in Layer!AtWork THEN UNCHANGED step ELSE Leave(t)

\* A run dies, or an answer or a Redis call of the layers is lost.
LayerFails(t) ==
    /\ Fault
    /\ Layer!Disturb(t)
    /\ LeaveBehind(t)
    /\ UNCHANGED <<rowVars, requestVars>>

\* What that brings about later: attempts that meet a stale lock, a retry
\* that counts as a duplicate.
LayerRecovers(t) ==
    /\ Layer!Aftermath(t)
    /\ LeaveBehind(t)
    /\ UNCHANGED <<rowVars, requestVars, history>>

-----------------------------------------------------------------------------
(* The user deletes the memories, or the conversation. *)

\* Variant: the turns the jobs have stored are left.
DeleteRequestTurns ==
    /\ deletions < MaxDeletions
    /\ deletions' = deletions + 1
    /\ session' = FALSE
    /\ rows' = [t \in Turns |-> [rows[t] EXCEPT !.adapter = 0]]
    /\ erased' = {t \in Turns : Settled(t)}
    /\ UNCHANGED <<chat, requestVars, jobVars, again, faults>>

DeleteUserMemories ==
    /\ deletions < MaxDeletions
    /\ deletions' = deletions + 1
    /\ session' = FALSE
    /\ rows' = [t \in Turns |-> [adapter |-> 0, job |-> 0]]
    /\ erased' = {t \in Turns : Settled(t)}
    /\ UNCHANGED <<chat, requestVars, jobVars, again, faults>>

DeleteChat ==
    /\ chat
    /\ chat' = FALSE
    /\ UNCHANGED <<session, rows, requestVars, jobVars, history>>

Request(t) ==
    \/ CheckSession(t) \/ CreateSession(t) \/ InsertTurn(t) \/ TouchSession(t)
    \/ StoreFails(t) \/ Enqueue(t) \/ EnqueueFails(t) \/ RequestCrashes(t)

Handle(t) ==
    \/ CheckAccess(t) \/ CheckMemorySession(t) \/ CreateMemorySession(t)
    \/ LookUp(t) \/ InsertTurns(t) \/ TouchMemorySession(t) \/ TouchChatSession(t)
    \/ JobFails(t)

Around(t) == Deliver(t) \/ Refused(t) \/ LayerFails(t) \/ LayerRecovers(t)

Next ==
    \/ \E t \in Turns : Commit(t) \/ Request(t) \/ Handle(t) \/ Around(t)
    \/ DeleteUserMemories \/ DeleteChat

Spec == Init /\ [][Next]_vars

\* QStash delivers what is queued, and a run goes on.
FairSpec == Spec /\ \A t \in Turns : WF_vars(Deliver(t) \/ Handle(t))

-----------------------------------------------------------------------------
(* Properties. *)

\* The rows, requests and jobs have the values the code gives them; a job waits
\* only for an attempt it has left, it is given up only without one, and a
\* request stores its turn once.
MemoryTypeOK ==
    /\ chat \in BOOLEAN /\ session \in BOOLEAN
    /\ rows \in [Turns -> [adapter : {0, 1}, job : Nat]]
    /\ pc \in [Turns -> {"idle", "enqueue", "done", "crashed"} \cup Storing]
    /\ result \in [Turns -> [supabase : {"none", "ok", "error"},
                             upstash : {"none", "ok", "error"}]]
    /\ job \in [Turns -> {"none", "queued"} \cup Layer!AtWork \cup Ended]
    /\ left \in [Turns -> 0 .. MaxAttempts] /\ calm \in BOOLEAN
    /\ \A t \in Turns : (job[t] = "queued" => left[t] > 0) /\ (job[t] = "dead" => left[t] = 0)
    /\ step \in [Turns -> Calls]
    /\ again \subseteq Turns /\ erased \subseteq Turns
    /\ deletions \in 0 .. MaxDeletions /\ faults \in 0 .. MaxFaults

\* The orchestrator's answer is true: after "ok" the turn is stored and its
\* job queued, after "partial" one of the two, whatever other requests,
\* jobs and lost answers did to the same session meanwhile.
ReportIsKept ==
    \A t \in Turns : pc[t] = "done" /\ deletions = 0 =>
        CASE Status(t) = "ok" -> rows[t].adapter = 1 /\ job[t] # "none"
          [] Status(t) = "partial" -> rows[t].adapter = 1 \/ job[t] # "none"
          [] OTHER -> TRUE

\* What the user deletes stays deleted: only a turn whose request or job was
\* under way at the deletion, or whose job is run once more after it ended,
\* behind a fault of the layers, can come back.
ErasedStays ==
    \A t \in erased \ again : rows[t].adapter = 0 /\ rows[t].job = 0

\* The retries make up for the race to create the session: without other
\* faults than the retries allow for, and with calm layers, no job of a living
\* conversation is dead-lettered.
RetriesSuffice ==
    chat /\ deletions = 0 /\ calm /\ faults + 2 <= MaxAttempts =>
        \A t \in Turns : job[t] # "dead"

\* A queued turn gets into memory, or its job is given up after the last
\* attempt or lost by a fault of the layers, or the user deletes memories.
QueuedIsStored ==
    \A t \in Turns :
        job[t] = "queued" ~>
            rows[t].job > 0 \/ job[t] \in {"dead", "lost"} \/ deletions > 0

\* "Partial batch inserts are safe because dedupe prevents duplicates, and
\* reruns can repair missed turns": a job stores its message once, however
\* often it is run.
RerunsStoreOnce == \A t \in Turns : rows[t].job <= 1
=============================================================================
