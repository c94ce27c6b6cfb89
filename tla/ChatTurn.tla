------------------------------ MODULE ChatTurn ------------------------------
(***************************************************************************)
(* The turns of one conversation: handleChat of                            *)
(* src/src/app/api/chat/_handler.ts, from the history it loads to the end  *)
(* of the answer's stream.  A turn either submits a user message or        *)
(* regenerates an answer.  Turns run side by side, one database call at a  *)
(* time, and meet in the rows of chat_messages.                            *)
(*                                                                         *)
(* Of a row the model keeps its id, its turn and the status in its         *)
(* metadata; of the tool calls of an answer one, and the rows              *)
(* chat_tool_calls has of it.  A write whose answer is lost may have been  *)
(* executed.                                                               *)
(***************************************************************************)
EXTENDS Naturals, Sequences, FiniteSets

CONSTANTS
    Submits,       \* turns that submit a message
    Regenerates,   \* turns that regenerate an answer
    Calling,       \* turns whose model calls a tool
    HistoryLimit,  \* rows a turn loads
    MaxFaults      \* bound: database calls that fail, turns that die

Turns == Submits \cup Regenerates

ASSUME ChatAssumption ==
    /\ Submits \cap Regenerates = {}
    /\ Calling \subseteq Turns
    /\ HistoryLimit \in Nat \ {0}
    /\ MaxFaults \in Nat

VARIABLES
    ephemeral,  \* whether failing to persist is tolerated
    last,       \* id of the latest row of the conversation
    userRow,    \* id of the row of a turn's message, 0 if there is none
    answer,     \* id of the row of a turn's answer, 0 if there is none
    meta,       \* status in the metadata of that row
    pc,         \* the database call a turn issues next
    owned,      \* whether a turn knows the row of its answer
    target,     \* the turn whose answer a turn regenerates
    root,       \* the turn whose message a turn answers
    call,       \* what the model's stream has of a turn's tool call
    toolRows,   \* the rows of that call, by status
    noted,      \* what the turn knows of them
    remembered, \* memory turns handed to the orchestrator
    raced,      \* history: messages whose turns overlapped
    harmed,     \* history: messages with a fault in one of their turns
    faults      \* history: injected faults so far

rowVars == <<last, userRow, answer, meta>>
turnVars == <<pc, owned, target, root>>
toolVars == <<call, toolRows, noted>>
history == <<raced, harmed, faults>>
vars == <<ephemeral, rowVars, turnVars, toolVars, remembered, history>>

Streaming == {"stream", "step", "close"}
Active == {"user", "supersede", "insert", "memory"} \cup Streaming
Over == {"done", "refused", "crashed"}
Ends == {"completed", "aborted", "failed"}

Init ==
    /\ ephemeral \in BOOLEAN
    /\ last = 0
    /\ userRow = [t \in Turns |-> 0]
    /\ answer = [t \in Turns |-> 0]
    /\ meta = [t \in Turns |-> "none"]
    /\ pc = [t \in Turns |-> "idle"]
    /\ owned = [t \in Turns |-> FALSE]
    /\ target = [t \in Turns |-> t]
    /\ root = [t \in Turns |-> t]
    /\ call = [t \in Turns |-> "none"]
    /\ toolRows = [t \in Turns |-> << >>]
    /\ noted = [t \in Turns |-> "nothing"]
    /\ remembered = {}
    /\ raced = {} /\ harmed = {} /\ faults = 0

Goto(t, p) == pc' = [pc EXCEPT ![t] = p]

\* A database call of a turn fails.
Fault(t) ==
    /\ faults < MaxFaults
    /\ faults' = faults + 1
    /\ harmed' = harmed \cup {root[t]}
    /\ UNCHANGED raced

-----------------------------------------------------------------------------
(* The history a turn loads, and what it is for. *)

\* The latest rows that are not superseded.
Loaded(id) == id > 0 /\ id + HistoryLimit > last
VisibleAnswer(u) == Loaded(answer[u]) /\ meta[u] # "superseded"
VisibleIds ==
    {userRow[u] : u \in {u \in Turns : Loaded(userRow[u])}}
        \cup {answer[u] : u \in {u \in Turns : VisibleAnswer(u)}}

\* The row before an answer is a user's.
FollowsUser(u) ==
    \E v \in Turns :
        /\ Loaded(userRow[v]) /\ userRow[v] < answer[u]
        /\ \A id \in VisibleIds : id <= userRow[v] \/ id >= answer[u]

\* No session, no provider, no history, an invalid message, or nothing to
\* regenerate.
Refuse(t) ==
    /\ pc[t] = "idle"
    /\ Goto(t, "refused")
    /\ UNCHANGED <<ephemeral, rowVars, owned, target, root, toolVars, remembered, history>>

LoadForSubmit(t) ==
    /\ t \in Submits /\ pc[t] = "idle"
    /\ root' = [root EXCEPT ![t] = t]
    /\ Goto(t, "user")
    /\ UNCHANGED <<ephemeral, rowVars, owned, target, toolVars, remembered, history>>

\* Turns that answer the same message at the same time.
NoteRace(t, u) ==
    raced' = IF \E v \in Turns \ {t} : root[v] = u /\ pc[v] \in Active
             THEN raced \cup {u} ELSE raced

\* Variant: superseded rows are not filtered out.
LoadForRegenerateUnfiltered(t) ==
    /\ t \in Regenerates /\ pc[t] = "idle"
    /\ \E u \in Turns :
         /\ Loaded(answer[u]) /\ FollowsUser(u)
         /\ target' = [target EXCEPT ![t] = u]
         /\ root' = [root EXCEPT ![t] = root[u]]
         /\ NoteRace(t, root[u])
    /\ Goto(t, "supersede")
    /\ UNCHANGED <<ephemeral, rowVars, owned, toolVars, remembered, harmed, faults>>

\* The answer the request names, or the last one.
LoadForRegenerate(t) ==
    /\ t \in Regenerates /\ pc[t] = "idle"
    /\ \E u \in Turns :
         /\ VisibleAnswer(u) /\ FollowsUser(u)
         /\ target' = [target EXCEPT ![t] = u]
         /\ root' = [root EXCEPT ![t] = root[u]]
         /\ NoteRace(t, root[u])
    /\ Goto(t, "supersede")
    /\ UNCHANGED <<ephemeral, rowVars, owned, toolVars, remembered, harmed, faults>>

-----------------------------------------------------------------------------
(* The user's message, and the answer that is replaced. *)

InsertUserRow(t) ==
    /\ last' = last + 1
    /\ userRow' = [userRow EXCEPT ![t] = last + 1]
    /\ UNCHANGED <<answer, meta>>

\* The memory turn comes before the row, and nothing waits for its outcome.
PersistUser(t) ==
    /\ pc[t] = "user"
    /\ remembered' = remembered \cup {<<t, "user">>}
    /\ InsertUserRow(t)
    /\ Goto(t, "insert")
    /\ UNCHANGED <<ephemeral, owned, target, root, toolVars, history>>

PersistUserFails(t) ==
    /\ pc[t] = "user"
    /\ Fault(t)
    /\ remembered' = remembered \cup {<<t, "user">>}
    /\ InsertUserRow(t) \/ UNCHANGED rowVars
    /\ Goto(t, IF ephemeral THEN "insert" ELSE "refused")
    /\ UNCHANGED <<ephemeral, owned, target, root, toolVars>>

WriteMeta(t, status) == meta' = [meta EXCEPT ![t] = status]

\* Whatever became of the answer meanwhile.
Supersede(t) ==
    /\ pc[t] = "supersede"
    /\ WriteMeta(target[t], "superseded")
    /\ Goto(t, "insert")
    /\ UNCHANGED <<ephemeral, last, userRow, answer, owned, target, root, toolVars,
                   remembered, history>>

SupersedeFails(t) ==
    /\ pc[t] = "supersede"
    /\ Fault(t)
    /\ WriteMeta(target[t], "superseded") \/ UNCHANGED meta
    /\ Goto(t, "insert")
    /\ UNCHANGED <<ephemeral, last, userRow, answer, owned, target, root, toolVars,
                   remembered>>

-----------------------------------------------------------------------------
(* The placeholder of the answer. *)

InsertAnswerRow(t) ==
    /\ last' = last + 1
    /\ answer' = [answer EXCEPT ![t] = last + 1]
    /\ WriteMeta(t, "streaming")
    /\ UNCHANGED userRow

\* The prompt must leave room for an answer; the placeholder stays if it
\* does not.
Budget(t) == \E p \in {"stream", "refused"} : Goto(t, p)

PersistAnswer(t) ==
    /\ pc[t] = "insert"
    /\ InsertAnswerRow(t)
    /\ owned' = [owned EXCEPT ![t] = TRUE]
    /\ Budget(t)
    /\ UNCHANGED <<ephemeral, target, root, toolVars, remembered, history>>

PersistAnswerFails(t) ==
    /\ pc[t] = "insert"
    /\ Fault(t)
    /\ InsertAnswerRow(t) \/ UNCHANGED rowVars
    /\ IF ephemeral THEN Budget(t) ELSE Goto(t, "refused")
    /\ UNCHANGED <<ephemeral, owned, target, root, toolVars, remembered>>

-----------------------------------------------------------------------------
(* The stream: steps with a tool call, its outcome, and the end. *)

Terminal == {"completed", "failed"}

\* persistToolCall: one row, unless the turn knows of one.
InsertTool(t, status) ==
    /\ toolRows' = [toolRows EXCEPT ![t] = Append(@, status)]
    /\ noted' = [noted EXCEPT ![t] = IF status = "pending" THEN "row" ELSE "outcome"]

InsertToolFails(t, status) ==
    /\ Fault(t)
    /\ toolRows' \in {toolRows, [toolRows EXCEPT ![t] = Append(@, status)]}
    /\ UNCHANGED noted

\* onStepEnd with a tool call, whose outcome may come with it or later.
StepCalls(t) ==
    /\ pc[t] = "stream" /\ t \in Calling /\ call[t] = "none"
    /\ \E status \in {"pending"} \cup Terminal :
         /\ call' = [call EXCEPT ![t] = status]
         /\ IF owned[t]
            THEN \/ InsertTool(t, status) /\ UNCHANGED history
                 \/ InsertToolFails(t, status)
            ELSE UNCHANGED <<toolRows, noted, history>>
    /\ Goto(t, "step")
    /\ UNCHANGED <<ephemeral, rowVars, owned, target, root, remembered>>

\* The checkpoint behind it, written from the metadata of the start.
StepCheckpoint(t) ==
    /\ pc[t] = "step"
    /\ Goto(t, "stream")
    /\ IF owned[t]
       THEN \/ WriteMeta(t, "streaming") /\ UNCHANGED history
            \/ Fault(t) /\ (WriteMeta(t, "streaming") \/ UNCHANGED meta)
       ELSE UNCHANGED <<meta, history>>
    /\ UNCHANGED <<ephemeral, last, userRow, answer, owned, target, root, toolVars,
                   remembered>>

\* Variant: an outcome of a later step is not looked for.
StepOutcomeDropped(t) ==
    /\ pc[t] = "stream" /\ call[t] = "pending"
    /\ \E status \in Terminal : call' = [call EXCEPT ![t] = status]
    /\ UNCHANGED <<ephemeral, rowVars, turnVars, toolRows, noted, remembered, history>>

\* onStepEnd with the outcome of an earlier call.  The update wants exactly
\* one row.
StepOutcome(t) ==
    /\ pc[t] = "stream" /\ call[t] = "pending"
    /\ \E status \in Terminal :
         /\ call' = [call EXCEPT ![t] = status]
         /\ \/ /\ noted[t] = "row" /\ Len(toolRows[t]) = 1
               /\ toolRows' = [toolRows EXCEPT ![t] = <<status>>]
               /\ noted' = [noted EXCEPT ![t] = "outcome"]
               /\ UNCHANGED history
            \/ /\ noted[t] = "row"
               /\ Fault(t)
               /\ toolRows' \in {toolRows, [toolRows EXCEPT ![t] = <<status>>]}
               /\ UNCHANGED noted
            \/ /\ noted[t] # "row" \/ Len(toolRows[t]) # 1
               /\ UNCHANGED <<toolRows, noted, history>>
    /\ UNCHANGED <<ephemeral, rowVars, turnVars, remembered>>

\* onEnd: a call without outcome that has no row yet gets one.
End(t) ==
    /\ pc[t] = "stream"
    /\ IF owned[t] /\ call[t] = "pending" /\ noted[t] = "nothing"
       THEN \/ InsertTool(t, "pending") /\ UNCHANGED history
            \/ InsertToolFails(t, "pending")
       ELSE UNCHANGED <<toolRows, noted, history>>
    /\ Goto(t, "close")
    /\ UNCHANGED <<ephemeral, rowVars, owned, target, root, call, remembered>>

\* Only completed answers to a submitted message are remembered.
AfterEnd(t, status) ==
    Goto(t, IF status = "completed" /\ t \in Submits THEN "memory" ELSE "done")

\* Variant: the error of the update does not end the turn.
CloseFailsOnwards(t) ==
    /\ pc[t] = "close" /\ owned[t]
    /\ Fault(t)
    /\ UNCHANGED meta
    /\ \E status \in Ends : AfterEnd(t, status)
    /\ UNCHANGED <<ephemeral, last, userRow, answer, owned, target, root, toolVars,
                   remembered>>

\* Variant: the reason of the stream's end is written as the status.
CloseWithReason(t) ==
    /\ pc[t] = "close"
    /\ \E status \in Ends :
         /\ AfterEnd(t, status)
         /\ IF owned[t]
            THEN WriteMeta(t, IF status = "completed" THEN "stop" ELSE status)
            ELSE UNCHANGED meta
    /\ UNCHANGED <<ephemeral, last, userRow, answer, owned, target, root, toolVars,
                   remembered, history>>

\* Variant: an aborted stream ends without the update.
CloseUnlessAborted(t) ==
    /\ pc[t] = "close"
    /\ \E status \in Ends :
         /\ AfterEnd(t, status)
         /\ IF owned[t] /\ status # "aborted" THEN WriteMeta(t, status) ELSE UNCHANGED meta
    /\ UNCHANGED <<ephemeral, last, userRow, answer, owned, target, root, toolVars,
                   remembered, history>>

\* The final update, built from the metadata of the start.
Close(t) ==
    /\ pc[t] = "close"
    /\ \E status \in Ends :
         /\ AfterEnd(t, status)
         /\ IF owned[t] THEN WriteMeta(t, status) ELSE UNCHANGED meta
    /\ UNCHANGED <<ephemeral, last, userRow, answer, owned, target, root, toolVars,
                   remembered, history>>

CloseFails(t) ==
    /\ pc[t] = "close" /\ owned[t]
    /\ Fault(t)
    /\ \/ UNCHANGED meta
       \/ \E status \in Ends : WriteMeta(t, status)
    /\ Goto(t, "done")
    /\ UNCHANGED <<ephemeral, last, userRow, answer, owned, target, root, toolVars,
                   remembered>>

Remember(t) ==
    /\ pc[t] = "memory"
    /\ remembered' = remembered \cup {<<t, "assistant">>}
    /\ Goto(t, "done")
    /\ UNCHANGED <<ephemeral, rowVars, owned, target, root, toolVars, history>>

Crash(t) ==
    /\ pc[t] \in Active
    /\ Fault(t)
    /\ Goto(t, "crashed")
    /\ UNCHANGED <<ephemeral, rowVars, owned, target, root, toolVars, remembered>>

Begin(t) == Refuse(t) \/ LoadForSubmit(t) \/ LoadForRegenerate(t)

Proceed(t) ==
    \/ PersistUser(t) \/ PersistUserFails(t) \/ Supersede(t) \/ SupersedeFails(t)
    \/ PersistAnswer(t) \/ PersistAnswerFails(t)
    \/ StepCalls(t) \/ StepCheckpoint(t) \/ StepOutcome(t) \/ End(t)
    \/ Close(t) \/ CloseFails(t) \/ Remember(t) \/ Crash(t)

Next == \E t \in Turns : Begin(t) \/ Proceed(t)

Spec == Init /\ [][Next]_vars

\* Calls are answered or fail and streams end: the step count, the timeouts
\* and the abort signal bound them.
FairSpec == Spec /\ \A t \in Turns : WF_vars(Proceed(t))

-----------------------------------------------------------------------------
Statuses == {"none", "streaming", "superseded"} \cup Ends

\* Every variable keeps its type: statuses are those the history filter and
\* the database know.
ChatTypeOK ==
    /\ ephemeral \in BOOLEAN
    /\ last \in Nat
    /\ userRow \in [Turns -> Nat]
    /\ answer \in [Turns -> Nat]
    /\ meta \in [Turns -> Statuses]
    /\ pc \in [Turns -> {"idle"} \cup Active \cup Over]
    /\ owned \in [Turns -> BOOLEAN]
    /\ target \in [Turns -> Turns]
    /\ root \in [Turns -> Turns]
    /\ call \in [Turns -> {"none", "pending"} \cup Terminal]
    /\ toolRows \in [Turns -> Seq({"pending"} \cup Terminal)]
    /\ noted \in [Turns -> {"nothing", "row", "outcome"}]
    /\ remembered \subseteq (Turns \X {"user", "assistant"})
    /\ raced \subseteq Turns
    /\ harmed \subseteq Turns
    /\ faults \in 0 .. MaxFaults

\* The answers of message u that later turns are shown.
Shown(u) == {t \in Turns : root[t] = u /\ answer[t] # 0 /\ meta[t] # "superseded"}

\* However often a message is regenerated, later turns see at most one answer
\* of it, and exactly one when its turns are over and one of them was
\* answered: regenerating replaces the answer, also one that was aborted or
\* left behind by a refusal.  Turns of one message that overlap, and faults,
\* are left out: the code does not promise it then.
OneAnswer ==
    \A u \in Turns \ (raced \cup harmed) :
        /\ Cardinality(Shown(u)) <= 1
        /\ (/\ \A t \in Turns : root[t] = u => pc[t] \notin Active
            /\ \E t \in Turns : root[t] = u /\ answer[t] # 0)
           => Shown(u) # {}

\* The rows of a tool call tell what became of it: a row with an outcome is
\* the call's, and a turn that ends without a fault has left one row for
\* every call, with its outcome or pending.
ToolIsRecorded ==
    \A t \in Turns :
        /\ \A i \in DOMAIN toolRows[t] : toolRows[t][i] \in {"pending", call[t]}
        /\ (pc[t] = "done" /\ root[t] \notin harmed)
           => toolRows[t] = IF call[t] = "none" THEN << >> ELSE <<call[t]>>

\* An assistant's turn in the memory is the answer to a submitted message whose
\* row says that it was completed (or was replaced later), if there is a row
\* the turn knew of.
RememberedIsStored ==
    \A t \in Turns :
        <<t, "assistant">> \in remembered
        => /\ t \in Submits
           /\ owned[t] => meta[t] \in {"completed", "superseded"}

\* A streamed answer does not stay "streaming": its row gets the end of its
\* stream, or is superseded, unless a call on it failed.
StreamingEnds ==
    \A t \in Turns :
        (pc[t] \in Streaming /\ owned[t])
        ~> (meta[t] \in Ends \cup {"superseded"} \/ root[t] \in harmed)
=============================================================================
