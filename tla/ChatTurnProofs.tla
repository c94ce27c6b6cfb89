--------------------------- MODULE ChatTurnProofs ---------------------------
(***************************************************************************)
(* What TLAPS proves of ChatTurn, for any number of turns, of tool calls,  *)
(* rows of history and faults.                                             *)
(***************************************************************************)
EXTENDS ChatTurn, FiniteSetTheorems, TLAPS

Step(t) == Begin(t) \/ Proceed(t)

\* The steps that only move a turn or write its rows, grouped by what they
\* leave alone.
Loads(t) == Refuse(t) \/ LoadForSubmit(t) \/ LoadForRegenerate(t)
Stores(t) == PersistUser(t) \/ PersistUserFails(t) \/ PersistAnswer(t) \/ PersistAnswerFails(t)
Replaces(t) == Supersede(t) \/ SupersedeFails(t)
Calls(t) == StepCalls(t) \/ StepOutcome(t) \/ End(t)
Closes(t) == StepCheckpoint(t) \/ Close(t) \/ CloseFails(t) \/ Remember(t) \/ Crash(t)

LEMMA StepCases ==
    ASSUME NEW t \in Turns, Step(t)
    PROVE  Loads(t) \/ Stores(t) \/ Replaces(t) \/ Calls(t) \/ Closes(t)
BY DEF Step, Begin, Proceed, Loads, Stores, Replaces, Calls, Closes

-----------------------------------------------------------------------------
(* Types *)

TurnTypes ==
    /\ ephemeral \in BOOLEAN
    /\ pc \in [Turns -> {"idle"} \cup Active \cup Over]
    /\ owned \in [Turns -> BOOLEAN]
    /\ target \in [Turns -> Turns]
    /\ root \in [Turns -> Turns]

RowTypes ==
    /\ last \in Nat
    /\ userRow \in [Turns -> Nat]
    /\ answer \in [Turns -> Nat]
    /\ meta \in [Turns -> Statuses]

ToolTypes ==
    /\ call \in [Turns -> {"none", "pending"} \cup Terminal]
    /\ toolRows \in [Turns -> Seq({"pending"} \cup Terminal)]
    /\ noted \in [Turns -> {"nothing", "row", "outcome"}]

HistoryTypes ==
    /\ remembered \subseteq (Turns \X {"user", "assistant"})
    /\ raced \subseteq Turns
    /\ harmed \subseteq Turns
    /\ faults \in 0 .. MaxFaults

LEMMA TurnTypesKept ==
    ASSUME TurnTypes, NEW t \in Turns, Step(t)
    PROVE  TurnTypes'
<1>1. CASE Loads(t)
  BY <1>1 DEF TurnTypes, Loads, Refuse, LoadForSubmit, LoadForRegenerate, Goto, Active,
       Streaming, Over
<1>2. CASE Stores(t)
  <2>1. /\ UNCHANGED <<ephemeral, target, root>>
        /\ owned' = owned \/ owned' = [owned EXCEPT ![t] = TRUE]
    BY <1>2 DEF Stores, PersistUser, PersistUserFails, PersistAnswer, PersistAnswerFails
  <2>2. Goto(t, "insert") \/ Goto(t, "stream") \/ Goto(t, "refused")
    BY <1>2 DEF Stores, PersistUser, PersistUserFails, PersistAnswer, PersistAnswerFails,
         Budget, Goto
  <2>3. owned' \in [Turns -> BOOLEAN]
    BY <2>1 DEF TurnTypes
  <2>4. QED
    BY <2>1, <2>2, <2>3 DEF TurnTypes, Goto, Active, Streaming, Over
<1>3. CASE Replaces(t)
  BY <1>3 DEF TurnTypes, Replaces, Supersede, SupersedeFails, Goto, Active, Streaming, Over
<1>4. CASE Calls(t)
  <2>1. UNCHANGED <<ephemeral, owned, target, root>>
    BY <1>4 DEF Calls, StepCalls, StepOutcome, End, turnVars
  <2>2. pc' = pc \/ Goto(t, "step") \/ Goto(t, "close")
    BY <1>4 DEF Calls, StepCalls, StepOutcome, End, turnVars
  <2>3. QED
    BY <2>1, <2>2 DEF TurnTypes, Goto, Active, Streaming
<1>5. CASE Closes(t)
  BY <1>5 DEF TurnTypes, Closes, StepCheckpoint, Close, CloseFails, Remember, Crash,
       AfterEnd, Goto, Active, Streaming, Over
<1>6. QED
  BY <1>1, <1>2, <1>3, <1>4, <1>5, StepCases

LEMMA RowTypesKept ==
    ASSUME RowTypes, TurnTypes, NEW t \in Turns, Step(t)
    PROVE  RowTypes'
<1>1. CASE Loads(t)
  BY <1>1 DEF RowTypes, Loads, Refuse, LoadForSubmit, LoadForRegenerate, rowVars
<1>2. CASE Stores(t)
  <2>1. UNCHANGED rowVars \/ InsertUserRow(t) \/ InsertAnswerRow(t)
    BY <1>2 DEF Stores, PersistUser, PersistUserFails, PersistAnswer, PersistAnswerFails
  <2>2. CASE UNCHANGED rowVars
    BY <2>2 DEF RowTypes, rowVars
  <2>3. CASE InsertUserRow(t)
    BY <2>3 DEF RowTypes, InsertUserRow
  <2>4. CASE InsertAnswerRow(t)
    BY <2>4 DEF RowTypes, InsertAnswerRow, WriteMeta, Statuses
  <2>5. QED
    BY <2>1, <2>2, <2>3, <2>4
<1>3. CASE Replaces(t)
  BY <1>3 DEF RowTypes, TurnTypes, Replaces, Supersede, SupersedeFails, WriteMeta, Statuses
<1>4. CASE Calls(t)
  BY <1>4 DEF RowTypes, Calls, StepCalls, StepOutcome, End, rowVars
<1>5. CASE Closes(t)
  <2>1. UNCHANGED <<last, userRow, answer>>
    BY <1>5 DEF Closes, StepCheckpoint, Close, CloseFails, Remember, Crash, rowVars
  <2>2. \/ UNCHANGED meta
        \/ \E status \in {"streaming"} \cup Ends : WriteMeta(t, status)
    BY <1>5 DEF Closes, StepCheckpoint, Close, CloseFails, Remember, Crash, rowVars
  <2>3. QED
    BY <2>1, <2>2 DEF RowTypes, WriteMeta, Statuses
<1>6. QED
  BY <1>1, <1>2, <1>3, <1>4, <1>5, StepCases

\* What a step of a turn's tool call may write.
ToolMoves(t) ==
    /\ \/ call' = call
       \/ \E status \in {"pending"} \cup Terminal : call' = [call EXCEPT ![t] = status]
    /\ \/ toolRows' = toolRows
       \/ \E status \in {"pending"} \cup Terminal :
            \/ toolRows' = [toolRows EXCEPT ![t] = Append(@, status)]
            \/ toolRows' = [toolRows EXCEPT ![t] = <<status>>]
    /\ \/ noted' = noted
       \/ \E n \in {"row", "outcome"} : noted' = [noted EXCEPT ![t] = n]

LEMMA ToolsMove ==
    ASSUME NEW t \in Turns, Step(t)
    PROVE  ToolMoves(t)
<1>1. CASE Loads(t) \/ Stores(t) \/ Replaces(t) \/ Closes(t)
  BY <1>1 DEF ToolMoves, Loads, Stores, Replaces, Closes, Refuse, LoadForSubmit,
       LoadForRegenerate, PersistUser, PersistUserFails, PersistAnswer,
       PersistAnswerFails, Supersede, SupersedeFails, StepCheckpoint, Close, CloseFails,
       Remember, Crash, toolVars
<1>2. CASE StepCalls(t)
  BY <1>2 DEF ToolMoves, StepCalls, InsertTool, InsertToolFails
<1>3. CASE StepOutcome(t)
  BY <1>3 DEF ToolMoves, StepOutcome
<1>4. CASE End(t)
  BY <1>4 DEF ToolMoves, End, InsertTool, InsertToolFails
<1>5. QED
  BY <1>1, <1>2, <1>3, <1>4, StepCases DEF Calls

LEMMA ToolTypesKept ==
    ASSUME ToolTypes, NEW t \in Turns, Step(t)
    PROVE  ToolTypes'
<1>1. ToolMoves(t)
  BY ToolsMove
<1>2. call' \in [Turns -> {"none", "pending"} \cup Terminal]
  BY <1>1 DEF ToolMoves, ToolTypes
<1>3. noted' \in [Turns -> {"nothing", "row", "outcome"}]
  BY <1>1 DEF ToolMoves, ToolTypes
<1>4. toolRows' \in [Turns -> Seq({"pending"} \cup Terminal)]
  <2>1. CASE toolRows' = toolRows
    BY <2>1 DEF ToolTypes
  <2>2. ASSUME NEW status \in {"pending"} \cup Terminal,
               \/ toolRows' = [toolRows EXCEPT ![t] = Append(@, status)]
               \/ toolRows' = [toolRows EXCEPT ![t] = <<status>>]
        PROVE  toolRows' \in [Turns -> Seq({"pending"} \cup Terminal)]
    <3> DEFINE S == {"pending"} \cup Terminal
    <3>1. toolRows \in [Turns -> Seq(S)] /\ status \in S
      BY DEF ToolTypes
    <3> HIDE DEF S
    <3>2. Append(toolRows[t], status) \in Seq(S) /\ <<status>> \in Seq(S)
      BY <3>1
    <3>3. toolRows' \in [Turns -> Seq(S)]
      BY <2>2, <3>1, <3>2
    <3>4. QED
      BY <3>3 DEF S
  <2>3. QED
    BY <1>1, <2>1, <2>2 DEF ToolMoves
<1>5. QED
  BY <1>2, <1>3, <1>4 DEF ToolTypes

LEMMA HistoryTypesKept ==
    ASSUME HistoryTypes, TurnTypes, NEW t \in Turns, Step(t)
    PROVE  HistoryTypes'
<1>1. \/ UNCHANGED <<harmed, faults>>
      \/ Fault(t)
  BY StepCases DEF Loads, Stores, Replaces, Calls, Closes, Refuse, LoadForSubmit,
     LoadForRegenerate, PersistUser, PersistUserFails, PersistAnswer, PersistAnswerFails,
     Supersede, SupersedeFails, StepCheckpoint, Close, CloseFails, Remember, Crash,
     StepCalls, StepOutcome, End, InsertToolFails, history
<1>2. harmed' \subseteq Turns /\ faults' \in 0 .. MaxFaults
  BY <1>1, ChatAssumption DEF HistoryTypes, TurnTypes, Fault
<1>3. raced' = raced \/ LoadForRegenerate(t)
  BY StepCases DEF Loads, Stores, Replaces, Calls, Closes, Refuse, LoadForSubmit,
     PersistUser, PersistUserFails, PersistAnswer, PersistAnswerFails,
     Supersede, SupersedeFails, StepCheckpoint, Close, CloseFails, Remember, Crash,
     StepCalls, StepOutcome, End, InsertToolFails, Fault, history
<1>4. raced' \subseteq Turns
  BY <1>3 DEF HistoryTypes, TurnTypes, LoadForRegenerate, NoteRace
<1>5. \/ remembered' = remembered
      \/ remembered' = remembered \cup {<<t, "user">>}
      \/ remembered' = remembered \cup {<<t, "assistant">>}
  BY StepCases DEF Loads, Stores, Replaces, Calls, Closes, Refuse, LoadForSubmit,
     LoadForRegenerate, PersistUser, PersistUserFails, PersistAnswer, PersistAnswerFails,
     Supersede, SupersedeFails, StepCheckpoint, Close, CloseFails, Remember, Crash,
     StepCalls, StepOutcome, End
<1>6. remembered' \subseteq (Turns \X {"user", "assistant"})
  BY <1>5 DEF HistoryTypes
<1>7. QED
  BY <1>2, <1>4, <1>6 DEF HistoryTypes

LEMMA TypeParts == ChatTypeOK <=> TurnTypes /\ RowTypes /\ ToolTypes /\ HistoryTypes
BY DEF ChatTypeOK, TurnTypes, RowTypes, ToolTypes, HistoryTypes

LEMMA InitTypes == Init => ChatTypeOK
<1> SUFFICES ASSUME Init PROVE ChatTypeOK
  OBVIOUS
<1>1. TurnTypes /\ RowTypes
  BY DEF Init, TurnTypes, RowTypes, Statuses
<1>2. ToolTypes
  BY DEF Init, ToolTypes
<1>3. HistoryTypes
  BY ChatAssumption DEF Init, HistoryTypes
<1>4. QED
  BY <1>1, <1>2, <1>3, TypeParts

LEMMA TypesKept == ChatTypeOK /\ [Next]_vars => ChatTypeOK'
<1> SUFFICES ASSUME ChatTypeOK, [Next]_vars PROVE ChatTypeOK'
  OBVIOUS
<1>1. ASSUME NEW t \in Turns, Step(t) PROVE ChatTypeOK'
  <2>1. TurnTypes' /\ RowTypes' /\ ToolTypes' /\ HistoryTypes'
    BY <1>1, TypeParts, TurnTypesKept, RowTypesKept, ToolTypesKept, HistoryTypesKept
  <2>2. QED
    BY <2>1 DEF ChatTypeOK, TurnTypes, RowTypes, ToolTypes, HistoryTypes
<1>2. CASE UNCHANGED vars
  BY <1>2 DEF ChatTypeOK, vars, rowVars, turnVars, toolVars, history
<1>3. QED
  BY <1>1, <1>2 DEF Next, Step

\* The type invariant of a conversation: handleChat writes no status that the
\* history filter and the database do not know.
THEOREM ChatTypeCorrect == Spec => []ChatTypeOK
BY InitTypes, TypesKept, PTL DEF Spec

-----------------------------------------------------------------------------
(* What a turn leaves alone *)

\* A turn writes nothing of another turn, but for the status of the answer it
\* replaces.
Keeps(d) ==
    /\ pc'[d] = pc[d] /\ owned'[d] = owned[d]
    /\ target'[d] = target[d] /\ root'[d] = root[d]
    /\ answer'[d] = answer[d]
    /\ call'[d] = call[d] /\ toolRows'[d] = toolRows[d] /\ noted'[d] = noted[d]

LEMMA OthersKept ==
    ASSUME ChatTypeOK, NEW t \in Turns, Step(t), NEW d \in Turns, d # t
    PROVE  /\ Keeps(d)
           /\ \/ meta'[d] = meta[d]
              \/ pc[t] = "supersede" /\ d = target[t] /\ meta'[d] = "superseded"
<1> USE DEF ChatTypeOK
<1>1. pc'[d] = pc[d]
  BY StepCases DEF Loads, Stores, Replaces, Calls, Closes, Refuse, LoadForSubmit,
     LoadForRegenerate, PersistUser, PersistUserFails, PersistAnswer, PersistAnswerFails,
     Supersede, SupersedeFails, StepCheckpoint, Close, CloseFails, Remember, Crash,
     StepCalls, StepOutcome, End, Goto, Budget, AfterEnd, turnVars
<1>2. owned'[d] = owned[d] /\ target'[d] = target[d] /\ root'[d] = root[d]
  BY StepCases DEF Loads, Stores, Replaces, Calls, Closes, Refuse, LoadForSubmit,
     LoadForRegenerate, PersistUser, PersistUserFails, PersistAnswer, PersistAnswerFails,
     Supersede, SupersedeFails, StepCheckpoint, Close, CloseFails, Remember, Crash,
     StepCalls, StepOutcome, End, turnVars
<1>3. answer'[d] = answer[d]
  <2>1. answer' = answer \/ InsertAnswerRow(t)
    BY StepCases DEF Loads, Stores, Replaces, Calls, Closes, Refuse, LoadForSubmit,
       LoadForRegenerate, PersistUser, PersistUserFails, PersistAnswer,
       PersistAnswerFails, Supersede, SupersedeFails, StepCheckpoint, Close, CloseFails,
       Remember, Crash, StepCalls, StepOutcome, End, InsertUserRow, rowVars
  <2>2. QED
    BY <2>1 DEF InsertAnswerRow
<1>4. call'[d] = call[d] /\ toolRows'[d] = toolRows[d] /\ noted'[d] = noted[d]
  <2>1. ToolMoves(t)
    BY ToolsMove
  <2>2. call'[d] = call[d] /\ noted'[d] = noted[d]
    BY <2>1 DEF ToolMoves
  <2>3. toolRows'[d] = toolRows[d]
    BY <2>1 DEF ToolMoves
  <2>4. QED
    BY <2>2, <2>3
<1>5. \/ meta'[d] = meta[d]
      \/ pc[t] = "supersede" /\ d = target[t] /\ meta'[d] = "superseded"
  <2>1. \/ UNCHANGED meta
        \/ \E status \in Statuses : WriteMeta(t, status)
        \/ pc[t] = "supersede" /\ WriteMeta(target[t], "superseded")
    BY StepCases DEF Loads, Stores, Replaces, Calls, Closes, Refuse, LoadForSubmit,
       LoadForRegenerate, PersistUser, PersistUserFails, PersistAnswer,
       PersistAnswerFails, Supersede, SupersedeFails, StepCheckpoint, Close, CloseFails,
       Remember, Crash, StepCalls, StepOutcome, End, InsertUserRow, InsertAnswerRow,
       Statuses, rowVars
  <2>2. QED
    BY <2>1 DEF WriteMeta
<1>6. QED
  BY <1>1, <1>2, <1>3, <1>4, <1>5 DEF Keeps

-----------------------------------------------------------------------------
(* The memory *)

Stored(d) == d \in Submits /\ (owned[d] => meta[d] \in {"completed", "superseded"})

\* A turn goes to the memory with its row completed, and ends there.
RememberInv(d) ==
    /\ pc[d] = "memory" => Stored(d)
    /\ <<d, "assistant">> \in remembered => pc[d] = "done" /\ Stored(d)

LEMMA RememberByOthers ==
    ASSUME ChatTypeOK, NEW t \in Turns, Step(t), NEW d \in Turns, d # t, RememberInv(d)
    PROVE  RememberInv(d)'
<1>1. Keeps(d) /\ (meta'[d] = meta[d] \/ meta'[d] = "superseded")
  BY OthersKept
<1>2. <<d, "assistant">> \in remembered' => <<d, "assistant">> \in remembered
  BY StepCases DEF Loads, Stores, Replaces, Calls, Closes, Refuse, LoadForSubmit,
     LoadForRegenerate, PersistUser, PersistUserFails, PersistAnswer, PersistAnswerFails,
     Supersede, SupersedeFails, StepCheckpoint, Close, CloseFails, Remember, Crash,
     StepCalls, StepOutcome, End
<1>3. QED
  BY <1>1, <1>2 DEF RememberInv, Stored, Keeps

LEMMA RememberBySelf ==
    ASSUME ChatTypeOK, NEW t \in Turns, Step(t), RememberInv(t)
    PROVE  RememberInv(t)'
<1> USE DEF ChatTypeOK
<1>1. CASE Loads(t)
  BY <1>1 DEF RememberInv, Loads, Refuse, LoadForSubmit, LoadForRegenerate, Goto
<1>2. CASE Stores(t)
  BY <1>2 DEF RememberInv, Stores, PersistUser, PersistUserFails, PersistAnswer,
       PersistAnswerFails, Budget, Goto
<1>3. CASE Replaces(t)
  BY <1>3 DEF RememberInv, Replaces, Supersede, SupersedeFails, Goto
<1>4. CASE Calls(t)
  BY <1>4 DEF RememberInv, Calls, StepCalls, StepOutcome, End, Goto, turnVars
<1>5. CASE StepCheckpoint(t) \/ CloseFails(t) \/ Crash(t)
  <2>1. pc[t] # "done" /\ pc'[t] # "memory"
    BY <1>5 DEF StepCheckpoint, CloseFails, Crash, Goto, Active, Streaming
  <2>2. remembered' = remembered
    BY <1>5 DEF StepCheckpoint, CloseFails, Crash
  <2>3. QED
    BY <2>1, <2>2 DEF RememberInv
<1>6. CASE Close(t)
  <2>1. PICK status \in Ends :
          /\ AfterEnd(t, status)
          /\ IF owned[t] THEN WriteMeta(t, status) ELSE UNCHANGED meta
    BY <1>6 DEF Close
  <2>2. <<t, "assistant">> \notin remembered'
    BY <1>6 DEF Close, RememberInv
  <2>3. pc'[t] = "memory" => Stored(t)'
    BY <1>6, <2>1 DEF Close, AfterEnd, Goto, WriteMeta, Stored
  <2>4. QED
    BY <2>2, <2>3 DEF RememberInv
<1>7. CASE Remember(t)
  BY <1>7 DEF RememberInv, Stored, Remember, Goto, rowVars
<1>8. QED
  BY <1>1, <1>2, <1>3, <1>4, <1>5, <1>6, <1>7, StepCases DEF Closes

AllRemembered == \A d \in Turns : RememberInv(d)

LEMMA RememberKept == ChatTypeOK /\ AllRemembered /\ [Next]_vars => AllRemembered'
<1> SUFFICES ASSUME ChatTypeOK, AllRemembered, [Next]_vars, NEW d \in Turns
             PROVE  RememberInv(d)'
  BY DEF AllRemembered
<1>1. ASSUME NEW t \in Turns, Step(t) PROVE RememberInv(d)'
  BY <1>1, RememberByOthers, RememberBySelf DEF AllRemembered
<1>2. CASE UNCHANGED vars
  BY <1>2 DEF AllRemembered, RememberInv, Stored, vars, rowVars, turnVars
<1>3. QED
  BY <1>1, <1>2 DEF Next, Step

\* What the memory holds of an assistant is an answer whose row was completed:
\* the early return behind a failed update keeps the others out.
THEOREM MemoryIsTrue == Spec => []RememberedIsStored
<1>1. Init => AllRemembered
  BY DEF Init, AllRemembered, RememberInv
<1>2. AllRemembered => RememberedIsStored
  BY DEF AllRemembered, RememberInv, Stored, RememberedIsStored
<1>3. QED
  BY <1>1, <1>2, ChatTypeCorrect, RememberKept, PTL DEF Spec

-----------------------------------------------------------------------------
(* Tool calls *)

\* The turn owns the row of its answer, and the call's rows are as the stream
\* has it.
Recorded(d) ==
    /\ owned[d]
    /\ call[d] = "pending" => noted[d] = "row"
    /\ call[d] # "none" => toolRows[d] = <<call[d]>>

Starting == {"idle", "user", "supersede", "insert"}

\* The rows of a call are pending or have its outcome; without a fault they
\* are complete at every point of the stream.
ToolInv(d) ==
    /\ pc[d] \in Starting => call[d] = "none"
    /\ call[d] = "none" => toolRows[d] = << >> /\ noted[d] = "nothing"
    /\ \A i \in DOMAIN toolRows[d] : toolRows[d][i] \in {"pending", call[d]}
    /\ (root[d] \notin harmed /\ pc[d] \in Streaming \cup {"memory", "done"}) => Recorded(d)

LEMMA AppendToEmpty == ASSUME NEW e PROVE Append(<< >>, e) = <<e>>
OBVIOUS

LEMMA HarmGrows ==
    ASSUME ChatTypeOK, NEW t \in Turns, Step(t)
    PROVE  \/ UNCHANGED <<harmed, faults>>
           \/ harmed' = harmed \cup {root[t]}
BY StepCases DEF Loads, Stores, Replaces, Calls, Closes, Refuse, LoadForSubmit,
   LoadForRegenerate, PersistUser, PersistUserFails, PersistAnswer, PersistAnswerFails,
   Supersede, SupersedeFails, StepCheckpoint, Close, CloseFails, Remember, Crash,
   StepCalls, StepOutcome, End, InsertToolFails, Fault, history

LEMMA ToolsByOthers ==
    ASSUME ChatTypeOK, NEW t \in Turns, Step(t), NEW d \in Turns, d # t, ToolInv(d)
    PROVE  ToolInv(d)'
<1>1. Keeps(d)
  BY OthersKept
<1>2. root[d] \notin harmed' => root[d] \notin harmed
  BY HarmGrows
<1>3. QED
  BY <1>1, <1>2 DEF ToolInv, Recorded, Keeps

\* A call's row is inserted by a turn that knows of none.
LEMMA ToolByCall ==
    ASSUME ChatTypeOK, NEW t \in Turns, StepCalls(t), ToolInv(t)
    PROVE  ToolInv(t)'
<1>1. PICK status \in {"pending"} \cup Terminal :
        /\ call' = [call EXCEPT ![t] = status]
        /\ IF owned[t]
           THEN \/ InsertTool(t, status) /\ UNCHANGED history
                \/ InsertToolFails(t, status)
           ELSE UNCHANGED <<toolRows, noted, history>>
  BY DEF StepCalls
<1>2. /\ pc[t] = "stream" /\ call[t] = "none" /\ toolRows[t] = << >>
      /\ pc'[t] = "step" /\ owned' = owned /\ root' = root
      /\ call'[t] = status /\ status # "none"
  BY <1>1 DEF StepCalls, ToolInv, ChatTypeOK, Goto, Terminal
<1>3. CASE owned[t] /\ InsertTool(t, status) /\ UNCHANGED history
  <2>1. toolRows'[t] = <<status>>
    BY <1>2, <1>3, AppendToEmpty DEF InsertTool, ChatTypeOK
  <2>2. status = "pending" => noted'[t] = "row"
    BY <1>3 DEF InsertTool, ChatTypeOK
  <2>3. QED
    BY <1>2, <1>3, <2>1, <2>2 DEF ToolInv, Recorded, Starting
<1>4. CASE owned[t] /\ InsertToolFails(t, status)
  <2>1. toolRows'[t] \in {<< >>, <<status>>}
    BY <1>2, <1>4, AppendToEmpty DEF InsertToolFails, ChatTypeOK
  <2>2. root[t] \in harmed'
    BY <1>4 DEF InsertToolFails, Fault
  <2>3. QED
    BY <1>2, <2>1, <2>2 DEF ToolInv, Starting
<1>5. CASE ~owned[t] /\ UNCHANGED <<toolRows, noted, history>>
  <2>1. root[t] \in harmed
    BY <1>2, <1>5 DEF ToolInv, Recorded, Streaming
  <2>2. toolRows'[t] = << >> /\ root'[t] \in harmed'
    BY <1>2, <1>5, <2>1 DEF history
  <2>3. QED
    BY <1>2, <2>2 DEF ToolInv, Starting
<1>6. QED
  BY <1>1, <1>3, <1>4, <1>5

LEMMA ToolByOutcome ==
    ASSUME ChatTypeOK, NEW t \in Turns, StepOutcome(t), ToolInv(t)
    PROVE  ToolInv(t)'
<1>1. PICK status \in Terminal :
        /\ call' = [call EXCEPT ![t] = status]
        /\ \/ /\ noted[t] = "row" /\ Len(toolRows[t]) = 1
              /\ toolRows' = [toolRows EXCEPT ![t] = <<status>>]
              /\ noted' = [noted EXCEPT ![t] = "outcome"]
              /\ UNCHANGED history
           \/ /\ noted[t] = "row"
              /\ Fault(t)
              /\ toolRows' \in {toolRows, [toolRows EXCEPT ![t] = <<status>>]}
              /\ UNCHANGED noted
           \/ /\ noted[t] # "row" \/ Len(toolRows[t]) # 1
              /\ UNCHANGED <<toolRows, noted, history>>
  BY DEF StepOutcome
<1>2. /\ pc[t] = "stream" /\ call[t] = "pending"
      /\ pc' = pc /\ owned' = owned /\ root' = root
      /\ call'[t] = status /\ status \notin {"none", "pending"}
  BY <1>1 DEF StepOutcome, ChatTypeOK, turnVars, Terminal
<1>3. ASSUME toolRows' = [toolRows EXCEPT ![t] = <<status>>]
      PROVE  toolRows'[t] = <<status>>
  BY <1>3 DEF ChatTypeOK
<1>4. \/ toolRows' = toolRows
      \/ toolRows'[t] = <<status>>
  BY <1>1, <1>3
<1>5. \A i \in DOMAIN toolRows'[t] : toolRows'[t][i] \in {"pending", call'[t]}
  BY <1>2, <1>4 DEF ToolInv
<1>6. ASSUME root[t] \notin harmed' PROVE Recorded(t)'
  <2>1. root[t] \notin harmed
    BY <1>1, <1>6 DEF Fault, history
  <2>2. Recorded(t)
    BY <1>2, <2>1 DEF ToolInv, Streaming
  <2>3. noted[t] = "row" /\ toolRows[t] = <<"pending">>
    BY <1>2, <2>2 DEF Recorded
  <2>4. Len(<<"pending">>) = 1
    OBVIOUS
  <2>5. toolRows'[t] = <<status>>
    BY <1>1, <1>3, <1>6, <2>3, <2>4 DEF Fault
  <2>6. QED
    BY <1>2, <2>2, <2>5 DEF Recorded
<1>7. QED
  BY <1>2, <1>5, <1>6 DEF ToolInv, Starting

LEMMA ToolByEnd ==
    ASSUME ChatTypeOK, NEW t \in Turns, End(t), ToolInv(t)
    PROVE  ToolInv(t)'
<1>1. /\ pc[t] = "stream" /\ pc'[t] = "close" /\ owned' = owned /\ root' = root /\ call' = call
  BY DEF End, ChatTypeOK, Goto
<1>2. CASE UNCHANGED <<toolRows, noted, history>>
  BY <1>1, <1>2 DEF ToolInv, Recorded, Streaming, Starting, history
<1>3. CASE /\ owned[t] /\ call[t] = "pending" /\ noted[t] = "nothing"
           /\ \/ InsertTool(t, "pending") /\ UNCHANGED history
              \/ InsertToolFails(t, "pending")
  <2>1. root[t] \in harmed
    BY <1>1, <1>3 DEF ToolInv, Recorded, Streaming
  <2>2. root[t] \in harmed'
    BY <1>3, <2>1 DEF InsertToolFails, Fault, history
  <2>3. toolRows'[t] = toolRows[t] \/ toolRows'[t] = Append(toolRows[t], "pending")
    BY <1>3 DEF InsertTool, InsertToolFails, ChatTypeOK
  <2>4. toolRows[t] \in Seq({"pending"} \cup Terminal)
    BY DEF ChatTypeOK
  <2>5. \A i \in DOMAIN toolRows'[t] : toolRows'[t][i] \in {"pending", call[t]}
    BY <2>3, <2>4 DEF ToolInv
  <2>6. QED
    BY <1>1, <1>3, <2>2, <2>5 DEF ToolInv, Starting
<1>4. QED
  BY <1>2, <1>3 DEF End

LEMMA ToolBySelf ==
    ASSUME ChatTypeOK, NEW t \in Turns, Step(t), ToolInv(t)
    PROVE  ToolInv(t)'
<1>1. CASE Loads(t)
  <2>0. pc[t] = "idle"
    BY <1>1 DEF Loads, Refuse, LoadForSubmit, LoadForRegenerate
  <2>1. UNCHANGED toolVars /\ pc'[t] \in {"refused", "user", "supersede"}
    BY <1>1 DEF Loads, Refuse, LoadForSubmit, LoadForRegenerate, Goto, ChatTypeOK
  <2>2. QED
    BY <2>1, <2>0 DEF ToolInv, Streaming, Starting, toolVars
<1>2. CASE Stores(t)
  <2>1. UNCHANGED toolVars /\ root' = root
    BY <1>2 DEF Stores, PersistUser, PersistUserFails, PersistAnswer, PersistAnswerFails
  <2>2. ASSUME root'[t] \notin harmed', pc'[t] \in Streaming \cup {"memory", "done"}
        PROVE  PersistAnswer(t)
    <3>1. CASE PersistUserFails(t) \/ PersistAnswerFails(t)
      BY <3>1, <2>1, <2>2 DEF PersistUserFails, PersistAnswerFails, Fault
    <3>2. CASE PersistUser(t)
      BY <3>2, <2>2 DEF PersistUser, Goto, ChatTypeOK, Streaming
    <3>3. QED
      BY <1>2, <3>1, <3>2 DEF Stores
  <2>3. PersistAnswer(t) => owned'[t]
    BY DEF PersistAnswer, ChatTypeOK
  <2>4. call[t] = "none"
    BY <1>2 DEF ToolInv, Starting, Stores, PersistUser, PersistUserFails, PersistAnswer,
         PersistAnswerFails
  <2>5. QED
    BY <2>1, <2>2, <2>3, <2>4 DEF ToolInv, Recorded, toolVars
<1>3. CASE Replaces(t)
  <2>0. pc[t] = "supersede"
    BY <1>3 DEF Replaces, Supersede, SupersedeFails
  <2>1. UNCHANGED toolVars /\ pc'[t] = "insert"
    BY <1>3 DEF Replaces, Supersede, SupersedeFails, Goto, ChatTypeOK
  <2>2. QED
    BY <2>1, <2>0 DEF ToolInv, Streaming, Starting, toolVars
<1>4. CASE Calls(t)
  BY <1>4, ToolByCall, ToolByOutcome, ToolByEnd DEF Calls
<1>5. CASE Closes(t)
  <2>1. UNCHANGED toolVars /\ root' = root /\ owned' = owned
    BY <1>5 DEF Closes, StepCheckpoint, Close, CloseFails, Remember, Crash
  <2>2. \/ pc[t] \in Streaming \cup {"memory", "done"}
        \/ pc'[t] = "crashed"
    BY <1>5 DEF Closes, StepCheckpoint, Close, CloseFails, Remember, Crash, Goto,
         ChatTypeOK, Streaming
  <2>3. root[t] \notin harmed' => root[t] \notin harmed
    BY HarmGrows
  <2>4. pc'[t] \notin Starting
    BY <1>5 DEF Closes, StepCheckpoint, Close, CloseFails, Remember, Crash, AfterEnd, Goto,
         ChatTypeOK, Starting
  <2>5. QED
    BY <2>1, <2>2, <2>3, <2>4 DEF ToolInv, Recorded, Streaming, toolVars
<1>6. QED
  BY <1>1, <1>2, <1>3, <1>4, <1>5, StepCases

AllTools == \A d \in Turns : ToolInv(d)

LEMMA ToolsKept == ChatTypeOK /\ AllTools /\ [Next]_vars => AllTools'
<1> SUFFICES ASSUME ChatTypeOK, AllTools, [Next]_vars, NEW d \in Turns
             PROVE  ToolInv(d)'
  BY DEF AllTools
<1>1. ASSUME NEW t \in Turns, Step(t) PROVE ToolInv(d)'
  BY <1>1, ToolsByOthers, ToolBySelf DEF AllTools
<1>2. CASE UNCHANGED vars
  BY <1>2 DEF AllTools, ToolInv, Recorded, vars, turnVars, toolVars, history
<1>3. QED
  BY <1>1, <1>2 DEF Next, Step

LEMMA ToolsTell == ChatTypeOK /\ AllTools => ToolIsRecorded
<1> SUFFICES ASSUME ChatTypeOK, AllTools, NEW t \in Turns
             PROVE  /\ \A i \in DOMAIN toolRows[t] : toolRows[t][i] \in {"pending", call[t]}
                    /\ (pc[t] = "done" /\ root[t] \notin harmed)
                       => toolRows[t] = IF call[t] = "none" THEN << >> ELSE <<call[t]>>
  BY DEF ToolIsRecorded
<1>1. ToolInv(t)
  BY DEF AllTools
<1>2. (pc[t] = "done" /\ root[t] \notin harmed) => Recorded(t)
  BY <1>1 DEF ToolInv
<1>3. QED
  BY <1>1, <1>2 DEF ToolInv, Recorded

\* The rows of a tool call never contradict the stream, and a turn that ends
\* without a fault has recorded its call once, with its outcome if it had one.
THEOREM ToolsAreRecorded == Spec => []ToolIsRecorded
<1>1. Init => AllTools
  BY DEF Init, AllTools, ToolInv, Streaming
<1>2. QED
  BY <1>1, ChatTypeCorrect, ToolsKept, ToolsTell, PTL DEF Spec

-----------------------------------------------------------------------------
(* One answer *)

\* The message of a turn, and the answers of other turns to it.
RootInv(d) ==
    /\ pc[d] = "idle" => root[d] = d
    /\ pc[d] \in Starting => answer[d] = 0
    /\ root[d] # d => pc[root[d]] # "idle"
    /\ pc[d] = "supersede" => /\ root[target[d]] = root[d]
                              /\ answer[target[d]] # 0
                              /\ pc[target[d]] # "idle"

AllRoots == \A d \in Turns : RootInv(d)

LEMMA RootsKept == ChatTypeOK /\ AllRoots /\ [Next]_vars => AllRoots'
<1> SUFFICES ASSUME ChatTypeOK, AllRoots, [Next]_vars, NEW d \in Turns
             PROVE  RootInv(d)'
  BY DEF AllRoots
<1>1. ASSUME NEW t \in Turns, Step(t) PROVE RootInv(d)'
  <2> USE <1>1
  <2>1. \A e \in Turns : pc'[e] = "idle" => pc[e] = "idle"
    <3>1. pc'[t] # "idle"
      BY StepCases DEF Loads, Stores, Replaces, Calls, Closes, Refuse, LoadForSubmit,
         LoadForRegenerate, PersistUser, PersistUserFails, PersistAnswer,
         PersistAnswerFails, Supersede, SupersedeFails, StepCheckpoint, Close, CloseFails,
         Remember, Crash, StepCalls, StepOutcome, End, Goto, Budget, AfterEnd, turnVars,
         ChatTypeOK
    <3>2. QED
      BY <3>1, OthersKept DEF Keeps
  <2>2. pc[t] # "idle" => root' = root /\ target' = target
    BY StepCases DEF Loads, Stores, Replaces, Calls, Closes, Refuse, LoadForSubmit,
       LoadForRegenerate, PersistUser, PersistUserFails, PersistAnswer,
       PersistAnswerFails, Supersede, SupersedeFails, StepCheckpoint, Close, CloseFails,
       Remember, Crash, StepCalls, StepOutcome, End, turnVars
  <2>3. \A e \in Turns : answer[e] # 0 => /\ answer'[e] # 0
                                          /\ root'[e] = root[e]
                                          /\ pc[e] # "idle"
    <3>1. \A e \in Turns : answer[e] # 0 => pc[e] # "idle"
      BY DEF AllRoots, RootInv, Starting
    <3>2. answer[t] # 0 => answer'[t] # 0
      <4>1. answer' = answer \/ InsertAnswerRow(t)
        BY StepCases DEF Loads, Stores, Replaces, Calls, Closes, Refuse, LoadForSubmit,
           LoadForRegenerate, PersistUser, PersistUserFails, PersistAnswer,
           PersistAnswerFails, Supersede, SupersedeFails, StepCheckpoint, Close,
           CloseFails, Remember, Crash, StepCalls, StepOutcome, End, InsertUserRow, rowVars
      <4>2. QED
        BY <4>1 DEF InsertAnswerRow, ChatTypeOK
    <3>3. QED
      BY <3>1, <3>2, <2>2, OthersKept DEF Keeps
  <2>4. CASE d # t
    <3>1. Keeps(d) /\ RootInv(d)
      BY <2>4, OthersKept DEF AllRoots
    <3>2. root[d] \in Turns /\ target[d] \in Turns
      BY DEF ChatTypeOK
    <3>3. QED
      BY <3>1, <3>2, <2>1, <2>3 DEF RootInv, Keeps, Starting
  <2>5. CASE d = t /\ pc[t] = "idle"
    <3>1. Loads(t)
      BY <2>5, StepCases DEF Stores, Replaces, Calls, Closes, PersistUser,
         PersistUserFails, PersistAnswer, PersistAnswerFails, Supersede, SupersedeFails,
         StepCheckpoint, Close, CloseFails, Remember, Crash, StepCalls, StepOutcome, End,
         Active, Streaming
    <3>2. root[t] = t /\ answer'[t] = 0
      BY <2>5, <3>1 DEF AllRoots, RootInv, Starting, Loads, Refuse, LoadForSubmit,
         LoadForRegenerate, rowVars
    <3>3. CASE Refuse(t)
      BY <2>5, <3>2, <3>3 DEF RootInv, Refuse, Goto, ChatTypeOK
    <3>4. CASE LoadForSubmit(t)
      BY <2>5, <3>2, <3>4 DEF RootInv, LoadForSubmit, Goto, ChatTypeOK
    <3>5. CASE LoadForRegenerate(t)
      <4>1. PICK u \in Turns :
              /\ VisibleAnswer(u)
              /\ target' = [target EXCEPT ![t] = u]
              /\ root' = [root EXCEPT ![t] = root[u]]
        BY <3>5 DEF LoadForRegenerate
      <4>2. answer[u] # 0 /\ root[u] \in Turns
        BY <4>1 DEF VisibleAnswer, Loaded, ChatTypeOK
      <4>3. pc[u] # "idle" /\ u # t /\ RootInv(u)
        BY <2>3, <2>5, <4>2 DEF AllRoots
      <4>4. pc[root[u]] # "idle"
        BY <4>3 DEF RootInv
      <4>5. target'[t] = u /\ root'[t] = root[u] /\ root'[u] = root[u] /\ pc'[t] = "supersede"
        BY <3>5, <4>1, <4>3 DEF LoadForRegenerate, Goto, ChatTypeOK
      <4>6. QED
        BY <2>1, <2>3, <2>5, <3>2, <4>2, <4>3, <4>4, <4>5 DEF RootInv
    <3>6. QED
      BY <3>1, <3>3, <3>4, <3>5 DEF Loads
  <2>6. CASE d = t /\ pc[t] # "idle"
    <3>1. root' = root /\ target' = target /\ root[t] \in Turns /\ RootInv(t)
      BY <2>2, <2>6 DEF ChatTypeOK, AllRoots
    <3>2. pc'[t] # "idle" /\ pc'[t] # "supersede"
      BY <2>6, StepCases DEF Loads, Stores, Replaces, Calls, Closes, Refuse, LoadForSubmit,
         LoadForRegenerate, PersistUser, PersistUserFails, PersistAnswer,
         PersistAnswerFails, Supersede, SupersedeFails, StepCheckpoint, Close, CloseFails,
         Remember, Crash, StepCalls, StepOutcome, End, Goto, Budget, AfterEnd, turnVars,
         ChatTypeOK
    <3>3. pc'[t] \in Starting => answer'[t] = 0
      <4>1. pc'[t] \in Starting => pc[t] \in {"user", "supersede"}
        BY <2>6, StepCases DEF Loads, Stores, Replaces, Calls, Closes, Refuse,
           LoadForSubmit, LoadForRegenerate, PersistUser, PersistUserFails, PersistAnswer,
           PersistAnswerFails, Supersede, SupersedeFails, StepCheckpoint, Close, CloseFails,
           Remember, Crash, StepCalls, StepOutcome, End, Goto, Budget, AfterEnd, turnVars,
           ChatTypeOK, Starting
      <4>2. pc[t] \in {"user", "supersede"} => answer' = answer
        BY StepCases DEF Loads, Stores, Replaces, Calls, Closes, Refuse,
           LoadForSubmit, LoadForRegenerate, PersistUser, PersistUserFails, PersistAnswer,
           PersistAnswerFails, Supersede, SupersedeFails, StepCheckpoint, Close, CloseFails,
           Remember, Crash, StepCalls, StepOutcome, End, InsertUserRow, rowVars
      <4>3. QED
        BY <3>1, <4>1, <4>2 DEF RootInv, Starting
    <3>4. QED
      BY <2>1, <2>6, <3>1, <3>2, <3>3 DEF RootInv
  <2>7. QED
    BY <2>4, <2>5, <2>6
<1>2. CASE UNCHANGED vars
  BY <1>2 DEF AllRoots, RootInv, vars, rowVars, turnVars
<1>3. QED
  BY <1>1, <1>2 DEF Next, Step

In(d, u) == root[d] = u /\ answer[d] # 0 /\ meta[d] # "superseded"

\* Of a message without races and faults: one turn at a time, at most one
\* answer shown, none while the next one is not inserted yet, and the
\* turn's own while it streams.
PhaseInv(u) ==
    /\ \A a, b \in Turns :
         (root[a] = u /\ root[b] = u /\ pc[a] \in Active /\ pc[b] \in Active) => a = b
    /\ \A a, b \in Turns : (In(a, u) /\ In(b, u)) => a = b
    /\ \A a, b \in Turns : (root[a] = u /\ pc[a] \in {"user", "insert"}) => ~In(b, u)
    /\ \A a, b \in Turns : (root[a] = u /\ pc[a] = "supersede" /\ In(b, u)) => b = target[a]
    /\ \A a \in Turns : (root[a] = u /\ pc[a] \in Streaming \cup {"memory"}) => In(a, u)
    /\ \A a \in Turns :
         (/\ root[a] = u /\ answer[a] # 0
          /\ \A b \in Turns : root[b] = u => pc[b] \notin Active)
         => \E b \in Turns : In(b, u)

AllPhases == \A u \in Turns \ (raced \cup harmed) : PhaseInv(u)

LEMMA HistoryGrows ==
    ASSUME ChatTypeOK, NEW t \in Turns, Step(t)
    PROVE  harmed \subseteq harmed' /\ raced \subseteq raced'
<1>1. harmed \subseteq harmed'
  BY HarmGrows
<1>2. raced' = raced \/ LoadForRegenerate(t)
  BY StepCases DEF Loads, Stores, Replaces, Calls, Closes, Refuse, LoadForSubmit,
     PersistUser, PersistUserFails, PersistAnswer, PersistAnswerFails,
     Supersede, SupersedeFails, StepCheckpoint, Close, CloseFails, Remember, Crash,
     StepCalls, StepOutcome, End, InsertToolFails, Fault, history
<1>3. raced \subseteq raced'
  BY <1>2 DEF LoadForRegenerate, NoteRace
<1>4. QED
  BY <1>1, <1>3

\* A turn does not touch the answers to another message.
LEMMA PhaseByOthers ==
    ASSUME ChatTypeOK, AllRoots, NEW t \in Turns, Step(t), NEW u \in Turns,
           root[t] # u, root'[t] # u, PhaseInv(u)
    PROVE  PhaseInv(u)'
<1>1. ASSUME NEW d \in Turns, d # t PROVE Keeps(d)
  BY <1>1, OthersKept
<1>2. ASSUME NEW d \in Turns, d # t, root[d] = u PROVE meta'[d] = meta[d]
  BY <1>2, OthersKept DEF AllRoots, RootInv
<1>3. ASSUME NEW d \in Turns PROVE In(d, u)' <=> In(d, u)
  BY <1>1, <1>2, <1>3 DEF In, Keeps
<1>4. ASSUME NEW d \in Turns PROVE root'[d] = u <=> root[d] = u
  BY <1>1, <1>4 DEF Keeps
<1>5. ASSUME NEW d \in Turns, root[d] = u
      PROVE  pc'[d] = pc[d] /\ target'[d] = target[d] /\ answer'[d] = answer[d]
  BY <1>1, <1>5 DEF Keeps
<1> HIDE DEF In
<1>6. QED
  BY <1>3, <1>4, <1>5 DEF PhaseInv, Active, Streaming

\* The answers of a message nobody has answered yet.
LEMMA PhaseOfNew ==
    ASSUME ChatTypeOK, AllRoots, NEW t \in Turns, pc[t] = "idle", Step(t)
    PROVE  PhaseInv(t)'
<1>1. ASSUME NEW d \in Turns, d # t PROVE root[d] # t /\ Keeps(d)
  BY <1>1, OthersKept DEF AllRoots, RootInv
<1>2. Loads(t)
  BY StepCases DEF Stores, Replaces, Calls, Closes, PersistUser, PersistUserFails,
     PersistAnswer, PersistAnswerFails, Supersede, SupersedeFails, StepCheckpoint, Close,
     CloseFails, Remember, Crash, StepCalls, StepOutcome, End, Active, Streaming
<1>3. answer'[t] = 0
  BY <1>2 DEF AllRoots, RootInv, Starting, Loads, Refuse, LoadForSubmit,
     LoadForRegenerate, rowVars
<1>4. ASSUME NEW d \in Turns PROVE ~In(d, t)' /\ (root'[d] = t => d = t /\ answer'[d] = 0)
  BY <1>1, <1>3, <1>4 DEF In, Keeps
<1>5. pc'[t] \in {"refused", "user"} \/ root'[t] # t
  <2>1. CASE Refuse(t) \/ LoadForSubmit(t)
    BY <2>1 DEF Refuse, LoadForSubmit, Goto, ChatTypeOK
  <2>2. CASE LoadForRegenerate(t)
    <3>1. PICK v \in Turns : VisibleAnswer(v) /\ root' = [root EXCEPT ![t] = root[v]]
      BY <2>2 DEF LoadForRegenerate
    <3>2. answer[v] # 0 /\ answer[t] = 0
      <4>1. answer[v] # 0
        BY <3>1 DEF VisibleAnswer, Loaded
      <4>2. answer[t] = 0
        BY DEF AllRoots, RootInv, Starting
      <4>3. QED
        BY <4>1, <4>2
    <3>3. QED
      BY <1>1, <3>1, <3>2 DEF ChatTypeOK
  <2>3. QED
    BY <1>2, <2>1, <2>2 DEF Loads
<1> HIDE DEF In
<1>6. QED
  BY <1>4, <1>5 DEF PhaseInv, Active, Streaming

\* A regeneration that joins a message no turn is at work on.
LEMMA PhaseOfJoined ==
    ASSUME ChatTypeOK, AllRoots, NEW t \in Turns, pc[t] = "idle", Step(t),
           NEW u \in Turns, u # t, root'[t] = u, u \notin raced', PhaseInv(u)
    PROVE  PhaseInv(u)'
<1>1. ASSUME NEW d \in Turns, d # t PROVE Keeps(d) /\ meta'[d] = meta[d]
  BY <1>1, OthersKept
<1>2. root[t] = t /\ answer[t] = 0
  BY DEF AllRoots, RootInv, Starting
<1>3. LoadForRegenerate(t)
  BY <1>2, StepCases DEF Loads, Stores, Replaces, Calls, Closes, Refuse, LoadForSubmit,
     PersistUser, PersistUserFails,
     PersistAnswer, PersistAnswerFails, Supersede, SupersedeFails, StepCheckpoint, Close,
     CloseFails, Remember, Crash, StepCalls, StepOutcome, End, Active, Streaming, ChatTypeOK
<1>4. PICK v \in Turns :
        /\ VisibleAnswer(v)
        /\ target' = [target EXCEPT ![t] = v]
        /\ root' = [root EXCEPT ![t] = root[v]]
        /\ NoteRace(t, root[v])
  BY <1>3 DEF LoadForRegenerate
<1>5. root[v] = u /\ target'[t] = v /\ In(v, u) /\ v # t
  BY <1>2, <1>4 DEF ChatTypeOK, VisibleAnswer, Loaded, In
<1>6. ASSUME NEW d \in Turns, d # t, root[d] = u PROVE pc[d] \notin Active
  BY <1>4, <1>5, <1>6 DEF NoteRace
<1>7. answer'[t] = 0 /\ pc'[t] = "supersede"
  BY <1>2, <1>3 DEF LoadForRegenerate, Goto, rowVars, ChatTypeOK
<1>8. ASSUME NEW d \in Turns PROVE In(d, u)' <=> In(d, u)
  BY <1>1, <1>2, <1>7, <1>8 DEF In, Keeps
<1>9. ASSUME NEW d \in Turns, root'[d] = u, d # t PROVE pc'[d] \notin Active /\ root[d] = u
  BY <1>1, <1>6, <1>9 DEF Keeps
<1>10. \A a, b \in Turns : (In(a, u)' /\ In(b, u)') => a = b
  BY <1>8 DEF PhaseInv
<1>11. \A b \in Turns : In(b, u)' => b = v
  BY <1>5, <1>8 DEF PhaseInv
<1>12. pc'[t] \in Active /\ pc'[t] \notin {"user", "insert", "memory"} \cup Streaming
  BY <1>7 DEF Active, Streaming
<1> HIDE DEF In
<1>13. \A a, b \in Turns :
         (root'[a] = u /\ root'[b] = u /\ pc'[a] \in Active /\ pc'[b] \in Active) => a = b
  BY <1>9
<1>14. \A a \in Turns : (root'[a] = u /\ a # t) => pc'[a] \notin Active
  BY <1>9
<1>15. {"user", "insert", "supersede", "memory"} \cup Streaming \subseteq Active
  BY DEF Active
<1>16. QED
  BY <1>5, <1>10, <1>11, <1>12, <1>13, <1>14, <1>15 DEF PhaseInv

\* The only turn at work on a message has hidden its answers or shows its own.
LEMMA PhaseOfOwn ==
    ASSUME ChatTypeOK, AllRoots, NEW t \in Turns, pc[t] \in Active, Step(t),
           NEW u \in Turns, root[t] = u, root' = root, PhaseInv(u),
           \/ pc'[t] = "insert" /\ \A b \in Turns : ~In(b, u)'
           \/ /\ pc'[t] \in Streaming \cup {"memory", "done", "refused"}
              /\ In(t, u)'
              /\ \A b \in Turns : In(b, u)' => b = t
    PROVE  PhaseInv(u)'
<1>1. ASSUME NEW d \in Turns, d # t, root'[d] = u PROVE pc'[d] \notin Active
  <2>1. pc[d] \notin Active
    BY <1>1 DEF PhaseInv
  <2>2. QED
    BY <1>1, <2>1, OthersKept DEF Keeps
<1>2. {"user", "insert", "supersede", "memory"} \cup Streaming \subseteq Active
  BY DEF Active
<1>3. Streaming \cap {"user", "insert", "supersede"} = {} /\ "insert" \notin Streaming
  BY DEF Streaming
<1> HIDE DEF In
<1>4. \A a \in Turns : (root'[a] = u /\ pc'[a] \in Active) => a = t
  BY <1>1
<1>5. CASE pc'[t] = "insert" /\ \A b \in Turns : ~In(b, u)'
  BY <1>2, <1>3, <1>4, <1>5 DEF PhaseInv
<1>6. CASE /\ pc'[t] \in Streaming \cup {"memory", "done", "refused"}
           /\ In(t, u)'
           /\ \A b \in Turns : In(b, u)' => b = t
  BY <1>2, <1>3, <1>4, <1>6 DEF PhaseInv
<1>7. QED
  BY <1>5, <1>6

\* The steps of that turn without a fault.
LEMMA PhaseOfWork ==
    ASSUME ChatTypeOK, AllRoots, NEW t \in Turns, pc[t] # "idle", Step(t),
           NEW u \in Turns, root[t] = u, u \notin harmed', PhaseInv(u)
    PROVE  PhaseInv(u)'
<1>1. ~Fault(t)
  BY DEF Fault
<1>2. pc[t] \in Active /\ root' = root
  BY StepCases DEF Loads, Stores, Replaces, Calls, Closes, Refuse, LoadForSubmit,
     LoadForRegenerate, PersistUser, PersistUserFails, PersistAnswer, PersistAnswerFails,
     Supersede, SupersedeFails, StepCheckpoint, Close, CloseFails, Remember, Crash,
     StepCalls, StepOutcome, End, Active, Streaming, turnVars
<1>3. ASSUME NEW b \in Turns, b # t, In(b, u)' PROVE In(b, u)
  BY <1>3, OthersKept DEF In, Keeps
<1>4. CASE PersistUser(t)
  <2>1. pc[t] = "user" /\ pc'[t] = "insert" /\ answer' = answer /\ meta' = meta
    BY <1>4 DEF PersistUser, InsertUserRow, Goto, ChatTypeOK
  <2>2. \A b \in Turns : ~In(b, u)
    BY <2>1 DEF PhaseInv
  <2>3. \A b \in Turns : ~In(b, u)'
    BY <1>2, <2>1, <2>2 DEF In
  <2>4. QED
    BY <1>2, <2>1, <2>3, PhaseOfOwn
<1>5. CASE Supersede(t)
  <2>1. /\ pc[t] = "supersede" /\ pc'[t] = "insert" /\ answer' = answer
        /\ meta' = [meta EXCEPT ![target[t]] = "superseded"]
    BY <1>5 DEF Supersede, WriteMeta, Goto, ChatTypeOK
  <2>2. \A b \in Turns : In(b, u) => b = target[t]
    BY <2>1 DEF PhaseInv
  <2>3. \A b \in Turns : ~In(b, u)'
    BY <1>2, <2>1, <2>2 DEF In, ChatTypeOK
  <2>4. QED
    BY <1>2, <2>1, <2>3, PhaseOfOwn
<1>6. CASE PersistAnswer(t)
  <2>1. /\ pc[t] = "insert" /\ pc'[t] \in {"stream", "refused"}
        /\ answer' = [answer EXCEPT ![t] = last + 1]
        /\ meta' = [meta EXCEPT ![t] = "streaming"]
    BY <1>6 DEF PersistAnswer, InsertAnswerRow, Budget, WriteMeta, Goto, ChatTypeOK
  <2>2. \A b \in Turns : ~In(b, u)
    BY <2>1 DEF PhaseInv
  <2>3. In(t, u)'
    <3>1. last \in Nat /\ answer'[t] = last + 1 /\ meta'[t] = "streaming"
      BY <2>1 DEF ChatTypeOK
    <3>2. QED
      BY <1>2, <3>1 DEF In
  <2>4. \A b \in Turns : In(b, u)' => b = t
    BY <1>3, <2>2
  <2>5. pc'[t] \in Streaming \cup {"memory", "done", "refused"}
    BY <2>1 DEF Streaming
  <2>6. QED
    BY <1>2, <2>3, <2>4, <2>5, PhaseOfOwn
<1>7. CASE Calls(t) \/ StepCheckpoint(t) \/ Close(t) \/ Remember(t)
  <2>1. pc[t] \in Streaming \cup {"memory"} /\ answer' = answer
    BY <1>7 DEF Calls, StepCalls, StepOutcome, End, StepCheckpoint, Close, Remember,
         Streaming, rowVars
  <2>2. pc'[t] \in Streaming \cup {"memory", "done", "refused"}
    BY <1>7 DEF Calls, StepCalls, StepOutcome, End, StepCheckpoint, Close, Remember,
         AfterEnd, Streaming, Goto, turnVars, ChatTypeOK
  <2>3. In(t, u)
    BY <2>1 DEF PhaseInv
  <2>4. meta' = meta \/ \E status \in {"streaming"} \cup Ends : WriteMeta(t, status)
    BY <1>7 DEF Calls, StepCalls, StepOutcome, End, StepCheckpoint, Close, Remember, rowVars
  <2>5. In(t, u)'
    BY <1>2, <2>1, <2>3, <2>4 DEF In, WriteMeta, Ends, ChatTypeOK
  <2>6. \A b \in Turns : In(b, u)' => b = t
    BY <1>3, <2>3 DEF PhaseInv
  <2>7. QED
    BY <1>2, <2>2, <2>5, <2>6, PhaseOfOwn
<1>8. Calls(t) \/ StepCheckpoint(t) \/ Close(t) \/ Remember(t) \/ PersistUser(t)
        \/ Supersede(t) \/ PersistAnswer(t)
  BY <1>1, StepCases DEF Loads, Stores, Replaces, Closes, Refuse, LoadForSubmit,
     LoadForRegenerate, PersistUserFails, PersistAnswerFails, SupersedeFails, CloseFails,
     Crash
<1>9. QED
  BY <1>4, <1>5, <1>6, <1>7, <1>8

LEMMA PhasesKept ==
    ChatTypeOK /\ AllRoots /\ AllPhases /\ [Next]_vars => AllPhases'
<1> SUFFICES ASSUME ChatTypeOK, AllRoots, AllPhases, [Next]_vars,
                    NEW u \in Turns, u \notin raced', u \notin harmed'
             PROVE  PhaseInv(u)'
  BY DEF AllPhases
<1>1. ASSUME NEW t \in Turns, Step(t) PROVE PhaseInv(u)'
  <2>1. PhaseInv(u)
    BY <1>1, HistoryGrows DEF AllPhases
  <2>2. CASE root[t] # u /\ root'[t] # u
    BY <1>1, <2>1, <2>2, PhaseByOthers
  <2>3. CASE pc[t] = "idle" /\ (root[t] = u \/ root'[t] = u)
    <3>1. root[t] = t
      BY <2>3 DEF AllRoots, RootInv
    <3>2. QED
      BY <1>1, <2>1, <2>3, <3>1, PhaseOfNew, PhaseOfJoined
  <2>4. CASE pc[t] # "idle" /\ (root[t] = u \/ root'[t] = u)
    <3>1. root' = root
      BY <1>1, <2>4, StepCases DEF Loads, Stores, Replaces, Calls, Closes, Refuse,
         LoadForSubmit, LoadForRegenerate, PersistUser, PersistUserFails, PersistAnswer,
         PersistAnswerFails, Supersede, SupersedeFails, StepCheckpoint, Close, CloseFails,
         Remember, Crash, StepCalls, StepOutcome, End, turnVars
    <3>2. QED
      BY <1>1, <2>1, <2>4, <3>1, PhaseOfWork
  <2>5. QED
    BY <2>2, <2>3, <2>4
<1>2. CASE UNCHANGED vars
  <2>1. PhaseInv(u)
    BY <1>2 DEF AllPhases, vars, history
  <2>2. UNCHANGED <<root, answer, meta, pc, target>>
    BY <1>2 DEF vars, rowVars, turnVars
  <2>3. QED
    BY <2>1, <2>2 DEF PhaseInv, In
<1>3. QED
  BY <1>1, <1>2 DEF Next, Step

LEMMA PhasesShow == ChatTypeOK /\ AllPhases => OneAnswer
<1> SUFFICES ASSUME ChatTypeOK, AllPhases, NEW u \in Turns \ (raced \cup harmed)
             PROVE  /\ Cardinality(Shown(u)) <= 1
                    /\ (/\ \A t \in Turns : root[t] = u => pc[t] \notin Active
                        /\ \E t \in Turns : root[t] = u /\ answer[t] # 0)
                       => Shown(u) # {}
  BY DEF OneAnswer
<1>1. PhaseInv(u)
  BY DEF AllPhases
<1>2. \A d \in Turns : d \in Shown(u) <=> In(d, u)
  BY DEF Shown, In
<1>3. Cardinality(Shown(u)) <= 1
  <2>1. CASE Shown(u) = {}
    BY <2>1, FS_EmptySet
  <2>2. CASE Shown(u) # {}
    <3>1. PICK d \in Turns : d \in Shown(u)
      BY <2>2 DEF Shown
    <3>2. Shown(u) = {d}
      BY <1>1, <1>2, <3>1 DEF PhaseInv, Shown
    <3>3. QED
      BY <3>2, FS_Singleton
  <2>3. QED
    BY <2>1, <2>2
<1>4. QED
  BY <1>1, <1>2, <1>3 DEF PhaseInv

LEMMA InitPhases == Init => AllRoots /\ AllPhases
BY DEF Init, AllRoots, RootInv, AllPhases, PhaseInv, In, Active, Streaming

\* Any number of regenerations of a message, one after the other, leave one
\* answer to it, whatever became of the answers they replaced.
THEOREM AnswersAreReplaced == Spec => []OneAnswer
<1>1. AllRoots /\ ChatTypeOK /\ [Next]_vars => AllRoots'
  BY RootsKept
<1>2. QED
  BY <1>1, InitPhases, ChatTypeCorrect, PhasesKept, PhasesShow, PTL DEF Spec

=============================================================================
