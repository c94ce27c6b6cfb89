-------------------------- MODULE MemorySyncProofs --------------------------
(***************************************************************************)
(* What TLAPS proves of MemorySync, for any number of turns, retries,      *)
(* faults and deletions.                                                   *)
(***************************************************************************)
EXTENDS MemorySync, TLAPS

\* The turns' steps.
Step(t) == Commit(t) \/ Request(t) \/ Handle(t) \/ Around(t)

-----------------------------------------------------------------------------
(* What the layers do to a job *)

Standings == {"none", "queued", "working", "reworking", "done", "dead", "lost"}

LayerTypes ==
    /\ job \in [Turns -> Standings]
    /\ left \in [Turns -> 0 .. MaxAttempts] /\ calm \in BOOLEAN
    /\ \A t \in Turns :
          /\ job[t] = "queued" => left[t] > 0
          /\ job[t] = "dead" => left[t] = 0
          /\ job[t] = "none" => left[t] = MaxAttempts

\* The steps of the layers.
Layered(t) ==
    \/ Layer!Publish(t) \/ Layer!Start(t) \/ Layer!Finish(t) \/ Layer!Fail(t)
    \/ Layer!Refuse(t) \/ Layer!Disturb(t) \/ Layer!Aftermath(t)

LEMMA MoveKeeps ==
    ASSUME LayerTypes, NEW t \in Turns, NEW s \in Standings \ {"none"}, NEW n \in 0 .. left[t],
           Layer!Move(t, s, n), calm' \in BOOLEAN,
           s = "queued" => n > 0, s = "dead" => n = 0
    PROVE  /\ LayerTypes' /\ job'[t] = s /\ left'[t] = n
           /\ \A d \in Turns \ {t} : job'[d] = job[d] /\ left'[d] = left[d]
<1>1. job' = [job EXCEPT ![t] = s] /\ left' = [left EXCEPT ![t] = n]
  BY DEF Layer!Move
<1>2. left[t] \in 0 .. MaxAttempts /\ MaxAttempts \in Nat
  BY MemoryAssumption DEF LayerTypes
<1>3. n \in 0 .. MaxAttempts
  BY <1>2
<1>4. job' \in [Turns -> Standings] /\ left' \in [Turns -> 0 .. MaxAttempts]
  BY <1>1, <1>3 DEF LayerTypes
<1>5. /\ job'[t] = s /\ left'[t] = n
      /\ \A d \in Turns \ {t} : job'[d] = job[d] /\ left'[d] = left[d]
  BY <1>1 DEF LayerTypes
<1>6. QED
  BY <1>4, <1>5 DEF LayerTypes

\* A job with n attempts left, and none to lose: retried or dead.
LEMMA RetriedStands ==
    ASSUME NEW n \in Nat
    PROVE  /\ Layer!Retried(n) \in {"queued", "dead"}
           /\ Layer!Retried(n) = "queued" => n > 0
           /\ Layer!Retried(n) = "dead" => n = 0
BY DEF Layer!Retried

LEMMA LayerKeeps ==
    ASSUME LayerTypes, NEW t \in Turns, Layered(t)
    PROVE  /\ LayerTypes' /\ job'[t] # "none"
           /\ \A d \in Turns \ {t} : job'[d] = job[d] /\ left'[d] = left[d]
<1> DEFINE Kept == /\ LayerTypes' /\ job'[t] # "none"
                   /\ \A d \in Turns \ {t} : job'[d] = job[d] /\ left'[d] = left[d]
<1> /\ job[t] \in Standings /\ left[t] \in 0 .. MaxAttempts /\ left[t] \in Nat
    /\ MaxAttempts \in Nat \ {0}
  BY MemoryAssumption DEF LayerTypes
<1>1. calm' \in BOOLEAN
  BY DEF Layered, Layer!Publish, Layer!Start, Layer!Finish, Layer!Fail, Layer!Refuse,
     Layer!Disturb, Layer!Aftermath, LayerTypes
<1>2. ASSUME NEW s \in Standings \ {"none"}, NEW n \in 0 .. left[t], Layer!Move(t, s, n),
             s = "queued" => n > 0, s = "dead" => n = 0
      PROVE  Kept
  BY <1>1, <1>2, MoveKeeps
<1>3. ASSUME NEW n \in 0 .. left[t], Layer!Move(t, Layer!Retried(n), n) PROVE Kept
  <2>1. n \in Nat
    OBVIOUS
  <2>2. Layer!Retried(n) \in Standings \ {"none"}
    BY <2>1, RetriedStands DEF Standings
  <2>3. QED
    BY <1>2, <1>3, <2>1, <2>2, RetriedStands
<1> SUFFICES Kept
  OBVIOUS
<1> HIDE DEF Kept
<1>4. CASE Layer!Publish(t)
  <2>1. left[t] > 0 /\ Layer!Move(t, "queued", left[t])
    BY <1>4 DEF Layer!Publish, LayerTypes
  <2>2. QED
    BY <1>2, <2>1 DEF Standings
<1>5. CASE Layer!Start(t)
  <2>1. left[t] - 1 \in 0 .. left[t]
    BY <1>5 DEF Layer!Start
  <2>2. Layer!Move(t, "working", left[t] - 1) \/ Layer!Move(t, "reworking", left[t] - 1)
    BY <1>5 DEF Layer!Start
  <2>3. QED
    BY <1>2, <2>1, <2>2 DEF Standings
<1>6. CASE Layer!Finish(t)
  BY <1>2, <1>6 DEF Layer!Finish, Standings
<1>7. CASE Layer!Fail(t)
  <2>1. left[t] \in 0 .. left[t]
    OBVIOUS
  <2>2. CASE Layer!Move(t, Layer!Retried(left[t]), left[t])
    BY <1>3, <2>1, <2>2
  <2>3. CASE Layer!Move(t, "done", left[t])
    BY <1>2, <2>1, <2>3 DEF Standings
  <2>4. QED
    BY <1>7, <2>2, <2>3 DEF Layer!Fail
<1>8. CASE Layer!Refuse(t)
  <2>1. left[t] - 1 \in 0 .. left[t] /\ Layer!Move(t, Layer!Retried(left[t] - 1), left[t] - 1)
    BY <1>8 DEF Layer!Refuse
  <2>2. QED
    BY <1>3, <2>1
<1>9. CASE Layer!Unsettle(t)
  <2>1. PICK n \in 0 .. left[t] :
          \/ job[t] = "queued" /\ \E s \in {Layer!Retried(n), "lost"} : Layer!Move(t, s, n)
          \/ job[t] = "working"
             /\ \E s \in {"working", Layer!Retried(n), "lost"} : Layer!Move(t, s, n)
          \/ job[t] = "reworking" /\ \E s \in {"reworking", "done"} : Layer!Move(t, s, n)
          \/ job[t] \in {"done", "dead", "lost"} /\ Layer!Move(t, job[t], n)
    BY <1>9 DEF Layer!Unsettle
  <2>2. CASE Layer!Move(t, Layer!Retried(n), n)
    BY <1>3, <2>2
  <2>3. ASSUME NEW s \in {"lost", "working", "reworking", "done"}, Layer!Move(t, s, n)
        PROVE  Kept
    BY <1>2, <2>3 DEF Standings
  <2>4. CASE job[t] = "dead" /\ Layer!Move(t, "dead", n)
    <3>1. n = 0
      BY <2>4 DEF LayerTypes
    <3>2. QED
      BY <1>2, <2>4, <3>1 DEF Standings
  <2>5. QED
    BY <2>1, <2>2, <2>3, <2>4
<1>10. QED
  BY <1>4, <1>5, <1>6, <1>7, <1>8, <1>9
     DEF Layered, Layer!Disturb, Layer!Aftermath

-----------------------------------------------------------------------------
(* What the steps of a turn touch *)

\* A request stores its turn once, publishes its job, and ends.
LEMMA RequestTouches ==
    ASSUME NEW t \in Turns, Commit(t) \/ Request(t)
    PROVE  /\ pc[t] \notin {"done", "crashed"}
           /\ UNCHANGED <<chat, step, again, erased, deletions>>
           /\ session => session'
           /\ \E p \in {"enqueue", "done", "crashed"} \cup Storing : Goto(t, p)
           /\ \/ UNCHANGED result
              \/ \E s \in {"ok", "error"} : result' = [result EXCEPT ![t].supabase = s]
              \/ \E s \in {"ok", "error"} : result' = [result EXCEPT ![t].upstash = s]
           /\ \/ UNCHANGED layerVars
              \/ pc[t] = "enqueue" /\ Layer!Publish(t)
           /\ \/ UNCHANGED rows
              \/ pc[t] = "insert" /\ rows' = [rows EXCEPT ![t].adapter = @ + 1]
<1> USE DEF Storing, Goto, rowVars, requestVars, jobVars, layerVars, history, Fault
<1>1. CASE Commit(t) \/ CheckSession(t) \/ RequestCrashes(t)
  BY <1>1 DEF Commit, CheckSession, RequestCrashes
<1>2. CASE CreateSession(t)
  BY <1>2 DEF CreateSession, Answer
<1>3. CASE InsertTurn(t)
  BY <1>3 DEF InsertTurn, Answer
<1>4. CASE TouchSession(t)
  BY <1>4 DEF TouchSession, Answer
<1>5. CASE StoreFails(t)
  BY <1>5 DEF StoreFails, Answer
<1>6. CASE Enqueue(t) \/ EnqueueFails(t)
  BY <1>6 DEF Enqueue, EnqueueFails, Answer
<1>7. QED
  BY <1>1, <1>2, <1>3, <1>4, <1>5, <1>6 DEF Request

\* A run stores its turn or not, goes on, finishes or throws.
LEMMA HandlerTouches ==
    ASSUME NEW t \in Turns, Handle(t)
    PROVE  /\ job[t] \in Layer!AtWork
           /\ UNCHANGED <<chat, requestVars, again, erased, deletions>>
           /\ session => session'
           /\ UNCHANGED layerVars \/ Layer!Finish(t) \/ Layer!Fail(t)
           /\ \E c \in Calls : step' = [step EXCEPT ![t] = c]
           /\ UNCHANGED rows \/ rows' = [rows EXCEPT ![t].job = @ + 1]
<1> USE DEF At, Then, Leave, Throw, Calls, Storing, rowVars, requestVars, layerVars, history
<1>1. CASE CheckAccess(t) \/ CheckMemorySession(t) \/ LookUp(t)
  BY <1>1 DEF CheckAccess, CheckMemorySession, LookUp
<1>2. CASE CreateMemorySession(t)
  BY <1>2 DEF CreateMemorySession
<1>3. CASE InsertTurns(t)
  BY <1>3 DEF InsertTurns
<1>4. CASE TouchMemorySession(t) \/ TouchChatSession(t)
  BY <1>4 DEF TouchMemorySession, TouchChatSession
<1>5. CASE JobFails(t)
  BY <1>5 DEF JobFails, Fault
<1>6. QED
  BY <1>1, <1>2, <1>3, <1>4, <1>5 DEF Handle

\* The layers touch the job alone.
LEMMA AroundTouches ==
    ASSUME LayerTypes, NEW t \in Turns, Around(t)
    PROVE  /\ UNCHANGED <<rowVars, requestVars, erased, deletions>>
           /\ Layered(t) /\ ~Layer!Publish(t)
           /\ step' = step \/ step' = [step EXCEPT ![t] = "access"]
           /\ again' \in {again, again \cup {t}}
           /\ job[t] \in Ended => t \in again' \/ job'[t] = job[t]
<1>1. CASE Deliver(t)
  BY <1>1 DEF Deliver, Layered, Layer!Start, Layer!Publish
<1>2. CASE Refused(t)
  BY <1>2 DEF Refused, Fault, Layered, Layer!Refuse, Layer!Publish, Ended
<1>3. CASE LayerFails(t) \/ LayerRecovers(t)
  <2>1. Layer!Unsettle(t) /\ (Layer!Disturb(t) \/ Layer!Aftermath(t))
    BY <1>3 DEF LayerFails, LayerRecovers, Layer!Disturb, Layer!Aftermath
  <2>2. job[t] # "none" /\ (job[t] \in Ended => job'[t] = job[t])
    BY <2>1 DEF Layer!Unsettle, Layer!Move, Ended, LayerTypes
  <2>3. UNCHANGED <<rowVars, requestVars, erased, deletions, again>>
    BY <1>3 DEF LayerFails, LayerRecovers, Fault, history
  <2>4. step' = step \/ step' = [step EXCEPT ![t] = "access"]
    BY <1>3 DEF LayerFails, LayerRecovers, LeaveBehind, Leave
  <2>5. QED
    BY <2>1, <2>2, <2>3, <2>4 DEF Layered, Layer!Publish
<1>4. QED
  BY <1>1, <1>2, <1>3 DEF Around

-----------------------------------------------------------------------------
(* Types *)

RequestTypes ==
    /\ pc \in [Turns -> {"idle", "enqueue", "done", "crashed"} \cup Storing]
    /\ result \in [Turns -> [supabase : {"none", "ok", "error"},
                             upstash : {"none", "ok", "error"}]]

RowTypes ==
    /\ chat \in BOOLEAN /\ session \in BOOLEAN
    /\ rows \in [Turns -> [adapter : {0, 1}, job : Nat]]
    /\ \A t \in Turns : pc[t] \in {"idle", "check", "create", "insert"} => rows[t].adapter = 0

HistoryTypes ==
    /\ again \subseteq Turns /\ erased \subseteq Turns
    /\ deletions \in 0 .. MaxDeletions /\ faults \in 0 .. MaxFaults

\* A turn's job is queued at the end of its request.
Unqueued == \A t \in Turns : pc[t] \notin {"done", "crashed"} => job[t] = "none"

TypeInv ==
    /\ RequestTypes /\ LayerTypes /\ step \in [Turns -> Calls]
    /\ RowTypes /\ HistoryTypes /\ Unqueued

\* A turn's step leaves the other turns alone.
LEMMA OthersRest ==
    ASSUME TypeInv, NEW t \in Turns, Step(t)
    PROVE  /\ erased' = erased /\ again \subseteq again' /\ again' \subseteq again \cup {t}
           /\ chat' = chat /\ deletions' = deletions /\ (session => session')
           /\ \A d \in Turns \ {t} :
                 /\ pc'[d] = pc[d] /\ result'[d] = result[d] /\ rows'[d] = rows[d]
                 /\ job'[d] = job[d] /\ left'[d] = left[d] /\ step'[d] = step[d]
<1> RequestTypes /\ LayerTypes /\ RowTypes /\ step \in [Turns -> Calls]
  BY DEF TypeInv
<1>1. /\ erased' = erased /\ again \subseteq again' /\ again' \subseteq again \cup {t}
      /\ chat' = chat /\ deletions' = deletions /\ (session => session')
  BY RequestTouches, HandlerTouches, AroundTouches DEF Step, rowVars
<1> SUFFICES ASSUME NEW d \in Turns \ {t}
             PROVE  /\ pc'[d] = pc[d] /\ result'[d] = result[d] /\ rows'[d] = rows[d]
                    /\ job'[d] = job[d] /\ left'[d] = left[d] /\ step'[d] = step[d]
  BY <1>1
<1>2. pc'[d] = pc[d] /\ result'[d] = result[d]
  <2>1. CASE Commit(t) \/ Request(t)
    <3>1. /\ \E p : Goto(t, p)
          /\ \/ UNCHANGED result
             \/ \E s : result' = [result EXCEPT ![t].supabase = s]
             \/ \E s : result' = [result EXCEPT ![t].upstash = s]
      BY <2>1, RequestTouches
    <3>2. QED
      BY <3>1 DEF Goto, RequestTypes
  <2>2. CASE Handle(t) \/ Around(t)
    BY <2>2, HandlerTouches, AroundTouches DEF requestVars
  <2>3. QED
    BY <2>1, <2>2 DEF Step
<1>3. rows'[d] = rows[d]
  <2>1. \/ UNCHANGED rows
        \/ rows' = [rows EXCEPT ![t].adapter = @ + 1]
        \/ rows' = [rows EXCEPT ![t].job = @ + 1]
    BY RequestTouches, HandlerTouches, AroundTouches DEF Step, rowVars
  <2>2. QED
    BY <2>1 DEF RowTypes
<1>4. job'[d] = job[d] /\ left'[d] = left[d]
  <2>1. UNCHANGED layerVars \/ Layered(t)
    BY RequestTouches, HandlerTouches, AroundTouches DEF Step, Layered
  <2>2. QED
    BY <2>1, LayerKeeps DEF layerVars
<1>5. step'[d] = step[d]
  <2>1. step' = step \/ \E c : step' = [step EXCEPT ![t] = c]
    BY RequestTouches, HandlerTouches, AroundTouches DEF Step
  <2>2. QED
    BY <2>1
<1>6. QED
  BY <1>2, <1>3, <1>4, <1>5

\* Only the request of a turn that has no row of the adapter adds one, and
\* only jobs add the others.
LEMMA RowTypesKept ==
    ASSUME TypeInv, NEW t \in Turns, Step(t)
    PROVE  RowTypes'
<1> RequestTypes /\ RowTypes
  BY DEF TypeInv
<1>1. chat' \in BOOLEAN
  BY OthersRest DEF RowTypes
<1>2. session' \in BOOLEAN
  BY DEF RowTypes, Step, Request, Handle, Around, Commit, CheckSession, CreateSession,
     InsertTurn, TouchSession, StoreFails, Enqueue, EnqueueFails, RequestCrashes, CheckAccess,
     CheckMemorySession, CreateMemorySession, LookUp, InsertTurns, TouchMemorySession,
     TouchChatSession, JobFails, Deliver, Refused, LayerFails, LayerRecovers, rowVars
<1>3. CASE InsertTurn(t) \/ StoreFails(t)
  <2>1. \/ rows' = rows
        \/ pc[t] = "insert" /\ rows' = [rows EXCEPT ![t].adapter = @ + 1]
    BY <1>3 DEF InsertTurn, StoreFails
  <2>2. pc'[t] \in {"touch", "enqueue"}
    BY <1>3 DEF InsertTurn, StoreFails, Answer, Goto, RequestTypes
  <2>3. rows' \in [Turns -> [adapter : {0, 1}, job : Nat]]
    BY <2>1 DEF RowTypes
  <2>4. QED
    BY <1>1, <1>2, <2>2, <2>3, OthersRest DEF RowTypes
<1>4. CASE Handle(t) \/ Around(t)
  <2>1. pc' = pc /\ (rows' = rows \/ rows' = [rows EXCEPT ![t].job = @ + 1])
    BY <1>4, HandlerTouches, AroundTouches DEF requestVars, rowVars, TypeInv
  <2>2. QED
    BY <1>1, <1>2, <2>1 DEF RowTypes
<1>5. CASE Commit(t) \/ (Request(t) /\ ~InsertTurn(t) /\ ~StoreFails(t))
  <2>1. rows' = rows
    BY <1>5 DEF Request, Commit, CheckSession, CreateSession, TouchSession, Enqueue,
       EnqueueFails, RequestCrashes, rowVars
  <2>2. pc'[t] \in {"idle", "check", "create", "insert"} =>
           pc[t] \in {"idle", "check", "create", "insert"}
    BY <1>5 DEF Request, Commit, CheckSession, CreateSession, TouchSession, Enqueue,
       EnqueueFails, RequestCrashes, Answer, Goto, RequestTypes
  <2>3. QED
    BY <1>1, <1>2, <2>1, <2>2, OthersRest DEF RowTypes
<1>6. QED
  BY <1>3, <1>4, <1>5 DEF Step

LEMMA FaultsCounted ==
    ASSUME TypeInv, NEW t \in Turns, Step(t)
    PROVE  /\ faults' \in 0 .. MaxFaults
           /\ faults' = faults \/ faults' = faults + 1
<1>1. faults' = faults \/ (faults < MaxFaults /\ faults' = faults + 1)
  BY DEF Step, Request, Handle, Around, Commit, CheckSession, CreateSession,
     InsertTurn, TouchSession, StoreFails, Enqueue, EnqueueFails, RequestCrashes, CheckAccess,
     CheckMemorySession, CreateMemorySession, LookUp, InsertTurns, TouchMemorySession,
     TouchChatSession, JobFails, Deliver, Refused, LayerFails, LayerRecovers, history, Fault
<1>2. QED
  BY <1>1, MemoryAssumption DEF TypeInv, HistoryTypes

LEMMA StepTypes == ASSUME TypeInv, NEW t \in Turns, Step(t) PROVE TypeInv'
<1> RequestTypes /\ LayerTypes /\ HistoryTypes /\ Unqueued /\ step \in [Turns -> Calls]
  BY DEF TypeInv
<1>1. RequestTypes'
  <2>1. CASE Commit(t) \/ Request(t)
    <3>1. /\ \E p \in {"enqueue", "done", "crashed"} \cup Storing : Goto(t, p)
          /\ \/ UNCHANGED result
             \/ \E s \in {"ok", "error"} : result' = [result EXCEPT ![t].supabase = s]
             \/ \E s \in {"ok", "error"} : result' = [result EXCEPT ![t].upstash = s]
      BY <2>1, RequestTouches
    <3>2. pc' \in [Turns -> {"idle", "enqueue", "done", "crashed"} \cup Storing]
      BY <3>1 DEF Goto, RequestTypes
    <3>3. result' \in [Turns -> [supabase : {"none", "ok", "error"},
                                 upstash : {"none", "ok", "error"}]]
      BY <3>1 DEF RequestTypes
    <3>4. QED
      BY <3>2, <3>3 DEF RequestTypes
  <2>2. CASE Handle(t) \/ Around(t)
    BY <2>2, HandlerTouches, AroundTouches DEF requestVars, RequestTypes
  <2>3. QED
    BY <2>1, <2>2 DEF Step
<1>2. LayerTypes' /\ step' \in [Turns -> Calls]
  <2>1. UNCHANGED layerVars \/ Layered(t)
    BY RequestTouches, HandlerTouches, AroundTouches DEF Step, Layered
  <2>2. LayerTypes'
    BY <2>1, LayerKeeps DEF layerVars, LayerTypes
  <2>3. step' = step \/ \E c \in Calls : step' = [step EXCEPT ![t] = c]
    BY RequestTouches, HandlerTouches, AroundTouches DEF Step, Calls
  <2>4. QED
    BY <2>2, <2>3
<1>3. RowTypes'
  BY RowTypesKept
<1>4. HistoryTypes'
  BY OthersRest, FaultsCounted DEF HistoryTypes
<1>5. Unqueued'
  <2> SUFFICES ASSUME NEW d \in Turns, pc'[d] \notin {"done", "crashed"} PROVE job'[d] = "none"
    BY DEF Unqueued
  <2>1. CASE d # t
    BY <2>1, OthersRest DEF Unqueued
  <2>2. CASE d = t /\ (Commit(t) \/ Request(t))
    <3>1. job[t] = "none"
      BY <2>2, RequestTouches DEF Unqueued
    <3>2. pc[t] # "enqueue" \/ pc'[t] \in {"done", "crashed"}
      BY <2>2 DEF Request, Commit, CheckSession, CreateSession, InsertTurn, TouchSession,
         StoreFails, Enqueue, EnqueueFails, RequestCrashes, Answer, Goto, RequestTypes, Storing
    <3>3. QED
      BY <2>2, <3>1, <3>2, RequestTouches DEF layerVars
  <2>3. CASE d = t /\ (Handle(t) \/ Around(t))
    <3>1. pc' = pc /\ job[t] # "none"
      BY <2>3, HandlerTouches, AroundTouches
         DEF requestVars, Layer!AtWork, Layered, Layer!Start, Layer!Finish, Layer!Fail,
             Layer!Refuse, Layer!Disturb, Layer!Aftermath, Layer!Unsettle
    <3>2. QED
      BY <2>3, <3>1 DEF Unqueued
  <2>4. QED
    BY <2>1, <2>2, <2>3 DEF Step
<1>6. QED
  BY <1>1, <1>2, <1>3, <1>4, <1>5 DEF TypeInv

LEMMA TypeInit == Init => TypeInv
<1> SUFFICES ASSUME Init PROVE TypeInv
  OBVIOUS
<1>1. RequestTypes /\ Unqueued
  BY DEF Init, RequestTypes, Unqueued
<1>2. LayerTypes /\ step \in [Turns -> Calls]
  BY MemoryAssumption DEF Init, LayerTypes, Standings, Calls
<1>3. RowTypes
  BY DEF Init, RowTypes
<1>4. HistoryTypes
  BY MemoryAssumption DEF Init, HistoryTypes
<1>5. QED
  BY <1>1, <1>2, <1>3, <1>4 DEF TypeInv

LEMMA TypeStep == TypeInv /\ [Next]_vars => TypeInv'
<1> SUFFICES ASSUME TypeInv, [Next]_vars PROVE TypeInv'
  OBVIOUS
<1>1. ASSUME NEW t \in Turns, Step(t) PROVE TypeInv'
  BY <1>1, StepTypes
<1>2. CASE DeleteUserMemories
  <2>1. RequestTypes' /\ LayerTypes' /\ Unqueued' /\ step' \in [Turns -> Calls]
    BY <1>2 DEF DeleteUserMemories, TypeInv, RequestTypes, LayerTypes, Unqueued,
       requestVars, jobVars, layerVars
  <2>2. RowTypes'
    BY <1>2 DEF DeleteUserMemories, TypeInv, RowTypes
  <2>3. HistoryTypes'
    BY <1>2, MemoryAssumption DEF DeleteUserMemories, TypeInv, HistoryTypes
  <2>4. QED
    BY <2>1, <2>2, <2>3 DEF TypeInv
<1>3. CASE DeleteChat \/ UNCHANGED vars
  <2>1. /\ UNCHANGED <<session, rows, requestVars, jobVars, history>>
        /\ chat' \in {chat, FALSE}
    BY <1>3 DEF DeleteChat, vars, rowVars
  <2>2. QED
    BY <2>1 DEF TypeInv, RequestTypes, LayerTypes, RowTypes, HistoryTypes, Unqueued,
       requestVars, jobVars, layerVars, history
<1>4. QED
  BY <1>1, <1>2, <1>3 DEF Next, Step

\* The rows, requests and jobs keep their types; a job waits only for an attempt
\* it has left and is given up only without one, and no request stores its turn
\* twice.
THEOREM MemoryTypeCorrect == Spec => []MemoryTypeOK
<1>1. Standings = {"none", "queued"} \cup Layer!AtWork \cup Ended
  BY DEF Standings, Layer!AtWork, Ended
<1>2. TypeInv => MemoryTypeOK
  BY <1>1 DEF TypeInv, RequestTypes, LayerTypes, RowTypes, HistoryTypes, MemoryTypeOK
<1>3. QED
  BY TypeInit, TypeStep, <1>2, PTL DEF Spec

-----------------------------------------------------------------------------
(* What the orchestrator answers *)

\* Until memories are deleted a row stays, and so does a job for good.
Reported(t) ==
    /\ (pc[t] = "touch" \/ result[t].supabase = "ok") =>
          (deletions > 0 \/ rows[t].adapter = 1)
    /\ result[t].upstash = "ok" => job[t] # "none"
    /\ pc[t] \in {"enqueue", "done"} => result[t].supabase # "none"
    /\ pc[t] = "done" => result[t].upstash # "none"

AllReported == \A d \in Turns : Reported(d)

LEMMA ReportedStep == TypeInv /\ AllReported /\ [Next]_vars => AllReported'
<1> SUFFICES ASSUME TypeInv, \A e \in Turns : Reported(e), [Next]_vars, NEW d \in Turns
             PROVE  Reported(d)'
  BY DEF AllReported
<1>0. /\ rows[d] \in [adapter : {0, 1}, job : Nat] /\ deletions \in Nat
      /\ rows \in [Turns -> [adapter : {0, 1}, job : Nat]]
      /\ pc[d] = "insert" => rows[d].adapter = 0
      /\ pc \in [Turns -> {"idle", "enqueue", "done", "crashed"} \cup Storing]
      /\ result \in [Turns -> [supabase : {"none", "ok", "error"},
                               upstash : {"none", "ok", "error"}]]
      /\ LayerTypes
  BY MemoryAssumption DEF TypeInv, RowTypes, HistoryTypes, RequestTypes
<1>1. ASSUME NEW t \in Turns, Step(t), t # d PROVE Reported(d)'
  BY <1>1, OthersRest DEF Reported
<1>2. CASE Commit(d) \/ CheckSession(d) \/ RequestCrashes(d)
  BY <1>0, <1>2 DEF Reported, Commit, CheckSession, RequestCrashes, Goto, rowVars,
     jobVars, layerVars, history, Fault
<1>3. CASE CreateSession(d) \/ TouchSession(d)
  BY <1>0, <1>3 DEF Reported, CreateSession, TouchSession, Answer, Goto, rowVars,
     jobVars, layerVars, history
<1>4. CASE InsertTurn(d)
  BY <1>0, <1>4 DEF Reported, InsertTurn, Answer, Goto, jobVars, layerVars, history
<1>5. CASE StoreFails(d)
  <2>1. rows'[d] = rows[d] \/ pc[d] = "insert"
    BY <1>0, <1>5 DEF StoreFails
  <2>2. pc'[d] = "enqueue" /\ result'[d] = [result[d] EXCEPT !.supabase = "error"]
    BY <1>0, <1>5 DEF StoreFails, Answer, Goto
  <2>3. UNCHANGED <<job, deletions>>
    BY <1>5 DEF StoreFails, jobVars, layerVars, Fault
  <2>4. QED
    BY <1>0, <2>1, <2>2, <2>3 DEF Reported
<1>6. CASE Enqueue(d) \/ EnqueueFails(d)
  <2>1. UNCHANGED <<rows, deletions>>
    BY <1>6 DEF Enqueue, EnqueueFails, rowVars, history, Fault
  <2>2. /\ pc[d] = "enqueue" /\ pc'[d] = "done"
        /\ \E s \in {"ok", "error"} : result'[d] = [result[d] EXCEPT !.upstash = s]
    BY <1>0, <1>6 DEF Enqueue, EnqueueFails, Answer, Goto
  <2>3. result'[d].upstash = "ok" => Layer!Publish(d)
    BY <1>0, <1>6 DEF Enqueue, EnqueueFails, Answer
  <2>4. Layer!Publish(d) => job'[d] # "none"
    BY <1>0, LayerKeeps DEF Layered
  <2>5. QED
    BY <1>0, <2>1, <2>2, <2>3, <2>4 DEF Reported
<1>7. CASE Handle(d) \/ Around(d)
  <2>1. UNCHANGED <<pc, result, deletions>> /\ rows'[d].adapter = rows[d].adapter
    BY <1>0, <1>7, HandlerTouches, AroundTouches DEF requestVars, rowVars
  <2>2. Layered(d) \/ UNCHANGED job
    BY <1>0, <1>7, HandlerTouches, AroundTouches DEF Layered, layerVars
  <2>3. job[d] # "none" => job'[d] # "none"
    BY <1>0, <2>2, LayerKeeps
  <2>4. QED
    BY <2>1, <2>3 DEF Reported
<1>8. CASE DeleteUserMemories
  BY <1>0, <1>8 DEF Reported, DeleteUserMemories, requestVars, jobVars, layerVars
<1>9. CASE DeleteChat \/ UNCHANGED vars
  BY <1>9 DEF Reported, DeleteChat, vars, rowVars, requestVars, jobVars, layerVars, history
<1>10. QED
  BY <1>1, <1>2, <1>3, <1>4, <1>5, <1>6, <1>7, <1>8, <1>9 DEF Next, Step, Request

\* The orchestrator's "ok" and "partial" are true for any number of turns
\* that are committed side by side.
THEOREM ReportsAreKept == Spec => []ReportIsKept
<1>1. Init => AllReported
  BY DEF Init, AllReported, Reported
<1>2. TypeInv /\ AllReported => ReportIsKept
  <2> SUFFICES ASSUME TypeInv, \A d \in Turns : Reported(d), deletions = 0,
                      NEW t \in Turns, pc[t] = "done"
               PROVE  CASE Status(t) = "ok" -> rows[t].adapter = 1 /\ job[t] # "none"
                        [] Status(t) = "partial" -> rows[t].adapter = 1 \/ job[t] # "none"
                        [] OTHER -> TRUE
    BY DEF AllReported, ReportIsKept
  <2>1. result[t] \in [supabase : {"none", "ok", "error"},
                      upstash : {"none", "ok", "error"}]
    BY DEF TypeInv, RequestTypes
  <2>2. result[t].supabase \in {"ok", "error"} /\ result[t].upstash \in {"ok", "error"}
    BY <2>1 DEF Reported
  <2>3. result[t].supabase = "ok" => rows[t].adapter = 1
    BY DEF Reported
  <2>4. result[t].upstash = "ok" => job[t] # "none"
    BY DEF Reported
  <2>5. QED
    BY <2>2, <2>3, <2>4 DEF Status
<1>3. QED
  BY TypeInit, TypeStep, ReportedStep, <1>1, <1>2, PTL DEF Spec

-----------------------------------------------------------------------------
(* What stays deleted *)

Gone(t) == t \in erased \ again => Settled(t) /\ rows[t].adapter = 0 /\ rows[t].job = 0
AllGone == \A t \in Turns : Gone(t)

\* The layers alone move a settled turn, and unless they run its job again they
\* leave it where it stands.
LEMMA SettledRests ==
    ASSUME TypeInv, NEW t \in Turns, Settled(t), Step(t)
    PROVE  UNCHANGED <<pc, rows>> /\ (t \in again' \/ job'[t] = job[t])
<1>1. ~Commit(t) /\ ~Request(t)
  BY RequestTouches DEF Settled
<1>2. ~Handle(t)
  BY HandlerTouches DEF Settled, Ended, Layer!AtWork
<1>3. Around(t) /\ LayerTypes
  BY <1>1, <1>2 DEF Step, TypeInv
<1>4. job[t] # "none"
  BY <1>3, AroundTouches
     DEF Layered, Layer!Start, Layer!Finish, Layer!Fail, Layer!Refuse, Layer!Disturb,
         Layer!Aftermath, Layer!Unsettle, Layer!AtWork
<1>5. QED
  BY <1>3, <1>4, AroundTouches DEF Settled, requestVars, rowVars

LEMMA GoneStep == TypeInv /\ AllGone /\ [Next]_vars => AllGone'
<1> SUFFICES ASSUME TypeInv, AllGone, [Next]_vars, NEW d \in Turns PROVE Gone(d)'
  BY DEF AllGone
<1>1. ASSUME NEW t \in Turns, Step(t), t # d PROVE Gone(d)'
  BY <1>1, OthersRest DEF AllGone, Gone, Settled
<1>2. CASE Step(d)
  <2>1. erased' = erased /\ again \subseteq again'
    BY <1>2, OthersRest
  <2>2. CASE d \in erased \ again
    BY <1>2, <2>2, SettledRests DEF AllGone, Gone, Settled
  <2>3. CASE d \notin erased \ again
    BY <2>1, <2>3 DEF Gone
  <2>4. QED
    BY <2>2, <2>3
<1>3. CASE DeleteUserMemories
  <2>1. /\ erased' = {t \in Turns : Settled(t)}
        /\ rows' = [t \in Turns |-> [adapter |-> 0, job |-> 0]]
        /\ UNCHANGED <<pc, job>>
    BY <1>3 DEF DeleteUserMemories, requestVars, jobVars, layerVars
  <2>2. QED
    BY <2>1 DEF Gone, Settled
<1>4. CASE DeleteChat \/ UNCHANGED vars
  BY <1>4 DEF DeleteChat, vars, rowVars, requestVars, jobVars, layerVars, history, AllGone,
     Gone, Settled
<1>5. QED
  BY <1>1, <1>2, <1>3, <1>4 DEF Next, Step

\* A turn that was settled when the memories were deleted never comes back,
\* unless its job is run once more after it ended.
THEOREM DeletedStaysDeleted == Spec => []ErasedStays
<1>1. Init => AllGone
  BY DEF Init, AllGone, Gone
<1>2. TypeInv /\ AllGone => ErasedStays
  BY DEF TypeInv, HistoryTypes, AllGone, Gone, ErasedStays
<1>3. QED
  BY TypeInit, TypeStep, GoneStep, <1>1, <1>2, PTL DEF Spec

-----------------------------------------------------------------------------
(* The retries and the race to create the session *)

\* Runs past the creation of the session.
Stored == {"lookup", "insert", "touch", "chatTouch"}

\* With calm layers, and as long as nothing is deleted, an attempt of a job is
\* spent by a fault, or once, behind the creation of the session by another
\* writer.  A run at work has not spent its attempt yet.
Spent(t, n) ==
    /\ left[t] + n + faults + 1 >= MaxAttempts
    /\ ~session \/ (job[t] = "working" /\ step[t] = "create") =>
          left[t] + n + faults >= MaxAttempts

Tries(t) ==
    calm /\ chat /\ deletions = 0 =>
        /\ job[t] \notin {"lost", "reworking"}
        /\ job[t] = "working" => Spent(t, 1) /\ (step[t] \in Stored => session)
        /\ job[t] \in {"none", "queued", "dead"} => Spent(t, 0)

AllTry == \A t \in Turns : Tries(t)

\* What a step of the layers makes of a job they have been calm with.
LEMMA CalmLayers ==
    ASSUME TypeInv, NEW t \in Turns, Layered(t), calm', job[t] \notin {"lost", "reworking"}
    PROVE  /\ calm
           /\ \/ Layer!Publish(t) /\ job[t] = "none" /\ job'[t] = "queued" /\ left'[t] = left[t]
              \/ Layer!Start(t) /\ job[t] = "queued" /\ job'[t] = "working"
                 /\ left'[t] = left[t] - 1
              \/ Layer!Finish(t) /\ job[t] = "working" /\ job'[t] = "done"
              \/ Layer!Fail(t) /\ job[t] = "working" /\ job'[t] \in {"queued", "dead"}
                 /\ left'[t] = left[t]
              \/ Layer!Refuse(t) /\ job[t] = "queued" /\ job'[t] \in {"queued", "dead"}
                 /\ left'[t] = left[t] - 1
<1> LayerTypes
  BY DEF TypeInv
<1>1. ~Layer!Disturb(t)
  BY DEF Layer!Disturb
<1>2. ~Layer!Aftermath(t) /\ calm
  BY <1>1 DEF Layered, Layer!Publish, Layer!Start, Layer!Finish, Layer!Fail, Layer!Refuse,
     Layer!Aftermath
<1>3. QED
  BY <1>1, <1>2 DEF Layered, Layer!Publish, Layer!Start, Layer!Finish, Layer!Fail,
     Layer!Refuse, Layer!Retried, Layer!AtWork, Layer!Move, LayerTypes

\* The layers refuse an attempt at the price of a fault.
LEMMA RefusalIsFault ==
    ASSUME TypeInv, NEW t \in Turns, Around(t), Layer!Refuse(t), calm
    PROVE  faults' = faults + 1
<1>1. ~Deliver(t)
  BY DEF Deliver, Layer!Start, Layer!Refuse, Layer!Retried, Layer!Move, TypeInv, LayerTypes
<1>2. ~LayerRecovers(t)
  BY DEF LayerRecovers, Layer!Aftermath
<1>3. QED
  BY <1>1, <1>2 DEF Around, Refused, LayerFails, Fault

\* A run throws by a fault, behind a deletion, or when it finds the session that
\* another writer has created since it looked.
LEMMA ThrowIsPaid ==
    ASSUME TypeInv, NEW t \in Turns, Handle(t), Layer!Fail(t), job[t] = "working",
           chat, step[t] \in Stored => session
    PROVE  \/ faults' = faults + 1
           \/ step[t] = "create" /\ session' = TRUE /\ faults' = faults
<1>1. ~UNCHANGED layerVars /\ ~Layer!Finish(t) /\ ~\E c \in Calls : Then(t, c)
  <2>1. job'[t] # "working" /\ job'[t] # "done"
    BY DEF Layer!Fail, Layer!Retried, Layer!Move, TypeInv, LayerTypes
  <2>2. QED
    BY <2>1 DEF layerVars, Then, Layer!Finish, Layer!Move, TypeInv, LayerTypes
<1>2. CASE JobFails(t)
  BY <1>2 DEF JobFails, Fault
<1>3. CASE CreateMemorySession(t)
  BY <1>1, <1>3 DEF CreateMemorySession, At, history, Calls
<1>4. ~CheckAccess(t) /\ ~CheckMemorySession(t) /\ ~LookUp(t) /\ ~InsertTurns(t)
      /\ ~TouchMemorySession(t) /\ ~TouchChatSession(t)
  BY <1>1 DEF CheckAccess, CheckMemorySession, LookUp, InsertTurns, TouchMemorySession,
     TouchChatSession, At, Calls, Storing, Stored
<1>5. QED
  BY <1>2, <1>3, <1>4 DEF Handle

\* A run that goes on has the session behind it once it is past its creation.
LEMMA RunGoesOn ==
    ASSUME TypeInv, NEW t \in Turns, Handle(t), UNCHANGED layerVars,
           job[t] = "working", step[t] \in Stored => session
    PROVE  /\ step'[t] \in Stored => session'
           /\ step'[t] = "create" => ~session
           /\ faults' = faults
<1> /\ step \in [Turns -> Calls] /\ LayerTypes /\ session \in BOOLEAN
  BY DEF TypeInv, RowTypes
<1>1. ~Layer!Finish(t) /\ ~Throw(t)
  BY DEF Throw, Layer!Finish, Layer!Fail, Layer!Retried, Layer!Move, layerVars, LayerTypes
<1>2. ~JobFails(t)
  BY <1>1 DEF JobFails
<1>3. CASE CheckAccess(t) \/ CheckMemorySession(t) \/ LookUp(t)
  BY <1>1, <1>3 DEF CheckAccess, CheckMemorySession, LookUp, At, Then, rowVars, history, Stored
<1>4. CASE CreateMemorySession(t) \/ InsertTurns(t)
  BY <1>1, <1>4 DEF CreateMemorySession, InsertTurns, At, Then, history, Stored
<1>5. CASE TouchMemorySession(t) \/ TouchChatSession(t)
  BY <1>1, <1>5 DEF TouchMemorySession, TouchChatSession, At, Then, rowVars, history, Stored
<1>6. QED
  BY <1>2, <1>3, <1>4, <1>5 DEF Handle

\* A run begins at the top.
AtTop == \A t \in Turns : job[t] \notin Layer!AtWork => step[t] = "access"

LEMMA TopStep == TypeInv /\ AtTop /\ [Next]_vars => AtTop'
<1> SUFFICES ASSUME TypeInv, AtTop, [Next]_vars, NEW d \in Turns, job'[d] \notin Layer!AtWork
             PROVE  step'[d] = "access"
  BY DEF AtTop
<1> LayerTypes /\ step \in [Turns -> Calls]
  BY DEF TypeInv
<1>1. ASSUME NEW t \in Turns, Step(t), t # d PROVE step'[d] = "access"
  BY <1>1, OthersRest DEF AtTop
<1>2. ASSUME Leave(d) PROVE step'[d] = "access"
  BY <1>2 DEF Leave
<1>3. CASE Commit(d) \/ Request(d)
  <2>1. job'[d] = job[d] \/ job[d] = "none"
    BY <1>3, RequestTouches DEF layerVars, Layer!Publish
  <2>2. job[d] \notin Layer!AtWork
    BY <2>1 DEF Layer!AtWork
  <2>3. QED
    BY <1>3, <2>2, RequestTouches DEF AtTop
<1>4. CASE Handle(d)
  <2>1. job[d] \in Layer!AtWork
    BY <1>4, HandlerTouches
  <2>2. job' # job
    BY <2>1
  <2>3. Leave(d)
    BY <1>4, <2>2 DEF Handle, CheckAccess, CheckMemorySession, CreateMemorySession, LookUp,
       InsertTurns, TouchMemorySession, TouchChatSession, JobFails, Then, Throw, layerVars
  <2>4. QED
    BY <1>2, <2>3
<1>5. CASE Deliver(d)
  <2>1. job'[d] \in Layer!AtWork
    BY <1>5 DEF Deliver, Layer!Start, Layer!Move, Layer!AtWork, LayerTypes
  <2>2. QED
    BY <2>1
<1>6. CASE Refused(d)
  BY <1>6 DEF Refused, Layer!Refuse, Layer!AtWork, AtTop
<1>7. CASE LayerFails(d) \/ LayerRecovers(d)
  BY <1>2, <1>7 DEF LayerFails, LayerRecovers, LeaveBehind
<1>8. CASE DeleteUserMemories \/ DeleteChat \/ UNCHANGED vars
  BY <1>8 DEF DeleteUserMemories, DeleteChat, vars, jobVars, layerVars, AtTop
<1>9. QED
  BY <1>1, <1>3, <1>4, <1>5, <1>6, <1>7, <1>8 DEF Next, Step, Around

LEMMA TriesStep == TypeInv /\ AtTop /\ AllTry /\ [Next]_vars => AllTry'
<1> SUFFICES ASSUME TypeInv, AtTop, AllTry, [Next]_vars, NEW d \in Turns,
                    calm', chat', deletions' = 0
             PROVE  /\ job'[d] \notin {"lost", "reworking"}
                    /\ job'[d] = "working" => Spent(d, 1)' /\ (step'[d] \in Stored => session')
                    /\ job'[d] \in {"none", "queued", "dead"} => Spent(d, 0)'
  BY DEF AllTry, Tries
<1> DEFINE Goal ==
      /\ job'[d] \notin {"lost", "reworking"}
      /\ job'[d] = "working" => Spent(d, 1)' /\ (step'[d] \in Stored => session')
      /\ job'[d] \in {"none", "queued", "dead"} => Spent(d, 0)'
<1>0. /\ LayerTypes /\ left[d] \in Nat /\ MaxAttempts \in Nat /\ faults \in Nat
      /\ session \in BOOLEAN /\ job[d] \in Standings
      /\ step[d] \in Calls
  BY MemoryAssumption DEF TypeInv, LayerTypes, HistoryTypes, RowTypes
<1>1. ASSUME NEW t \in Turns, Step(t)
      PROVE  /\ calm /\ chat /\ deletions = 0 /\ (session => session')
             /\ faults' = faults \/ faults' = faults + 1
  <2>1. /\ chat' = chat /\ deletions' = deletions /\ (session => session')
        /\ faults' = faults \/ faults' = faults + 1
    BY <1>1, OthersRest, FaultsCounted
  <2>2. UNCHANGED layerVars \/ Layered(t)
    BY <1>0, <1>1, RequestTouches, HandlerTouches, AroundTouches DEF Step, Layered
  <2>3. calm
    BY <2>2 DEF layerVars, Layered, Layer!Publish, Layer!Start, Layer!Finish, Layer!Fail,
       Layer!Refuse, Layer!Disturb, Layer!Aftermath
  <2>4. QED
    BY <2>1, <2>3
<1>2. ASSUME calm, chat, deletions = 0
      PROVE  /\ job[d] \notin {"lost", "reworking"}
             /\ job[d] = "working" => Spent(d, 1) /\ (step[d] \in Stored => session)
             /\ job[d] \in {"none", "queued", "dead"} => Spent(d, 0)
  BY <1>2 DEF AllTry, Tries
\* The session stays and faults are counted: what was spent stays so.
<1>3. ASSUME NEW t \in Turns, Step(t), NEW n \in {0, 1}, Spent(d, n), left'[d] = left[d],
             job'[d] = "working" /\ step'[d] = "create" =>
                 ~session \/ (job[d] = "working" /\ step[d] = "create")
      PROVE  Spent(d, n)'
  BY <1>0, <1>1, <1>3 DEF Spent
<1>4. ASSUME NEW t \in Turns, Step(t), t # d PROVE Goal
  <2>1. job'[d] = job[d] /\ left'[d] = left[d] /\ step'[d] = step[d]
    BY <1>4, OthersRest
  <2>2. QED
    BY <1>1, <1>2, <1>3, <1>4, <2>1
<1>5. CASE Commit(d) \/ Request(d)
  <2>1. step' = step /\ (UNCHANGED layerVars \/ Layer!Publish(d))
    BY <1>5, RequestTouches
  <2>2. CASE UNCHANGED layerVars
    BY <1>1, <1>2, <1>3, <1>5, <2>1, <2>2 DEF Step, layerVars
  <2>3. CASE Layer!Publish(d)
    <3>1. job[d] = "none" /\ job'[d] = "queued" /\ left'[d] = left[d]
      BY <1>0, <2>3 DEF Layer!Publish, Layer!Move, LayerTypes
    <3>2. QED
      BY <1>1, <1>2, <1>3, <1>5, <3>1 DEF Step
  <2>4. QED
    BY <2>1, <2>2, <2>3
<1>6. CASE Handle(d)
  <2>1. /\ job[d] = "working" /\ Spent(d, 1) /\ (step[d] \in Stored => session)
        /\ calm /\ chat
    BY <1>1, <1>2, <1>6, HandlerTouches DEF Step, Layer!AtWork
  <2>2. CASE UNCHANGED layerVars
    <3>1. /\ step'[d] \in Stored => session'
          /\ step'[d] = "create" => ~session
      BY <1>6, <2>1, <2>2, RunGoesOn
    <3>2. Spent(d, 1)'
      BY <1>3, <1>6, <2>1, <2>2, <3>1 DEF Step, layerVars
    <3>3. QED
      BY <2>1, <2>2, <3>1, <3>2 DEF layerVars
  <2>3. CASE Layer!Finish(d)
    BY <1>0, <2>3 DEF Layer!Finish, Layer!Move, LayerTypes
  <2>4. CASE Layer!Fail(d)
    <3>1. job'[d] \in {"queued", "dead"} /\ left'[d] = left[d]
      BY <1>0, <2>1, <2>4 DEF Layer!Fail, Layer!Retried, Layer!Move, LayerTypes
    <3>2. \/ faults' = faults + 1
          \/ step[d] = "create" /\ session' = TRUE /\ faults' = faults
      BY <1>6, <2>1, <2>4, ThrowIsPaid
    <3>3. Spent(d, 0)'
      BY <1>0, <1>1, <1>6, <2>1, <3>1, <3>2 DEF Spent, Step
    <3>4. QED
      BY <3>1, <3>3
  <2>5. QED
    BY <1>6, <2>2, <2>3, <2>4, HandlerTouches
<1>7. CASE Around(d)
  <2>1. calm /\ Layered(d) /\ ~Layer!Publish(d)
    BY <1>0, <1>1, <1>7, AroundTouches DEF Step
  <2>2. job[d] \notin {"lost", "reworking"}
    BY <1>1, <1>2, <1>7 DEF Step
  <2>3. CASE job[d] = "queued" /\ job'[d] = "working" /\ left'[d] = left[d] - 1
    <3>1. Spent(d, 0)
      BY <1>1, <1>2, <1>7, <2>3 DEF Step
    <3>2. step'[d] = "access"
      BY <1>0, <1>7, <2>3, AroundTouches DEF AtTop, TypeInv, Layer!AtWork
    <3>3. Spent(d, 1)'
      BY <1>0, <1>1, <1>7, <2>3, <3>1, <3>2 DEF Step, Spent
    <3>4. QED
      BY <2>3, <3>2, <3>3 DEF Stored
  <2>4. CASE Layer!Refuse(d) /\ job[d] = "queued" /\ job'[d] \in {"queued", "dead"}
             /\ left'[d] = left[d] - 1
    <3>1. faults' = faults + 1
      BY <1>7, <2>1, <2>4, RefusalIsFault
    <3>2. Spent(d, 0)
      BY <1>1, <1>2, <1>7, <2>4 DEF Step
    <3>3. Spent(d, 0)'
      BY <1>0, <1>1, <1>7, <2>4, <3>1, <3>2 DEF Step, Spent
    <3>4. QED
      BY <2>4, <3>3
  <2>5. ~Layer!Finish(d) /\ ~Layer!Fail(d)
    BY <1>0, <1>7 DEF Around, Deliver, Refused, LayerFails, LayerRecovers, Layer!Start,
       Layer!Refuse, Layer!Retried, Layer!Disturb, Layer!Aftermath, Layer!Unsettle,
       Layer!Finish, Layer!Fail, Layer!Move, Layer!AtWork, LayerTypes
  <2>6. QED
    BY <2>1, <2>2, <2>3, <2>4, <2>5, CalmLayers
<1>8. CASE DeleteUserMemories
  BY <1>8, MemoryAssumption DEF DeleteUserMemories, TypeInv, HistoryTypes
<1>9. CASE DeleteChat
  BY <1>9 DEF DeleteChat
<1>10. CASE UNCHANGED vars
  BY <1>2, <1>10 DEF vars, rowVars, jobVars, layerVars, history, Spent
<1>11. QED
  BY <1>4, <1>5, <1>6, <1>7, <1>8, <1>9, <1>10 DEF Next, Step

\* Unless the conversation or the memories are deleted, and with layers that have
\* no fault of their own, one retry more than there are faults keeps every job from
\* the dead letters, for any number of turns that race to create the session.
THEOREM RetriesAlwaysSuffice == Spec => []RetriesSuffice
<1>1. Init => AllTry /\ AtTop
  <2> SUFFICES ASSUME Init PROVE AllTry /\ AtTop
    OBVIOUS
  <2>1. \A t \in Turns : job[t] = "none" /\ left[t] = MaxAttempts /\ step[t] = "access"
    BY DEF Init
  <2>2. AtTop
    BY <2>1 DEF AtTop
  <2>3. AllTry
    BY <2>1, MemoryAssumption DEF AllTry, Tries, Spent, Init
  <2>4. QED
    BY <2>2, <2>3
<1>2. TypeInv /\ AllTry => RetriesSuffice
  <2> SUFFICES ASSUME TypeInv, AllTry, chat, deletions = 0, calm, faults + 2 <= MaxAttempts,
                      NEW t \in Turns, job[t] = "dead"
               PROVE  FALSE
    BY DEF RetriesSuffice
  <2>1. left[t] = 0 /\ faults \in Nat /\ MaxAttempts \in Nat
    BY MemoryAssumption DEF TypeInv, LayerTypes, HistoryTypes
  <2>2. left[t] + 0 + faults + 1 >= MaxAttempts
    BY DEF AllTry, Tries, Spent
  <2>3. QED
    BY <2>1, <2>2
<1>3. QED
  BY TypeInit, TypeStep, TopStep, TriesStep, <1>1, <1>2, PTL DEF Spec

-----------------------------------------------------------------------------
(* How often a message is stored *)

\* The run of a turn's job has not stored the turn yet.
Unstored(t) ==
    job[t] \in Layer!AtWork /\ step[t] \in {"access", "check", "create", "lookup", "insert"}

\* The rows a job has left and may yet leave are one for each attempt.
PaidFor(t) ==
    /\ rows[t].job + left[t] <= MaxAttempts
    /\ Unstored(t) => rows[t].job + left[t] < MaxAttempts

AllPaid == \A t \in Turns : PaidFor(t)

\* The layers spend an attempt to begin a run, and give none back.
LEMMA LayersCount ==
    ASSUME LayerTypes, NEW t \in Turns, Layered(t)
    PROVE  /\ left'[t] \in Nat /\ left'[t] <= left[t]
           /\ job[t] \notin Layer!AtWork /\ job'[t] \in Layer!AtWork => left'[t] < left[t]
<1> /\ job[t] \in Standings /\ left[t] \in Nat
    /\ job \in [Turns -> Standings] /\ left \in [Turns -> 0 .. MaxAttempts]
  BY MemoryAssumption DEF LayerTypes
<1>1. CASE Layer!Start(t) \/ Layer!Refuse(t)
  BY <1>1 DEF Layer!Start, Layer!Refuse, Layer!Move, Layer!Retried, Layer!AtWork
<1>2. CASE Layer!Publish(t) \/ Layer!Finish(t) \/ Layer!Fail(t)
  BY <1>2 DEF Layer!Publish, Layer!Finish, Layer!Fail, Layer!Move, Layer!Retried, Layer!AtWork
<1>3. CASE Layer!Disturb(t) \/ Layer!Aftermath(t)
  <2>1. Layer!Unsettle(t)
    BY <1>3 DEF Layer!Disturb, Layer!Aftermath
  <2>2. PICK n \in 0 .. left[t] : \E s : Layer!Move(t, s, n)
    BY <2>1 DEF Layer!Unsettle
  <2>3. left'[t] = n
    BY <2>2 DEF Layer!Move
  <2>4. job[t] \notin Layer!AtWork => job'[t] \notin Layer!AtWork
    BY <2>1 DEF Layer!Unsettle, Layer!Move, Layer!Retried, Layer!AtWork
  <2>5. QED
    BY <2>3, <2>4
<1>4. QED
  BY <1>1, <1>2, <1>3 DEF Layered

\* A call takes its run forward or ends it, and only the insert, which no call goes
\* back to, stores the turn.
LEMMA HandlerCounts ==
    ASSUME TypeInv, NEW t \in Turns, Handle(t)
    PROVE  /\ rows'[t].job = rows[t].job \/ (Unstored(t) /\ ~Unstored(t)' /\ rows'[t].job = rows[t].job + 1)
           /\ Unstored(t)' => Unstored(t)
<1> /\ step \in [Turns -> Calls] /\ rows \in [Turns -> [adapter : {0, 1}, job : Nat]]
    /\ job \in [Turns -> Standings]
  BY DEF TypeInv, LayerTypes, RowTypes
<1>t. ASSUME Throw(t) PROVE ~Unstored(t)'
  BY <1>t DEF Throw, Layer!Fail, Layer!Move, Layer!Retried, Unstored, Layer!AtWork
<1>1. CASE CheckAccess(t) \/ CheckMemorySession(t) \/ LookUp(t)
  BY <1>1, <1>t DEF CheckAccess, CheckMemorySession, LookUp, At, Then, Unstored, rowVars, layerVars
<1>2. CASE CreateMemorySession(t)
  BY <1>2, <1>t DEF CreateMemorySession, At, Then, Unstored, layerVars
<1>3. CASE InsertTurns(t)
  BY <1>3, <1>t DEF InsertTurns, At, Then, Unstored, layerVars
<1>4. CASE TouchMemorySession(t) \/ TouchChatSession(t)
  <2>1. ASSUME Layer!Finish(t) PROVE ~Unstored(t)'
    BY <2>1 DEF Layer!Finish, Layer!Move, Unstored, Layer!AtWork
  <2>2. QED
    BY <1>4, <1>t, <2>1 DEF TouchMemorySession, TouchChatSession, At, Then, Unstored, rowVars, layerVars
<1>5. CASE JobFails(t)
  BY <1>5, <1>t DEF JobFails, Unstored
<1>6. QED
  BY <1>1, <1>2, <1>3, <1>4, <1>5 DEF Handle

\* A run that the layers leave at work goes on from where it was.
LEMMA AroundCounts ==
    ASSUME TypeInv, NEW t \in Turns, Around(t)
    PROVE  job'[t] \in Layer!AtWork /\ job[t] \in Layer!AtWork => step'[t] = step[t]
BY DEF Around, Deliver, Refused, LayerFails, LayerRecovers, LeaveBehind, Layer!Start, Layer!Refuse,
       Layer!AtWork

LEMMA PaidStep == TypeInv /\ AllPaid /\ [Next]_vars => AllPaid'
<1> SUFFICES ASSUME TypeInv, \A e \in Turns : PaidFor(e), [Next]_vars, NEW d \in Turns
             PROVE  PaidFor(d)'
  BY DEF AllPaid
<1>0. /\ rows[d] \in [adapter : {0, 1}, job : Nat] /\ left[d] \in Nat
      /\ rows[d].job \in Nat /\ MaxAttempts \in Nat
      /\ rows \in [Turns -> [adapter : {0, 1}, job : Nat]]
      /\ LayerTypes /\ PaidFor(d)
  BY MemoryAssumption DEF TypeInv, RowTypes, LayerTypes
<1>1. ASSUME NEW t \in Turns, Step(t), t # d PROVE PaidFor(d)'
  BY <1>0, <1>1, OthersRest DEF PaidFor, Unstored
<1>2. CASE Commit(d) \/ Request(d)
  <2>1. step' = step /\ rows'[d].job = rows[d].job
    BY <1>0, <1>2, RequestTouches
  <2>2. CASE UNCHANGED layerVars
    BY <1>0, <2>1, <2>2 DEF PaidFor, Unstored, layerVars
  <2>3. CASE Layer!Publish(d)
    <3>1. left'[d] = left[d] /\ job'[d] = "queued"
      BY <2>3 DEF Layer!Publish, Layer!Move, LayerTypes, TypeInv
    <3>2. QED
      BY <1>0, <2>1, <3>1 DEF PaidFor, Unstored, Layer!AtWork
  <2>4. QED
    BY <1>2, <2>2, <2>3, RequestTouches
<1>3. CASE Handle(d)
  <2>1. UNCHANGED layerVars \/ Layered(d)
    BY <1>3, HandlerTouches DEF Layered
  <2>2. left'[d] \in Nat /\ left'[d] <= left[d]
    BY <1>0, <2>1, LayersCount DEF layerVars
  <2>3. QED
    BY <1>0, <1>3, <2>2, HandlerCounts DEF PaidFor
<1>4. CASE Around(d)
  <2>1. Layered(d) /\ rows' = rows
    BY <1>0, <1>4, AroundTouches DEF rowVars
  <2>2. /\ left'[d] \in Nat /\ left'[d] <= left[d]
        /\ job[d] \notin Layer!AtWork /\ job'[d] \in Layer!AtWork => left'[d] < left[d]
    BY <1>0, <2>1, LayersCount
  <2>3. Unstored(d)' => Unstored(d) \/ left'[d] < left[d]
    BY <1>4, <2>2, AroundCounts DEF Unstored
  <2>4. QED
    BY <1>0, <2>1, <2>2, <2>3 DEF PaidFor
<1>5. CASE DeleteUserMemories
  BY <1>0, <1>5 DEF DeleteUserMemories, PaidFor, Unstored, jobVars, layerVars
<1>6. CASE DeleteChat \/ UNCHANGED vars
  BY <1>0, <1>6 DEF DeleteChat, PaidFor, Unstored, vars, rowVars, jobVars, layerVars
<1>7. QED
  BY <1>1, <1>2, <1>3, <1>4, <1>5, <1>6 DEF Next, Step

\* The reruns that store a message again are bounded: whatever fails, and however
\* often a job is handed out behind a fault of the layers, each attempt stores the
\* message once at most.
THEOREM OneRowPerAttempt == Spec => [](\A t \in Turns : rows[t].job <= MaxAttempts)
<1>0. MaxAttempts \in Nat \ {0}
  BY MemoryAssumption
<1>1. ASSUME Init PROVE AllPaid
  <2> SUFFICES ASSUME NEW t \in Turns PROVE PaidFor(t)
    BY DEF AllPaid
  <2>1. rows[t].job = 0 /\ left[t] = MaxAttempts /\ job[t] = "none"
    BY <1>1 DEF Init
  <2>2. QED
    BY <1>0, <2>1 DEF PaidFor, Unstored, Layer!AtWork
<1>2. ASSUME TypeInv, AllPaid, NEW t \in Turns PROVE rows[t].job <= MaxAttempts
  <2>1. rows[t].job \in Nat /\ left[t] \in Nat /\ rows[t].job + left[t] <= MaxAttempts
    BY <1>0, <1>2 DEF TypeInv, RowTypes, LayerTypes, AllPaid, PaidFor
  <2>2. QED
    BY <1>0, <2>1
<1>3. TypeInv /\ AllPaid => \A t \in Turns : rows[t].job <= MaxAttempts
  BY <1>2
<1>4. QED
  BY TypeInit, TypeStep, PaidStep, <1>1, <1>3, PTL DEF Spec

-----------------------------------------------------------------------------
(* The layers around the handler *)

LayerSpec == Layer!Spec

\* A memory job is one of JobLayer's: requests, handlers and deletions do nothing to
\* it that JobLayer, which KeyedJob implements, does not allow.
THEOREM ImplementsLayer == Spec => LayerSpec
<1>1. Init => Layer!Init
  BY DEF Init, Layer!Init
<1>2. TypeInv /\ [Next]_vars => [Layer!Next]_Layer!vars
  <2> SUFFICES ASSUME TypeInv, [Next]_vars PROVE Layer!Next \/ UNCHANGED layerVars
    BY DEF Layer!vars, layerVars
  <2>1. ASSUME NEW t \in Turns, Step(t) PROVE Layered(t) \/ UNCHANGED layerVars
    BY <2>1, RequestTouches, HandlerTouches, AroundTouches DEF Step, Layered, TypeInv
  <2>2. ASSUME NEW t \in Turns, Layered(t) PROVE Layer!Next
    BY <2>2 DEF Layered, Layer!Next
  <2>3. CASE DeleteUserMemories \/ DeleteChat \/ UNCHANGED vars
    BY <2>3 DEF DeleteUserMemories, DeleteChat, vars, jobVars, layerVars
  <2>4. QED
    BY <2>1, <2>2, <2>3 DEF Next, Step
<1>3. QED
  BY TypeInit, TypeStep, <1>1, <1>2, PTL DEF Spec, LayerSpec, Layer!Spec

=============================================================================
