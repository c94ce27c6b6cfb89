-------------------------- MODULE BookingSagaProofs --------------------------
(***************************************************************************)
(* Proofs about BookingSaga, for any calls, approval keys and number of    *)
(* attempts.  All of them come from one invariant that says, for each      *)
(* control point, what has happened at Stripe, at the provider and in the  *)
(* database.                                                               *)
(***************************************************************************)
EXTENDS BookingSaga, TLAPS

Paid(c) == charge[c] = "taken" /\ reservations[c] > 0

Points == Running \cup {"booked", "failed", "dead"}

BasicType ==
    /\ approval \in [Keys -> {"none", "pending", "yes", "denied"}]
    /\ granted \subseteq Keys
    /\ pc \in [Calls -> Points]
    /\ charge \in [Calls -> {"none", "taken", "refunded"}]
    /\ attempts \in [Calls -> Nat]
    /\ reservations \in [Calls -> Nat]
    /\ rows \subseteq Calls
    /\ trouble \subseteq Calls \X Troubles

\* Only what the user approved reads as approved.
YesIsGranted == \A k \in Keys : approval[k] = "yes" => k \in granted

\* How the attempts at the provider and the reservations there are related.
Counts(c) ==
    /\ attempts[c] < RetryAttempts
    /\ reservations[c] <= attempts[c] + 1
    /\ pc[c] = "book" => reservations[c] <= attempts[c]
    /\ ~Had(c, "gateway") => reservations[c] <= 1 /\ (pc[c] = "book" => reservations[c] = 0)

\* What has happened outside when the call is at its control point.
Stage(c) ==
    /\ pc[c] \in {"approve", "ask", "pay"} =>
          charge[c] = "none" /\ reservations[c] = 0 /\ c \notin rows
    /\ pc[c] \in {"book", "persist"} => charge[c] = "taken" /\ c \notin rows
    /\ pc[c] = "persist" => reservations[c] > 0
    /\ pc[c] \in {"tidy", "booked"} => c \in rows /\ Paid(c)
    /\ pc[c] = "refund" /\ c \in rows => Had(c, "insert")
    /\ pc[c] = "failed" /\ charge[c] = "taken" =>
          Had(c, "charge") \/ Had(c, "refund") \/ Had(c, "cache")
    /\ c \in rows => Had(c, "insert") \/ Paid(c)
    /\ pc[c] \notin {"approve", "ask", "failed", "dead"} \/ charge[c] # "none" =>
          keyOf[c] \in granted

SagaInv ==
    /\ BasicType
    /\ YesIsGranted
    /\ \A c \in Calls : Counts(c) /\ Stage(c)

-----------------------------------------------------------------------------
(* What the helpers do, pointwise *)

\* Goto moves one call and no other.
LEMMA GotoPoint ==
    ASSUME BasicType, NEW c \in Calls, NEW from, NEW to, Goto(c, from, to)
    PROVE  /\ pc[c] = from
           /\ \A d \in Calls : pc'[d] = IF d = c THEN to ELSE pc[d]
BY DEF BasicType, Goto

\* SetCharge changes one call's charge and no other.
LEMMA ChargePoint ==
    ASSUME BasicType, NEW c \in Calls, NEW value, SetCharge(c, value)
    PROVE  \A d \in Calls : charge'[d] = IF d = c THEN value ELSE charge[d]
BY DEF BasicType, SetCharge

\* Reserved adds one reservation to one call.
LEMMA ReservedPoint ==
    ASSUME BasicType, NEW c \in Calls, Reserved(c)
    PROVE  \A d \in Calls :
               reservations'[d] = IF d = c THEN reservations[c] + 1 ELSE reservations[d]
BY DEF BasicType, Reserved

\* Suffer adds one trouble to one call.
LEMMA SufferPoint ==
    ASSUME NEW c \in Calls, NEW kind, Suffer(c, kind)
    PROVE  \A d \in Calls, k \in Troubles : Had(d, k)' <=> Had(d, k) \/ (d = c /\ k = kind)
BY DEF Suffer, Had

-----------------------------------------------------------------------------
(* Steps of a call *)

\* Steps keep the types.
LEMMA StepKeepsType ==
    ASSUME BookingConstants, BasicType, NEW c \in Calls, Approve(c) \/ Run(c) \/ Crash(c)
    PROVE  BasicType'
<1> USE DEF BasicType, Goto, SetCharge, Reserved, Suffer, Points, Running, userVars, worldVars
<1>1. CASE Approve(c)
  <2>1. keyOf[c] \in Keys
    BY DEF BookingConstants
  <2>2. CASE Refuse(c)
    BY <2>2 DEF Refuse
  <2>3. CASE Approved(c)
    BY <2>3 DEF Approved
  <2>4. CASE NotApproved(c)
    BY <2>4 DEF NotApproved
  <2>5. CASE Ask(c)
    BY <2>1, <2>5 DEF Ask, SetApproval
  <2>6. QED
    BY <1>1, <2>2, <2>3, <2>4, <2>5 DEF Approve
<1>2. CASE Run(c)
  <2>1. CASE Pay(c)
    BY <2>1 DEF Pay
  <2>2. CASE PayFails(c)
    BY <2>2 DEF PayFails, Troubles
  <2>3. CASE Book(c)
    BY <2>3 DEF Book
  <2>4. CASE BookAgain(c)
    BY <2>4 DEF BookAgain, Troubles
  <2>5. CASE BookFails(c)
    BY <2>5 DEF BookFails
  <2>6. CASE Persist(c)
    BY <2>6 DEF Persist
  <2>7. CASE PersistFails(c)
    BY <2>7 DEF PersistFails, Troubles
  <2>8. CASE Refund(c)
    BY <2>8 DEF Refund
  <2>9. CASE RefundFails(c)
    BY <2>9 DEF RefundFails, Troubles
  <2>10. CASE Tidy(c)
    BY <2>10 DEF Tidy
  <2>11. CASE TidyFails(c)
    BY <2>11 DEF TidyFails, Troubles
  <2>12. QED
    BY <1>2, <2>1, <2>2, <2>3, <2>4, <2>5, <2>6, <2>7, <2>8, <2>9, <2>10, <2>11 DEF Run
<1>3. CASE Crash(c)
  BY <1>3 DEF Crash
<1>4. QED
  BY <1>1, <1>2, <1>3

\* A call changes nothing of another one, and no call approves anything.
LEMMA StepIsLocal ==
    ASSUME BasicType, NEW c \in Calls, Approve(c) \/ Run(c) \/ Crash(c),
           NEW d \in Calls, d # c
    PROVE  /\ pc'[d] = pc[d]
           /\ charge'[d] = charge[d]
           /\ attempts'[d] = attempts[d]
           /\ reservations'[d] = reservations[d]
           /\ d \in rows' <=> d \in rows
           /\ \A k \in Troubles : Had(d, k)' <=> Had(d, k)
<1> USE DEF BasicType, Goto, SetCharge, Reserved, Suffer, Had, userVars, worldVars
<1>1. CASE Approve(c)
  BY <1>1 DEF Approve, Refuse, Approved, NotApproved, Ask
<1>2. CASE Run(c)
  <2>1. CASE Pay(c) \/ PayFails(c)
    BY <2>1 DEF Pay, PayFails
  <2>2. CASE Book(c) \/ BookAgain(c) \/ BookFails(c)
    BY <2>2 DEF Book, BookAgain, BookFails
  <2>3. CASE Persist(c) \/ PersistFails(c)
    BY <2>3 DEF Persist, PersistFails
  <2>4. CASE Refund(c) \/ RefundFails(c)
    BY <2>4 DEF Refund, RefundFails
  <2>5. CASE Tidy(c) \/ TidyFails(c)
    BY <2>5 DEF Tidy, TidyFails
  <2>6. QED
    BY <1>2, <2>1, <2>2, <2>3, <2>4, <2>5 DEF Run
<1>3. CASE Crash(c)
  BY <1>3 DEF Crash
<1>4. QED
  BY <1>1, <1>2, <1>3

\* Up to the approval, nothing happens outside.
LEMMA ApproveKeepsStage ==
    ASSUME BasicType, YesIsGranted, NEW c \in Calls, Counts(c), Stage(c),
           keyOf[c] \in Keys, Approve(c)
    PROVE  Counts(c)' /\ Stage(c)'
<1> USE DEF Counts, Stage, Paid, Had, userVars, worldVars
<1>1. CASE Refuse(c)
  BY <1>1, GotoPoint DEF Refuse
<1>2. CASE Approved(c)
  BY <1>2, GotoPoint DEF Approved, YesIsGranted
<1>3. CASE NotApproved(c)
  BY <1>3, GotoPoint DEF NotApproved
<1>4. CASE Ask(c)
  BY <1>4, GotoPoint DEF Ask
<1>5. QED
  BY <1>1, <1>2, <1>3, <1>4 DEF Approve

\* From the charge on, each step leaves what its next control point stands for.
LEMMA RunKeepsStage ==
    ASSUME BasicType, NEW c \in Calls, Counts(c), Stage(c), Run(c)
    PROVE  Counts(c)' /\ Stage(c)'
<1> USE DEF Counts, Stage, Paid, userVars
<1>0. /\ attempts[c] \in Nat /\ reservations[c] \in Nat
      /\ \A k \in {"charge", "gateway", "insert", "refund", "cache"} : k \in Troubles
  BY DEF BasicType, Troubles
<1>1. UNCHANGED trouble => \A k \in Troubles : Had(c, k)' <=> Had(c, k)
  BY DEF Had
<1>2. CASE Pay(c)
  BY <1>0, <1>1, <1>2, GotoPoint, ChargePoint DEF Pay
<1>3. CASE PayFails(c)
  <2>1. CASE UNCHANGED <<charge, trouble>>
    BY <1>0, <1>1, <1>3, <2>1, GotoPoint DEF PayFails
  <2>2. CASE SetCharge(c, "taken") /\ Suffer(c, "charge")
    BY <1>0, <1>3, <2>2, GotoPoint, ChargePoint, SufferPoint DEF PayFails
  <2>3. QED
    BY <1>3, <2>1, <2>2 DEF PayFails
<1>4. CASE Book(c)
  BY <1>0, <1>1, <1>4, GotoPoint, ReservedPoint DEF Book
<1>5. CASE BookAgain(c)
  <2>1. attempts'[c] = attempts[c] + 1 /\ attempts[c] + 1 < RetryAttempts
    BY <1>5 DEF BookAgain, BasicType
  <2>2. CASE UNCHANGED <<reservations, trouble>>
    BY <1>0, <1>1, <1>5, <2>1, <2>2 DEF BookAgain
  <2>3. CASE Reserved(c) /\ Suffer(c, "gateway")
    BY <1>0, <1>5, <2>1, <2>3, ReservedPoint, SufferPoint DEF BookAgain
  <2>4. QED
    BY <1>5, <2>2, <2>3 DEF BookAgain
<1>6. CASE BookFails(c)
  <2>1. CASE Reserved(c)
    BY <1>0, <1>1, <1>6, <2>1, GotoPoint, ReservedPoint DEF BookFails
  <2>2. CASE UNCHANGED reservations
    BY <1>0, <1>1, <1>6, <2>2, GotoPoint DEF BookFails
  <2>3. QED
    BY <1>6, <2>1, <2>2 DEF BookFails
<1>7. CASE Persist(c)
  BY <1>0, <1>1, <1>7, GotoPoint DEF Persist
<1>8. CASE PersistFails(c)
  <2>1. CASE UNCHANGED <<rows, trouble>>
    BY <1>0, <1>1, <1>8, <2>1, GotoPoint DEF PersistFails
  <2>2. CASE rows' = rows \cup {c} /\ Suffer(c, "insert")
    BY <1>0, <1>8, <2>2, GotoPoint, SufferPoint DEF PersistFails
  <2>3. QED
    BY <1>8, <2>1, <2>2 DEF PersistFails
<1>9. CASE Refund(c)
  BY <1>0, <1>1, <1>9, GotoPoint, ChargePoint DEF Refund
<1>10. CASE RefundFails(c)
  BY <1>0, <1>10, GotoPoint, SufferPoint DEF RefundFails
<1>11. CASE Tidy(c)
  BY <1>0, <1>1, <1>11, GotoPoint DEF Tidy, worldVars
<1>12. CASE TidyFails(c)
  BY <1>0, <1>12, GotoPoint, SufferPoint DEF TidyFails
<1>13. QED
  BY <1>2, <1>3, <1>4, <1>5, <1>6, <1>7, <1>8, <1>9, <1>10, <1>11, <1>12 DEF Run

\* A crash leaves everything outside as it is.
LEMMA CrashKeepsStage ==
    ASSUME BasicType, NEW c \in Calls, Counts(c), Stage(c), Crash(c)
    PROVE  Counts(c)' /\ Stage(c)'
<1>1. pc[c] \in Running /\ pc'[c] = "dead"
  BY DEF Crash, BasicType
<1>2. QED
  BY <1>1 DEF Crash, Counts, Stage, Paid, Had, userVars, worldVars, Running

-----------------------------------------------------------------------------
(* The invariant and what follows *)

\* Initially nothing has happened.
LEMMA SagaAtFirst == Init => SagaInv
<1> SUFFICES ASSUME Init PROVE SagaInv
  OBVIOUS
<1>1. BasicType
  BY DEF Init, BasicType, Points, Running
<1>2. YesIsGranted
  BY DEF Init, YesIsGranted
<1>3. \A c \in Calls : Counts(c) /\ Stage(c)
  <2> SUFFICES ASSUME NEW c \in Calls PROVE Counts(c) /\ Stage(c)
    OBVIOUS
  <2>1. /\ pc[c] = "approve" /\ charge[c] = "none"
        /\ attempts[c] = 0 /\ reservations[c] = 0 /\ c \notin rows
    BY DEF Init
  <2>2. Counts(c)
    BY <2>1, BookingConstants DEF Counts
  <2>3. Stage(c)
    BY <2>1 DEF Stage
  <2>4. QED
    BY <2>2, <2>3
<1>4. QED
  BY <1>1, <1>2, <1>3 DEF SagaInv

\* Every step of a call keeps the invariant.
LEMMA CallKeepsInv ==
    ASSUME SagaInv, NEW c \in Calls, Approve(c) \/ Run(c) \/ Crash(c)
    PROVE  SagaInv'
<1>0. /\ BasicType /\ YesIsGranted
      /\ \A d \in Calls : Counts(d) /\ Stage(d) /\ keyOf[d] \in Keys
  BY BookingConstants DEF SagaInv
<1>1. BasicType'
  BY <1>0, BookingConstants, StepKeepsType
<1>2. UNCHANGED granted
  BY DEF Approve, Run, Crash, Refuse, Approved, NotApproved, Ask, Pay, PayFails, Book,
         BookAgain, BookFails, Persist, PersistFails, Refund, RefundFails, Tidy,
         TidyFails, userVars
<1>3. YesIsGranted'
  <2>1. \A k \in Keys : approval'[k] = "yes" => approval[k] = "yes"
    <3>1. CASE Ask(c)
      BY <1>0, <3>1 DEF Ask, SetApproval, BasicType
    <3>2. CASE ~Ask(c)
      BY <3>2 DEF Approve, Run, Crash, Refuse, Approved, NotApproved, Pay, PayFails, Book,
                  BookAgain, BookFails, Persist, PersistFails, Refund, RefundFails, Tidy,
                  TidyFails, userVars
    <3>3. QED
      BY <3>1, <3>2
  <2>2. QED
    BY <1>0, <1>2, <2>1 DEF YesIsGranted
<1>4. Counts(c)' /\ Stage(c)'
  BY <1>0, ApproveKeepsStage, RunKeepsStage, CrashKeepsStage
<1>5. ASSUME NEW d \in Calls, d # c PROVE Counts(d)' /\ Stage(d)'
  <2>1. /\ pc'[d] = pc[d] /\ charge'[d] = charge[d] /\ attempts'[d] = attempts[d]
        /\ reservations'[d] = reservations[d] /\ (d \in rows' <=> d \in rows)
        /\ \A k \in {"charge", "gateway", "insert", "refund", "cache"} :
              Had(d, k)' <=> Had(d, k)
    BY <1>0, <1>5, StepIsLocal DEF Troubles
  <2>2. Counts(d)'
    BY <1>0, <2>1 DEF Counts
  <2>3. Stage(d)'
    BY <1>0, <1>2, <2>1 DEF Stage, Paid
  <2>4. QED
    BY <2>2, <2>3
<1>6. QED
  BY <1>1, <1>3, <1>4, <1>5 DEF SagaInv

\* So does a decision of the user, or the end of one.
LEMMA DecideKeepsInv ==
    ASSUME SagaInv, NEW k \in Keys, Decide(k)
    PROVE  SagaInv'
<1>1. BasicType'
  BY DEF SagaInv, BasicType, Decide, Grant, Deny, Expire, SetApproval, worldVars
<1>2. granted \subseteq granted' /\ UNCHANGED <<pc, worldVars>>
  BY DEF Decide, Grant, Deny, Expire
<1>3. YesIsGranted'
  BY DEF SagaInv, BasicType, YesIsGranted, Decide, Grant, Deny, Expire, SetApproval
<1>4. \A c \in Calls : Counts(c)' /\ Stage(c)'
  BY <1>2 DEF SagaInv, Counts, Stage, Paid, Had, worldVars
<1>5. QED
  BY <1>1, <1>3, <1>4 DEF SagaInv

\* The invariant holds throughout.
LEMMA SagaInvariant == Spec => []SagaInv
<1>1. SagaInv /\ [Next]_vars => SagaInv'
  <2> SUFFICES ASSUME SagaInv, [Next]_vars PROVE SagaInv'
    OBVIOUS
  <2>1. CASE UNCHANGED vars
    BY <2>1 DEF vars, SagaInv, BasicType, YesIsGranted, Counts, Stage, Paid, Had
  <2>2. QED
    BY <2>1, CallKeepsInv, DecideKeepsInv DEF Next
<1>2. QED
  BY <1>1, SagaAtFirst, PTL DEF Spec

\* Every variable of the booking keeps its type; no call reserves more often than
\* it may try.
THEOREM BookingTypeCorrect == Spec => []BookingTypeOK
<1>1. SagaInv => BookingTypeOK
  <2> SUFFICES ASSUME SagaInv PROVE BookingTypeOK
    OBVIOUS
  <2>1. \A c \in Calls : /\ attempts[c] \in 0..(RetryAttempts - 1)
                        /\ reservations[c] \in 0..RetryAttempts
    <3> SUFFICES ASSUME NEW c \in Calls
                 PROVE  /\ attempts[c] \in 0..(RetryAttempts - 1)
                        /\ reservations[c] \in 0..RetryAttempts
      OBVIOUS
    <3>1. attempts[c] \in Nat /\ reservations[c] \in Nat /\ RetryAttempts \in Nat
      BY BookingConstants DEF SagaInv, BasicType
    <3>2. Counts(c)
      BY DEF SagaInv
    <3>3. QED
      BY <3>1, <3>2 DEF Counts
  <2>2. /\ attempts \in [Calls -> 0..(RetryAttempts - 1)]
        /\ reservations \in [Calls -> 0..RetryAttempts]
    BY <2>1 DEF SagaInv, BasicType
  <2>3. QED
    BY <2>2 DEF SagaInv, BasicType, BookingTypeOK, Points
<1>2. QED
  BY <1>1, SagaInvariant, PTL

\* No charge without the user's approval of the call's key, for any number of calls
\* that share keys.
THEOREM ChargesAreApproved == Spec => []ChargeIsApproved
<1>1. SagaInv => ChargeIsApproved
  BY DEF SagaInv, Stage, ChargeIsApproved
<1>2. QED
  BY <1>1, SagaInvariant, PTL

\* A failing call has refunded, unless Stripe's answer was lost, the refund failed,
\* or the booking was complete already.
THEOREM FailuresAreRefunded == Spec => []FailureIsRefunded
<1>1. SagaInv => FailureIsRefunded
  BY DEF SagaInv, Stage, FailureIsRefunded
<1>2. QED
  BY <1>1, SagaInvariant, PTL

\* A row in bookings is paid for and reserved.
THEOREM RowsArePaidFor == Spec => []RowIsPaidFor
<1>1. SagaInv => RowIsPaidFor
  BY DEF SagaInv, BasicType, Stage, Paid, RowIsPaidFor
<1>2. QED
  BY <1>1, SagaInvariant, PTL

\* A call makes one reservation at most, however many attempts it has, unless the
\* provider answers 5xx for one it made.
THEOREM OneReservation == Spec => []ReservedOnce
<1>1. SagaInv => ReservedOnce
  BY DEF SagaInv, Counts, ReservedOnce
<1>2. QED
  BY <1>1, SagaInvariant, PTL

=============================================================================
