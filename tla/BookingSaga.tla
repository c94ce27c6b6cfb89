----------------------------- MODULE BookingSaga -----------------------------
(***************************************************************************)
(* Booking an accommodation in TripSage: approval, charge, reservation at  *)
(* the provider, row in the database, and a refund when a step after the   *)
(* charge fails (runBookingOrchestrator, inside AccommodationsService.book *)
(* and the tool bookAccommodation).                                        *)
(*                                                                         *)
(* A call is one execution of the tool.  Calls of one session that carry   *)
(* the same idempotency key look for the same approval, a Redis key that a *)
(* user's decision writes.  A remote call that reports an error may have   *)
(* taken effect all the same; where that matters, trouble remembers it.    *)
(***************************************************************************)
EXTENDS Integers

CONSTANTS
    Calls,
    Keys,            \* approval keys: session, action and idempotency key
    keyOf,           \* [Calls -> Keys]
    RetryAttempts    \* calls of the provider's booking API per booking

ASSUME BookingConstants ==
    /\ RetryAttempts \in Nat \ {0}
    /\ keyOf \in [Calls -> Keys]

VARIABLES
    approval,       \* [Keys -> value of the approval key]
    granted,        \* set of the keys the user ever approved
    pc,             \* [Calls -> control point]
    charge,         \* [Calls -> the payment intent at Stripe]
    attempts,       \* [Calls -> failed calls of the provider's API]
    reservations,   \* [Calls -> reservations at the provider]
    rows,           \* set of the calls whose row is in the table bookings
    trouble         \* set of <<call, what went wrong in it>>

userVars  == <<approval, granted>>
worldVars == <<charge, attempts, reservations, rows, trouble>>
vars == <<approval, granted, pc, charge, attempts, reservations, rows, trouble>>

Running == {"approve", "ask", "pay", "book", "persist", "refund", "tidy"}
Troubles == {"charge",      \* charged, although the payment failed
             "gateway",     \* reserved, although the API answered 5xx
             "insert",      \* inserted, although the insert failed
             "refund",      \* the refund failed
             "cache"}       \* bumpTag failed behind the inserted row

BookingTypeOK ==
    /\ approval \in [Keys -> {"none", "pending", "yes", "denied"}]
    /\ granted \subseteq Keys
    /\ pc \in [Calls -> Running \cup {"booked", "failed", "dead"}]
    /\ charge \in [Calls -> {"none", "taken", "refunded"}]
    /\ attempts \in [Calls -> 0..(RetryAttempts - 1)]
    /\ reservations \in [Calls -> 0..RetryAttempts]
    /\ rows \subseteq Calls
    /\ trouble \subseteq Calls \X Troubles

Init ==
    /\ approval = [k \in Keys |-> "none"]
    /\ granted = {}
    /\ pc = [c \in Calls |-> "approve"]
    /\ charge = [c \in Calls |-> "none"]
    /\ attempts = [c \in Calls |-> 0]
    /\ reservations = [c \in Calls |-> 0]
    /\ rows = {}
    /\ trouble = {}

-----------------------------------------------------------------------------
(* Helpers *)

Goto(c, from, to) ==
    /\ pc[c] = from
    /\ pc' = [pc EXCEPT ![c] = to]

SetApproval(k, value) == approval' = [approval EXCEPT ![k] = value]
SetCharge(c, value)   == charge' = [charge EXCEPT ![c] = value]
Reserved(c) == reservations' = [reservations EXCEPT ![c] = @ + 1]

Had(c, kind)   == <<c, kind>> \in trouble
Suffer(c, kind) == trouble' = trouble \cup {<<c, kind>>}

-----------------------------------------------------------------------------
(* The approval, which nothing consumes *)

Grant(k) ==
    /\ SetApproval(k, "yes")
    /\ granted' = granted \cup {k}
    /\ UNCHANGED <<pc, worldVars>>

Deny(k) ==
    /\ SetApproval(k, "denied")
    /\ UNCHANGED <<granted, pc, worldVars>>

\* Every value of the key lives 300 s.
Expire(k) ==
    /\ approval[k] # "none"
    /\ SetApproval(k, "none")
    /\ UNCHANGED <<granted, pc, worldVars>>

\* No handlers, no session, the trip of somebody else, no cached price or one that
\* does not fit; or Redis fails.
Refuse(c) ==
    /\ Goto(c, "approve", "failed")
    /\ UNCHANGED <<userVars, worldVars>>

\* Variant: whatever was not denied is approved.
ApprovedUnlessDenied(c) ==
    /\ approval[keyOf[c]] # "denied"
    /\ Goto(c, "approve", "pay")
    /\ UNCHANGED <<userVars, worldVars>>

\* requireApproval returns.
Approved(c) ==
    /\ approval[keyOf[c]] = "yes"
    /\ Goto(c, "approve", "pay")
    /\ UNCHANGED <<userVars, worldVars>>

NotApproved(c) ==
    /\ approval[keyOf[c]] # "yes"
    /\ Goto(c, "approve", "ask")
    /\ UNCHANGED <<userVars, worldVars>>

\* The key is set to "pending", whatever it holds by now, unless Redis fails;
\* requireApproval throws.
Ask(c) ==
    /\ Goto(c, "ask", "failed")
    /\ SetApproval(keyOf[c], "pending") \/ UNCHANGED approval
    /\ UNCHANGED <<granted, worldVars>>

-----------------------------------------------------------------------------
(* Charge, reservation, row *)

Pay(c) ==
    /\ Goto(c, "pay", "book")
    /\ SetCharge(c, "taken")
    /\ UNCHANGED <<userVars, attempts, reservations, rows, trouble>>

\* Declined, or no answer from Stripe: processPayment throws, nothing is refunded.
PayFails(c) ==
    /\ Goto(c, "pay", "failed")
    /\ \/ UNCHANGED <<charge, trouble>>
       \/ SetCharge(c, "taken") /\ Suffer(c, "charge")
    /\ UNCHANGED <<userVars, attempts, reservations, rows>>

\* createBooking returns a booking.
Book(c) ==
    /\ Goto(c, "book", "persist")
    /\ Reserved(c)
    /\ UNCHANGED <<userVars, charge, attempts, rows, trouble>>

\* Variant: a timeout, too, is tried again.
BookAgainAfterTimeout(c) ==
    /\ pc[c] = "book"
    /\ attempts[c] + 1 < RetryAttempts
    /\ attempts' = [attempts EXCEPT ![c] = @ + 1]
    /\ Reserved(c) \/ UNCHANGED reservations
    /\ UNCHANGED <<userVars, pc, charge, rows, trouble>>

\* Variant: the retries are counted beside the first call.
BookAgainOnceMore(c) ==
    /\ pc[c] = "book"
    /\ attempts[c] < RetryAttempts
    /\ attempts' = [attempts EXCEPT ![c] = @ + 1]
    /\ \/ UNCHANGED <<reservations, trouble>>
       \/ Reserved(c) /\ Suffer(c, "gateway")
    /\ UNCHANGED <<userVars, pc, charge, rows>>

\* The API answers 5xx and is called again.
BookAgain(c) ==
    /\ pc[c] = "book"
    /\ attempts[c] + 1 < RetryAttempts
    /\ attempts' = [attempts EXCEPT ![c] = @ + 1]
    /\ \/ UNCHANGED <<reservations, trouble>>
       \/ Reserved(c) /\ Suffer(c, "gateway")
    /\ UNCHANGED <<userVars, pc, charge, rows>>

\* Variant: a failed booking is reported without a refund.
BookFailsUnrefunded(c) ==
    /\ Goto(c, "book", "failed")
    /\ Reserved(c) \/ UNCHANGED reservations
    /\ UNCHANGED <<userVars, charge, attempts, rows, trouble>>

\* Refused, timed out, unreadable, or 5xx at the last attempt: ok: false.
BookFails(c) ==
    /\ Goto(c, "book", "refund")
    /\ Reserved(c) \/ UNCHANGED reservations
    /\ UNCHANGED <<userVars, charge, attempts, rows, trouble>>

Persist(c) ==
    /\ Goto(c, "persist", "tidy")
    /\ rows' = rows \cup {c}
    /\ UNCHANGED <<userVars, charge, attempts, reservations, trouble>>

\* The insert reports an error, perhaps after it was applied.
PersistFails(c) ==
    /\ Goto(c, "persist", "refund")
    /\ \/ UNCHANGED <<rows, trouble>>
       \/ rows' = rows \cup {c} /\ Suffer(c, "insert")
    /\ UNCHANGED <<userVars, charge, attempts, reservations>>

-----------------------------------------------------------------------------
(* The end *)

\* refundOnFailure, then the error is thrown.
Refund(c) ==
    /\ Goto(c, "refund", "failed")
    /\ SetCharge(c, "refunded")
    /\ UNCHANGED <<userVars, attempts, reservations, rows, trouble>>

\* A failing refund, applied or not, only raises an alert.
RefundFails(c) ==
    /\ Goto(c, "refund", "failed")
    /\ SetCharge(c, "refunded") \/ UNCHANGED charge
    /\ Suffer(c, "refund")
    /\ UNCHANGED <<userVars, attempts, reservations, rows>>

\* bumpTag of the search cache, and the result is returned.
Tidy(c) ==
    /\ Goto(c, "tidy", "booked")
    /\ UNCHANGED <<userVars, worldVars>>

\* Variant: an error behind the orchestrator refunds, too.
TidyFailsRefunding(c) ==
    /\ Goto(c, "tidy", "failed")
    /\ SetCharge(c, "refunded")
    /\ Suffer(c, "cache")
    /\ UNCHANGED <<userVars, attempts, reservations, rows>>

\* bumpTag throws: the tool ends with accom_booking_failed.
TidyFails(c) ==
    /\ Goto(c, "tidy", "failed")
    /\ Suffer(c, "cache")
    /\ UNCHANGED <<userVars, charge, attempts, reservations, rows>>

Crash(c) ==
    /\ pc[c] \in Running
    /\ pc' = [pc EXCEPT ![c] = "dead"]
    /\ UNCHANGED <<userVars, worldVars>>

-----------------------------------------------------------------------------
(* The specification *)

Approve(c) == Refuse(c) \/ Approved(c) \/ NotApproved(c) \/ Ask(c)

\* runBookingOrchestrator behind the approval.
Run(c) ==
    \/ Pay(c) \/ PayFails(c)
    \/ Book(c) \/ BookAgain(c) \/ BookFails(c)
    \/ Persist(c) \/ PersistFails(c)
    \/ Refund(c) \/ RefundFails(c)
    \/ Tidy(c) \/ TidyFails(c)

Decide(k) == Grant(k) \/ Deny(k) \/ Expire(k)

Next ==
    \/ \E c \in Calls : Approve(c) \/ Run(c) \/ Crash(c)
    \/ \E k \in Keys : Decide(k)

Spec == Init /\ [][Next]_vars

-----------------------------------------------------------------------------
(* Properties *)

\* Nothing is charged without the user's approval of that call's key, whoever asks
\* again, denies or lets the approval run out in between.
ChargeIsApproved == \A c \in Calls : charge[c] # "none" => keyOf[c] \in granted

\* A call that fails leaves no charge behind, at whatever step, unless Stripe's own
\* answers were lost or its refund failed, or the row is in and only the
\* invalidation of the search cache failed.
FailureIsRefunded ==
    \A c \in Calls :
        pc[c] = "failed" /\ charge[c] = "taken" =>
            Had(c, "charge") \/ Had(c, "refund") \/ Had(c, "cache")

\* A row says CONFIRMED: its booking is paid for, and reserved at the provider,
\* even after a crash or an error behind it.
RowIsPaidFor ==
    \A c \in rows :
        ~Had(c, "insert") => charge[c] = "taken" /\ reservations[c] > 0

\* The provider's API is not idempotent: unless it answers 5xx for a reservation it
\* made, a call makes one at most, timeouts included.
ReservedOnce == \A c \in Calls : Had(c, "gateway") \/ reservations[c] <= 1

=============================================================================
