SPECIFICATION Spec
CONSTANTS
    b1 = b1
    b2 = b2
    shared = shared
    Calls = {b1, b2}
    Keys = {shared}
    keyOf <- KeyOfCall
    RetryAttempts = 3
INVARIANTS BookingTypeOK ChargeIsApproved FailureIsRefunded RowIsPaidFor ReservedOnce
