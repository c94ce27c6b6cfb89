--------------------------- MODULE MCWebhookGate ---------------------------
(* Constants for TLC: the endpoints, and postings of row changes to them. *)
EXTENDS WebhookGate

CONSTANTS p1, p2, trips, cache

Row(table, type, time) ==
    [table |-> table, type |-> type, occurredAt |-> time, record |-> "r1"]

Filters == [e \in {trips, cache} |->
               IF e = trips THEN "trip_collaborators" ELSE AnyTable]
Ttls == [e \in {trips, cache} |-> IF e = trips THEN 3 ELSE 2]

\* One change posted to both endpoints.
ToBoth == [p \in Postings |-> IF p = p1 THEN trips ELSE cache]

\* A new collaborator: both endpoints are for it.
Collaborator == [p \in Postings |-> Row("trip_collaborators", "INSERT", "t1")]

\* A new trip: hooks/cache is for it, hooks/trips skips it.
Trip == [p \in Postings |-> Row("trips", "INSERT", "t1")]

=============================================================================
