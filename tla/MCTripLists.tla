---------------------------- MODULE MCTripLists ----------------------------
(* Constants for TLC: two mutations of one list, and a row there may be. *)
EXTENDS TripLists, Naturals

CONSTANTS m1, m2, i1

Call(hook, prefixed) == [hook |-> hook, item |-> i1, prefixed |-> prefixed]

\* Every two calls for one list, in one order, as the mutations are alike.  To
\* remove a place under its own id is like deleting an item, so pairs with
\* nothing but that and updates of the trip are in the first set only.
Pairs(calls) ==
    {c \in [{m1, m2} -> {calls[i] : i \in DOMAIN calls}] :
        \E i, j \in DOMAIN calls : i <= j /\ c[m1] = calls[i] /\ c[m2] = calls[j]}

Itinerary ==
    <<Call("create", FALSE), Call("edit", FALSE), Call("delete", FALSE), Call("trip", FALSE)>>
Places ==
    <<Call("save", FALSE), Call("save", TRUE), Call("remove", TRUE), Call("remove", FALSE),
      Call("trip", FALSE)>>

AllPairs ==
    Pairs(Itinerary) \cup
    {c \in Pairs(Places) : \E m \in {m1, m2} : c[m].prefixed \/ c[m].hook = "save"}

\* A bound: what is claimed of disturbed lists no longer depends on pages.
NoPageBehind == "disturbed" \in marks => page = NoData

=============================================================================
