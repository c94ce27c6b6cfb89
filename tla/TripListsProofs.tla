--------------------------- MODULE TripListsProofs ---------------------------
(***************************************************************************)
(* Proofs about TripLists, for any number of mutations of either list: a   *)
(* list that is not flagged is true once nothing is under way, and no item *)
(* is shown beside its own optimistic entry.                               *)
(***************************************************************************)
EXTENDS TripLists, TLAPS

-----------------------------------------------------------------------------
(* What is not flagged is true *)

\* Between a mutation's change of the list and its onSettled the list may show
\* anything; useUpdateTrip does not touch it.
Dirty == \E m \in Mutations : Hook(m) # "trip" /\ pc[m] \in {"sent", "ok", "error", "settling"}

Undisturbed == "disturbed" \notin marks

\* A page on its way is what the server has.  While the list is not dirty, so is
\* what a fetch has read, and the list, unless it is flagged, now or when the fetch
\* is cancelled.
FreshInv ==
    Undisturbed =>
        /\ late = {}
        /\ page # NoData => page = rows
        /\ ~Dirty /\ fetch = "read" => fetched = rows
        /\ ~Dirty /\ ~invalid /\ data # NoData => data = rows
        /\ ~Dirty /\ ~revert.invalid /\ revert.data # NoData => revert.data = rows

PcOK == pc \in [Mutations -> Points]

\* Goto moves one mutation and no other.
LEMMA GotoPoint ==
    ASSUME PcOK, NEW m \in Mutations, NEW from, NEW to, Goto(m, from, to)
    PROVE  /\ pc[m] = from
           /\ \A n \in Mutations : pc'[n] = IF n = m THEN to ELSE pc[n]
BY DEF PcOK, Goto

\* A mutation that was not dirty leaves it to the others whether the list is.
LEMMA CleanGoto ==
    ASSUME PcOK, NEW m \in Mutations, NEW from, NEW to, Goto(m, from, to),
           UNCHANGED call,
           to \in {"sent", "ok", "error", "settling"} =>
               Hook(m) = "trip" \/ from \in {"sent", "ok", "error", "settling"},
           from \in {"sent", "ok", "error", "settling"} =>
               Hook(m) = "trip" \/ to \in {"sent", "ok", "error", "settling"}
    PROVE  Dirty' <=> Dirty
BY GotoPoint DEF Dirty, Hook

\* A mutation that changes the list makes it dirty.
LEMMA DirtyGoto ==
    ASSUME PcOK, NEW m \in Mutations, NEW from, NEW to, Goto(m, from, to),
           UNCHANGED call, Hook(m) # "trip", to \in {"sent", "ok", "error", "settling"}
    PROVE  Dirty'
BY GotoPoint DEF Dirty, Hook

\* Steps of the cache alone.
LEMMA CacheKeepsFresh ==
    ASSUME FreshInv, StartFetch \/ ReadRows \/ EndFetch \/ RenderPage \/ Hydrate
    PROVE  FreshInv'
<1>1. UNCHANGED <<call, pc, rows, late>>
  BY DEF StartFetch, ReadRows, EndFetch, FetchDone, FetchFails, RenderPage, Hydrate
<1>2. Dirty' <=> Dirty
  BY <1>1 DEF Dirty, Hook
<1>3. Undisturbed' => Undisturbed
  BY DEF StartFetch, ReadRows, EndFetch, FetchDone, FetchFails, RenderPage, Hydrate, Undisturbed
<1>4. CASE StartFetch
  BY <1>1, <1>2, <1>3, <1>4 DEF StartFetch, FreshInv, cacheVars
<1>5. CASE ReadRows
  BY <1>1, <1>2, <1>3, <1>5 DEF ReadRows, FreshInv, cacheVars
<1>6. CASE FetchDone
  BY <1>1, <1>2, <1>3, <1>6 DEF FetchDone, FreshInv, SetQueryData
<1>7. CASE FetchFails
  <2>1. invalid' = invalid \/ invalid' = TRUE
    BY <1>7 DEF FetchFails
  <2>2. ~invalid' => ~invalid
    BY <2>1, Zenon
  <2>3. UNCHANGED <<data, page>> /\ fetch' = "none"
    BY <1>7 DEF FetchFails
  <2>4. revert'.data = data /\ revert'.invalid = invalid'
    BY <1>7 DEF FetchFails
  <2>5. ~revert'.invalid => ~invalid
    BY <2>2, <2>4, Zenon
  <2>6. QED
    BY <1>1, <1>2, <1>3, <2>2, <2>3, <2>4, <2>5 DEF FreshInv
<1>8. CASE RenderPage
  BY <1>1, <1>2, <1>3, <1>8 DEF RenderPage, FreshInv, fetchVars
<1>9. CASE Hydrate
  BY <1>1, <1>2, <1>3, <1>9 DEF Hydrate, FreshInv, fetchVars
<1>10. QED
  BY <1>4, <1>5, <1>6, <1>7, <1>8, <1>9 DEF EndFetch

\* An invalidation flags the list, and whatever runs on has been noted.
LEMMA InvalidateKeepsFresh ==
    ASSUME FreshInv, InvalidateQueries, UNCHANGED <<rows, late>>
    PROVE  FreshInv'
<1>1. Undisturbed' => Undisturbed
  BY DEF InvalidateQueries, Undisturbed
<1>2. CASE Refetch /\ UNCHANGED marks
  BY <1>1, <1>2 DEF FreshInv, InvalidateQueries, Refetch
<1>3. CASE fetch = "none" /\ revert' = [revert EXCEPT !.invalid = TRUE] /\ UNCHANGED fetchVars
  BY <1>1, <1>3 DEF FreshInv, InvalidateQueries, fetchVars
<1>4. CASE marks' = marks \cup {"disturbed"}
  BY <1>4 DEF FreshInv, Undisturbed
<1>5. QED
  BY <1>2, <1>3, <1>4 DEF InvalidateQueries

\* Steps of a mutation.
LEMMA MutationKeepsFresh ==
    ASSUME PcOK, FreshInv, NEW m \in Mutations,
           Begin(m) \/ Mutate(m) \/ Answer(m) \/ React(m) \/ ServeLate(m)
    PROVE  FreshInv'
<1>1. CASE Begin(m)
  <2>1. Dirty' <=> Dirty
    BY <1>1, CleanGoto DEF Begin
  <2>2. QED
    BY <1>1, <2>1 DEF Begin, CancelQueries, FreshInv, Undisturbed
<1>2. CASE Mutate(m)
  <2>1. UNCHANGED <<call, rows, late, fetch, fetched, marks>>
    BY <1>2 DEF Mutate, fetchVars
  <2>2. CASE Hook(m) = "trip"
    <3>1. Dirty' <=> Dirty
      BY <1>2, <2>2, CleanGoto DEF Mutate
    <3>2. UNCHANGED <<data, invalid, revert, page>>
      BY <1>2, <2>2 DEF Mutate, cacheVars
    <3>3. QED
      BY <2>1, <3>1, <3>2 DEF FreshInv, Undisturbed
  <2>3. CASE Hook(m) # "trip"
    <3>1. Dirty'
      BY <1>2, <2>3, DirtyGoto DEF Mutate
    <3>2. page' = NoData \/ page' = page
      BY <1>2 DEF Mutate, SetQueryData, cacheVars
    <3>3. QED
      BY <2>1, <3>1, <3>2 DEF FreshInv, Undisturbed
  <2>4. QED
    BY <2>2, <2>3
<1>3. CASE Serve(m) \/ Refuse(m) \/ LoseSight(m)
  <2>1. UNCHANGED <<call, data, invalid, revert, page, fetch, fetched>>
    BY <1>3 DEF Serve, Refuse, LoseSight, cacheVars, fetchVars
  <2>2. Goto(m, "sent", "ok") \/ Goto(m, "sent", "error")
    BY <1>3 DEF Serve, Refuse, LoseSight
  <2>3. Undisturbed' => Undisturbed /\ UNCHANGED late
    BY <1>3 DEF Serve, WriteRows, Refuse, LoseSight, Undisturbed
  <2>4. CASE Hook(m) = "trip"
    <3>1. Dirty' <=> Dirty
      BY <2>1, <2>2, <2>4, CleanGoto
    <3>2. UNCHANGED rows
      BY <1>3, <2>4 DEF Serve, WriteRows, InsertItem, UpdateItem, DeleteItem, UpsertPlace,
                        DeletePlace, UpdateTrip, Refuse, LoseSight
    <3>3. QED
      BY <2>1, <2>3, <3>1, <3>2 DEF FreshInv
  <2>5. CASE Hook(m) # "trip"
    <3>1. Dirty'
      BY <2>1, <2>2, <2>5, DirtyGoto
    <3>2. Undisturbed' => page \in {NoData, rows'} \/ UNCHANGED rows
      BY <1>3 DEF Serve, WriteRows, Refuse, LoseSight, Undisturbed
    <3>3. QED
      BY <2>1, <2>3, <3>1, <3>2 DEF FreshInv
  <2>6. QED
    BY <2>4, <2>5
<1>4. CASE OnSuccess(m) \/ OnError(m)
  <2>1. UNCHANGED <<call, late, marks>>
    BY <1>4 DEF OnSuccess, OnError
  <2>2. Hook(m) # "trip"
    BY <1>4 DEF OnSuccess, OnError
  <2>3. Goto(m, "ok", "settling") \/ Goto(m, "error", "settling")
    BY <1>4 DEF OnSuccess, OnError
  <2>4. Dirty'
    BY <2>1, <2>2, <2>3, DirtyGoto
  <2>5. UNCHANGED rows /\ page' \in {NoData, page}
    BY <1>4 DEF OnSuccess, OnError, SetQueryData, cacheVars
  <2>6. QED
    BY <2>1, <2>4, <2>5 DEF FreshInv, Undisturbed
<1>5. CASE Settle(m) \/ TripUpdated(m)
  BY <1>5, InvalidateKeepsFresh DEF Settle, TripUpdated
<1>6. CASE TripUpdateFails(m)
  <2>1. Dirty' <=> Dirty
    BY <1>6, CleanGoto DEF TripUpdateFails
  <2>2. QED
    BY <1>6, <2>1 DEF TripUpdateFails, FreshInv, Undisturbed, cacheVars, fetchVars
<1>7. CASE ServeLate(m)
  <2>1. ~Undisturbed
    BY <1>7 DEF ServeLate, FreshInv
  <2>2. QED
    BY <1>7, <2>1 DEF ServeLate, WriteRows, FreshInv, Undisturbed
<1>8. QED
  BY <1>1, <1>2, <1>3, <1>4, <1>5, <1>6, <1>7 DEF Answer, React

-----------------------------------------------------------------------------
(* Types *)

\* What a call is about, and that it is a call of one of the lists.
LEMMA CallType ==
    ASSUME TripListsTypeOK, NEW m \in Mutations
    PROVE  /\ call[m].item \in Items
           /\ Hook(m) \in ItineraryHooks \cup PlaceHooks
           /\ Hook(m) \in {"create", "edit", "delete"} => call[m].prefixed = FALSE
<1>1. call[m] \in ItineraryCalls \cup PlaceCalls
  BY DEF TripListsTypeOK
<1>2. QED
  BY <1>1 DEF ItineraryCalls, PlaceCalls, ItineraryHooks, PlaceHooks, Hook

\* The row a mutation writes, and the entry it shows, are rows of their lists.
LEMMA RowTypes ==
    ASSUME TripListsTypeOK, NEW m \in Mutations
    PROVE  /\ Stored(m) \in StoredRows
           /\ Stored(m) \in ShownRows
           /\ Hook(m) \in {"create", "save", "edit"} => Shown(m) \in ShownRows
<1>1. StoredId(m) \in StoredIds
  BY CallType DEF StoredId, StoredIds
<1>2. Stored(m) \in StoredRows
  BY <1>1 DEF Stored, StoredRows
<1>3. Hook(m) = "edit" => ShownId(m) = call[m].item
  BY CallType DEF ShownId
<1>4. Hook(m) = "edit" => Shown(m) \in StoredRows
  BY <1>3, CallType DEF Shown, StoredRows, StoredIds
<1>5. QED
  BY <1>2, <1>4 DEF ShownRows

\* Steps that leave the calls alone leave the types alone.
LEMMA SameRows == UNCHANGED call => ShownRows' = ShownRows
BY DEF ShownRows, Shown, ShownId, Hook

\* WriteRows writes rows.
LEMMA WriteRowsType ==
    ASSUME TripListsTypeOK, NEW m \in Mutations, WriteRows(m)
    PROVE  rows' \subseteq StoredRows
BY RowTypes
DEF WriteRows, InsertItem, UpdateItem, DeleteItem, UpsertPlace, DeletePlace, UpdateTrip, Without,
    TripListsTypeOK

\* The list onMutate makes.
LEMMA OptimisticType ==
    ASSUME TripListsTypeOK, NEW m \in Mutations, Hook(m) # "trip",
           data # NoData \/ Hook(m) \in {"create", "save"}
    PROVE  Optimistic(m) \subseteq ShownRows
<1>1. Listed \subseteq ShownRows
  BY DEF Listed, TripListsTypeOK
<1>2. data # NoData => data \subseteq ShownRows
  BY DEF TripListsTypeOK
<1>3. CASE Hook(m) = "create"
  BY <1>1, <1>3, RowTypes DEF Optimistic
<1>4. CASE Hook(m) = "save"
  BY <1>1, <1>4, RowTypes DEF Optimistic, Without
<1>5. CASE Hook(m) = "edit"
  <2>1. Optimistic(m) = {IF e.id = ShownId(m) THEN Shown(m) ELSE e : e \in data}
    BY <1>5 DEF Optimistic
  <2>2. QED
    BY <1>2, <1>5, <2>1, RowTypes
<1>6. CASE Hook(m) \in {"delete", "remove"}
  <2>1. Optimistic(m) = Without(data, ShownId(m))
    BY <1>6 DEF Optimistic
  <2>2. QED
    BY <1>2, <1>6, <2>1 DEF Without
<1>7. QED
  BY <1>3, <1>4, <1>5, <1>6, CallType DEF ItineraryHooks, PlaceHooks

\* The list onSuccess makes.
LEMMA ReplacedType ==
    ASSUME TripListsTypeOK, NEW m \in Mutations
    PROVE  {IF e.id = ShownId(m) THEN Stored(m) ELSE e : e \in Listed} \subseteq ShownRows
<1>1. Listed \subseteq ShownRows
  BY DEF Listed, TripListsTypeOK
<1>2. Stored(m) \in ShownRows
  BY RowTypes
<1>3. QED
  BY <1>1, <1>2

\* A list is kept for a rollback, and dropped with it.
LEMMA PreviousType ==
    ASSUME TripListsTypeOK, NEW m \in Mutations, NEW list,
           list = NoData \/ list \subseteq ShownRows,
           previous' = [previous EXCEPT ![m] = list], UNCHANGED call
    PROVE  previous' \in [Mutations -> {NoData} \cup SUBSET ShownRows']
<1>1. ShownRows' = ShownRows
  BY SameRows
<1>2. QED
  BY <1>1 DEF TripListsTypeOK

\* The types of the cached list, and those of everything else.
CacheOK ==
    /\ data = NoData \/ data \subseteq ShownRows
    /\ invalid \in BOOLEAN
    /\ revert \in [data : {NoData} \cup SUBSET ShownRows, invalid : BOOLEAN]
    /\ page = NoData \/ page \subseteq StoredRows

RestOK ==
    /\ call \in [Mutations -> ItineraryCalls] \cup [Mutations -> PlaceCalls]
    /\ pc \in [Mutations -> Points]
    /\ previous \in [Mutations -> {NoData} \cup SUBSET ShownRows]
    /\ rows \subseteq StoredRows
    /\ late \subseteq Mutations
    /\ fetch \in {"none", "sent", "read"}
    /\ fetched \subseteq StoredRows
    /\ marks \subseteq {"disturbed", "unrefreshed"}

LEMMA Parts == TripListsTypeOK <=> CacheOK /\ RestOK
BY DEF TripListsTypeOK, CacheOK, RestOK

LEMMA KeptType ==
    ASSUME CacheOK, UNCHANGED <<call, cacheVars>>
    PROVE  CacheOK'
BY SameRows DEF CacheOK, cacheVars

LEMMA SetType ==
    ASSUME NEW list, list = NoData \/ list \subseteq ShownRows, SetQueryData(list), UNCHANGED call
    PROVE  CacheOK'
<1>1. list \in {NoData} \cup SUBSET ShownRows
  OBVIOUS
<1>2. QED
  BY <1>1, SameRows DEF CacheOK, SetQueryData

LEMMA InvalidateType ==
    ASSUME CacheOK, InvalidateQueries, UNCHANGED call
    PROVE  CacheOK'
<1>1. data \in {NoData} \cup SUBSET ShownRows
  BY DEF CacheOK
<1>2. \/ revert' = [data |-> data, invalid |-> TRUE]
      \/ revert' = [revert EXCEPT !.invalid = TRUE]
      \/ revert' = revert
  BY DEF InvalidateQueries, Refetch
<1>3. revert' \in [data : {NoData} \cup SUBSET ShownRows, invalid : BOOLEAN]
  <2>1. revert \in [data : {NoData} \cup SUBSET ShownRows, invalid : BOOLEAN]
    BY DEF CacheOK
  <2>2. CASE revert' = [data |-> data, invalid |-> TRUE]
    BY <1>1, <2>2
  <2>3. CASE revert' = [revert EXCEPT !.invalid = TRUE]
    BY <2>1, <2>3
  <2>4. QED
    BY <1>2, <2>1, <2>2, <2>3
<1>4. QED
  BY <1>3, SameRows DEF CacheOK, InvalidateQueries

LEMMA WriteMarks ==
    ASSUME NEW m \in Mutations, WriteRows(m), marks \subseteq {"disturbed", "unrefreshed"}
    PROVE  marks' \subseteq {"disturbed", "unrefreshed"}
BY DEF WriteRows

\* Steps of a mutation keep the types.
LEMMA MutationKeepsType ==
    ASSUME TripListsTypeOK, NEW m \in Mutations,
           Begin(m) \/ Mutate(m) \/ Answer(m) \/ React(m) \/ ServeLate(m)
    PROVE  TripListsTypeOK'
<1> SUFFICES CacheOK' /\ RestOK'
  BY DEF TripListsTypeOK, CacheOK, RestOK
<1>1. CacheOK /\ RestOK
  BY Parts
<1>2. CASE Begin(m)
  <2>1. CacheOK'
    BY <1>1, <1>2, SameRows DEF Begin, CancelQueries, CacheOK
  <2>2. RestOK'
    BY <1>1, <1>2, SameRows DEF Begin, CancelQueries, RestOK, Goto, Points
  <2>3. QED
    BY <2>1, <2>2
<1>3. CASE Mutate(m) /\ UNCHANGED <<previous, cacheVars>>
  <2>1. CacheOK'
    BY <1>1, <1>3, KeptType DEF Mutate
  <2>2. RestOK'
    BY <1>1, <1>3, SameRows DEF Mutate, RestOK, Goto, Points, fetchVars
  <2>3. QED
    BY <2>1, <2>2
<1>4. CASE Mutate(m) /\ ~UNCHANGED <<previous, cacheVars>>
  <2>1. /\ Hook(m) # "trip"
        /\ data # NoData \/ Hook(m) \in {"create", "save"}
        /\ previous' = [previous EXCEPT ![m] = data]
        /\ SetQueryData(Optimistic(m))
        /\ UNCHANGED <<call, rows, late, fetch, fetched, marks>>
        /\ pc' = [pc EXCEPT ![m] = "sent"]
    BY <1>4 DEF Mutate, fetchVars, Goto
  <2>2. CacheOK'
    BY <2>1, OptimisticType, SetType
  <2>3. previous' \in [Mutations -> {NoData} \cup SUBSET ShownRows']
    BY <2>1, PreviousType DEF TripListsTypeOK
  <2>4. RestOK'
    BY <1>1, <2>1, <2>3 DEF RestOK, Points
  <2>5. QED
    BY <2>2, <2>4
<1>5. CASE Serve(m) \/ ServeLate(m)
  <2>1. WriteRows(m) /\ UNCHANGED <<call, previous, cacheVars, fetchVars>>
    BY <1>5 DEF Serve, ServeLate
  <2>2. CacheOK'
    BY <1>1, <2>1, KeptType
  <2>3. rows' \subseteq StoredRows /\ marks' \subseteq {"disturbed", "unrefreshed"}
    BY <1>1, <2>1, WriteRowsType, WriteMarks DEF RestOK
  <2>4. pc' \in [Mutations -> Points] /\ late' \subseteq Mutations
    BY <1>1, <1>5 DEF Serve, ServeLate, RestOK, Goto, Points
  <2>5. RestOK'
    BY <1>1, <2>1, <2>3, <2>4, SameRows DEF RestOK, fetchVars
  <2>6. QED
    BY <2>2, <2>5
<1>6. CASE Refuse(m) \/ LoseSight(m) \/ TripUpdateFails(m)
  <2>1. CacheOK'
    BY <1>1, <1>6, KeptType DEF Refuse, LoseSight, TripUpdateFails
  <2>2. RestOK'
    BY <1>1, <1>6, SameRows DEF Refuse, LoseSight, TripUpdateFails, RestOK, Goto, Points, fetchVars
  <2>3. QED
    BY <2>1, <2>2
<1>7. CASE OnSuccess(m) \/ OnError(m)
  <2>1. /\ previous' = [previous EXCEPT ![m] = NoData]
        /\ UNCHANGED <<call, rows, late, fetch, fetched, marks>>
        /\ pc' = [pc EXCEPT ![m] = "settling"]
    BY <1>7 DEF OnSuccess, OnError, fetchVars, Goto
  <2>2. CacheOK'
    <3>1. CASE UNCHANGED cacheVars
      BY <1>1, <2>1, <3>1, KeptType
    <3>2. CASE OnSuccess(m) /\ ~UNCHANGED cacheVars
      BY <2>1, <3>2, ReplacedType, SetType DEF OnSuccess
    <3>3. CASE OnError(m) /\ ~UNCHANGED cacheVars
      <4>1. previous[m] = NoData \/ previous[m] \subseteq ShownRows
        BY <1>1 DEF RestOK
      <4>2. QED
        BY <2>1, <3>3, <4>1, SetType DEF OnError
    <3>4. QED
      BY <1>7, <3>1, <3>2, <3>3
  <2>3. previous' \in [Mutations -> {NoData} \cup SUBSET ShownRows']
    BY <2>1, PreviousType
  <2>4. RestOK'
    BY <1>1, <2>1, <2>3 DEF RestOK, Points
  <2>5. QED
    BY <2>2, <2>4
<1>8. CASE Settle(m) \/ TripUpdated(m)
  <2>1. CacheOK'
    BY <1>1, <1>8, InvalidateType DEF Settle, TripUpdated
  <2>2. RestOK'
    BY <1>1, <1>8, SameRows
    DEF Settle, TripUpdated, InvalidateQueries, Refetch, RestOK, Goto, Points, fetchVars
  <2>3. QED
    BY <2>1, <2>2
<1>9. QED
  BY <1>2, <1>3, <1>4, <1>5, <1>6, <1>7, <1>8 DEF Answer, React

\* Steps of the cache keep the types.
LEMMA CacheKeepsType ==
    ASSUME TripListsTypeOK, StartFetch \/ ReadRows \/ EndFetch \/ RenderPage \/ Hydrate
    PROVE  TripListsTypeOK'
<1>1. UNCHANGED call /\ ShownRows' = ShownRows
  BY SameRows DEF StartFetch, ReadRows, EndFetch, FetchDone, FetchFails, RenderPage, Hydrate
<1>2. StoredRows \subseteq ShownRows
  BY DEF ShownRows
<1> USE DEF TripListsTypeOK
<1>3. CASE StartFetch
  BY <1>1, <1>3 DEF StartFetch, cacheVars
<1>4. CASE ReadRows
  BY <1>1, <1>4 DEF ReadRows, cacheVars
<1>5. CASE FetchDone
  BY <1>1, <1>2, <1>5 DEF FetchDone, SetQueryData
<1>6. CASE FetchFails
  <2>1. invalid' \in BOOLEAN
    BY <1>6 DEF FetchFails
  <2>2. revert' \in [data : {NoData} \cup SUBSET ShownRows, invalid : BOOLEAN]
    BY <1>6, <2>1 DEF FetchFails
  <2>3. QED
    BY <1>1, <1>6, <2>1, <2>2 DEF FetchFails
<1>7. CASE RenderPage
  BY <1>1, <1>7 DEF RenderPage, fetchVars
<1>8. CASE Hydrate
  BY <1>1, <1>2, <1>8 DEF Hydrate, fetchVars
<1>9. QED
  BY <1>3, <1>4, <1>5, <1>6, <1>7, <1>8 DEF EndFetch

\* Every variable keeps its type: only new entries have made-up ids, and nothing
\* but rows of the server is fetched.
THEOREM TripListsTypeCorrect == Spec => []TripListsTypeOK
<1>1. Init => TripListsTypeOK
  <2> SUFFICES ASSUME Init PROVE TripListsTypeOK
    OBVIOUS
  <2>1. PICK known \in SUBSET Items : rows = [id : known, by : {Nobody}]
    BY DEF Init
  <2>2. rows \subseteq StoredRows
    BY <2>1 DEF StoredRows, StoredIds
  <2>3. CacheOK
    BY <2>2 DEF Init, CacheOK, ShownRows
  <2>4. RestOK
    BY <2>2, TripListsConstants DEF Init, RestOK, Points
  <2>5. QED
    BY <2>3, <2>4, Parts
<1>2. TripListsTypeOK /\ [Next]_vars => TripListsTypeOK'
  <2>1. CASE UNCHANGED vars
    BY <2>1, SameRows DEF vars, cacheVars, fetchVars, TripListsTypeOK
  <2>2. QED
    BY <2>1, MutationKeepsType, CacheKeepsType DEF Next
<1>3. QED
  BY <1>1, <1>2, PTL DEF Spec

\* With nothing under way, a list that is not flagged is what the server has:
\* every hook that changes the list ends by flagging it and by dropping the
\* fetch that may have read too early.
THEOREM UnflaggedIsTrue == Spec => []FreshIsTrue
<1>1. Init => FreshInv
  BY DEF Init, FreshInv
<1>2. TripListsTypeOK /\ FreshInv /\ [Next]_vars => FreshInv'
  <2> SUFFICES ASSUME TripListsTypeOK, FreshInv, [Next]_vars PROVE FreshInv'
    OBVIOUS
  <2>1. PcOK
    BY DEF TripListsTypeOK, PcOK
  <2>2. CASE UNCHANGED vars
    BY <2>2 DEF vars, cacheVars, fetchVars, FreshInv, Dirty, Hook, Undisturbed
  <2>3. QED
    BY <2>1, <2>2, MutationKeepsFresh, CacheKeepsFresh DEF Next
<1>3. FreshInv => FreshIsTrue
  BY DEF FreshInv, FreshIsTrue, Quiet, Dirty, Undisturbed
<1>4. QED
  BY <1>1, <1>2, <1>3, TripListsTypeCorrect, PTL DEF Spec

-----------------------------------------------------------------------------
(* One form of a new item *)

\* The mutations whose Server Action may have been called.
Called == {m \in Mutations : pc[m] \notin {"idle", "cancelled"}}

\* A list with the row of a mutation in called only, and without its draft.
OneForm(list, called) ==
    \A m \in Mutations : Has(list, Row(m)) => m \in called /\ ~Has(list, Draft(m))

NoDrafts(list) == \A m \in Mutations : ~Has(list, Draft(m))

\* All lists there are: the cached one, those kept for a rollback, the rows of
\* the server and what a fetch read of them.
OnceInv ==
    /\ OneForm(Listed, Called)
    /\ OneForm(rows, Called) /\ NoDrafts(rows)
    /\ OneForm(fetched, Called) /\ NoDrafts(fetched)
    /\ page # NoData => OneForm(page, Called)
    /\ revert.data # NoData => OneForm(revert.data, Called)
    /\ \A n \in Mutations : previous[n] # NoData => OneForm(previous[n], Called)
    /\ late \subseteq Called

\* Mutations do not go back.
LEMMA CalledGrows ==
    ASSUME NEW m \in Mutations, PcOK,
           Begin(m) \/ Mutate(m) \/ Answer(m) \/ React(m) \/ ServeLate(m)
    PROVE  /\ Called \subseteq Called'
           /\ Mutate(m) \/ Answer(m) \/ React(m) => m \in Called'
BY DEF PcOK, Called, Begin, Mutate, Answer, Serve, Refuse, LoseSight, React, OnSuccess,
       OnError, Settle, TripUpdated, TripUpdateFails, ServeLate, Goto

LEMMA OneFormStays ==
    ASSUME NEW list, NEW before, NEW after, OneForm(list, before), before \subseteq after
    PROVE  OneForm(list, after)
BY DEF OneForm

\* No made-up id is the id of an item, nor two of them one.
LEMMA MadeUpIds ==
    ASSUME TripListsTypeOK, NEW m \in Mutations, NEW n \in Mutations
    PROVE  /\ StoredId(m) # Draft(n)
           /\ ShownId(m) # Row(n)
           /\ StoredId(m) = Row(n) <=> Hook(m) = "create" /\ m = n
           /\ ShownId(m) = Draft(n) <=> Hook(m) = "create" /\ m = n
<1>1. Row(m) # Draft(n) /\ Prefixed(call[m].item) # Row(n) /\ Prefixed(call[m].item) # Draft(n)
  BY DEF Row, Draft, Prefixed
<1>2. /\ Row(m) = Row(n) <=> m = n
      /\ Draft(m) = Draft(n) <=> m = n
  BY DEF Row, Draft
<1>3. Draft(m) # Row(n)
  BY DEF Row, Draft
<1>4. call[m].item # Row(n) /\ call[m].item # Draft(n)
  BY TripListsConstants, CallType
<1>5. StoredId(m) # Draft(n) /\ (StoredId(m) = Row(n) <=> Hook(m) = "create" /\ m = n)
  BY <1>1, <1>2, <1>4 DEF StoredId
<1>6. ShownId(m) # Row(n) /\ (ShownId(m) = Draft(n) <=> Hook(m) = "create" /\ m = n)
  <2>1. CASE Hook(m) = "create"
    BY <1>2, <1>3, <2>1, CallType DEF ShownId
  <2>2. CASE Hook(m) # "create"
    <3>1. ShownId(m) \in {Prefixed(call[m].item), call[m].item}
      BY <2>2 DEF ShownId
    <3>2. QED
      BY <1>1, <1>4, <2>2, <3>1
  <2>3. QED
    BY <2>1, <2>2
<1>7. QED
  BY <1>5, <1>6

\* What the Server Action leaves has no drafts, and a new row is the caller's.
LEMMA WriteRowsOnce ==
    ASSUME TripListsTypeOK, NEW m \in Mutations, NEW called, WriteRows(m),
           OneForm(rows, called), NoDrafts(rows), m \in called
    PROVE  OneForm(rows', called) /\ NoDrafts(rows')
<1>1. \A e \in rows' : e \in rows \/ e = Stored(m)
  BY DEF WriteRows, InsertItem, UpdateItem, DeleteItem, UpsertPlace, DeletePlace, UpdateTrip, Without
<1>2. NoDrafts(rows')
  BY <1>1, MadeUpIds DEF NoDrafts, Has, Stored
<1>3. \A n \in Mutations : Has(rows', Row(n)) => n \in called
  BY <1>1, MadeUpIds DEF OneForm, Has, Stored
<1>4. QED
  BY <1>2, <1>3 DEF OneForm, NoDrafts

\* The optimistic entry is shown before the row can be.
LEMMA OptimisticOnce ==
    ASSUME TripListsTypeOK, NEW m \in Mutations, Hook(m) # "trip",
           data # NoData \/ Hook(m) \in {"create", "save"},
           OneForm(Listed, Called), m \notin Called
    PROVE  OneForm(Optimistic(m), Called)
<1>1. \A e \in Optimistic(m) :
        \/ e \in Listed
        \/ Hook(m) # "trip" /\ e = Shown(m)
  BY CallType DEF Optimistic, Without, Listed, ItineraryHooks, PlaceHooks
<1>2. ASSUME NEW n \in Mutations, Has(Optimistic(m), Row(n))
      PROVE  n \in Called /\ ~Has(Optimistic(m), Draft(n))
  <2>1. Has(Listed, Row(n))
    BY <1>1, <1>2, MadeUpIds DEF Has, Shown
  <2>2. n \in Called /\ ~Has(Listed, Draft(n)) /\ n # m
    BY <2>1 DEF OneForm
  <2>3. ~Has(Optimistic(m), Draft(n))
    BY <1>1, <2>2, MadeUpIds DEF Has, Shown
  <2>4. QED
    BY <2>2, <2>3
<1>3. QED
  BY <1>2 DEF OneForm

\* The row takes the place of the optimistic entry, which is there no more.
LEMMA ReplacedOnce ==
    ASSUME TripListsTypeOK, NEW m \in Mutations, OneForm(Listed, Called), m \in Called
    PROVE  OneForm({IF e.id = ShownId(m) THEN Stored(m) ELSE e : e \in Listed}, Called)
<1> DEFINE list == {IF e.id = ShownId(m) THEN Stored(m) ELSE e : e \in Listed}
<1>1. \A e \in list : (e \in Listed /\ e.id # ShownId(m)) \/ e = Stored(m)
  OBVIOUS
<1>2. ASSUME NEW n \in Mutations, Has(list, Row(n))
      PROVE  n \in Called /\ ~Has(list, Draft(n))
  <2>1. \A e \in list : e.id = Draft(n) => e \in Listed /\ e.id # ShownId(m)
    BY <1>1, MadeUpIds DEF Stored
  <2>2. CASE Hook(m) = "create" /\ n = m
    BY <2>1, <2>2, MadeUpIds DEF Has
  <2>3. CASE ~(Hook(m) = "create" /\ n = m)
    <3>1. Has(Listed, Row(n))
      BY <1>1, <1>2, <2>3, MadeUpIds DEF Has, Stored
    <3>2. QED
      BY <2>1, <3>1 DEF OneForm, Has
  <2>4. QED
    BY <2>2, <2>3
<1>3. QED
  BY <1>2 DEF OneForm

\* Every step keeps the lists as they should be.
LEMMA MutationKeepsOnce ==
    ASSUME TripListsTypeOK, OnceInv, NEW m \in Mutations,
           Begin(m) \/ Mutate(m) \/ Answer(m) \/ React(m) \/ ServeLate(m)
    PROVE  OnceInv'
<1>1. PcOK
  BY DEF TripListsTypeOK, PcOK
<1>2. Called \subseteq Called'
  BY <1>1, CalledGrows
<1>3. /\ OneForm(Listed, Called')
      /\ OneForm(rows, Called')
      /\ OneForm(fetched, Called') /\ OneForm({}, Called')
      /\ NoDrafts(fetched) /\ NoDrafts({})
      /\ \A n \in Mutations : previous[n] # NoData => OneForm(previous[n], Called')
      /\ late \subseteq Called'
      /\ page # NoData => OneForm(page, Called')
      /\ revert.data # NoData => OneForm(revert.data, Called')
  <2>1. OneForm({}, Called') /\ NoDrafts({})
    BY DEF OneForm, NoDrafts, Has
  <2>2. QED
    BY <1>2, <2>1, OneFormStays DEF OnceInv
<1>4. /\ OneForm(rows', Called') /\ NoDrafts(rows')
      /\ late' \subseteq Called'
  <2>1. CASE Serve(m) \/ ServeLate(m)
    <3>1. m \in Called'
      BY <1>1, <1>2, <2>1, CalledGrows DEF OnceInv, ServeLate, Answer
    <3>2. WriteRows(m) /\ late' \subseteq late
      BY <2>1 DEF Serve, ServeLate
    <3>3. OneForm(rows', Called') /\ NoDrafts(rows')
      <4>1. NoDrafts(rows)
        BY DEF OnceInv
      <4>2. QED
        BY <1>3, <3>1, <3>2, <4>1, WriteRowsOnce
    <3>4. QED
      BY <1>3, <3>2, <3>3
  <2>2. CASE ~(Serve(m) \/ ServeLate(m))
    <3>1. rows' = rows
      BY <2>2 DEF Begin, Mutate, Answer, Refuse, LoseSight, React, OnSuccess, OnError, Settle,
                  TripUpdated, TripUpdateFails
    <3>2. late' = late \/ (late' = late \cup {m} /\ Answer(m))
      BY <2>2 DEF Begin, Mutate, Answer, Refuse, LoseSight, React, OnSuccess, OnError, Settle,
                  TripUpdated, TripUpdateFails
    <3>3. late' \subseteq Called'
      BY <1>1, <1>3, <3>2, CalledGrows
    <3>4. QED
      BY <1>3, <3>1, <3>3 DEF OnceInv
  <2>3. QED
    BY <2>1, <2>2
<1>5. OneForm(fetched', Called') /\ NoDrafts(fetched')
  <2>1. fetched' \in {fetched, {}}
    BY DEF Begin, CancelQueries, Mutate, Answer, Serve, Refuse, LoseSight, React, OnSuccess,
           OnError, Settle, TripUpdated, TripUpdateFails, ServeLate, InvalidateQueries, Refetch,
           fetchVars
  <2>2. QED
    BY <1>3, <2>1
<1>6. \A n \in Mutations : previous'[n] # NoData => OneForm(previous'[n], Called')
  <2>1. \/ previous' = previous
        \/ previous' = [previous EXCEPT ![m] = NoData]
        \/ previous' = [previous EXCEPT ![m] = data]
    BY DEF Begin, Mutate, Answer, Serve, Refuse, LoseSight, React, OnSuccess,
           OnError, Settle, TripUpdated, TripUpdateFails, ServeLate
  <2>2. data # NoData => OneForm(data, Called')
    BY <1>3 DEF Listed
  <2>3. \A n \in Mutations : previous'[n] \in {previous[n], NoData, data}
    BY <2>1 DEF TripListsTypeOK
  <2>4. QED
    BY <1>3, <2>2, <2>3
<1>7. OneForm(Listed', Called')
  <2>1. CASE data' = data
    BY <1>3, <2>1 DEF Listed
  <2>2. CASE Mutate(m) /\ data' # data
    <3>1. /\ Hook(m) # "trip"
          /\ data # NoData \/ Hook(m) \in {"create", "save"}
          /\ data' = Optimistic(m)
          /\ pc[m] = "cancelled"
      BY <2>2 DEF Mutate, SetQueryData, cacheVars, Goto
    <3>2. OneForm(Optimistic(m), Called)
      BY <3>1, OptimisticOnce DEF OnceInv, Called
    <3>3. QED
      BY <1>2, <3>1, <3>2, OneFormStays, <1>3 DEF Listed
  <2>3. CASE OnSuccess(m) /\ data' # data
    <3>1. /\ data' = {IF e.id = ShownId(m) THEN Stored(m) ELSE e : e \in Listed}
          /\ pc[m] = "ok"
      BY <2>3 DEF OnSuccess, SetQueryData, cacheVars, Goto
    <3>2. OneForm(data', Called)
      BY <3>1, ReplacedOnce DEF OnceInv, Called
    <3>3. QED
      BY <1>2, <1>3, <3>2, OneFormStays DEF Listed
  <2>4. CASE OnError(m) /\ data' # data
    <3>1. data' = previous[m] /\ previous[m] # NoData
      BY <2>4 DEF OnError, SetQueryData, cacheVars
    <3>2. QED
      BY <1>3, <3>1 DEF Listed
  <2>5. CASE Begin(m)
    BY <1>3, <2>5 DEF Begin, CancelQueries, Listed
  <2>6. QED
    BY <2>1, <2>2, <2>3, <2>4, <2>5 DEF Answer, Serve, Refuse, LoseSight, React,
       Settle, TripUpdated, TripUpdateFails, ServeLate, InvalidateQueries, cacheVars
<1>8. /\ page' # NoData => OneForm(page', Called')
      /\ revert'.data # NoData => OneForm(revert'.data, Called')
  <2>1. \/ UNCHANGED <<revert, page>>
        \/ \E list : SetQueryData(list)
        \/ InvalidateQueries
    BY DEF Begin, CancelQueries, Mutate, Answer, Serve, Refuse, LoseSight, React, OnSuccess,
           OnError, Settle, TripUpdated, TripUpdateFails, ServeLate, cacheVars
  <2>2. page' \in {page, NoData}
    BY <2>1 DEF SetQueryData, InvalidateQueries
  <2>3. revert'.data \in {revert.data, data'}
    <3>1. CASE InvalidateQueries
      BY <3>1 DEF InvalidateQueries, Refetch, TripListsTypeOK
    <3>2. QED
      BY <2>1, <3>1 DEF SetQueryData
  <2>4. data' # NoData => OneForm(data', Called')
    BY <1>7 DEF Listed
  <2>5. QED
    BY <1>3, <2>2, <2>3, <2>4
<1>9. QED
  BY <1>4, <1>5, <1>6, <1>7, <1>8 DEF OnceInv

LEMMA CacheKeepsOnce ==
    ASSUME OnceInv, StartFetch \/ ReadRows \/ EndFetch \/ RenderPage \/ Hydrate
    PROVE  OnceInv'
<1>1. /\ UNCHANGED <<pc, rows, late, previous>>
      /\ fetched' \in {fetched, rows, {}}
      /\ data' \in {data, fetched} \/ (data' = page /\ page # NoData)
      /\ page' \in {page, rows, NoData}
      /\ revert' = revert \/ revert'.data = data'
  <2>1. CASE StartFetch \/ ReadRows
    BY <2>1 DEF StartFetch, ReadRows, cacheVars
  <2>2. CASE FetchDone
    BY <2>2 DEF FetchDone, SetQueryData
  <2>3. CASE FetchFails
    BY <2>3 DEF FetchFails
  <2>4. CASE RenderPage
    BY <2>4 DEF RenderPage, fetchVars
  <2>5. CASE Hydrate
    BY <2>5 DEF Hydrate, fetchVars
  <2>6. QED
    BY <2>1, <2>2, <2>3, <2>4, <2>5 DEF EndFetch
<1>2. Called' = Called
  BY <1>1 DEF Called
<1>3. OneForm({}, Called) /\ NoDrafts({})
  BY DEF OneForm, NoDrafts, Has
<1>4. OneForm(fetched', Called') /\ NoDrafts(fetched')
  BY <1>1, <1>2, <1>3 DEF OnceInv
<1>5. OneForm(Listed', Called')
  BY <1>1, <1>2, <1>3 DEF OnceInv, Listed
<1>6. page' # NoData => OneForm(page', Called')
  BY <1>1, <1>2 DEF OnceInv
<1>7. revert'.data # NoData => OneForm(revert'.data, Called')
  BY <1>1, <1>2, <1>5 DEF OnceInv, Listed
<1>8. QED
  BY <1>1, <1>2, <1>4, <1>5, <1>6, <1>7 DEF OnceInv

\* A new item is shown in one form only: a list with its row is younger than the
\* answer, and onSuccess replaces every draft in the list it finds.
THEOREM NewItemShownOnce == Spec => []ShownOnce
<1>1. Init => OnceInv
  <2> SUFFICES ASSUME Init PROVE OnceInv
    OBVIOUS
  <2>1. PICK known \in SUBSET Items : rows = [id : known, by : {Nobody}]
    BY DEF Init
  <2>2. \A e \in rows : e.id \in Items
    BY <2>1
  <2>3. \A m \in Mutations : ~Has(rows, Row(m)) /\ ~Has(rows, Draft(m))
    BY <2>2, TripListsConstants DEF Has
  <2>4. OneForm(rows, Called) /\ NoDrafts(rows)
    BY <2>3 DEF OneForm, NoDrafts
  <2>5. OneForm({}, Called) /\ NoDrafts({})
    BY DEF OneForm, NoDrafts, Has
  <2>6. OneForm(Listed, Called)
    BY <2>4, <2>5 DEF Init, Listed
  <2>7. fetched = {} /\ late = {} /\ page = NoData /\ \A m \in Mutations : previous[m] = NoData
    BY DEF Init
  <2>8. revert.data # NoData => OneForm(revert.data, Called)
    BY <2>6 DEF Init, Listed
  <2>9. QED
    BY <2>4, <2>5, <2>6, <2>7, <2>8 DEF OnceInv
<1>2. TripListsTypeOK /\ OnceInv /\ [Next]_vars => OnceInv'
  <2> SUFFICES ASSUME TripListsTypeOK, OnceInv, [Next]_vars PROVE OnceInv'
    OBVIOUS
  <2>1. CASE UNCHANGED vars
    <3>1. UNCHANGED <<pc, previous, rows, late, data, fetched, revert, page>>
      BY <2>1 DEF vars, cacheVars, fetchVars
    <3>2. QED
      BY <3>1 DEF OnceInv, Called, Listed
  <2>2. QED
    BY <2>1, MutationKeepsOnce, CacheKeepsOnce DEF Next
<1>3. OnceInv => ShownOnce
  BY DEF OnceInv, ShownOnce, OneForm, Listed
<1>4. QED
  BY <1>1, <1>2, <1>3, TripListsTypeCorrect, PTL DEF Spec

=============================================================================
