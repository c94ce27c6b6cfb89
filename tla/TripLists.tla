------------------------------ MODULE TripLists ------------------------------
(***************************************************************************)
(* A list of one trip in the browser: the itinerary or the saved places,   *)
(* as the hooks of hooks/use-trips.ts keep it in the query cache.  Each    *)
(* hook changes the cached list before it calls its Server Action, puts    *)
(* the former list back when the call fails, and has the list fetched      *)
(* again when it is settled.  The page of the trip brings the list along,  *)
(* and the Server Actions for places have it rendered anew.                *)
(*                                                                         *)
(* A mutation is one call of a hook.  The hooks do not wait for each       *)
(* other, nor for a fetch.  Of a row the model keeps its id and the        *)
(* mutation that wrote it last; the order of a list is left out.  The      *)
(* query cache is TanStack Query's, modelled from the calls the hooks make *)
(* (cancelQueries, setQueryData, invalidateQueries) and the app's options; *)
(* the clocks of server and browser, which it compares, are taken to agree.*)
(***************************************************************************)
CONSTANTS
    Mutations,
    Calls,       \* what the mutations may be calls of
    Items,       \* ids of the rows there are to begin with, or of places
    Nobody,      \* author of a row that no mutation has written yet
    NoData       \* the query has no data

VARIABLES
    call,        \* [Mutations -> hook, row it is about, spelling of the id]
    pc,          \* [Mutations -> where the mutation is]
    previous,    \* [Mutations -> the list it rolls back to, NoData when done]
    rows,        \* the rows at the server
    late,        \* mutations given up on that the server may still carry out
    data,        \* the cached list
    invalid,     \* isInvalidated: the list is known to be out of date
    fetch,       \* the running fetch: "none", "sent", "read"
    fetched,     \* what it read, empty unless "read"
    revert,      \* data and invalid as they are if the running fetch is cancelled
    page,        \* the list of a page on its way, NoData if older than the cache's
    marks        \* what disturbed the list so far, see Properties

cacheVars == <<data, invalid, revert, page>>
fetchVars == <<fetch, fetched>>
vars == <<call, pc, previous, rows, late, cacheVars, fetchVars, marks>>

-----------------------------------------------------------------------------
(* Hooks, rows and lists *)

\* useUpsertTripItineraryItem without and with an id,
\* useDeleteTripItineraryItem, useUpdateTrip.
ItineraryHooks == {"create", "edit", "delete", "trip"}

\* useSavePlace, useRemoveSavedPlace, useUpdateTrip.
PlaceHooks == {"save", "remove", "trip"}

\* A place id may carry the prefix "places/", which the server strips.
ItineraryCalls == [hook : ItineraryHooks, item : Items, prefixed : {FALSE}]
PlaceCalls ==
    {c \in [hook : PlaceHooks, item : Items, prefixed : BOOLEAN] :
        c.prefixed => c.hook # "trip"}

Hook(m) == call[m].hook

Draft(m)    == <<"draft", m>>     \* createOptimisticNumericId: a negative id
Row(m)      == <<"row", m>>       \* the id the database gives
Prefixed(i) == <<"places/", i>>

\* The id under which the browser shows what m writes.
ShownId(m) ==
    CASE Hook(m) = "create" -> Draft(m)
      [] call[m].prefixed   -> Prefixed(call[m].item)
      [] OTHER              -> call[m].item

\* The id under which the server stores it (normalizePlaceIdForStorage).
StoredId(m) == IF Hook(m) = "create" THEN Row(m) ELSE call[m].item

Shown(m)  == [id |-> ShownId(m), by |-> m]
Stored(m) == [id |-> StoredId(m), by |-> m]

\* All calls are for one of the lists.  The ids of items and places are of
\* another kind than those made up here.
ASSUME TripListsConstants ==
    /\ Calls \subseteq [Mutations -> ItineraryCalls] \cup [Mutations -> PlaceCalls]
    /\ \A i \in Items, m \in Mutations : i # Row(m) /\ i # Draft(m)

Has(list, id) == \E e \in list : e.id = id
Without(list, id) == {e \in list : e.id # id}
Listed == IF data = NoData THEN {} ELSE data

StoredIds == Items \cup {Row(m) : m \in Mutations}
StoredRows == [id : StoredIds, by : Mutations \cup {Nobody}]
ShownRows ==
    StoredRows \cup {Shown(m) : m \in {n \in Mutations : Hook(n) \in {"create", "save"}}}

Points == {"idle", "cancelled", "sent", "ok", "error", "settling", "settled"}

TripListsTypeOK ==
    /\ call \in [Mutations -> ItineraryCalls] \cup [Mutations -> PlaceCalls]
    /\ pc \in [Mutations -> Points]
    /\ previous \in [Mutations -> {NoData} \cup SUBSET ShownRows]
    /\ rows \subseteq StoredRows
    /\ late \subseteq Mutations
    /\ data = NoData \/ data \subseteq ShownRows
    /\ invalid \in BOOLEAN
    /\ fetch \in {"none", "sent", "read"}
    /\ fetched \subseteq StoredRows
    /\ revert \in [data : {NoData} \cup SUBSET ShownRows, invalid : BOOLEAN]
    /\ page = NoData \/ page \subseteq StoredRows
    /\ marks \subseteq {"disturbed", "unrefreshed"}

Init ==
    /\ call \in Calls
    /\ pc = [m \in Mutations |-> "idle"]
    /\ previous = [m \in Mutations |-> NoData]
    /\ \E known \in SUBSET Items : rows = [id : known, by : {Nobody}]
    /\ late = {}
    /\ data \in {NoData, rows}
    /\ invalid = FALSE
    /\ fetch = "none"
    /\ fetched = {}
    /\ revert = [data |-> data, invalid |-> FALSE]
    /\ page = NoData
    /\ marks = {}

-----------------------------------------------------------------------------
(* The query cache *)

\* setQueryData: the list is as good as new, also if a running fetch is cancelled,
\* and newer than any page.
SetQueryData(list) ==
    /\ data' = list
    /\ invalid' = FALSE
    /\ revert' = [data |-> list, invalid |-> FALSE]
    /\ page' = NoData

\* cancelQueries: the answer of a running fetch is dropped, and the query is as
\* it was before the fetch.
CancelQueries ==
    /\ fetch' = "none"
    /\ fetched' = {}
    /\ data' = revert.data
    /\ invalid' = revert.invalid
    /\ UNCHANGED <<revert, page>>

Refetch ==
    /\ fetch' = "sent"
    /\ fetched' = {}
    /\ revert' = [data |-> data, invalid |-> TRUE]

\* invalidateQueries: a list on the screen is fetched anew, in place of a fetch
\* that runs, unless that is the first one.  A list off the screen is flagged.
InvalidateQueries ==
    /\ invalid' = TRUE
    /\ UNCHANGED <<data, page>>
    /\ \/ /\ fetch = "none" \/ data # NoData
          /\ Refetch
          /\ UNCHANGED marks
       \/ /\ fetch = "none"
          /\ revert' = [revert EXCEPT !.invalid = TRUE]
          /\ marks' = marks \cup {"unrefreshed"}
          /\ UNCHANGED fetchVars
       \/ /\ fetch # "none"
          /\ marks' = marks \cup {"disturbed"}
          /\ UNCHANGED <<fetchVars, revert>>

\* The list is mounted, or the browser is online again, and the list is stale.
StartFetch ==
    /\ fetch = "none"
    /\ fetch' = "sent"
    /\ UNCHANGED <<call, pc, previous, rows, late, cacheVars, fetched, marks>>

\* getTripItinerary, listSavedPlaces: the server reads the rows.
ReadRows ==
    /\ fetch = "sent"
    /\ fetch' = "read"
    /\ fetched' = rows
    /\ UNCHANGED <<call, pc, previous, rows, late, cacheVars, marks>>

FetchDone ==
    /\ fetch = "read"
    /\ SetQueryData(fetched)
    /\ fetch' = "none"
    /\ fetched' = {}
    /\ UNCHANGED <<call, pc, previous, rows, late, marks>>

\* The last retry fails.  The version of the library decides about the flag.
FetchFails ==
    /\ fetch # "none"
    /\ fetch' = "none"
    /\ fetched' = {}
    /\ invalid' \in {invalid, TRUE}
    /\ revert' = [data |-> data, invalid |-> invalid']
    /\ marks' = marks \cup {"unrefreshed"}
    /\ UNCHANGED <<call, pc, previous, rows, late, data, page>>

\* revalidatePath, or a visit: the page of the trip is rendered, with the rows.
RenderPage ==
    /\ page' = rows
    /\ UNCHANGED <<call, pc, previous, rows, late, data, invalid, revert, fetchVars, marks>>

\* HydrationBoundary takes over the list of the page.  A running fetch goes on,
\* and if it is cancelled the list is as it was before the page.
Hydrate ==
    /\ page # NoData
    /\ data' = page
    /\ invalid' = FALSE
    /\ revert' = IF fetch = "none" THEN [data |-> page, invalid |-> FALSE] ELSE revert
    /\ page' = NoData
    /\ UNCHANGED <<call, pc, previous, rows, late, fetchVars, marks>>

-----------------------------------------------------------------------------
(* A mutation in the browser *)

Goto(m, from, to) ==
    /\ pc[m] = from
    /\ pc' = [pc EXCEPT ![m] = to]

\* onMutate up to its await: running fetches are cancelled.  The key of the trip
\* is a prefix of the lists' keys, so useUpdateTrip cancels theirs as well.
Begin(m) ==
    /\ Goto(m, "idle", "cancelled")
    /\ CancelQueries
    /\ UNCHANGED <<call, previous, rows, late, marks>>

\* Variant: an edited item is shown under a negative id as well.
DraftAlways(m) ==
    CASE Hook(m) \in {"create", "edit"} -> Listed \cup {[id |-> Draft(m), by |-> m]}
      [] Hook(m) = "save" -> Without(Listed, ShownId(m)) \cup {Shown(m)}
      [] OTHER            -> Without(data, ShownId(m))

\* What onMutate makes of the list.
Optimistic(m) ==
    CASE Hook(m) = "create" -> Listed \cup {Shown(m)}
      [] Hook(m) = "save"   -> Without(Listed, ShownId(m)) \cup {Shown(m)}
      [] Hook(m) = "edit"   -> {IF e.id = ShownId(m) THEN Shown(m) ELSE e : e \in data}
      [] OTHER              -> Without(data, ShownId(m))

\* The rest of onMutate: the list is kept for a rollback and replaced.  There is
\* nothing to edit or delete in a list that is not there; a new entry starts one.
Mutate(m) ==
    /\ Goto(m, "cancelled", "sent")
    /\ \/ /\ Hook(m) # "trip"
          /\ data # NoData \/ Hook(m) \in {"create", "save"}
          /\ previous' = [previous EXCEPT ![m] = data]
          /\ SetQueryData(Optimistic(m))
       \/ /\ Hook(m) = "trip" \/ (data = NoData /\ Hook(m) \notin {"create", "save"})
          /\ UNCHANGED <<previous, cacheVars>>
    /\ UNCHANGED <<call, rows, late, fetchVars, marks>>

\* Variant: the row is added, and the optimistic entry stays.
AddRow(m) ==
    /\ Goto(m, "ok", "settling")
    /\ \/ /\ Hook(m) \in {"create", "edit"}
          /\ SetQueryData(Listed \cup {Stored(m)})
       \/ /\ Hook(m) \in {"save", "delete", "remove"}
          /\ UNCHANGED cacheVars
    /\ previous' = [previous EXCEPT ![m] = NoData]
    /\ UNCHANGED <<call, rows, late, fetchVars, marks>>

\* onSuccess: the row takes the place of the optimistic entry, if that is still
\* there; without a list an empty one is set.
OnSuccess(m) ==
    /\ Goto(m, "ok", "settling")
    /\ \/ /\ Hook(m) \in {"create", "edit"}
          /\ SetQueryData({IF e.id = ShownId(m) THEN Stored(m) ELSE e : e \in Listed})
       \/ /\ Hook(m) \in {"save", "delete", "remove"}
          /\ UNCHANGED cacheVars
    /\ previous' = [previous EXCEPT ![m] = NoData]
    /\ UNCHANGED <<call, rows, late, fetchVars, marks>>

\* Variant: only a success is followed by onSettled, as in useUpdateTrip.
RollBackOnly(m) ==
    /\ Hook(m) # "trip"
    /\ Goto(m, "error", "settled")
    /\ \/ previous[m] # NoData /\ SetQueryData(previous[m])
       \/ previous[m] = NoData /\ UNCHANGED cacheVars
    /\ previous' = [previous EXCEPT ![m] = NoData]
    /\ UNCHANGED <<call, rows, late, fetchVars, marks>>

\* onError: the list is as it was before the mutation, whatever others did since.
OnError(m) ==
    /\ Hook(m) # "trip"
    /\ Goto(m, "error", "settling")
    /\ \/ previous[m] # NoData /\ SetQueryData(previous[m])
       \/ previous[m] = NoData /\ UNCHANGED cacheVars
    /\ previous' = [previous EXCEPT ![m] = NoData]
    /\ UNCHANGED <<call, rows, late, fetchVars, marks>>

\* Variant: the list is only flagged.
FlagOnly(m) ==
    /\ Goto(m, "settling", "settled")
    /\ invalid' = TRUE
    /\ UNCHANGED <<call, previous, rows, late, data, revert, page, fetchVars, marks>>

\* onSettled.
Settle(m) ==
    /\ Goto(m, "settling", "settled")
    /\ InvalidateQueries
    /\ UNCHANGED <<call, previous, rows, late>>

\* useUpdateTrip has the lists fetched only when it succeeds; when it fails, a
\* fetch that it cancelled is not started again.
TripUpdated(m) ==
    /\ Hook(m) = "trip"
    /\ Goto(m, "ok", "settled")
    /\ InvalidateQueries
    /\ UNCHANGED <<call, previous, rows, late>>

TripUpdateFails(m) ==
    /\ Hook(m) = "trip"
    /\ Goto(m, "error", "settled")
    /\ marks' = marks \cup {"unrefreshed"}
    /\ UNCHANGED <<call, previous, rows, late, cacheVars, fetchVars>>

-----------------------------------------------------------------------------
(* The Server Actions *)

Known(m) == Has(rows, StoredId(m))

\* upsertItineraryItem without and with an id, and deleteItineraryItem: to update
\* or to delete a row that is not there is an error.
InsertItem(m) == Hook(m) = "create" /\ rows' = rows \cup {Stored(m)}

UpdateItem(m) ==
    /\ Hook(m) = "edit" /\ Known(m)
    /\ rows' = Without(rows, StoredId(m)) \cup {Stored(m)}

DeleteItem(m) == Hook(m) = "delete" /\ Known(m) /\ rows' = Without(rows, StoredId(m))

\* savePlace, an upsert on (trip, place), and removePlace.
UpsertPlace(m) ==
    /\ Hook(m) = "save"
    /\ rows' = Without(rows, StoredId(m)) \cup {Stored(m)}

DeletePlace(m) == Hook(m) = "remove" /\ Known(m) /\ rows' = Without(rows, StoredId(m))

\* updateTrip: another table.
UpdateTrip(m) == Hook(m) = "trip" /\ UNCHANGED rows

WriteRows(m) ==
    /\ \/ InsertItem(m) \/ UpdateItem(m) \/ DeleteItem(m)
       \/ UpsertPlace(m) \/ DeletePlace(m)
       \/ UpdateTrip(m)
    /\ marks' = marks \cup (IF page \in {NoData, rows'} THEN {} ELSE {"disturbed"})

\* The action writes.  Its answer is an error all the same if the row it wrote
\* fails validation, or if the answer is lost.
Serve(m) ==
    /\ Goto(m, "sent", "ok") \/ Goto(m, "sent", "error")
    /\ WriteRows(m)
    /\ UNCHANGED <<call, previous, late, cacheVars, fetchVars>>

\* Unauthorized, invalid, forbidden, not found, or the call never arrives.
Refuse(m) ==
    /\ Goto(m, "sent", "error")
    /\ UNCHANGED <<call, previous, rows, late, cacheVars, fetchVars, marks>>

\* The connection breaks while the server is at work, and what it still does is
\* done behind the browser's back.
LoseSight(m) ==
    /\ Goto(m, "sent", "error")
    /\ late' = late \cup {m}
    /\ marks' = marks \cup {"disturbed"}
    /\ UNCHANGED <<call, previous, rows, cacheVars, fetchVars>>

ServeLate(m) ==
    /\ m \in late
    /\ late' = late \ {m}
    /\ WriteRows(m)
    /\ UNCHANGED <<call, pc, previous, cacheVars, fetchVars>>

-----------------------------------------------------------------------------
(* The specification *)

Answer(m) == Serve(m) \/ Refuse(m) \/ LoseSight(m)
React(m) == OnSuccess(m) \/ OnError(m) \/ Settle(m) \/ TripUpdated(m) \/ TripUpdateFails(m)
EndFetch == FetchDone \/ FetchFails

Next ==
    \/ \E m \in Mutations :
          Begin(m) \/ Mutate(m) \/ Answer(m) \/ React(m) \/ ServeLate(m)
    \/ StartFetch \/ ReadRows \/ EndFetch
    \/ RenderPage \/ Hydrate

Spec == Init /\ [][Next]_vars

\* The browser goes on with what it began and the server answers; nothing is
\* assumed of users, of pages, nor of what becomes of calls that were given up.
FairSpec ==
    /\ Spec
    /\ \A m \in Mutations : WF_vars(Mutate(m)) /\ WF_vars(Answer(m)) /\ WF_vars(React(m))
    /\ WF_vars(ReadRows) /\ WF_vars(EndFetch)

-----------------------------------------------------------------------------
(* Properties *)

Quiet == \A m \in Mutations : pc[m] \in {"idle", "settled"}

\* What is not known to be out of date is true: with no mutation under way, a
\* list without the flag is what the server has, whatever calls overlapped, were
\* rolled back over one another, failed after they had written, had the fetches
\* of others cancelled, or met the list of a page.  Excepted are calls that the
\* server carries out after the browser gave them up; lists that an invalidation
\* found off the screen, or never fetched, while a fetch was running: that fetch
\* clears the flag; and pages on their way while the server wrote (see
\* hooks/use-trips.ts:564, 633, 705 and 756).
FreshIsTrue ==
    "disturbed" \notin marks /\ Quiet /\ ~invalid /\ data # NoData => data = rows

\* A new item is never shown beside its own optimistic entry, neither by its own
\* onSuccess nor by the rollback or the refetch of another mutation.
ShownOnce ==
    \A m \in Mutations :
        data # NoData /\ Has(data, Draft(m)) => ~Has(data, Row(m))

\* A list that stays on the screen ends up as the server has it, if no fetch
\* fails and none is lost to a trip update that fails.
Converges == <>[](marks # {} \/ data \in {NoData, rows})

=============================================================================
