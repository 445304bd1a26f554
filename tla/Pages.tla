------------------------------- MODULE Pages -------------------------------
(***************************************************************************)
(* The pages of a list's rows, newest first: get_cidr_records_paginated of *)
(* src/app/domain/cidr/services.py and get_list_detail of                  *)
(* src/app/domain/web/controllers.py.  A reader comes to the next page     *)
(* with the id of the last row of the one before; between two pages        *)
(* workers commit rows they have inserted, split and deleted.  A worker    *)
(* draws the id of a new row when it inserts it, so rows may appear in     *)
(* another order than that of their ids.                                   *)
(***************************************************************************)
EXTENDS Integers, FiniteSets, Functions

CONSTANTS
    Nets,           \* the networks the list may hold
    Writers,        \* transactions that change the list
    PageSize,       \* limit
    MaxId           \* bound on the ids drawn

ASSUME PageSizeAssumption == PageSize \in Nat \ {0}
ASSUME MaxIdAssumption == MaxId \in Nat

VARIABLES
    rows,           \* the list's rows in table cidr: network -> id
    serial,         \* the id drawn last
    upserted,       \* rows each open transaction has inserted or updated
    deleted,        \* networks whose row it has deleted
    walk,           \* what the reader does
    last_cidr_id,   \* where its next page starts
    shown,          \* the ids it has seen,
    again,          \*   those it has seen on two pages,
    steady          \*   and those that have been there since its first page

writes == <<rows, serial, upserted, deleted>>
reads == <<walk, last_cidr_id, shown, again, steady>>
vars == <<writes, reads>>

Id == 1 .. MaxId
IsRows(r) == DOMAIN r \subseteq Nets /\ r \in [DOMAIN r -> Id]
IdsOf(r) == {r[n] : n \in DOMAIN r}

TypeOK ==
    /\ IsRows(rows)
    /\ serial \in 0 .. MaxId
    /\ DOMAIN upserted = Writers /\ \A v \in Writers : IsRows(upserted[v])
    /\ deleted \in [Writers -> SUBSET Nets]
    /\ walk \in {"closed", "open", "end"}
    /\ last_cidr_id \in 0 .. MaxId
    /\ shown \in SUBSET Id /\ again \in SUBSET Id /\ steady \in SUBSET Id

NoRows == [n \in {} |-> 0]

Init ==
    /\ rows = NoRows
    /\ serial = 0
    /\ upserted = [v \in Writers |-> NoRows]
    /\ deleted = [v \in Writers |-> {}]
    /\ walk = "closed"
    /\ last_cidr_id = 0
    /\ shown = {} /\ again = {} /\ steady = {}

-----------------------------------------------------------------------------
(* The transactions.                                                       *)

\* Row n is locked by another transaction.
LockedFor(v, n) ==
    \E u \in Writers \ {v} : n \in DOMAIN upserted[u] \cup deleted[u]

\* The rows as transaction v sees them.
Seen(v) ==
    [n \in (DOMAIN rows \ deleted[v]) \cup DOMAIN upserted[v] |->
        IF n \in DOMAIN upserted[v] THEN upserted[v][n] ELSE rows[n]]

\* UPSERT_CIDR: a row that is there keeps its id, a new one draws the next.
Upsert(v, n) ==
    /\ ~LockedFor(v, n)
    /\ IF n \in DOMAIN Seen(v)
           THEN /\ upserted' = [upserted EXCEPT ![v] = [m \in DOMAIN @ \cup {n} |-> Seen(v)[m]]]
                /\ UNCHANGED serial
           ELSE /\ serial < MaxId
                /\ serial' = serial + 1
                /\ upserted' = [upserted EXCEPT ![v] =
                       [m \in DOMAIN @ \cup {n} |-> IF m = n THEN serial + 1 ELSE @[m]]]
    /\ UNCHANGED <<rows, deleted, reads>>

\* `delete from cidr where address = $1 and list_id = $2`.
Delete(v, n) ==
    /\ ~LockedFor(v, n)
    /\ n \in DOMAIN Seen(v)
    /\ upserted' = [upserted EXCEPT ![v] = Restrict(@, DOMAIN @ \ {n})]
    /\ deleted' = [deleted EXCEPT ![v] = @ \cup {n}]
    /\ UNCHANGED <<rows, serial, reads>>

\* The transaction ends and the rows are r; the ids it has drawn are not given
\* back when it fails.
Ends(v, r) ==
    /\ rows' = r
    /\ steady' = steady \cap IdsOf(r)
    /\ upserted' = [upserted EXCEPT ![v] = NoRows]
    /\ deleted' = [deleted EXCEPT ![v] = {}]
    /\ UNCHANGED <<serial, walk, last_cidr_id, shown, again>>

Commit(v) == Ends(v, Seen(v))
Rollback(v) == Ends(v, rows)

-----------------------------------------------------------------------------
(* The reader.                                                             *)

\* A mutated form: the oldest rows come first.
IsOldest(page, ids) ==
    /\ \A i \in page, j \in ids \ page : i < j
    /\ Cardinality(page) <= PageSize
    /\ page # ids => Cardinality(page) = PageSize

\* `order by id desc limit`: the page is the PageSize newest of these rows, or
\* all of them.
IsNewest(page, ids) ==
    /\ \A i \in page, j \in ids \ page : j < i
    /\ Cardinality(page) <= PageSize
    /\ page # ids => Cardinality(page) = PageSize

\* A mutated form: the last row comes again.
FromCursor == {i \in IdsOf(rows) : i <= last_cidr_id}

\* `id < $1`.
Before == {i \in IdsOf(rows) : i < last_cidr_id}

\* A page is shown; its last row asks for the next page when it is scrolled to.
\* A page without rows has none, so the reader has come to the end.
Show(page, seen) ==
    /\ shown' = seen \cup page
    /\ IF page = {}
           THEN walk' = "end" /\ UNCHANGED last_cidr_id
           ELSE /\ walk' = "open"
                /\ last_cidr_id' \in page
                /\ \A i \in page : last_cidr_id' <= i

\* get_list_detail without last_cidr_id: the list is opened.  A reader who opens
\* it again before the end is another one.
OpenList ==
    /\ walk # "open"
    /\ \E page \in SUBSET IdsOf(rows) :
           IsNewest(page, IdsOf(rows)) /\ Show(page, {})
    /\ again' = {}
    /\ steady' = IdsOf(rows)
    /\ UNCHANGED writes

NextPage ==
    /\ walk = "open"
    /\ \E page \in SUBSET Before :
           /\ IsNewest(page, Before)
           /\ Show(page, shown)
           /\ again' = again \cup (page \cap shown)
    /\ UNCHANGED <<writes, steady>>

Next ==
    \/ \E v \in Writers, n \in Nets : Upsert(v, n) \/ Delete(v, n)
    \/ \E v \in Writers : Commit(v) \/ Rollback(v)
    \/ OpenList
    \/ NextPage

Spec == Init /\ [][Next]_vars

\* The reader goes on to scroll.
ScrollSpec == Spec /\ WF_vars(NextPage)

-----------------------------------------------------------------------------
\* However the rows change between two pages, no row is shown twice
\* (SELECT_BY_ID_PAGINATED and the cursor get_list_detail gives the page).
NoRowTwice == again = {}

\* A row that is there from the first page on is not skipped by the pages that
\* have come past it, and once the reader has come to the end it has been shown:
\* rows inserted and deleted meanwhile shift no page.
NoRowSkipped ==
    /\ walk = "open" => \A i \in steady : i >= last_cidr_id => i \in shown
    /\ walk = "end" => steady \subseteq shown

\* A reader who goes on comes to the end: rows that workers add meanwhile do not
\* keep the pages coming.
WalkEnds == walk = "open" ~> walk = "end"
=============================================================================
