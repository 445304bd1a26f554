----------------------------- MODULE PagesProofs -----------------------------
(***************************************************************************)
(* Pages show each row that stays exactly once, for any number of networks *)
(* and transactions and any size of the pages.                             *)
(***************************************************************************)
EXTENDS Pages, FiniteSetTheorems, TLAPS

\* Every row shown is at the cursor or before it in the order of the pages, and
\* the rows that have been there all along are there.
PagesInv ==
    /\ TypeOK
    /\ NoRowTwice
    /\ NoRowSkipped
    /\ steady \subseteq IdsOf(rows)
    /\ walk = "open" => \A i \in shown : last_cidr_id <= i

LEMMA IdsTyped == ASSUME TypeOK PROVE IdsOf(rows) \subseteq Id
BY DEF TypeOK, IsRows, IdsOf

\* An empty page means that there is no row left.
LEMMA EmptyPage == ASSUME NEW ids, IsNewest({}, ids) PROVE ids = {}
BY PageSizeAssumption, FS_EmptySet DEF IsNewest

\* A page leaves nothing out above its last row.
LEMMA PageComplete ==
    ASSUME NEW ids \in SUBSET Nat, NEW page \in SUBSET ids, IsNewest(page, ids),
           NEW last \in page, NEW i \in ids, last <= i
    PROVE  i \in page
BY DEF IsNewest

LEMMA InitInv == Init => PagesInv
<1> SUFFICES ASSUME Init PROVE PagesInv
  OBVIOUS
<1>1. IsRows(NoRows)
  BY DEF NoRows, IsRows
<1>2. TypeOK
  BY <1>1, MaxIdAssumption DEF Init, TypeOK
<1> QED
  BY <1>2 DEF Init, PagesInv, NoRowTwice, NoRowSkipped

-----------------------------------------------------------------------------
(* The transactions.                                                       *)

\* What an open transaction writes is not seen.
LEMMA OpenTransaction ==
    ASSUME PagesInv, UNCHANGED <<rows, reads>>, TypeOK' PROVE PagesInv'
BY DEF PagesInv, reads, NoRowTwice, NoRowSkipped, IdsOf

LEMMA SeenRows ==
    ASSUME TypeOK, NEW v \in Writers
    PROVE  /\ IsRows(Seen(v))
           /\ DOMAIN upserted[v] \subseteq DOMAIN Seen(v)
           /\ \A n \in DOMAIN upserted[v] : Seen(v)[n] = upserted[v][n]
BY DEF TypeOK, IsRows, Seen

LEMMA UpsertInv ==
    ASSUME PagesInv, NEW v \in Writers, NEW n \in Nets, Upsert(v, n) PROVE PagesInv'
<1> USE DEF PagesInv
<1>1. CASE n \in DOMAIN Seen(v)
  <2> DEFINE new == [m \in DOMAIN upserted[v] \cup {n} |-> Seen(v)[m]]
  <2>1. upserted' = [upserted EXCEPT ![v] = new] /\ UNCHANGED serial
    BY <1>1 DEF Upsert
  <2>2. IsRows(new)
    BY <1>1, SeenRows DEF TypeOK, IsRows
  <2>3. UNCHANGED <<rows, deleted, reads>>
    BY DEF Upsert
  <2>4. TypeOK'
    BY <2>1, <2>2, <2>3 DEF TypeOK, reads
  <2> QED
    BY <2>3, <2>4, OpenTransaction
<1>2. CASE n \notin DOMAIN Seen(v)
  <2> DEFINE new == [m \in DOMAIN upserted[v] \cup {n} |->
                         IF m = n THEN serial + 1 ELSE upserted[v][m]]
  <2>1. /\ upserted' = [upserted EXCEPT ![v] = new]
        /\ serial < MaxId /\ serial' = serial + 1
    BY <1>2 DEF Upsert
  <2>2. serial + 1 \in Id /\ serial + 1 \in 0 .. MaxId
    BY <2>1, MaxIdAssumption DEF TypeOK, Id
  <2>3. IsRows(new)
    BY <2>2 DEF TypeOK, IsRows
  <2>4. UNCHANGED <<rows, deleted, reads>>
    BY DEF Upsert
  <2>5. TypeOK'
    BY <2>1, <2>2, <2>3, <2>4 DEF TypeOK, reads
  <2> QED
    BY <2>4, <2>5, OpenTransaction
<1> QED
  BY <1>1, <1>2

LEMMA DeleteInv ==
    ASSUME PagesInv, NEW v \in Writers, NEW n \in Nets, Delete(v, n) PROVE PagesInv'
<1> DEFINE new == Restrict(upserted[v], DOMAIN upserted[v] \ {n})
<1>1. /\ upserted' = [upserted EXCEPT ![v] = new]
      /\ deleted' = [deleted EXCEPT ![v] = @ \cup {n}]
      /\ UNCHANGED <<rows, serial, reads>>
  BY DEF Delete
<1>2. IsRows(new)
  BY DEF PagesInv, TypeOK, IsRows, Restrict
<1>3. TypeOK'
  BY <1>1, <1>2 DEF PagesInv, TypeOK, reads
<1> QED
  BY <1>1, <1>3, OpenTransaction

\* A row that stays all along is one of those that stay in this step.
LEMMA EndsInv ==
    ASSUME PagesInv, NEW v \in Writers, NEW r, IsRows(r), Ends(v, r) PROVE PagesInv'
<1>1. IsRows(NoRows)
  BY DEF NoRows, IsRows
<1>2. TypeOK'
  BY <1>1 DEF PagesInv, TypeOK, Ends
<1>3. steady' \subseteq steady /\ (steady \subseteq IdsOf(rows))'
  BY DEF Ends, IdsOf
<1> QED
  BY <1>2, <1>3 DEF PagesInv, Ends, NoRowTwice, NoRowSkipped

-----------------------------------------------------------------------------
(* The reader.                                                             *)

LEMMA ShowTyped ==
    ASSUME TypeOK, NEW page \in SUBSET Id, NEW seen \in SUBSET Id, Show(page, seen)
    PROVE  /\ walk' \in {"open", "end"}
           /\ last_cidr_id' \in 0 .. MaxId
           /\ shown' \in SUBSET Id
<1>1. shown' \in SUBSET Id
  BY DEF Show
<1>2. CASE page = {}
  <2>1. walk' = "end" /\ last_cidr_id' = last_cidr_id
    BY <1>2 DEF Show
  <2> QED
    BY <1>1, <2>1 DEF TypeOK
<1>3. CASE page # {}
  <2>1. walk' = "open" /\ last_cidr_id' \in page
    BY <1>3 DEF Show
  <2>2. last_cidr_id' \in 0 .. MaxId
    BY <2>1, MaxIdAssumption DEF Id
  <2> QED
    BY <1>1, <2>1, <2>2
<1> QED
  BY <1>2, <1>3

LEMMA OpenListInv == ASSUME PagesInv, OpenList PROVE PagesInv'
<1> DEFINE ids == IdsOf(rows)
<1>1. PICK page \in SUBSET ids : IsNewest(page, ids) /\ Show(page, {})
  BY DEF OpenList
<1>2. /\ again' = {} /\ steady' = ids
      /\ UNCHANGED <<rows, serial, upserted, deleted>>
  BY DEF OpenList, writes
<1>3. ids \subseteq Id /\ ids \subseteq Nat
  BY IdsTyped DEF PagesInv, Id
<1>4. TypeOK'
  BY <1>1, <1>2, <1>3, ShowTyped DEF PagesInv, TypeOK
<1>5. shown' = page /\ (IdsOf(rows))' = ids
  BY <1>1, <1>2 DEF Show, IdsOf
<1>6. CASE page = {}
  <2>1. ids = {} /\ walk' = "end"
    BY <1>1, <1>6, EmptyPage DEF Show
  <2> QED
    BY <2>1, <1>2, <1>4, <1>5 DEF PagesInv, NoRowTwice, NoRowSkipped
<1>7. CASE page # {}
  <2>1. /\ walk' = "open" /\ last_cidr_id' \in page
        /\ \A i \in page : last_cidr_id' <= i
    BY <1>1, <1>7 DEF Show
  <2>2. \A i \in steady' : i >= last_cidr_id' => i \in shown'
    BY <1>1, <1>2, <1>3, <1>5, <2>1, PageComplete
  <2> QED
    BY <2>1, <2>2, <1>2, <1>4, <1>5 DEF PagesInv, NoRowTwice, NoRowSkipped
<1> QED
  BY <1>6, <1>7

LEMMA NextPageInv == ASSUME PagesInv, NextPage PROVE PagesInv'
<1>1. PICK page \in SUBSET Before : /\ IsNewest(page, Before)
                                    /\ Show(page, shown)
                                    /\ again' = again \cup (page \cap shown)
  BY DEF NextPage
<1>2. walk = "open" /\ UNCHANGED <<rows, serial, upserted, deleted, steady>>
  BY DEF NextPage, writes
<1>3. IdsOf(rows) \subseteq Id
  BY IdsTyped DEF PagesInv
<1>4. Before \subseteq Id /\ Before \subseteq Nat /\ shown \subseteq Nat
      /\ steady \subseteq Nat /\ last_cidr_id \in Nat
  BY <1>3, MaxIdAssumption DEF PagesInv, TypeOK, Before, Id
<1>5. page \cap shown = {}
  BY <1>1, <1>2, <1>4 DEF PagesInv, Before
<1>6. again' = {}
  BY <1>1, <1>5 DEF PagesInv, NoRowTwice
<1>7. TypeOK'
  BY <1>1, <1>2, <1>4, <1>6, ShowTyped DEF PagesInv, TypeOK
<1>8. shown' = shown \cup page /\ (IdsOf(rows))' = IdsOf(rows)
  BY <1>1, <1>2 DEF Show, IdsOf
<1>9. \A i \in steady : i \in shown \/ i \in Before
  BY <1>2, <1>4 DEF PagesInv, NoRowSkipped, Before
<1>10. CASE page = {}
  <2>1. Before = {} /\ walk' = "end"
    BY <1>1, <1>10, EmptyPage DEF Show
  <2> QED
    BY <2>1, <1>2, <1>6, <1>7, <1>8, <1>9 DEF PagesInv, NoRowTwice, NoRowSkipped
<1>11. CASE page # {}
  <2>1. /\ walk' = "open" /\ last_cidr_id' \in page
        /\ \A i \in page : last_cidr_id' <= i
    BY <1>1, <1>11 DEF Show
  <2>2. \A i \in steady' : i >= last_cidr_id' => i \in shown'
    BY <1>1, <1>2, <1>4, <1>8, <1>9, <2>1, PageComplete
  <2>3. last_cidr_id' < last_cidr_id
    BY <2>1 DEF Before
  <2>4. \A i \in shown' : last_cidr_id' <= i
    BY <1>2, <1>4, <1>8, <2>1, <2>3 DEF PagesInv
  <2> QED
    BY <2>1, <2>2, <2>4, <1>2, <1>6, <1>7, <1>8 DEF PagesInv, NoRowTwice, NoRowSkipped
<1> QED
  BY <1>10, <1>11

-----------------------------------------------------------------------------
LEMMA Stutter == ASSUME PagesInv, UNCHANGED vars PROVE PagesInv'
BY DEF PagesInv, TypeOK, vars, writes, reads, NoRowTwice, NoRowSkipped, IdsOf, IsRows

LEMMA Inductive == PagesInv /\ [Next]_vars => PagesInv'
<1> SUFFICES ASSUME PagesInv, [Next]_vars PROVE PagesInv'
  OBVIOUS
<1>1. ASSUME NEW v \in Writers, NEW n \in Nets, Upsert(v, n) PROVE PagesInv'
  BY <1>1, UpsertInv
<1>2. ASSUME NEW v \in Writers, NEW n \in Nets, Delete(v, n) PROVE PagesInv'
  BY <1>2, DeleteInv
<1>3. ASSUME NEW v \in Writers, Commit(v) PROVE PagesInv'
  BY <1>3, SeenRows, EndsInv DEF Commit, PagesInv
<1>4. ASSUME NEW v \in Writers, Rollback(v) PROVE PagesInv'
  BY <1>4, EndsInv DEF Rollback, PagesInv, TypeOK
<1>5. CASE OpenList
  BY <1>5, OpenListInv
<1>6. CASE NextPage
  BY <1>6, NextPageInv
<1>7. CASE UNCHANGED vars
  BY <1>7, Stutter
<1> QED
  BY <1>1, <1>2, <1>3, <1>4, <1>5, <1>6, <1>7 DEF Next

LEMMA Invariance == Spec => []PagesInv
BY InitInv, Inductive, PTL DEF Spec

\* The types of the rows, the transactions and what the reader has seen.
THEOREM PageTypes == Spec => []TypeOK
<1>1. PagesInv => TypeOK
  BY DEF PagesInv
<1> QED
  BY <1>1, Invariance, PTL

\* No row is shown on two pages, whatever is written between them
\* (get_cidr_records_paginated, get_list_detail).
THEOREM RowsShownOnce == Spec => []NoRowTwice
<1>1. PagesInv => NoRowTwice
  BY DEF PagesInv
<1> QED
  BY <1>1, Invariance, PTL

\* A row that stays is on one of the pages, whatever is written between them
\* (get_cidr_records_paginated, get_list_detail).
THEOREM SteadyRowsShown == Spec => []NoRowSkipped
<1>1. PagesInv => NoRowSkipped
  BY DEF PagesInv
<1> QED
  BY <1>1, Invariance, PTL
=============================================================================
