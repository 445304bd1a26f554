----------------------- MODULE ContentsRefinementProofs -----------------------
(***************************************************************************)
(* One worker that takes the jobs in the order of their ids applies them   *)
(* to the addresses of the lists, one after the other, all or nothing:     *)
(* CidrListings implements ListContents, step by step.                     *)
(***************************************************************************)
EXTENDS ContentsRefinement, CidrBatchProofs

-----------------------------------------------------------------------------
(* The addresses of rows, and the jobs that carry them.                    *)

\* One of the rows holds address a in list l.
HoldsIn(rows, l, a) == \E k \in rows : k[2] = l /\ a \in k[1]

LEMMA ContentsAt ==
    ASSUME NEW rows, NEW l \in ListIds
    PROVE  \A a : a \in ContentsOf(rows)[l] <=> HoldsIn(rows, l, a)
BY DEF ContentsOf, Cover, HoldsIn

LEMMA ContentsType ==
    ASSUME NEW rows \in SUBSET Key
    PROVE  ContentsOf(rows) \in [ListIds -> SUBSET Addr]
<1>1. \A l \in ListIds : {k[1] : k \in {k \in rows : k[2] = l}} \in SUBSET Nets
  BY DEF Key
<1> QED
  BY <1>1, NetworksType DEF ContentsOf

LEMMA SameContents ==
    ASSUME NEW r, NEW s, \A l \in ListIds : \A a : HoldsIn(r, l, a) <=> HoldsIn(s, l, a)
    PROVE  ContentsOf(r) = ContentsOf(s)
<1>1. \A l \in ListIds : Cover({k[1] : k \in {k \in r : k[2] = l}})
                       = Cover({k[1] : k \in {k \in s : k[2] = l}})
  BY DEF Cover, HoldsIn
<1> QED
  BY <1>1 DEF ContentsOf

\* Contents with the same addresses in each list are the same.
LEMMA ContentsEqual ==
    ASSUME NEW rows, NEW f, f = [l \in ListIds |-> f[l]],
           \A l \in ListIds : \A a : a \in f[l] <=> HoldsIn(rows, l, a)
    PROVE  f = ContentsOf(rows)
<1>1. \A l \in ListIds : f[l] = ContentsOf(rows)[l]
  BY ContentsAt
<1> QED
  BY <1>1 DEF ContentsOf

LEMMA AddressesAreContents ==
    ASSUME NEW rows, NEW L \in SUBSET ListIds
    PROVE  AddressesOf(rows, L) = UNION {ContentsOf(DOMAIN rows)[l] : l \in L}
<1>1. \A a : a \in AddressesOf(rows, L) <=> \E l \in L : HoldsIn(DOMAIN rows, l, a)
  BY DEF AddressesOf, RowsOf, Cover, HoldsIn
<1>2. \A a : a \in UNION {ContentsOf(DOMAIN rows)[l] : l \in L}
                <=> \E l \in L : HoldsIn(DOMAIN rows, l, a)
  BY ContentsAt
<1> QED
  BY <1>1, <1>2

\* The job of an id is one, so leaving some out leaves out what they carry.
LEMMA JobsWithout ==
    ASSUME NEW A, NEW B, \A j, k \in A \cup B : j.id = k.id => j = k
    PROVE  JobsOf(A \ B) = JobsOf(A) \ JobsOf(B)
<1>1. \A j, k \in A \cup B : CarriedBy(j) = CarriedBy(k) => j = k
  <2>1. \A j : CarriedBy(j).id = j.id
    BY DEF CarriedBy
  <2> QED
    BY <2>1
<1> QED
  BY <1>1 DEF JobsOf

LEMMA JobsOfOne ==
    /\ JobsOf({}) = {}
    /\ \A j : JobsOf({j}) = {CarriedBy(j)}
    /\ \A A, B : JobsOf(A \cup B) = JobsOf(A) \cup JobsOf(B)
BY DEF JobsOf

\* The rows of networks in list m.
RowsFor(nets, m) == {<<n, m>> : n \in nets}

LEMMA RowsForAt ==
    \A nets, m, l, a : HoldsIn(RowsFor(nets, m), l, a) <=> (l = m /\ a \in Cover(nets))
<1> SUFFICES ASSUME NEW nets, NEW m, NEW l, NEW a
             PROVE  HoldsIn(RowsFor(nets, m), l, a) <=> (l = m /\ a \in Cover(nets))
  OBVIOUS
<1>1. \A k \in RowsFor(nets, m) : k[1] \in nets /\ k[2] = m
  BY DEF RowsFor
<1>2. ASSUME NEW n \in nets PROVE \E k \in RowsFor(nets, m) : k[1] = n
  <2>1. <<n, m>> \in RowsFor(nets, m) /\ <<n, m>>[1] = n
    BY DEF RowsFor
  <2> QED
    BY <2>1
<1> QED
  BY <1>1, <1>2 DEF HoldsIn, Cover

-----------------------------------------------------------------------------
(* The rows there will be when the writes in progress are done.            *)

LEMMA RowsAreKeys ==
    ASSUME TypeInv, NEW w \in Workers
    PROVE  /\ DOMAIN cidr \subseteq Key
           /\ OwnRows(w) \subseteq Key
           /\ PlannedRows(w) \subseteq Key
<1>1. /\ DOMAIN cidr \subseteq Key /\ DOMAIN written[w] \subseteq Key
      /\ \A row \in new_subnets[w] : row[1] \in Key
  BY DEF TypeInv, TypeOK, DatabaseTypeOK, WorkerTypeOK, IsTable
<1>2. stage[w] = "write" => \A n \in adding[w] : <<n, job[w].list>> \in Key
  BY DEF TypeInv, TypeOK, WorkerTypeOK, HasJob, Key, Job
<1> QED
  BY <1>1, <1>2 DEF OwnRows, PlannedRows

\* A committed row a worker has replaced, or is about to, has nothing left that
\* is not in rows of its own: when another request takes the row away, the
\* worker's draft loses nothing.
Settled ==
    \A w \in Workers : \A k \in DOMAIN cidr \cap ReplacedRows(w) : \A a \in k[1] :
        HoldsIn(PlannedRows(w), k[2], a) => HoldsIn(OwnRows(w), k[2], a)

LEMMA InitSettled == Init => Settled
BY DEF Init, WorkerInit, Settled, ReplacedRows

\* More own rows, and fewer replaced or committed ones, keep it so.
LEMMA StaysSettled ==
    ASSUME NEW w \in Workers, Workers = {w}, Settled,
           DOMAIN cidr' \cap ReplacedRows(w)' \subseteq DOMAIN cidr \cap ReplacedRows(w),
           OwnRows(w) \subseteq OwnRows(w)',
           PlannedRows(w)' \subseteq PlannedRows(w) \cup OwnRows(w)'
    PROVE  Settled'
BY DEF Settled, HoldsIn

\* What the worker reads when it has no writes in progress.
LEMMA ViewIsPlanned ==
    ASSUME TypeInv, BatchInv, NEW w \in Workers, stage[w] # "write"
    PROVE  /\ DOMAIN View(w) = PlannedRows(w)
           /\ OwnRows(w) = DOMAIN written[w] /\ ReplacedRows(w) = removed[w]
<1>1. to_delete[w] = {} /\ new_subnets[w] = {}
  BY DEF BatchInv, WorkerShape, ShapeOf
<1>2. OwnRows(w) = DOMAIN written[w] /\ ReplacedRows(w) = removed[w]
  BY <1>1 DEF OwnRows, ReplacedRows
<1> QED
  BY <1>2, ViewTable DEF PlannedRows, TypeInv, TypeOK

\* The rows left of those of some lists hold their addresses but the excluded
\* ones, and are the worker's own; no other list changes.
LEMMA ExcludedRows ==
    ASSUME TypeInv, TypeInv', BatchInv, NEW w \in Workers, NEW L \in SUBSET ListIds,
           stage[w] \in {"clean", "trim"}, DeleteExcluded(w, L),
           NEW X, X = RowsFor(adding[w], job[w].list),
           NEW l \in ListIds, NEW a
    PROVE  /\ HoldsIn(OwnRows(w)', l, a) <=>
                  \/ HoldsIn(X, l, a)
                  \/ l \in L /\ HoldsIn(PlannedRows(w), l, a) /\ a \notin exclusion[w]
                  \/ l \notin L /\ HoldsIn(OwnRows(w), l, a)
           /\ HoldsIn(PlannedRows(w)', l, a) <=>
                  \/ HoldsIn(X, l, a)
                  \/ l \in L /\ HoldsIn(PlannedRows(w), l, a) /\ a \notin exclusion[w]
                  \/ l \notin L /\ HoldsIn(PlannedRows(w), l, a)
           /\ \A k \in DOMAIN cidr \cap ReplacedRows(w)' :
                  \/ k \in ReplacedRows(w)
                  \/ k[2] \in L
<1> DEFINE Rows == RowsOf(View(w), L)
           Left(k) == AddressExcludeMany(k[1], exclusion[w])
           Gone == {k \in Rows : Left(k) # {k[1]}}
           LeftRows == UNION {{<<n, k[2]>> : n \in Left(k)} : k \in Rows}
<1>1. /\ to_delete'[w] = Gone
      /\ new_subnets'[w] = UNION {RowsLeft(w, View(w), k) : k \in Rows}
      /\ stage'[w] = "write"
      /\ UNCHANGED <<cidr, removed, written, job, adding>>
  BY DEF DeleteExcluded, Goto, tables, transactions, TypeInv, TypeOK, WorkerTypeOK
<1>2. {row[1] : row \in new_subnets'[w]} = LeftRows
  <2>1. \A k \in Rows : {row[1] : row \in RowsLeft(w, View(w), k)} = {<<n, k[2]>> : n \in Left(k)}
    <3> SUFFICES ASSUME NEW k \in Rows
                 PROVE  {row[1] : row \in RowsLeft(w, View(w), k)}
                            = {<<n, k[2]>> : n \in Left(k)}
      OBVIOUS
    <3> DEFINE e == View(w)[k]
               key(n) == <<n, k[2]>>
    <3>1. RowsLeft(w, View(w), k) = {<<key(n), e>> : n \in Left(k)}
      BY DEF RowsLeft
    <3>2. \A n : <<key(n), e>>[1] = key(n)
      OBVIOUS
    <3> HIDE DEF e, key, Left
    <3>3. ASSUME NEW row \in RowsLeft(w, View(w), k)
          PROVE  row[1] \in {key(n) : n \in Left(k)}
      BY <3>1, <3>2
    <3>4. ASSUME NEW n \in Left(k)
          PROVE  \E row \in RowsLeft(w, View(w), k) : row[1] = key(n)
      BY <3>1, <3>2
    <3>5. {row[1] : row \in RowsLeft(w, View(w), k)} = {key(n) : n \in Left(k)}
      BY <3>3, <3>4
    <3> QED
      BY <3>5 DEF key
  <2> QED
    BY <1>1, <2>1
<1>3. /\ DOMAIN View(w) = PlannedRows(w) /\ PlannedRows(w) \subseteq Key
      /\ OwnRows(w) = DOMAIN written[w] /\ ReplacedRows(w) = removed[w]
  BY ViewIsPlanned, RowsAreKeys
<1>4. /\ OwnRows(w)' = (OwnRows(w) \ Gone) \cup LeftRows \cup X
      /\ ReplacedRows(w)' = ReplacedRows(w) \cup Gone
      /\ PlannedRows(w)' = (DOMAIN cidr \ (ReplacedRows(w) \cup Gone)) \cup OwnRows(w)'
  BY <1>1, <1>2, <1>3 DEF OwnRows, ReplacedRows, PlannedRows, RowsFor
<1>5. Rows = {k \in PlannedRows(w) : k[2] \in L}
  BY <1>3 DEF RowsOf
<1>6. \A k \in Rows : /\ UNION Left(k) = k[1] \ exclusion[w]
                      /\ Left(k) = {k[1]} <=> k[1] \cap exclusion[w] = {}
  BY <1>3, <1>5, ExcludeManyExact DEF Cover, Key
<1>7. HoldsIn(LeftRows, l, a) <=>
          l \in L /\ HoldsIn(PlannedRows(w), l, a) /\ a \notin exclusion[w]
  <2>1. HoldsIn(LeftRows, l, a) <=> \E k \in Rows : k[2] = l /\ a \in UNION Left(k)
    <3> DEFINE key(n, k) == <<n, k[2]>>
    <3>1. \A n, k : key(n, k)[1] = n /\ key(n, k)[2] = k[2]
      OBVIOUS
    <3>2. LeftRows = UNION {{key(n, k) : n \in Left(k)} : k \in Rows}
      OBVIOUS
    <3> HIDE DEF key, Left, LeftRows, Rows
    <3>3. \A x : x \in LeftRows <=> \E k \in Rows : \E n \in Left(k) : x = key(n, k)
      BY <3>2
    <3> QED
      BY <3>1, <3>3 DEF HoldsIn
  <2> QED
    BY <1>5, <1>6, <2>1 DEF HoldsIn
<1>8. l \notin L => \A k \in Gone : k[2] # l
  BY <1>5
<1>9. \A k \in Rows \ Gone : k \in LeftRows
  <2>1. \A k \in Rows : k = <<k[1], k[2]>>
    BY <1>3, <1>5 DEF Key
  <2> QED
    BY <2>1
<1>10. Gone \subseteq Rows
  OBVIOUS
<1> HIDE DEF Rows, Gone, LeftRows
<1>11. l \in L => (HoldsIn(OwnRows(w)', l, a) <=> HoldsIn(X, l, a) \/ HoldsIn(LeftRows, l, a))
  <2>1. ASSUME l \in L, NEW k \in OwnRows(w) \ Gone, k[2] = l PROVE k \in LeftRows
    BY <1>3, <1>5, <1>9, <2>1 DEF PlannedRows
  <2> QED
    BY <1>4, <2>1 DEF HoldsIn
<1>12. l \in L => (HoldsIn(PlannedRows(w)', l, a) <=> HoldsIn(X, l, a) \/ HoldsIn(LeftRows, l, a))
  <2>1. ASSUME l \in L, NEW k \in DOMAIN cidr \ (ReplacedRows(w) \cup Gone), k[2] = l
        PROVE  k \in LeftRows
    BY <1>3, <1>5, <1>9, <2>1 DEF PlannedRows
  <2> QED
    BY <1>4, <1>11, <2>1 DEF HoldsIn
<1>13. l \notin L => /\ ~HoldsIn(LeftRows, l, a)
                     /\ HoldsIn(OwnRows(w)', l, a) <=> HoldsIn(X, l, a) \/ HoldsIn(OwnRows(w), l, a)
  BY <1>4, <1>7, <1>8 DEF HoldsIn
<1>14. l \notin L => (HoldsIn(PlannedRows(w)', l, a) <=> HoldsIn(X, l, a) \/ HoldsIn(PlannedRows(w), l, a))
  BY <1>4, <1>8, <1>13 DEF HoldsIn, PlannedRows
<1>15. \A k \in Gone : k[2] \in L
  BY <1>5, <1>10
<1> QED
  BY <1>4, <1>7, <1>11, <1>12, <1>13, <1>14, <1>15

-----------------------------------------------------------------------------
(* The writes of a job are part of the draft from the moment its last      *)
(* query is answered: sending them changes nothing.                        *)

RefInv == TypeInv /\ LockInv /\ BatchInv /\ Settled

Implements == Contents!Next \/ UNCHANGED Contents!vars

Asking == {"filter", "safelist", "clean", "trim"}

\* The rows planned are the same, so the contents promised are.
LEMMA SameRows ==
    ASSUME OneWorker, RefInv, UNCHANGED cidr,
           OwnRows(TheWorker)' = OwnRows(TheWorker),
           DOMAIN cidr \cap ReplacedRows(TheWorker)'
               = DOMAIN cidr \cap ReplacedRows(TheWorker)
    PROVE  Settled' /\ UNCHANGED <<Committed, Draft>>
<1>1. PlannedRows(TheWorker)' = PlannedRows(TheWorker)
  BY DEF PlannedRows
<1>2. UNCHANGED <<Committed, Draft>>
  BY <1>1 DEF Committed, Draft, ContentsOf
<1>3. Settled'
  BY <1>1, StaysSettled DEF OneWorker, RefInv
<1> QED
  BY <1>2, <1>3

LEMMA NotAsking ==
    ASSUME stage[TheWorker] \notin Asking
    PROVE  Unanswered(TheWorker) = todo[TheWorker] /\ Gathered = {}
BY DEF Unanswered, Gathered, Asking

LEMMA NotAskingNext ==
    ASSUME stage'[TheWorker] \notin Asking
    PROVE  Unanswered(TheWorker)' = todo'[TheWorker] /\ Gathered' = {}
BY DEF Unanswered, Gathered, Asking

LEMMA WritesStutter ==
    ASSUME OneWorker, RefInv, UNCHANGED <<tables, batch, todo>>,
           stage[TheWorker] \notin Asking, stage'[TheWorker] \notin Asking,
           OwnRows(TheWorker)' = OwnRows(TheWorker),
           DOMAIN cidr \cap ReplacedRows(TheWorker)'
               = DOMAIN cidr \cap ReplacedRows(TheWorker)
    PROVE  Settled' /\ Implements
<1>1. Settled' /\ UNCHANGED <<Committed, Draft>>
  BY SameRows DEF tables
<1>2. UNCHANGED <<list, Queue, Taken, Doing, Gathered>>
  BY NotAsking, NotAskingNext DEF tables, Queue, Taken, Doing, JobsOf
<1> QED
  BY <1>1, <1>2 DEF Implements, Contents!vars

LEMMA WorkerIs == OneWorker => TheWorker \in Workers
BY DEF OneWorker

LEMMA DeleteRowContents ==
    ASSUME OneWorker, RefInv, NEW k, DeleteRow(TheWorker, k)
    PROVE  Settled' /\ Implements
<1> DEFINE w == TheWorker
<1>0. w \in Workers
  BY WorkerIs
<1> HIDE DEF w
<1>1. /\ stage[w] = "write" /\ k \in to_delete[w]
      /\ to_delete'[w] = to_delete[w] \ {k}
      /\ removed'[w] = removed[w] \cup ({k} \cap DOMAIN cidr)
      /\ DOMAIN written'[w] = DOMAIN written[w] \ {k}
      /\ UNCHANGED <<tables, batch, todo, stage, job, adding, new_subnets>>
  BY <1>0, WithoutDomain DEF w, DeleteRow, Sends, progress, RefInv, TypeInv, TypeOK,
                             DatabaseTypeOK, WorkerTypeOK
<1>2. OwnRows(w)' = OwnRows(w)
  BY <1>1 DEF OwnRows
<1>3. DOMAIN cidr \cap ReplacedRows(w)' = DOMAIN cidr \cap ReplacedRows(w)
  BY <1>1 DEF ReplacedRows
<1> QED
  BY <1>1, <1>2, <1>3, WritesStutter DEF w, Asking

LEMMA UpsertRowContents ==
    ASSUME OneWorker, RefInv, NEW row, UpsertRow(TheWorker, row)
    PROVE  Settled' /\ Implements
<1> DEFINE w == TheWorker
<1>0. w \in Workers
  BY WorkerIs
<1> HIDE DEF w
<1>1. /\ stage[w] = "write" /\ to_delete[w] = {} /\ row \in new_subnets[w]
      /\ new_subnets'[w] = new_subnets[w] \ {row}
      /\ DOMAIN written'[w] = DOMAIN written[w] \cup {row[1]}
      /\ UNCHANGED <<tables, batch, removed, todo, stage, job, adding, to_delete>>
  BY <1>0 DEF w, UpsertRow, Sends, Overlay, progress, RefInv, TypeInv, TypeOK,
              DatabaseTypeOK, WorkerTypeOK
<1>2. DOMAIN written[w] \cup {r[1] : r \in new_subnets[w]}
          = DOMAIN written'[w] \cup {r[1] : r \in new_subnets'[w]}
  BY <1>1
<1>3. OwnRows(w)' = OwnRows(w)
  BY <1>1, <1>2 DEF OwnRows
<1>4. ReplacedRows(w)' = ReplacedRows(w)
  BY <1>1 DEF ReplacedRows
<1> QED
  BY <1>1, <1>3, <1>4, WritesStutter DEF w, Asking

LEMMA AddOwnRowsContents ==
    ASSUME OneWorker, RefInv, AddOwnRows(TheWorker)
    PROVE  Settled' /\ Implements
<1> DEFINE w == TheWorker
           expires_at == IF job[w].ttl = 0 THEN Never ELSE now + job[w].ttl
           key(n) == <<n, job[w].list>>
<1>0. w \in Workers
  BY WorkerIs
<1>1. /\ stage[w] = "write" /\ to_delete[w] = {} /\ new_subnets[w] = {}
      /\ new_subnets'[w] = {<<key(n), expires_at>> : n \in adding[w]}
      /\ adding'[w] = {}
      /\ UNCHANGED <<tables, batch, removed, written, todo, stage, job, to_delete>>
  BY <1>0 DEF w, AddOwnRows, transactions, RefInv, TypeInv, TypeOK, WorkerTypeOK
<1>2. \A n : <<key(n), expires_at>>[1] = key(n)
  OBVIOUS
<1> HIDE DEF w, expires_at, key
<1>3. {r[1] : r \in new_subnets'[w]} = {key(n) : n \in adding[w]}
  <2>1. ASSUME NEW r \in new_subnets'[w] PROVE r[1] \in {key(n) : n \in adding[w]}
    BY <1>1, <1>2
  <2>2. ASSUME NEW n \in adding[w] PROVE \E r \in new_subnets'[w] : r[1] = key(n)
    BY <1>1, <1>2
  <2> QED
    BY <2>1, <2>2
<1>4. OwnRows(w)' = OwnRows(w)
  BY <1>1, <1>3 DEF OwnRows, key
<1>5. ReplacedRows(w)' = ReplacedRows(w)
  BY <1>1 DEF ReplacedRows
<1> QED
  BY <1>1, <1>4, <1>5, WritesStutter DEF w, Asking

LEMMA QuietContents ==
    ASSUME OneWorker, RefInv,
           \/ EndJob(TheWorker)
           \/ Restart(TheWorker)
           \/ \E k \in Key : WaitForRow(TheWorker, k)
    PROVE  Settled' /\ Implements
<1> DEFINE w == TheWorker
<1>0. w \in Workers
  BY WorkerIs
<1> HIDE DEF w
<1>1. /\ stage[w] \notin Asking /\ stage'[w] \notin Asking
      /\ UNCHANGED <<tables, transactions, todo, adding, to_delete, new_subnets>>
      /\ \/ stage'[w] # "write" /\ stage[w] # "write"
         \/ adding[w] = {}
         \/ UNCHANGED <<stage, job>>
  BY <1>0 DEF w, EndJob, Restart, WaitForRow, Goto, Asking, progress, writes,
              RefInv, TypeInv, TypeOK, WorkerTypeOK
<1>2. OwnRows(w)' = OwnRows(w) /\ ReplacedRows(w)' = ReplacedRows(w)
  BY <1>1 DEF OwnRows, ReplacedRows, transactions
<1> QED
  BY <1>1, <1>2, WritesStutter DEF w, transactions

-----------------------------------------------------------------------------
(* A batch is taken, committed or given up.                                *)

LEMMA PollContents ==
    ASSUME OneWorker, RefInv, Poll(TheWorker)
    PROVE  Settled' /\ Implements
<1> DEFINE w == TheWorker
<1>0. w \in Workers /\ Workers = {w}
  BY WorkerIs DEF OneWorker
<1> HIDE DEF w
<1>1. /\ stage[w] = "idle" /\ stage'[w] = "next"
      /\ batch[w] = {} /\ batch'[w] = UnlockedJobs /\ todo'[w] = UnlockedJobs
      /\ UNCHANGED <<tables, removed, written, job, adding, to_delete, new_subnets>>
  BY <1>0 DEF w, Poll, Goto, writes, RefInv, TypeInv, TypeOK, WorkerTypeOK,
              DatabaseTypeOK, BatchInv, WorkerShape, ShapeOf
<1>2. UnlockedJobs = job_queue
  BY <1>0, <1>1 DEF UnlockedJobs
<1>3. OwnRows(w)' = OwnRows(w) /\ ReplacedRows(w)' = ReplacedRows(w)
  BY <1>1 DEF OwnRows, ReplacedRows
<1>4. Settled' /\ UNCHANGED <<Committed, Draft>>
  BY <1>1, <1>3, SameRows DEF w, tables
<1>5. Taken = {} /\ Taken' = Queue /\ Doing' = Queue /\ Gathered = {} /\ Gathered' = {}
  BY <1>1, <1>2, NotAsking, NotAskingNext, JobsOfOne
     DEF w, Asking, Taken, Doing, Queue
<1>6. UNCHANGED <<list, Queue>>
  BY <1>1 DEF tables, Queue, JobsOf
<1>7. Contents!Take
  BY <1>4, <1>5, <1>6 DEF Contents!Take
<1> QED
  BY <1>4, <1>7 DEF Implements, Contents!Next

\* Rows, committed or planned, are of lists that exist.
LEMMA PlannedRowsHaveLists ==
    ASSUME OneWorker, RefInv, stage[TheWorker] # "write"
    PROVE  \A k \in PlannedRows(TheWorker) : k[2] \in DOMAIN list
<1>1. OwnRows(TheWorker) = DOMAIN written[TheWorker]
  BY WorkerIs, ViewIsPlanned DEF RefInv
<1> QED
  BY <1>1, WorkerIs DEF PlannedRows, RefInv, LockInv, RowsHaveLists

LEMMA CommitContents ==
    ASSUME OneWorker, RefInv, Commit(TheWorker)
    PROVE  Settled' /\ Implements
<1> DEFINE w == TheWorker
<1>0. w \in Workers /\ Workers = {w}
  BY WorkerIs DEF OneWorker
<1> HIDE DEF w
<1>1. /\ stage[w] = "next" /\ stage'[w] = "idle" /\ todo[w] = {}
      /\ job_queue' = job_queue \ batch[w] /\ cidr' = View(w)
      /\ batch'[w] = {} /\ removed'[w] = {} /\ DOMAIN written'[w] = {}
      /\ UNCHANGED <<list, todo, job, adding, to_delete, new_subnets>>
  BY <1>0, NoRowsTable DEF w, Commit, Goto, progress, writes, RefInv, TypeInv, TypeOK,
              WorkerTypeOK, DatabaseTypeOK
<1>2. to_delete[w] = {} /\ new_subnets[w] = {}
  BY <1>0, <1>1 DEF RefInv, BatchInv, WorkerShape, ShapeOf
<1>3. DOMAIN cidr' = PlannedRows(w)
  BY <1>0, <1>1, ViewIsPlanned DEF RefInv
<1>4. ReplacedRows(w)' = {} /\ OwnRows(w)' = {}
  BY <1>1, <1>2 DEF ReplacedRows, OwnRows
<1>5. PlannedRows(w)' = PlannedRows(w)
  BY <1>3, <1>4 DEF PlannedRows
<1>6. Settled'
  BY <1>0, <1>4 DEF Settled
<1>7. Committed' = Draft /\ Draft' = Draft
  BY <1>3, <1>5 DEF w, Committed, Draft, ContentsOf
<1>8. Doing = {} /\ Doing' = {} /\ Gathered = {} /\ Gathered' = {} /\ Taken' = {}
  BY <1>1, NotAsking, NotAskingNext, JobsOfOne DEF w, Asking, Doing, Taken
<1>9. Queue' = Queue \ Taken
  <2>1. batch[w] \subseteq job_queue
    BY <1>0 DEF RefInv, LockInv, LocksExclusive
  <2>2. JobsOf(job_queue \ batch[w]) = JobsOf(job_queue) \ JobsOf(batch[w])
    BY <2>1, JobsWithout DEF RefInv, BatchInv, JobsDistinct
  <2> QED
    BY <1>1, <2>2 DEF w, Queue, Taken, JobsOf
<1>10. ASSUME NEW l \in ListIds, Draft[l] # {} PROVE l \in DOMAIN list
  <2>1. PICK a : HoldsIn(PlannedRows(TheWorker), l, a)
    BY <1>10, ContentsAt DEF Draft
  <2> QED
    BY <1>1, <2>1, PlannedRowsHaveLists DEF w, HoldsIn
<1>11. Contents!Commit
  BY <1>1, <1>7, <1>8, <1>9, <1>10 DEF Contents!Commit
<1> QED
  BY <1>6, <1>11 DEF Implements, Contents!Next

\* The draft of a worker that ends comes to nothing.
LEMMA EndsContents ==
    ASSUME OneWorker, RefInv, Ends(TheWorker)
    PROVE  /\ Settled'
           /\ Taken' = {} /\ Doing' = {} /\ Gathered' = {} /\ Draft' = Committed'
<1> DEFINE w == TheWorker
<1>0. w \in Workers /\ Workers = {w}
  BY WorkerIs DEF OneWorker
<1> HIDE DEF w
<1>1. /\ stage'[w] = "dead" /\ todo'[w] = {} /\ batch'[w] = {} /\ removed'[w] = {}
      /\ DOMAIN written'[w] = {} /\ to_delete'[w] = {} /\ new_subnets'[w] = {}
  BY <1>0, NoRowsTable DEF w, Ends, Rollback, Goto, RefInv, TypeInv, TypeOK,
              WorkerTypeOK, DatabaseTypeOK
<1>2. ReplacedRows(w)' = {} /\ OwnRows(w)' = {} /\ PlannedRows(w)' = DOMAIN cidr'
  BY <1>1 DEF ReplacedRows, OwnRows, PlannedRows
<1>3. Settled'
  BY <1>0, <1>2 DEF Settled
<1>4. Draft' = Committed'
  BY <1>2 DEF w, Draft, Committed, ContentsOf
<1> QED
  BY <1>1, <1>3, <1>4, NotAskingNext, JobsOfOne DEF w, Asking, Doing, Taken

LEMMA AbortContents ==
    ASSUME OneWorker, RefInv, Abort(TheWorker)
    PROVE  Settled' /\ Implements
<1>1. UNCHANGED <<list, Committed, Queue>>
  BY DEF Abort, tables, Committed, Queue, ContentsOf, JobsOf
<1>2. /\ Settled'
      /\ Taken' = {} /\ Doing' = {} /\ Gathered' = {} /\ Draft' = Committed'
  BY EndsContents DEF Abort
<1>3. Contents!Abandon
  BY <1>1, <1>2 DEF Contents!Abandon
<1> QED
  BY <1>2, <1>3 DEF Implements, Contents!Next

-----------------------------------------------------------------------------
(* The queries of the jobs, in the order of their ids.                     *)

\* The jobs whose last query is not answered are jobs of the queue.
LEMMA UnansweredJobs ==
    ASSUME OneWorker, RefInv
    PROVE  /\ Unanswered(TheWorker) \subseteq job_queue
           /\ Unanswered(TheWorker) \subseteq Job
           /\ \A j, k \in Unanswered(TheWorker) : j.id = k.id => j = k
<1>1. todo[TheWorker] \subseteq batch[TheWorker] /\ batch[TheWorker] \subseteq job_queue
  BY WorkerIs DEF RefInv, LockInv, LocksExclusive
<1>2. stage[TheWorker] \in Asking => job[TheWorker] \in batch[TheWorker]
  BY WorkerIs DEF RefInv, BatchInv, WorkerShape, ShapeOf, InJob, Asking
<1>3. Unanswered(TheWorker) \subseteq job_queue
  BY <1>1, <1>2 DEF Unanswered, Asking
<1> QED
  BY <1>3 DEF RefInv, TypeInv, TypeOK, DatabaseTypeOK, BatchInv, JobsDistinct

LEMMA FirstOfDoing ==
    ASSUME NEW j \in Unanswered(TheWorker),
           \A k \in Unanswered(TheWorker) : j.id <= k.id
    PROVE  Contents!First(CarriedBy(j)) /\ CarriedBy(j) \in Doing
<1>1. CarriedBy(j) \in Doing
  BY DEF Doing, JobsOf
<1>2. \A k \in Unanswered(TheWorker) : CarriedBy(k).id = k.id
  BY DEF CarriedBy
<1>3. ASSUME NEW x \in Doing PROVE CarriedBy(j).id <= x.id
  <2>1. PICK k \in Unanswered(TheWorker) : x = CarriedBy(k)
    BY DEF Doing, JobsOf
  <2> QED
    BY <1>2, <2>1
<1> QED
  BY <1>1, <1>3 DEF Contents!First

\* Once its last query is answered a job is done.
LEMMA OneJobLess ==
    ASSUME OneWorker, RefInv, NEW j \in Unanswered(TheWorker),
           Unanswered(TheWorker)' = Unanswered(TheWorker) \ {j}
    PROVE  Doing' = Doing \ {CarriedBy(j)}
<1>1. JobsOf(Unanswered(TheWorker) \ {j}) = JobsOf(Unanswered(TheWorker)) \ JobsOf({j})
  BY UnansweredJobs, JobsWithout
<1>2. Doing' = JobsOf(Unanswered(TheWorker) \ {j})
  BY DEF Doing, JobsOf
<1> QED
  BY <1>1, <1>2, JobsOfOne DEF Doing

\* The job in progress is the first of those that are not done.
LEMMA JobInProgress ==
    ASSUME OneWorker, InIdOrder, RefInv, stage[TheWorker] \in Asking
    PROVE  LET j == job[TheWorker]
           IN  /\ j \in Job /\ j \in Unanswered(TheWorker)
               /\ Contents!First(CarriedBy(j)) /\ CarriedBy(j) \in Doing
               /\ Unanswered(TheWorker) \ {j} = todo[TheWorker]
<1> DEFINE j == job[TheWorker]
<1>1. /\ j \in batch[TheWorker] \ todo[TheWorker]
      /\ \A k \in todo[TheWorker] : j.id <= k.id
  BY WorkerIs DEF RefInv, BatchInv, WorkerShape, ShapeOf, InJob, Asking
<1>2. j \in Job /\ j.id \in Nat
  BY <1>1, WorkerIs DEF RefInv, TypeInv, TypeOK, DatabaseTypeOK, Job
<1>3. Unanswered(TheWorker) = todo[TheWorker] \cup {j}
  BY DEF Unanswered, Asking
<1> QED
  BY <1>1, <1>2, <1>3, FirstOfDoing

LEMMA DraftAt ==
    \A l \in ListIds : \A a : a \in Draft[l] <=> HoldsIn(PlannedRows(TheWorker), l, a)
BY ContentsAt DEF Draft

LEMMA DraftType == OneWorker /\ TypeInv => Draft \in [ListIds -> SUBSET Addr]
BY WorkerIs, RowsAreKeys, ContentsType DEF Draft

LEMMA NextDraft ==
    ASSUME NEW f, f = [l \in ListIds |-> f[l]],
           \A l \in ListIds : \A a : a \in f[l] <=> HoldsIn(PlannedRows(TheWorker)', l, a)
    PROVE  Draft' = f
<1>1. Draft' = ContentsOf(PlannedRows(TheWorker)')
  BY DEF Draft, ContentsOf
<1> QED
  BY <1>1, ContentsEqual

\* What the worker reads of some lists is what the draft holds.
LEMMA ReadsDraft ==
    ASSUME OneWorker, RefInv, stage[TheWorker] # "write", NEW L \in SUBSET ListIds
    PROVE  AddressesOf(View(TheWorker), L) = UNION {Draft[l] : l \in L}
BY WorkerIs, ViewIsPlanned, AddressesAreContents DEF RefInv, Draft

LEMMA EnabledSame ==
    \A user, type : Contents!Enabled(user, type) = EnabledLists(user, type)
BY DEF Contents!Enabled, EnabledLists

LEMMA EnabledType ==
    ASSUME TypeInv, NEW user, NEW type
    PROVE  EnabledLists(user, type) \subseteq ListIds
BY DEF EnabledLists, TypeInv, TypeOK, DatabaseTypeOK, IsTable

\* A job that only adds: its networks become rows of the worker's own.
LEMMA AddedRows ==
    ASSUME OneWorker, RefInv, stage[TheWorker] # "write", stage'[TheWorker] = "write",
           UNCHANGED <<cidr, removed, written, to_delete, new_subnets>>,
           NEW m \in ListIds, job'[TheWorker].list = m
    PROVE  /\ Settled'
           /\ Draft' = Contents!With(Draft, m, Cover(adding'[TheWorker]))
<1> DEFINE w == TheWorker
           X == RowsFor(adding'[w], job'[w].list)
<1>0. w \in Workers /\ Workers = {w}
  BY WorkerIs DEF OneWorker
<1> HIDE DEF w
<1>1. to_delete[w] = {} /\ new_subnets[w] = {}
  BY <1>0 DEF w, RefInv, BatchInv, WorkerShape, ShapeOf
<1>2. OwnRows(w)' = OwnRows(w) \cup X /\ ReplacedRows(w)' = ReplacedRows(w)
  BY <1>1 DEF w, OwnRows, ReplacedRows, RowsFor
<1>3. PlannedRows(w)' = PlannedRows(w) \cup X
  BY <1>2 DEF PlannedRows
<1>4. Settled'
  BY <1>0, <1>2, <1>3, StaysSettled DEF RefInv
<1> DEFINE A == Cover(adding'[w])
           f == Contents!With(Draft, m, A)
<1>5. f = [l \in ListIds |-> f[l]]
  BY DraftType DEF Contents!With, RefInv
<1>6. ASSUME NEW l \in ListIds, NEW a
      PROVE  a \in f[l] <=> a \in Draft[l] \/ (l = m /\ a \in A)
  <2> HIDE DEF A
  <2>1. Draft \in [ListIds -> SUBSET Addr]
    BY DraftType DEF RefInv
  <2> QED
    BY <2>1 DEF Contents!With
<1> HIDE DEF f
<1>7. ASSUME NEW l \in ListIds, NEW a
      PROVE  a \in f[l] <=> HoldsIn(PlannedRows(w)', l, a)
  <2>1. HoldsIn(PlannedRows(w)', l, a) <=> HoldsIn(PlannedRows(w), l, a) \/ HoldsIn(X, l, a)
    BY <1>3 DEF HoldsIn
  <2>2. HoldsIn(X, l, a) <=> l = m /\ a \in A
    BY RowsForAt DEF w
  <2> QED
    BY <1>6, <2>1, <2>2, DraftAt DEF w
<1>8. Draft' = f
  BY <1>5, <1>7, NextDraft DEF w
<1> QED
  BY <1>4, <1>8 DEF w, f

\* delete_excluded_cidrs takes the exclusion out of the lists' part of the draft.
LEMMA ExcludedContents ==
    ASSUME OneWorker, RefInv, TypeInv', NEW L \in SUBSET ListIds,
           stage[TheWorker] \in {"clean", "trim"}, DeleteExcluded(TheWorker, L)
    PROVE  /\ Settled'
           /\ UNCHANGED <<tables, batch, todo, job, adding>>
           /\ stage'[TheWorker] = "write"
           /\ \A l \in ListIds : \A a :
                  HoldsIn(PlannedRows(TheWorker)', l, a) <=>
                      \/ l = job[TheWorker].list /\ a \in Cover(adding[TheWorker])
                      \/ a \in Draft[l] /\ (l \in L => a \notin exclusion[TheWorker])
<1> DEFINE w == TheWorker
           X == RowsFor(adding[w], job[w].list)
<1>0. w \in Workers /\ Workers = {w}
  BY WorkerIs DEF OneWorker
<1> HIDE DEF w
<1>1. /\ UNCHANGED <<tables, batch, todo, job, adding>> /\ stage'[w] = "write"
  BY <1>0 DEF w, DeleteExcluded, Goto, transactions, RefInv, TypeInv, TypeOK, WorkerTypeOK
<1> HIDE DEF X
<1>2. \A l \in ListIds : \A a :
          /\ HoldsIn(OwnRows(w)', l, a) <=>
                 \/ HoldsIn(X, l, a)
                 \/ l \in L /\ HoldsIn(PlannedRows(w), l, a) /\ a \notin exclusion[w]
                 \/ l \notin L /\ HoldsIn(OwnRows(w), l, a)
          /\ HoldsIn(PlannedRows(w)', l, a) <=>
                 \/ HoldsIn(X, l, a)
                 \/ l \in L /\ HoldsIn(PlannedRows(w), l, a) /\ a \notin exclusion[w]
                 \/ l \notin L /\ HoldsIn(PlannedRows(w), l, a)
  BY <1>0, ExcludedRows DEF w, X, RefInv
<1>3. \A k \in DOMAIN cidr \cap ReplacedRows(w)' : k \in ReplacedRows(w) \/ k[2] \in L
  <2>1. ASSUME NEW l \in ListIds
        PROVE  \A k \in DOMAIN cidr \cap ReplacedRows(w)' : k \in ReplacedRows(w) \/ k[2] \in L
    BY <1>0, ExcludedRows DEF w, X, RefInv
  <2>2. \A k \in DOMAIN cidr : k[2] \in ListIds
    BY DEF RefInv, TypeInv, TypeOK, DatabaseTypeOK, IsTable, Key
  <2> QED
    BY <2>1, <2>2
<1>4. Settled'
  <2>1. SUFFICES ASSUME NEW k \in DOMAIN cidr \cap ReplacedRows(w)', NEW a \in k[1],
                        HoldsIn(PlannedRows(w)', k[2], a)
                 PROVE  HoldsIn(OwnRows(w)', k[2], a)
    BY <1>0, <1>1 DEF Settled, tables
  <2>2. k[2] \in ListIds
    BY DEF RefInv, TypeInv, TypeOK, DatabaseTypeOK, IsTable, Key
  <2>3. k[2] \notin L => k \in ReplacedRows(w)
    BY <1>3
  <2>4. k \in ReplacedRows(w) /\ HoldsIn(PlannedRows(w), k[2], a)
            => HoldsIn(OwnRows(w), k[2], a)
    BY <1>0 DEF RefInv, Settled
  <2> QED
    BY <1>2, <2>1, <2>2, <2>3, <2>4
<1>5. ASSUME NEW l \in ListIds, NEW a
      PROVE  HoldsIn(PlannedRows(w)', l, a) <=>
                 \/ l = job[w].list /\ a \in Cover(adding[w])
                 \/ a \in Draft[l] /\ (l \in L => a \notin exclusion[w])
  <2>1. HoldsIn(X, l, a) <=> (l = job[w].list /\ a \in Cover(adding[w]))
    BY RowsForAt DEF X
  <2>2. a \in Draft[l] <=> HoldsIn(PlannedRows(w), l, a)
    BY DraftAt DEF w
  <2> QED
    BY <1>2, <2>1, <2>2
<1> QED
  BY <1>1, <1>4, <1>5 DEF w

\* A list that is gone is empty in the draft.
LEMMA NoListNoDraft ==
    ASSUME OneWorker, RefInv, stage[TheWorker] # "write", NEW l \in ListIds \ DOMAIN list
    PROVE  Draft[l] = {}
<1>1. ASSUME NEW a \in Draft[l] PROVE FALSE
  <2>1. HoldsIn(PlannedRows(TheWorker), l, a)
    BY <1>1, DraftAt
  <2> QED
    BY <2>1, PlannedRowsHaveLists DEF HoldsIn
<1> QED
  BY <1>1

LEMMA TrimContents ==
    ASSUME OneWorker, InIdOrder, RefInv, TypeInv', TrimList(TheWorker)
    PROVE  Settled' /\ Implements
<1> DEFINE w == TheWorker
           j == job[w]
           c == CarriedBy(j)
           L == {j.list} \cap DOMAIN list
           f == Contents!Applied(c)
<1>0. w \in Workers
  BY WorkerIs
<1>1. stage[w] = "trim" /\ DeleteExcluded(w, L) /\ L \in SUBSET ListIds
  BY DEF TrimList, RefInv, TypeInv, TypeOK, DatabaseTypeOK, IsTable
<1>2. /\ j \in Job /\ j \in Unanswered(w) /\ Contents!First(c) /\ c \in Doing
      /\ Unanswered(w) \ {j} = todo[w]
  BY <1>1, JobInProgress DEF Asking
<1>3. /\ j.action = "delete" /\ adding[w] = {} /\ exclusion[w] = Cover(Parsed(j))
  BY <1>0, <1>1 DEF RefInv, BatchInv, WorkerShape, ShapeOf
<1>4. c.action = "delete" /\ c.list = j.list /\ c.addrs = Cover(Parsed(j)) /\ j.list \in ListIds
  BY <1>2, <1>3 DEF CarriedBy, Job
<1> HIDE DEF w, L, c
<1>5. /\ Settled' /\ UNCHANGED <<tables, batch, todo, job, adding>> /\ stage'[w] = "write"
      /\ \A l \in ListIds : \A a :
             HoldsIn(PlannedRows(w)', l, a) <=>
                 \/ l = job[w].list /\ a \in Cover(adding[w])
                 \/ a \in Draft[l] /\ (l \in L => a \notin exclusion[w])
  BY <1>1, ExcludedContents DEF w
<1>6. f = [Draft EXCEPT ![j.list] = @ \ c.addrs]
  BY <1>4 DEF Contents!Applied
<1>7. f = [l \in ListIds |-> f[l]]
  BY <1>6, DraftType DEF RefInv
<1>8. ASSUME NEW l \in ListIds, NEW a
      PROVE  a \in f[l] <=> a \in Draft[l] /\ (l = j.list => a \notin c.addrs)
  <2>1. Draft \in [ListIds -> SUBSET Addr]
    BY DraftType DEF RefInv
  <2> HIDE DEF f
  <2> QED
    BY <1>4, <1>6, <2>1
<1>9. \A l \in ListIds : l = j.list /\ l \notin L => Draft[l] = {}
  BY <1>1, NoListNoDraft DEF w, L
<1> HIDE DEF f
<1>10. \A l \in ListIds : \A a : a \in f[l] <=> HoldsIn(PlannedRows(w)', l, a)
  <2>1. Cover(adding[w]) = {}
    BY <1>3 DEF Cover
  <2>2. \A l \in L : l = j.list
    BY DEF L
  <2> QED
    BY <1>3, <1>4, <1>5, <1>8, <1>9, <2>1, <2>2
<1>11. Draft' = f
  BY <1>7, <1>10, NextDraft DEF w
<1>12. Unanswered(w)' = Unanswered(w) \ {j} /\ Gathered = {} /\ Gathered' = {}
  BY <1>1, <1>2, <1>5, NotAskingNext DEF w, Asking, Gathered
<1>13. Doing' = Doing \ {c}
  BY <1>2, <1>12, OneJobLess DEF w, c
<1>14. UNCHANGED <<list, Committed, Queue, Taken>>
  BY <1>5 DEF w, tables, Committed, Queue, Taken, ContentsOf, JobsOf
<1>15. Contents!Apply
  BY <1>2, <1>4, <1>11, <1>12, <1>13, <1>14 DEF Contents!Apply, f
<1> QED
  BY <1>5, <1>15 DEF Implements, Contents!Next

\* The denylists are cleaned: the last query of a safelist's ADD job, which then
\* adds its own rows, and of an update job.
LEMMA CleanContents ==
    ASSUME OneWorker, InIdOrder, RefInv, TypeInv', CleanDenylists(TheWorker)
    PROVE  Settled' /\ Implements
<1> DEFINE w == TheWorker
           j == job[w]
           c == CarriedBy(j)
           A == exclusion[w]
           L == EnabledLists(j.user, "DENY")
           g == Contents!Cleaned(j.user, A)
<1>0. w \in Workers
  BY WorkerIs
<1>1. stage[w] = "clean" /\ DeleteExcluded(w, L) /\ L \in SUBSET ListIds
  BY EnabledType DEF CleanDenylists, RefInv
<1>2. /\ j \in Job /\ j \in Unanswered(w) /\ Contents!First(c) /\ c \in Doing
      /\ Unanswered(w) \ {j} = todo[w]
  BY <1>1, JobInProgress DEF Asking
<1>3. \/ j.action = "update" /\ adding[w] = {}
      \/ /\ j.action = "add" /\ j.type = "SAFE" /\ j.enabled
         /\ adding[w] = Parsed(j) /\ A = Cover(Parsed(j))
  BY <1>0, <1>1 DEF RefInv, BatchInv, WorkerShape, ShapeOf
<1>4. /\ c.action = j.action /\ c.type = j.type /\ c.enabled = j.enabled
      /\ c.user = j.user /\ c.list = j.list /\ c.addrs = Cover(Parsed(j))
      /\ j.list \in ListIds
  BY <1>2 DEF CarriedBy, Job
<1>5. /\ Settled' /\ UNCHANGED <<tables, batch, todo, job, adding>> /\ stage'[w] = "write"
      /\ \A l \in ListIds : \A a :
             HoldsIn(PlannedRows(w)', l, a) <=>
                 \/ l = j.list /\ a \in Cover(adding[w])
                 \/ a \in Draft[l] /\ (l \in L => a \notin A)
  BY <1>1, ExcludedContents DEF w
<1>6. Draft \in [ListIds -> SUBSET Addr]
  BY DraftType DEF RefInv
<1>7. /\ g \in [ListIds -> SUBSET Addr]
      /\ \A l \in ListIds : \A a : a \in g[l] <=> a \in Draft[l] /\ (l \in L => a \notin A)
  BY <1>6, EnabledSame DEF Contents!Cleaned
<1>8. Unanswered(w)' = Unanswered(w) \ {j} /\ Gathered' = {}
  BY <1>1, <1>2, <1>5, NotAskingNext DEF w, Asking
<1>9. Doing' = Doing \ {c}
  BY <1>2, <1>8, OneJobLess DEF w, c
<1>10. UNCHANGED <<list, Committed, Queue, Taken>>
  BY <1>5 DEF w, tables, Committed, Queue, Taken, ContentsOf, JobsOf
<1>11. CASE j.action = "update"
  <2>1. adding[w] = {} /\ Cover(adding[w]) = {} /\ Gathered = {A}
    BY <1>1, <1>3, <1>11 DEF Cover, Gathered
  <2>2. \A l \in ListIds : \A a : a \in g[l] <=> HoldsIn(PlannedRows(w)', l, a)
    BY <1>5, <1>7, <2>1
  <2>3. g = [l \in ListIds |-> g[l]]
    BY <1>7
  <2> HIDE DEF g, A, c, w
  <2>4. Draft' = g
    BY <2>2, <2>3, NextDraft DEF w
  <2>5. Contents!CleanUp
    BY <1>2, <1>4, <1>8, <1>9, <1>10, <1>11, <2>1, <2>4 DEF Contents!CleanUp, g
  <2> QED
    BY <1>5, <2>5 DEF Implements, Contents!Next
<1>12. CASE j.action = "add"
  <2> DEFINE f == Contents!With(g, j.list, c.addrs)
  <2>1. /\ j.type = "SAFE" /\ j.enabled /\ adding[w] = Parsed(j) /\ A = c.addrs
        /\ Gathered = {}
    BY <1>1, <1>3, <1>4, <1>12 DEF Gathered
  <2>2. Contents!Applied(c) = f
    <3>1. Contents!Applied(c) = Contents!With(Contents!Cleaned(c.user, c.addrs), c.list, c.addrs)
      BY <1>4, <1>12, <2>1 DEF Contents!Applied
    <3> QED
      BY <1>4, <2>1, <3>1
  <2> HIDE DEF g, A, c, w
  <2>3. f = [l \in ListIds |-> f[l]]
    BY <1>7 DEF Contents!With
  <2>4. ASSUME NEW l \in ListIds, NEW a
        PROVE  a \in f[l] <=> a \in g[l] \/ (l = j.list /\ a \in c.addrs)
    BY <1>4, <1>7 DEF Contents!With
  <2> HIDE DEF f
  <2>5. \A l \in ListIds : \A a : a \in f[l] <=> HoldsIn(PlannedRows(w)', l, a)
    BY <1>4, <1>5, <1>7, <2>1, <2>4
  <2>6. Draft' = f
    BY <2>3, <2>5, NextDraft DEF w
  <2>7. Contents!Apply
    BY <1>2, <1>4, <1>8, <1>9, <1>10, <1>12, <2>1, <2>2, <2>6 DEF Contents!Apply
  <2> QED
    BY <1>5, <2>7 DEF Implements, Contents!Next
<1> QED
  BY <1>3, <1>11, <1>12

LEMMA FilterContents ==
    ASSUME OneWorker, InIdOrder, RefInv, FilterSafeCidrs(TheWorker)
    PROVE  Settled' /\ Implements
<1> DEFINE w == TheWorker
           j == job[w]
           c == CarriedBy(j)
           L == EnabledLists(j.user, "SAFE")
           safe == UNION {Draft[l] : l \in L}
<1>0. w \in Workers /\ ShapeOf(w)
  BY WorkerIs DEF RefInv, BatchInv, WorkerShape
<1>1. /\ stage[w] = "filter" /\ stage'[w] = "write"
      /\ UNCHANGED <<tables, batch, removed, written, todo, job, to_delete, new_subnets>>
  BY <1>0 DEF FilterSafeCidrs, Goto, transactions, writes, RefInv, TypeInv, TypeOK,
              WorkerTypeOK
<1>2. /\ j \in Job /\ j \in Unanswered(w) /\ Contents!First(c) /\ c \in Doing
      /\ Unanswered(w) \ {j} = todo[w]
  BY <1>1, JobInProgress DEF Asking
<1>3. j.action = "add" /\ j.type = "DENY" /\ L \in SUBSET ListIds
  BY <1>0, <1>1, EnabledType DEF RefInv, ShapeOf
<1>4. /\ c.action = j.action /\ c.type = j.type
      /\ c.user = j.user /\ c.list = j.list /\ c.addrs = Cover(Parsed(j))
      /\ j.list \in ListIds
  BY <1>2 DEF CarriedBy, Job
<1>5. Cover(adding'[w]) = c.addrs \ safe
  <2>1. Cover(adding'[w]) = Cover(Parsed(j)) \ AddressesOf(View(w), L)
    BY <1>0, FilterShape DEF RefInv
  <2>2. AddressesOf(View(w), L) = safe
    BY <1>1, <1>3, ReadsDraft
  <2> QED
    BY <1>4, <2>1, <2>2
<1> HIDE DEF c, w, safe
<1>6. /\ Settled' /\ Draft' = Contents!With(Draft, j.list, c.addrs \ safe)
  <2>1. job'[w].list = j.list
    BY <1>1
  <2>2. UNCHANGED cidr
    BY <1>1 DEF tables
  <2>3. Settled' /\ Draft' = Contents!With(Draft, j.list, Cover(adding'[w]))
    BY <1>1, <1>4, <2>1, <2>2, AddedRows DEF w
  <2> QED
    BY <1>5, <2>3
<1>7. Draft' = Contents!Applied(c)
  BY <1>3, <1>4, <1>6, EnabledSame DEF Contents!Applied, safe
<1>8. Unanswered(w)' = Unanswered(w) \ {j} /\ Gathered = {} /\ Gathered' = {}
  BY <1>1, <1>2, NotAskingNext DEF w, Asking, Gathered
<1>9. Doing' = Doing \ {c}
  BY <1>2, <1>8, OneJobLess DEF w, c
<1>10. UNCHANGED <<list, Committed, Queue, Taken>>
  BY <1>1 DEF w, tables, Committed, Queue, Taken, ContentsOf, JobsOf
<1>11. Contents!Apply
  BY <1>2, <1>3, <1>4, <1>7, <1>8, <1>9, <1>10 DEF Contents!Apply
<1> QED
  BY <1>6, <1>11 DEF Implements, Contents!Next

LEMMA ReadSafelistContents ==
    ASSUME OneWorker, InIdOrder, RefInv, ReadSafelist(TheWorker)
    PROVE  Settled' /\ Implements
<1> DEFINE w == TheWorker
           j == job[w]
           c == CarriedBy(j)
           L == {l \in {j.list} \cap DOMAIN list : list[l].enabled}
<1>0. w \in Workers /\ ShapeOf(w)
  BY WorkerIs DEF RefInv, BatchInv, WorkerShape
<1>1. /\ stage[w] = "safelist" /\ stage'[w] = "clean"
      /\ exclusion'[w] = AddressesOf(View(w), L)
      /\ UNCHANGED <<tables, transactions, todo, job, adding, to_delete, new_subnets>>
  BY <1>0 DEF ReadSafelist, Goto, writes, RefInv, TypeInv, TypeOK, WorkerTypeOK
<1>2. Contents!First(c) /\ c \in Doing
  BY <1>1, JobInProgress DEF Asking
<1>3. c.action = "update" /\ j.action = "update" /\ c.list = j.list
  BY <1>0, <1>1 DEF ShapeOf, CarriedBy
<1>4. AddressesOf(View(w), L) = UNION {Draft[l] : l \in L}
  BY <1>1, ReadsDraft DEF RefInv, TypeInv, TypeOK, DatabaseTypeOK, IsTable
<1> HIDE DEF w, c
<1>5. Settled' /\ UNCHANGED <<Committed, Draft>>
  <2>1. OwnRows(w)' = OwnRows(w) /\ ReplacedRows(w)' = ReplacedRows(w)
    BY <1>1 DEF OwnRows, ReplacedRows, transactions
  <2> QED
    BY <1>1, <2>1, SameRows DEF w, tables
<1>6. Gathered = {} /\ Gathered' = {UNION {Draft[l] : l \in L}}
  BY <1>1, <1>3, <1>4 DEF w, Gathered
<1>7. UNCHANGED <<list, Queue, Taken, Doing>>
  BY <1>1 DEF w, tables, transactions, Queue, Taken, Doing, Unanswered, JobsOf
<1>8. Contents!Gather
  BY <1>2, <1>3, <1>5, <1>6, <1>7 DEF Contents!Gather
<1> QED
  BY <1>5, <1>8 DEF Implements, Contents!Next

\* A job whose networks are all dropped changes nothing.
LEMMA NothingApplied ==
    ASSUME OneWorker, TypeInv, NEW c, c.addrs = {}, c.list \in ListIds,
           \/ c.action = "delete"
           \/ c.action = "add" /\ c.type \in ListType
    PROVE  Contents!Applied(c) = Draft
<1>1. Draft \in [ListIds -> SUBSET Addr]
  BY DraftType
<1> HIDE DEF Draft
<1>2. CASE c.action = "delete"
  BY <1>1, <1>2 DEF Contents!Applied
<1>3. CASE c.action = "add" /\ c.type = "DENY"
  BY <1>1, <1>3 DEF Contents!Applied, Contents!With
<1>4. CASE c.action = "add" /\ c.type = "SAFE"
  <2>1. Contents!Cleaned(c.user, {}) = Draft
    BY <1>1 DEF Contents!Cleaned
  <2>2. Contents!With(Draft, c.list, {}) = Draft
    BY <1>1 DEF Contents!With
  <2> QED
    BY <1>4, <2>1, <2>2 DEF Contents!Applied
<1> QED
  BY <1>2, <1>3, <1>4 DEF ListType

LEMMA BeginContents ==
    ASSUME OneWorker, InIdOrder, RefInv, Begin(TheWorker)
    PROVE  Settled' /\ Implements
<1> DEFINE w == TheWorker
<1>0. w \in Workers
  BY WorkerIs
<1>1. PICK j \in Candidates(w) :
          /\ todo' = [todo EXCEPT ![w] = @ \ {j}]
          /\ job' = [job EXCEPT ![w] = IF FirstQuery(j) = "next" THEN NoJob ELSE j]
          /\ stage' = [stage EXCEPT ![w] = FirstQuery(j)]
          /\ adding' = [adding EXCEPT ![w] = IF j.action = "add" THEN Parsed(j) ELSE {}]
  BY DEF Begin, Goto
<1> DEFINE c == CarriedBy(j)
<1>2. /\ stage[w] = "next"
      /\ UNCHANGED <<tables, batch, removed, written, to_delete, new_subnets>>
  BY DEF Begin, transactions, writes
<1>3. /\ stage'[w] = FirstQuery(j) /\ todo'[w] = todo[w] \ {j}
      /\ adding'[w] = IF j.action = "add" THEN Parsed(j) ELSE {}
      /\ FirstQuery(j) # "next" => job'[w] = j
  BY <1>0, <1>1 DEF RefInv, TypeInv, TypeOK, WorkerTypeOK
<1>4. /\ j \in todo[w] /\ j \in Job /\ \A k \in todo[w] : j.id <= k.id
  BY <1>0 DEF Candidates, RefInv, TypeInv, TypeOK, WorkerTypeOK
<1>5. FirstQuery(j) \in {"next", "write"} \cup Asking
  BY <1>4, FirstQueryType DEF Asking
<1>6. Unanswered(w) = todo[w] /\ Gathered = {}
  BY <1>2, NotAsking DEF Asking
<1>7. Contents!First(c) /\ c \in Doing
  BY <1>4, <1>6, FirstOfDoing
<1>8. UNCHANGED <<list, Queue, Taken, Committed>>
  BY <1>2 DEF tables, Queue, Taken, Committed, JobsOf, ContentsOf
<1>9. /\ c.action = j.action /\ c.type = j.type /\ c.enabled = j.enabled
      /\ c.list = j.list /\ c.addrs = Cover(Parsed(j)) /\ j.list \in ListIds
      /\ j.type \in ListType /\ j.action \in Action
  BY <1>4 DEF CarriedBy, Job
<1> HIDE DEF w, c
<1>10. ASSUME FirstQuery(j) # "write" PROVE Settled' /\ UNCHANGED <<Committed, Draft>>
  <2>1. OwnRows(w)' = OwnRows(w) /\ ReplacedRows(w)' = ReplacedRows(w)
    BY <1>2, <1>3, <1>10 DEF OwnRows, ReplacedRows
  <2> QED
    BY <1>2, <2>1, SameRows DEF w, tables
<1>11. ASSUME FirstQuery(j) \notin Asking
       PROVE  Doing' = Doing \ {c} /\ Gathered' = {}
  <2>1. Unanswered(w)' = Unanswered(w) \ {j} /\ Gathered' = {}
    BY <1>3, <1>6, <1>11, NotAskingNext DEF w
  <2> QED
    BY <1>4, <1>6, <2>1, OneJobLess DEF w, c
<1>12. CASE FirstQuery(j) \in Asking
  <2>1. Unanswered(w)' = Unanswered(w)
    BY <1>3, <1>4, <1>6, <1>12 DEF Unanswered, Asking
  <2>2. Doing' = Doing
    BY <2>1 DEF w, Doing, JobsOf
  <2>3. FirstQuery(j) = "clean" => j.action # "update"
    BY DEF FirstQuery
  <2>4. Gathered' = {}
    BY <1>3, <1>12, <2>3 DEF w, Gathered, Asking
  <2>5. Settled' /\ UNCHANGED Draft
    BY <1>10, <1>12 DEF Asking
  <2> QED
    BY <1>6, <1>8, <2>2, <2>4, <2>5 DEF Implements, Contents!vars
<1>13. CASE FirstQuery(j) = "next"
  <2>1. j.action # "update" /\ Parsed(j) = {}
    BY <1>9, <1>13 DEF FirstQuery, Action, ListType
  <2>2. c.addrs = {}
    BY <1>9, <2>1 DEF Cover
  <2>3. Contents!Applied(c) = Draft
    BY <1>9, <2>1, <2>2, NothingApplied DEF RefInv, Action
  <2>4. Settled' /\ UNCHANGED Draft
    BY <1>10, <1>13
  <2>5. Doing' = Doing \ {c} /\ Gathered' = {}
    BY <1>11, <1>13 DEF Asking
  <2>6. c.action \in {"add", "delete"}
    BY <1>9, <2>1 DEF Action
  <2>7. Contents!Apply
    BY <1>6, <1>7, <1>8, <2>3, <2>4, <2>5, <2>6 DEF Contents!Apply
  <2> QED
    BY <2>4, <2>7 DEF Implements, Contents!Next
<1>14. CASE FirstQuery(j) = "write"
  <2>1. j.action = "add" /\ j.type = "SAFE" /\ ~j.enabled
    BY <1>9, <1>14 DEF FirstQuery, Action, ListType
  <2>2. adding'[w] = Parsed(j) /\ job'[w].list = j.list /\ stage'[w] = "write"
    BY <1>3, <1>14, <2>1
  <2>3. UNCHANGED cidr
    BY <1>2 DEF tables
  <2>4. Settled' /\ Draft' = Contents!With(Draft, j.list, Cover(adding'[w]))
    BY <1>2, <1>9, <2>2, <2>3, AddedRows DEF w
  <2>5. Contents!Applied(c) = Contents!With(Draft, c.list, c.addrs)
    BY <1>9, <2>1 DEF Contents!Applied
  <2>6. Draft' = Contents!Applied(c)
    BY <1>9, <2>2, <2>4, <2>5
  <2>7. Doing' = Doing \ {c} /\ Gathered' = {}
    BY <1>11, <1>14 DEF Asking
  <2>8. c.action \in {"add", "delete"}
    BY <1>9, <2>1
  <2>9. Contents!Apply
    BY <1>6, <1>7, <1>8, <2>6, <2>7, <2>8 DEF Contents!Apply
  <2> QED
    BY <2>4, <2>9 DEF Implements, Contents!Next
<1> QED
  BY <1>5, <1>12, <1>13, <1>14

LEMMA WorkContents ==
    ASSUME OneWorker, InIdOrder, RefInv, TypeInv', Work(TheWorker)
    PROVE  Settled' /\ Implements
<1>1. ASSUME ForeignKeyViolation(TheWorker) \/ DeadlockAbort(TheWorker)
      PROVE  Settled' /\ Implements
  BY <1>1, AbortContents DEF ForeignKeyViolation, DeadlockAbort
<1> QED
  BY <1>1, PollContents, BeginContents, FilterContents, ReadSafelistContents,
     CleanContents, TrimContents, DeleteRowContents, UpsertRowContents, QuietContents,
     AddOwnRowsContents, CommitContents DEF Work

-----------------------------------------------------------------------------
(* Requests, and rows that go without a job.                               *)

LEMMA InsertJobQueues ==
    ASSUME RefInv, NEW action, NEW row, NEW cmd, NEW cidrs, NEW ttl,
           InsertJob(action, row, cmd, cidrs, ttl)
    PROVE  Contents!Queues
<1> DEFINE x == [id |-> next_id, action |-> action, list |-> cmd.list,
                 type |-> row.type, enabled |-> row.enabled, user |-> cmd.user,
                 cidrs |-> cidrs, ttl |-> ttl]
<1>1. job_queue' = job_queue \cup {x} /\ x.id = next_id
  BY DEF InsertJob
<1> HIDE DEF x
<1>2. Queue' = Queue \cup {CarriedBy(x)}
  BY <1>1 DEF Queue, JobsOf
<1>3. \A j : CarriedBy(j).id = j.id
  BY DEF CarriedBy
<1>4. \A k \in Queue : k.id < CarriedBy(x).id
  BY <1>1, <1>3 DEF Queue, JobsOf, RefInv, BatchInv, JobsDistinct
<1>5. CarriedBy(x) \in Queue'
  BY <1>2
<1> QED
  BY <1>2, <1>4, <1>5 DEF Contents!Queues

LEMMA CleanupJobQueues ==
    ASSUME RefInv, NEW cmd, NEW row, CleanupJob(cmd, row)
    PROVE  Contents!Queues \/ UNCHANGED Queue
<1>1. CASE NeedsCleanup(cmd, row)
  BY <1>1, InsertJobQueues DEF CleanupJob
<1>2. CASE ~NeedsCleanup(cmd, row)
  BY <1>2 DEF CleanupJob, Queue, JobsOf
<1> QED
  BY <1>1, <1>2

\* Nothing of the worker and no row changes.
LEMMA WorkerAndRowsStay ==
    ASSUME OneWorker, RefInv, UNCHANGED <<cidr, transactions, workerVars>>
    PROVE  Settled' /\ UNCHANGED <<Committed, Taken, Doing, Gathered, Draft>>
<1>1. \A w : /\ OwnRows(w)' = OwnRows(w) /\ ReplacedRows(w)' = ReplacedRows(w)
             /\ Unanswered(w)' = Unanswered(w)
  BY DEF OwnRows, ReplacedRows, Unanswered, transactions, workerVars, progress, writes
<1>2. Settled' /\ UNCHANGED <<Committed, Draft>>
  BY <1>1, SameRows
<1>3. UNCHANGED <<Taken, Doing>>
  BY <1>1 DEF Taken, Doing, JobsOf, transactions
<1>4. UNCHANGED Gathered
  BY DEF Gathered, workerVars, progress
<1> QED
  BY <1>2, <1>3, <1>4

LEMMA CommittedAt ==
    \A l \in ListIds : \A a : a \in Committed[l] <=> HoldsIn(DOMAIN cidr, l, a)
BY ContentsAt DEF Committed

LEMMA NextAt ==
    /\ \A l \in ListIds : \A a : a \in Committed'[l] <=> HoldsIn(DOMAIN cidr', l, a)
    /\ \A l \in ListIds : \A a :
           a \in Draft'[l] <=> HoldsIn(PlannedRows(TheWorker)', l, a)
<1>1. /\ Committed' = ContentsOf(DOMAIN cidr')
      /\ Draft' = ContentsOf(PlannedRows(TheWorker)')
  BY DEF Committed, Draft, ContentsOf
<1> QED
  BY <1>1, ContentsAt

\* Committed rows go: the draft loses only addresses the lists lose.
LEMMA RowsGo ==
    ASSUME OneWorker, RefInv, UNCHANGED <<transactions, workerVars>>,
           NEW K, cidr' = Without(cidr, K)
    PROVE  /\ Settled' /\ UNCHANGED <<Taken, Doing, Gathered>>
           /\ \A l \in ListIds :
                  /\ Draft'[l] \subseteq Draft[l]
                  /\ Draft[l] \ Draft'[l] \subseteq Committed[l] \ Committed'[l]
<1> DEFINE w == TheWorker
<1>0. w \in Workers /\ Workers = {w}
  BY WorkerIs DEF OneWorker
<1> HIDE DEF w
<1>1. DOMAIN cidr' = DOMAIN cidr \ K
  BY WithoutDomain
<1>2. /\ OwnRows(w)' = OwnRows(w) /\ ReplacedRows(w)' = ReplacedRows(w)
      /\ Unanswered(w)' = Unanswered(w)
  BY DEF OwnRows, ReplacedRows, Unanswered, transactions, workerVars, progress, writes
<1>3. UNCHANGED <<Taken, Doing>>
  BY <1>2 DEF w, Taken, Doing, JobsOf, transactions
<1>4. UNCHANGED Gathered
  BY DEF Gathered, workerVars, progress
<1>5. PlannedRows(w)' = ((DOMAIN cidr \ K) \ ReplacedRows(w)) \cup OwnRows(w)
  BY <1>1, <1>2 DEF PlannedRows
<1>6. Settled'
  BY <1>0, <1>1, <1>2, <1>5, StaysSettled DEF RefInv, PlannedRows
<1>7. ASSUME NEW l \in ListIds, NEW a \in Draft'[l] PROVE a \in Draft[l]
  BY <1>5, <1>7, NextAt, DraftAt DEF w, HoldsIn, PlannedRows
<1>8. ASSUME NEW l \in ListIds, NEW a \in Draft[l], a \notin Draft'[l]
      PROVE  a \in Committed[l] /\ a \notin Committed'[l]
  <2>1. PICK k \in PlannedRows(w) : k[2] = l /\ a \in k[1]
    BY <1>8, DraftAt DEF w, HoldsIn
  <2>2. ~HoldsIn(PlannedRows(w)', l, a)
    BY <1>8, NextAt DEF w
  <2>3. ~HoldsIn(OwnRows(w), l, a)
    BY <1>5, <2>2 DEF HoldsIn
  <2>4. k \in DOMAIN cidr
    BY <2>1, <2>3 DEF HoldsIn, PlannedRows
  <2>5. ASSUME NEW m \in DOMAIN cidr \ K, m[2] = l, a \in m[1] PROVE FALSE
    <3>1. m \in ReplacedRows(w)
      BY <1>5, <2>2, <2>5 DEF HoldsIn
    <3>2. HoldsIn(PlannedRows(w), l, a)
      BY <2>1 DEF HoldsIn
    <3> QED
      BY <1>0, <2>3, <2>5, <3>1, <3>2 DEF RefInv, Settled
  <2>6. HoldsIn(DOMAIN cidr, l, a) /\ ~HoldsIn(DOMAIN cidr', l, a)
    BY <1>1, <2>1, <2>4, <2>5 DEF HoldsIn
  <2> QED
    BY <2>6, CommittedAt, NextAt
<1> QED
  BY <1>3, <1>4, <1>6, <1>7, <1>8

\* Rows go, and a list may go with its rows: addresses vanish.
LEMMA RowsVanish ==
    ASSUME RefInv, UNCHANGED job_queue, NEW K, cidr' = Without(cidr, K),
           \/ UNCHANGED list
           \/ \E l \in DOMAIN list : list' = Without(list, {l}) /\ K = Nets \X {l}
    PROVE  Contents!Vanish
<1>1. DOMAIN cidr' = DOMAIN cidr \ K
  BY WithoutDomain
<1>2. \A l \in ListIds : Committed'[l] \subseteq Committed[l]
  BY <1>1, CommittedAt, NextAt DEF HoldsIn
<1>3. UNCHANGED Queue
  BY DEF Queue, JobsOf
<1>4. ASSUME NEW l \in DOMAIN list, list' = Without(list, {l}), K = Nets \X {l}
      PROVE  /\ DOMAIN list' = DOMAIN list \ {l} /\ Committed'[l] = {}
             /\ \A k \in DOMAIN list' : list'[k] = list[k] /\ Committed'[k] = Committed[k]
  <2>1. /\ DOMAIN list' = DOMAIN list \ {l} /\ DOMAIN list \subseteq ListIds
        /\ \A k \in DOMAIN list' : list'[k] = list[k]
    BY <1>4, WithoutDomain
       DEF Without, Restrict, RefInv, TypeInv, TypeOK, DatabaseTypeOK, IsTable
  <2>2. \A k \in DOMAIN cidr : k \in K <=> k[2] = l
    BY <1>4 DEF RefInv, TypeInv, TypeOK, DatabaseTypeOK, IsTable, Key
  <2>3. \A a : ~HoldsIn(DOMAIN cidr', l, a)
    BY <1>1, <2>2 DEF HoldsIn
  <2>4. \A k \in ListIds \ {l} : \A a :
            HoldsIn(DOMAIN cidr', k, a) <=> HoldsIn(DOMAIN cidr, k, a)
    BY <1>1, <2>2 DEF HoldsIn
  <2>5. Committed'[l] = {}
    BY <2>1, <2>3, NextAt
  <2>6. ASSUME NEW k \in ListIds \ {l} PROVE Committed'[k] = Committed[k]
    <3>1. \A a : a \in Committed'[k] <=> a \in Committed[k]
      BY <2>4, CommittedAt, NextAt
    <3> QED
      BY <3>1
  <2> QED
    BY <2>1, <2>5, <2>6
<1> QED
  BY <1>2, <1>3, <1>4 DEF Contents!Vanish

LEMMA RowsGoContents ==
    ASSUME OneWorker, RefInv, UNCHANGED <<job_queue, transactions, workerVars>>,
           NEW K, cidr' = Without(cidr, K),
           \/ UNCHANGED list
           \/ \E l \in DOMAIN list : list' = Without(list, {l}) /\ K = Nets \X {l}
    PROVE  Settled' /\ Implements
<1>1. /\ Settled' /\ UNCHANGED <<Taken, Doing, Gathered>>
      /\ \A l \in ListIds : /\ Draft'[l] \subseteq Draft[l]
                            /\ Draft[l] \ Draft'[l] \subseteq Committed[l] \ Committed'[l]
  BY RowsGo
<1>2. Contents!Vanish
  BY RowsVanish
<1>3. Contents!LoseAddresses
  BY <1>1, <1>2 DEF Contents!LoseAddresses, Contents!progress
<1> QED
  BY <1>1, <1>3 DEF Implements, Contents!Next

\* A worker ends while rows, or a list, go.
LEMMA EndsWhileRowsGo ==
    ASSUME OneWorker, RefInv, UNCHANGED job_queue, Ends(TheWorker),
           \/ UNCHANGED <<list, cidr>>
           \/ \E K : /\ cidr' = Without(cidr, K)
                     /\ \/ UNCHANGED list
                        \/ \E l \in DOMAIN list :
                               list' = Without(list, {l}) /\ K = Nets \X {l}
    PROVE  Settled' /\ Implements
<1>1. /\ Settled'
      /\ Taken' = {} /\ Doing' = {} /\ Gathered' = {} /\ Draft' = Committed'
  BY EndsContents
<1>2. Contents!Vanish \/ UNCHANGED <<list, Committed, Queue>>
  <2>1. CASE UNCHANGED <<list, cidr>>
    BY <2>1 DEF Committed, Queue, ContentsOf, JobsOf
  <2>2. ASSUME NEW K, cidr' = Without(cidr, K),
               \/ UNCHANGED list
               \/ \E l \in DOMAIN list : list' = Without(list, {l}) /\ K = Nets \X {l}
        PROVE  Contents!Vanish
    BY <2>2, RowsVanish
  <2> QED
    BY <2>1, <2>2
<1>3. Contents!Abandon
  BY <1>1, <1>2 DEF Contents!Abandon
<1> QED
  BY <1>1, <1>3 DEF Implements, Contents!Next

LEMMA CreateListContents ==
    ASSUME OneWorker, RefInv, NEW cmd, CreateList(cmd), UNCHANGED workerVars
    PROVE  Settled' /\ Implements
<1>1. /\ Settled' /\ UNCHANGED <<Committed, Taken, Doing, Gathered, Draft>>
  BY WorkerAndRowsStay DEF CreateList
<1>2. UNCHANGED Queue
  BY DEF CreateList, Queue, JobsOf
<1>3. /\ cmd.list \in ListIds \ DOMAIN list
      /\ DOMAIN list' = DOMAIN list \cup {cmd.list}
      /\ \A k \in DOMAIN list \ {cmd.list} : list'[k] = list[k]
  BY DEF CreateList, CreateCommand, Overlay
<1>4. Contents!SetList
  BY <1>1, <1>2, <1>3 DEF Contents!SetList, Contents!progress
<1> QED
  BY <1>1, <1>4 DEF Implements, Contents!Next

LEMMA UpdateListContents ==
    ASSUME OneWorker, RefInv, NEW c \in Clients, UpdateList(c), UNCHANGED workerVars
    PROVE  Settled' /\ Implements
<1> DEFINE cmd == request[c].cmd
           row == request[c].row
<1>1. /\ Settled' /\ UNCHANGED <<Committed, Taken, Doing, Gathered, Draft>>
  BY WorkerAndRowsStay DEF UpdateList
<1>2. Contents!Queues \/ UNCHANGED Queue
  BY CleanupJobQueues DEF UpdateList
<1>3. /\ cmd.list \in DOMAIN list /\ list[cmd.list].user = cmd.user
      /\ list' = [list EXCEPT ![cmd.list] = Merged(cmd, row)]
      /\ Merged(cmd, row).user = cmd.user
  BY DEF UpdateList, Owns, Merged
<1>4. /\ cmd.list \in ListIds /\ list = [l \in DOMAIN list |-> list[l]]
  BY <1>3 DEF RefInv, TypeInv, TypeOK, DatabaseTypeOK, IsTable
<1> HIDE DEF cmd, row
<1>5. /\ DOMAIN list' = DOMAIN list \cup {cmd.list}
      /\ \A k \in DOMAIN list \ {cmd.list} : list'[k] = list[k]
      /\ list'[cmd.list].user = list[cmd.list].user
  BY <1>3, <1>4
<1>6. Contents!SetList
  BY <1>1, <1>2, <1>4, <1>5 DEF Contents!SetList, Contents!progress
<1> QED
  BY <1>1, <1>6 DEF Implements, Contents!Next

LEMMA QueueOnly ==
    ASSUME OneWorker, RefInv, UNCHANGED <<list, cidr, transactions, workerVars>>,
           Contents!Queues \/ UNCHANGED Queue
    PROVE  Settled' /\ Implements
<1>1. /\ Settled' /\ UNCHANGED <<Committed, Taken, Doing, Gathered, Draft>>
  BY WorkerAndRowsStay
<1>2. CASE Contents!Queues
  <2>1. Contents!QueueJob
    BY <1>1, <1>2 DEF Contents!QueueJob, Contents!progress
  <2> QED
    BY <1>1, <2>1 DEF Implements, Contents!Next
<1>3. CASE UNCHANGED Queue
  BY <1>1, <1>3 DEF Implements, Contents!vars
<1> QED
  BY <1>2, <1>3

LEMMA SameQueue == UNCHANGED job_queue => UNCHANGED Queue
BY DEF Queue, JobsOf

LEMMA ApiContents ==
    ASSUME OneWorker, RefInv, ApiStep, UNCHANGED workerVars
    PROVE  Settled' /\ Implements
<1>1. ASSUME NEW cmd \in Commands, DropList(cmd) PROVE Settled' /\ Implements
  BY <1>1, RowsGoContents DEF DropList, Owns
<1>2. ASSUME NEW cmd \in Commands, EraseCidr(cmd) PROVE Settled' /\ Implements
  BY <1>2, RowsGoContents DEF EraseCidr
<1>3. ASSUME NEW cmd \in Commands, NEW c \in Clients, ReadList(c, cmd)
      PROVE  Settled' /\ Implements
  BY <1>3, QueueOnly, SameQueue DEF ReadList, tables
<1>4. ASSUME NEW c \in Clients, UpdateMissesList(c) PROVE Settled' /\ Implements
  <2>1. Contents!Queues \/ UNCHANGED Queue
    BY <1>4, CleanupJobQueues, SameQueue DEF UpdateMissesList
  <2> QED
    BY <1>4, <2>1, QueueOnly DEF UpdateMissesList
<1>5. ASSUME NEW c \in Clients, QueueJob(c) PROVE Settled' /\ Implements
  BY <1>5, InsertJobQueues, QueueOnly DEF QueueJob
<1> QED
  BY <1>1, <1>2, <1>3, <1>4, <1>5, CreateListContents, UpdateListContents DEF ApiStep

-----------------------------------------------------------------------------
LEMMA InitContents ==
    ASSUME OneWorker, Init
    PROVE  Settled /\ Contents!Init
<1> DEFINE w == TheWorker
<1>0. w \in Workers
  BY WorkerIs
<1>1. /\ stage[w] = "idle" /\ todo[w] = {} /\ batch[w] = {} /\ removed[w] = {}
      /\ DOMAIN written[w] = {} /\ to_delete[w] = {} /\ new_subnets[w] = {}
      /\ job_queue = {}
  BY <1>0, NoRowsTable DEF Init, WorkerInit
<1>2. PlannedRows(w) = DOMAIN cidr
  BY <1>1 DEF PlannedRows, OwnRows, ReplacedRows
<1>3. Draft = Committed
  BY <1>2 DEF Draft, Committed
<1>4. Taken = {} /\ Doing = {} /\ Gathered = {} /\ Queue = {}
  BY <1>1, NotAsking, JobsOfOne DEF Asking, Taken, Doing, Queue
<1>5. Committed \in [ListIds -> SUBSET Addr]
  BY InitTypeInv, WorkerIs, RowsAreKeys, ContentsType DEF Committed
<1>6. ASSUME NEW l \in ListIds, Committed[l] # {} PROVE l \in DOMAIN list
  <2>1. PICK a : HoldsIn(DOMAIN cidr, l, a)
    BY <1>6, CommittedAt
  <2> QED
    BY <2>1, InitLockInv DEF HoldsIn, LockInv, RowsHaveLists
<1>7. DOMAIN list \subseteq ListIds
  BY InitTypeInv DEF TypeInv, TypeOK, DatabaseTypeOK, IsTable
<1> QED
  BY <1>3, <1>4, <1>5, <1>6, <1>7, InitSettled DEF Contents!Init, Contents!Contents

LEMMA StepContents ==
    ASSUME OneWorker, InIdOrder
    PROVE  RefInv /\ TypeInv' /\ [Next]_vars => Settled' /\ Implements
<1> SUFFICES ASSUME RefInv, TypeInv', [Next]_vars PROVE Settled' /\ Implements
  OBVIOUS
<1>1. \A w \in Workers : w = TheWorker
  BY DEF OneWorker
<1>2. CASE ApiNext
  BY <1>2, ApiContents DEF ApiNext
<1>3. ASSUME NEW w \in Workers, WorkerNext(w) PROVE Settled' /\ Implements
  BY <1>1, <1>3, WorkContents DEF WorkerNext
<1>4. ASSUME NEW w \in Workers, WorkerRestart(w) PROVE Settled' /\ Implements
  BY <1>1, <1>4, QuietContents DEF WorkerRestart
<1>5. CASE SchedulerNext
  BY <1>5, RowsGoContents DEF SchedulerNext, DeleteExpired
<1>6. CASE ClockNext
  BY <1>6, QueueOnly, SameQueue DEF ClockNext, Tick, tables
<1>7. ASSUME NEW w \in Workers, WorkerFault(w) PROVE Settled' /\ Implements
  BY <1>1, <1>7, AbortContents DEF WorkerFault, Crash
<1>8. CASE SchedulerFault
  BY <1>8, QueueOnly, SameQueue DEF SchedulerFault, SchedulerDies, tables
<1>9. CASE WebRestart
  BY <1>9, QueueOnly, SameQueue DEF WebRestart, ApiRestart, tables
<1>10. ASSUME NEW w \in Workers, ExpiryDeadlock(w) PROVE Settled' /\ Implements
  <2>1. CASE SchedulerDies /\ UNCHANGED workerVars
    BY <2>1, QueueOnly, SameQueue DEF SchedulerDies, tables
  <2>2. CASE ExpiryWins(w)
    <3>1. \/ UNCHANGED <<list, cidr>>
          \/ UNCHANGED list /\ cidr' = Without(cidr, ExpiredRows)
      BY <2>2 DEF ExpiryWins
    <3> QED
      BY <1>1, <2>2, <3>1, EndsWhileRowsGo DEF ExpiryWins
  <2> QED
    BY <1>10, <2>1, <2>2 DEF ExpiryDeadlock
<1>11. ASSUME NEW w \in Workers, DropDeadlock(w) PROVE Settled' /\ Implements
  <2>1. Ends(TheWorker) /\ UNCHANGED job_queue
    BY <1>1, <1>11 DEF DropDeadlock
  <2>2. PICK l \in DOMAIN list :
            \/ UNCHANGED <<list, cidr>>
            \/ list' = Without(list, {l}) /\ cidr' = Without(cidr, Nets \X {l})
    BY <1>11 DEF DropDeadlock, Owns
  <2> QED
    BY <2>1, <2>2, EndsWhileRowsGo
<1>12. CASE UNCHANGED vars
  BY <1>12, QueueOnly, SameQueue DEF vars, tables
<1> QED
  BY <1>2, <1>3, <1>4, <1>5, <1>6, <1>7, <1>8, <1>9, <1>10, <1>11, <1>12 DEF Next

LEMMA RefInvariance ==
    ASSUME OneWorker, InIdOrder
    PROVE  Spec => []RefInv
<1>1. Init => Settled
  BY InitSettled
<1>2. TypeInv /\ TypeInv' /\ LockInv /\ BatchInv /\ Settled /\ [Next]_vars => Settled'
  BY StepContents DEF RefInv
<1>3. TypeInv /\ LockInv /\ BatchInv /\ Settled => RefInv
  BY DEF RefInv
<1> QED
  BY <1>1, <1>2, <1>3, TypeCorrect, LockInvariance, BatchInvariance, PTL DEF Spec

\* One worker that takes jobs in the order of their ids does to the addresses of
\* the lists what ListContents says: it applies the jobs of a batch one after the
\* other, commits all of them or none, and takes part in nothing else; for any
\* lists, networks and clients, and through crashes, deletes under way and time
\* (_process_jobs, worker.py, lines 357-368).
THEOREM JobsAreAppliedInOrder ==
    ASSUME OneWorker, InIdOrder
    PROVE  Spec => BatchesApplyJobs
<1>1. Init => Contents!Init
  BY InitContents
<1>2. RefInv /\ TypeInv' /\ [Next]_vars => [Contents!Next]_(Contents!vars)
  BY StepContents DEF Implements
<1> QED
  BY <1>1, <1>2, TypeCorrect, RefInvariance, PTL DEF Spec, BatchesApplyJobs, Contents!Spec

-----------------------------------------------------------------------------
(* What the jobs of a batch have done to its draft.                        *)

\* The jobs of the batch whose last query is answered.
Done == Taken \ Doing

\* The jobs of ListContents are those of the queue, with ids of their own.
LEMMA ContentsJobs ==
    ASSUME OneWorker, RefInv
    PROVE  /\ Doing \subseteq Taken
           /\ \A j, k \in Taken : j.id = k.id => j = k
           /\ \A j \in Taken : /\ j.id \in Nat /\ j.list \in ListIds
                             /\ j.type \in ListType /\ j.action \in Action
           /\ Draft \in [ListIds -> SUBSET Addr]
<1> DEFINE w == TheWorker
<1>1. batch[w] \subseteq job_queue /\ todo[w] \subseteq batch[w]
  BY WorkerIs DEF RefInv, LockInv, LocksExclusive
<1>2. stage[w] \in Asking => job[w] \in batch[w]
  BY WorkerIs DEF RefInv, BatchInv, WorkerShape, ShapeOf, InJob, Asking
<1>3. Unanswered(w) \subseteq batch[w]
  BY <1>1, <1>2 DEF Unanswered, Asking
<1>4. Doing \subseteq Taken
  BY <1>3 DEF Doing, Taken, JobsOf
<1>5. \A j : /\ CarriedBy(j).id = j.id /\ CarriedBy(j).list = j.list
             /\ CarriedBy(j).type = j.type /\ CarriedBy(j).action = j.action
  BY DEF CarriedBy
<1>6. \A j, k \in batch[w] : /\ j.id = k.id => j = k
                             /\ j.id \in Nat /\ j.list \in ListIds
                             /\ j.type \in ListType /\ j.action \in Action
  BY <1>1 DEF RefInv, BatchInv, JobsDistinct, TypeInv, TypeOK, DatabaseTypeOK, Job
<1>7. \A j, k \in Taken : j.id = k.id => j = k
  BY <1>5, <1>6 DEF Taken, JobsOf
<1>8. \A j \in Taken : /\ j.id \in Nat /\ j.list \in ListIds
                      /\ j.type \in ListType /\ j.action \in Action
  BY <1>5, <1>6 DEF Taken, JobsOf
<1> QED
  BY <1>4, <1>7, <1>8, DraftType DEF RefInv

\* Jobs are done in the order of their ids, and what a DELETE job that is done
\* took away only comes back with a later job.
InOrder == \A j \in Done, k \in Doing : j.id < k.id

DeletesLast ==
    \A j \in Done : j.action = "delete" =>
        \A a \in j.addrs \cap Draft[j.list] :
            \E k \in Done : /\ k.action = "add" /\ k.list = j.list /\ k.id > j.id
                            /\ a \in k.addrs

LEMMA InOrderStep ==
    ASSUME OneWorker, RefInv, InOrder, Implements
    PROVE  InOrder'
<1>1. /\ Doing \subseteq Taken /\ \A j \in Taken : j.id \in Nat
      /\ \A j, k \in Taken : j.id = k.id => j = k
  BY ContentsJobs
<1> HIDE DEF Taken, Doing, Queue, Gathered, Draft, Committed
<1>2. CASE UNCHANGED <<Taken, Doing>>
  BY <1>2 DEF InOrder, Done
<1>3. CASE Doing' = Taken' \/ Taken' = {}
  BY <1>3 DEF InOrder, Done
<1>4. ASSUME NEW j \in Doing, Contents!First(j), Doing' = Doing \ {j}, UNCHANGED Taken
      PROVE  InOrder'
  <2>1. \A k \in Doing \ {j} : j.id < k.id
    BY <1>1, <1>4 DEF Contents!First
  <2> QED
    BY <1>1, <1>4, <2>1 DEF InOrder, Done
<1> QED
  BY <1>2, <1>3, <1>4
     DEF Implements, Contents!Next, Contents!vars, Contents!QueueJob, Contents!SetList,
         Contents!LoseAddresses, Contents!Take, Contents!Apply, Contents!Gather,
         Contents!CleanUp, Contents!Commit, Contents!Abandon, Contents!progress

\* What applying a job does to one address of one list.
LEMMA AppliedAt ==
    ASSUME Draft \in [ListIds -> SUBSET Addr],
           NEW c, c.list \in ListIds, c.type \in ListType,
           NEW l \in ListIds, NEW a
    PROVE  /\ c.action = "delete" =>
                  (a \in Contents!Applied(c)[l] <=>
                       a \in Draft[l] /\ (l = c.list => a \notin c.addrs))
           /\ c.action = "add" /\ c.type = "DENY" =>
                  (a \in Contents!Applied(c)[l] <=>
                       \/ a \in Draft[l]
                       \/ /\ l = c.list /\ a \in c.addrs
                          /\ \A s \in EnabledLists(c.user, "SAFE") : a \notin Draft[s])
           /\ c.action = "add" /\ c.type = "SAFE" =>
                  (a \in Contents!Applied(c)[l] <=>
                       \/ /\ a \in Draft[l]
                          /\ c.enabled /\ l \in EnabledLists(c.user, "DENY")
                                 => a \notin c.addrs
                       \/ l = c.list /\ a \in c.addrs)
<1>1. ASSUME c.action = "delete"
      PROVE  a \in Contents!Applied(c)[l] <=>
                 a \in Draft[l] /\ (l = c.list => a \notin c.addrs)
  <2>1. Contents!Applied(c) = [Draft EXCEPT ![c.list] = @ \ c.addrs]
    BY <1>1 DEF Contents!Applied
  <2> HIDE DEF Draft
  <2> QED
    BY <2>1
<1>2. ASSUME c.action = "add", c.type = "DENY"
      PROVE  a \in Contents!Applied(c)[l] <=>
                 \/ a \in Draft[l]
                 \/ /\ l = c.list /\ a \in c.addrs
                    /\ \A s \in EnabledLists(c.user, "SAFE") : a \notin Draft[s]
  <2> DEFINE safe == UNION {Draft[s] : s \in EnabledLists(c.user, "SAFE")}
  <2>1. Contents!Applied(c) = [Draft EXCEPT ![c.list] = @ \cup (c.addrs \ safe)]
    BY <1>2, EnabledSame DEF Contents!Applied, Contents!With
  <2>2. a \in safe <=> \E s \in EnabledLists(c.user, "SAFE") : a \in Draft[s]
    OBVIOUS
  <2> HIDE DEF Draft, safe
  <2> QED
    BY <2>1, <2>2
<1>3. ASSUME c.action = "add", c.type = "SAFE"
      PROVE  a \in Contents!Applied(c)[l] <=>
                 \/ /\ a \in Draft[l]
                    /\ c.enabled /\ l \in EnabledLists(c.user, "DENY")
                           => a \notin c.addrs
                 \/ l = c.list /\ a \in c.addrs
  <2> DEFINE g == IF c.enabled THEN Contents!Cleaned(c.user, c.addrs) ELSE Draft
  <2>1. Contents!Applied(c) = [g EXCEPT ![c.list] = @ \cup c.addrs]
    BY <1>3 DEF Contents!Applied, Contents!With
  <2>2. /\ DOMAIN g = ListIds
        /\ a \in g[l] <=> /\ a \in Draft[l]
                          /\ c.enabled /\ l \in EnabledLists(c.user, "DENY")
                                 => a \notin c.addrs
    BY EnabledSame DEF Contents!Cleaned
  <2> HIDE DEF Draft, g
  <2> QED
    BY <2>1, <2>2
<1> QED
  BY <1>1, <1>2, <1>3

LEMMA CleanedAt ==
    ASSUME Draft \in [ListIds -> SUBSET Addr], NEW user, NEW A, NEW l \in ListIds, NEW a
    PROVE  a \in Contents!Cleaned(user, A)[l] <=>
               a \in Draft[l] /\ (l \in EnabledLists(user, "DENY") => a \notin A)
BY EnabledSame DEF Contents!Cleaned

LEMMA DeletesLastStep ==
    ASSUME OneWorker, RefInv, InOrder, DeletesLast, Implements
    PROVE  DeletesLast'
<1>1. /\ Doing \subseteq Taken
      /\ \A j \in Taken : /\ j.id \in Nat /\ j.list \in ListIds
                          /\ j.type \in ListType /\ j.action \in Action
      /\ Draft \in [ListIds -> SUBSET Addr]
  BY ContentsJobs
<1> HIDE DEF Taken, Doing, Queue, Gathered, Draft, Committed
<1>2. CASE UNCHANGED <<Taken, Doing>> /\ \A l \in ListIds : Draft'[l] \subseteq Draft[l]
  BY <1>1, <1>2 DEF DeletesLast, Done
<1>3. CASE Doing' = Taken' \/ Taken' = {}
  BY <1>3 DEF DeletesLast, Done
<1>4. CASE Contents!Apply
  <2>1. PICK c \in Doing : /\ Contents!First(c)
                           /\ c.action \in {"add", "delete"}
                           /\ Doing' = Doing \ {c}
                           /\ Draft' = Contents!Applied(c)
    BY <1>4 DEF Contents!Apply
  <2>2. UNCHANGED Taken
    BY <1>4 DEF Contents!Apply
  <2>3. c \in Taken /\ Done' = Done \cup {c}
    BY <1>1, <2>1, <2>2 DEF Done
  <2>4. ASSUME NEW l \in ListIds, NEW a \in Draft'[l]
        PROVE  \/ a \in Draft[l]
               \/ c.action = "add" /\ l = c.list /\ a \in c.addrs
    BY <1>1, <2>1, <2>3, <2>4, AppliedAt DEF ListType
  <2>5. c.action = "delete" => \A a \in Draft'[c.list] : a \notin c.addrs
    BY <1>1, <2>1, <2>3, AppliedAt
  <2>6. ASSUME NEW j \in Done', j.action = "delete", NEW a \in j.addrs, a \in Draft'[j.list]
        PROVE  \E k \in Done' : /\ k.action = "add" /\ k.list = j.list /\ k.id > j.id
                                /\ a \in k.addrs
    <3>1. j \in Done /\ j.list \in ListIds
      BY <1>1, <2>3, <2>5, <2>6 DEF Done
    <3>2. CASE a \in Draft[j.list]
      BY <2>3, <2>6, <3>1, <3>2 DEF DeletesLast
    <3>3. CASE c.action = "add" /\ j.list = c.list /\ a \in c.addrs
      <4>1. j.id < c.id /\ j.id \in Nat /\ c.id \in Nat
        BY <1>1, <2>3, <3>1 DEF InOrder, Done
      <4> QED
        BY <2>3, <3>3, <4>1
    <3> QED
      BY <2>4, <2>6, <3>1, <3>2, <3>3
  <2> QED
    BY <2>6 DEF DeletesLast
<1>5. CASE Contents!CleanUp
  <2>1. PICK c \in Doing, A \in Gathered : /\ c.action = "update"
                                           /\ Doing' = Doing \ {c}
                                           /\ Draft' = Contents!Cleaned(c.user, A)
    BY <1>5 DEF Contents!CleanUp
  <2>2. UNCHANGED Taken
    BY <1>5 DEF Contents!CleanUp
  <2>3. c \in Taken /\ Done' = Done \cup {c}
    BY <1>1, <2>1, <2>2 DEF Done
  <2>4. \A l \in ListIds : Draft'[l] \subseteq Draft[l]
    BY <1>1, <2>1, CleanedAt
  <2> QED
    BY <1>1, <2>1, <2>3, <2>4 DEF DeletesLast, Done
<1> QED
  BY <1>2, <1>3, <1>4, <1>5
     DEF Implements, Contents!Next, Contents!vars, Contents!QueueJob, Contents!SetList,
         Contents!LoseAddresses, Contents!Take, Contents!Gather, Contents!Commit,
         Contents!Abandon, Contents!progress

LEMMA DeletesInvariance ==
    ASSUME OneWorker, InIdOrder
    PROVE  Spec => [](RefInv /\ InOrder /\ DeletesLast)
<1>1. Init => InOrder /\ DeletesLast
  <2>1. Contents!Init => InOrder /\ DeletesLast
    BY DEF Contents!Init, InOrder, DeletesLast, Done
  <2> QED
    BY <2>1, InitContents
<1>2. RefInv /\ TypeInv' /\ InOrder /\ DeletesLast /\ [Next]_vars
          => InOrder' /\ DeletesLast'
  BY StepContents, InOrderStep, DeletesLastStep
<1> QED
  BY <1>1, <1>2, TypeCorrect, RefInvariance, PTL DEF Spec

\* What a commit leaves in a list is what the draft holds.
LEMMA CommittedRows ==
    ASSUME OneWorker, RefInv, Commit(TheWorker), NEW l \in ListIds
    PROVE  AddressesOf(cidr', {l}) = Draft[l]
<1>1. DOMAIN cidr' = PlannedRows(TheWorker)
  BY WorkerIs, ViewIsPlanned DEF Commit, RefInv
<1>2. AddressesOf(cidr', {l}) = UNION {ContentsOf(DOMAIN cidr')[k] : k \in {l}}
  <2>1. \A rows : AddressesOf(rows, {l}) = UNION {ContentsOf(DOMAIN rows)[k] : k \in {l}}
    BY AddressesAreContents
  <2> QED
    BY <2>1
<1>3. \A f : UNION {f[k] : k \in {l}} = f[l]
  OBVIOUS
<1> QED
  BY <1>1, <1>2, <1>3 DEF Draft

\* The batch that is committed is done.
LEMMA BatchDone ==
    ASSUME OneWorker, RefInv, Commit(TheWorker)
    PROVE  Done = JobsOf(batch[TheWorker])
<1>1. Doing = {}
  BY NotAsking, JobsOfOne DEF Commit, Asking, Doing
<1> QED
  BY <1>1 DEF Done, Taken

\* When a DELETE job is done none of its addresses is left in its list, whatever
\* other jobs of the batch, requests and expiry did to its rows meanwhile, unless
\* a later job of the batch adds it; with one worker that takes the jobs in order
\* (delete_cidrs, worker.py, lines 270-283).
THEOREM DeletedAddressesAreGone ==
    ASSUME OneWorker, InIdOrder
    PROVE  Spec => DeleteTakesEffect
<1>1. ASSUME RefInv, DeletesLast, [Next]_vars, NEW w \in Workers, Commits(w),
             NEW j \in batch[w], j.action = "delete", NEW a \in Cover(j.cidrs),
             a \in AddressesOf(cidr', {j.list})
      PROVE  Later(w, j, "add", a)
  <2>1. w = TheWorker /\ Commit(w)
    BY <1>1, CommitsIsCommit DEF OneWorker, RefInv
  <2>2. batch[w] \subseteq Job
    BY <1>1 DEF RefInv, TypeInv, TypeOK, DatabaseTypeOK
  <2>3. a \in Cover(Parsed(j)) /\ j.list \in ListIds
    BY <1>1, <2>2, CoverParsed DEF Job
  <2>4. a \in Draft[j.list]
    BY <1>1, <2>1, <2>3, CommittedRows
  <2>5. \A k : /\ CarriedBy(k).id = k.id /\ CarriedBy(k).list = k.list
               /\ CarriedBy(k).action = k.action
               /\ CarriedBy(k).addrs = Cover(Parsed(k))
    BY DEF CarriedBy
  <2>6. CarriedBy(j) \in Done
    BY <1>1, <2>1, BatchDone DEF JobsOf
  <2>7. PICK x \in Done : /\ x.action = "add" /\ x.list = j.list /\ x.id > j.id
                          /\ a \in x.addrs
    BY <1>1, <2>3, <2>4, <2>5, <2>6 DEF DeletesLast
  <2>8. PICK k \in batch[w] : x = CarriedBy(k)
    BY <1>1, <2>1, <2>7, BatchDone DEF JobsOf
  <2>9. a \in Cover(k.cidrs)
    BY <2>2, <2>5, <2>7, <2>8, CoverParsed
  <2> QED
    BY <2>5, <2>7, <2>8, <2>9 DEF Later
<1>2. RefInv /\ InOrder /\ DeletesLast /\ [Next]_vars =>
          \A w \in Workers : Commits(w) =>
              \A j \in batch[w] : j.action = "delete" =>
                  \A a \in Cover(j.cidrs) :
                      a \in AddressesOf(cidr', {j.list}) => Later(w, j, "add", a)
  BY <1>1
<1> QED
  BY <1>2, DeletesInvariance, PTL DEF Spec, DeleteTakesEffect

LEMMA ListIdsOfLists == RefInv => DOMAIN list \subseteq ListIds
BY DEF RefInv, TypeInv, TypeOK, DatabaseTypeOK, IsTable
=============================================================================
