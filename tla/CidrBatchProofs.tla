--------------------------- MODULE CidrBatchProofs ---------------------------
(***************************************************************************)
(* What the worker's functions on networks return, what a worker has at    *)
(* hand between two queries, and what a batch does to the expiry of rows.  *)
(***************************************************************************)
EXTENDS CidrStateProofs

-----------------------------------------------------------------------------
(* Networks.                                                               *)

\* Collapsing loses no address and adds none.
LEMMA CoverCollapsed ==
    ASSUME NEW A \in SUBSET Addr
    PROVE  Cover(Collapsed(A)) = A
<1>1. Cover(Collapsed(A)) \subseteq A
  BY DEF Cover, Collapsed
<1>2. ASSUME NEW a \in A PROVE a \in Cover(Collapsed(A))
  <2> DEFINE Largest(n, B, b) == /\ b \in n /\ n \subseteq B
                                 /\ \A m \in Nets : n \subseteq m /\ m \subseteq B => m = n
  <2>1. \A B \in SUBSET Addr : \A b \in B : \E n \in Nets : Largest(n, B, b)
    BY NetsAssumption
  <2> HIDE DEF Largest
  <2>2. PICK n \in Nets : Largest(n, A, a)
    BY <2>1
  <2>3. n \in Collapsed(A)
    BY <2>2 DEF Collapsed, Largest
  <2> QED
    BY <2>2, <2>3 DEF Cover, Largest
<1> QED
  BY <1>1, <1>2

\* address_exclude_many leaves exactly the addresses outside the exclusion, and
\* returns the network itself if and only if nothing of it is excluded.
LEMMA ExcludeManyExact ==
    ASSUME NEW n \in Nets, NEW E
    PROVE  /\ Cover(AddressExcludeMany(n, E)) = n \ E
           /\ AddressExcludeMany(n, E) = {n} <=> n \cap E = {}
<1>1. n \ E \in SUBSET Addr
  BY NetsAssumption
<1>2. Cover(AddressExcludeMany(n, E)) = n \ E
  BY <1>1, CoverCollapsed DEF AddressExcludeMany
<1>3. ASSUME n \cap E = {} PROVE AddressExcludeMany(n, E) = {n}
  <2>1. n \ E = n
    BY <1>3
  <2> QED
    BY <2>1 DEF AddressExcludeMany, Collapsed
<1>4. ASSUME AddressExcludeMany(n, E) = {n} PROVE n \cap E = {}
  BY <1>2, <1>4 DEF Cover
<1> QED
  BY <1>2, <1>3, <1>4

\* parse_raw_cidrs keeps the addresses of a DELETE job, and all a worker goes on
\* with are addresses the job carries.
LEMMA CoverParsed ==
    ASSUME NEW j \in Job
    PROVE  /\ Cover(Parsed(j)) \subseteq Cover(j.cidrs)
           /\ j.action # "add" => Cover(Parsed(j)) = Cover(j.cidrs)
<1>1. j.cidrs \in SUBSET Nets
  BY DEF Job
<1>2. Cover(j.cidrs) \in SUBSET Addr /\ Cover(j.cidrs \ NonGlobal) \in SUBSET Addr
  BY <1>1, NetworksType
<1>3. /\ Cover(Collapsed(Cover(j.cidrs))) = Cover(j.cidrs)
      /\ Cover(Collapsed(Cover(j.cidrs \ NonGlobal))) = Cover(j.cidrs \ NonGlobal)
  BY <1>2, CoverCollapsed
<1>4. Cover(j.cidrs \ NonGlobal) \subseteq Cover(j.cidrs)
  BY DEF Cover
<1>5. CASE j.action = "add"
  BY <1>3, <1>4, <1>5 DEF Parsed, Cover
<1>6. CASE j.action # "add"
  BY <1>3, <1>6 DEF Parsed
<1> QED
  BY <1>5, <1>6

-----------------------------------------------------------------------------
(* What a worker has at hand between two queries.                          *)

\* The serial of job_queue gives every job an id of its own.
JobsDistinct ==
    /\ \A j \in job_queue : j.id < next_id
    /\ \A j, k \in job_queue : j.id = k.id => j = k

InJob == {"filter", "safelist", "clean", "trim", "write"}

\* A worker without a batch has written nothing; rows to write are left only
\* while it writes; the job in progress is of its batch, before the jobs left,
\* and what a query is about to use was computed from that job.
ShapeOf(w) ==
    /\ stage[w] \in {"idle", "dead"} =>
           /\ batch[w] = {} /\ todo[w] = {}
           /\ removed[w] = {} /\ DOMAIN written[w] = {}
    /\ stage[w] # "write" => to_delete[w] = {} /\ new_subnets[w] = {}
    /\ stage[w] \notin {"filter", "clean", "write"} => adding[w] = {}
    /\ stage[w] = "filter" =>
           job[w].action = "add" /\ job[w].type = "DENY" /\ adding[w] = Parsed(job[w])
    /\ stage[w] = "safelist" => job[w].action = "update"
    /\ stage[w] = "clean" =>
           \/ job[w].action = "update" /\ adding[w] = {}
           \/ /\ job[w].action = "add" /\ job[w].type = "SAFE" /\ job[w].enabled
              /\ adding[w] = Parsed(job[w]) /\ exclusion[w] = Cover(Parsed(job[w]))
    /\ stage[w] = "trim" =>
           job[w].action = "delete" /\ exclusion[w] = Cover(Parsed(job[w]))
    /\ stage[w] \in InJob =>
           /\ job[w] \in batch[w] \ todo[w]
           /\ InIdOrder => \A k \in todo[w] : job[w].id <= k.id
    /\ adding[w] # {} =>
           job[w].action = "add" /\ Cover(adding[w]) \subseteq Cover(Parsed(job[w]))

WorkerShape == \A w \in Workers : ShapeOf(w)

BatchInv == JobsDistinct /\ WorkerShape

\* The private state of worker v does not change.
Stays(v) ==
    /\ UNCHANGED <<batch[v], removed[v], written[v], stage[v], todo[v], job[v]>>
    /\ UNCHANGED <<adding[v], exclusion[v], to_delete[v], new_subnets[v]>>

LEMMA InitBatchInv == Init => BatchInv
BY NoRowsTable
   DEF Init, WorkerInit, ApiInit, BatchInv, JobsDistinct, WorkerShape, ShapeOf, InJob

LEMMA StaysShape ==
    ASSUME NEW v, ShapeOf(v), Stays(v)
    PROVE  ShapeOf(v)'
BY DEF ShapeOf, Stays

\* A step of one worker leaves the others' private state alone.
LEMMA WorkStays ==
    ASSUME TypeInv, NEW w \in Workers, Work(w) \/ Ends(w), NEW v \in Workers \ {w}
    PROVE  Stays(v)
<1> USE DEF TypeInv, TypeOK, DatabaseTypeOK, WorkerTypeOK, Stays, Goto,
            transactions, progress, writes
<1>1. CASE Ends(w)
  BY <1>1 DEF Ends, Rollback
<1>2. CASE Poll(w) \/ EndJob(w) \/ AddOwnRows(w)
  BY <1>2 DEF Poll, EndJob, AddOwnRows
<1>3. CASE Begin(w)
  BY <1>3 DEF Begin
<1>4. CASE FilterSafeCidrs(w) \/ ReadSafelist(w)
  BY <1>4 DEF FilterSafeCidrs, ReadSafelist
<1>5. CASE CleanDenylists(w) \/ TrimList(w)
  BY <1>5 DEF CleanDenylists, TrimList, DeleteExcluded
<1>6. ASSUME NEW k, DeleteRow(w, k) \/ WaitForRow(w, k) PROVE Stays(v)
  BY <1>6 DEF DeleteRow, WaitForRow
<1>7. ASSUME NEW row, UpsertRow(w, row) PROVE Stays(v)
  BY <1>7 DEF UpsertRow
<1>8. CASE Commit(w)
  BY <1>8 DEF Commit
<1>9. CASE ForeignKeyViolation(w) \/ DeadlockAbort(w)
  BY <1>1, <1>9 DEF ForeignKeyViolation, DeadlockAbort, Abort
<1> QED
  BY <1>1, <1>2, <1>3, <1>4, <1>5, <1>6, <1>7, <1>8, <1>9 DEF Work

LEMMA EndsShape ==
    ASSUME TypeInv, NEW w \in Workers, Ends(w)
    PROVE  ShapeOf(w)'
BY NoRowsTable DEF Ends, Rollback, Goto, TypeInv, TypeOK, DatabaseTypeOK,
                   WorkerTypeOK, ShapeOf, InJob

LEMMA BeginShape ==
    ASSUME TypeInv, LockInv, NEW w \in Workers, ShapeOf(w), Begin(w)
    PROVE  ShapeOf(w)'
<1>1. PICK j \in Candidates(w) :
          /\ todo' = [todo EXCEPT ![w] = @ \ {j}]
          /\ job' = [job EXCEPT ![w] = IF FirstQuery(j) = "next" THEN NoJob ELSE j]
          /\ stage' = [stage EXCEPT ![w] = FirstQuery(j)]
          /\ adding' = [adding EXCEPT ![w] = IF j.action = "add" THEN Parsed(j) ELSE {}]
          /\ exclusion' = [exclusion EXCEPT ![w] =
                 IF FirstQuery(j) \in {"clean", "trim"} THEN Cover(Parsed(j)) ELSE {}]
  BY DEF Begin, Goto
<1>2. /\ stage[w] = "next"
      /\ UNCHANGED <<batch, removed, written, to_delete, new_subnets>>
  BY DEF Begin, transactions, writes
<1>3. /\ stage'[w] = FirstQuery(j) /\ todo'[w] = todo[w] \ {j}
      /\ adding'[w] = IF j.action = "add" THEN Parsed(j) ELSE {}
      /\ FirstQuery(j) # "next" => job'[w] = j
      /\ FirstQuery(j) \in {"clean", "trim"} => exclusion'[w] = Cover(Parsed(j))
  BY <1>1 DEF TypeInv, TypeOK, WorkerTypeOK
<1>4. /\ j \in todo[w] /\ j \in batch[w] /\ j \in Job
      /\ InIdOrder => \A k \in todo[w] : j.id <= k.id
  BY DEF Candidates, LockInv, LocksExclusive, TypeInv, TypeOK, WorkerTypeOK
<1>5. FirstQuery(j) \in {"next", "filter", "safelist", "clean", "trim", "write"}
  BY <1>4, FirstQueryType
<1>6. CASE FirstQuery(j) = "next"
  <2>1. Parsed(j) = {} \/ j.action # "add"
    BY <1>4, <1>6 DEF FirstQuery, Job, Action
  <2>2. adding'[w] = {}
    BY <1>3, <2>1
  <2> QED
    BY <1>2, <1>3, <1>6, <2>2 DEF ShapeOf, InJob
<1>7. CASE FirstQuery(j) # "next"
  <2>1. /\ FirstQuery(j) = "filter" => j.action = "add" /\ j.type = "DENY"
        /\ FirstQuery(j) = "safelist" => j.action = "update"
        /\ FirstQuery(j) = "clean" => j.action = "add" /\ j.type = "SAFE" /\ j.enabled
        /\ FirstQuery(j) = "trim" => j.action = "delete"
        /\ FirstQuery(j) = "write" => j.action = "add"
    BY <1>4 DEF FirstQuery, Job, Action, ListType
  <2>2. job'[w] = j
    BY <1>3, <1>7
  <2> QED
    BY <1>2, <1>3, <1>4, <1>5, <1>7, <2>1, <2>2 DEF ShapeOf, InJob
<1> QED
  BY <1>6, <1>7

LEMMA FilterShape ==
    ASSUME TypeInv, NEW w \in Workers, ShapeOf(w), FilterSafeCidrs(w)
    PROVE  /\ ShapeOf(w)'
           /\ Cover(adding'[w]) =
                  Cover(Parsed(job[w]))
                      \ AddressesOf(View(w), EnabledLists(job[w].user, "SAFE"))
<1> DEFINE safe == AddressesOf(View(w), EnabledLists(job[w].user, "SAFE"))
           left == UNION {Cover(AddressExcludeMany(n, safe)) : n \in adding[w]}
<1>1. /\ stage[w] = "filter" /\ stage'[w] = "write" /\ adding'[w] = Collapsed(left)
      /\ UNCHANGED <<batch, removed, written, todo, job, exclusion, to_delete, new_subnets>>
  BY DEF FilterSafeCidrs, Goto, transactions, writes, TypeInv, TypeOK, WorkerTypeOK
<1>2. adding[w] = Parsed(job[w]) /\ adding[w] \in SUBSET Nets
  BY <1>1 DEF ShapeOf, TypeInv, TypeOK, WorkerTypeOK
<1>3. \A n \in adding[w] : Cover(AddressExcludeMany(n, safe)) = n \ safe
  BY <1>2, ExcludeManyExact
<1>4. left = Cover(adding[w]) \ safe
  <2> HIDE DEF safe
  <2>1. left = UNION {n \ safe : n \in adding[w]}
    BY <1>3
  <2> QED
    BY <2>1 DEF Cover
<1>5. left \in SUBSET Addr
  BY <1>2, <1>4, NetworksType
<1>6. Cover(adding'[w]) = Cover(Parsed(job[w])) \ safe
  BY <1>1, <1>2, <1>4, <1>5, CoverCollapsed
<1>7. ShapeOf(w)'
  BY <1>1, <1>6 DEF ShapeOf, InJob
<1> QED
  BY <1>6, <1>7

LEMMA WorkShape ==
    ASSUME TypeInv, LockInv, NEW w \in Workers, ShapeOf(w), Work(w)
    PROVE  ShapeOf(w)'
<1> USE DEF Goto, transactions, progress, writes
<1>0. /\ stage \in [Workers -> Stage] /\ adding \in [Workers -> SUBSET Nets]
      /\ to_delete \in [Workers -> SUBSET Key]
      /\ new_subnets \in [Workers -> SUBSET (Key \X Expiry)]
      /\ exclusion \in [Workers -> SUBSET Addr]
      /\ DOMAIN job = Workers /\ DOMAIN todo = Workers /\ DOMAIN batch = Workers
      /\ DOMAIN removed = Workers /\ DOMAIN written = Workers
  BY DEF TypeInv, TypeOK, WorkerTypeOK, DatabaseTypeOK
<1>1. CASE Poll(w)
  BY <1>0, <1>1 DEF Poll, ShapeOf, InJob
<1>2. CASE ReadSafelist(w)
  BY <1>0, <1>2 DEF ReadSafelist, ShapeOf, InJob
<1>3. CASE CleanDenylists(w) \/ TrimList(w)
  BY <1>0, <1>3 DEF CleanDenylists, TrimList, DeleteExcluded, ShapeOf, InJob
<1>4. ASSUME NEW k, DeleteRow(w, k) \/ WaitForRow(w, k) PROVE ShapeOf(w)'
  BY <1>0, <1>4 DEF DeleteRow, WaitForRow, Sends, ShapeOf, InJob
<1>5. ASSUME NEW row, UpsertRow(w, row) PROVE ShapeOf(w)'
  BY <1>0, <1>5 DEF UpsertRow, Sends, ShapeOf, InJob
<1>6. CASE AddOwnRows(w)
  BY <1>0, <1>6 DEF AddOwnRows, ShapeOf, InJob
<1>7. CASE EndJob(w)
  BY <1>0, <1>7 DEF EndJob, ShapeOf, InJob
<1>8. CASE Commit(w)
  BY <1>0, <1>8, NoRowsTable DEF Commit, ShapeOf, InJob
<1>9. CASE ForeignKeyViolation(w) \/ DeadlockAbort(w)
  BY <1>9, EndsShape DEF ForeignKeyViolation, DeadlockAbort, Abort
<1> QED
  BY <1>1, <1>2, <1>3, <1>4, <1>5, <1>6, <1>7, <1>8, <1>9, BeginShape, FilterShape
     DEF Work

\* An id is given once, and jobs only leave the queue after that.
LEMMA FewerJobs ==
    ASSUME JobsDistinct, job_queue' \subseteq job_queue, UNCHANGED next_id
    PROVE  JobsDistinct'
BY DEF JobsDistinct

LEMMA InsertJobDistinct ==
    ASSUME TypeInv, JobsDistinct,
           NEW action, NEW row, NEW cmd, NEW cidrs, NEW ttl,
           InsertJob(action, row, cmd, cidrs, ttl)
    PROVE  JobsDistinct'
<1>1. /\ next_id' = next_id + 1 /\ next_id \in Nat
      /\ \A j \in job_queue' : j \in job_queue \/ j.id = next_id
      /\ \A j, k \in job_queue' \ job_queue : j = k
      /\ \A j \in job_queue : j.id \in Nat
  BY DEF InsertJob, TypeInv, TypeOK, ApiTypeOK, DatabaseTypeOK, Job
<1> QED
  BY <1>1 DEF JobsDistinct

LEMMA ApiDistinct ==
    ASSUME TypeInv, JobsDistinct, ApiStep
    PROVE  JobsDistinct'
<1>1. ASSUME NEW cmd \in Commands, CreateList(cmd) \/ DropList(cmd) \/ EraseCidr(cmd)
      PROVE  JobsDistinct'
  BY <1>1, FewerJobs DEF CreateList, DropList, EraseCidr, apiVars
<1>2. ASSUME NEW cmd \in Commands, NEW c \in Clients, ReadList(c, cmd)
      PROVE  JobsDistinct'
  BY <1>2, FewerJobs DEF ReadList, tables
<1>3. ASSUME NEW c \in Clients, UpdateList(c) \/ UpdateMissesList(c) \/ QueueJob(c)
      PROVE  JobsDistinct'
  BY <1>3, FewerJobs, InsertJobDistinct
     DEF UpdateList, UpdateMissesList, QueueJob, CleanupJob
<1> QED
  BY <1>1, <1>2, <1>3 DEF ApiStep

\* What a step of a worker does to the queue.
LEMMA WorkQueue ==
    ASSUME NEW w \in Workers, Work(w)
    PROVE  job_queue' \subseteq job_queue
BY DEF Work, Poll, Begin, FilterSafeCidrs, ReadSafelist, CleanDenylists, TrimList,
       DeleteExcluded, DeleteRow, UpsertRow, WaitForRow, AddOwnRows, EndJob, Commit,
       ForeignKeyViolation, DeadlockAbort, Abort, tables

LEMMA StepBatchInv == TypeInv /\ LockInv /\ BatchInv /\ [Next]_vars => BatchInv'
<1> SUFFICES ASSUME TypeInv, LockInv, BatchInv, [Next]_vars PROVE BatchInv'
  OBVIOUS
<1> USE DEF BatchInv
<1>1. ASSUME UNCHANGED <<transactions, workerVars>> PROVE WorkerShape'
  BY <1>1 DEF WorkerShape, ShapeOf, transactions, workerVars, progress, writes
<1>2. ASSUME NEW w \in Workers, Work(w) \/ Ends(w) PROVE WorkerShape'
  BY <1>2, WorkStays, StaysShape, WorkShape, EndsShape DEF WorkerShape
<1>3. CASE ApiNext
  <2>1. UNCHANGED <<transactions, workerVars>>
    BY <1>3, ApiStepType DEF ApiNext, TypeInv
  <2> QED
    BY <1>1, <1>3, <2>1, ApiDistinct DEF ApiNext
<1>4. ASSUME NEW w \in Workers, WorkerNext(w) PROVE BatchInv'
  BY <1>2, <1>4, WorkQueue, FewerJobs DEF WorkerNext, apiVars
<1>5. ASSUME NEW w \in Workers, WorkerRestart(w) PROVE BatchInv'
  <2>1. JobsDistinct'
    BY <1>5, FewerJobs DEF WorkerRestart, Restart, tables, apiVars
  <2>2. WorkerShape'
    BY <1>5 DEF WorkerRestart, Restart, Goto, transactions, progress, writes,
                WorkerShape, ShapeOf, InJob, TypeInv, TypeOK, WorkerTypeOK
  <2> QED
    BY <2>1, <2>2
<1>6. CASE SchedulerNext
  BY <1>1, <1>6, FewerJobs DEF SchedulerNext, DeleteExpired, apiVars
<1>7. CASE ClockNext
  BY <1>1, <1>7, FewerJobs DEF ClockNext, Tick, tables, apiVars
<1>8. ASSUME NEW w \in Workers, WorkerFault(w) PROVE BatchInv'
  BY <1>2, <1>8, FewerJobs DEF WorkerFault, Crash, Abort, tables, apiVars
<1>9. CASE SchedulerFault
  BY <1>1, <1>9, FewerJobs DEF SchedulerFault, SchedulerDies, tables, apiVars
<1>10. CASE WebRestart
  BY <1>1, <1>10, FewerJobs DEF WebRestart, ApiRestart, tables
<1>11. ASSUME NEW w \in Workers, ExpiryDeadlock(w) PROVE BatchInv'
  BY <1>1, <1>2, <1>11, FewerJobs
     DEF ExpiryDeadlock, ExpiryWins, SchedulerDies, tables, apiVars
<1>12. ASSUME NEW w \in Workers, DropDeadlock(w) PROVE BatchInv'
  BY <1>2, <1>12, FewerJobs DEF DropDeadlock, apiVars
<1>13. CASE UNCHANGED vars
  BY <1>1, <1>13, FewerJobs DEF vars, tables, apiVars
<1> QED
  BY <1>3, <1>4, <1>5, <1>6, <1>7, <1>8, <1>9, <1>10, <1>11, <1>12, <1>13 DEF Next

LEMMA BatchInvariance == Spec => []BatchInv
BY InitTypeInv, StepTypeInv, InitLockInv, StepLockInv, InitBatchInv, StepBatchInv,
   PTL DEF Spec

-----------------------------------------------------------------------------
(* One worker, and rows that go by jobs or because they expired: a row the *)
(* worker writes has the expiry of a row that held the address, unless an  *)
(* ADD job of its batch brings the address.                                *)

\* There is a row in k's list that holds address a and expires at e.
HasRow(l, a, e) == \E m \in RowsOf(cidr, {l}) : a \in m[1] /\ cidr[m] = e

\* An ADD job of the batch carries address a to list l.
Brings(w, l, a) ==
    \E j \in batch[w] : j.action = "add" /\ j.list = l /\ a \in Cover(Parsed(j))

\* Why worker w may write row k with expires_at e.
Justified(w, k, e) ==
    \A a \in k[1] : HasRow(k[2], a, e) \/ Expired(e) \/ Brings(w, k[2], a)

ExpiryInv ==
    \A w \in Workers :
        /\ \A k \in DOMAIN written[w] : Justified(w, k, written[w][k])
        /\ \A row \in new_subnets[w] : Justified(w, row[1], row[2])

LEMMA InitExpiryInv == Init => ExpiryInv
BY NoRowsTable DEF Init, WorkerInit, ExpiryInv

\* Rows only go once they have expired, and time does not go back.
RowsLast ==
    /\ \A m \in DOMAIN cidr :
           (m \in DOMAIN cidr' /\ cidr'[m] = cidr[m]) \/ Expired(cidr[m])
    /\ now' \in Nat /\ now <= now'

LEMMA StaysExpired ==
    ASSUME TypeInv, RowsLast, NEW e \in Expiry, Expired(e)
    PROVE  Expired(e)'
BY NeverAssumption
   DEF RowsLast, Expired, Expiry, TypeInv, TypeOK, DatabaseTypeOK

LEMMA StaysJustified ==
    ASSUME TypeInv, RowsLast, NEW w, batch'[w] = batch[w], NEW k, NEW e \in Expiry,
           Justified(w, k, e)
    PROVE  Justified(w, k, e)'
<1>1. ASSUME NEW a, HasRow(k[2], a, e) PROVE HasRow(k[2], a, e)' \/ Expired(e)
  BY <1>1 DEF HasRow, RowsOf, RowsLast
<1>2. Expired(e) => Expired(e)'
  BY StaysExpired
<1>3. \A a : Brings(w, k[2], a) => Brings(w, k[2], a)'
  BY DEF Brings
<1> QED
  BY <1>1, <1>2, <1>3 DEF Justified

\* What worker w has written or is about to write.
Writes(w) ==
    {row \in Key \X Expiry :
        \/ row \in new_subnets[w]
        \/ row[1] \in DOMAIN written[w] /\ row[2] = written[w][row[1]]}

AllJustified ==
    \A w \in Workers : \A row \in Writes(w) : Justified(w, row[1], row[2])

LEMMA ExpiryInvByWrites == TypeInv => (ExpiryInv <=> AllJustified)
<1> SUFFICES ASSUME TypeInv PROVE ExpiryInv <=> AllJustified
  OBVIOUS
<1>1. /\ \A w \in Workers : new_subnets[w] \subseteq Key \X Expiry
      /\ \A w \in Workers : \A k \in DOMAIN written[w] :
             k \in Key /\ written[w][k] \in Expiry
  BY DEF TypeInv, TypeOK, WorkerTypeOK, DatabaseTypeOK, IsTable
<1>2. ASSUME NEW w \in Workers, NEW k \in DOMAIN written[w]
      PROVE  <<k, written[w][k]>> \in Writes(w)
  BY <1>1 DEF Writes
<1>3. ASSUME NEW w \in Workers, NEW row \in new_subnets[w]
      PROVE  row \in Writes(w)
  BY <1>1 DEF Writes
<1>4. ASSUME ExpiryInv, NEW w \in Workers, NEW row \in Writes(w)
      PROVE  Justified(w, row[1], row[2])
  BY <1>4 DEF Writes, ExpiryInv
<1>5. ASSUME AllJustified PROVE ExpiryInv
  <2>1. ASSUME NEW w \in Workers, NEW k \in DOMAIN written[w]
        PROVE  Justified(w, k, written[w][k])
    BY <1>2, <1>5, <2>1 DEF AllJustified
  <2>2. ASSUME NEW w \in Workers, NEW row \in new_subnets[w]
        PROVE  Justified(w, row[1], row[2])
    BY <1>3, <1>5, <2>2 DEF AllJustified
  <2> QED
    BY <2>1, <2>2 DEF ExpiryInv
<1> QED
  BY <1>4, <1>5 DEF AllJustified

LEMMA ExpiryInvByWritesNext == TypeInv' => (ExpiryInv' <=> AllJustified')
BY ExpiryInvByWrites, PTL

\* A step that lets a worker write nothing new keeps the invariant.
LEMMA NothingNewToWrite ==
    ASSUME TypeInv, TypeInv', ExpiryInv, RowsLast,
           \A w \in Workers : \/ Writes(w)' = {}
                              \/ batch'[w] = batch[w] /\ Writes(w)' \subseteq Writes(w)
    PROVE  ExpiryInv'
<1>1. ASSUME NEW w \in Workers, NEW row \in Writes(w)'
      PROVE  Justified(w, row[1], row[2])'
  <2>1. batch'[w] = batch[w] /\ row \in Writes(w)
    BY <1>1
  <2>2. row[2] \in Expiry
    BY <2>1 DEF Writes
  <2>3. Justified(w, row[1], row[2])
    BY <2>1, ExpiryInvByWrites DEF AllJustified
  <2> QED
    BY <2>1, <2>2, <2>3, StaysJustified
<1> QED
  BY <1>1, ExpiryInvByWritesNext DEF AllJustified

\* The rows the worker reads are committed rows, or rows it has written.
LEMMA ViewValues ==
    ASSUME TypeInv, NEW w \in Workers, NEW k \in DOMAIN View(w)
    PROVE  /\ k \in Key /\ View(w)[k] \in Expiry
           /\ \/ k \in DOMAIN written[w] /\ View(w)[k] = written[w][k]
              \/ k \in DOMAIN cidr \ removed[w] /\ View(w)[k] = cidr[k]
<1>1. IsTable(View(w), Key, Expiry)
  BY ViewTable DEF TypeInv, TypeOK
<1>2. k \in Key /\ View(w)[k] \in Expiry
  BY <1>1 DEF IsTable
<1>3. \/ k \in DOMAIN written[w] /\ View(w)[k] = written[w][k]
      \/ k \in DOMAIN cidr \ removed[w] /\ View(w)[k] = cidr[k]
  BY DEF View, Overlay, Without, Restrict
<1> QED
  BY <1>2, <1>3

LEMMA ViewJustified ==
    ASSUME TypeInv, ExpiryInv, NEW w \in Workers, NEW k \in DOMAIN View(w)
    PROVE  Justified(w, k, View(w)[k])
<1>1. CASE k \in DOMAIN written[w] /\ View(w)[k] = written[w][k]
  BY <1>1 DEF ExpiryInv
<1>2. CASE k \in DOMAIN cidr /\ View(w)[k] = cidr[k]
  BY <1>2 DEF Justified, HasRow, RowsOf
<1> QED
  BY <1>1, <1>2, ViewValues

\* What is left of the rows read keeps their reasons.
LEMMA DeleteExcludedExpiry ==
    ASSUME TypeInv, TypeInv', ExpiryInv, NEW w \in Workers, NEW lists,
           DeleteExcluded(w, lists), \A v \in Workers \ {w} : Stays(v)
    PROVE  ExpiryInv'
<1>1. /\ new_subnets'[w] =
             UNION {RowsLeft(w, View(w), k) : k \in RowsOf(View(w), lists)}
      /\ UNCHANGED <<cidr, now, batch, written>>
      /\ \A v \in Workers \ {w} : new_subnets'[v] = new_subnets[v]
  BY DEF DeleteExcluded, tables, transactions, TypeInv, TypeOK, WorkerTypeOK
<1>2. \A v, k, e : Justified(v, k, e)' <=> Justified(v, k, e)
  BY <1>1 DEF Justified, HasRow, Brings, Expired
<1>3. ASSUME NEW row \in new_subnets'[w] PROVE Justified(w, row[1], row[2])
  <2>1. PICK k \in DOMAIN View(w) : row \in RowsLeft(w, View(w), k)
    BY <1>1 DEF RowsOf
  <2>2. PICK n \in AddressExcludeMany(k[1], exclusion[w]) :
            row = <<(<<n, k[2]>>), View(w)[k]>>
    BY <2>1 DEF RowsLeft
  <2>3. n \subseteq k[1]
    BY <2>2 DEF AddressExcludeMany, Collapsed
  <2>4. Justified(w, k, View(w)[k])
    BY ViewJustified
  <2>5. row[1][1] = n /\ row[1][2] = k[2] /\ row[2] = View(w)[k]
    BY <2>2
  <2> QED
    BY <2>3, <2>4, <2>5 DEF Justified
<1> QED
  BY <1>1, <1>2, <1>3 DEF ExpiryInv

LEMMA AddOwnRowsExpiry ==
    ASSUME TypeInv, TypeInv', BatchInv, ExpiryInv, NEW w \in Workers,
           AddOwnRows(w), \A v \in Workers \ {w} : Stays(v)
    PROVE  ExpiryInv'
<1> DEFINE e == IF job[w].ttl = 0 THEN Never ELSE now + job[w].ttl
<1>1. new_subnets'[w] = {<<(<<n, job[w].list>>), e>> : n \in adding[w]}
  BY DEF AddOwnRows, TypeInv, TypeOK, WorkerTypeOK
<1> HIDE DEF e
<1>2. /\ UNCHANGED <<cidr, now, batch, written>>
      /\ \A v \in Workers \ {w} : new_subnets'[v] = new_subnets[v]
  BY DEF AddOwnRows, tables, transactions, TypeInv, TypeOK, WorkerTypeOK
<1>3. \A v, k, x : Justified(v, k, x)' <=> Justified(v, k, x)
  BY <1>2 DEF Justified, HasRow, Brings, Expired
<1>4. /\ job[w] \in batch[w] /\ job[w].action = "add"
      /\ Cover(adding[w]) \subseteq Cover(Parsed(job[w]))
  BY DEF AddOwnRows, BatchInv, WorkerShape, ShapeOf, InJob
<1>5. ASSUME NEW row \in new_subnets'[w] PROVE Justified(w, row[1], row[2])
  <2>1. PICK n \in adding[w] : row = <<(<<n, job[w].list>>), e>>
    BY <1>1
  <2>2. n \subseteq Cover(Parsed(job[w]))
    BY <1>4, <2>1 DEF Cover
  <2>3. row[1][1] = n /\ row[1][2] = job[w].list
    BY <2>1
  <2> QED
    BY <1>4, <2>2, <2>3 DEF Justified, Brings
<1> QED
  BY <1>2, <1>3, <1>5 DEF ExpiryInv

LEMMA UpsertRowWrites ==
    ASSUME TypeInv, NEW w \in Workers, NEW row, UpsertRow(w, row)
    PROVE  Writes(w)' \subseteq Writes(w)
<1>1. /\ row \in new_subnets[w] /\ row \in Key \X Expiry
      /\ new_subnets'[w] = new_subnets[w] \ {row}
      /\ written'[w] = Overlay(written[w], [k \in {row[1]} |-> row[2]])
  BY DEF UpsertRow, TypeInv, TypeOK, WorkerTypeOK, DatabaseTypeOK
<1>2. \A k \in DOMAIN written'[w] :
          \/ k \in DOMAIN written[w] /\ written'[w][k] = written[w][k]
          \/ k = row[1] /\ written'[w][k] = row[2]
  BY <1>1 DEF Overlay
<1> QED
  BY <1>1, <1>2 DEF Writes

LEMMA DeleteRowWrites ==
    ASSUME TypeInv, NEW w \in Workers, NEW k, DeleteRow(w, k)
    PROVE  Writes(w)' \subseteq Writes(w)
<1>1. new_subnets' = new_subnets /\ written'[w] = Without(written[w], {k})
  BY DEF DeleteRow, TypeInv, TypeOK, DatabaseTypeOK
<1>2. \A m \in DOMAIN written'[w] :
          m \in DOMAIN written[w] /\ written'[w][m] = written[w][m]
  BY <1>1 DEF Without, Restrict
<1> QED
  BY <1>1, <1>2 DEF Writes

LEMMA NoWrites ==
    ASSUME NEW w, DOMAIN written[w] = {}, new_subnets[w] = {}
    PROVE  Writes(w) = {}
BY DEF Writes

\* A worker that ends, or has just committed, has written nothing.
LEMMA AfterEnd ==
    ASSUME TypeInv, BatchInv, NEW w \in Workers, Ends(w) \/ Commit(w)
    PROVE  DOMAIN written'[w] = {} /\ new_subnets'[w] = {}
<1>1. CASE Ends(w)
  BY <1>1, NoRowsTable
     DEF Ends, Rollback, TypeInv, TypeOK, DatabaseTypeOK, WorkerTypeOK
<1>2. CASE Commit(w)
  BY <1>2, NoRowsTable
     DEF Commit, writes, BatchInv, WorkerShape, ShapeOf, TypeInv, TypeOK, DatabaseTypeOK
<1> QED
  BY <1>1, <1>2

LEMMA WorkExpiry ==
    ASSUME TypeInv, TypeInv', BatchInv, ExpiryInv, OneWorker,
           NEW w \in Workers, Work(w)
    PROVE  ExpiryInv'
<1>0. Workers = {w}
  BY DEF OneWorker
<1>1. \A v \in Workers \ {w} : Stays(v)
  BY <1>0
<1>2. ASSUME UNCHANGED <<cidr, now>>,
             \/ DOMAIN written'[w] = {} /\ new_subnets'[w] = {}
             \/ batch'[w] = batch[w] /\ Writes(w)' \subseteq Writes(w)
      PROVE  ExpiryInv'
  <2>1. RowsLast
    BY <1>2 DEF RowsLast, TypeInv, TypeOK, DatabaseTypeOK
  <2>2. DOMAIN written'[w] = {} /\ new_subnets'[w] = {} => Writes(w)' = {}
    BY DEF Writes
  <2> QED
    BY <1>0, <1>2, <2>1, <2>2, NothingNewToWrite
<1>3. ASSUME UNCHANGED <<cidr, now, batch, written, new_subnets>> PROVE ExpiryInv'
  BY <1>2, <1>3 DEF Writes
<1>4. CASE Poll(w)
  <2>1. DOMAIN written'[w] = {} /\ new_subnets'[w] = {}
    BY <1>4 DEF Poll, writes, BatchInv, WorkerShape, ShapeOf
  <2> QED
    BY <1>2, <1>4, <2>1 DEF Poll, tables
<1>5. CASE Begin(w) \/ FilterSafeCidrs(w) \/ ReadSafelist(w) \/ EndJob(w)
  BY <1>3, <1>5 DEF Begin, FilterSafeCidrs, ReadSafelist, EndJob, tables,
                    transactions, writes
<1>6. CASE CleanDenylists(w) \/ TrimList(w)
  BY <1>1, <1>6, DeleteExcludedExpiry DEF CleanDenylists, TrimList
<1>7. ASSUME NEW k, DeleteRow(w, k) PROVE ExpiryInv'
  BY <1>2, <1>7, DeleteRowWrites DEF DeleteRow, tables
<1>8. ASSUME NEW row, UpsertRow(w, row) PROVE ExpiryInv'
  BY <1>2, <1>8, UpsertRowWrites DEF UpsertRow, tables
<1>9. ASSUME NEW k, WaitForRow(w, k) PROVE ExpiryInv'
  BY <1>3, <1>9 DEF WaitForRow, tables, transactions
<1>10. CASE AddOwnRows(w)
  BY <1>1, <1>10, AddOwnRowsExpiry
<1>11. CASE Commit(w)
  BY <1>0, <1>11, AfterEnd DEF ExpiryInv
<1>12. CASE ForeignKeyViolation(w) \/ DeadlockAbort(w)
  BY <1>2, <1>12, AfterEnd DEF ForeignKeyViolation, DeadlockAbort, Abort, tables
<1> QED
  BY <1>4, <1>5, <1>6, <1>7, <1>8, <1>9, <1>10, <1>11, <1>12 DEF Work

\* No row comes, and none changes; rows only go once they have expired.
RowsOnlyExpire ==
    RowsLast /\ \A m \in DOMAIN cidr' : m \in DOMAIN cidr /\ cidr'[m] = cidr[m]

LEMMA RowsUnchanged ==
    ASSUME TypeInv, UNCHANGED cidr, now' \in {now, now + 1}
    PROVE  RowsOnlyExpire
BY DEF RowsOnlyExpire, RowsLast, TypeInv, TypeOK, DatabaseTypeOK

LEMMA ExpiredRowsDeleted ==
    ASSUME TypeInv, cidr' = Without(cidr, ExpiredRows), UNCHANGED now
    PROVE  RowsOnlyExpire
BY DEF RowsOnlyExpire, RowsLast, ExpiredRows, Without, Restrict, TypeInv, TypeOK,
       DatabaseTypeOK

\* A step of a worker that does not commit leaves the tables alone.
LEMMA WorkTables ==
    ASSUME TypeInv, NEW w \in Workers, Work(w), ~Commit(w)
    PROVE  UNCHANGED <<tables, now>>
BY DEF Work, Poll, Begin, FilterSafeCidrs, ReadSafelist, CleanDenylists, TrimList,
       DeleteExcluded, DeleteRow, UpsertRow, WaitForRow, AddOwnRows, EndJob,
       ForeignKeyViolation, DeadlockAbort, Abort, tables

\* Only a commit of a worker brings a row, when no row is deleted by hand.
LEMMA OtherStepsKeepRows ==
    ASSUME TypeInv, NoHandDeletes, [Next]_vars, \A w \in Workers : ~Commit(w)
    PROVE  RowsOnlyExpire
<1>1. CASE ApiNext
  <2>1. ASSUME NEW cmd \in Commands, CreateList(cmd) PROVE RowsOnlyExpire
    BY <2>1, RowsUnchanged DEF CreateList
  <2>2. ASSUME NEW cmd \in Commands, NEW c \in Clients, ReadList(c, cmd)
        PROVE  RowsOnlyExpire
    BY <2>2, RowsUnchanged DEF ReadList, tables
  <2>3. ASSUME NEW c \in Clients, UpdateList(c) \/ UpdateMissesList(c) \/ QueueJob(c)
        PROVE  RowsOnlyExpire
    BY <2>3, RowsUnchanged DEF UpdateList, UpdateMissesList, QueueJob
  <2>4. ASSUME NEW cmd \in Commands, DropList(cmd) \/ EraseCidr(cmd) PROVE FALSE
    BY <2>4 DEF DropList, EraseCidr, DropCommand, EraseCommand, NoHandDeletes
  <2> QED
    BY <1>1, <2>1, <2>2, <2>3, <2>4 DEF ApiNext, ApiStep
<1>2. ASSUME NEW w \in Workers, WorkerNext(w) PROVE RowsOnlyExpire
  BY <1>2, WorkTables, RowsUnchanged DEF WorkerNext, tables
<1>3. ASSUME NEW w \in Workers, WorkerRestart(w) \/ WorkerFault(w)
      PROVE  RowsOnlyExpire
  BY <1>3, RowsUnchanged DEF WorkerRestart, Restart, WorkerFault, Crash, Abort, tables
<1>4. CASE SchedulerNext
  BY <1>4, ExpiredRowsDeleted DEF SchedulerNext, DeleteExpired
<1>5. CASE ClockNext \/ SchedulerFault \/ WebRestart \/ UNCHANGED vars
  <2>1. UNCHANGED cidr /\ now' \in {now, now + 1}
    BY <1>5 DEF ClockNext, Tick, SchedulerFault, SchedulerDies, WebRestart,
                ApiRestart, vars, tables
  <2> QED
    BY <2>1, RowsUnchanged
<1>6. ASSUME NEW w \in Workers, ExpiryDeadlock(w) PROVE RowsOnlyExpire
  <2>1. UNCHANGED now /\ (UNCHANGED cidr \/ cidr' = Without(cidr, ExpiredRows))
    BY <1>6 DEF ExpiryDeadlock, ExpiryWins, SchedulerDies, tables
  <2> QED
    BY <2>1, RowsUnchanged, ExpiredRowsDeleted
<1>7. ASSUME NEW w \in Workers, DropDeadlock(w) PROVE FALSE
  BY <1>7 DEF DropDeadlock, DropCommand, NoHandDeletes
<1> QED
  BY <1>1, <1>2, <1>3, <1>4, <1>5, <1>6, <1>7 DEF Next

LEMMA StepExpiryInv ==
    ASSUME OneWorker, NoHandDeletes
    PROVE  TypeInv /\ TypeInv' /\ BatchInv /\ ExpiryInv /\ [Next]_vars => ExpiryInv'
<1> SUFFICES ASSUME TypeInv, TypeInv', BatchInv, ExpiryInv, [Next]_vars
             PROVE  ExpiryInv'
  OBVIOUS
<1>1. ASSUME NEW w \in Workers, WorkerNext(w) PROVE ExpiryInv'
  BY <1>1, WorkExpiry DEF WorkerNext
<1>2. ASSUME RowsLast, UNCHANGED <<batch, written, new_subnets>> PROVE ExpiryInv'
  BY <1>2, NothingNewToWrite DEF Writes
<1>3. ASSUME NEW w \in Workers, Ends(w) PROVE ExpiryInv'
  BY <1>3, AfterEnd DEF OneWorker, ExpiryInv
<1>4. CASE \A w \in Workers : ~WorkerNext(w) /\ ~Ends(w)
  <2>1. UNCHANGED <<batch, written, new_subnets>>
    <3>1. CASE ApiNext
      BY <3>1, ApiStepType DEF ApiNext, TypeInv, transactions, workerVars, writes
    <3>2. ASSUME NEW w \in Workers, WorkerRestart(w)
          PROVE  UNCHANGED <<batch, written, new_subnets>>
      BY <3>2 DEF WorkerRestart, Restart, transactions, writes
    <3>3. CASE SchedulerNext \/ ClockNext \/ SchedulerFault \/ WebRestart \/ UNCHANGED vars
      BY <3>3 DEF SchedulerNext, DeleteExpired, ClockNext, Tick, SchedulerFault,
           SchedulerDies, WebRestart, ApiRestart, vars, transactions, workerVars, writes
    <3>4. ASSUME NEW w \in Workers, ExpiryDeadlock(w)
          PROVE  UNCHANGED <<batch, written, new_subnets>>
      BY <1>4, <3>4 DEF ExpiryDeadlock, ExpiryWins, SchedulerDies, transactions,
                        workerVars, writes
    <3>5. ASSUME NEW w \in Workers, WorkerFault(w) \/ DropDeadlock(w) PROVE FALSE
      BY <1>4, <3>5 DEF WorkerFault, Crash, Abort, DropDeadlock
    <3> QED
      BY <1>4, <3>1, <3>2, <3>3, <3>4, <3>5 DEF Next
  <2>2. CASE \E w \in Workers : Commit(w)
    BY <2>2, AfterEnd DEF OneWorker, ExpiryInv
  <2>3. CASE \A w \in Workers : ~Commit(w)
    BY <1>2, <2>1, <2>3, OtherStepsKeepRows DEF RowsOnlyExpire
  <2> QED
    BY <2>2, <2>3
<1> QED
  BY <1>1, <1>3, <1>4

LEMMA ExpiryInvariance ==
    ASSUME OneWorker, NoHandDeletes
    PROVE  Spec => []ExpiryInv
<1>1. TypeInv /\ TypeInv' /\ BatchInv /\ ExpiryInv /\ [Next]_vars => ExpiryInv'
  BY StepExpiryInv
<1> QED
  BY <1>1, InitExpiryInv, TypeCorrect, BatchInvariance, PTL DEF Spec

\* A worker that goes from the end of its batch to the next poll has committed.
LEMMA CommitsIsCommit ==
    ASSUME TypeInv, [Next]_vars, NEW w \in Workers, Commits(w)
    PROVE  Commit(w)
<1>0. /\ stage[w] = "next" /\ stage'[w] = "idle" /\ stage \in [Workers -> Stage]
      /\ todo[w] \subseteq Job
  BY DEF Commits, TypeInv, TypeOK, WorkerTypeOK
<1>1. ASSUME UNCHANGED stage PROVE FALSE
  BY <1>0, <1>1
<1>2. ASSUME NEW v \in Workers, Ends(v) \/ Restart(v) PROVE FALSE
  BY <1>0, <1>2 DEF Ends, Restart, Goto
<1>3. ASSUME NEW v \in Workers, WorkerNext(v), v # w PROVE FALSE
  BY <1>0, <1>3, WorkStays DEF WorkerNext, Stays
<1>4. CASE WorkerNext(w)
  <2>1. ~Begin(w)
    <3>1. Candidates(w) \subseteq Job
      BY <1>0 DEF Candidates
    <3>2. \A j \in Candidates(w) : FirstQuery(j) # "idle"
      BY <3>1, FirstQueryType
    <3> QED
      BY <1>0, <3>2 DEF Begin, Goto
  <2>2. ~ForeignKeyViolation(w) /\ ~DeadlockAbort(w)
    BY <1>2 DEF ForeignKeyViolation, DeadlockAbort, Abort
  <2>3. Work(w)
    BY <1>4 DEF WorkerNext
  <2> QED
    BY <1>0, <2>1, <2>2, <2>3
       DEF Work, Poll, FilterSafeCidrs, ReadSafelist, CleanDenylists, TrimList,
           DeleteRow, UpsertRow, WaitForRow, AddOwnRows, EndJob, Sends
<1>5. ASSUME NEW v \in Workers, \/ WorkerRestart(v) \/ WorkerFault(v)
                                \/ ExpiryDeadlock(v) \/ DropDeadlock(v)
      PROVE  FALSE
  BY <1>1, <1>2, <1>5 DEF WorkerRestart, WorkerFault, Crash, Abort, ExpiryDeadlock,
                          ExpiryWins, DropDeadlock, workerVars
<1>6. CASE \/ ApiNext \/ SchedulerNext \/ ClockNext \/ SchedulerFault \/ WebRestart
           \/ UNCHANGED vars
  BY <1>1, <1>6 DEF ApiNext, SchedulerNext, ClockNext, SchedulerFault, WebRestart,
                    vars, workerVars
<1> QED
  BY <1>3, <1>4, <1>5, <1>6 DEF Next

\* Every row after a commit was there before, with its expiry, or has a reason.
LEMMA CommitRows ==
    ASSUME TypeInv, ExpiryInv, NEW w \in Workers, Commit(w), NEW k \in DOMAIN cidr'
    PROVE  /\ k \in Key /\ cidr'[k] \in Expiry
           /\ Justified(w, k, cidr'[k])
           /\ UNCHANGED now
<1>1. cidr' = View(w) /\ UNCHANGED now
  BY DEF Commit
<1> QED
  BY <1>1, ViewValues, ViewJustified

\* What is left of a row keeps the time it expires at, however often it is split
\* and written again in a batch, with one worker and no deletes by hand: the
\* upserts of delete_excluded_cidrs keep expires_at (worker.py, lines 155-213).
THEOREM ExpiryIsKept ==
    ASSUME OneWorker, NoHandDeletes
    PROVE  Spec => RemaindersKeepExpiry
<1>1. ASSUME TypeInv, ExpiryInv, [Next]_vars, NEW w \in Workers, Commits(w),
             NEW k \in DOMAIN cidr', ~Expired(cidr'[k]), NEW a \in k[1]
      PROVE  \/ \E m \in RowsOf(cidr, {k[2]}) : a \in m[1] /\ cidr[m] = cidr'[k]
             \/ \E j \in batch[w] : /\ j.action = "add" /\ j.list = k[2]
                                    /\ a \in Cover(Parsed(j))
  <2>1. Commit(w)
    BY <1>1, CommitsIsCommit
  <2>2. Justified(w, k, cidr'[k]) /\ ~Expired(cidr'[k])
    BY <1>1, <2>1, CommitRows DEF Expired
  <2> QED
    BY <2>2 DEF Justified, HasRow, Brings
<1>2. TypeInv /\ ExpiryInv /\ [Next]_vars =>
          \A w \in Workers : Commits(w) =>
              \A k \in {k \in DOMAIN cidr' : ~Expired(cidr'[k])} : \A a \in k[1] :
                  \/ \E m \in RowsOf(cidr, {k[2]}) : a \in m[1] /\ cidr[m] = cidr'[k]
                  \/ \E j \in batch[w] : /\ j.action = "add" /\ j.list = k[2]
                                         /\ a \in Cover(Parsed(j))
  BY <1>1
<1> QED
  BY <1>2, TypeCorrect, ExpiryInvariance, PTL DEF Spec, RemaindersKeepExpiry

\* An address of a row is an address of its list, unless the row has expired.
LEMMA LiveRow ==
    ASSUME NEW m \in DOMAIN cidr, ~Expired(cidr[m]), NEW a \in m[1]
    PROVE  a \in LiveAddresses(m[2])
BY DEF LiveAddresses, RowsOf, Cover

\* An address comes into a list only by an ADD job that carries it, with one
\* worker and no deletes by hand: splitting the rows of a list brings none back
\* (delete_excluded_cidrs, worker.py, lines 155-213).
THEOREM OnlyJobsAdd ==
    ASSUME OneWorker, NoHandDeletes
    PROVE  Spec => OnlyAddJobsAdd
<1> DEFINE Asked(l, a) == \E w \in Workers : \E j \in batch[w] :
               /\ Commits(w)
               /\ j.action = "add" /\ j.list = l /\ a \in Cover(j.cidrs)
<1>1. ASSUME TypeInv, TypeInv', BatchInv, ExpiryInv, [Next]_vars, NEW l \in ListIds,
             NEW a \in LiveAddresses(l)' \ LiveAddresses(l)
      PROVE  Asked(l, a)
  <2>1. PICK k \in DOMAIN cidr' : /\ k[2] = l /\ a \in k[1]
                                  /\ ~Expired(cidr[k])'
    BY <1>1 DEF LiveAddresses, RowsOf, Cover
  <2>2. ASSUME NEW m \in DOMAIN cidr, m[2] = l, a \in m[1]
        PROVE  Expired(cidr[m])
    BY <1>1, <2>2, LiveRow
  <2>3. PICK w \in Workers : Commit(w)
    <3>1. SUFFICES ASSUME \A w \in Workers : ~Commit(w) PROVE FALSE
      OBVIOUS
    <3>2. RowsOnlyExpire
      BY <1>1, <3>1, OtherStepsKeepRows
    <3>3. k \in DOMAIN cidr /\ cidr'[k] = cidr[k] /\ cidr[k] \in Expiry
      BY <1>1, <3>2 DEF RowsOnlyExpire, TypeInv, TypeOK, DatabaseTypeOK, IsTable
    <3> QED
      BY <1>1, <2>1, <2>2, <3>2, <3>3, StaysExpired DEF RowsOnlyExpire
  <2>4. Justified(w, k, cidr'[k]) /\ ~Expired(cidr'[k])
    BY <1>1, <2>1, <2>3, CommitRows DEF Expired
  <2>5. ~HasRow(l, a, cidr'[k])
    BY <2>2, <2>4 DEF HasRow, RowsOf
  <2>6. PICK j \in batch[w] : j.action = "add" /\ j.list = l /\ a \in Cover(Parsed(j))
    BY <2>1, <2>4, <2>5 DEF Justified, Brings
  <2>7. j \in Job
    BY <1>1 DEF TypeInv, TypeOK, DatabaseTypeOK
  <2>8. Commits(w)
    BY <1>1, <2>3 DEF Commit, Commits, Goto, TypeInv, TypeOK, WorkerTypeOK
  <2> QED
    BY <2>6, <2>7, <2>8, CoverParsed
<1>2. TypeInv /\ TypeInv' /\ BatchInv /\ ExpiryInv /\ [Next]_vars =>
          \A l \in ListIds : \A a \in LiveAddresses(l)' \ LiveAddresses(l) : Asked(l, a)
  BY <1>1
<1> QED
  BY <1>2, TypeCorrect, BatchInvariance, ExpiryInvariance, PTL
     DEF Spec, OnlyAddJobsAdd
=============================================================================
