--------------------------- MODULE CidrStateProofs ---------------------------
(***************************************************************************)
(* What every state of CidrListings is, for every set of users, lists,     *)
(* networks, workers, clients and commands: the types of its tables; the   *)
(* transactions of the workers stay apart, and no row outlives its list,   *)
(* whatever the web process, the scheduler and failures do in between.     *)
(***************************************************************************)
EXTENDS CidrProperties, TLAPS

-----------------------------------------------------------------------------
(* The operators on tables and networks.                                   *)

\* Without keeps a table a table, on the other keys.
LEMMA WithoutTable ==
    ASSUME NEW K, NEW V, NEW t, IsTable(t, K, V), NEW S
    PROVE  /\ IsTable(Without(t, S), K, V)
           /\ DOMAIN Without(t, S) = DOMAIN t \ S
           /\ \A k \in DOMAIN t \ S : Without(t, S)[k] = t[k]
BY DEF IsTable, Without, Restrict

\* Overlay makes one table of two, on the keys of both.
LEMMA OverlayTable ==
    ASSUME NEW K, NEW V, NEW t, IsTable(t, K, V), NEW u, IsTable(u, K, V)
    PROVE  /\ IsTable(Overlay(t, u), K, V)
           /\ DOMAIN Overlay(t, u) = DOMAIN t \cup DOMAIN u
BY DEF IsTable, Overlay

\* No entry is a table.
LEMMA NoRowsTable ==
    ASSUME NEW K, NEW V
    PROVE  IsTable(NoRows, K, V) /\ DOMAIN NoRows = {}
BY DEF IsTable, NoRows

\* What the functions on networks return are networks, and their addresses
\* are addresses.
LEMMA NetworksType ==
    /\ \A A : Collapsed(A) \subseteq Nets
    /\ \A S \in SUBSET Nets : Cover(S) \subseteq Addr
    /\ \A j \in Job : Parsed(j) \subseteq Nets
BY NetsAssumption DEF Collapsed, Cover, Parsed

\* A worker's view of the rows is a table on the keys of cidr.
LEMMA ViewTable ==
    ASSUME DatabaseTypeOK, NEW w \in Workers
    PROVE  /\ IsTable(View(w), Key, Expiry)
           /\ DOMAIN View(w) = (DOMAIN cidr \ removed[w]) \cup DOMAIN written[w]
<1>1. IsTable(cidr, Key, Expiry) /\ IsTable(written[w], Key, Expiry)
  BY DEF DatabaseTypeOK
<1>2. /\ IsTable(Without(cidr, removed[w]), Key, Expiry)
      /\ DOMAIN Without(cidr, removed[w]) = DOMAIN cidr \ removed[w]
  BY <1>1, WithoutTable
<1> QED
  BY <1>1, <1>2, OverlayTable DEF View

LEMMA AddressesType ==
    ASSUME NEW rows, IsTable(rows, Key, Expiry), NEW lists
    PROVE  AddressesOf(rows, lists) \subseteq Addr
<1>1. \A k \in DOMAIN rows : k[1] \in Nets
  BY DEF IsTable, Key
<1>2. {k[1] : k \in RowsOf(rows, lists)} \subseteq Nets
  BY <1>1 DEF RowsOf
<1> QED
  BY <1>2, NetworksType DEF AddressesOf

-----------------------------------------------------------------------------
\* Between the first query of a job and its end the worker has the job at hand.
HasJob ==
    \A w \in Workers :
        stage[w] \in {"filter", "safelist", "clean", "trim", "write"} => job[w] \in Job

TypeInv == TypeOK /\ HasJob

LEMMA InitTypeInv == Init => TypeInv
<1> SUFFICES ASSUME Init PROVE TypeInv
  OBVIOUS
<1>1. DatabaseTypeOK
  <2>1. IsTable(cidr, Key, Expiry) /\ IsTable(list, ListIds, ListRow)
    BY Lists0Assumption, Cidrs0Assumption DEF Init, IsTable, Key
  <2>2. DOMAIN written = Workers /\ \A w \in Workers : IsTable(written[w], Key, Expiry)
    BY NoRowsTable DEF Init
  <2> QED
    BY <2>1, <2>2 DEF Init, DatabaseTypeOK
<1>2. ApiTypeOK
  BY DEF Init, ApiInit, ApiTypeOK
<1>3. WorkerTypeOK /\ HasJob
  BY DEF Init, WorkerInit, WorkerTypeOK, HasJob, Stage
<1>4. SchedulerTypeOK /\ faults \in 0 .. MaxFaults
  BY MaxFaultsAssumption DEF Init, SchedulerInit, SchedulerTypeOK
<1> QED
  BY <1>1, <1>2, <1>3, <1>4 DEF TypeInv, TypeOK

-----------------------------------------------------------------------------
(* The web process.                                                        *)

\* A request in progress has read a row of the type of a list's row.
LEMMA RequestType ==
    ASSUME TypeOK, NEW c \in Clients, request[c] # Idle
    PROVE  request[c].cmd \in UpdateCommand \cup JobCommand /\ request[c].row \in ListRow
BY DEF TypeOK, ApiTypeOK, Request

\* insert_cidr_job adds a job.
LEMMA InsertJobType ==
    ASSUME TypeOK, NEW action \in Action, NEW row \in ListRow,
           NEW cmd \in UpdateCommand \cup JobCommand,
           NEW cidrs \in SUBSET Nets, NEW ttl \in Int,
           InsertJob(action, row, cmd, cidrs, ttl)
    PROVE  job_queue' \subseteq Job /\ next_id' \in Nat
<1>1. cmd.list \in ListIds /\ cmd.user \in Users
  BY DEF UpdateCommand, JobCommand
<1>2. next_id \in Nat /\ job_queue \subseteq Job
  BY DEF TypeOK, ApiTypeOK, DatabaseTypeOK
<1> QED
  BY <1>1, <1>2 DEF InsertJob, Job, ListRow

\* What an update writes is a list's row.
LEMMA MergedType ==
    ASSUME NEW cmd \in UpdateCommand, NEW row \in ListRow
    PROVE  Merged(cmd, row) \in ListRow
BY DEF UpdateCommand, ListRow, Merged

LEMMA CleanupJobType ==
    ASSUME TypeOK, NEW cmd \in UpdateCommand, NEW row \in ListRow,
           CleanupJob(cmd, row)
    PROVE  job_queue' \subseteq Job /\ next_id' \in Nat
<1>1. CASE NeedsCleanup(cmd, row)
  BY <1>1, MergedType, InsertJobType DEF CleanupJob, Action
<1>2. CASE ~NeedsCleanup(cmd, row)
  BY <1>2 DEF CleanupJob, TypeOK, ApiTypeOK, DatabaseTypeOK
<1> QED
  BY <1>1, <1>2

\* The types the web process could disturb: those of the tables and its own.
ApiTypes ==
    /\ IsTable(list, ListIds, ListRow)
    /\ IsTable(cidr, Key, Expiry)
    /\ job_queue \subseteq Job
    /\ ApiTypeOK

LEMMA ApiStepType == TypeOK /\ ApiStep => ApiTypes' /\ UNCHANGED <<now, transactions>>
<1> SUFFICES ASSUME TypeOK, ApiStep
             PROVE  ApiTypes' /\ UNCHANGED <<now, transactions>>
  OBVIOUS
<1>0. ApiTypes
  BY DEF TypeOK, ApiTypes, DatabaseTypeOK
<1>1. ASSUME NEW cmd \in Commands, CreateList(cmd)
      PROVE  ApiTypes' /\ UNCHANGED <<now, transactions>>
  <2>1. cmd.list \in ListIds
        /\ [user |-> cmd.user, type |-> cmd.type, enabled |-> cmd.enabled] \in ListRow
    BY <1>1 DEF CreateList, CreateCommand, ListRow
  <2> DEFINE new == [user |-> cmd.user, type |-> cmd.type, enabled |-> cmd.enabled]
             entry == [l \in {cmd.list} |-> new]
  <2>3. IsTable(entry, ListIds, ListRow)
    BY <2>1 DEF IsTable
  <2>4. list' = Overlay(list, entry)
    BY <1>1 DEF CreateList
  <2> HIDE DEF entry, new
  <2>2. IsTable(list', ListIds, ListRow)
    BY <1>0, <2>3, <2>4, OverlayTable DEF ApiTypes
  <2> QED
    BY <1>0, <1>1, <2>2 DEF CreateList, ApiTypes, ApiTypeOK, apiVars
<1>2. ASSUME NEW cmd \in Commands, DropList(cmd)
      PROVE  ApiTypes' /\ UNCHANGED <<now, transactions>>
  <2>1. IsTable(list', ListIds, ListRow) /\ IsTable(cidr', Key, Expiry)
    BY <1>0, <1>2, WithoutTable DEF DropList, ApiTypes
  <2> QED
    BY <1>0, <1>2, <2>1 DEF DropList, ApiTypes, ApiTypeOK, apiVars
<1>3. ASSUME NEW cmd \in Commands, EraseCidr(cmd)
      PROVE  ApiTypes' /\ UNCHANGED <<now, transactions>>
  <2>1. IsTable(cidr', Key, Expiry)
    BY <1>0, <1>3, WithoutTable DEF EraseCidr, ApiTypes
  <2> QED
    BY <1>0, <1>3, <2>1 DEF EraseCidr, ApiTypes, ApiTypeOK, apiVars
<1>4. ASSUME NEW cmd \in Commands, NEW c \in Clients, ReadList(c, cmd)
      PROVE  ApiTypes' /\ UNCHANGED <<now, transactions>>
  <2>1. list[cmd.list] \in ListRow
    BY <1>0, <1>4 DEF ReadList, Owns, ApiTypes, IsTable
  <2>2. [cmd |-> cmd, row |-> list[cmd.list]] \in Request
    BY <1>4, <2>1 DEF ReadList, Request
  <2> QED
    BY <1>0, <1>4, <2>2 DEF ReadList, ApiTypes, ApiTypeOK, tables
<1>5. ASSUME NEW c \in Clients, UpdateList(c)
      PROVE  ApiTypes' /\ UNCHANGED <<now, transactions>>
  <2> DEFINE cmd == request[c].cmd  row == request[c].row
  <2>1. cmd \in UpdateCommand /\ row \in ListRow
    BY <1>5, RequestType DEF UpdateList
  <2>2. job_queue' \subseteq Job /\ next_id' \in Nat
    BY <1>5, <2>1, CleanupJobType DEF UpdateList
  <2>3. IsTable(list', ListIds, ListRow)
    BY <1>0, <1>5, <2>1, MergedType DEF UpdateList, ApiTypes, IsTable
  <2> QED
    BY <1>0, <1>5, <2>2, <2>3 DEF UpdateList, Respond, ApiTypes, ApiTypeOK
<1>6. ASSUME NEW c \in Clients, UpdateMissesList(c)
      PROVE  ApiTypes' /\ UNCHANGED <<now, transactions>>
  <2> DEFINE cmd == request[c].cmd  row == request[c].row
  <2>1. cmd \in UpdateCommand /\ row \in ListRow
    BY <1>6, RequestType DEF UpdateMissesList
  <2>2. job_queue' \subseteq Job /\ next_id' \in Nat
    BY <1>0, <1>6, <2>1, CleanupJobType DEF UpdateMissesList, ApiTypes, ApiTypeOK
  <2> QED
    BY <1>0, <1>6, <2>2 DEF UpdateMissesList, Respond, ApiTypes, ApiTypeOK
<1>7. ASSUME NEW c \in Clients, QueueJob(c)
      PROVE  ApiTypes' /\ UNCHANGED <<now, transactions>>
  <2> DEFINE cmd == request[c].cmd  row == request[c].row
  <2>1. cmd \in JobCommand /\ row \in ListRow
    BY <1>7, RequestType DEF QueueJob
  <2>2. cmd.op \in Action /\ cmd.cidrs \in SUBSET Nets /\ cmd.ttl \in Int
    BY <2>1 DEF JobCommand, Action
  <2>3. job_queue' \subseteq Job /\ next_id' \in Nat
    BY <1>7, <2>1, <2>2, InsertJobType DEF QueueJob
  <2> QED
    BY <1>0, <1>7, <2>3 DEF QueueJob, Respond, ApiTypes, ApiTypeOK
<1> QED
  BY <1>1, <1>2, <1>3, <1>4, <1>5, <1>6, <1>7 DEF ApiStep
-----------------------------------------------------------------------------
(* The workers.                                                            *)

\* The types a worker could disturb.
WorkerTypes ==
    /\ IsTable(cidr, Key, Expiry)
    /\ job_queue \subseteq Job
    /\ batch \in [Workers -> SUBSET Job]
    /\ removed \in [Workers -> SUBSET Key]
    /\ DOMAIN written = Workers
    /\ \A w \in Workers : IsTable(written[w], Key, Expiry)
    /\ WorkerTypeOK
    /\ HasJob

\* The first query of a job is a stage.
LEMMA FirstQueryType ==
    ASSUME NEW j \in Job
    PROVE  FirstQuery(j) \in {"next", "filter", "safelist", "clean", "trim", "write"}
BY DEF Job, Action, FirstQuery

\* A rollback leaves no trace in the transactions.
LEMMA EndsType ==
    ASSUME TypeInv, NEW w \in Workers, Ends(w),
           IsTable(cidr', Key, Expiry), UNCHANGED job_queue
    PROVE  WorkerTypes'
<1>1. WorkerTypes
  BY DEF TypeInv, TypeOK, WorkerTypes, DatabaseTypeOK
<1>2. \A v \in Workers : IsTable(written'[v], Key, Expiry)
  BY <1>1, NoRowsTable DEF Ends, Rollback, WorkerTypes
<1>3. WorkerTypeOK'
  BY <1>1 DEF Ends, Goto, StopWaiting, WorkerTypes, WorkerTypeOK, Stage
<1>4. HasJob'
  BY <1>1 DEF Ends, Goto, WorkerTypes, WorkerTypeOK, HasJob
<1> QED
  BY <1>1, <1>2, <1>3, <1>4 DEF Ends, Rollback, WorkerTypes

LEMMA AbortType ==
    ASSUME TypeInv, NEW w \in Workers, Abort(w)
    PROVE  WorkerTypes' /\ UNCHANGED <<tables, now>>
BY EndsType DEF Abort, tables, TypeInv, TypeOK, DatabaseTypeOK, IsTable

\* delete_excluded_cidrs computes rows of the keys and expiries it read.
LEMMA DeleteExcludedType ==
    ASSUME TypeInv, NEW w \in Workers, stage[w] \in {"clean", "trim"},
           NEW lists, DeleteExcluded(w, lists)
    PROVE  WorkerTypes'
<1>1. WorkerTypes
  BY DEF TypeInv, TypeOK, WorkerTypes, DatabaseTypeOK
<1>2. IsTable(View(w), Key, Expiry)
  BY ViewTable DEF TypeInv, TypeOK
<1>3. RowsOf(View(w), lists) \subseteq Key
  BY <1>2 DEF RowsOf, IsTable
<1>4. \A k \in RowsOf(View(w), lists) : RowsLeft(w, View(w), k) \in SUBSET (Key \X Expiry)
  <2> SUFFICES ASSUME NEW k \in RowsOf(View(w), lists)
               PROVE  RowsLeft(w, View(w), k) \subseteq Key \X Expiry
    OBVIOUS
  <2>1. k[2] \in ListIds /\ View(w)[k] \in Expiry
    BY <1>2, <1>3 DEF Key, RowsOf, IsTable
  <2>2. AddressExcludeMany(k[1], exclusion[w]) \subseteq Nets
    BY NetworksType DEF AddressExcludeMany
  <2> QED
    BY <2>1, <2>2 DEF RowsLeft, Key
<1>5. /\ to_delete' \in [Workers -> SUBSET Key]
      /\ new_subnets' \in [Workers -> SUBSET (Key \X Expiry)]
      /\ exclusion' \in [Workers -> SUBSET Addr]
  BY <1>1, <1>3, <1>4 DEF DeleteExcluded, WorkerTypes, WorkerTypeOK
<1>6. WorkerTypeOK'
  BY <1>1, <1>5 DEF DeleteExcluded, Goto, WorkerTypes, WorkerTypeOK, Stage
<1>7. HasJob'
  BY <1>1 DEF DeleteExcluded, Goto, WorkerTypes, WorkerTypeOK, HasJob
<1> QED
  BY <1>1, <1>6, <1>7 DEF DeleteExcluded, tables, transactions, WorkerTypes

LEMMA WorkType ==
    ASSUME TypeInv, NEW w \in Workers, Work(w)
    PROVE  WorkerTypes' /\ UNCHANGED <<list, now>>
<1>0. WorkerTypes /\ DatabaseTypeOK
  BY DEF TypeInv, TypeOK, WorkerTypes, DatabaseTypeOK
<1>1. IsTable(View(w), Key, Expiry)
  BY <1>0, ViewTable
<1> USE DEF tables, transactions, progress, writes, Goto
<1>2. CASE Poll(w)
  <2>1. UnlockedJobs \in SUBSET Job
    BY <1>0 DEF UnlockedJobs, WorkerTypes
  <2>2. WorkerTypeOK' /\ HasJob'
    BY <1>0, <1>2, <2>1 DEF Poll, WorkerTypes, WorkerTypeOK, HasJob, Stage
  <2> QED
    BY <1>0, <1>2, <2>1, <2>2 DEF Poll, WorkerTypes
<1>3. CASE Begin(w)
  <2>1. PICK j \in Candidates(w) :
            /\ todo' = [todo EXCEPT ![w] = @ \ {j}]
            /\ job' = [job EXCEPT ![w] = IF FirstQuery(j) = "next" THEN NoJob ELSE j]
            /\ stage' = [stage EXCEPT ![w] = FirstQuery(j)]
            /\ adding' = [adding EXCEPT ![w] = IF j.action = "add" THEN Parsed(j) ELSE {}]
            /\ exclusion' = [exclusion EXCEPT ![w] =
                   IF FirstQuery(j) \in {"clean", "trim"} THEN Cover(Parsed(j)) ELSE {}]
    BY <1>3 DEF Begin
  <2>2. j \in Job
    BY <1>0 DEF Candidates, WorkerTypes, WorkerTypeOK
  <2>3. Parsed(j) \in SUBSET Nets /\ Cover(Parsed(j)) \in SUBSET Addr
    BY <2>2, NetworksType
  <2>4. FirstQuery(j) \in {"next", "filter", "safelist", "clean", "trim", "write"}
    BY <2>2, FirstQueryType
  <2> HIDE DEF Goto
  <2>5. todo' \in [Workers -> SUBSET Job] /\ job' \in [Workers -> Job \cup {NoJob}]
    BY <1>0, <2>1, <2>2 DEF WorkerTypes, WorkerTypeOK
  <2>6. stage' \in [Workers -> Stage]
    BY <1>0, <2>1, <2>4 DEF WorkerTypes, WorkerTypeOK, Stage
  <2>7. adding' \in [Workers -> SUBSET Nets] /\ exclusion' \in [Workers -> SUBSET Addr]
    BY <1>0, <2>1, <2>3 DEF WorkerTypes, WorkerTypeOK
  <2>8. HasJob'
    BY <1>0, <2>1, <2>2, <2>4 DEF WorkerTypes, WorkerTypeOK, HasJob
  <2> QED
    BY <1>0, <1>3, <2>5, <2>6, <2>7, <2>8 DEF Begin, WorkerTypes, WorkerTypeOK
<1>4. CASE FilterSafeCidrs(w)
  <2>1. adding' \in [Workers -> SUBSET Nets]
    BY <1>0, <1>4, NetworksType DEF FilterSafeCidrs, WorkerTypes, WorkerTypeOK
  <2>2. WorkerTypeOK' /\ HasJob'
    BY <1>0, <1>4, <2>1 DEF FilterSafeCidrs, WorkerTypes, WorkerTypeOK, HasJob, Stage
  <2> QED
    BY <1>0, <1>4, <2>2 DEF FilterSafeCidrs, WorkerTypes
<1>5. CASE ReadSafelist(w)
  <2>1. exclusion' \in [Workers -> SUBSET Addr]
    BY <1>0, <1>1, <1>5, AddressesType DEF ReadSafelist, WorkerTypes, WorkerTypeOK
  <2>2. WorkerTypeOK' /\ HasJob'
    BY <1>0, <1>5, <2>1 DEF ReadSafelist, WorkerTypes, WorkerTypeOK, HasJob, Stage
  <2> QED
    BY <1>0, <1>5, <2>2 DEF ReadSafelist, WorkerTypes
<1>6. CASE CleanDenylists(w)
  BY <1>6, DeleteExcludedType DEF CleanDenylists, DeleteExcluded
<1>7. CASE TrimList(w)
  BY <1>7, DeleteExcludedType DEF TrimList, DeleteExcluded
<1>8. ASSUME NEW k \in to_delete[w], DeleteRow(w, k)
      PROVE  WorkerTypes' /\ UNCHANGED <<list, now>>
  <2>1. IsTable(Without(written[w], {k}), Key, Expiry)
    BY <1>0, WithoutTable DEF WorkerTypes
  <2>2. DOMAIN written' = Workers /\ \A v \in Workers : IsTable(written'[v], Key, Expiry)
    BY <1>0, <1>8, <2>1 DEF DeleteRow, WorkerTypes
  <2>3. removed' \in [Workers -> SUBSET Key]
    BY <1>0, <1>8 DEF DeleteRow, WorkerTypes, IsTable
  <2>4. WorkerTypeOK' /\ HasJob'
    BY <1>0, <1>8 DEF DeleteRow, StopWaiting, WorkerTypes, WorkerTypeOK, HasJob
  <2> QED
    BY <1>0, <1>8, <2>2, <2>3, <2>4 DEF DeleteRow, WorkerTypes
<1>9. ASSUME NEW row \in new_subnets[w], UpsertRow(w, row)
      PROVE  WorkerTypes' /\ UNCHANGED <<list, now>>
  <2> DEFINE entry == [k \in {row[1]} |-> row[2]]
  <2>1. row[1] \in Key /\ row[2] \in Expiry
    BY <1>0 DEF WorkerTypes, WorkerTypeOK
  <2>2. IsTable(entry, Key, Expiry)
    BY <2>1 DEF IsTable
  <2>3. written' = [written EXCEPT ![w] = Overlay(@, entry)]
    BY <1>9 DEF UpsertRow
  <2> HIDE DEF entry
  <2>4. IsTable(Overlay(written[w], entry), Key, Expiry)
    BY <1>0, <2>2, OverlayTable DEF WorkerTypes
  <2>5. DOMAIN written' = Workers /\ \A v \in Workers : IsTable(written'[v], Key, Expiry)
    BY <1>0, <2>3, <2>4 DEF WorkerTypes
  <2>6. WorkerTypeOK' /\ HasJob'
    BY <1>0, <1>9 DEF UpsertRow, StopWaiting, WorkerTypes, WorkerTypeOK, HasJob
  <2> QED
    BY <1>0, <1>9, <2>5, <2>6 DEF UpsertRow, WorkerTypes
<1>10. ASSUME NEW k \in Key, WaitForRow(w, k)
       PROVE  WorkerTypes' /\ UNCHANGED <<list, now>>
  BY <1>0, <1>10 DEF WaitForRow, WorkerTypes, WorkerTypeOK, HasJob
<1>11. CASE AddOwnRows(w)
  <2> DEFINE expires_at == IF job[w].ttl = 0 THEN Never ELSE now + job[w].ttl
             rows == {<<(<<n, job[w].list>>), expires_at>> : n \in adding[w]}
  <2>1. job[w] \in Job /\ now \in Nat
    BY <1>0, <1>11 DEF AddOwnRows, WorkerTypes, HasJob, DatabaseTypeOK
  <2>2. expires_at \in Expiry /\ job[w].list \in ListIds
    BY <2>1 DEF Job, Expiry
  <2>3. new_subnets' = [new_subnets EXCEPT ![w] = rows]
    BY <1>11 DEF AddOwnRows
  <2>4. rows \in SUBSET (Key \X Expiry)
    BY <1>0, <2>2 DEF Key, WorkerTypes, WorkerTypeOK
  <2> HIDE DEF rows, expires_at
  <2>5. new_subnets' \in [Workers -> SUBSET (Key \X Expiry)]
    BY <1>0, <2>3, <2>4 DEF WorkerTypes, WorkerTypeOK
  <2>6. WorkerTypeOK' /\ HasJob'
    BY <1>0, <1>11, <2>5 DEF AddOwnRows, WorkerTypes, WorkerTypeOK, HasJob
  <2> QED
    BY <1>0, <1>11, <2>6 DEF AddOwnRows, WorkerTypes
<1>12. CASE EndJob(w)
  <2>1. WorkerTypeOK' /\ HasJob'
    BY <1>0, <1>12 DEF EndJob, WorkerTypes, WorkerTypeOK, HasJob, Stage
  <2> QED
    BY <1>0, <1>12, <2>1 DEF EndJob, WorkerTypes
<1>13. CASE Commit(w)
  <2>1. \A v \in Workers : IsTable(written'[v], Key, Expiry)
    BY <1>0, <1>13, NoRowsTable DEF Commit, WorkerTypes
  <2>2. WorkerTypeOK' /\ HasJob'
    BY <1>0, <1>13 DEF Commit, WorkerTypes, WorkerTypeOK, HasJob, Stage
  <2> QED
    BY <1>0, <1>1, <1>13, <2>1, <2>2 DEF Commit, WorkerTypes
<1>14. CASE ForeignKeyViolation(w) \/ DeadlockAbort(w)
  BY <1>14, AbortType DEF ForeignKeyViolation, DeadlockAbort, tables
<1> QED
  BY <1>2, <1>3, <1>4, <1>5, <1>6, <1>7, <1>8, <1>9, <1>10, <1>11, <1>12,
     <1>13, <1>14 DEF Work
-----------------------------------------------------------------------------
(* The system.                                                             *)

LEMMA StepTypeInv == TypeInv /\ [Next]_vars => TypeInv'
<1> SUFFICES ASSUME TypeInv, [Next]_vars PROVE TypeInv'
  OBVIOUS
<1>0. /\ DatabaseTypeOK /\ ApiTypeOK /\ WorkerTypeOK /\ SchedulerTypeOK /\ HasJob
      /\ faults \in 0 .. MaxFaults
  BY DEF TypeInv, TypeOK
<1> USE DEF TypeInv, TypeOK
<1>1. CASE ApiNext
  <2>1. ApiTypes' /\ UNCHANGED <<now, transactions, workerVars, scheduler_running, faults>>
    BY <1>1, ApiStepType DEF ApiNext
  <2>2. DatabaseTypeOK' /\ ApiTypeOK'
    BY <1>0, <2>1 DEF ApiTypes, DatabaseTypeOK, transactions
  <2>3. WorkerTypeOK' /\ HasJob'
    BY <1>0, <2>1 DEF WorkerTypeOK, HasJob, workerVars, progress, writes
  <2> QED
    BY <1>0, <2>1, <2>2, <2>3 DEF SchedulerTypeOK
<1>2. ASSUME NEW w \in Workers, WorkerNext(w) PROVE TypeInv'
  <2>1. WorkerTypes' /\ UNCHANGED <<list, now, apiVars, scheduler_running, faults>>
    BY <1>2, WorkType DEF WorkerNext
  <2>2. DatabaseTypeOK'
    BY <1>0, <2>1 DEF WorkerTypes, DatabaseTypeOK
  <2> QED
    BY <1>0, <2>1, <2>2 DEF WorkerTypes, ApiTypeOK, SchedulerTypeOK, apiVars
<1>3. ASSUME NEW w \in Workers, WorkerRestart(w) PROVE TypeInv'
  <2>1. DatabaseTypeOK' /\ ApiTypeOK' /\ SchedulerTypeOK' /\ faults' \in 0 .. MaxFaults
    BY <1>0, <1>3 DEF WorkerRestart, Restart, tables, transactions, apiVars,
                      DatabaseTypeOK, ApiTypeOK, SchedulerTypeOK
  <2>2. WorkerTypeOK' /\ HasJob'
    BY <1>0, <1>3 DEF WorkerRestart, Restart, Goto, progress, writes,
                      WorkerTypeOK, HasJob, Stage
  <2> QED
    BY <2>1, <2>2
<1>4. CASE SchedulerNext
  <2>1. IsTable(cidr', Key, Expiry)
    BY <1>0, <1>4, WithoutTable DEF SchedulerNext, DeleteExpired, DatabaseTypeOK
  <2>2. DatabaseTypeOK' /\ ApiTypeOK' /\ SchedulerTypeOK' /\ faults' \in 0 .. MaxFaults
    BY <1>0, <1>4, <2>1 DEF SchedulerNext, DeleteExpired, transactions, apiVars,
                            DatabaseTypeOK, ApiTypeOK, SchedulerTypeOK
  <2>3. WorkerTypeOK' /\ HasJob'
    BY <1>0, <1>4 DEF SchedulerNext, workerVars, progress, writes, WorkerTypeOK, HasJob
  <2> QED
    BY <2>2, <2>3
<1>5. CASE ClockNext
  <2>1. DatabaseTypeOK' /\ ApiTypeOK' /\ SchedulerTypeOK' /\ faults' \in 0 .. MaxFaults
    BY <1>0, <1>5 DEF ClockNext, Tick, tables, transactions, apiVars,
                      DatabaseTypeOK, ApiTypeOK, SchedulerTypeOK
  <2>2. WorkerTypeOK' /\ HasJob'
    BY <1>0, <1>5 DEF ClockNext, workerVars, progress, writes, WorkerTypeOK, HasJob
  <2> QED
    BY <2>1, <2>2
<1>6. ASSUME NEW w \in Workers, WorkerFault(w) PROVE TypeInv'
  <2>1. WorkerTypes' /\ UNCHANGED <<list, now, apiVars, scheduler_running>>
    BY <1>6, AbortType DEF WorkerFault, Crash, tables
  <2>2. DatabaseTypeOK'
    BY <1>0, <2>1 DEF WorkerTypes, DatabaseTypeOK
  <2>3. faults' \in 0 .. MaxFaults
    BY <1>0, <1>6, MaxFaultsAssumption DEF WorkerFault, Fault
  <2> QED
    BY <1>0, <2>1, <2>2, <2>3 DEF WorkerTypes, ApiTypeOK, SchedulerTypeOK, apiVars
<1>7. CASE SchedulerFault
  <2>1. faults' \in 0 .. MaxFaults
    BY <1>0, <1>7, MaxFaultsAssumption DEF SchedulerFault, Fault
  <2>2. DatabaseTypeOK' /\ ApiTypeOK' /\ SchedulerTypeOK'
    BY <1>0, <1>7 DEF SchedulerFault, SchedulerDies, tables, transactions, apiVars,
                      DatabaseTypeOK, ApiTypeOK, SchedulerTypeOK
  <2>3. WorkerTypeOK' /\ HasJob'
    BY <1>0, <1>7 DEF SchedulerFault, workerVars, progress, writes, WorkerTypeOK, HasJob
  <2> QED
    BY <2>1, <2>2, <2>3
<1>8. CASE WebRestart
  <2>1. faults' \in 0 .. MaxFaults
    BY <1>0, <1>8, MaxFaultsAssumption DEF WebRestart, Fault
  <2>2. DatabaseTypeOK' /\ ApiTypeOK' /\ SchedulerTypeOK'
    BY <1>0, <1>8 DEF WebRestart, ApiRestart, SchedulerStart, tables, transactions,
                      DatabaseTypeOK, ApiTypeOK, SchedulerTypeOK
  <2>3. WorkerTypeOK' /\ HasJob'
    BY <1>0, <1>8 DEF WebRestart, workerVars, progress, writes, WorkerTypeOK, HasJob
  <2> QED
    BY <2>1, <2>2, <2>3
<1>9. CASE UNCHANGED vars
  <2>1. DatabaseTypeOK' /\ ApiTypeOK' /\ SchedulerTypeOK' /\ faults' \in 0 .. MaxFaults
    BY <1>0, <1>9 DEF vars, tables, transactions, apiVars,
                      DatabaseTypeOK, ApiTypeOK, SchedulerTypeOK
  <2>2. WorkerTypeOK' /\ HasJob'
    BY <1>0, <1>9 DEF vars, workerVars, progress, writes, WorkerTypeOK, HasJob
  <2> QED
    BY <2>1, <2>2
<1>10. ASSUME NEW w \in Workers, Ends(w), IsTable(cidr', Key, Expiry),
              IsTable(list', ListIds, ListRow),
              UNCHANGED <<job_queue, now, apiVars, scheduler_running, faults>>
       PROVE  TypeInv'
  <2>1. WorkerTypes'
    BY <1>10, EndsType
  <2>2. DatabaseTypeOK'
    BY <1>0, <1>10, <2>1 DEF WorkerTypes, DatabaseTypeOK
  <2> QED
    BY <1>0, <1>10, <2>1, <2>2 DEF WorkerTypes, ApiTypeOK, SchedulerTypeOK, apiVars
<1>11. ASSUME SchedulerDies, UNCHANGED <<apiVars, workerVars, faults>>
       PROVE  TypeInv'
  <2>1. DatabaseTypeOK' /\ ApiTypeOK' /\ SchedulerTypeOK' /\ faults' \in 0 .. MaxFaults
    BY <1>0, <1>11 DEF SchedulerDies, tables, transactions, apiVars,
                      DatabaseTypeOK, ApiTypeOK, SchedulerTypeOK
  <2>2. WorkerTypeOK' /\ HasJob'
    BY <1>0, <1>11 DEF workerVars, progress, writes, WorkerTypeOK, HasJob
  <2> QED
    BY <2>1, <2>2
<1>12. ASSUME NEW w \in Workers, ExpiryDeadlock(w) PROVE TypeInv'
  <2>1. CASE SchedulerDies /\ UNCHANGED workerVars
    BY <1>11, <1>12, <2>1 DEF ExpiryDeadlock
  <2>2. CASE ExpiryWins(w)
    <3>1. IsTable(cidr', Key, Expiry)
      BY <1>0, <2>2, WithoutTable DEF ExpiryWins, DatabaseTypeOK
    <3>2. IsTable(list', ListIds, ListRow)
      BY <1>0, <2>2 DEF ExpiryWins, DatabaseTypeOK
    <3> QED
      BY <1>10, <1>12, <2>2, <3>1, <3>2 DEF ExpiryDeadlock, ExpiryWins
  <2> QED
    BY <1>12, <2>1, <2>2 DEF ExpiryDeadlock
<1>13. ASSUME NEW w \in Workers, DropDeadlock(w) PROVE TypeInv'
  <2>1. PICK l : \/ UNCHANGED <<list, cidr>>
                 \/ /\ list' = Without(list, {l})
                    /\ cidr' = Without(cidr, Nets \X {l})
    BY <1>13 DEF DropDeadlock
  <2> DEFINE rows == Nets \X {l}
  <2>2. IsTable(cidr, Key, Expiry) /\ IsTable(list, ListIds, ListRow)
    BY <1>0 DEF DatabaseTypeOK
  <2>3. IsTable(Without(cidr, rows), Key, Expiry)
    BY <2>2, WithoutTable
  <2>4. IsTable(Without(list, {l}), ListIds, ListRow)
    BY <2>2, WithoutTable
  <2>5. IsTable(cidr', Key, Expiry)
    BY <2>1, <2>2, <2>3
  <2>6. IsTable(list', ListIds, ListRow)
    BY <2>1, <2>2, <2>4
  <2> QED
    BY <1>10, <1>13, <2>5, <2>6 DEF DropDeadlock
<1> QED
  BY <1>1, <1>2, <1>3, <1>4, <1>5, <1>6, <1>7, <1>8, <1>9, <1>12, <1>13 DEF Next

\* Every variable keeps its type, and a worker between the first query of a job
\* and its end always has that job: job[w].user and job[w].list, which the
\* queries of worker.py read, are defined whenever they are read.
THEOREM TypeCorrect == Spec => []TypeInv
BY InitTypeInv, StepTypeInv, PTL DEF Spec

\* The type invariant the runs check.
THEOREM TypeCorrectness == Spec => []TypeOK
<1>1. TypeInv => TypeOK
  BY DEF TypeInv
<1> QED
  BY <1>1, TypeCorrect, PTL

-----------------------------------------------------------------------------
(* Locks.                                                                  *)


\* The two invariants depend on each other: that a worker's deleted rows are
\* still in the table is what keeps a commit of another worker from taking
\* them, and a list stays while a worker holds one of its rows.
LockInv == LocksExclusive /\ RowsHaveLists

LEMMA InitLockInv == Init => LockInv
<1> SUFFICES ASSUME Init PROVE LockInv
  OBVIOUS
<1>1. \A w \in Workers : /\ batch[w] = {} /\ todo[w] = {} /\ removed[w] = {}
                         /\ DOMAIN written[w] = {}
  BY NoRowsTable DEF Init, WorkerInit
<1>2. LocksExclusive
  BY <1>1 DEF LocksExclusive, Held
<1>3. \A k \in DOMAIN cidr : k[2] \in DOMAIN list
  BY Cidrs0Assumption DEF Init, IsTable
<1> QED
  BY <1>1, <1>2, <1>3 DEF LockInv, RowsHaveLists

\* Without removes exactly the given keys.
LEMMA WithoutDomain ==
    ASSUME NEW t, NEW S PROVE DOMAIN Without(t, S) = DOMAIN t \ S
BY DEF Without, Restrict

\* Deleting rows no worker has locked leaves the transactions as they are.
LEMMA DeleteUnlockedRows ==
    ASSUME TypeInv, LockInv, NEW K, ~Locked(K), cidr' = Without(cidr, K),
           UNCHANGED <<list, job_queue, batch, removed, written, todo>>
    PROVE  LockInv'
<1>1. DOMAIN cidr' = DOMAIN cidr \ K
  BY WithoutDomain
<1>2. \A w \in Workers : removed[w] \cap K = {}
  BY DEF Locked, Held
<1>3. LocksExclusive'
  BY <1>1, <1>2 DEF LockInv, LocksExclusive, Held
<1> QED
  BY <1>1, <1>3 DEF LockInv, RowsHaveLists

LEMMA ApiLocks ==
    ASSUME TypeInv, LockInv, ApiStep, UNCHANGED todo
    PROVE  LockInv'
<1>0. IsTable(list, ListIds, ListRow) /\ IsTable(cidr, Key, Expiry)
  BY DEF TypeInv, TypeOK, DatabaseTypeOK
<1>1. ASSUME UNCHANGED <<cidr, batch, removed, written, todo>>,
             job_queue \subseteq job_queue', DOMAIN list \subseteq DOMAIN list'
      PROVE  LockInv'
  BY <1>1 DEF LockInv, LocksExclusive, RowsHaveLists, Held
<1>2. ASSUME NEW cmd \in Commands, CreateList(cmd) PROVE LockInv'
  <2>1. DOMAIN list \subseteq DOMAIN list'
    BY <1>2 DEF CreateList, Overlay
  <2> QED
    BY <1>1, <1>2, <2>1 DEF CreateList, transactions
<1>3. ASSUME NEW cmd \in Commands, DropList(cmd) PROVE LockInv'
  <2> DEFINE K == Nets \X {cmd.list}
  <2>1. /\ ~Locked(K)
        /\ DOMAIN list' = DOMAIN list \ {cmd.list}
        /\ DOMAIN cidr' = DOMAIN cidr \ K
        /\ UNCHANGED <<job_queue, batch, removed, written, todo>>
    BY <1>3, WithoutDomain DEF DropList, transactions
  <2>2. \A k \in Key : k[2] = cmd.list => k \in K
    BY DEF Key
  <2>3. \A w \in Workers : Held(w) \cap K = {}
    BY <2>1 DEF Locked
  <2>4. LocksExclusive'
    BY <2>1, <2>3 DEF LockInv, LocksExclusive, Held
  <2>5. \A k \in DOMAIN cidr' : k[2] \in DOMAIN list'
    BY <1>0, <2>1, <2>2 DEF LockInv, RowsHaveLists, IsTable
  <2>6. ASSUME NEW w \in Workers, NEW k \in DOMAIN written[w]
        PROVE  k[2] \in DOMAIN list'
    <3>1. k \in Key /\ k \in Held(w)
      BY <2>6 DEF TypeInv, TypeOK, DatabaseTypeOK, IsTable, Held
    <3> QED
      BY <2>1, <2>2, <2>3, <2>6, <3>1 DEF LockInv, RowsHaveLists
  <2> QED
    BY <2>1, <2>4, <2>5, <2>6 DEF LockInv, RowsHaveLists
<1>4. ASSUME NEW cmd \in Commands, EraseCidr(cmd) PROVE LockInv'
  BY <1>4, DeleteUnlockedRows DEF EraseCidr, transactions
<1>5. ASSUME NEW cmd \in Commands, NEW c \in Clients, ReadList(c, cmd) PROVE LockInv'
  BY <1>1, <1>5 DEF ReadList, tables, transactions
<1>6. ASSUME NEW c \in Clients, UpdateList(c) PROVE LockInv'
  <2>1. DOMAIN list \subseteq DOMAIN list' /\ job_queue \subseteq job_queue'
    BY <1>6 DEF UpdateList, CleanupJob, InsertJob
  <2> QED
    BY <1>1, <1>6, <2>1 DEF UpdateList, transactions
<1>7. ASSUME NEW c \in Clients, UpdateMissesList(c) PROVE LockInv'
  <2>1. job_queue \subseteq job_queue'
    BY <1>7 DEF UpdateMissesList, CleanupJob, InsertJob
  <2> QED
    BY <1>1, <1>7, <2>1 DEF UpdateMissesList, transactions
<1>8. ASSUME NEW c \in Clients, QueueJob(c) PROVE LockInv'
  BY <1>1, <1>8 DEF QueueJob, InsertJob, transactions
<1> QED
  BY <1>2, <1>3, <1>4, <1>5, <1>6, <1>7, <1>8 DEF ApiStep

-----------------------------------------------------------------------------
\* A step of w that writes no row and takes no job keeps the locks.
LEMMA QuietStep ==
    ASSUME TypeInv, LockInv, NEW w \in Workers,
           UNCHANGED <<tables, transactions>>,
           \A v \in Workers : todo'[v] \subseteq todo[v]
    PROVE  LockInv'
BY DEF LockInv, LocksExclusive, RowsHaveLists, Held, tables, transactions

\* A worker ends, and with it may go rows K no other worker holds, with their lists.
LEMMA EndsLocks ==
    ASSUME TypeInv, LockInv, NEW w \in Workers, Ends(w), UNCHANGED job_queue,
           NEW K,
           DOMAIN cidr' = DOMAIN cidr \ K,
           \A v \in Workers \ {w} : Held(v) \cap K = {},
           \A k \in Key \ K : k[2] \in DOMAIN list => k[2] \in DOMAIN list'
    PROVE  LockInv'
<1>1. /\ batch'[w] = {} /\ todo'[w] = {} /\ removed'[w] = {} /\ DOMAIN written'[w] = {}
      /\ \A v \in Workers \ {w} : /\ batch'[v] = batch[v] /\ todo'[v] = todo[v]
                                  /\ removed'[v] = removed[v] /\ written'[v] = written[v]
  BY NoRowsTable
     DEF Ends, Rollback, TypeInv, TypeOK, DatabaseTypeOK, WorkerTypeOK
<1>2. \A v \in Workers : removed'[v] \subseteq DOMAIN cidr'
  BY <1>1 DEF LockInv, LocksExclusive, Held
<1>3. LocksExclusive'
  BY <1>1, <1>2 DEF LockInv, LocksExclusive, Held
<1>4. \A k \in DOMAIN cidr' : k[2] \in DOMAIN list'
  BY DEF LockInv, RowsHaveLists, TypeInv, TypeOK, DatabaseTypeOK, IsTable
<1>5. ASSUME NEW v \in Workers, NEW k \in DOMAIN written'[v]
      PROVE  k[2] \in DOMAIN list'
  <2>1. v # w /\ k \in DOMAIN written[v]
    BY <1>1, <1>5
  <2>2. k \in Key \ K
    BY <2>1 DEF Held, TypeInv, TypeOK, DatabaseTypeOK, IsTable
  <2> QED
    BY <2>1, <2>2 DEF LockInv, RowsHaveLists
<1> QED
  BY <1>3, <1>4, <1>5 DEF LockInv, RowsHaveLists

LEMMA AbortLocks ==
    ASSUME TypeInv, LockInv, NEW w \in Workers, Abort(w)
    PROVE  LockInv'
<1>1. /\ Ends(w) /\ UNCHANGED tables
  BY DEF Abort
<1> DEFINE K == {}
<1>2. /\ DOMAIN cidr' = DOMAIN cidr \ K /\ UNCHANGED job_queue
      /\ \A v \in Workers \ {w} : Held(v) \cap K = {}
      /\ \A k \in Key \ K : k[2] \in DOMAIN list => k[2] \in DOMAIN list'
  BY <1>1 DEF tables
<1> HIDE DEF K
<1> QED
  BY <1>1, <1>2, EndsLocks

LEMMA PollLocks ==
    ASSUME TypeInv, LockInv, NEW w \in Workers, Poll(w)
    PROVE  LockInv'
<1>1. /\ batch'[w] = UnlockedJobs /\ todo'[w] = UnlockedJobs
      /\ \A v \in Workers \ {w} : batch'[v] = batch[v] /\ todo'[v] = todo[v]
      /\ UNCHANGED <<tables, removed, written>>
  BY DEF Poll, TypeInv, TypeOK, DatabaseTypeOK, WorkerTypeOK
<1>2. UnlockedJobs \subseteq job_queue /\ \A v \in Workers : UnlockedJobs \cap batch[v] = {}
  BY DEF UnlockedJobs
<1>3. LocksExclusive'
  BY <1>1, <1>2 DEF LockInv, LocksExclusive, Held, tables
<1> QED
  BY <1>1, <1>3 DEF LockInv, RowsHaveLists, tables

\* A delete locks a committed row nobody else holds.
LEMMA DeleteRowLocks ==
    ASSUME TypeInv, LockInv, NEW w \in Workers, NEW k, DeleteRow(w, k)
    PROVE  LockInv'
<1>1. /\ removed'[w] = removed[w] \cup ({k} \cap DOMAIN cidr)
      /\ DOMAIN written'[w] = DOMAIN written[w] \ {k}
      /\ \A v \in Workers \ {w} : removed'[v] = removed[v] /\ written'[v] = written[v]
      /\ UNCHANGED <<tables, batch, todo>>
  BY WithoutDomain DEF DeleteRow, progress, TypeInv, TypeOK, DatabaseTypeOK
<1>2. k \in DOMAIN cidr => \A v \in Workers \ {w} : k \notin Held(v)
  BY DEF DeleteRow, Blocked, HeldByOthers
<1>3. LocksExclusive'
  BY <1>1, <1>2 DEF LockInv, LocksExclusive, Held, tables
<1> QED
  BY <1>1, <1>3 DEF LockInv, RowsHaveLists, tables

\* An upsert locks a row of an existing list nobody else holds.
LEMMA UpsertRowLocks ==
    ASSUME TypeInv, LockInv, NEW w \in Workers, NEW row, UpsertRow(w, row)
    PROVE  LockInv'
<1>1. /\ DOMAIN written'[w] = DOMAIN written[w] \cup {row[1]}
      /\ \A v \in Workers \ {w} : written'[v] = written[v]
      /\ UNCHANGED <<tables, batch, removed, todo>>
  BY DEF UpsertRow, Overlay, progress, TypeInv, TypeOK, DatabaseTypeOK
<1>2. \A v \in Workers \ {w} : row[1] \notin Held(v)
  BY DEF UpsertRow, Blocked, HeldByOthers
<1>3. row[1][2] \in DOMAIN list
  BY DEF UpsertRow
<1>4. LocksExclusive'
  BY <1>1, <1>2 DEF LockInv, LocksExclusive, Held, tables
<1> QED
  BY <1>1, <1>3, <1>4 DEF LockInv, RowsHaveLists, tables

\* A commit takes away only its own jobs and the rows it had locked.
LEMMA CommitLocks ==
    ASSUME TypeInv, LockInv, NEW w \in Workers, Commit(w)
    PROVE  LockInv'
<1>1. /\ batch'[w] = {} /\ removed'[w] = {} /\ DOMAIN written'[w] = {}
      /\ todo'[w] = {}
      /\ \A v \in Workers \ {w} : /\ batch'[v] = batch[v] /\ todo'[v] = todo[v]
                                  /\ removed'[v] = removed[v] /\ written'[v] = written[v]
      /\ job_queue' = job_queue \ batch[w] /\ UNCHANGED list
  BY NoRowsTable DEF Commit, progress, TypeInv, TypeOK, DatabaseTypeOK, WorkerTypeOK
<1>2. DOMAIN cidr' = (DOMAIN cidr \ removed[w]) \cup DOMAIN written[w]
  BY ViewTable DEF Commit, TypeInv, TypeOK
<1>3. LocksExclusive'
  BY <1>1, <1>2 DEF LockInv, LocksExclusive, Held
<1> QED
  BY <1>1, <1>2, <1>3 DEF LockInv, RowsHaveLists

LEMMA WorkLocks ==
    ASSUME TypeInv, LockInv, NEW w \in Workers, Work(w)
    PROVE  LockInv'
<1>0. todo \in [Workers -> SUBSET Job]
  BY DEF TypeInv, TypeOK, WorkerTypeOK
<1>1. CASE Begin(w)
  BY <1>0, <1>1, QuietStep DEF Begin
<1>2. CASE FilterSafeCidrs(w) \/ ReadSafelist(w) \/ AddOwnRows(w) \/ EndJob(w)
  BY <1>2, QuietStep DEF FilterSafeCidrs, ReadSafelist, AddOwnRows, EndJob
<1>3. CASE CleanDenylists(w) \/ TrimList(w)
  BY <1>3, QuietStep DEF CleanDenylists, TrimList, DeleteExcluded
<1>4. ASSUME NEW k \in Key, WaitForRow(w, k) PROVE LockInv'
  BY <1>4, QuietStep DEF WaitForRow, progress
<1>5. CASE ForeignKeyViolation(w) \/ DeadlockAbort(w)
  BY <1>5, AbortLocks DEF ForeignKeyViolation, DeadlockAbort
<1> QED
  BY <1>1, <1>2, <1>3, <1>4, <1>5, PollLocks, DeleteRowLocks, UpsertRowLocks,
     CommitLocks DEF Work

-----------------------------------------------------------------------------
(* A delete crosses a worker, which ends.                                  *)

LEMMA OthersHold ==
    ASSUME NEW w \in Workers, NEW K, ~LockedByOthers(w, K)
    PROVE  \A v \in Workers \ {w} : Held(v) \cap K = {}
BY DEF LockedByOthers, HeldByOthers

LEMMA ExpiryWinsLocks ==
    ASSUME TypeInv, LockInv, NEW w \in Workers, ExpiryWins(w)
    PROVE  LockInv'
<1>1. Ends(w) /\ UNCHANGED <<list, job_queue, now>>
  BY DEF ExpiryWins
<1>2. CASE LockedByOthers(w, ExpiredRows)
  BY <1>1, <1>2, AbortLocks DEF ExpiryWins, Abort, tables
<1>3. CASE ~LockedByOthers(w, ExpiredRows)
  <2>1. cidr' = Without(cidr, ExpiredRows)
    BY <1>3 DEF ExpiryWins
  <2>2. DOMAIN cidr' = DOMAIN cidr \ ExpiredRows
    BY <2>1, WithoutDomain
  <2>3. \A k \in Key \ ExpiredRows : k[2] \in DOMAIN list => k[2] \in DOMAIN list'
    BY <1>1
  <2>4. \A v \in Workers \ {w} : Held(v) \cap ExpiredRows = {}
    BY <1>3, OthersHold
  <2> QED
    BY <1>1, <2>2, <2>3, <2>4, EndsLocks
<1> QED
  BY <1>2, <1>3

LEMMA DropDeadlockLocks ==
    ASSUME TypeInv, LockInv, NEW w \in Workers, DropDeadlock(w)
    PROVE  LockInv'
<1>1. Ends(w) /\ UNCHANGED <<job_queue, now>>
  BY DEF DropDeadlock
<1>2. PICK l : LET rows == Nets \X {l}
               IN  IF LockedByOthers(w, rows)
                      THEN UNCHANGED <<list, cidr>>
                      ELSE /\ list' = Without(list, {l})
                           /\ cidr' = Without(cidr, rows)
  BY DEF DropDeadlock
<1> DEFINE rows == Nets \X {l}
<1>3. CASE LockedByOthers(w, rows)
  BY <1>1, <1>2, <1>3, AbortLocks DEF Abort, tables
<1>4. CASE ~LockedByOthers(w, rows)
  <2>1. DOMAIN list' = DOMAIN list \ {l} /\ DOMAIN cidr' = DOMAIN cidr \ rows
    BY <1>2, <1>4, WithoutDomain
  <2>2. \A k \in Key \ rows : k[2] \in DOMAIN list => k[2] \in DOMAIN list'
    BY <2>1 DEF Key
  <2> QED
    BY <1>1, <1>4, <2>1, <2>2, OthersHold, EndsLocks
<1> QED
  BY <1>3, <1>4

-----------------------------------------------------------------------------
LEMMA StepLockInv == TypeInv /\ LockInv /\ [Next]_vars => LockInv'
<1> SUFFICES ASSUME TypeInv, LockInv, [Next]_vars PROVE LockInv'
  OBVIOUS
<1>1. CASE ApiNext
  BY <1>1, ApiLocks DEF ApiNext, workerVars, progress
<1>2. ASSUME NEW w \in Workers, WorkerNext(w) PROVE LockInv'
  BY <1>2, WorkLocks DEF WorkerNext
<1>3. ASSUME NEW w \in Workers, WorkerRestart(w) PROVE LockInv'
  BY <1>3, QuietStep DEF WorkerRestart, Restart, progress
<1>4. CASE SchedulerNext
  BY <1>4, DeleteUnlockedRows
     DEF SchedulerNext, DeleteExpired, transactions, workerVars, progress
<1>5. ASSUME NEW w \in Workers, WorkerFault(w) PROVE LockInv'
  BY <1>5, AbortLocks DEF WorkerFault, Crash
<1>6. CASE ClockNext \/ SchedulerFault \/ WebRestart \/ UNCHANGED vars
  <2>1. UNCHANGED <<tables, transactions, todo>>
    BY <1>6 DEF ClockNext, Tick, SchedulerFault, SchedulerDies, WebRestart,
                ApiRestart, vars, workerVars, progress
  <2> QED
    BY <2>1 DEF LockInv, LocksExclusive, RowsHaveLists, Held, tables, transactions
<1>7. ASSUME SchedulerDies, UNCHANGED workerVars PROVE LockInv'
  BY <1>7 DEF SchedulerDies, workerVars, progress, tables, transactions,
              LockInv, LocksExclusive, RowsHaveLists, Held
<1>8. ASSUME NEW w \in Workers, ExpiryDeadlock(w) PROVE LockInv'
  BY <1>7, <1>8, ExpiryWinsLocks DEF ExpiryDeadlock
<1>9. ASSUME NEW w \in Workers, DropDeadlock(w) PROVE LockInv'
  BY <1>9, DropDeadlockLocks
<1> QED
  BY <1>1, <1>2, <1>3, <1>4, <1>5, <1>6, <1>8, <1>9 DEF Next

LEMMA LockInvariance == Spec => []LockInv
BY InitTypeInv, StepTypeInv, InitLockInv, StepLockInv, PTL DEF Spec

\* No job is processed by two workers and no row is written by two open
\* transactions, for any number of workers, clients and lists and whatever
\* crashes: SKIP LOCKED and the row locks suffice (worker.py, lines 22-29).
THEOREM WorkersStayApart == Spec => []LocksExclusive
<1>1. LockInv => LocksExclusive
  BY DEF LockInv
<1> QED
  BY <1>1, LockInvariance, PTL

\* No row, committed or about to be, is without its list.
THEOREM NoOrphanRows == Spec => []RowsHaveLists
<1>1. LockInv => RowsHaveLists
  BY DEF LockInv
<1> QED
  BY <1>1, LockInvariance, PTL
=============================================================================
