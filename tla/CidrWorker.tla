----------------------------- MODULE CidrWorker -----------------------------
(***************************************************************************)
(* The job workers, src/app/lib/worker.py.  A worker polls job_queue,      *)
(* takes every job no other worker holds, and processes them one after the *)
(* other in one transaction.  Each query is an action: between two of them *)
(* the web process, the scheduler and the other workers go on.             *)
(***************************************************************************)
EXTENDS Database

CONSTANTS
    NonGlobal,      \* networks parse_raw_cidrs drops when it adds
    Special,        \* networks add_cidrs drops after collapsing: /0, 0.0.0.0/n
    InIdOrder,      \* the rows of the batch come back in the order of their ids
    NoJob           \* the worker is between two jobs

ASSUME NonGlobalAssumption == NonGlobal \subseteq Nets
ASSUME SpecialAssumption == Special \subseteq Nets
ASSUME InIdOrderAssumption == InIdOrder \in BOOLEAN
ASSUME NoJobAssumption == NoJob \notin Job

VARIABLES
    stage,          \* the query each worker is about to send
    todo,           \* jobs of its batch it has not begun
    job,            \* the job in progress
    adding,         \* ipv4_cidrs | ipv6_cidrs of add_cidrs, not yet sent
    exclusion,      \* the addresses of exclusion_cidrs
    to_delete,      \* rows left to delete
    new_subnets,    \* rows left to upsert, with their expires_at
    waiting         \* the row a statement waits for, locked by another worker

progress == <<todo, job, adding, exclusion>>
writes == <<to_delete, new_subnets, waiting>>
workerVars == <<stage, progress, writes>>

(* Waiting for the next poll; between two jobs; about to read the enabled  *)
(* safelists, the safelist just enabled, the denylists to clean or the     *)
(* list to delete from; sending deletes and upserts; stopped for good.     *)
Stage == {"idle", "next", "filter", "safelist", "clean", "trim", "write", "dead"}

WorkerTypeOK ==
    /\ stage \in [Workers -> Stage]
    /\ todo \in [Workers -> SUBSET Job]
    /\ job \in [Workers -> Job \cup {NoJob}]
    /\ adding \in [Workers -> SUBSET Nets]
    /\ exclusion \in [Workers -> SUBSET Addr]
    /\ to_delete \in [Workers -> SUBSET Key]
    /\ new_subnets \in [Workers -> SUBSET (Key \X Expiry)]
    /\ waiting \in [Workers -> SUBSET Key]

WorkerInit ==
    /\ stage = [w \in Workers |-> "idle"]
    /\ todo = [w \in Workers |-> {}]
    /\ job = [w \in Workers |-> NoJob]
    /\ adding = [w \in Workers |-> {}]
    /\ exclusion = [w \in Workers |-> {}]
    /\ to_delete = [w \in Workers |-> {}]
    /\ new_subnets = [w \in Workers |-> {}]
    /\ waiting = [w \in Workers |-> {}]

-----------------------------------------------------------------------------
Goto(w, s) == stage' = [stage EXCEPT ![w] = s]

\* CONSUME_JOB_QUERY opens the transaction; the jobs stay locked until its end.
Poll(w) ==
    /\ stage[w] = "idle"
    /\ batch' = [batch EXCEPT ![w] = UnlockedJobs]
    /\ todo' = [todo EXCEPT ![w] = UnlockedJobs]
    /\ Goto(w, "next")
    /\ UNCHANGED <<tables, now, removed, written, job, adding, exclusion, writes>>

\* A mutated form: the order of the ids is lost.
AnyCandidate(w) == todo[w]

\* The jobs the loop over the batch may reach next.
Candidates(w) ==
    IF InIdOrder THEN {j \in todo[w] : \A k \in todo[w] : j.id <= k.id}
                 ELSE todo[w]

\* parse_raw_cidrs, and for an ADD job the networks add_cidrs goes on with.
Parsed(j) ==
    IF j.action = "add" THEN Collapsed(Cover(j.cidrs \ NonGlobal)) \ Special
                        ELSE Collapsed(Cover(j.cidrs))

\* A mutated form: a job for a disabled safelist is dropped.
FirstQuerySkipsDisabled(j) ==
    CASE j.action = "update" -> "safelist"
      [] j.action # "update" /\ Parsed(j) = {} -> "next"
      [] j.action = "delete" /\ Parsed(j) # {} -> "trim"
      [] j.action = "add" /\ Parsed(j) # {} ->
             IF j.type = "DENY" THEN "filter"
             ELSE IF j.enabled THEN "clean" ELSE "next"

\* Where a job starts.  add_cidrs and delete_cidrs return at once when no
\* network is left; add_cidrs filters a denylist, cleans up after a safelist
\* that was enabled when the job was made, and only writes otherwise.
FirstQuery(j) ==
    CASE j.action = "update" -> "safelist"
      [] j.action # "update" /\ Parsed(j) = {} -> "next"
      [] j.action = "delete" /\ Parsed(j) # {} -> "trim"
      [] j.action = "add" /\ Parsed(j) # {} ->
             IF j.type = "DENY" THEN "filter"
             ELSE IF j.enabled THEN "clean" ELSE "write"

\* Take the next job of the batch.
Begin(w) ==
    /\ stage[w] = "next"
    /\ \E j \in Candidates(w) :
           /\ todo' = [todo EXCEPT ![w] = @ \ {j}]
           /\ job' = [job EXCEPT ![w] = IF FirstQuery(j) = "next" THEN NoJob ELSE j]
           /\ Goto(w, FirstQuery(j))
           /\ adding' = [adding EXCEPT ![w] = IF j.action = "add" THEN Parsed(j) ELSE {}]
           /\ exclusion' = [exclusion EXCEPT ![w] =
                  IF FirstQuery(j) \in {"clean", "trim"} THEN Cover(Parsed(j)) ELSE {}]
    /\ UNCHANGED <<tables, now, transactions, writes>>

\* filter_safe_cidrs: the addresses of the user's enabled safelists are taken
\* out of the networks to add.
FilterSafeCidrs(w) ==
    /\ stage[w] = "filter"
    /\ LET safe == AddressesOf(View(w), EnabledLists(job[w].user, "SAFE"))
       IN  adding' = [adding EXCEPT ![w] =
               Collapsed(UNION {Cover(AddressExcludeMany(n, safe)) : n \in @})]
    /\ Goto(w, "write")
    /\ UNCHANGED <<tables, now, transactions, todo, job, exclusion, writes>>

\* update_cleanup: the rows of the safelist, if it is enabled still.
ReadSafelist(w) ==
    /\ stage[w] = "safelist"
    /\ LET enabled == {l \in {job[w].list} \cap DOMAIN list : list[l].enabled}
       IN  exclusion' = [exclusion EXCEPT ![w] = AddressesOf(View(w), enabled)]
    /\ Goto(w, "clean")
    /\ UNCHANGED <<tables, now, transactions, todo, job, adding, writes>>

\* A mutated form: the rows left go to the list of the job.
RowsLeftInJobList(w, rows, k) ==
    {<<(<<n, job[w].list>>), rows[k]>> : n \in AddressExcludeMany(k[1], exclusion[w])}

\* A mutated form: what is left of a row never expires.
RowsLeftWithoutExpiry(w, rows, k) ==
    {<<(<<n, k[2]>>), Never>> : n \in AddressExcludeMany(k[1], exclusion[w])}

\* What is left of row k, with the expires_at it was read with.
RowsLeft(w, rows, k) ==
    {<<(<<n, k[2]>>), rows[k]>> : n \in AddressExcludeMany(k[1], exclusion[w])}

\* delete_excluded_cidrs, up to its writes: every row read is either replaced
\* by what is left of it or, when nothing was excluded from it, written back
\* with the expires_at it was read with.
DeleteExcluded(w, lists) ==
    /\ to_delete' = [to_delete EXCEPT ![w] =
           {k \in RowsOf(View(w), lists) :
               AddressExcludeMany(k[1], exclusion[w]) # {k[1]}}]
    /\ new_subnets' = [new_subnets EXCEPT ![w] =
           UNION {RowsLeft(w, View(w), k) : k \in RowsOf(View(w), lists)}]
    /\ exclusion' = [exclusion EXCEPT ![w] = {}]
    /\ Goto(w, "write")
    /\ UNCHANGED <<tables, now, transactions, todo, job, adding, waiting>>

\* list_type=DENY: the enabled denylists of the job's user.
CleanDenylists(w) ==
    /\ stage[w] = "clean"
    /\ DeleteExcluded(w, EnabledLists(job[w].user, "DENY"))

\* list_id: every row of the job's list.
TrimList(w) ==
    /\ stage[w] = "trim"
    /\ DeleteExcluded(w, {job[w].list} \cap DOMAIN list)

-----------------------------------------------------------------------------
(* The writes, row by row: executemany sends one statement per row, and    *)
(* waits at the first row another transaction has locked.  The rows come   *)
(* from sets and from queries without an order, so they come in any order. *)

HeldByOthers(w, k) == \E v \in Workers \ {w} : k \in Held(v)

\* A freed row goes to the worker that waited for it; one that holds the row
\* may write to it again before.
Blocked(w, k) ==
    \/ HeldByOthers(w, k)
    \/ k \notin Held(w) \cup waiting[w] /\ \E v \in Workers : k \in waiting[v]

\* The statement in progress is about row k.
Sends(w, k) ==
    /\ stage[w] = "write"
    /\ waiting[w] \subseteq {k}

StopWaiting(w) == waiting' = [waiting EXCEPT ![w] = {}]

\* `delete from cidr where address = $1 and list_id = $2`.
DeleteRow(w, k) ==
    /\ Sends(w, k)
    /\ k \in to_delete[w]
    /\ k \in DOMAIN cidr => ~Blocked(w, k)
    /\ to_delete' = [to_delete EXCEPT ![w] = @ \ {k}]
    /\ removed' = [removed EXCEPT ![w] = @ \cup ({k} \cap DOMAIN cidr)]
    /\ written' = [written EXCEPT ![w] = Without(@, {k})]
    /\ StopWaiting(w)
    /\ UNCHANGED <<tables, now, batch, stage, progress, new_subnets>>

\* UPSERT_CIDR: it needs the list, by foreign key.
UpsertRow(w, row) ==
    /\ Sends(w, row[1])
    /\ to_delete[w] = {}
    /\ row \in new_subnets[w]
    /\ row[1][2] \in DOMAIN list
    /\ ~Blocked(w, row[1])
    /\ new_subnets' = [new_subnets EXCEPT ![w] = @ \ {row}]
    /\ written' = [written EXCEPT ![w] =
                       Overlay(@, [k \in {row[1]} |-> row[2]])]
    /\ StopWaiting(w)
    /\ UNCHANGED <<tables, now, batch, removed, stage, progress, to_delete>>

\* The rows the next statement may be about.
NextRows(w) ==
    IF to_delete[w] # {} THEN to_delete[w] \cap DOMAIN cidr
                         ELSE {row[1] : row \in new_subnets[w]}

\* Either statement meets a row another worker has locked, and waits.
WaitForRow(w, k) ==
    /\ stage[w] = "write"
    /\ waiting[w] = {}
    /\ k \in NextRows(w)
    /\ HeldByOthers(w, k)
    /\ waiting' = [waiting EXCEPT ![w] = {k}]
    /\ UNCHANGED <<tables, now, transactions, stage, progress, to_delete, new_subnets>>

\* The end of add_cidrs: the job's own rows follow the cleanup.
AddOwnRows(w) ==
    /\ stage[w] = "write"
    /\ to_delete[w] = {} /\ new_subnets[w] = {} /\ adding[w] # {}
    /\ LET expires_at == IF job[w].ttl = 0 THEN Never ELSE now + job[w].ttl
       IN  new_subnets' = [new_subnets EXCEPT ![w] =
               {<<(<<n, job[w].list>>), expires_at>> : n \in adding[w]}]
    /\ adding' = [adding EXCEPT ![w] = {}]
    /\ UNCHANGED <<tables, now, transactions, stage, todo, job, exclusion, to_delete, waiting>>

\* The job is done.
EndJob(w) ==
    /\ stage[w] = "write"
    /\ to_delete[w] = {} /\ new_subnets[w] = {} /\ adding[w] = {}
    /\ job' = [job EXCEPT ![w] = NoJob]
    /\ Goto(w, "next")
    /\ UNCHANGED <<tables, now, transactions, todo, adding, exclusion, writes>>

\* The batch is done: its jobs leave the queue and its writes show, at once.
Commit(w) ==
    /\ stage[w] = "next"
    /\ todo[w] = {}
    /\ job_queue' = job_queue \ batch[w]
    /\ cidr' = View(w)
    /\ batch' = [batch EXCEPT ![w] = {}]
    /\ removed' = [removed EXCEPT ![w] = {}]
    /\ written' = [written EXCEPT ![w] = NoRows]
    /\ Goto(w, "idle")
    /\ UNCHANGED <<list, now, progress, writes>>

-----------------------------------------------------------------------------
(* Failures.  The transaction is rolled back, so the jobs return to the    *)
(* queue, and the exception ends the loop: _consume_loop catches none but  *)
(* KeyboardInterrupt.                                                      *)

\* A mutated form: the jobs taken are not given back.
RollbackKeepsJobs(w) ==
    /\ removed' = [removed EXCEPT ![w] = {}]
    /\ written' = [written EXCEPT ![w] = NoRows]
    /\ UNCHANGED batch

\* The open transaction comes to nothing.
Rollback(w) ==
    /\ batch' = [batch EXCEPT ![w] = {}]
    /\ removed' = [removed EXCEPT ![w] = {}]
    /\ written' = [written EXCEPT ![w] = NoRows]

\* The loop ends.
Ends(w) ==
    /\ Rollback(w)
    /\ Goto(w, "dead")
    /\ todo' = [todo EXCEPT ![w] = {}]
    /\ job' = [job EXCEPT ![w] = NoJob]
    /\ adding' = [adding EXCEPT ![w] = {}]
    /\ exclusion' = [exclusion EXCEPT ![w] = {}]
    /\ to_delete' = [to_delete EXCEPT ![w] = {}]
    /\ new_subnets' = [new_subnets EXCEPT ![w] = {}]
    /\ StopWaiting(w)

Abort(w) == Ends(w) /\ UNCHANGED <<tables, now>>

\* An upsert finds no list for its row.
ForeignKeyViolation(w) ==
    /\ to_delete[w] = {}
    /\ \E row \in new_subnets[w] : Sends(w, row[1]) /\ row[1][2] \notin DOMAIN list
    /\ Abort(w)

\* Two workers wait for each other's rows; PostgreSQL ends one of them.
DeadlockAbort(w) ==
    /\ \E v \in Workers \ {w} : /\ waiting[w] \cap Held(v) # {}
                                /\ waiting[v] \cap Held(w) # {}
    /\ Abort(w)

\* The process is killed or loses its connection.
Crash(w) == stage[w] # "dead" /\ Abort(w)

\* The process is started again.
Restart(w) ==
    /\ stage[w] = "dead"
    /\ Goto(w, "idle")
    /\ UNCHANGED <<tables, now, transactions, progress, writes>>

\* What a running worker does next, by itself.
Work(w) ==
    \/ Poll(w)
    \/ Begin(w)
    \/ FilterSafeCidrs(w)
    \/ ReadSafelist(w)
    \/ CleanDenylists(w)
    \/ TrimList(w)
    \/ \E k \in to_delete[w] : DeleteRow(w, k)
    \/ \E row \in new_subnets[w] : UpsertRow(w, row)
    \/ \E k \in Key : WaitForRow(w, k)
    \/ AddOwnRows(w)
    \/ EndJob(w)
    \/ Commit(w)
    \/ ForeignKeyViolation(w)
    \/ DeadlockAbort(w)
=============================================================================
