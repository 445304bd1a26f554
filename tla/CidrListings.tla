---------------------------- MODULE CidrListings ----------------------------
(***************************************************************************)
(* The system: the web process (handlers and scheduler) and the job        *)
(* workers around one database.                                            *)
(***************************************************************************)
EXTENDS ListApi, CidrWorker, Scheduler

CONSTANTS
    Lists0,         \* the lists and the rows the system starts with
    Cidrs0,
    MaxFaults       \* bound on crashes, restarts and database errors

ASSUME Lists0Assumption == IsTable(Lists0, ListIds, ListRow)
ASSUME Cidrs0Assumption == IsTable(Cidrs0, Nets \X DOMAIN Lists0, Expiry)
ASSUME MaxFaultsAssumption == MaxFaults \in Nat

VARIABLE faults

vars == <<tables, now, transactions, apiVars, workerVars, scheduler_running, faults>>

Init ==
    /\ list = Lists0
    /\ cidr = Cidrs0
    /\ job_queue = {}
    /\ now = 0
    /\ batch = [w \in Workers |-> {}]
    /\ removed = [w \in Workers |-> {}]
    /\ written = [w \in Workers |-> NoRows]
    /\ ApiInit
    /\ WorkerInit
    /\ SchedulerInit
    /\ faults = 0

-----------------------------------------------------------------------------
ApiNext == ApiStep /\ UNCHANGED <<workerVars, scheduler_running, faults>>

WorkerNext(w) == Work(w) /\ UNCHANGED <<apiVars, scheduler_running, faults>>

WorkerRestart(w) == Restart(w) /\ UNCHANGED <<apiVars, scheduler_running, faults>>

SchedulerNext == DeleteExpired /\ UNCHANGED <<apiVars, workerVars, faults>>

ClockNext == Tick /\ UNCHANGED <<apiVars, workerVars, scheduler_running, faults>>

Fault == faults < MaxFaults /\ faults' = faults + 1

WorkerFault(w) == Crash(w) /\ Fault /\ UNCHANGED <<apiVars, scheduler_running>>

SchedulerFault == SchedulerDies /\ Fault /\ UNCHANGED <<apiVars, workerVars>>

WebRestart == ApiRestart /\ SchedulerStart /\ Fault /\ UNCHANGED workerVars

(* Deletes of several rows lock them one by one, as a worker does.  When a *)
(* delete holds the row a worker comes to and waits for one the worker     *)
(* holds, PostgreSQL ends one of the two.  With the worker's rows free the *)
(* delete is done, unless it waits for those of another worker.            *)

\* Worker w holds some of the rows K and may come to another of them next.
Crosses(w, K) ==
    /\ Held(w) \cap K # {}
    /\ \E k \in NextRows(w) : k \in K \ Held(w) /\ Sends(w, k)

LockedByOthers(w, K) == \E k \in K : HeldByOthers(w, k)

ExpiryWins(w) ==
    /\ Ends(w)
    /\ cidr' = IF LockedByOthers(w, ExpiredRows) THEN cidr
               ELSE Without(cidr, ExpiredRows)
    /\ UNCHANGED <<list, job_queue, now, scheduler_running>>

\* The expiry task crosses a worker: its thread ends, or the worker.
ExpiryDeadlock(w) ==
    /\ scheduler_running
    /\ Crosses(w, ExpiredRows)
    /\ \/ ExpiryWins(w)
       \/ SchedulerDies /\ UNCHANGED workerVars
    /\ UNCHANGED <<apiVars, faults>>

\* The list itself is free: no worker has inserted a row that refers to it.
Unreferenced(l) ==
    \A w \in Workers : \A k \in DOMAIN written[w] :
        k[2] = l => k \in DOMAIN cidr \ removed[w]

\* delete_list crosses a worker: the worker ends.  When the request fails
\* instead, nothing changes.
DropDeadlock(w) ==
    /\ \E cmd \in Commands :
           LET rows == Nets \X {cmd.list}
           IN  /\ cmd \in DropCommand
               /\ Owns(cmd.user, cmd.list)
               /\ Unreferenced(cmd.list)
               /\ Crosses(w, rows)
               /\ IF LockedByOthers(w, rows)
                      THEN UNCHANGED <<list, cidr>>
                      ELSE /\ list' = Without(list, {cmd.list})
                           /\ cidr' = Without(cidr, rows)
    /\ Ends(w)
    /\ UNCHANGED <<job_queue, now, apiVars, scheduler_running, faults>>

Next ==
    \/ ApiNext
    \/ \E w \in Workers : WorkerNext(w)
    \/ \E w \in Workers : WorkerRestart(w)
    \/ SchedulerNext
    \/ ClockNext
    \/ \E w \in Workers : WorkerFault(w)
    \/ SchedulerFault
    \/ WebRestart
    \/ \E w \in Workers : ExpiryDeadlock(w)
    \/ \E w \in Workers : DropDeadlock(w)

Spec == Init /\ [][Next]_vars

(* The loops go on: a worker polls again after each batch and carries the  *)
(* batch through, the scheduler repeats its query.  Nothing makes clients  *)
(* send requests, time reach a given value or a fault happen.              *)
LoopSpec ==
    /\ Spec
    /\ \A w \in Workers : WF_vars(WorkerNext(w))
    /\ WF_vars(SchedulerNext)

\* With an operator who always starts a dead worker again.
RestartSpec == LoopSpec /\ \A w \in Workers : WF_vars(WorkerRestart(w))

TypeOK ==
    /\ DatabaseTypeOK
    /\ ApiTypeOK
    /\ WorkerTypeOK
    /\ SchedulerTypeOK
    /\ faults \in 0 .. MaxFaults
=============================================================================
