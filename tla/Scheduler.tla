------------------------------ MODULE Scheduler ------------------------------
(***************************************************************************)
(* The scheduled task that deletes expired rows, a thread of the web       *)
(* process: src/app/lib/scheduled_tasks.py.                                *)
(***************************************************************************)
EXTENDS Database

VARIABLE scheduler_running      \* the thread's loop has not ended

SchedulerTypeOK == scheduler_running \in BOOLEAN

SchedulerInit == scheduler_running = TRUE

\* A mutated form: the comparison is the wrong way round.
UnexpiredRows == {k \in DOMAIN cidr : cidr[k] # Never /\ cidr[k] > now}

ExpiredRows == {k \in DOMAIN cidr : Expired(cidr[k])}

\* `delete from cidr where expires_at < now()`, once no worker holds one of
\* the rows.  Finding none changes nothing.
DeleteExpired ==
    /\ scheduler_running
    /\ ExpiredRows # {}
    /\ ~Locked(ExpiredRows)
    /\ cidr' = Without(cidr, ExpiredRows)
    /\ UNCHANGED <<list, job_queue, now, transactions, scheduler_running>>

\* An error of the database ends the loop, which catches only
\* KeyboardInterrupt; nothing starts the thread again.
SchedulerDies ==
    /\ scheduler_running
    /\ scheduler_running' = FALSE
    /\ UNCHANGED <<tables, now, transactions>>

\* on_startup of the web process starts the thread.
SchedulerStart == scheduler_running' = TRUE
=============================================================================
