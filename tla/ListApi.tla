------------------------------- MODULE ListApi -------------------------------
(***************************************************************************)
(* The handlers that change lists, queue jobs and delete single rows:      *)
(* src/app/domain/lists/controllers.py and their counterparts in           *)
(* src/app/domain/web/controllers.py.  A handler that reads the list row   *)
(* and later writes what it computed from it takes two actions, so other   *)
(* processes act in between; a handler of one statement takes one.         *)
(***************************************************************************)
EXTENDS Database

CONSTANTS
    Clients,        \* requests in progress at once
    Idle,           \* no request in progress
    Keep,           \* a field the body of a partial update leaves out
    Commands,       \* the requests clients may send
    MaxJobs         \* bound on the jobs ever queued

ASSUME MaxJobsAssumption == MaxJobs \in Nat

VARIABLES
    request,        \* the request in progress: its command and the row it read
    next_id         \* the serial of job_queue.id

apiVars == <<request, next_id>>

(* The commands: a handler of either controller with its input.  web tells *)
(* the HTML form's handler from the JSON one where the two differ.         *)
CreateCommand == [op : {"create"}, user : Users, list : ListIds,
                  type : ListType, enabled : BOOLEAN]
UpdateCommand == [op : {"update"}, user : Users, list : ListIds,
                  type : ListType \cup {Keep}, enabled : BOOLEAN \cup {Keep},
                  web : BOOLEAN]
DropCommand   == [op : {"drop"}, user : Users, list : ListIds]
JobCommand    == [op : {"add", "delete"}, user : Users, list : ListIds,
                  cidrs : SUBSET Nets, ttl : Int, web : BOOLEAN]
EraseCommand  == [op : {"erase"}, list : ListIds, net : Nets]
Command == CreateCommand \cup UpdateCommand \cup DropCommand
               \cup JobCommand \cup EraseCommand

ASSUME CommandsAssumption == Commands \subseteq Command
ASSUME KeepAssumption == Keep \notin ListType /\ Keep \notin BOOLEAN

Request == [cmd : UpdateCommand \cup JobCommand, row : ListRow]
ASSUME IdleAssumption == Idle \notin Request

ApiTypeOK ==
    /\ request \in [Clients -> Request \cup {Idle}]
    /\ next_id \in Nat

ApiInit ==
    /\ request = [c \in Clients |-> Idle]
    /\ next_id = 1

-----------------------------------------------------------------------------
\* `select * from list where id = $1 and user_id = $2` finds a row.
Owns(user, l) == l \in DOMAIN list /\ list[l].user = user

\* insert_cidr_job.
InsertJob(action, row, cmd, cidrs, ttl) ==
    /\ next_id <= MaxJobs
    /\ next_id' = next_id + 1
    /\ job_queue' = job_queue \cup
           {[id |-> next_id, action |-> action, list |-> cmd.list,
             type |-> row.type, enabled |-> row.enabled, user |-> cmd.user,
             cidrs |-> cidrs, ttl |-> ttl]}

Respond(c) == request' = [request EXCEPT ![c] = Idle]

\* create_list: `on conflict (id) do nothing`.
CreateList(cmd) ==
    /\ cmd \in CreateCommand
    /\ cmd.list \notin DOMAIN list
    /\ list' = Overlay(list, [l \in {cmd.list} |->
                  [user |-> cmd.user, type |-> cmd.type, enabled |-> cmd.enabled]])
    /\ UNCHANGED <<cidr, job_queue, now, transactions, apiVars>>

\* A mutated form of delete_list: the rows stay (no `on delete cascade`).
DropListOnly(cmd) ==
    /\ cmd \in DropCommand
    /\ Owns(cmd.user, cmd.list)
    /\ list' = Without(list, {cmd.list})
    /\ UNCHANGED <<cidr, job_queue, now, transactions, apiVars>>

\* delete_list: the rows go with the list (on delete cascade), once no worker
\* holds one of them or a reference to the list.
DropList(cmd) ==
    /\ cmd \in DropCommand
    /\ Owns(cmd.user, cmd.list)
    /\ ~Locked(Nets \X {cmd.list})
    /\ list' = Without(list, {cmd.list})
    /\ cidr' = Without(cidr, Nets \X {cmd.list})
    /\ UNCHANGED <<job_queue, now, transactions, apiVars>>

\* delete_cidr (web): one row, by hand, without a job.
EraseCidr(cmd) ==
    /\ cmd \in EraseCommand
    /\ <<cmd.net, cmd.list>> \in DOMAIN cidr
    /\ ~Locked({<<cmd.net, cmd.list>>})
    /\ cidr' = Without(cidr, {<<cmd.net, cmd.list>>})
    /\ UNCHANGED <<list, job_queue, now, transactions, apiVars>>

-----------------------------------------------------------------------------
(* Handlers that read the list row first.                                  *)

\* "TTL must be greater than 0.": the JSON handlers refuse what the form takes.
TtlAccepted(cmd) == cmd.op = "add" /\ ~cmd.web => cmd.ttl >= 0

ReadList(c, cmd) ==
    /\ cmd \in UpdateCommand \cup JobCommand
    /\ cmd \in JobCommand => TtlAccepted(cmd)
    /\ request[c] = Idle
    /\ Owns(cmd.user, cmd.list)
    /\ request' = [request EXCEPT ![c] = [cmd |-> cmd, row |-> list[cmd.list]]]
    /\ UNCHANGED <<tables, now, transactions, next_id>>

\* A mutated form: a field left out is not filled in from the row.
MergedWithoutRow(cmd, row) ==
    [user |-> cmd.user, type |-> cmd.type, enabled |-> cmd.enabled]

\* The row an update writes: fields left out keep the value read before.
Merged(cmd, row) ==
    [user |-> cmd.user,
     type |-> IF cmd.type = Keep THEN row.type ELSE cmd.type,
     enabled |-> IF cmd.enabled = Keep THEN row.enabled ELSE cmd.enabled]

\* A mutated form: enabling a safelist never queues the cleanup.
NoCleanup(cmd, row) == FALSE

\* "force deny cidrs cleanup if the list is safe and goes from disabled to
\* enabled", judged on the row read before.
NeedsCleanup(cmd, row) ==
    /\ Merged(cmd, row).type = "SAFE"
    /\ ~row.enabled
    /\ cmd.enabled = TRUE

CleanupJob(cmd, row) ==
    IF NeedsCleanup(cmd, row)
        THEN InsertJob("update", Merged(cmd, row), cmd, {}, 0)
        ELSE UNCHANGED <<job_queue, next_id>>

\* update_list and edit_list: the row and the job are committed together.
UpdateList(c) ==
    /\ request[c] # Idle
    /\ LET cmd == request[c].cmd  row == request[c].row
       IN  /\ cmd \in UpdateCommand
           /\ Owns(cmd.user, cmd.list)
           /\ list' = [list EXCEPT ![cmd.list] = Merged(cmd, row)]
           /\ CleanupJob(cmd, row)
    /\ Respond(c)
    /\ UNCHANGED <<cidr, now, transactions>>

\* The list went away after it was read: update_list rolls back, edit_list
\* has queued its job before the update and commits it.
UpdateMissesList(c) ==
    /\ request[c] # Idle
    /\ LET cmd == request[c].cmd  row == request[c].row
       IN  /\ cmd \in UpdateCommand
           /\ ~Owns(cmd.user, cmd.list)
           /\ IF cmd.web THEN CleanupJob(cmd, row)
                         ELSE UNCHANGED <<job_queue, next_id>>
    /\ Respond(c)
    /\ UNCHANGED <<list, cidr, now, transactions>>

\* add_cidrs, delete_cidrs, their raw forms and submit_parsed_cidrs: the job
\* carries the type and the state of the list as they were read.
QueueJob(c) ==
    /\ request[c] # Idle
    /\ LET cmd == request[c].cmd
       IN  /\ cmd \in JobCommand
           /\ InsertJob(cmd.op, request[c].row, cmd, cmd.cidrs, cmd.ttl)
    /\ Respond(c)
    /\ UNCHANGED <<list, cidr, now, transactions>>

\* The web process stops and starts again: requests in progress are lost.
ApiRestart ==
    /\ request' = [c \in Clients |-> Idle]
    /\ UNCHANGED <<tables, now, transactions, next_id>>

ApiStep ==
    \/ \E cmd \in Commands :
           \/ CreateList(cmd)
           \/ DropList(cmd)
           \/ EraseCidr(cmd)
           \/ \E c \in Clients : ReadList(c, cmd)
    \/ \E c \in Clients : UpdateList(c) \/ UpdateMissesList(c) \/ QueueJob(c)
=============================================================================
