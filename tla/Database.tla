------------------------------ MODULE Database ------------------------------
(***************************************************************************)
(* The PostgreSQL tables every process of cidr-listings works on, the      *)
(* clock, and the open transaction of each job worker.                     *)
(*                                                                         *)
(* The web process commits each statement it changes a table with (an      *)
(* action of ListApi or Scheduler), so only a worker's transaction is ever *)
(* seen half way: its writes are kept apart from the tables until it       *)
(* commits (READ COMMITTED), the rows it wrote stay locked, and the jobs   *)
(* it took stay in job_queue, locked, until then.                          *)
(***************************************************************************)
EXTENDS Networks, Integers, Functions

CONSTANTS
    Users, ListIds, Workers,
    Never,          \* expires_at is null
    MaxTime         \* bound on the clock

ASSUME NeverAssumption == Never \notin Int
ASSUME MaxTimeAssumption == MaxTime \in Nat

VARIABLES
    list,           \* table list: id -> [user, type, enabled]
    cidr,           \* table cidr: <<address, list id>> -> expires_at
    job_queue,      \* table job_queue
    now,            \* the clock
    batch,          \* job rows each worker's transaction has deleted
    removed,        \* cidr rows each worker's transaction has deleted
    written         \* cidr rows it has inserted or updated, with expires_at

tables == <<list, cidr, job_queue>>
transactions == <<batch, removed, written>>

ListType == {"DENY", "SAFE"}
Action == {"add", "delete", "update"}
Expiry == Int \cup {Never}
Key == Nets \X ListIds
ListRow == [user : Users, type : ListType, enabled : BOOLEAN]

\* CidrJob, with the id of its job_queue row.  A ttl of 0 is None, one below 0
\* comes from a form.  An unparsable member of cidrs is dropped on reading and
\* is not modelled.
Job == [id : Nat, action : Action, list : ListIds, type : ListType,
        enabled : BOOLEAN, user : Users, cidrs : SUBSET Nets, ttl : Int]

\* t is a table: a function on some of the keys K.
IsTable(t, K, V) == DOMAIN t \subseteq K /\ t \in [DOMAIN t -> V]

\* f with the entries of g added or replaced, and f without some keys.
Overlay(f, g) ==
    [k \in DOMAIN f \cup DOMAIN g |-> IF k \in DOMAIN g THEN g[k] ELSE f[k]]
Without(f, K) == Restrict(f, DOMAIN f \ K)

NoRows == [k \in {} |-> Never]

DatabaseTypeOK ==
    /\ IsTable(list, ListIds, ListRow)
    /\ IsTable(cidr, Key, Expiry)
    /\ job_queue \subseteq Job
    /\ now \in Nat
    /\ batch \in [Workers -> SUBSET Job]
    /\ removed \in [Workers -> SUBSET Key]
    /\ DOMAIN written = Workers
    /\ \A w \in Workers : IsTable(written[w], Key, Expiry)

-----------------------------------------------------------------------------
(* Rows, and the addresses they hold.                                      *)

\* The rows of table rows (cidr, or a worker's view of it) in some lists.
RowsOf(rows, lists) == {k \in DOMAIN rows : k[2] \in lists}
AddressesOf(rows, lists) == Cover({k[1] : k \in RowsOf(rows, lists)})

\* `where enabled = true and user_id = $1 and list_type = $2`.
EnabledLists(user, type) ==
    {l \in DOMAIN list : list[l] = [user |-> user, type |-> type, enabled |-> TRUE]}

Expired(expires_at) == expires_at # Never /\ expires_at < now

\* What worker w reads: the committed rows under its own writes.
View(w) == Overlay(Without(cidr, removed[w]), written[w])

-----------------------------------------------------------------------------
(* Locks.  A row lock lasts until the worker's transaction ends, and a     *)
(* statement that needs the row waits.                                     *)

Held(w) == removed[w] \cup DOMAIN written[w]

\* Some of these rows are locked by a worker.
Locked(K) == \E w \in Workers : K \cap Held(w) # {}

\* A mutated form of the query: jobs another worker holds are not skipped.
AllJobs == job_queue

\* The jobs `FOR UPDATE SKIP LOCKED` returns.
UnlockedJobs == job_queue \ UNION {batch[w] : w \in Workers}

\* Time passes.
Tick ==
    /\ now < MaxTime
    /\ now' = now + 1
    /\ UNCHANGED <<tables, transactions>>
=============================================================================
