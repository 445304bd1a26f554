---------------------------- MODULE ListContents ----------------------------
(***************************************************************************)
(* What one worker promises about the addresses of the lists, without      *)
(* rows, networks, locks or statements.  Jobs are done one after the other *)
(* on a draft of the contents; the draft replaces the contents when the    *)
(* whole batch is done, and comes to nothing when the worker fails.        *)
(*                                                                         *)
(* Module ContentsRefinement shows that CidrListings implements it.        *)
(***************************************************************************)
EXTENDS Integers

CONSTANTS Addr, ListIds

VARIABLES
    lists,          \* list id -> [user, type, enabled]
    held,           \* the addresses of each list
    queue,          \* the jobs, each with its id and the addresses it carries
    taken,          \* the jobs of the batch in progress
    doing,          \* those of them that have not been applied
    gathered,       \* what the cleanup in progress takes out: {}, or {addresses}
    draft           \* the contents, with the jobs applied so far

vars == <<lists, held, queue, taken, doing, gathered, draft>>
progress == <<taken, doing, gathered>>

Contents == [ListIds -> SUBSET Addr]

Init ==
    /\ DOMAIN lists \subseteq ListIds
    /\ held \in Contents
    /\ \A l \in ListIds : held[l] # {} => l \in DOMAIN lists
    /\ draft = held
    /\ queue = {} /\ taken = {} /\ doing = {} /\ gathered = {}

-----------------------------------------------------------------------------
(* Requests, and rows that go without a job.                               *)

\* A job is queued behind all others.
Queues ==
    \E j \in queue' : queue' = queue \cup {j} /\ \A k \in queue : k.id < j.id

QueueJob == Queues /\ UNCHANGED <<lists, held, progress, draft>>

\* A list is created or changed; a cleanup may be queued with it.
SetList ==
    /\ \E l \in ListIds :
           /\ DOMAIN lists' = DOMAIN lists \cup {l}
           /\ \A k \in DOMAIN lists \ {l} : lists'[k] = lists[k]
           /\ l \in DOMAIN lists => lists'[l].user = lists[l].user
    /\ Queues \/ UNCHANGED queue
    /\ UNCHANGED <<held, progress, draft>>

\* Addresses leave lists: all those of a deleted list, or some of any.
Vanish ==
    /\ \A l \in ListIds : held'[l] \subseteq held[l]
    /\ \/ UNCHANGED lists
       \/ \E l \in DOMAIN lists :
              /\ DOMAIN lists' = DOMAIN lists \ {l} /\ held'[l] = {}
              /\ \A k \in DOMAIN lists' : lists'[k] = lists[k] /\ held'[k] = held[k]
    /\ UNCHANGED queue

\* The draft loses no other addresses, and may keep those it had read before.
LoseAddresses ==
    /\ Vanish
    /\ \A l \in ListIds : /\ draft'[l] \subseteq draft[l]
                          /\ draft[l] \ draft'[l] \subseteq held[l] \ held'[l]
    /\ UNCHANGED progress

-----------------------------------------------------------------------------
(* The worker.                                                             *)

Take ==
    /\ taken = {}
    /\ taken' = queue /\ doing' = queue
    /\ UNCHANGED <<lists, held, queue, gathered, draft>>

Enabled(user, type) ==
    {l \in DOMAIN lists : lists[l] = [user |-> user, type |-> type, enabled |-> TRUE]}

\* The draft without the addresses A in the user's enabled denylists.
Cleaned(user, A) ==
    [l \in ListIds |-> IF l \in Enabled(user, "DENY") THEN draft[l] \ A ELSE draft[l]]

With(contents, l, A) == [contents EXCEPT ![l] = @ \cup A]

\* What an ADD or DELETE job makes of the draft: a safelist takes its addresses
\* out of the denylists it was enabled over when the job was made, and an
\* address of an enabled safelist never comes into a denylist.
Applied(j) ==
    CASE j.action = "delete" -> [draft EXCEPT ![j.list] = @ \ j.addrs]
      [] j.action = "add" /\ j.type = "DENY" ->
             LET safe == UNION {draft[l] : l \in Enabled(j.user, "SAFE")}
             IN  With(draft, j.list, j.addrs \ safe)
      [] j.action = "add" /\ j.type = "SAFE" ->
             With(IF j.enabled THEN Cleaned(j.user, j.addrs) ELSE draft, j.list, j.addrs)

\* The job whose turn it is.
First(j) == j \in doing /\ \A k \in doing : j.id <= k.id

Apply ==
    /\ \E j \in doing : /\ First(j)
                        /\ j.action \in {"add", "delete"}
                        /\ doing' = doing \ {j}
                        /\ draft' = Applied(j)
    /\ UNCHANGED <<lists, held, queue, taken, gathered>>

\* A cleanup finds the addresses of its safelist, if it is still enabled, and
\* takes them out of the denylists.
Gather ==
    /\ gathered = {}
    /\ \E j \in doing :
           /\ First(j)
           /\ j.action = "update"
           /\ gathered' = {UNION {draft[l] : l \in {l \in {j.list} \cap DOMAIN lists :
                                                        lists[l].enabled}}}
    /\ UNCHANGED <<lists, held, queue, taken, doing, draft>>

CleanUp ==
    /\ \E j \in doing, A \in gathered : /\ First(j)
                                        /\ j.action = "update"
                                        /\ doing' = doing \ {j}
                                        /\ draft' = Cleaned(j.user, A)
    /\ gathered' = {}
    /\ UNCHANGED <<lists, held, queue, taken>>

\* The batch is done: no list that is gone comes back with it.
Commit ==
    /\ doing = {}
    /\ \A l \in ListIds : draft[l] # {} => l \in DOMAIN lists
    /\ held' = draft
    /\ queue' = queue \ taken
    /\ taken' = {}
    /\ UNCHANGED <<lists, doing, gathered, draft>>

\* The worker fails, by itself or over addresses that go: the jobs wait again.
Abandon ==
    /\ Vanish \/ UNCHANGED <<lists, held, queue>>
    /\ taken' = {} /\ doing' = {} /\ gathered' = {}
    /\ draft' = held'

Next ==
    \/ QueueJob
    \/ SetList
    \/ LoseAddresses
    \/ Take
    \/ Apply
    \/ Gather
    \/ CleanUp
    \/ Commit
    \/ Abandon

Spec == Init /\ [][Next]_vars
=============================================================================
