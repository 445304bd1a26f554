--------------------------- MODULE CidrProperties ---------------------------
(***************************************************************************)
(* What cidr-listings promises about its lists, stated over the behaviours *)
(* of CidrListings.  Which of them hold, and under which use of the system,*)
(* is what the runs show.                                                  *)
(***************************************************************************)
EXTENDS CidrListings, Queries

-----------------------------------------------------------------------------
(* Uses of the system that some of the promises need.                      *)

\* The worker of a system that has one.
TheWorker == CHOOSE w \in Workers : TRUE

\* worker.py runs once.
OneWorker == Workers = {TheWorker}

\* Nobody deletes a row or a list but through jobs.
NoHandDeletes == \A cmd \in Commands : cmd.op \notin {"erase", "drop"}

\* Requests come one at a time.
OneClient == \A c, d \in Clients : c = d

\* Worker w commits in this step.
Commits(w) == stage[w] = "next" /\ stage'[w] = "idle"

\* No list is deleted, or changes its type.
ListsStay ==
    [][\A l \in DOMAIN list : l \in DOMAIN list' /\ list'[l].type = list[l].type]_vars

\* Addresses leave a safelist only while no worker has a batch, or when the only
\* one that has commits it.
SafelistsLast ==
    [][\A l \in DOMAIN list : list[l].type = "SAFE" =>
          \/ \A w \in Workers : batch[w] = {} \/ Commits(w)
          \/ AddressesOf(cidr, {l}) \subseteq AddressesOf(cidr', {l})]_vars

\* Nobody disables a denylist.
DenylistsEnabled == \A l \in DOMAIN list : list[l].type = "DENY" => list[l].enabled

-----------------------------------------------------------------------------
(* The transactions of the workers.                                        *)

\* No job is in two batches, no row is written by two open transactions, and
\* a worker only holds rows and jobs that exist: what lets a commit replace the
\* rows it read without undoing another worker's (CONSUME_JOB_QUERY, the row
\* locks of delete_excluded_cidrs and add_cidrs).
LocksExclusive ==
    /\ \A w \in Workers : /\ batch[w] \subseteq job_queue
                          /\ todo[w] \subseteq batch[w]
                          /\ removed[w] \subseteq DOMAIN cidr
    /\ \A v, w \in Workers :
           v # w => /\ batch[v] \cap batch[w] = {}
                    /\ Held(v) \cap Held(w) = {}

\* Every row belongs to a list, those about to be committed included: a list is
\* not deleted under a worker that has written to it (the foreign key of cidr).
RowsHaveLists ==
    /\ \A k \in DOMAIN cidr : k[2] \in DOMAIN list
    /\ \A w \in Workers : \A k \in DOMAIN written[w] : k[2] \in DOMAIN list

-----------------------------------------------------------------------------
(* Safelists filter denylists.                                             *)

\* "Safelists act as a filter for denylists" (README.md, line 58): what a client
\* is told to block holds no address of an enabled safelist of its user, unless
\* the cleanup job of that safelist is waiting or being processed.
SafelistsFilterDenylists ==
    \A u \in Users, s \in ListIds :
        Answered(u, "DENY", {}) \cap Answered(u, "SAFE", {s}) # {} =>
            \E j \in job_queue : j.action = "update" /\ j.list = s

-----------------------------------------------------------------------------
(* What a batch does to the lists.                                         *)

\* A job later in the batch than j adds or deletes address a in j's list.
Later(w, j, action, a) ==
    \E k \in batch[w] : /\ k.action = action /\ k.list = j.list /\ k.id > j.id
                        /\ a \in Cover(k.cidrs)

\* The addresses of the user's safelists before or after the commit of w, or
\* at some point between.
SafeAddresses(w, user) ==
    LET safe == {l \in DOMAIN list : list[l].user = user /\ list[l].type = "SAFE"}
    IN  UNION {AddressesOf(cidr, safe), AddressesOf(cidr', safe),
               UNION {Cover(k.cidrs) : k \in {k \in batch[w] : k.list \in safe}}}

\* When a DELETE job is done none of its addresses is left in its list, however
\* the rows of the list were split, unless a later job of its batch adds it.
DeleteTakesEffect ==
    [][\A w \in Workers : Commits(w) =>
          \A j \in batch[w] : j.action = "delete" =>
              \A a \in Cover(j.cidrs) :
                  a \in AddressesOf(cidr', {j.list}) => Later(w, j, "add", a)]_vars

\* When an ADD job is done each address it carries is in its list, unless a
\* later job of its batch deletes it or a safelist keeps it out of a denylist.
\* The worker drops special networks on purpose: they are not counted.
AddTakesEffect ==
    [][\A w \in Workers : Commits(w) =>
          \A j \in batch[w] : j.action = "add" =>
              \A a \in Cover(Parsed(j)) :
                  \/ a \in AddressesOf(cidr', {j.list})
                  \/ Later(w, j, "delete", a)
                  \/ j.type = "DENY" /\ a \in SafeAddresses(w, j.user)]_vars

\* A job of the batch is a reason for address a to leave list l.
AskedAway(w, l, a) ==
    \E j \in batch[w] :
        \/ j.action = "delete" /\ j.list = l /\ a \in Cover(j.cidrs)
        \/ /\ j.type = "SAFE" /\ list[l].type = "DENY" /\ list[l].user = j.user
           /\ \/ j.action = "add" /\ j.enabled /\ a \in Cover(j.cidrs)
              \/ j.action = "update" /\ a \in SafeAddresses(w, j.user)

\* "Preserving the ones not excluded instead of deleting the whole subnet"
\* (worker.py, lines 164-165): a commit takes no address out of a list that no
\* job of its batch asked to take out.
NothingLostByCommit ==
    [][\A w \in Workers : Commits(w) =>
          \A l \in DOMAIN list : \A a \in AddressesOf(cidr, {l}) :
              a \in AddressesOf(cidr', {l}) \/ AskedAway(w, l, a)]_vars

\* The addresses of list l that have not expired.
LiveAddresses(l) ==
    Cover({k[1] : k \in {k \in RowsOf(cidr, {l}) : ~Expired(cidr[k])}})

\* An address comes into a list only by an ADD job for that list that carries
\* it; cleaning other rows brings none (back) in.
OnlyAddJobsAdd ==
    [][\A l \in ListIds : \A a \in LiveAddresses(l)' \ LiveAddresses(l) :
          \E w \in Workers : \E j \in batch[w] :
              /\ Commits(w)
              /\ j.action = "add" /\ j.list = l /\ a \in Cover(j.cidrs)]_vars

\* What is left of a row keeps the time it expires at: an address expires when a
\* row that held it did, or when an ADD job of the batch says, never at another
\* time ("we upsert to update expires_at", worker.py, lines 198-199).
RemaindersKeepExpiry ==
    [][\A w \in Workers : Commits(w) =>
          \A k \in {k \in DOMAIN cidr' : ~Expired(cidr'[k])} : \A a \in k[1] :
              \/ \E m \in RowsOf(cidr, {k[2]}) : a \in m[1] /\ cidr[m] = cidr'[k]
              \/ \E j \in batch[w] : /\ j.action = "add" /\ j.list = k[2]
                                     /\ a \in Cover(Parsed(j))]_vars

-----------------------------------------------------------------------------
(* Progress.                                                               *)

\* Every worker has stopped; nothing in the program starts one again.
NoWorker == \A w \in Workers : stage[w] = "dead"

\* Job i waits or is being processed.
Queued(i) == \E j \in job_queue : j.id = i

\* As long as one worker lives, every queued job is processed in the end: a job
\* taken by a worker that fails goes to another (one transaction per batch), and
\* workers that lock each other's rows do not wait for ever.  Workers started
\* again and again could end each other by turns, so that stops at some time.
LiveWorkersConsume ==
    <>[][\A w \in Workers : ~Restart(w)]_vars =>
        \A i \in 1 .. MaxJobs : Queued(i) ~> ~Queued(i) \/ NoWorker

\* "Consumes the job queue" (worker.py, line 312): with workers that are started
\* again, no job stays in the queue for ever.
EveryJobConsumed == \A i \in 1 .. MaxJobs : Queued(i) ~> ~Queued(i)

\* "When you enable a disabled safelist, all the denylists are filtered"
\* (README.md, line 25): the overlaps go away, also when the worker that filters
\* fails half way and is started again.
SomeOverlap ==
    \E u \in Users : Answered(u, "DENY", {}) \cap Answered(u, "SAFE", {}) # {}
FilterConverges == SomeOverlap ~> ~SomeOverlap \/ NoWorker

\* The rows that expire are deleted, or given another life, as long as the
\* scheduler's thread lives: also those a worker keeps locked for some time, and
\* after the thread has been started again with the web process.
SomeExpired == \E k \in DOMAIN cidr : Expired(cidr[k])
ExpiredRowsGo == SomeExpired ~> ~SomeExpired \/ ~scheduler_running
=============================================================================
