-------------------------- MODULE ContentsRefinement --------------------------
(***************************************************************************)
(* CidrListings with one worker that takes the jobs in the order of their  *)
(* ids implements ListContents.  A job counts as applied from the moment   *)
(* its last query is answered: the rows still to be deleted and upserted   *)
(* are part of the draft already.                                          *)
(***************************************************************************)
EXTENDS CidrProperties

\* The addresses some rows hold in each list.
ContentsOf(rows) ==
    [l \in ListIds |-> Cover({k[1] : k \in {k \in rows : k[2] = l}})]

\* A job with the addresses the worker goes on with.
CarriedBy(j) ==
    [id |-> j.id, action |-> j.action, list |-> j.list, type |-> j.type,
     enabled |-> j.enabled, user |-> j.user, addrs |-> Cover(Parsed(j))]

JobsOf(jobs) == {CarriedBy(j) : j \in jobs}

\* Every query of the job in progress is answered when its writes begin.
Unanswered(w) ==
    todo[w] \cup (IF stage[w] \in {"filter", "safelist", "clean", "trim"}
                      THEN {job[w]} ELSE {})

\* The rows of its own a worker leaves when the writes in progress are done.
OwnRows(w) ==
    (DOMAIN written[w] \ to_delete[w])
        \cup {row[1] : row \in new_subnets[w]}
        \cup (IF stage[w] = "write" THEN {<<n, job[w].list>> : n \in adding[w]} ELSE {})

\* The committed rows it has replaced or is about to.
ReplacedRows(w) == removed[w] \cup to_delete[w]

\* The rows there will be when the writes in progress are done.
PlannedRows(w) == (DOMAIN cidr \ ReplacedRows(w)) \cup OwnRows(w)

Committed == ContentsOf(DOMAIN cidr)
Queue == JobsOf(job_queue)
Taken == JobsOf(batch[TheWorker])
Doing == JobsOf(Unanswered(TheWorker))
Gathered ==
    IF stage[TheWorker] = "clean" /\ job[TheWorker].action = "update"
        THEN {exclusion[TheWorker]} ELSE {}
Draft == ContentsOf(PlannedRows(TheWorker))

Contents == INSTANCE ListContents WITH
    lists <- list, held <- Committed, queue <- Queue, taken <- Taken,
    doing <- Doing, gathered <- Gathered, draft <- Draft

\* What the rows, the networks they are split into and the statements of a batch
\* come to: jobs applied in order to the lists' addresses, all or nothing, with
\* the addresses that other requests take away meanwhile, and nothing else.
BatchesApplyJobs == Contents!Spec
=============================================================================
