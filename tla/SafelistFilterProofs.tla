------------------------- MODULE SafelistFilterProofs -------------------------
(***************************************************************************)
(* Safelists filter denylists, in any number of lists and networks: with   *)
(* one worker that takes the jobs in order, requests that come one at a    *)
(* time, lists that stay and denylists that stay enabled.                  *)
(***************************************************************************)
EXTENDS ContentsRefinementProofs, BatchEffectsProofs

\* The jobs that are not done, taken or not.
Waiting == Queue \ Done

\* Job k is a cleanup after safelist s.
Cleans(k, s) == k.action = "update" /\ k.list = s

\* The jobs taken come before the others.
TakenFirst == \A j \in Taken, k \in Queue \ Taken : j.id < k.id

\* A request in progress has read the list as it is.
Fresh ==
    \A c \in Clients : request[c] # Idle => request[c].row = list[request[c].cmd.list]

\* Enabled safelist s filters denylist d.
Filters(s, d) ==
    /\ OfList(s, "SAFE", list[d].user) /\ list[s].enabled
    /\ OfList(d, "DENY", list[d].user)

\* The addresses in both have a cleanup that is queued.
HeldFiltered ==
    \A s, d \in DOMAIN list :
        Filters(s, d) /\ Committed[s] \cap Committed[d] # {} =>
            \E k \in Queue : Cleans(k, s)

\* Those in both drafts have one that is not done.
DraftFiltered ==
    \A s, d \in DOMAIN list :
        Filters(s, d) /\ Draft[s] \cap Draft[d] # {} => \E k \in Waiting : Cleans(k, s)

\* A job that adds to a safelist without cleaning the denylists, made while the
\* list was disabled, has a cleanup behind it when the list is enabled.
AddsCleaned ==
    \A j \in Queue :
        j.action = "add" /\ j.type = "SAFE" /\ ~j.enabled /\ list[j.list].enabled =>
            \E k \in Queue : Cleans(k, j.list) /\ j.id < k.id

\* A cleanup takes out all the addresses of its safelist, if it is enabled,
\* unless there is another one behind it.
GatheredAll ==
    \A A \in Gathered, j \in Doing :
        Contents!First(j) /\ list[j.list].enabled =>
            \/ Draft[j.list] \subseteq A
            \/ \E k \in Queue : Cleans(k, j.list) /\ j.id < k.id

\* Only lists that exist have addresses in the draft.
DraftHasLists == \A l \in ListIds : Draft[l] # {} => l \in DOMAIN list

-----------------------------------------------------------------------------
(* What the web process does to the lists and the queue.                   *)

\* A safelist that becomes enabled has a new cleanup, and a job made for a
\* disabled safelist comes while it is disabled.
ListsStep ==
    /\ \A s \in DOMAIN list : list'[s].type = "SAFE" /\ list'[s].enabled =>
           \/ list[s].enabled
           \/ \E k \in Queue' : Cleans(k, s) /\ \A q \in Queue : q.id < k.id
    /\ \A j \in Queue' \ Queue : j.type = "SAFE" /\ ~j.enabled /\ j.action = "add" =>
           ~list'[j.list].enabled

LEMMA JobComes ==
    ASSUME RefInv, NEW action, NEW row, NEW cmd, NEW cidrs, NEW ttl,
           InsertJob(action, row, cmd, cidrs, ttl)
    PROVE  \E k \in Queue' : /\ Queue' = Queue \cup {k} /\ \A q \in Queue : q.id < k.id
                             /\ k.action = action /\ k.list = cmd.list
                             /\ k.type = row.type /\ k.enabled = row.enabled
<1> DEFINE x == [id |-> next_id, action |-> action, list |-> cmd.list,
                 type |-> row.type, enabled |-> row.enabled, user |-> cmd.user,
                 cidrs |-> cidrs, ttl |-> ttl]
<1>1. /\ job_queue' = job_queue \cup {x} /\ x.id = next_id
      /\ x.action = action /\ x.list = cmd.list
      /\ x.type = row.type /\ x.enabled = row.enabled
  BY DEF InsertJob
<1> HIDE DEF x
<1>2. Queue' = Queue \cup {CarriedBy(x)}
  BY <1>1 DEF Queue, JobsOf
<1>3. \A j : /\ CarriedBy(j).id = j.id /\ CarriedBy(j).action = j.action
             /\ CarriedBy(j).list = j.list /\ CarriedBy(j).type = j.type
             /\ CarriedBy(j).enabled = j.enabled
  BY DEF CarriedBy
<1>4. \A k \in Queue : k.id < CarriedBy(x).id
  BY <1>1, <1>3 DEF Queue, JobsOf, RefInv, BatchInv, JobsDistinct
<1>5. \A k : k = CarriedBy(x) => /\ k \in Queue' /\ Queue' = Queue \cup {k}
                                 /\ k.action = action /\ k.list = cmd.list
                                 /\ k.type = row.type /\ k.enabled = row.enabled
  BY <1>1, <1>2, <1>3
<1> QED
  BY <1>4, <1>5

LEMMA ListsStepFresh ==
    ASSUME OneClient, RefInv, KnownLists, Fresh, ListsKept, [Next]_vars
    PROVE  ListsStep /\ Fresh'
<1>1. /\ list = [l \in DOMAIN list |-> list[l]]
      /\ request = [c \in Clients |-> request[c]]
  BY DEF RefInv, TypeInv, TypeOK, DatabaseTypeOK, IsTable, ApiTypeOK
<1>2. \A c \in Clients : request[c] # Idle => request[c].cmd.list \in DOMAIN list
  BY DEF KnownLists, KnownRequests, OfList
<1>3. ASSUME UNCHANGED list, job_queue' \subseteq job_queue PROVE ListsStep
  <2>1. Queue' \subseteq Queue
    BY <1>3 DEF Queue, JobsOf
  <2> QED
    BY <1>3, <2>1 DEF ListsStep
<1>4. ASSUME \A l \in DOMAIN list : list'[l] = list[l],
             \A c \in Clients : request'[c] \in {Idle, request[c]}
      PROVE  Fresh'
  BY <1>2, <1>4 DEF Fresh
<1>5. ASSUME NEW c \in Clients, request' = [request EXCEPT ![c] = Idle] PROVE Fresh'
  <2>1. \A d \in Clients : request'[d] = Idle
    BY <1>1, <1>5 DEF OneClient
  <2> QED
    BY <2>1 DEF Fresh
<1>6. ASSUME NEW cmd \in Commands, CreateList(cmd) PROVE ListsStep /\ Fresh'
  <2>1. \A l \in DOMAIN list : list'[l] = list[l]
    BY <1>6 DEF CreateList, Overlay
  <2>2. UNCHANGED <<Queue, request>>
    BY <1>6, SameQueue DEF CreateList, apiVars
  <2>3. ListsStep
    BY <2>1, <2>2 DEF ListsStep
  <2> QED
    BY <1>4, <2>1, <2>2, <2>3
<1>7. ASSUME NEW cmd \in Commands, DropList(cmd) PROVE FALSE
  <2>1. cmd.list \in DOMAIN list /\ DOMAIN list' = DOMAIN list \ {cmd.list}
    BY <1>7, WithoutDomain DEF DropList, Owns
  <2> QED
    BY <2>1 DEF ListsKept
<1>8. ASSUME NEW cmd \in Commands, EraseCidr(cmd) PROVE ListsStep /\ Fresh'
  BY <1>3, <1>4, <1>8 DEF EraseCidr, apiVars
<1>9. ASSUME NEW c \in Clients, NEW cmd \in Commands, ReadList(c, cmd)
      PROVE  ListsStep /\ Fresh'
  <2>1. /\ request' = [request EXCEPT ![c] = [cmd |-> cmd, row |-> list[cmd.list]]]
        /\ UNCHANGED <<list, job_queue>>
    BY <1>9 DEF ReadList, tables
  <2>2. \A d \in Clients : request'[d] = [cmd |-> cmd, row |-> list[cmd.list]]
    BY <1>1, <2>1 DEF OneClient
  <2>3. Fresh'
    BY <2>1, <2>2 DEF Fresh
  <2> QED
    BY <1>3, <2>1, <2>3
<1>10. ASSUME NEW c \in Clients, UpdateList(c) PROVE ListsStep /\ Fresh'
  <2> DEFINE cmd == request[c].cmd
             row == request[c].row
  <2>1. /\ request[c] # Idle /\ cmd \in UpdateCommand
        /\ cmd.list \in DOMAIN list /\ row = list[cmd.list]
        /\ list' = [list EXCEPT ![cmd.list] = Merged(cmd, row)]
        /\ CleanupJob(cmd, row)
    BY <1>10 DEF UpdateList, Owns, Fresh
  <2>2. row.enabled \in BOOLEAN
    BY <2>1 DEF RefInv, TypeInv, TypeOK, DatabaseTypeOK, IsTable, ListRow
  <2>3. /\ cmd.enabled \in BOOLEAN \cup {Keep} /\ Keep \notin BOOLEAN
        /\ Merged(cmd, row).enabled = IF cmd.enabled = Keep THEN row.enabled ELSE cmd.enabled
    BY <2>1, KeepAssumption DEF UpdateCommand, Merged
  <2>4. Fresh'
    BY <1>5, <1>10 DEF UpdateList, Respond
  <2> HIDE DEF cmd, row
  <2>5. /\ list'[cmd.list] = Merged(cmd, row)
        /\ \A l \in DOMAIN list \ {cmd.list} : list'[l] = list[l]
    BY <1>1, <2>1
  <2>6. CASE NeedsCleanup(cmd, row)
    <3>1. PICK k \in Queue' : /\ Queue' = Queue \cup {k} /\ \A q \in Queue : q.id < k.id
                              /\ k.action = "update" /\ k.list = cmd.list
      BY <2>1, <2>6, JobComes DEF CleanupJob
    <3> QED
      BY <2>4, <2>5, <3>1 DEF ListsStep, Cleans
  <2>7. CASE ~NeedsCleanup(cmd, row)
    <3>1. UNCHANGED Queue
      BY <2>1, <2>7, SameQueue DEF CleanupJob
    <3>2. Merged(cmd, row).type = "SAFE" /\ Merged(cmd, row).enabled => list[cmd.list].enabled
      BY <2>1, <2>2, <2>3, <2>7 DEF NeedsCleanup
    <3> QED
      BY <2>4, <2>5, <3>1, <3>2 DEF ListsStep
  <2> QED
    BY <2>6, <2>7
<1>11. ASSUME NEW c \in Clients, UpdateMissesList(c) PROVE FALSE
  BY <1>11 DEF UpdateMissesList, Owns, KnownLists, KnownRequests, OfList
<1>12. ASSUME NEW c \in Clients, QueueJob(c) PROVE ListsStep /\ Fresh'
  <2> DEFINE cmd == request[c].cmd
             row == request[c].row
  <2>1. /\ UNCHANGED list /\ row = list[cmd.list]
        /\ InsertJob(cmd.op, row, cmd, cmd.cidrs, cmd.ttl)
    BY <1>12 DEF QueueJob, Fresh
  <2>2. Fresh'
    BY <1>5, <1>12 DEF QueueJob, Respond
  <2> HIDE DEF cmd, row
  <2>3. PICK k \in Queue' : /\ Queue' = Queue \cup {k}
                            /\ k.list = cmd.list /\ k.enabled = row.enabled
    BY <2>1, JobComes
  <2> QED
    BY <2>1, <2>2, <2>3 DEF ListsStep
<1>13. CASE ApiStep
  BY <1>6, <1>7, <1>8, <1>9, <1>10, <1>11, <1>12, <1>13 DEF ApiStep
<1>14. ASSUME NEW w \in Workers, ExpiryDeadlock(w) \/ DropDeadlock(w)
       PROVE  UNCHANGED <<list, job_queue, request>>
  <2>1. CASE ExpiryDeadlock(w)
    BY <2>1 DEF ExpiryDeadlock, ExpiryWins, SchedulerDies, tables, apiVars
  <2>2. CASE DropDeadlock(w)
    <3>1. PICK cmd \in Commands :
              /\ cmd.list \in DOMAIN list
              /\ UNCHANGED list \/ list' = Without(list, {cmd.list})
      BY <2>2 DEF DropDeadlock, Owns
    <3>2. list' = Without(list, {cmd.list}) => DOMAIN list' = DOMAIN list \ {cmd.list}
      BY WithoutDomain
    <3>3. UNCHANGED list
      BY <3>1, <3>2 DEF ListsKept
    <3> QED
      BY <2>2, <3>3 DEF DropDeadlock, apiVars
  <2> QED
    BY <1>14, <2>1, <2>2
<1>15. CASE ~ApiStep
  <2>1. UNCHANGED list /\ job_queue' \subseteq job_queue
    BY <1>14, <1>15
       DEF Next, ApiNext, WorkerNext, WorkerRestart, SchedulerNext, ClockNext,
           WorkerFault, SchedulerFault, WebRestart, Work, Poll, Begin, FilterSafeCidrs,
           ReadSafelist, CleanDenylists, TrimList, DeleteExcluded, DeleteRow, UpsertRow,
           WaitForRow, AddOwnRows, EndJob, Commit, ForeignKeyViolation, DeadlockAbort,
           Abort, Restart, DeleteExpired, Tick, Crash, SchedulerDies, ApiRestart, vars, tables
  <2>2. UNCHANGED request \/ request' = [c \in Clients |-> Idle]
    BY <1>14, <1>15
       DEF Next, ApiNext, WorkerNext, WorkerRestart, SchedulerNext, ClockNext,
           WorkerFault, SchedulerFault, WebRestart, ApiRestart, vars, apiVars
  <2> QED
    BY <1>3, <1>4, <2>1, <2>2
<1> QED
  BY <1>13, <1>15

-----------------------------------------------------------------------------
(* A step keeps the addresses of safelists out of the denylists, or leaves *)
(* a cleanup that will take them out.                                      *)

LEMMA QueuedJobs ==
    ASSUME OneWorker, RefInv, KnownLists
    PROVE  /\ Doing \subseteq Taken /\ Taken \subseteq Queue
           /\ \A j \in Queue : /\ j.id \in Nat /\ OfList(j.list, j.type, j.user)
                               /\ j.action = "update" => j.type = "SAFE"
           /\ \A j, k \in Queue : j.id = k.id => j = k
           /\ \A j \in Taken : j.list \in ListIds /\ j.type \in ListType
           /\ DOMAIN list \subseteq ListIds
           /\ Draft \in [ListIds -> SUBSET Addr]
<1>1. batch[TheWorker] \subseteq job_queue
  BY WorkerIs DEF RefInv, LockInv, LocksExclusive
<1>2. Taken \subseteq Queue
  BY <1>1 DEF Taken, Queue, JobsOf
<1>3. \A j : /\ CarriedBy(j).id = j.id /\ CarriedBy(j).action = j.action
             /\ CarriedBy(j).list = j.list /\ CarriedBy(j).type = j.type
             /\ CarriedBy(j).user = j.user
  BY DEF CarriedBy
<1>4. \A j \in job_queue : j.id \in Nat
  BY DEF RefInv, TypeInv, TypeOK, DatabaseTypeOK, Job
<1>5. \A j, k \in job_queue : j.id = k.id => j = k
  BY DEF RefInv, BatchInv, JobsDistinct
<1>6. \A j \in Queue : /\ j.id \in Nat /\ OfList(j.list, j.type, j.user)
                       /\ j.action = "update" => j.type = "SAFE"
  BY <1>3, <1>4 DEF Queue, JobsOf, KnownLists, KnownJobs
<1>7. \A j, k \in Queue : j.id = k.id => j = k
  BY <1>3, <1>5 DEF Queue, JobsOf
<1> QED
  BY <1>2, <1>6, <1>7, ContentsJobs, ListIdsOfLists

\* Only a cleanup that has read its safelist has gathered addresses.
LEMMA GatheredFor ==
    ASSUME OneWorker, InIdOrder, RefInv, NEW j \in Doing, Contents!First(j), Gathered # {}
    PROVE  j.action = "update"
<1> DEFINE w == TheWorker
           c == CarriedBy(job[w])
<1>1. stage[w] \in Asking /\ job[w].action = "update"
  BY DEF Gathered, Asking
<1>2. c \in Doing /\ Contents!First(c) /\ c.action = "update"
  BY <1>1, JobInProgress DEF CarriedBy
<1>3. /\ \A k \in Doing : k.id \in Nat
      /\ \A k, l \in Doing : k.id = l.id => k = l
  BY ContentsJobs
<1> HIDE DEF c, Doing
<1>4. j.id \in Nat /\ c.id \in Nat /\ j.id <= c.id /\ c.id <= j.id
  BY <1>2, <1>3 DEF Contents!First
<1>5. j.id = c.id
  BY <1>4
<1> QED
  BY <1>2, <1>3, <1>5

FilterInv ==
    /\ TakenFirst /\ DraftHasLists
    /\ HeldFiltered /\ DraftFiltered /\ AddsCleaned /\ GatheredAll

\* Lists and jobs come or change; the contents stay.
LEMMA FilterQueues ==
    ASSUME OneWorker, InIdOrder, RefInv, KnownLists, Implements, ListsKept, OfListsStay,
           ListsStep, FilterInv, Contents!QueueJob \/ Contents!SetList
    PROVE  FilterInv'
<1>1. /\ Doing \subseteq Taken /\ Taken \subseteq Queue
      /\ \A j \in Queue : /\ j.id \in Nat /\ OfList(j.list, j.type, j.user)
                          /\ j.action = "update" => j.type = "SAFE"
      /\ DOMAIN list \subseteq ListIds
  BY QueuedJobs
<1>2. \A l \in DOMAIN list : /\ l \in DOMAIN list' /\ list'[l].type = list[l].type
                             /\ list'[l].user = list[l].user
  BY DEF OfListsStay, OfList, ListsKept
<1>3. \A l \in ListIds \ DOMAIN list : Committed[l] = {}
  <2>1. ASSUME NEW l \in ListIds \ DOMAIN list, NEW a \in Committed[l] PROVE FALSE
    BY <2>1, CommittedAt DEF HoldsIn, RefInv, LockInv, RowsHaveLists
  <2> QED
    BY <2>1
<1> HIDE DEF Taken, Doing, Queue, Gathered, Draft, Committed
<1>4. /\ UNCHANGED <<Committed, Draft, Taken, Doing, Gathered>>
      /\ DOMAIN list' \subseteq ListIds
      /\ Queue \subseteq Queue' /\ \A j \in Queue' \ Queue : \A q \in Queue : q.id < j.id
  BY <1>1 DEF Contents!QueueJob, Contents!SetList, Contents!Queues, Contents!progress
<1>5. Done' = Done /\ Done \subseteq Queue /\ Waiting \subseteq Waiting'
  BY <1>1, <1>4 DEF Done, Waiting
\* A list enabled now was enabled before, or has a cleanup behind all others.
<1>6. ASSUME NEW s \in DOMAIN list, list[s].type = "SAFE", list'[s].enabled
      PROVE  \/ list[s].enabled
             \/ \E k \in Queue' \ Queue : Cleans(k, s) /\ \A q \in Queue : q.id < k.id
  <2>1. CASE ~list[s].enabled
    <3>1. PICK k \in Queue' : Cleans(k, s) /\ \A q \in Queue : q.id < k.id
      BY <1>2, <1>6, <2>1 DEF ListsStep
    <3>2. k \notin Queue
      BY <1>1, <3>1
    <3> QED
      BY <3>1, <3>2
  <2> QED
    BY <2>1
<1>7. TakenFirst'
  BY <1>1, <1>4 DEF FilterInv, TakenFirst
<1>8. DraftHasLists'
  BY <1>2, <1>4 DEF FilterInv, DraftHasLists
\* Lists with contents filtered now existed before.
<1>9. ASSUME NEW s \in DOMAIN list', NEW d \in DOMAIN list', Filters(s, d)',
             s \in DOMAIN list, d \in DOMAIN list
      PROVE  \/ Filters(s, d)
             \/ \E k \in Queue' \ Queue : Cleans(k, s)
  <2>1. /\ OfList(s, "SAFE", list[d].user) /\ OfList(d, "DENY", list[d].user)
        /\ list'[s].enabled
    BY <1>2, <1>9 DEF Filters, OfList
  <2> QED
    BY <1>6, <2>1 DEF Filters, OfList
<1>10. HeldFiltered'
  <2>1. ASSUME NEW s \in DOMAIN list', NEW d \in DOMAIN list', Filters(s, d)',
               Committed[s] \cap Committed[d] # {}
        PROVE  \E k \in Queue' : Cleans(k, s)
    <3>1. s \in DOMAIN list /\ d \in DOMAIN list
      BY <1>3, <1>4, <2>1
    <3> QED
      BY <1>4, <1>9, <2>1, <3>1 DEF FilterInv, HeldFiltered
  <2> QED
    BY <1>4, <2>1 DEF HeldFiltered
<1>11. DraftFiltered'
  <2>1. ASSUME NEW s \in DOMAIN list', NEW d \in DOMAIN list', Filters(s, d)',
               Draft[s] \cap Draft[d] # {}
        PROVE  \E k \in Waiting' : Cleans(k, s)
    <3>1. s \in DOMAIN list /\ d \in DOMAIN list
      BY <1>4, <2>1 DEF FilterInv, DraftHasLists
    <3>2. Queue' \ Queue \subseteq Waiting'
      BY <1>5 DEF Waiting
    <3> QED
      BY <1>5, <1>9, <2>1, <3>1, <3>2 DEF FilterInv, DraftFiltered
  <2> QED
    BY <1>4, <2>1 DEF DraftFiltered
<1>12. AddsCleaned'
  <2>1. ASSUME NEW j \in Queue', j.action = "add", j.type = "SAFE", ~j.enabled,
               list'[j.list].enabled
        PROVE  \E k \in Queue' : Cleans(k, j.list) /\ j.id < k.id
    <3>1. j \in Queue
      BY <2>1 DEF ListsStep
    <3>2. j.list \in DOMAIN list /\ list[j.list].type = "SAFE"
      BY <1>1, <2>1, <3>1 DEF OfList
    <3> QED
      BY <1>4, <1>6, <2>1, <3>1, <3>2 DEF FilterInv, AddsCleaned
  <2> QED
    BY <2>1 DEF AddsCleaned
<1>13. GatheredAll'
  <2>1. ASSUME NEW A \in Gathered, NEW j \in Doing, Contents!First(j), list'[j.list].enabled
        PROVE  \/ Draft[j.list] \subseteq A
               \/ \E k \in Queue' : Cleans(k, j.list) /\ j.id < k.id
    <3>1. j \in Queue /\ j.type = "SAFE"
      BY <1>1, <2>1, GatheredFor
    <3>2. j.list \in DOMAIN list /\ list[j.list].type = "SAFE"
      BY <1>1, <3>1 DEF OfList
    <3> QED
      BY <1>4, <1>6, <2>1, <3>1, <3>2 DEF FilterInv, GatheredAll
  <2> QED
    BY <1>4, <2>1 DEF GatheredAll, Contents!First
<1> QED
  BY <1>7, <1>8, <1>10, <1>11, <1>12, <1>13 DEF FilterInv

\* With the lists as they were, less in the lists and no job done, it stays so.
LEMMA FilterShrinks ==
    ASSUME FilterInv, UNCHANGED <<list, Queue, Taken, Doing, Gathered>>,
           \A l \in ListIds : Committed'[l] \subseteq Committed[l] /\ Draft'[l] \subseteq Draft[l],
           DOMAIN list \subseteq ListIds, \A j \in Doing : j.list \in ListIds
    PROVE  FilterInv'
<1>1. UNCHANGED Waiting
  BY DEF Waiting, Done
<1>2. TakenFirst' /\ DraftHasLists' /\ AddsCleaned'
  BY DEF FilterInv, TakenFirst, DraftHasLists, AddsCleaned
<1>3. \A s, d : Filters(s, d)' <=> Filters(s, d)
  BY DEF Filters, OfList
<1>4. HeldFiltered'
  BY <1>3 DEF FilterInv, HeldFiltered
<1>5. DraftFiltered'
  BY <1>1, <1>3 DEF FilterInv, DraftFiltered
<1>6. GatheredAll'
  BY DEF FilterInv, GatheredAll, Contents!First
<1> QED
  BY <1>2, <1>4, <1>5, <1>6 DEF FilterInv

\* What a job that is done leaves of the cleanups.
LEMMA OneDone ==
    ASSUME OneWorker, RefInv, KnownLists,
           NEW c \in Doing, Doing' = Doing \ {c}, UNCHANGED <<Queue, Taken>>
    PROVE  Waiting' = Waiting \ {c} /\ c \in Waiting
<1>1. Doing \subseteq Taken /\ Taken \subseteq Queue
  BY QueuedJobs
<1> QED
  BY <1>1 DEF Waiting, Done

LEMMA FilterApplies ==
    ASSUME OneWorker, InIdOrder, RefInv, KnownLists, InOrder, DenylistsEnabled, FilterInv,
           Contents!Apply
    PROVE  FilterInv'
<1>1. /\ Doing \subseteq Taken /\ Taken \subseteq Queue
      /\ \A j \in Queue : j.id \in Nat /\ OfList(j.list, j.type, j.user)
      /\ \A j, k \in Queue : j.id = k.id => j = k
      /\ \A j \in Taken : j.list \in ListIds /\ j.type \in ListType
      /\ DOMAIN list \subseteq ListIds
      /\ Draft \in [ListIds -> SUBSET Addr]
  BY QueuedJobs
<1>2. PICK c \in Doing : /\ Contents!First(c)
                         /\ c.action \in {"add", "delete"}
                         /\ Doing' = Doing \ {c}
                         /\ Draft' = Contents!Applied(c)
  BY DEF Contents!Apply
<1>3. /\ c \in Taken /\ c \in Queue /\ c.list \in ListIds /\ c.type \in ListType
      /\ OfList(c.list, c.type, c.user)
  BY <1>1, <1>2
<1>4. /\ c.action = "delete" => \A l \in ListIds : \A a :
             a \in Draft'[l] => a \in Draft[l]
      /\ c.action = "add" /\ c.type = "DENY" => \A l \in ListIds : \A a :
             a \in Draft'[l] =>
                 \/ a \in Draft[l]
                 \/ /\ l = c.list /\ a \in c.addrs
                    /\ \A s \in EnabledLists(c.user, "SAFE") : a \notin Draft[s]
      /\ c.action = "add" /\ c.type = "SAFE" => \A l \in ListIds : \A a :
             a \in Draft'[l] =>
                 \/ /\ a \in Draft[l]
                    /\ c.enabled /\ l \in EnabledLists(c.user, "DENY") => a \notin c.addrs
                 \/ l = c.list /\ a \in c.addrs
  BY <1>1, <1>2, <1>3, AppliedAt
<1>5. Gathered = {}
  BY <1>2, GatheredFor
<1> HIDE DEF Taken, Doing, Queue, Gathered, Draft, Committed
<1>6. UNCHANGED <<list, Committed, Queue, Taken, Gathered>>
  BY DEF Contents!Apply
<1>7. Waiting' = Waiting \ {c} /\ c \in Waiting
  BY <1>2, <1>6, OneDone
<1>8. \A s, d : Filters(s, d)' <=> Filters(s, d)
  BY <1>6 DEF Filters, OfList
<1>9. TakenFirst' /\ HeldFiltered' /\ AddsCleaned' /\ GatheredAll'
  BY <1>5, <1>6, <1>8 DEF FilterInv, TakenFirst, HeldFiltered, AddsCleaned, GatheredAll
<1>10. DraftHasLists'
  <2>1. ASSUME NEW l \in ListIds, NEW a \in Draft'[l] PROVE l \in DOMAIN list
    <3>1. a \in Draft[l] \/ l = c.list
      BY <1>2, <1>3, <1>4, <2>1 DEF ListType
    <3> QED
      BY <1>3, <3>1 DEF FilterInv, DraftHasLists, OfList
  <2> QED
    BY <1>6, <2>1 DEF DraftHasLists
\* A cleanup behind c is not done.
<1>11. ASSUME NEW k \in Queue, c.id < k.id PROVE k \in Waiting'
  <2>1. k # c /\ c.id \in Nat /\ k.id \in Nat
    BY <1>3, <1>1, <1>11
  <2>2. k \notin Done
    BY <1>2, <1>11, <2>1 DEF InOrder, Done, FilterInv, TakenFirst
  <2> QED
    BY <1>7, <2>1, <2>2 DEF Waiting
<1>12. DraftFiltered'
  <2>1. SUFFICES ASSUME NEW s \in DOMAIN list, NEW d \in DOMAIN list, Filters(s, d),
                        NEW a \in Draft'[s] \cap Draft'[d]
                 PROVE  \E k \in Waiting' : Cleans(k, s)
    BY <1>6, <1>8 DEF DraftFiltered
  <2>2. /\ s \in ListIds /\ d \in ListIds
        /\ list[s].type = "SAFE" /\ list[d].type = "DENY" /\ list[s].user = list[d].user
        /\ list[s].enabled /\ list[d].enabled
    BY <1>1, <2>1 DEF Filters, OfList, DenylistsEnabled
  <2>3. CASE a \in Draft[s] \cap Draft[d]
    <3>1. PICK k \in Waiting : Cleans(k, s)
      BY <2>1, <2>3 DEF FilterInv, DraftFiltered
    <3>2. k # c
      BY <1>2, <3>1 DEF Cleans
    <3> QED
      BY <1>7, <3>1, <3>2
  <2>4. CASE c.action = "add" /\ c.type = "DENY" /\ a \notin Draft[s] \cap Draft[d]
    <3>1. c.list # s
      BY <1>3, <2>2, <2>4 DEF OfList
    <3>2. a \in Draft[s]
      BY <1>4, <2>1, <2>2, <2>4, <3>1
    <3>3. d = c.list /\ s \notin EnabledLists(c.user, "SAFE")
      BY <1>4, <2>1, <2>2, <2>4, <3>2
    <3>4. list[s] = [user |-> c.user, type |-> "SAFE", enabled |-> TRUE]
      BY <1>3, <2>2, <3>3 DEF OfList, RefInv, TypeInv, TypeOK, DatabaseTypeOK, IsTable, ListRow
    <3> QED
      BY <2>1, <3>3, <3>4 DEF EnabledLists
  <2>5. CASE c.action = "add" /\ c.type = "SAFE" /\ a \notin Draft[s] \cap Draft[d]
    <3>1. c.list # d
      BY <1>3, <2>2, <2>5 DEF OfList
    <3>2. a \in Draft[d] /\ (c.enabled /\ d \in EnabledLists(c.user, "DENY") => a \notin c.addrs)
      BY <1>4, <2>1, <2>2, <2>5, <3>1
    <3>3. s = c.list /\ a \in c.addrs
      BY <1>4, <2>1, <2>2, <2>5, <3>2
    <3>4. list[d] = [user |-> c.user, type |-> "DENY", enabled |-> TRUE]
      BY <1>3, <2>2, <3>3 DEF OfList, RefInv, TypeInv, TypeOK, DatabaseTypeOK, IsTable, ListRow
    <3>5. ~c.enabled
      BY <2>1, <3>2, <3>3, <3>4 DEF EnabledLists
    <3>6. PICK k \in Queue : Cleans(k, s) /\ c.id < k.id
      BY <1>3, <2>2, <2>5, <3>3, <3>5 DEF FilterInv, AddsCleaned
    <3> QED
      BY <1>11, <3>6
  <2>6. CASE c.action = "delete"
    BY <1>4, <2>1, <2>2, <2>3, <2>6
  <2> QED
    BY <1>2, <1>3, <2>3, <2>4, <2>5, <2>6 DEF ListType
<1> QED
  BY <1>9, <1>10, <1>12 DEF FilterInv

LEMMA FilterCleansUp ==
    ASSUME OneWorker, InIdOrder, RefInv, KnownLists, InOrder, DenylistsEnabled, FilterInv,
           Contents!CleanUp
    PROVE  FilterInv'
<1>1. /\ Doing \subseteq Taken /\ Taken \subseteq Queue
      /\ \A j \in Queue : /\ j.id \in Nat /\ OfList(j.list, j.type, j.user)
                          /\ j.action = "update" => j.type = "SAFE"
      /\ DOMAIN list \subseteq ListIds
      /\ Draft \in [ListIds -> SUBSET Addr]
  BY QueuedJobs
<1>2. PICK c \in Doing, A \in Gathered : /\ Contents!First(c)
                                         /\ c.action = "update"
                                         /\ Doing' = Doing \ {c}
                                         /\ Draft' = Contents!Cleaned(c.user, A)
  BY DEF Contents!CleanUp
<1>3. c \in Taken /\ c \in Queue /\ c.id \in Nat /\ OfList(c.list, "SAFE", c.user)
  BY <1>1, <1>2
<1>4. \A l \in ListIds : \A a :
          a \in Draft'[l] <=> a \in Draft[l] /\ (l \in EnabledLists(c.user, "DENY") => a \notin A)
  BY <1>1, <1>2, CleanedAt
<1> HIDE DEF Taken, Doing, Queue, Gathered, Draft, Committed
<1>5. UNCHANGED <<list, Committed, Queue, Taken>> /\ Gathered' = {}
  BY DEF Contents!CleanUp
<1>6. Waiting' = Waiting \ {c} /\ c \in Waiting
  BY <1>2, <1>5, OneDone
<1>7. \A s, d : Filters(s, d)' <=> Filters(s, d)
  BY <1>5 DEF Filters, OfList
<1>8. TakenFirst' /\ HeldFiltered' /\ AddsCleaned' /\ GatheredAll'
  BY <1>5, <1>7 DEF FilterInv, TakenFirst, HeldFiltered, AddsCleaned, GatheredAll
<1>9. DraftHasLists'
  BY <1>4, <1>5 DEF FilterInv, DraftHasLists
<1>10. DraftFiltered'
  <2>1. SUFFICES ASSUME NEW s \in DOMAIN list, NEW d \in DOMAIN list, Filters(s, d),
                        NEW a \in Draft'[s] \cap Draft'[d]
                 PROVE  \E k \in Waiting' : Cleans(k, s)
    BY <1>5, <1>7 DEF DraftFiltered
  <2>2. s \in ListIds /\ d \in ListIds /\ a \in Draft[s] \cap Draft[d]
    BY <1>1, <1>4, <2>1
  <2>3. PICK k \in Waiting : Cleans(k, s)
    BY <2>1, <2>2 DEF FilterInv, DraftFiltered
  <2>4. CASE k # c
    BY <1>6, <2>3, <2>4
  <2>5. CASE k = c
    <3>1. /\ s = c.list /\ list[s].enabled
          /\ list[d].type = "DENY" /\ list[d].user = c.user /\ list[d].enabled
      BY <1>3, <2>1, <2>3, <2>5 DEF Cleans, Filters, OfList, DenylistsEnabled
    <3>2. d \in EnabledLists(c.user, "DENY")
      BY <3>1 DEF EnabledLists, RefInv, TypeInv, TypeOK, DatabaseTypeOK, IsTable, ListRow
    <3>3. a \notin A
      BY <1>4, <2>1, <2>2, <3>2
    <3>4. PICK m \in Queue : Cleans(m, s) /\ c.id < m.id
      BY <1>2, <2>2, <3>1, <3>3 DEF FilterInv, GatheredAll
    <3>5. m # c /\ m \notin Done
      BY <1>1, <1>2, <1>3, <3>4 DEF InOrder, Done, FilterInv, TakenFirst
    <3> QED
      BY <1>6, <3>4, <3>5 DEF Waiting
  <2> QED
    BY <2>4, <2>5
<1> QED
  BY <1>8, <1>9, <1>10 DEF FilterInv

LEMMA FilterGathers ==
    ASSUME OneWorker, RefInv, KnownLists, FilterInv, Contents!Gather
    PROVE  FilterInv'
<1>1. /\ Doing \subseteq Taken /\ Taken \subseteq Queue
      /\ \A j \in Queue : j.id \in Nat /\ OfList(j.list, j.type, j.user)
      /\ \A j, k \in Queue : j.id = k.id => j = k
  BY QueuedJobs
<1> HIDE DEF Taken, Doing, Queue, Gathered, Draft, Committed
<1>2. PICK j \in Doing :
          /\ Contents!First(j)
          /\ Gathered' = {UNION {Draft[l] : l \in {l \in {j.list} \cap DOMAIN list :
                                                       list[l].enabled}}}
  BY DEF Contents!Gather
<1>3. UNCHANGED <<list, Committed, Queue, Taken, Doing, Draft>>
  BY DEF Contents!Gather
<1>4. \A k \in Doing : Contents!First(k) => k = j
  BY <1>1, <1>2 DEF Contents!First
<1>5. j.list \in DOMAIN list
  BY <1>1, <1>2 DEF OfList
<1>6. ASSUME NEW A \in Gathered', list[j.list].enabled PROVE Draft[j.list] \subseteq A
  BY <1>2, <1>5, <1>6
<1>7. GatheredAll'
  BY <1>3, <1>4, <1>6 DEF GatheredAll, Contents!First
<1>8. \A s, d : Filters(s, d)' <=> Filters(s, d)
  BY <1>3 DEF Filters, OfList
<1>9. TakenFirst' /\ HeldFiltered' /\ AddsCleaned' /\ DraftHasLists' /\ DraftFiltered'
  BY <1>3, <1>8 DEF FilterInv, TakenFirst, HeldFiltered, AddsCleaned, DraftHasLists,
                    DraftFiltered, Waiting, Done
<1> QED
  BY <1>7, <1>9 DEF FilterInv

LEMMA FilterTakes ==
    ASSUME OneWorker, InIdOrder, RefInv, KnownLists, FilterInv, Contents!Take
    PROVE  FilterInv'
<1>1. Doing \subseteq Taken
  BY QueuedJobs
<1>2. Gathered = {}
  BY <1>1, NotAsking, JobInProgress DEF Contents!Take
<1> HIDE DEF Taken, Doing, Queue, Gathered, Draft, Committed
<1>3. /\ UNCHANGED <<list, Committed, Queue, Draft, Waiting>> /\ Gathered' = {}
      /\ Taken' = Queue
  BY <1>1, <1>2 DEF Contents!Take, Waiting, Done
<1>4. \A s, d : Filters(s, d)' <=> Filters(s, d)
  BY <1>3 DEF Filters, OfList
<1>5. TakenFirst' /\ GatheredAll'
  BY <1>3 DEF TakenFirst, GatheredAll
<1>6. HeldFiltered' /\ AddsCleaned' /\ DraftHasLists' /\ DraftFiltered'
  BY <1>3, <1>4 DEF FilterInv, HeldFiltered, AddsCleaned, DraftHasLists, DraftFiltered
<1> QED
  BY <1>5, <1>6 DEF FilterInv

LEMMA FilterCommits ==
    ASSUME OneWorker, InIdOrder, RefInv, KnownLists, FilterInv, Contents!Commit
    PROVE  FilterInv'
<1>1. \A j \in Queue : j.id \in Nat
  BY QueuedJobs
<1>2. Gathered = {}
  BY NotAsking, JobInProgress DEF Contents!Commit
<1>3. Taken \subseteq Queue
  BY QueuedJobs
<1> HIDE DEF Taken, Doing, Queue, Gathered, Draft, Committed
<1>4. /\ UNCHANGED <<list, Draft>> /\ Committed' = Draft
      /\ Taken' = {} /\ Gathered' = {} /\ Queue' = Queue \ Taken
      /\ Waiting = Queue' /\ Waiting' = Queue'
  BY <1>2 DEF Contents!Commit, Waiting, Done
<1>5. \A s, d : Filters(s, d)' <=> Filters(s, d)
  BY <1>4 DEF Filters, OfList
<1>6. TakenFirst' /\ GatheredAll' /\ DraftHasLists'
  BY <1>4 DEF FilterInv, TakenFirst, GatheredAll, DraftHasLists
<1>7. HeldFiltered' /\ DraftFiltered'
  BY <1>4, <1>5 DEF FilterInv, HeldFiltered, DraftFiltered
\* A cleanup behind a job that stays was not taken either.
<1>8. AddsCleaned'
  <2>1. ASSUME NEW j \in Queue \ Taken, j.action = "add", j.type = "SAFE", ~j.enabled,
               list[j.list].enabled
        PROVE  \E k \in Queue \ Taken : Cleans(k, j.list) /\ j.id < k.id
    <3>1. PICK k \in Queue : Cleans(k, j.list) /\ j.id < k.id
      BY <2>1 DEF FilterInv, AddsCleaned
    <3>2. k \notin Taken
      BY <1>1, <2>1, <3>1 DEF FilterInv, TakenFirst
    <3> QED
      BY <3>1, <3>2
  <2> QED
    BY <1>4, <2>1 DEF AddsCleaned
<1> QED
  BY <1>6, <1>7, <1>8 DEF FilterInv

LEMMA FilterAbandons ==
    ASSUME OneWorker, RefInv, RefInv', ListsKept, FilterInv, Contents!Abandon
    PROVE  FilterInv'
<1>1. \A l \in ListIds \ DOMAIN list' : Committed'[l] = {}
  <2>1. ASSUME NEW l \in ListIds \ DOMAIN list', NEW a \in Committed'[l] PROVE FALSE
    BY <2>1, NextAt DEF HoldsIn, RefInv, LockInv, RowsHaveLists
  <2> QED
    BY <2>1
<1>2. DOMAIN list \subseteq ListIds
  BY ListIdsOfLists
<1> HIDE DEF Taken, Doing, Queue, Gathered, Draft, Committed
<1>3. /\ UNCHANGED <<list, Queue>> /\ \A l \in ListIds : Committed'[l] \subseteq Committed[l]
      /\ Taken' = {} /\ Gathered' = {} /\ Draft' = Committed' /\ Waiting' = Queue
  BY DEF Contents!Abandon, Contents!Vanish, ListsKept, Waiting, Done
<1>4. \A s, d : Filters(s, d)' <=> Filters(s, d)
  BY <1>3 DEF Filters, OfList
<1>5. TakenFirst' /\ GatheredAll' /\ AddsCleaned'
  BY <1>3 DEF FilterInv, TakenFirst, GatheredAll, AddsCleaned
<1>6. DraftHasLists'
  BY <1>1, <1>3 DEF DraftHasLists
<1>7. HeldFiltered' /\ DraftFiltered'
  BY <1>2, <1>3, <1>4 DEF FilterInv, HeldFiltered, DraftFiltered
<1> QED
  BY <1>5, <1>6, <1>7 DEF FilterInv

LEMMA FilterStep ==
    ASSUME OneWorker, InIdOrder, RefInv, RefInv', KnownLists, InOrder, DenylistsEnabled,
           Implements, ListsKept, OfListsStay, ListsStep, FilterInv
    PROVE  FilterInv'
<1>1. DOMAIN list \subseteq ListIds /\ \A j \in Doing : j.list \in ListIds
  BY QueuedJobs
<1> HIDE DEF Taken, Doing, Queue, Gathered, Draft, Committed
<1>2. CASE Contents!LoseAddresses
  <2>1. UNCHANGED <<list, Queue, Taken, Doing, Gathered>>
    BY <1>2 DEF Contents!LoseAddresses, Contents!Vanish, Contents!progress, ListsKept
  <2> QED
    BY <1>1, <1>2, <2>1, FilterShrinks DEF Contents!LoseAddresses, Contents!Vanish
<1>3. CASE UNCHANGED Contents!vars
  BY <1>1, <1>3, FilterShrinks DEF Contents!vars
<1> QED
  BY <1>2, <1>3, FilterQueues, FilterTakes, FilterApplies, FilterGathers, FilterCleansUp,
     FilterCommits, FilterAbandons DEF Implements, Contents!Next

-----------------------------------------------------------------------------
(* What clients are told.                                                  *)

LEMMA AnsweredAddresses ==
    ASSUME RefInv, NEW u
    PROVE  /\ \A a : a \in Answered(u, "DENY", {}) <=>
                         \E d \in EnabledLists(u, "DENY") : a \in Committed[d]
           /\ \A s \in ListIds : \A a : a \in Answered(u, "SAFE", {s}) <=>
                         s \in EnabledLists(u, "SAFE") /\ a \in Committed[s]
<1>1. ASSUME NEW L \in SUBSET ListIds
      PROVE  /\ Cover(Collapsed(AddressesOf(cidr, L))) = AddressesOf(cidr, L)
             /\ \A a : a \in AddressesOf(cidr, L) <=> \E l \in L : a \in Committed[l]
  <2>1. AddressesOf(cidr, L) = UNION {Committed[l] : l \in L}
    BY AddressesAreContents DEF Committed
  <2>2. AddressesOf(cidr, L) \in SUBSET Addr
    <3>1. {k[1] : k \in RowsOf(cidr, L)} \in SUBSET Nets
      BY DEF RowsOf, RefInv, TypeInv, TypeOK, DatabaseTypeOK, IsTable, Key
    <3> QED
      BY <3>1, NetworksType DEF AddressesOf
  <2> QED
    BY <2>1, <2>2, CoverCollapsed
<1>2. \A type : EnabledLists(u, type) \in SUBSET ListIds
  BY EnabledType DEF RefInv
<1>3. Answered(u, "DENY", {}) = Cover(Collapsed(AddressesOf(cidr, EnabledLists(u, "DENY"))))
  BY DEF Answered, GetCollapsed, GetCidrRecords, SelectEnabledByType, AddressesOf
<1>4. ASSUME NEW s \in ListIds
      PROVE  Answered(u, "SAFE", {s})
                 = Cover(Collapsed(AddressesOf(cidr, EnabledLists(u, "SAFE") \cap {s})))
  <2> DEFINE f(id) == SelectEnabledByTypeAndId(u, "SAFE", id)
  <2>1. UNION {f(id) : id \in {s}} = f(s)
    OBVIOUS
  <2>2. GetCidrRecords(u, "SAFE", {s}) = f(s)
    BY <2>1 DEF GetCidrRecords
  <2> QED
    BY <2>2 DEF Answered, GetCollapsed, SelectEnabledByTypeAndId, AddressesOf
<1>5. ASSUME NEW s \in ListIds, NEW a
      PROVE  a \in Answered(u, "SAFE", {s}) <=>
                 s \in EnabledLists(u, "SAFE") /\ a \in Committed[s]
  <2> DEFINE L == EnabledLists(u, "SAFE") \cap {s}
  <2>1. L \in SUBSET ListIds
    BY <1>5
  <2>2. a \in AddressesOf(cidr, L) <=> \E l \in L : a \in Committed[l]
    BY <1>1, <2>1
  <2>3. Answered(u, "SAFE", {s}) = AddressesOf(cidr, L)
    BY <1>1, <1>4, <2>1
  <2> HIDE DEF Committed
  <2> QED
    BY <2>2, <2>3
<1>6. ASSUME NEW a
      PROVE  a \in Answered(u, "DENY", {}) <=>
                 \E d \in EnabledLists(u, "DENY") : a \in Committed[d]
  BY <1>1, <1>2, <1>3
<1> QED
  BY <1>5, <1>6

LEMMA QueuedCleanups ==
    \A s : (\E j \in job_queue : j.action = "update" /\ j.list = s)
               <=> \E k \in Queue : Cleans(k, s)
<1>1. \A j : CarriedBy(j).action = j.action /\ CarriedBy(j).list = j.list
  BY DEF CarriedBy
<1> QED
  BY <1>1 DEF Queue, JobsOf, Cleans

LEMMA FilteredIsHeld ==
    ASSUME RefInv, DenylistsEnabled
    PROVE  SafelistsFilterDenylists <=> HeldFiltered
<1>1. \A l \in DOMAIN list : list[l] \in ListRow /\ l \in ListIds
  BY DEF RefInv, TypeInv, TypeOK, DatabaseTypeOK, IsTable
<1>2. ASSUME NEW s \in DOMAIN list, NEW d \in DOMAIN list
      PROVE  Filters(s, d) <=> \E u \in Users : /\ s \in EnabledLists(u, "SAFE")
                                                /\ d \in EnabledLists(u, "DENY")
  <2>1. Filters(s, d) => /\ list[d].user \in Users
                         /\ s \in EnabledLists(list[d].user, "SAFE")
                         /\ d \in EnabledLists(list[d].user, "DENY")
    BY <1>1 DEF Filters, OfList, EnabledLists, DenylistsEnabled, ListRow
  <2>2. \A u : s \in EnabledLists(u, "SAFE") /\ d \in EnabledLists(u, "DENY") => Filters(s, d)
    BY DEF Filters, OfList, EnabledLists
  <2> QED
    BY <2>1, <2>2
<1>3. ASSUME NEW u, NEW s \in ListIds
      PROVE  Answered(u, "DENY", {}) \cap Answered(u, "SAFE", {s}) # {} <=>
                 /\ s \in EnabledLists(u, "SAFE")
                 /\ \E d \in EnabledLists(u, "DENY") : Committed[s] \cap Committed[d] # {}
  <2> DEFINE deny == Answered(u, "DENY", {})
             safe == Answered(u, "SAFE", {s})
  <2>1. /\ \A a : a \in deny <=> \E d \in EnabledLists(u, "DENY") : a \in Committed[d]
        /\ \A a : a \in safe <=> s \in EnabledLists(u, "SAFE") /\ a \in Committed[s]
    BY AnsweredAddresses
  <2> HIDE DEF deny, safe, Committed
  <2>2. deny \cap safe # {} <=> /\ s \in EnabledLists(u, "SAFE")
                                /\ \E d \in EnabledLists(u, "DENY") :
                                       Committed[s] \cap Committed[d] # {}
    BY <2>1
  <2> QED
    BY <2>2 DEF deny, safe
<1>4. \A u, type : EnabledLists(u, type) \subseteq DOMAIN list
  BY DEF EnabledLists
<1>5. ASSUME SafelistsFilterDenylists PROVE HeldFiltered
  <2>1. ASSUME NEW s \in DOMAIN list, NEW d \in DOMAIN list, Filters(s, d),
               Committed[s] \cap Committed[d] # {}
        PROVE  \E k \in Queue : Cleans(k, s)
    <3>1. PICK u \in Users : s \in EnabledLists(u, "SAFE") /\ d \in EnabledLists(u, "DENY")
      BY <1>2, <2>1
    <3>2. Answered(u, "DENY", {}) \cap Answered(u, "SAFE", {s}) # {} /\ s \in ListIds
      BY <1>1, <1>3, <2>1, <3>1
    <3>3. \E j \in job_queue : j.action = "update" /\ j.list = s
      BY <1>5, <3>2 DEF SafelistsFilterDenylists
    <3> QED
      BY <3>3, QueuedCleanups
  <2> QED
    BY <2>1 DEF HeldFiltered
<1>6. ASSUME HeldFiltered PROVE SafelistsFilterDenylists
  <2>1. ASSUME NEW u \in Users, NEW s \in ListIds,
               Answered(u, "DENY", {}) \cap Answered(u, "SAFE", {s}) # {}
        PROVE  \E j \in job_queue : j.action = "update" /\ j.list = s
    <3>1. PICK d \in EnabledLists(u, "DENY") :
              s \in EnabledLists(u, "SAFE") /\ Committed[s] \cap Committed[d] # {}
      BY <1>3, <2>1
    <3> QED
      BY <1>2, <1>4, <1>6, <3>1, QueuedCleanups DEF HeldFiltered
  <2> QED
    BY <2>1 DEF SafelistsFilterDenylists
<1> QED
  BY <1>5, <1>6

-----------------------------------------------------------------------------
LEMMA FilterInit ==
    ASSUME OneWorker, Init, RefInv, DenylistsEnabled, SafelistsFilterDenylists
    PROVE  KnownLists /\ Fresh /\ FilterInv
<1>1. KnownLists /\ Fresh
  BY DEF Init, ApiInit, KnownLists, KnownJobs, KnownRequests, Fresh
<1>2. HeldFiltered
  BY FilteredIsHeld
<1>3. Contents!Init
  BY InitContents
<1> HIDE DEF Taken, Doing, Queue, Gathered, Draft, Committed
<1>4. TakenFirst /\ AddsCleaned /\ GatheredAll /\ DraftHasLists
  BY <1>3 DEF Contents!Init, TakenFirst, AddsCleaned, GatheredAll, DraftHasLists
<1>5. DraftFiltered
  BY <1>2, <1>3 DEF Contents!Init, HeldFiltered, DraftFiltered
<1> QED
  BY <1>1, <1>2, <1>4, <1>5 DEF FilterInv

\* An address of an enabled safelist is in no denylist of its user, as clients
\* are told, unless the cleanup after the safelist is queued: when that is so at
\* the start it is so for ever, through jobs made for a list that was disabled,
\* lists that are enabled while a batch is under way, failures and retries; with
\* one worker that takes the jobs in order, requests that come one at a time,
\* lists that stay and denylists that stay enabled (add_cidrs, update_cleanup and
\* update_list; worker.py, lines 216-308, and lists/controllers.py, lines 86-136).
THEOREM DenylistsAreFiltered ==
    ASSUME OneWorker, InIdOrder, OneClient
    PROVE  Spec /\ SafelistsFilterDenylists /\ ListsStay /\ []DenylistsEnabled
               => []SafelistsFilterDenylists
<1> DEFINE Filtered == KnownLists /\ Fresh /\ FilterInv
<1>1. ASSUME RefInv, RefInv', TypeInv', InOrder, DenylistsEnabled, Filtered, [Next]_vars,
             ListsKept
      PROVE  Filtered'
  <2>1. Implements
    BY <1>1, StepContents
  <2>2. ListsStep /\ Fresh'
    BY <1>1, ListsStepFresh
  <2>3. OfListsStay /\ KnownLists'
    BY <1>1, KnownListsStep, OfListStays DEF RefInv
  <2>4. FilterInv'
    BY <1>1, <2>1, <2>2, <2>3, FilterStep
  <2> QED
    BY <2>2, <2>3, <2>4
<1>2. RefInv /\ RefInv' /\ TypeInv' /\ InOrder /\ DenylistsEnabled /\ Filtered /\ [Next]_vars
      /\ [\A l \in DOMAIN list : l \in DOMAIN list' /\ list'[l].type = list[l].type]_vars
          => Filtered'
  <2>1. UNCHANGED vars => ListsKept
    BY DEF ListsKept, vars, tables
  <2> QED
    BY <1>1, <2>1 DEF ListsKept
<1>3. RefInv /\ DenylistsEnabled /\ Filtered => SafelistsFilterDenylists
  BY FilteredIsHeld DEF FilterInv
<1>4. Init /\ RefInv /\ DenylistsEnabled /\ SafelistsFilterDenylists => Filtered
  BY FilterInit
<1> HIDE DEF Filtered
<1> QED
  BY <1>2, <1>3, <1>4, TypeCorrect, DeletesInvariance, PTL DEF Spec, ListsStay
=============================================================================
