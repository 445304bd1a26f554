-------------------------- MODULE BatchEffectsProofs --------------------------
(***************************************************************************)
(* What a batch does to the lists however many workers there are: the rows *)
(* a worker replaces, and those it adds, are locked until it commits, so   *)
(* other workers take nothing of them away.                                *)
(***************************************************************************)
EXTENDS CidrBatchProofs

-----------------------------------------------------------------------------
(* The jobs, and the requests in progress, are about lists as they are:    *)
(* while no list is deleted or changes its type.                           *)

\* List l is a list of this type of this user.
OfList(l, type, user) ==
    l \in DOMAIN list /\ list[l].type = type /\ list[l].user = user

KnownJobs ==
    \A j \in job_queue : /\ OfList(j.list, j.type, j.user)
                         /\ j.action = "update" => j.type = "SAFE"

KnownRequests ==
    \A c \in Clients : request[c] # Idle =>
        OfList(request[c].cmd.list, request[c].row.type, request[c].cmd.user)

KnownLists == KnownJobs /\ KnownRequests

ListsKept ==
    \A l \in DOMAIN list : l \in DOMAIN list' /\ list'[l].type = list[l].type

OfListsStay == \A l, type, user : OfList(l, type, user) => OfList(l, type, user)'

\* No list changes its user.
LEMMA OfListStays ==
    ASSUME TypeInv, ListsKept, [Next]_vars
    PROVE  OfListsStay
<1>1. CASE UNCHANGED list
  BY <1>1 DEF OfListsStay, OfList
<1>2. ASSUME NEW S, list' = Without(list, S) PROVE OfListsStay
  BY <1>2 DEF Without, Restrict, OfListsStay, OfList, ListsKept
<1>3. ASSUME NEW cmd \in Commands, CreateList(cmd) PROVE OfListsStay
  BY <1>3 DEF CreateList, Overlay, OfListsStay, OfList
<1>4. ASSUME NEW c \in Clients, UpdateList(c) PROVE OfListsStay
  <2> DEFINE cmd == request[c].cmd
             row == Merged(cmd, request[c].row)
  <2>1. /\ list' = [list EXCEPT ![cmd.list] = row]
        /\ row.user = cmd.user /\ Owns(cmd.user, cmd.list)
    BY <1>4 DEF UpdateList, Merged
  <2> HIDE DEF cmd, row
  <2>2. \A l \in DOMAIN list : list'[l].user = list[l].user
    BY <2>1 DEF Owns
  <2> QED
    BY <2>2 DEF OfListsStay, OfList, ListsKept
<1>5. CASE ApiNext
  <2>1. ASSUME NEW cmd \in Commands, DropList(cmd) PROVE OfListsStay
    BY <1>2, <2>1 DEF DropList
  <2>2. ASSUME NEW cmd \in Commands, NEW c \in Clients, ReadList(c, cmd) PROVE OfListsStay
    BY <1>1, <2>2 DEF ReadList, tables
  <2>3. ASSUME NEW c \in Clients, UpdateMissesList(c) \/ QueueJob(c) PROVE OfListsStay
    BY <1>1, <2>3 DEF UpdateMissesList, QueueJob
  <2>4. ASSUME NEW cmd \in Commands, EraseCidr(cmd) PROVE OfListsStay
    BY <1>1, <2>4 DEF EraseCidr
  <2> QED
    BY <1>3, <1>4, <1>5, <2>1, <2>2, <2>3, <2>4 DEF ApiNext, ApiStep
<1>6. ASSUME NEW w \in Workers, DropDeadlock(w) PROVE OfListsStay
  BY <1>1, <1>2, <1>6 DEF DropDeadlock
<1>7. ASSUME NEW w \in Workers, WorkerNext(w) PROVE OfListsStay
  BY <1>1, <1>7, WorkType DEF WorkerNext
<1>8. ASSUME NEW w \in Workers, WorkerRestart(w) \/ WorkerFault(w) \/ ExpiryDeadlock(w)
      PROVE  OfListsStay
  BY <1>1, <1>8 DEF WorkerRestart, Restart, WorkerFault, Crash, Abort, ExpiryDeadlock,
                    ExpiryWins, SchedulerDies, tables
<1>9. CASE SchedulerNext \/ ClockNext \/ SchedulerFault \/ WebRestart \/ UNCHANGED vars
  BY <1>1, <1>9 DEF SchedulerNext, DeleteExpired, ClockNext, Tick, SchedulerFault,
                    SchedulerDies, WebRestart, ApiRestart, vars, tables
<1> QED
  BY <1>5, <1>6, <1>7, <1>8, <1>9 DEF Next

\* A job comes to the queue.
LEMMA KnownJobComes ==
    ASSUME KnownJobs, OfListsStay,
           NEW action, NEW row, NEW cmd, NEW cidrs, NEW ttl,
           InsertJob(action, row, cmd, cidrs, ttl),
           OfList(cmd.list, row.type, cmd.user)',
           action = "update" => row.type = "SAFE"
    PROVE  KnownJobs'
<1> DEFINE x == [id |-> next_id, action |-> action, list |-> cmd.list,
                 type |-> row.type, enabled |-> row.enabled, user |-> cmd.user,
                 cidrs |-> cidrs, ttl |-> ttl]
<1>1. job_queue' = job_queue \cup {x}
  BY DEF InsertJob
<1>2. /\ x.list = cmd.list /\ x.type = row.type /\ x.user = cmd.user
      /\ x.action = action
  OBVIOUS
<1> HIDE DEF x
<1>3. ASSUME NEW j, j = x PROVE OfList(j.list, j.type, j.user)'
  BY <1>2, <1>3
<1> QED
  BY <1>1, <1>2, <1>3 DEF KnownJobs, OfListsStay

LEMMA KnownListsStep ==
    ASSUME TypeInv, KnownLists, ListsKept, [Next]_vars
    PROVE  KnownLists'
<1>0. OfListsStay
  BY OfListStays
<1>1. CASE /\ job_queue' \subseteq job_queue
           /\ \A c \in Clients : request'[c] \in {Idle, request[c]}
  BY <1>0, <1>1 DEF OfListsStay, KnownLists, KnownJobs, KnownRequests
<1>2. ASSUME NEW c \in Clients, request' = [request EXCEPT ![c] = Idle] PROVE KnownRequests'
  BY <1>0, <1>2 DEF OfListsStay, KnownLists, KnownRequests, TypeInv, TypeOK, ApiTypeOK
<1>3. ASSUME NEW c \in Clients, NEW cmd \in Commands, ReadList(c, cmd)
      PROVE  KnownLists'
  <2>1. request' = [request EXCEPT ![c] = [cmd |-> cmd, row |-> list[cmd.list]]]
    BY <1>3 DEF ReadList
  <2>2. /\ request'[c].cmd = cmd /\ request'[c].row = list[cmd.list]
        /\ \A d \in Clients \ {c} : request'[d] = request[d]
    BY <2>1 DEF TypeInv, TypeOK, ApiTypeOK
  <2>3. OfList(cmd.list, list[cmd.list].type, cmd.user)
    BY <1>3 DEF ReadList, Owns, OfList
  <2>4. UNCHANGED <<list, job_queue>>
    BY <1>3 DEF ReadList, tables
  <2> QED
    BY <2>2, <2>3, <2>4 DEF KnownLists, KnownJobs, KnownRequests, OfList
<1>4. ASSUME NEW c \in Clients, UpdateList(c) PROVE KnownLists'
  <2> DEFINE cmd == request[c].cmd
             row == request[c].row
  <2>1. KnownRequests'
    BY <1>2, <1>4 DEF UpdateList, Respond
  <2>2. KnownJobs'
    <3>1. CASE NeedsCleanup(cmd, row)
      <4>1. /\ InsertJob("update", Merged(cmd, row), cmd, {}, 0)
            /\ Merged(cmd, row).type = "SAFE" /\ Merged(cmd, row).user = cmd.user
            /\ list' = [list EXCEPT ![cmd.list] = Merged(cmd, row)]
            /\ cmd.list \in DOMAIN list
        BY <1>4, <3>1 DEF UpdateList, CleanupJob, NeedsCleanup, Merged, Owns
      <4>2. ASSUME NEW a, NEW b, a = cmd, b = Merged(cmd, row)
            PROVE  OfList(a.list, b.type, a.user)'
        BY <4>1, <4>2 DEF OfList, TypeInv, TypeOK, DatabaseTypeOK, IsTable
      <4> HIDE DEF cmd, row
      <4> QED
        BY <1>0, <4>1, <4>2, KnownJobComes DEF KnownLists
    <3>2. CASE ~NeedsCleanup(cmd, row)
      <4>1. UNCHANGED job_queue
        BY <1>4, <3>2 DEF UpdateList, CleanupJob
      <4> QED
        BY <1>0, <4>1 DEF OfListsStay, KnownLists, KnownJobs
    <3> QED
      BY <3>1, <3>2
  <2> QED
    BY <2>1, <2>2 DEF KnownLists
<1>5. ASSUME NEW c \in Clients, UpdateMissesList(c) PROVE FALSE
  BY <1>5 DEF UpdateMissesList, Owns, KnownLists, KnownRequests, OfList
<1>6. ASSUME NEW c \in Clients, QueueJob(c) PROVE KnownLists'
  <2> DEFINE cmd == request[c].cmd
             row == request[c].row
  <2>1. KnownRequests'
    BY <1>2, <1>6 DEF QueueJob, Respond
  <2>2. /\ InsertJob(cmd.op, row, cmd, cmd.cidrs, cmd.ttl)
        /\ cmd.op # "update"
    BY <1>6 DEF QueueJob, JobCommand
  <2>3. OfList(cmd.list, row.type, cmd.user)
    BY <1>6 DEF QueueJob, KnownLists, KnownRequests
  <2>4. ASSUME NEW a, NEW b, a = cmd, b = row PROVE OfList(a.list, b.type, a.user)'
    BY <1>0, <2>3, <2>4 DEF OfListsStay
  <2> HIDE DEF cmd, row
  <2>5. KnownJobs'
    BY <1>0, <2>2, <2>4, KnownJobComes DEF KnownLists
  <2> QED
    BY <2>1, <2>5 DEF KnownLists
<1>7. CASE ApiStep
  <2>1. CASE \E cmd \in Commands : CreateList(cmd) \/ DropList(cmd) \/ EraseCidr(cmd)
    BY <1>1, <2>1 DEF CreateList, DropList, EraseCidr, apiVars
  <2> QED
    BY <1>3, <1>4, <1>5, <1>6, <1>7, <2>1 DEF ApiStep
<1>8. CASE ~ApiStep
  <2>1. job_queue' \subseteq job_queue
    BY <1>8 DEF Next, ApiNext, WorkerNext, WorkerRestart, SchedulerNext, ClockNext,
                WorkerFault, SchedulerFault, WebRestart, ExpiryDeadlock, DropDeadlock,
                Work, Poll, Begin, FilterSafeCidrs, ReadSafelist, CleanDenylists, TrimList,
                DeleteExcluded, DeleteRow, UpsertRow, WaitForRow, AddOwnRows, EndJob,
                Commit, ForeignKeyViolation, DeadlockAbort, Abort, Restart, DeleteExpired,
                Tick, Crash, SchedulerDies, ApiRestart, ExpiryWins, vars, tables
  <2>2. UNCHANGED request \/ request' = [c \in Clients |-> Idle]
    BY <1>8 DEF Next, ApiNext, WorkerNext, WorkerRestart, SchedulerNext, ClockNext,
                WorkerFault, SchedulerFault, WebRestart, ExpiryDeadlock, DropDeadlock,
                ApiRestart, vars, apiVars
  <2> QED
    BY <1>1, <2>1, <2>2
<1> QED
  BY <1>7, <1>8

-----------------------------------------------------------------------------
(* The rows of a batch.                                                    *)

\* The rows worker w has written, or is about to, and will not delete.
Puts(w) == (DOMAIN written[w] \ to_delete[w]) \cup {row[1] : row \in new_subnets[w]}

\* The rows it has deleted or is about to.
Takes(w) == removed[w] \cup to_delete[w]

\* Address a is in one of the rows it leaves in list l.
PutsAt(w, l, a) == \E k \in Puts(w) : k[2] = l /\ a \in k[1]

\* The addresses list l has, and those the jobs of the batch may bring to it.
AtHand(w, l) ==
    AddressesOf(cidr, {l}) \cup UNION {Cover(j.cidrs) : j \in {j \in batch[w] : j.list = l}}

\* Address a is one of those of a safelist of the user.
KnownSafe(w, user, a) == \E s : OfList(s, "SAFE", user) /\ a \in AtHand(w, s)

\* A job of the batch is a reason for address a to leave list l.
AskedFor(w, l, a) ==
    \E j \in batch[w] :
        \/ j.action = "delete" /\ j.list = l /\ a \in Cover(j.cidrs)
        \/ /\ j.type = "SAFE" /\ OfList(l, "DENY", j.user)
           /\ \/ j.action = "add" /\ j.enabled /\ a \in Cover(j.cidrs)
              \/ j.action = "update" /\ KnownSafe(w, j.user, a)

\* Without jobs nothing is written.
NoJobsNoRows(w) == batch[w] = {} => Puts(w) = {} /\ Takes(w) = {}

\* The rows written to safelists hold what the safelist has, or jobs bring to it.
SafeRowsAtHand(w) ==
    \A k \in DOMAIN written[w] \cup {row[1] : row \in new_subnets[w]} :
        /\ k[2] \in DOMAIN list
        /\ list[k[2]].type = "SAFE" => k[1] \subseteq AtHand(w, k[2])

\* What update_cleanup is about to take out of the denylists is of a safelist.
CleansSafe(w) ==
    stage[w] = "clean" /\ job[w].action = "update" =>
        \A a \in exclusion[w] : KnownSafe(w, job[w].user, a)

\* An address of a row that goes stays in another row, or a job asked for it.
RowsKept(w) ==
    \A k \in Takes(w) : \A a \in k[1] : PutsAt(w, k[2], a) \/ AskedFor(w, k[2], a)

\* Jobs are taken in the order of their ids.
DoneFirst(w) ==
    /\ \A j \in batch[w] \ todo[w], k \in todo[w] : j.id < k.id
    /\ stage[w] \in InJob => \A j \in batch[w] \ todo[w] : j.id <= job[w].id

\* Address a of job j is where it belongs, or is not to be.
Added(w, j, a) ==
    \/ PutsAt(w, j.list, a)
    \/ job[w] = j /\ a \in Cover(adding[w])
    \/ Later(w, j, "delete", a)
    \/ j.type = "DENY" /\ KnownSafe(w, j.user, a)

AddsThere(w) ==
    \A j \in batch[w] \ todo[w] : j.action = "add" => \A a \in Cover(Parsed(j)) : Added(w, j, a)

-----------------------------------------------------------------------------
(* What a step leaves of them.                                             *)

\* The effects worker w's batch has had so far.
Effects(w) == NoJobsNoRows(w) /\ SafeRowsAtHand(w) /\ CleansSafe(w) /\ RowsKept(w)

Ordered(w) == DoneFirst(w) /\ AddsThere(w)

\* The safelists keep their addresses.
SafelistsKept ==
    \A l \in DOMAIN list : list[l].type = "SAFE" =>
        AddressesOf(cidr, {l}) \subseteq AddressesOf(cidr', {l})

\* What is known of safelists stays known.
LEMMA KnowledgeStays ==
    ASSUME OfListsStay, SafelistsKept, NEW w, batch'[w] = batch[w]
    PROVE  /\ \A l \in DOMAIN list : list[l].type = "SAFE" => AtHand(w, l) \subseteq AtHand(w, l)'
           /\ \A user, a : KnownSafe(w, user, a) => KnownSafe(w, user, a)'
           /\ \A l, a : AskedFor(w, l, a) => AskedFor(w, l, a)'
<1>1. \A l \in DOMAIN list : list[l].type = "SAFE" => AtHand(w, l) \subseteq AtHand(w, l)'
  BY DEF AtHand, SafelistsKept
<1>2. ASSUME NEW user, NEW a, KnownSafe(w, user, a) PROVE KnownSafe(w, user, a)'
  <2>1. PICK s : OfList(s, "SAFE", user) /\ a \in AtHand(w, s)
    BY <1>2 DEF KnownSafe
  <2>2. OfList(s, "SAFE", user)' /\ a \in AtHand(w, s)'
    BY <1>1, <2>1 DEF OfListsStay, OfList
  <2> QED
    BY <2>2 DEF KnownSafe
<1>3. ASSUME NEW l, NEW a, AskedFor(w, l, a) PROVE AskedFor(w, l, a)'
  <2>1. \A user : OfList(l, "DENY", user) => OfList(l, "DENY", user)'
    BY DEF OfListsStay
  <2>2. \A user : KnownSafe(w, user, a) => KnownSafe(w, user, a)'
    BY <1>2
  <2> QED
    BY <1>3, <2>1, <2>2 DEF AskedFor
<1> QED
  BY <1>1, <1>2, <1>3

\* Another worker's step, a request, or the scheduler.
LEMMA StaysEffects ==
    ASSUME OfListsStay, ListsKept, SafelistsKept, NEW w, Effects(w), Stays(w)
    PROVE  Effects(w)'
<1>1. /\ batch'[w] = batch[w] /\ Puts(w)' = Puts(w) /\ Takes(w)' = Takes(w)
      /\ DOMAIN written'[w] = DOMAIN written[w] /\ new_subnets'[w] = new_subnets[w]
  BY DEF Stays, Puts, Takes
<1>2. NoJobsNoRows(w)'
  BY <1>1 DEF Effects, NoJobsNoRows
<1>3. SafeRowsAtHand(w)'
  BY <1>1, KnowledgeStays DEF Effects, SafeRowsAtHand, ListsKept
<1>4. CleansSafe(w)'
  BY <1>1, KnowledgeStays DEF Effects, CleansSafe, Stays
<1>5. RowsKept(w)'
  <2>1. \A l, a : PutsAt(w, l, a)' <=> PutsAt(w, l, a)
    BY <1>1 DEF PutsAt
  <2> QED
    BY <1>1, <2>1, KnowledgeStays DEF Effects, RowsKept
<1> QED
  BY <1>2, <1>3, <1>4, <1>5 DEF Effects

LEMMA StaysOrdered ==
    ASSUME OfListsStay, SafelistsKept, NEW w, Ordered(w), Stays(w)
    PROVE  Ordered(w)'
<1>1. DoneFirst(w)'
  BY DEF Ordered, DoneFirst, Stays
<1>2. ASSUME NEW j, NEW a, Added(w, j, a) PROVE Added(w, j, a)'
  <2>1. \A l : PutsAt(w, l, a)' <=> PutsAt(w, l, a)
    BY DEF PutsAt, Puts, Stays
  <2>2. Later(w, j, "delete", a)' <=> Later(w, j, "delete", a)
    BY DEF Later, Stays
  <2>3. KnownSafe(w, j.user, a) => KnownSafe(w, j.user, a)'
    BY KnowledgeStays DEF Stays
  <2> QED
    BY <1>2, <2>1, <2>2, <2>3 DEF Added, Stays
<1> QED
  BY <1>1, <1>2 DEF Ordered, AddsThere, Stays

\* A worker that has taken and put nothing.
LEMMA NoEffects ==
    ASSUME NEW w, DOMAIN written'[w] = {}, removed'[w] = {}, to_delete'[w] = {},
           new_subnets'[w] = {}, stage'[w] # "clean"
    PROVE  Effects(w)'
<1>1. Puts(w)' = {} /\ Takes(w)' = {}
  BY DEF Puts, Takes
<1>2. NoJobsNoRows(w)' /\ SafeRowsAtHand(w)' /\ CleansSafe(w)' /\ RowsKept(w)'
  BY <1>1 DEF NoJobsNoRows, SafeRowsAtHand, CleansSafe, RowsKept
<1> QED
  BY <1>2 DEF Effects

\* A worker without jobs, whatever becomes of the safelists.
LEMMA IdleEffects ==
    ASSUME NEW w, ShapeOf(w), Effects(w), Stays(w), batch[w] = {}
    PROVE  Effects(w)' /\ Ordered(w)'
<1>1. DOMAIN written[w] = {} /\ removed[w] = {} /\ to_delete[w] = {} /\ new_subnets[w] = {}
  BY DEF Effects, NoJobsNoRows, Puts, Takes
<1>2. stage[w] # "clean"
  BY DEF ShapeOf, InJob
<1>3. Effects(w)'
  BY <1>1, <1>2, NoEffects DEF Stays
<1>4. Ordered(w)'
  BY DEF Stays, Ordered, DoneFirst, AddsThere
<1> QED
  BY <1>3, <1>4

LEMMA NoOrder ==
    ASSUME NEW w, batch'[w] = todo'[w], stage'[w] \notin InJob
    PROVE  Ordered(w)'
BY DEF Ordered, DoneFirst, AddsThere

\* What a worker knows is the same as long as tables and batch are.
LEMMA SameKnowledge ==
    ASSUME NEW w, UNCHANGED <<list, cidr, batch>>
    PROVE  /\ \A l : AtHand(w, l)' = AtHand(w, l)
           /\ \A user, a : KnownSafe(w, user, a)' <=> KnownSafe(w, user, a)
           /\ \A l, a : AskedFor(w, l, a)' <=> AskedFor(w, l, a)
           /\ \A j, a : Later(w, j, "delete", a)' <=> Later(w, j, "delete", a)
<1>1. \A l : AtHand(w, l)' = AtHand(w, l)
  BY DEF AtHand
<1>2. \A l, type, user : OfList(l, type, user)' <=> OfList(l, type, user)
  BY DEF OfList
<1>3. \A user, a : KnownSafe(w, user, a)' <=> KnownSafe(w, user, a)
  BY <1>1, <1>2 DEF KnownSafe
<1>4. \A l, a : AskedFor(w, l, a)' <=> AskedFor(w, l, a)
  BY <1>2, <1>3 DEF AskedFor
<1>5. \A j, a : Later(w, j, "delete", a)' <=> Later(w, j, "delete", a)
  BY DEF Later
<1> QED
  BY <1>1, <1>3, <1>4, <1>5

\* The rows worker w has written or is about to.
RowsWritten(w) == DOMAIN written[w] \cup {row[1] : row \in new_subnets[w]}

\* A step of its own by which a worker takes no more rows, and writes no others
\* than those of its safelists.
LEMMA NoMoreTaken ==
    ASSUME NEW w, Effects(w), batch[w] # {}, UNCHANGED <<list, cidr, batch>>,
           Puts(w) \subseteq Puts(w)', Takes(w)' \subseteq Takes(w),
           \A k \in RowsWritten(w)' \ RowsWritten(w) :
               /\ k[2] \in DOMAIN list
               /\ list[k[2]].type = "SAFE" => k[1] \subseteq AtHand(w, k[2]),
           stage'[w] = "clean" /\ job'[w].action = "update" =>
               \A a \in exclusion'[w] : KnownSafe(w, job'[w].user, a)
    PROVE  Effects(w)'
<1>1. NoJobsNoRows(w)'
  BY DEF NoJobsNoRows
<1>2. SafeRowsAtHand(w)'
  BY SameKnowledge DEF Effects, SafeRowsAtHand, RowsWritten
<1>3. CleansSafe(w)'
  BY SameKnowledge DEF CleansSafe
<1>4. RowsKept(w)'
  <2>1. \A l, a : PutsAt(w, l, a) => PutsAt(w, l, a)'
    BY DEF PutsAt
  <2> QED
    BY <2>1, SameKnowledge DEF Effects, RowsKept
<1> QED
  BY <1>1, <1>2, <1>3, <1>4 DEF Effects

\* A step of its own in the job in progress, which does not lose what is there.
LEMMA AddsStay ==
    ASSUME NEW w, Ordered(w), UNCHANGED <<list, cidr, batch>>, todo'[w] = todo[w],
           stage'[w] \in InJob => stage[w] \in InJob /\ job'[w] = job[w],
           \A j \in batch[w] \ todo[w] : \A a :
               j.action = "add" /\ (PutsAt(w, j.list, a) \/ (job[w] = j /\ a \in Cover(adding[w])))
                   => Added(w, j, a)'
    PROVE  Ordered(w)'
<1>1. DoneFirst(w)'
  BY DEF Ordered, DoneFirst
<1>2. AddsThere(w)'
  BY SameKnowledge DEF Ordered, AddsThere, Added
<1> QED
  BY <1>1, <1>2 DEF Ordered

-----------------------------------------------------------------------------
(* The steps of a worker in its batch.                                     *)

\* The job in progress is about its list as it is.
LEMMA JobKnown ==
    ASSUME TypeInv, LockInv, BatchInv, KnownJobs, NEW w \in Workers, stage[w] \in InJob
    PROVE  /\ job[w] \in batch[w] \ todo[w] /\ job[w] \in Job
           /\ OfList(job[w].list, job[w].type, job[w].user)
           /\ job[w].action = "update" => job[w].type = "SAFE"
BY DEF BatchInv, WorkerShape, ShapeOf, LockInv, LocksExclusive, KnownJobs, TypeInv, TypeOK,
       DatabaseTypeOK

\* What cleaning takes out of the denylists are addresses of a safelist.
LEMMA CleanReason ==
    ASSUME TypeInv, LockInv, BatchInv, KnownJobs, NEW w \in Workers, CleansSafe(w),
           stage[w] = "clean", NEW a \in exclusion[w]
    PROVE  /\ KnownSafe(w, job[w].user, a)
           /\ \A l \in EnabledLists(job[w].user, "DENY") : AskedFor(w, l, a)
<1> DEFINE j == job[w]
<1>1. /\ j \in batch[w] /\ j \in Job /\ OfList(j.list, j.type, j.user)
      /\ j.action = "update" => j.type = "SAFE"
  BY JobKnown DEF InJob
<1>2. \A l \in EnabledLists(j.user, "DENY") : OfList(l, "DENY", j.user)
  BY DEF EnabledLists, OfList
<1>3. CASE j.action = "update"
  BY <1>1, <1>2, <1>3 DEF CleansSafe, AskedFor
<1>4. CASE j.action # "update"
  <2>1. j.action = "add" /\ j.type = "SAFE" /\ j.enabled /\ a \in Cover(j.cidrs)
    BY <1>1, <1>4, CoverParsed DEF BatchInv, WorkerShape, ShapeOf
  <2>2. a \in AtHand(w, j.list)
    BY <1>1, <2>1 DEF AtHand
  <2> QED
    BY <1>1, <1>2, <2>1, <2>2 DEF KnownSafe, AskedFor
<1> QED
  BY <1>3, <1>4

\* What trimming takes out are addresses of a DELETE job for the list.
LEMMA TrimReason ==
    ASSUME TypeInv, LockInv, BatchInv, KnownJobs, NEW w \in Workers,
           stage[w] = "trim", NEW a \in exclusion[w]
    PROVE  /\ job[w].action = "delete" /\ a \in Cover(job[w].cidrs)
           /\ AskedFor(w, job[w].list, a)
<1>1. job[w] \in batch[w] /\ job[w] \in Job
  BY JobKnown DEF InJob
<1>2. job[w].action = "delete" /\ a \in Cover(job[w].cidrs)
  BY <1>1, CoverParsed DEF BatchInv, WorkerShape, ShapeOf
<1> QED
  BY <1>1, <1>2 DEF AskedFor

LEMMA DeleteExcludedStep ==
    ASSUME TypeInv, NEW w \in Workers, NEW lists, DeleteExcluded(w, lists)
    PROVE  /\ UNCHANGED <<list, cidr, batch, removed, written, todo, job, adding>>
           /\ stage'[w] = "write"
           /\ to_delete'[w] = {k \in RowsOf(View(w), lists) :
                                  AddressExcludeMany(k[1], exclusion[w]) # {k[1]}}
           /\ new_subnets'[w] =
                  UNION {RowsLeft(w, View(w), k) : k \in RowsOf(View(w), lists)}
BY DEF DeleteExcluded, Goto, tables, transactions, TypeInv, TypeOK, WorkerTypeOK

\* An address of a row that is replaced is in a row that is left, unless it is
\* excluded.
LEMMA ExcludedPuts ==
    ASSUME TypeInv, NEW w \in Workers, NEW lists, DeleteExcluded(w, lists),
           NEW k \in DOMAIN View(w), k \in DOMAIN written[w] \/ k[2] \in lists,
           NEW a \in k[1], k[2] \in lists => a \notin exclusion[w]
    PROVE  PutsAt(w, k[2], a)'
<1>1. CASE k[2] \notin lists
  <2>1. k \in DOMAIN written'[w] \ to_delete'[w]
    BY <1>1, DeleteExcludedStep DEF RowsOf
  <2> QED
    BY <2>1 DEF PutsAt, Puts
<1>2. CASE k[2] \in lists
  <2>1. k \in Key /\ k[1] \in Nets
    BY ViewValues DEF Key
  <2>2. a \in Cover(AddressExcludeMany(k[1], exclusion[w]))
    BY <1>2, <2>1, ExcludeManyExact
  <2>3. PICK n \in AddressExcludeMany(k[1], exclusion[w]) : a \in n
    BY <2>2 DEF Cover
  <2> DEFINE m == <<n, k[2]>>
             row == <<m, View(w)[k]>>
  <2>4. row \in new_subnets'[w]
    <3>1. row \in RowsLeft(w, View(w), k) /\ k \in RowsOf(View(w), lists)
      BY <1>2, <2>3 DEF RowsLeft, RowsOf
    <3> QED
      BY <3>1, DeleteExcludedStep
  <2>5. row[1] = m /\ m[1] = n /\ m[2] = k[2]
    OBVIOUS
  <2> HIDE DEF row, m
  <2>6. m \in Puts(w)'
    BY <2>4, <2>5 DEF Puts
  <2> QED
    BY <2>3, <2>5, <2>6 DEF PutsAt
<1> QED
  BY <1>1, <1>2

LEMMA DeleteExcludedEffects ==
    ASSUME TypeInv, LockInv, NEW w \in Workers, NEW lists, DeleteExcluded(w, lists),
           Effects(w), batch[w] # {}, to_delete[w] = {}, new_subnets[w] = {},
           \A l \in lists : \A a \in exclusion[w] : AskedFor(w, l, a)
    PROVE  Effects(w)'
<1>1. UNCHANGED <<list, cidr, batch, removed, written>> /\ stage'[w] = "write"
  BY DeleteExcludedStep
<1>2. NoJobsNoRows(w)' /\ CleansSafe(w)'
  BY <1>1 DEF NoJobsNoRows, CleansSafe
<1>3. SafeRowsAtHand(w)'
  <2>1. ASSUME NEW k \in DOMAIN View(w)
        PROVE  /\ k[2] \in DOMAIN list
               /\ list[k[2]].type = "SAFE" => k[1] \subseteq AtHand(w, k[2])
    <3>1. CASE k \in DOMAIN written[w]
      BY <3>1 DEF Effects, SafeRowsAtHand
    <3>2. CASE k \in DOMAIN cidr
      BY <3>2 DEF LockInv, RowsHaveLists, AtHand, AddressesOf, RowsOf, Cover
    <3> QED
      BY <3>1, <3>2, ViewValues
  <2>2. ASSUME NEW row \in new_subnets'[w]
        PROVE  \E k \in DOMAIN View(w) : row[1][2] = k[2] /\ row[1][1] \subseteq k[1]
    <3>1. PICK k \in RowsOf(View(w), lists) : row \in RowsLeft(w, View(w), k)
      BY <2>2, DeleteExcludedStep
    <3>2. PICK n \in AddressExcludeMany(k[1], exclusion[w]) :
              row = <<(<<n, k[2]>>), View(w)[k]>>
      BY <3>1 DEF RowsLeft
    <3>3. n \subseteq k[1] /\ row[1][2] = k[2] /\ row[1][1] = n
      BY <3>2 DEF AddressExcludeMany, Collapsed
    <3> QED
      BY <3>1, <3>3 DEF RowsOf
  <2>3. ASSUME NEW k \in DOMAIN written'[w] \cup {row[1] : row \in new_subnets'[w]}
        PROVE  /\ k[2] \in DOMAIN list
               /\ list[k[2]].type = "SAFE" => k[1] \subseteq AtHand(w, k[2])
    <3>1. CASE k \in DOMAIN written[w]
      BY <3>1 DEF Effects, SafeRowsAtHand
    <3>2. CASE \E m \in DOMAIN View(w) : k[2] = m[2] /\ k[1] \subseteq m[1]
      BY <2>1, <3>2
    <3> QED
      BY <1>1, <2>2, <2>3, <3>1, <3>2
  <2> QED
    BY <1>1, <2>3, SameKnowledge DEF SafeRowsAtHand
<1>4. ASSUME NEW k \in Takes(w)', NEW a \in k[1]
      PROVE  PutsAt(w, k[2], a)' \/ AskedFor(w, k[2], a)
  <2>1. CASE k \in removed[w]
    <3>1. CASE AskedFor(w, k[2], a)
      BY <3>1
    <3>2. CASE PutsAt(w, k[2], a)
      <4>1. PICK m \in DOMAIN written[w] : m[2] = k[2] /\ a \in m[1]
        BY <3>2 DEF PutsAt, Puts
      <4>2. m \in DOMAIN View(w)
        BY <4>1 DEF View, Overlay
      <4>3. CASE m[2] \in lists /\ a \in exclusion[w]
        BY <4>1, <4>3
      <4> QED
        BY <4>1, <4>2, <4>3, ExcludedPuts
    <3>3. RowsKept(w) /\ k \in Takes(w)
      BY <2>1 DEF Effects, Takes
    <3> QED
      BY <1>4, <3>1, <3>2, <3>3 DEF RowsKept
  <2>2. CASE k \in to_delete'[w]
    <3>1. k \in DOMAIN View(w) /\ k[2] \in lists
      BY <2>2, DeleteExcludedStep DEF RowsOf
    <3> QED
      BY <1>4, <3>1, ExcludedPuts
  <2> QED
    BY <1>1, <1>4, <2>1, <2>2 DEF Takes
<1>5. RowsKept(w)'
  BY <1>1, <1>4, SameKnowledge DEF RowsKept
<1> QED
  BY <1>2, <1>3, <1>5 DEF Effects

\* The statements of a batch move rows from what is left to what is done.
LEMMA DeleteRowPuts ==
    ASSUME TypeInv, NEW w \in Workers, NEW k, DeleteRow(w, k)
    PROVE  /\ Puts(w)' = Puts(w) /\ Takes(w)' \subseteq Takes(w)
           /\ RowsWritten(w)' \subseteq RowsWritten(w)
           /\ UNCHANGED <<list, cidr, batch, todo, job, adding>>
           /\ stage[w] = "write" /\ stage'[w] = "write"
<1>1. /\ k \in to_delete[w] /\ to_delete'[w] = to_delete[w] \ {k}
      /\ removed'[w] \subseteq removed[w] \cup {k}
      /\ written'[w] = Without(written[w], {k})
      /\ UNCHANGED <<list, cidr, batch, todo, job, adding, stage, new_subnets>>
      /\ stage[w] = "write"
  BY DEF DeleteRow, Sends, tables, progress, TypeInv, TypeOK, WorkerTypeOK, DatabaseTypeOK
<1>2. DOMAIN written'[w] = DOMAIN written[w] \ {k}
  BY <1>1 DEF Without, Restrict
<1> QED
  BY <1>1, <1>2 DEF Puts, Takes, RowsWritten

LEMMA UpsertRowPuts ==
    ASSUME TypeInv, NEW w \in Workers, NEW row, UpsertRow(w, row)
    PROVE  /\ Puts(w) \subseteq Puts(w)' /\ Takes(w)' = Takes(w)
           /\ RowsWritten(w)' \subseteq RowsWritten(w)
           /\ UNCHANGED <<list, cidr, batch, todo, job, adding>>
           /\ stage[w] = "write" /\ stage'[w] = "write"
<1>1. /\ row \in new_subnets[w] /\ new_subnets'[w] = new_subnets[w] \ {row}
      /\ written'[w] = Overlay(written[w], [k \in {row[1]} |-> row[2]])
      /\ to_delete[w] = {}
      /\ UNCHANGED <<list, cidr, batch, removed, todo, job, adding, stage, to_delete>>
      /\ stage[w] = "write"
  BY DEF UpsertRow, Sends, tables, progress, TypeInv, TypeOK, WorkerTypeOK, DatabaseTypeOK
<1>2. DOMAIN written'[w] = DOMAIN written[w] \cup {row[1]}
  BY <1>1 DEF Overlay
<1> QED
  BY <1>1, <1>2 DEF Puts, Takes, RowsWritten

\* The rows of an ADD job are about the addresses it carries.
LEMMA AddOwnRowsPuts ==
    ASSUME TypeInv, LockInv, BatchInv, KnownJobs, NEW w \in Workers, AddOwnRows(w)
    PROVE  /\ Puts(w)' = Puts(w) \cup {<<n, job[w].list>> : n \in adding[w]}
           /\ Takes(w)' = Takes(w)
           /\ \A k \in RowsWritten(w)' \ RowsWritten(w) :
                  k[2] \in DOMAIN list /\ k[1] \subseteq AtHand(w, k[2])
           /\ UNCHANGED <<list, cidr, batch, todo, job>>
           /\ stage[w] = "write" /\ stage'[w] = "write"
<1> DEFINE e == IF job[w].ttl = 0 THEN Never ELSE now + job[w].ttl
           own == {<<n, job[w].list>> : n \in adding[w]}
<1>1. /\ new_subnets'[w] = {<<(<<n, job[w].list>>), e>> : n \in adding[w]}
      /\ new_subnets[w] = {} /\ to_delete[w] = {} /\ adding[w] # {}
      /\ UNCHANGED <<list, cidr, batch, removed, written, todo, job, stage, to_delete>>
      /\ stage[w] = "write"
  BY DEF AddOwnRows, tables, transactions, TypeInv, TypeOK, WorkerTypeOK
<1> HIDE DEF e
<1>2. {row[1] : row \in new_subnets'[w]} = own
  <2>1. \A row \in new_subnets'[w] : row[1] \in own
    BY <1>1
  <2>2. ASSUME NEW k \in own PROVE \E row \in new_subnets'[w] : k = row[1]
    <3>1. <<k, e>> \in new_subnets'[w] /\ <<k, e>>[1] = k
      BY <1>1, <2>2
    <3> QED
      BY <3>1
  <2> QED
    BY <2>1, <2>2
<1>3. /\ job[w] \in batch[w] /\ job[w] \in Job /\ job[w].list \in DOMAIN list
      /\ Cover(adding[w]) \subseteq Cover(job[w].cidrs)
  <2>1. job[w] \in batch[w] /\ job[w] \in Job /\ job[w].list \in DOMAIN list
    BY <1>1, JobKnown DEF InJob, OfList
  <2>2. Cover(adding[w]) \subseteq Cover(Parsed(job[w]))
    BY <1>1 DEF BatchInv, WorkerShape, ShapeOf
  <2> QED
    BY <2>1, <2>2, CoverParsed
<1>4. ASSUME NEW k \in own PROVE k[2] \in DOMAIN list /\ k[1] \subseteq AtHand(w, k[2])
  <2>1. PICK n \in adding[w] : k = <<n, job[w].list>>
    BY <1>4
  <2>2. k[1] = n /\ k[2] = job[w].list /\ n \subseteq Cover(job[w].cidrs)
    BY <1>3, <2>1 DEF Cover
  <2> QED
    BY <1>3, <2>2 DEF AtHand
<1>5. RowsWritten(w)' \subseteq RowsWritten(w) \cup own
  BY <1>1, <1>2 DEF RowsWritten
<1>6. Puts(w)' = Puts(w) \cup own /\ Takes(w)' = Takes(w)
  BY <1>1, <1>2 DEF Puts, Takes
<1> QED
  BY <1>1, <1>4, <1>5, <1>6

\* Reading and computing writes nothing.
LEMMA QuietPuts ==
    ASSUME NEW w, UNCHANGED <<removed, written, to_delete, new_subnets>>
    PROVE  /\ Puts(w)' = Puts(w) /\ Takes(w)' = Takes(w)
           /\ RowsWritten(w)' = RowsWritten(w)
BY DEF Puts, Takes, RowsWritten

\* The rows of the safelist a cleanup reads hold addresses of that safelist.
LEMMA ViewSafe ==
    ASSUME TypeInv, NEW w \in Workers, SafeRowsAtHand(w),
           NEW l \in DOMAIN list, list[l].type = "SAFE", NEW a \in AddressesOf(View(w), {l})
    PROVE  KnownSafe(w, list[l].user, a)
<1>1. PICK k \in DOMAIN View(w) : k[2] = l /\ a \in k[1]
  BY DEF AddressesOf, RowsOf, Cover
<1>2. a \in AtHand(w, l)
  <2>1. CASE k \in DOMAIN written[w]
    BY <1>1, <2>1 DEF SafeRowsAtHand
  <2>2. CASE k \in DOMAIN cidr
    BY <1>1, <2>2 DEF AtHand, AddressesOf, RowsOf, Cover
  <2> QED
    BY <2>1, <2>2, ViewValues
<1> QED
  BY <1>2 DEF KnownSafe, OfList

LEMMA ReadSafelistKnows ==
    ASSUME TypeInv, LockInv, BatchInv, KnownJobs, NEW w \in Workers, SafeRowsAtHand(w),
           ReadSafelist(w), NEW a \in exclusion'[w]
    PROVE  KnownSafe(w, job[w].user, a)
<1> DEFINE j == job[w]
           enabled == {l \in {j.list} \cap DOMAIN list : list[l].enabled}
<1>1. stage[w] = "safelist" /\ exclusion'[w] = AddressesOf(View(w), enabled)
  BY DEF ReadSafelist, TypeInv, TypeOK, WorkerTypeOK
<1>2. OfList(j.list, "SAFE", j.user)
  BY <1>1, JobKnown DEF InJob, BatchInv, WorkerShape, ShapeOf
<1>3. a \in AddressesOf(View(w), {j.list})
  BY <1>1 DEF AddressesOf, RowsOf, Cover
<1> QED
  BY <1>2, <1>3, ViewSafe DEF OfList

LEMMA WorkEffects ==
    ASSUME TypeInv, LockInv, BatchInv, KnownJobs, NEW w \in Workers, Effects(w), Work(w)
    PROVE  Effects(w)'
<1>0. /\ ShapeOf(w) /\ stage \in [Workers -> Stage]
      /\ job \in [Workers -> Job \cup {NoJob}] /\ todo[w] \subseteq batch[w]
  BY DEF BatchInv, WorkerShape, LockInv, LocksExclusive, TypeInv, TypeOK, WorkerTypeOK
<1>1. stage[w] \in InJob => batch[w] # {}
  BY JobKnown
<1>2. CASE Poll(w)
  <2>1. /\ stage[w] = "idle" /\ stage'[w] = "next"
        /\ UNCHANGED <<removed, written, to_delete, new_subnets>>
    BY <1>0, <1>2 DEF Poll, Goto, writes
  <2> QED
    BY <1>0, <2>1, NoEffects DEF ShapeOf
<1>3. CASE Begin(w)
  <2>1. PICK j \in Candidates(w) :
            /\ job'[w] = IF FirstQuery(j) = "next" THEN NoJob ELSE j
            /\ stage'[w] = FirstQuery(j)
    BY <1>0, <1>3 DEF Begin, Goto
  <2>2. UNCHANGED <<list, cidr, batch, removed, written, to_delete, new_subnets>>
    BY <1>3 DEF Begin, tables, transactions, writes
  <2>3. j \in todo[w] /\ batch[w] # {}
    BY <1>0, <2>1 DEF Candidates
  <2>4. ~(stage'[w] = "clean" /\ job'[w].action = "update")
    BY <2>1 DEF FirstQuery
  <2> QED
    BY <2>2, <2>3, <2>4, QuietPuts, NoMoreTaken
<1>4. CASE FilterSafeCidrs(w) \/ EndJob(w)
  <2>1. /\ UNCHANGED <<list, cidr, batch, removed, written, to_delete, new_subnets>>
        /\ stage[w] \in InJob /\ stage'[w] # "clean"
    BY <1>0, <1>4 DEF FilterSafeCidrs, EndJob, Goto, tables, transactions, writes, InJob
  <2> QED
    BY <1>1, <2>1, QuietPuts, NoMoreTaken
<1>5. CASE ReadSafelist(w)
  <2>1. /\ UNCHANGED <<list, cidr, batch, removed, written, to_delete, new_subnets, job>>
        /\ stage[w] \in InJob
    BY <1>5 DEF ReadSafelist, tables, transactions, writes, InJob
  <2>2. \A a \in exclusion'[w] : KnownSafe(w, job[w].user, a)
    BY <1>5, ReadSafelistKnows DEF Effects
  <2> QED
    BY <1>1, <2>1, <2>2, QuietPuts, NoMoreTaken
<1>6. CASE CleanDenylists(w)
  <2>1. stage[w] = "clean" /\ DeleteExcluded(w, EnabledLists(job[w].user, "DENY"))
    BY <1>6 DEF CleanDenylists
  <2>2. to_delete[w] = {} /\ new_subnets[w] = {} /\ batch[w] # {}
    BY <1>0, <1>1, <2>1 DEF ShapeOf, InJob
  <2> QED
    BY <2>1, <2>2, CleanReason, DeleteExcludedEffects DEF Effects
<1>7. CASE TrimList(w)
  <2>1. stage[w] = "trim" /\ DeleteExcluded(w, {job[w].list} \cap DOMAIN list)
    BY <1>7 DEF TrimList
  <2>2. to_delete[w] = {} /\ new_subnets[w] = {} /\ batch[w] # {}
    BY <1>0, <1>1, <2>1 DEF ShapeOf, InJob
  <2> QED
    BY <2>1, <2>2, TrimReason, DeleteExcludedEffects
<1>8. ASSUME NEW k, DeleteRow(w, k) PROVE Effects(w)'
  BY <1>1, <1>8, DeleteRowPuts, NoMoreTaken DEF InJob
<1>9. ASSUME NEW row, UpsertRow(w, row) PROVE Effects(w)'
  BY <1>1, <1>9, UpsertRowPuts, NoMoreTaken DEF InJob
<1>10. ASSUME NEW k, WaitForRow(w, k) PROVE Effects(w)'
  <2>1. /\ UNCHANGED <<list, cidr, batch, removed, written, to_delete, new_subnets, stage>>
        /\ stage[w] = "write"
    BY <1>10 DEF WaitForRow, tables, transactions
  <2> QED
    BY <1>1, <2>1, QuietPuts, NoMoreTaken DEF InJob
<1>11. CASE AddOwnRows(w)
  BY <1>1, <1>11, AddOwnRowsPuts, NoMoreTaken DEF InJob
<1>12. CASE Commit(w) \/ Ends(w)
  <2>1. DOMAIN written'[w] = {} /\ new_subnets'[w] = {}
    BY <1>12, AfterEnd
  <2>2. removed'[w] = {} /\ to_delete'[w] = {} /\ stage'[w] # "clean"
    BY <1>0, <1>12 DEF Commit, Ends, Rollback, Goto, writes, ShapeOf, TypeInv, TypeOK,
                       WorkerTypeOK, DatabaseTypeOK
  <2> QED
    BY <2>1, <2>2, NoEffects
<1>13. CASE ForeignKeyViolation(w) \/ DeadlockAbort(w)
  BY <1>12, <1>13 DEF ForeignKeyViolation, DeadlockAbort, Abort
<1> QED
  BY <1>2, <1>3, <1>4, <1>5, <1>6, <1>7, <1>8, <1>9, <1>10, <1>11, <1>12, <1>13 DEF Work

LEMMA EndsEffects ==
    ASSUME TypeInv, BatchInv, NEW w \in Workers, Ends(w)
    PROVE  Effects(w)' /\ Ordered(w)'
<1>1. DOMAIN written'[w] = {} /\ new_subnets'[w] = {}
  BY AfterEnd
<1>2. /\ removed'[w] = {} /\ to_delete'[w] = {} /\ stage'[w] = "dead"
      /\ batch'[w] = {} /\ todo'[w] = {}
  BY DEF Ends, Rollback, Goto, TypeInv, TypeOK, WorkerTypeOK, DatabaseTypeOK
<1> QED
  BY <1>1, <1>2, NoEffects, NoOrder DEF InJob

LEMMA RestartEffects ==
    ASSUME TypeInv, BatchInv, NEW w \in Workers, Restart(w)
    PROVE  Effects(w)' /\ Ordered(w)'
<1>1. /\ ShapeOf(w) /\ stage[w] = "dead" /\ stage'[w] = "idle"
      /\ UNCHANGED <<batch, removed, written, todo, to_delete, new_subnets>>
  BY DEF Restart, Goto, transactions, progress, writes, BatchInv, WorkerShape, TypeInv,
         TypeOK, WorkerTypeOK
<1> QED
  BY <1>1, NoEffects, NoOrder DEF ShapeOf, InJob

LEMMA BeginOrdered ==
    ASSUME InIdOrder, TypeInv, LockInv, BatchInv, NEW w \in Workers, Ordered(w), Begin(w)
    PROVE  Ordered(w)'
<1>1. PICK j \in Candidates(w) :
          /\ todo'[w] = todo[w] \ {j}
          /\ job'[w] = IF FirstQuery(j) = "next" THEN NoJob ELSE j
          /\ stage'[w] = FirstQuery(j)
          /\ adding'[w] = IF j.action = "add" THEN Parsed(j) ELSE {}
  BY DEF Begin, Goto, TypeInv, TypeOK, WorkerTypeOK
<1>2. /\ UNCHANGED <<list, cidr, batch, removed, written, to_delete, new_subnets>>
      /\ adding[w] = {}
  BY DEF Begin, tables, transactions, writes, BatchInv, WorkerShape, ShapeOf
<1>3. /\ j \in todo[w] /\ todo[w] \subseteq batch[w]
      /\ \A k \in todo[w] : j.id <= k.id
      /\ \A i \in batch[w] : i \in Job /\ i.id \in Nat
      /\ \A i, k \in batch[w] : i.id = k.id => i = k
  BY <1>1 DEF Candidates, LockInv, LocksExclusive, BatchInv, JobsDistinct, TypeInv, TypeOK,
              DatabaseTypeOK, Job
<1>4. DoneFirst(w)'
  <2>1. \A k \in todo'[w] : j.id < k.id
    BY <1>1, <1>3
  <2>2. \A i \in batch[w] \ todo[w] : i.id < j.id
    BY <1>3 DEF Ordered, DoneFirst
  <2>3. FirstQuery(j) \in InJob => job'[w] = j
    BY <1>1 DEF InJob
  <2> QED
    BY <1>1, <1>2, <1>3, <2>1, <2>2, <2>3 DEF Ordered, DoneFirst
<1>5. ASSUME NEW i \in batch[w] \ todo[w], i.action = "add", NEW a \in Cover(Parsed(i))
      PROVE  Added(w, i, a)'
  <2>1. Added(w, i, a) /\ a \notin Cover(adding[w])
    BY <1>2, <1>5 DEF Ordered, AddsThere, Cover
  <2>2. PutsAt(w, i.list, a)' <=> PutsAt(w, i.list, a)
    BY <1>2, QuietPuts DEF PutsAt
  <2> QED
    BY <1>2, <2>1, <2>2, SameKnowledge DEF Added
<1>6. ASSUME j.action = "add", NEW a \in Cover(Parsed(j))
      PROVE  Added(w, j, a)'
  <2>1. FirstQuery(j) # "next"
    BY <1>3, <1>6 DEF FirstQuery, Cover
  <2> QED
    BY <1>1, <1>6, <2>1 DEF Added
<1> QED
  BY <1>1, <1>2, <1>3, <1>4, <1>5, <1>6 DEF Ordered, AddsThere

\* An address filter_safe_cidrs leaves out is of a safelist.
LEMMA FilterAdds ==
    ASSUME TypeInv, BatchInv, NEW w \in Workers, SafeRowsAtHand(w), FilterSafeCidrs(w),
           NEW a \in Cover(adding[w]), a \notin Cover(adding'[w])
    PROVE  job[w].type = "DENY" /\ KnownSafe(w, job[w].user, a)
<1> DEFINE safe == EnabledLists(job[w].user, "SAFE")
<1>1. stage[w] = "filter" /\ job[w].type = "DENY" /\ adding[w] = Parsed(job[w])
  BY DEF FilterSafeCidrs, BatchInv, WorkerShape, ShapeOf
<1>2. a \in AddressesOf(View(w), safe)
  BY <1>1, FilterShape DEF BatchInv, WorkerShape
<1>3. PICK l \in safe : a \in AddressesOf(View(w), {l})
  BY <1>2 DEF AddressesOf, RowsOf, Cover
<1>4. l \in DOMAIN list /\ list[l].type = "SAFE" /\ list[l].user = job[w].user
  BY <1>3 DEF EnabledLists
<1> QED
  BY <1>1, <1>3, <1>4, ViewSafe

LEMMA ExcludedOrdered ==
    ASSUME TypeInv, NEW w \in Workers, NEW lists, DeleteExcluded(w, lists), Ordered(w),
           stage[w] \in InJob, to_delete[w] = {}, new_subnets[w] = {},
           \A j \in batch[w] \ todo[w], a \in exclusion[w] :
               j.action = "add" /\ j.list \in lists =>
                   Later(w, j, "delete", a) \/ (j.type = "DENY" /\ KnownSafe(w, j.user, a))
    PROVE  Ordered(w)'
<1>1. UNCHANGED <<list, cidr, batch, todo, job, adding>> /\ stage'[w] = "write"
  BY DeleteExcludedStep
<1>2. ASSUME NEW j \in batch[w] \ todo[w], NEW a, j.action = "add",
             PutsAt(w, j.list, a) \/ (job[w] = j /\ a \in Cover(adding[w]))
      PROVE  Added(w, j, a)'
  <2>1. CASE job[w] = j /\ a \in Cover(adding[w])
    BY <1>1, <2>1 DEF Added
  <2>2. CASE PutsAt(w, j.list, a)
    <3>1. PICK m \in DOMAIN written[w] : m[2] = j.list /\ a \in m[1]
      BY <2>2 DEF PutsAt, Puts
    <3>2. m \in DOMAIN View(w)
      BY <3>1 DEF View, Overlay
    <3>3. CASE m[2] \in lists /\ a \in exclusion[w]
      BY <1>1, <1>2, <3>1, <3>3, SameKnowledge DEF Added
    <3>4. CASE ~(m[2] \in lists /\ a \in exclusion[w])
      BY <3>1, <3>2, <3>4, ExcludedPuts DEF Added
    <3> QED
      BY <3>3, <3>4
  <2> QED
    BY <1>2, <2>1, <2>2
<1> QED
  BY <1>1, <1>2, AddsStay

LEMMA WorkOrdered ==
    ASSUME InIdOrder, TypeInv, LockInv, BatchInv, KnownJobs, NEW w \in Workers,
           Effects(w), Ordered(w), Work(w)
    PROVE  Ordered(w)'
<1>0. /\ ShapeOf(w) /\ stage \in [Workers -> Stage] /\ DOMAIN batch = Workers
      /\ DOMAIN todo = Workers /\ DOMAIN job = Workers /\ DOMAIN adding = Workers
  BY DEF BatchInv, WorkerShape, TypeInv, TypeOK, WorkerTypeOK, DatabaseTypeOK
<1>1. CASE Poll(w)
  BY <1>0, <1>1, NoOrder DEF Poll, Goto, InJob
<1>2. CASE Begin(w)
  BY <1>2, BeginOrdered
<1>3. CASE FilterSafeCidrs(w)
  <2>1. /\ UNCHANGED <<list, cidr, batch, removed, written, todo, job, to_delete, new_subnets>>
        /\ stage[w] = "filter"
    BY <1>3 DEF FilterSafeCidrs, tables, transactions, writes
  <2>2. ASSUME NEW j \in batch[w] \ todo[w], NEW a, j.action = "add",
               PutsAt(w, j.list, a) \/ (job[w] = j /\ a \in Cover(adding[w]))
        PROVE  Added(w, j, a)'
    <3>1. PutsAt(w, j.list, a)' <=> PutsAt(w, j.list, a)
      BY <2>1, QuietPuts DEF PutsAt
    <3>2. CASE job[w] = j /\ a \in Cover(adding[w]) /\ a \notin Cover(adding'[w])
      BY <1>3, <2>1, <3>2, FilterAdds, SameKnowledge DEF Effects, Added
    <3> QED
      BY <2>1, <2>2, <3>1, <3>2 DEF Added
  <2> QED
    BY <2>1, <2>2, AddsStay DEF InJob
\* Nothing changes of the rows, nor of what the job will add.
<1>4. ASSUME UNCHANGED <<list, cidr, batch, removed, written, todo, to_delete, new_subnets>>,
             stage'[w] \in InJob => stage[w] \in InJob /\ job'[w] = job[w],
             Cover(adding[w]) = {} \/ (job'[w] = job[w] /\ adding'[w] = adding[w])
      PROVE  Ordered(w)'
  <2>1. \A l, a : PutsAt(w, l, a)' <=> PutsAt(w, l, a)
    BY <1>4, QuietPuts DEF PutsAt
  <2> QED
    BY <1>4, <2>1, AddsStay DEF Added
<1>5. CASE ReadSafelist(w)
  BY <1>4, <1>5 DEF ReadSafelist, tables, transactions, writes, InJob
<1>6. CASE EndJob(w)
  BY <1>0, <1>4, <1>6 DEF EndJob, Goto, tables, transactions, writes, InJob, Cover
<1>7. ASSUME NEW k, WaitForRow(w, k) PROVE Ordered(w)'
  BY <1>4, <1>7 DEF WaitForRow, tables, transactions, progress
<1>8. CASE CleanDenylists(w)
  <2>1. stage[w] = "clean" /\ DeleteExcluded(w, EnabledLists(job[w].user, "DENY"))
    BY <1>8 DEF CleanDenylists
  <2>2. to_delete[w] = {} /\ new_subnets[w] = {}
    BY <1>0, <2>1 DEF ShapeOf
  <2>3. ASSUME NEW j \in batch[w] \ todo[w], NEW a \in exclusion[w],
               j.list \in EnabledLists(job[w].user, "DENY")
        PROVE  j.type = "DENY" /\ KnownSafe(w, j.user, a)
    <3>1. OfList(j.list, j.type, j.user)
      BY <2>3 DEF KnownJobs, LockInv, LocksExclusive
    <3>2. j.type = "DENY" /\ j.user = job[w].user
      BY <2>3, <3>1 DEF OfList, EnabledLists
    <3> QED
      BY <2>1, <3>2, CleanReason DEF Effects
  <2> QED
    BY <2>1, <2>2, <2>3, ExcludedOrdered DEF InJob
<1>9. CASE TrimList(w)
  <2>1. stage[w] = "trim" /\ DeleteExcluded(w, {job[w].list} \cap DOMAIN list)
    BY <1>9 DEF TrimList
  <2>2. to_delete[w] = {} /\ new_subnets[w] = {}
    BY <1>0, <2>1 DEF ShapeOf
  <2>3. ASSUME NEW j \in batch[w] \ todo[w], NEW a \in exclusion[w], j.action = "add",
               j.list = job[w].list
        PROVE  Later(w, j, "delete", a)
    <3>1. job[w] \in batch[w] /\ job[w].action = "delete" /\ a \in Cover(job[w].cidrs)
      BY <2>1, <2>3, TrimReason, JobKnown DEF InJob
    <3>2. j.id <= job[w].id
      BY <2>1, <2>3 DEF Ordered, DoneFirst, InJob
    <3>3. j.id # job[w].id /\ j.id \in Nat /\ job[w].id \in Nat
      BY <2>3, <3>1 DEF BatchInv, JobsDistinct, LockInv, LocksExclusive, TypeInv, TypeOK,
                        DatabaseTypeOK, Job
    <3> QED
      BY <2>3, <3>1, <3>2, <3>3 DEF Later
  <2> QED
    BY <2>1, <2>2, <2>3, ExcludedOrdered DEF InJob
\* Rows are put, and the job stays.
<1>10. ASSUME UNCHANGED <<list, cidr, batch, todo, job, adding>>,
              stage[w] = "write" /\ stage'[w] = "write", Puts(w) \subseteq Puts(w)'
       PROVE  Ordered(w)'
  <2>1. \A l, a : PutsAt(w, l, a) => PutsAt(w, l, a)'
    BY <1>10 DEF PutsAt
  <2> QED
    BY <1>10, <2>1, AddsStay DEF Added, InJob
<1>11. ASSUME NEW k, DeleteRow(w, k) PROVE Ordered(w)'
  BY <1>10, <1>11, DeleteRowPuts
<1>12. ASSUME NEW row, UpsertRow(w, row) PROVE Ordered(w)'
  BY <1>10, <1>12, UpsertRowPuts
<1>13. CASE AddOwnRows(w)
  <2>1. /\ Puts(w)' = Puts(w) \cup {<<n, job[w].list>> : n \in adding[w]}
        /\ UNCHANGED <<list, cidr, batch, todo, job>>
        /\ stage[w] = "write" /\ stage'[w] = "write"
    BY <1>13, AddOwnRowsPuts
  <2>2. ASSUME NEW a \in Cover(adding[w]) PROVE PutsAt(w, job[w].list, a)'
    <3>1. PICK n \in adding[w] : a \in n
      BY <2>2 DEF Cover
    <3>2. <<n, job[w].list>> \in Puts(w)'
      BY <2>1, <3>1
    <3> QED
      BY <2>1, <3>1, <3>2 DEF PutsAt
  <2>3. \A l, a : PutsAt(w, l, a) => PutsAt(w, l, a)'
    BY <2>1 DEF PutsAt
  <2> QED
    BY <2>1, <2>2, <2>3, AddsStay DEF Added, InJob
<1>14. CASE Commit(w)
  BY <1>0, <1>14, NoOrder DEF Commit, Goto, progress, InJob
<1>15. CASE ForeignKeyViolation(w) \/ DeadlockAbort(w)
  BY <1>15, EndsEffects DEF ForeignKeyViolation, DeadlockAbort, Abort
<1> QED
  BY <1>1, <1>2, <1>3, <1>5, <1>6, <1>7, <1>8, <1>9, <1>11, <1>12, <1>13, <1>14, <1>15
     DEF Work

-----------------------------------------------------------------------------
(* Every worker at every step.                                             *)

\* A step is one of the worker's own, or leaves its private state alone.
LEMMA EachWorker ==
    ASSUME TypeInv, [Next]_vars, NEW w \in Workers
    PROVE  Stays(w) \/ Work(w) \/ Ends(w) \/ Restart(w)
<1>1. ASSUME UNCHANGED <<transactions, workerVars>> PROVE Stays(w)
  BY <1>1 DEF Stays, transactions, workerVars, progress, writes
<1>2. CASE ApiNext
  BY <1>1, <1>2, ApiStepType DEF ApiNext, TypeInv
<1>3. ASSUME NEW v \in Workers, WorkerNext(v) PROVE Stays(w) \/ Work(w)
  BY <1>3, WorkStays DEF WorkerNext
<1>4. ASSUME NEW v \in Workers, WorkerRestart(v) PROVE Stays(w) \/ Restart(w)
  <2>1. v # w => Stays(w)
    BY <1>4 DEF WorkerRestart, Restart, Goto, transactions, progress, writes, Stays,
                TypeInv, TypeOK, WorkerTypeOK
  <2> QED
    BY <1>4, <2>1 DEF WorkerRestart
<1>5. ASSUME NEW v \in Workers, Ends(v) PROVE Stays(w) \/ Ends(w)
  BY <1>5, WorkStays
<1>6. ASSUME NEW v \in Workers, \/ WorkerFault(v) \/ ExpiryDeadlock(v) \/ DropDeadlock(v)
      PROVE  Stays(w) \/ Ends(w)
  BY <1>1, <1>5, <1>6 DEF WorkerFault, Crash, Abort, ExpiryDeadlock, ExpiryWins,
                          SchedulerDies, DropDeadlock
<1>7. CASE SchedulerNext \/ ClockNext \/ SchedulerFault \/ WebRestart \/ UNCHANGED vars
  BY <1>1, <1>7 DEF SchedulerNext, DeleteExpired, ClockNext, Tick, SchedulerFault,
                    SchedulerDies, WebRestart, ApiRestart, vars
<1> QED
  BY <1>2, <1>3, <1>4, <1>6, <1>7 DEF Next

\* Safelists keep their addresses, or no worker but one that commits has jobs.
SafelistsStep ==
    \A l \in DOMAIN list : list[l].type = "SAFE" =>
        \/ \A w \in Workers : batch[w] = {} \/ Commits(w)
        \/ AddressesOf(cidr, {l}) \subseteq AddressesOf(cidr', {l})

EffectInv == KnownLists /\ \A w \in Workers : Effects(w)

OrderInv == \A w \in Workers : Ordered(w)

LEMMA OthersStep ==
    ASSUME TypeInv, BatchInv, EffectInv, [Next]_vars, ListsKept, SafelistsStep,
           NEW w \in Workers, Stays(w)
    PROVE  Effects(w)' /\ (Ordered(w) => Ordered(w)')
<1>1. OfListsStay
  BY OfListStays
<1>2. CASE SafelistsKept
  BY <1>1, <1>2, StaysEffects, StaysOrdered DEF EffectInv
<1>3. CASE ~SafelistsKept
  <2>1. batch[w] = {} \/ Commits(w)
    BY <1>3 DEF SafelistsKept, SafelistsStep
  <2>2. ~Commits(w)
    BY DEF Commits, Stays
  <2> QED
    BY <2>1, <2>2, IdleEffects DEF EffectInv, BatchInv, WorkerShape
<1> QED
  BY <1>2, <1>3

LEMMA EffectStep ==
    ASSUME TypeInv, LockInv, BatchInv, EffectInv, [Next]_vars, ListsKept, SafelistsStep
    PROVE  EffectInv'
<1>1. KnownLists'
  BY KnownListsStep DEF EffectInv
<1>2. ASSUME NEW w \in Workers PROVE Effects(w)'
  BY EachWorker, OthersStep, WorkEffects, EndsEffects, RestartEffects
     DEF EffectInv, KnownLists
<1> QED
  BY <1>1, <1>2 DEF EffectInv

LEMMA OrderStep ==
    ASSUME InIdOrder, TypeInv, LockInv, BatchInv, EffectInv, OrderInv, [Next]_vars,
           ListsKept, SafelistsStep
    PROVE  OrderInv'
BY EachWorker, OthersStep, WorkOrdered, EndsEffects, RestartEffects
   DEF EffectInv, OrderInv, KnownLists

LEMMA EffectInit == Init => EffectInv /\ OrderInv
<1> SUFFICES ASSUME Init PROVE EffectInv /\ OrderInv
  OBVIOUS
<1>1. KnownLists
  BY DEF Init, ApiInit, KnownLists, KnownJobs, KnownRequests
<1>2. ASSUME NEW w \in Workers PROVE Effects(w) /\ Ordered(w)
  <2>1. /\ DOMAIN written[w] = {} /\ removed[w] = {} /\ batch[w] = {} /\ to_delete[w] = {}
        /\ new_subnets[w] = {} /\ todo[w] = {} /\ stage[w] = "idle"
    BY NoRowsTable DEF Init, WorkerInit
  <2>2. Puts(w) = {} /\ Takes(w) = {}
    BY <2>1 DEF Puts, Takes
  <2> QED
    BY <2>1, <2>2 DEF Effects, NoJobsNoRows, SafeRowsAtHand, CleansSafe, RowsKept, Ordered,
                      DoneFirst, AddsThere, InJob
<1> QED
  BY <1>1, <1>2 DEF EffectInv, OrderInv

\* The steps that leave everything alone keep lists and safelists.
LEMMA QuietKeeps ==
    ASSUME UNCHANGED vars
    PROVE  ListsKept /\ SafelistsStep
BY DEF vars, tables, ListsKept, SafelistsStep

LEMMA EffectInvariance == Spec /\ ListsStay /\ SafelistsLast => []EffectInv
<1>1. TypeInv /\ LockInv /\ BatchInv /\ EffectInv /\ [Next]_vars
      /\ [ListsKept]_vars /\ [SafelistsStep]_vars => EffectInv'
  BY EffectStep, QuietKeeps
<1>2. ListsStay => [][ListsKept]_vars
  BY DEF ListsStay, ListsKept
<1>3. SafelistsLast => [][SafelistsStep]_vars
  BY DEF SafelistsLast, SafelistsStep
<1> QED
  BY <1>1, <1>2, <1>3, EffectInit, TypeCorrect, LockInvariance, BatchInvariance, PTL DEF Spec

LEMMA OrderInvariance ==
    ASSUME InIdOrder
    PROVE  Spec /\ ListsStay /\ SafelistsLast => []OrderInv
<1>1. TypeInv /\ LockInv /\ BatchInv /\ EffectInv /\ OrderInv /\ [Next]_vars
      /\ [ListsKept]_vars /\ [SafelistsStep]_vars => OrderInv'
  BY OrderStep, QuietKeeps
<1>2. ListsStay => [][ListsKept]_vars
  BY DEF ListsStay, ListsKept
<1>3. SafelistsLast => [][SafelistsStep]_vars
  BY DEF SafelistsLast, SafelistsStep
<1> QED
  BY <1>1, <1>2, <1>3, EffectInit, EffectInvariance, TypeCorrect, LockInvariance,
     BatchInvariance, PTL DEF Spec

\* What is known of safelists at a commit.
LEMMA SafeAtCommit ==
    ASSUME NEW w, NEW user, NEW a, KnownSafe(w, user, a)
    PROVE  a \in SafeAddresses(w, user)
<1> DEFINE safe == {l \in DOMAIN list : list[l].user = user /\ list[l].type = "SAFE"}
<1>1. PICK s \in safe : a \in AtHand(w, s)
  BY DEF KnownSafe, OfList
<1>2. AddressesOf(cidr, {s}) \subseteq AddressesOf(cidr, safe)
  BY <1>1 DEF AddressesOf, RowsOf, Cover
<1> QED
  BY <1>1, <1>2 DEF AtHand, SafeAddresses

\* The rows a commit leaves are those its worker puts, and those it did not take.
LEMMA CommitPuts ==
    ASSUME TypeInv, BatchInv, NEW w \in Workers, Commit(w)
    PROVE  /\ \A k \in DOMAIN cidr \ Takes(w) : k \in DOMAIN cidr'
           /\ \A l, a : PutsAt(w, l, a) => a \in AddressesOf(cidr', {l})
<1>1. /\ cidr' = View(w) /\ to_delete[w] = {} /\ new_subnets[w] = {}
  BY DEF Commit, BatchInv, WorkerShape, ShapeOf
<1>2. DOMAIN cidr' = (DOMAIN cidr \ removed[w]) \cup DOMAIN written[w]
  BY <1>1, ViewTable DEF TypeInv, TypeOK
<1> QED
  BY <1>1, <1>2 DEF Puts, Takes, PutsAt, AddressesOf, RowsOf, Cover

\* A commit takes an address out of a list only when a job of its batch asked
\* for it: splitting rows, cleaning other lists, requests, expiry and the other
\* workers lose none, in any order of the jobs, while lists stay and safelists
\* last (delete_excluded_cidrs, worker.py, lines 155-213).
THEOREM NothingIsLost == Spec /\ ListsStay /\ SafelistsLast => NothingLostByCommit
<1>1. ASSUME TypeInv, BatchInv, EffectInv, [Next]_vars, NEW w \in Workers, Commits(w),
             NEW l \in DOMAIN list, NEW a \in AddressesOf(cidr, {l}),
             a \notin AddressesOf(cidr', {l})
      PROVE  AskedAway(w, l, a)
  <2>1. Commit(w)
    BY <1>1, CommitsIsCommit
  <2>2. PICK k \in DOMAIN cidr : k[2] = l /\ a \in k[1]
    BY <1>1 DEF AddressesOf, RowsOf, Cover
  <2>3. k \notin DOMAIN cidr'
    BY <1>1, <2>2 DEF AddressesOf, RowsOf, Cover
  <2>4. k \in Takes(w) /\ ~PutsAt(w, l, a)
    BY <1>1, <2>1, <2>3, CommitPuts
  <2>5. AskedFor(w, l, a)
    BY <1>1, <2>2, <2>4 DEF EffectInv, Effects, RowsKept
  <2> QED
    BY <1>1, <2>5, SafeAtCommit DEF AskedFor, AskedAway, OfList
<1>2. TypeInv /\ BatchInv /\ EffectInv /\ [Next]_vars =>
          \A w \in Workers : Commits(w) =>
              \A l \in DOMAIN list : \A a \in AddressesOf(cidr, {l}) :
                  a \in AddressesOf(cidr', {l}) \/ AskedAway(w, l, a)
  BY <1>1
<1> QED
  BY <1>2, EffectInvariance, TypeCorrect, BatchInvariance, PTL DEF Spec, NothingLostByCommit

\* When an ADD job is done each address it carries is in its list, whatever
\* other jobs of the batch, requests, expiry and the other workers did to the
\* rows meanwhile, unless a later job of the batch deletes it or a safelist of
\* the user keeps it out of a denylist; for workers that take their jobs in the
\* order of the ids, while lists stay and safelists last (add_cidrs, worker.py,
\* lines 216-267).
THEOREM AddedAddressesAreThere ==
    ASSUME InIdOrder
    PROVE  Spec /\ ListsStay /\ SafelistsLast => AddTakesEffect
<1>1. ASSUME TypeInv, BatchInv, OrderInv, [Next]_vars, NEW w \in Workers, Commits(w),
             NEW j \in batch[w], j.action = "add", NEW a \in Cover(Parsed(j))
      PROVE  \/ a \in AddressesOf(cidr', {j.list})
             \/ Later(w, j, "delete", a)
             \/ j.type = "DENY" /\ a \in SafeAddresses(w, j.user)
  <2>1. Commit(w)
    BY <1>1, CommitsIsCommit
  <2>2. todo[w] = {} /\ adding[w] = {}
    BY <1>1, <2>1 DEF Commit, BatchInv, WorkerShape, ShapeOf
  <2>3. Added(w, j, a) /\ a \notin Cover(adding[w])
    BY <1>1, <2>2 DEF OrderInv, Ordered, AddsThere, Cover
  <2> QED
    BY <1>1, <2>1, <2>3, CommitPuts, SafeAtCommit DEF Added
<1>2. TypeInv /\ BatchInv /\ OrderInv /\ [Next]_vars =>
          \A w \in Workers : Commits(w) =>
              \A j \in batch[w] : j.action = "add" =>
                  \A a \in Cover(Parsed(j)) :
                      \/ a \in AddressesOf(cidr', {j.list})
                      \/ Later(w, j, "delete", a)
                      \/ j.type = "DENY" /\ a \in SafeAddresses(w, j.user)
  BY <1>1
<1> QED
  BY <1>2, OrderInvariance, TypeCorrect, BatchInvariance, PTL DEF Spec, AddTakesEffect
=============================================================================
