# A TLA+ model of cidr-listings

cidr-listings keeps lists of networks (CIDRs) in PostgreSQL. Denylists hold
addresses to block; safelists hold addresses that must never be in an enabled
denylist of the same user. Requests do not change the lists' networks: they
queue jobs, which worker processes consume. This directory holds the model of
that system, what TLC checks of it and what TLAPS proves about it. Paths below
are those of the repository, with `app/` for `src/app/`.

## The system

| Component | State | Operations | Interacts through |
|---|---|---|---|
| Address arithmetic, `app/lib/iputils.py` | none | `exclude_address_raw`, `address_exclude_many` | called by the worker |
| Job worker, `app/lib/worker.py` | the batch in progress, the transaction | `add_cidrs`, `delete_cidrs`, `update_cleanup`, `_consume_loop` | tables `job_queue`, `cidr`, `list` |
| List and job handlers, `app/domain/lists/`, `app/domain/web/controllers.py` | the request in progress | create, update, delete a list; queue add and delete jobs; delete one row | the same tables |
| Expiry task, `app/lib/scheduled_tasks.py` | a thread of the web process | delete the expired rows | table `cidr` |
| Migrations, `app/lib/db/migrations.py` | table `_migrations`, the schema | check, create, run scripts, record the version | run by every start and by hand |
| Queries of networks, `app/domain/cidr/` | none | filter by list, type and tags; pages | read the tables |
| Authentication, `app/domain/auth/`, `app/lib/default_admin_user.py` | users; a cache in the process | log in, create a user, change a password | table `user_login` |
| Start and command line, `app/main.py`, `app/lib/cli.py` | where each start is | migrations, expiry task, default user; migrate, create-user, reset-password | the migrations, table `user_login` |
| Connections, settings, errors, templates | a pool; configuration | | |

What is hard about it:

- *Interleaving.* The web process, its expiry thread and any number of workers
  act on the same rows under READ COMMITTED; a worker reads rows, computes, and
  writes them back several statements later. Handlers read the list row and
  queue a job that carries what they read.
- *Order.* Jobs depend on each other; their order is that of a query.
- *Failure.* Any database error ends a worker's loop and rolls its batch back;
  the jobs return to the queue. The expiry thread ends in the same way.
  Migrations commit in several steps; several processes start at once. A delete
  of several rows and a worker may each hold what the other needs.
- *Staleness.* A job carries a list's type and state; a page starts where the one
  before ended, in a list that has changed.
- *Arithmetic.* Ranges with inclusive bounds are cut by others in any order.

What makes each component correct: the arithmetic is exact (nothing lost, nothing
left over); a batch does what its jobs say and nothing else, all or nothing; jobs
are neither lost nor done twice; safelists filter denylists; rows have lists;
expired rows go; the schema is that of the recorded version; requests are served
on a complete schema, and a start undoes no password; a row that stays is on
exactly one page.

## The modules

| Module | Models | State and actions |
|---|---|---|
| `AddressExclusion` | `iputils.py` on numbers | one call of `address_exclude_many`: `subnet_ranges` and the exclusions left; `Exclude` is one iteration, in any order, `Finish` the conversion and return |
| `Networks` | what the worker sees of it | networks as sets of addresses; `AddressExcludeMany` by its result |
| `Database` | the tables, the clock, each worker's transaction | `list`, `cidr`, `job_queue`; `batch`, `removed`, `written` are what a worker's open transaction has taken, deleted and upserted, and the rows it holds locked |
| `ListApi` | the handlers of both controllers | a one-statement handler is one action; one that reads the list first is `ReadList` and then `UpdateList`, `UpdateMissesList` or `QueueJob` |
| `CidrWorker` | `worker.py` | `stage` is the query a worker sends next; a batch is `Poll`, then per job `Begin`, its reads (`FilterSafeCidrs`, `ReadSafelist`, `CleanDenylists`, `TrimList`), its writes row by row (`DeleteRow`, `UpsertRow`, `WaitForRow`), `EndJob`, and at last `Commit`; failures are `ForeignKeyViolation`, `DeadlockAbort`, `Crash`, then `Restart` |
| `Scheduler` | the expiry task | `DeleteExpired`, `SchedulerDies`, `SchedulerStart` |
| `CidrListings` | the composition | every step is one of a component, with the others unchanged, but for the deadlocks of a delete with a worker (`ExpiryDeadlock`, `DropDeadlock`); `Spec`, `LoopSpec`, `RestartSpec` |
| `Queries` | `domain/cidr/services.py`, `controllers.py` | no state: what clients are answered, as expressions over the tables |
| `CidrProperties` | | the properties of the composition |
| `ListContents` | what one worker promises | the abstract specification: sets of addresses per list, jobs applied in order to a draft, which replaces them when the batch is done |
| `ContentsRefinement` | | the mapping from `CidrListings` to `ListContents`; `BatchesApplyJobs` |
| `Pages` | the pages of a list in `domain/cidr/services.py`, `domain/web/controllers.py` | `rows` with their ids, transactions that upsert and delete, and one reader: `OpenList`, `NextPage` |
| `Migrations` | `migrations.py` | `CheckTable`, `CreateTable`, `ReadVersion`, `RunScript`, `RecordVersion`, with the ways each fails, `Crash` and `Start` |
| `Startup` | `on_startup` of `main.py`, `default_admin_user.py`, user creation and passwords of `domain/auth` and `cli.py` | extends `Migrations`: `MigrationsEnd`, `CheckLogin`, `CreateUser`, `InsertUser`, `StopStart`, `StartAgain`; commands and requests are a check and a write, `CheckCommand`, `WriteCommand`, `StopCommand` |
| `MC...` | | instances for TLC |
| `AddressExclusionProofs`, `CidrStateProofs`, `CidrBatchProofs`, `ContentsRefinementProofs`, `BatchEffectsProofs`, `SafelistFilterProofs`, `StartupProofs`, `PagesProofs` | | the theorems, see "What is proved" |

Decisions a reader should know:

- A statement of the web process and of the expiry task commits by itself, so it
  is one action. Only the worker's transaction is seen half way: its writes are
  overlaid on the tables in what it reads (`View`) and replace them in `Commit`.
- A row a transaction has written is locked until its end. A statement that needs
  it waits; the worker first in line gets the freed row. Deleting a list, an
  expired row or a single row waits until all its rows are free and is then
  atomic. Deletes of several rows take their locks one by one, so they may cross a
  worker that holds some of the rows and comes to others: PostgreSQL then ends one
  of the two. `ExpiryDeadlock` and `DropDeadlock` are both outcomes at once. When
  the worker ends, the delete is done in the same step, unless it then waits for
  rows of yet another worker; when the delete of a list ends, nothing changes.
- `executemany` sends its rows in the order of a set or of a query without
  `ORDER BY`: the model takes any order. The jobs of a batch come in the order of
  their ids when `InIdOrder` is TRUE and in any order when it is FALSE: RETURNING
  promises only the second. `team` takes any order; `filter`, `expiry` and `contents`,
  whose properties depend on it, the order of the ids.
- The id of a job is drawn and its row committed in one step; a gap between the
  two, in which a later id becomes visible first, is left out.
- One IP version; unparsable input, which the code drops, is not in the model.
  `Special` stands for the networks `add_cidrs` never stores (`/0` and networks
  at 0.0.0.0), `NonGlobal` for those that are not globally routable.
- A ttl is an integer: the JSON handlers refuse one below 0 (`TtlAccepted`), the
  form does not, and 0 is no expiry.
- `list_type` of an UPDATE job is always SAFE by the way jobs are made, so the
  ValueError of `update_cleanup` has no action (`KnownJobs` of `BatchEffectsProofs`
  says so while lists stay).
- Tags, descriptions, timestamps of creation and responses are left out, and so
  are the statements that only feed a view, but for `Queries` and `Pages`.
- `Pages` has its own, smaller transactions, since the ids of rows matter there and
  their addresses do not. The id an upsert draws for a row that exists is lost: a
  gap, which no reader can tell. A batch that deletes a row and inserts it again
  gives it a new id, so it is another row. A reader that opens the list again is
  another reader.
- `Startup` leaves out the pool and the expiry task, which always start, and the
  hashing of passwords. `change_password` is answered by a web process and needs
  one; a user is never deleted by any of the code.
- `AddressExcludeMany` of `Networks` is the postcondition of `AddressExclusion`
  (`ResultExact`, and the fewest networks, `CollapseAddresses`); that the code meets
  it is proved for every width.
- Definitions whose comment says "a mutated form" stand for plausible mistakes.
  No action uses them; they show that a property notices the mistake.

## What TLC checks

All runs of `MCCidr` take two bits of addresses: four addresses, two networks of
two and the whole space, so that a network can be cut at its start, at its end,
in two or to nothing, and neighbours can be collapsed. A safelist and a denylist of
one user, in `filter` also a denylist of another user with the same row, which must
not be touched; the requests are those each question needs, repeated in any order.
`MaxJobs` bounds the jobs ever queued, `MaxFaults` the crashes and restarts of the
web process, `MaxTime` the clock.

| Run | Bounds | Shows |
|---|---|---|
| `address` (`MCAddressExclusion`) | 3 bits, up to 3 exclusions of any size | `RangesExact`, `RangesDisjoint`, `ResultExact`, and that the caller's test "one network equal to the original" is right (`UntouchedMeansNoOverlap`) |
| `filter` (`MCFilter`) | 1 worker, 1 request at a time, 3 jobs, 1 fault | safelists filter denylists; each batch adds, deletes and keeps what it should |
| `team` (`MCTeam`) | 2 workers, 2 jobs, 1 fault | transactions stay apart; every job is consumed as long as a worker lives, deadlocks and crashes included |
| `expiry` (`MCExpiry`) | 1 worker, 2 jobs, time 0..2, ttl -1, 0 and 1, 1 fault | expired rows go; what is left of a row expires when the row did; only ADD jobs bring addresses into a list; enabling a safelist makes the overlaps go away |
| `contents` (`MCContents`) | 1 worker, 2 jobs, a row that has expired, 1 fault; the denylist changes its type, or is deleted and created as a safelist, while jobs for it wait; the safelist is deleted while its form is submitted | the worker implements `ListContents` (`BatchesApplyJobs`); no row without its list; no stuck state |
| `migrations` (`MCStartup`) | 2 web processes and a migration by hand, 3 scripts, 1 stop, any number of starts, 1 command at once, 2 passwords | version and schema stay together, never go back and are completed; a process serves only when schema and default user are there; starts change no password, the user is created, later starts succeed |
| `pages` (`MCPages`) | 3 networks, 2 workers, pages of 2, 4 ids | a row is on no two pages; one that stays is skipped by none; the pages end |

Three jobs are an add to each list and the cleanup between them, the shortest
sequence in which the stale fields of a job, the cleanup and the split rows meet;
two are enough for the questions with two workers, which then hold one each; the
three rows of `team`'s denylist are split and locked by both, in any order, so that
each may wait for the other. One fault in every place shows the rollback and what the next batch makes of it. Three
time values let a row expire while a job that read it is in progress and after.
Pages of two over three rows give a full page, one that is not, and rows that come
and go above, between and below the cursor; two workers commit rows in another
order than that of their ids. Two processes that both know the default user, and
one command that may create it as well, are what the check and the insert race
against. Lists that are deleted are checked with one worker (`contents`); with any
number, that rows have lists is proved.

The conditions of the theorems hold in the runs that check the same properties: in
`filter` and `team` no list is deleted or changes its type (`ListsStay`), a safelist
loses addresses by the commits of the only worker or not at all (`SafelistsLast`),
and in `filter` no denylist is disabled (`DenylistsEnabled`).

Deadlock is checked in every run but `address`, whose program returns.

Fairness. `LoopSpec` assumes of each running worker that it goes on (its loop polls
again after each batch, and the database answers) and of the expiry thread that it
repeats its query. Nothing is assumed of requests, the clock, faults or restarts:
the liveness properties therefore say "or no worker lives" and "or the thread has
ended", and hold again after each restart, since `~>` is about every state. The
lock on an expired row is given back in the end because the jobs are bounded; in
PostgreSQL the delete queues for it. `RestartSpec` adds an operator who always
starts a dead worker again. compose.yaml has no such policy; only the `poison` run
uses it, where even that does not help. `LiveWorkersConsume` assumes that restarts
stop at some time: two workers that are started again for ever may end each other's
batches by turns, in one deadlock after the other. `StartupSpec` assumes that a start which is
not stopped goes on, and nothing of commands or new starts; `ScrollSpec` that the
reader goes on to scroll.

### The abstract specification

`ListContents` knows no rows, networks, locks or statements: per list a set of
addresses, jobs with the addresses they carry, and a draft on which one batch is
applied, job by job in the order of their ids. `Commit` replaces the contents by
the draft, `Abandon` drops it and keeps the jobs. Between the steps other requests
set lists, queue jobs and take addresses away, from the draft too where the worker
has not yet written.

The mapping (`ContentsRefinement`): the contents are the addresses of the committed
rows; the draft those of the rows there will be when the writes in progress are done
(`PlannedRows`), so a job is applied when its last query is answered and its
statements are stutters; `taken` is the batch. A cleanup is two steps in both,
since it reads the safelist and the denylists in two queries. What the refinement
adds to the properties of single commits is that the jobs of a batch see each
other's results, in order, and that rows split by one job and cut again by the next
come to the same addresses. The specification lets the worker fail with addresses
that go (`Vanish`), which a deadlock with a delete does. With two workers there is
no such draft: each plans from what it has read, which is the `skew` run.

### Where the code and its documents differ

These runs end with a counterexample; each assumes nothing but what the code
allows. The quotes are in PROJECT.json.

| Run | What happens |
|---|---|
| `race` | an ADD job for a safelist carries `list_enabled = false`, read before a concurrent enabling, and follows the cleanup |
| `skew` | two workers process an add to a denylist and one to a safelist, and neither sees the other's rows |
| `poison` | a job for a deleted list violates the foreign key and comes back for ever |
| `erase` | a row deleted by hand is upserted again by a cleaning that had read it |
| `none_version` | version 0 is read as no version, and the start fails with a wrong reason |

`SafelistsFilterDenylists` thus holds in `filter` because there one worker consumes
jobs in the order of their ids, one request is served at a time and the denylist
stays enabled; `race` and `skew` each drop one of these and break it. So does
`InIdOrder = FALSE`: a cleanup processed before the ADD job queued earlier, while
the safelist was disabled, finds nothing, and the ADD cleans nothing. And so does
a denylist that is disabled while a safelist grows: nothing filters it when it is
enabled, although "denylists get filtered automatically" (README.md, line 112).

Three more ways to break it, each found by TLC with a set of requests like those of
`race`, have no run, since they come to the same property. A partial update that
leaves `enabled` out writes the value it has read (`Merged`): when another request
has disabled the safelist since, and an address was added to it, the list is enabled
again and no cleanup is queued, neither request having read it disabled. A denylist
that is enabled and becomes a safelist is not cleaned up after, for it was enabled.
And an ADD job made for a safelist that is deleted and created again as a denylist
under the same id adds to the denylist without looking at the other safelists. The
first needs two requests at once (`OneClient`), the others lists that do not stay.

Two more, which take a single job and are certain, have no run. A network without
an expiry that is split into a subnet with a row of its own, with an expiry, leaves
that row with either, since the upserts of both come in no order; the row then
expires when one of the two did (`RemaindersKeepExpiry` takes both). And an added
network that is collapsed with its neighbour updates the row of the two, not its own,
so its old expiry stays although the docstring of `add_cidrs` says it is updated.

What `NoRowSkipped` says of rows is not true of addresses: the rows a split row
leaves have new ids, so an address that was in the list all along is on no page of a
reader who has passed those ids. No document promises otherwise.

## What is proved

The theorems hold for any set of lists, users, networks, workers, clients and
requests, any number of jobs, faults and starts, and any width of the addresses.
They assume the named assumptions of the modules (networks are nested or disjoint,
and the largest ones inside a set of addresses fill it; model values differ from the
data; the first lists and rows are tables), and the conditions their statements name:

- `OneWorker`, `OneClient`: one process consumes jobs; requests come one at a time.
- `InIdOrder`: the jobs of a batch come in the order of their ids.
- `NoHandDeletes`: no list and no single row is deleted by a request.
- `ListsStay`: no list is deleted or changes its type.
- `SafelistsLast`: addresses leave a safelist only while no worker has a batch, or
  when the only worker that has one commits it.
- `DenylistsEnabled`: every denylist is enabled.

| Module | Theorems | Under |
|---|---|---|
| `AddressExclusionProofs` | `TypeCorrectness`, `LoopKeepsExactRanges`, `LoopKeepsDisjointRanges`, `ExclusionIsExact`, `UntouchedTestIsExact` | |
| `CidrStateProofs` | `TypeCorrectness`, `WorkersStayApart`, `NoOrphanRows` | |
| `CidrBatchProofs` | `ExpiryIsKept`, `OnlyJobsAdd` | `OneWorker`, `NoHandDeletes` |
| `ContentsRefinementProofs` | `JobsAreAppliedInOrder`, `DeletedAddressesAreGone` | `OneWorker`, `InIdOrder` |
| `BatchEffectsProofs` | `NothingIsLost` | `ListsStay`, `SafelistsLast` |
| `BatchEffectsProofs` | `AddedAddressesAreThere` | the same, and `InIdOrder` |
| `SafelistFilterProofs` | `DenylistsAreFiltered` | `OneWorker`, `InIdOrder`, `OneClient`, `ListsStay`, `DenylistsEnabled`, and denylists that are filtered at the start |
| `StartupProofs` | `SchemaFollowsVersion`, `VersionGrows` of `Migrations`; `StartupTypes`, `StartupSchema`, `StartupVersionGrows`, `ServedWhenReady`, `PasswordsKept` of `Startup` | |
| `PagesProofs` | `PageTypes`, `RowsShownOnce`, `SteadyRowsShown` | |

*Address arithmetic.* One cut of a range by another is exact and its pieces are
disjoint (six cases), so the loop keeps exactly what the exclusions it has applied
leave. That this is also the result needs the two functions of the library.
`SummarizeAddressRange` is a recursive function: that it is one, and that the networks
it gives hold exactly the range, is shown from the last address back, with the set of
the lengths for which it is so. Collapsing keeps the addresses, since the largest
networks inside a set of addresses fill it. The worker's test for "nothing to exclude"
follows, for which the result has to be the fewest networks as well; and so
`Networks` may take `AddressExcludeMany` by its result.

*States.* `TypeOK` is not inductive: that an upsert is typed needs to know that a
worker in a stage has a job, which `TypeInv` adds. `LocksExclusive` and
`RowsHaveLists` are one inductive invariant, `LockInv`. A commit replaces `cidr` by
the worker's view of it; this keeps the other workers' deleted rows in place only
because no row is held twice, and a list stays under a worker's rows only because
its deletion waits for them.

*What a worker has at hand.* `BatchInv` says for each stage what the variables of
the code hold between two queries: rows to write only while it writes, the job in
progress in its batch and before the jobs left, the networks to add and to exclude
computed from that job; and that ids are distinct. All that follows rests on it.

*Expiry, and where addresses come from.* `ExpiryInv`: every address of a row that a
transaction has written, or is about to, is in a committed row with the same expiry,
or comes from an ADD job of the batch, or that expiry is over. Rows may expire under
the worker, which is why the last case is needed. With deletes by hand it fails
(`erase`), and so it does with two workers: a row that one worker's DELETE job takes
is upserted again by the other's cleaning that has read it before.

*The refinement.* `JobsAreAppliedInOrder` has a lemma for each query, statement,
request and failure: it is a step of `ListContents`, or changes nothing of it. The
invariant that makes this true is `Settled`: what is left of a row that a worker has
replaced, but not yet committed, is in rows of its own. Without it a request that
deletes the old row would take addresses out of the draft that no step of
`ListContents` takes. `DeletedAddressesAreGone` is then a fact about `ListContents`:
what a DELETE job that is done took away comes back to the draft with a later job
only (`DeletesLast`, with `InOrder`). For several workers it is false, since another
may add the same address between the read and the commit.

*What a batch does to the lists,* with any number of workers. There is no draft then,
so this is an invariant of rows, `EffectInv`: an address of a row that a worker has
deleted, or is about to, is in a row it puts in its place, or a job of its batch is a
reason (`RowsKept`). The reason a cleanup gives is an address of a safelist, so the
invariant also carries, from the read to the commit, that what a cleanup excludes and
what is written to a safelist are addresses that safelist has or gets (`CleansSafe`,
`SafeRowsAtHand`); for this the safelist has to stay and to keep its addresses
meanwhile, `ListsStay` and `SafelistsLast`. The other workers are no danger because
the rows are locked. `AddedAddressesAreThere` adds `OrderInv`: an ADD job that is done
left each address in a row, or a later DELETE job or a safelist has it. Both
invariants were checked by TLC with two workers before they were proved.

*The filter.* `DenylistsAreFiltered` is about `ListContents` and the handlers, through
the refinement. Addresses in a safelist and a denylist, in the tables (`HeldFiltered`)
or in the draft (`DraftFiltered`), have a cleanup that is not done; a job that does not
clean, made while its safelist was disabled, has a cleanup behind it once the list is
enabled (`AddsCleaned`), because requests find the list as it is (`Fresh`); and a
cleanup that has read its safelist takes all of it out or has another behind it
(`GatheredAll`). `race` shows what happens without `OneClient`, `skew` without
`OneWorker`, and the text after the table of those runs without `InIdOrder`,
without `DenylistsEnabled` and without `ListsStay`.

*Starts.* A process never comes to a script later than the next one, and only one at
a time is between a script and its version, since that script has been run and would
fail again (`RunnersInv`). A migration that came to its end found the last script
recorded, and the version never goes back, so a process past its migrations has the
schema (`DoneInv`, `StartInv`).

*Pages.* Whatever has been shown is at the cursor or above it, and the rows that have
stayed are still there (`PagesInv`).

Only model-checked: liveness, which is beyond the prover (`LiveWorkersConsume`,
`ExpiredRowsGo`, `FilterConverges`, `SchemaCompleted`, `DefaultUserCreated`,
`LaterStartsServe`, `WalkEnds`). Assumed of the Python library: that
`collapse_addresses` returns the largest networks, and `summarize_address_range` the
greedy ones.

## Not modelled, and why

The filter of the queries by tags, which narrows the lists as a list id does; the
views that only read (the lists with their counts, the information on a network).
Tokens, passwords' hashes and the cache of the middleware: cryptography, and a cache
of something the program never changes. The connection pool, settings, validation of
the requests' form, the API description, templates (but for the row that asks for
the next page) and static files: no state of their own, or pure input and output.
`exclude_address` and `address_exclude_many_2`: called by no code.

## Plan

Done, in this order: `AddressExclusion`; `Networks`, `Database`, `ListApi`,
`CidrWorker`, `Scheduler` and their composition; `Migrations`; `ListContents` and
the refinement; `Startup`; the deadlocks of deletes; `Queries` and `Pages`; the
proofs above, of every safety property the passing runs check.

Next:

1. Proofs with weaker conditions: `ExpiryIsKept` and `OnlyJobsAdd` exclude every
   delete by hand, where only those of rows a worker has read matter; the filter
   allows one request at a time, where several for different lists do no harm.
   `DeleteTakesEffect` and `OnlyAddJobsAdd` are false for several workers as they
   stand.
2. `collapse_addresses` as the library's algorithm, proved to give the networks that
   `CollapseAddresses` says.
3. Tags, in the lists and in the filter of the queries.
