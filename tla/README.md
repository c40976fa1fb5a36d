# MemKit: a verification project

MemKit (`src/`) is a memory service for a team: agents send it conversation
events, it extracts durable claims with citations, keeps them in Postgres, and
serves them back through a vector index it can rebuild.  These modules model the
parts of it where several processes act on the same rows, where a step can be
lost half-way, or where a derived copy has to follow its source.

## The system

One Postgres database is the source of truth.  Around it run

- the **API** (`api.py`, `routers/`): many requests, each on its own connection;
- **workers** (`worker.py`): a loop that recovers expired leases, drains the
  index outbox, and claims and runs one job at a time, with a heartbeat thread
  per job;
- **Qdrant** (external): the vector index, a derived copy;
- **the judge** (external): a paid model provider;
- the operator's command line (`cli.py`), hooks and adapters that only call the API.

They interact only through rows, row locks, advisory locks and leases; nothing
calls back.

| component | state | operations | what is hard | what makes it correct |
|---|---|---|---|---|
| jobs, job_runner, worker | `jobs`, `job_events` rows; per worker: its claim, the heartbeat's flag | create, claim, renew, cancel, defer, finish, count a call, recover | lease loss during a transaction, late results, cancellation against acceptance, crash between steps | one holder at a time has effect; settled is final; every job settles |
| budget (jobs, judge, consolidate) | `budget_reservations`, `judge_runs` | reserve, count, call, log and reconcile, release, recover | provider calls outside transactions, crash with money reserved, recovery during a call, month's end | what is spent and reserved stays within the ceiling; reservations are given back |
| outbox, vectors, maintenance | `index_outbox`, the Qdrant collections, the maintenance gate | enqueue, claim, deliver, reclaim, fail, reindex, swap, prune | late deliveries, reordered operations, crashes after the write and before the mark, a rebuild against writers | the index converges to the rows and never resurrects a deleted one |
| extract | `messages.processed`, `claim_token`, `claim_expires_at`, `memories` | claim a window, judge, apply operations, mark, release | two workers on a session, an obsolete worker's result, retries | every message is judged, and its operations are applied once |
| store | `memories`, `memory_revisions`, `memory_relations` | add, revise, supersede, archive, restore, review, delete | concurrent revisions, undo of a supersession | revisions are gapless; one current member per chain |
| privacy | receipts (manifest), `jobs`, every row of a user | accept, receipt, delete, clean up, replay | a crash between two stores, retries, restores | an accepted erasure completes and survives a restore |
| dream, consolidate, reextract | watermark in `jobs`, groups of `memories` | plan, judge, merge | budget and staleness between plan and merge | merges apply to the members that were judged |
| entities, principal, auth, users | `entities`, `memberships`, `api_keys`, `auth_sessions` | create, join, leave, resolve, sign in | scopes cached in a principal | no read outside the scopes held |
| retrieval, context, profiles, temporal, filters | none | search, assemble, parse | eligibility of stale candidates | results are current and permitted |
| operations | backup archives, `backup_artifacts` | back up, prune, drill | crash between file and row | the newest archives survive pruning |
| hooks, hermes adapter, SDK, web, eval | local cursors, caches | send events, render | redelivery | events are sent at least once |

## Modules

A module that models a component has one VARIABLE per column or per local
variable that matters, and one action per transaction: what a transaction reads
and writes under its row locks is one step, and a call to the judge or to Qdrant
lies between two steps, where everybody else may act.  Every module bounds its
repeatable faults by a constant (`MaxFaults`, in Capture `MaxMishaps`), so that a run without
faults is that constant away.

### Jobs (`JobQueue.tla`, `Jobs.tla`, `MCJobs.tla`, `Jobs_proofs.tla`)

The rows of `jobs`, the worker processes and their heartbeats (jobs.py,
job_runner.py, worker.py).

| state | in the code |
|---|---|
| `status`, `holder`, `lease`, `available`, `cancelRequested`, `accepted`, `calls`, `attempts` | the columns; `accepted` is `input.erasure.accepted` |
| `rowLock` | the transaction that has the row `FOR UPDATE` after `guard()` |
| `pc`, `task`, `token`, `lost`, `cleanupStarted`, `outcome`, `made` | a worker in `job_runner.run`/`_execute`: its claim, the event its heartbeat sets, the checkpoint it read when it claimed |
| `lastWriter` | history only |

`RecoverStale`, `Peek`, `Claim`/`ClaimRefused` and `Discard`/`Start` are the turns
of the worker's loop; `ConsumeCall`, `BeginWrite`, `CommitWrite`, `AbortWrite` the
fenced transactions of a handler; `Finish`, `Defer`, `SettleRefused` its end;
`BeatRefused`, `BeatFails`, `LeaseExpires`, `LeaseOverrun` the heartbeat and the clock.
A holder token is a uuid in the code and the number of the claim here, which is
as unique for one job.  A renewal that succeeds changes nothing that is not
already so, hence is no step.  Handlers are told apart as far as they treat the
queue differently: an extraction counts its calls and may be refused one, a
reindex waits for the index and may be cancelled, an erasure becomes irrevocable.
What an erasure does to other jobs is left out: it deletes those of its user
(privacy.py:415-416), so the statements of `Jobs` are about erasures and about the jobs of users
who are not being erased.

`JobQueue` is what those who queue jobs may rely on: it has neither workers nor leases nor
tokens, only jobs that are taken by one attempt after another, charged up to their limit,
written for by the latest attempt, given back, and settled once, as cancelled only if that
was asked for in time.  `Jobs` implements it (`QueueSpec`):

| `JobQueue` | `Jobs` |
|---|---|
| `status`, `attempts`, `calls`, `cancelRequested`, `accepted` | themselves |
| `writer` | `lastWriter` |
| `Irrevocable` | the jobs whose kind is an erasure |
| `Enter`, `RequestCancel`, `Take`, `Charge`, `Write` | `Create`, `RequestCancel`, `Claim`, `ConsumeCall`, `CommitWrite` |
| `GiveBack` of many jobs, of one | `RecoverStale`, `Defer` |
| `Settle` | `Finish` |
| no step | everything about leases, heartbeats, row locks and what a worker has in hand |

### Budget (`Budget.tla`, `MCBudget.tla`, `Budget_proofs.tla`)

Who reserves, calls, logs and gives back (jobs.reserve_budget, judge, consolidate,
rewrite).  `reserve_budget` is three statements of a READ COMMITTED transaction
under an advisory lock; `ReadSpend`, `ReadReserved` and `Reserve` are three steps,
because `Log` (judge.py:602-629) takes no such lock and may fall between them.
`lock[p]` is that lock for one month, `seen` what the statements so far have added
up, `mine` the reservation a caller holds.  `Recover` is `recover_stale`.  Money is
counted in worst cases of one call.  `stray` is history: the units logged where the
ceiling check could not see them.  As in `Jobs`, the rows are those of users who are not
being erased (privacy.py:410-417 deletes the others).

### IndexDelivery (`IndexMirror.tla`, `IndexDelivery.tla`, `MCIndexDelivery.tla`, `IndexDelivery_proofs.tla`)

The outbox, the processes that drain it (workers and requests alike), the
maintenance gate and the rebuild (outbox.py, reindex.py, vectors.py,
maintenance.py).  `ops[e]` are the rows of `index_outbox` for one entity in the
order of their ids, `revs[e]` the revisions of the row, `index[e]` the live point:
the revision it follows and what it shows.  `Claim`, `StartDelivering`, `Fence`,
`Apply`, `MarkDone`, `Fail` follow `drain` and `_deliver`; between `Fence` and
`MarkDone` the process holds the operation's row and the shared gate unless the
server ended its session (`LoseSession`).  `StartRebuild`, `Build`, `Validate`,
`Activate` follow `reindex`.  Every enqueue belongs to the transaction that writes
the row (`Add`, `Revise`, `SetStatus`, `Resend`).

`IndexMirror` is what a reader may rely on, whatever delivers: a point shows a
revision its row has had, and never goes back.  `IndexDelivery` implements it with
its own `revs` and `index` (`MirrorSpec`).

### ExtractionWindow (`ExtractionWindow.tla`, `MCExtractionWindow.tla`, `Evidence_proofs.tla`)

One session: `sent` messages, the `claim` and `processed` columns, the jobs of the
session, the workers and what each has in its window (extract.py, job_runner.py,
routers/evidence.py).  `PostBatch`, `PostMessage` and `CloseSession` store first and
queue in a second transaction (`QueueRequested`, or `RequestDies` in between).
`ClaimWindow`, `Decline`, `CallJudge`, `JudgeFails`, `Commit`, `WindowLost`, `MeetGate`
follow one window of `extract.run`; `Continue` and `Settle` the end of the job.  Job
ids are used again once settled, so an endless chain of continuations is a cycle of
a finite model.  `Recover` frees every claim of a job, as `recover_stale` does.

### MemoryLifecycle (`MemoryLifecycle.tla`, `MCMemoryLifecycle.tla`, `MemoryLifecycle_proofs.tla`)

The memories of one scope under all their writers (store.py, extract.py,
consolidate.py, dream.py, routers/memory.py).  `db.revs[m]` is the sequence of the
row's revisions, whose last is the row, and `db.edges` the `updates` relations.  The
functions of store.py that run inside other transactions are operators from one
database to the next (`Write`, `Add`, `SetStatus`, `Restored`, `Superseded`,
`Withdrawn`), and every action commits a composition of them: `Save`, `Patch`,
`Delete`, `Restore`, `Review` for people; `ExtractUpdate`, `ExtractDelete`,
`ExtractSupersede`, `Dream`, `Consolidate`, `Merge` for what reads first (`ReadRow`,
`ReadGroup`), asks the judge, and writes later.  `plan[p]` is what such a process has
read, with the revisions.  A rewrite may set the end of a memory's validity to any date; that
a new memory is not said in the future and has not ended yet bounds the inputs (`Save`,
`ExtractUpdate`, `ExtractSupersede`), the code compares no dates there.

### Erasure (`Erasure.tla`, `MCErasure.tla`, `Erasure_proofs.tla`)

One user, and the four stores that have to forget them: the database, the receipts
beside the archives, the vector index, the exported files (privacy.py, operations.py,
the managed restore of cli/server_worker.py).

| state | in the code |
|---|---|
| `db` | what an archive contains: the user's row and rows, shared memories they wrote, undelivered index work, the erase jobs with their checkpoint (`input.erasure`) |
| `receipt` | the file of the manifest; outside every database |
| `archive` | the archive an operator would restore: a `db` of an earlier moment |
| `index`, `files` | whether the index has points of the user; finished exports |
| `gate`, `exporter` | the maintenance gate, held alone by an erasure or shared by an export |
| `worker` | how far `erase_user` has come, and the exports it found |
| `mode` | the durable marker of a restore and its stages |

`Prepare`, `Accept`, `WriteReceipt`, `EraseRows`, `Clean` are the five parts of `erase_user`
in their order, each one transaction or one write outside; each has a failure beside it
(`PrepareFails`, `ReceiptFails`, `EraseFails`, `CleanFails`) with what the job runner makes of
that failure: a retry or the end.  `Holds` is `jobs.require_current`.  `Dump` takes a snapshot
at any moment, `BeginRestore`, `Switch`, `DiscardDerived`, `Rebuild`, `Reopen` are the restore;
`Switch` replays the receipts over the candidate database before the names change.  A
worker's lease is as in `Jobs`, reduced to who holds the row.

### Capture (`Capture.tla`, `MCCapture.tla`, `Evidence_proofs.tla`)

From the transcript on a user's machine to `messages` (integrations/claude-code/hooks/memkit_hooks.py,
routers/evidence.py, store.py).  `transcript` is a sequence of units, a line being some
`"part"`s and a last unit that says whether it classifies as a turn.  `Delta` is
`events_from_delta` with its limits on bytes and events and its rule for a cursor inside a
line: `Again` is the loop's condition, `Readline` what one turn of it makes of what has been
collected, and `Turns` what the loop has after so many turns.  `Start`, `Read`, `Post`, `MoveCursor`, `Close` the steps of `capture`.  Between `Read` and `Post`
the transcript grows and other hooks move the cursor; a hook that `Dies` leaves its request
behind, which is answered later (`LateAnswer`).  `Answers` and `Insert` are the service:
permission, the scope a session was created with, the look-up by external id before
the insert (`seen`) and the unique index behind it.  `rows` are the messages stored, `missed` is
history.

A request that names no scope is for the session's scope; for a session nobody has stored
anything for it is `Home` that decides, as `principal.scope_for_workspace` does: the scope the
workspace is an alias of, if the user may write it, and otherwise the user's own.  The constant
`Aliased` says whether the workspace, which the hook always sends, is an alias of the
repository's scope.  A batch keeps what was `seen` of the rows and whether its user was
`allowed` when it was sent; the service authenticates the request then or later (`Answer`) and
checks the membership once more under a lock.  A batch that is refused for its scope is sent a
second time without one, at pc `"resend"`, whether or not the first named a scope.  `"refused"`
is any other refusal (maintenance, a batch that can never be stored): the hook fails.
`explicit` never changes in a behaviour: a `.memkit.toml` that becomes unreadable
(memkit_hooks.py:204-209), which makes a later hook look the repository up by its name, is left out,
and so is a workspace that is an alias of a third scope.

Messages go from here to `ExtractionWindow`; the proofs about both are in one
module, `Evidence_proofs`, which is why a definition of Capture that would otherwise be named
like one of ExtractionWindow has Capture in its name.

### Dreaming (`Dreaming.tla`, `MCDreaming.tla`, `Dreaming_proofs.tla`)

Which memories a dream reads, which it marks, and that two do not infer the same
(dream.py).  `changed[m]` is `updated_at`; `Change` takes the time and `Commit` makes it visible,
so commits come in any order.  `Queue` is `dream.queue` under the lock of the scope; `Look`
reads the list behind the last watermark and chooses the seeds of clusters; `Ask`, `AskFails`,
`AskRefused` are the calls, `ApplyBegins` and `ApplyCommits` the fenced transaction of `_apply`, whose
check for an inference already stated precedes the commit.  `mark` is the watermark that
`Finish` leaves.  `looked` and `unseen` are history.

### Access (`Access.tla`, `MCAccess.tla`, `Access_proofs.tla`)

Users, memberships and archived scopes, the requests that change them, and the writers
whose permission rests on them (store.require_scope_write, job_runner, extract, entities.py,
users.py, principal.py, routers/identity.py).  A writer of a session, an extraction or a
consolidation takes `FOR SHARE` locks in two statements (`LockScope`, `LockMembership`), for one
scope after another, keeps them in `shares` and gives them back when it commits; an
administrator's consolidation locks the user's row only (`LockActor`).  A direct edit takes
none.  A request that changes permissions reads whether it may (`Ask`) before its
transaction (`PatchUser`, `SetMember`, `ArchiveEntity`), which waits for shared locks.

### How they meet

The modules meet in shared rows, each seen from one side: the lease that `Jobs`
guards is the `holder` of `ExtractionWindow`, `Erasure` and `Dreaming` and the `owner` of `Budget`;
the revisions of `MemoryLifecycle` are the `revs` of `IndexDelivery`, and its `Dream` is what
`Dreaming` applies; the messages that `Capture` stores are the `sent` of `ExtractionWindow`; the
gate of `IndexDelivery` and of `Erasure` is the same.  Checking one inside another
would multiply their states without adding a step that the interface (a recovery
may come at any time; a row may be written at any time) does not already allow.

## Runs

| run | bounds | shows |
|---|---|---|
| `jobs_safety` | 2 workers, an extraction and an erasure, 1 call, 2 faults | obsolete workers have no effect, an accepted erasure is not cancelled, and the whole implements `JobQueue` |
| `jobs_liveness` | 1 worker, a reindex and an erasure, 2 faults | every queued job settles, a cancellation is honoured |
| `budget` | 2 callers, 2 reservations, ceiling 1, 2 months, 2 faults | every overshoot is accounted for, calls are covered, reservations settle |
| `budget_ceiling` | the same without faults, one month | **violation**: the ceiling is exceeded |
| `index_safety` | 1 memory, 2 scopes, 3 revisions, 3 operations, 2 processes, 2 faults, 1 rebuild | the index converges and never goes back, and so implements `IndexMirror` |
| `index_liveness` | a memory and a message sent twice, batches of 2, 1 fault and 1 lost session | every operation is delivered or given up |
| `extraction_safety` | 2 messages, 2 workers, windows of 2, 2 requests, 2 faults | applied once, never in two hands, no full window waits |
| `memory_safety` | 3 memories, 5 revisions, 2 dates, 2 processes | chains end, nothing is lost, a restore undoes |
| `erasure` | 2 erase jobs of one user, 2 workers, 1 export, 1 fault, an archive at any moment and 1 restore | a completed erasure stays complete, a receipt precedes every erased row, the team's record is kept |
| `capture` | 2 hooks, an aliased workspace, transcripts of 3 units, pieces of 2 units or 1 event, 1 change of membership, 1 fault | nothing before the cursor is missing, a closed session is complete, a configured scope is never replaced, only an unfinished line is waited for |
| `dreaming` | 3 memories, 2 transactions, 2 dreams, 2 workers, 2 clusters, 1 inference, 1 fault | nothing is marked as dreamed that was not looked at, an inference is stated once |
| `access` | 2 users, a shared scope beside their own, 1 writer of any kind, 2 changes | no delayed write is committed after its permission was withdrawn |

Why the bounds suffice.  A race needs two actors; two workers, callers or processes
with identical code are what any of these steps can tell apart, and the theorems
below lift the bound where they exist.  Two jobs let a worker go on to another job
while it still believes in the first.  Two revisions of one row in flight and a third
operation behind them show every reordering of two deliveries and what a later one
sees.  A window of two messages is the smallest that can be half full.  Three memories
make a circle of two with a bystander and a merge of two into a third.  One fault shows
each fault alone; two show a fault during the recovery from another.
Two erase jobs of one user show an accepted erasure overtaken by another, one restore an
archive from before, during and after each.  A transcript of three units is the shortest with a line too
long for a piece of two and a turn behind it.  The workspace is an alias of the
repository's scope, so a request without a scope is for either, as the membership is; the
theorems hold for one that is no alias as well.  Two clusters of three memories leave one that
does not fit.  One writer and two changes show any withdrawal between any two of its
statements; writers do not exclude one another.
Deadlock is not checked: a system with bounded requests, revisions and faults comes to
rest.

### Fairness

- **Jobs**: the worker's loop never ends, so each of its steps is weakly fair.  A
  handler's conclusion is not enabled while one of its transactions is open and it
  opens finitely many, so the conclusion is strongly fair.  Clocks run, outages end.
  Requests, errors and faults are not fair.  One worker: with two, recovery by either
  is enough, and the safety run has both.
- **Budget**: each step of a caller is weakly fair; `ReadSpend` is strongly fair, since
  Postgres queues for an advisory lock and grants it in turn.  With weak fairness a
  caller could be overtaken at the lock for ever.
- **IndexDelivery**: every process goes on (a request to the index has a time limit)
  and abandoned leases expire.
- ExtractionWindow, MemoryLifecycle, Erasure, Capture, Dreaming and Access state safety only:
  an erasure or a dream is retried by `Jobs`, whose liveness run has one, and a hook runs again
  only when the agent produces another event, which nothing guarantees.

## Theorems

All are proved for every value of the constants that the named assumptions of the
modules allow: sets of processes, jobs or users need not be finite, bounds are naturals.
Two sets are assumed finite, as tables are: the reservations of `Budget`, which are
counted, and the memories of `Dreaming`, as the first of its seeds and the last of its
watermarks are extremes of sets of versions.  Every safety property
that a passing run checks has a theorem, the two refinements included.

The proofs have one shape.  What must hold is seldom kept by a step for its own reasons,
so beside its properties each module states the invariants they rest on, which TLC
checked at the bounds of the runs before they were proved (MemoryLifecycle has its own,
`Named`, in the proofs).  `TypeOK` comes
first.  Then a lemma per group of actions says what those steps leave alone, and a lemma
per action that its own step keeps the invariant.

**Jobs.**  `ClaimInv` is inductive: a running row names its latest claim, a worker's
token is a claim that was made, an open transaction belongs to the claim the row
names.  `WriterKeepsClaim` and `OneCurrentRunner` are conjuncts of it.  They alone are not
inductive: that a claim cannot repeat a token needs `token <= attempts`.
`AcceptanceInv` adds what a holder knows of the erasure it runs, and implies that an
accepted one is not cancelled; `CancellationInv` says that whoever is about to settle a job
as cancelled has seen that it was asked for.

`ImplementsQueue` is the refinement of `JobQueue`: every step is one of the queue or leaves
its variables alone.  The three invariants are what it takes: a committer is `writing`, so it
has the row lock, so the row is running and the claim is its latest (`ClaimInv`), which makes
`CommitWrite` a `Write`; whoever settles a job as cancelled was asked to and has not seen it
accepted (`CancellationInv`, `AcceptanceInv`), which makes `Finish` a `Settle`.
`WritesFenced`, `SettledFinal` and `QueueKeepsWord` are then proved of the queue alone, whose
steps are seven, and hold of `Jobs` because it implements it.  `RunningIsItsHolders` speaks of leases and
tokens, which the queue does not have, and is proved of `Jobs` directly.

**Budget.**  `ReserverInv` says what is known between the statements of a reservation:
the lock is the reserver's, and what it has seen of the month's sums, plus the stray
units, is at least what they are now.  `OvershootIsStray` is its last conjunct and follows at
`Reserve`.  `CoverInv` ties a caller's reservation to the job it owns: recovery releases
only the reservations of jobs it takes away.  Sums are cardinalities of finite sets
of reservations; the lemmas `HeldShrinks` and `HeldUnchanged` are what the steps need.

**IndexDelivery.**  `Gated` says that whoever has the gate rebuilds and nobody delivers
meanwhile, and that a generation is a picture of the rows as they still are:
`ActivatedIsCurrent` follows, however many sessions are lost.  `Queued` says that the operations
of a row are begun in their order, that the last one is of the row's last revision, and
that a delivery has its operation claimed; so one process at a time delivers for a row.
`Followed` is about the points: a point shows a revision its row has had, what a process has
read of a row is no older than the point it will overwrite, and once the last operation is
done the point follows the last revision.  `Mirrored` is not inductive without the clause on
what was read between `Fence` and `Apply`.

Of these `Followed`, and with it `DoneIsShown` and `ImplementsMirror`, rests on `NobodyLost`: no
process has lost its database session without knowing it.  That is not an assumption
for convenience.  With a lost session the code can write an old point (see below), and both
properties are false.  So they are theorems about the behaviours in which it does not
happen, and `MirroredWithoutLoss` is the case that excludes it by a constant, as `index_safety`
does.  `ImplementsMirror` is the refinement: an initial state is one of `IndexMirror`, and each step
is a step of it (a writer adds a revision; a delivery or a rebuild lets points catch up,
lemmas `WriterMirrored` and `PointsCatchUp`) or leaves `revs` and `index` as they were.

**ExtractionWindow.**  `OperationsApplyOnce` needs the type invariant and that only `Commit` applies: it
takes its window from what is not processed and marks it in the same step.
`WorkIsNotDuplicated` rests on two invariants about claims: one in a worker's name is on a
message it has in hand and of the job it runs (`Owned`), and a worker that was in time still
has every claim of its window (`Intact`).  `FullWindowsAreTaken` rests on `Attended`: as long as no job
failed, was cancelled or deferred, every worker holds its job, no claim is left behind, and a
full window is owed to by a request, a queued job, or a worker that goes on to another
window or queues a successor.  The hard steps are the ends of a job: a worker that drained fewer
than its share, or declined a half window, has seen that less than a window was left unclaimed,
and whatever others had claimed, they go on with.

**Capture.**  What a hook posts is what a loop has collected, so the proof has two levels.
`LoopInv` is the invariant of the loop of `events_from_delta`: what was consumed lies between the
cursor and the end of what was read, every turn in between that a piece can hold was
collected, and the loop stands at the beginning of a line or inside one that it
discards.  The turns of the loop are a recursive function, and an induction over them is made
without the induction theorems: of the turns at which the function would not exist, or the
invariant would fail, there is a first one (`LeastElement`), and the turn before it leads to
a contradiction.  `TurnsExist`, `TurnsUnfold`, `DeltaInv` and `TurnsGrow` are
these inductions.

Above the loop, `Delivery` is inductive: what a hook has passed and not stored is in its
request, wherever it stands, and every position that a cursor or a hook has reached is the end
of a line or at least a whole piece into one (`AtCut`).  `NothingSkipped` alone is not inductive, for
a cursor inside a short line would make the next piece discard a turn that the service has
not got; `AtCut` says that a line with a cursor inside is too long already, and `PositionKept`
that it stays so while the transcript grows.  `ClosedIsComplete` follows from `Delivery` at `Close`,
`OnlyTailsWait` from `AtCut` and the loop's first turn.  `Destination` says that under a
configured scope nothing else is on its way, and implies `ExplicitStaysPut`.

**MemoryLifecycle.**  Each theorem speaks of the whole database, and a transaction is a
composition of functions, so the proof goes function by function.  `Good(d, e)` says
that e is well formed, continues the revisions of d, and, where d has them, keeps that
rewrites had read (`ReadBefore`), that replacements do not run in a circle (`NoCircle`)
and that whatever is superseded names its replacement (`Named`); that whatever ceased to be
active by supersession was handed over; and that what was superseded and is active again was
restored, or still names its replacement (`Revived`).  Every function has a
lemma that its result is `Good` of its argument, `Writes` collects them into one statement
about a step, and the five theorems follow.  `CircleFree` is the heart: the memories that a
function newly supersedes all get the same replacement, which is itself not superseded, so
a circle after it could only consist of memories superseded before.  `RestoreGivesBack` needs
`Named`, for a review that confirms a superseded memory makes it active as well, and
`LastKept`: the last revision in use is the last that is not superseded.

**Erasure.**  `ErasureInv` has four parts: nothing goes or is reported without a receipt
(`Recorded`); gate and restore exclude the others, so what an erasure found before it was accepted
is still so when the rows go (`Excluded`); a database or archive that knows no user has nothing
left of one (`Bereft`); what was reported was cleaned, and is cleaned again before a restored
service reopens (`Cleaned`).  They hold one another up: `GoneForGood` after a restore needs that the
archive was taken either before the rows went, so that the receipt replays the erasure, or
after, so that it has nothing.  `RecordKept` is an action property that follows from `Excluded`.

**Dreaming.**  `InferredInv` says that one dream is pending and what its transaction read of the
inferences holds until it commits.  `MarksInv` says that no watermark lies in the future, that a
change which can still land before one was open when a list was read, and that every live
version up to a watermark was finished with or is still a seed to ask about.  A call that fails
moves the watermark back before the first seed it gave up, which is where the order on versions
and the existence of a first one come in.

**Access.**  `AccessInv`: a writer that waits for its next lock or has all of them holds a share of
each row that what it was granted rests on, and those rows say what they said.  A change of
permissions takes the rows exclusively, so it cannot come between.

Not proved, and left to TLC at the bounds above, are `EveryJobSettles`,
`QueuedCancellationHonoured`, `JobReservationsSettle` and `EveryOperationConcludes`: liveness
under fairness is beyond the prover.

## Where the code and its documentation disagree

The run `budget_ceiling` ends in a violation: a call logged between the two reads of a
reservation is counted by neither, and the ceiling is exceeded (jobs.py:372 against
docs/04-judge.md:7).  `OvershootIsStray` says in the run `budget` what else there is, as long as no
user is erased: only costs that were logged where the check could not see them, for such a call,
for one whose reservation was released by a recovery, or for one reserved in another month.

Seen while modelling, and not stated as a run:

*Jobs and spending*

- A crash after the last call was counted fails the job instead of resuming it
  (jobs.py:316 against docs/01-architecture.md:22): the call is charged before the
  provider is asked, and recovery does not give it back.
- `recover_stale` gives back only reservations that name a job (jobs.py:459-464); those
  of merges, query rewrites and planned deletions, made for no job, stay active to the end of the
  month after a crash (README.md:126).  `JobReservationsSettle` is restricted accordingly.
- An erasure deletes the judge runs and the reservations of its user (privacy.py:410-417), so
  what they spent this month no longer counts against the ceiling, which is the instance's
  (docs/04-judge.md:7).

*Evidence and extraction*

- A job that declined a half window queues a continuation for messages another job
  holds, without a pause (job_runner.py:178 against tests/test_extraction_pipeline.py:296).
- A job deferred by the maintenance gate keeps its message leases and finds nothing
  to do when it is retried (jobs.py:248 against docs/01-architecture.md:28).
- A close whose last messages are leased by a batch job claims nothing and completes;
  the batch job then declines its short window.  The tail waits for the next event
  (README.md:17).
- After a failed look-up of the scopes, or a fallback on a 403, the first batch makes the
  session private unless its workspace is an alias of a scope the user may write by then
  (evidence.py:116-124, principal.py:109-130); later batches that name the scope are refused with 422
  (store.py:151-152), on which the hook does not fall back (memkit_hooks.py:485-494).  Nothing
  more of the session is captured as long as the scope is found.

*Memories*

- A superseded memory that is confirmed, or deleted and then restored, is active and
  still listed as replaced (store.py:851 against its own comment).
- Extraction supersedes a target it read without a lock and without expecting a
  revision: one that was deleted in between becomes superseded history, although
  `history_of` says that what somebody deleted stays deleted (store.py:1076-1085).
- `PATCH` may move one end of an `updates` edge to another scope, and a rewrite may move
  a date back, so these edges need not stay within a scope or run forward in time.
  Reads check scopes and bound the depth.

*The index*

- A process whose session the server ended between the fence and the request, and whose
  lease expired meanwhile, can write a point after a deletion was delivered
  (outbox.py:223-247).  `index_safety` therefore has `MaxLost = 0`, and only
  `index_liveness` loses sessions.

*Erasure and archives*

- An accepted erasure can end as failed: a retry that finds a shared memory of the user, or
  a row that violates a foreign key, is not retried (privacy.py:676-681, 736-740 against
  docs/01-architecture.md:34).  Its receipt stays, so a later restore erases the user
  nevertheless.
- The temporary file of an export that was killed is listed by nothing and removed by
  nothing (privacy.py:272-290); `files` are the finished ones.
- Pruning unlinks archives inside the transaction that removes their rows: a failure
  afterwards leaves rows of archives that are gone (operations.py:214).

*Dreams*

- A dream's watermark is the largest `updated_at` it saw; a transaction that took its
  time earlier and commits later lies behind it (dream.py:133).  `NothingMarkedUnseen`
  excepts these memories.
- `dream.queue` answers with a dream that is running and has already read its list
  (dream.py:526): what changed since waits for the next.
- Two related memories that are both new and not yet indexed are each without a neighbour, so
  they are passed over together.
- A dream started from the command line has no job, so nothing keeps it from
  running beside another.

*Access*

- The last-administrator check (routers/identity.py:302-311) is read outside the transaction
  that demotes, and takes no lock: in `Access` two administrators who demote each other at once
  leave none.
- A direct edit of a memory goes by the permissions its request arrived with;
  `DelayedWritesArePermitted` excepts it.
- An administrator who is not a member of a private scope does not see it and so cannot
  manage its members (routers/identity.py:341-350).

*Others*

- An instance-wide policy has a NULL scope, which the unique index does not compare
  (db.py:402), so writing a version twice is not refused (policies.py:32).
- The Hermes adapter names a message by the hash of its words: saying the same thing
  twice in one session stores it once.  A session with one failed post is never closed.

## Not modelled

`components` in `PROJECT.json` lists every part with the reason.  In short: retrieval,
context assembly and profiles only read; filters and dates are pure functions; sign-in is
cryptography and single statements; providers, prompts and embeddings are external, their answers
arbitrary where they matter; the clients (dashboard, SDKs, evaluation) hold no state others
depend on; importers run alone.  Within the modelled parts: retention and drills of archives,
wording and provenance of memories, redaction, aliases and names of scopes, migrations.

Most lines of the repository are of these kinds (schemas and generated clients, the
dashboard, prompts, tests of retrieval quality), so the lines that `map` names are a small share
of all while being most of the code in which several actors meet.

## Plan

The algorithms are left: the three compilations of a filter, which have to agree, periods
and dates, and the retention of archives.  They are pure functions, to be checked against
reference definitions over bounded inputs.  With them the parts named above as partly
modelled could be completed: aliases and names of scopes, the provenance of memories, retention.
