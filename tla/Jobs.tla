-------------------------------- MODULE Jobs --------------------------------
(***************************************************************************)
(* The durable job queue: the rows of the `jobs` table, the leases on      *)
(* them, and the worker processes that claim, run and settle them.         *)
(*                                                                         *)
(* A row is written by four parties that never wait for one another: the   *)
(* API (create, cancel), the worker that holds it, that worker's heartbeat *)
(* thread, and the recovery pass of every other worker.  What they may do  *)
(* to each other is decided by three columns (status, holder,              *)
(* lease_expires_at) and by the row lock a fenced transaction takes.       *)
(*                                                                         *)
(* Holder tokens.  The code draws a fresh uuid at each claim; here the     *)
(* token of a claim is the value of the attempts column it writes, which   *)
(* is as unique per job, and 0 stands for NULL.                            *)
(*                                                                         *)
(* The rows are erasures, and the jobs of users who are not being erased:  *)
(* an erasure keeps its own row and deletes the other jobs of its user,    *)
(* whatever their status.                                                  *)
(*                                                                         *)
(* Time.  A lease is "live" until it is "expired".  A successful renewal   *)
(* keeps it live and so is no step of its own; what matters is when a      *)
(* renewal does not happen.                                                *)
(***************************************************************************)
EXTENDS Integers, FiniteSets

CONSTANTS
    Job,        \* the job ids that may ever be created
    Worker,     \* the worker processes
    NoJob,      \* a worker's task while it has none
    NoWorker,   \* the owner of a row lock nobody holds
    Kind,       \* the kind column of each job
    CallLimit,  \* the call_limit column of each job, 0 for unlimited
    MaxFaults,  \* bound on crashes, missed beats, outages and deferrals
    MaxCalls    \* bound on the calls counted for an unlimited job

Kinds == {"extraction", "reindex", "erase", "other"}

ASSUME TasksAreNamed == NoJob \notin Job /\ NoWorker \notin Worker
ASSUME KindsAreKnown == Kind \in [Job -> Kinds]
ASSUME LimitsAreNaturals ==
    CallLimit \in [Job -> Nat] /\ MaxFaults \in Nat /\ MaxCalls \in Nat

VARIABLES
    \* columns of the jobs table
    status, holder, lease, available, cancelRequested, accepted, calls,
    attempts,
    \* the transaction that has the row FOR UPDATE
    rowLock,
    \* a worker process: where it is, the claim it works under, the flag its
    \* heartbeat sets, the checkpoint it read at the claim, how it will settle,
    \* the windows it has put to the judge
    pc, task, token, lost, cleanupStarted, outcome, made,
    \* the vector index answers; the faults so far
    indexReady, faults,
    \* history: the claim that committed the latest domain write of a job
    lastWriter

columns == <<status, holder, lease, available, cancelRequested, accepted,
             calls, attempts>>
process == <<pc, task, token, lost, cleanupStarted, outcome, made>>
history == lastWriter
vars == <<columns, rowLock, process, indexReady, faults, history>>

Terminal == {"complete", "failed", "cancelled"}
Statuses == {"absent", "queued", "running"} \union Terminal
Leases   == {"none", "live", "expired"}
Stages   == {"idle", "peeked", "claimed", "executing", "writing",
             "deferring", "settling"}

\* Stages at which a worker acts for a claim it made.
Active == {"claimed", "executing", "writing", "deferring", "settling"}

TypeOK ==
    /\ status \in [Job -> Statuses]
    /\ holder \in [Job -> Nat]
    /\ lease \in [Job -> Leases]
    /\ available \in [Job -> BOOLEAN]
    /\ cancelRequested \in [Job -> BOOLEAN]
    /\ accepted \in [Job -> BOOLEAN]
    /\ calls \in [Job -> Nat]
    /\ attempts \in [Job -> Nat]
    /\ rowLock \in [Job -> Worker \union {NoWorker}]
    /\ pc \in [Worker -> Stages]
    /\ task \in [Worker -> Job \union {NoJob}]
    /\ token \in [Worker -> Nat]
    /\ lost \in [Worker -> BOOLEAN]
    /\ cleanupStarted \in [Worker -> BOOLEAN]
    /\ outcome \in [Worker -> Terminal]
    /\ made \in [Worker -> Nat]
    /\ indexReady \in BOOLEAN
    /\ faults \in Nat
    /\ lastWriter \in [Job -> Nat]
    \* a worker away from the top of its loop has a job in hand
    /\ \A w \in Worker : pc[w] # "idle" => task[w] \in Job

Init ==
    /\ status = [j \in Job |-> "absent"]
    /\ holder = [j \in Job |-> 0]
    /\ lease = [j \in Job |-> "none"]
    /\ available = [j \in Job |-> FALSE]
    /\ cancelRequested = [j \in Job |-> FALSE]
    /\ accepted = [j \in Job |-> FALSE]
    /\ calls = [j \in Job |-> 0]
    /\ attempts = [j \in Job |-> 0]
    /\ rowLock = [j \in Job |-> NoWorker]
    /\ pc = [w \in Worker |-> "idle"]
    /\ task = [w \in Worker |-> NoJob]
    /\ token = [w \in Worker |-> 0]
    /\ lost = [w \in Worker |-> FALSE]
    /\ cleanupStarted = [w \in Worker |-> FALSE]
    /\ outcome = [w \in Worker |-> "complete"]
    /\ made = [w \in Worker |-> 0]
    /\ indexReady = TRUE
    /\ faults = 0
    /\ lastWriter = [j \in Job |-> 0]

-----------------------------------------------------------------------------
\* Guards and updates the actions share.

\* Mutant of Unlocked: the fence reads the row without FOR UPDATE.
UnlockedAlways(j) == TRUE

Unlocked(j) == rowLock[j] = NoWorker

\* jobs.require_current: the fence every domain write and settlement passes.
Current(w) ==
    /\ status[task[w]] = "running"
    /\ holder[task[w]] = token[w]
    /\ lease[task[w]] = "live"

\* Mutant of Guard: the heartbeat's flag alone stands in for the fence.
GuardByFlag(w) == ~lost[w]

\* The closure guard() of job_runner.run: the heartbeat's flag, then the fence.
Guard(w) == ~lost[w] /\ Current(w)

\* The worker's thread returns to its loop and forgets the claim.
Forget(w) ==
    /\ pc' = [pc EXCEPT ![w] = "idle"]
    /\ task' = [task EXCEPT ![w] = NoJob]
    /\ token' = [token EXCEPT ![w] = 0]
    /\ lost' = [lost EXCEPT ![w] = FALSE]
    /\ cleanupStarted' = [cleanupStarted EXCEPT ![w] = FALSE]
    /\ outcome' = [outcome EXCEPT ![w] = "complete"]
    /\ made' = [made EXCEPT ![w] = 0]

MoveTo(w, stage) ==
    /\ pc' = [pc EXCEPT ![w] = stage]
    /\ UNCHANGED <<task, token, lost, cleanupStarted, outcome, made>>

SettleAs(w, result) ==
    /\ pc' = [pc EXCEPT ![w] = "settling"]
    /\ outcome' = [outcome EXCEPT ![w] = result]
    /\ UNCHANGED <<task, token, lost, cleanupStarted, made>>

Fault == faults < MaxFaults /\ faults' = faults + 1

\* The status columns of rows S as every release of a claim writes them.
Requeue(S) ==
    /\ status' = [j \in Job |-> IF j \in S THEN "queued" ELSE status[j]]
    /\ holder' = [j \in Job |-> IF j \in S THEN 0 ELSE holder[j]]
    /\ lease' = [j \in Job |-> IF j \in S THEN "none" ELSE lease[j]]

-----------------------------------------------------------------------------
\* The API.

\* jobs.create: the row is queued and at once available.
Create(j) ==
    /\ status[j] = "absent"
    /\ status' = [status EXCEPT ![j] = "queued"]
    /\ available' = [available EXCEPT ![j] = TRUE]
    /\ UNCHANGED <<holder, lease, cancelRequested, accepted, calls, attempts>>
    /\ UNCHANGED <<rowLock, process, indexReady, faults, history>>

\* Mutant of RequestCancel: it forgets to refuse a settled job.
RequestCancelAnyStatus(j) ==
    /\ Unlocked(j)
    /\ status[j] # "absent"
    /\ ~(Kind[j] = "erase" /\ accepted[j])
    /\ cancelRequested' = [cancelRequested EXCEPT ![j] = TRUE]
    /\ UNCHANGED <<status, holder, lease, available, accepted, calls, attempts>>
    /\ UNCHANGED <<rowLock, process, indexReady, faults, history>>

\* jobs.request_cancel: refused for an accepted erasure and a settled job.
RequestCancel(j) ==
    /\ Unlocked(j)
    /\ status[j] \in {"queued", "running"}
    /\ ~(Kind[j] = "erase" /\ accepted[j])
    /\ cancelRequested' = [cancelRequested EXCEPT ![j] = TRUE]
    /\ UNCHANGED <<status, holder, lease, available, accepted, calls, attempts>>
    /\ UNCHANGED <<rowLock, process, indexReady, faults, history>>

-----------------------------------------------------------------------------
\* The worker loop: recovery, the queue peek, the claim.

\* Mutants of Stale: it takes running rows whose lease is live, or passes over
\* those with a cancellation pending.
StaleEarly == {j \in Job : status[j] = "running"}
StaleUncancelled ==
    {j \in Job : status[j] = "running" /\ lease[j] = "expired"
                                       /\ ~cancelRequested[j]}

Stale == {j \in Job : status[j] = "running" /\ lease[j] = "expired"}

\* jobs.recover_stale: every expired row that no transaction has locked.
RecoverStale(w) ==
    /\ pc[w] = "idle"
    /\ LET S == {j \in Stale : Unlocked(j)}
       IN  S # {} /\ Requeue(S)
    /\ UNCHANGED <<available, cancelRequested, accepted, calls, attempts>>
    /\ UNCHANGED <<rowLock, process, indexReady, faults, history>>

\* Worker._run reads a job to dispatch; what needs the index waits for it.
Peek(w, j) ==
    /\ pc[w] = "idle"
    /\ status[j] = "queued"
    /\ available[j]
    /\ indexReady \/ Kind[j] \notin {"extraction", "reindex"}
    /\ pc' = [pc EXCEPT ![w] = "peeked"]
    /\ task' = [task EXCEPT ![w] = j]
    /\ UNCHANGED <<token, lost, cleanupStarted, outcome, made>>
    /\ UNCHANGED <<columns, rowLock, indexReady, faults, history>>

Claimable(j) == status[j] = "queued" /\ available[j] /\ Unlocked(j)

\* Mutant of Claim: the holder token is not drawn afresh for a retry.
ClaimReusingToken(w) ==
    LET j == task[w]
    IN  /\ pc[w] = "peeked"
        /\ Claimable(j)
        /\ status' = [status EXCEPT ![j] = "running"]
        /\ holder' = [holder EXCEPT ![j] = 1]
        /\ lease' = [lease EXCEPT ![j] = "live"]
        /\ attempts' = [attempts EXCEPT ![j] = @ + 1]
        /\ pc' = [pc EXCEPT ![w] = "claimed"]
        /\ token' = [token EXCEPT ![w] = 1]
        /\ cleanupStarted' = [cleanupStarted EXCEPT ![w] = accepted[j]]
        /\ UNCHANGED <<task, lost, outcome, made>>
        /\ UNCHANGED <<available, cancelRequested, accepted, calls>>
        /\ UNCHANGED <<rowLock, indexReady, faults, history>>

\* jobs.claim wins the row; job["input"] is the row as it is now.
Claim(w) ==
    LET j == task[w]
    IN  /\ pc[w] = "peeked"
        /\ Claimable(j)
        /\ status' = [status EXCEPT ![j] = "running"]
        /\ holder' = [holder EXCEPT ![j] = attempts[j] + 1]
        /\ lease' = [lease EXCEPT ![j] = "live"]
        /\ attempts' = [attempts EXCEPT ![j] = @ + 1]
        /\ pc' = [pc EXCEPT ![w] = "claimed"]
        /\ token' = [token EXCEPT ![w] = attempts[j] + 1]
        /\ cleanupStarted' = [cleanupStarted EXCEPT ![w] = accepted[j]]
        /\ UNCHANGED <<task, lost, outcome, made>>
        /\ UNCHANGED <<available, cancelRequested, accepted, calls>>
        /\ UNCHANGED <<rowLock, indexReady, faults, history>>

\* Mutant of ClaimRefused: the run goes on without a row.
ClaimRefusedGoesOn(w) ==
    /\ pc[w] = "peeked"
    /\ ~Claimable(task[w])
    /\ pc' = [pc EXCEPT ![w] = "claimed"]
    /\ task' = [task EXCEPT ![w] = NoJob]
    /\ UNCHANGED <<token, lost, cleanupStarted, outcome, made>>
    /\ UNCHANGED <<columns, rowLock, indexReady, faults, history>>

\* "Another worker claimed it after the queue peek."
ClaimRefused(w) ==
    /\ pc[w] = "peeked"
    /\ ~Claimable(task[w])
    /\ Forget(w)
    /\ UNCHANGED <<columns, rowLock, indexReady, faults, history>>

-----------------------------------------------------------------------------
\* job_runner.run and the handler it dispatches to.

\* LeaseLost anywhere in the run: the execution is discarded, the row is not.
Discard(w) ==
    /\ pc[w] \in {"claimed", "executing"}
    /\ lost[w] \/ (Unlocked(task[w]) /\ ~Current(w))
    /\ Forget(w)
    /\ UNCHANGED <<columns, rowLock, indexReady, faults, history>>

\* Mutants of Start: the checkpoint of an erasure is not consulted, or the
\* cancellation is left to the handler.
StartForgettingCleanup(w) ==
    /\ pc[w] = "claimed"
    /\ Unlocked(task[w])
    /\ Guard(w)
    /\ IF cancelRequested[task[w]]
         THEN SettleAs(w, "cancelled")
         ELSE MoveTo(w, "executing")
    /\ UNCHANGED <<columns, rowLock, indexReady, faults, history>>
StartUnchecked(w) ==
    /\ pc[w] = "claimed"
    /\ Unlocked(task[w])
    /\ Guard(w)
    /\ MoveTo(w, "executing")
    /\ UNCHANGED <<columns, rowLock, indexReady, faults, history>>

\* The cancellation check before the handler runs.
Start(w) ==
    /\ pc[w] = "claimed"
    /\ Unlocked(task[w])
    /\ Guard(w)
    /\ IF cancelRequested[task[w]] /\ ~cleanupStarted[w]
         THEN SettleAs(w, "cancelled")
         ELSE MoveTo(w, "executing")
    /\ UNCHANGED <<columns, rowLock, indexReady, faults, history>>

CallsLeft(j) ==
    /\ status[j] = "running"
    /\ CallLimit[j] = 0 \/ calls[j] < CallLimit[j]

\* run_session_extraction judges at most max_windows windows, which is the
\* job's call limit; a dream (an "other" job) stops at a limit of its own.
WindowLeft(w) ==
    \/ Kind[task[w]] = "extraction" /\ made[w] < CallLimit[task[w]]
    \/ Kind[task[w]] = "other"

\* jobs.consume_call: a judge call is charged to the running row, whichever
\* claim the caller works under.
ConsumeCall(w) ==
    LET j == task[w]
    IN  /\ pc[w] = "executing"
        /\ WindowLeft(w)
        /\ Unlocked(j)
        /\ CallsLeft(j)
        /\ CallLimit[j] # 0 \/ calls[j] < MaxCalls
        /\ calls' = [calls EXCEPT ![j] = @ + 1]
        /\ made' = [made EXCEPT ![w] = @ + 1]
        /\ UNCHANGED <<pc, task, token, lost, cleanupStarted, outcome>>
        /\ UNCHANGED <<status, holder, lease, available, cancelRequested,
                       accepted, attempts>>
        /\ UNCHANGED <<rowLock, indexReady, faults, history>>

\* CallLimitExceeded: an extraction ends with the error, a dream returns what
\* it has.
CallRefused(w) ==
    /\ pc[w] = "executing"
    /\ Kind[task[w]] = "extraction"
    /\ WindowLeft(w)
    /\ Unlocked(task[w])
    /\ ~CallsLeft(task[w])
    /\ SettleAs(w, "failed")
    /\ UNCHANGED <<columns, rowLock, indexReady, faults, history>>

\* A domain transaction begins: the fence passes and keeps the row locked.
BeginWrite(w) ==
    /\ pc[w] = "executing"
    /\ Unlocked(task[w])
    /\ Guard(w)
    /\ rowLock' = [rowLock EXCEPT ![task[w]] = w]
    /\ MoveTo(w, "writing")
    /\ UNCHANGED <<columns, indexReady, faults, history>>

\* It commits.  The first one of an erasure is its acceptance.
CommitWrite(w) ==
    LET j == task[w]
    IN  /\ pc[w] = "writing"
        /\ rowLock' = [rowLock EXCEPT ![j] = NoWorker]
        /\ accepted' = [accepted EXCEPT ![j] = @ \/ Kind[j] = "erase"]
        /\ lastWriter' = [lastWriter EXCEPT ![j] = token[w]]
        /\ MoveTo(w, "executing")
        /\ UNCHANGED <<status, holder, lease, available, cancelRequested,
                       calls, attempts>>
        /\ UNCHANGED <<indexReady, faults>>

\* Or the handler raises inside it, and it rolls back.
AbortWrite(w) ==
    LET j == task[w]
    IN  /\ pc[w] = "writing"
        /\ rowLock' = [rowLock EXCEPT ![j] = NoWorker]
        /\ SettleAs(w, "failed")
        /\ UNCHANGED <<columns, indexReady, faults, history>>

\* The handler raises outside a transaction.
Fail(w) ==
    /\ pc[w] = "executing"
    /\ SettleAs(w, "failed")
    /\ UNCHANGED <<columns, rowLock, indexReady, faults, history>>

\* The last fenced transaction of an extraction reads the cancellation flag
\* and, unless it is set, may queue a job for the messages that remain.
DecideExtraction(w) ==
    LET j == task[w]
    IN  /\ pc[w] = "executing"
        /\ Kind[j] = "extraction"
        /\ Unlocked(j)
        /\ Guard(w)
        /\ \/ /\ cancelRequested[j]
              /\ SettleAs(w, "cancelled")
              /\ UNCHANGED <<status, available>>
           \/ /\ ~cancelRequested[j]
              /\ SettleAs(w, "complete")
              /\ \/ UNCHANGED <<status, available>>
                 \/ \E k \in Job :
                       /\ Kind[k] = "extraction" /\ status[k] = "absent"
                       /\ status' = [status EXCEPT ![k] = "queued"]
                       /\ available' = [available EXCEPT ![k] = TRUE]
        /\ UNCHANGED <<holder, lease, cancelRequested, accepted, calls,
                       attempts>>
        /\ UNCHANGED <<rowLock, indexReady, faults, history>>

\* Every other handler returns.
Return(w) ==
    /\ pc[w] = "executing"
    /\ Kind[task[w]] # "extraction"
    /\ SettleAs(w, "complete")
    /\ UNCHANGED <<columns, rowLock, indexReady, faults, history>>

\* reindex.rebuild polls cancelled() and raises ReindexCancelled.
CancelReindex(w) ==
    /\ pc[w] = "executing"
    /\ Kind[task[w]] = "reindex"
    /\ Unlocked(task[w])
    /\ Guard(w)
    /\ cancelRequested[task[w]]
    /\ SettleAs(w, "cancelled")
    /\ UNCHANGED <<columns, rowLock, indexReady, faults, history>>

\* MaintenanceBusy, or ErasureCleanupPending for an erasure.
Busy(w) ==
    /\ pc[w] = "executing"
    /\ Fault
    /\ MoveTo(w, "deferring")
    /\ UNCHANGED <<columns, rowLock, indexReady, history>>

\* jobs.finish: the row is settled by its current holder.
Finish(w) ==
    LET j == task[w]
    IN  /\ pc[w] = "settling"
        /\ Unlocked(j)
        /\ Current(w)
        /\ status' = [status EXCEPT ![j] = outcome[w]]
        /\ holder' = [holder EXCEPT ![j] = 0]
        /\ lease' = [lease EXCEPT ![j] = "none"]
        /\ Forget(w)
        /\ UNCHANGED <<available, cancelRequested, accepted, calls, attempts>>
        /\ UNCHANGED <<rowLock, indexReady, faults, history>>

\* jobs.defer: back to the queue, available again only after a delay.
Defer(w) ==
    /\ pc[w] = "deferring"
    /\ Unlocked(task[w])
    /\ Current(w)
    /\ Requeue({task[w]})
    /\ available' = [available EXCEPT ![task[w]] = FALSE]
    /\ Forget(w)
    /\ UNCHANGED <<cancelRequested, accepted, calls, attempts>>
    /\ UNCHANGED <<rowLock, indexReady, faults, history>>

\* Both raise LeaseLost for an obsolete holder, whose result is dropped.
SettleRefused(w) ==
    /\ pc[w] \in {"settling", "deferring"}
    /\ Unlocked(task[w])
    /\ ~Current(w)
    /\ Forget(w)
    /\ UNCHANGED <<columns, rowLock, indexReady, faults, history>>

-----------------------------------------------------------------------------
\* Time and failure.

\* The heartbeat's UPDATE matches no row, and it stops beating.
BeatRefused(w) ==
    /\ pc[w] \in Active
    /\ ~lost[w]
    /\ Unlocked(task[w])
    /\ ~Current(w)
    /\ lost' = [lost EXCEPT ![w] = TRUE]
    /\ UNCHANGED <<pc, task, token, cleanupStarted, outcome, made>>
    /\ UNCHANGED <<columns, rowLock, indexReady, faults, history>>

\* The heartbeat's statement raises, and it stops beating.
BeatFails(w) ==
    /\ pc[w] \in Active
    /\ ~lost[w]
    /\ Fault
    /\ lost' = [lost EXCEPT ![w] = TRUE]
    /\ UNCHANGED <<pc, task, token, cleanupStarted, outcome, made>>
    /\ UNCHANGED <<columns, rowLock, indexReady, history>>

\* Some worker still beats for the claim the row records.
Kept(j) ==
    \E w \in Worker : /\ pc[w] \in Active /\ ~lost[w]
                      /\ task[w] = j /\ token[w] = holder[j]

\* A lease nobody renews runs out.
LeaseExpires(j) ==
    /\ status[j] = "running"
    /\ lease[j] = "live"
    /\ ~Kept(j)
    /\ lease' = [lease EXCEPT ![j] = "expired"]
    /\ UNCHANGED <<status, holder, available, cancelRequested, accepted,
                   calls, attempts>>
    /\ UNCHANGED <<rowLock, process, indexReady, faults, history>>

\* A beat comes too late: a stalled process, or a transaction of the job
\* that has the row locked for longer than the lease lasts.
LeaseOverrun(j) ==
    /\ status[j] = "running"
    /\ lease[j] = "live"
    /\ Kept(j)
    /\ Fault
    /\ lease' = [lease EXCEPT ![j] = "expired"]
    /\ UNCHANGED <<status, holder, available, cancelRequested, accepted,
                   calls, attempts>>
    /\ UNCHANGED <<rowLock, process, indexReady, history>>

\* The process dies and another starts: its transaction rolls back, the row
\* keeps the claim.
Crash(w) ==
    /\ pc[w] \in Active
    /\ Fault
    /\ Forget(w)
    /\ rowLock' = [j \in Job |-> IF rowLock[j] = w THEN NoWorker ELSE rowLock[j]]
    /\ UNCHANGED <<columns, indexReady, history>>

\* available_at passes.
BecomeAvailable(j) ==
    /\ status[j] = "queued"
    /\ ~available[j]
    /\ available' = [available EXCEPT ![j] = TRUE]
    /\ UNCHANGED <<status, holder, lease, cancelRequested, accepted, calls,
                   attempts>>
    /\ UNCHANGED <<rowLock, process, indexReady, faults, history>>

IndexLost ==
    /\ indexReady
    /\ Fault
    /\ indexReady' = FALSE
    /\ UNCHANGED <<columns, rowLock, process, history>>

IndexBack ==
    /\ ~indexReady
    /\ indexReady' = TRUE
    /\ UNCHANGED <<columns, rowLock, process, faults, history>>

-----------------------------------------------------------------------------
Conclude(w) == DecideExtraction(w) \/ Return(w) \/ Discard(w)

Step(w) ==
    \/ RecoverStale(w)
    \/ \E j \in Job : Peek(w, j)
    \/ Claim(w) \/ ClaimRefused(w)
    \/ Discard(w) \/ Start(w)
    \/ ConsumeCall(w) \/ CallRefused(w)
    \/ BeginWrite(w) \/ CommitWrite(w) \/ AbortWrite(w)
    \/ Fail(w) \/ DecideExtraction(w) \/ Return(w) \/ CancelReindex(w)
    \/ Busy(w) \/ Finish(w) \/ Defer(w) \/ SettleRefused(w)
    \/ BeatRefused(w) \/ BeatFails(w) \/ Crash(w)

Environment(j) ==
    \/ Create(j) \/ RequestCancel(j)
    \/ LeaseExpires(j) \/ LeaseOverrun(j) \/ BecomeAvailable(j)

Next ==
    \/ \E w \in Worker : Step(w)
    \/ \E j \in Job : Environment(j)
    \/ IndexLost \/ IndexBack

Spec == Init /\ [][Next]_vars

(***************************************************************************)
(* What the scheduling guarantees.  A worker's loop never stops, so each   *)
(* of its steps is weakly fair; a handler performs finitely many           *)
(* transactions, so its conclusion, though not enabled inside one, is      *)
(* strongly fair.  Clocks advance, so abandoned leases expire and delays   *)
(* end.  An outage ends.  Creation, cancellation, errors and faults are    *)
(* not fair.                                                               *)
(***************************************************************************)
Fairness ==
    /\ \A w \in Worker :
          /\ WF_vars(RecoverStale(w))
          /\ WF_vars(\E j \in Job : Peek(w, j))
          /\ WF_vars(Claim(w) \/ ClaimRefused(w))
          /\ WF_vars(Discard(w) \/ Start(w))
          /\ WF_vars(CommitWrite(w))
          /\ SF_vars(Conclude(w))
          /\ WF_vars(Finish(w) \/ Defer(w) \/ SettleRefused(w))
    /\ \A j \in Job : WF_vars(LeaseExpires(j)) /\ WF_vars(BecomeAvailable(j))
    /\ WF_vars(IndexBack)

FairSpec == Spec /\ Fairness

-----------------------------------------------------------------------------
\* Correctness.

\* While a fenced transaction is open, the row stays with the claim that opened
\* it: recovery skips it, so nobody requeues or reclaims the job under a writer
\* even when the lease runs out in the middle of the transaction.
WriterKeepsClaim ==
    \A j \in Job : rowLock[j] # NoWorker =>
        LET w == rowLock[j]
        IN  /\ pc[w] = "writing" /\ task[w] = j
            /\ status[j] = "running" /\ holder[j] = token[w]

\* Two processes may believe they run the same job after a lease was lost, but
\* at most one of them works under the claim the row records.
OneCurrentRunner ==
    \A v, w \in Worker :
        /\ pc[v] \in Active /\ pc[w] \in Active
        /\ task[v] = task[w] /\ token[v] = token[w]
        => v = w

\* An accepted erasure is never settled as cancelled, whatever was requested
\* before the acceptance and however often it was retried since.
AcceptedErasureNotCancelled ==
    \A j \in Job : accepted[j] => status[j] # "cancelled"

\* What the claims, the fence and the row lock keep true together: a running
\* row names its latest claim and no other row names any; a worker's token is
\* a claim that was made, and made only once; an open transaction belongs to
\* the claim the row names, and a writer has the lock of the row it works on.
ClaimInv ==
    /\ \A j \in Job : holder[j] = IF status[j] = "running" THEN attempts[j] ELSE 0
    /\ \A w \in Worker : pc[w] \in Active => token[w] \in 1 .. attempts[task[w]]
    /\ \A w \in Worker : pc[w] = "writing" => rowLock[task[w]] = w
    /\ OneCurrentRunner
    /\ WriterKeepsClaim

\* The worker works under the claim the row names.
Holds(w) == pc[w] \in Active /\ token[w] = holder[task[w]]

\* Why an accepted erasure is safe from cancellation: only an erasure is ever
\* accepted, the checkpoint a worker read at its claim is still the one in the
\* row while it holds the claim, and so whoever is about to settle a job as
\* cancelled, and still may, has not seen it accepted.
AcceptanceInv ==
    /\ \A j \in Job : accepted[j] => Kind[j] = "erase"
    /\ \A w \in Worker : Holds(w) =>
          /\ pc[w] = "claimed" => cleanupStarted[w] = accepted[task[w]]
          /\ pc[w] = "settling" /\ outcome[w] = "cancelled" => ~accepted[task[w]]
    /\ AcceptedErasureNotCancelled

\* A job is settled as cancelled only because somebody asked for it.
CancellationInv ==
    \A w \in Worker :
        pc[w] = "settling" /\ outcome[w] = "cancelled" => cancelRequested[task[w]]

\* What the queue promises, whatever becomes of workers, leases and heartbeats (see
\* JobQueue): a domain write is the latest claim's or none, a job takes no more calls
\* than its limit over all its claims, and it is settled once, and as cancelled only if
\* that was requested before it was too late ("obsolete workers cannot commit results",
\* docs/01-architecture.md:22).
Queue ==
    INSTANCE JobQueue WITH
        Irrevocable <- {j \in Job : Kind[j] = "erase"}, writer <- lastWriter
QueueSpec == Queue!Spec

\* Obsolete workers cannot commit: every domain write belongs to the latest
\* claim of a job that is still running, so once a retry has claimed the job
\* no write of an earlier attempt lands.  It follows from QueueSpec.
WritesFollowClaims ==
    [][\A j \in Job : lastWriter'[j] # lastWriter[j] =>
          status[j] = "running" /\ lastWriter'[j] = attempts[j]]_vars

\* A settled job stays settled: late finishes, deferrals, cancellations, calls
\* and writes of earlier attempts leave the row alone.  It follows from QueueSpec.
SettledIsFinal ==
    [][\A j \in Job : status[j] \in Terminal =>
          /\ status'[j] = status[j] /\ attempts'[j] = attempts[j]
          /\ calls'[j] = calls[j] /\ accepted'[j] = accepted[j]
          /\ cancelRequested'[j] = cancelRequested[j]
          /\ lastWriter'[j] = lastWriter[j]]_vars

\* Only the current holder moves a running job: it is settled or deferred by
\* the process of that claim, or its lease has expired and recovery requeues it.
RunningLeftByHolder ==
    [][\A j \in Job : status[j] = "running" /\ status'[j] # "running" =>
          \/ status'[j] = "queued" /\ lease[j] = "expired"
          \/ lease[j] = "live" /\ \E w \in Worker :
                /\ task[w] = j /\ token[w] = holder[j]
                /\ pc[w] \in {"settling", "deferring"} /\ pc'[w] = "idle"]_vars

\* A cancellation recorded while the job is waiting is honoured at whichever
\* claim comes next, unless the job is an erasure already accepted.
QueuedCancellationHonoured ==
    \A j \in Job :
        (status[j] = "queued" /\ cancelRequested[j] /\ ~accepted[j])
            ~> (status[j] = "cancelled")

\* No job is forgotten: through crashes, lost beats, outages and deferrals,
\* every job that was queued is eventually settled.
EveryJobSettles == \A j \in Job : (status[j] = "queued") ~> (status[j] \in Terminal)
=============================================================================
