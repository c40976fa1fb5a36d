-------------------------- MODULE ExtractionWindow --------------------------
(***************************************************************************)
(* The extraction of one session: messages are stored, requests queue      *)
(* jobs, workers claim a window of at most WindowSize messages under a     *)
(* lease, put it to the judge outside every transaction, and commit what   *)
(* came of it if the window is still theirs.                               *)
(*                                                                         *)
(* A claim token is "<job id>:<uuid>".  Here it is the pair of the job and *)
(* the worker that still has the window in hand, and NoWorker takes the    *)
(* worker's place once nobody has: as good as the uuid, since a worker has *)
(* one window at a time.  The lease on a window is never renewed; it holds *)
(* until it has "lapsed".  The holder of a job's row is the worker that    *)
(* runs it, NoWorker once that worker is gone; its lease and its heartbeat *)
(* are the subject of module Jobs, and what matters of them here is that a *)
(* recovery may take the row from a worker that goes on.                   *)
(*                                                                         *)
(* Ids of settled jobs are used again, so that a chain of continuations    *)
(* may be endless.  Messages become visible in the order of their ids.     *)
(***************************************************************************)
EXTENDS Integers, FiniteSets

CONSTANTS
    Worker,       \* the worker processes
    NoWorker,     \* nobody
    MaxMessages,  \* bound on the messages of the session
    MaxJobs,      \* bound on the jobs that exist at one time
    WindowSize,   \* WINDOW_SIZE and MESSAGES_PER_EXTRACTION, both 10
    WindowLimit,  \* MAX_WINDOWS_PER_JOB, 25
    UserTurn,     \* the messages of role "user"
    Remember,     \* the messages that say "remember this"
    MaxRequests,  \* bound on the requests of clients
    MaxFaults     \* bound on crashes, late recoveries, lapsed leases, failed
                  \* calls, and on how often the maintenance gate is closed

Message == 1..MaxMessages
Job == 1..MaxJobs

ASSUME NobodyIsNoWorker == NoWorker \notin Worker
ASSUME BoundsAreNaturals ==
    /\ MaxMessages \in Nat /\ MaxJobs \in Nat
    /\ WindowSize \in Nat \ {0} /\ WindowLimit \in Nat \ {0}
    /\ MaxRequests \in Nat /\ MaxFaults \in Nat
ASSUME TurnsAreMessages == UserTurn \subseteq Message /\ Remember \subseteq Message

VARIABLES
    \* the messages table: the last visible id, the processed column, the
    \* claim_token column, and the messages whose claim has expired
    sent, processed, claim, lapsed,
    \* requests whose messages are stored and whose job is not queued yet
    owed,
    \* the extraction jobs: status, holder, force, max_windows (which is the
    \* call_limit), calls_completed, cancel_requested
    status, holder, force, windows, calls, cancelRequested,
    \* a worker: where it is, its job, its window, the windows it may still do
    pc, task, window, left,
    \* somebody holds the maintenance gate
    gateClosed,
    \* bounds: requests and faults so far
    requests, faults,
    \* history: the times a message's operations were committed; the workers
    \* whose window lapsed or whose job was taken from them; whether anything
    \* was given up for a reason the caller is told of; whether a job was
    \* deferred
    uses, overran, setback, deferred

messages == <<sent, processed, claim, lapsed>>
jobs == <<status, holder, force, windows, calls, cancelRequested>>
process == <<pc, task, window, left>>
bounds == <<requests, faults>>
history == <<uses, overran, setback, deferred>>
vars == <<messages, owed, jobs, process, gateClosed, bounds, history>>

NoClaim == <<0, NoWorker>>
Claims == {NoClaim} \union (Job \X (Worker \union {NoWorker}))
Statuses == {"absent", "queued", "running", "settled"}
Stages == {"idle", "looping", "claiming", "claimed", "calling", "declined",
           "drained", "settling", "failing", "deferring"}
Requests == {"batch", "event", "remember", "close"}

TypeOK ==
    /\ sent \in 0..MaxMessages
    /\ processed \subseteq 1..sent
    /\ claim \in [Message -> Claims]
    /\ lapsed \subseteq {m \in Message : claim[m] # NoClaim}
    /\ owed \subseteq Requests
    /\ status \in [Job -> Statuses]
    /\ holder \in [Job -> Worker \union {NoWorker}]
    /\ force \in [Job -> BOOLEAN]
    /\ windows \in [Job -> 1..WindowLimit]
    /\ calls \in [Job -> Nat] /\ \A j \in Job : calls[j] <= windows[j]
    /\ cancelRequested \in [Job -> BOOLEAN]
    /\ pc \in [Worker -> Stages]
    /\ task \in [Worker -> {0} \union Job]
    /\ window \in [Worker -> SUBSET (1..sent)]
    /\ left \in [Worker -> 0..WindowLimit]
    /\ gateClosed \in BOOLEAN
    /\ requests \in 0..MaxRequests
    /\ faults \in 0..MaxFaults
    /\ uses \in [Message -> Nat]
    /\ overran \subseteq Worker
    /\ setback \in BOOLEAN
    /\ deferred \in BOOLEAN
    \* a worker at work has a job and may do another window, and one that put a
    \* window to the judge has a window
    /\ \A w \in Worker : pc[w] # "idle" => task[w] \in Job
    /\ \A w \in Worker : pc[w] \in {"claiming", "claimed", "calling"} => left[w] > 0
    /\ \A w \in Worker :
          (window[w] # {}) = (pc[w] \in {"claimed", "calling"})

Init ==
    /\ sent = 0
    /\ processed = {}
    /\ claim = [m \in Message |-> NoClaim]
    /\ lapsed = {}
    /\ owed = {}
    /\ status = [j \in Job |-> "absent"]
    /\ holder = [j \in Job |-> NoWorker]
    /\ force = [j \in Job |-> FALSE]
    /\ windows = [j \in Job |-> 1]
    /\ calls = [j \in Job |-> 0]
    /\ cancelRequested = [j \in Job |-> FALSE]
    /\ pc = [w \in Worker |-> "idle"]
    /\ task = [w \in Worker |-> 0]
    /\ window = [w \in Worker |-> {}]
    /\ left = [w \in Worker |-> 0]
    /\ gateClosed = FALSE
    /\ requests = 0 /\ faults = 0
    /\ uses = [m \in Message |-> 0]
    /\ overran = {}
    /\ setback = FALSE
    /\ deferred = FALSE

Fault == faults < MaxFaults /\ faults' = faults + 1

\* extract.messages_since_last: the claimed ones are counted.
Backlog == (1..sent) \ processed
Pending == Cardinality(Backlog)

-----------------------------------------------------------------------------
\* The queue of jobs.

\* An id a new job may have: nothing refers to the job that had it.
Fresh(j) ==
    /\ status[j] \in {"absent", "settled"}
    /\ \A w \in Worker : task[w] # j
    /\ \A m \in Message : claim[m][1] = j => m \in lapsed

\* The least one, so that equal jobs have equal names.
NextJob == CHOOSE j \in Job : Fresh(j) /\ \A i \in 1..(j - 1) : ~Fresh(i)

\* The windows a job for n pending messages may do.
WindowsFor(n) ==
    LET needed == (n + WindowSize - 1) \div WindowSize
    IN  IF needed < 1 THEN 1
        ELSE IF needed > WindowLimit THEN WindowLimit ELSE needed

\* job_runner.queue_extraction; s is the status column before it.
QueueExtraction(s, forced) ==
    /\ \E j \in Job : Fresh(j)
    /\ status' = [s EXCEPT ![NextJob] = "queued"]
    /\ force' = [force EXCEPT ![NextJob] = forced]
    /\ windows' = [windows EXCEPT ![NextJob] = WindowsFor(Pending)]
    /\ calls' = [calls EXCEPT ![NextJob] = 0]
    /\ cancelRequested' = [cancelRequested EXCEPT ![NextJob] = FALSE]

-----------------------------------------------------------------------------
\* The API.  A request stores in one transaction and queues in another.

Request == requests < MaxRequests /\ requests' = requests + 1

\* POST /v1/evidence/events:batch; a batch sent again may store nothing.
PostBatch(n) ==
    /\ Request
    /\ ~gateClosed
    /\ "batch" \notin owed
    /\ sent + n <= MaxMessages
    /\ sent' = sent + n
    /\ owed' = owed \union {"batch"}
    /\ UNCHANGED <<processed, claim, lapsed, jobs, process, gateClosed>>
    /\ UNCHANGED <<faults, history>>

\* POST /v1/evidence/events.
PostMessage ==
    LET kind == IF sent + 1 \in Remember THEN "remember" ELSE "event"
    IN  /\ Request
        /\ ~gateClosed
        /\ kind \notin owed
        /\ sent < MaxMessages
        /\ sent' = sent + 1
        /\ owed' = owed \union {kind}
        /\ UNCHANGED <<processed, claim, lapsed, jobs, process>>
        /\ UNCHANGED <<gateClosed, faults, history>>

\* POST /v1/sessions/{id}/close.  It may come again, and so may messages.
CloseSession ==
    /\ Request
    /\ ~gateClosed
    /\ "close" \notin owed
    /\ owed' = owed \union {"close"}
    /\ UNCHANGED <<messages, jobs, process, gateClosed, faults>>
    /\ UNCHANGED history

\* The second transaction.  A lone event queues a job only if the gate of
\* judge.should_extract says so: ten are pending, or it asks to be remembered.
QueueRequested(kind) ==
    /\ kind \in owed
    /\ owed' = owed \ {kind}
    /\ IF kind = "event" /\ Pending < WindowSize
         THEN UNCHANGED <<status, force, windows, calls, cancelRequested>>
         ELSE QueueExtraction(status, kind # "batch")
    /\ UNCHANGED <<messages, holder, process, gateClosed, bounds>>
    /\ UNCHANGED history

\* The server dies between the two.
RequestDies(kind) ==
    /\ Fault
    /\ kind \in owed
    /\ owed' = owed \ {kind}
    /\ setback' = TRUE
    /\ UNCHANGED <<messages, jobs, process, gateClosed>>
    /\ UNCHANGED <<requests, uses, overran, deferred>>

\* jobs.request_cancel.
RequestCancel(j) ==
    /\ Request
    /\ status[j] \in {"queued", "running"}
    /\ cancelRequested' = [cancelRequested EXCEPT ![j] = TRUE]
    /\ setback' = TRUE
    /\ UNCHANGED <<messages, owed, status, holder, force, windows>>
    /\ UNCHANGED <<calls, process, gateClosed, faults>>
    /\ UNCHANGED <<uses, overran, deferred>>

-----------------------------------------------------------------------------
\* The claims on messages.

Token(w) == <<task[w], w>>

\* The claims of S are taken back, here and below by emptying two columns.
Freed(S) == [m \in Message |-> IF m \in S THEN NoClaim ELSE claim[m]]

\* The claims of w's window that are still its own.
Held(w) == {m \in window[w] : claim[m] = Token(w)}

\* What the table shows of w's window once w has forgotten it: the token stays
\* and belongs to nobody.
Disowned(w) ==
    [m \in Message |-> IF m \in Held(w) THEN <<task[w], NoWorker>> ELSE claim[m]]

\* Messages claim_window may take: unclaimed, or claimed by a lapsed lease.
Free == {m \in Backlog : claim[m] = NoClaim \/ m \in lapsed}

\* The first WindowSize of them in the order of their ids.
Claimable == {m \in Free : Cardinality({n \in Free : n < m}) < WindowSize}

\* Mutant of Released: the rows of the window, whoever has claimed them since.
ReleasedByRow(w) == window[w]

\* The rows release_window frees: those that still bear the window's token.
Released(w) == Held(w)

\* Mutant of WindowHolds: the rows are there and that is enough.
WindowHoldsUnchecked(w) == window[w] \subseteq 1..sent

\* extract._require_window, and the row count _mark_processed insists on:
\* every row is unprocessed, under our token, and the lease has not run out.
WindowHolds(w) ==
    /\ window[w] \intersect processed = {}
    /\ Held(w) = window[w]
    /\ window[w] \intersect lapsed = {}

-----------------------------------------------------------------------------
\* job_runner.run and extract.run_session_extraction.

\* The closure guard() of job_runner.run: the row is running under our token.
Guard(w) == status[task[w]] = "running" /\ holder[task[w]] = w

MoveTo(w, stage) ==
    /\ pc' = [pc EXCEPT ![w] = stage]
    /\ UNCHANGED <<task, window, left>>

\* The window is done with, one way or another, and the run goes on.
Drop(w, stage) ==
    /\ pc' = [pc EXCEPT ![w] = stage]
    /\ window' = [window EXCEPT ![w] = {}]
    /\ UNCHANGED <<task, left>>

\* The worker returns to its loop.
Forget(w) ==
    /\ pc' = [pc EXCEPT ![w] = "idle"]
    /\ task' = [task EXCEPT ![w] = 0]
    /\ window' = [window EXCEPT ![w] = {}]
    /\ left' = [left EXCEPT ![w] = 0]
    /\ overran' = overran \ {w}

\* jobs.claim, and the cancellation check before the handler.
TakeJob(w, j) ==
    /\ pc[w] = "idle"
    /\ status[j] = "queued"
    /\ status' = [status EXCEPT ![j] =
                    IF cancelRequested[j] THEN "settled" ELSE "running"]
    /\ IF cancelRequested[j]
         THEN UNCHANGED <<holder, process>>
         ELSE /\ holder' = [holder EXCEPT ![j] = w]
              /\ pc' = [pc EXCEPT ![w] = "looping"]
              /\ task' = [task EXCEPT ![w] = j]
              /\ left' = [left EXCEPT ![w] = windows[j]]
              /\ UNCHANGED window
    /\ UNCHANGED <<messages, owed, force, windows, calls>>
    /\ UNCHANGED <<cancelRequested, gateClosed, bounds, history>>

\* judge.should_extract refuses a window: too few messages, none of them a
\* user's request to remember, and the job is not forced.
Refused(w) ==
    /\ ~force[task[w]]
    /\ Cardinality(window[w]) < WindowSize
    /\ window[w] \intersect UserTurn \intersect Remember = {}

\* The transaction that ends a window: what the judge said, or nothing if the
\* window has no user turn.
Ending(w) ==
    \/ pc[w] = "calling"
    \/ /\ pc[w] = "claimed"
       /\ ~Refused(w)
       /\ window[w] \intersect UserTurn = {}

\* LeaseLost: the row has gone to somebody else, this execution is discarded
\* and whatever it had claimed stays claimed.
Discard(w) ==
    /\ \/ pc[w] \in {"looping", "declined", "drained", "settling", "failing",
                     "deferring"}
       \/ Ending(w) /\ ~gateClosed
    /\ ~Guard(w)
    /\ claim' = Disowned(w)
    /\ Forget(w)
    /\ UNCHANGED <<sent, processed, lapsed, owed, jobs, gateClosed>>
    /\ UNCHANGED <<bounds, uses, setback, deferred>>

\* The head of the loop over windows.
NextWindow(w) ==
    /\ pc[w] = "looping"
    /\ Guard(w)
    /\ MoveTo(w, IF left[w] = 0 \/ cancelRequested[task[w]]
                   THEN "drained" ELSE "claiming")
    /\ UNCHANGED <<messages, owed, jobs, gateClosed, bounds, history>>

\* extract.claim_window, one transaction under the lock of the session.
ClaimWindow(w) ==
    /\ pc[w] = "claiming"
    /\ claim' = [m \in Message |->
                    IF m \in Claimable THEN Token(w)
                    ELSE IF m \in lapsed THEN NoClaim ELSE claim[m]]
    /\ lapsed' = {}
    /\ window' = [window EXCEPT ![w] = Claimable]
    /\ pc' = [pc EXCEPT ![w] = IF Claimable = {} THEN "drained" ELSE "claimed"]
    /\ overran' = IF Guard(w) THEN overran \ {w} ELSE overran
    /\ UNCHANGED <<task, left, sent, processed, owed, jobs>>
    /\ UNCHANGED <<gateClosed, bounds, uses, setback, deferred>>

\* The window is given back as it was.
Decline(w) ==
    /\ pc[w] = "claimed"
    /\ Refused(w)
    /\ claim' = Freed(Released(w))
    /\ lapsed' = lapsed \ Released(w)
    /\ Drop(w, "declined")
    /\ UNCHANGED <<sent, processed, owed, jobs, gateClosed, bounds>>
    /\ UNCHANGED history

\* Mutant of CallGranted: the limit is not looked at.
CallGrantedUnlimited(j) == status[j] = "running"

\* The condition of jobs.consume_call on the row.
CallGranted(j) == status[j] = "running" /\ calls[j] < windows[j]

\* jobs.consume_call charges the running row, whoever asks.
CallJudge(w) ==
    LET j == task[w]
    IN  /\ pc[w] = "claimed"
        /\ ~Refused(w)
        /\ window[w] \intersect UserTurn # {}
        /\ IF CallGranted(j)
             THEN /\ calls' = [calls EXCEPT ![j] = @ + 1]
                  /\ MoveTo(w, "calling")
                  /\ UNCHANGED <<claim, lapsed, setback>>
             ELSE /\ claim' = Freed(Released(w))
                  /\ lapsed' = lapsed \ Released(w)
                  /\ Drop(w, "failing")
                  /\ setback' = TRUE
                  /\ UNCHANGED calls
        /\ UNCHANGED <<sent, processed, owed, status, holder, force>>
        /\ UNCHANGED <<windows, cancelRequested, gateClosed, bounds>>
        /\ UNCHANGED <<uses, overran, deferred>>

\* The provider fails, or the scope is no longer writable: the window is
\* released and the run ends with the error.
JudgeFails(w) ==
    /\ Fault
    /\ pc[w] = "calling"
    /\ claim' = Freed(Released(w))
    /\ lapsed' = lapsed \ Released(w)
    /\ Drop(w, "failing")
    /\ setback' = TRUE
    /\ UNCHANGED <<sent, processed, owed, jobs, gateClosed>>
    /\ UNCHANGED <<requests, uses, overran, deferred>>

\* extract.apply_ops: what the operations do to memories is module
\* MemoryLifecycle's subject; here it is that they were applied for S.
Applied(S) == [m \in Message |-> IF m \in S THEN uses[m] + 1 ELSE uses[m]]

\* The gate is open, the job and the window are still ours: the operations and
\* the processed column are committed together.
Commit(w) ==
    /\ Ending(w)
    /\ ~gateClosed
    /\ Guard(w)
    /\ WindowHolds(w)
    /\ processed' = processed \union window[w]
    /\ claim' = Freed(window[w])
    /\ lapsed' = lapsed \ window[w]
    /\ uses' = Applied(window[w])
    /\ pc' = [pc EXCEPT ![w] = "looping"]
    /\ window' = [window EXCEPT ![w] = {}]
    /\ left' = [left EXCEPT ![w] = @ - 1]
    /\ UNCHANGED <<task, sent, owed, jobs, gateClosed, bounds>>
    /\ UNCHANGED <<overran, setback, deferred>>

\* ExtractionLeaseLost: the window is somebody else's, and stays so.
WindowLost(w) ==
    /\ Ending(w)
    /\ ~gateClosed
    /\ Guard(w)
    /\ ~WindowHolds(w)
    /\ claim' = Disowned(w)
    /\ Drop(w, "failing")
    /\ setback' = TRUE
    /\ UNCHANGED <<sent, processed, lapsed, owed, jobs, gateClosed>>
    /\ UNCHANGED <<bounds, uses, overran, deferred>>

\* An operation raises (a revision moved meanwhile): all is rolled back, the
\* job fails, and the claims are left to their leases.
CommitFails(w) ==
    /\ Fault
    /\ pc[w] = "calling"
    /\ ~gateClosed
    /\ Guard(w)
    /\ WindowHolds(w)
    /\ claim' = Disowned(w)
    /\ Drop(w, "failing")
    /\ setback' = TRUE
    /\ UNCHANGED <<sent, processed, lapsed, owed, jobs, gateClosed>>
    /\ UNCHANGED <<requests, uses, overran, deferred>>

\* MaintenanceBusy, raised before anything is looked at.
MeetGate(w) ==
    /\ Ending(w)
    /\ gateClosed
    /\ claim' = Disowned(w)
    /\ Drop(w, "deferring")
    /\ UNCHANGED <<sent, processed, lapsed, owed, jobs, gateClosed>>
    /\ UNCHANGED <<bounds, history>>

\* jobs.defer.  The delay is not modelled: the job is queued at once.
Defer(w) ==
    /\ pc[w] = "deferring"
    /\ Guard(w)
    /\ status' = [status EXCEPT ![task[w]] = "queued"]
    /\ holder' = [holder EXCEPT ![task[w]] = NoWorker]
    /\ deferred' = TRUE
    /\ Forget(w)
    /\ UNCHANGED <<messages, owed, force, windows, calls>>
    /\ UNCHANGED <<cancelRequested, gateClosed, bounds, uses, setback>>

\* outcome.claimed: a run that was refused claimed its window all the same.
ClaimedSomething(w) == pc[w] = "declined" \/ left[w] < windows[task[w]]

\* Mutant of Continues: the job is satisfied with what it has done.
ContinuesNever(w) == FALSE

\* Whether a job is queued for what remains.
Continues(w) ==
    /\ ~cancelRequested[task[w]]
    /\ ClaimedSomething(w)
    /\ Pending >= IF force[task[w]] THEN 1 ELSE WindowSize

\* The last transaction of the handler.
Continue(w) ==
    /\ pc[w] \in {"declined", "drained"}
    /\ Guard(w)
    /\ IF Continues(w)
         THEN QueueExtraction(status, force[task[w]])
         ELSE UNCHANGED <<status, force, windows, calls, cancelRequested>>
    /\ MoveTo(w, "settling")
    /\ UNCHANGED <<messages, owed, holder, gateClosed, bounds, history>>

\* jobs.finish, complete or failed.
Settle(w) ==
    /\ pc[w] \in {"settling", "failing"}
    /\ Guard(w)
    /\ status' = [status EXCEPT ![task[w]] = "settled"]
    /\ holder' = [holder EXCEPT ![task[w]] = NoWorker]
    /\ Forget(w)
    /\ UNCHANGED <<messages, owed, force, windows, calls>>
    /\ UNCHANGED <<cancelRequested, gateClosed, bounds, uses, setback, deferred>>

-----------------------------------------------------------------------------
\* Time, maintenance and failure.

\* The 300 s of a window run out while a worker has it, ...
LeaseLapses(w) ==
    /\ Fault
    /\ Held(w) # {}
    /\ lapsed' = lapsed \union Held(w)
    /\ overran' = overran \union {w}
    /\ UNCHANGED <<sent, processed, claim, owed, jobs, process>>
    /\ UNCHANGED <<gateClosed, requests, uses, setback, deferred>>

\* ... or when nobody has it any more; those of one job together.
Abandoned(j) == {m \in Message : claim[m] = <<j, NoWorker>>}
AbandonedLapse(j) ==
    /\ Abandoned(j) \ lapsed # {}
    /\ lapsed' = lapsed \union Abandoned(j)
    /\ UNCHANGED <<sent, processed, claim, owed, jobs, process>>
    /\ UNCHANGED <<gateClosed, bounds, history>>

\* The process dies; its job is running and nobody runs it.
Crash(w) ==
    LET j == task[w]
    IN  /\ Fault
        /\ pc[w] # "idle"
        /\ holder' = [holder EXCEPT ![j] = IF @ = w THEN NoWorker ELSE @]
        /\ claim' = Disowned(w)
        /\ setback' = TRUE
        /\ Forget(w)
        /\ UNCHANGED <<sent, processed, lapsed, owed, status, force>>
        /\ UNCHANGED <<windows, calls, cancelRequested, gateClosed>>
        /\ UNCHANGED <<requests, uses, deferred>>

\* The claims recover_stale takes back: every token that starts with the job.
ClaimsOf(j) == {m \in Message : claim[m][1] = j}

\* jobs.recover_stale finds a running row whose lease has expired.
Recover(j) ==
    /\ status' = [status EXCEPT ![j] = "queued"]
    /\ holder' = [holder EXCEPT ![j] = NoWorker]
    /\ claim' = Freed(ClaimsOf(j))
    /\ lapsed' = lapsed \ ClaimsOf(j)
    /\ overran' = overran \union {w \in Worker : task[w] = j}
    /\ UNCHANGED <<sent, processed, owed, force, windows, calls>>
    /\ UNCHANGED <<cancelRequested, process, gateClosed, requests>>
    /\ UNCHANGED <<uses, deferred>>

\* Its worker is dead, ...
RecoverDead(j) ==
    /\ status[j] = "running" /\ holder[j] = NoWorker
    /\ Recover(j)
    /\ UNCHANGED <<faults, setback>>

\* ... or alive, and has missed its beats.
RecoverLate(j) ==
    /\ Fault
    /\ status[j] = "running" /\ holder[j] # NoWorker
    /\ Recover(j)
    /\ setback' = TRUE

\* A rebuild or an erasure takes the gate, and gives it back.
CloseGate ==
    /\ Fault
    /\ ~gateClosed
    /\ gateClosed' = TRUE
    /\ UNCHANGED <<messages, owed, jobs, process, requests>>
    /\ UNCHANGED history
OpenGate ==
    /\ gateClosed
    /\ gateClosed' = FALSE
    /\ UNCHANGED <<messages, owed, jobs, process, bounds, history>>

-----------------------------------------------------------------------------
Run(w) ==
    \/ \E j \in Job : TakeJob(w, j)
    \/ Discard(w)
    \/ NextWindow(w)
    \/ ClaimWindow(w)
    \/ Decline(w)
    \/ CallJudge(w)
    \/ Commit(w)
    \/ WindowLost(w)
    \/ MeetGate(w)
    \/ Defer(w)
    \/ Continue(w)
    \/ Settle(w)

Next ==
    \/ \E n \in 0..MaxMessages : PostBatch(n)
    \/ PostMessage
    \/ CloseSession
    \/ \E kind \in Requests : QueueRequested(kind) \/ RequestDies(kind)
    \/ \E w \in Worker : Run(w)
    \/ \E w \in Worker : \/ JudgeFails(w) \/ CommitFails(w)
                         \/ LeaseLapses(w) \/ Crash(w)
    \/ \E j \in Job : \/ RequestCancel(j) \/ AbandonedLapse(j)
                      \/ RecoverDead(j) \/ RecoverLate(j)
    \/ CloseGate
    \/ OpenGate

Spec == Init /\ [][Next]_vars

-----------------------------------------------------------------------------
\* The exact messages that were put into a committed window are the processed
\* ones, and each of them once, whatever leases lapsed and retries ran
\* (extract.py:1068-1113).
AppliedOnce ==
    \A m \in Message : uses[m] = IF m \in processed THEN 1 ELSE 0

\* "lease one exact message range so provider work is never duplicated"
\* (extract.py:144): two workers have a message in hand at one time only if
\* one of them let its lease lapse or lost its job.
NoDuplicateWork ==
    \A v, w \in Worker :
        v # w /\ window[v] \intersect window[w] # {} =>
            {v, w} \intersect overran # {}

\* Nothing is on its way: no job is waiting or running, no request is half done.
Quiet ==
    /\ owed = {}
    /\ \A j \in Job : status[j] \in {"absent", "settled"}
    /\ \A w \in Worker : pc[w] = "idle"

\* A full window never waits for the next event of its session: when nothing
\* is on its way and no job failed, was cancelled or was deferred, fewer than
\* WindowSize messages are left (job_runner.py:170-186).
NoFullWindowWaits ==
    Quiet /\ ~setback /\ ~deferred => Pending < WindowSize

-----------------------------------------------------------------------------
\* Why they hold.

\* A claim in the name of a worker is of the job it runs, on a message it has in hand.
Owned ==
    \A m \in Message : claim[m][2] \in Worker =>
        m \in window[claim[m][2]] /\ claim[m] = Token(claim[m][2])

\* The window of a worker that was in time is claimed in its name.
Intact ==
    \A w \in Worker \ overran : \A m \in window[w] :
        claim[m] = Token(w) /\ m \notin lapsed

\* A worker that will claim another window, or queue a job for what remains, before it
\* is done.
GoesOn(w) ==
    \/ pc[w] \in {"looping", "claiming", "claimed", "calling", "declined", "deferring"}
    \/ pc[w] = "drained" /\ left[w] < windows[task[w]]

\* While nothing was given up or deferred: jobs stay with their workers, claims with
\* their windows, and somebody attends to a full window.
Attended ==
    ~setback /\ ~deferred =>
        /\ \A j \in Job : ~cancelRequested[j]
        /\ \A w \in Worker : pc[w] # "failing" /\ (pc[w] # "idle" => Guard(w))
        /\ \A m \in Message : claim[m] # NoClaim /\ claim[m][2] = NoWorker =>
              \E w \in Worker : pc[w] = "deferring"
        /\ Pending >= WindowSize =>
              \/ owed # {}
              \/ \E j \in Job : status[j] = "queued"
              \/ \E w \in Worker : GoesOn(w)
=============================================================================
