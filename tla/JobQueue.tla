------------------------------ MODULE JobQueue ------------------------------
(***************************************************************************)
(* What the job queue promises those who queue jobs and those whose data   *)
(* the jobs write, whatever becomes of workers, leases and heartbeats: a   *)
(* job is taken by one attempt after another, what it writes is written by *)
(* the latest of them, and it is settled once.                             *)
(***************************************************************************)
EXTENDS Integers

CONSTANTS
    Job,             \* the jobs that may ever be queued
    Irrevocable,     \* those that can no longer be cancelled once accepted
    CallLimit        \* how many judge calls each may make, 0 for any number

VARIABLES
    status,          \* where each job is
    attempts,        \* how often it was taken
    calls,           \* how many judge calls it was charged
    cancelRequested, \* somebody wants it cancelled
    accepted,        \* it has begun to do what cannot be undone
    writer           \* the attempt that wrote last, 0 before any write

row == <<attempts, calls, cancelRequested, accepted, writer>>

Settled == {"complete", "failed", "cancelled"}

Init ==
    /\ status = [j \in Job |-> "absent"]
    /\ attempts = [j \in Job |-> 0]
    /\ calls = [j \in Job |-> 0]
    /\ cancelRequested = [j \in Job |-> FALSE]
    /\ accepted = [j \in Job |-> FALSE]
    /\ writer = [j \in Job |-> 0]

\* A job comes into the queue, from a client or from another job.
Enter(j) ==
    /\ status[j] = "absent"
    /\ status' = [status EXCEPT ![j] = "queued"]
    /\ UNCHANGED row

\* A cancellation is wanted before it is too late.
RequestCancel(j) ==
    /\ status[j] \in {"queued", "running"}
    /\ ~accepted[j]
    /\ cancelRequested' = [cancelRequested EXCEPT ![j] = TRUE]
    /\ UNCHANGED <<status, attempts, calls, accepted, writer>>

\* The next attempt begins.
Take(j) ==
    /\ status[j] = "queued"
    /\ status' = [status EXCEPT ![j] = "running"]
    /\ attempts' = [attempts EXCEPT ![j] = @ + 1]
    /\ UNCHANGED <<calls, cancelRequested, accepted, writer>>

\* A judge call is charged, all attempts together up to the limit.
Charge(j) ==
    /\ status[j] = "running"
    /\ CallLimit[j] = 0 \/ calls[j] < CallLimit[j]
    /\ calls' = [calls EXCEPT ![j] = @ + 1]
    /\ UNCHANGED <<status, attempts, cancelRequested, accepted, writer>>

\* The latest attempt writes.
Write(j) ==
    /\ status[j] = "running"
    /\ writer' = [writer EXCEPT ![j] = attempts[j]]
    /\ accepted' = [accepted EXCEPT ![j] = @ \/ j \in Irrevocable]
    /\ UNCHANGED <<status, attempts, calls, cancelRequested>>

\* Attempts end without a result.
GiveBack(S) ==
    /\ \A j \in S : status[j] = "running"
    /\ status' = [j \in Job |-> IF j \in S THEN "queued" ELSE status[j]]
    /\ UNCHANGED row

\* The job is done with; cancelled only if somebody wanted it in time.
Settle(j, result) ==
    /\ status[j] = "running"
    /\ result = "cancelled" => cancelRequested[j] /\ ~accepted[j]
    /\ status' = [status EXCEPT ![j] = result]
    /\ UNCHANGED row

Next ==
    \/ \E j \in Job : \/ Enter(j) \/ RequestCancel(j) \/ Take(j) \/ Charge(j) \/ Write(j)
                      \/ \E result \in Settled : Settle(j, result)
    \/ \E S \in SUBSET Job : GiveBack(S)

Spec == Init /\ [][Next]_<<status, row>>

\* What follows for a row, however many attempts it took: its calls stay within its
\* limit, nobody has written for it who had not taken it, and it is cancelled only if
\* that was asked for and nothing irrevocable was begun.
Kept ==
    \A j \in Job :
        /\ CallLimit[j] # 0 => calls[j] <= CallLimit[j]
        /\ writer[j] <= attempts[j]
        /\ status[j] = "cancelled" => cancelRequested[j] /\ ~accepted[j]
=============================================================================
