---------------------------- MODULE Jobs_proofs ----------------------------
(***************************************************************************)
(* Theorems about Jobs, for every set of jobs and of workers, every call   *)
(* limit and every number of faults.                                       *)
(***************************************************************************)
EXTENDS Jobs, TLAPS

\* Every variable keeps its type: the columns of the jobs table and the fields
\* of a worker process only ever hold values the code writes there.
LEMMA TypeInit == Init => TypeOK
  BY LimitsAreNaturals
  DEF Init, TypeOK, Statuses, Leases, Stages, Terminal

LEMMA TypeNext == TypeOK /\ [Next]_vars => TypeOK'
<1> SUFFICES ASSUME TypeOK, [Next]_vars PROVE TypeOK'
  OBVIOUS
<1> USE LimitsAreNaturals
    DEF TypeOK, Statuses, Leases, Stages, Terminal, columns, process, history
<1>1. CASE UNCHANGED vars
  BY <1>1 DEF vars
<1>2. ASSUME NEW w \in Worker, Step(w) PROVE TypeOK'
  <2> USE DEF Forget, MoveTo, SettleAs, Fault, Requeue
  <2>1. CASE RecoverStale(w)
    BY <2>1 DEF RecoverStale
  <2>2. ASSUME NEW j \in Job, Peek(w, j) PROVE TypeOK'
    BY <2>2 DEF Peek
  <2>3. CASE Claim(w)
    BY <2>3 DEF Claim, Claimable
  <2>4. CASE ClaimRefused(w)
    BY <2>4 DEF ClaimRefused
  <2>5. CASE Discard(w)
    BY <2>5 DEF Discard
  <2>6. CASE Start(w)
    BY <2>6 DEF Start
  <2>7. CASE ConsumeCall(w)
    BY <2>7 DEF ConsumeCall
  <2>8. CASE CallRefused(w)
    BY <2>8 DEF CallRefused
  <2>9. CASE BeginWrite(w)
    BY <2>9 DEF BeginWrite
  <2>10. CASE CommitWrite(w)
    BY <2>10 DEF CommitWrite
  <2>11. CASE AbortWrite(w)
    BY <2>11 DEF AbortWrite
  <2>12. CASE Fail(w)
    BY <2>12 DEF Fail
  <2>13. CASE DecideExtraction(w)
    <3>1. CASE UNCHANGED <<status, available>>
      BY <2>13, <3>1 DEF DecideExtraction
    <3>2. ASSUME NEW k \in Job,
                 status' = [status EXCEPT ![k] = "queued"],
                 available' = [available EXCEPT ![k] = TRUE]
          PROVE  TypeOK'
      BY <2>13, <3>2 DEF DecideExtraction
    <3> QED
      BY <2>13, <3>1, <3>2 DEF DecideExtraction
  <2>14. CASE Return(w)
    BY <2>14 DEF Return
  <2>15. CASE CancelReindex(w)
    BY <2>15 DEF CancelReindex
  <2>16. CASE Busy(w)
    BY <2>16 DEF Busy
  <2>17. CASE Finish(w)
    BY <2>17 DEF Finish
  <2>18. CASE Defer(w)
    BY <2>18 DEF Defer
  <2>19. CASE SettleRefused(w)
    BY <2>19 DEF SettleRefused
  <2>20. CASE BeatRefused(w)
    BY <2>20 DEF BeatRefused
  <2>21. CASE BeatFails(w)
    BY <2>21 DEF BeatFails
  <2>22. CASE Crash(w)
    BY <2>22 DEF Crash
  <2> QED
    BY <1>2, <2>1, <2>2, <2>3, <2>4, <2>5, <2>6, <2>7, <2>8, <2>9, <2>10,
       <2>11, <2>12, <2>13, <2>14, <2>15, <2>16, <2>17, <2>18, <2>19, <2>20,
       <2>21, <2>22
    DEF Step
<1>3. ASSUME NEW j \in Job, Environment(j) PROVE TypeOK'
  <2>1. CASE Create(j)
    BY <2>1 DEF Create
  <2>2. CASE RequestCancel(j)
    BY <2>2 DEF RequestCancel
  <2>3. CASE LeaseExpires(j)
    BY <2>3 DEF LeaseExpires
  <2>4. CASE LeaseOverrun(j)
    BY <2>4 DEF LeaseOverrun, Fault
  <2>5. CASE BecomeAvailable(j)
    BY <2>5 DEF BecomeAvailable
  <2> QED
    BY <1>3, <2>1, <2>2, <2>3, <2>4, <2>5 DEF Environment
<1>4. CASE IndexLost
  <2>1. faults' \in Nat
    BY <1>4 DEF IndexLost, Fault
  <2>2. indexReady' \in BOOLEAN
    BY <1>4, Zenon DEF IndexLost
  <2> QED
    BY <1>4, <2>1, <2>2 DEF IndexLost
<1>5. CASE IndexBack
  BY <1>5 DEF IndexBack
<1> HIDE DEF TypeOK
<1> QED
  BY <1>1, <1>2, <1>3, <1>4, <1>5 DEF Next

\* The type invariant holds in every reachable state.
THEOREM TypeCorrect == Spec => []TypeOK
  BY TypeInit, TypeNext, PTL DEF Spec

-----------------------------------------------------------------------------
\* The claim invariant is established and kept.
LEMMA ClaimInit == Init => ClaimInv
  BY TasksAreNamed
  DEF Init, ClaimInv, OneCurrentRunner, WriterKeepsClaim, Active

LEMMA ClaimNext ==
    ASSUME TypeOK, ClaimInv, [Next]_vars
    PROVE  ClaimInv'
<1> USE DEF TypeOK, ClaimInv, OneCurrentRunner, WriterKeepsClaim, Active, columns, process, history
<1>1. CASE UNCHANGED vars
  BY <1>1 DEF vars
<1>2. ASSUME NEW w \in Worker, Step(w) PROVE ClaimInv'
  <2> USE DEF Forget, MoveTo, SettleAs, Fault, Requeue
  <2>1. CASE RecoverStale(w)
    BY <2>1 DEF RecoverStale, Stale, Unlocked
  <2>2. ASSUME NEW j \in Job, Peek(w, j) PROVE ClaimInv'
    BY <2>2 DEF Peek
  <2>3. CASE Claim(w)
    BY <2>3 DEF Claim, Claimable, Unlocked
  <2>4. CASE ClaimRefused(w)
    BY <2>4 DEF ClaimRefused
  <2>5. CASE Discard(w)
    BY <2>5 DEF Discard
  <2>6. CASE Start(w)
    <3>1. /\ pc[w] = "claimed"
          /\ pc' = [pc EXCEPT ![w] = "settling"] \/ pc' = [pc EXCEPT ![w] = "executing"]
          /\ UNCHANGED <<columns, rowLock, task, token>>
      BY <2>6 DEF Start
    <3> QED
      BY <3>1
  <2>7. CASE ConsumeCall(w)
    BY <2>7 DEF ConsumeCall
  <2>8. CASE CallRefused(w)
    BY <2>8 DEF CallRefused
  <2>9. CASE BeginWrite(w)
    <3>1. /\ pc[w] = "executing" /\ pc' = [pc EXCEPT ![w] = "writing"]
          /\ rowLock[task[w]] = NoWorker
          /\ rowLock' = [rowLock EXCEPT ![task[w]] = w]
          /\ status[task[w]] = "running" /\ holder[task[w]] = token[w]
          /\ UNCHANGED <<columns, task, token>>
      BY <2>9 DEF BeginWrite, Guard, Current, Unlocked
    <3>2. \A v \in Worker : pc'[v] = "writing" => rowLock'[task[v]] = v
      BY <3>1, TasksAreNamed
    <3>3. WriterKeepsClaim'
      BY <3>1, TasksAreNamed
    <3> QED
      BY <3>1, <3>2, <3>3
  <2>10. CASE CommitWrite(w)
    BY <2>10 DEF CommitWrite
  <2>11. CASE AbortWrite(w)
    BY <2>11 DEF AbortWrite
  <2>12. CASE Fail(w)
    BY <2>12 DEF Fail
  <2>13. CASE DecideExtraction(w)
    BY <2>13 DEF DecideExtraction, Guard, Current
  <2>14. CASE Return(w)
    BY <2>14 DEF Return
  <2>15. CASE CancelReindex(w)
    BY <2>15 DEF CancelReindex, Guard, Current
  <2>16. CASE Busy(w)
    BY <2>16 DEF Busy
  <2>17. CASE Finish(w)
    <3>1. /\ rowLock[task[w]] = NoWorker /\ rowLock' = rowLock
          /\ pc[w] = "settling" /\ pc' = [pc EXCEPT ![w] = "idle"]
          /\ task' = [task EXCEPT ![w] = NoJob] /\ token' = [token EXCEPT ![w] = 0]
          /\ \E s \in Terminal : status' = [status EXCEPT ![task[w]] = s]
          /\ holder' = [holder EXCEPT ![task[w]] = 0] /\ attempts' = attempts
      BY <2>17 DEF Finish, Current, Unlocked
    <3>2. \A j \in Job : holder'[j] = IF status'[j] = "running" THEN attempts'[j] ELSE 0
      BY <3>1 DEF Terminal
    <3>3. WriterKeepsClaim'
      BY <3>1, TasksAreNamed DEF Terminal
    <3> QED
      BY <3>1, <3>2, <3>3
  <2>18. CASE Defer(w)
    BY <2>18 DEF Defer, Current, Unlocked
  <2>19. CASE SettleRefused(w)
    BY <2>19 DEF SettleRefused
  <2>20. CASE BeatRefused(w)
    BY <2>20 DEF BeatRefused
  <2>21. CASE BeatFails(w)
    BY <2>21 DEF BeatFails
  <2>22. CASE Crash(w)
    BY <2>22 DEF Crash
  <2> QED
    BY <1>2, <2>1, <2>2, <2>3, <2>4, <2>5, <2>6, <2>7, <2>8, <2>9, <2>10, <2>11, <2>12, <2>13, <2>14, <2>15, <2>16, <2>17, <2>18, <2>19, <2>20, <2>21, <2>22
    DEF Step
<1>3. ASSUME NEW j \in Job, Environment(j) PROVE ClaimInv'
  <2>1. CASE Create(j)
    BY <2>1 DEF Create
  <2>2. CASE RequestCancel(j)
    BY <2>2 DEF RequestCancel
  <2>3. CASE LeaseExpires(j)
    BY <2>3 DEF LeaseExpires
  <2>4. CASE LeaseOverrun(j)
    BY <2>4 DEF LeaseOverrun, Fault
  <2>5. CASE BecomeAvailable(j)
    BY <2>5 DEF BecomeAvailable
  <2> QED
    BY <1>3, <2>1, <2>2, <2>3, <2>4, <2>5 DEF Environment
<1>4. CASE IndexLost
  BY <1>4 DEF IndexLost
<1>5. CASE IndexBack
  BY <1>5 DEF IndexBack
<1> HIDE DEF ClaimInv
<1> QED
  BY <1>1, <1>2, <1>3, <1>4, <1>5 DEF Next

\* The claims, the fence and the row lock are consistent in every reachable
\* state.
THEOREM ClaimsCorrect == Spec => []ClaimInv
  BY ClaimInit, ClaimNext, TypeCorrect, PTL DEF Spec

\* Nobody requeues or reclaims a job while a fenced transaction of it is open.
THEOREM WriterSafe == Spec => []WriterKeepsClaim
<1>1. ClaimInv => WriterKeepsClaim
  BY DEF ClaimInv
<1> QED
  BY <1>1, ClaimsCorrect, PTL

\* Two workers never work under the same claim.
THEOREM RunnerUnique == Spec => []OneCurrentRunner
<1>1. ClaimInv => OneCurrentRunner
  BY DEF ClaimInv
<1> QED
  BY <1>1, ClaimsCorrect, PTL

-----------------------------------------------------------------------------
\* Acceptance and cancellation.
LEMMA AcceptanceInit == Init => AcceptanceInv
  BY DEF Init, AcceptanceInv, Holds, Active, AcceptedErasureNotCancelled

LEMMA AcceptanceNext ==
    ASSUME TypeOK, ClaimInv, AcceptanceInv, [Next]_vars
    PROVE  AcceptanceInv'
<1> USE DEF TypeOK, ClaimInv, OneCurrentRunner, WriterKeepsClaim, Active,
           AcceptanceInv, Holds, AcceptedErasureNotCancelled,
           columns, process, history
<1>1. CASE UNCHANGED vars
  BY <1>1 DEF vars
<1>2. ASSUME NEW w \in Worker, Step(w) PROVE AcceptanceInv'
  <2> USE DEF Forget, MoveTo, SettleAs, Fault, Requeue
  <2>1. CASE RecoverStale(w)
    BY <2>1 DEF RecoverStale, Stale, Unlocked
  <2>2. ASSUME NEW j \in Job, Peek(w, j) PROVE AcceptanceInv'
    BY <2>2 DEF Peek
  <2>3. CASE Claim(w)
    BY <2>3 DEF Claim, Claimable, Unlocked
  <2>4. CASE ClaimRefused(w)
    BY <2>4 DEF ClaimRefused
  <2>5. CASE Discard(w)
    BY <2>5 DEF Discard
  <2>6. CASE Start(w)
    BY <2>6 DEF Start, Guard, Current
  <2>7. CASE ConsumeCall(w)
    BY <2>7 DEF ConsumeCall
  <2>8. CASE CallRefused(w)
    BY <2>8 DEF CallRefused
  <2>9. CASE BeginWrite(w)
    BY <2>9 DEF BeginWrite
  <2>10. CASE CommitWrite(w)
    <3>1. /\ pc[w] = "writing" /\ pc' = [pc EXCEPT ![w] = "executing"]
          /\ accepted' = [accepted EXCEPT ![task[w]] = @ \/ Kind[task[w]] = "erase"]
          /\ UNCHANGED <<status, holder, task, token, cleanupStarted, outcome>>
      BY <2>10 DEF CommitWrite
    <3>2. status[task[w]] = "running" /\ holder[task[w]] = token[w]
      BY <3>1, TasksAreNamed
    <3>3. ASSUME NEW v \in Worker, Holds(v)', v # w
          PROVE  task[v] # task[w] /\ accepted'[task[v]] = accepted[task[v]]
      BY <3>1, <3>2, <3>3
    <3>4. \A j \in Job : accepted'[j] => Kind[j] = "erase"
      BY <3>1
    <3>5. AcceptedErasureNotCancelled'
      BY <3>1, <3>2
    <3> QED
      BY <3>1, <3>3, <3>4, <3>5
  <2>11. CASE AbortWrite(w)
    BY <2>11 DEF AbortWrite
  <2>12. CASE Fail(w)
    BY <2>12 DEF Fail
  <2>13. CASE DecideExtraction(w)
    BY <2>13 DEF DecideExtraction, Guard, Current
  <2>14. CASE Return(w)
    BY <2>14 DEF Return
  <2>15. CASE CancelReindex(w)
    BY <2>15 DEF CancelReindex, Guard, Current
  <2>16. CASE Busy(w)
    BY <2>16 DEF Busy
  <2>17. CASE Finish(w)
    BY <2>17 DEF Finish, Current, Unlocked
  <2>18. CASE Defer(w)
    BY <2>18 DEF Defer, Current, Unlocked
  <2>19. CASE SettleRefused(w)
    BY <2>19 DEF SettleRefused
  <2>20. CASE BeatRefused(w)
    BY <2>20 DEF BeatRefused
  <2>21. CASE BeatFails(w)
    BY <2>21 DEF BeatFails
  <2>22. CASE Crash(w)
    BY <2>22 DEF Crash
  <2> QED
    BY <1>2, <2>1, <2>2, <2>3, <2>4, <2>5, <2>6, <2>7, <2>8, <2>9, <2>10, <2>11, <2>12, <2>13, <2>14, <2>15, <2>16, <2>17, <2>18, <2>19, <2>20, <2>21, <2>22
    DEF Step
<1>3. ASSUME NEW j \in Job, Environment(j) PROVE AcceptanceInv'
  <2>1. CASE Create(j)
    BY <2>1 DEF Create
  <2>2. CASE RequestCancel(j)
    BY <2>2 DEF RequestCancel
  <2>3. CASE LeaseExpires(j)
    BY <2>3 DEF LeaseExpires
  <2>4. CASE LeaseOverrun(j)
    BY <2>4 DEF LeaseOverrun, Fault
  <2>5. CASE BecomeAvailable(j)
    BY <2>5 DEF BecomeAvailable
  <2> QED
    BY <1>3, <2>1, <2>2, <2>3, <2>4, <2>5 DEF Environment
<1>4. CASE IndexLost
  BY <1>4 DEF IndexLost
<1>5. CASE IndexBack
  BY <1>5 DEF IndexBack
<1> HIDE DEF AcceptanceInv
<1> QED
  BY <1>1, <1>2, <1>3, <1>4, <1>5 DEF Next

\* However often an erasure is retried after its acceptance, and whatever was
\* requested before it, the job is never settled as cancelled.
THEOREM AcceptanceIrrevocable == Spec => []AcceptedErasureNotCancelled
<1>1. Spec => []AcceptanceInv
  BY AcceptanceInit, AcceptanceNext, TypeCorrect, ClaimsCorrect, PTL DEF Spec
<1>2. AcceptanceInv => AcceptedErasureNotCancelled
  BY DEF AcceptanceInv
<1> QED
  BY <1>1, <1>2, PTL

-----------------------------------------------------------------------------
\* How a running row comes to be another: its holder settles or defers it, or its
\* lease has expired and it goes back to the queue.
GivenUp(j) ==
    \/ status'[j] = "running"
    \/ status'[j] = "queued" /\ lease[j] = "expired"
    \/ lease[j] = "live" /\ \E w \in Worker :
          /\ task[w] = j /\ token[w] = holder[j]
          /\ pc[w] \in {"settling", "deferring"} /\ pc'[w] = "idle"

LEMMA RunningGivenUp ==
    ASSUME TypeOK, [Next]_vars, NEW j \in Job, status[j] = "running"
    PROVE  GivenUp(j)
<1> USE DEF TypeOK, GivenUp, columns, process
<1>1. CASE UNCHANGED vars
  BY <1>1 DEF vars
<1>2. ASSUME NEW w \in Worker, Step(w) PROVE GivenUp(j)
  <2>1. CASE RecoverStale(w)
    BY <2>1 DEF RecoverStale, Stale, Requeue
  <2>2. ASSUME NEW i \in Job, Peek(w, i) PROVE GivenUp(j)
    BY <2>2 DEF Peek
  <2>3. CASE Claim(w)
    BY <2>3 DEF Claim, Claimable
  <2>4. CASE ClaimRefused(w)
    BY <2>4 DEF ClaimRefused
  <2>5. CASE Discard(w)
    BY <2>5 DEF Discard
  <2>6. CASE Start(w)
    BY <2>6 DEF Start
  <2>7. CASE ConsumeCall(w)
    BY <2>7 DEF ConsumeCall
  <2>8. CASE CallRefused(w)
    BY <2>8 DEF CallRefused
  <2>9. CASE BeginWrite(w)
    BY <2>9 DEF BeginWrite
  <2>10. CASE CommitWrite(w)
    BY <2>10 DEF CommitWrite
  <2>11. CASE AbortWrite(w)
    BY <2>11 DEF AbortWrite
  <2>12. CASE Fail(w)
    BY <2>12 DEF Fail
  <2>13. CASE DecideExtraction(w)
    BY <2>13 DEF DecideExtraction
  <2>14. CASE Return(w)
    BY <2>14 DEF Return
  <2>15. CASE CancelReindex(w)
    BY <2>15 DEF CancelReindex
  <2>16. CASE Busy(w)
    BY <2>16 DEF Busy
  <2>17. CASE Finish(w)
    BY <2>17 DEF Finish, Current, Forget
  <2>18. CASE Defer(w)
    BY <2>18 DEF Defer, Current, Forget, Requeue
  <2>19. CASE SettleRefused(w)
    BY <2>19 DEF SettleRefused
  <2>20. CASE BeatRefused(w)
    BY <2>20 DEF BeatRefused
  <2>21. CASE BeatFails(w)
    BY <2>21 DEF BeatFails
  <2>22. CASE Crash(w)
    BY <2>22 DEF Crash
  <2> QED
    BY <1>2, <2>1, <2>2, <2>3, <2>4, <2>5, <2>6, <2>7, <2>8, <2>9, <2>10, <2>11, <2>12, <2>13, <2>14, <2>15, <2>16, <2>17, <2>18, <2>19, <2>20, <2>21, <2>22
    DEF Step
<1>3. ASSUME NEW i \in Job, Environment(i) PROVE GivenUp(j)
  BY <1>3 DEF Environment, Create, RequestCancel, LeaseExpires, LeaseOverrun, BecomeAvailable
<1>4. CASE IndexLost \/ IndexBack
  BY <1>4 DEF IndexLost, IndexBack
<1> HIDE DEF GivenUp
<1> QED
  BY <1>1, <1>2, <1>3, <1>4 DEF Next

\* A running job is settled or deferred by the process of the claim its row names, under a
\* live lease, or goes back to the queue because its lease has expired.
THEOREM RunningIsItsHolders == Spec => RunningLeftByHolder
<1>1. TypeOK /\ [Next]_vars =>
        [\A j \in Job : status[j] = "running" /\ status'[j] # "running" =>
            \/ status'[j] = "queued" /\ lease[j] = "expired"
            \/ lease[j] = "live" /\ \E w \in Worker :
                  /\ task[w] = j /\ token[w] = holder[j]
                  /\ pc[w] \in {"settling", "deferring"} /\ pc'[w] = "idle"]_vars
  BY RunningGivenUp DEF GivenUp
<1> QED
  BY <1>1, TypeCorrect, PTL DEF Spec, RunningLeftByHolder

-----------------------------------------------------------------------------
(***************************************************************************)
(* Jobs implements JobQueue.                                               *)
(***************************************************************************)
LEMMA CancellationNext ==
    ASSUME TypeOK, CancellationInv, [Next]_vars
    PROVE  CancellationInv'
<1> USE DEF TypeOK, CancellationInv, columns, process, history
<1>1. CASE UNCHANGED vars
  BY <1>1 DEF vars
<1>2. ASSUME NEW w \in Worker, Step(w) PROVE CancellationInv'
  <2> USE DEF Forget, MoveTo, SettleAs
  <2>1. CASE RecoverStale(w)
    BY <2>1 DEF RecoverStale
  <2>2. ASSUME NEW j \in Job, Peek(w, j) PROVE CancellationInv'
    BY <2>2 DEF Peek
  <2>3. CASE Claim(w)
    BY <2>3 DEF Claim
  <2>4. CASE ClaimRefused(w) \/ Discard(w)
    BY <2>4 DEF ClaimRefused, Discard
  <2>5. CASE Start(w)
    BY <2>5 DEF Start
  <2>6. CASE ConsumeCall(w)
    BY <2>6 DEF ConsumeCall
  <2>7. CASE CallRefused(w) \/ BeginWrite(w) \/ CommitWrite(w) \/ AbortWrite(w)
    BY <2>7 DEF CallRefused, BeginWrite, CommitWrite, AbortWrite
  <2>8. CASE Fail(w) \/ Return(w) \/ CancelReindex(w) \/ Busy(w)
    BY <2>8 DEF Fail, Return, CancelReindex, Busy
  <2>9. CASE DecideExtraction(w)
    BY <2>9 DEF DecideExtraction
  <2>10. CASE Finish(w) \/ Defer(w) \/ SettleRefused(w) \/ Crash(w)
    BY <2>10 DEF Finish, Defer, SettleRefused, Crash
  <2>11. CASE BeatRefused(w) \/ BeatFails(w)
    BY <2>11 DEF BeatRefused, BeatFails
  <2> QED
    BY <1>2, <2>1, <2>2, <2>3, <2>4, <2>5, <2>6, <2>7, <2>8, <2>9, <2>10, <2>11 DEF Step
<1>3. ASSUME NEW j \in Job, Environment(j) PROVE CancellationInv'
  BY <1>3 DEF Environment, Create, RequestCancel, LeaseExpires, LeaseOverrun, BecomeAvailable
<1>4. CASE IndexLost \/ IndexBack
  BY <1>4 DEF IndexLost, IndexBack
<1> HIDE DEF CancellationInv
<1> QED
  BY <1>1, <1>2, <1>3, <1>4 DEF Next

\* What the queue shows of a state.
shown == <<status, attempts, calls, cancelRequested, accepted, lastWriter>>

\* A step is a step of the queue, or the queue does not show it.
QueueStep == Queue!Next \/ UNCHANGED shown

\* A job that is queued enters the queue, by the API or by the job before it.
LEMMA Enters ==
    ASSUME NEW j \in Job, status[j] = "absent", status' = [status EXCEPT ![j] = "queued"],
           UNCHANGED <<attempts, calls, cancelRequested, accepted, lastWriter>>
    PROVE  QueueStep
  BY DEF QueueStep, Queue!Next, Queue!Enter, Queue!row

\* Rows that are released go back to the queue.
LEMMA GoBack ==
    ASSUME NEW S \in SUBSET Job, \A j \in S : status[j] = "running", Requeue(S),
           UNCHANGED <<attempts, calls, cancelRequested, accepted, lastWriter>>
    PROVE  QueueStep
<1>1. Queue!GiveBack(S)
  BY DEF Requeue, Queue!GiveBack, Queue!row
<1> QED
  BY <1>1 DEF QueueStep, Queue!Next

\* The worker that commits has the lock of the row, and so its latest claim.
LEMMA Writes ==
    ASSUME TypeOK, ClaimInv, NEW w \in Worker, CommitWrite(w)
    PROVE  QueueStep
<1>1. pc[w] = "writing" /\ task[w] \in Job /\ rowLock[task[w]] = w
  BY DEF CommitWrite, ClaimInv, TypeOK
<1>2. status[task[w]] = "running" /\ token[w] = attempts[task[w]]
  BY <1>1, TasksAreNamed DEF ClaimInv, WriterKeepsClaim
<1>3. (Kind[task[w]] = "erase") <=> (task[w] \in {j \in Job : Kind[j] = "erase"})
  BY <1>1
<1>4. Queue!Write(task[w])
  BY <1>1, <1>2, <1>3 DEF CommitWrite, Queue!Write, TypeOK
<1> QED
  BY <1>1, <1>4 DEF QueueStep, Queue!Next

\* The worker that settles works under the claim the row names: it would not cancel what
\* is accepted.
LEMMA Settles ==
    ASSUME TypeOK, ClaimInv, AcceptanceInv, CancellationInv, NEW w \in Worker, Finish(w)
    PROVE  QueueStep
<1>1. task[w] \in Job /\ outcome[w] \in Queue!Settled /\ pc[w] = "settling"
  BY DEF Finish, TypeOK, Terminal, Queue!Settled
<1>2. status[task[w]] = "running" /\ Holds(w)
  BY <1>1 DEF Finish, Current, Holds, Active
<1>3. outcome[w] = "cancelled" => cancelRequested[task[w]] /\ ~accepted[task[w]]
  BY <1>1, <1>2 DEF AcceptanceInv, CancellationInv
<1>4. Queue!Settle(task[w], outcome[w])
  BY <1>2, <1>3 DEF Finish, Queue!Settle, Queue!row, history
<1> QED
  BY <1>1, <1>4 DEF QueueStep, Queue!Next

LEMMA StepQueued ==
    ASSUME TypeOK, ClaimInv, AcceptanceInv, CancellationInv, [Next]_vars
    PROVE  QueueStep
<1>1. CASE UNCHANGED vars
  BY <1>1 DEF vars, columns, history, shown, QueueStep
<1>2. ASSUME NEW w \in Worker, Step(w) PROVE QueueStep
  <2>1. CASE RecoverStale(w)
    <3>1. PICK S \in SUBSET Job : (\A j \in S : status[j] = "running") /\ Requeue(S)
      BY <2>1 DEF RecoverStale, Stale
    <3> QED
      BY <2>1, <3>1, GoBack DEF RecoverStale, history
  <2>2. CASE Claim(w)
    <3>1. Queue!Take(task[w])
      BY <2>2 DEF Claim, Claimable, Queue!Take, history
    <3>2. task[w] \in Job
      BY <2>2 DEF Claim, TypeOK
    <3> QED
      BY <3>1, <3>2 DEF QueueStep, Queue!Next
  <2>3. CASE ConsumeCall(w)
    <3>1. Queue!Charge(task[w])
      BY <2>3 DEF ConsumeCall, CallsLeft, Queue!Charge, history
    <3>2. task[w] \in Job
      BY <2>3 DEF ConsumeCall, TypeOK
    <3> QED
      BY <3>1, <3>2 DEF QueueStep, Queue!Next
  <2>4. CASE CommitWrite(w)
    BY <2>4, Writes
  <2>5. CASE Finish(w)
    BY <2>5, Settles
  <2>6. CASE Defer(w)
    <3>1. task[w] \in Job /\ status[task[w]] = "running"
      BY <2>6 DEF Defer, Current, TypeOK
    <3> QED
      BY <2>6, <3>1, GoBack DEF Defer, history
  <2>7. CASE DecideExtraction(w)
    <3>1. CASE UNCHANGED <<status, available>>
      BY <2>7, <3>1 DEF DecideExtraction, QueueStep, shown, history
    <3>2. ASSUME NEW k \in Job, status[k] = "absent", status' = [status EXCEPT ![k] = "queued"]
          PROVE  QueueStep
      BY <2>7, <3>2, Enters DEF DecideExtraction, history
    <3> QED
      BY <2>7, <3>1, <3>2 DEF DecideExtraction
  <2>8. ASSUME UNCHANGED columns, UNCHANGED history
        PROVE  QueueStep
    BY <2>8 DEF columns, history, QueueStep, shown
  <2> QED
    BY <1>2, <2>1, <2>2, <2>3, <2>4, <2>5, <2>6, <2>7, <2>8
    DEF Step, Peek, ClaimRefused, Discard, Start, CallRefused, BeginWrite, AbortWrite, Fail,
        Return, CancelReindex, Busy, SettleRefused, BeatRefused, BeatFails, Crash
<1>3. ASSUME NEW j \in Job, Environment(j) PROVE QueueStep
  <2>1. CASE Create(j)
    BY <2>1, Enters DEF Create, history
  <2>2. CASE RequestCancel(j)
    <3>1. ~accepted[j]
      BY <2>2 DEF RequestCancel, AcceptanceInv
    <3>2. Queue!RequestCancel(j)
      BY <2>2, <3>1 DEF RequestCancel, Queue!RequestCancel, history
    <3> QED
      BY <3>2 DEF QueueStep, Queue!Next
  <2>3. CASE LeaseExpires(j) \/ LeaseOverrun(j) \/ BecomeAvailable(j)
    BY <2>3 DEF LeaseExpires, LeaseOverrun, BecomeAvailable, QueueStep, shown, history
  <2> QED
    BY <1>3, <2>1, <2>2, <2>3 DEF Environment
<1>4. CASE IndexLost \/ IndexBack
  BY <1>4 DEF IndexLost, IndexBack, columns, history, QueueStep, shown
<1> QED
  BY <1>1, <1>2, <1>3, <1>4 DEF Next

\* Workers, leases, heartbeats and the fence together are a queue: jobs are taken by one
\* attempt after another, written by the latest, charged up to their limit, and settled
\* once, as cancelled only when that was asked for in time.
THEOREM ImplementsQueue == Spec => QueueSpec
<1>1. Init => Queue!Init
  BY DEF Init, Queue!Init
<1>2. Spec => []AcceptanceInv
  BY AcceptanceInit, AcceptanceNext, TypeCorrect, ClaimsCorrect, PTL DEF Spec
<1>3. Init => CancellationInv
  BY DEF Init, CancellationInv
<1>4. Spec => []CancellationInv
  BY <1>3, CancellationNext, TypeCorrect, PTL DEF Spec
<1>5. TypeOK /\ ClaimInv /\ AcceptanceInv /\ CancellationInv /\ [Next]_vars
         => [Queue!Next]_<<status, Queue!row>>
  BY StepQueued DEF QueueStep, shown, Queue!row
<1> QED
  BY <1>1, <1>2, <1>4, <1>5, TypeCorrect, ClaimsCorrect, PTL DEF Spec, QueueSpec, Queue!Spec

-----------------------------------------------------------------------------
(***************************************************************************)
(* What the queue's promise says of the rows                               *)
(***************************************************************************)
\* The same of any step, with nothing said of workers.
LEMMA QueueSteps ==
    ASSUME TypeOK, QueueStep, NEW j \in Job
    PROVE  /\ lastWriter'[j] # lastWriter[j] =>
                 status[j] = "running" /\ lastWriter'[j] = attempts[j]
           /\ status[j] \in Terminal =>
                 /\ status'[j] = status[j] /\ attempts'[j] = attempts[j]
                 /\ calls'[j] = calls[j] /\ accepted'[j] = accepted[j]
                 /\ cancelRequested'[j] = cancelRequested[j]
                 /\ lastWriter'[j] = lastWriter[j]
<1> USE DEF TypeOK, Terminal, Queue!row
<1>1. CASE UNCHANGED shown
  BY <1>1 DEF shown
<1>2. ASSUME NEW i \in Job,
             \/ Queue!Enter(i) \/ Queue!RequestCancel(i) \/ Queue!Take(i)
             \/ Queue!Charge(i) \/ Queue!Write(i)
      PROVE  /\ lastWriter'[j] # lastWriter[j] =>
                   status[j] = "running" /\ lastWriter'[j] = attempts[j]
             /\ status[j] \in Terminal =>
                   /\ status'[j] = status[j] /\ attempts'[j] = attempts[j]
                   /\ calls'[j] = calls[j] /\ accepted'[j] = accepted[j]
                   /\ cancelRequested'[j] = cancelRequested[j]
                   /\ lastWriter'[j] = lastWriter[j]
  <2>1. CASE Queue!Enter(i)
    BY <2>1 DEF Queue!Enter
  <2>2. CASE Queue!RequestCancel(i)
    BY <2>2 DEF Queue!RequestCancel
  <2>3. CASE Queue!Take(i)
    BY <2>3 DEF Queue!Take
  <2>4. CASE Queue!Charge(i)
    BY <2>4 DEF Queue!Charge
  <2>5. CASE Queue!Write(i)
    BY <2>5 DEF Queue!Write
  <2> QED
    BY <1>2, <2>1, <2>2, <2>3, <2>4, <2>5
<1>3. ASSUME NEW i \in Job, NEW result, Queue!Settle(i, result)
      PROVE  /\ lastWriter' = lastWriter
             /\ status[j] \in Terminal => status'[j] = status[j]
             /\ UNCHANGED <<attempts, calls, accepted, cancelRequested>>
  BY <1>3 DEF Queue!Settle
<1>4. ASSUME NEW S \in SUBSET Job, Queue!GiveBack(S)
      PROVE  /\ lastWriter' = lastWriter
             /\ status[j] \in Terminal => status'[j] = status[j]
             /\ UNCHANGED <<attempts, calls, accepted, cancelRequested>>
  BY <1>4 DEF Queue!GiveBack
<1> QED
  BY <1>1, <1>2, <1>3, <1>4 DEF QueueStep, Queue!Next

LEMMA Queued == Spec => [][QueueStep]_vars
<1>1. (status' = status /\ Queue!row' = Queue!row) => UNCHANGED shown
  BY DEF shown, Queue!row
<1>2. [Queue!Next]_<<status, Queue!row>> => [QueueStep]_vars
  BY <1>1 DEF QueueStep
<1> QED
  BY <1>2, ImplementsQueue, PTL DEF QueueSpec, Queue!Spec

\* Every domain write that commits belongs to the latest claim of a running
\* job: an obsolete worker commits nothing.
THEOREM WritesFenced == Spec => WritesFollowClaims
<1>1. TypeOK /\ [QueueStep]_vars =>
        [\A j \in Job : lastWriter'[j] # lastWriter[j] =>
            status[j] = "running" /\ lastWriter'[j] = attempts[j]]_vars
  BY QueueSteps
<1> QED
  BY <1>1, Queued, TypeCorrect, PTL DEF WritesFollowClaims

\* A settled job stays as it was settled, whatever late worker still runs it.
THEOREM SettledFinal == Spec => SettledIsFinal
<1>1. TypeOK /\ [QueueStep]_vars =>
        [\A j \in Job : status[j] \in Terminal =>
            /\ status'[j] = status[j] /\ attempts'[j] = attempts[j]
            /\ calls'[j] = calls[j] /\ accepted'[j] = accepted[j]
            /\ cancelRequested'[j] = cancelRequested[j]
            /\ lastWriter'[j] = lastWriter[j]]_vars
  BY QueueSteps
<1> QED
  BY <1>1, Queued, TypeCorrect, PTL DEF SettledIsFinal

\* A step keeps that, whatever it does to a row.
LEMMA KeptNext ==
    ASSUME TypeOK, TypeOK', Queue!Kept, QueueStep
    PROVE  Queue!Kept'
<1> USE LimitsAreNaturals DEF TypeOK, Queue!Kept, Queue!row
<1>1. CASE UNCHANGED shown
  BY <1>1 DEF shown
<1>2. ASSUME NEW i \in Job, Queue!Enter(i) \/ Queue!RequestCancel(i)
      PROVE  Queue!Kept'
  BY <1>2 DEF Queue!Enter, Queue!RequestCancel
<1>3. ASSUME NEW i \in Job, Queue!Take(i) PROVE Queue!Kept'
  BY <1>3 DEF Queue!Take
<1>4. ASSUME NEW i \in Job, Queue!Charge(i) PROVE Queue!Kept'
  BY <1>4 DEF Queue!Charge
<1>5. ASSUME NEW i \in Job, Queue!Write(i) PROVE Queue!Kept'
  BY <1>5 DEF Queue!Write
<1>6. ASSUME NEW i \in Job, NEW result, Queue!Settle(i, result) PROVE Queue!Kept'
  BY <1>6 DEF Queue!Settle
<1>7. ASSUME NEW S \in SUBSET Job, Queue!GiveBack(S) PROVE Queue!Kept'
  BY <1>7 DEF Queue!GiveBack
<1> QED
  BY <1>1, <1>2, <1>3, <1>4, <1>5, <1>6, <1>7 DEF QueueStep, Queue!Next

\* Over all the claims a job ever had, its calls stay within its limit, what was written
\* was written under one of them, and it is cancelled only when that was asked for and
\* nothing irrevocable was begun.
THEOREM QueueKeepsWord == Spec => []Queue!Kept
<1>1. Init => Queue!Kept
  BY LimitsAreNaturals DEF Init, Queue!Kept
<1>2. TypeOK /\ TypeOK' /\ Queue!Kept /\ [QueueStep]_vars => Queue!Kept'
  <2>1. UNCHANGED vars => UNCHANGED shown
    BY DEF vars, columns, history, shown
  <2> QED
    BY <2>1, KeptNext DEF QueueStep
<1> QED
  BY <1>1, <1>2, Queued, TypeCorrect, PTL DEF Spec
=============================================================================
