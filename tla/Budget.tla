------------------------------- MODULE Budget -------------------------------
(***************************************************************************)
(* Spend control: the rows of `budget_reservations` and `judge_runs`, and  *)
(* the processes that reserve the worst cost of a provider call, make the  *)
(* call outside every transaction, and log what it did cost.               *)
(*                                                                         *)
(* Costs are counted in units of one call's worst cost: a call reserves 1  *)
(* and costs 0 or 1, and the monthly ceiling is Limit of them.             *)
(*                                                                         *)
(* reserve_budget reads the month's spend and the active reservations with *)
(* two statements of a READ COMMITTED transaction, and inserts with a      *)
(* third.  An advisory lock keeps other reservations out meanwhile, but    *)
(* logging a call does not take it, so the three are steps of their own.   *)
(*                                                                         *)
(* The rows are those of users who are not being erased: an erasure        *)
(* deletes the reservations and the judge runs of its user.                *)
(***************************************************************************)
EXTENDS Integers, FiniteSets

CONSTANTS
    Caller,         \* the processes that call the provider
    Job,            \* the jobs whose handlers call it
    Reservation,    \* the reservation ids that may ever be drawn
    NoJob,          \* the job_id column of a call made for no job
    NoCaller,       \* the holder of a lock nobody has
    NoReservation,  \* what a caller has before it reserves
    Limit,          \* the monthly ceiling
    CallLimit,      \* the call_limit of every job, 0 for unlimited
    Months,         \* bound on the months that pass
    MaxFaults       \* bound on crashes and overrun leases

ASSUME NamesAreApart ==
    NoJob \notin Job /\ NoCaller \notin Caller /\ NoReservation \notin Reservation
ASSUME ReservationsAreFinite == IsFiniteSet(Reservation)
ASSUME BoundsAreNaturals ==
    /\ Limit \in Nat /\ CallLimit \in Nat /\ MaxFaults \in Nat
    /\ Months \in Nat \ {0}

VARIABLES
    month,                          \* the current UTC month
    spent,                          \* SUM(judge_runs.cost_usd) of each month
    resStatus, resPeriod, resJob,   \* columns of budget_reservations
    state, owner, stale, calls,     \* columns of jobs: status, holder, an
                                    \* expired lease, calls_completed
    lock,                           \* the advisory lock "budget:<period>"
    pc, job, period, seen, mine,    \* a caller: where it is, what for, the
                                    \* period it computed, the spend it read,
                                    \* its reservation
    faults,
    stray                           \* history: see OvershootIsStray

reservations == <<resStatus, resPeriod, resJob>>
jobs == <<state, owner, stale, calls>>
callers == <<pc, job, period, seen, mine>>
vars == <<month, spent, reservations, jobs, lock, callers, faults, stray>>

Period == 1 .. Months
Stages == {"idle", "ready", "reading", "checking", "reserved", "calling", "releasing",
           "finishing"}

TypeOK ==
    /\ month \in Period
    /\ spent \in [Period -> Nat]
    /\ resStatus \in [Reservation -> {"none", "active", "reconciled", "released"}]
    /\ resPeriod \in [Reservation -> Period]
    /\ resJob \in [Reservation -> Job \union {NoJob}]
    /\ state \in [Job -> {"queued", "running", "settled"}]
    /\ owner \in [Job -> Caller \union {NoCaller}]
    /\ stale \in [Job -> BOOLEAN]
    /\ calls \in [Job -> Nat]
    /\ lock \in [Period -> Caller \union {NoCaller}]
    /\ pc \in [Caller -> Stages]
    /\ job \in [Caller -> Job \union {NoJob}]
    /\ period \in [Caller -> Period]
    /\ seen \in [Caller -> Nat]
    /\ mine \in [Caller -> Reservation \union {NoReservation}]
    /\ faults \in Nat
    /\ stray \in [Period -> Nat]
    \* a caller past its reservation has one, and only jobs count calls
    /\ \A c \in Caller : pc[c] \in {"reserved", "calling", "releasing"} =>
                            mine[c] \in Reservation
    /\ \A c \in Caller : pc[c] \in {"reserved", "releasing"} => job[c] \in Job

Init ==
    /\ month = 1
    /\ spent = [p \in Period |-> 0]
    /\ resStatus = [r \in Reservation |-> "none"]
    /\ resPeriod = [r \in Reservation |-> 1]
    /\ resJob = [r \in Reservation |-> NoJob]
    /\ state = [j \in Job |-> "queued"]
    /\ owner = [j \in Job |-> NoCaller]
    /\ stale = [j \in Job |-> FALSE]
    /\ calls = [j \in Job |-> 0]
    /\ lock = [p \in Period |-> NoCaller]
    /\ pc = [c \in Caller |-> "idle"]
    /\ job = [c \in Caller |-> NoJob]
    /\ period = [c \in Caller |-> 1]
    /\ seen = [c \in Caller |-> 0]
    /\ mine = [c \in Caller |-> NoReservation]
    /\ faults = 0
    /\ stray = [p \in Period |-> 0]

-----------------------------------------------------------------------------
\* The sums reserve_budget reads.

Active(p) == {r \in Reservation : resStatus[r] = "active" /\ resPeriod[r] = p}

Held(p) == Cardinality(Active(p))

Reading(p) == {c \in Caller : pc[c] = "reading" /\ period[c] = p}

MoveTo(c, stage) == pc' = [pc EXCEPT ![c] = stage]

\* A job's handler returns to be settled, a request just ends.
Conclude(c) == MoveTo(c, IF job[c] = NoJob THEN "idle" ELSE "finishing")

\* reserve_budget returns, and with it the locals of its transaction.
EndReserve(c) ==
    /\ lock' = [p \in Period |-> IF lock[p] = c THEN NoCaller ELSE lock[p]]
    /\ period' = [period EXCEPT ![c] = 1]
    /\ seen' = [seen EXCEPT ![c] = 0]

\* The caller has done with its reservation.
Discharge(c) == mine' = [mine EXCEPT ![c] = NoReservation]

Fault == faults < MaxFaults /\ faults' = faults + 1

-----------------------------------------------------------------------------
\* Work that calls the provider.

\* jobs.claim, for a job whose handler will call the provider.
Claim(c, j) ==
    /\ pc[c] = "idle"
    /\ state[j] = "queued"
    /\ state' = [state EXCEPT ![j] = "running"]
    /\ owner' = [owner EXCEPT ![j] = c]
    /\ job' = [job EXCEPT ![c] = j]
    /\ MoveTo(c, "ready")
    /\ UNCHANGED <<month, spent, reservations, stale, calls, lock, period, seen,
                   mine, faults, stray>>

\* A merge, a query rewrite or a forget: a call with no job_id.
Ask(c) ==
    /\ pc[c] = "idle"
    /\ MoveTo(c, "ready")
    /\ UNCHANGED <<month, spent, reservations, jobs, lock, job, period, seen,
                   mine, faults, stray>>

\* Mutant of ReadSpend: no advisory lock.
ReadSpendUnlocked(c) ==
    /\ pc[c] = "ready"
    /\ period' = [period EXCEPT ![c] = month]
    /\ seen' = [seen EXCEPT ![c] = spent[month]]
    /\ MoveTo(c, "reading")
    /\ UNCHANGED <<month, spent, reservations, jobs, lock, job, mine, faults, stray>>

\* jobs.reserve_budget, up to its first SELECT: the period is the month now,
\* the lock is taken, the spend logged so far is read.
ReadSpend(c) ==
    /\ pc[c] = "ready"
    /\ lock[month] = NoCaller
    /\ lock' = [lock EXCEPT ![month] = c]
    /\ period' = [period EXCEPT ![c] = month]
    /\ seen' = [seen EXCEPT ![c] = spent[month]]
    /\ MoveTo(c, "reading")
    /\ UNCHANGED <<month, spent, reservations, jobs, job, mine, faults, stray>>

\* Its second SELECT: the reservations that are active now.
ReadReserved(c) ==
    /\ pc[c] = "reading"
    /\ seen' = [seen EXCEPT ![c] = @ + Held(period[c])]
    /\ MoveTo(c, "checking")
    /\ UNCHANGED <<month, spent, reservations, jobs, lock, job, period, mine,
                   faults, stray>>

HasRoom(c) == seen[c] + 1 <= Limit

\* The id drawn for the next reservation; which one it is does not matter.
Unused == CHOOSE r \in Reservation : resStatus[r] = "none"

\* There is room, and the reservation commits.
Reserve(c) ==
    /\ pc[c] = "checking"
    /\ HasRoom(c)
    /\ \E r \in Reservation :
          /\ resStatus[r] = "none" /\ r = Unused
          /\ resStatus' = [resStatus EXCEPT ![r] = "active"]
          /\ resPeriod' = [resPeriod EXCEPT ![r] = period[c]]
          /\ resJob' = [resJob EXCEPT ![r] = job[c]]
          /\ mine' = [mine EXCEPT ![c] = r]
    /\ EndReserve(c)
    /\ MoveTo(c, IF job[c] = NoJob THEN "calling" ELSE "reserved")
    /\ UNCHANGED <<month, spent, jobs, job, faults, stray>>

\* Mutant of ReserveRefused: the exception is swallowed and the call made.
ReserveRefusedIgnored(c) ==
    /\ pc[c] = "checking"
    /\ ~HasRoom(c)
    /\ EndReserve(c)
    /\ MoveTo(c, "calling")
    /\ UNCHANGED <<month, spent, reservations, jobs, job, mine, faults, stray>>

\* BudgetExceeded.  The bound on ids refuses too: the model makes no more calls.
ReserveRefused(c) ==
    /\ pc[c] = "checking"
    /\ HasRoom(c) => \A r \in Reservation : resStatus[r] # "none"
    /\ EndReserve(c)
    /\ Conclude(c)
    /\ UNCHANGED <<month, spent, reservations, jobs, job, mine, faults, stray>>

CallsLeft(j) == state[j] = "running" /\ (CallLimit = 0 \/ calls[j] < CallLimit)

\* jobs.consume_call: the call is counted and made.
ConsumeCall(c) ==
    /\ pc[c] = "reserved"
    /\ CallsLeft(job[c])
    /\ calls' = [calls EXCEPT ![job[c]] = @ + 1]
    /\ MoveTo(c, "calling")
    /\ UNCHANGED <<month, spent, reservations, state, owner, stale, lock, job,
                   period, seen, mine, faults, stray>>

\* CallLimitExceeded.
CallRefused(c) ==
    /\ pc[c] = "reserved"
    /\ ~CallsLeft(job[c])
    /\ MoveTo(c, "releasing")
    /\ UNCHANGED <<month, spent, reservations, jobs, lock, job, period, seen,
                   mine, faults, stray>>

\* jobs.release_budget: given back if recovery has not already done so; if it
\* has, the error ends the handler all the same.
Release(c) ==
    /\ pc[c] = "releasing"
    /\ resStatus' = [resStatus EXCEPT ![mine[c]] =
                        IF @ = "active" THEN "released" ELSE @]
    /\ Discharge(c)
    /\ Conclude(c)
    /\ UNCHANGED <<month, spent, resPeriod, resJob, jobs, lock, job, period,
                   seen, faults, stray>>

\* The cost of c's call, logged now, is still reserved in this month and no
\* reservation is half-way through reading the month's sums.
Counted(c) ==
    /\ resStatus[mine[c]] = "active"
    /\ resPeriod[mine[c]] = month
    /\ Reading(month) = {}

\* The transaction after the call: the run is logged with what it cost and the
\* reservation is reconciled, whatever its status.  The handler goes on to its
\* next call, or is done.
Log(c) ==
    /\ pc[c] = "calling"
    /\ \E cost \in {0, 1} :
          /\ spent' = [spent EXCEPT ![month] = @ + cost]
          /\ stray' = [stray EXCEPT ![month] = @ + IF Counted(c) THEN 0 ELSE cost]
    /\ resStatus' = [resStatus EXCEPT ![mine[c]] = "reconciled"]
    /\ Discharge(c)
    /\ \/ Conclude(c)
       \/ MoveTo(c, "ready")
    /\ UNCHANGED <<month, resPeriod, resJob, jobs, lock, job, period, seen,
                   faults>>

\* jobs.finish by the current holder; an obsolete one is refused.
Finish(c) ==
    /\ pc[c] = "finishing"
    /\ IF owner[job[c]] = c /\ ~stale[job[c]]
         THEN /\ state' = [state EXCEPT ![job[c]] = "settled"]
              /\ owner' = [owner EXCEPT ![job[c]] = NoCaller]
         ELSE UNCHANGED <<state, owner>>
    /\ MoveTo(c, "idle")
    /\ job' = [job EXCEPT ![c] = NoJob]
    /\ UNCHANGED <<month, spent, reservations, stale, calls, lock, period, seen,
                   mine, faults, stray>>

-----------------------------------------------------------------------------
\* Failure, recovery and time.

\* The process dies: its transaction and its lock are gone, its reservation
\* stays, and a call in flight is never logged.
Crash(c) ==
    /\ pc[c] # "idle"
    /\ Fault
    /\ EndReserve(c)
    /\ Discharge(c)
    /\ MoveTo(c, "idle")
    /\ job' = [job EXCEPT ![c] = NoJob]
    /\ UNCHANGED <<month, spent, reservations, jobs, stray>>

Working(j) == \E c \in Caller : owner[j] = c /\ job[c] = j /\ pc[c] # "idle"

LeaseExpires(j) ==
    /\ state[j] = "running" /\ ~stale[j]
    /\ ~Working(j)
    /\ stale' = [stale EXCEPT ![j] = TRUE]
    /\ UNCHANGED <<month, spent, reservations, state, owner, calls, lock,
                   callers, faults, stray>>

\* The lease runs out although the holder still works, perhaps on a call.
LeaseOverrun(j) ==
    /\ state[j] = "running" /\ ~stale[j]
    /\ Working(j)
    /\ Fault
    /\ stale' = [stale EXCEPT ![j] = TRUE]
    /\ UNCHANGED <<month, spent, reservations, state, owner, calls, lock,
                   callers, stray>>

\* Mutants of Abandoned: recovery looks only at the jobs that are stale now and
\* misses what a late caller reserved, or takes the reservations of any job.
AbandonedByStale ==
    {r \in Reservation : /\ resStatus[r] = "active"
                         /\ resJob[r] \in Job
                         /\ stale[resJob[r]]}
AbandonedByAny ==
    {r \in Reservation : resStatus[r] = "active" /\ resJob[r] \in Job}

\* Active reservations of jobs that are stale, or not running at all.
Abandoned ==
    {r \in Reservation : /\ resStatus[r] = "active"
                         /\ resJob[r] \in Job
                         /\ state[resJob[r]] # "running" \/ stale[resJob[r]]}

\* jobs.recover_stale.
Recover ==
    /\ Abandoned # {} \/ \E j \in Job : stale[j]
    /\ resStatus' = [r \in Reservation |->
                        IF r \in Abandoned THEN "released" ELSE resStatus[r]]
    /\ state' = [j \in Job |-> IF stale[j] THEN "queued" ELSE state[j]]
    /\ owner' = [j \in Job |-> IF stale[j] THEN NoCaller ELSE owner[j]]
    /\ stale' = [j \in Job |-> FALSE]
    /\ UNCHANGED <<month, spent, resPeriod, resJob, calls, lock, callers, faults,
                   stray>>

NextMonth ==
    /\ month < Months
    /\ month' = month + 1
    /\ UNCHANGED <<spent, reservations, jobs, lock, callers, faults, stray>>

-----------------------------------------------------------------------------
Step(c) ==
    \/ ReadSpend(c) \/ ReadReserved(c) \/ Reserve(c) \/ ReserveRefused(c)
    \/ ConsumeCall(c) \/ CallRefused(c) \/ Release(c)
    \/ Log(c) \/ Finish(c)

Next ==
    \/ \E c \in Caller : Step(c) \/ Ask(c) \/ Crash(c) \/ \E j \in Job : Claim(c, j)
    \/ \E j \in Job : LeaseExpires(j) \/ LeaseOverrun(j)
    \/ Recover
    \/ NextMonth

Spec == Init /\ [][Next]_vars

(***************************************************************************)
(* A provider call ends (it has a timeout) and its caller goes on;         *)
(* Postgres grants an advisory lock in the order it was asked for; every   *)
(* worker's loop runs recovery; an abandoned lease runs out.               *)
(***************************************************************************)
FairSpec ==
    /\ Spec
    /\ \A c \in Caller : WF_vars(Step(c)) /\ SF_vars(ReadSpend(c))
    /\ \A j \in Job : WF_vars(LeaseExpires(j))
    /\ WF_vars(Recover)

-----------------------------------------------------------------------------
\* Correctness.

\* The ceiling the documentation promises: the month's spend and its active
\* reservations never exceed it.
CeilingHolds == \A p \in Period : spent[p] + Held(p) <= Limit

\* What the code does guarantee, through crashes, recoveries, late answers and
\* the turn of a month: every unit over the ceiling is a call that was logged
\* into the month when no active reservation of that month covered it
\* (recovery had released it, or it was of the month before), or while another
\* caller stood between its two reads.
OvershootIsStray == \A p \in Period : spent[p] + Held(p) <= Limit + stray[p]

\* While a call is in flight for a job its caller still owns, or for no job,
\* its worst cost is reserved: recovery takes back only what was abandoned.
CallsAreCovered ==
    \A c \in Caller :
        pc[c] = "calling" /\ (job[c] = NoJob \/ owner[job[c]] = c) =>
            resStatus[mine[c]] = "active"

\* Why OvershootIsStray holds: the lock leaves each month one reservation at a
\* time, and what that one has not seen of the month's sums is stray.
ReserverInv ==
    /\ \A c \in Caller : pc[c] \in {"reading", "checking"} => lock[period[c]] = c
    /\ \A c \in Caller : pc[c] = "reading" =>
          spent[period[c]] <= seen[c] + stray[period[c]]
    /\ \A c \in Caller : pc[c] = "checking" =>
          spent[period[c]] + Held(period[c]) <= seen[c] + stray[period[c]]
    /\ OvershootIsStray

\* Why CallsAreCovered holds: a running job has one owner, a caller's reservation
\* is its own and made for the job it works on, and it stays active as long as
\* the caller owns that job.
CoverInv ==
    /\ \A j \in Job : /\ state[j] = "running" <=> owner[j] # NoCaller
                      /\ stale[j] => state[j] = "running"
    /\ \A c, d \in Caller : mine[c] = mine[d] /\ mine[c] # NoReservation => c = d
    /\ \A c \in Caller : mine[c] # NoReservation =>
          /\ pc[c] \in {"reserved", "calling", "releasing"}
          /\ resStatus[mine[c]] # "none"
          /\ resJob[mine[c]] = job[c]
          /\ job[c] = NoJob \/ owner[job[c]] = c => resStatus[mine[c]] = "active"

\* A reservation made for a job is given back: logged, released by its caller,
\* or released by recovery.
JobReservationsSettle ==
    \A r \in Reservation :
        (resStatus[r] = "active" /\ resJob[r] # NoJob) ~> (resStatus[r] # "active")
=============================================================================
