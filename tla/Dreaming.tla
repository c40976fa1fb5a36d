------------------------------ MODULE Dreaming ------------------------------
(***************************************************************************)
(* Dreaming over one scope: which memories a dream looks at, which it      *)
(* marks as dreamed, and that two dreams do not write the same inference.  *)
(*                                                                         *)
(* A dream starts after the highest watermark of a completed dream, lists  *)
(* the memories that changed since, asks the judge about some of them and  *)
(* their neighbours, one cluster at a time, and leaves a watermark at the  *)
(* last memory up to which nothing failed.  Memories are ordered by the    *)
(* time of their change and then by id; the time is taken when the change  *)
(* is made, and others see it when its transaction commits.                *)
(*                                                                         *)
(* What an applied answer does to memories is in MemoryLifecycle, what a   *)
(* call costs in Budget, leases and their renewal in Jobs.                 *)
(***************************************************************************)
EXTENDS Naturals, FiniteSets

CONSTANTS
    Memory,      \* ids of memories, ordered: a set of naturals
    Job,         \* ids of dream jobs
    Worker,      \* processes that run them
    Text,        \* what an inference may say
    NoJob,
    NoWorker,
    NoText,
    MaxClusters, \* clusters, and calls, of one dream
    MaxTime,     \* transactions that change memories
    MaxFaults    \* crashes, lapsed leases, failed calls, deferrals

ASSUME DreamingAssumption ==
    /\ Memory \subseteq Nat \ {0} /\ IsFiniteSet(Memory)
    /\ NoJob \notin Job
    /\ NoWorker \notin Worker
    /\ NoText \notin Text
    /\ MaxClusters \in Nat \ {0}
    /\ MaxTime \in Nat
    /\ MaxFaults \in Nat

VARIABLES
    changed,  \* memories.updated_at of a live memory; 0 while there is none
    open,     \* the time a transaction that has not committed has given it; 0 if none has
    clock,
    job,      \* the dream jobs of the scope
    worker,   \* what each worker does
    inferred, \* live inferences that say a text
    looked,   \* history: memories a dream has finished with as they are now, or could not see
    unseen,   \* history: memories whose open change was not committed when a dream read its list
    faults

vars == <<changed, open, clock, job, worker, inferred, looked, unseen, faults>>

memories == <<changed, open, clock>>
history == <<looked, unseen>>

Time == 0..MaxTime
Version == [at : Time, id : Memory \union {0}]

\* Nothing is before it; a job without a watermark has it.
Start == [at |-> 0, id |-> 0]

\* The order of the list, and of watermarks: (updated_at, id).
Before(a, b) == a.at < b.at \/ (a.at = b.at /\ a.id < b.id)
UpTo(a, b) == Before(a, b) \/ a = b

\* The versions that can be read.
Live == {[at |-> changed[m], id |-> m] : m \in {n \in Memory : changed[n] > 0}}

JobRow == [status : {"none", "queued", "running", "complete", "failed"},
           holder : Worker \union {NoWorker}, calls : 0..MaxClusters, mark : Version]
NoJobRow == [status |-> "none", holder |-> NoWorker, calls |-> 0, mark |-> Start]

\* `list` is what was read, `seeds` what of it is still to be asked about, `mark`
\* the last version before which nothing failed, `text` the inference of the answer.
Idle == [pc |-> "idle", job |-> NoJob, list |-> {}, seeds |-> {}, mark |-> Start,
         text |-> NoText, stated |-> FALSE]

\* The types; a busy worker has a job, and holds it inside its transaction.
TypeOK ==
    /\ changed \in [Memory -> Time]
    /\ open \in [Memory -> Time]
    /\ clock \in Time
    /\ job \in [Job -> JobRow]
    /\ worker \in [Worker -> [pc : {"idle", "claimed", "ask", "answered", "apply", "fail", "defer"},
                              job : Job \union {NoJob}, list : SUBSET Version,
                              seeds : SUBSET Version, mark : Version,
                              text : Text \union {NoText}, stated : BOOLEAN]]
    /\ inferred \in [Text -> Nat]
    /\ looked \subseteq Memory
    /\ unseen \subseteq Memory
    /\ faults \in 0..MaxFaults
    /\ \A w \in Worker :
         /\ worker[w].pc # "idle" => worker[w].job \in Job
         /\ worker[w].pc = "apply" =>
               job[worker[w].job].status = "running" /\ job[worker[w].job].holder = w

Init ==
    /\ changed = [m \in Memory |-> 0]
    /\ open = [m \in Memory |-> 0]
    /\ clock = 0
    /\ job = [j \in Job |-> NoJobRow]
    /\ worker = [w \in Worker |-> Idle]
    /\ inferred = [t \in Text |-> 0]
    /\ looked = {}
    /\ unseen = {}
    /\ faults = 0

Fault == faults < MaxFaults /\ faults' = faults + 1

(***************************************************************************)
(* Memories                                                                *)
(***************************************************************************)

\* One transaction writes some memories, all with the time it was begun at.
Change(M) ==
    /\ M # {}
    /\ \A m \in M : open[m] = 0
    /\ clock < MaxTime
    /\ clock' = clock + 1
    /\ open' = [m \in Memory |-> IF m \in M THEN clock + 1 ELSE open[m]]
    /\ UNCHANGED <<changed, job, worker, inferred, history, faults>>

\* It commits, sooner or later than others.
Commit(time) ==
    LET M == {m \in Memory : open[m] = time}
    IN  /\ M # {}
        /\ changed' = [m \in Memory |-> IF m \in M THEN time ELSE changed[m]]
        /\ open' = [m \in Memory |-> IF m \in M THEN 0 ELSE open[m]]
        /\ looked' = (looked \ M) \union (unseen \intersect M)
        /\ unseen' = unseen \ M
        /\ UNCHANGED <<clock, job, worker, inferred, faults>>

(***************************************************************************)
(* The queue                                                               *)
(***************************************************************************)

\* Mutant of Pending: only a dream that waits.
PendingQueued == {j \in Job : job[j].status = "queued"}

Pending == {j \in Job : job[j].status \in {"queued", "running"}}

\* dream.queue, under the lock of the scope, after an extraction or on request.  A
\* dream that waits or runs is handed out instead of a new one.
Queue ==
    /\ Live # {}
    /\ Pending = {}
    /\ \E j \in Job :
         /\ job[j].status = "none"
         /\ job' = [job EXCEPT ![j] = [NoJobRow EXCEPT !.status = "queued"]]
    /\ UNCHANGED <<memories, worker, inferred, history, faults>>

Claim(w, j) ==
    /\ worker[w].pc = "idle"
    /\ job[j].status = "queued"
    /\ job' = [job EXCEPT ![j].status = "running", ![j].holder = w]
    /\ worker' = [worker EXCEPT ![w].pc = "claimed", ![w].job = j]
    /\ UNCHANGED <<memories, inferred, history, faults>>

(***************************************************************************)
(* dream.run                                                               *)
(***************************************************************************)
Holds(w) ==
    /\ job[worker[w].job].status = "running"
    /\ job[worker[w].job].holder = w

Goto(w, pc) == worker' = [worker EXCEPT ![w].pc = pc]

\* last_dreamed: the highest watermark of the completed dreams.
LastDreamed ==
    LET marks == {job[j].mark : j \in {i \in Job : job[i].status = "complete"}} \union {Start}
    IN  CHOOSE a \in marks : \A b \in marks : UpTo(b, a)

\* The last of some versions.
Last(versions) == CHOOSE a \in versions \union {Start} : \A b \in versions : UpTo(b, a)

\* plan_clusters: at most MaxClusters of the list seed a cluster, and nothing after
\* the last one that fits has been looked at.
Considered(list, seeds) ==
    IF Cardinality(seeds) = MaxClusters THEN {v \in list : UpTo(v, Last(seeds))} ELSE list

\* fresh_memories and plan_clusters.  Which memories have neighbours is any choice.
Look(w) ==
    /\ worker[w].pc = "claimed"
    /\ Holds(w)
    /\ LET list == {v \in Live : Before(LastDreamed, v)}
       IN  \E seeds \in SUBSET list :
             /\ Cardinality(seeds) <= MaxClusters
             /\ worker' = [worker EXCEPT ![w] =
                  [@ EXCEPT !.pc = "ask", !.list = list, !.seeds = seeds,
                            !.mark = Last(Considered(list, seeds))]]
             /\ looked' = looked \union {v.id : v \in Considered(list, seeds) \ seeds}
    /\ unseen' = {m \in Memory : open[m] > 0}
    /\ UNCHANGED <<memories, job, inferred, faults>>

\* The cluster that is asked about next.
Seed(w) == CHOOSE a \in worker[w].seeds : \A b \in worker[w].seeds : UpTo(a, b)

\* The memory before a seed in the list.
Preceding(w, seed) == Last({v \in worker[w].list : Before(v, seed)})

\* Mutant of AfterFailure: the cluster counts as done.
AfterFailureDone(w, seed) == worker[w].mark

\* done = min(done, seed)
AfterFailure(w, seed) ==
    IF Before(Preceding(w, seed), worker[w].mark) THEN Preceding(w, seed) ELSE worker[w].mark

\* The judge is asked; before every call the claim is checked.
Ask(w) ==
    /\ worker[w].pc = "ask"
    /\ worker[w].seeds # {}
    /\ Holds(w)
    /\ job[worker[w].job].calls < MaxClusters
    /\ job' = [job EXCEPT ![worker[w].job].calls = @ + 1]
    /\ \E text \in Text \union {NoText} :
         worker' = [worker EXCEPT ![w].pc = "answered", ![w].text = text]
    /\ UNCHANGED <<memories, inferred, history, faults>>

\* The call fails: the next cluster is asked about.
AskFails(w) ==
    /\ worker[w].pc = "ask"
    /\ worker[w].seeds # {}
    /\ Holds(w)
    /\ job[worker[w].job].calls < MaxClusters
    /\ Fault
    /\ job' = [job EXCEPT ![worker[w].job].calls = @ + 1]
    /\ worker' = [worker EXCEPT ![w] =
         [worker[w] EXCEPT !.seeds = @ \ {Seed(w)}, !.mark = AfterFailure(w, Seed(w))]]
    /\ UNCHANGED <<memories, inferred, history>>

\* The calls of the job are used up, perhaps by an earlier attempt, or the month's
\* ceiling is reached: the dream ends.
AskRefused(w) ==
    /\ worker[w].pc = "ask"
    /\ worker[w].seeds # {}
    /\ Holds(w)
    /\ IF job[worker[w].job].calls = MaxClusters THEN UNCHANGED faults ELSE Fault
    /\ worker' = [worker EXCEPT ![w] =
         [@ EXCEPT !.seeds = {}, !.mark = AfterFailure(w, Seed(w))]]
    /\ UNCHANGED <<memories, job, inferred, history>>

\* Mutant of Fenced: what the judge answered is applied.
FencedNot(w) == job[worker[w].job].status # "none"

\* The transaction of _apply has the job's row locked.
Fenced(w) == Holds(w)

\* _apply begins and looks whether the inference is already stated.
ApplyBegins(w) ==
    /\ worker[w].pc = "answered"
    /\ Fenced(w)
    /\ worker' = [worker EXCEPT ![w] =
         [@ EXCEPT !.pc = "apply", !.stated = worker[w].text # NoText /\ inferred[worker[w].text] > 0]]
    /\ UNCHANGED <<memories, job, inferred, history, faults>>

\* It commits.
ApplyCommits(w) ==
    /\ worker[w].pc = "apply"
    /\ inferred' = [t \in Text |->
         IF t = worker[w].text /\ ~worker[w].stated THEN inferred[t] + 1 ELSE inferred[t]]
    /\ looked' = looked \union {v.id : v \in {Seed(w)} \intersect Live}
    /\ worker' = [worker EXCEPT ![w] =
         [worker[w] EXCEPT !.pc = "ask", !.seeds = @ \ {Seed(w)}, !.text = NoText, !.stated = FALSE]]
    /\ UNCHANGED <<memories, job, unseen, faults>>

\* The maintenance gate is closed when the answer is to be applied, or the actor
\* has lost the scope: the job is deferred, or fails.
ApplyFails(w) ==
    /\ worker[w].pc = "answered"
    /\ Fault
    /\ Goto(w, "defer") \/ Goto(w, "fail")
    /\ UNCHANGED <<memories, job, inferred, history>>

\* LeaseLost: the execution is discarded.
Discard(w) ==
    /\ worker[w].pc \notin {"idle", "apply"}
    /\ ~Holds(w)
    /\ worker' = [worker EXCEPT ![w] = Idle]
    /\ UNCHANGED <<memories, job, inferred, history, faults>>

Settle(w, status, mark) ==
    /\ Holds(w)
    /\ job' = [job EXCEPT ![worker[w].job] = [@ EXCEPT !.status = status, !.holder = NoWorker, !.mark = mark]]
    /\ worker' = [worker EXCEPT ![w] = Idle]
    /\ UNCHANGED <<memories, inferred, history, faults>>

Finish(w) ==
    /\ worker[w].pc = "ask"
    /\ worker[w].seeds = {}
    /\ Settle(w, "complete", worker[w].mark)

Fail(w) == worker[w].pc = "fail" /\ Settle(w, "failed", Start)
Defer(w) == worker[w].pc = "defer" /\ Settle(w, "queued", Start)

(***************************************************************************)
(* Faults                                                                  *)
(***************************************************************************)
Crash(w) ==
    /\ worker[w].pc # "idle"
    /\ Fault
    /\ worker' = [worker EXCEPT ![w] = Idle]
    /\ UNCHANGED <<memories, job, inferred, history>>

\* A lease has run out, of a dead worker or of a live one.  A row that a
\* transaction has locked is left alone.
RecoverStale(j) ==
    /\ job[j].status = "running"
    /\ \A w \in Worker : ~(worker[w].job = j /\ worker[w].pc = "apply")
    /\ IF worker[job[j].holder].job = j THEN Fault ELSE UNCHANGED faults
    /\ job' = [job EXCEPT ![j].status = "queued", ![j].holder = NoWorker]
    /\ UNCHANGED <<memories, worker, inferred, history>>

-----------------------------------------------------------------------------
WorkerStep(w) ==
    \/ \E j \in Job : Claim(w, j)
    \/ Look(w) \/ Ask(w) \/ AskFails(w) \/ AskRefused(w)
    \/ ApplyBegins(w) \/ ApplyCommits(w) \/ ApplyFails(w)
    \/ Discard(w) \/ Finish(w) \/ Fail(w) \/ Defer(w) \/ Crash(w)

Next ==
    \/ \E M \in SUBSET Memory : Change(M)
    \/ \E time \in 1..MaxTime : Commit(time)
    \/ Queue
    \/ \E w \in Worker : WorkerStep(w)
    \/ \E j \in Job : RecoverStale(j)

Spec == Init /\ [][Next]_vars

-----------------------------------------------------------------------------
(***************************************************************************)
(* Properties                                                              *)
(***************************************************************************)

\* Memories that no dream looked at are not marked as dreamed, or nothing would
\* look at them again (dream.py:93-96): whatever failed, was refused, was begun
\* anew or did not fit, every live version up to the watermark was finished with,
\* unless it had not been committed when the list was read.
NothingMarkedUnseen ==
    \A v \in Live : UpTo(v, LastDreamed) => v.id \in looked

\* Two dreams do not write the same inference (dream.py:526-529), nor do two
\* attempts of one: a text has at most one live inference.
InferredOnce ==
    \A t \in Text : inferred[t] <= 1

(***************************************************************************)
(* Why they hold                                                           *)
(***************************************************************************)
Asking(w) == worker[w].pc \in {"ask", "answered", "apply"}

\* The watermarks of completed dreams and of dreams under way.
Completed == {j \in Job : job[j].status = "complete"}
Watermarks == {job[j].mark : j \in Completed} \union {worker[w].mark : w \in {v \in Worker : Asking(v)}}

\* Every live version up to a watermark was finished with, or is still to be asked about.
Accounted(mark, seeds) == \A v \in Live : UpTo(v, mark) => v.id \in looked \/ v \in seeds

\* The invariant NothingMarkedUnseen rests on: no watermark lies in the future, and a
\* change that can still land before one was open when a list was read.
MarksInv ==
    /\ \A m \in Memory : changed[m] <= clock /\ open[m] <= clock
    /\ \A mark \in Watermarks :
         /\ mark.at <= clock
         /\ \A m \in Memory : open[m] > 0 => m \in unseen \/ mark.at < open[m]
    /\ \A j \in Completed : Accounted(job[j].mark, {})
    /\ \A w \in Worker : Asking(w) =>
         /\ Accounted(worker[w].mark, worker[w].seeds)
         /\ \A v \in worker[w].seeds : v.at > 0

\* The invariant InferredOnce rests on: one dream is pending, so one transaction is open,
\* and what it read of the inferences is so until it commits.
InferredInv ==
    /\ \A i, j \in Pending : i = j
    /\ \A w \in Worker : worker[w].pc = "apply" /\ worker[w].text # NoText /\ ~worker[w].stated
                            => inferred[worker[w].text] = 0
    /\ InferredOnce
=============================================================================
