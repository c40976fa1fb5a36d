-------------------------- MODULE Dreaming_proofs --------------------------
(***************************************************************************)
(* Theorems about Dreaming, for every set of memories, dreams, workers and *)
(* texts, and any number of clusters, transactions and faults.             *)
(***************************************************************************)
EXTENDS Dreaming, FiniteSetTheorems, WellFoundedInduction, TLAPS

-----------------------------------------------------------------------------
(***************************************************************************)
(* The order of versions                                                   *)
(***************************************************************************)

\* Versions are pairs of numbers.
LEMMA VersionParts ==
  ASSUME NEW v \in Version
  PROVE  v.at \in 0..MaxTime /\ v.at \in Nat /\ v.id \in Nat
<1>1. v.at \in Time /\ v.id \in Memory \union {0}
  BY DEF Version
<1>2. Memory \union {0} \subseteq Nat /\ MaxTime \in Nat
  BY DreamingAssumption
<1>3. Time \subseteq Nat
  BY <1>2 DEF Time
<1> QED
  BY <1>1, <1>2, <1>3 DEF Time

LEMMA StartIsVersion == Start \in Version /\ Start.at = 0 /\ Start.id = 0
  BY DreamingAssumption DEF Start, Version, Time

\* The order is total, and a watermark that is at most another lies no later.
LEMMA OrderFacts ==
  ASSUME NEW a \in Version, NEW b \in Version
  PROVE  /\ UpTo(a, b) \/ Before(b, a)
         /\ UpTo(a, b) => ~Before(b, a)
         /\ UpTo(a, b) => a.at <= b.at
         /\ Before(a, b) => UpTo(a, b)
         /\ UpTo(a, a)
<1>1. a.at \in Nat /\ a.id \in Nat /\ b.at \in Nat /\ b.id \in Nat
  BY VersionParts
<1>2. a.at = b.at /\ a.id = b.id => a = b
  BY DEF Version
<1> QED
  BY <1>1, <1>2 DEF UpTo, Before

LEMMA OrderTransitive ==
  ASSUME NEW a \in Version, NEW b \in Version, NEW c \in Version
  PROVE  /\ UpTo(a, b) /\ UpTo(b, c) => UpTo(a, c)
         /\ UpTo(a, b) /\ Before(b, c) => Before(a, c)
<1>1. /\ a.at \in Nat /\ a.id \in Nat /\ b.at \in Nat /\ b.id \in Nat
      /\ c.at \in Nat /\ c.id \in Nat
  BY VersionParts
<1> QED
  BY <1>1 DEF UpTo, Before

\* There are finitely many versions.
LEMMA VersionsAreFinite == IsFiniteSet(Version)
<1> DEFINE P == Time \X (Memory \union {0})
           f == [p \in P |-> [at |-> p[1], id |-> p[2]]]
<1>1. IsFiniteSet(Time)
  BY DreamingAssumption, FS_Interval DEF Time
<1>2. IsFiniteSet(Memory \union {0})
  BY DreamingAssumption, FS_AddElement
<1>3. IsFiniteSet(P)
  BY <1>1, <1>2, FS_Product
<1>4. f \in [P -> Version]
  BY DEF Version
<1>5. ASSUME NEW v \in Version PROVE \E p \in P : f[p] = v
  <2>1. <<v.at, v.id>> \in P /\ [at |-> v.at, id |-> v.id] = v
    BY DEF Version
  <2>2. f[<<v.at, v.id>>] = v
    BY <2>1
  <2> QED
    BY <2>1, <2>2
<1> HIDE DEF P, f
<1>6. f \in Surjection(P, Version)
  BY <1>4, <1>5 DEF Surjection
<1> QED
  BY <1>3, <1>6, FS_Surjection

\* A set of versions that is not empty has a last and a first one: a smallest set that
\* had none would have none without one of its versions either.
LEMMA ExtremesExist ==
  ASSUME NEW S, S \subseteq Version, S # {}
  PROVE  /\ \E a \in S : \A b \in S : UpTo(b, a)
         /\ \E a \in S : \A b \in S : UpTo(a, b)
<1> DEFINE HasBoth(T) == /\ \E a \in T : \A b \in T : UpTo(b, a)
                         /\ \E a \in T : \A b \in T : UpTo(a, b)
           Bad == {T \in SUBSET Version : T # {} /\ ~HasBoth(T)}
<1> SUFFICES ASSUME Bad # {} PROVE FALSE
  OBVIOUS
<1>1. Bad \subseteq FiniteSubsetsOf(Version)
  BY VersionsAreFinite, FS_Subset DEF FiniteSubsetsOf
<1> HIDE DEF Bad
<1>2. PICK T \in Bad : \A U \in Bad : <<U, T>> \notin StrictSubsetOrdering(Version)
  BY <1>1, FS_StrictSubsetOrderingWellFounded, WFMin
<1>3. T \subseteq Version /\ T # {} /\ ~HasBoth(T)
  BY DEF Bad
<1>4. PICK x \in T : TRUE
  BY <1>3
<1>5. T \ {x} \notin Bad
  BY <1>2, <1>3, <1>4 DEF StrictSubsetOrdering
<1>6. CASE T = {x}
  BY <1>3, <1>6, OrderFacts
<1>7. CASE T # {x}
  <2>1. HasBoth(T \ {x})
    BY <1>3, <1>5, <1>7 DEF Bad
  <2>2. PICK a \in T \ {x} : \A b \in T \ {x} : UpTo(b, a)
    BY <2>1
  <2>3. PICK c \in T \ {x} : \A b \in T \ {x} : UpTo(c, b)
    BY <2>1
  <2>4. \E d \in T : \A b \in T : UpTo(b, d)
    <3>1. CASE UpTo(x, a)
      BY <2>2, <3>1
    <3>2. CASE UpTo(a, x)
      <4>1. \A b \in T : UpTo(b, x)
        BY <1>3, <1>4, <2>2, <3>2, OrderFacts, OrderTransitive
      <4> QED
        BY <1>4, <4>1
    <3> QED
      BY <1>3, <1>4, <3>1, <3>2, OrderFacts
  <2>5. \E d \in T : \A b \in T : UpTo(d, b)
    <3>1. CASE UpTo(c, x)
      BY <2>3, <3>1
    <3>2. CASE UpTo(x, c)
      <4>1. \A b \in T : UpTo(x, b)
        BY <1>3, <1>4, <2>3, <3>2, OrderFacts, OrderTransitive
      <4> QED
        BY <1>4, <4>1
    <3> QED
      BY <1>3, <1>4, <3>1, <3>2, OrderFacts
  <2> QED
    BY <1>3, <2>4, <2>5
<1> QED
  BY <1>6, <1>7

\* What Last returns: one of the versions, or Start, that is up to none of the others.
LEMMA LastIsLast ==
  ASSUME NEW versions, versions \subseteq Version
  PROVE  /\ Last(versions) \in versions \union {Start}
         /\ Last(versions) \in Version
         /\ \A v \in versions : UpTo(v, Last(versions))
<1>1. versions \union {Start} \subseteq Version
  BY StartIsVersion
<1>2. \E a \in versions \union {Start} : \A b \in versions \union {Start} : UpTo(b, a)
  BY <1>1, ExtremesExist
<1>3. \E a \in versions \union {Start} : \A b \in versions : UpTo(b, a)
  BY <1>2
<1> QED
  BY <1>1, <1>3 DEF Last

\* What can be read is versions of memories, none of them at the beginning.
LEMMA LiveVersions ==
  ASSUME TypeOK
  PROVE  /\ Live \subseteq Version
         /\ \A v \in Live : v.id \in Memory /\ v.at = changed[v.id] /\ v.at > 0
  BY DEF TypeOK, Live, Version

\* The dreams that are complete have a last watermark.
LEMMA LastDreamedIsLast ==
  ASSUME TypeOK
  PROVE  /\ LastDreamed \in Version
         /\ LastDreamed = Start \/ \E j \in Completed : LastDreamed = job[j].mark
         /\ \A j \in Completed : UpTo(job[j].mark, LastDreamed)
<1> DEFINE marks == {job[j].mark : j \in {i \in Job : job[i].status = "complete"}} \union {Start}
<1>1. marks \subseteq Version /\ marks # {}
  BY StartIsVersion DEF TypeOK, JobRow
<1>2. LastDreamed = CHOOSE a \in marks : \A b \in marks : UpTo(b, a)
  BY DEF LastDreamed
<1> HIDE DEF marks
<1>3. LastDreamed \in marks /\ \A b \in marks : UpTo(b, LastDreamed)
  BY <1>1, <1>2, ExtremesExist
<1> QED
  BY <1>1, <1>3 DEF marks, Completed

\* The seed that is asked about next is the first of those left.
LEMMA SeedIsFirst ==
  ASSUME NEW w, worker[w].seeds \subseteq Version, worker[w].seeds # {}
  PROVE  Seed(w) \in worker[w].seeds /\ \A v \in worker[w].seeds : UpTo(Seed(w), v)
  BY ExtremesExist DEF Seed

\* After a failure the watermark is a version no later than it was, and before the seed
\* whose cluster failed.
LEMMA AfterFailureIsBefore ==
  ASSUME NEW w, worker[w].list \subseteq Version, worker[w].mark \in Version, NEW seed \in Version
  PROVE  /\ AfterFailure(w, seed) \in Version
         /\ UpTo(AfterFailure(w, seed), worker[w].mark)
         /\ seed.at > 0 => Before(AfterFailure(w, seed), seed)
<1> DEFINE earlier == {v \in worker[w].list : Before(v, seed)}
           p == Preceding(w, seed)
<1>1. p \in Version /\ p \in earlier \union {Start}
  BY LastIsLast DEF Preceding
<1>2. seed.at > 0 => Before(p, seed)
  BY <1>1, StartIsVersion DEF Before
<1> HIDE DEF p
<1>3. CASE Before(p, worker[w].mark)
  BY <1>1, <1>2, <1>3, OrderFacts DEF AfterFailure, p
<1>4. CASE ~Before(p, worker[w].mark)
  <2>1. UpTo(worker[w].mark, p)
    BY <1>1, <1>4, OrderFacts
  <2> QED
    BY <1>1, <1>2, <1>4, <2>1, OrderFacts, OrderTransitive DEF AfterFailure, p
<1> QED
  BY <1>3, <1>4

-----------------------------------------------------------------------------
(***************************************************************************)
(* Types                                                                   *)
(***************************************************************************)
LEMMA TypeInit == Init => TypeOK
<1>1. 0 \in Time /\ 0 \in 0..MaxFaults /\ 0 \in 0..MaxClusters
  BY DreamingAssumption DEF Time
<1> QED
  BY <1>1, StartIsVersion DEF Init, TypeOK, Idle, JobRow, NoJobRow

\* What a worker is doing has this form.
WorkerRecord ==
    [pc : {"idle", "claimed", "ask", "answered", "apply", "fail", "defer"},
     job : Job \union {NoJob}, list : SUBSET Version, seeds : SUBSET Version,
     mark : Version, text : Text \union {NoText}, stated : BOOLEAN]

LEMMA WorkerTyped ==
  ASSUME TypeOK, NEW w \in Worker
  PROVE  /\ worker[w] \in WorkerRecord
         /\ worker[w].pc # "idle" => worker[w].job \in Job
         /\ worker[w].list \subseteq Version /\ worker[w].seeds \subseteq Version
         /\ worker[w].mark \in Version
  BY DEF TypeOK, WorkerRecord

LEMMA IdleTyped == Idle \in WorkerRecord
  BY StartIsVersion DEF Idle, WorkerRecord

\* A step of one worker that leaves the queue alone keeps the types.
LEMMA WorkerKeepsTypes ==
  ASSUME TypeOK, NEW w \in Worker, NEW r \in WorkerRecord,
         worker' = [worker EXCEPT ![w] = r], UNCHANGED <<memories, job>>,
         r.pc # "idle" => r.job \in Job,
         r.pc = "apply" => job[r.job].status = "running" /\ job[r.job].holder = w,
         inferred' \in [Text -> Nat], looked' \subseteq Memory, unseen' \subseteq Memory,
         faults' \in 0..MaxFaults
  PROVE  TypeOK'
<1>1. worker' \in [Worker -> WorkerRecord]
  BY DEF TypeOK, WorkerRecord
<1>2. \A v \in Worker :
         /\ worker'[v].pc # "idle" => worker'[v].job \in Job
         /\ worker'[v].pc = "apply" =>
               job[worker'[v].job].status = "running" /\ job[worker'[v].job].holder = v
  BY DEF TypeOK
<1> QED
  BY <1>1, <1>2 DEF TypeOK, WorkerRecord, memories

\* A step of one worker that also changes the row of a job that no other worker has
\* locked keeps the types.
LEMMA RowKeepsTypes ==
  ASSUME TypeOK, NEW w \in Worker, NEW r \in WorkerRecord, NEW j \in Job, NEW row \in JobRow,
         worker' = [worker EXCEPT ![w] = r], job' = [job EXCEPT ![j] = row],
         UNCHANGED <<memories, inferred, history>>,
         r.pc # "idle" => r.job \in Job, r.pc # "apply",
         job[j].status # "running" \/ job[j].holder = w,
         faults' \in 0..MaxFaults
  PROVE  TypeOK'
<1>1. worker' \in [Worker -> WorkerRecord] /\ job' \in [Job -> JobRow]
  BY DEF TypeOK, WorkerRecord
<1>2. ASSUME NEW v \in Worker
      PROVE  /\ worker'[v].pc # "idle" => worker'[v].job \in Job
             /\ worker'[v].pc = "apply" =>
                  job'[worker'[v].job].status = "running" /\ job'[worker'[v].job].holder = v
  <2>1. CASE v = w
    <3>1. worker'[v] = r
      BY <2>1 DEF TypeOK
    <3> QED
      BY <3>1
  <2>2. CASE v # w
    <3>1. worker'[v] = worker[v]
      BY <2>2 DEF TypeOK
    <3>2. \A i \in Job : i # j => job'[i] = job[i]
      BY DEF TypeOK
    <3>3. worker[v].pc = "apply" => worker[v].job # j
      BY <2>2 DEF TypeOK
    <3> QED
      BY <3>1, <3>2, <3>3 DEF TypeOK
  <2> QED
    BY <2>1, <2>2
<1> QED
  BY <1>1, <1>2 DEF TypeOK, WorkerRecord, memories, history

\* The row of a job has its form, and keeps it when it is claimed, given back or settled.
LEMMA RowTyped ==
  ASSUME TypeOK, NEW j \in Job, NEW status \in {"queued", "running", "complete", "failed"},
         NEW holder \in Worker \union {NoWorker}, NEW mark \in Version
  PROVE  /\ [job[j] EXCEPT !.status = status, !.holder = holder] \in JobRow
         /\ [job[j] EXCEPT !.status = status, !.holder = holder, !.mark = mark] \in JobRow
<1>1. job[j] \in JobRow
  BY DEF TypeOK
<1> QED
  BY <1>1 DEF JobRow

\* A settled job waits again, or is over.
LEMMA SettleKeepsTypes ==
  ASSUME TypeOK, NEW w \in Worker, worker[w].pc # "idle",
         NEW status \in {"queued", "complete", "failed"}, NEW mark \in Version,
         Settle(w, status, mark)
  PROVE  TypeOK'
<1> DEFINE j == worker[w].job
           row == [job[j] EXCEPT !.status = status, !.holder = NoWorker, !.mark = mark]
<1>1. j \in Job
  BY WorkerTyped
<1>2. row \in JobRow
  BY <1>1, RowTyped
<1>3. /\ job' = [job EXCEPT ![j] = row] /\ worker' = [worker EXCEPT ![w] = Idle]
      /\ UNCHANGED <<memories, inferred, history, faults>> /\ job[j].holder = w
  BY DEF Settle, Holds
<1>4. Idle \in WorkerRecord /\ Idle.pc = "idle"
  BY IdleTyped DEF Idle
<1>5. faults' \in 0..MaxFaults
  BY <1>3 DEF TypeOK
<1> HIDE DEF j, row
<1> QED
  BY <1>1, <1>2, <1>3, <1>4, <1>5, RowKeepsTypes

LEMMA FaultIsCounted ==
  ASSUME TypeOK, Fault
  PROVE  faults' \in 0..MaxFaults
  BY DreamingAssumption DEF TypeOK, Fault

\* A call is counted in the row of the job.
LEMMA CallCounted ==
  ASSUME TypeOK, NEW j \in Job, job[j].calls < MaxClusters
  PROVE  /\ [job[j] EXCEPT !.calls = @ + 1] \in JobRow
         /\ [job EXCEPT ![j].calls = @ + 1] = [job EXCEPT ![j] = [job[j] EXCEPT !.calls = @ + 1]]
<1>1. job[j] \in JobRow /\ job[j].calls \in 0..MaxClusters
  BY DEF TypeOK, JobRow
<1>2. job[j].calls + 1 \in 0..MaxClusters
  BY <1>1, DreamingAssumption
<1> QED
  BY <1>1, <1>2 DEF JobRow

\* Each step of a worker keeps the types.
LEMMA WorkerStepKeepsTypes ==
  ASSUME TypeOK, NEW w \in Worker, WorkerStep(w)
  PROVE  TypeOK'
<1> DEFINE r == worker[w]
<1>0. /\ r \in WorkerRecord
      /\ r.pc # "idle" => r.job \in Job
      /\ r.list \subseteq Version /\ r.seeds \subseteq Version /\ r.mark \in Version
  BY WorkerTyped
<1>a. /\ inferred \in [Text -> Nat] /\ looked \subseteq Memory /\ unseen \subseteq Memory
      /\ faults \in 0..MaxFaults
  BY DEF TypeOK
<1>1. ASSUME NEW j \in Job, Claim(w, j) PROVE TypeOK'
  <2> DEFINE q == [r EXCEPT !.pc = "claimed", !.job = j]
             row == [job[j] EXCEPT !.status = "running", !.holder = w]
  <2>1. q \in WorkerRecord /\ q.pc = "claimed" /\ q.job = j
    BY <1>0 DEF WorkerRecord
  <2>2. row \in JobRow
    BY StartIsVersion, RowTyped
  <2>3. worker' = [worker EXCEPT ![w] = q] /\ job' = [job EXCEPT ![j] = row]
    BY <1>1 DEF Claim
  <2>4. /\ job[j].status # "running"
        /\ UNCHANGED <<memories, inferred, history, faults>>
    BY <1>1 DEF Claim
  <2> HIDE DEF q, row
  <2> QED
    BY <1>a, <2>1, <2>2, <2>3, <2>4, RowKeepsTypes
<1>2. CASE Look(w)
  <2> DEFINE list == {v \in Live : Before(LastDreamed, v)}
  <2>1. list \subseteq Version
    BY LiveVersions
  <2>2. PICK seeds \in SUBSET list :
          /\ worker' = [worker EXCEPT ![w] =
                [@ EXCEPT !.pc = "ask", !.list = list, !.seeds = seeds,
                          !.mark = Last(Considered(list, seeds))]]
          /\ looked' = looked \union {v.id : v \in Considered(list, seeds) \ seeds}
    BY <1>2 DEF Look
  <2> DEFINE q == [r EXCEPT !.pc = "ask", !.list = list, !.seeds = seeds,
                            !.mark = Last(Considered(list, seeds))]
  <2>3. Considered(list, seeds) \subseteq list
    BY DEF Considered
  <2>4. Last(Considered(list, seeds)) \in Version
    BY <2>1, <2>3, LastIsLast
  <2>5. looked' \subseteq Memory
    BY <1>a, <2>2, <2>3, LiveVersions
  <2>6. unseen' \subseteq Memory /\ UNCHANGED <<memories, job, inferred, faults>> /\ r.pc = "claimed"
    BY <1>2 DEF Look
  <2> HIDE DEF list
  <2>7. q \in WorkerRecord /\ q.pc = "ask" /\ q.job = r.job
    BY <1>0, <2>1, <2>4 DEF WorkerRecord
  <2>8. worker' = [worker EXCEPT ![w] = q]
    BY <2>2
  <2> HIDE DEF q
  <2> QED
    BY <1>0, <1>a, <2>5, <2>6, <2>7, <2>8, WorkerKeepsTypes
<1>3. CASE Ask(w)
  <2>1. PICK text \in Text \union {NoText} :
          worker' = [worker EXCEPT ![w].pc = "answered", ![w].text = text]
    BY <1>3 DEF Ask
  <2> DEFINE q == [r EXCEPT !.pc = "answered", !.text = text]
             row == [job[r.job] EXCEPT !.calls = @ + 1]
  <2>2. /\ r.pc = "ask" /\ job[r.job].holder = w /\ job[r.job].calls < MaxClusters
        /\ UNCHANGED <<memories, inferred, history, faults>>
    BY <1>3 DEF Ask, Holds
  <2>3. r.job \in Job
    BY <1>0, <2>2
  <2>4. row \in JobRow /\ job' = [job EXCEPT ![r.job] = row]
    BY <1>3, <2>2, <2>3, CallCounted DEF Ask
  <2>5. q \in WorkerRecord /\ q.pc = "answered" /\ q.job = r.job
    BY <1>0 DEF WorkerRecord
  <2>6. worker' = [worker EXCEPT ![w] = q]
    BY <2>1
  <2> HIDE DEF q, row
  <2> QED
    BY <1>a, <2>2, <2>3, <2>4, <2>5, <2>6, RowKeepsTypes
<1>4. CASE AskFails(w)
  <2> DEFINE q == [r EXCEPT !.seeds = r.seeds \ {Seed(w)}, !.mark = AfterFailure(w, Seed(w))]
             row == [job[r.job] EXCEPT !.calls = @ + 1]
  <2>1. /\ r.pc = "ask" /\ job[r.job].holder = w /\ job[r.job].calls < MaxClusters
        /\ UNCHANGED <<memories, inferred, history>> /\ Fault /\ r.seeds # {}
    BY <1>4 DEF AskFails, Holds
  <2>2. r.job \in Job
    BY <1>0, <2>1
  <2>3. row \in JobRow /\ job' = [job EXCEPT ![r.job] = row]
    BY <1>4, <2>1, <2>2, CallCounted DEF AskFails
  <2>4. AfterFailure(w, Seed(w)) \in Version
    BY <1>0, <2>1, SeedIsFirst, AfterFailureIsBefore
  <2>5. q \in WorkerRecord /\ q.pc = "ask" /\ q.job = r.job
    BY <1>0, <2>1, <2>4 DEF WorkerRecord
  <2>6. worker' = [worker EXCEPT ![w] = q]
    BY <1>4 DEF AskFails
  <2> HIDE DEF q, row
  <2> QED
    BY <2>1, <2>2, <2>3, <2>5, <2>6, FaultIsCounted, RowKeepsTypes
<1>5. CASE AskRefused(w)
  <2> DEFINE q == [r EXCEPT !.seeds = {}, !.mark = AfterFailure(w, Seed(w))]
  <2>1. /\ r.pc = "ask" /\ UNCHANGED <<memories, job, inferred, history>> /\ r.seeds # {}
    BY <1>5 DEF AskRefused
  <2>2. faults' \in 0..MaxFaults
    BY <1>5, <1>a, FaultIsCounted DEF AskRefused
  <2>3. AfterFailure(w, Seed(w)) \in Version
    BY <1>0, <2>1, SeedIsFirst, AfterFailureIsBefore
  <2>4. q \in WorkerRecord /\ q.pc = "ask" /\ q.job = r.job
    BY <1>0, <2>1, <2>3 DEF WorkerRecord
  <2>5. worker' = [worker EXCEPT ![w] = q]
    BY <1>5 DEF AskRefused
  <2> HIDE DEF q
  <2> QED
    BY <1>0, <1>a, <2>1, <2>2, <2>4, <2>5, WorkerKeepsTypes DEF history
<1>6. CASE ApplyBegins(w)
  <2> DEFINE stated == r.text # NoText /\ inferred[r.text] > 0
             q == [r EXCEPT !.pc = "apply", !.stated = stated]
  <2>1. /\ r.pc = "answered" /\ UNCHANGED <<memories, job, inferred, history, faults>>
        /\ job[r.job].status = "running" /\ job[r.job].holder = w
    BY <1>6 DEF ApplyBegins, Fenced, Holds
  <2>2. stated \in BOOLEAN
    OBVIOUS
  <2>3. worker' = [worker EXCEPT ![w] = q]
    BY <1>6 DEF ApplyBegins
  <2> HIDE DEF stated
  <2>4. q \in WorkerRecord /\ q.pc = "apply" /\ q.job = r.job
    BY <1>0, <2>2 DEF WorkerRecord
  <2> HIDE DEF q
  <2> QED
    BY <1>0, <1>a, <2>1, <2>3, <2>4, WorkerKeepsTypes DEF history
<1>7. CASE ApplyCommits(w)
  <2> DEFINE q == [r EXCEPT !.pc = "ask", !.seeds = r.seeds \ {Seed(w)},
                            !.text = NoText, !.stated = FALSE]
  <2>1. r.pc = "apply" /\ UNCHANGED <<memories, job, unseen, faults>>
    BY <1>7 DEF ApplyCommits
  <2>2. inferred' \in [Text -> Nat]
    BY <1>7, <1>a DEF ApplyCommits
  <2>3. looked' \subseteq Memory
    BY <1>7, <1>a, LiveVersions DEF ApplyCommits
  <2>4. worker' = [worker EXCEPT ![w] = q]
    BY <1>7 DEF ApplyCommits
  <2>5. q \in WorkerRecord /\ q.pc = "ask" /\ q.job = r.job
    BY <1>0 DEF WorkerRecord
  <2> HIDE DEF q
  <2> QED
    BY <1>0, <1>a, <2>1, <2>2, <2>3, <2>4, <2>5, WorkerKeepsTypes
<1>8. CASE ApplyFails(w)
  <2>1. PICK pc \in {"defer", "fail"} : worker' = [worker EXCEPT ![w].pc = pc]
    BY <1>8 DEF ApplyFails, Goto
  <2> DEFINE q == [r EXCEPT !.pc = pc]
  <2>2. r.pc = "answered" /\ Fault /\ UNCHANGED <<memories, job, inferred, history>>
    BY <1>8 DEF ApplyFails
  <2>3. q \in WorkerRecord /\ q.pc \in {"defer", "fail"} /\ q.job = r.job
    BY <1>0 DEF WorkerRecord
  <2>4. worker' = [worker EXCEPT ![w] = q]
    BY <2>1
  <2> HIDE DEF q
  <2> QED
    BY <1>0, <1>a, <2>2, <2>3, <2>4, FaultIsCounted, WorkerKeepsTypes DEF history
<1>9. CASE Discard(w)
  BY <1>9, <1>a, IdleTyped, WorkerKeepsTypes DEF Discard, Idle, history
<1>10. CASE Finish(w)
  BY <1>0, <1>10, SettleKeepsTypes DEF Finish
<1>11. CASE Fail(w)
  BY <1>11, StartIsVersion, SettleKeepsTypes DEF Fail
<1>12. CASE Defer(w)
  BY <1>12, StartIsVersion, SettleKeepsTypes DEF Defer
<1>13. CASE Crash(w)
  BY <1>13, <1>a, FaultIsCounted, IdleTyped, WorkerKeepsTypes DEF Crash, Idle, history
<1> QED
  BY <1>1, <1>2, <1>3, <1>4, <1>5, <1>6, <1>7, <1>8, <1>9, <1>10, <1>11, <1>12, <1>13
     DEF WorkerStep

LEMMA TypeNext == TypeOK /\ [Next]_vars => TypeOK'
<1> SUFFICES ASSUME TypeOK, [Next]_vars PROVE TypeOK'
  OBVIOUS
<1>1. CASE UNCHANGED vars
  BY <1>1 DEF vars, TypeOK
<1>2. ASSUME NEW M \in SUBSET Memory, Change(M) PROVE TypeOK'
  <2>1. clock' \in Time /\ clock + 1 \in Time
    BY <1>2, DreamingAssumption DEF Change, TypeOK, Time
  <2>2. open' \in [Memory -> Time]
    BY <1>2, <2>1 DEF Change, TypeOK
  <2> QED
    BY <1>2, <2>1, <2>2 DEF Change, TypeOK, history
<1>3. ASSUME NEW time \in 1..MaxTime, Commit(time) PROVE TypeOK'
  <2>1. time \in Time /\ 0 \in Time
    BY DreamingAssumption DEF Time
  <2>2. changed' \in [Memory -> Time] /\ open' \in [Memory -> Time]
    BY <1>3, <2>1 DEF Commit, TypeOK
  <2>3. looked' \subseteq Memory /\ unseen' \subseteq Memory
    BY <1>3 DEF Commit, TypeOK
  <2> QED
    BY <1>3, <2>2, <2>3 DEF Commit, TypeOK
<1>4. CASE Queue
  <2>1. PICK j \in Job :
          /\ job[j].status = "none"
          /\ job' = [job EXCEPT ![j] = [NoJobRow EXCEPT !.status = "queued"]]
    BY <1>4 DEF Queue
  <2>2. [NoJobRow EXCEPT !.status = "queued"] \in JobRow
    BY DreamingAssumption, StartIsVersion DEF NoJobRow, JobRow
  <2>3. job' \in [Job -> JobRow]
    BY <2>1, <2>2 DEF TypeOK
  <2>4. \A i \in Job : job[i].status = "running" => job'[i] = job[i]
    BY <2>1 DEF TypeOK
  <2> QED
    BY <1>4, <2>3, <2>4 DEF Queue, TypeOK, memories, history
<1>5. ASSUME NEW j \in Job, RecoverStale(j) PROVE TypeOK'
  <2>0. job' = [job EXCEPT ![j] = [job[j] EXCEPT !.status = "queued", !.holder = NoWorker]]
    BY <1>5 DEF RecoverStale
  <2>1. job' \in [Job -> JobRow]
    BY <2>0, StartIsVersion, RowTyped DEF TypeOK
  <2>2. \A i \in Job : i # j => job'[i] = job[i]
    BY <1>5 DEF RecoverStale, TypeOK
  <2>3. faults' \in 0..MaxFaults
    BY <1>5, FaultIsCounted DEF RecoverStale, TypeOK
  <2>4. \A w \in Worker : worker[w].pc = "apply" => worker[w].job # j
    BY <1>5 DEF RecoverStale
  <2> QED
    BY <1>5, <2>1, <2>2, <2>3, <2>4 DEF RecoverStale, TypeOK, memories, history
<1> QED
  BY <1>1, <1>2, <1>3, <1>4, <1>5, WorkerStepKeepsTypes DEF Next

\* Every reachable state of the dreams of a scope is well typed; an answer is applied
\* by the worker whose job it is.
THEOREM TypeCorrect == Spec => []TypeOK
  BY TypeInit, TypeNext, PTL DEF Spec

-----------------------------------------------------------------------------
(***************************************************************************)
(* One inference a text                                                    *)
(***************************************************************************)
LEMMA InferredInit == Init => InferredInv
  BY DEF Init, Idle, NoJobRow, InferredInv, Pending, InferredOnce

\* One transaction is open at a time: who has one holds the only pending dream.
LEMMA OneApplies ==
  ASSUME TypeOK, InferredInv, NEW v \in Worker, NEW w \in Worker,
         worker[v].pc = "apply", worker[w].pc = "apply"
  PROVE  v = w
<1>1. /\ worker[v].job \in Pending /\ job[worker[v].job].holder = v
      /\ worker[w].job \in Pending /\ job[worker[w].job].holder = w
  BY DEF TypeOK, Pending
<1> QED
  BY <1>1 DEF InferredInv

\* A step that begins no dream and writes nothing keeps the invariant.
LEMMA QuietKeepsInferred ==
  ASSUME InferredInv, Pending' \subseteq Pending, UNCHANGED inferred,
         \A w \in Worker : worker'[w].pc = "apply" => worker'[w] = worker[w]
  PROVE  InferredInv'
  BY DEF InferredInv, InferredOnce

LEMMA InferredNext == TypeOK /\ InferredInv /\ [Next]_vars => InferredInv'
<1> SUFFICES ASSUME TypeOK, InferredInv, [Next]_vars PROVE InferredInv'
  OBVIOUS
<1>1. CASE UNCHANGED vars
  BY <1>1, QuietKeepsInferred DEF vars, Pending
<1>2. ASSUME NEW M \in SUBSET Memory, Change(M) PROVE InferredInv'
  BY <1>2, QuietKeepsInferred DEF Change, Pending
<1>3. ASSUME NEW time \in 1..MaxTime, Commit(time) PROVE InferredInv'
  BY <1>3, QuietKeepsInferred DEF Commit, Pending
<1>4. CASE Queue
  <2>1. PICK j \in Job : job' = [job EXCEPT ![j] = [NoJobRow EXCEPT !.status = "queued"]]
    BY <1>4 DEF Queue
  <2>2. Pending = {}
    BY <1>4 DEF Queue
  <2>3. \A i \in Pending' : i = j
    BY <2>1, <2>2 DEF Pending, TypeOK
  <2> QED
    BY <1>4, <2>3 DEF Queue, InferredInv, InferredOnce
<1>5. ASSUME NEW w \in Worker, WorkerStep(w) PROVE InferredInv'
  <2> DEFINE r == worker[w]
  <2>0. \A v \in Worker \ {w} : worker'[v] = worker[v]
    <3> SUFFICES ASSUME NEW v \in Worker \ {w} PROVE worker'[v] = worker[v]
      OBVIOUS
    <3>0. worker \in [Worker -> WorkerRecord]
      BY DEF TypeOK, WorkerRecord
    <3>1. CASE \E j \in Job : Claim(w, j)
      BY <3>0, <3>1 DEF Claim
    <3>2. CASE Look(w)
      BY <3>0, <3>2 DEF Look
    <3>3. CASE Ask(w)
      BY <3>0, <3>3 DEF Ask
    <3>4. CASE AskFails(w) \/ AskRefused(w)
      BY <3>0, <3>4 DEF AskFails, AskRefused
    <3>5. CASE ApplyBegins(w) \/ ApplyCommits(w)
      BY <3>0, <3>5 DEF ApplyBegins, ApplyCommits
    <3>6. CASE ApplyFails(w) \/ Discard(w) \/ Crash(w)
      BY <3>0, <3>6 DEF ApplyFails, Goto, Discard, Crash
    <3>7. CASE Finish(w) \/ Fail(w) \/ Defer(w)
      BY <3>0, <3>7 DEF Finish, Fail, Defer, Settle
    <3> QED
      BY <1>5, <3>1, <3>2, <3>3, <3>4, <3>5, <3>6, <3>7 DEF WorkerStep
  <2>1. ASSUME NEW j \in Job, Claim(w, j) PROVE InferredInv'
    <3>1. Pending' \subseteq Pending
      BY <2>1 DEF Claim, Pending, TypeOK
    <3>2. worker'[w].pc = "claimed"
      BY <2>1 DEF Claim, TypeOK
    <3> QED
      BY <2>0, <2>1, <3>1, <3>2, QuietKeepsInferred DEF Claim
  <2>2. CASE Look(w)
    <3>1. worker'[w].pc = "ask"
      BY <2>2 DEF Look, TypeOK
    <3> QED
      BY <2>0, <2>2, <3>1, QuietKeepsInferred DEF Look, Pending
  <2>3. CASE Ask(w) \/ AskFails(w) \/ AskRefused(w)
    <3>0. /\ job' = job \/ job' = [job EXCEPT ![worker[w].job].calls = @ + 1]
          /\ r.pc = "ask"
          /\ UNCHANGED inferred
      BY <2>3 DEF Ask, AskFails, AskRefused
    <3>1. Pending' \subseteq Pending
      <4>1. job \in [Job -> JobRow]
        BY DEF TypeOK
      <4>2. \A j \in Job : job'[j].status = job[j].status
        BY <3>0, <4>1 DEF JobRow
      <4> QED
        BY <4>2 DEF Pending
    <3>2. worker'[w].pc \in {"ask", "answered"}
      <4>0. worker \in [Worker -> WorkerRecord]
        BY DEF TypeOK, WorkerRecord
      <4>1. CASE Ask(w)
        BY <4>0, <4>1 DEF Ask, WorkerRecord
      <4>2. CASE AskFails(w)
        BY <3>0, <4>0, <4>2 DEF AskFails, WorkerRecord
      <4>3. CASE AskRefused(w)
        BY <3>0, <4>0, <4>3 DEF AskRefused, WorkerRecord
      <4> QED
        BY <2>3, <4>1, <4>2, <4>3
    <3> QED
      BY <2>0, <3>0, <3>1, <3>2, QuietKeepsInferred
  <2>4. CASE ApplyBegins(w)
    <3> DEFINE stated == r.text # NoText /\ inferred[r.text] > 0
    <3>0. /\ worker' = [worker EXCEPT ![w] = [r EXCEPT !.pc = "apply", !.stated = stated]]
          /\ r.text # NoText /\ inferred[r.text] > 0 => stated
          /\ UNCHANGED <<job, inferred>>
      BY <2>4 DEF ApplyBegins
    <3> HIDE DEF stated
    <3>1. /\ worker'[w].text = r.text
          /\ r.text # NoText /\ inferred[r.text] > 0 => worker'[w].stated
          /\ UNCHANGED <<job, inferred>>
      <4>1. worker'[w] = [r EXCEPT !.pc = "apply", !.stated = stated] /\ r \in WorkerRecord
        BY <3>0 DEF TypeOK, WorkerRecord
      <4>2. worker'[w].text = r.text /\ worker'[w].stated = stated
        BY <4>1 DEF WorkerRecord
      <4> QED
        BY <3>0, <4>2
    <3>2. r.text # NoText => inferred[r.text] \in Nat
      BY DEF TypeOK
    <3>3. worker'[w].text # NoText /\ ~worker'[w].stated => inferred[worker'[w].text] = 0
      BY <3>1, <3>2
    <3> QED
      BY <2>0, <3>1, <3>3 DEF InferredInv, InferredOnce, Pending
  <2>5. CASE ApplyCommits(w)
    <3>1. \A v \in Worker : worker'[v].pc # "apply"
      <4>1. worker'[w].pc = "ask" /\ worker[w].pc = "apply"
        BY <2>5 DEF ApplyCommits, TypeOK
      <4> QED
        BY <2>0, <4>1, OneApplies
    <3>2. \A t \in Text : inferred'[t] <= 1
      <4> SUFFICES ASSUME NEW t \in Text PROVE inferred'[t] <= 1
        OBVIOUS
      <4>1. inferred[t] \in Nat /\ inferred[t] <= 1
        BY DEF TypeOK, InferredInv, InferredOnce
      <4>2. t = r.text /\ ~r.stated => inferred[t] = 0
        BY <2>5, DreamingAssumption DEF ApplyCommits, InferredInv
      <4>3. inferred'[t] = IF t = r.text /\ ~r.stated THEN inferred[t] + 1 ELSE inferred[t]
        BY <2>5 DEF ApplyCommits
      <4> QED
        BY <4>1, <4>2, <4>3
    <3> QED
      BY <2>5, <3>1, <3>2 DEF ApplyCommits, InferredInv, InferredOnce, Pending
  <2>6. CASE ApplyFails(w)
    <3>1. worker'[w].pc \in {"defer", "fail"}
      BY <2>6 DEF ApplyFails, Goto, TypeOK
    <3> QED
      BY <2>0, <2>6, <3>1, QuietKeepsInferred DEF ApplyFails, Pending
  <2>7. CASE Discard(w) \/ Crash(w)
    <3>1. worker'[w].pc = "idle"
      BY <2>7 DEF Discard, Crash, Idle, TypeOK
    <3> QED
      BY <2>0, <2>7, <3>1, QuietKeepsInferred DEF Discard, Crash, Pending
  <2>8. ASSUME NEW status, NEW mark, Settle(w, status, mark) PROVE InferredInv'
    <3>1. worker'[w].pc = "idle"
      BY <2>8 DEF Settle, Idle, TypeOK
    <3>2. Pending' \subseteq Pending
      BY <2>8 DEF Settle, Holds, Pending, TypeOK
    <3> QED
      BY <2>0, <2>8, <3>1, <3>2, QuietKeepsInferred DEF Settle
  <2> QED
    BY <1>5, <2>1, <2>2, <2>3, <2>4, <2>5, <2>6, <2>7, <2>8 DEF WorkerStep, Finish, Fail, Defer
<1>6. ASSUME NEW j \in Job, RecoverStale(j) PROVE InferredInv'
  <2>1. Pending' \subseteq Pending
    BY <1>6 DEF RecoverStale, Pending, TypeOK
  <2> QED
    BY <1>6, <2>1, QuietKeepsInferred DEF RecoverStale
<1> QED
  BY <1>1, <1>2, <1>3, <1>4, <1>5, <1>6 DEF Next

\* Neither two dreams nor two attempts of one write the same inference, for any number
\* of dreams and workers: the dream that waits or runs is handed out, and what it read
\* of the inferences is so until it commits (dream.queue, dream._apply).
THEOREM WrittenOnce == Spec => []InferredOnce
<1>1. InferredInv => InferredOnce
  BY DEF InferredInv
<1> QED
  BY <1>1, TypeInit, TypeNext, InferredInit, InferredNext, PTL DEF Spec

-----------------------------------------------------------------------------
(***************************************************************************)
(* What a watermark passes has been looked at                              *)
(***************************************************************************)

\* A watermark is not in the future, and no change lands before it unseen.
Fits(mark) ==
    /\ mark.at <= clock
    /\ \A m \in Memory : open[m] > 0 => m \in unseen \/ mark.at < open[m]

\* What MarksInv says of a worker, and of the rest.
Sound(r) ==
    r.pc \in {"ask", "answered", "apply"} =>
        /\ Fits(r.mark)
        /\ Accounted(r.mark, r.seeds)
        /\ \A v \in r.seeds : v.at > 0
Grounded ==
    /\ \A m \in Memory : changed[m] <= clock /\ open[m] <= clock
    /\ \A j \in Completed : Fits(job[j].mark) /\ Accounted(job[j].mark, {})

LEMMA MarksParts == MarksInv <=> Grounded /\ \A w \in Worker : Sound(worker[w])
  BY DEF MarksInv, Grounded, Sound, Fits, Watermarks, Asking

LEMMA MarksPartsNext == MarksInv' <=> Grounded' /\ \A w \in Worker : Sound(worker[w])'
  BY DEF MarksInv, Grounded, Sound, Fits, Watermarks, Asking

LEMMA MarksInit == Init => MarksInv
  BY DEF Init, Idle, NoJobRow, Grounded, MarksInv, Watermarks, Asking, Completed

\* Nothing to read is up to the beginning.
LEMMA StartPassesNothing ==
  ASSUME TypeOK
  PROVE  \A v \in Live : ~UpTo(v, Start)
<1> SUFFICES ASSUME NEW v \in Live PROVE ~UpTo(v, Start)
  OBVIOUS
<1>1. v \in Version /\ v.at > 0
  BY LiveVersions
<1> QED
  BY <1>1, StartIsVersion, OrderFacts DEF Before

\* What the watermark of the completed dreams passes, the watermark of one of them does.
LEMMA PassedWasLookedAt ==
  ASSUME TypeOK, MarksInv, NEW v \in Live, UpTo(v, LastDreamed)
  PROVE  v.id \in looked
<1>1. PICK j \in Completed : LastDreamed = job[j].mark
  BY LastDreamedIsLast, StartPassesNothing
<1> QED
  BY <1>1 DEF MarksInv, Accounted

\* A step of one worker that leaves the memories alone, finishes no dream and looks at
\* memories, or does nothing, keeps the invariant if its own watermark is sound.
LEMMA WorkerKeepsMarks ==
  ASSUME TypeOK, MarksInv, NEW w \in Worker, NEW r, worker' = [worker EXCEPT ![w] = r],
         UNCHANGED <<memories, unseen>>, looked \subseteq looked',
         Completed' \subseteq Completed, \A j \in Completed' : job'[j].mark = job[j].mark,
         r.pc \in {"ask", "answered", "apply"} =>
           /\ Fits(r.mark)
           /\ \A v \in Live : UpTo(v, r.mark) => v.id \in looked' \/ v \in r.seeds
           /\ \A v \in r.seeds : v.at > 0
  PROVE  MarksInv'
<1>1. Live' = Live
  BY DEF Live, memories
<1>2. Grounded'
  BY <1>1, MarksParts DEF Grounded, Fits, Accounted, memories
<1>3. ASSUME NEW v \in Worker PROVE Sound(worker[v])'
  <2>1. CASE v = w
    <3>1. worker'[v] = r
      BY <2>1 DEF TypeOK
    <3> QED
      BY <1>1, <3>1 DEF Sound, Fits, Accounted, memories
  <2>2. CASE v # w
    <3>1. worker'[v] = worker[v]
      BY <2>2 DEF TypeOK
    <3>2. Sound(worker[v])
      BY MarksParts
    <3> QED
      BY <1>1, <3>1, <3>2 DEF Sound, Fits, Accounted, memories
  <2> QED
    BY <2>1, <2>2
<1> QED
  BY <1>2, <1>3, MarksPartsNext

\* The seed whose cluster failed, and those after it, are behind the new watermark.
LEMMA FailureIsNotPassed ==
  ASSUME TypeOK, MarksInv, NEW w \in Worker, worker[w].pc = "ask", worker[w].seeds # {}
  PROVE  LET mark == AfterFailure(w, Seed(w))
         IN  /\ Fits(mark)
             /\ \A v \in Live : UpTo(v, mark) => v.id \in looked
<1> DEFINE r == worker[w]
           mark == AfterFailure(w, Seed(w))
<1>1. /\ r.list \subseteq Version /\ r.seeds \subseteq Version /\ r.mark \in Version
      /\ Sound(r)
  BY WorkerTyped, MarksParts
<1>2. /\ Seed(w) \in r.seeds /\ Seed(w) \in Version /\ Seed(w).at > 0
      /\ \A v \in r.seeds : UpTo(Seed(w), v)
  BY <1>1, SeedIsFirst DEF Sound
<1>3. mark \in Version /\ UpTo(mark, r.mark) /\ Before(mark, Seed(w))
  BY <1>1, <1>2, AfterFailureIsBefore
<1> HIDE DEF mark
<1>4. Fits(mark)
  <2>1. mark.at <= r.mark.at /\ mark.at \in Nat /\ r.mark.at \in Nat
    BY <1>1, <1>3, OrderFacts, VersionParts
  <2>2. clock \in Nat /\ \A m \in Memory : open[m] \in Nat
    BY DreamingAssumption DEF TypeOK, Time
  <2>3. Fits(r.mark)
    BY <1>1 DEF Sound
  <2> QED
    BY <2>1, <2>2, <2>3 DEF Fits
<1>5. ASSUME NEW v \in Live, UpTo(v, mark) PROVE v.id \in looked
  <2>1. v \in Version
    BY LiveVersions
  <2>2. UpTo(v, r.mark)
    BY <1>1, <1>3, <1>5, <2>1, OrderTransitive
  <2>3. v \notin r.seeds
    <3>1. Before(v, Seed(w))
      BY <1>2, <1>3, <1>5, <2>1, OrderTransitive
    <3> QED
      BY <1>2, <2>1, <3>1, OrderFacts
  <2> QED
    BY <1>1, <2>2, <2>3 DEF Sound, Accounted
<1> QED
  BY <1>4, <1>5 DEF mark

\* A call that is counted changes neither status nor watermark.
LEMMA CallKeepsRows ==
  ASSUME TypeOK, NEW j, job' = [job EXCEPT ![j].calls = @ + 1]
  PROVE  \A i \in Job : job'[i].status = job[i].status /\ job'[i].mark = job[i].mark
<1>1. job \in [Job -> JobRow]
  BY DEF TypeOK
<1> QED
  BY <1>1 DEF JobRow

\* The list is read: what is not in it was looked at, and the first clusters' seeds are
\* still to be asked about.
LEMMA LookKeepsMarks ==
  ASSUME TypeOK, MarksInv, NEW w \in Worker, Look(w)
  PROVE  MarksInv'
<1> DEFINE list == {v \in Live : Before(LastDreamed, v)}
<1>1. list \subseteq Version /\ list \subseteq Live /\ LastDreamed \in Version
  BY LiveVersions, LastDreamedIsLast
<1>2. PICK seeds \in SUBSET list :
        /\ worker' = [worker EXCEPT ![w] =
              [@ EXCEPT !.pc = "ask", !.list = list, !.seeds = seeds,
                        !.mark = Last(Considered(list, seeds))]]
        /\ looked' = looked \union {v.id : v \in Considered(list, seeds) \ seeds}
  BY DEF Look
<1> DEFINE taken == Considered(list, seeds)
           mark == Last(taken)
           q == [worker[w] EXCEPT !.pc = "ask", !.list = list, !.seeds = seeds, !.mark = mark]
<1>3. UNCHANGED <<memories, job, inferred, faults>> /\ unseen' = {m \in Memory : open[m] > 0}
  BY DEF Look
<1>4. worker' = [worker EXCEPT ![w] = q]
  BY <1>2
<1>5. /\ taken \subseteq list
      /\ mark \in Version /\ mark \in taken \union {Start}
      /\ \A v \in taken : UpTo(v, mark)
  <2>1. taken \subseteq list
    BY DEF Considered
  <2> HIDE DEF taken
  <2> QED
    BY <1>1, <2>1, LastIsLast
<1>6. \A v \in list : UpTo(v, mark) => v \in taken
  <2> SUFFICES ASSUME NEW v \in list, UpTo(v, mark), Cardinality(seeds) = MaxClusters
               PROVE  UpTo(v, Last(seeds))
    BY DEF Considered
  <2>1. v \in Live /\ v \in Version /\ ~UpTo(v, Start)
    BY <1>1, StartPassesNothing
  <2>2. mark # Start
    BY <2>1
  <2>3. mark \in list /\ UpTo(mark, Last(seeds))
    BY <1>5, <2>2 DEF Considered
  <2>4. Last(seeds) \in Version
    BY <1>1, LastIsLast
  <2> HIDE DEF list
  <2> QED
    BY <1>1, <1>5, <2>1, <2>3, <2>4, OrderTransitive
<1>7. \A v \in Live : UpTo(v, mark) => v.id \in looked' \/ v \in seeds
  <2> SUFFICES ASSUME NEW v \in Live, UpTo(v, mark), v \notin seeds PROVE v.id \in looked'
    OBVIOUS
  <2>1. CASE v \in list
    BY <1>2, <1>6, <2>1
  <2>2. CASE v \notin list
    <3>1. v \in Version
      BY LiveVersions
    <3>2. UpTo(v, LastDreamed)
      BY <1>1, <2>2, <3>1, OrderFacts
    <3> QED
      BY <1>2, <3>2, PassedWasLookedAt
  <2> QED
    BY <2>1, <2>2
<1>8. mark.at <= clock
  <2>0. clock \in Nat
    BY DreamingAssumption DEF TypeOK, Time
  <2>1. CASE mark = Start
    BY <2>0, <2>1, StartIsVersion
  <2>2. CASE mark # Start
    <3>1. mark \in Live
      BY <1>1, <1>5, <2>2
    <3> QED
      BY <3>1, LiveVersions DEF MarksInv
  <2> QED
    BY <2>1, <2>2
<1>9. \A v \in seeds : v.at > 0
  BY <1>1, LiveVersions
<1> HIDE DEF list, taken, mark
<1>10. Live' = Live /\ Completed' = Completed
  BY <1>3 DEF Live, memories, Completed
<1>11. Grounded'
  BY <1>2, <1>3, <1>10, MarksParts DEF Grounded, Fits, Accounted, memories
<1>12. ASSUME NEW v \in Worker PROVE Sound(worker[v])'
  <2>1. CASE v = w
    <3>1. /\ worker'[v].mark = mark /\ worker'[v].seeds = seeds
      BY <1>4, <2>1 DEF TypeOK
    <3> QED
      BY <1>3, <1>7, <1>8, <1>9, <1>10, <3>1 DEF Sound, Fits, Accounted, memories
  <2>2. CASE v # w
    <3>1. worker'[v] = worker[v]
      BY <1>4, <2>2 DEF TypeOK
    <3>2. Sound(worker[v])
      BY MarksParts
    <3> QED
      BY <1>2, <1>3, <1>10, <3>1, <3>2 DEF Sound, Fits, Accounted, memories
  <2> QED
    BY <2>1, <2>2
<1> QED
  BY <1>11, <1>12, MarksPartsNext

\* A transaction commits: the versions it makes are behind every watermark, unless the
\* list was read while it was open.
LEMMA CommitKeepsMarks ==
  ASSUME TypeOK, MarksInv, NEW time \in 1..MaxTime, Commit(time)
  PROVE  MarksInv'
<1> DEFINE M == {m \in Memory : open[m] = time}
<1>1. /\ changed' = [m \in Memory |-> IF m \in M THEN time ELSE changed[m]]
      /\ open' = [m \in Memory |-> IF m \in M THEN 0 ELSE open[m]]
      /\ looked' = (looked \ M) \union (unseen \intersect M)
      /\ unseen' = unseen \ M
      /\ UNCHANGED <<clock, job, worker, inferred, faults>>
  BY DEF Commit
<1>2. /\ clock \in Nat /\ time \in Nat /\ time > 0
      /\ \A m \in Memory : changed[m] \in Nat /\ open[m] \in Nat
  BY DreamingAssumption DEF TypeOK, Time
<1>3. \A m \in Memory : changed'[m] <= clock /\ open'[m] <= clock
  BY <1>1, <1>2 DEF MarksInv
<1>4. ASSUME NEW mark, Fits(mark) PROVE Fits(mark)'
  BY <1>1, <1>2, <1>4 DEF Fits
<1>5. ASSUME NEW mark \in Version, Fits(mark), NEW seeds, Accounted(mark, seeds)
      PROVE  Accounted(mark, seeds)'
  <2> SUFFICES ASSUME NEW v \in Live', UpTo(v, mark) PROVE v.id \in looked' \/ v \in seeds
    BY DEF Accounted, UpTo, Before
  <2>1. PICK m \in Memory : v = [at |-> changed'[m], id |-> m] /\ changed'[m] > 0
    BY DEF Live
  <2>2. CASE m \in M
    <3>1. v.at = time /\ v.id = m /\ open[m] = time
      BY <1>1, <2>1, <2>2
    <3>2. v.at <= mark.at
      BY <1>2, <3>1, VersionParts DEF UpTo, Before
    <3>3. m \in unseen
      BY <1>2, <1>5, <3>1, <3>2, VersionParts DEF Fits
    <3> QED
      BY <1>1, <2>2, <3>1, <3>3
  <2>3. CASE m \notin M
    <3>1. v = [at |-> changed[m], id |-> m] /\ changed[m] > 0
      BY <1>1, <2>1, <2>3
    <3>2. v \in Live /\ v.id = m
      BY <3>1 DEF Live
    <3> QED
      BY <1>1, <1>5, <2>3, <3>2 DEF Accounted
  <2> QED
    BY <2>2, <2>3
<1>6. \A j \in Completed : job[j].mark \in Version
  BY DEF TypeOK, JobRow, Completed
<1>7. Grounded'
  BY <1>1, <1>3, <1>4, <1>5, <1>6, MarksParts DEF Grounded, Completed
<1>8. ASSUME NEW w \in Worker PROVE Sound(worker[w])'
  BY <1>1, <1>4, <1>5, WorkerTyped, MarksParts DEF Sound
<1> QED
  BY <1>7, <1>8, MarksPartsNext

LEMMA MarksNext == TypeOK /\ MarksInv /\ [Next]_vars => MarksInv'
<1> SUFFICES ASSUME TypeOK, MarksInv, [Next]_vars PROVE MarksInv'
  OBVIOUS
<1> USE DEF history
<1>1. CASE UNCHANGED vars
  BY <1>1 DEF vars, MarksInv, Watermarks, Completed, Asking, Accounted, Live
<1>2. ASSUME NEW M \in SUBSET Memory, Change(M) PROVE MarksInv'
  <2>1. /\ clock \in Nat /\ \A m \in Memory : changed[m] \in Nat /\ open[m] \in Nat
    BY DreamingAssumption DEF TypeOK, Time
  <2>2. /\ clock' = clock + 1
        /\ open' = [m \in Memory |-> IF m \in M THEN clock + 1 ELSE open[m]]
        /\ UNCHANGED <<changed, job, worker, inferred, history, faults>>
    BY <1>2 DEF Change
  <2>3. \A m \in Memory : changed'[m] <= clock' /\ open'[m] <= clock'
    BY <2>1, <2>2 DEF MarksInv
  <2>4. Live' = Live /\ Completed' = Completed
    BY <2>2 DEF Live, Completed
  <2>5. ASSUME NEW mark \in Version, Fits(mark) PROVE Fits(mark)'
    BY <2>1, <2>2, <2>5, VersionParts DEF Fits
  <2>6. \A j \in Completed : job[j].mark \in Version
    BY DEF TypeOK, JobRow, Completed
  <2>7. Grounded'
    BY <2>2, <2>3, <2>4, <2>5, <2>6, MarksParts DEF Grounded, Accounted
  <2>8. ASSUME NEW w \in Worker PROVE Sound(worker[w])'
    BY <2>2, <2>4, <2>5, WorkerTyped, MarksParts DEF Sound, Accounted
  <2> QED
    BY <2>7, <2>8, MarksPartsNext
<1>3. ASSUME NEW time \in 1..MaxTime, Commit(time) PROVE MarksInv'
  BY <1>3, CommitKeepsMarks
<1>4. CASE Queue
  <2>1. PICK j \in Job : job' = [job EXCEPT ![j] = [NoJobRow EXCEPT !.status = "queued"]]
    BY <1>4 DEF Queue
  <2>2. Completed' \subseteq Completed /\ \A i \in Completed' : job'[i] = job[i]
    BY <2>1 DEF Completed, NoJobRow, TypeOK
  <2>3. UNCHANGED <<memories, worker, history>>
    BY <1>4 DEF Queue
  <2> QED
    BY <2>2, <2>3, MarksParts, MarksPartsNext
       DEF Grounded, Sound, Fits, Accounted, Live, memories
<1>5. ASSUME NEW j \in Job, RecoverStale(j) PROVE MarksInv'
  <2>1. job' = [job EXCEPT ![j] = [job[j] EXCEPT !.status = "queued", !.holder = NoWorker]]
    BY <1>5 DEF RecoverStale
  <2>2. Completed' \subseteq Completed /\ \A i \in Completed' : job'[i] = job[i]
    BY <2>1 DEF Completed, TypeOK, JobRow
  <2>3. UNCHANGED <<memories, worker, history>>
    BY <1>5 DEF RecoverStale
  <2> QED
    BY <2>2, <2>3, MarksParts, MarksPartsNext
       DEF Grounded, Sound, Fits, Accounted, Live, memories
<1>6. ASSUME NEW w \in Worker, WorkerStep(w) PROVE MarksInv'
  <2> DEFINE r == worker[w]
  <2>0. r \in WorkerRecord /\ Sound(r)
    BY WorkerTyped, MarksParts
  <2>a. UNCHANGED job => Completed' \subseteq Completed /\ \A j \in Completed' : job'[j].mark = job[j].mark
    BY DEF Completed
  <2>1. ASSUME NEW j \in Job, Claim(w, j) PROVE MarksInv'
    <3> DEFINE q == [r EXCEPT !.pc = "claimed", !.job = j]
    <3>1. q.pc = "claimed" /\ worker' = [worker EXCEPT ![w] = q]
      BY <2>0, <2>1 DEF Claim, WorkerRecord
    <3>2. Completed' \subseteq Completed /\ \A i \in Completed' : job'[i].mark = job[i].mark
      BY <2>1 DEF Claim, Completed, TypeOK, JobRow
    <3> HIDE DEF q
    <3> QED
      BY <2>1, <3>1, <3>2, WorkerKeepsMarks DEF Claim
  <2>2. CASE Look(w)
    BY <2>2, LookKeepsMarks
  <2>3. CASE Ask(w)
    <3>1. PICK text \in Text \union {NoText} :
            worker' = [worker EXCEPT ![w].pc = "answered", ![w].text = text]
      BY <2>3 DEF Ask
    <3> DEFINE q == [r EXCEPT !.pc = "answered", !.text = text]
    <3>2. worker' = [worker EXCEPT ![w] = q]
      BY <3>1
    <3>3. q.mark = r.mark /\ q.seeds = r.seeds /\ r.pc = "ask"
      BY <2>0, <2>3 DEF Ask, WorkerRecord
    <3>4. Completed' \subseteq Completed /\ \A j \in Completed' : job'[j].mark = job[j].mark
      BY <2>3, CallKeepsRows DEF Ask, Completed
    <3> HIDE DEF q
    <3> QED
      BY <2>0, <2>3, <3>2, <3>3, <3>4, WorkerKeepsMarks DEF Ask, Sound, Accounted
  <2>4. CASE AskFails(w)
    <3> DEFINE q == [r EXCEPT !.seeds = r.seeds \ {Seed(w)}, !.mark = AfterFailure(w, Seed(w))]
    <3>1. worker' = [worker EXCEPT ![w] = q] /\ r.pc = "ask" /\ r.seeds # {}
      BY <2>4 DEF AskFails
    <3>2. q.mark = AfterFailure(w, Seed(w)) /\ q.seeds \subseteq r.seeds
      BY <2>0 DEF WorkerRecord
    <3>3. Completed' \subseteq Completed /\ \A j \in Completed' : job'[j].mark = job[j].mark
      BY <2>4, CallKeepsRows DEF AskFails, Completed
    <3>4. /\ Fits(q.mark)
          /\ \A v \in Live : UpTo(v, q.mark) => v.id \in looked
          /\ \A v \in q.seeds : v.at > 0
      BY <2>0, <3>1, <3>2, FailureIsNotPassed DEF Sound
    <3> HIDE DEF q
    <3> QED
      BY <2>4, <3>1, <3>3, <3>4, WorkerKeepsMarks DEF AskFails
  <2>5. CASE AskRefused(w)
    <3> DEFINE q == [r EXCEPT !.seeds = {}, !.mark = AfterFailure(w, Seed(w))]
    <3>1. worker' = [worker EXCEPT ![w] = q] /\ r.pc = "ask" /\ r.seeds # {}
      BY <2>5 DEF AskRefused
    <3>2. q.mark = AfterFailure(w, Seed(w)) /\ q.seeds = {}
      BY <2>0 DEF WorkerRecord
    <3>3. /\ Fits(q.mark)
          /\ \A v \in Live : UpTo(v, q.mark) => v.id \in looked
      BY <3>1, <3>2, FailureIsNotPassed
    <3> HIDE DEF q
    <3> QED
      BY <2>5, <2>a, <3>1, <3>2, <3>3, WorkerKeepsMarks DEF AskRefused
  <2>6. CASE ApplyBegins(w)
    <3> DEFINE stated == r.text # NoText /\ inferred[r.text] > 0
               q == [r EXCEPT !.pc = "apply", !.stated = stated]
    <3>1. worker' = [worker EXCEPT ![w] = q] /\ r.pc = "answered"
      BY <2>6 DEF ApplyBegins
    <3> HIDE DEF stated
    <3>2. q.mark = r.mark /\ q.seeds = r.seeds
      BY <2>0 DEF WorkerRecord
    <3> HIDE DEF q
    <3> QED
      BY <2>0, <2>6, <2>a, <3>1, <3>2, WorkerKeepsMarks DEF ApplyBegins, Sound, Accounted
  <2>7. CASE ApplyCommits(w)
    <3> DEFINE q == [r EXCEPT !.pc = "ask", !.seeds = r.seeds \ {Seed(w)},
                              !.text = NoText, !.stated = FALSE]
    <3>1. worker' = [worker EXCEPT ![w] = q] /\ r.pc = "apply"
      BY <2>7 DEF ApplyCommits
    <3>2. q.mark = r.mark /\ q.seeds = r.seeds \ {Seed(w)}
      BY <2>0 DEF WorkerRecord
    <3>3. looked' = looked \union {v.id : v \in {Seed(w)} \intersect Live}
      BY <2>7 DEF ApplyCommits
    <3>4. /\ Fits(q.mark)
          /\ \A v \in Live : UpTo(v, q.mark) => v.id \in looked' \/ v \in q.seeds
          /\ \A v \in q.seeds : v.at > 0
      BY <2>0, <3>1, <3>2, <3>3 DEF Sound, Accounted
    <3> HIDE DEF q
    <3> QED
      BY <2>7, <2>a, <3>1, <3>3, <3>4, WorkerKeepsMarks DEF ApplyCommits
  <2>8. CASE ApplyFails(w)
    <3>1. PICK pc \in {"defer", "fail"} : worker' = [worker EXCEPT ![w].pc = pc]
      BY <2>8 DEF ApplyFails, Goto
    <3> DEFINE q == [r EXCEPT !.pc = pc]
    <3>2. worker' = [worker EXCEPT ![w] = q] /\ q.pc \in {"defer", "fail"}
      BY <2>0, <3>1 DEF WorkerRecord
    <3> HIDE DEF q
    <3> QED
      BY <2>8, <2>a, <3>2, WorkerKeepsMarks DEF ApplyFails
  <2>9. CASE Discard(w) \/ Crash(w)
    BY <2>9, <2>a, WorkerKeepsMarks DEF Discard, Crash, Idle
  <2>10. CASE Finish(w)
    <3> DEFINE j == r.job
    <3>1. /\ r.pc = "ask" /\ r.seeds = {} /\ j \in Job
          /\ job' = [job EXCEPT ![j] = [@ EXCEPT !.status = "complete", !.holder = NoWorker,
                                                  !.mark = r.mark]]
          /\ worker' = [worker EXCEPT ![w] = Idle]
          /\ UNCHANGED <<memories, inferred, history, faults>>
      BY <2>10, WorkerTyped DEF Finish, Settle
    <3>2. Live' = Live
      BY <3>1 DEF Live, memories
    <3>3. \A i \in Completed' : job'[i].mark = r.mark \/ (i \in Completed /\ job'[i] = job[i])
      BY <3>1 DEF Completed, TypeOK, JobRow
    <3>4. Fits(r.mark) /\ Accounted(r.mark, {})
      BY <2>0, <3>1 DEF Sound
    <3>5. Grounded'
      BY <3>1, <3>2, <3>3, <3>4, MarksParts DEF Grounded, Fits, Accounted, memories
    <3>6. ASSUME NEW v \in Worker PROVE Sound(worker[v])'
      <4>1. worker'[v] = Idle \/ worker'[v] = worker[v]
        BY <3>1 DEF TypeOK
      <4> QED
        BY <3>1, <3>2, <4>1, MarksParts DEF Sound, Idle, Fits, Accounted, memories
    <3> QED
      BY <3>5, <3>6, MarksPartsNext
  <2>11. ASSUME NEW status \in {"queued", "failed"}, Settle(w, status, Start), r.pc # "idle"
         PROVE  MarksInv'
    <3>1. /\ job' = [job EXCEPT ![r.job] = [@ EXCEPT !.status = status, !.holder = NoWorker,
                                                      !.mark = Start]]
          /\ r.job \in Job
      BY <2>11, WorkerTyped DEF Settle
    <3>2. Completed' \subseteq Completed /\ \A j \in Completed' : job'[j].mark = job[j].mark
      BY <3>1 DEF Completed, TypeOK, JobRow
    <3> QED
      BY <2>11, <3>2, WorkerKeepsMarks DEF Settle, Idle
  <2> QED
    BY <1>6, <2>1, <2>2, <2>3, <2>4, <2>5, <2>6, <2>7, <2>8, <2>9, <2>10, <2>11
       DEF WorkerStep, Fail, Defer
<1> QED
  BY <1>1, <1>2, <1>3, <1>4, <1>5, <1>6 DEF Next

\* Memories that no dream looked at are not marked as dreamed, for any number of
\* memories, transactions, clusters and dreams, and whatever failed, was refused or was
\* begun anew; excepted are those whose change was not committed when a list was read
\* (dream.fresh_memories, plan_clusters, run).
THEOREM MarkedWasSeen == Spec => []NothingMarkedUnseen
<1>1. TypeOK /\ MarksInv => NothingMarkedUnseen
  BY PassedWasLookedAt DEF NothingMarkedUnseen
<1> QED
  BY <1>1, TypeInit, TypeNext, MarksInit, MarksNext, PTL DEF Spec
=============================================================================
