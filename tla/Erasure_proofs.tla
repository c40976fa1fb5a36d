--------------------------- MODULE Erasure_proofs ---------------------------
(***************************************************************************)
(* Theorems about Erasure, for every set of workers, erase jobs and        *)
(* exports, and any number of faults, requests and restores.               *)
(***************************************************************************)
EXTENDS Erasure, TLAPS

-----------------------------------------------------------------------------
(***************************************************************************)
(* Databases                                                               *)
(***************************************************************************)
LEMMA NoJobRowTyped ==
  NoJobRow \in JobRow /\ NoJobRow.status = "none" /\ ~NoJobRow.erased
  BY DEF NoJobRow, JobRow, Status

\* A database with another row for one job.
WithRow(d, j, row) == [d EXCEPT !.job[j] = row]

LEMMA WithRowTyped ==
  ASSUME NEW d \in Database, NEW j \in Job, NEW row \in JobRow
  PROVE  /\ WithRow(d, j, row) \in Database
         /\ WithRow(d, j, row).user = d.user
         /\ WithRow(d, j, row).shared = d.shared
         /\ WithRow(d, j, row).pending = d.pending
         /\ \A i \in Job : WithRow(d, j, row).job[i] = IF i = j THEN row ELSE d.job[i]
  BY DEF Database, WithRow

\* Only the row of one job is another.
OneRow(x, d, j) ==
    /\ x \in Database
    /\ x.user = d.user /\ x.shared = d.shared /\ x.pending = d.pending
    /\ \A i \in Job \ {j} : x.job[i] = d.job[i]

\* The progress of its erasure is not.
SameProgress(x, d, j) ==
    x.job[j].erased = d.job[j].erased /\ x.job[j].paths = d.job[j].paths

\* What the steps make of a row.
SetStatus(d, j, status) == [d EXCEPT !.job[j].status = status]
SetHolder(d, j, status, holder) == [d EXCEPT !.job[j].status = status, !.job[j].holder = holder]
SetAccepted(d, j, paths) == [d EXCEPT !.job[j].accepted = TRUE, !.job[j].paths = paths]
SetRequested(d, j, own) == [d EXCEPT !.job[j] = [NoJobRow EXCEPT !.status = "queued", !.own = own]]

LEMMA StatusChanged ==
  ASSUME NEW d \in Database, NEW j \in Job, NEW status \in Status
  PROVE  /\ OneRow(SetStatus(d, j, status), d, j)
         /\ SameProgress(SetStatus(d, j, status), d, j)
         /\ SetStatus(d, j, status).job[j].status = status
<1> DEFINE row == [d.job[j] EXCEPT !.status = status]
<1>1. d.job[j] \in JobRow
  BY DEF Database
<1>2. /\ row \in JobRow /\ row.status = status
      /\ row.erased = d.job[j].erased /\ row.paths = d.job[j].paths
  BY <1>1 DEF JobRow
<1>3. SetStatus(d, j, status) = WithRow(d, j, row)
  BY DEF SetStatus, WithRow, Database
<1> HIDE DEF row
<1> QED
  BY <1>2, <1>3, WithRowTyped DEF OneRow, SameProgress

LEMMA HolderChanged ==
  ASSUME NEW d \in Database, NEW j \in Job, NEW status \in Status,
         NEW holder \in Worker \union {NoWorker}
  PROVE  /\ OneRow(SetHolder(d, j, status, holder), d, j)
         /\ SameProgress(SetHolder(d, j, status, holder), d, j)
         /\ SetHolder(d, j, status, holder).job[j].status = status
         /\ SetHolder(d, j, status, holder).job[j].holder = holder
<1> DEFINE row == [d.job[j] EXCEPT !.status = status, !.holder = holder]
<1>1. d.job[j] \in JobRow
  BY DEF Database
<1>2. /\ row \in JobRow /\ row.status = status /\ row.holder = holder
      /\ row.erased = d.job[j].erased /\ row.paths = d.job[j].paths
  BY <1>1 DEF JobRow
<1>3. SetHolder(d, j, status, holder) = WithRow(d, j, row)
  BY DEF SetHolder, WithRow, Database
<1> HIDE DEF row
<1> QED
  BY <1>2, <1>3, WithRowTyped DEF OneRow, SameProgress

LEMMA ErasureAccepted ==
  ASSUME NEW d \in Database, NEW j \in Job, NEW paths \in SUBSET Export
  PROVE  /\ OneRow(SetAccepted(d, j, paths), d, j)
         /\ SetAccepted(d, j, paths).job[j].status = d.job[j].status
         /\ SetAccepted(d, j, paths).job[j].holder = d.job[j].holder
         /\ SetAccepted(d, j, paths).job[j].erased = d.job[j].erased
         /\ SetAccepted(d, j, paths).job[j].paths = paths
<1> DEFINE row == [d.job[j] EXCEPT !.accepted = TRUE, !.paths = paths]
<1>1. d.job[j] \in JobRow
  BY DEF Database
<1>2. /\ row \in JobRow /\ row.erased = d.job[j].erased /\ row.paths = paths
      /\ row.status = d.job[j].status /\ row.holder = d.job[j].holder
  BY <1>1 DEF JobRow
<1>3. SetAccepted(d, j, paths) = WithRow(d, j, row)
  BY DEF SetAccepted, WithRow, Database
<1> HIDE DEF row
<1> QED
  BY <1>2, <1>3, WithRowTyped DEF OneRow

LEMMA ErasureRequested ==
  ASSUME NEW d \in Database, NEW j \in Job, NEW own \in BOOLEAN
  PROVE  /\ OneRow(SetRequested(d, j, own), d, j)
         /\ SetRequested(d, j, own).job[j].status = "queued"
         /\ ~SetRequested(d, j, own).job[j].erased
<1> DEFINE row == [NoJobRow EXCEPT !.status = "queued", !.own = own]
<1>1. row \in JobRow /\ row.status = "queued" /\ ~row.erased
  BY DEF NoJobRow, JobRow, Status
<1>2. SetRequested(d, j, own) = WithRow(d, j, row)
  BY DEF SetRequested, WithRow
<1> HIDE DEF row
<1> QED
  BY <1>1, <1>2, WithRowTyped DEF OneRow

\* What an erasure leaves of a database.
LEMMA ErasedTyped ==
  ASSUME NEW d \in Database, NEW keep \in Job, NEW paths \in SUBSET Export
  PROVE  /\ Erased(d, keep, paths) \in Database
         /\ ~Erased(d, keep, paths).user /\ ~Erased(d, keep, paths).pending
         /\ Erased(d, keep, paths).shared = d.shared
         /\ Erased(d, keep, paths).job[keep].erased
         /\ Erased(d, keep, paths).job[keep].paths = paths
         /\ \A j \in Job \ {keep} :
               \/ Erased(d, keep, paths).job[j] = d.job[j]
               \/ Erased(d, keep, paths).job[j] = NoJobRow
<1> DEFINE kept == [d.job[keep] EXCEPT !.accepted = TRUE, !.erased = TRUE, !.paths = paths, !.own = FALSE]
           jobs == [j \in Job |-> IF j = keep THEN kept ELSE IF d.job[j].own THEN NoJobRow ELSE d.job[j]]
<1>1. kept \in JobRow /\ kept.erased /\ kept.paths = paths
  BY DEF Database, JobRow
<1>2. Erased(d, keep, paths) = [d EXCEPT !.user = FALSE, !.pending = FALSE, !.job = jobs]
  BY DEF Erased
<1>3. \A j \in Job : d.job[j] \in JobRow
  BY DEF Database
<1> HIDE DEF kept
<1>4. jobs \in [Job -> JobRow]
  BY <1>1, <1>3, NoJobRowTyped
<1>5. jobs[keep] = kept /\ \A j \in Job \ {keep} : jobs[j] = d.job[j] \/ jobs[j] = NoJobRow
  OBVIOUS
<1> HIDE DEF jobs
<1> QED
  BY <1>1, <1>2, <1>4, <1>5 DEF Database

\* An archive is the database, but for who runs what.
LEMMA SnapshotTyped ==
  ASSUME db \in Database
  PROVE  /\ Snapshot \in Database
         /\ Snapshot.user = db.user /\ Snapshot.pending = db.pending
         /\ \A j \in Job : Snapshot.job[j].erased = db.job[j].erased
<1> DEFINE row(j) == IF db.job[j].status = "running"
                     THEN [db.job[j] EXCEPT !.status = "queued", !.holder = NoWorker]
                     ELSE db.job[j]
           jobs == [j \in Job |-> row(j)]
<1>1. ASSUME NEW j \in Job PROVE row(j) \in JobRow /\ row(j).erased = db.job[j].erased
  <2>1. db.job[j] \in JobRow
    BY DEF Database
  <2> QED
    BY <2>1 DEF JobRow, Status
<1>2. Snapshot = [db EXCEPT !.job = jobs]
  BY DEF Snapshot
<1> HIDE DEF row
<1>3. jobs \in [Job -> JobRow] /\ \A j \in Job : jobs[j].erased = db.job[j].erased
  BY <1>1
<1> HIDE DEF jobs
<1> QED
  BY <1>2, <1>3 DEF Database

\* A database is restored as it was, or erased again because of the receipt.
LEMMA ReplayedTyped ==
  ASSUME NEW d \in Database, NEW j \in Job
  PROVE  /\ Replayed(d, j) \in Database
         /\ \/ receipt /\ ~Replayed(d, j).user /\ ~Replayed(d, j).pending
            \/ ~(receipt /\ d.user) /\ Replayed(d, j) = d
<1> DEFINE c == WithRow(d, j, [NoJobRow EXCEPT !.status = "queued"])
<1>1. [NoJobRow EXCEPT !.status = "queued"] \in JobRow
  BY DEF NoJobRow, JobRow, Status
<1>2. c \in Database
  BY <1>1, WithRowTyped
<1>3. Replayed(d, j) = IF receipt /\ d.user THEN Erased(c, j, {}) ELSE d
  BY DEF Replayed, WithRow
<1> HIDE DEF c
<1> QED
  BY <1>2, <1>3, ErasedTyped

-----------------------------------------------------------------------------
(***************************************************************************)
(* Types                                                                   *)
(***************************************************************************)
LEMMA TypeInit == Init => TypeOK
<1> SUFFICES ASSUME Init PROVE TypeOK
  OBVIOUS
<1>1. db \in Database
  BY NoJobRowTyped DEF Init, Database
<1>2. \A w \in Worker :
         /\ gate = w <=> worker[w].pc \in Inside
         /\ worker[w].pc # "idle" => worker[w].job \in Job
  BY ErasureAssumption DEF Init, Idle, Inside
<1>3. worker \in [Worker -> [pc : Step, job : Job \union {NoJob}, found : SUBSET Export]]
  BY DEF Init, Idle, Step
<1>4. archive \in Database \union {NoArchive} /\ (mode # "serving" => archive # NoArchive)
  BY DEF Init
<1>5. faults \in 0..MaxFaults /\ requests \in 0..MaxRequests /\ restores \in 0..MaxRestores
  BY ErasureAssumption DEF Init
<1> QED
  BY <1>1, <1>2, <1>3, <1>4, <1>5 DEF Init, TypeOK, Mode

WorkerRecord == [pc : Step, job : Job \union {NoJob}, found : SUBSET Export]

\* What TypeOK says of the workers and the gate.
Working ==
    /\ gate \in Worker \union {NoWorker}
    /\ worker \in [Worker -> WorkerRecord]
    /\ \A w \in Worker :
          /\ gate = w <=> worker[w].pc \in Inside
          /\ worker[w].pc # "idle" => worker[w].job \in Job

LEMMA IdleTyped == Idle \in WorkerRecord /\ Idle.pc = "idle" /\ Idle.pc \notin Inside
  BY DEF Idle, WorkerRecord, Step, Inside

\* A worker takes the gate when it enters, and gives it back when it leaves.
LEMMA WorkerMoves ==
  ASSUME Working, NEW w \in Worker, NEW r \in WorkerRecord,
         worker' = [worker EXCEPT ![w] = r], r.pc # "idle" => r.job \in Job,
         r.pc \in Inside => gate \in {NoWorker, w},
         gate' = IF r.pc \in Inside THEN w
                 ELSE IF worker[w].pc \in Inside THEN NoWorker ELSE gate
  PROVE  Working'
<1>1. worker' \in [Worker -> WorkerRecord] /\ gate' \in Worker \union {NoWorker}
  BY DEF Working
<1>2. ASSUME NEW v \in Worker
      PROVE  /\ gate' = v <=> worker'[v].pc \in Inside
             /\ worker'[v].pc # "idle" => worker'[v].job \in Job
  <2>1. CASE v = w
    <3>1. worker'[v] = r
      BY <2>1 DEF Working
    <3>2. gate = w <=> worker[w].pc \in Inside
      BY DEF Working
    <3> QED
      BY <2>1, <3>1, <3>2, ErasureAssumption DEF Working
  <2>2. CASE v # w
    <3>1. worker'[v] = worker[v]
      BY <2>2 DEF Working
    <3>2. gate = v <=> worker[v].pc \in Inside
      BY DEF Working
    <3>3. gate = w <=> worker[w].pc \in Inside
      BY DEF Working
    <3> QED
      BY <2>2, <3>1, <3>2, <3>3, ErasureAssumption DEF Working
  <2> QED
    BY <2>1, <2>2
<1> QED
  BY <1>1, <1>2 DEF Working

\* A worker goes on inside, or outside.
LEMMA GotoMoves ==
  ASSUME Working, NEW w \in Worker, NEW step \in Step, Goto(w, step), gate' = gate,
         worker[w].pc # "idle", worker[w].pc \in Inside <=> step \in Inside
  PROVE  Working'
<1> DEFINE r == [worker[w] EXCEPT !.pc = step]
<1>1. r \in WorkerRecord /\ r.pc = step /\ r.job = worker[w].job
  BY DEF Working, WorkerRecord
<1>2. worker' = [worker EXCEPT ![w] = r]
  BY DEF Goto
<1>3. worker[w].job \in Job /\ (gate = w <=> worker[w].pc \in Inside)
  BY DEF Working
<1> HIDE DEF r
<1> QED
  BY <1>1, <1>2, <1>3, WorkerMoves

\* A worker leaves the gate with its job.
LEMMA LeaveMoves ==
  ASSUME Working, NEW w \in Worker, NEW step \in {"finish", "fail", "defer"},
         worker[w].pc \in Inside, Leave(w, step)
  PROVE  Working'
<1> DEFINE r == [worker[w] EXCEPT !.pc = step, !.found = {}]
<1>1. r \in WorkerRecord /\ r.pc = step /\ r.job = worker[w].job
  BY DEF Working, WorkerRecord, Step
<1>2. worker' = [worker EXCEPT ![w] = r] /\ gate' = NoWorker
  BY DEF Leave
<1>3. worker[w].job \in Job /\ step \notin Inside
  BY DEF Working, Inside
<1> HIDE DEF r
<1> QED
  BY <1>1, <1>2, <1>3, WorkerMoves DEF Inside

\* A worker that discards its execution, or dies, leaves the gate.
LEMMA IdleMoves ==
  ASSUME Working, NEW w \in Worker, worker' = [worker EXCEPT ![w] = Idle],
         gate' = IF worker[w].pc \in Inside THEN NoWorker ELSE gate
  PROVE  Working'
  BY IdleTyped, WorkerMoves

\* What it says of the rest.
Stores ==
    /\ db \in Database
    /\ receipt \in BOOLEAN
    /\ archive \in Database \union {NoArchive}
    /\ index \in BOOLEAN
    /\ files \subseteq Export
    /\ exporter \in Export \union {NoExport}
    /\ mode \in Mode
    /\ faults \in 0..MaxFaults
    /\ requests \in 0..MaxRequests
    /\ restores \in 0..MaxRestores
    /\ reported \in BOOLEAN
    /\ mode # "serving" => archive # NoArchive

LEMMA TypeParts == (TypeOK <=> Working /\ Stores) /\ (Working' /\ Stores' => TypeOK')
  BY DEF TypeOK, Working, WorkerRecord, Stores

LEMMA FaultIsCounted ==
  ASSUME TypeOK, Fault
  PROVE  faults' \in 0..MaxFaults
  BY ErasureAssumption DEF TypeOK, Fault

\* Nothing of a worker or of the gate changes.
LEMMA WorkingKept ==
  ASSUME Working, UNCHANGED working
  PROVE  Working'
  BY DEF Working, working

\* Each step of a request, of the user and of an export keeps the types.
LEMMA UserKeepsTypes ==
  ASSUME TypeOK,
         \/ \E j \in Job : Cancel(j) \/ RecoverStale(j)
         \/ \E j \in Job, own \in BOOLEAN : Request(j, own)
         \/ UserStep
  PROVE  TypeOK'
<1>0. Working /\ Stores /\ db \in Database
  BY TypeParts DEF Stores
<1> USE DEF budgets, Serving, Stores
<1>1. ASSUME NEW j \in Job, Cancel(j) PROVE TypeOK'
  <2>1. db' \in Database
    <3>1. db' = SetStatus(db, j, "cancelled")
      BY <1>1 DEF Cancel, SetStatus
    <3> QED
      BY <1>0, <3>1, StatusChanged DEF Status, OneRow
  <2> QED
    BY <1>0, <1>1, <2>1, TypeParts, WorkingKept DEF Cancel
<1>2. ASSUME NEW j \in Job, RecoverStale(j) PROVE TypeOK'
  <2>1. db' = SetHolder(db, j, "queued", NoWorker)
    BY <1>2 DEF RecoverStale, SetHolder
  <2>2. db' \in Database
    BY <1>0, <2>1, HolderChanged DEF Status, OneRow
  <2>3. faults' \in 0..MaxFaults
    BY <1>2, TypeParts, FaultIsCounted DEF RecoverStale
  <2> QED
    BY <1>0, <1>2, <2>2, <2>3, TypeParts, WorkingKept DEF RecoverStale
<1>3. ASSUME NEW j \in Job, NEW own \in BOOLEAN, Request(j, own) PROVE TypeOK'
  <2>1. db' = SetRequested(db, j, own)
    BY <1>3 DEF Request, SetRequested
  <2>2. db' \in Database
    BY <1>0, <2>1, ErasureRequested DEF OneRow
  <2>3. requests' \in 0..MaxRequests
    <3>1. requests \in 0..MaxRequests /\ requests < MaxRequests /\ requests' = requests + 1
      BY <1>0, <1>3 DEF Request
    <3> QED
      BY <3>1, ErasureAssumption
  <2> QED
    BY <1>0, <1>3, <2>2, <2>3, TypeParts, WorkingKept DEF Request
<1>4. CASE WritePrivate
  <2>1. db' \in Database
    BY <1>0, <1>4 DEF WritePrivate, Database
  <2> QED
    BY <1>0, <1>4, <2>1, TypeParts, WorkingKept DEF WritePrivate
<1>5. CASE WriteShared
  <2> DEFINE shared == ~db.shared
  <2>1. shared \in BOOLEAN
    OBVIOUS
  <2>2. db' = [db EXCEPT !.shared = shared]
    BY <1>5 DEF WriteShared
  <2> HIDE DEF shared
  <2>3. db' \in Database
    BY <1>0, <2>1, <2>2 DEF Database
  <2> QED
    BY <1>0, <1>5, <2>3, TypeParts, WorkingKept DEF WriteShared
<1>6. CASE Deliver
  <2>1. db' \in Database /\ index' \in BOOLEAN
    BY <1>0, <1>6 DEF Deliver, Database
  <2> QED
    BY <1>0, <1>6, <2>1, TypeParts, WorkingKept DEF Deliver
<1>7. ASSUME NEW e \in Export, ReadExport(e) PROVE TypeOK'
  BY <1>0, <1>7, TypeParts, WorkingKept DEF ReadExport
<1>8. CASE WriteExport
  BY <1>0, <1>8, TypeParts, WorkingKept DEF WriteExport
<1>9. CASE ExportDies
  BY <1>0, <1>9, TypeParts, WorkingKept, FaultIsCounted DEF ExportDies
<1> QED
  BY <1>1, <1>2, <1>3, <1>4, <1>5, <1>6, <1>7, <1>8, <1>9 DEF UserStep

\* What the row of a worker's job becomes.
LEMMA WorkerRows ==
  ASSUME TypeOK, NEW w \in Worker, worker[w].pc # "idle", NEW status \in Status,
         NEW holder \in Worker \union {NoWorker}
  PROVE  LET j == worker[w].job
         IN  /\ j \in Job /\ worker[w].found \subseteq Export
             /\ SetHolder(db, j, status, holder) \in Database
             /\ SetAccepted(db, j, worker[w].found) \in Database
<1>1. worker[w].job \in Job /\ worker[w].found \subseteq Export /\ db \in Database
  BY DEF TypeOK
<1> QED
  BY <1>1, HolderChanged, ErasureAccepted DEF OneRow

LEMMA DiscardKeepsTypes ==
  ASSUME TypeOK, NEW w \in Worker, worker[w].pc \in Inside, Discard(w),
         UNCHANGED <<archive, exporter, mode, budgets>>
  PROVE  TypeOK'
  BY TypeParts, IdleMoves DEF Discard, budgets, Stores

\* Each step of a worker keeps the types.
LEMMA WorkerKeepsTypes ==
  ASSUME TypeOK, NEW w \in Worker,
         (\E j \in Job : Claim(w, j)) \/ WorkerStep(w) \/ WorkerFails(w)
  PROVE  TypeOK'
<1>0. Working /\ Stores /\ db \in Database /\ (gate = w <=> worker[w].pc \in Inside)
  BY TypeParts DEF Working, Stores
<1> USE DEF budgets, Stores
<1>1. ASSUME NEW j \in Job, Claim(w, j) PROVE TypeOK'
  <2>1. db' = SetHolder(db, j, "running", w)
    BY <1>1 DEF Claim, SetHolder
  <2>2. db' \in Database
    BY <1>0, <2>1, HolderChanged DEF Status, OneRow
  <2> DEFINE r == [worker[w] EXCEPT !.pc = "claimed", !.job = j]
  <2>3. r \in WorkerRecord /\ r.pc = "claimed" /\ r.job = j
    BY <1>0 DEF Working, WorkerRecord, Step
  <2>4. worker' = [worker EXCEPT ![w] = r] /\ gate' = gate /\ worker[w].pc = "idle"
    BY <1>1 DEF Claim
  <2> HIDE DEF r
  <2>5. Working'
    BY <1>0, <2>3, <2>4, WorkerMoves DEF Inside
  <2> QED
    BY <1>1, <2>2, <2>5, TypeParts DEF Claim
<1>2. CASE TakeGate(w)
  <2>1. CASE gate' = w /\ Goto(w, "prepare") /\ GateFree
    <3> DEFINE r == [worker[w] EXCEPT !.pc = "prepare"]
    <3>1. r \in WorkerRecord /\ r.pc = "prepare" /\ r.job = worker[w].job
      BY <1>0 DEF Working, WorkerRecord, Step
    <3>2. worker' = [worker EXCEPT ![w] = r] /\ r.job \in Job
      BY <1>0, <1>2, <2>1, <3>1 DEF Goto, Working, TakeGate
    <3> HIDE DEF r
    <3>3. Working'
      BY <1>0, <2>1, <3>1, <3>2, WorkerMoves DEF Inside, GateFree
    <3> QED
      BY <1>2, <3>3, TypeParts DEF TakeGate
  <2>2. CASE gate' = gate /\ Goto(w, "defer")
    <3>1. Working'
      BY <1>0, <1>2, <2>2, GotoMoves DEF TakeGate, Inside, Step
    <3> QED
      BY <1>2, <3>1, TypeParts DEF TakeGate
  <2> QED
    BY <1>2, <2>1, <2>2 DEF TakeGate
<1>3. CASE Resume(w)
  <2>1. Working'
    BY <1>0, <1>3, GotoMoves DEF Resume, Inside, Step
  <2> QED
    BY <1>3, <2>1, TypeParts DEF Resume
<1>4. CASE Refuse(w)
  <2>1. Working'
    BY <1>0, <1>4, LeaveMoves DEF Refuse, Inside
  <2> QED
    BY <1>4, <2>1, TypeParts DEF Refuse
<1>5. CASE Prepare(w)
  <2> DEFINE r == [worker[w] EXCEPT !.pc = "accept", !.found = files]
  <2>1. r \in WorkerRecord /\ r.pc = "accept" /\ r.job = worker[w].job
    BY <1>0, TypeParts DEF Working, WorkerRecord, Step
  <2>2. /\ worker' = [worker EXCEPT ![w] = r] /\ gate' = gate
        /\ worker[w].pc = "prepare" /\ r.job \in Job
    BY <1>0, <1>5, <2>1 DEF Prepare, Working
  <2> HIDE DEF r
  <2>3. Working'
    BY <1>0, <2>1, <2>2, WorkerMoves DEF Inside
  <2> QED
    BY <1>5, <2>3, TypeParts DEF Prepare
<1>6. CASE Accept(w)
  <2>1. CASE db' = SetAccepted(db, worker[w].job, worker[w].found)
             /\ Goto(w, "receipt") /\ UNCHANGED <<receipt, index, files, gate, reported>>
    <3>1. Working'
      BY <1>0, <1>6, <2>1, GotoMoves DEF Accept, Inside, Step
    <3>2. db' \in Database
      BY <1>6, <2>1, WorkerRows DEF Accept, Status
    <3> QED
      BY <1>6, <2>1, <3>1, <3>2, TypeParts DEF Accept
  <2>2. CASE Discard(w)
    BY <1>6, <2>2, DiscardKeepsTypes DEF Accept, Inside
  <2> QED
    BY <1>6, <2>1, <2>2 DEF Accept, SetAccepted
<1>7. CASE WriteReceipt(w)
  <2>1. Working'
    BY <1>0, <1>7, GotoMoves DEF WriteReceipt, Inside, Step
  <2> QED
    BY <1>7, <2>1, TypeParts DEF WriteReceipt
<1>8. CASE EraseRows(w)
  <2>1. CASE db' = Erased(db, worker[w].job, worker[w].found)
             /\ Goto(w, "clean") /\ UNCHANGED <<receipt, index, files, gate, reported>>
    <3>1. Working'
      BY <1>0, <1>8, <2>1, GotoMoves DEF EraseRows, Inside, Step
    <3>2. worker[w].job \in Job /\ worker[w].found \subseteq Export
      BY <1>0, <1>8 DEF EraseRows, Working, WorkerRecord
    <3>3. db' \in Database
      BY <1>0, <2>1, <3>2, ErasedTyped
    <3> QED
      BY <1>8, <2>1, <3>1, <3>3, TypeParts DEF EraseRows
  <2>2. CASE Discard(w)
    BY <1>8, <2>2, DiscardKeepsTypes DEF EraseRows, Inside
  <2> QED
    BY <1>8, <2>1, <2>2 DEF EraseRows
<1>9. CASE Clean(w)
  <2>1. CASE Leave(w, "finish") /\ index' = FALSE /\ files' \subseteq files
             /\ UNCHANGED <<db, receipt, reported>>
    <3>1. Working'
      BY <1>0, <1>9, <2>1, LeaveMoves DEF Clean, Inside
    <3> QED
      BY <1>9, <2>1, <3>1, TypeParts DEF Clean
  <2>2. CASE Discard(w)
    BY <1>9, <2>2, DiscardKeepsTypes DEF Clean, Inside
  <2> QED
    BY <1>9, <2>1, <2>2 DEF Clean
<1>10. ASSUME NEW status \in Status, Settle(w, status), worker[w].pc \in {"finish", "fail", "defer"}
       PROVE  TypeOK'
  <2>1. db' \in Database
    <3>1. CASE Holds(w)
      <4>1. db' = SetHolder(db, worker[w].job, status, NoWorker)
        BY <1>10, <3>1 DEF Settle, SetHolder
      <4>2. worker[w].pc # "idle" /\ NoWorker \in Worker \union {NoWorker}
        BY <1>10
      <4> QED
        BY <1>10, <4>1, <4>2, WorkerRows
    <3>2. CASE ~Holds(w)
      BY <1>0, <1>10, <3>2 DEF Settle
    <3> QED
      BY <3>1, <3>2
  <2>2. Working'
    BY <1>0, <1>10, IdleMoves DEF Settle, Inside
  <2>3. reported' \in BOOLEAN
    <3>1. CASE Holds(w)
      BY <1>10, <3>1, Zenon DEF Settle
    <3>2. CASE ~Holds(w)
      BY <1>10, <3>2, TypeParts DEF Settle
    <3> QED
      BY <3>1, <3>2
  <2> QED
    BY <1>10, <2>1, <2>2, <2>3, TypeParts DEF Settle
<1>11. CASE Finish(w) \/ Fail(w) \/ Defer(w)
  BY <1>10, <1>11 DEF Finish, Fail, Defer, Status
<1>12. CASE PrepareFails(w)
  <2>1. Working'
    BY <1>0, <1>12, LeaveMoves DEF PrepareFails, Inside
  <2> QED
    BY <1>12, <2>1, TypeParts, FaultIsCounted DEF PrepareFails
<1>13. CASE ReceiptFails(w)
  <2>1. Working'
    BY <1>0, <1>13, LeaveMoves DEF ReceiptFails, Inside
  <2> QED
    BY <1>13, <2>1, TypeParts, FaultIsCounted DEF ReceiptFails
<1>14. CASE EraseFails(w)
  <2>1. Working'
    BY <1>0, <1>14, LeaveMoves DEF EraseFails, Inside
  <2> QED
    BY <1>14, <2>1, TypeParts, FaultIsCounted DEF EraseFails
<1>15. CASE CleanFails(w)
  <2>1. Working'
    BY <1>0, <1>15, LeaveMoves DEF CleanFails, Inside
  <2>2. index' \in BOOLEAN
    BY <1>15, TypeParts DEF CleanFails
  <2> QED
    BY <1>15, <2>1, <2>2, TypeParts, FaultIsCounted DEF CleanFails
<1>16. CASE Crash(w)
  <2>1. Working'
    BY <1>0, <1>16, IdleMoves DEF Crash
  <2> QED
    BY <1>16, <2>1, TypeParts, FaultIsCounted DEF Crash
<1> QED
  BY <1>1, <1>2, <1>3, <1>4, <1>5, <1>6, <1>7, <1>8, <1>9, <1>11, <1>12, <1>13, <1>14,
     <1>15, <1>16 DEF WorkerStep, WorkerFails

\* Each step of an operator keeps the types.
LEMMA OperatorKeepsTypes ==
  ASSUME TypeOK, Dump \/ BeginRestore \/ OperatorStep
  PROVE  TypeOK'
<1>0. Working /\ Stores /\ db \in Database
  BY TypeParts DEF Stores
<1> USE DEF budgets, Serving, Mode, Stores
<1>1. CASE Dump
  BY <1>0, <1>1, TypeParts, WorkingKept, SnapshotTyped DEF Dump
<1>2. CASE BeginRestore
  <2>1. Working'
    BY <1>2, ErasureAssumption, IdleTyped DEF BeginRestore, Working
  <2>2. restores' \in 0..MaxRestores
    BY <1>2, ErasureAssumption DEF BeginRestore, TypeOK
  <2> QED
    BY <1>2, <2>1, <2>2, TypeParts DEF BeginRestore
<1>3. ASSUME NEW j \in Job, Switch(j) PROVE TypeOK'
  <2>1. archive \in Database
    BY <1>3, TypeParts DEF Switch
  <2>2. db' \in Database
    BY <1>3, <2>1, ReplayedTyped DEF Switch
  <2> QED
    BY <1>0, <1>3, <2>2, TypeParts, WorkingKept DEF Switch
<1>4. CASE DiscardDerived
  BY <1>0, <1>4, TypeParts, WorkingKept DEF DiscardDerived
<1>5. CASE Rebuild
  <2>1. index' \in BOOLEAN
    BY <1>0, <1>5 DEF Rebuild, Database
  <2> QED
    BY <1>0, <1>5, <2>1, TypeParts, WorkingKept DEF Rebuild
<1>6. CASE Reopen
  BY <1>0, <1>6, TypeParts, WorkingKept DEF Reopen
<1> QED
  BY <1>1, <1>2, <1>3, <1>4, <1>5, <1>6 DEF OperatorStep

LEMMA TypeNext == TypeOK /\ [Next]_vars => TypeOK'
<1> SUFFICES ASSUME TypeOK, [Next]_vars PROVE TypeOK'
  OBVIOUS
<1>1. CASE UNCHANGED vars
  BY <1>1 DEF vars, TypeOK, working, budgets
<1> QED
  BY <1>1, UserKeepsTypes, WorkerKeepsTypes, OperatorKeepsTypes DEF Next

\* Every reachable state of the four stores is well typed; the gate's holder is the one
\* worker inside an erasure.
THEOREM TypeCorrect == Spec => []TypeOK
  BY TypeInit, TypeNext, PTL DEF Spec

-----------------------------------------------------------------------------
(***************************************************************************)
(* Why the user stays gone                                                 *)
(***************************************************************************)
\* What a step makes of one worker; it leaves the others alone.
Becomes(w, step, job, found) ==
    /\ worker'[w].pc = step /\ worker'[w].job = job /\ worker'[w].found = found
    /\ \A v \in Worker \ {w} : worker'[v] = worker[v]

LEMMA Moves ==
  ASSUME TypeOK, NEW w \in Worker, NEW step
  PROVE  /\ Goto(w, step) => Becomes(w, step, worker[w].job, worker[w].found)
         /\ Leave(w, step) => Becomes(w, step, worker[w].job, {}) /\ gate' = NoWorker
         /\ worker' = [worker EXCEPT ![w] = Idle] => Becomes(w, "idle", NoJob, {})
<1>1. worker \in [Worker -> [pc : Step, job : Job \union {NoJob}, found : SUBSET Export]]
  BY DEF TypeOK
<1>2. Goto(w, step) => Becomes(w, step, worker[w].job, worker[w].found)
  BY <1>1 DEF Goto, Becomes
<1>3. Leave(w, step) => Becomes(w, step, worker[w].job, {}) /\ gate' = NoWorker
  BY <1>1 DEF Leave, Becomes
<1>4. worker' = [worker EXCEPT ![w] = Idle] => Becomes(w, "idle", NoJob, {})
  BY <1>1 DEF Idle, Becomes
<1> QED
  BY <1>2, <1>3, <1>4

LEMMA ErasureInit == Init => ErasureInv
<1> SUFFICES ASSUME Init PROVE ErasureInv
  OBVIOUS
<1>1. /\ \A j \in Job : ~db.job[j].erased
      /\ db.user /\ ~db.pending /\ ~db.shared
  BY NoJobRowTyped DEF Init
<1>2. \A w \in Worker : worker[w].pc = "idle"
  BY DEF Init, Idle
<1> QED
  BY <1>1, <1>2 DEF Init, ErasureInv, Recorded, ReceiptFirst, Excluded, Bereft, Cleaned, Serving

\* A busy worker means that the service serves; the gate is one worker's.
LEMMA Busy ==
  ASSUME TypeOK, ErasureInv, NEW w \in Worker, worker[w].pc # "idle"
  PROVE  /\ Serving /\ worker[w].job \in Job
         /\ worker[w].pc \in Inside =>
               /\ gate = w /\ exporter = NoExport
               /\ \A v \in Worker \ {w} : worker[v].pc \notin Inside
  BY ErasureAssumption DEF TypeOK, ErasureInv, Excluded

\* Nothing changes but one worker, and who holds the gate.
LEMMA WorkerAlone ==
  ASSUME TypeOK, ErasureInv, NEW w \in Worker, worker[w].pc # "idle",
         NEW step, NEW job, NEW found, Becomes(w, step, job, found),
         UNCHANGED <<db, receipt, archive, index, files, exporter, mode, reported>>,
         step # "finish",
         step \in {"erase", "clean"} => receipt,
         gate' # NoWorker => exporter = NoExport,
         step \in {"accept", "receipt", "erase"} => found = files /\ ~db.shared,
         step = "clean" => db.job[job].erased
  PROVE  ErasureInv'
<1>1. Serving
  BY Busy
<1>2. Recorded'
  BY DEF ErasureInv, Recorded, ReceiptFirst, Becomes
<1>3. Excluded'
  BY <1>1 DEF ErasureInv, Excluded, Becomes, Serving
<1>4. Bereft'
  BY DEF ErasureInv, Bereft
<1>5. Cleaned'
  BY <1>1 DEF ErasureInv, Cleaned, Becomes, Serving, Holds
<1> QED
  BY <1>2, <1>3, <1>4, <1>5 DEF ErasureInv

LEMMA WorkerAloneKeeps ==
  ASSUME TypeOK, ErasureInv, NEW w \in Worker,
         \/ TakeGate(w) \/ Resume(w) \/ Refuse(w) \/ Prepare(w) \/ PrepareFails(w)
         \/ ReceiptFails(w) \/ EraseFails(w) \/ Crash(w)
         \/ worker[w].pc # "idle" /\ Discard(w) /\ UNCHANGED <<archive, exporter, mode>>
  PROVE  ErasureInv'
<1>1. CASE TakeGate(w)
  BY <1>1, Moves, WorkerAlone DEF TakeGate, GateFree, ErasureInv, Excluded
<1>2. CASE Resume(w)
  <2>1. worker[w].job \in Job /\ db.job[worker[w].job].erased /\ exporter = NoExport
    BY <1>2, Busy DEF Resume, Inside
  <2>2. receipt
    BY <2>1 DEF ErasureInv, Recorded, ReceiptFirst
  <2> QED
    BY <1>2, <2>1, <2>2, Moves, WorkerAlone DEF Resume
<1>3. CASE Refuse(w)
  BY <1>3, Moves, WorkerAlone DEF Refuse
<1>4. CASE Prepare(w)
  <2>1. Becomes(w, "accept", worker[w].job, files)
    BY <1>4 DEF Prepare, Becomes, TypeOK
  <2>2. exporter = NoExport
    BY <1>4, Busy DEF Prepare, Inside
  <2> QED
    BY <1>4, <2>1, <2>2, WorkerAlone DEF Prepare
<1>5. CASE PrepareFails(w)
  BY <1>5, Moves, WorkerAlone DEF PrepareFails
<1>6. CASE ReceiptFails(w)
  BY <1>6, Moves, WorkerAlone DEF ReceiptFails
<1>7. CASE EraseFails(w)
  BY <1>7, Moves, WorkerAlone DEF EraseFails
<1>8. CASE Crash(w)
  BY <1>8, Moves, WorkerAlone DEF Crash, ErasureInv, Excluded
<1>9. CASE worker[w].pc # "idle" /\ Discard(w) /\ UNCHANGED <<archive, exporter, mode>>
  BY <1>9, Moves, WorkerAlone DEF Discard
<1> QED
  BY <1>1, <1>2, <1>3, <1>4, <1>5, <1>6, <1>7, <1>8, <1>9

\* A worker takes a job, or settles one: rows change their status and their holder.
LEMMA RowsAndWorker ==
  ASSUME TypeOK, ErasureInv, NEW w \in Worker, Serving, NEW j \in Job,
         OneRow(db', db, j), SameProgress(db', db, j),
         NEW step \in {"idle", "claimed"}, NEW job, NEW found, Becomes(w, step, job, found),
         db'.job[j].status = "running" => db'.job[j].holder = w,
         UNCHANGED <<receipt, archive, index, files, gate, exporter, mode>>,
         reported' => reported \/ (receipt /\ ~db.user /\ ~index /\ files = {})
  PROVE  ErasureInv'
<1>1. /\ db'.user = db.user /\ db'.shared = db.shared /\ db'.pending = db.pending
      /\ \A i \in Job : db'.job[i].erased = db.job[i].erased /\ db'.job[i].paths = db.job[i].paths
  BY DEF OneRow, SameProgress
<1>2. Recorded'
  BY <1>1 DEF ErasureInv, Recorded, ReceiptFirst, Becomes
<1>3. Excluded'
  BY <1>1 DEF ErasureInv, Excluded, Becomes, Serving
<1>4. Bereft'
  BY <1>1 DEF ErasureInv, Bereft
<1>5. Cleaned'
  <2>1. ASSUME NEW v \in Worker, worker'[v].pc = "clean", Holds(v)'
        PROVE  db'.job[worker'[v].job].erased
    <3>1. v # w /\ worker'[v] = worker[v]
      BY <2>1 DEF Becomes
    <3>2. worker[v].job \in Job /\ worker[v].job # j
      BY <2>1, <3>1 DEF Holds, TypeOK
    <3>3. db'.job[worker[v].job] = db.job[worker[v].job]
      BY <3>2 DEF OneRow
    <3> QED
      BY <2>1, <3>1, <3>3 DEF Holds, ErasureInv, Cleaned
  <2>2. ASSUME NEW v \in Worker, worker'[v].pc = "finish"
        PROVE  ~db'.user /\ ~index' /\ files' = {}
    BY <1>1, <2>2 DEF Becomes, ErasureInv, Cleaned
  <2> QED
    BY <1>1, <2>1, <2>2 DEF ErasureInv, Cleaned, Serving
<1> QED
  BY <1>2, <1>3, <1>4, <1>5 DEF ErasureInv

LEMMA ClaimKeeps ==
  ASSUME TypeOK, ErasureInv, NEW w \in Worker, NEW j \in Job, Claim(w, j)
  PROVE  ErasureInv'
<1>1. db' = SetHolder(db, j, "running", w)
  BY DEF Claim, SetHolder
<1>2. /\ OneRow(db', db, j) /\ SameProgress(db', db, j)
      /\ db'.job[j].status = "running" /\ db'.job[j].holder = w
  BY <1>1, HolderChanged DEF Status, TypeOK
<1>3. Becomes(w, "claimed", j, worker[w].found)
  BY DEF Claim, TypeOK, Becomes
<1> QED
  BY <1>2, <1>3, RowsAndWorker DEF Claim

LEMMA SettleKeeps ==
  ASSUME TypeOK, ErasureInv, NEW w \in Worker, NEW status \in Status \ {"running"}, Settle(w, status),
         worker[w].pc # "idle", status = "complete" => worker[w].pc = "finish"
  PROVE  ErasureInv'
<1>1. Serving /\ worker[w].job \in Job
  BY Busy
<1>2. Becomes(w, "idle", NoJob, {})
  BY Moves DEF Settle
<1>3. CASE Holds(w)
  <2>1. db' = SetHolder(db, worker[w].job, status, NoWorker)
    BY <1>3 DEF Settle, SetHolder
  <2>2. /\ OneRow(db', db, worker[w].job) /\ SameProgress(db', db, worker[w].job)
        /\ db'.job[worker[w].job].status # "running"
    BY <1>1, <2>1, HolderChanged DEF TypeOK
  <2>3. reported' => reported \/ status = "complete"
    BY <1>3 DEF Settle
  <2>4. worker[w].pc = "finish" => receipt /\ ~db.user /\ ~index /\ files = {}
    BY DEF ErasureInv, Recorded, Cleaned
  <2> QED
    BY <1>1, <1>2, <2>2, <2>3, <2>4, RowsAndWorker DEF Settle
<1>4. CASE ~Holds(w)
  BY <1>2, <1>4, WorkerAlone DEF Settle, ErasureInv, Excluded
<1> QED
  BY <1>3, <1>4

\* What was found is written into the row: it is what there is.
LEMMA AcceptKeeps ==
  ASSUME TypeOK, ErasureInv, NEW w \in Worker, Accept(w)
  PROVE  ErasureInv'
<1>1. CASE Discard(w)
  BY <1>1, WorkerAloneKeeps DEF Accept
<1>2. CASE /\ db' = SetAccepted(db, worker[w].job, worker[w].found)
           /\ Goto(w, "receipt")
           /\ UNCHANGED <<receipt, index, files, gate, reported>>
  <2> DEFINE j == worker[w].job
  <2>1. /\ Serving /\ j \in Job /\ exporter = NoExport
        /\ \A v \in Worker \ {w} : worker[v].pc \notin Inside
    BY Busy DEF Accept, Inside
  <2>2. worker[w].found = files /\ ~db.shared /\ worker[w].found \subseteq Export
    BY DEF Accept, ErasureInv, Excluded, TypeOK
  <2>3. Becomes(w, "receipt", j, files)
    BY <1>2, <2>2, Moves
  <2>4. /\ OneRow(db', db, j) /\ db'.job[j].erased = db.job[j].erased
        /\ db'.job[j].paths = files
    BY <1>2, <2>1, <2>2, ErasureAccepted DEF TypeOK
  <2> HIDE DEF j
  <2>5. /\ db'.user = db.user /\ db'.shared = db.shared /\ db'.pending = db.pending
        /\ \A i \in Job : /\ db'.job[i].erased = db.job[i].erased
                          /\ db'.job[i].paths = files \/ db'.job[i].paths = db.job[i].paths
    BY <2>4 DEF OneRow
  <2>6. Recorded'
    BY <1>2, <2>3, <2>5 DEF Accept, ErasureInv, Recorded, ReceiptFirst, Becomes
  <2>7. Excluded'
    BY <1>2, <2>1, <2>2, <2>3, <2>5 DEF Accept, ErasureInv, Excluded, Becomes, Serving
  <2>8. Bereft'
    BY <1>2, <2>5 DEF Accept, ErasureInv, Bereft
  <2>9. Cleaned'
    <3>1. \A v \in Worker :
             /\ worker'[v].pc # "clean"
             /\ worker'[v].pc = "finish" => worker[v].pc = "finish"
      BY <2>1, <2>3 DEF Becomes, Inside
    <3>2. /\ db'.user = db.user /\ index' = index /\ files' = files
          /\ mode' = mode /\ reported' = reported
      BY <1>2, <2>5 DEF Accept
    <3> QED
      BY <3>1, <3>2 DEF ErasureInv, Cleaned
  <2> QED
    BY <2>6, <2>7, <2>8, <2>9 DEF ErasureInv
<1> QED
  BY <1>1, <1>2 DEF Accept, SetAccepted

LEMMA WriteReceiptKeeps ==
  ASSUME TypeOK, ErasureInv, NEW w \in Worker, WriteReceipt(w)
  PROVE  ErasureInv'
<1>1. Serving /\ Becomes(w, "erase", worker[w].job, worker[w].found)
  BY Busy, Moves DEF WriteReceipt
<1>2. Recorded'
  BY DEF WriteReceipt, Recorded, ReceiptFirst
<1>3. Excluded'
  BY <1>1 DEF WriteReceipt, ErasureInv, Excluded, Becomes, Serving
<1>4. Bereft'
  BY DEF WriteReceipt, ErasureInv, Bereft
<1>5. Cleaned'
  BY <1>1 DEF WriteReceipt, ErasureInv, Cleaned, Becomes, Holds
<1> QED
  BY <1>2, <1>3, <1>4, <1>5 DEF ErasureInv

\* The rows go, and the job knows every file: nobody exported since they were listed.
LEMMA EraseRowsKeeps ==
  ASSUME TypeOK, ErasureInv, NEW w \in Worker, EraseRows(w)
  PROVE  ErasureInv'
<1>1. CASE Discard(w)
  BY <1>1, WorkerAloneKeeps DEF EraseRows
<1>2. CASE /\ db' = Erased(db, worker[w].job, worker[w].found)
           /\ Goto(w, "clean")
           /\ UNCHANGED <<receipt, index, files, gate, reported>>
  <2> DEFINE j == worker[w].job
  <2>1. /\ Serving /\ j \in Job /\ exporter = NoExport /\ receipt
        /\ \A v \in Worker \ {w} : worker[v].pc \notin Inside
    BY Busy DEF EraseRows, Inside, ErasureInv, Recorded
  <2>2. worker[w].found = files /\ worker[w].found \subseteq Export
    BY DEF EraseRows, ErasureInv, Excluded, TypeOK
  <2>3. Becomes(w, "clean", j, files)
    BY <1>2, <2>2, Moves
  <2>4. /\ ~db'.user /\ ~db'.pending /\ db'.job[j].erased /\ db'.job[j].paths = files
        /\ \A i \in Job \ {j} : db'.job[i] = db.job[i] \/ db'.job[i] = NoJobRow
    BY <1>2, <2>1, <2>2, ErasedTyped DEF TypeOK
  <2> HIDE DEF j
  <2>5. \A i \in Job \ {j} : db'.job[i].erased =>
           db.job[i].erased /\ db'.job[i].paths = db.job[i].paths
    BY <2>4, NoJobRowTyped
  <2>6. Recorded'
    BY <1>2, <2>1 DEF EraseRows, Recorded, ReceiptFirst
  <2>7. Excluded'
    BY <1>2, <2>1, <2>3 DEF EraseRows, ErasureInv, Excluded, Becomes, Serving, Inside
  <2>8. Bereft'
    BY <1>2, <2>1, <2>4, <2>5 DEF EraseRows, ErasureInv, Bereft
  <2>9. Cleaned'
    BY <1>2, <2>1, <2>3, <2>4 DEF EraseRows, ErasureInv, Cleaned, Becomes, Inside, Serving
  <2> QED
    BY <2>6, <2>7, <2>8, <2>9 DEF ErasureInv
<1> QED
  BY <1>1, <1>2 DEF EraseRows

\* A job that cleans has its rows gone, so every file is among those it knows.
LEMMA CleanKeeps ==
  ASSUME TypeOK, ErasureInv, NEW w \in Worker, Clean(w)
  PROVE  ErasureInv'
<1>1. CASE Discard(w)
  BY <1>1, WorkerAloneKeeps DEF Clean
<1>2. CASE /\ Holds(w) /\ index' = FALSE /\ files' = files \ db.job[worker[w].job].paths
           /\ Leave(w, "finish") /\ UNCHANGED <<db, receipt, reported>>
  <2>1. /\ Serving /\ worker[w].job \in Job /\ exporter = NoExport /\ receipt
        /\ \A v \in Worker \ {w} : worker[v].pc \notin Inside
    BY Busy DEF Clean, Inside, ErasureInv, Recorded
  <2>2. db.job[worker[w].job].erased
    BY <1>2 DEF Clean, ErasureInv, Cleaned
  <2>3. ~db.user /\ files' = {}
    BY <1>2, <2>1, <2>2 DEF ErasureInv, Bereft, Serving
  <2>4. Becomes(w, "finish", worker[w].job, {}) /\ gate' = NoWorker
    BY <1>2, Moves
  <2>5. Recorded'
    BY <1>2, <2>1 DEF Clean, ErasureInv, Recorded, ReceiptFirst
  <2>6. Excluded'
    BY <1>2, <2>1, <2>4 DEF Clean, Excluded, Becomes, Serving, Inside
  <2>7. Bereft'
    BY <1>2, <2>3 DEF Clean, ErasureInv, Bereft
  <2>8. Cleaned'
    BY <1>2, <2>1, <2>3, <2>4 DEF Clean, ErasureInv, Cleaned, Becomes, Inside, Serving
  <2> QED
    BY <2>5, <2>6, <2>7, <2>8 DEF ErasureInv
<1> QED
  BY <1>1, <1>2 DEF Clean

LEMMA CleanFailsKeeps ==
  ASSUME TypeOK, ErasureInv, NEW w \in Worker, CleanFails(w)
  PROVE  ErasureInv'
<1>1. Serving /\ Becomes(w, "defer", worker[w].job, {}) /\ gate' = NoWorker
  BY Busy, Moves DEF CleanFails
<1>2. index' => index
  BY DEF CleanFails
<1>3. Recorded'
  BY <1>1 DEF CleanFails, ErasureInv, Recorded, ReceiptFirst, Becomes
<1>4. Excluded'
  BY <1>1 DEF CleanFails, ErasureInv, Excluded, Becomes, Serving
<1>5. Bereft'
  BY DEF CleanFails, ErasureInv, Bereft
<1>6. Cleaned'
  BY <1>1, <1>2 DEF CleanFails, ErasureInv, Cleaned, Becomes, Serving, Holds
<1> QED
  BY <1>3, <1>4, <1>5, <1>6 DEF ErasureInv

\* Each step of a worker keeps the invariant.
LEMMA WorkerKeepsErased ==
  ASSUME TypeOK, ErasureInv, NEW w \in Worker,
         (\E j \in Job : Claim(w, j)) \/ WorkerStep(w) \/ WorkerFails(w)
  PROVE  ErasureInv'
<1>1. CASE Finish(w) \/ Fail(w) \/ Defer(w)
  BY <1>1, SettleKeeps DEF Finish, Fail, Defer, Status
<1> QED
  BY <1>1, ClaimKeeps, WorkerAloneKeeps, AcceptKeeps, WriteReceiptKeeps, EraseRowsKeeps,
     CleanKeeps, CleanFailsKeeps DEF WorkerStep, WorkerFails

\* A row that waits for a worker is written anew, or loses the one it has.
LEMMA RowsKeep ==
  ASSUME TypeOK, ErasureInv, NEW j \in Job, Serving, OneRow(db', db, j),
         db'.job[j].erased => db.job[j].erased /\ db'.job[j].paths = db.job[j].paths,
         db'.job[j].status # "running",
         UNCHANGED <<receipt, archive, index, files, exporter, working, mode, reported>>
  PROVE  ErasureInv'
<1>1. /\ db'.user = db.user /\ db'.shared = db.shared /\ db'.pending = db.pending
      /\ worker' = worker /\ gate' = gate
  BY DEF OneRow, working
<1>2. \A i \in Job : db'.job[i].erased =>
         db.job[i].erased /\ db'.job[i].paths = db.job[i].paths
  BY DEF OneRow
<1>3. Recorded'
  BY <1>1, <1>2 DEF ErasureInv, Recorded, ReceiptFirst
<1>4. Excluded'
  BY <1>1 DEF ErasureInv, Excluded, Serving
<1>5. Bereft'
  BY <1>1, <1>2 DEF ErasureInv, Bereft
<1>6. Cleaned'
  <2>1. ASSUME NEW v \in Worker, worker[v].pc = "clean", Holds(v)'
        PROVE  db'.job[worker[v].job].erased
    <3>1. worker[v].job \in Job /\ worker[v].job # j
      BY <1>1, <2>1 DEF Holds, TypeOK
    <3>2. db'.job[worker[v].job] = db.job[worker[v].job]
      BY <3>1 DEF OneRow
    <3> QED
      BY <1>1, <2>1, <3>2 DEF Holds, ErasureInv, Cleaned
  <2> QED
    BY <1>1, <2>1 DEF ErasureInv, Cleaned, Serving
<1> QED
  BY <1>3, <1>4, <1>5, <1>6 DEF ErasureInv

\* Each step of a request, of the user and of an export keeps it.
LEMMA UserKeepsErased ==
  ASSUME TypeOK, ErasureInv,
         \/ \E j \in Job : Cancel(j) \/ RecoverStale(j)
         \/ \E j \in Job, own \in BOOLEAN : Request(j, own)
         \/ UserStep
  PROVE  ErasureInv'
<1>1. ASSUME NEW j \in Job, Cancel(j) PROVE ErasureInv'
  <2>1. db' = SetStatus(db, j, "cancelled")
    BY <1>1 DEF Cancel, SetStatus
  <2>2. OneRow(db', db, j) /\ SameProgress(db', db, j) /\ db'.job[j].status = "cancelled"
    BY <2>1, StatusChanged DEF Status, TypeOK
  <2> QED
    BY <1>1, <2>2, RowsKeep DEF Cancel, SameProgress
<1>2. ASSUME NEW j \in Job, RecoverStale(j) PROVE ErasureInv'
  <2>1. db' = SetHolder(db, j, "queued", NoWorker)
    BY <1>2 DEF RecoverStale, SetHolder
  <2>2. OneRow(db', db, j) /\ SameProgress(db', db, j) /\ db'.job[j].status = "queued"
    BY <2>1, HolderChanged DEF Status, TypeOK
  <2> QED
    BY <1>2, <2>2, RowsKeep DEF RecoverStale, SameProgress
<1>3. ASSUME NEW j \in Job, NEW own \in BOOLEAN, Request(j, own) PROVE ErasureInv'
  <2>1. db' = SetRequested(db, j, own)
    BY <1>3 DEF Request, SetRequested
  <2>2. OneRow(db', db, j) /\ db'.job[j].status = "queued" /\ ~db'.job[j].erased
    BY <2>1, ErasureRequested DEF TypeOK
  <2> QED
    BY <1>3, <2>2, RowsKeep DEF Request
<1>4. CASE WritePrivate
  <2>1. db'.user /\ db.user /\ db'.shared = db.shared /\ db'.job = db.job
    BY <1>4 DEF WritePrivate, TypeOK, Database
  <2> QED
    BY <1>4, <2>1 DEF WritePrivate, ErasureInv, Recorded, ReceiptFirst, Excluded, Bereft,
                      Cleaned, Holds, Serving, working
<1>5. CASE WriteShared
  <2>1. db'.user /\ db.user /\ db'.pending = db.pending /\ db'.job = db.job
    BY <1>5 DEF WriteShared, TypeOK, Database
  <2>2. \A w \in Worker : worker[w].pc \notin Inside
    BY <1>5, ErasureAssumption DEF WriteShared, GateShared, TypeOK
  <2> QED
    BY <1>5, <2>1, <2>2 DEF WriteShared, ErasureInv, Recorded, ReceiptFirst, Excluded, Bereft,
                      Cleaned, Holds, Serving, working, Inside
<1>6. CASE Deliver
  <2>1. db.user /\ db'.user /\ db'.shared = db.shared /\ db'.job = db.job
    BY <1>6 DEF Deliver, TypeOK, Database, ErasureInv, Bereft
  <2> QED
    BY <1>6, <2>1 DEF Deliver, ErasureInv, Recorded, ReceiptFirst, Excluded, Bereft,
                      Cleaned, Holds, Serving, working
<1>7. CASE (\E e \in Export : ReadExport(e)) \/ ExportDies
  BY <1>7 DEF ReadExport, ExportDies, GateShared, ErasureInv, Recorded, ReceiptFirst, Excluded,
              Bereft, Cleaned, Holds, Serving, working
<1>8. CASE WriteExport
  <2>1. db.user /\ gate = NoWorker
    BY <1>8 DEF WriteExport, ErasureInv, Bereft, Excluded
  <2>2. \A w \in Worker : worker[w].pc \notin Inside
    BY <2>1, ErasureAssumption DEF TypeOK
  <2> QED
    BY <1>8, <2>1, <2>2 DEF WriteExport, ErasureInv, Recorded, ReceiptFirst, Excluded,
              Bereft, Cleaned, Holds, Serving, working, Inside
<1> QED
  BY <1>1, <1>2, <1>3, <1>4, <1>5, <1>6, <1>7, <1>8 DEF UserStep

\* Each step of an operator keeps it.
LEMMA OperatorKeepsErased ==
  ASSUME TypeOK, ErasureInv, Dump \/ BeginRestore \/ OperatorStep
  PROVE  ErasureInv'
<1>1. CASE Dump
  <2>1. /\ archive' = Snapshot /\ Snapshot.user = db.user /\ Snapshot.pending = db.pending
        /\ \A j \in Job : Snapshot.job[j].erased = db.job[j].erased
    BY <1>1, SnapshotTyped DEF Dump, TypeOK
  <2> QED
    BY <1>1, <2>1 DEF Dump, ErasureInv, Recorded, ReceiptFirst, Excluded,
              Bereft, Cleaned, Holds, Serving, working
<1>2. CASE BeginRestore
  <2>1. \A w \in Worker : worker'[w].pc = "idle"
    BY <1>2 DEF BeginRestore, Idle
  <2> QED
    BY <1>2, <2>1 DEF BeginRestore, ErasureInv, Recorded, ReceiptFirst, Excluded,
              Bereft, Cleaned, Holds, Serving
<1>3. ASSUME NEW j \in Job, Switch(j) PROVE ErasureInv'
  <2>1. archive # NoArchive /\ archive \in Database /\ ~Serving
    BY <1>3 DEF Switch, TypeOK, Serving
  <2>2. \/ receipt /\ ~db'.user /\ ~db'.pending
        \/ ~(receipt /\ archive.user) /\ db' = archive
    BY <1>3, <2>1, ReplayedTyped DEF Switch
  <2>3. \A w \in Worker : worker[w].pc = "idle" /\ worker' = worker /\ exporter = NoExport
    BY <1>3, <2>1 DEF Switch, working, ErasureInv, Excluded
  <2>4. exporter' = NoExport /\ gate' = gate
    BY <1>3, <2>1 DEF Switch, working, ErasureInv, Excluded
  <2>5. Recorded'
    BY <1>3, <2>1, <2>2, <2>3 DEF Switch, ErasureInv, Recorded, ReceiptFirst, Bereft
  <2>6. Excluded'
    BY <1>3, <2>1, <2>3, <2>4 DEF Switch, ErasureInv, Excluded, Serving
  <2>7. Bereft'
    BY <1>3, <2>1, <2>2, <2>4 DEF Switch, ErasureInv, Bereft
  <2>8. Cleaned'
    BY <1>3, <2>1, <2>2, <2>3 DEF Switch, ErasureInv, Recorded, Cleaned
  <2> QED
    BY <2>5, <2>6, <2>7, <2>8 DEF ErasureInv
<1>4. CASE DiscardDerived \/ Rebuild \/ Reopen
  BY <1>4 DEF DiscardDerived, Rebuild, Reopen, ErasureInv, Recorded, ReceiptFirst, Excluded,
              Bereft, Cleaned, Holds, Serving, working
<1> QED
  BY <1>1, <1>2, <1>3, <1>4 DEF OperatorStep

LEMMA ErasureNext == TypeOK /\ ErasureInv /\ [Next]_vars => ErasureInv'
<1> SUFFICES ASSUME TypeOK, ErasureInv, [Next]_vars PROVE ErasureInv'
  OBVIOUS
<1>1. CASE UNCHANGED vars
  BY <1>1 DEF vars, ErasureInv, Recorded, ReceiptFirst, Excluded, Bereft, Cleaned, Holds,
              Serving, working, budgets
<1> QED
  BY <1>1, WorkerKeepsErased, UserKeepsErased, OperatorKeepsErased DEF Next

LEMMA Inductive == Spec => [](TypeOK /\ ErasureInv)
<1>1. Init => TypeOK /\ ErasureInv
  BY TypeInit, ErasureInit
<1>2. TypeOK /\ ErasureInv /\ [Next]_vars => (TypeOK /\ ErasureInv)'
  BY TypeNext, ErasureNext
<1> QED
  BY <1>1, <1>2, PTL DEF Spec

\* No database and no archive ever says that the rows of the user were erased before a
\* receipt was durable, whichever step a worker died at.
THEOREM ReceiptBeforeRows == Spec => []ReceiptFirst
<1>1. TypeOK /\ ErasureInv => ReceiptFirst
  BY DEF ErasureInv, Recorded
<1> QED
  BY <1>1, Inductive, PTL

\* Once an erasure was reported complete, a service that serves never again shows a row,
\* undelivered work, a point or an exported file of the user, whatever was restored.
THEOREM GoneStaysGone == Spec => []GoneForGood
<1>1. TypeOK /\ ErasureInv => GoneForGood
  <2> SUFFICES ASSUME TypeOK, ErasureInv, Serving, reported
               PROVE  ~db.user /\ ~db.pending /\ ~index /\ files = {}
    BY DEF GoneForGood
  <2>1. ~db.user /\ ~index /\ files = {}
    BY DEF ErasureInv, Cleaned, Serving
  <2> QED
    BY <2>1 DEF ErasureInv, Bereft
<1> QED
  BY <1>1, Inductive, PTL

\* The step that removes the user while the service serves never meets shared memories of
\* theirs, although the check was made several steps before.
THEOREM RecordKept == Spec => SharedRecordKept
<1>1. TypeOK /\ ErasureInv /\ [Next]_vars => [Serving /\ db.user /\ ~db'.user => ~db.shared]_vars
  <2> SUFFICES ASSUME TypeOK, ErasureInv, [Next]_vars, Serving, db.user, ~db'.user
               PROVE  ~db.shared
    OBVIOUS
  <2>1. ASSUME NEW w \in Worker, EraseRows(w) PROVE ~db.shared
    BY <2>1 DEF EraseRows, Discard, ErasureInv, Excluded
  <2>2. ASSUME NEW w \in Worker, Accept(w) PROVE ~db.shared
    <3>1. CASE db' = SetAccepted(db, worker[w].job, worker[w].found)
      BY <2>2, <3>1, ErasureAccepted, Busy DEF Accept, TypeOK, OneRow
    <3> QED
      BY <2>2, <3>1 DEF Accept, SetAccepted, Discard
  <2>3. ASSUME NEW w \in Worker, NEW status \in Status, worker[w].pc # "idle", Settle(w, status)
        PROVE  ~db.shared
    <3>1. CASE db' = SetHolder(db, worker[w].job, status, NoWorker)
      BY <2>3, <3>1, HolderChanged, Busy DEF TypeOK, OneRow
    <3> QED
      BY <2>3, <3>1 DEF Settle, SetHolder
  <2>4. ASSUME NEW w \in Worker, NEW j \in Job, Claim(w, j) PROVE ~db.shared
    <3>1. db' = SetHolder(db, j, "running", w)
      BY <2>4 DEF Claim, SetHolder
    <3> QED
      BY <3>1, HolderChanged DEF TypeOK, OneRow, Status
  <2>5. ASSUME NEW w \in Worker, WorkerStep(w) \/ WorkerFails(w) PROVE ~db.shared
    <3>1. CASE Finish(w) \/ Fail(w) \/ Defer(w)
      BY <2>3, <3>1 DEF Finish, Fail, Defer, Status
    <3>2. CASE UNCHANGED db
      BY <3>2
    <3> QED
      BY <2>1, <2>2, <2>5, <3>1, <3>2 DEF WorkerStep, WorkerFails, TakeGate, Resume, Refuse,
         Prepare, WriteReceipt, Clean, Discard, PrepareFails, ReceiptFails, EraseFails,
         CleanFails, Crash
  <2>6. ASSUME NEW j \in Job, Cancel(j) PROVE ~db.shared
    <3>1. db' = SetStatus(db, j, "cancelled")
      BY <2>6 DEF Cancel, SetStatus
    <3> QED
      BY <3>1, StatusChanged DEF TypeOK, OneRow, Status
  <2>7. ASSUME NEW j \in Job, RecoverStale(j) PROVE ~db.shared
    <3>1. db' = SetHolder(db, j, "queued", NoWorker)
      BY <2>7 DEF RecoverStale, SetHolder
    <3> QED
      BY <3>1, HolderChanged DEF TypeOK, OneRow, Status
  <2>8. ASSUME NEW j \in Job, NEW own \in BOOLEAN, Request(j, own) PROVE ~db.shared
    <3>1. db' = SetRequested(db, j, own)
      BY <2>8 DEF Request, SetRequested
    <3> QED
      BY <3>1, ErasureRequested DEF TypeOK, OneRow
  <2>9. CASE UserStep \/ Dump \/ BeginRestore \/ OperatorStep \/ UNCHANGED vars
    BY <2>9 DEF UserStep, WritePrivate, WriteShared, Deliver, ReadExport, WriteExport,
       ExportDies, Dump, BeginRestore, OperatorStep, Switch, DiscardDerived, Rebuild, Reopen,
       Serving, TypeOK, Database, vars
  <2> QED
    BY <2>4, <2>5, <2>6, <2>7, <2>8, <2>9 DEF Next
<1> QED
  BY <1>1, Inductive, PTL DEF Spec, SharedRecordKept

=============================================================================
