------------------------------- MODULE Erasure -------------------------------
(***************************************************************************)
(* Erasing one user, and restoring an archive that still knows them.       *)
(*                                                                         *)
(* Four stores have to agree: the database (the rows of the user and the   *)
(* erase jobs), the receipts beside the archives, the vector index and the *)
(* exported files.  privacy.erase_user visits them one after another under *)
(* the exclusive maintenance gate; between any two steps its worker may    *)
(* die, lose its lease, or be told to retry.  An archive may be taken at   *)
(* any moment and restored at any later one; the receipts are then         *)
(* replayed before the service reopens.                                    *)
(*                                                                         *)
(* The lease protocol is that of Jobs, with a holder for a token: a worker *)
(* that lost its job cannot claim it again before it has noticed.          *)
(***************************************************************************)
EXTENDS Naturals, FiniteSets

CONSTANTS
    Worker,      \* processes that run jobs
    Job,         \* ids of erase jobs
    Export,      \* files an export of the user may be written to
    NoWorker,
    NoJob,
    NoExport,
    NoArchive,
    MaxFaults,   \* crashes, lost leases, failed stores, killed operators
    MaxRequests, \* erasures that are asked for
    MaxRestores  \* restores that are begun

ASSUME ErasureAssumption ==
    /\ NoWorker \notin Worker
    /\ NoJob \notin Job
    /\ NoExport \notin Export
    /\ MaxFaults \in Nat
    /\ MaxRequests \in Nat
    /\ MaxRestores \in Nat

VARIABLES
    db,        \* the database: the user's rows, their shared memories, undelivered index work, the jobs
    receipt,   \* a receipt for the user is durable beside the archives
    archive,   \* the archive an operator would restore: a database, or none
    index,     \* the index holds points of the user
    files,     \* finished exports of the user
    gate,      \* the worker that holds the maintenance gate exclusively
    exporter,  \* the export that holds the gate shared: its rows are read, its file is not written
    worker,    \* what each worker does, for which job, and the exports it found before it accepts
    mode,      \* how far an operator has taken a restore
    faults, requests, restores,
    reported   \* history: an erasure has been reported complete

vars == <<db, receipt, archive, index, files, gate, exporter, worker, mode,
          faults, requests, restores, reported>>

working == <<gate, worker>>
budgets == <<faults, requests, restores>>

Status == {"none", "queued", "running", "complete", "failed", "cancelled"}
JobRow == [status : Status, holder : Worker \union {NoWorker},
           accepted : BOOLEAN,        \* input.erasure.accepted
           erased : BOOLEAN,          \* input.erasure.database_erased
           paths : SUBSET Export,     \* input.erasure.export_paths
           own : BOOLEAN]             \* jobs.user_id is the user being erased
Database == [user : BOOLEAN, shared : BOOLEAN, pending : BOOLEAN, job : [Job -> JobRow]]

NoJobRow == [status |-> "none", holder |-> NoWorker, accepted |-> FALSE,
             erased |-> FALSE, paths |-> {}, own |-> FALSE]

Step == {"idle", "claimed", "prepare", "accept", "receipt", "erase", "clean",
         "finish", "fail", "defer"}
Mode == {"serving", "stopped", "switched", "discarded", "rebuilt"}

\* Between `with maintenance.exclusive` and its end.
Inside == {"prepare", "accept", "receipt", "erase", "clean"}
Idle == [pc |-> "idle", job |-> NoJob, found |-> {}]

\* The types; that the gate's holder is the one worker inside an erasure, a busy worker
\* has a job, and a restore has an archive.
TypeOK ==
    /\ db \in Database
    /\ receipt \in BOOLEAN
    /\ archive \in Database \union {NoArchive}
    /\ index \in BOOLEAN
    /\ files \subseteq Export
    /\ gate \in Worker \union {NoWorker}
    /\ exporter \in Export \union {NoExport}
    /\ worker \in [Worker -> [pc : Step, job : Job \union {NoJob}, found : SUBSET Export]]
    /\ mode \in Mode
    /\ faults \in 0..MaxFaults
    /\ requests \in 0..MaxRequests
    /\ restores \in 0..MaxRestores
    /\ reported \in BOOLEAN
    /\ \A w \in Worker :
          /\ gate = w <=> worker[w].pc \in Inside
          /\ worker[w].pc # "idle" => worker[w].job \in Job
    /\ mode # "serving" => archive # NoArchive

Init ==
    /\ db = [user |-> TRUE, shared |-> FALSE, pending |-> FALSE, job |-> [j \in Job |-> NoJobRow]]
    /\ receipt = FALSE
    /\ archive = NoArchive
    /\ index = TRUE
    /\ files = {}
    /\ gate = NoWorker
    /\ exporter = NoExport
    /\ worker = [w \in Worker |-> Idle]
    /\ mode = "serving"
    /\ faults = 0
    /\ requests = 0
    /\ restores = 0
    /\ reported = FALSE

Fault == faults < MaxFaults /\ faults' = faults + 1

Serving == mode = "serving"

\* Memory writes, deliveries and exports share the gate; they never wait for it.
GateShared == gate = NoWorker
\* An erasure takes it alone.
GateFree == gate = NoWorker /\ exporter = NoExport

\* The worker's claim is still the row's: jobs.require_current.
Holds(w) ==
    /\ db.job[worker[w].job].status = "running"
    /\ db.job[worker[w].job].holder = w

(***************************************************************************)
(* Requests and what the user does meanwhile                               *)
(***************************************************************************)

\* POST /v1/users/{id}/erase, by the user or by an administrator.
Request(j, own) ==
    /\ Serving
    /\ db.user
    /\ db.job[j].status = "none"
    /\ requests < MaxRequests
    /\ requests' = requests + 1
    /\ db' = [db EXCEPT !.job[j] = [NoJobRow EXCEPT !.status = "queued", !.own = own]]
    /\ UNCHANGED <<receipt, archive, index, files, exporter, working, mode, faults, restores, reported>>

\* jobs.cancel of a job that waits; an accepted erasure refuses it.
Cancel(j) ==
    /\ Serving
    /\ db.job[j].status = "queued"
    /\ ~db.job[j].accepted
    /\ ~db.job[j].erased
    /\ db' = [db EXCEPT !.job[j].status = "cancelled"]
    /\ UNCHANGED <<receipt, archive, index, files, exporter, working, mode, budgets, reported>>

\* The user's own memories change; the index operation is enqueued with the row.
WritePrivate ==
    /\ Serving
    /\ db.user
    /\ GateShared
    /\ ~db.pending
    /\ db' = [db EXCEPT !.pending = TRUE]
    /\ UNCHANGED <<receipt, archive, index, files, exporter, working, mode, budgets, reported>>

\* The user writes into a shared scope, or what they wrote there is reassigned or deleted.
WriteShared ==
    /\ Serving
    /\ db.user
    /\ GateShared
    /\ db' = [db EXCEPT !.shared = ~db.shared]
    /\ UNCHANGED <<receipt, archive, index, files, exporter, working, mode, budgets, reported>>

\* The outbox delivers, under the gate its transaction shares.
Deliver ==
    /\ Serving
    /\ db.pending
    /\ GateShared
    /\ db' = [db EXCEPT !.pending = FALSE]
    /\ index' = db.user
    /\ UNCHANGED <<receipt, archive, files, exporter, working, mode, budgets, reported>>

\* privacy.export_user joins the gate and reads; a user who is gone is a LookupError.
ReadExport(e) ==
    /\ Serving
    /\ db.user
    /\ GateShared
    /\ exporter = NoExport
    /\ e \notin files
    /\ exporter' = e
    /\ UNCHANGED <<db, receipt, archive, index, files, working, mode, budgets, reported>>

\* The file is renamed into place, and only then is the gate left.
WriteExport ==
    /\ Serving
    /\ exporter # NoExport
    /\ files' = files \union {exporter}
    /\ exporter' = NoExport
    /\ UNCHANGED <<db, receipt, archive, index, working, mode, budgets, reported>>

ExportDies ==
    /\ exporter # NoExport
    /\ Fault
    /\ exporter' = NoExport
    /\ UNCHANGED <<db, receipt, archive, index, files, working, mode, requests, restores, reported>>

(***************************************************************************)
(* privacy.erase_user, run by a worker                                     *)
(***************************************************************************)
Goto(w, step) == worker' = [worker EXCEPT ![w].pc = step]

\* Leaving `with maintenance.exclusive`; what was found is forgotten.
Leave(w, step) ==
    /\ worker' = [worker EXCEPT ![w].pc = step, ![w].found = {}]
    /\ gate' = NoWorker

\* LeaseLost: the worker discards its execution.
Discard(w) ==
    /\ ~Holds(w)
    /\ worker' = [worker EXCEPT ![w] = Idle]
    /\ gate' = NoWorker
    /\ UNCHANGED <<db, receipt, index, files, reported>>

Claim(w, j) ==
    /\ Serving
    /\ worker[w].pc = "idle"
    /\ db.job[j].status = "queued"
    /\ db' = [db EXCEPT !.job[j].status = "running", !.job[j].holder = w]
    /\ worker' = [worker EXCEPT ![w].pc = "claimed", ![w].job = j]
    /\ UNCHANGED <<receipt, archive, index, files, gate, exporter, mode, budgets, reported>>

\* Mutant of TakeGate: the session that has the lock, or shares it, gets it once more.
TakeGateAgain(w) ==
    /\ worker[w].pc = "claimed"
    /\ gate' = w
    /\ Goto(w, "prepare")
    /\ UNCHANGED <<db, receipt, archive, index, files, exporter, mode, budgets, reported>>

\* The gate is tried, never waited for: MaintenanceBusy defers the job.
TakeGate(w) ==
    /\ worker[w].pc = "claimed"
    /\ \/ GateFree /\ gate' = w /\ Goto(w, "prepare")
       \/ ~GateFree /\ gate' = gate /\ Goto(w, "defer")
    /\ UNCHANGED <<db, receipt, archive, index, files, exporter, mode, budgets, reported>>

\* A checkpoint that says the rows are gone goes straight to the cleanup.
Resume(w) ==
    /\ worker[w].pc = "prepare"
    /\ db.job[worker[w].job].erased
    /\ Goto(w, "clean")
    /\ UNCHANGED <<db, receipt, archive, index, files, gate, exporter, mode, budgets, reported>>

\* _authored_elsewhere finds shared memories: ValueError, the job fails.
Refuse(w) ==
    /\ worker[w].pc = "prepare"
    /\ ~db.job[worker[w].job].erased
    /\ db.shared
    /\ Leave(w, "fail")
    /\ UNCHANGED <<db, receipt, archive, index, files, exporter, mode, budgets, reported>>

\* Mutant of Prepare: an accepted erasure was checked before.
PrepareAccepted(w) ==
    /\ worker[w].pc = "prepare"
    /\ ~db.job[worker[w].job].erased
    /\ ~db.shared \/ db.job[worker[w].job].accepted
    /\ worker' = [worker EXCEPT ![w].pc = "accept", ![w].found = files]
    /\ UNCHANGED <<db, receipt, archive, index, files, gate, exporter, mode, budgets, reported>>

\* Mutant of Prepare: an accepted erasure knows its exports.
PrepareOnce(w) ==
    /\ worker[w].pc = "prepare"
    /\ ~db.job[worker[w].job].erased
    /\ ~db.shared
    /\ worker' = [worker EXCEPT ![w].pc = "accept", ![w].found =
         IF db.job[worker[w].job].accepted THEN db.job[worker[w].job].paths ELSE files]
    /\ UNCHANGED <<db, receipt, archive, index, files, gate, exporter, mode, budgets, reported>>

\* Otherwise the managed exports are listed, anew at every attempt.
Prepare(w) ==
    /\ worker[w].pc = "prepare"
    /\ ~db.job[worker[w].job].erased
    /\ ~db.shared
    /\ worker' = [worker EXCEPT ![w].pc = "accept", ![w].found = files]
    /\ UNCHANGED <<db, receipt, archive, index, files, gate, exporter, mode, budgets, reported>>

\* The exports or the manifest cannot be read: a retry once accepted, a failure before.
PrepareFails(w) ==
    /\ worker[w].pc = "prepare"
    /\ ~db.job[worker[w].job].erased
    /\ ~db.shared
    /\ Fault
    /\ Leave(w, IF db.job[worker[w].job].accepted THEN "defer" ELSE "fail")
    /\ UNCHANGED <<db, receipt, archive, index, files, exporter, mode, requests, restores, reported>>

Accept(w) ==
    /\ worker[w].pc = "accept"
    /\ \/ /\ Holds(w)
          /\ db' = [db EXCEPT !.job[worker[w].job].accepted = TRUE, !.job[worker[w].job].paths = worker[w].found]
          /\ Goto(w, "receipt")
          /\ UNCHANGED <<receipt, index, files, gate, reported>>
       \/ Discard(w)
    /\ UNCHANGED <<archive, exporter, mode, budgets>>

\* Outside the database, so no lease is checked; an existing receipt is kept.
WriteReceipt(w) ==
    /\ worker[w].pc = "receipt"
    /\ receipt' = TRUE
    /\ Goto(w, "erase")
    /\ UNCHANGED <<db, archive, index, files, gate, exporter, mode, budgets, reported>>

\* Mutant of ReceiptFails: the failure is logged and the erasure goes on.
ReceiptFailsQuietly(w) ==
    /\ worker[w].pc = "receipt"
    /\ Fault
    /\ Goto(w, "erase")
    /\ UNCHANGED <<db, receipt, archive, index, files, gate, exporter, mode, requests, restores, reported>>

ReceiptFails(w) ==
    /\ worker[w].pc = "receipt"
    /\ Fault
    /\ Leave(w, "defer")
    /\ UNCHANGED <<db, receipt, archive, index, files, exporter, mode, requests, restores, reported>>

\* _erase_database: the rows, their undelivered index work, and every other
\* job the user had asked for.  `keep` is the job that survives, detached.
Erased(d, keep, paths) ==
    [d EXCEPT !.user = FALSE, !.pending = FALSE,
              !.job = [j \in Job |->
                  IF j = keep
                  THEN [d.job[j] EXCEPT !.accepted = TRUE, !.erased = TRUE, !.paths = paths, !.own = FALSE]
                  ELSE IF d.job[j].own THEN NoJobRow ELSE d.job[j]]]

EraseRows(w) ==
    /\ worker[w].pc = "erase"
    /\ \/ /\ Holds(w)
          /\ db' = Erased(db, worker[w].job, worker[w].found)
          /\ Goto(w, "clean")
          /\ UNCHANGED <<receipt, index, files, gate, reported>>
       \/ Discard(w)
    /\ UNCHANGED <<archive, exporter, mode, budgets>>

\* The transaction rolls back.  A lost database is retried; a row that a request
\* of the user inserted meanwhile violates a foreign key, which is not.
EraseFails(w) ==
    /\ worker[w].pc = "erase"
    /\ Fault
    /\ \/ Leave(w, "defer")
       \/ db.user /\ Leave(w, "fail")
    /\ UNCHANGED <<db, receipt, archive, index, files, exporter, mode, requests, restores, reported>>

\* The index in every generation, then the files, in one transaction that has the
\* job's row locked: nobody takes the job meanwhile.
Clean(w) ==
    /\ worker[w].pc = "clean"
    /\ \/ /\ Holds(w)
          /\ index' = FALSE
          /\ files' = files \ db.job[worker[w].job].paths
          /\ Leave(w, "finish")
          /\ UNCHANGED <<db, receipt, reported>>
       \/ Discard(w)
    /\ UNCHANGED <<archive, exporter, mode, budgets>>

\* Either store fails; what was removed stays removed.
CleanFails(w) ==
    /\ worker[w].pc = "clean"
    /\ Holds(w)
    /\ Fault
    /\ index' \in {index, FALSE}
    /\ Leave(w, "defer")
    /\ UNCHANGED <<db, receipt, archive, files, exporter, mode, requests, restores, reported>>

\* jobs.finish and jobs.defer, fenced by the lease like everything else.
Settle(w, status) ==
    /\ \/ /\ Holds(w)
          /\ db' = [db EXCEPT !.job[worker[w].job].status = status, !.job[worker[w].job].holder = NoWorker]
          /\ reported' = (reported \/ status = "complete")
       \/ ~Holds(w) /\ UNCHANGED <<db, reported>>
    /\ worker' = [worker EXCEPT ![w] = Idle]
    /\ UNCHANGED <<receipt, archive, index, files, gate, exporter, mode, budgets>>

Finish(w) == worker[w].pc = "finish" /\ Settle(w, "complete")
Fail(w) == worker[w].pc = "fail" /\ Settle(w, "failed")
Defer(w) == worker[w].pc = "defer" /\ Settle(w, "queued")

(***************************************************************************)
(* Faults of the processes                                                 *)
(***************************************************************************)

\* A worker dies; its session ends and leaves the gate.
Crash(w) ==
    /\ worker[w].pc # "idle"
    /\ Fault
    /\ worker' = [worker EXCEPT ![w] = Idle]
    /\ gate' = IF gate = w THEN NoWorker ELSE gate
    /\ UNCHANGED <<db, receipt, archive, index, files, exporter, mode, requests, restores, reported>>

\* jobs.recover_stale: the lease of a dead worker has run out, or a live one's did.
RecoverStale(j) ==
    /\ Serving
    /\ db.job[j].status = "running"
    /\ IF \E w \in Worker : db.job[j].holder = w /\ worker[w].job = j
       THEN Fault
       ELSE UNCHANGED faults
    /\ db' = [db EXCEPT !.job[j].status = "queued", !.job[j].holder = NoWorker]
    /\ UNCHANGED <<receipt, archive, index, files, exporter, working, mode, requests, restores, reported>>

(***************************************************************************)
(* Archives and restores                                                   *)
(***************************************************************************)

\* pg_dump reads one snapshot and takes no gate.  A job that is running in it has
\* nobody to run it when it is restored: its lease has run out, and it is kept as
\* recovery will find it.
Snapshot ==
    [db EXCEPT !.job = [j \in Job |->
        IF db.job[j].status = "running"
        THEN [db.job[j] EXCEPT !.status = "queued", !.holder = NoWorker]
        ELSE db.job[j]]]

Dump ==
    /\ Serving
    /\ archive' = Snapshot
    /\ UNCHANGED <<db, receipt, index, files, exporter, working, mode, budgets, reported>>

\* The durable marker is written and every process is stopped.
BeginRestore ==
    /\ archive # NoArchive
    /\ restores < MaxRestores
    /\ restores' = restores + 1
    /\ mode' = "stopped"
    /\ worker' = [w \in Worker |-> Idle]
    /\ gate' = NoWorker
    /\ exporter' = NoExport
    /\ UNCHANGED <<db, receipt, archive, index, files, faults, requests, reported>>

\* replay_erasure_manifest over the candidate: a user with a receipt who is in it
\* is erased again, by a new detached job that only has the cleanup left.
Replayed(d, j) ==
    IF receipt /\ d.user
    THEN Erased([d EXCEPT !.job[j] = [NoJobRow EXCEPT !.status = "queued"]], j, {})
    ELSE d

\* The archive is restored into an empty database, the receipts are replayed
\* there, and only then do the databases change names.  Restored shared
\* memories of an erased user stop here: the service stays offline.
Switch(j) ==
    /\ mode = "stopped"
    /\ archive.job[j].status = "none"
    /\ ~(receipt /\ archive.user /\ archive.shared)
    /\ db' = Replayed(archive, j)
    /\ mode' = "switched"
    /\ UNCHANGED <<receipt, archive, index, files, exporter, working, budgets, reported>>

\* RESTORE_CLEANUP: every generation of the index and every file.
DiscardDerived ==
    /\ mode = "switched"
    /\ index' = FALSE
    /\ files' = {}
    /\ mode' = "discarded"
    /\ UNCHANGED <<db, receipt, archive, exporter, working, budgets, reported>>

\* memkit reindex, from the rows.
Rebuild ==
    /\ mode = "discarded"
    /\ index' = db.user
    /\ mode' = "rebuilt"
    /\ UNCHANGED <<db, receipt, archive, files, exporter, working, budgets, reported>>

\* The service starts, and the marker is removed when it is ready.
Reopen ==
    /\ mode = "rebuilt"
    /\ mode' = "serving"
    /\ UNCHANGED <<db, receipt, archive, index, files, exporter, working, budgets, reported>>

-----------------------------------------------------------------------------
WorkerStep(w) ==
    \/ TakeGate(w) \/ Resume(w) \/ Refuse(w) \/ Prepare(w) \/ Accept(w)
    \/ WriteReceipt(w) \/ EraseRows(w) \/ Clean(w)
    \/ Finish(w) \/ Fail(w) \/ Defer(w)

WorkerFails(w) ==
    PrepareFails(w) \/ ReceiptFails(w) \/ EraseFails(w) \/ CleanFails(w) \/ Crash(w)

UserStep ==
    \/ WritePrivate \/ WriteShared \/ Deliver
    \/ \E e \in Export : ReadExport(e)
    \/ WriteExport \/ ExportDies

OperatorStep ==
    \/ \E j \in Job : Switch(j)
    \/ DiscardDerived \/ Rebuild \/ Reopen

Next ==
    \/ \E j \in Job : Cancel(j) \/ RecoverStale(j)
    \/ \E j \in Job, own \in BOOLEAN : Request(j, own)
    \/ \E w \in Worker, j \in Job : Claim(w, j)
    \/ \E w \in Worker : WorkerStep(w) \/ WorkerFails(w)
    \/ UserStep
    \/ Dump
    \/ BeginRestore
    \/ OperatorStep

Spec == Init /\ [][Next]_vars

-----------------------------------------------------------------------------
(***************************************************************************)
(* Properties                                                              *)
(***************************************************************************)

\* Completion means that all cleanup succeeded, and nothing brings the user
\* back: once an erasure was reported complete, a service that serves shows no
\* row, no undelivered index work, no point and no exported file of the user,
\* whatever archive it was restored from (docs/01-architecture.md:34-36).
GoneForGood ==
    Serving /\ reported => ~db.user /\ ~db.pending /\ ~index /\ files = {}

\* The receipt is durable before the rows go: no database and no archive says
\* that the rows were erased without one, so a restore always knows
\* (privacy.py:718-727 precede 729-736).
ReceiptFirst ==
    /\ \A j \in Job : db.job[j].erased => receipt
    /\ archive # NoArchive => \A j \in Job : archive.job[j].erased => receipt

\* Shared memories of the user are the team's record: the step that removes the
\* user never meets one, though the check was made earlier, perhaps by another
\* attempt, and the user went on writing in between (privacy.py:15-18).
SharedRecordKept ==
    [][Serving /\ db.user /\ ~db'.user => ~db.shared]_vars

(***************************************************************************)
(* Why they hold                                                           *)
(***************************************************************************)

\* No row goes, and nothing is reported, without a receipt.
Recorded ==
    /\ ReceiptFirst
    /\ \A w \in Worker : worker[w].pc \in {"erase", "clean", "finish"} => receipt
    /\ reported => receipt

\* While the gate is held nobody exports, and what was found before the erasure was
\* accepted is so when the rows go.  Nobody works during a restore.
Excluded ==
    /\ gate # NoWorker => exporter = NoExport
    /\ ~Serving => exporter = NoExport /\ \A w \in Worker : worker[w].pc = "idle"
    /\ \A w \in Worker :
          worker[w].pc \in {"accept", "receipt", "erase"} => worker[w].found = files /\ ~db.shared

\* A database that knows no user has nothing left of one, and a job whose rows are
\* gone knows every file.
Bereft ==
    /\ ~db.user => ~db.pending /\ exporter = NoExport
    /\ \A j \in Job : db.job[j].erased =>
          /\ ~db.user
          /\ mode \in {"serving", "discarded", "rebuilt"} => files \subseteq db.job[j].paths
    /\ archive # NoArchive =>
          /\ ~archive.user => ~archive.pending
          /\ \A j \in Job : archive.job[j].erased => ~archive.user

\* What is reported was cleaned, and is again before a restored service reopens.
Cleaned ==
    /\ \A w \in Worker :
          /\ worker[w].pc = "clean" /\ Holds(w) => db.job[worker[w].job].erased
          /\ worker[w].pc = "finish" => ~db.user /\ ~index /\ files = {}
    /\ mode = "discarded" => ~index
    /\ mode \in {"discarded", "rebuilt"} => files = {}
    /\ reported /\ mode # "stopped" => ~db.user
    /\ reported /\ mode \in {"serving", "rebuilt"} => ~index /\ files = {}

\* The invariant GoneForGood rests on.
ErasureInv == Recorded /\ Excluded /\ Bereft /\ Cleaned
=============================================================================
