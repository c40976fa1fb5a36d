-------------------------- MODULE Evidence_proofs --------------------------
(***************************************************************************)
(* Theorems about the two halves of the way of a conversation into the     *)
(* memory: Capture, which brings its turns to the service, and             *)
(* ExtractionWindow, which brings its messages to the judge.  They hold    *)
(* for every set of workers and of hooks, any number of messages, jobs,    *)
(* requests and faults, any size of a window, of a transcript and of the   *)
(* piece of it that is read at a time.                                     *)
(***************************************************************************)
EXTENDS ExtractionWindow, Capture, FiniteSetTheorems, WellFoundedInduction, TLAPS

-----------------------------------------------------------------------------
(***************************************************************************)
(* Numbers and sets of numbers                                             *)
(***************************************************************************)
\* A nonempty set of naturals has a least element.
LEMMA LeastElement ==
  ASSUME NEW S \in SUBSET Nat, S # {}
  PROVE  \E x \in S : \A y \in S : x <= y
<1>1. PICK x \in S : \A y \in S : <<y, x>> \notin OpToRel(<, Nat)
  BY NatLessThanWellFounded, WFMin
<1>2. \A y \in S : ~(y < x)
  BY <1>1 DEF OpToRel
<1> QED
  BY <1>2

\* extract.messages_since_last counts.
LEMMA PendingTyped ==
  ASSUME sent \in Nat
  PROVE  IsFiniteSet(Backlog) /\ Pending \in Nat /\ (Pending > 0 => Backlog # {})
<1>1. IsFiniteSet(1 .. sent)
  BY FS_Interval
<1>2. IsFiniteSet(Backlog)
  BY <1>1, FS_Subset DEF Backlog
<1> QED
  BY <1>2, FS_CardinalityType, FS_EmptySet DEF Pending

\* The limit of a job is a number of windows up to WindowLimit.
LEMMA WindowsForTyped ==
  ASSUME NEW n \in Nat
  PROVE  WindowsFor(n) \in 1 .. WindowLimit
<1>1. (n + WindowSize - 1) \div WindowSize \in Int
  BY BoundsAreNaturals
<1> QED
  BY <1>1, BoundsAreNaturals DEF WindowsFor

-----------------------------------------------------------------------------
(***************************************************************************)
(* ExtractionWindow: types                                                 *)
(***************************************************************************)
\* What TypeOK says of the messages, of the jobs, of the workers, and of the rest.
MessagesTyped ==
    /\ sent \in 0..MaxMessages
    /\ processed \subseteq 1..sent
    /\ claim \in [Message -> Claims]
    /\ lapsed \subseteq {m \in Message : claim[m] # NoClaim}
    /\ uses \in [Message -> Nat]

JobsTyped ==
    /\ owed \subseteq Requests
    /\ status \in [Job -> Statuses]
    /\ force \in [Job -> BOOLEAN]
    /\ windows \in [Job -> 1..WindowLimit]
    /\ calls \in [Job -> Nat] /\ \A j \in Job : calls[j] <= windows[j]
    /\ cancelRequested \in [Job -> BOOLEAN]

HoldersTyped == holder \in [Job -> Worker \union {NoWorker}]

WorkersTyped ==
    /\ pc \in [Worker -> Stages]
    /\ task \in [Worker -> {0} \union Job]
    /\ window \in [Worker -> SUBSET (1..sent)]
    /\ left \in [Worker -> 0..WindowLimit]
    /\ \A w \in Worker : pc[w] # "idle" => task[w] \in Job
    /\ \A w \in Worker : pc[w] \in {"claiming", "claimed", "calling"} => left[w] > 0
    /\ \A w \in Worker :
          (window[w] # {}) = (pc[w] \in {"claimed", "calling"})

RestTyped ==
    /\ gateClosed \in BOOLEAN
    /\ requests \in 0..MaxRequests
    /\ faults \in 0..MaxFaults
    /\ overran \subseteq Worker
    /\ setback \in BOOLEAN
    /\ deferred \in BOOLEAN

LEMMA TypeParts ==
  /\ TypeOK <=> MessagesTyped /\ JobsTyped /\ HoldersTyped /\ WorkersTyped /\ RestTyped
  /\ TypeOK' <=> MessagesTyped' /\ JobsTyped' /\ HoldersTyped' /\ WorkersTyped' /\ RestTyped'
  BY DEF TypeOK, MessagesTyped, JobsTyped, HoldersTyped, WorkersTyped, RestTyped

LEMMA Numbers ==
  ASSUME MessagesTyped
  PROVE  /\ sent \in Nat /\ 1..sent \subseteq Message /\ MaxMessages \in Nat
         /\ Message \subseteq Nat \ {0} /\ Job \subseteq Nat \ {0}
         /\ Backlog \subseteq Message /\ Pending \in Nat
<1>1. sent \in Nat /\ MaxMessages \in Nat /\ MaxJobs \in Nat
  BY BoundsAreNaturals DEF MessagesTyped
<1> QED
  BY <1>1, PendingTyped DEF MessagesTyped, Message, Job, Backlog

\* A bounded counter that is counted up stays within its bound.
LEMMA Counted ==
  ASSUME RestTyped
  PROVE  /\ Fault => faults' \in 0..MaxFaults
         /\ Request => requests' \in 0..MaxRequests
  BY BoundsAreNaturals DEF RestTyped, Fault, Request

\* The id of a new job.
LEMMA NextJobIsFresh ==
  ASSUME \E j \in Job : Fresh(j)
  PROVE  NextJob \in Job /\ Fresh(NextJob)
<1> DEFINE S == {j \in Job : Fresh(j)}
<1>1. S \in SUBSET Nat /\ S # {} /\ Job = 1..MaxJobs /\ MaxJobs \in Nat
  BY BoundsAreNaturals DEF Job
<1>2. PICK x \in S : \A y \in S : x <= y
  BY <1>1, LeastElement
<1>3. x \in Job /\ Fresh(x) /\ \A i \in 1..(x - 1) : ~Fresh(i)
  BY <1>1, <1>2
<1> QED
  BY <1>3 DEF NextJob

\* job_runner.queue_extraction makes a job.
LEMMA Queueing ==
  ASSUME MessagesTyped, JobsTyped, NEW forced \in BOOLEAN, NEW s \in [Job -> Statuses],
         QueueExtraction(s, forced)
  PROVE  /\ NextJob \in Job /\ Fresh(NextJob)
         /\ status' = [s EXCEPT ![NextJob] = "queued"]
         /\ windows' = [windows EXCEPT ![NextJob] = WindowsFor(Pending)]
         /\ cancelRequested' = [cancelRequested EXCEPT ![NextJob] = FALSE]
         /\ status' \in [Job -> Statuses] /\ force' \in [Job -> BOOLEAN]
         /\ windows' \in [Job -> 1..WindowLimit]
         /\ calls' \in [Job -> Nat] /\ \A j \in Job : calls'[j] <= windows'[j]
         /\ cancelRequested' \in [Job -> BOOLEAN]
<1>1. NextJob \in Job /\ Fresh(NextJob)
  BY NextJobIsFresh DEF QueueExtraction
<1>2. WindowsFor(Pending) \in 1..WindowLimit
  BY Numbers, WindowsForTyped
<1>3. status' \in [Job -> Statuses] /\ force' \in [Job -> BOOLEAN]
      /\ windows' \in [Job -> 1..WindowLimit] /\ cancelRequested' \in [Job -> BOOLEAN]
  BY <1>1, <1>2 DEF QueueExtraction, JobsTyped, Statuses
<1>4. calls' = [calls EXCEPT ![NextJob] = 0] /\ windows' = [windows EXCEPT ![NextJob] = WindowsFor(Pending)]
  BY DEF QueueExtraction
<1>5. calls' \in [Job -> Nat] /\ \A j \in Job : calls'[j] <= windows'[j]
  BY <1>1, <1>2, <1>4 DEF JobsTyped
<1> QED
  BY <1>1, <1>3, <1>4, <1>5 DEF QueueExtraction

\* Claims that are taken back, or left to nobody, are claims.
LEMMA ClaimsTyped ==
  ASSUME MessagesTyped, WorkersTyped
  PROVE  /\ NoClaim \in Claims
         /\ \A S : Freed(S) \in [Message -> Claims]
         /\ \A w \in Worker : task[w] \in Job =>
               /\ Token(w) \in Claims /\ Token(w) # NoClaim /\ Token(w)[2] = w
               /\ Token(w)[1] = task[w]
               /\ Disowned(w) \in [Message -> Claims]
               /\ \A m \in Message : claim[m] # NoClaim => Disowned(w)[m] # NoClaim
         /\ \A w \in Worker : Held(w) # {} => task[w] \in Job
         /\ \A w \in Worker : Held(w) \subseteq Message /\ Held(w) \subseteq window[w]
<1>1. NoClaim \in Claims /\ \A S : Freed(S) \in [Message -> Claims]
  BY DEF Claims, Freed, MessagesTyped
<1>2. ASSUME NEW w \in Worker, task[w] \in Job
      PROVE  /\ Token(w) \in Claims /\ Token(w) # NoClaim /\ Token(w)[2] = w
             /\ Token(w)[1] = task[w]
             /\ Disowned(w) \in [Message -> Claims]
             /\ \A m \in Message : claim[m] # NoClaim => Disowned(w)[m] # NoClaim
  <2>1. task[w] # 0
    BY <1>2, Numbers
  <2>2. /\ <<task[w], NoWorker>> \in Claims /\ <<task[w], NoWorker>> # NoClaim
        /\ Token(w) \in Claims /\ Token(w) # NoClaim /\ Token(w)[2] = w /\ Token(w)[1] = task[w]
    BY <1>2, <2>1 DEF Claims, NoClaim, Token
  <2> QED
    BY <2>2 DEF Disowned, MessagesTyped
<1>3. ASSUME NEW w \in Worker PROVE Held(w) # {} => task[w] \in Job
  BY DEF Held, WorkersTyped
<1>4. \A w \in Worker : Held(w) \subseteq Message /\ Held(w) \subseteq window[w]
  BY Numbers DEF Held, WorkersTyped
<1> QED
  BY <1>1, <1>2, <1>3, <1>4

\* One worker moves: to a stage, with a job, a window and windows it may still do.
Moved(w, stage, j, S, n) ==
    /\ pc' = [pc EXCEPT ![w] = stage]
    /\ task' = [task EXCEPT ![w] = j]
    /\ window' = [window EXCEPT ![w] = S]
    /\ left' = [left EXCEPT ![w] = n]

LEMMA MovedTyped ==
  ASSUME WorkersTyped, NEW w \in Worker, NEW stage \in Stages, NEW j \in {0} \union Job,
         NEW S \in SUBSET (1..sent), NEW n \in 0..WindowLimit, Moved(w, stage, j, S, n),
         sent' = sent,
         stage # "idle" => j \in Job,
         stage \in {"claiming", "claimed", "calling"} => n > 0,
         S # {} <=> stage \in {"claimed", "calling"}
  PROVE  WorkersTyped'
<1>1. /\ pc' \in [Worker -> Stages] /\ task' \in [Worker -> {0} \union Job]
      /\ window' \in [Worker -> SUBSET (1..sent')] /\ left' \in [Worker -> 0..WindowLimit]
  BY DEF WorkersTyped, Moved
<1>2. \A v \in Worker : /\ pc'[v] = IF v = w THEN stage ELSE pc[v]
                        /\ task'[v] = IF v = w THEN j ELSE task[v]
                        /\ window'[v] = IF v = w THEN S ELSE window[v]
                        /\ left'[v] = IF v = w THEN n ELSE left[v]
  BY DEF WorkersTyped, Moved
<1>3. \A v \in Worker : /\ pc'[v] # "idle" => task'[v] \in Job
                        /\ pc'[v] \in {"claiming", "claimed", "calling"} => left'[v] > 0
                        /\ (window'[v] # {}) = (pc'[v] \in {"claimed", "calling"})
  BY <1>2 DEF WorkersTyped
<1> QED
  BY <1>1, <1>3 DEF WorkersTyped

\* The ways a worker moves.
LEMMA Moves ==
  ASSUME WorkersTyped, NEW w \in Worker, NEW stage
  PROVE  /\ MoveTo(w, stage) => Moved(w, stage, task[w], window[w], left[w])
         /\ Drop(w, stage) => Moved(w, stage, task[w], {}, left[w])
         /\ Forget(w) => Moved(w, "idle", 0, {}, 0)
  BY DEF WorkersTyped, MoveTo, Drop, Forget, Moved

LEMMA MoveToTyped ==
  ASSUME WorkersTyped, NEW w \in Worker, NEW stage \in Stages, MoveTo(w, stage), sent' = sent,
         stage # "idle", pc[w] # "idle",
         stage \in {"claiming", "claimed", "calling"} => left[w] > 0,
         (window[w] # {}) = (stage \in {"claimed", "calling"})
  PROVE  WorkersTyped'
<1>1. /\ task[w] \in Job /\ window[w] \in SUBSET (1..sent) /\ left[w] \in 0..WindowLimit
      /\ Moved(w, stage, task[w], window[w], left[w])
  BY Moves DEF WorkersTyped
<1> QED
  BY <1>1, MovedTyped

LEMMA DropTyped ==
  ASSUME WorkersTyped, NEW w \in Worker, NEW stage \in Stages, Drop(w, stage), sent' = sent,
         stage \notin {"idle", "claiming", "claimed", "calling"}, pc[w] # "idle"
  PROVE  WorkersTyped'
<1>1. /\ task[w] \in Job /\ {} \in SUBSET (1..sent) /\ left[w] \in 0..WindowLimit
      /\ Moved(w, stage, task[w], {}, left[w])
  BY Moves DEF WorkersTyped
<1> QED
  BY <1>1, MovedTyped

LEMMA ForgetTyped ==
  ASSUME WorkersTyped, RestTyped, NEW w \in Worker, Forget(w), sent' = sent
  PROVE  WorkersTyped' /\ overran' \subseteq Worker
<1>1. "idle" \in Stages /\ {} \in SUBSET (1..sent) /\ 0 \in 0..WindowLimit
  BY BoundsAreNaturals DEF Stages
<1>2. Moved(w, "idle", 0, {}, 0)
  BY Moves
<1>3. WorkersTyped'
  BY <1>1, <1>2, MovedTyped
<1> QED
  BY <1>3 DEF Forget, RestTyped

\* No worker moves, and the session may have grown.
LEMMA WorkersStay ==
  ASSUME MessagesTyped, WorkersTyped, UNCHANGED process, sent' \in Nat, sent <= sent'
  PROVE  WorkersTyped'
<1>1. 1..sent \subseteq 1..sent'
  BY Numbers
<1>2. \A w \in Worker : window[w] \subseteq 1..sent'
  BY <1>1 DEF WorkersTyped
<1> QED
  BY <1>2 DEF WorkersTyped, process

\* Requests keep the types.
LEMMA RequestsKeepTypes ==
  ASSUME TypeOK,
         \/ \E n \in 0..MaxMessages : PostBatch(n)
         \/ PostMessage \/ CloseSession
         \/ \E kind \in Requests : QueueRequested(kind) \/ RequestDies(kind)
         \/ \E j \in Job : RequestCancel(j)
  PROVE  TypeOK'
<1>0. MessagesTyped /\ JobsTyped /\ HoldersTyped /\ WorkersTyped /\ RestTyped
  BY TypeParts
<1>1. /\ sent \in Nat /\ MaxMessages \in Nat
      /\ Fault => faults' \in 0..MaxFaults
      /\ Request => requests' \in 0..MaxRequests
  BY <1>0, Numbers, Counted
<1>2. ASSUME NEW n \in 0..MaxMessages, PostBatch(n) PROVE TypeOK'
  <2>1. sent' \in Nat /\ sent <= sent' /\ sent' \in 0..MaxMessages /\ processed \subseteq 1..sent'
    BY <1>0, <1>1, <1>2 DEF PostBatch, MessagesTyped
  <2>2. MessagesTyped'
    BY <1>0, <1>2, <2>1 DEF PostBatch, MessagesTyped, history
  <2>3. JobsTyped' /\ HoldersTyped'
    BY <1>0, <1>2 DEF PostBatch, JobsTyped, HoldersTyped, jobs, Requests
  <2>4. WorkersTyped'
    BY <1>0, <1>2, <2>1, WorkersStay DEF PostBatch
  <2>5. RestTyped'
    BY <1>0, <1>1, <1>2 DEF PostBatch, RestTyped, history
  <2> QED
    BY <2>2, <2>3, <2>4, <2>5, TypeParts
<1>3. CASE PostMessage
  <2> DEFINE kind == IF sent + 1 \in Remember THEN "remember" ELSE "event"
  <2>1. sent' \in Nat /\ sent <= sent' /\ sent' \in 0..MaxMessages /\ processed \subseteq 1..sent'
    BY <1>0, <1>1, <1>3 DEF PostMessage, MessagesTyped
  <2>2. MessagesTyped'
    BY <1>0, <1>3, <2>1 DEF PostMessage, MessagesTyped, history
  <2>3. JobsTyped' /\ HoldersTyped'
    <3>1. kind \in Requests /\ owed' = owed \union {kind}
      BY <1>3 DEF PostMessage, Requests
    <3> HIDE DEF kind
    <3> QED
      BY <1>0, <1>3, <3>1 DEF PostMessage, JobsTyped, HoldersTyped, jobs
  <2>4. WorkersTyped'
    BY <1>0, <1>3, <2>1, WorkersStay DEF PostMessage
  <2>5. RestTyped'
    BY <1>0, <1>1, <1>3 DEF PostMessage, RestTyped, history
  <2> QED
    BY <2>2, <2>3, <2>4, <2>5, TypeParts
<1>4. CASE CloseSession
  BY <1>0, <1>1, <1>4, WorkersStay, TypeParts
     DEF CloseSession, MessagesTyped, JobsTyped, HoldersTyped, RestTyped, messages, jobs,
         history, Requests
<1>5. ASSUME NEW kind \in Requests, QueueRequested(kind) PROVE TypeOK'
  <2>1. JobsTyped'
    <3>1. CASE UNCHANGED <<status, force, windows, calls, cancelRequested>>
      BY <1>0, <1>5, <3>1 DEF QueueRequested, JobsTyped
    <3>2. CASE QueueExtraction(status, kind # "batch")
      <4>1. status \in [Job -> Statuses] /\ (kind # "batch") \in BOOLEAN
        BY <1>0 DEF JobsTyped
      <4> QED
        BY <1>0, <1>5, <3>2, <4>1, Queueing DEF QueueRequested, JobsTyped
    <3> QED
      BY <1>5, <3>1, <3>2 DEF QueueRequested
  <2>2. WorkersTyped'
    BY <1>0, <1>1, <1>5, WorkersStay DEF QueueRequested, messages
  <2> QED
    BY <1>0, <1>5, <2>1, <2>2, TypeParts
       DEF QueueRequested, MessagesTyped, HoldersTyped, RestTyped, messages, bounds, history
<1>6. ASSUME NEW kind \in Requests, RequestDies(kind) PROVE TypeOK'
  BY <1>0, <1>1, <1>6, WorkersStay, TypeParts
     DEF RequestDies, MessagesTyped, JobsTyped, HoldersTyped, RestTyped, messages, jobs
<1>7. ASSUME NEW j \in Job, RequestCancel(j) PROVE TypeOK'
  BY <1>0, <1>1, <1>7, WorkersStay, TypeParts
     DEF RequestCancel, MessagesTyped, JobsTyped, HoldersTyped, RestTyped, messages
<1> QED
  BY <1>2, <1>3, <1>4, <1>5, <1>6, <1>7

\* What a worker may claim is of the messages that are there.
LEMMA ClaimableTyped ==
  ASSUME MessagesTyped
  PROVE  /\ Free \subseteq Backlog /\ Claimable \subseteq Free
         /\ Claimable \subseteq 1..sent /\ Claimable \subseteq Message
         /\ Free # {} => Claimable # {}
<1>1. Free \subseteq Backlog /\ Claimable \subseteq Free /\ Backlog \subseteq 1..sent
  BY DEF Free, Claimable, Backlog
<1>2. 1..sent \subseteq Message /\ Message \subseteq Nat
  BY Numbers
<1>3. ASSUME Free # {} PROVE Claimable # {}
  <2>1. Free \in SUBSET Nat
    BY <1>1, <1>2
  <2>2. PICK m \in Free : \A n \in Free : m <= n
    BY <1>3, <2>1, LeastElement
  <2>3. {n \in Free : n < m} = {}
    <3>1. \A n \in Free : n \in Nat /\ m \in Nat /\ ~(n < m)
      BY <2>1, <2>2
    <3> QED
      BY <3>1
  <2>4. Cardinality({n \in Free : n < m}) = 0
    BY <2>3, FS_EmptySet
  <2> QED
    BY <2>4, BoundsAreNaturals DEF Claimable
<1> QED
  BY <1>1, <1>2, <1>3

\* The claims of a set of messages are taken back.
LEMMA FreedTyped ==
  ASSUME MessagesTyped, NEW S, UNCHANGED <<sent, processed, uses>>,
         claim' = Freed(S), lapsed' = lapsed \ S
  PROVE  MessagesTyped'
<1>1. claim' \in [Message -> Claims]
  BY DEF Freed, MessagesTyped, Claims
<1>2. \A m \in lapsed' : m \in Message /\ claim'[m] # NoClaim
  BY DEF Freed, MessagesTyped
<1> QED
  BY <1>1, <1>2 DEF MessagesTyped

\* They are left to nobody.
LEMMA DisownedTyped ==
  ASSUME MessagesTyped, WorkersTyped, NEW w \in Worker, pc[w] # "idle",
         UNCHANGED <<sent, processed, lapsed, uses>>, claim' = Disowned(w)
  PROVE  MessagesTyped'
<1>1. task[w] \in Job
  BY DEF WorkersTyped
<1>2. claim' \in [Message -> Claims] /\ \A m \in Message : claim[m] # NoClaim => claim'[m] # NoClaim
  BY <1>1, ClaimsTyped
<1> QED
  BY <1>2 DEF MessagesTyped

\* A worker that ends a window is at work.
LEMMA EndingIsWork ==
  ASSUME NEW w \in Worker, Ending(w)
  PROVE  pc[w] \in {"claimed", "calling"}
  BY DEF Ending

LEMMA RestKept ==
  ASSUME RestTyped, gateClosed' = gateClosed, UNCHANGED requests,
         faults' = faults \/ Fault, overran' \subseteq Worker,
         setback' \in BOOLEAN, deferred' \in BOOLEAN
  PROVE  RestTyped'
  BY Counted DEF RestTyped

\* The steps of a run keep the types.
LEMMA RunKeepsTypes ==
  ASSUME TypeOK, NEW w \in Worker, Run(w)
  PROVE  TypeOK'
<1>0. /\ MessagesTyped /\ JobsTyped /\ HoldersTyped /\ WorkersTyped /\ RestTyped
      /\ sent \in Nat
  BY TypeParts, Numbers
<1>1. ASSUME NEW j \in Job, TakeJob(w, j) PROVE TypeOK'
  <2>1. status' \in [Job -> Statuses] /\ holder' \in [Job -> Worker \union {NoWorker}]
    BY <1>0, <1>1 DEF TakeJob, JobsTyped, HoldersTyped, Statuses
  <2>2. WorkersTyped'
    <3>1. CASE cancelRequested[j]
      BY <1>0, <1>1, <3>1, WorkersStay DEF TakeJob, messages
    <3>2. CASE ~cancelRequested[j]
      <4>1. windows[j] \in 0..WindowLimit /\ {} \in SUBSET (1..sent) /\ "looping" \in Stages
        BY <1>0, BoundsAreNaturals DEF JobsTyped, Stages
      <4>2. Moved(w, "looping", j, {}, windows[j])
        BY <1>0, <1>1, <3>2 DEF TakeJob, Moved, WorkersTyped
      <4>3. sent' = sent /\ j \in {0} \union Job /\ WorkersTyped
        BY <1>0, <1>1 DEF TakeJob, messages
      <4>4. \A n \in 0..WindowLimit : Moved(w, "looping", j, {}, n) => WorkersTyped'
        BY <4>1, <4>3, MovedTyped
      <4> QED
        BY <4>1, <4>2, <4>4
    <3> QED
      BY <3>1, <3>2
  <2> QED
    BY <1>0, <1>1, <2>1, <2>2, TypeParts
       DEF TakeJob, MessagesTyped, JobsTyped, HoldersTyped, RestTyped, messages, bounds, history
<1>2. CASE Discard(w)
  <2>1. pc[w] # "idle"
    BY <1>2, EndingIsWork DEF Discard
  <2>2. MessagesTyped'
    BY <1>0, <1>2, <2>1, DisownedTyped DEF Discard
  <2>3. WorkersTyped' /\ overran' \subseteq Worker
    BY <1>0, <1>2, ForgetTyped DEF Discard
  <2> QED
    BY <1>0, <1>2, <2>2, <2>3, TypeParts
       DEF Discard, JobsTyped, HoldersTyped, RestTyped, jobs, bounds
<1>3. CASE NextWindow(w)
  <2>1. WorkersTyped'
    <3> DEFINE stage == IF left[w] = 0 \/ cancelRequested[task[w]] THEN "drained" ELSE "claiming"
    <3>1. /\ MoveTo(w, stage) /\ stage \in {"drained", "claiming"} /\ stage \in Stages
          /\ pc[w] = "looping" /\ window[w] = {} /\ left[w] \in Nat
          /\ stage = "claiming" => left[w] > 0
      BY <1>0, <1>3 DEF NextWindow, WorkersTyped, Stages
    <3> HIDE DEF stage
    <3> QED
      BY <1>0, <1>3, <3>1, MoveToTyped DEF NextWindow, messages
  <2> QED
    BY <1>0, <1>3, <2>1, TypeParts
       DEF NextWindow, MessagesTyped, JobsTyped, HoldersTyped, RestTyped, messages, jobs, bounds,
           history
<1>4. CASE ClaimWindow(w)
  <2>1. task[w] \in Job /\ left[w] > 0 /\ left[w] \in 0..WindowLimit
    BY <1>0, <1>4 DEF ClaimWindow, WorkersTyped
  <2>2. MessagesTyped'
    BY <1>0, <1>4, <2>1, ClaimsTyped DEF ClaimWindow, MessagesTyped
  <2>3. WorkersTyped'
    <3> DEFINE stage == IF Claimable = {} THEN "drained" ELSE "claimed"
    <3>1. Moved(w, stage, task[w], Claimable, left[w])
      BY <1>0, <1>4 DEF ClaimWindow, Moved, WorkersTyped
    <3>2. stage \in Stages /\ stage # "idle" /\ (Claimable # {} <=> stage \in {"claimed", "calling"})
      BY DEF Stages
    <3>3. Claimable \in SUBSET (1..sent) /\ sent' = sent
      BY <1>0, <1>4, ClaimableTyped DEF ClaimWindow
    <3> HIDE DEF stage
    <3> QED
      BY <1>0, <2>1, <3>1, <3>2, <3>3, MovedTyped
  <2> QED
    BY <1>0, <1>4, <2>2, <2>3, TypeParts
       DEF ClaimWindow, JobsTyped, HoldersTyped, RestTyped, jobs, bounds
<1>5. CASE Decline(w)
  <2>1. WorkersTyped'
    BY <1>0, <1>5, DropTyped DEF Decline, Stages
  <2> QED
    BY <1>0, <1>5, <2>1, FreedTyped, TypeParts
       DEF Decline, JobsTyped, HoldersTyped, RestTyped, jobs, bounds, history
<1>6. CASE CallJudge(w)
  <2>1. task[w] \in Job /\ window[w] # {} /\ left[w] > 0 /\ pc[w] = "claimed"
    BY <1>0, <1>6 DEF CallJudge, WorkersTyped
  <2>2. CASE CallGranted(task[w])
    <3>1. calls' = [calls EXCEPT ![task[w]] = @ + 1] /\ windows' = windows
      BY <1>6, <2>2 DEF CallJudge
    <3>2. calls' \in [Job -> Nat] /\ \A j \in Job : calls'[j] <= windows[j]
      BY <1>0, <2>1, <2>2, <3>1 DEF CallGranted, JobsTyped
    <3>3. WorkersTyped'
      BY <1>0, <1>6, <2>1, <2>2, MoveToTyped DEF CallJudge, Stages
    <3>4. UNCHANGED <<claim, lapsed, setback>>
      BY <1>6, <2>2 DEF CallJudge
    <3> QED
      BY <1>0, <1>6, <3>1, <3>2, <3>3, <3>4, TypeParts
         DEF CallJudge, MessagesTyped, JobsTyped, HoldersTyped, RestTyped, bounds
  <2>3. CASE ~CallGranted(task[w])
    <3>1. WorkersTyped'
      BY <1>0, <1>6, <2>1, <2>3, DropTyped DEF CallJudge, Stages
    <3>2. /\ claim' = Freed(Released(w)) /\ lapsed' = lapsed \ Released(w)
          /\ setback' = TRUE /\ calls' = calls
      BY <1>6, <2>3 DEF CallJudge
    <3>3. MessagesTyped'
      BY <1>0, <1>6, <3>2, FreedTyped DEF CallJudge
    <3> QED
      BY <1>0, <1>6, <3>1, <3>2, <3>3, TypeParts
         DEF CallJudge, JobsTyped, HoldersTyped, RestTyped, bounds
  <2> QED
    BY <2>2, <2>3
<1>7. CASE Commit(w)
  <2>1. /\ pc[w] \in {"claimed", "calling"} /\ window[w] \subseteq 1..sent /\ left[w] > 0
        /\ left[w] \in 0..WindowLimit /\ task[w] \in Job
    BY <1>0, <1>7, EndingIsWork DEF Commit, WorkersTyped
  <2>2. MessagesTyped'
    <3>1. claim' \in [Message -> Claims] /\ \A m \in lapsed' : m \in Message /\ claim'[m] # NoClaim
      BY <1>0, <1>7 DEF Commit, Freed, MessagesTyped, Claims
    <3>2. uses' \in [Message -> Nat]
      BY <1>0, <1>7 DEF Commit, Applied, MessagesTyped
    <3> QED
      BY <1>0, <1>7, <2>1, <3>1, <3>2 DEF Commit, MessagesTyped
  <2>3. WorkersTyped'
    <3>1. Moved(w, "looping", task[w], {}, left[w] - 1)
      BY <1>0, <1>7 DEF Commit, Moved, WorkersTyped
    <3>2. "looping" \in Stages /\ {} \in SUBSET (1..sent) /\ left[w] - 1 \in 0..WindowLimit
      BY <2>1, BoundsAreNaturals DEF Stages
    <3> QED
      BY <1>0, <1>7, <2>1, <3>1, <3>2, MovedTyped DEF Commit
  <2> QED
    BY <1>0, <1>7, <2>2, <2>3, TypeParts
       DEF Commit, JobsTyped, HoldersTyped, RestTyped, jobs, bounds
<1>8. CASE WindowLost(w)
  <2>1. pc[w] \in {"claimed", "calling"}
    BY <1>8, EndingIsWork DEF WindowLost
  <2>2. MessagesTyped' /\ WorkersTyped'
    BY <1>0, <1>8, <2>1, DisownedTyped, DropTyped DEF WindowLost, Stages
  <2> QED
    BY <1>0, <1>8, <2>2, TypeParts DEF WindowLost, JobsTyped, HoldersTyped, RestTyped, jobs, bounds
<1>9. CASE MeetGate(w)
  <2>1. pc[w] \in {"claimed", "calling"}
    BY <1>9, EndingIsWork DEF MeetGate
  <2>2. MessagesTyped' /\ WorkersTyped'
    BY <1>0, <1>9, <2>1, DisownedTyped, DropTyped DEF MeetGate, Stages, history
  <2> QED
    BY <1>0, <1>9, <2>2, TypeParts
       DEF MeetGate, JobsTyped, HoldersTyped, RestTyped, jobs, bounds, history
<1>10. CASE Defer(w) \/ Settle(w)
  <2>1. task[w] \in Job
    BY <1>0, <1>10 DEF Defer, Settle, WorkersTyped
  <2>2. status' \in [Job -> Statuses] /\ holder' \in [Job -> Worker \union {NoWorker}]
    BY <1>0, <1>10, <2>1 DEF Defer, Settle, JobsTyped, HoldersTyped, Statuses
  <2>3. WorkersTyped' /\ overran' \subseteq Worker
    BY <1>0, <1>10, ForgetTyped DEF Defer, Settle, messages
  <2> QED
    BY <1>0, <1>10, <2>2, <2>3, TypeParts
       DEF Defer, Settle, MessagesTyped, JobsTyped, HoldersTyped, RestTyped, messages, bounds
<1>11. CASE Continue(w)
  <2>1. task[w] \in Job /\ pc[w] \in {"declined", "drained"} /\ window[w] = {}
    BY <1>0, <1>11 DEF Continue, WorkersTyped
  <2>2. JobsTyped'
    <3>1. CASE UNCHANGED <<status, force, windows, calls, cancelRequested>>
      BY <1>0, <1>11, <3>1 DEF Continue, JobsTyped
    <3>2. CASE QueueExtraction(status, force[task[w]])
      <4>1. status \in [Job -> Statuses] /\ force[task[w]] \in BOOLEAN
        BY <1>0, <2>1 DEF JobsTyped
      <4> QED
        BY <1>0, <1>11, <3>2, <4>1, Queueing DEF Continue, JobsTyped
    <3> QED
      BY <1>11, <3>1, <3>2 DEF Continue
  <2>3. WorkersTyped'
    BY <1>0, <1>11, <2>1, MoveToTyped DEF Continue, messages, Stages
  <2> QED
    BY <1>0, <1>11, <2>2, <2>3, TypeParts
       DEF Continue, MessagesTyped, HoldersTyped, RestTyped, messages, bounds, history
<1> QED
  BY <1>1, <1>2, <1>3, <1>4, <1>5, <1>6, <1>7, <1>8, <1>9, <1>10, <1>11 DEF Run

\* A recovery takes a job and its claims back.
LEMMA RecoverKeepsTypes ==
  ASSUME TypeOK, NEW j \in Job, Recover(j)
  PROVE  /\ MessagesTyped' /\ JobsTyped' /\ HoldersTyped' /\ WorkersTyped'
         /\ overran' \subseteq Worker
<1>0. /\ MessagesTyped /\ JobsTyped /\ HoldersTyped /\ WorkersTyped /\ RestTyped
      /\ sent \in Nat
  BY TypeParts, Numbers
<1>1. MessagesTyped'
  BY <1>0, FreedTyped DEF Recover
<1>2. WorkersTyped'
  BY <1>0, WorkersStay DEF Recover
<1>3. JobsTyped' /\ HoldersTyped'
  BY <1>0 DEF Recover, JobsTyped, HoldersTyped, Statuses
<1> QED
  BY <1>0, <1>1, <1>2, <1>3 DEF Recover, RestTyped

\* Time, maintenance and failure keep the types.
LEMMA FailuresKeepTypes ==
  ASSUME TypeOK,
         \/ \E w \in Worker : JudgeFails(w) \/ CommitFails(w) \/ LeaseLapses(w) \/ Crash(w)
         \/ \E j \in Job : AbandonedLapse(j) \/ RecoverDead(j) \/ RecoverLate(j)
         \/ CloseGate \/ OpenGate
  PROVE  TypeOK'
<1>0. /\ MessagesTyped /\ JobsTyped /\ HoldersTyped /\ WorkersTyped /\ RestTyped
      /\ sent \in Nat /\ (Fault => faults' \in 0..MaxFaults)
  BY TypeParts, Numbers, Counted
<1>1. ASSUME NEW w \in Worker, JudgeFails(w) PROVE TypeOK'
  <2>1. MessagesTyped' /\ WorkersTyped'
    BY <1>0, <1>1, FreedTyped, DropTyped DEF JudgeFails, Stages
  <2> QED
    BY <1>0, <1>1, <2>1, TypeParts DEF JudgeFails, JobsTyped, HoldersTyped, RestTyped, jobs
<1>2. ASSUME NEW w \in Worker, CommitFails(w) PROVE TypeOK'
  <2>1. MessagesTyped' /\ WorkersTyped'
    BY <1>0, <1>2, DisownedTyped, DropTyped DEF CommitFails, Stages
  <2> QED
    BY <1>0, <1>2, <2>1, TypeParts DEF CommitFails, JobsTyped, HoldersTyped, RestTyped, jobs
<1>3. ASSUME NEW w \in Worker, LeaseLapses(w) PROVE TypeOK'
  <2>1. \A m \in Held(w) : m \in Message /\ claim[m] # NoClaim
    BY <1>0, <1>3, ClaimsTyped DEF LeaseLapses, Held
  <2>2. MessagesTyped'
    BY <1>0, <1>3, <2>1 DEF LeaseLapses, MessagesTyped
  <2>3. WorkersTyped'
    BY <1>0, <1>3, WorkersStay DEF LeaseLapses
  <2> QED
    BY <1>0, <1>3, <2>2, <2>3, TypeParts
       DEF LeaseLapses, JobsTyped, HoldersTyped, RestTyped, jobs
<1>4. ASSUME NEW w \in Worker, Crash(w) PROVE TypeOK'
  <2>1. MessagesTyped'
    BY <1>0, <1>4, DisownedTyped DEF Crash
  <2>2. WorkersTyped' /\ overran' \subseteq Worker
    BY <1>0, <1>4, ForgetTyped DEF Crash
  <2>3. holder' \in [Job -> Worker \union {NoWorker}]
    BY <1>0, <1>4 DEF Crash, HoldersTyped
  <2> QED
    BY <1>0, <1>4, <2>1, <2>2, <2>3, TypeParts DEF Crash, JobsTyped, HoldersTyped, RestTyped
<1>5. ASSUME NEW j \in Job, AbandonedLapse(j) PROVE TypeOK'
  <2>1. \A m \in Abandoned(j) : m \in Message /\ claim[m] # NoClaim
    <3>1. j # 0
      BY <1>0, Numbers
    <3> QED
      BY <3>1 DEF Abandoned, NoClaim
  <2>2. MessagesTyped'
    BY <1>0, <1>5, <2>1 DEF AbandonedLapse, MessagesTyped, history
  <2>3. WorkersTyped'
    BY <1>0, <1>5, WorkersStay DEF AbandonedLapse
  <2> QED
    BY <1>0, <1>5, <2>2, <2>3, TypeParts
       DEF AbandonedLapse, JobsTyped, HoldersTyped, RestTyped, jobs, bounds, history
<1>6. ASSUME NEW j \in Job, RecoverDead(j) \/ RecoverLate(j) PROVE TypeOK'
  <2>1. /\ MessagesTyped' /\ JobsTyped' /\ HoldersTyped' /\ WorkersTyped'
        /\ overran' \subseteq Worker /\ Recover(j)
    BY <1>6, RecoverKeepsTypes DEF RecoverDead, RecoverLate
  <2> QED
    BY <1>0, <1>6, <2>1, TypeParts DEF RecoverDead, RecoverLate, Recover, RestTyped
<1>7. CASE CloseGate \/ OpenGate
  <2>1. WorkersTyped'
    BY <1>0, <1>7, WorkersStay DEF CloseGate, OpenGate, messages
  <2> QED
    BY <1>0, <1>7, <2>1, TypeParts
       DEF CloseGate, OpenGate, MessagesTyped, JobsTyped, HoldersTyped, RestTyped, messages, jobs,
           bounds, history
<1> QED
  BY <1>1, <1>2, <1>3, <1>4, <1>5, <1>6, <1>7

LEMMA TypeInit == Init => TypeOK
<1> SUFFICES ASSUME Init PROVE TypeOK
  OBVIOUS
<1>1. NoClaim \in Claims /\ 0 \in 0..MaxMessages /\ 1 \in 1..WindowLimit /\ 0 \in 0..WindowLimit
      /\ 0 \in 0..MaxRequests /\ 0 \in 0..MaxFaults
  BY BoundsAreNaturals DEF Claims
<1>2. MessagesTyped /\ JobsTyped /\ HoldersTyped
  <2>1. MessagesTyped
    BY <1>1 DEF Init, MessagesTyped
  <2>2. JobsTyped
    BY <1>1 DEF Init, JobsTyped, Statuses
  <2>3. HoldersTyped
    BY DEF Init, HoldersTyped
  <2> QED
    BY <2>1, <2>2, <2>3
<1>3. WorkersTyped
  <2>1. /\ pc \in [Worker -> Stages] /\ task \in [Worker -> {0} \union Job]
        /\ window \in [Worker -> SUBSET (1..sent)] /\ left \in [Worker -> 0..WindowLimit]
    BY <1>1 DEF Init, Stages
  <2>2. \A w \in Worker : pc[w] = "idle" /\ window[w] = {}
    BY DEF Init
  <2>3. \A w \in Worker : (window[w] # {}) = (pc[w] \in {"claimed", "calling"})
    BY <2>2
  <2> QED
    BY <2>1, <2>2, <2>3 DEF WorkersTyped
<1>4. RestTyped
  BY <1>1 DEF Init, RestTyped
<1> QED
  BY <1>2, <1>3, <1>4, TypeParts

LEMMA TypeNext == TypeOK /\ [Next]_vars => TypeOK'
<1> SUFFICES ASSUME TypeOK, [Next]_vars PROVE TypeOK'
  OBVIOUS
<1>1. CASE UNCHANGED vars
  BY <1>1 DEF vars, messages, jobs, process, bounds, history, TypeOK
<1> QED
  BY <1>1, RequestsKeepTypes, RunKeepsTypes, FailuresKeepTypes DEF Next

\* Every reachable state is well typed: claims are tokens, lapsed leases are leases, the
\* calls of a job stay within its limit, and a worker has a window exactly while it is
\* to be judged.
THEOREM TypeCorrect == Spec => []TypeOK
  BY TypeInit, TypeNext, PTL DEF Spec

-----------------------------------------------------------------------------
(***************************************************************************)
(* ExtractionWindow: nothing is applied twice                              *)
(***************************************************************************)
LEMMA OnlyCommitsApply ==
  ASSUME Next, \A w \in Worker : ~Commit(w)
  PROVE  UNCHANGED <<processed, uses>>
<1>1. ASSUME NEW w \in Worker, Run(w) PROVE UNCHANGED <<processed, uses>>
  BY <1>1 DEF Run, TakeJob, Discard, NextWindow, ClaimWindow, Decline, CallJudge, WindowLost,
              MeetGate, Defer, Continue, Settle, messages, history
<1>2. ASSUME NEW n, PostBatch(n) PROVE UNCHANGED <<processed, uses>>
  BY <1>2 DEF PostBatch, history
<1>3. ASSUME NEW kind, QueueRequested(kind) \/ RequestDies(kind) PROVE UNCHANGED <<processed, uses>>
  BY <1>3 DEF QueueRequested, RequestDies, messages, history
<1>4. ASSUME NEW w, JudgeFails(w) \/ CommitFails(w) \/ LeaseLapses(w) \/ Crash(w)
      PROVE  UNCHANGED <<processed, uses>>
  BY <1>4 DEF JudgeFails, CommitFails, LeaseLapses, Crash
<1>5. ASSUME NEW j, RequestCancel(j) \/ AbandonedLapse(j) \/ RecoverDead(j) \/ RecoverLate(j)
      PROVE  UNCHANGED <<processed, uses>>
  BY <1>5 DEF RequestCancel, AbandonedLapse, RecoverDead, RecoverLate, Recover, messages, history
<1>6. CASE PostMessage \/ CloseSession \/ CloseGate \/ OpenGate
  BY <1>6 DEF PostMessage, CloseSession, CloseGate, OpenGate, messages, history
<1> QED
  BY <1>1, <1>2, <1>3, <1>4, <1>5, <1>6 DEF Next

\* The messages put into committed windows are the processed ones, each of them once
\* (extract._mark_processed insists on rows that are unprocessed and its own).
THEOREM OperationsApplyOnce == Spec => []AppliedOnce
<1>1. Init => AppliedOnce
  BY DEF Init, AppliedOnce
<1>2. TypeOK /\ AppliedOnce /\ [Next]_vars => AppliedOnce'
  <2> SUFFICES ASSUME TypeOK, AppliedOnce, [Next]_vars PROVE AppliedOnce'
    OBVIOUS
  <2>1. ASSUME NEW w \in Worker, Commit(w) PROVE AppliedOnce'
    <3>1. /\ window[w] \intersect processed = {}
          /\ processed' = processed \union window[w] /\ uses' = Applied(window[w])
      BY <2>1 DEF Commit, WindowHolds
    <3> QED
      BY <3>1 DEF AppliedOnce, Applied
  <2>2. CASE UNCHANGED <<processed, uses>>
    BY <2>2 DEF AppliedOnce
  <2>3. CASE UNCHANGED vars
    BY <2>2, <2>3 DEF vars, messages, history
  <2> QED
    BY <2>1, <2>2, <2>3, OnlyCommitsApply
<1> QED
  BY <1>1, <1>2, TypeInit, TypeNext, PTL DEF Spec

-----------------------------------------------------------------------------
(***************************************************************************)
(* ExtractionWindow: who has a message in hand                             *)
(***************************************************************************)
\* What a step of one worker leaves alone, and what it makes of its own claims.
OwnClaims(w) ==
    /\ \A v \in Worker \ {w} :
          /\ window'[v] = window[v] /\ task'[v] = task[v]
          /\ v \in overran => v \in overran'
          /\ \A m \in Message :
                /\ claim'[m][2] = v => claim'[m] = claim[m]
                /\ claim[m][2] = v /\ m \notin lapsed => claim'[m] = claim[m] /\ m \notin lapsed'
    /\ \A m \in Message : claim'[m][2] = w => m \in window'[w] /\ claim'[m] = Token(w)'
    /\ w \notin overran' => \A m \in window'[w] : claim'[m] = Token(w)' /\ m \notin lapsed'

LEMMA OwnClaimsKeep ==
  ASSUME TypeOK, TypeOK', Owned, Intact, NEW w \in Worker, OwnClaims(w)
  PROVE  Owned' /\ Intact'
<1>1. ASSUME NEW m \in Message, claim'[m][2] \in Worker
      PROVE  m \in window'[claim'[m][2]] /\ claim'[m] = <<task'[claim'[m][2]], claim'[m][2]>>
  <2>1. CASE claim'[m][2] = w
    BY <2>1 DEF OwnClaims, Token
  <2>2. CASE claim'[m][2] # w
    <3>1. PICK v \in Worker \ {w} : v = claim'[m][2]
      BY <1>1, <2>2
    <3>2. claim'[m] = claim[m] /\ window'[v] = window[v] /\ task'[v] = task[v]
      BY <3>1 DEF OwnClaims
    <3>3. m \in window[v] /\ claim[m] = <<task[v], v>>
      BY <3>1, <3>2 DEF Owned, Token
    <3> QED
      BY <3>1, <3>2, <3>3
  <2> QED
    BY <2>1, <2>2
<1>2. ASSUME NEW v \in Worker, v \notin overran', NEW m \in window'[v]
      PROVE  claim'[m] = <<task'[v], v>> /\ m \notin lapsed'
  <2>1. CASE v = w
    BY <1>2, <2>1 DEF OwnClaims, Token
  <2>2. CASE v # w
    <3>1. window'[v] = window[v] /\ task'[v] = task[v] /\ v \notin overran
      BY <1>2, <2>2 DEF OwnClaims
    <3>2. claim[m] = <<task[v], v>> /\ m \notin lapsed
      BY <1>2, <3>1 DEF Intact, Token
    <3>3. m \in Message
      BY <1>2, <3>1, TypeParts, Numbers DEF WorkersTyped
    <3>4. claim'[m] = claim[m] /\ m \notin lapsed'
      BY <2>2, <3>2, <3>3 DEF OwnClaims
    <3> QED
      BY <3>1, <3>2, <3>4
  <2> QED
    BY <2>1, <2>2
<1>3. Owned'
  BY <1>1 DEF Owned, Token
<1>4. Intact'
  BY <1>2 DEF Intact, Token
<1> QED
  BY <1>3, <1>4

\* Claims, windows and jobs in hand stay as they are.
LEMMA ClaimsKept ==
  ASSUME Owned, Intact, UNCHANGED <<claim, lapsed, window, task, overran>>
  PROVE  Owned' /\ Intact'
<1>1. \A w : Token(w)' = Token(w)
  BY DEF Token
<1> QED
  BY <1>1 DEF Owned, Intact

\* A worker gives back what it holds, or forgets it.
LEMMA GivenBack ==
  ASSUME TypeOK, Owned, NEW w \in Worker, pc[w] # "idle",
         \/ claim' = Freed(Held(w)) /\ lapsed' = lapsed \ Held(w)
         \/ claim' = Disowned(w) /\ lapsed' = lapsed,
         window' = [window EXCEPT ![w] = {}],
         \A v \in Worker \ {w} : task'[v] = task[v] /\ (v \in overran => v \in overran')
  PROVE  OwnClaims(w)
<1>0. MessagesTyped /\ WorkersTyped /\ task[w] \in Job
  BY TypeParts DEF WorkersTyped
<1>1. \A m \in Message : claim'[m] = claim[m] \/ (m \in Held(w) /\ claim'[m][2] = NoWorker)
  BY DEF Freed, Disowned, NoClaim
<1>2. \A m \in Message : claim[m][2] = w => claim'[m][2] = NoWorker
  <2>1. ASSUME NEW m \in Message, claim[m][2] = w PROVE m \in Held(w)
    BY <2>1 DEF Owned, Held
  <2> QED
    BY <2>1 DEF Freed, Disowned, NoClaim
<1>3. \A m \in Held(w) : claim[m][2] = w
  BY DEF Held, Token
<1>4. \A m \in Message : claim'[m][2] # w
  BY <1>1, <1>2, NobodyIsNoWorker
<1>5. window'[w] = {} /\ \A v \in Worker \ {w} : window'[v] = window[v]
  BY <1>0 DEF WorkersTyped
<1>6. lapsed' \subseteq lapsed
  OBVIOUS
<1>7. ASSUME NEW v \in Worker, v # w, NEW m \in Message
      PROVE  /\ claim'[m][2] = v => claim'[m] = claim[m]
             /\ claim[m][2] = v => claim'[m] = claim[m]
  BY <1>1, <1>3, <1>7, NobodyIsNoWorker
<1> QED
  BY <1>4, <1>5, <1>6, <1>7 DEF OwnClaims

\* A worker without a window takes a job or leaves one.
LEMMA EmptyHanded ==
  ASSUME TypeOK, Owned, NEW w \in Worker, window[w] = {}, UNCHANGED <<claim, lapsed>>,
         window' = window \/ window' = [window EXCEPT ![w] = {}],
         \A v \in Worker \ {w} : task'[v] = task[v] /\ (v \in overran => v \in overran')
  PROVE  OwnClaims(w)
<1>1. \A v \in Worker : window'[v] = window[v]
  BY DEF TypeOK
<1>2. \A m \in Message : claim[m][2] # w
  BY DEF Owned
<1> QED
  BY <1>1, <1>2 DEF OwnClaims

\* extract.claim_window takes what nobody holds in time.
LEMMA ClaimingOwns ==
  ASSUME TypeOK, Owned, NEW w \in Worker, ClaimWindow(w)
  PROVE  OwnClaims(w)
<1>0. MessagesTyped /\ WorkersTyped
  BY TypeParts
<1>1. window[w] = {} /\ task[w] \in Job /\ Token(w) = <<task[w], w>> /\ Token(w)' = Token(w)
  BY <1>0 DEF ClaimWindow, WorkersTyped, Token
<1>2. /\ \A m \in Message :
            claim'[m] = IF m \in Claimable THEN Token(w)
                        ELSE IF m \in lapsed THEN NoClaim ELSE claim[m]
      /\ lapsed' = {} /\ window' = [window EXCEPT ![w] = Claimable] /\ task' = task
      /\ \A v \in Worker \ {w} : v \in overran => v \in overran'
  BY DEF ClaimWindow
<1>3. window'[w] = Claimable /\ \A v \in Worker \ {w} : window'[v] = window[v]
  BY <1>0, <1>2 DEF WorkersTyped
<1>4. \A m \in Claimable : m \in Message /\ (claim[m] = NoClaim \/ m \in lapsed)
  BY <1>0, ClaimableTyped DEF Free
<1>5. NoClaim[2] = NoWorker
  BY DEF NoClaim
<1>6. \A m \in Message : claim[m][2] # w
  BY <1>1 DEF Owned
<1>7. ASSUME NEW v \in Worker, v # w, NEW m \in Message
      PROVE  /\ claim'[m][2] = v => claim'[m] = claim[m]
             /\ claim[m][2] = v /\ m \notin lapsed => claim'[m] = claim[m] /\ m \notin lapsed'
  BY <1>1, <1>2, <1>4, <1>5, <1>7, NobodyIsNoWorker
<1>8. \A m \in Message : claim'[m][2] = w => m \in window'[w] /\ claim'[m] = Token(w)'
  BY <1>1, <1>2, <1>3, <1>5, <1>6, NobodyIsNoWorker
<1>9. \A m \in window'[w] : claim'[m] = Token(w)' /\ m \notin lapsed'
  BY <1>1, <1>2, <1>3, <1>4
<1> QED
  BY <1>2, <1>3, <1>7, <1>8, <1>9 DEF OwnClaims

\* Every step of a worker either leaves claims, windows and jobs in hand alone or
\* concerns its own.
LEMMA WorkerClaims ==
  ASSUME TypeOK, Owned, NEW w \in Worker,
         Run(w) \/ JudgeFails(w) \/ CommitFails(w) \/ LeaseLapses(w) \/ Crash(w)
  PROVE  OwnClaims(w) \/ UNCHANGED <<claim, lapsed, window, task, overran>>
<1>0. MessagesTyped /\ WorkersTyped
  BY TypeParts
<1>1. CASE \E j \in Job : TakeJob(w, j)
  <2>1. PICK j \in Job : TakeJob(w, j)
    BY <1>1
  <2>2. window[w] = {} /\ UNCHANGED <<claim, lapsed, window, overran>>
    BY <1>0, <2>1 DEF TakeJob, WorkersTyped, messages, history, process
  <2>3. \A v \in Worker \ {w} : task'[v] = task[v]
    BY <1>0, <2>1 DEF TakeJob, WorkersTyped, process
  <2> QED
    BY <2>2, <2>3, EmptyHanded
<1>2. CASE NextWindow(w) \/ Continue(w)
  BY <1>2 DEF NextWindow, Continue, MoveTo, messages, history
<1>3. CASE ClaimWindow(w)
  BY <1>3, ClaimingOwns
<1>4. CASE Discard(w) \/ Crash(w)
  <2>1. pc[w] # "idle"
    BY <1>4, EndingIsWork DEF Discard, Crash
  <2>2. /\ claim' = Disowned(w) /\ lapsed' = lapsed /\ window' = [window EXCEPT ![w] = {}]
        /\ \A v \in Worker \ {w} : task'[v] = task[v] /\ (v \in overran => v \in overran')
    BY <1>0, <1>4 DEF Discard, Crash, Forget, WorkersTyped
  <2> QED
    BY <2>1, <2>2, GivenBack
<1>5. CASE Decline(w) \/ JudgeFails(w)
  <2>1. /\ pc[w] # "idle" /\ claim' = Freed(Held(w)) /\ lapsed' = lapsed \ Held(w)
        /\ window' = [window EXCEPT ![w] = {}] /\ task' = task /\ overran' = overran
    BY <1>5 DEF Decline, JudgeFails, Released, Drop, history
  <2> QED
    BY <2>1, GivenBack
<1>6. CASE CallJudge(w)
  <2>1. CASE CallGranted(task[w])
    BY <1>6, <2>1 DEF CallJudge, MoveTo
  <2>2. CASE ~CallGranted(task[w])
    <3>1. /\ pc[w] # "idle" /\ claim' = Freed(Held(w)) /\ lapsed' = lapsed \ Held(w)
          /\ window' = [window EXCEPT ![w] = {}] /\ task' = task /\ overran' = overran
      BY <1>6, <2>2 DEF CallJudge, Released, Drop
    <3> QED
      BY <3>1, GivenBack
  <2> QED
    BY <2>1, <2>2
<1>7. CASE Commit(w)
  <2>1. /\ pc[w] # "idle" /\ claim' = Freed(Held(w)) /\ lapsed' = lapsed \ Held(w)
        /\ window' = [window EXCEPT ![w] = {}] /\ task' = task /\ overran' = overran
    BY <1>7, EndingIsWork DEF Commit, WindowHolds
  <2> QED
    BY <2>1, GivenBack
<1>8. CASE WindowLost(w) \/ MeetGate(w) \/ CommitFails(w)
  <2>1. /\ pc[w] # "idle" /\ claim' = Disowned(w) /\ lapsed' = lapsed
        /\ window' = [window EXCEPT ![w] = {}] /\ task' = task /\ overran' = overran
    BY <1>8, EndingIsWork DEF WindowLost, MeetGate, CommitFails, Drop, history
  <2> QED
    BY <2>1, GivenBack
<1>9. CASE Defer(w) \/ Settle(w)
  <2>1. /\ window[w] = {} /\ UNCHANGED <<claim, lapsed>> /\ window' = [window EXCEPT ![w] = {}]
        /\ \A v \in Worker \ {w} : task'[v] = task[v] /\ (v \in overran => v \in overran')
    BY <1>0, <1>9 DEF Defer, Settle, Forget, WorkersTyped, messages
  <2> QED
    BY <2>1, EmptyHanded
<1>10. CASE LeaseLapses(w)
  <2>1. /\ claim' = claim /\ window' = window /\ task' = task /\ lapsed' = lapsed \union Held(w)
        /\ overran' = overran \union {w}
    BY <1>10 DEF LeaseLapses, process
  <2>2. \A m \in Held(w) : claim[m][2] = w
    BY DEF Held, Token
  <2>3. \A m \in Message : claim[m][2] = w => m \in window[w] /\ claim[m] = Token(w)
    BY DEF Owned
  <2>4. Token(w)' = Token(w)
    BY <2>1 DEF Token
  <2> QED
    BY <2>1, <2>2, <2>3, <2>4 DEF OwnClaims
<1> QED
  BY <1>1, <1>2, <1>3, <1>4, <1>5, <1>6, <1>7, <1>8, <1>9, <1>10 DEF Run

\* A recovery tells the workers of the job, as it were, that they are late.
LEMMA RecoveryClaims ==
  ASSUME TypeOK, Owned, Intact, NEW j \in Job, Recover(j)
  PROVE  Owned' /\ Intact'
<1>0. MessagesTyped /\ WorkersTyped
  BY TypeParts
<1>1. /\ claim' = Freed(ClaimsOf(j)) /\ lapsed' = lapsed \ ClaimsOf(j)
      /\ window' = window /\ task' = task /\ \A w : Token(w)' = Token(w)
      /\ overran' = overran \union {w \in Worker : task[w] = j}
  BY DEF Recover, process, Token
<1>2. \A m \in Message : claim'[m] = IF claim[m][1] = j THEN NoClaim ELSE claim[m]
  BY <1>1 DEF Freed, ClaimsOf
<1>3. NoClaim[2] = NoWorker
  BY DEF NoClaim
<1>4. Owned'
  BY <1>1, <1>2, <1>3, NobodyIsNoWorker DEF Owned
<1>5. ASSUME NEW w \in Worker, w \notin overran', NEW m \in window[w]
      PROVE  claim'[m] = Token(w) /\ m \notin lapsed'
  <2>1. w \notin overran /\ task[w] # j /\ m \in Message
    BY <1>0, <1>1, <1>5, Numbers DEF WorkersTyped
  <2>2. claim[m] = Token(w) /\ m \notin lapsed
    BY <1>5, <2>1 DEF Intact
  <2>3. claim[m][1] # j
    BY <2>1, <2>2 DEF Token
  <2> QED
    BY <1>1, <1>2, <2>1, <2>2, <2>3
<1> QED
  BY <1>1, <1>4, <1>5 DEF Intact

\* Claims that nobody holds lapse.
LEMMA AbandonedClaims ==
  ASSUME TypeOK, Owned, Intact, NEW j \in Job, AbandonedLapse(j)
  PROVE  Owned' /\ Intact'
<1>1. /\ claim' = claim /\ lapsed' = lapsed \union Abandoned(j) /\ overran' = overran
      /\ window' = window /\ task' = task /\ \A w : Token(w)' = Token(w)
  BY DEF AbandonedLapse, process, history, Token
<1>2. \A m \in Abandoned(j), w \in Worker : claim[m] # Token(w)
  BY NobodyIsNoWorker DEF Abandoned, Token
<1> QED
  BY <1>1, <1>2 DEF Owned, Intact

LEMMA ClaimsNext == TypeOK /\ TypeOK' /\ Owned /\ Intact /\ [Next]_vars => Owned' /\ Intact'
<1> SUFFICES ASSUME TypeOK, TypeOK', Owned, Intact, [Next]_vars PROVE Owned' /\ Intact'
  OBVIOUS
<1>1. CASE UNCHANGED <<claim, lapsed, window, task, overran>>
  BY <1>1, ClaimsKept
<1>2. ASSUME NEW w \in Worker,
             Run(w) \/ JudgeFails(w) \/ CommitFails(w) \/ LeaseLapses(w) \/ Crash(w)
      PROVE  Owned' /\ Intact'
  <2>1. OwnClaims(w) \/ UNCHANGED <<claim, lapsed, window, task, overran>>
    BY <1>2, WorkerClaims
  <2> QED
    BY <1>1, <2>1, OwnClaimsKeep
<1>3. ASSUME NEW j \in Job, AbandonedLapse(j) \/ RecoverDead(j) \/ RecoverLate(j)
      PROVE  Owned' /\ Intact'
  BY <1>3, AbandonedClaims, RecoveryClaims DEF RecoverDead, RecoverLate
<1>4. ASSUME NEW n, PostBatch(n) PROVE Owned' /\ Intact'
  BY <1>1, <1>4 DEF PostBatch, process, history
<1>5. ASSUME NEW kind, QueueRequested(kind) \/ RequestDies(kind) PROVE Owned' /\ Intact'
  BY <1>1, <1>5 DEF QueueRequested, RequestDies, messages, process, history
<1>6. ASSUME NEW j, RequestCancel(j) PROVE Owned' /\ Intact'
  BY <1>1, <1>6 DEF RequestCancel, messages, process
<1>7. CASE PostMessage \/ CloseSession \/ CloseGate \/ OpenGate
  BY <1>1, <1>7 DEF PostMessage, CloseSession, CloseGate, OpenGate, messages, process, history
<1>8. CASE UNCHANGED vars
  BY <1>1, <1>8 DEF vars, messages, process, history
<1> QED
  BY <1>2, <1>3, <1>4, <1>5, <1>6, <1>7, <1>8 DEF Next

LEMMA ClaimsInit == Init => Owned /\ Intact
  BY NobodyIsNoWorker DEF Init, Owned, Intact, NoClaim

\* Two workers have a message in hand at one time only if one of them let its lease lapse
\* or lost its job (the lease of extract.claim_window).
THEOREM WorkIsNotDuplicated == Spec => []NoDuplicateWork
<1>1. TypeOK /\ Intact => NoDuplicateWork
  <2> SUFFICES ASSUME TypeOK, Intact, NEW v \in Worker, NEW w \in Worker, v # w,
                      NEW m \in window[v] \intersect window[w], v \notin overran, w \notin overran
               PROVE  FALSE
    BY DEF NoDuplicateWork
  <2>1. claim[m] = Token(v) /\ claim[m] = Token(w)
    BY DEF Intact
  <2> QED
    BY <2>1 DEF Token
<1> QED
  BY <1>1, ClaimsInit, ClaimsNext, TypeInit, TypeNext, PTL DEF Spec

-----------------------------------------------------------------------------
(***************************************************************************)
(* ExtractionWindow: nobody forgets a full window                          *)
(***************************************************************************)
\* What Attended says while nothing was given up or deferred.
Calm == ~setback /\ ~deferred

NoneCancelled == \A j \in Job : ~cancelRequested[j]

AtTheirJobs == \A w \in Worker : pc[w] # "failing" /\ (pc[w] # "idle" => Guard(w))

NobodysClaims ==
    \A m \in Message : claim[m] # NoClaim /\ claim[m][2] = NoWorker =>
        \E w \in Worker : pc[w] = "deferring"

LookedAfter ==
    Pending >= WindowSize =>
        \/ owed # {}
        \/ \E j \in Job : status[j] = "queued"
        \/ \E w \in Worker : GoesOn(w)

LEMMA AttendedParts ==
  /\ Attended <=> (Calm => NoneCancelled /\ AtTheirJobs /\ NobodysClaims /\ LookedAfter)
  /\ Attended' <=> (Calm' => NoneCancelled' /\ AtTheirJobs' /\ NobodysClaims' /\ LookedAfter')
  BY DEF Attended, Calm, NoneCancelled, AtTheirJobs, NobodysClaims, LookedAfter

\* Nobody moves, no job changes hands, and no claim changes.
LEMMA AllStay ==
  ASSUME AtTheirJobs, NoneCancelled, NobodysClaims,
         UNCHANGED <<status, holder, cancelRequested, pc, task, claim>>
  PROVE  AtTheirJobs' /\ NoneCancelled' /\ NobodysClaims'
  BY DEF AtTheirJobs, NoneCancelled, NobodysClaims, Guard

LEMMA LookedAfterStays ==
  ASSUME LookedAfter,
         UNCHANGED <<sent, processed, owed, status, windows, pc, task, left>>
  PROVE  LookedAfter'
  BY DEF LookedAfter, GoesOn, Pending, Backlog

\* A worker moves on within its job, and what claims are left to nobody were so before.
LEMMA MovesOn ==
  ASSUME TypeOK, AtTheirJobs, NoneCancelled, NobodysClaims, NEW w \in Worker, NEW stage,
         pc[w] \notin {"idle", "deferring"}, stage # "failing",
         pc' = [pc EXCEPT ![w] = stage],
         UNCHANGED <<status, holder, cancelRequested, task>>,
         \/ stage = "deferring"
         \/ \A m \in Message : claim'[m] # NoClaim /\ claim'[m][2] = NoWorker => claim'[m] = claim[m]
  PROVE  AtTheirJobs' /\ NoneCancelled' /\ NobodysClaims'
<1>1. pc \in [Worker -> Stages]
  BY DEF TypeOK
<1>2. pc'[w] = stage /\ \A v \in Worker \ {w} : pc'[v] = pc[v]
  BY <1>1
<1>3. AtTheirJobs'
  BY <1>2 DEF AtTheirJobs, Guard
<1>4. \A v \in Worker : pc[v] = "deferring" => pc'[v] = "deferring"
  BY <1>2
<1>5. NobodysClaims'
  BY <1>2, <1>4 DEF NobodysClaims
<1> QED
  BY <1>3, <1>5 DEF NoneCancelled

LEMMA WhoGoesOn ==
  ASSUME NEW w \in Worker, GoesOn(w)'
  PROVE  LookedAfter'
  BY DEF LookedAfter

\* A job is queued: no worker runs the job that had its id.
LEMMA QueuedIsSeen ==
  ASSUME TypeOK, AtTheirJobs, NoneCancelled, NEW forced \in BOOLEAN,
         QueueExtraction(status, forced), UNCHANGED <<holder, task>>,
         \A w \in Worker : pc'[w] = pc[w] \/ (pc[w] # "idle" /\ pc'[w] # "failing")
  PROVE  AtTheirJobs' /\ NoneCancelled' /\ LookedAfter'
<1>0. MessagesTyped /\ JobsTyped /\ status \in [Job -> Statuses]
  BY TypeParts DEF JobsTyped
<1>1. /\ NextJob \in Job /\ Fresh(NextJob)
      /\ status' = [status EXCEPT ![NextJob] = "queued"]
      /\ cancelRequested' = [cancelRequested EXCEPT ![NextJob] = FALSE]
  BY <1>0, Queueing
<1>2. \A w \in Worker : task[w] # NextJob
  BY <1>1 DEF Fresh
<1>3. \A w \in Worker : Guard(w) => Guard(w)'
  BY <1>0, <1>1, <1>2 DEF Guard
<1>4. AtTheirJobs'
  BY <1>3 DEF AtTheirJobs
<1>5. NoneCancelled'
  BY <1>0, <1>1 DEF NoneCancelled, JobsTyped
<1>6. status'[NextJob] = "queued"
  BY <1>0, <1>1
<1> QED
  BY <1>1, <1>4, <1>5, <1>6 DEF LookedAfter

\* Requests: what they store, they owe a job for.
LEMMA RequestsAttend ==
  ASSUME TypeOK, Attended, Calm',
         \/ \E n \in 0..MaxMessages : PostBatch(n)
         \/ PostMessage \/ CloseSession
         \/ \E kind \in Requests : QueueRequested(kind) \/ RequestDies(kind)
         \/ \E j \in Job : RequestCancel(j)
  PROVE  NoneCancelled' /\ AtTheirJobs' /\ NobodysClaims' /\ LookedAfter'
<1>1. CASE (\E n \in 0..MaxMessages : PostBatch(n)) \/ PostMessage \/ CloseSession
  <2>1. UNCHANGED <<claim, jobs, process, history>> /\ owed' # {}
    BY <1>1 DEF PostBatch, PostMessage, CloseSession, messages
  <2>2. Calm
    BY <2>1 DEF Calm, history
  <2> QED
    BY <2>1, <2>2, AttendedParts, AllStay DEF jobs, process, LookedAfter
<1>2. ASSUME NEW kind \in Requests, QueueRequested(kind)
      PROVE  NoneCancelled' /\ AtTheirJobs' /\ NobodysClaims' /\ LookedAfter'
  <2>1. /\ UNCHANGED <<sent, processed, claim, holder, pc, task, left, setback, deferred>>
        /\ Calm
    BY <1>2 DEF QueueRequested, messages, process, history, Calm
  <2>2. NobodysClaims'
    BY <2>1, AttendedParts DEF NobodysClaims
  <2>3. CASE kind = "event" /\ Pending < WindowSize
    <3>1. UNCHANGED <<status, cancelRequested>>
      BY <1>2, <2>3 DEF QueueRequested
    <3>2. Pending \in Nat /\ Pending' = Pending
      BY <2>1, TypeParts, Numbers DEF Pending, Backlog
    <3>3. LookedAfter'
      BY <2>3, <3>2, BoundsAreNaturals DEF LookedAfter
    <3> QED
      BY <2>1, <3>1, <3>3, AttendedParts, AllStay
  <2>4. CASE ~(kind = "event" /\ Pending < WindowSize)
    <3>1. QueueExtraction(status, kind # "batch") /\ (kind # "batch") \in BOOLEAN
      BY <1>2, <2>4 DEF QueueRequested
    <3> QED
      BY <2>1, <2>2, <3>1, AttendedParts, QueuedIsSeen
  <2> QED
    BY <2>3, <2>4
<1>3. CASE \/ \E kind \in Requests : RequestDies(kind)
           \/ \E j \in Job : RequestCancel(j)
  BY <1>3 DEF RequestDies, RequestCancel, Calm
<1> QED
  BY <1>1, <1>2, <1>3

\* Time, maintenance and failure.
LEMMA FailuresAttend ==
  ASSUME TypeOK, Attended, Calm',
         \/ \E w \in Worker : JudgeFails(w) \/ CommitFails(w) \/ LeaseLapses(w) \/ Crash(w)
         \/ \E j \in Job : AbandonedLapse(j) \/ RecoverDead(j) \/ RecoverLate(j)
         \/ CloseGate \/ OpenGate
  PROVE  NoneCancelled' /\ AtTheirJobs' /\ NobodysClaims' /\ LookedAfter'
<1>1. CASE \/ \E w \in Worker : JudgeFails(w) \/ CommitFails(w) \/ Crash(w)
           \/ \E j \in Job : RecoverLate(j)
  BY <1>1 DEF JudgeFails, CommitFails, Crash, RecoverLate, Calm
<1>2. CASE \/ \E w \in Worker : LeaseLapses(w)
           \/ \E j \in Job : AbandonedLapse(j)
           \/ CloseGate \/ OpenGate
  <2>1. UNCHANGED <<sent, processed, claim, owed, jobs, process, setback, deferred>>
    BY <1>2 DEF LeaseLapses, AbandonedLapse, CloseGate, OpenGate, messages, history
  <2>2. Calm
    BY <2>1 DEF Calm
  <2> QED
    BY <2>1, <2>2, AttendedParts, AllStay, LookedAfterStays DEF jobs, process
<1>3. ASSUME NEW j \in Job, RecoverDead(j)
      PROVE  NoneCancelled' /\ AtTheirJobs' /\ NobodysClaims' /\ LookedAfter'
  <2>1. /\ status[j] = "running" /\ holder[j] = NoWorker
        /\ status' = [status EXCEPT ![j] = "queued"]
        /\ holder' = [holder EXCEPT ![j] = NoWorker]
        /\ claim' = Freed(ClaimsOf(j))
        /\ UNCHANGED <<cancelRequested, pc, task, setback, deferred>>
    BY <1>3 DEF RecoverDead, Recover, process
  <2>2. status \in [Job -> Statuses] /\ holder \in [Job -> Worker \union {NoWorker}]
    BY DEF TypeOK
  <2>3. NoneCancelled /\ AtTheirJobs /\ NobodysClaims
    BY <2>1, AttendedParts DEF Calm
  <2>4. \A w \in Worker : Guard(w) => task[w] # j
    BY <2>1, NobodyIsNoWorker DEF Guard
  <2>5. \A w \in Worker : Guard(w) => Guard(w)'
    BY <2>1, <2>2, <2>4 DEF Guard
  <2>6. AtTheirJobs' /\ NoneCancelled'
    BY <2>1, <2>3, <2>5 DEF AtTheirJobs, NoneCancelled
  <2>7. NobodysClaims'
    BY <2>1, <2>3 DEF NobodysClaims, Freed
  <2>8. status'[j] = "queued"
    BY <2>1, <2>2
  <2> QED
    BY <2>6, <2>7, <2>8 DEF LookedAfter
<1> QED
  BY <1>1, <1>2, <1>3

\* A claim that finds nothing to take, though a window is full, finds who has it.
LEMMA SomebodyHasIt ==
  ASSUME TypeOK, Owned, NobodysClaims, Claimable = {}, Pending >= WindowSize
  PROVE  \E v \in Worker : pc[v] \in {"claimed", "calling", "deferring"}
<1>0. MessagesTyped /\ WorkersTyped /\ sent \in Nat /\ Pending \in Nat
  BY TypeParts, Numbers
<1>1. Pending > 0
  BY <1>0, BoundsAreNaturals
<1>2. PICK m \in Backlog : TRUE
  BY <1>0, <1>1, PendingTyped
<1>3. m \in Message /\ claim[m] # NoClaim
  BY <1>0, <1>2, ClaimableTyped, Numbers DEF Free
<1>4. claim[m][2] \in Worker \union {NoWorker}
  BY <1>0, <1>3 DEF MessagesTyped, Claims
<1>5. CASE claim[m][2] \in Worker
  <2>1. window[claim[m][2]] # {}
    BY <1>3, <1>5 DEF Owned
  <2> QED
    BY <1>0, <1>5, <2>1 DEF WorkersTyped
<1>6. CASE claim[m][2] = NoWorker
  BY <1>3, <1>6 DEF NobodysClaims
<1> QED
  BY <1>4, <1>5, <1>6

\* extract.claim_window.
LEMMA ClaimingAttends ==
  ASSUME TypeOK, Owned, NoneCancelled, AtTheirJobs, NobodysClaims, NEW w \in Worker, ClaimWindow(w)
  PROVE  NoneCancelled' /\ AtTheirJobs' /\ NobodysClaims' /\ LookedAfter'
<1>0. MessagesTyped /\ JobsTyped /\ WorkersTyped /\ task[w] \in Job
  BY TypeParts DEF WorkersTyped, ClaimWindow
<1>1. PICK stage : stage = IF Claimable = {} THEN "drained" ELSE "claimed"
  OBVIOUS
<1>2. /\ pc[w] = "claiming" /\ pc' = [pc EXCEPT ![w] = stage]
      /\ UNCHANGED <<sent, processed, owed, status, holder, cancelRequested, windows, task, left>>
      /\ \A m \in Message :
            claim'[m] = IF m \in Claimable THEN Token(w)
                        ELSE IF m \in lapsed THEN NoClaim ELSE claim[m]
  BY <1>1 DEF ClaimWindow, jobs
<1>3. Token(w)[2] # NoWorker
  BY NobodyIsNoWorker DEF Token
<1>4. \A m \in Message : claim'[m] # NoClaim /\ claim'[m][2] = NoWorker => claim'[m] = claim[m]
  BY <1>2, <1>3
<1>5. AtTheirJobs' /\ NoneCancelled' /\ NobodysClaims'
  BY <1>1, <1>2, <1>4, MovesOn
<1>6. pc'[w] = stage /\ \A v \in Worker \ {w} : pc'[v] = pc[v]
  BY <1>0, <1>2 DEF WorkersTyped
<1>7. CASE Claimable # {}
  <2>1. GoesOn(w)'
    BY <1>1, <1>6, <1>7 DEF GoesOn
  <2> QED
    BY <1>5, <2>1, WhoGoesOn
<1>8. CASE Claimable = {} /\ Pending >= WindowSize
  <2>1. PICK v \in Worker : pc[v] \in {"claimed", "calling", "deferring"}
    BY <1>8, SomebodyHasIt
  <2>2. GoesOn(v)'
    BY <1>2, <1>6, <2>1 DEF GoesOn
  <2> QED
    BY <1>5, <2>2, WhoGoesOn
<1>9. CASE ~(Pending >= WindowSize)
  <2>1. Pending' = Pending
    BY <1>2 DEF Pending, Backlog
  <2> QED
    BY <1>5, <1>9, <2>1 DEF LookedAfter
<1> QED
  BY <1>7, <1>8, <1>9

\* The last transaction of the handler: a job for what remains, unless what remains is
\* less than a window or this run claimed nothing.
LEMMA ContinuingAttends ==
  ASSUME TypeOK, NoneCancelled, AtTheirJobs, NobodysClaims, LookedAfter,
         NEW w \in Worker, Continue(w)
  PROVE  NoneCancelled' /\ AtTheirJobs' /\ NobodysClaims' /\ LookedAfter'
<1>0. MessagesTyped /\ JobsTyped /\ WorkersTyped /\ task[w] \in Job
  BY TypeParts DEF WorkersTyped, Continue
<1>1. /\ pc[w] \in {"declined", "drained"} /\ pc' = [pc EXCEPT ![w] = "settling"]
      /\ UNCHANGED <<sent, processed, claim, owed, holder, task, left>>
  BY DEF Continue, MoveTo, messages
<1>2. pc'[w] = "settling" /\ \A v \in Worker \ {w} : pc'[v] = pc[v]
  BY <1>0, <1>1 DEF WorkersTyped
<1>3. NobodysClaims'
  BY <1>1, <1>2 DEF NobodysClaims
<1>4. CASE Continues(w)
  <2>1. QueueExtraction(status, force[task[w]]) /\ force[task[w]] \in BOOLEAN
    BY <1>0, <1>4 DEF Continue, JobsTyped
  <2>2. \A v \in Worker : pc'[v] = pc[v] \/ (pc[v] # "idle" /\ pc'[v] # "failing")
    BY <1>1, <1>2
  <2> QED
    BY <1>1, <1>3, <2>1, <2>2, QueuedIsSeen
<1>5. CASE ~Continues(w)
  <2>1. UNCHANGED <<status, windows, cancelRequested>>
    BY <1>5 DEF Continue
  <2>2. AtTheirJobs' /\ NoneCancelled'
    BY <1>1, <1>2, <2>1, MovesOn
  <2>3. Pending' = Pending /\ Pending \in Nat
    BY <1>0, <1>1, Numbers DEF Pending, Backlog
  <2>4. CASE ~(Pending >= WindowSize)
    BY <1>3, <2>2, <2>3, <2>4 DEF LookedAfter
  <2>5. CASE Pending >= WindowSize
    <3>1. Pending >= IF force[task[w]] THEN 1 ELSE WindowSize
      BY <2>3, <2>5, BoundsAreNaturals
    <3>2. ~ClaimedSomething(w)
      BY <1>0, <1>5, <3>1 DEF Continues, NoneCancelled
    <3>3. ~GoesOn(w)
      BY <1>1, <3>2 DEF ClaimedSomething, GoesOn
    <3>4. \A v \in Worker : GoesOn(v) => GoesOn(v)'
      BY <1>1, <1>2, <2>1, <3>3 DEF GoesOn
    <3>5. LookedAfter'
      BY <1>1, <2>1, <2>5, <3>4 DEF LookedAfter
    <3> QED
      BY <1>3, <2>2, <3>5
  <2> QED
    BY <2>4, <2>5
<1> QED
  BY <1>4, <1>5

\* A job is settled: nobody else ran it.
LEMMA SettlingAttends ==
  ASSUME TypeOK, NoneCancelled, AtTheirJobs, NobodysClaims, LookedAfter,
         NEW w \in Worker, Settle(w)
  PROVE  NoneCancelled' /\ AtTheirJobs' /\ NobodysClaims' /\ LookedAfter'
<1>0. WorkersTyped /\ task[w] \in Job /\ status \in [Job -> Statuses]
      /\ holder \in [Job -> Worker \union {NoWorker}]
  BY TypeParts DEF WorkersTyped, JobsTyped, HoldersTyped, Settle
<1>1. /\ pc[w] = "settling" /\ Guard(w)
      /\ status' = [status EXCEPT ![task[w]] = "settled"]
      /\ holder' = [holder EXCEPT ![task[w]] = NoWorker]
      /\ UNCHANGED <<sent, processed, claim, owed, cancelRequested, windows>>
  BY DEF Settle, AtTheirJobs, messages
<1>2. /\ pc'[w] = "idle"
      /\ \A v \in Worker \ {w} : pc'[v] = pc[v] /\ task'[v] = task[v] /\ left'[v] = left[v]
  BY <1>0 DEF Settle, Forget, WorkersTyped
<1>3. \A v \in Worker \ {w} : Guard(v) => task[v] # task[w]
  BY <1>1 DEF Guard
<1>4. \A v \in Worker \ {w} : Guard(v) => Guard(v)'
  BY <1>0, <1>1, <1>2, <1>3 DEF Guard
<1>5. AtTheirJobs' /\ NoneCancelled'
  BY <1>1, <1>2, <1>4 DEF AtTheirJobs, NoneCancelled
<1>6. NobodysClaims'
  BY <1>1, <1>2 DEF NobodysClaims
<1>7. \A v \in Worker : GoesOn(v) => GoesOn(v)'
  BY <1>1, <1>2 DEF GoesOn
<1>8. \A j \in Job : status[j] = "queued" => status'[j] = "queued"
  BY <1>0, <1>1 DEF Guard
<1>9. Pending' = Pending
  BY <1>1 DEF Pending, Backlog
<1> QED
  BY <1>1, <1>5, <1>6, <1>7, <1>8, <1>9 DEF LookedAfter

\* A job that is queued is taken: nobody ran it.
LEMMA TakingAttends ==
  ASSUME TypeOK, NoneCancelled, AtTheirJobs, NobodysClaims,
         NEW w \in Worker, NEW j \in Job, TakeJob(w, j)
  PROVE  NoneCancelled' /\ AtTheirJobs' /\ NobodysClaims' /\ LookedAfter'
<1>0. WorkersTyped /\ status \in [Job -> Statuses] /\ holder \in [Job -> Worker \union {NoWorker}]
  BY TypeParts DEF JobsTyped, HoldersTyped
<1>1. /\ pc[w] = "idle" /\ status[j] = "queued" /\ ~cancelRequested[j]
      /\ status' = [status EXCEPT ![j] = "running"]
      /\ holder' = [holder EXCEPT ![j] = w]
      /\ UNCHANGED <<claim, cancelRequested>>
  BY DEF TakeJob, NoneCancelled, messages
<1>2. /\ pc'[w] = "looping" /\ task'[w] = j
      /\ \A v \in Worker \ {w} : pc'[v] = pc[v] /\ task'[v] = task[v]
  BY <1>0, <1>1 DEF TakeJob, WorkersTyped
<1>3. \A v \in Worker : Guard(v) => task[v] # j
  BY <1>1 DEF Guard
<1>4. \A v \in Worker \ {w} : Guard(v) => Guard(v)'
  BY <1>0, <1>1, <1>2, <1>3 DEF Guard
<1>5. Guard(w)'
  BY <1>0, <1>1, <1>2 DEF Guard
<1>6. AtTheirJobs' /\ NoneCancelled'
  BY <1>1, <1>2, <1>4, <1>5 DEF AtTheirJobs, NoneCancelled
<1>7. NobodysClaims'
  BY <1>1, <1>2 DEF NobodysClaims
<1>8. GoesOn(w)'
  BY <1>2 DEF GoesOn
<1> QED
  BY <1>6, <1>7, <1>8, WhoGoesOn

\* The other steps of a run leave the worker with something to go on with.
LEMMA WindowsAttend ==
  ASSUME TypeOK, NoneCancelled, AtTheirJobs, NobodysClaims, NEW w \in Worker,
         NextWindow(w) \/ Decline(w) \/ CallJudge(w) \/ Commit(w) \/ MeetGate(w), ~setback'
  PROVE  NoneCancelled' /\ AtTheirJobs' /\ NobodysClaims' /\ LookedAfter'
<1>0. MessagesTyped /\ JobsTyped /\ WorkersTyped
  BY TypeParts
<1> DEFINE FewerClaims ==
      \A m \in Message : claim'[m] # NoClaim /\ claim'[m][2] = NoWorker => claim'[m] = claim[m]
<1>1. CASE NextWindow(w)
  <2>1. PICK stage : stage = IF left[w] = 0 \/ cancelRequested[task[w]] THEN "drained" ELSE "claiming"
    OBVIOUS
  <2>2. /\ pc[w] = "looping" /\ pc' = [pc EXCEPT ![w] = stage] /\ FewerClaims
        /\ UNCHANGED <<status, holder, cancelRequested, task, windows, left>>
    BY <1>1, <2>1 DEF NextWindow, MoveTo, messages, jobs
  <2>3. task[w] \in Job /\ windows[task[w]] > 0 /\ pc'[w] = stage
    BY <1>0, <2>2, BoundsAreNaturals DEF WorkersTyped, JobsTyped
  <2>4. stage = "claiming" \/ (stage = "drained" /\ left[w] < windows[task[w]])
    BY <2>1, <2>3 DEF NoneCancelled
  <2>5. GoesOn(w)'
    BY <2>2, <2>3, <2>4 DEF GoesOn
  <2>6. AtTheirJobs' /\ NoneCancelled' /\ NobodysClaims'
    BY <2>2, <2>4, MovesOn
  <2> QED
    BY <2>5, <2>6, WhoGoesOn
<1>2. CASE Decline(w)
  <2>1. /\ pc[w] = "claimed" /\ pc' = [pc EXCEPT ![w] = "declined"] /\ FewerClaims
        /\ UNCHANGED <<status, holder, cancelRequested, task>>
    BY <1>2 DEF Decline, Drop, Freed, jobs
  <2>2. AtTheirJobs' /\ NoneCancelled' /\ NobodysClaims'
    BY <2>1, MovesOn
  <2>3. GoesOn(w)'
    BY <1>0, <2>1 DEF GoesOn, WorkersTyped
  <2> QED
    BY <2>2, <2>3, WhoGoesOn
<1>3. CASE CallJudge(w)
  <2>1. CallGranted(task[w])
    BY <1>3 DEF CallJudge
  <2>2. /\ pc[w] = "claimed" /\ pc' = [pc EXCEPT ![w] = "calling"] /\ FewerClaims
        /\ UNCHANGED <<status, holder, cancelRequested, task>>
    BY <1>3, <2>1 DEF CallJudge, MoveTo
  <2>3. AtTheirJobs' /\ NoneCancelled' /\ NobodysClaims'
    BY <2>2, MovesOn
  <2>4. GoesOn(w)'
    BY <1>0, <2>2 DEF GoesOn, WorkersTyped
  <2> QED
    BY <2>3, <2>4, WhoGoesOn
<1>4. CASE Commit(w)
  <2>1. /\ pc[w] \in {"claimed", "calling"} /\ pc' = [pc EXCEPT ![w] = "looping"] /\ FewerClaims
        /\ UNCHANGED <<status, holder, cancelRequested, task>>
    BY <1>4, EndingIsWork DEF Commit, Freed, jobs
  <2>2. AtTheirJobs' /\ NoneCancelled' /\ NobodysClaims'
    BY <2>1, MovesOn
  <2>3. GoesOn(w)'
    BY <1>0, <2>1 DEF GoesOn, WorkersTyped
  <2> QED
    BY <2>2, <2>3, WhoGoesOn
<1>5. CASE MeetGate(w)
  <2>1. /\ pc[w] \in {"claimed", "calling"} /\ pc' = [pc EXCEPT ![w] = "deferring"]
        /\ UNCHANGED <<status, holder, cancelRequested, task>>
    BY <1>5, EndingIsWork DEF MeetGate, Drop, jobs
  <2>2. AtTheirJobs' /\ NoneCancelled' /\ NobodysClaims'
    BY <2>1, MovesOn
  <2>3. GoesOn(w)'
    BY <1>0, <2>1 DEF GoesOn, WorkersTyped
  <2> QED
    BY <2>2, <2>3, WhoGoesOn
<1> QED
  BY <1>1, <1>2, <1>3, <1>4, <1>5

LEMMA RunsAttend ==
  ASSUME TypeOK, Owned, Attended, Calm', NEW w \in Worker, Run(w)
  PROVE  NoneCancelled' /\ AtTheirJobs' /\ NobodysClaims' /\ LookedAfter'
<1>1. CASE WindowLost(w) \/ Defer(w)
  BY <1>1 DEF WindowLost, Defer, Calm
<1>2. CASE ~(WindowLost(w) \/ Defer(w))
  <2>1. ~setback /\ ~deferred
    <3>1. CASE CallJudge(w)
      BY <3>1 DEF CallJudge, Calm
    <3>2. CASE ~CallJudge(w)
      BY <1>2, <3>2 DEF Run, TakeJob, Discard, NextWindow, ClaimWindow, Decline, Commit, MeetGate,
                        Continue, Settle, Calm, history
    <3> QED
      BY <3>1, <3>2
  <2>2. NoneCancelled /\ AtTheirJobs /\ NobodysClaims /\ LookedAfter /\ ~setback'
    BY <2>1, AttendedParts DEF Calm
  <2>3. ~Discard(w)
    <3>1. Discard(w) => pc[w] # "idle" /\ ~Guard(w)
      BY EndingIsWork DEF Discard
    <3> QED
      BY <2>2, <3>1 DEF AtTheirJobs
  <2> QED
    BY <1>2, <2>2, <2>3, TakingAttends, ClaimingAttends, WindowsAttend, ContinuingAttends,
       SettlingAttends DEF Run
<1> QED
  BY <1>1, <1>2

LEMMA AttendedNext == TypeOK /\ Owned /\ Attended /\ [Next]_vars => Attended'
<1> SUFFICES ASSUME TypeOK, Owned, Attended, [Next]_vars, Calm'
             PROVE  NoneCancelled' /\ AtTheirJobs' /\ NobodysClaims' /\ LookedAfter'
  BY AttendedParts
<1>1. CASE UNCHANGED vars
  <2>1. Calm /\ UNCHANGED <<sent, processed, claim, owed, jobs, process>>
    BY <1>1 DEF vars, messages, history, Calm
  <2> QED
    BY <2>1, AttendedParts, AllStay, LookedAfterStays DEF jobs, process
<1> QED
  BY <1>1, RequestsAttend, RunsAttend, FailuresAttend DEF Next

LEMMA AttendedInit == Init => Attended
<1> SUFFICES ASSUME Init PROVE NoneCancelled /\ AtTheirJobs /\ NobodysClaims /\ LookedAfter
  BY AttendedParts
<1>1. NoneCancelled /\ AtTheirJobs /\ NobodysClaims
  BY DEF Init, NoneCancelled, AtTheirJobs, NobodysClaims
<1>2. Backlog = {}
  BY DEF Init, Backlog
<1>3. Pending = 0
  BY <1>2, FS_EmptySet DEF Pending
<1> QED
  BY <1>1, <1>3, BoundsAreNaturals DEF LookedAfter

\* When nothing is on its way, and no job failed, was cancelled or was deferred, fewer
\* messages than a window holds are left (the continuation of job_runner.py:170-186).
THEOREM FullWindowsAreTaken == Spec => []NoFullWindowWaits
<1>1. TypeOK /\ Attended => NoFullWindowWaits
  <2> SUFFICES ASSUME TypeOK, Attended, Quiet, ~setback, ~deferred PROVE Pending < WindowSize
    BY DEF NoFullWindowWaits
  <2>1. LookedAfter /\ Pending \in Nat
    BY AttendedParts, TypeParts, Numbers DEF Calm
  <2>2. \A w \in Worker : ~GoesOn(w)
    BY DEF Quiet, GoesOn
  <2>3. owed = {} /\ \A j \in Job : status[j] # "queued"
    BY DEF Quiet
  <2> QED
    BY <2>1, <2>2, <2>3, BoundsAreNaturals DEF LookedAfter
<1> QED
  BY <1>1, ClaimsInit, ClaimsNext, AttendedInit, AttendedNext, TypeInit, TypeNext, PTL DEF Spec

-----------------------------------------------------------------------------
(***************************************************************************)
(* Capture: the loop of events_from_delta                                  *)
(***************************************************************************)
\* What Min stands for.
LEMMA LeastIsMin ==
  ASSUME NEW S \in SUBSET Nat, S # {}
  PROVE  Min(S) \in S /\ \A y \in S : Min(S) <= y
<1>1. \E x \in S : \A y \in S : x <= y
  BY LeastElement
<1> QED
  BY <1>1 DEF Min

LoopState == [offset : Nat, consumed : Nat, scanned : Nat, events : SUBSET Nat,
              discarding : BOOLEAN, stop : BOOLEAN]

\* Reading goes on where it was: at the beginning of a line, or inside one that is
\* being discarded.
InStep(s) ==
    /\ s.consumed = s.offset + s.scanned
    /\ s.discarding => s.consumed > 0 /\ ~EndsLine(s.consumed)
    /\ ~s.discarding => s.consumed = 0 \/ EndsLine(s.consumed)

\* What the loop has done when it is at s.
LoopInv(s) ==
    /\ s \in LoopState
    /\ s.scanned <= MaxDelta
    /\ s.consumed <= s.offset + s.scanned
    /\ s.offset + s.scanned <= Len(transcript)
    /\ s.offset = cursor
    /\ ~s.stop => InStep(s)
    /\ AtCut(s.consumed)
    /\ s.events \subseteq 1..s.consumed
    /\ TurnsBefore(s.consumed) \subseteq TurnsBefore(cursor) \union s.events

LEMMA LoopInvOf ==
  ASSUME NEW c \in Nat, NEW n \in Nat, NEW found \in SUBSET (1..c),
         NEW inside \in BOOLEAN, NEW over \in BOOLEAN,
         cursor \in Nat, n <= MaxDelta, c <= cursor + n, cursor + n <= Len(transcript),
         ~over => /\ c = cursor + n
                  /\ inside => c > 0 /\ ~EndsLine(c)
                  /\ ~inside => c = 0 \/ EndsLine(c),
         AtCut(c), TurnsBefore(c) \subseteq TurnsBefore(cursor) \union found
  PROVE  LoopInv([offset |-> cursor, consumed |-> c, scanned |-> n, events |-> found,
                  discarding |-> inside, stop |-> over])
<1> DEFINE s == [offset |-> cursor, consumed |-> c, scanned |-> n, events |-> found,
                 discarding |-> inside, stop |-> over]
<1>1. /\ s.offset = cursor /\ s.consumed = c /\ s.scanned = n /\ s.events = found
      /\ s.discarding = inside /\ s.stop = over /\ s \in LoopState
  BY DEF LoopState
<1> HIDE DEF s
<1>2. ~s.stop => InStep(s)
  BY <1>1 DEF InStep
<1>3. LoopInv(s)
  BY <1>1, <1>2 DEF LoopInv
<1> QED
  BY <1>3 DEF s

LEMMA OpenedInv ==
  ASSUME CaptureTypeOK, Reached(cursor)
  PROVE  LoopInv(Opened)
<1>1. cursor \in Nat /\ Len(transcript) \in Nat /\ cursor <= Len(transcript) /\ AtCut(cursor)
  BY CaptureAssumption DEF CaptureTypeOK, Reached
<1>2. Opened = [offset |-> cursor, consumed |-> cursor, scanned |-> 0, events |-> {},
                discarding |-> cursor > 0 /\ ~EndsLine(cursor), stop |-> FALSE]
  <2>1. ~(cursor > Len(transcript))
    BY <1>1
  <2> QED
    BY <2>1, Zenon DEF Opened
<1>3. PICK inside \in BOOLEAN : inside <=> cursor > 0 /\ ~EndsLine(cursor)
  OBVIOUS
<1>4. Opened = [offset |-> cursor, consumed |-> cursor, scanned |-> 0, events |-> {},
                discarding |-> inside, stop |-> FALSE]
  <2>1. inside = (cursor > 0 /\ ~EndsLine(cursor))
    BY <1>3
  <2> QED
    BY <1>2, <2>1, Zenon
<1>5. MaxDelta \in Nat
  BY CaptureAssumption
<1>6. /\ 0 \in Nat /\ 0 <= MaxDelta /\ cursor <= cursor + 0 /\ cursor + 0 <= Len(transcript)
      /\ cursor = cursor + 0 /\ {} \in SUBSET (1..cursor) /\ FALSE \in BOOLEAN
      /\ TurnsBefore(cursor) \subseteq TurnsBefore(cursor) \union {}
  BY <1>1, <1>5
<1>7. /\ inside => cursor > 0 /\ ~EndsLine(cursor)
      /\ ~inside => cursor = 0 \/ EndsLine(cursor)
  BY <1>1, <1>3
<1>8. LoopInv([offset |-> cursor, consumed |-> cursor, scanned |-> 0, events |-> {},
               discarding |-> inside, stop |-> FALSE])
  BY <1>1, <1>6, <1>7, LoopInvOf
<1> QED
  BY <1>4, <1>8

\* A turn of the loop: the end of what it reads.
End(s) ==
    Min({p \in s.offset + s.scanned + 1 .. Len(transcript) : EndsLine(p)}
        \union {s.offset + s.scanned + MaxDelta - s.scanned, Len(transcript)})

LEMMA EndIs ==
  ASSUME CaptureTypeOK, NEW s, LoopInv(s)
  PROVE  /\ End(s) \in Nat /\ s.offset + s.scanned <= End(s) /\ End(s) <= Len(transcript)
         /\ End(s) - s.offset <= MaxDelta
         /\ \A p \in s.offset + s.scanned + 1 .. End(s) - 1 : ~EndsLine(p)
         /\ \/ s.offset + s.scanned < End(s) /\ EndsLine(End(s))
            \/ End(s) = Len(transcript)
            \/ End(s) - s.offset = MaxDelta
<1> DEFINE here == s.offset + s.scanned
           lines == {p \in here + 1 .. Len(transcript) : EndsLine(p)}
           limit == {here + MaxDelta - s.scanned, Len(transcript)}
<1>1. /\ s.offset \in Nat /\ s.scanned \in Nat /\ s.scanned <= MaxDelta
      /\ MaxDelta \in Nat /\ Len(transcript) \in Nat /\ here <= Len(transcript)
  BY CaptureAssumption DEF LoopInv, LoopState, CaptureTypeOK
<1>2. here + MaxDelta - s.scanned = s.offset + MaxDelta /\ s.offset + MaxDelta >= here
  BY <1>1
<1>3. lines \union limit \in SUBSET Nat /\ lines \union limit # {}
  BY <1>1, <1>2
<1>4. End(s) \in lines \union limit /\ \A y \in lines \union limit : End(s) <= y
  BY <1>3, LeastIsMin DEF End
<1> HIDE DEF lines, limit
<1>5. End(s) \in Nat /\ End(s) <= Len(transcript) /\ End(s) <= s.offset + MaxDelta
  BY <1>1, <1>2, <1>3, <1>4 DEF limit
<1>6. here <= End(s)
  BY <1>1, <1>2, <1>4 DEF limit, lines
<1>7. ASSUME NEW p \in here + 1 .. End(s) - 1, EndsLine(p)
      PROVE  FALSE
  <2>1. p \in lines
    BY <1>1, <1>5, <1>7 DEF lines
  <2>2. p \in Nat /\ p < End(s)
    BY <1>1, <1>5
  <2> QED
    BY <1>4, <2>1, <2>2, <1>5
<1>8. \/ here < End(s) /\ EndsLine(End(s))
      \/ End(s) = Len(transcript)
      \/ End(s) - s.offset = MaxDelta
  BY <1>1, <1>2, <1>4, <1>5 DEF lines, limit
<1> QED
  BY <1>1, <1>5, <1>6, <1>7, <1>8

LEMMA ReadlineIs ==
  ASSUME CaptureTypeOK, NEW s, LoopInv(s)
  PROVE  Readline(s) =
           LET here == s.offset + s.scanned
               read == [s EXCEPT !.scanned = @ + End(s) - here]
           IN  IF End(s) = here THEN [s EXCEPT !.stop = TRUE]
               ELSE IF s.discarding
               THEN [read EXCEPT !.consumed = End(s), !.discarding = ~EndsLine(End(s))]
               ELSE IF EndsLine(End(s))
               THEN [read EXCEPT !.consumed = End(s),
                                 !.events = @ \union {p \in {End(s)} : transcript[p] = "turn"}]
               ELSE [read EXCEPT !.stop = TRUE,
                                 !.consumed = IF End(s) - here = MaxDelta THEN End(s) ELSE s.consumed]
  BY DEF Readline, End, TooLong

\* A position that was reached by reading on from a position at which reading could go on.
LEMMA CutFurther ==
  ASSUME CaptureTypeOK, NEW c \in Nat, NEW e \in Nat, c < e, e <= Len(transcript),
         AtCut(c), \A p \in c + 1 .. e - 1 : ~EndsLine(p),
         c > 0 /\ ~EndsLine(c)
  PROVE  AtCut(e) /\ TurnsBefore(e) = TurnsBefore(c)
<1>1. MaxDelta \in Nat /\ Len(transcript) \in Nat
  BY CaptureAssumption DEF CaptureTypeOK
<1>2. ASSUME NEW d \in Nat, c < d, d <= e, NEW q \in 1..d,
             q = 1 \/ EndsLine(q - 1), \A i \in q..(d - 1) : ~EndsLine(i)
      PROVE  q \in 1..c /\ d - q >= MaxDelta
  <2>1. q <= c
    <3>1. SUFFICES ASSUME q > c PROVE FALSE
      OBVIOUS
    <3>2. q # 1 /\ EndsLine(q - 1)
      BY <1>2, <3>1
    <3>3. q - 1 = c \/ q - 1 \in c + 1 .. e - 1
      BY <1>2, <3>1
    <3> QED
      BY <3>2, <3>3
  <2>2. \A i \in q..c : ~EndsLine(i)
    BY <1>2
  <2>3. c - q >= MaxDelta - 1
    BY <1>2, <2>1, <2>2 DEF AtCut
  <2> QED
    BY <1>1, <1>2, <2>1, <2>3
<1>3. AtCut(e)
  <2> SUFFICES ASSUME NEW q \in 1..e, q = 1 \/ EndsLine(q - 1), \A i \in q..e : ~EndsLine(i)
               PROVE  e - q >= MaxDelta - 1
    BY DEF AtCut
  <2>1. \A i \in q..(e - 1) : ~EndsLine(i)
    OBVIOUS
  <2>2. e - q >= MaxDelta
    <3>1. e \in Nat /\ c < e /\ e <= e
      OBVIOUS
    <3> QED
      BY <1>2, <2>1, <3>1
  <2> QED
    BY <1>1, <2>2
<1>4. ASSUME NEW p \in TurnsBefore(e), p \notin TurnsBefore(c)
      PROVE  FALSE
  <2>1. p \in Nat /\ p <= e /\ c < p
    BY <1>1, <1>4 DEF TurnsBefore
  <2>2. PICK q \in 1..p : p - q < MaxDelta /\ (q = 1 \/ EndsLine(q - 1))
                          /\ \A i \in q..(p - 1) : ~EndsLine(i)
    BY DEF TurnsBefore
  <2> QED
    BY <1>1, <1>2, <2>1, <2>2
<1>5. TurnsBefore(c) \subseteq TurnsBefore(e)
  BY <1>1 DEF TurnsBefore
<1> QED
  BY <1>3, <1>4, <1>5

\* The same from the beginning of a line.
LEMMA CutLine ==
  ASSUME CaptureTypeOK, NEW c \in Nat, NEW e \in Nat, c < e, e <= Len(transcript),
         \A p \in c + 1 .. e - 1 : ~EndsLine(p),
         c = 0 \/ EndsLine(c)
  PROVE  /\ EndsLine(e) \/ e - c >= MaxDelta => AtCut(e)
         /\ TurnsBefore(e) \subseteq TurnsBefore(c) \union {p \in {e} : transcript[p] = "turn"}
<1>1. MaxDelta \in Nat /\ Len(transcript) \in Nat
  BY CaptureAssumption DEF CaptureTypeOK
<1>2. ASSUME EndsLine(e)
      PROVE  AtCut(e)
  BY <1>2 DEF AtCut
<1>3. ASSUME e - c >= MaxDelta
      PROVE  AtCut(e)
  <2> SUFFICES ASSUME NEW q \in 1..e, \A i \in q..e : ~EndsLine(i), q = 1 \/ EndsLine(q - 1)
               PROVE  e - q >= MaxDelta - 1
    BY DEF AtCut
  <2>1. q <= c + 1
    <3>1. SUFFICES ASSUME q > c + 1 PROVE FALSE
      OBVIOUS
    <3>2. q # 1 /\ q - 1 \in c + 1 .. e - 1
      BY <3>1
    <3> QED
      BY <3>2
  <2> QED
    BY <1>1, <1>3, <2>1
<1>4. ASSUME NEW p \in TurnsBefore(e), p \notin TurnsBefore(c)
      PROVE  p = e /\ transcript[p] = "turn"
  <2>1. p \in Nat /\ p <= e /\ c < p /\ transcript[p] = "turn"
    BY <1>1, <1>4 DEF TurnsBefore
  <2>2. EndsLine(p)
    BY <2>1 DEF EndsLine
  <2> QED
    BY <2>1, <2>2
<1> QED
  BY <1>2, <1>3, <1>4

LEMMA ReadlineInv ==
  ASSUME CaptureTypeOK, NEW s, LoopInv(s), ~s.stop
  PROVE  LoopInv(Readline(s))
<1> DEFINE here == s.offset + s.scanned
           e == End(s)
<1>1. /\ s \in LoopState /\ s.scanned <= MaxDelta /\ s.consumed = here
      /\ here <= Len(transcript) /\ s.offset = cursor /\ AtCut(s.consumed)
      /\ s.events \subseteq 1..s.consumed
      /\ TurnsBefore(s.consumed) \subseteq TurnsBefore(cursor) \union s.events
      /\ InStep(s)
  BY DEF LoopInv, InStep
<1>2. /\ MaxDelta \in Nat /\ Len(transcript) \in Nat
      /\ s.offset \in Nat /\ s.scanned \in Nat /\ here \in Nat /\ s.stop = FALSE
  BY <1>1, CaptureAssumption DEF CaptureTypeOK, LoopState
<1>3. /\ e \in Nat /\ here <= e /\ e <= Len(transcript) /\ e - cursor <= MaxDelta
      /\ \A p \in here + 1 .. e - 1 : ~EndsLine(p)
  BY <1>1, EndIs
<1> HIDE DEF e
<1>4. CASE e = here
  <2>1. Readline(s) = [s EXCEPT !.stop = TRUE]
    BY <1>4, ReadlineIs DEF e
  <2> QED
    BY <1>1, <1>2, <2>1 DEF LoopInv, LoopState
<1>5. CASE e # here /\ s.discarding
  <2> DEFINE part == ~EndsLine(e)
  <2>1. Readline(s) = [s EXCEPT !.scanned = @ + e - here, !.consumed = e, !.discarding = part]
    BY <1>5, <1>1, ReadlineIs DEF e, LoopState
  <2>2. AtCut(e) /\ TurnsBefore(e) = TurnsBefore(here)
    <3>1. here > 0 /\ ~EndsLine(here) /\ AtCut(here)
      BY <1>1, <1>5 DEF InStep
    <3> QED
      BY <1>2, <1>3, <1>5, <3>1, CutFurther
  <2>3. s.scanned + e - here = e - cursor /\ e - cursor \in Nat /\ cursor + (e - cursor) = e /\ e > 0
    BY <1>1, <1>2, <1>3, <1>5
  <2>4. part \in BOOLEAN /\ (part => e > 0 /\ ~EndsLine(e)) /\ (~part => EndsLine(e))
    BY <2>3 DEF EndsLine
  <2>5. s.events \subseteq 1..e
    BY <1>1, <1>2, <1>3
  <2> HIDE DEF part
  <2>6. Readline(s) = [offset |-> cursor, consumed |-> e, scanned |-> e - cursor,
                       events |-> s.events, discarding |-> part, stop |-> FALSE]
    BY <1>1, <1>2, <2>1, <2>3 DEF LoopState
  <2>7. TurnsBefore(e) \subseteq TurnsBefore(cursor) \union s.events
    BY <1>1, <2>2
  <2>8. cursor \in Nat /\ e <= e /\ s.events \in SUBSET (1..e) /\ FALSE \in BOOLEAN
    BY <1>1, <1>2, <1>3, <2>5
  <2> QED
    BY <1>3, <2>2, <2>3, <2>4, <2>6, <2>7, <2>8, LoopInvOf
<1>6. CASE e # here /\ ~s.discarding
  <2>1. here = 0 \/ EndsLine(here)
    BY <1>1, <1>6 DEF InStep
  <2>2. /\ EndsLine(e) \/ e - here >= MaxDelta => AtCut(e)
        /\ TurnsBefore(e) \subseteq TurnsBefore(here) \union {p \in {e} : transcript[p] = "turn"}
    BY <1>2, <1>3, <1>6, <2>1, CutLine
  <2>3. s.scanned + e - here = e - cursor /\ e - cursor \in Nat /\ cursor + (e - cursor) = e /\ e > 0
    BY <1>1, <1>2, <1>3, <1>6
  <2>4. s.events \subseteq 1..e
    BY <1>1, <1>2, <1>3
  <2>5. CASE EndsLine(e)
    <3> DEFINE found == {p \in {e} : transcript[p] = "turn"}
    <3>1. Readline(s) = [s EXCEPT !.scanned = @ + e - here, !.consumed = e,
                                  !.events = @ \union found]
      BY <1>6, <1>1, <2>5, ReadlineIs DEF e, LoopState
    <3>2. s.events \union found \subseteq 1..e /\ found \subseteq Nat
      BY <1>3, <2>3, <2>4
    <3>3. TurnsBefore(e) \subseteq TurnsBefore(cursor) \union (s.events \union found)
      BY <1>1, <2>2
    <3> HIDE DEF found
    <3>4. Readline(s) = [offset |-> cursor, consumed |-> e, scanned |-> e - cursor,
                         events |-> s.events \union found, discarding |-> FALSE,
                         stop |-> FALSE]
      BY <1>1, <1>2, <1>6, <2>3, <3>1 DEF LoopState
    <3>5. /\ cursor \in Nat /\ e <= e /\ s.events \union found \in SUBSET (1..e)
          /\ FALSE \in BOOLEAN /\ AtCut(e)
      BY <1>1, <1>2, <1>3, <2>2, <2>5, <3>2
    <3> QED
      BY <1>3, <2>3, <2>5, <3>3, <3>4, <3>5, LoopInvOf
  <2>6. CASE ~EndsLine(e)
    <3> DEFINE c == IF e - here = MaxDelta THEN e ELSE s.consumed
    <3>1. Readline(s) = [s EXCEPT !.scanned = @ + e - here, !.stop = TRUE, !.consumed = c]
      BY <1>6, <1>1, <2>6, ReadlineIs DEF e, LoopState
    <3>2. transcript[e] = "part"
      BY <2>6 DEF EndsLine
    <3>3. /\ c \in Nat /\ c <= e /\ AtCut(c) /\ s.events \subseteq 1..c
          /\ TurnsBefore(c) \subseteq TurnsBefore(cursor) \union s.events
      BY <1>1, <1>2, <1>3, <2>2, <2>4, <3>2
    <3> HIDE DEF c
    <3>4. Readline(s) = [offset |-> cursor, consumed |-> c, scanned |-> e - cursor,
                         events |-> s.events, discarding |-> FALSE, stop |-> TRUE]
      BY <1>1, <1>2, <1>6, <2>3, <3>1 DEF LoopState
    <3> QED
      BY <1>1, <1>2, <1>3, <2>3, <3>3, <3>4, LoopInvOf
  <2> QED
    BY <2>5, <2>6
<1> QED
  BY <1>4, <1>5, <1>6

-----------------------------------------------------------------------------
\* A recursive function of this form exists: the least length at which it did not would
\* be reached from the one before.
TurnsUpTo(n, f) ==
    f = [i \in 0..n |-> IF i = 0 THEN Opened
                        ELSE IF Again(f[i - 1]) THEN Readline(f[i - 1]) ELSE f[i - 1]]

LEMMA TurnsExist ==
  ASSUME NEW n \in Nat
  PROVE  \E f : TurnsUpTo(n, f)
<1> DEFINE Missing == {k \in Nat : ~\E f : TurnsUpTo(k, f)}
<1> SUFFICES ASSUME Missing # {} PROVE FALSE
  OBVIOUS
<1>1. PICK k \in Missing : \A j \in Missing : k <= j
  BY LeastElement
<1>2. k # 0
  <2>1. TurnsUpTo(0, [i \in 0..0 |-> Opened])
    BY DEF TurnsUpTo
  <2> QED
    BY <1>1, <2>1
<1>3. PICK f : TurnsUpTo(k - 1, f)
  BY <1>1, <1>2
<1> DEFINE last == IF Again(f[k - 1]) THEN Readline(f[k - 1]) ELSE f[k - 1]
           g == [i \in 0..k |-> IF i = k THEN last ELSE f[i]]
<1>4. \A i \in 0..k : g[i] = IF i = 0 THEN Opened
                             ELSE IF Again(g[i - 1]) THEN Readline(g[i - 1]) ELSE g[i - 1]
  <2> TAKE i \in 0..k
  <2>1. CASE i = k
    <3>1. g[i] = last /\ g[i - 1] = f[k - 1]
      BY <1>1, <1>2, <2>1
    <3> QED
      BY <1>2, <2>1, <3>1
  <2>2. CASE i # k
    <3>1. i \in 0..k - 1 /\ g[i] = f[i] /\ (i # 0 => g[i - 1] = f[i - 1])
      BY <1>1, <1>2, <2>2
    <3>2. f[i] = IF i = 0 THEN Opened
                 ELSE IF Again(f[i - 1]) THEN Readline(f[i - 1]) ELSE f[i - 1]
      BY <1>3, <3>1 DEF TurnsUpTo
    <3> QED
      BY <3>1, <3>2
  <2> QED
    BY <2>1, <2>2
<1>5. g = [i \in 0..k |-> IF i = 0 THEN Opened
                          ELSE IF Again(g[i - 1]) THEN Readline(g[i - 1]) ELSE g[i - 1]]
  <2> DEFINE h == [i \in 0..k |-> IF i = 0 THEN Opened
                          ELSE IF Again(g[i - 1]) THEN Readline(g[i - 1]) ELSE g[i - 1]]
  <2>1. g = [i \in 0..k |-> g[i]] /\ \A i \in 0..k : g[i] = h[i]
    BY <1>4
  <2> QED
    BY <2>1
<1>6. TurnsUpTo(k, g)
  BY <1>5 DEF TurnsUpTo
<1> QED
  BY <1>1, <1>6

LEMMA TurnsUnfold ==
  /\ Turns[0] = Opened
  /\ \A i \in 1..MaxDelta :
        Turns[i] = IF Again(Turns[i - 1]) THEN Readline(Turns[i - 1]) ELSE Turns[i - 1]
<1>1. MaxDelta \in Nat
  BY CaptureAssumption
<1>2. \E f : TurnsUpTo(MaxDelta, f)
  BY <1>1, TurnsExist
<1>3. Turns = CHOOSE f : TurnsUpTo(MaxDelta, f)
  BY Zenon DEF Turns, TurnsUpTo
<1>4. TurnsUpTo(MaxDelta, Turns)
  BY <1>2, <1>3
<1> QED
  BY <1>1, <1>4 DEF TurnsUpTo

\* events_from_delta: what a piece leaves behind.
LEMMA DeltaInv ==
  ASSUME CaptureTypeOK, Reached(cursor)
  PROVE  LoopInv(Delta)
<1> DEFINE Wrong == {i \in 0..MaxDelta : ~LoopInv(Turns[i])}
<1>1. MaxDelta \in Nat
  BY CaptureAssumption
<1>2. Wrong = {}
  <2>1. SUFFICES ASSUME Wrong # {} PROVE FALSE
    OBVIOUS
  <2>2. Wrong \in SUBSET Nat
    BY <1>1
  <2> HIDE DEF Wrong
  <2>3. PICK i \in Wrong : \A j \in Wrong : i <= j
    BY <2>1, <2>2, LeastElement
  <2> USE DEF Wrong
  <2>4. i \in 0..MaxDelta /\ ~LoopInv(Turns[i])
    OBVIOUS
  <2>5. i # 0
    BY <2>4, OpenedInv, TurnsUnfold
  <2>6. i - 1 \in 0..MaxDelta /\ i \in 1..MaxDelta /\ ~(i <= i - 1)
    BY <1>1, <2>4, <2>5
  <2>7. LoopInv(Turns[i - 1])
    BY <2>3, <2>6
  <2>8. LoopInv(Turns[i])
    BY <2>6, <2>7, TurnsUnfold, ReadlineInv DEF Again
  <2> QED
    BY <2>4, <2>8
<1>3. MaxDelta \in 0..MaxDelta
  BY <1>1
<1> QED
  BY <1>2, <1>3 DEF Delta

\* What the next state of a hook depends on.
LEMMA DeltaReached ==
  ASSUME CaptureTypeOK, Reached(cursor)
  PROVE  /\ Delta.events \in SUBSET Position /\ Delta.consumed \in 0..MaxSize
         /\ Reached(Delta.consumed)
         /\ TurnsBefore(Delta.consumed) \subseteq TurnsBefore(cursor) \union Delta.events
<1>1. LoopInv(Delta)
  BY DeltaInv
<1>2. MaxSize \in Nat /\ Len(transcript) \in Nat /\ Len(transcript) <= MaxSize
  BY CaptureAssumption DEF CaptureTypeOK
<1>3. Delta.consumed \in Nat /\ Delta.consumed <= Len(transcript)
  BY <1>1, <1>2 DEF LoopInv, LoopState
<1>4. Delta.events \subseteq 1..Delta.consumed
  BY <1>1 DEF LoopInv
<1>5. Delta.events \subseteq Position
  BY <1>2, <1>3, <1>4 DEF Position
<1> QED
  BY <1>1, <1>2, <1>3, <1>5 DEF LoopInv, Reached

\* The loop never goes back.
LEMMA ReadlineGrows ==
  ASSUME CaptureTypeOK, NEW s, LoopInv(s), ~s.stop
  PROVE  Readline(s).consumed >= s.consumed
<1> DEFINE here == s.offset + s.scanned
<1>1. /\ s \in LoopState /\ s.consumed = here /\ here \in Nat /\ End(s) \in Nat
      /\ here <= End(s)
  BY EndIs DEF LoopInv, LoopState, InStep
<1>2. Readline(s).consumed \in {s.consumed, End(s)}
  BY <1>1, ReadlineIs DEF LoopState
<1> QED
  BY <1>1, <1>2

\* What its first turn has taken stays taken.
LEMMA TurnsGrow ==
  ASSUME CaptureTypeOK, Reached(cursor)
  PROVE  Delta.consumed >= Turns[1].consumed
<1> DEFINE Good(i) == LoopInv(Turns[i]) /\ Turns[i].consumed >= Turns[1].consumed
           Wrong == {i \in 1..MaxDelta : ~Good(i)}
<1>1. MaxDelta \in Nat /\ MaxDelta >= 1 /\ 1 \in 1..MaxDelta
  BY CaptureAssumption
<1>2. Good(1)
  <2>1. LoopInv(Turns[0])
    BY OpenedInv, TurnsUnfold
  <2>2. Turns[1] = IF Again(Turns[0]) THEN Readline(Turns[0]) ELSE Turns[0]
    BY <1>1, TurnsUnfold
  <2>3. LoopInv(Turns[1])
    BY <2>1, <2>2, ReadlineInv DEF Again
  <2>4. Turns[1].consumed \in Nat
    BY <2>3 DEF LoopInv, LoopState
  <2> QED
    BY <2>3, <2>4
<1> HIDE DEF Good
<1>3. Wrong = {}
  <2>1. SUFFICES ASSUME Wrong # {} PROVE FALSE
    OBVIOUS
  <2>2. Wrong \in SUBSET Nat
    BY <1>1
  <2> HIDE DEF Wrong
  <2>3. PICK i \in Wrong : \A j \in Wrong : i <= j
    BY <2>1, <2>2, LeastElement
  <2> USE DEF Wrong
  <2>4. i \in 1..MaxDelta /\ ~Good(i) /\ i # 1
    BY <1>2
  <2>5. i - 1 \in 1..MaxDelta /\ ~(i <= i - 1)
    BY <1>1, <2>4
  <2>6. Good(i - 1)
    BY <2>3, <2>5
  <2>7. Turns[i] = IF Again(Turns[i - 1]) THEN Readline(Turns[i - 1]) ELSE Turns[i - 1]
    BY <2>4, TurnsUnfold
  <2>8. LoopInv(Turns[i - 1]) /\ Turns[i - 1].consumed >= Turns[1].consumed
    BY <2>6 DEF Good
  <2>9. LoopInv(Turns[i]) /\ Turns[i].consumed >= Turns[i - 1].consumed
    <3>1. CASE Again(Turns[i - 1])
      BY <2>7, <2>8, <3>1, ReadlineInv, ReadlineGrows DEF Again
    <3>2. CASE ~Again(Turns[i - 1])
      <4>1. Turns[i - 1].consumed \in Nat
        BY <2>8 DEF LoopInv, LoopState
      <4> QED
        BY <2>7, <2>8, <3>2, <4>1
    <3> QED
      BY <3>1, <3>2
  <2>10. Turns[i].consumed \in Nat /\ Turns[i - 1].consumed \in Nat /\ Turns[1].consumed \in Nat
    BY <1>2, <2>8, <2>9 DEF Good, LoopInv, LoopState
  <2> QED
    BY <2>4, <2>8, <2>9, <2>10 DEF Good
<1>4. Good(MaxDelta)
  BY <1>1, <1>3
<1> QED
  BY <1>4 DEF Good, Delta

\* A piece that takes nothing has met an unfinished line, or nothing.
LEMMA DeltaGoesOn ==
  ASSUME CaptureTypeOK, Reached(cursor)
  PROVE  OnlyTailsWait
<1> SUFFICES ASSUME Delta.consumed = cursor, cursor < Len(transcript)
             PROVE  /\ cursor = 0 \/ EndsLine(cursor)
                    /\ \A p \in cursor + 1 .. Len(transcript) : ~EndsLine(p)
                    /\ Len(transcript) - cursor < MaxDelta
  BY DEF OnlyTailsWait
<1> DEFINE e == End(Opened)
<1>1. LoopInv(Opened)
  BY OpenedInv
<1>2. /\ cursor \in Nat /\ Len(transcript) \in Nat
      /\ MaxDelta \in Nat /\ MaxDelta > 0 /\ MaxEvents \in Nat /\ MaxEvents > 0
  BY CaptureAssumption DEF CaptureTypeOK
<1>3. /\ Opened.offset = cursor /\ Opened.scanned = 0 /\ Opened.consumed = cursor
      /\ Opened.events = {} /\ Opened.stop = FALSE
      /\ Opened \in LoopState
  BY <1>1, <1>2 DEF Opened, LoopInv
<1>4. Again(Opened)
  BY <1>2, <1>3, FS_EmptySet DEF Again
<1>5. Turns[1] = Readline(Opened)
  BY <1>2, <1>4, TurnsUnfold
<1>6. Readline(Opened).consumed = cursor
  <2>1. Turns[1].consumed <= cursor
    BY TurnsGrow
  <2>2. Readline(Opened).consumed >= cursor /\ LoopInv(Readline(Opened))
    BY <1>1, <1>3, ReadlineGrows, ReadlineInv
  <2>3. Readline(Opened).consumed \in Nat
    BY <2>2 DEF LoopInv, LoopState
  <2> QED
    BY <1>2, <1>5, <2>1, <2>2, <2>3
<1>7. /\ e \in Nat /\ cursor <= e /\ e <= Len(transcript) /\ e - cursor <= MaxDelta
      /\ \A p \in cursor + 1 .. e - 1 : ~EndsLine(p)
      /\ \/ cursor < e /\ EndsLine(e)
         \/ e = Len(transcript)
         \/ e - cursor = MaxDelta
  <2>1. Opened.offset + Opened.scanned = cursor
    BY <1>2, <1>3
  <2> QED
    BY <1>1, <1>3, <2>1, EndIs
<1>8. e # cursor
  BY <1>2, <1>7
<1>9. Readline(Opened) =
        LET read == [Opened EXCEPT !.scanned = @ + e - cursor]
        IN  IF Opened.discarding
            THEN [read EXCEPT !.consumed = e, !.discarding = ~EndsLine(e)]
            ELSE IF EndsLine(e)
            THEN [read EXCEPT !.consumed = e,
                              !.events = @ \union {p \in {e} : transcript[p] = "turn"}]
            ELSE [read EXCEPT !.stop = TRUE,
                              !.consumed = IF e - cursor = MaxDelta THEN e ELSE Opened.consumed]
  <2>1. Opened.offset + Opened.scanned = cursor
    BY <1>2, <1>3
  <2> QED
    BY <1>1, <1>8, <2>1, ReadlineIs
<1> HIDE DEF e
<1>10. ~Opened.discarding /\ ~EndsLine(e) /\ e - cursor # MaxDelta
  BY <1>3, <1>6, <1>8, <1>9 DEF LoopState
<1>11. e = Len(transcript)
  BY <1>7, <1>10
<1>12. cursor = 0 \/ EndsLine(cursor)
  BY <1>1, <1>3, <1>10 DEF LoopInv, InStep
<1>13. \A p \in cursor + 1 .. Len(transcript) : ~EndsLine(p)
  BY <1>2, <1>7, <1>10, <1>11
<1> QED
  BY <1>2, <1>7, <1>10, <1>11, <1>12, <1>13

-----------------------------------------------------------------------------
(***************************************************************************)
(* Capture: types                                                          *)
(***************************************************************************)
HookState == [pc : {"idle", "read", "send", "resend", "write", "close"}, close : BOOLEAN,
              scope : Scope, previous : 0..MaxSize, offset : 0..MaxSize,
              request : BatchRequest]

LEMMA RecordsTyped ==
  ASSUME CaptureTypeOK
  PROVE  /\ Nothing \in BatchRequest /\ Idle \in HookState
         /\ \A events \in SUBSET Position, scope \in Scope : Batch(events, scope) \in BatchRequest
<1>1. 0 \in 0..MaxSize
  BY CaptureAssumption
<1>2. Nothing \in BatchRequest
  BY DEF Nothing, BatchRequest, Scope
<1> QED
  BY <1>1, <1>2 DEF Idle, HookState, Batch, BatchRequest, Scope, CaptureTypeOK

\* The service: a session that there is stays where it is, and one that a request names the
\* scope of is made there.
LEMMA AnswerTyped ==
  ASSUME CaptureTypeOK, NEW r \in BatchRequest, NEW answer, Answer(r, answer)
  PROVE  /\ rows' \in [Position -> 0..1] /\ session' \in Scope \union {"none"}
         /\ Stored \subseteq Stored'
         /\ answer = "stored" => Stored' = Stored \union r.events
         /\ r.scope = "shared" => session' \in {session, "shared"}
<1>0. r.events \subseteq Position /\ r.scope \in Scope
  BY DEF BatchRequest
<1>1. CASE answer = "stored"
  <2>1. PICK allowed \in {r.allowed, member} : Insert(r, allowed)
    BY <1>1 DEF Answer
  <2>2. rows' \in [Position -> 0..1]
    BY <2>1 DEF Insert, CaptureTypeOK
  <2>3. Stored' = Stored \union r.events
    BY <1>0, <2>1 DEF Insert, CaptureTypeOK, Stored
  <2>4. session' \in Scope \union {"none"} /\ (r.scope = "shared" => session' \in {session, "shared"})
    BY <2>1 DEF Insert, Home, Scope, CaptureTypeOK
  <2> QED
    BY <2>2, <2>3, <2>4
<1>2. CASE answer # "stored"
  BY <1>2 DEF Answer, service, CaptureTypeOK, Stored
<1> QED
  BY <1>1, <1>2

LEMMA ServiceKept ==
  ASSUME UNCHANGED service
  PROVE  rows' = rows /\ session' = session /\ Stored' = Stored
  BY DEF service, Stored

LEMMA MishapTyped ==
  ASSUME CaptureTypeOK, Mishap \/ UNCHANGED mishaps
  PROVE  mishaps' \in 0..MaxMishaps
  BY CaptureAssumption DEF Mishap, CaptureTypeOK

\* A step that only moves one hook and counts.
LEMMA HookTyped ==
  ASSUME CaptureTypeOK, NEW h \in Hook, NEW k \in HookState,
         hook' = [hook EXCEPT ![h] = k], mishaps' \in 0..MaxMishaps,
         cursor' \in 0..MaxSize, UNCHANGED <<transcript, service, missed, world>>,
         late' \subseteq BatchRequest
  PROVE  CaptureTypeOK'
<1>1. hook \in [Hook -> HookState]
  BY DEF CaptureTypeOK, HookState
<1>2. hook' \in [Hook -> HookState]
  BY <1>1
<1> QED
  BY <1>2 DEF CaptureTypeOK, HookState, service, world

LEMMA ReadTyped ==
  ASSUME CaptureTypeOK, Reached(cursor), NEW h \in Hook, Read(h)
  PROVE  CaptureTypeOK'
<1> DEFINE k == [hook[h] EXCEPT !.pc = IF Delta.events = {} THEN "write" ELSE "send",
                                !.previous = cursor,
                                !.offset = Delta.consumed,
                                !.request = IF Delta.events = {} THEN Nothing
                                            ELSE Batch(Delta.events, hook[h].scope)]
<1>1. hook[h] \in HookState /\ cursor \in 0..MaxSize /\ late \subseteq BatchRequest
      /\ mishaps \in 0..MaxMishaps
  BY DEF CaptureTypeOK, HookState
<1>2. Delta.events \in SUBSET Position /\ Delta.consumed \in 0..MaxSize
  BY DeltaReached
<1>3. hook[h].scope \in Scope
  BY <1>1 DEF HookState
<1>4. (IF Delta.events = {} THEN Nothing ELSE Batch(Delta.events, hook[h].scope)) \in BatchRequest
  BY <1>2, <1>3, RecordsTyped
<1>5. k \in HookState
  BY <1>1, <1>2, <1>4 DEF HookState
<1>6. hook' = [hook EXCEPT ![h] = k]
  BY DEF Read
<1> HIDE DEF k
<1> QED
  BY <1>1, <1>5, <1>6, HookTyped DEF Read

LEMMA PostTyped ==
  ASSUME CaptureTypeOK, NEW h \in Hook, NEW answer, Post(h, answer)
  PROVE  CaptureTypeOK'
<1>1. hook \in [Hook -> HookState] /\ hook[h] \in HookState
  BY DEF CaptureTypeOK, HookState
<1>2. hook[h].request \in BatchRequest
  BY <1>1 DEF HookState
<1>3. rows' \in [Position -> 0..1] /\ session' \in Scope \union {"none"}
  BY <1>2, AnswerTyped DEF Post
<1>4. hook' \in [Hook -> HookState]
  <2>1. [hook[h] EXCEPT !.pc = "write", !.request = Nothing] \in HookState
    BY <1>1, RecordsTyped DEF HookState
  <2>2. [hook[h] EXCEPT !.pc = "resend", !.request = Batch(hook[h].request.events, "private")]
           \in HookState
    <3>1. hook[h].request.events \in SUBSET Position /\ "private" \in Scope
      BY <1>2 DEF BatchRequest, Scope
    <3>2. Batch(hook[h].request.events, "private") \in BatchRequest
      BY <3>1, RecordsTyped
    <3> QED
      BY <1>1, <3>2 DEF HookState
  <2>3. Idle \in HookState
    BY RecordsTyped
  <2>4. \/ hook' = [hook EXCEPT ![h] = [hook[h] EXCEPT !.pc = "write", !.request = Nothing]]
        \/ hook' = [hook EXCEPT ![h] =
                      [hook[h] EXCEPT !.pc = "resend",
                                      !.request = Batch(hook[h].request.events, "private")]]
        \/ hook' = [hook EXCEPT ![h] = Idle]
    BY DEF Post, Fails
  <2> QED
    BY <1>1, <2>1, <2>2, <2>3, <2>4
<1> QED
  BY <1>3, <1>4 DEF Post, CaptureTypeOK, HookState, world

LEMMA HookStepTyped ==
  ASSUME CaptureTypeOK, Reached(cursor), NEW h \in Hook, HookStep(h)
  PROVE  CaptureTypeOK'
<1>0. /\ hook[h] \in HookState /\ cursor \in 0..MaxSize /\ late \subseteq BatchRequest
      /\ mishaps \in 0..MaxMishaps /\ Idle \in HookState /\ Nothing \in BatchRequest
      /\ hook[h].offset \in 0..MaxSize /\ hook[h].request \in BatchRequest
      /\ Len(transcript) \in 0..MaxSize /\ 0 \in 0..MaxSize
  <2>1. Len(transcript) \in Nat /\ Len(transcript) <= MaxSize /\ MaxSize \in Nat
    BY CaptureAssumption DEF CaptureTypeOK
  <2> QED
    BY <2>1, RecordsTyped DEF CaptureTypeOK, HookState
<1>1. ASSUME NEW close \in BOOLEAN, NEW scope \in Scope, Start(h, close, scope)
      PROVE  CaptureTypeOK'
  <2>1. [Idle EXCEPT !.pc = "read", !.close = close, !.scope = scope] \in HookState
    BY <1>0 DEF HookState
  <2>2. mishaps' \in 0..MaxMishaps
    BY <1>1, MishapTyped DEF Start
  <2> QED
    BY <1>0, <1>1, <2>1, <2>2, HookTyped DEF Start
<1>2. ASSUME Deadline(h) PROVE CaptureTypeOK'
  BY <1>0, <1>2, HookTyped DEF Deadline, Fails
<1>3. ASSUME MoveCursor(h) PROVE CaptureTypeOK'
  <2>1. PICK k \in HookState : hook' = [hook EXCEPT ![h] = k]
    <3>1. [hook[h] EXCEPT !.pc = "close", !.previous = 0, !.offset = Len(transcript)] \in HookState
      BY <1>0 DEF HookState
    <3>2. [hook[h] EXCEPT !.pc = "read", !.previous = 0, !.offset = 0] \in HookState
      BY <1>0 DEF HookState
    <3> QED
      BY <1>0, <1>3, <3>1, <3>2 DEF MoveCursor
  <2>2. /\ cursor' \in 0..MaxSize /\ mishaps' \in 0..MaxMishaps /\ late' \subseteq BatchRequest
        /\ UNCHANGED <<transcript, service, missed, world>>
    BY <1>0, <1>3 DEF MoveCursor
  <2> QED
    BY <2>1, <2>2, HookTyped
<1>4. ASSUME Close(h) PROVE CaptureTypeOK'
  <2>1. missed' \subseteq Position
    <3>1. TurnsBefore(hook[h].offset) \subseteq Position
      <4>1. TurnsBefore(hook[h].offset) \subseteq 1..Len(transcript)
        BY Zenon DEF TurnsBefore
      <4>2. 1..Len(transcript) \subseteq 1..MaxSize
        BY <1>0, CaptureAssumption
      <4> QED
        BY <4>1, <4>2 DEF Position
    <3> QED
      BY <1>4, <3>1 DEF Close, CaptureTypeOK
  <2>2. hook' \in [Hook -> HookState]
    BY <1>0, <1>4 DEF Close, Fails, CaptureTypeOK, HookState
  <2> QED
    BY <1>4, <2>1, <2>2 DEF Close, CaptureTypeOK, HookState, service, world
<1>5. ASSUME Dies(h) PROVE CaptureTypeOK'
  <2>1. mishaps' \in 0..MaxMishaps
    BY <1>5, MishapTyped DEF Dies
  <2>2. late' \subseteq BatchRequest
    BY <1>0, <1>5 DEF Dies
  <2> QED
    BY <1>0, <1>5, <2>1, <2>2, HookTyped DEF Dies, Fails
<1> QED
  BY <1>1, <1>2, <1>3, <1>4, <1>5, ReadTyped, PostTyped DEF HookStep

LEMMA StepTyped ==
  ASSUME CaptureTypeOK, Reached(cursor), CaptureNext
  PROVE  CaptureTypeOK'
<1>1. ASSUME NEW r \in late, NEW answer, LateAnswer(r, answer)
      PROVE  CaptureTypeOK'
  <2>1. r \in BatchRequest
    BY DEF CaptureTypeOK
  <2>2. rows' \in [Position -> 0..1] /\ session' \in Scope \union {"none"}
    BY <1>1, <2>1, AnswerTyped DEF LateAnswer
  <2> QED
    BY <1>1, <2>2 DEF LateAnswer, CaptureTypeOK, world
<1>2. ASSUME NEW unit \in Unit, Write(unit)
      PROVE  CaptureTypeOK'
  <2>1. transcript' \in Seq(Unit) /\ Len(transcript') <= MaxSize
    BY <1>2, CaptureAssumption DEF Write, CaptureTypeOK
  <2> QED
    BY <1>2, <2>1 DEF Write, CaptureTypeOK, service, world
<1>3. ASSUME LoseCursor PROVE CaptureTypeOK'
  <2>1. mishaps' \in 0..MaxMishaps
    BY <1>3, MishapTyped DEF LoseCursor
  <2> QED
    BY <1>3, <2>1, CaptureAssumption DEF LoseCursor, CaptureTypeOK, service, world
<1>4. ASSUME ChangeMembership PROVE CaptureTypeOK'
  <2>1. changes' \in 0..MaxChanges /\ member' \in BOOLEAN
    BY <1>4, CaptureAssumption DEF ChangeMembership, CaptureTypeOK
  <2> QED
    BY <1>4, <2>1 DEF ChangeMembership, CaptureTypeOK, service
<1> QED
  BY <1>1, <1>2, <1>3, <1>4, HookStepTyped DEF CaptureNext

-----------------------------------------------------------------------------
(***************************************************************************)
(* Capture: delivery                                                       *)
(***************************************************************************)
\* The same of any transcript, of any set of stored turns and of any hook.
CutIn(t, position) ==
    \A q \in 1..position :
        /\ q = 1 \/ t[q - 1] # "part"
        /\ \A i \in q..position : t[i] = "part"
        => position - q >= MaxDelta - 1

TurnsIn(t, offset) ==
    {p \in 1..Len(t) :
        /\ p <= offset
        /\ t[p] = "turn"
        /\ \E q \in 1..p : /\ p - q < MaxDelta
                           /\ q = 1 \/ t[q - 1] # "part"
                           /\ \A i \in q..(p - 1) : t[i] = "part"}

ReachedIn(t, position) == position <= Len(t) /\ CutIn(t, position)

DeliveredIn(t, stored, k) ==
    /\ ReachedIn(t, k.offset)
    /\ k.pc \notin {"send", "resend"} => k.request = Nothing
    /\ k.pc \in {"send", "resend", "write", "close"} =>
          TurnsIn(t, k.offset) \subseteq stored \union k.request.events

CursorIn(t, stored, position) ==
    ReachedIn(t, position) /\ TurnsIn(t, position) \subseteq stored

LEMMA DeliveryMeans ==
  /\ Delivery <=> /\ CursorIn(transcript, Stored, cursor)
                  /\ \A h \in Hook : DeliveredIn(transcript, Stored, hook[h])
  /\ Delivery' <=> /\ CursorIn(transcript', Stored', cursor')
                   /\ \A h \in Hook : DeliveredIn(transcript', Stored', hook'[h])
  /\ \A c : Reached(c) <=> ReachedIn(transcript, c)
  /\ \A c : TurnsBefore(c) = TurnsIn(transcript, c)
<1>1. \A c : AtCut(c) <=> CutIn(transcript, c)
  BY DEF AtCut, CutIn, EndsLine
<1>2. \A c : TurnsBefore(c) = TurnsIn(transcript, c)
  BY DEF TurnsBefore, TurnsIn, EndsLine
<1>3. Delivery <=> /\ CursorIn(transcript, Stored, cursor)
                   /\ \A h \in Hook : DeliveredIn(transcript, Stored, hook[h])
  BY <1>1, <1>2 DEF Delivery, CursorIn, DeliveredIn, Delivered, Reached, ReachedIn, NothingSkipped
<1>4. AtCut(cursor)' <=> CutIn(transcript', cursor')
  BY DEF AtCut, CutIn, EndsLine
<1>5. TurnsBefore(cursor)' = TurnsIn(transcript', cursor')
  BY DEF TurnsBefore, TurnsIn, EndsLine
<1>6. \A h \in Hook : AtCut(hook[h].offset)' <=> CutIn(transcript', hook'[h].offset)
  BY DEF AtCut, CutIn, EndsLine
<1>7. \A h \in Hook : TurnsBefore(hook[h].offset)' = TurnsIn(transcript', hook'[h].offset)
  BY DEF TurnsBefore, TurnsIn, EndsLine
<1>8. (Reached(cursor) /\ NothingSkipped)' <=> CursorIn(transcript', Stored', cursor')
  BY <1>4, <1>5 DEF CursorIn, Reached, ReachedIn, NothingSkipped
<1>9. \A h \in Hook : Delivered(h)' <=> DeliveredIn(transcript', Stored', hook'[h])
  BY <1>6, <1>7 DEF DeliveredIn, Delivered, Reached, ReachedIn
<1>10. Delivery' <=> /\ CursorIn(transcript', Stored', cursor')
                     /\ \A h \in Hook : DeliveredIn(transcript', Stored', hook'[h])
  BY <1>8, <1>9 DEF Delivery
<1> QED
  BY <1>1, <1>2, <1>3, <1>10 DEF Reached, ReachedIn

\* What is appended is behind every position, and what is stored stays.
LEMMA PositionKept ==
  ASSUME NEW t \in Seq(Unit), NEW u \in Seq(Unit), u = t \/ \E unit \in Unit : u = Append(t, unit),
         NEW c \in Nat, ReachedIn(t, c)
  PROVE  ReachedIn(u, c) /\ TurnsIn(u, c) = TurnsIn(t, c)
<1>1. c <= Len(t) /\ Len(t) \in Nat /\ Len(u) \in Nat /\ Len(t) <= Len(u)
  BY DEF ReachedIn
<1>2. \A i \in 1..c : u[i] = t[i]
  BY <1>1
<1>3. ReachedIn(u, c)
  <2> SUFFICES ASSUME NEW q \in 1..c, q = 1 \/ u[q - 1] # "part", \A i \in q..c : u[i] = "part"
               PROVE  c - q >= MaxDelta - 1
    BY <1>1 DEF ReachedIn, CutIn
  <2>1. q = 1 \/ t[q - 1] # "part"
    BY <1>2
  <2>2. \A i \in q..c : t[i] = "part"
    BY <1>2
  <2> QED
    BY <2>1, <2>2 DEF ReachedIn, CutIn
<1>4. ASSUME NEW p \in 1..c, NEW q \in 1..p
      PROVE  /\ u[p] = t[p] /\ (q # 1 => u[q - 1] = t[q - 1])
             /\ \A i \in q..(p - 1) : u[i] = t[i]
  BY <1>2
<1>5. TurnsIn(u, c) \subseteq TurnsIn(t, c)
  <2> SUFFICES ASSUME NEW p \in TurnsIn(u, c) PROVE p \in TurnsIn(t, c)
    OBVIOUS
  <2>1. p \in 1..c /\ p \in 1..Len(t) /\ u[p] = "turn"
    BY <1>1 DEF TurnsIn
  <2>2. PICK q \in 1..p : /\ p - q < MaxDelta
                          /\ q = 1 \/ u[q - 1] # "part"
                          /\ \A i \in q..(p - 1) : u[i] = "part"
    BY DEF TurnsIn
  <2>3. t[p] = "turn" /\ (q = 1 \/ t[q - 1] # "part") /\ \A i \in q..(p - 1) : t[i] = "part"
    BY <1>4, <2>1, <2>2
  <2> QED
    BY <2>1, <2>2, <2>3 DEF TurnsIn
<1>6. TurnsIn(t, c) \subseteq TurnsIn(u, c)
  <2> SUFFICES ASSUME NEW p \in TurnsIn(t, c) PROVE p \in TurnsIn(u, c)
    OBVIOUS
  <2>1. p \in 1..c /\ p \in 1..Len(u) /\ t[p] = "turn"
    BY <1>1 DEF TurnsIn
  <2>2. PICK q \in 1..p : /\ p - q < MaxDelta
                          /\ q = 1 \/ t[q - 1] # "part"
                          /\ \A i \in q..(p - 1) : t[i] = "part"
    BY DEF TurnsIn
  <2>3. u[p] = "turn" /\ (q = 1 \/ u[q - 1] # "part") /\ \A i \in q..(p - 1) : u[i] = "part"
    BY <1>4, <2>1, <2>2
  <2> QED
    BY <2>1, <2>2, <2>3 DEF TurnsIn
<1> QED
  BY <1>3, <1>5, <1>6

LEMMA DeliveredKept ==
  ASSUME NEW t \in Seq(Unit), NEW u \in Seq(Unit), u = t \/ \E unit \in Unit : u = Append(t, unit),
         NEW S, NEW T, S \subseteq T
  PROVE  /\ \A c \in Nat : CursorIn(t, S, c) => CursorIn(u, T, c)
         /\ \A k \in HookState : DeliveredIn(t, S, k) => DeliveredIn(u, T, k)
<1>1. \A c \in Nat : ReachedIn(t, c) => ReachedIn(u, c) /\ TurnsIn(u, c) = TurnsIn(t, c)
  BY PositionKept
<1>2. \A k \in HookState : k.offset \in Nat
  BY CaptureAssumption DEF HookState
<1> QED
  BY <1>1, <1>2 DEF CursorIn, DeliveredIn

\* The start of the transcript is always reached.
LEMMA StartReached ==
  ASSUME NEW t \in Seq(Unit), NEW S
  PROVE  CursorIn(t, S, 0) /\ DeliveredIn(t, S, Idle)
<1>1. Len(t) \in Nat
  OBVIOUS
<1>2. ReachedIn(t, 0)
  BY <1>1 DEF ReachedIn, CutIn
<1>3. TurnsIn(t, 0) = {}
  BY <1>1 DEF TurnsIn
<1> QED
  BY <1>2, <1>3 DEF CursorIn, DeliveredIn, Idle

\* A step of one hook: the others keep what they have delivered.
LEMMA HookDelivery ==
  ASSUME CaptureTypeOK, Delivery, NEW h \in Hook, NEW k,
         hook' = [hook EXCEPT ![h] = k], transcript' = transcript, Stored \subseteq Stored',
         DeliveredIn(transcript, Stored', k), CursorIn(transcript, Stored', cursor')
  PROVE  Delivery'
<1>1. hook \in [Hook -> HookState] /\ transcript \in Seq(Unit)
  BY DEF CaptureTypeOK, HookState
<1>2. \A g \in Hook : DeliveredIn(transcript, Stored, hook[g])
  BY DeliveryMeans
<1>3. \A g \in Hook : DeliveredIn(transcript, Stored', hook[g])
  BY <1>1, <1>2, DeliveredKept
<1>4. \A g \in Hook : DeliveredIn(transcript', Stored', hook'[g])
  BY <1>1, <1>3
<1> QED
  BY <1>4, DeliveryMeans

LEMMA ReadDelivery ==
  ASSUME CaptureTypeOK, Delivery, NEW h \in Hook, Read(h)
  PROVE  Delivery'
<1> DEFINE request == IF Delta.events = {} THEN Nothing ELSE Batch(Delta.events, hook[h].scope)
           k == [hook[h] EXCEPT !.pc = IF Delta.events = {} THEN "write" ELSE "send",
                                !.previous = cursor, !.offset = Delta.consumed,
                                !.request = request]
<1>1. hook[h] \in HookState /\ transcript \in Seq(Unit)
  BY DEF CaptureTypeOK, HookState
<1>2. Reached(cursor) /\ NothingSkipped
  BY DEF Delivery
<1>3. /\ Reached(Delta.consumed)
      /\ TurnsBefore(Delta.consumed) \subseteq Stored \union Delta.events
  BY <1>2, DeltaReached DEF NothingSkipped
<1>4. /\ ReachedIn(transcript, Delta.consumed)
      /\ TurnsIn(transcript, Delta.consumed) \subseteq Stored \union Delta.events
  BY <1>3, DeliveryMeans
<1>5. request.events = Delta.events /\ (Delta.events = {} => request = Nothing)
  BY DEF Batch, Nothing
<1> HIDE DEF request
<1>6. /\ k.offset = Delta.consumed /\ k.request = request
      /\ k.pc = IF Delta.events = {} THEN "write" ELSE "send"
  BY <1>1 DEF HookState
<1> HIDE DEF k
<1>7. DeliveredIn(transcript, Stored, k)
  BY <1>4, <1>5, <1>6 DEF DeliveredIn
<1>8. hook' = [hook EXCEPT ![h] = k] /\ transcript' = transcript /\ Stored' = Stored /\ cursor' = cursor
  BY ServiceKept DEF Read, k, request
<1>9. CursorIn(transcript, Stored, cursor)
  BY DeliveryMeans
<1> QED
  BY <1>7, <1>8, <1>9, HookDelivery

LEMMA PostDelivery ==
  ASSUME CaptureTypeOK, Delivery, NEW h \in Hook, NEW answer, Post(h, answer)
  PROVE  Delivery'
<1>1. /\ hook[h] \in HookState /\ transcript \in Seq(Unit) /\ cursor \in Nat
      /\ hook[h].request \in BatchRequest
  BY CaptureAssumption DEF CaptureTypeOK, HookState
<1>2. /\ Stored \subseteq Stored'
      /\ answer = "stored" => Stored' = Stored \union hook[h].request.events
  BY <1>1, AnswerTyped DEF Post
<1>3. CursorIn(transcript, Stored', cursor')
  <2>1. CursorIn(transcript, Stored, cursor)
    BY DeliveryMeans
  <2> QED
    BY <1>1, <1>2, <2>1, DeliveredKept DEF Post
<1>4. DeliveredIn(transcript, Stored, hook[h]) /\ hook[h].pc \in {"send", "resend"} /\ transcript' = transcript
  BY DeliveryMeans DEF Post
<1>5. CASE answer = "stored"
  <2> DEFINE k == [hook[h] EXCEPT !.pc = "write", !.request = Nothing]
  <2>1. k.pc = "write" /\ k.request = Nothing /\ k.offset = hook[h].offset
    BY <1>1 DEF HookState
  <2>2. hook' = [hook EXCEPT ![h] = k]
    BY <1>5 DEF Post
  <2> HIDE DEF k
  <2>3. DeliveredIn(transcript, Stored', k)
    BY <1>2, <1>4, <1>5, <2>1 DEF DeliveredIn
  <2> QED
    BY <1>2, <1>3, <1>4, <2>2, <2>3, HookDelivery
<1>6. CASE answer # "stored" /\ answer = "forbidden" /\ Fallback(h)
  <2> DEFINE again == Batch(hook[h].request.events, "private")
             k == [hook[h] EXCEPT !.pc = "resend", !.request = again]
  <2>1. again.events = hook[h].request.events
    BY DEF Batch
  <2>2. k.pc = "resend" /\ k.request = again /\ k.offset = hook[h].offset
    BY <1>1, <1>4 DEF HookState
  <2>3. hook' = [hook EXCEPT ![h] = k]
    BY <1>6 DEF Post
  <2> HIDE DEF k, again
  <2>4. DeliveredIn(transcript, Stored', k)
    BY <1>2, <1>4, <2>1, <2>2 DEF DeliveredIn
  <2> QED
    BY <1>2, <1>3, <1>4, <2>3, <2>4, HookDelivery
<1>7. CASE answer # "stored" /\ ~(answer = "forbidden" /\ Fallback(h))
  <2>1. hook' = [hook EXCEPT ![h] = Idle]
    BY <1>7 DEF Post, Fails
  <2>2. DeliveredIn(transcript, Stored', Idle)
    BY <1>1, StartReached
  <2> QED
    BY <1>2, <1>3, <1>4, <2>1, <2>2, HookDelivery
<1> QED
  BY <1>5, <1>6, <1>7

LEMMA MoveCursorDelivery ==
  ASSUME CaptureTypeOK, Delivery, NEW h \in Hook, MoveCursor(h)
  PROVE  Delivery'
<1>1. /\ hook[h] \in HookState /\ transcript \in Seq(Unit) /\ hook[h].offset \in Nat
      /\ Len(transcript) \in Nat
  BY CaptureAssumption DEF CaptureTypeOK, HookState
<1>2. /\ DeliveredIn(transcript, Stored, hook[h]) /\ hook[h].pc = "write"
      /\ transcript' = transcript /\ Stored' = Stored /\ cursor' = hook[h].offset
  BY DeliveryMeans, ServiceKept DEF MoveCursor
<1>3. hook[h].request = Nothing /\ ReachedIn(transcript, hook[h].offset)
      /\ TurnsIn(transcript, hook[h].offset) \subseteq Stored
  BY <1>2 DEF DeliveredIn, Nothing
<1>4. CursorIn(transcript, Stored', cursor')
  BY <1>2, <1>3 DEF CursorIn
<1>5. CASE AfterWrite(h) = "idle"
  <2>1. hook' = [hook EXCEPT ![h] = Idle]
    BY <1>5 DEF MoveCursor
  <2> QED
    BY <1>1, <1>2, <1>4, <2>1, StartReached, HookDelivery
<1>6. CASE AfterWrite(h) = "close"
  <2> DEFINE k == [hook[h] EXCEPT !.pc = "close", !.previous = 0, !.offset = Len(transcript)]
  <2>1. hook[h].offset = Len(transcript)
    BY <1>1, <1>3, <1>6 DEF AfterWrite, ReachedIn
  <2>2. k.pc = "close" /\ k.request = Nothing /\ k.offset = hook[h].offset
    BY <1>1, <1>3, <2>1 DEF HookState
  <2>3. hook' = [hook EXCEPT ![h] = k]
    BY <1>6 DEF MoveCursor
  <2> HIDE DEF k
  <2>4. DeliveredIn(transcript, Stored', k)
    BY <1>2, <1>3, <2>2 DEF DeliveredIn
  <2> QED
    BY <1>2, <1>4, <2>3, <2>4, HookDelivery
<1>7. CASE AfterWrite(h) # "idle" /\ AfterWrite(h) # "close"
  <2> DEFINE k == [hook[h] EXCEPT !.pc = "read", !.previous = 0, !.offset = 0]
  <2>1. k.pc = "read" /\ k.request = Nothing /\ k.offset = 0
    BY <1>1, <1>3 DEF HookState
  <2>2. hook' = [hook EXCEPT ![h] = k]
    BY <1>7 DEF MoveCursor
  <2> HIDE DEF k
  <2>3. ReachedIn(transcript, 0)
    BY <1>1, StartReached DEF CursorIn
  <2>4. DeliveredIn(transcript, Stored', k)
    BY <2>1, <2>3 DEF DeliveredIn
  <2> QED
    BY <1>2, <1>4, <2>2, <2>4, HookDelivery
<1> QED
  BY <1>5, <1>6, <1>7

LEMMA StepDelivery ==
  ASSUME CaptureTypeOK, Delivery, CaptureNext
  PROVE  Delivery'
<1>0. /\ transcript \in Seq(Unit) /\ cursor \in Nat /\ hook \in [Hook -> HookState]
      /\ CursorIn(transcript, Stored, cursor)
      /\ \A g \in Hook : DeliveredIn(transcript, Stored, hook[g])
  BY CaptureAssumption, DeliveryMeans DEF CaptureTypeOK, HookState
<1>1. ASSUME NEW h \in Hook, NEW close \in BOOLEAN, NEW scope \in Scope, Start(h, close, scope)
      PROVE  Delivery'
  <2> DEFINE k == [Idle EXCEPT !.pc = "read", !.close = close, !.scope = scope]
  <2>1. k.pc = "read" /\ k.request = Nothing /\ k.offset = 0
    BY DEF Idle
  <2>2. hook' = [hook EXCEPT ![h] = k] /\ transcript' = transcript /\ cursor' = cursor /\ Stored' = Stored
    BY <1>1, ServiceKept DEF Start
  <2> HIDE DEF k
  <2>3. DeliveredIn(transcript, Stored', k)
    BY <1>0, <2>1, StartReached DEF DeliveredIn, CursorIn
  <2> QED
    BY <1>0, <2>2, <2>3, HookDelivery
<1>2. ASSUME NEW h \in Hook, Deadline(h) \/ Close(h) \/ Dies(h)
      PROVE  Delivery'
  <2>1. /\ hook' = [hook EXCEPT ![h] = Idle] /\ transcript' = transcript /\ cursor' = cursor
        /\ Stored' = Stored
    BY <1>2, ServiceKept DEF Deadline, Close, Dies, Fails
  <2> QED
    BY <1>0, <2>1, StartReached, HookDelivery
<1>3. ASSUME NEW r \in late, NEW answer, LateAnswer(r, answer)
      PROVE  Delivery'
  <2>1. Stored \subseteq Stored'
    BY <1>3, AnswerTyped DEF LateAnswer, CaptureTypeOK
  <2>2. transcript' = transcript /\ cursor' = cursor /\ hook' = hook
    BY <1>3 DEF LateAnswer
  <2>3. CursorIn(transcript, Stored', cursor) /\ \A g \in Hook : DeliveredIn(transcript, Stored', hook[g])
    BY <1>0, <2>1, DeliveredKept
  <2> QED
    BY <2>2, <2>3, DeliveryMeans
<1>4. ASSUME NEW unit \in Unit, Write(unit)
      PROVE  Delivery'
  <2>1. transcript' = Append(transcript, unit) /\ transcript' \in Seq(Unit) /\ cursor' = cursor /\ hook' = hook
        /\ Stored' = Stored
    BY <1>0, <1>4, ServiceKept DEF Write
  <2>2. CursorIn(transcript', Stored, cursor) /\ \A g \in Hook : DeliveredIn(transcript', Stored, hook[g])
    BY <1>0, <2>1, DeliveredKept
  <2> QED
    BY <2>1, <2>2, DeliveryMeans
<1>5. ASSUME LoseCursor PROVE Delivery'
  <2>1. transcript' = transcript /\ cursor' = 0 /\ hook' = hook /\ Stored' = Stored
    BY <1>5, ServiceKept DEF LoseCursor
  <2> QED
    BY <1>0, <2>1, StartReached, DeliveryMeans
<1>6. ASSUME ChangeMembership PROVE Delivery'
  <2>1. transcript' = transcript /\ cursor' = cursor /\ hook' = hook /\ Stored' = Stored
    BY <1>6, ServiceKept DEF ChangeMembership
  <2> QED
    BY <1>0, <2>1, DeliveryMeans
<1> QED
  BY <1>1, <1>2, <1>3, <1>4, <1>5, <1>6, ReadDelivery, PostDelivery, MoveCursorDelivery
  DEF CaptureNext, HookStep

-----------------------------------------------------------------------------
(***************************************************************************)
(* Capture: destination                                                    *)
(***************************************************************************)
LEMMA StepDestination ==
  ASSUME CaptureTypeOK, Delivery, Destination, CaptureNext
  PROVE  Destination'
<1>0. hook \in [Hook -> HookState] /\ late \subseteq BatchRequest
  BY DEF CaptureTypeOK, HookState
<1> SUFFICES ASSUME explicit'
             PROVE  /\ session' # "private"
                    /\ \A r \in late' : r.scope = "shared"
                    /\ \A h \in Hook :
                          /\ hook'[h].pc # "idle" => hook'[h].scope = "shared"
                          /\ hook'[h].pc \in {"send", "resend"} => hook'[h].request.scope = "shared"
  BY DEF Destination
<1>1. explicit
  BY DEF CaptureNext, HookStep, Start, Read, Deadline, Post, MoveCursor, Close, Dies, LateAnswer,
         Write, LoseCursor, ChangeMembership, world
<1>2. /\ session # "private"
      /\ \A r \in late : r.scope = "shared"
      /\ \A h \in Hook : /\ hook[h].pc # "idle" => hook[h].scope = "shared"
                         /\ hook[h].pc \in {"send", "resend"} => hook[h].request.scope = "shared"
  BY <1>1 DEF Destination
<1>3. \A h \in Hook : hook[h].pc \notin {"send", "resend"} => hook[h].request = Nothing
  BY DEF Delivery, Delivered
<1>4. session' # "private"
  <2>1. ASSUME NEW r \in BatchRequest, NEW answer, Answer(r, answer), r.scope = "shared"
        PROVE  session' # "private"
    BY <1>2, <2>1, AnswerTyped
  <2>2. ASSUME NEW h \in Hook, NEW answer, Post(h, answer)
        PROVE  session' # "private"
    <3>1. hook[h].request \in BatchRequest /\ hook[h].request.scope = "shared"
      BY <1>0, <1>2, <2>2 DEF Post, HookState
    <3> QED
      BY <2>1, <2>2, <3>1 DEF Post
  <2>3. ASSUME NEW r \in late, NEW answer, LateAnswer(r, answer)
        PROVE  session' # "private"
    BY <1>0, <1>2, <2>1, <2>3 DEF LateAnswer
  <2>4. ASSUME UNCHANGED service
        PROVE  session' # "private"
    BY <1>2, <2>4, ServiceKept
  <2> QED
    BY <2>2, <2>3, <2>4 DEF CaptureNext, HookStep, Start, Read, Deadline, MoveCursor, Close, Dies,
                            Write, LoseCursor, ChangeMembership
<1>5. \A r \in late' : r.scope = "shared"
  <2>1. ASSUME NEW h \in Hook, Dies(h), NEW r \in late'
        PROVE  r.scope = "shared"
    <3>1. CASE r \in late
      BY <1>2, <3>1
    <3>2. CASE r \notin late
      <4>1. r = hook[h].request /\ r.events # {}
        BY <2>1, <3>2 DEF Dies
      <4>2. hook[h].pc \in {"send", "resend"}
        BY <1>3, <4>1 DEF Nothing
      <4> QED
        BY <1>2, <4>1, <4>2
    <3> QED
      BY <3>1, <3>2
  <2>2. ASSUME late' \subseteq late
        PROVE  \A r \in late' : r.scope = "shared"
    BY <1>2, <2>2
  <2> QED
    BY <2>1, <2>2 DEF CaptureNext, HookStep, Start, Read, Deadline, Post, MoveCursor, Close,
                      LateAnswer, Write, LoseCursor, ChangeMembership
<1>6. ASSUME NEW h \in Hook
      PROVE  /\ hook'[h].pc # "idle" => hook'[h].scope = "shared"
             /\ hook'[h].pc \in {"send", "resend"} => hook'[h].request.scope = "shared"
  <2> DEFINE Bound(k) == /\ k.pc # "idle" => k.scope = "shared"
                         /\ k.pc \in {"send", "resend"} => k.request.scope = "shared"
  <2>1. \A g \in Hook : hook[g] \in HookState /\ Bound(hook[g])
    BY <1>0, <1>2
  <2>2. ASSUME NEW g \in Hook, NEW k, Bound(k), hook' = [hook EXCEPT ![g] = k]
        PROVE  Bound(hook'[h])
    BY <1>0, <2>1, <2>2
  <2>3. Bound(Idle)
    BY DEF Idle
  <2>4. ASSUME NEW g \in Hook, NEW close \in BOOLEAN, NEW scope \in Scope, Start(g, close, scope)
        PROVE  Bound(hook'[h])
    <3>1. scope = "shared"
      BY <1>1, <2>4 DEF Start, Scope
    <3>2. Bound([Idle EXCEPT !.pc = "read", !.close = close, !.scope = scope])
      BY <3>1 DEF Idle
    <3>3. hook' = [hook EXCEPT ![g] = [Idle EXCEPT !.pc = "read", !.close = close, !.scope = scope]]
      BY <2>4 DEF Start
    <3> HIDE DEF Bound
    <3> QED
      BY <2>2, <3>2, <3>3
  <2>5. ASSUME NEW g \in Hook, Read(g)
        PROVE  Bound(hook'[h])
    <3> DEFINE request == IF Delta.events = {} THEN Nothing ELSE Batch(Delta.events, hook[g].scope)
               k == [hook[g] EXCEPT !.pc = IF Delta.events = {} THEN "write" ELSE "send",
                                    !.previous = cursor, !.offset = Delta.consumed,
                                    !.request = request]
    <3>1. hook' = [hook EXCEPT ![g] = k]
      BY <2>5 DEF Read
    <3>2. hook[g].scope = "shared"
      BY <1>2, <2>5 DEF Read
    <3>3. Delta.events # {} => request.scope = "shared"
      BY <3>2 DEF Batch
    <3> HIDE DEF request
    <3>4. k.scope = "shared" /\ k.request = request /\ (k.pc \in {"send", "resend"} => Delta.events # {})
      BY <2>1, <3>2 DEF HookState
    <3> HIDE DEF k
    <3>5. Bound(k)
      BY <3>3, <3>4
    <3> HIDE DEF Bound
    <3> QED
      BY <2>2, <3>1, <3>5
  <2>6. ASSUME NEW g \in Hook, NEW answer, Post(g, answer)
        PROVE  Bound(hook'[h])
    <3>1. ~Fallback(g) /\ hook[g].pc \in {"send", "resend"}
      BY <1>1, <2>6 DEF Fallback, Post
    <3>2. \/ hook' = [hook EXCEPT ![g] = [hook[g] EXCEPT !.pc = "write", !.request = Nothing]]
          \/ hook' = [hook EXCEPT ![g] = Idle]
      BY <2>6, <3>1 DEF Post, Fails
    <3>3. Bound([hook[g] EXCEPT !.pc = "write", !.request = Nothing])
      BY <2>1, <3>1 DEF HookState
    <3> HIDE DEF Bound
    <3> QED
      BY <2>2, <2>3, <3>2, <3>3
  <2>7. ASSUME NEW g \in Hook, MoveCursor(g)
        PROVE  Bound(hook'[h])
    <3> DEFINE closing == [hook[g] EXCEPT !.pc = "close", !.previous = 0, !.offset = Len(transcript)]
               reading == [hook[g] EXCEPT !.pc = "read", !.previous = 0, !.offset = 0]
    <3>1. hook[g].scope = "shared"
      BY <1>2, <2>7 DEF MoveCursor
    <3>2. Bound(closing) /\ Bound(reading)
      BY <2>1, <3>1 DEF HookState
    <3>3. \/ hook' = [hook EXCEPT ![g] = closing] \/ hook' = [hook EXCEPT ![g] = reading]
          \/ hook' = [hook EXCEPT ![g] = Idle]
      BY <2>7 DEF MoveCursor
    <3> HIDE DEF Bound, closing, reading
    <3> QED
      BY <2>2, <2>3, <3>2, <3>3
  <2>8. ASSUME NEW g \in Hook, Deadline(g) \/ Close(g) \/ Dies(g)
        PROVE  Bound(hook'[h])
    <3>1. hook' = [hook EXCEPT ![g] = Idle]
      BY <2>8 DEF Deadline, Close, Dies, Fails
    <3> HIDE DEF Bound
    <3> QED
      BY <2>2, <2>3, <3>1
  <2>9. ASSUME hook' = hook
        PROVE  Bound(hook'[h])
    BY <2>1, <2>9
  <2>10. Bound(hook'[h])
    <3> HIDE DEF Bound
    <3> QED
      BY <2>4, <2>5, <2>6, <2>7, <2>8, <2>9
      DEF CaptureNext, HookStep, LateAnswer, Write, LoseCursor, ChangeMembership
  <2> QED
    BY <2>10
<1> QED
  BY <1>4, <1>5, <1>6

-----------------------------------------------------------------------------
(***************************************************************************)
(* Capture: theorems                                                       *)
(***************************************************************************)
\* What a closing hook has passed is stored.
LEMMA StepClosed ==
  ASSUME CaptureTypeOK, Delivery, ClosedIsComplete, CaptureNext
  PROVE  ClosedIsComplete'
<1>1. ASSUME NEW h \in Hook, Close(h)
      PROVE  missed' = {}
  <2>1. TurnsBefore(hook[h].offset) \subseteq Stored
    <3>1. hook[h].request = Nothing /\ hook[h].pc = "close"
      BY <1>1 DEF Close, Delivery, Delivered
    <3> QED
      BY <3>1 DEF Delivery, Delivered, Nothing
  <2> QED
    BY <1>1, <2>1 DEF Close, ClosedIsComplete
<1> QED
  BY <1>1 DEF ClosedIsComplete, CaptureNext, HookStep, Start, Read, Deadline, Post, MoveCursor,
              Dies, LateAnswer, Write, LoseCursor, ChangeMembership

CaptureInv == CaptureTypeOK /\ Delivery /\ Destination /\ ClosedIsComplete

LEMMA CaptureInvHolds == CaptureSpec => []CaptureInv
<1>1. CaptureInit => CaptureInv
  <2> SUFFICES ASSUME CaptureInit PROVE CaptureInv
    OBVIOUS
  <2>1. transcript = <<>> /\ transcript \in Seq(Unit) /\ Len(transcript) = 0
    BY DEF CaptureInit
  <2>2. CaptureTypeOK
    <3>1. Idle \in HookState
      BY CaptureAssumption DEF Idle, HookState, Nothing, BatchRequest, Scope
    <3> QED
      BY <2>1, <3>1, CaptureAssumption DEF CaptureInit, CaptureTypeOK, HookState
  <2>3. Delivery
    <3>1. cursor = 0 /\ \A h \in Hook : hook[h] = Idle
      BY DEF CaptureInit
    <3> QED
      BY <2>1, <3>1, StartReached, DeliveryMeans
  <2>4. Destination /\ ClosedIsComplete
    BY DEF CaptureInit, Destination, ClosedIsComplete, Idle
  <2> QED
    BY <2>2, <2>3, <2>4 DEF CaptureInv
<1>2. CaptureInv /\ [CaptureNext]_captureVars => CaptureInv'
  <2> SUFFICES ASSUME CaptureInv, [CaptureNext]_captureVars PROVE CaptureInv'
    OBVIOUS
  <2>1. CASE CaptureNext
    <3>1. Reached(cursor)
      BY DEF CaptureInv, Delivery
    <3> QED
      BY <2>1, <3>1, StepTyped, StepDelivery, StepDestination, StepClosed DEF CaptureInv
  <2>2. CASE UNCHANGED captureVars
    <3>1. /\ transcript' = transcript /\ cursor' = cursor /\ hook' = hook /\ Stored' = Stored
          /\ CaptureTypeOK' /\ Destination' /\ ClosedIsComplete'
      BY <2>2 DEF captureVars, CaptureInv, CaptureTypeOK, Destination, ClosedIsComplete, Stored
    <3>2. Delivery'
      BY <3>1, DeliveryMeans DEF CaptureInv
    <3> QED
      BY <3>1, <3>2 DEF CaptureInv
  <2> QED
    BY <2>1, <2>2
<1> QED
  BY <1>1, <1>2, PTL DEF CaptureSpec

\* The state is of its types, and no turn is ever stored twice.
THEOREM CaptureTypeCorrect == CaptureSpec => []CaptureTypeOK
<1>1. CaptureInv => CaptureTypeOK
  BY DEF CaptureInv
<1> QED
  BY <1>1, CaptureInvHolds, PTL

\* The cursor is never moved over a turn that is not stored.
THEOREM CursorCorrect == CaptureSpec => []NothingSkipped
<1>1. CaptureInv => NothingSkipped
  BY DEF CaptureInv, Delivery
<1> QED
  BY <1>1, CaptureInvHolds, PTL

\* A session is closed over everything its hook has passed.
THEOREM ClosingCorrect == CaptureSpec => []ClosedIsComplete
<1>1. CaptureInv => ClosedIsComplete
  BY DEF CaptureInv
<1> QED
  BY <1>1, CaptureInvHolds, PTL

\* A configured scope is never replaced.
THEOREM DestinationCorrect == CaptureSpec => []ExplicitStaysPut
<1>1. CaptureInv => ExplicitStaysPut
  BY DEF CaptureInv, Destination, ExplicitStaysPut
<1> QED
  BY <1>1, CaptureInvHolds, PTL

\* A session stays open only for the tail of its transcript.
THEOREM ReadingGoesOn == CaptureSpec => []OnlyTailsWait
<1>1. CaptureInv => OnlyTailsWait
  BY DeltaGoesOn DEF CaptureInv, Delivery
<1> QED
  BY <1>1, CaptureInvHolds, PTL
=============================================================================
