------------------------ MODULE IndexDelivery_proofs ------------------------
(***************************************************************************)
(* Theorems about IndexDelivery, for every set of processes, rows and      *)
(* scopes, and any number of revisions, operations, rebuilds and faults.   *)
(***************************************************************************)
EXTENDS IndexDelivery, SequenceTheorems, FiniteSetTheorems, TLAPS

-----------------------------------------------------------------------------
(***************************************************************************)
(* Sequences                                                               *)
(***************************************************************************)
LEMMA Appended ==
  ASSUME NEW S, NEW s \in Seq(S), NEW x \in S
  PROVE  /\ Append(s, x) \in Seq(S) /\ Append(s, x) # << >>
         /\ Len(Append(s, x)) = Len(s) + 1 /\ DOMAIN s \subseteq DOMAIN Append(s, x)
         /\ \A i \in DOMAIN Append(s, x) :
               Append(s, x)[i] = IF i = Len(s) + 1 THEN x ELSE s[i]
         /\ LastOf(Append(s, x)) = x
  BY DEF LastOf

LEMMA Rest ==
  ASSUME NEW S, NEW s \in Seq(S), s # << >>
  PROVE  /\ Tail(s) \in Seq(S) /\ Head(s) \in S /\ 1 \in DOMAIN s /\ Head(s) = s[1]
         /\ Tail(s) = << >> <=> Len(s) = 1
         /\ \A i \in DOMAIN Tail(s) : i + 1 \in DOMAIN s /\ Tail(s)[i] = s[i + 1]
<1>1. Len(s) \in Nat /\ Len(s) >= 1 /\ 1 \in DOMAIN s /\ Head(s) = s[1] /\ Head(s) \in S
  BY EmptySeq
<1>2. Tail(s) \in Seq(S) /\ Len(Tail(s)) = Len(s) - 1
  OBVIOUS
<1>3. Tail(s) = << >> <=> Len(s) = 1
  BY <1>1, <1>2, EmptySeq
<1>4. \A i \in DOMAIN Tail(s) : i + 1 \in DOMAIN s /\ Tail(s)[i] = s[i + 1]
  BY <1>1, <1>2
<1> QED
  BY <1>1, <1>2, <1>3, <1>4

LEMMA LastIsThere ==
  ASSUME NEW S, NEW s \in Seq(S)
  PROVE  /\ Len(s) \in Nat
         /\ s # << >> => Len(s) \in DOMAIN s /\ Len(s) > 0 /\ LastOf(s) \in S
         /\ \A i \in DOMAIN s : i \in Nat /\ 1 <= i /\ i <= Len(s) /\ s[i] \in S
  BY DEF LastOf

-----------------------------------------------------------------------------
(***************************************************************************)
(* Operations                                                              *)
(***************************************************************************)
\* A step that adds no operation and changes one of them.
OnlyOp(e, i, op) ==
    /\ ops' \in [Entity -> Seq(Operations)]
    /\ \A d \in Entity : DOMAIN ops'[d] = DOMAIN ops[d] /\ Len(ops'[d]) = Len(ops[d])
    /\ \A d \in Entity : \A j \in DOMAIN ops[d] :
          ops'[d][j] = IF d = e /\ j = i THEN op ELSE ops[d][j]

LEMMA OneOp ==
  ASSUME ops \in [Entity -> Seq(Operations)], NEW e \in Entity, NEW i \in DOMAIN ops[e],
         NEW op \in Operations, ops' = [ops EXCEPT ![e][i] = op]
  PROVE  OnlyOp(e, i, op)
<1> DEFINE s == [ops[e] EXCEPT ![i] = op]
<1>1. s \in Seq(Operations) /\ DOMAIN s = DOMAIN ops[e] /\ Len(s) = Len(ops[e])
  OBVIOUS
<1>2. \A j \in DOMAIN ops[e] : s[j] = IF j = i THEN op ELSE ops[e][j]
  OBVIOUS
<1>3. ops' = [ops EXCEPT ![e] = s]
  OBVIOUS
<1> HIDE DEF s
<1> QED
  BY <1>1, <1>2, <1>3 DEF OnlyOp

LEMMA OpsTyped ==
  ASSUME NEW op \in Operations
  PROVE  /\ \A status \in {"pending", "processing", "done", "failed"} :
               /\ Unclaimed(op, status) \in Operations
               /\ Unclaimed(op, status).status = status
               /\ Unclaimed(op, status).kind = op.kind /\ Unclaimed(op, status).rev = op.rev
         /\ Reclaimed(op) \in Operations
         /\ Reclaimed(op).kind = op.kind /\ Reclaimed(op).rev = op.rev
         /\ Reclaimed(op) = op \/ (Expired(op) /\ Reclaimed(op).status = "pending")
         /\ Retained(op) \in Operations
         /\ Retained(op).status \in {"pending", "failed"}
         /\ Retained(op).kind = op.kind /\ Retained(op).rev = op.rev
<1>1. \A status \in {"pending", "processing", "done", "failed"} :
         /\ Unclaimed(op, status) \in Operations
         /\ Unclaimed(op, status).status = status
         /\ Unclaimed(op, status).kind = op.kind /\ Unclaimed(op, status).rev = op.rev
  BY DEF Unclaimed, Operations
<1>2. /\ Reclaimed(op) \in Operations
      /\ Reclaimed(op).kind = op.kind /\ Reclaimed(op).rev = op.rev
      /\ Reclaimed(op) = op \/ (Expired(op) /\ Reclaimed(op).status = "pending")
  BY <1>1 DEF Reclaimed
<1>3. /\ Retained(op) \in Operations
      /\ Retained(op).status \in {"pending", "failed"}
      /\ Retained(op).kind = op.kind /\ Retained(op).rev = op.rev
  <2> DEFINE u == Unclaimed(op, IF op.attempts + 1 >= MaxAttempts THEN "failed" ELSE "pending")
  <2>1. /\ u \in Operations /\ u.kind = op.kind /\ u.rev = op.rev
        /\ u.status \in {"pending", "failed"}
    BY <1>1
  <2>2. Retained(op) = [u EXCEPT !.attempts = u.attempts + 1]
    BY DEF Retained
  <2> HIDE DEF u
  <2> QED
    BY <2>1, <2>2 DEF Operations
<1> QED
  BY <1>1, <1>2, <1>3

-----------------------------------------------------------------------------
(***************************************************************************)
(* Types                                                                   *)
(***************************************************************************)
\* What TypeOK says of the rows, the operations and the points.
Data ==
    /\ revs \in [Entity -> Seq(RevisionStates)]
    /\ scope \in [Entity -> Scope]
    /\ ops \in [Entity -> Seq(Operations)]
    /\ index \in [Entity -> Views]
    /\ generation \in [Entity -> Views]
    /\ faults \in Nat /\ rebuilds \in Nat

\* A delivery is under way.
Inside == {"delivering", "fenced", "applied", "failing"}

\* What it says of the processes.
Processes ==
    /\ gate \in Worker \union {NoWorker}
    /\ pc \in [Worker -> Stages]
    /\ held \in [Worker -> Seq(OpIds)]
    /\ seen \in [Worker -> Views]
    /\ lost \in [Worker -> BOOLEAN]
    /\ \A w \in Worker :
          /\ \A i \in DOMAIN held[w] : held[w][i][2] \in DOMAIN ops[held[w][i][1]]
          /\ pc[w] \in Inside => held[w] # << >>

LEMMA TypeParts == (TypeOK <=> Data /\ Processes) /\ (TypeOK' <=> Data' /\ Processes')
  BY DEF TypeOK, Data, Processes, Inside

\* Operations are never taken back.
OpsKept == \A e \in Entity : DOMAIN ops[e] \subseteq DOMAIN ops'[e]

\* One process moves: to another stage, with other operations and another row in hand.
Moved(w, stage, h, view) ==
    /\ pc' = [pc EXCEPT ![w] = stage]
    /\ held' = [held EXCEPT ![w] = h]
    /\ seen' = [seen EXCEPT ![w] = view]

LEMMA MovedTyped ==
  ASSUME Processes, NEW w \in Worker, OpsKept,
         NEW stage \in Stages, NEW h \in Seq(OpIds), NEW view \in Views, Moved(w, stage, h, view),
         \A i \in DOMAIN h : h[i][2] \in DOMAIN ops[h[i][1]],
         stage \in Inside => h # << >>,
         gate' \in Worker \union {NoWorker}, lost' \in [Worker -> BOOLEAN]
  PROVE  Processes'
<1>1. /\ pc' \in [Worker -> Stages] /\ held' \in [Worker -> Seq(OpIds)]
      /\ seen' \in [Worker -> Views]
  BY DEF Processes, Moved
<1>2. ASSUME NEW v \in Worker
      PROVE  /\ \A i \in DOMAIN held'[v] : held'[v][i][2] \in DOMAIN ops'[held'[v][i][1]]
             /\ pc'[v] \in Inside => held'[v] # << >>
  <2>1. CASE v = w
    <3>1. held'[v] = h /\ pc'[v] = stage
      BY <2>1 DEF Processes, Moved
    <3>2. \A i \in DOMAIN h : h[i][1] \in Entity
      BY DEF OpIds
    <3> QED
      BY <3>1, <3>2 DEF OpsKept
  <2>2. CASE v # w
    <3>1. held'[v] = held[v] /\ pc'[v] = pc[v] /\ held[v] \in Seq(OpIds)
      BY <2>2 DEF Processes, Moved
    <3>2. \A i \in DOMAIN held[v] : held[v][i][1] \in Entity
      BY <3>1 DEF OpIds
    <3> QED
      BY <3>1, <3>2 DEF Processes, OpsKept
  <2> QED
    BY <2>1, <2>2
<1> QED
  BY <1>1, <1>2 DEF Processes

\* The ways a process moves.
LEMMA Moves ==
  ASSUME Processes, NEW w \in Worker, NEW stage \in Stages
  PROVE  /\ MoveTo(w, stage) /\ UNCHANGED <<held, seen>> => Moved(w, stage, held[w], seen[w])
         /\ EndDrain(w) => Moved(w, "claiming", << >>, Blank)
         /\ NextDelivery(w) =>
              Moved(w, IF Len(held[w]) = 1 THEN "claiming" ELSE "delivering", Tail(held[w]), Blank)
  BY DEF Processes, MoveTo, EndDrain, NextDelivery, Moved

LEMMA BlankTyped == Blank \in Views /\ Blank.rev = 0 /\ Blank.shown = 0
  BY DEF Blank, Views

LEMMA StageTyped ==
  ASSUME Processes, NEW w \in Worker, NEW stage \in Stages, OpsKept,
         MoveTo(w, stage), UNCHANGED <<held, seen, lost>>, gate' \in Worker \union {NoWorker},
         stage \in Inside => held[w] # << >>
  PROVE  Processes'
<1>1. /\ held[w] \in Seq(OpIds) /\ seen[w] \in Views /\ lost' \in [Worker -> BOOLEAN]
      /\ \A i \in DOMAIN held[w] : held[w][i][2] \in DOMAIN ops[held[w][i][1]]
  BY DEF Processes
<1> QED
  BY <1>1, Moves, MovedTyped

LEMMA EndDrainTyped ==
  ASSUME Processes, NEW w \in Worker, EndDrain(w), OpsKept, gate' \in Worker \union {NoWorker}
  PROVE  Processes'
<1>1. << >> \in Seq(OpIds) /\ lost' \in [Worker -> BOOLEAN] /\ "claiming" \in Stages \ Inside
  BY DEF Processes, EndDrain, Stages, Inside
<1>2. DOMAIN << >> = {}
  OBVIOUS
<1>3. Moved(w, "claiming", << >>, Blank)
  BY <1>1, Moves
<1> QED
  BY <1>1, <1>2, <1>3, MovedTyped, BlankTyped

LEMMA NextDeliveryTyped ==
  ASSUME Processes, NEW w \in Worker, NextDelivery(w), OpsKept, pc[w] \in Inside,
         UNCHANGED <<gate, lost>>
  PROVE  Processes'
<1> DEFINE stage == IF Len(held[w]) = 1 THEN "claiming" ELSE "delivering"
           h == Tail(held[w])
<1>1. held[w] \in Seq(OpIds) /\ held[w] # << >> /\ lost' \in [Worker -> BOOLEAN]
  BY DEF Processes
<1>2. h \in Seq(OpIds) /\ (h = << >> <=> Len(held[w]) = 1)
  BY <1>1, Rest
<1>3. \A i \in DOMAIN h : h[i][2] \in DOMAIN ops[h[i][1]]
  BY <1>1, Rest DEF Processes
<1>4. stage \in Stages /\ (stage \in Inside => h # << >>)
  BY <1>2 DEF Stages, Inside
<1>5. Moved(w, stage, h, Blank) /\ gate' \in Worker \union {NoWorker}
  BY Moves DEF Stages, Processes
<1> HIDE DEF stage, h
<1> QED
  BY <1>1, <1>2, <1>3, <1>4, <1>5, MovedTyped, BlankTyped

\* Nothing of a process changes.
LEMMA ProcessesKept ==
  ASSUME Processes, OpsKept, UNCHANGED process, UNCHANGED gate
  PROVE  Processes'
<1>1. \A w \in Worker : \A i \in DOMAIN held[w] : held[w][i][1] \in Entity
  BY DEF Processes, OpIds
<1> QED
  BY <1>1 DEF Processes, OpsKept, process

\* The operation a process has in hand.
LEMMA MineIsThere ==
  ASSUME Data, Processes, NEW w \in Worker, pc[w] \in Inside
  PROVE  /\ held[w] \in Seq(OpIds) /\ held[w] # << >>
         /\ Mine(w) \in OpIds /\ Mine(w)[1] \in Entity
         /\ Mine(w) = <<Mine(w)[1], Mine(w)[2]>>
         /\ Mine(w)[2] \in DOMAIN ops[Mine(w)[1]] /\ Op(Mine(w)) \in Operations
<1>1. held[w] \in Seq(OpIds) /\ held[w] # << >>
  BY DEF Processes
<1>2. Mine(w) = held[w][1] /\ 1 \in DOMAIN held[w] /\ Mine(w) \in OpIds
  BY <1>1, Rest DEF Mine
<1>3. Mine(w)[1] \in Entity /\ Mine(w) = <<Mine(w)[1], Mine(w)[2]>>
  BY <1>2 DEF OpIds
<1>4. Mine(w)[2] \in DOMAIN ops[Mine(w)[1]]
  BY <1>2 DEF Processes
<1>5. Op(Mine(w)) \in Operations
  BY <1>3, <1>4 DEF Op, Data
<1> QED
  BY <1>1, <1>2, <1>3, <1>4, <1>5

\* An operation of a row, likewise.
LEMMA ExistingTyped ==
  ASSUME Data, NEW o \in Existing
  PROVE  /\ o[1] \in Entity /\ o[2] \in DOMAIN ops[o[1]] /\ o = <<o[1], o[2]>>
         /\ o \in OpIds /\ Op(o) \in Operations
<1>1. o \in Entity \X (1 .. MaxOps) /\ o[2] \in DOMAIN ops[o[1]]
  BY DEF Existing
<1>2. o[1] \in Entity /\ o = <<o[1], o[2]>> /\ o \in OpIds
  BY <1>1, BoundsAreNaturals DEF OpIds
<1> QED
  BY <1>1, <1>2 DEF Op, Data

\* The row as it is now.
LEMMA ViewTyped ==
  ASSUME Data, NEW e \in Entity
  PROVE  View(e) \in Views /\ View(e).rev = Len(revs[e]) /\ View(e).shown \in {0, Len(revs[e])}
<1>1. Len(revs[e]) \in Nat
  BY DEF Data
<1> QED
  BY <1>1 DEF View, Views

\* One operation changes, or none does.
LEMMA OpsKeptBy ==
  /\ UNCHANGED ops => OpsKept
  /\ \A e, i, op : OnlyOp(e, i, op) => OpsKept
  BY DEF OpsKept, OnlyOp

\* outbox.enqueue adds one operation to a row.
LEMMA Enqueued ==
  ASSUME Data, NEW e \in Entity, NEW kind \in {"upsert", "delete"}, NEW rev \in Nat,
         NEW s \in Scope, Enqueue(e, kind, rev, s)
  PROVE  /\ ops' \in [Entity -> Seq(Operations)] /\ OpsKept
         /\ ops'[e] = Append(ops[e], NewOp(e, kind, rev, s))
         /\ NewOp(e, kind, rev, s) \in Operations
         /\ \A d \in Entity \ {e} : ops'[d] = ops[d]
<1>1. NewOp(e, kind, rev, s) \in Operations /\ ops[e] \in Seq(Operations)
  BY DEF NewOp, Operations, Data
<1>2. /\ Append(ops[e], NewOp(e, kind, rev, s)) \in Seq(Operations)
      /\ DOMAIN ops[e] \subseteq DOMAIN Append(ops[e], NewOp(e, kind, rev, s))
  BY <1>1, Appended
<1>3. ops' = [ops EXCEPT ![e] = Append(ops[e], NewOp(e, kind, rev, s))]
  BY DEF Enqueue
<1> QED
  BY <1>1, <1>2, <1>3 DEF Data, OpsKept

\* A revision is added to a row.
LEMMA Revised ==
  ASSUME Data, NEW e \in Entity, NEW state \in RevisionStates,
         revs' = [revs EXCEPT ![e] = Append(@, state)]
  PROVE  /\ revs' \in [Entity -> Seq(RevisionStates)]
         /\ revs'[e] = Append(revs[e], state) /\ revs[e] \in Seq(RevisionStates)
         /\ \A d \in Entity \ {e} : revs'[d] = revs[d]
<1>1. revs[e] \in Seq(RevisionStates) /\ Append(revs[e], state) \in Seq(RevisionStates)
  BY DEF Data
<1> QED
  BY <1>1 DEF Data

LEMMA RevisionKeepsTypes ==
  ASSUME Data, Processes, NEW e \in Entity, NEW state \in RevisionStates,
         NEW kind \in {"upsert", "delete"}, NEW s \in Scope, Revision(e, state, kind, s)
  PROVE  Data' /\ Processes'
<1>1. Len(revs[e]) + 1 \in Nat
  BY DEF Data
<1>2. Enqueue(e, kind, Len(revs[e]) + 1, s)
  BY DEF Revision
<1>3. ops' \in [Entity -> Seq(Operations)] /\ OpsKept
  BY <1>1, <1>2, Enqueued
<1>4. revs' \in [Entity -> Seq(RevisionStates)]
  BY Revised DEF Revision
<1> QED
  BY <1>3, <1>4, ProcessesKept DEF Revision, Data

\* Each step of a writer keeps the types.
LEMMA WriterKeepsTypes ==
  ASSUME TypeOK, NEW e \in Entity, Writing(e)
  PROVE  TypeOK'
<1>0. Data /\ Processes /\ scope[e] \in Scope
  BY TypeParts DEF Data
<1>1. CASE Add(e)
  BY <1>0, <1>1, RevisionKeepsTypes, TypeParts DEF Add, RevisionStates
<1>2. CASE Revise(e)
  <2>1. PICK s \in Scope :
           Revision(e, IF LastOf(revs[e]) = "inactive" THEN "inactive" ELSE "active", "upsert", s)
    BY <1>2 DEF Revise
  <2>2. \/ Revision(e, "inactive", "upsert", s)
        \/ Revision(e, "active", "upsert", s)
    BY <2>1
  <2> QED
    BY <1>0, <2>2, RevisionKeepsTypes, TypeParts DEF RevisionStates
<1>3. CASE SetStatus(e)
  BY <1>0, <1>3, RevisionKeepsTypes, TypeParts DEF SetStatus, RevisionStates
<1>4. CASE Resend(e)
  <2>1. Len(revs[e]) \in Nat
    BY <1>0 DEF Data
  <2>2. ops' \in [Entity -> Seq(Operations)] /\ OpsKept
    BY <1>0, <1>4, <2>1, Enqueued DEF Resend
  <2> QED
    BY <1>0, <1>4, <2>2, ProcessesKept, TypeParts DEF Resend, Data, rows
<1>5. CASE Lapse(e)
  <2>1. Len(revs[e]) \in DOMAIN revs[e]
    BY <1>0, <1>5, LastIsThere DEF Lapse, View, Exists, Data
  <2>2. revs' \in [Entity -> Seq(RevisionStates)]
    <3>1. [revs[e] EXCEPT ![Len(revs[e])] = "lapsed"] \in Seq(RevisionStates)
      BY <1>0, <2>1 DEF Data, RevisionStates
    <3> QED
      BY <1>0, <1>5, <3>1 DEF Lapse, Data
  <2> QED
    BY <1>0, <1>5, <2>2, ProcessesKept, OpsKeptBy, TypeParts DEF Lapse, Data
<1> QED
  BY <1>1, <1>2, <1>3, <1>4, <1>5 DEF Writing

\* What a claim makes of the operations.
LEMMA Claimed ==
  ASSUME Data, Processes, NEW w \in Worker, Claim(w)
  PROVE  \E o \in Existing :
           /\ Eligible(o)
           /\ held' = [held EXCEPT ![w] = Append(held[w], o)]
           /\ ops' \in [Entity -> Seq(Operations)]
           /\ \A e \in Entity : DOMAIN ops'[e] = DOMAIN ops[e] /\ Len(ops'[e]) = Len(ops[e])
           /\ \A e \in Entity : \A i \in DOMAIN ops[e] :
                 /\ ops'[e][i].kind = ops[e][i].kind /\ ops'[e][i].rev = ops[e][i].rev
                 /\ IF <<e, i>> = o THEN ops'[e][i].status = "processing"
                    ELSE \/ ops'[e][i] = ops[e][i]
                         \/ Expired(ops[e][i]) /\ ops'[e][i].status = "pending"
<1>1. PICK o \in Existing :
          /\ Eligible(o)
          /\ ops' = [e \in Entity |-> [i \in DOMAIN ops[e] |->
                        IF <<e, i>> = o
                          THEN [ops[e][i] EXCEPT !.status = "processing",
                                                 !.by = w, !.stale = FALSE]
                          ELSE Reclaimed(ops[e][i])]]
          /\ held' = [held EXCEPT ![w] = Append(@, o)]
  BY DEF Claim
<1> DEFINE row(e, i) == IF <<e, i>> = o
                          THEN [ops[e][i] EXCEPT !.status = "processing",
                                                 !.by = w, !.stale = FALSE]
                          ELSE Reclaimed(ops[e][i])
<1>2. ASSUME NEW e \in Entity, NEW i \in DOMAIN ops[e]
      PROVE  /\ row(e, i) \in Operations
             /\ row(e, i).kind = ops[e][i].kind /\ row(e, i).rev = ops[e][i].rev
             /\ IF <<e, i>> = o THEN row(e, i).status = "processing"
                ELSE \/ row(e, i) = ops[e][i]
                     \/ Expired(ops[e][i]) /\ row(e, i).status = "pending"
  <2>1. ops[e][i] \in Operations
    BY DEF Data
  <2>2. CASE <<e, i>> = o
    BY <2>1, <2>2 DEF Operations
  <2>3. CASE <<e, i>> # o
    BY <2>1, <2>3, OpsTyped
  <2> QED
    BY <2>2, <2>3
<1>3. ops' = [e \in Entity |-> [i \in DOMAIN ops[e] |-> row(e, i)]]
  BY <1>1
<1> HIDE DEF row
<1>4. ASSUME NEW e \in Entity
      PROVE  /\ ops'[e] \in Seq(Operations) /\ DOMAIN ops'[e] = DOMAIN ops[e]
             /\ Len(ops'[e]) = Len(ops[e])
             /\ \A i \in DOMAIN ops[e] : ops'[e][i] = row(e, i)
  <2>1. ops'[e] = [i \in 1 .. Len(ops[e]) |-> row(e, i)] /\ Len(ops[e]) \in Nat
        /\ DOMAIN ops[e] = 1 .. Len(ops[e])
    BY <1>3 DEF Data
  <2>2. \A i \in 1 .. Len(ops[e]) : row(e, i) \in Operations
    BY <1>2, <2>1
  <2> QED
    BY <2>1, <2>2
<1>5. ops' \in [Entity -> Seq(Operations)]
  BY <1>3, <1>4
<1>6. held' = [held EXCEPT ![w] = Append(held[w], o)]
  BY <1>1
<1>7. Eligible(o)
  BY <1>1
<1>8. \A e \in Entity : \A i \in DOMAIN ops[e] :
         /\ ops'[e][i].kind = ops[e][i].kind /\ ops'[e][i].rev = ops[e][i].rev
         /\ IF <<e, i>> = o THEN ops'[e][i].status = "processing"
            ELSE \/ ops'[e][i] = ops[e][i]
                 \/ Expired(ops[e][i]) /\ ops'[e][i].status = "pending"
  BY <1>2, <1>4
<1> QED
  BY <1>4, <1>5, <1>6, <1>7, <1>8

\* Each step of a drain keeps the types.
LEMMA DrainKeepsTypes ==
  ASSUME TypeOK, NEW w \in Worker,
         \/ Claim(w) \/ StartDelivering(w) \/ Busy(w) \/ Fence(w) \/ Obsolete(w) \/ TimeOut(w)
         \/ Apply(w) \/ Fail(w) \/ MarkDone(w) \/ Retain(w)
  PROVE  TypeOK'
<1>0. Data /\ Processes
  BY TypeParts
<1> DEFINE e == Mine(w)[1]
           i == Mine(w)[2]
<1>1. ASSUME pc[w] \in Inside
      PROVE  /\ e \in Entity /\ i \in DOMAIN ops[e] /\ Op(Mine(w)) \in Operations
             /\ Op(Mine(w)) = ops[e][i] /\ held[w] # << >>
  BY <1>0, <1>1, MineIsThere DEF Op
<1>2. ASSUME pc[w] \in Inside PROVE Delivered(w) \in [Entity -> Views]
  <2>1. View(e) \in Views /\ seen[w] \in Views /\ index[e] \in Views
    BY <1>0, <1>1, <1>2, ViewTyped DEF Data, Processes
  <2>2. Outcome(Op(Mine(w)), seen[w], index[e]) \in Views
    BY <2>1 DEF Outcome
  <2> QED
    BY <1>0, <2>2 DEF Delivered, Data
<1>3. CASE Claim(w)
  <2>1. PICK o \in Existing :
           /\ held' = [held EXCEPT ![w] = Append(held[w], o)]
           /\ ops' \in [Entity -> Seq(Operations)]
           /\ \A d \in Entity : DOMAIN ops'[d] = DOMAIN ops[d]
    BY <1>0, <1>3, Claimed
  <2> DEFINE h == Append(held[w], o)
  <2>2. /\ o \in OpIds /\ o[2] \in DOMAIN ops[o[1]] /\ held[w] \in Seq(OpIds)
        /\ pc[w] \in Stages /\ seen[w] \in Views /\ pc[w] \notin Inside
    BY <1>0, <1>3, ExistingTyped DEF Processes, Claim, Inside
  <2>3. h \in Seq(OpIds) /\ \A j \in DOMAIN h : h[j] = IF j = Len(held[w]) + 1 THEN o ELSE held[w][j]
    BY <2>2, Appended
  <2>4. DOMAIN h = 1 .. Len(held[w]) + 1 /\ DOMAIN held[w] = 1 .. Len(held[w]) /\ Len(held[w]) \in Nat
    BY <2>2
  <2> HIDE DEF h
  <2>5. ASSUME NEW j \in DOMAIN h PROVE h[j][2] \in DOMAIN ops[h[j][1]]
    <3>1. CASE j = Len(held[w]) + 1
      BY <2>2, <2>3, <3>1
    <3>2. CASE j # Len(held[w]) + 1
      <4>1. j \in DOMAIN held[w] /\ h[j] = held[w][j]
        BY <2>3, <2>4, <3>2
      <4>2. held[w][j][2] \in DOMAIN ops[held[w][j][1]]
        BY <1>0, <4>1 DEF Processes
      <4> QED
        BY <4>1, <4>2
    <3> QED
      BY <3>1, <3>2
  <2>6. Moved(w, pc[w], h, seen[w])
    <3>1. pc' = [pc EXCEPT ![w] = pc[w]] /\ seen' = [seen EXCEPT ![w] = seen[w]]
      BY <1>0, <1>3 DEF Claim, Processes
    <3>2. held' = [held EXCEPT ![w] = h]
      BY <2>1 DEF h
    <3> QED
      BY <3>1, <3>2 DEF Moved
  <2>7. OpsKept /\ lost' \in [Worker -> BOOLEAN] /\ gate' \in Worker \union {NoWorker}
    BY <1>0, <1>3, <2>1 DEF OpsKept, Claim, Processes
  <2>8. Processes'
    BY <1>0, <2>2, <2>3, <2>5, <2>6, <2>7, MovedTyped
  <2> QED
    BY <1>0, <1>3, <2>1, <2>8, TypeParts DEF Claim, Data, rows
<1>4. CASE StartDelivering(w)
  <2>1. Processes'
    BY <1>0, <1>4, StageTyped, OpsKeptBy DEF StartDelivering, Processes, Stages
  <2> QED
    BY <1>0, <1>4, <2>1, TypeParts DEF StartDelivering, Data, rows
<1>5. CASE Busy(w)
  <2> DEFINE op == IF ClaimedBy(Op(Mine(w)), w) THEN Unclaimed(Op(Mine(w)), "pending") ELSE Op(Mine(w))
  <2>1. op \in Operations /\ pc[w] \in Inside
    BY <1>1, <1>5, OpsTyped DEF Busy, Inside
  <2>2. ops' = [ops EXCEPT ![e][i] = op]
    BY <1>1, <1>5, <2>1 DEF Busy
  <2> HIDE DEF op
  <2>3. OnlyOp(e, i, op)
    BY <1>0, <1>1, <2>1, <2>2, OneOp DEF Data
  <2>4. Processes'
    BY <1>0, <1>5, <2>3, OpsKeptBy, EndDrainTyped DEF Busy, Processes
  <2> QED
    BY <1>0, <1>5, <2>3, <2>4, TypeParts DEF Busy, Data, rows, OnlyOp
<1>6. CASE Fence(w)
  <2>1. pc[w] \in Inside /\ View(e) \in Views
    BY <1>0, <1>1, <1>6, ViewTyped DEF Fence, Inside
  <2>2. Moved(w, "fenced", held[w], View(e))
    BY <1>0, <1>6 DEF Moved, Fence, MoveTo, Processes
  <2>3. Processes'
    BY <1>0, <1>1, <1>6, <2>1, <2>2, OpsKeptBy, MovedTyped DEF Fence, Processes, Stages
  <2> QED
    BY <1>0, <1>6, <2>3, TypeParts DEF Fence, Data, rows
<1>7. CASE Obsolete(w)
  <2>1. Processes'
    BY <1>0, <1>7, NextDeliveryTyped, OpsKeptBy DEF Obsolete, Inside
  <2> QED
    BY <1>0, <1>7, <2>1, TypeParts DEF Obsolete, Data, rows
<1>8. CASE TimeOut(w)
  <2>1. Processes'
    BY <1>0, <1>1, <1>8, StageTyped, OpsKeptBy DEF TimeOut, Processes, Stages, Inside
  <2> QED
    BY <1>0, <1>8, <2>1, TypeParts DEF TimeOut, Data, rows
<1>9. CASE Apply(w)
  <2>1. Processes'
    BY <1>0, <1>1, <1>9, StageTyped, OpsKeptBy DEF Apply, Processes, Stages, Inside
  <2>2. index' \in [Entity -> Views]
    BY <1>2, <1>9 DEF Apply, Inside
  <2> QED
    BY <1>0, <1>9, <2>1, <2>2, TypeParts DEF Apply, Data, rows
<1>10. CASE Fail(w)
  <2>1. Processes'
    BY <1>0, <1>1, <1>10, StageTyped, OpsKeptBy DEF Fail, Processes, Stages, Inside
  <2>2. index' \in [Entity -> Views]
    BY <1>0, <1>2, <1>10 DEF Fail, Inside, Data
  <2> QED
    BY <1>0, <1>10, <2>1, <2>2, TypeParts DEF Fail, Data, rows, Fault
<1>11. CASE MarkDone(w)
  <2>1. Unclaimed(Op(Mine(w)), "done") \in Operations /\ pc[w] \in Inside
    BY <1>1, <1>11, OpsTyped DEF MarkDone, Inside
  <2>2. ops' = [ops EXCEPT ![e][i] = Unclaimed(Op(Mine(w)), "done")]
    BY <1>1, <1>11, <2>1 DEF MarkDone
  <2>3. OnlyOp(e, i, Unclaimed(Op(Mine(w)), "done"))
    BY <1>0, <1>1, <2>1, <2>2, OneOp DEF Data
  <2>4. Processes'
    BY <1>0, <1>11, <2>1, <2>3, OpsKeptBy, NextDeliveryTyped DEF MarkDone
  <2> QED
    BY <1>0, <1>11, <2>3, <2>4, TypeParts DEF MarkDone, Data, rows, OnlyOp
<1>12. CASE Retain(w)
  <2> DEFINE op == IF ClaimedBy(Op(Mine(w)), w) THEN Retained(Op(Mine(w))) ELSE Op(Mine(w))
  <2>1. op \in Operations /\ pc[w] \in Inside
    BY <1>1, <1>12, OpsTyped DEF Retain, Inside
  <2>2. ops' = [ops EXCEPT ![e][i] = op]
    BY <1>1, <1>12, <2>1 DEF Retain
  <2> HIDE DEF op
  <2>3. OnlyOp(e, i, op)
    BY <1>0, <1>1, <2>1, <2>2, OneOp DEF Data
  <2>4. Processes'
    BY <1>0, <1>12, <2>1, <2>3, OpsKeptBy, NextDeliveryTyped DEF Retain
  <2> QED
    BY <1>0, <1>12, <2>3, <2>4, TypeParts DEF Retain, Data, rows, OnlyOp
<1> QED
  BY <1>3, <1>4, <1>5, <1>6, <1>7, <1>8, <1>9, <1>10, <1>11, <1>12

\* Each step of a rebuild, and of time and failure, keeps the types.
LEMMA OtherStepsKeepTypes ==
  ASSUME TypeOK,
         \/ \E w \in Worker : \/ StartRebuild(w) \/ Build(w) \/ Validate(w) \/ Activate(w)
                              \/ AbandonRebuild(w) \/ Crash(w) \/ LoseSession(w) \/ FindSessionLost(w)
         \/ \E o \in Existing : LeaseExpires(o) \/ LeaseOverrun(o)
  PROVE  TypeOK'
<1>0. Data /\ Processes
  BY TypeParts
<1>1. [e \in Entity |-> Blank] \in [Entity -> Views]
  BY BlankTyped
<1>2. ASSUME NEW w \in Worker, StartRebuild(w) PROVE TypeOK'
  <2>1. Processes'
    BY <1>0, <1>2, StageTyped, OpsKeptBy DEF StartRebuild, Stages, Inside
  <2> QED
    BY <1>0, <1>2, <2>1, TypeParts DEF StartRebuild, Data, rows
<1>3. ASSUME NEW w \in Worker, Build(w) PROVE TypeOK'
  <2>1. Processes'
    BY <1>0, <1>3, StageTyped, OpsKeptBy DEF Build, Stages, Inside, Processes
  <2>2. generation' \in [Entity -> Views]
    BY <1>0, <1>3, ViewTyped DEF Build
  <2> QED
    BY <1>0, <1>3, <2>1, <2>2, TypeParts DEF Build, Data, rows
<1>4. ASSUME NEW w \in Worker, Validate(w) PROVE TypeOK'
  <2>1. Processes'
    BY <1>0, <1>4, StageTyped, OpsKeptBy DEF Validate, Stages, Inside, Processes
  <2>2. generation' \in [Entity -> Views]
    <3>1. \A e \in Entity : generation[e] \in Views /\ [generation[e] EXCEPT !.shown = 0] \in Views
      BY <1>0 DEF Data, Views
    <3> QED
      BY <1>4, <3>1 DEF Validate
  <2> QED
    BY <1>0, <1>4, <2>1, <2>2, TypeParts DEF Validate, Data, rows
<1>5. ASSUME NEW w \in Worker, Activate(w) \/ AbandonRebuild(w) PROVE TypeOK'
  <2>1. Processes'
    BY <1>0, <1>5, StageTyped, OpsKeptBy DEF Activate, AbandonRebuild, EndRebuild, Stages, Inside
  <2>2. index' \in [Entity -> Views] /\ generation' \in [Entity -> Views]
    BY <1>0, <1>1, <1>5 DEF Activate, AbandonRebuild, EndRebuild, Data
  <2> QED
    BY <1>0, <1>5, <2>1, <2>2, TypeParts DEF Activate, AbandonRebuild, Data, rows
<1>6. ASSUME NEW w \in Worker, Crash(w) PROVE TypeOK'
  <2>1. Processes'
    BY <1>0, <1>6, EndDrainTyped, OpsKeptBy DEF Crash, Processes
  <2>2. generation' \in [Entity -> Views]
    BY <1>0, <1>1, <1>6 DEF Crash, Data
  <2> QED
    BY <1>0, <1>6, <2>1, <2>2, TypeParts DEF Crash, Data, rows, Fault
<1>7. ASSUME NEW w \in Worker, LoseSession(w) PROVE TypeOK'
  <2>1. lost' \in [Worker -> BOOLEAN]
    BY <1>0, <1>7 DEF LoseSession, Processes
  <2> QED
    BY <1>0, <1>7, <2>1, TypeParts DEF LoseSession, Data, Processes, rows, Fault
<1>8. ASSUME NEW w \in Worker, FindSessionLost(w) PROVE TypeOK'
  <2>1. Processes'
    BY <1>0, <1>8, EndDrainTyped, OpsKeptBy DEF FindSessionLost, Processes
  <2> QED
    BY <1>0, <1>8, <2>1, TypeParts DEF FindSessionLost, Data, rows
<1>9. ASSUME NEW o \in Existing, LeaseExpires(o) \/ LeaseOverrun(o) PROVE TypeOK'
  <2> DEFINE op == [Op(o) EXCEPT !.stale = TRUE]
  <2>1. /\ o[1] \in Entity /\ o[2] \in DOMAIN ops[o[1]] /\ Op(o) = ops[o[1]][o[2]]
        /\ op \in Operations
    BY <1>0, ExistingTyped DEF Operations, Op
  <2>2. ops' = [ops EXCEPT ![o[1]][o[2]] = op]
    BY <1>9, <2>1 DEF LeaseExpires, LeaseOverrun, SetStale
  <2> HIDE DEF op
  <2>3. OnlyOp(o[1], o[2], op)
    BY <1>0, <2>1, <2>2, OneOp DEF Data
  <2>4. Processes'
    BY <1>0, <1>9, <2>3, OpsKeptBy, ProcessesKept DEF LeaseExpires, LeaseOverrun
  <2> QED
    BY <1>0, <1>9, <2>3, <2>4, TypeParts DEF LeaseExpires, LeaseOverrun, Data, rows, OnlyOp, Fault
<1> QED
  BY <1>2, <1>3, <1>4, <1>5, <1>6, <1>7, <1>8, <1>9

LEMMA TypeInit == Init => TypeOK
<1> SUFFICES ASSUME Init PROVE TypeOK
  OBVIOUS
<1>1. /\ [e \in Entity |-> << >>] \in [Entity -> Seq(Operations)]
      /\ [e \in Entity |-> << >>] \in [Entity -> Seq(RevisionStates)]
      /\ [w \in Worker |-> << >>] \in [Worker -> Seq(OpIds)]
      /\ DOMAIN << >> = {}
  OBVIOUS
<1>2. Data
  BY <1>1, BlankTyped DEF Init, Data
<1>3. Processes
  BY <1>1, BlankTyped DEF Init, Processes, Stages, Inside
<1> QED
  BY <1>2, <1>3, TypeParts

LEMMA TypeNext == TypeOK /\ [Next]_vars => TypeOK'
<1> SUFFICES ASSUME TypeOK, [Next]_vars PROVE TypeOK'
  OBVIOUS
<1>1. CASE UNCHANGED vars
  BY <1>1 DEF vars, rows, process, TypeOK
<1> QED
  BY <1>1, WriterKeepsTypes, DrainKeepsTypes, OtherStepsKeepTypes DEF Next, Step

\* Every reachable state of the outbox, the processes and the collections is well
\* typed; a delivery has an operation in hand, and the operations in hand exist.
THEOREM TypeCorrect == Spec => []TypeOK
  BY TypeInit, TypeNext, PTL DEF Spec

-----------------------------------------------------------------------------
(***************************************************************************)
(* Pictures of a row                                                       *)
(***************************************************************************)
\* What a point that follows revision n of a row may show.
Shows(e, n, shown) ==
    IF n = 0 THEN shown = 0
    ELSE /\ revs[e][n] = "active" => shown = n
         /\ revs[e][n] = "lapsed" => shown \in {0, n}
         /\ revs[e][n] = "inactive" => shown = 0

LEMMA Picture ==
  ASSUME Data, NEW e \in Entity, NEW n \in 0 .. Len(revs[e]), NEW v \in Views
  PROVE  v \in Mirror!Pictures(e, n) <=> v.rev = n /\ Shows(e, n, v.shown)
<1>1. v = [rev |-> v.rev, shown |-> v.shown]
  BY DEF Views
<1>2. n \in Nat /\ (n > 0 => revs[e][n] \in RevisionStates)
  BY DEF Data
<1>3. CASE n = 0
  BY <1>1, <1>2, <1>3 DEF Mirror!Pictures, Shows
<1>4. CASE n > 0 /\ revs[e][n] = "active"
  BY <1>1, <1>2, <1>4 DEF Mirror!Pictures, Shows
<1>5. CASE n > 0 /\ revs[e][n] = "lapsed"
  BY <1>1, <1>2, <1>5 DEF Mirror!Pictures, Shows
<1>6. CASE n > 0 /\ revs[e][n] = "inactive"
  BY <1>1, <1>2, <1>6 DEF Mirror!Pictures, Shows
<1> QED
  BY <1>2, <1>3, <1>4, <1>5, <1>6 DEF RevisionStates

\* Rows get new revisions, and the last one lapses.
RowsGrow ==
    \A e \in Entity :
        /\ Len(revs[e]) <= Len(revs'[e])
        /\ \A n \in 1 .. Len(revs[e]) :
              revs'[e][n] = revs[e][n] \/ (revs[e][n] = "active" /\ revs'[e][n] = "lapsed")

LEMMA PicturesStay ==
  ASSUME Data, Data', RowsGrow, NEW e \in Entity, NEW n \in 0 .. Len(revs[e]), NEW v \in Views,
         v \in Mirror!Pictures(e, n)
  PROVE  v \in Mirror!Pictures(e, n)'
<1>1. n \in Nat /\ n \in 0 .. Len(revs'[e]) /\ (n > 0 => n \in 1 .. Len(revs[e]))
  BY DEF Data, RowsGrow
<1>2. v.rev = n /\ Shows(e, n, v.shown)
  BY Picture
<1>3. CASE n = 0
  BY <1>1, <1>2, <1>3 DEF Mirror!Pictures, Shows, Views
<1>4. CASE n > 0
  <2>1. revs'[e][n] = revs[e][n] \/ (revs[e][n] = "active" /\ revs'[e][n] = "lapsed")
    BY <1>1, <1>4 DEF RowsGrow
  <2>2. revs[e][n] \in RevisionStates /\ v = [rev |-> n, shown |-> v.shown]
    BY <1>1, <1>2, <1>4 DEF Data, Views
  <2> QED
    BY <1>2, <1>4, <2>1, <2>2 DEF Shows, Mirror!Pictures, RevisionStates
<1> QED
  BY <1>1, <1>3, <1>4

LEMMA PictureOfLastStays ==
  ASSUME Data, Data', RowsGrow, NEW e \in Entity, Len(revs'[e]) = Len(revs[e]), NEW v \in Views,
         v \in Mirror!Pictures(e, Len(revs[e]))
  PROVE  v \in Mirror!Pictures(e, Len(revs[e]))'
<1>1. PICK n \in 0 .. Len(revs[e]) : n = Len(revs[e])
  BY DEF Data
<1>2. v \in Mirror!Pictures(e, n)
  BY <1>1
<1>3. v \in Mirror!Pictures(e, n)'
  BY <1>2, PicturesStay
<1>4. n = Len(revs'[e])
  BY <1>1
<1> QED
  BY <1>3, <1>4 DEF Mirror!Pictures

\* The row as it is now is a picture of its last revision.
LEMMA ViewIsPicture ==
  ASSUME Data, NEW e \in Entity
  PROVE  View(e) \in Mirror!Pictures(e, Len(revs[e]))
<1>1. revs[e] \in Seq(RevisionStates) /\ Len(revs[e]) \in 0 .. Len(revs[e]) /\ Len(revs[e]) \in Nat
  BY DEF Data
<1>2. revs[e] # << >> <=> Len(revs[e]) > 0
  BY <1>1, EmptySeq
<1>3. View(e) \in Views /\ View(e).rev = Len(revs[e])
  BY ViewTyped
<1>4. Shows(e, Len(revs[e]), View(e).shown)
  BY <1>1, <1>2 DEF View, Shows, Exists, LastOf
<1> QED
  BY <1>1, <1>3, <1>4, Picture

-----------------------------------------------------------------------------
(***************************************************************************)
(* What writers do                                                         *)
(***************************************************************************)
\* A writer adds an operation of the row as it then is, behind an open gate; time
\* only makes the last revision lapse.
Wrote(e) ==
    /\ gate = NoWorker
    /\ Len(ops[e]) < MaxOps
    /\ \A d \in Entity \ {e} : ops'[d] = ops[d]
    /\ \E op \in Operations :
          /\ ops'[e] = Append(ops[e], op) /\ op.status = "pending"
          /\ op.rev = Len(revs'[e])
          /\ op.kind = "delete" => revs'[e] # << >> /\ LastOf(revs'[e]) = "inactive"

Aged(e) ==
    /\ ops' = ops
    /\ \A d \in Entity : Len(revs'[d]) = Len(revs[d])
    /\ \A d \in Entity \ {e} : revs'[d] = revs[d]
    /\ revs[e] # << >> /\ LastOf(revs[e]) = "active"

LEMMA RevisionWrites ==
  ASSUME Data, NEW e \in Entity, NEW state \in RevisionStates, NEW kind \in {"upsert", "delete"},
         NEW s \in Scope, Revision(e, state, kind, s), kind = "delete" => state = "inactive"
  PROVE  RowsGrow /\ Wrote(e)
<1>1. revs' = [revs EXCEPT ![e] = Append(@, state)] /\ Enqueue(e, kind, Len(revs[e]) + 1, s)
  BY DEF Revision
<1>2. /\ revs'[e] = Append(revs[e], state) /\ revs[e] \in Seq(RevisionStates)
      /\ \A d \in Entity \ {e} : revs'[d] = revs[d]
  BY <1>1, Revised
<1>3. Len(revs[e]) \in Nat /\ \A d \in Entity : Len(revs[d]) \in Nat
  BY DEF Data
<1>4. /\ Len(revs'[e]) = Len(revs[e]) + 1 /\ revs'[e] # << >> /\ LastOf(revs'[e]) = state
      /\ \A n \in 1 .. Len(revs[e]) : revs'[e][n] = revs[e][n]
  <2>1. \A n \in 1 .. Len(revs[e]) : n \in DOMAIN Append(revs[e], state) /\ n # Len(revs[e]) + 1
    BY <1>2, <1>3
  <2> QED
    BY <1>2, <1>3, <2>1, Appended
<1>5. RowsGrow
  BY <1>2, <1>3, <1>4 DEF RowsGrow
<1>6. /\ ops'[e] = Append(ops[e], NewOp(e, kind, Len(revs[e]) + 1, s))
      /\ NewOp(e, kind, Len(revs[e]) + 1, s) \in Operations
      /\ \A d \in Entity \ {e} : ops'[d] = ops[d]
  BY <1>1, <1>3, Enqueued
<1>7. /\ NewOp(e, kind, Len(revs[e]) + 1, s).status = "pending"
      /\ NewOp(e, kind, Len(revs[e]) + 1, s).rev = Len(revs[e]) + 1
      /\ NewOp(e, kind, Len(revs[e]) + 1, s).kind = kind
  BY DEF NewOp
<1> QED
  BY <1>4, <1>5, <1>6, <1>7 DEF Wrote, Revision, Writable, GateOpen

LEMMA WriterEffect ==
  ASSUME TypeOK, NEW e \in Entity, Writing(e)
  PROVE  /\ RowsGrow /\ (Wrote(e) \/ Aged(e))
         /\ UNCHANGED <<index, generation, gate, process>>
<1>0. Data /\ Processes /\ scope[e] \in Scope
  BY TypeParts DEF Data
<1>1. CASE Add(e)
  BY <1>0, <1>1, RevisionWrites DEF Add, RevisionStates, Revision
<1>2. CASE Revise(e)
  <2>1. PICK s \in Scope :
           Revision(e, IF LastOf(revs[e]) = "inactive" THEN "inactive" ELSE "active", "upsert", s)
    BY <1>2 DEF Revise
  <2>2. \/ Revision(e, "inactive", "upsert", s)
        \/ Revision(e, "active", "upsert", s)
    BY <2>1
  <2> QED
    BY <1>0, <2>2, RevisionWrites DEF RevisionStates, Revision
<1>3. CASE SetStatus(e)
  BY <1>0, <1>3, RevisionWrites DEF SetStatus, RevisionStates, Revision
<1>4. CASE Resend(e)
  <2>1. Len(revs[e]) \in Nat /\ revs' = revs /\ \A d \in Entity : Len(revs[d]) \in Nat
    BY <1>0, <1>4 DEF Data, Resend, rows
  <2>2. /\ ops'[e] = Append(ops[e], NewOp(e, "upsert", Len(revs[e]), scope[e]))
        /\ NewOp(e, "upsert", Len(revs[e]), scope[e]) \in Operations
        /\ \A d \in Entity \ {e} : ops'[d] = ops[d]
    BY <1>0, <1>4, <2>1, Enqueued DEF Resend
  <2>3. /\ NewOp(e, "upsert", Len(revs[e]), scope[e]).status = "pending"
        /\ NewOp(e, "upsert", Len(revs[e]), scope[e]).rev = Len(revs[e])
        /\ NewOp(e, "upsert", Len(revs[e]), scope[e]).kind = "upsert"
    BY DEF NewOp
  <2> QED
    BY <1>4, <2>1, <2>2, <2>3 DEF Wrote, Resend, Writable, GateOpen, RowsGrow
<1>5. CASE Lapse(e)
  <2> DEFINE n == Len(revs[e])
  <2>1. revs[e] \in Seq(RevisionStates) /\ revs[e] # << >> /\ LastOf(revs[e]) = "active"
    BY <1>0, <1>5 DEF Lapse, View, Exists, Data
  <2>2. n \in DOMAIN revs[e] /\ n \in Nat /\ revs[e][n] = "active"
    BY <2>1, LastIsThere DEF LastOf
  <2>3. /\ Len(revs'[e]) = n
        /\ \A k \in 1 .. n : revs'[e][k] = IF k = n THEN "lapsed" ELSE revs[e][k]
        /\ \A d \in Entity \ {e} : revs'[d] = revs[d]
    BY <1>0, <1>5, <2>1, <2>2 DEF Lapse, Data
  <2>4. \A d \in Entity : Len(revs[d]) \in Nat
    BY <1>0 DEF Data
  <2> HIDE DEF n
  <2>5. RowsGrow
    BY <2>2, <2>3, <2>4 DEF RowsGrow, n
  <2>6. Aged(e)
    BY <1>5, <2>1, <2>3 DEF Aged, Lapse, n
  <2> QED
    BY <1>5, <2>5, <2>6 DEF Lapse
<1> QED
  BY <1>1, <1>2, <1>3, <1>4, <1>5 DEF Writing

-----------------------------------------------------------------------------
(***************************************************************************)
(* The gate                                                                *)
(***************************************************************************)
Rebuilding == {"snapshot", "built", "validated"}

\* What a move makes of its process; it leaves the others alone.
Becomes(w, stage) ==
    pc'[w] = stage /\ \A v \in Worker \ {w} :
       pc'[v] = pc[v] /\ held'[v] = held[v] /\ seen'[v] = seen[v] /\ lost'[v] = lost[v]

\* The moves of a drain.
DrainStep(w) ==
    \/ Claim(w) \/ StartDelivering(w) \/ Busy(w) \/ Fence(w) \/ Obsolete(w) \/ TimeOut(w)
    \/ Apply(w) \/ Fail(w) \/ MarkDone(w) \/ Retain(w) \/ LoseSession(w) \/ FindSessionLost(w)

LEMMA DrainMoves ==
  ASSUME TypeOK, NEW w \in Worker, DrainStep(w)
  PROVE  /\ UNCHANGED <<revs, generation, gate>>
         /\ Becomes(w, pc'[w])
         /\ pc[w] \notin Rebuilding /\ pc'[w] \notin Rebuilding
         /\ InDelivery(w)' => InDelivery(w) \/ Fence(w)
<1>0. Processes
  BY TypeParts
<1> USE DEF rows, Rebuilding, InDelivery, Becomes, MoveTo, Processes
<1>1. CASE Claim(w) \/ LoseSession(w)
  BY <1>0, <1>1 DEF Claim, LoseSession
<1>2. CASE StartDelivering(w) \/ TimeOut(w) \/ Apply(w) \/ Fail(w)
  BY <1>0, <1>2 DEF StartDelivering, TimeOut, Apply, Fail
<1>3. CASE Busy(w) \/ FindSessionLost(w)
  BY <1>0, <1>3 DEF Busy, FindSessionLost, EndDrain
<1>4. CASE Fence(w)
  BY <1>0, <1>4 DEF Fence
<1>5. CASE Obsolete(w) \/ MarkDone(w) \/ Retain(w)
  BY <1>0, <1>5 DEF Obsolete, MarkDone, Retain, NextDelivery
<1> QED
  BY <1>1, <1>2, <1>3, <1>4, <1>5 DEF DrainStep

LEMMA DrainKeepsGated ==
  ASSUME TypeOK, Gated, NEW w \in Worker, DrainStep(w)
  PROVE  Gated'
<1>1. /\ UNCHANGED <<revs, generation, gate>> /\ Becomes(w, pc'[w])
      /\ pc[w] \notin Rebuilding /\ pc'[w] \notin Rebuilding
      /\ InDelivery(w)' => InDelivery(w) \/ Fence(w)
  BY DrainMoves
<1>2. \A v \in Worker \ {w} : InDelivery(v)' <=> InDelivery(v)
  BY <1>1 DEF Becomes, InDelivery
<1>3. Fence(w) => gate = NoWorker
  BY DEF Fence, GateOpen
<1>4. \A v \in Worker : gate' = v <=> pc'[v] \in Rebuilding
  BY <1>1 DEF Gated, Becomes, Rebuilding
<1>5. gate' # NoWorker => \A v \in Worker : ~InDelivery(v)'
  BY <1>1, <1>2, <1>3 DEF Gated
<1>6. ASSUME NEW v \in Worker, pc'[v] \in {"built", "validated"}, NEW e \in Entity
      PROVE  generation'[e] \in Mirror!Pictures(e, Len(revs[e]))'
  <2>1. v # w /\ pc[v] = pc'[v]
    BY <1>1, <1>6 DEF Becomes, Rebuilding
  <2>2. generation[e] \in Mirror!Pictures(e, Len(revs[e]))
    BY <1>6, <2>1 DEF Gated
  <2> QED
    BY <1>1, <2>2 DEF Mirror!Pictures
<1> QED
  BY <1>4, <1>5, <1>6 DEF Gated, Rebuilding

\* Nothing changes but the rows, or the operations.
LEMMA WriterKeepsGated ==
  ASSUME TypeOK, TypeOK', Gated, NEW e \in Entity, Writing(e)
  PROVE  Gated'
<1>1. RowsGrow /\ (Wrote(e) \/ Aged(e)) /\ UNCHANGED <<index, generation, gate, process>>
  BY WriterEffect
<1>2. ASSUME NEW v \in Worker, pc[v] \in {"built", "validated"}, NEW d \in Entity
      PROVE  generation[d] \in Mirror!Pictures(d, Len(revs[d]))'
  <2>1. gate = v /\ gate # NoWorker
    BY <1>2, NamesAreApart DEF Gated
  <2>2. Len(revs'[d]) = Len(revs[d]) /\ Len(revs[d]) \in 0 .. Len(revs[d])
    BY <1>1, <2>1, TypeParts DEF Wrote, Aged, Data
  <2>3. generation[d] \in Mirror!Pictures(d, Len(revs[d]))
    BY <1>2 DEF Gated
  <2>4. Data /\ Data' /\ generation[d] \in Views
    BY TypeParts DEF Data
  <2> QED
    BY <1>1, <2>2, <2>3, <2>4, PictureOfLastStays
<1> QED
  BY <1>1, <1>2 DEF Gated, process, InDelivery

LEMMA RebuildKeepsGated ==
  ASSUME TypeOK, Gated, NEW w \in Worker,
         StartRebuild(w) \/ Build(w) \/ Validate(w) \/ Activate(w) \/ AbandonRebuild(w)
  PROVE  Gated'
<1>0. Data /\ Processes /\ UNCHANGED <<revs, held, seen, lost>>
  BY TypeParts DEF StartRebuild, Build, Validate, Activate, AbandonRebuild, rows
<1>1. CASE StartRebuild(w)
  <2>1. /\ gate = NoWorker /\ gate' = w /\ pc'[w] = "snapshot"
        /\ \A v \in Worker \ {w} : pc'[v] = pc[v]
        /\ \A v \in Worker : ~InDelivery(v)
    BY <1>0, <1>1 DEF StartRebuild, GateFree, MoveTo, Processes
  <2>2. \A v \in Worker : pc[v] \notin Rebuilding
    BY <2>1, NamesAreApart DEF Gated, Rebuilding
  <2> QED
    BY <1>0, <2>1, <2>2 DEF Gated, Rebuilding, InDelivery
<1>2. CASE Build(w) \/ Validate(w)
  <2>1. /\ gate = w /\ gate' = w /\ w # NoWorker /\ pc'[w] \in {"built", "validated"}
        /\ \A v \in Worker \ {w} : pc'[v] = pc[v]
        /\ \A v \in Worker : ~InDelivery(v)
    BY <1>0, <1>2, NamesAreApart DEF Build, Validate, MoveTo, Processes, Gated
  <2>2. ASSUME NEW e \in Entity
        PROVE  generation'[e] \in Mirror!Pictures(e, Len(revs[e]))
    <3>1. CASE generation'[e] = View(e)
      BY <1>0, <3>1, ViewIsPicture
    <3>2. CASE Validate(w) /\ View(e).shown = 0 /\ generation'[e] = [generation[e] EXCEPT !.shown = 0]
      <4>1. generation[e] \in Mirror!Pictures(e, Len(revs[e])) /\ generation[e] \in Views
        BY <1>0, <3>2 DEF Validate, Gated, Data
      <4>2. Len(revs[e]) \in 0 .. Len(revs[e])
        BY <1>0 DEF Data
      <4>3. generation[e].rev = Len(revs[e])
        BY <1>0, <4>1, <4>2, Picture
      <4>4. View(e) \in Views /\ View(e).rev = Len(revs[e])
        BY <1>0, ViewTyped
      <4>5. generation'[e] = View(e)
        BY <3>2, <4>1, <4>3, <4>4 DEF Views
      <4> QED
        BY <1>0, <4>5, ViewIsPicture
    <3>3. CASE Validate(w) /\ generation'[e] = generation[e]
      BY <3>3 DEF Validate, Gated
    <3> QED
      BY <1>2, <3>1, <3>2, <3>3 DEF Build, Validate
  <2>3. \A v \in Worker : pc'[v] \in Rebuilding <=> pc[v] \in Rebuilding
    BY <1>2, <2>1 DEF Build, Validate, Rebuilding
  <2>4. \A e \in Entity : generation'[e] \in Mirror!Pictures(e, Len(revs[e]))'
    BY <1>0, <2>2 DEF Mirror!Pictures
  <2>5. \A v \in Worker : ~InDelivery(v)'
    BY <1>0, <2>1 DEF InDelivery
  <2> QED
    BY <2>1, <2>3, <2>4, <2>5 DEF Gated, Rebuilding
<1>3. CASE Activate(w) \/ AbandonRebuild(w)
  <2>1. /\ gate = w /\ gate' = NoWorker /\ pc'[w] = "claiming"
        /\ \A v \in Worker \ {w} : pc'[v] = pc[v]
    BY <1>0, <1>3 DEF Activate, AbandonRebuild, EndRebuild, MoveTo, Processes, Gated
  <2>2. \A v \in Worker : pc'[v] \notin Rebuilding
    BY <2>1, NamesAreApart DEF Gated, Rebuilding
  <2> QED
    BY <2>1, <2>2, NamesAreApart DEF Gated, Rebuilding
<1> QED
  BY <1>1, <1>2, <1>3

LEMMA CrashKeepsGated ==
  ASSUME TypeOK, Gated, NEW w \in Worker, Crash(w)
  PROVE  Gated'
<1>1. /\ pc'[w] = "claiming" /\ revs' = revs
      /\ \A v \in Worker \ {w} : pc'[v] = pc[v] /\ lost'[v] = lost[v]
      /\ gate' = IF gate = w THEN NoWorker ELSE gate
  BY TypeParts DEF Crash, EndDrain, MoveTo, Processes, rows
<1>2. CASE gate = w
  <2>1. \A v \in Worker : pc'[v] \notin Rebuilding
    BY <1>1, <1>2, NamesAreApart DEF Gated, Rebuilding
  <2> QED
    BY <1>1, <1>2, <2>1, NamesAreApart DEF Gated, Rebuilding
<1>3. CASE gate # w
  <2>1. generation' = generation /\ gate' = gate /\ pc[w] \notin Rebuilding
    BY <1>1, <1>3 DEF Gated, Rebuilding, Crash
  <2>2. \A v \in Worker : InDelivery(v)' => InDelivery(v)
    BY <1>1 DEF InDelivery
  <2>3. \A v \in Worker : pc'[v] \in {"built", "validated"} =>
           \A e \in Entity : generation'[e] \in Mirror!Pictures(e, Len(revs[e]))'
    BY <1>1, <2>1 DEF Gated, Mirror!Pictures
  <2> QED
    BY <1>1, <2>1, <2>2, <2>3 DEF Gated, Rebuilding
<1> QED
  BY <1>2, <1>3

\* Time passes for a lease.
LEMMA LeaseEffect ==
  ASSUME TypeOK, NEW o \in Existing, LeaseExpires(o) \/ LeaseOverrun(o)
  PROVE  /\ UNCHANGED <<revs, index, generation, gate, process>>
         /\ OnlyOp(o[1], o[2], [Op(o) EXCEPT !.stale = TRUE])
         /\ o[1] \in Entity /\ o[2] \in DOMAIN ops[o[1]] /\ Op(o) = ops[o[1]][o[2]]
         /\ Op(o) \in Operations
<1> DEFINE op == [Op(o) EXCEPT !.stale = TRUE]
<1>0. Data
  BY TypeParts
<1>1. /\ o[1] \in Entity /\ o[2] \in DOMAIN ops[o[1]] /\ Op(o) = ops[o[1]][o[2]]
      /\ Op(o) \in Operations
  BY <1>0, ExistingTyped DEF Op
<1>2. op \in Operations
  BY <1>1 DEF Operations
<1>3. ops' = [ops EXCEPT ![o[1]][o[2]] = op]
  BY <1>1 DEF LeaseExpires, LeaseOverrun, SetStale
<1> HIDE DEF op
<1>4. OnlyOp(o[1], o[2], op)
  BY <1>0, <1>1, <1>2, <1>3, OneOp DEF Data
<1>5. UNCHANGED <<revs, index, generation, gate, process>>
  BY DEF LeaseExpires, LeaseOverrun, rows
<1> QED
  BY <1>1, <1>4, <1>5 DEF op

LEMMA GatedUnchanged ==
  ASSUME Gated, UNCHANGED <<revs, generation, gate, process>>
  PROVE  Gated'
  BY DEF Gated, process, InDelivery, Mirror!Pictures

LEMMA GatedInit == Init => Gated
  BY NamesAreApart DEF Init, Gated

LEMMA GatedNext == TypeOK /\ TypeOK' /\ Gated /\ [Next]_vars => Gated'
<1> SUFFICES ASSUME TypeOK, TypeOK', Gated, [Next]_vars PROVE Gated'
  OBVIOUS
<1>1. CASE UNCHANGED vars
  BY <1>1, GatedUnchanged DEF vars, rows
<1>2. ASSUME NEW o \in Existing, LeaseExpires(o) \/ LeaseOverrun(o) PROVE Gated'
  BY <1>2, LeaseEffect, GatedUnchanged
<1> QED
  BY <1>1, <1>2, WriterKeepsGated, DrainKeepsGated, RebuildKeepsGated, CrashKeepsGated
     DEF Next, Step, DrainStep

\* A generation that is about to be activated holds exactly the rows as they are, but
\* for memories whose validity has ended since (reindex.rebuild behind the gate).
THEOREM ActivatedIsCurrent == Spec => []GenerationIsCurrent
<1>1. TypeOK /\ Gated => GenerationIsCurrent
  <2> SUFFICES ASSUME TypeOK, Gated, NEW w \in Worker, pc[w] = "validated", NEW e \in Entity
               PROVE  \/ generation[e] = View(e)
                      \/ LastOf(revs[e]) = "lapsed" /\ generation[e].rev = Len(revs[e])
    BY DEF GenerationIsCurrent
  <2>0. Data
    BY TypeParts
  <2>1. /\ revs[e] \in Seq(RevisionStates) /\ generation[e] \in Views
        /\ Len(revs[e]) \in 0 .. Len(revs[e])
        /\ revs[e] # << >> => LastOf(revs[e]) \in RevisionStates /\ Len(revs[e]) > 0
        /\ revs[e] = << >> => Len(revs[e]) = 0
    BY <2>0, LastIsThere DEF Data
  <2>2. generation[e] \in Mirror!Pictures(e, Len(revs[e]))
    BY DEF Gated
  <2>3. generation[e].rev = Len(revs[e]) /\ Shows(e, Len(revs[e]), generation[e].shown)
    BY <2>0, <2>1, <2>2, Picture
  <2>4. View(e) \in Views /\ View(e).rev = Len(revs[e])
    BY <2>0, ViewTyped
  <2>5. \/ LastOf(revs[e]) = "lapsed"
        \/ generation[e].shown = View(e).shown
    BY <2>1, <2>3 DEF Shows, View, Exists, LastOf, RevisionStates
  <2> QED
    BY <2>1, <2>3, <2>4, <2>5 DEF Views
<1> QED
  BY <1>1, TypeInit, TypeNext, GatedInit, GatedNext, PTL DEF Spec

-----------------------------------------------------------------------------
(***************************************************************************)
(* The queue                                                               *)
(***************************************************************************)
\* A process settles the operation it has in hand, if it still has it claimed.
Settled(w) ==
    \E op \in Operations :
        /\ OnlyOp(Mine(w)[1], Mine(w)[2], op)
        /\ op = Op(Mine(w)) \/ ClaimedBy(Op(Mine(w)), w)
        /\ op.kind = Op(Mine(w)).kind /\ op.rev = Op(Mine(w)).rev
        /\ op.status = "done" => op = Op(Mine(w)) \/ (pc[w] = "applied" /\ ~lost[w])

LEMMA DrainSettles ==
  ASSUME TypeOK, Queued, NEW w \in Worker, Busy(w) \/ MarkDone(w) \/ Retain(w)
  PROVE  /\ Settled(w)
         /\ Mine(w)[1] \in Entity /\ Mine(w)[2] \in DOMAIN ops[Mine(w)[1]]
         /\ Op(Mine(w)) = ops[Mine(w)[1]][Mine(w)[2]] /\ Op(Mine(w)) \in Operations
         /\ ~InDelivery(w)'
<1> DEFINE e == Mine(w)[1]
           i == Mine(w)[2]
           old == Op(Mine(w))
<1>0. Data /\ Processes /\ pc[w] \in Inside
  BY TypeParts DEF Busy, MarkDone, Retain, Inside
<1>1. e \in Entity /\ i \in DOMAIN ops[e] /\ old = ops[e][i] /\ old \in Operations
  BY <1>0, MineIsThere DEF Op
<1>2. ~InDelivery(w)'
  BY <1>0 DEF Busy, MarkDone, Retain, EndDrain, NextDelivery, MoveTo, InDelivery, Processes
<1>3. ASSUME NEW op \in Operations, ops' = [ops EXCEPT ![e][i] = op]
      PROVE  OnlyOp(e, i, op)
  BY <1>0, <1>1, <1>3, OneOp DEF Data
<1>4. CASE Busy(w)
  <2> DEFINE op == IF ClaimedBy(old, w) THEN Unclaimed(old, "pending") ELSE old
  <2>1. ops' = [ops EXCEPT ![e][i] = op]
    BY <1>1, <1>4 DEF Busy
  <2>2. /\ op \in Operations /\ (op = old \/ ClaimedBy(old, w))
        /\ op.kind = old.kind /\ op.rev = old.rev
        /\ op.status = "done" => op = old
    BY <1>1, OpsTyped
  <2> HIDE DEF op
  <2>3. OnlyOp(e, i, op)
    BY <1>3, <2>1, <2>2
  <2> QED
    BY <1>1, <1>2, <2>2, <2>3 DEF Settled
<1>5. CASE MarkDone(w)
  <2> DEFINE op == Unclaimed(old, "done")
  <2>1. ops' = [ops EXCEPT ![e][i] = op]
    BY <1>1, <1>5 DEF MarkDone
  <2>2. op \in Operations /\ op.kind = old.kind /\ op.rev = old.rev
    BY <1>1, OpsTyped
  <2>3. ClaimedBy(old, w) /\ pc[w] = "applied" /\ ~lost[w]
    BY <1>5 DEF MarkDone, Queued, InDelivery
  <2> HIDE DEF op
  <2>4. OnlyOp(e, i, op)
    BY <1>3, <2>1, <2>2
  <2> QED
    BY <1>1, <1>2, <2>2, <2>3, <2>4 DEF Settled
<1>6. CASE Retain(w)
  <2> DEFINE op == IF ClaimedBy(old, w) THEN Retained(old) ELSE old
  <2>1. ops' = [ops EXCEPT ![e][i] = op]
    BY <1>1, <1>6 DEF Retain
  <2>2. /\ op \in Operations /\ (op = old \/ ClaimedBy(old, w))
        /\ op.kind = old.kind /\ op.rev = old.rev
        /\ op.status = "done" => op = old
    BY <1>1, OpsTyped
  <2> HIDE DEF op
  <2>3. OnlyOp(e, i, op)
    BY <1>3, <2>1, <2>2
  <2> QED
    BY <1>1, <1>2, <2>2, <2>3 DEF Settled
<1> QED
  BY <1>4, <1>5, <1>6

\* What Queued says of the rows and of the processes, apart.
InOrder ==
    \A e \in Entity :
        /\ Len(ops[e]) <= MaxOps
        /\ ops[e] # << >> =>
              /\ LastOf(ops[e]).rev = Len(revs[e])
              /\ LastOf(ops[e]).kind = "delete" => Exists(e) /\ LastOf(revs[e]) = "inactive"
        /\ \A i, j \in DOMAIN ops[e] :
              j < i /\ ops[e][i].status # "pending" => ~Outstanding(ops[e][j])

Fenced == \A w \in Worker : InDelivery(w) => ClaimedBy(Op(Mine(w)), w)

LEMMA QueuedParts == (Queued <=> InOrder /\ Fenced) /\ (InOrder' /\ Fenced' => Queued')
  BY DEF Queued, InOrder, Fenced

\* Rows whose revisions stay and whose operations keep their kind and revision.
LEMMA LastKept ==
  ASSUME Data, Data', InOrder, UNCHANGED revs,
         \A e \in Entity : DOMAIN ops'[e] = DOMAIN ops[e] /\ Len(ops'[e]) = Len(ops[e]),
         \A e \in Entity : \A i \in DOMAIN ops[e] :
            ops'[e][i].kind = ops[e][i].kind /\ ops'[e][i].rev = ops[e][i].rev,
         NEW e \in Entity
  PROVE  /\ Len(ops'[e]) <= MaxOps
         /\ ops'[e] # << >> =>
               /\ LastOf(ops'[e]).rev = Len(revs'[e])
               /\ LastOf(ops'[e]).kind = "delete" => Exists(e)' /\ LastOf(revs'[e]) = "inactive"
<1>1. ops'[e] \in Seq(Operations) /\ ops[e] \in Seq(Operations)
  BY DEF Data
<1>2. ops'[e] # << >> <=> ops[e] # << >>
  BY <1>1, EmptySeq
<1>3. ops[e] # << >> =>
         LastOf(ops'[e]).kind = LastOf(ops[e]).kind /\ LastOf(ops'[e]).rev = LastOf(ops[e]).rev
  BY <1>1, LastIsThere DEF LastOf
<1> QED
  BY <1>2, <1>3 DEF InOrder, Exists

\* An operation that is claimed is settled.
LEMMA SettledKeepsOrder ==
  ASSUME Data, Data', InOrder, UNCHANGED revs, NEW e \in Entity, NEW i \in DOMAIN ops[e],
         NEW op \in Operations, OnlyOp(e, i, op),
         op = ops[e][i] \/ ops[e][i].status = "processing",
         op.kind = ops[e][i].kind, op.rev = ops[e][i].rev
  PROVE  InOrder'
<1>1. /\ \A d \in Entity : DOMAIN ops'[d] = DOMAIN ops[d] /\ Len(ops'[d]) = Len(ops[d])
      /\ \A d \in Entity : \A j \in DOMAIN ops[d] :
            ops'[d][j] = IF d = e /\ j = i THEN op ELSE ops[d][j]
  BY DEF OnlyOp
<1>2. \A d \in Entity : \A j \in DOMAIN ops[d] :
         ops'[d][j].kind = ops[d][j].kind /\ ops'[d][j].rev = ops[d][j].rev
  BY <1>1
<1>3. ASSUME NEW d \in Entity, NEW k \in DOMAIN ops'[d], NEW j \in DOMAIN ops'[d],
             j < k, ops'[d][k].status # "pending"
      PROVE  ~Outstanding(ops'[d][j])
  <2>1. k \in DOMAIN ops[d] /\ j \in DOMAIN ops[d] /\ ops[d][k].status # "pending"
    BY <1>1, <1>3
  <2>2. ~Outstanding(ops[d][j])
    BY <1>3, <2>1 DEF InOrder
  <2>3. ops'[d][j] = ops[d][j]
    BY <1>1, <2>1, <2>2 DEF Outstanding
  <2> QED
    BY <2>2, <2>3
<1> QED
  BY <1>1, <1>2, <1>3, LastKept DEF InOrder

\* A process claims an operation whose turn it is; expired claims are taken back.
LEMMA ClaimKeepsOrder ==
  ASSUME TypeOK, TypeOK', InOrder, NEW w \in Worker, Claim(w)
  PROVE  InOrder'
<1>0. Data /\ Data' /\ UNCHANGED revs
  BY TypeParts DEF Claim, rows
<1>1. PICK o \in Existing :
           /\ Eligible(o)
           /\ \A e \in Entity : DOMAIN ops'[e] = DOMAIN ops[e] /\ Len(ops'[e]) = Len(ops[e])
           /\ \A e \in Entity : \A i \in DOMAIN ops[e] :
                 /\ ops'[e][i].kind = ops[e][i].kind /\ ops'[e][i].rev = ops[e][i].rev
                 /\ IF <<e, i>> = o THEN ops'[e][i].status = "processing"
                    ELSE \/ ops'[e][i] = ops[e][i]
                         \/ Expired(ops[e][i]) /\ ops'[e][i].status = "pending"
  BY TypeParts, Claimed
<1>2. /\ o[1] \in Entity /\ o[2] \in DOMAIN ops[o[1]] /\ o = <<o[1], o[2]>>
      /\ Op(o) \in Operations /\ Op(o) = ops[o[1]][o[2]]
  BY <1>0, ExistingTyped DEF Op
<1>3. Outstanding(Op(o))
  BY <1>1, <1>2 DEF Eligible, Reclaimed, Expired, Outstanding
<1>4. ASSUME NEW e \in Entity, NEW i \in DOMAIN ops'[e], NEW j \in DOMAIN ops'[e],
             j < i, ops'[e][i].status # "pending"
      PROVE  ~Outstanding(ops'[e][j])
  <2>1. i \in DOMAIN ops[e] /\ j \in DOMAIN ops[e] /\ i \in Nat /\ j \in Nat /\ j >= 1
    BY <1>0, <1>1, <1>4, LastIsThere DEF Data
  <2>2. ~Outstanding(ops[e][j])
    <3>1. CASE <<e, i>> = o
      <4>1. e = o[1] /\ i = o[2] /\ j \in 1 .. (i - 1)
        BY <1>2, <1>4, <2>1, <3>1
      <4> QED
        BY <1>1, <4>1 DEF Eligible, InTurn
    <3>2. CASE <<e, i>> # o
      <4>1. ops[e][i].status # "pending"
        BY <1>1, <1>4, <2>1, <3>2
      <4> QED
        BY <1>4, <2>1, <4>1 DEF InOrder
    <3> QED
      BY <3>1, <3>2
  <2>3. <<e, j>> # o
    BY <1>2, <1>3, <2>2
  <2>4. ops'[e][j] = ops[e][j]
    BY <1>1, <2>1, <2>2, <2>3 DEF Expired, Outstanding
  <2> QED
    BY <2>2, <2>4
<1> QED
  BY <1>0, <1>1, <1>4, LastKept DEF InOrder

\* It never takes one that is being delivered.
LEMMA ClaimKeepsFenced ==
  ASSUME TypeOK, Queued, NEW w \in Worker, Claim(w)
  PROVE  Fenced'
<1>0. Data /\ Processes
  BY TypeParts
<1>1. PICK o \in Existing :
           /\ Eligible(o)
           /\ \A e \in Entity : \A i \in DOMAIN ops[e] :
                 /\ ops'[e][i].kind = ops[e][i].kind /\ ops'[e][i].rev = ops[e][i].rev
                 /\ IF <<e, i>> = o THEN ops'[e][i].status = "processing"
                    ELSE \/ ops'[e][i] = ops[e][i]
                         \/ Expired(ops[e][i]) /\ ops'[e][i].status = "pending"
  BY <1>0, Claimed
<1>2. /\ Op(o) \in Operations /\ ~ReclaimBlocked
      /\ \A v \in Worker \ {w} : held'[v] = held[v]
      /\ pc' = pc /\ lost' = lost /\ pc[w] = "claiming"
  BY <1>0, ExistingTyped DEF Claim, Processes
<1>3. ASSUME NEW v \in Worker, InDelivery(v)'
      PROVE  ClaimedBy(Op(Mine(v)), v)'
  <2>1. v # w /\ InDelivery(v) /\ held'[v] = held[v]
    BY <1>2, <1>3 DEF InDelivery
  <2> DEFINE m == Mine(v)
  <2>2. /\ m[1] \in Entity /\ m[2] \in DOMAIN ops[m[1]] /\ m = <<m[1], m[2]>>
        /\ m \in OpIds /\ Op(m) \in Operations
    BY <1>0, <2>1, MineIsThere DEF InDelivery, Inside
  <2>3. m \in Existing
    <3>1. ops[m[1]] \in Seq(Operations) /\ Len(ops[m[1]]) <= MaxOps
      BY <1>0, <2>2 DEF Data, Queued
    <3>2. m[2] \in 1 .. MaxOps
      BY <2>2, <3>1, LastIsThere, BoundsAreNaturals
    <3> QED
      BY <2>2, <3>2 DEF Existing
  <2>4. ClaimedBy(Op(m), v) /\ ~Expired(Op(m))
    <3>1. ClaimedBy(Op(m), v) /\ Locked(m)
      BY <2>1 DEF Queued, Locked
    <3> QED
      BY <1>2, <2>3, <3>1 DEF ReclaimBlocked
  <2>5. m # o
    BY <1>1, <2>4 DEF Eligible, Reclaimed, ClaimedBy
  <2> HIDE DEF m
  <2>6. ops'[m[1]][m[2]] = Op(m)
    BY <1>1, <2>2, <2>4, <2>5 DEF Op
  <2>7. Mine(v)' = m
    BY <2>1 DEF Mine, m
  <2> QED
    BY <2>4, <2>6, <2>7 DEF Op, ClaimedBy
<1> QED
  BY <1>3 DEF Fenced

\* What is in hand stays claimed while another process settles its own.
LEMMA OthersStayFenced ==
  ASSUME TypeOK, Fenced, NEW w \in Worker, Settled(w), Becomes(w, pc'[w]), ~InDelivery(w)',
         Mine(w)[1] \in Entity, Mine(w)[2] \in DOMAIN ops[Mine(w)[1]]
  PROVE  Fenced'
<1>0. Data /\ Processes
  BY TypeParts
<1>1. PICK op \in Operations :
         /\ OnlyOp(Mine(w)[1], Mine(w)[2], op)
         /\ op = Op(Mine(w)) \/ ClaimedBy(Op(Mine(w)), w)
  BY DEF Settled
<1>2. ASSUME NEW v \in Worker, InDelivery(v)'
      PROVE  ClaimedBy(Op(Mine(v)), v)'
  <2>1. v # w /\ InDelivery(v) /\ held'[v] = held[v]
    BY <1>2 DEF InDelivery, Becomes
  <2>2. /\ Mine(v)[1] \in Entity /\ Mine(v)[2] \in DOMAIN ops[Mine(v)[1]]
        /\ ClaimedBy(Op(Mine(v)), v)
    BY <1>0, <2>1, MineIsThere DEF InDelivery, Inside, Fenced
  <2>3. ops'[Mine(v)[1]][Mine(v)[2]] = Op(Mine(v))
    BY <1>1, <2>1, <2>2 DEF OnlyOp, Op, ClaimedBy
  <2> QED
    BY <2>1, <2>2, <2>3 DEF Op, Mine, ClaimedBy
<1> QED
  BY <1>2 DEF Fenced

\* A writer appends an operation of the row as it then is.
LEMMA WroteIs ==
  ASSUME Data, Data', NEW e \in Entity, Wrote(e)
  PROVE  /\ Len(ops'[e]) = Len(ops[e]) + 1 /\ Len(ops[e]) \in Nat /\ ops'[e] # << >>
         /\ LastOf(ops'[e]).status = "pending" /\ LastOf(ops'[e]).rev = Len(revs'[e])
         /\ LastOf(ops'[e]).kind = "delete" => Exists(e)' /\ LastOf(revs'[e]) = "inactive"
         /\ \A i \in DOMAIN ops'[e] :
               \/ i = Len(ops'[e]) /\ ops'[e][i].status = "pending"
               \/ i \in DOMAIN ops[e] /\ i < Len(ops'[e]) /\ ops'[e][i] = ops[e][i]
         /\ \A i \in DOMAIN ops[e] : ops'[e][i] = ops[e][i]
<1>1. PICK op \in Operations :
         /\ ops'[e] = Append(ops[e], op) /\ op.status = "pending" /\ op.rev = Len(revs'[e])
         /\ op.kind = "delete" => revs'[e] # << >> /\ LastOf(revs'[e]) = "inactive"
  BY DEF Wrote
<1>2. ops[e] \in Seq(Operations) /\ ops'[e] \in Seq(Operations) /\ Len(ops[e]) \in Nat
  BY DEF Data
<1>3. /\ Len(ops'[e]) = Len(ops[e]) + 1 /\ ops'[e] # << >> /\ LastOf(ops'[e]) = op
      /\ \A i \in DOMAIN ops'[e] : ops'[e][i] = IF i = Len(ops[e]) + 1 THEN op ELSE ops[e][i]
      /\ DOMAIN ops[e] \subseteq DOMAIN ops'[e]
  BY <1>1, <1>2, Appended
<1>4. /\ \A i \in DOMAIN ops'[e] : i = Len(ops[e]) + 1 \/ (i \in DOMAIN ops[e] /\ i < Len(ops[e]) + 1)
      /\ \A i \in DOMAIN ops[e] : i # Len(ops[e]) + 1
  BY <1>2, <1>3
<1> QED
  BY <1>1, <1>2, <1>3, <1>4 DEF Exists

LEMMA WriterKeepsQueued ==
  ASSUME TypeOK, TypeOK', Queued, NEW e \in Entity, Writing(e)
  PROVE  Queued'
<1>0. Data /\ Data' /\ Processes
  BY TypeParts
<1>1. RowsGrow /\ (Wrote(e) \/ Aged(e)) /\ UNCHANGED process
  BY WriterEffect
<1>2. CASE Wrote(e)
  <2>1. /\ Len(ops'[e]) = Len(ops[e]) + 1 /\ Len(ops[e]) \in Nat
        /\ LastOf(ops'[e]).rev = Len(revs'[e])
        /\ LastOf(ops'[e]).kind = "delete" => Exists(e)' /\ LastOf(revs'[e]) = "inactive"
        /\ \A i \in DOMAIN ops'[e] :
               \/ i = Len(ops'[e]) /\ ops'[e][i].status = "pending"
               \/ i \in DOMAIN ops[e] /\ i < Len(ops'[e]) /\ ops'[e][i] = ops[e][i]
        /\ \A i \in DOMAIN ops[e] : ops'[e][i] = ops[e][i]
    BY <1>0, <1>2, WroteIs
  <2>2. Len(ops'[e]) <= MaxOps
    BY <1>2, <2>1, BoundsAreNaturals DEF Wrote
  <2>3. ASSUME NEW i \in DOMAIN ops'[e], NEW j \in DOMAIN ops'[e],
               j < i, ops'[e][i].status # "pending"
        PROVE  ~Outstanding(ops'[e][j])
    <3>1. i \in DOMAIN ops[e] /\ ops'[e][i] = ops[e][i] /\ i < Len(ops'[e])
      BY <2>1, <2>3
    <3>2. j # Len(ops'[e])
      BY <1>0, <2>3, <3>1, LastIsThere DEF Data
    <3>3. j \in DOMAIN ops[e] /\ ops'[e][j] = ops[e][j]
      BY <2>1, <3>2
    <3> QED
      BY <2>3, <3>1, <3>3 DEF Queued
  <2>4. \A d \in Entity \ {e} : ops'[d] = ops[d]
    BY <1>2 DEF Wrote
  <2>5. \A d \in Entity \ {e} : revs'[d] = revs[d]
    BY <1>0 DEF Writing, Add, Revise, SetStatus, Resend, Lapse, Revision, rows, Data
  <2>6. InOrder'
    BY <2>1, <2>2, <2>3, <2>4, <2>5, QueuedParts DEF InOrder, Exists
  <2>7. \A v \in Worker : InDelivery(v) =>
           /\ Mine(v)[1] \in Entity /\ Mine(v)[2] \in DOMAIN ops[Mine(v)[1]]
           /\ ClaimedBy(Op(Mine(v)), v)
    BY <1>0, MineIsThere DEF InDelivery, Inside, Queued
  <2>8. \A v \in Worker : InDelivery(v) => ops'[Mine(v)[1]][Mine(v)[2]] = Op(Mine(v))
    BY <2>1, <2>4, <2>7 DEF Op
  <2>9. Fenced'
    BY <1>1, <2>7, <2>8 DEF Fenced, process, InDelivery, Mine, Op, ClaimedBy
  <2> QED
    BY <2>6, <2>9, QueuedParts
<1>3. CASE Aged(e)
  <2>1. LastOf(revs[e]) # "inactive"
    BY <1>3 DEF Aged
  <2>2. InOrder'
    BY <1>3, <2>1 DEF Aged, InOrder, Queued, Exists
  <2>3. Fenced'
    BY <1>1, <1>3 DEF Aged, Fenced, Queued, process, InDelivery, Mine, Op, ClaimedBy
  <2> QED
    BY <2>2, <2>3, QueuedParts
<1> QED
  BY <1>1, <1>2, <1>3

\* The rows and the operations stay, and whoever delivers holds its claim.
LEMMA QueuedKept ==
  ASSUME Queued, UNCHANGED <<revs, ops>>,
         \A v \in Worker : InDelivery(v)' =>
            \/ InDelivery(v) /\ Mine(v)' = Mine(v)
            \/ Mine(v)' = Mine(v) /\ ClaimedBy(Op(Mine(v)), v)
  PROVE  Queued'
<1>1. InOrder'
  BY DEF Queued, InOrder, Exists
<1>2. Fenced'
  BY DEF Queued, Fenced, Op, ClaimedBy
<1> QED
  BY <1>1, <1>2, QueuedParts

LEMMA DrainKeepsQueued ==
  ASSUME TypeOK, TypeOK', Queued, NEW w \in Worker, DrainStep(w)
  PROVE  Queued'
<1>0. Data /\ Data' /\ Processes
  BY TypeParts
<1>1. /\ UNCHANGED revs /\ Becomes(w, pc'[w])
      /\ InDelivery(w)' => InDelivery(w) \/ Fence(w)
  BY DrainMoves
<1>2. \A v \in Worker \ {w} : InDelivery(v)' => InDelivery(v) /\ Mine(v)' = Mine(v)
  BY <1>1 DEF Becomes, InDelivery, Mine
<1>3. CASE Claim(w)
  BY <1>3, ClaimKeepsOrder, ClaimKeepsFenced, QueuedParts
<1>4. CASE Busy(w) \/ MarkDone(w) \/ Retain(w)
  <2>1. /\ Settled(w) /\ ~InDelivery(w)'
        /\ Mine(w)[1] \in Entity /\ Mine(w)[2] \in DOMAIN ops[Mine(w)[1]]
        /\ Op(Mine(w)) = ops[Mine(w)[1]][Mine(w)[2]]
    BY <1>4, DrainSettles
  <2>2. PICK op \in Operations :
           /\ OnlyOp(Mine(w)[1], Mine(w)[2], op)
           /\ op = Op(Mine(w)) \/ ClaimedBy(Op(Mine(w)), w)
           /\ op.kind = Op(Mine(w)).kind /\ op.rev = Op(Mine(w)).rev
    BY <2>1 DEF Settled
  <2>3. InOrder'
    BY <1>0, <1>1, <2>1, <2>2, SettledKeepsOrder, QueuedParts DEF ClaimedBy
  <2>4. Fenced'
    BY <1>1, <2>1, OthersStayFenced, QueuedParts
  <2> QED
    BY <2>3, <2>4, QueuedParts
<1>5. CASE Fence(w)
  <2>1. ops' = ops /\ Mine(w)' = Mine(w) /\ ClaimedBy(Op(Mine(w)), w)
    BY <1>5 DEF Fence, Mine, ClaimHolds
  <2> QED
    BY <1>1, <1>2, <2>1, QueuedKept
<1>6. CASE StartDelivering(w) \/ Obsolete(w) \/ TimeOut(w) \/ FindSessionLost(w)
  <2>1. ops' = ops /\ ~InDelivery(w)'
    BY <1>0, <1>6 DEF StartDelivering, Obsolete, TimeOut, FindSessionLost, EndDrain, NextDelivery,
                      MoveTo, InDelivery, Processes
  <2> QED
    BY <1>1, <1>2, <2>1, QueuedKept
<1>7. CASE Apply(w) \/ Fail(w) \/ LoseSession(w)
  <2>1. ops' = ops /\ Mine(w)' = Mine(w) /\ ~Fence(w)
    BY <1>7 DEF Apply, Fail, LoseSession, Mine, Fence
  <2> QED
    BY <1>1, <1>2, <2>1, QueuedKept
<1> QED
  BY <1>3, <1>4, <1>5, <1>6, <1>7 DEF DrainStep

LEMMA OtherStepsKeepQueued ==
  ASSUME TypeOK, TypeOK', Queued,
         \/ \E w \in Worker : \/ StartRebuild(w) \/ Build(w) \/ Validate(w) \/ Activate(w)
                              \/ AbandonRebuild(w) \/ Crash(w)
         \/ \E o \in Existing : LeaseExpires(o) \/ LeaseOverrun(o)
  PROVE  Queued'
<1>0. Data /\ Data' /\ Processes
  BY TypeParts
<1>1. ASSUME NEW w \in Worker, StartRebuild(w) \/ Build(w) \/ Validate(w) \/ Activate(w) \/ AbandonRebuild(w)
      PROVE  Queued'
  <2>1. /\ UNCHANGED <<revs, ops, held, lost>>
        /\ pc'[w] \notin {"fenced", "applied"} /\ \A v \in Worker \ {w} : pc'[v] = pc[v]
    BY <1>0, <1>1 DEF StartRebuild, Build, Validate, Activate, AbandonRebuild, EndRebuild, MoveTo,
                      rows, Processes
  <2> QED
    BY <2>1, QueuedKept DEF InDelivery, Mine
<1>2. ASSUME NEW w \in Worker, Crash(w) PROVE Queued'
  <2>1. /\ UNCHANGED <<revs, ops>> /\ pc'[w] = "claiming"
        /\ \A v \in Worker \ {w} : pc'[v] = pc[v] /\ held'[v] = held[v] /\ lost'[v] = lost[v]
    BY <1>0, <1>2 DEF Crash, EndDrain, MoveTo, rows, Processes
  <2> QED
    BY <2>1, QueuedKept DEF InDelivery, Mine
<1>3. ASSUME NEW o \in Existing, LeaseExpires(o) \/ LeaseOverrun(o) PROVE Queued'
  <2> DEFINE op == [Op(o) EXCEPT !.stale = TRUE]
  <2>1. /\ UNCHANGED <<revs, process>> /\ OnlyOp(o[1], o[2], op)
        /\ o[1] \in Entity /\ o[2] \in DOMAIN ops[o[1]] /\ Op(o) = ops[o[1]][o[2]]
        /\ Op(o) \in Operations /\ Op(o).status = "processing"
    BY <1>3, LeaseEffect DEF LeaseExpires, LeaseOverrun
  <2>2. /\ op \in Operations /\ op.kind = Op(o).kind /\ op.rev = Op(o).rev
        /\ op.status = Op(o).status /\ op.by = Op(o).by
    BY <2>1 DEF Operations
  <2> HIDE DEF op
  <2>3. InOrder'
    BY <1>0, <2>1, <2>2, SettledKeepsOrder, QueuedParts
  <2>4. \A v \in Worker : InDelivery(v) =>
           /\ Mine(v)[1] \in Entity /\ Mine(v)[2] \in DOMAIN ops[Mine(v)[1]]
           /\ ClaimedBy(Op(Mine(v)), v)
    BY <1>0, MineIsThere DEF InDelivery, Inside, Queued
  <2>5. \A v \in Worker : InDelivery(v) => ClaimedBy(ops'[Mine(v)[1]][Mine(v)[2]], v)
    BY <2>1, <2>2, <2>4 DEF OnlyOp, Op, ClaimedBy
  <2>6. Fenced'
    BY <2>1, <2>5 DEF Fenced, process, InDelivery, Mine, Op
  <2> QED
    BY <2>3, <2>6, QueuedParts
<1> QED
  BY <1>1, <1>2, <1>3

LEMMA QueuedInit == Init => Queued
<1> SUFFICES ASSUME Init PROVE Queued
  OBVIOUS
<1>1. \A e \in Entity : ops[e] = << >> /\ Len(ops[e]) = 0 /\ DOMAIN ops[e] = {}
  BY DEF Init
<1>2. \A w \in Worker : ~InDelivery(w)
  BY DEF Init, InDelivery
<1> QED
  BY <1>1, <1>2, BoundsAreNaturals DEF Queued

LEMMA QueuedNext == TypeOK /\ TypeOK' /\ Queued /\ [Next]_vars => Queued'
<1> SUFFICES ASSUME TypeOK, TypeOK', Queued, [Next]_vars PROVE Queued'
  OBVIOUS
<1>1. CASE UNCHANGED vars
  BY <1>1, QueuedKept DEF vars, rows, process, InDelivery, Mine
<1> QED
  BY <1>1, WriterKeepsQueued, DrainKeepsQueued, OtherStepsKeepQueued DEF Next, Step, DrainStep

-----------------------------------------------------------------------------
(***************************************************************************)
(* The mirror                                                              *)
(***************************************************************************)
\* What Followed says of the points, of rows whose operations are done, and of what
\* a process has in hand.
Shown ==
    \A e \in Entity :
        index[e].rev <= Len(revs[e]) /\ index[e] \in Mirror!Pictures(e, index[e].rev)

CaughtUp ==
    \A e \in Entity :
        ops[e] # << >> /\ LastOf(ops[e]).status = "done" => index[e].rev = Len(revs[e])

LastInHand(w) == Mine(w)[2] = Len(ops[Mine(w)[1]])

InHand(w) ==
    /\ pc[w] = "fenced" =>
          /\ index[Mine(w)[1]].rev <= seen[w].rev
          /\ seen[w].rev <= Len(revs[Mine(w)[1]])
          /\ seen[w] \in Mirror!Pictures(Mine(w)[1], seen[w].rev)
          /\ LastInHand(w) => seen[w].rev = Len(revs[Mine(w)[1]])
    /\ pc[w] = "applied" /\ LastInHand(w) => index[Mine(w)[1]].rev = Len(revs[Mine(w)[1]])

LEMMA FollowedParts ==
  /\ Followed <=> Shown /\ CaughtUp /\ \A w \in Worker : InHand(w)
  /\ Shown' /\ CaughtUp' /\ (\A w \in Worker : InHand(w)') => Followed'
  BY DEF Followed, Shown, CaughtUp, InHand, LastInHand

\* A row has one delivery at a time, and its last operation is not done meanwhile.
LEMMA OneDelivery ==
  ASSUME TypeOK, Queued, NEW w \in Worker, InDelivery(w)
  PROVE  /\ Mine(w)[1] \in Entity /\ Mine(w)[2] \in DOMAIN ops[Mine(w)[1]]
         /\ ops[Mine(w)[1]] # << >> /\ LastOf(ops[Mine(w)[1]]).status # "done"
         /\ Op(Mine(w)) = ops[Mine(w)[1]][Mine(w)[2]] /\ Op(Mine(w)) \in Operations
         /\ \A v \in Worker : InDelivery(v) /\ Mine(v)[1] = Mine(w)[1] => v = w
<1>0. Data /\ Processes
  BY TypeParts
<1>1. ASSUME NEW v \in Worker, InDelivery(v)
      PROVE  /\ Mine(v)[1] \in Entity /\ Mine(v)[2] \in DOMAIN ops[Mine(v)[1]]
             /\ Op(Mine(v)) = ops[Mine(v)[1]][Mine(v)[2]] /\ Op(Mine(v)) \in Operations
             /\ ClaimedBy(Op(Mine(v)), v)
             /\ ops[Mine(v)[1]] \in Seq(Operations)
  BY <1>0, <1>1, MineIsThere DEF InDelivery, Inside, Op, Queued, Data
<1> DEFINE e == Mine(w)[1]
           i == Mine(w)[2]
<1>2. /\ e \in Entity /\ i \in DOMAIN ops[e] /\ ops[e][i].status = "processing"
      /\ ops[e][i].by = w /\ ops[e] \in Seq(Operations)
  BY <1>1 DEF ClaimedBy
<1>3. /\ ops[e] # << >> /\ Len(ops[e]) \in DOMAIN ops[e] /\ i \in Nat /\ i <= Len(ops[e])
      /\ Len(ops[e]) \in Nat
  BY <1>2, LastIsThere, EmptySeq
<1>4. LastOf(ops[e]).status # "done"
  <2>1. CASE i = Len(ops[e])
    BY <1>2, <2>1 DEF LastOf
  <2>2. CASE i < Len(ops[e])
    BY <1>2, <1>3, <2>2 DEF Queued, Outstanding, LastOf
  <2> QED
    BY <1>3, <2>1, <2>2
<1>5. ASSUME NEW v \in Worker, InDelivery(v), Mine(v)[1] = e
      PROVE  v = w
  <2> DEFINE k == Mine(v)[2]
  <2>1. k \in DOMAIN ops[e] /\ ops[e][k].status = "processing" /\ ops[e][k].by = v
    BY <1>1, <1>5 DEF ClaimedBy
  <2>2. k \in Nat
    BY <1>2, <2>1, LastIsThere
  <2> HIDE DEF k, i, e
  <2>3. ~(k < i) /\ ~(i < k)
    BY <1>2, <2>1 DEF Queued, Outstanding
  <2> QED
    BY <1>2, <1>3, <2>1, <2>2, <2>3
<1> QED
  BY <1>1, <1>3, <1>4, <1>5

\* What a delivery makes of the index.
LEMMA DeliveredIs ==
  ASSUME TypeOK, Queued, Followed, NEW w \in Worker, pc[w] = "fenced", ~lost[w]
  PROVE  LET e == Mine(w)[1]
         IN  /\ \A d \in Entity \ {e} : Delivered(w)[d] = index[d]
             /\ \/ Delivered(w)[e] = index[e]
                \/ /\ index[e].rev <= Delivered(w)[e].rev
                   /\ Delivered(w)[e].rev <= Len(revs[e])
                   /\ Delivered(w)[e] \in Mirror!Pictures(e, Delivered(w)[e].rev)
             /\ LastInHand(w) => Delivered(w)[e].rev = Len(revs[e])
<1> DEFINE e == Mine(w)[1]
<1>0. Data /\ Processes /\ InDelivery(w)
  BY TypeParts DEF InDelivery
<1>1. /\ e \in Entity /\ Op(Mine(w)) = ops[e][Mine(w)[2]] /\ Op(Mine(w)) \in Operations
      /\ ops[e] # << >>
  BY <1>0, OneDelivery
<1>2. /\ seen[w] \in Views /\ index[e] \in Views /\ revs[e] \in Seq(RevisionStates)
      /\ index[e].rev <= seen[w].rev /\ seen[w].rev <= Len(revs[e])
      /\ seen[w] \in Mirror!Pictures(e, seen[w].rev)
      /\ LastInHand(w) => seen[w].rev = Len(revs[e])
  BY <1>0, <1>1, FollowedParts DEF Data, Processes, InHand
<1>3. /\ \A d \in Entity \ {e} : Delivered(w)[d] = index[d]
      /\ Delivered(w)[e] = Outcome(Op(Mine(w)), seen[w], index[e])
  BY <1>0, <1>1 DEF Delivered, Data
<1>4. Delivered(w)[e] = index[e] \/ Delivered(w)[e] = seen[w]
  BY <1>3 DEF Outcome
<1>5. ASSUME LastInHand(w) PROVE Delivered(w)[e].rev = Len(revs[e])
  <2> DEFINE n == Len(revs[e])
  <2>1. /\ Op(Mine(w)) = LastOf(ops[e]) /\ Op(Mine(w)).rev = n
        /\ Op(Mine(w)).kind = "delete" => revs[e] # << >> /\ LastOf(revs[e]) = "inactive"
    BY <1>1, <1>5 DEF LastInHand, LastOf, Queued, Exists
  <2>2. n \in Nat /\ n \in 0 .. Len(revs[e]) /\ (revs[e] # << >> <=> n > 0)
    BY <1>2, EmptySeq
  <2>3. Shows(e, n, seen[w].shown)
    BY <1>0, <1>1, <1>2, <1>5, <2>2, Picture
  <2>4. /\ n > 0 => LastOf(revs[e]) = revs[e][n] /\ revs[e][n] \in RevisionStates
        /\ Op(Mine(w)).kind \in {"upsert", "delete"}
    BY <1>1, <1>2, <2>2 DEF LastOf, Operations
  <2>5. seen[w].shown = 0 \/ (Op(Mine(w)).kind = "upsert" /\ seen[w].shown = n)
    BY <2>1, <2>2, <2>3, <2>4 DEF Shows, RevisionStates
  <2>6. Delivered(w)[e] = seen[w]
    BY <1>3, <2>1, <2>5 DEF Outcome
  <2> QED
    BY <1>2, <1>5, <2>6
<1> QED
  BY <1>2, <1>3, <1>4, <1>5

\* Points stay, or follow a revision their row has, not before the one they followed.
PointsMove ==
    \/ index' = index
    \/ /\ revs' = revs
       /\ \A e \in Entity :
             \/ index'[e] = index[e]
             \/ /\ index[e].rev <= index'[e].rev
                /\ index'[e].rev <= Len(revs[e])
                /\ index'[e] \in Mirror!Pictures(e, index'[e].rev)

LEMMA DeliveryMovesPoints ==
  ASSUME TypeOK, Queued, Followed, NobodyLost, NEW w \in Worker, Apply(w) \/ Fail(w)
  PROVE  PointsMove
<1>1. /\ revs' = revs /\ index' \in {index, Delivered(w)}
      /\ pc[w] = "fenced" /\ ~lost[w]
  BY DEF Apply, Fail, rows, NobodyLost
<1>2. CASE index' = index
  BY <1>2 DEF PointsMove
<1>3. CASE index' = Delivered(w)
  <2>1. \A d \in Entity \ {Mine(w)[1]} : index'[d] = index[d]
    BY <1>1, <1>3, DeliveredIs
  <2>2. LET e == Mine(w)[1]
        IN  \/ index'[e] = index[e]
            \/ /\ index[e].rev <= index'[e].rev /\ index'[e].rev <= Len(revs[e])
               /\ index'[e] \in Mirror!Pictures(e, index'[e].rev)
    BY <1>1, <1>3, DeliveredIs
  <2> QED
    BY <1>1, <2>1, <2>2 DEF PointsMove
<1> QED
  BY <1>1, <1>2, <1>3

\* A generation is a picture of the rows as they are.
LEMMA ActivationMovesPoints ==
  ASSUME TypeOK, Gated, Followed, NEW w \in Worker, Activate(w) \/ AbandonRebuild(w)
  PROVE  /\ PointsMove /\ revs' = revs
         /\ index' = index \/ \A e \in Entity : index'[e].rev = Len(revs[e])
<1>0. Data /\ revs' = revs
  BY TypeParts DEF Activate, AbandonRebuild, rows
<1>1. CASE index' = index
  BY <1>0, <1>1 DEF PointsMove
<1>2. CASE pc[w] = "validated" /\ index' = generation
  <2>1. ASSUME NEW e \in Entity
        PROVE  /\ index'[e].rev = Len(revs[e]) /\ index[e].rev <= index'[e].rev
               /\ index'[e].rev <= Len(revs[e])
               /\ index'[e] \in Mirror!Pictures(e, index'[e].rev)
    <3>1. /\ generation[e] \in Views /\ Len(revs[e]) \in 0 .. Len(revs[e]) /\ Len(revs[e]) \in Nat
          /\ generation[e] \in Mirror!Pictures(e, Len(revs[e]))
      BY <1>0, <1>2 DEF Data, Gated
    <3>2. generation[e].rev = Len(revs[e])
      BY <1>0, <3>1, Picture
    <3>3. index[e].rev <= Len(revs[e])
      BY FollowedParts DEF Shown
    <3> QED
      BY <1>2, <3>1, <3>2, <3>3
  <2> QED
    BY <1>0, <2>1 DEF PointsMove
<1> QED
  BY <1>1, <1>2 DEF Activate, AbandonRebuild

\* The points stay pictures of revisions of their rows.
LEMMA ShownNext ==
  ASSUME Data, Data', Shown, PointsMove, RowsGrow
  PROVE  Shown'
<1>1. ASSUME NEW e \in Entity
      PROVE  index'[e].rev <= Len(revs'[e]) /\ index'[e] \in Mirror!Pictures(e, index[e].rev)'
  <2>1. /\ index[e] \in Views /\ index'[e] \in Views
        /\ Len(revs[e]) \in Nat /\ Len(revs'[e]) \in Nat /\ Len(revs[e]) <= Len(revs'[e])
    BY DEF Data, RowsGrow
  <2>2. PICK n \in 0 .. Len(revs[e]) : n = index'[e].rev /\ index'[e] \in Mirror!Pictures(e, n)
    <3>1. index'[e].rev <= Len(revs[e]) /\ index'[e] \in Mirror!Pictures(e, index'[e].rev)
      BY DEF PointsMove, Shown
    <3>2. index'[e].rev \in 0 .. Len(revs[e])
      BY <2>1, <3>1 DEF Views
    <3> QED
      BY <3>1, <3>2
  <2>3. index'[e] \in Mirror!Pictures(e, n)'
    BY <2>1, <2>2, PicturesStay
  <2> QED
    BY <2>1, <2>2, <2>3 DEF Mirror!Pictures
<1> QED
  BY <1>1 DEF Shown

\* A process that does not move, and whose row does not, keeps what it has in hand.
Untouched(v) ==
    LET e == Mine(v)[1]
    IN  /\ pc'[v] = pc[v] /\ seen'[v] = seen[v] /\ Mine(v)' = Mine(v)
        /\ index'[e].rev = index[e].rev
        /\ Mine(v)[2] = Len(ops'[e]) =>
              Mine(v)[2] = Len(ops[e]) /\ Len(revs'[e]) = Len(revs[e])

LEMMA InHandStays ==
  ASSUME TypeOK, TypeOK', RowsGrow, NEW v \in Worker, InHand(v), Untouched(v),
         pc[v] \in {"fenced", "applied"}
  PROVE  InHand(v)'
<1> DEFINE e == Mine(v)[1]
<1>0. Data /\ Data' /\ Processes /\ e \in Entity
  BY TypeParts, MineIsThere DEF Inside
<1>1. seen[v] \in Views /\ Len(revs[e]) \in Nat /\ Len(revs'[e]) \in Nat /\ index[e] \in Views
  BY <1>0 DEF Data, Processes
<1>2. /\ pc'[v] = pc[v] /\ seen'[v] = seen[v] /\ Mine(v)' = Mine(v)
      /\ index'[e].rev = index[e].rev
      /\ LastInHand(v)' => LastInHand(v) /\ Len(revs'[e]) = Len(revs[e])
  BY DEF Untouched, LastInHand
<1>3. CASE pc[v] = "fenced"
  <2>1. /\ index[e].rev <= seen[v].rev /\ seen[v].rev <= Len(revs[e])
        /\ seen[v] \in Mirror!Pictures(e, seen[v].rev)
        /\ LastInHand(v) => seen[v].rev = Len(revs[e])
    BY <1>3 DEF InHand
  <2>2. seen[v].rev \in 0 .. Len(revs[e])
    BY <1>1, <2>1 DEF Views
  <2>3. PICK n \in 0 .. Len(revs[e]) : n = seen[v].rev
    BY <2>2
  <2>4. seen[v] \in Mirror!Pictures(e, n)'
    <3>1. PICK d \in Entity : d = e
      BY <1>0
    <3>2. seen[v] \in Mirror!Pictures(d, n) /\ n \in 0 .. Len(revs[d])
      BY <2>1, <2>3, <3>1
    <3>3. PICK x \in Views : x = seen[v]
      BY <1>1
    <3>4. x \in Mirror!Pictures(d, n)'
      BY <1>0, <3>2, <3>3, PicturesStay
    <3>5. e' = d
      BY <1>2, <3>1
    <3> QED
      BY <1>2, <3>3, <3>4, <3>5 DEF Mirror!Pictures
  <2>5. Len(revs[e]) <= Len(revs'[e])
    BY <1>0 DEF RowsGrow
  <2>6. seen[v] \in Mirror!Pictures(e, seen[v].rev)'
    BY <1>2, <2>3, <2>4 DEF Mirror!Pictures
  <2>7. seen'[v].rev <= Len(revs'[e])
    <3>1. seen[v].rev \in Nat
      BY <1>1 DEF Views
    <3> QED
      BY <1>1, <1>2, <2>1, <2>5, <3>1
  <2>8. (seen[v] \in Mirror!Pictures(Mine(v)[1], seen[v].rev))'
    BY <1>2, <2>6 DEF Mirror!Pictures
  <2> QED
    BY <1>2, <1>3, <2>1, <2>7, <2>8 DEF InHand
<1>4. CASE pc[v] = "applied"
  BY <1>2, <1>4 DEF InHand
<1> QED
  BY <1>3, <1>4

\* While nobody is lost, to be fenced or applied is to be in delivery.
LEMMA FencedDelivers ==
  ASSUME NobodyLost, NEW v \in Worker, pc[v] \in {"fenced", "applied"}
  PROVE  InDelivery(v)
  BY DEF NobodyLost, InDelivery

LEMMA WriterKeepsFollowed ==
  ASSUME TypeOK, TypeOK', Queued, Followed, NobodyLost, NEW e \in Entity, Writing(e)
  PROVE  Followed'
<1>0. Data /\ Data' /\ Processes
  BY TypeParts
<1>1. RowsGrow /\ (Wrote(e) \/ Aged(e)) /\ UNCHANGED <<index, process>>
  BY WriterEffect
<1>2. \A d \in Entity \ {e} : revs'[d] = revs[d]
  BY <1>0 DEF Writing, Add, Revise, SetStatus, Resend, Lapse, Revision, rows, Data
<1>3. Shown'
  BY <1>0, <1>1, ShownNext, FollowedParts DEF PointsMove
<1>4. \A d \in Entity : \/ ops'[d] = ops[d] /\ Len(revs'[d]) = Len(revs[d])
                        \/ d = e /\ Wrote(e)
  BY <1>1, <1>2 DEF Wrote, Aged
<1>5. Wrote(e) => /\ Len(ops'[e]) = Len(ops[e]) + 1 /\ Len(ops[e]) \in Nat
                  /\ LastOf(ops'[e]).status = "pending"
  BY <1>0, WroteIs
<1>6. CaughtUp'
  <2>1. CaughtUp /\ index' = index
    BY <1>1, FollowedParts
  <2> QED
    BY <1>4, <1>5, <2>1 DEF CaughtUp
<1>7. ASSUME NEW v \in Worker PROVE InHand(v)'
  <2>1. pc' = pc /\ held' = held /\ seen' = seen /\ index' = index
    BY <1>1 DEF process
  <2>2. CASE pc[v] \in {"fenced", "applied"}
    <3>1. Mine(v)[1] \in Entity /\ Mine(v)[2] \in DOMAIN ops[Mine(v)[1]]
      BY <1>0, <2>2, MineIsThere DEF Inside
    <3>2. Mine(v)[2] <= Len(ops[Mine(v)[1]]) /\ Mine(v)[2] \in Nat
      BY <1>0, <3>1, LastIsThere DEF Data
    <3>3. Untouched(v)
      <4>1. CASE Mine(v)[1] = e /\ Wrote(e)
        BY <1>5, <2>1, <3>2, <4>1 DEF Untouched, Mine
      <4>2. CASE ops'[Mine(v)[1]] = ops[Mine(v)[1]] /\ Len(revs'[Mine(v)[1]]) = Len(revs[Mine(v)[1]])
        BY <2>1, <4>2 DEF Untouched, Mine
      <4> QED
        BY <1>4, <3>1, <4>1, <4>2
    <3> QED
      BY <1>1, <2>2, <3>3, InHandStays, FollowedParts
  <2>3. CASE pc[v] \notin {"fenced", "applied"}
    BY <2>1, <2>3 DEF InHand
  <2> QED
    BY <2>2, <2>3
<1> QED
  BY <1>3, <1>6, <1>7, FollowedParts

\* What a move of a drain makes of the operations and of the points.
LEMMA DrainEffect ==
  ASSUME TypeOK, Queued, Followed, NobodyLost, NEW w \in Worker, DrainStep(w)
  PROVE  /\ PointsMove
         /\ \A d \in Entity : Len(ops'[d]) = Len(ops[d])
         /\ \A d \in Entity :
               \/ index'[d] = index[d]
               \/ InDelivery(w) /\ d = Mine(w)[1] /\ ops' = ops
         /\ \A d \in Entity :
               ops'[d] # << >> /\ LastOf(ops'[d]).status = "done" =>
                  /\ ops[d] # << >>
                  /\ \/ LastOf(ops[d]).status = "done"
                     \/ pc[w] = "applied" /\ d = Mine(w)[1] /\ LastInHand(w)
<1>0. Data /\ Processes /\ \A d \in Entity : ops[d] \in Seq(Operations)
  BY TypeParts DEF Data
<1>1. CASE Claim(w)
  <2>1. PICK o \in Existing :
           /\ ops' \in [Entity -> Seq(Operations)]
           /\ \A e \in Entity : DOMAIN ops'[e] = DOMAIN ops[e] /\ Len(ops'[e]) = Len(ops[e])
           /\ \A e \in Entity : \A i \in DOMAIN ops[e] :
                 IF <<e, i>> = o THEN ops'[e][i].status = "processing"
                 ELSE \/ ops'[e][i] = ops[e][i]
                      \/ Expired(ops[e][i]) /\ ops'[e][i].status = "pending"
    BY <1>0, <1>1, Claimed
  <2>2. ASSUME NEW d \in Entity, ops'[d] # << >>, LastOf(ops'[d]).status = "done"
        PROVE  ops[d] # << >> /\ LastOf(ops[d]).status = "done"
    <3>1. /\ ops'[d] \in Seq(Operations) /\ Len(ops'[d]) = Len(ops[d])
          /\ Len(ops[d]) \in DOMAIN ops[d] /\ ops[d] # << >>
      BY <1>0, <2>1, <2>2, LastIsThere, EmptySeq
    <3>2. ops'[d][Len(ops[d])].status = "done"
      BY <2>2, <3>1 DEF LastOf
    <3>3. ops[d][Len(ops[d])].status = "done"
      BY <2>1, <3>1, <3>2
    <3> QED
      BY <3>1, <3>3 DEF LastOf
  <2>3. index' = index
    BY <1>1 DEF Claim
  <2> QED
    BY <2>1, <2>2, <2>3 DEF PointsMove
<1>2. CASE Busy(w) \/ MarkDone(w) \/ Retain(w)
  <2> DEFINE m == Mine(w)
  <2>1. /\ Settled(w)
        /\ m[1] \in Entity /\ m[2] \in DOMAIN ops[m[1]]
        /\ Op(m) = ops[m[1]][m[2]] /\ Op(m) \in Operations
    BY <1>2, DrainSettles
  <2>2. PICK op \in Operations :
           /\ OnlyOp(m[1], m[2], op)
           /\ op.status = "done" => op = Op(m) \/ pc[w] = "applied"
    BY <2>1 DEF Settled
  <2>3. ASSUME NEW d \in Entity, ops'[d] # << >>, LastOf(ops'[d]).status = "done"
        PROVE  /\ ops[d] # << >>
               /\ \/ LastOf(ops[d]).status = "done"
                  \/ pc[w] = "applied" /\ d = Mine(w)[1] /\ LastInHand(w)
    <3>1. /\ ops'[d] \in Seq(Operations) /\ Len(ops'[d]) = Len(ops[d])
          /\ Len(ops[d]) \in DOMAIN ops[d] /\ ops[d] # << >>
      BY <1>0, <2>2, <2>3, LastIsThere, EmptySeq DEF OnlyOp
    <3>2. ops'[d][Len(ops[d])].status = "done"
      BY <2>3, <3>1 DEF LastOf
    <3>3. CASE d = m[1] /\ Len(ops[d]) = m[2]
      BY <2>1, <2>2, <3>1, <3>2, <3>3 DEF OnlyOp, LastInHand, LastOf
    <3>4. CASE ~(d = m[1] /\ Len(ops[d]) = m[2])
      BY <2>2, <3>1, <3>2, <3>4 DEF OnlyOp, LastOf
    <3> QED
      BY <3>1, <3>3, <3>4
  <2>4. index' = index
    BY <1>2 DEF Busy, MarkDone, Retain
  <2>5. \A d \in Entity : Len(ops'[d]) = Len(ops[d])
    BY <2>2 DEF OnlyOp
  <2> QED
    BY <2>3, <2>4, <2>5 DEF PointsMove
<1>3. CASE Apply(w) \/ Fail(w)
  <2>1. /\ ops' = ops /\ index' \in {index, Delivered(w)}
        /\ pc[w] = "fenced" /\ ~lost[w]
    BY <1>3 DEF Apply, Fail, NobodyLost
  <2>2. \A d \in Entity \ {Mine(w)[1]} : index'[d] = index[d]
    BY <2>1, DeliveredIs
  <2>3. PointsMove
    BY <1>3, DeliveryMovesPoints
  <2> QED
    BY <2>1, <2>2, <2>3 DEF InDelivery
<1>4. CASE StartDelivering(w) \/ Fence(w) \/ Obsolete(w) \/ TimeOut(w) \/ LoseSession(w) \/ FindSessionLost(w)
  <2>1. ops' = ops /\ index' = index
    BY <1>4 DEF StartDelivering, Fence, Obsolete, TimeOut, LoseSession, FindSessionLost
  <2> QED
    BY <2>1 DEF PointsMove
<1> QED
  BY <1>1, <1>2, <1>3, <1>4 DEF DrainStep

\* What the process that moves has in hand afterwards.
LEMMA DrainKeepsOwn ==
  ASSUME TypeOK, Queued, Followed, NobodyLost, NobodyLost', NEW w \in Worker, DrainStep(w)
  PROVE  InHand(w)'
<1>0. Data /\ Processes /\ UNCHANGED revs
  BY TypeParts, DrainMoves
<1>1. CASE Fence(w)
  <2> DEFINE e == Mine(w)[1]
  <2>1. e \in Entity
    BY <1>0, <1>1, MineIsThere DEF Fence, Inside
  <2>2. /\ pc'[w] = "fenced" /\ seen'[w] = View(e) /\ Mine(w)' = Mine(w) /\ UNCHANGED <<ops, index>>
    BY <1>0, <1>1 DEF Fence, MoveTo, Processes, Mine
  <2>3. View(e).rev = Len(revs[e]) /\ View(e) \in Mirror!Pictures(e, Len(revs[e]))
    BY <1>0, <2>1, ViewTyped, ViewIsPicture
  <2>4. index[e].rev <= Len(revs[e]) /\ Len(revs[e]) \in Nat
    BY <1>0, <2>1, FollowedParts DEF Shown, Data
  <2>5. (seen[w] \in Mirror!Pictures(Mine(w)[1], seen[w].rev))'
    BY <1>0, <2>2, <2>3 DEF Mirror!Pictures
  <2> QED
    BY <1>0, <2>2, <2>3, <2>4, <2>5 DEF InHand
<1>2. CASE Apply(w)
  <2>1. /\ pc[w] = "fenced" /\ ~lost[w] /\ pc'[w] = "applied" /\ Mine(w)' = Mine(w)
        /\ ops' = ops /\ index' = Delivered(w)
    BY <1>0, <1>2 DEF Apply, MoveTo, Processes, Mine, NobodyLost
  <2>2. LastInHand(w) => index'[Mine(w)[1]].rev = Len(revs[Mine(w)[1]])
    BY <2>1, DeliveredIs
  <2> QED
    BY <1>0, <2>1, <2>2 DEF InHand, LastInHand
<1>3. CASE LoseSession(w)
  BY <1>0, <1>3 DEF LoseSession, NobodyLost, Processes
<1>4. CASE /\ ~Fence(w) /\ ~Apply(w) /\ ~LoseSession(w)
  <2>1. pc'[w] \notin {"fenced", "applied"}
    BY <1>0, <1>4 DEF DrainStep, Claim, StartDelivering, Busy, Obsolete, TimeOut, Fail, MarkDone,
                      Retain, FindSessionLost, EndDrain, NextDelivery, MoveTo, Processes
  <2> QED
    BY <2>1 DEF InHand
<1> QED
  BY <1>1, <1>2, <1>3, <1>4

LEMMA DrainKeepsFollowed ==
  ASSUME TypeOK, TypeOK', Queued, Followed, NobodyLost, NobodyLost', NEW w \in Worker, DrainStep(w)
  PROVE  Followed'
<1>0. /\ Data /\ Data' /\ Processes /\ UNCHANGED revs /\ Becomes(w, pc'[w])
      /\ Shown /\ CaughtUp /\ \A v \in Worker : InHand(v)
  BY TypeParts, DrainMoves, FollowedParts
<1>1. /\ PointsMove
      /\ \A d \in Entity : Len(ops'[d]) = Len(ops[d])
      /\ \A d \in Entity :
            \/ index'[d] = index[d]
            \/ InDelivery(w) /\ d = Mine(w)[1] /\ ops' = ops
      /\ \A d \in Entity :
            ops'[d] # << >> /\ LastOf(ops'[d]).status = "done" =>
               /\ ops[d] # << >>
               /\ \/ LastOf(ops[d]).status = "done"
                  \/ pc[w] = "applied" /\ d = Mine(w)[1] /\ LastInHand(w)
  BY DrainEffect
<1>2. RowsGrow
  <2>1. \A d \in Entity : Len(revs[d]) \in Nat
    BY <1>0 DEF Data
  <2> QED
    BY <1>0, <2>1 DEF RowsGrow
<1>3. Shown'
  BY <1>0, <1>1, <1>2, ShownNext
<1>4. ASSUME NEW d \in Entity, ops'[d] # << >>, LastOf(ops'[d]).status = "done"
      PROVE  index'[d].rev = Len(revs'[d])
  <2>1. index[d].rev = Len(revs[d])
    <3>1. CASE LastOf(ops[d]).status = "done"
      BY <1>0, <1>1, <1>4, <3>1 DEF CaughtUp
    <3>2. CASE pc[w] = "applied" /\ d = Mine(w)[1] /\ LastInHand(w)
      BY <1>0, <3>2 DEF InHand
    <3> QED
      BY <1>1, <1>4, <3>1, <3>2
  <2>2. index'[d] = index[d]
    <3>1. ASSUME InDelivery(w), d = Mine(w)[1], ops' = ops PROVE FALSE
      BY <1>4, <3>1, OneDelivery
    <3> QED
      BY <1>1, <3>1
  <2> QED
    BY <1>0, <2>1, <2>2
<1>5. ASSUME NEW v \in Worker, v # w PROVE InHand(v)'
  <2>1. pc'[v] = pc[v] /\ held'[v] = held[v] /\ seen'[v] = seen[v]
    BY <1>0, <1>5 DEF Becomes
  <2>2. CASE pc[v] \in {"fenced", "applied"}
    <3>1. InDelivery(v)
      BY <2>2, FencedDelivers
    <3>2. /\ Mine(v)[1] \in Entity
          /\ InDelivery(w) => Mine(v)[1] # Mine(w)[1]
      BY <1>5, <3>1, OneDelivery
    <3>3. index'[Mine(v)[1]] = index[Mine(v)[1]] /\ Len(ops'[Mine(v)[1]]) = Len(ops[Mine(v)[1]])
      BY <1>1, <3>2
    <3>4. Untouched(v)
      BY <1>0, <2>1, <3>3 DEF Untouched, Mine
    <3> QED
      BY <1>0, <1>2, <2>2, <3>4, InHandStays
  <2>3. CASE pc[v] \notin {"fenced", "applied"}
    BY <2>1, <2>3 DEF InHand
  <2> QED
    BY <2>2, <2>3
<1>6. InHand(w)'
  BY DrainKeepsOwn
<1>7. CaughtUp'
  BY <1>4 DEF CaughtUp
<1> QED
  BY <1>3, <1>5, <1>6, <1>7, FollowedParts

\* Steps of a rebuild, and of a process that dies.
LEMMA RebuildKeepsFollowed ==
  ASSUME TypeOK, TypeOK', Gated, Followed, NobodyLost, NEW w \in Worker,
         \/ StartRebuild(w) \/ Build(w) \/ Validate(w) \/ Activate(w) \/ AbandonRebuild(w)
         \/ Crash(w)
  PROVE  Followed'
<1>0. /\ Data /\ Data' /\ Processes /\ UNCHANGED <<revs, ops>>
      /\ Shown /\ CaughtUp /\ \A v \in Worker : InHand(v)
  BY TypeParts, FollowedParts
     DEF StartRebuild, Build, Validate, Activate, AbandonRebuild, Crash, rows
<1>1. RowsGrow
  <2>1. \A d \in Entity : Len(revs[d]) \in Nat
    BY <1>0 DEF Data
  <2> QED
    BY <1>0, <2>1 DEF RowsGrow
<1>2. /\ pc'[w] \notin {"fenced", "applied"}
      /\ \A v \in Worker \ {w} : pc'[v] = pc[v] /\ held'[v] = held[v] /\ seen'[v] = seen[v]
  BY <1>0 DEF StartRebuild, Build, Validate, Activate, AbandonRebuild, Crash, EndRebuild, EndDrain,
              MoveTo, Processes
<1>3. InHand(w)'
  BY <1>2 DEF InHand
<1>4. CASE Activate(w) \/ AbandonRebuild(w)
  <2>1. PointsMove /\ (index' = index \/ \A e \in Entity : index'[e].rev = Len(revs[e]))
    BY <1>4, ActivationMovesPoints
  <2>2. Shown'
    BY <1>0, <1>1, <2>1, ShownNext
  <2>3. CaughtUp'
    BY <1>0, <2>1 DEF CaughtUp
  <2>4. gate = w /\ gate # NoWorker
    BY <1>4, NamesAreApart DEF Gated, Activate, AbandonRebuild
  <2>5. ASSUME NEW v \in Worker \ {w} PROVE InHand(v)'
    <3>1. pc[v] \notin {"fenced", "applied"}
      BY <2>4, FencedDelivers DEF Gated
    <3> QED
      BY <1>2, <3>1 DEF InHand
  <2> QED
    BY <1>3, <2>2, <2>3, <2>5, FollowedParts
<1>5. CASE StartRebuild(w) \/ Build(w) \/ Validate(w) \/ Crash(w)
  <2>1. index' = index
    BY <1>5 DEF StartRebuild, Build, Validate, Crash
  <2>2. Shown'
    BY <1>0, <1>1, <2>1, ShownNext DEF PointsMove
  <2>3. CaughtUp'
    BY <1>0, <2>1 DEF CaughtUp
  <2>4. ASSUME NEW v \in Worker \ {w} PROVE InHand(v)'
    <3>1. CASE pc[v] \in {"fenced", "applied"}
      <4>1. Untouched(v)
        BY <1>0, <1>2, <2>1 DEF Untouched, Mine
      <4> QED
        BY <1>0, <1>1, <3>1, <4>1, InHandStays
    <3>2. CASE pc[v] \notin {"fenced", "applied"}
      BY <1>2, <3>2 DEF InHand
    <3> QED
      BY <3>1, <3>2
  <2> QED
    BY <1>3, <2>2, <2>3, <2>4, FollowedParts
<1> QED
  BY <1>4, <1>5

LEMMA LeaseKeepsFollowed ==
  ASSUME TypeOK, TypeOK', Followed, NEW o \in Existing, LeaseExpires(o) \/ LeaseOverrun(o)
  PROVE  Followed'
<1>0. /\ Data /\ Data' /\ Processes
      /\ Shown /\ CaughtUp /\ \A v \in Worker : InHand(v)
  BY TypeParts, FollowedParts
<1> DEFINE op == [Op(o) EXCEPT !.stale = TRUE]
<1>1. /\ UNCHANGED <<revs, index, process>> /\ OnlyOp(o[1], o[2], op)
      /\ o[1] \in Entity /\ o[2] \in DOMAIN ops[o[1]] /\ Op(o) = ops[o[1]][o[2]]
      /\ Op(o) \in Operations
  BY LeaseEffect
<1>2. op.status = Op(o).status
  BY <1>1 DEF Operations
<1> HIDE DEF op
<1>3. RowsGrow
  <2>1. \A d \in Entity : Len(revs[d]) \in Nat
    BY <1>0 DEF Data
  <2> QED
    BY <1>1, <2>1 DEF RowsGrow
<1>4. Shown'
  BY <1>0, <1>1, <1>3, ShownNext DEF PointsMove
<1>5. \A d \in Entity : Len(ops'[d]) = Len(ops[d])
  BY <1>1 DEF OnlyOp
<1>6. ASSUME NEW d \in Entity, ops'[d] # << >>
      PROVE  ops[d] # << >> /\ LastOf(ops'[d]).status = LastOf(ops[d]).status
  <2>1. /\ ops[d] \in Seq(Operations) /\ ops'[d] \in Seq(Operations)
        /\ Len(ops[d]) \in DOMAIN ops[d] /\ ops[d] # << >>
    BY <1>0, <1>5, <1>6, LastIsThere, EmptySeq DEF Data
  <2>2. ops'[d][Len(ops[d])].status = ops[d][Len(ops[d])].status
    BY <1>1, <1>2, <2>1 DEF OnlyOp
  <2> QED
    BY <1>5, <2>1, <2>2 DEF LastOf
<1>7. CaughtUp'
  BY <1>0, <1>1, <1>6 DEF CaughtUp
<1>8. ASSUME NEW v \in Worker PROVE InHand(v)'
  <2>1. pc' = pc /\ held' = held /\ seen' = seen
    BY <1>1 DEF process
  <2>2. CASE pc[v] \in {"fenced", "applied"}
    <3>1. Mine(v)[1] \in Entity
      BY <1>0, <2>2, MineIsThere DEF Inside
    <3>2. Untouched(v)
      BY <1>1, <1>5, <2>1, <3>1 DEF Untouched, Mine
    <3> QED
      BY <1>0, <1>3, <2>2, <3>2, InHandStays
  <2>3. CASE pc[v] \notin {"fenced", "applied"}
    BY <2>1, <2>3 DEF InHand
  <2> QED
    BY <2>2, <2>3
<1> QED
  BY <1>4, <1>7, <1>8, FollowedParts

LEMMA FollowedInit == Init => Followed
<1> SUFFICES ASSUME Init PROVE Followed
  OBVIOUS
<1>0. Data
  BY TypeInit, TypeParts
<1>1. ASSUME NEW e \in Entity PROVE index[e].rev <= Len(revs[e]) /\ index[e] \in Mirror!Pictures(e, index[e].rev)
  <2>1. revs[e] = << >> /\ index[e] = Blank /\ index[e].rev = 0 /\ index[e].shown = 0
    BY BlankTyped DEF Init
  <2>2. 0 \in 0 .. Len(revs[e]) /\ index[e] \in Views
    BY <2>1, BlankTyped
  <2>3. index[e] \in Mirror!Pictures(e, 0)
    BY <1>0, <2>1, <2>2, Picture DEF Shows
  <2> QED
    BY <2>1, <2>3
<1>2. Shown
  BY <1>1 DEF Shown
<1>3. CaughtUp
  BY DEF Init, CaughtUp
<1>4. \A v \in Worker : InHand(v)
  BY DEF Init, InHand
<1> QED
  BY <1>2, <1>3, <1>4, FollowedParts

LEMMA FollowedNext ==
  TypeOK /\ TypeOK' /\ Gated /\ Queued /\ Followed /\ NobodyLost /\ NobodyLost' /\ [Next]_vars
     => Followed'
<1> SUFFICES ASSUME TypeOK, TypeOK', Gated, Queued, Followed, NobodyLost, NobodyLost', [Next]_vars
             PROVE  Followed'
  OBVIOUS
<1>1. CASE UNCHANGED vars
  BY <1>1 DEF vars, rows, process, Followed, Mine, Mirror!Pictures
<1> QED
  BY <1>1, WriterKeepsFollowed, DrainKeepsFollowed, RebuildKeepsFollowed, LeaseKeepsFollowed
     DEF Next, Step, DrainStep

-----------------------------------------------------------------------------
(***************************************************************************)
(* The theorems                                                            *)
(***************************************************************************)
\* The runs' server ends no session under a live client (MaxLost = 0).
LEMMA NobodyIsLost == MaxLost = 0 => (Spec => []NobodyLost)
<1>1. Init => NobodyLost
  BY DEF Init, NobodyLost
<1>2. ASSUME MaxLost = 0, TypeOK, NobodyLost, [Next]_vars PROVE NobodyLost'
  <2>1. ASSUME NEW w \in Worker, LoseSession(w) PROVE FALSE
    <3>1. {v \in Worker : lost[v]} = {} /\ Cardinality({}) = 0
      BY <1>2, FS_EmptySet DEF NobodyLost
    <3> QED
      BY <1>2, <2>1, <3>1 DEF LoseSession
  <2>2. CASE UNCHANGED vars
    BY <1>2, <2>2 DEF vars, process, NobodyLost
  <2>3. ASSUME NEW e \in Entity, Writing(e) PROVE NobodyLost'
    BY <1>2, <2>3, WriterEffect DEF process, NobodyLost
  <2>4. ASSUME NEW w \in Worker, EndDrain(w) PROVE NobodyLost'
    BY <1>2, <2>4 DEF EndDrain, NobodyLost, TypeOK
  <2>5. ASSUME NEW w \in Worker, UNCHANGED lost PROVE NobodyLost'
    BY <1>2, <2>5 DEF NobodyLost
  <2>6. ASSUME NEW w \in Worker, Step(w) \/ StartRebuild(w) \/ AbandonRebuild(w) \/ TimeOut(w)
                                 \/ Fail(w) \/ Crash(w)
        PROVE  UNCHANGED lost \/ EndDrain(w)
    BY <2>6 DEF Step, Claim, StartDelivering, Busy, Fence, Obsolete, Apply, MarkDone, Retain,
                FindSessionLost, Build, Validate, Activate, StartRebuild, AbandonRebuild, TimeOut,
                Fail, Crash
  <2>7. ASSUME NEW o \in Existing, LeaseExpires(o) \/ LeaseOverrun(o) PROVE NobodyLost'
    BY <1>2, <2>7 DEF LeaseExpires, LeaseOverrun, process, NobodyLost
  <2>8. CASE Next
    BY <1>2, <2>1, <2>3, <2>4, <2>5, <2>6, <2>7, <2>8 DEF Next
  <2> QED
    BY <1>2, <2>2, <2>8
<1>3. MaxLost = 0 => (TypeOK /\ NobodyLost /\ [Next]_vars => NobodyLost')
  BY <1>2
<1>4. CASE MaxLost = 0
  <2>1. TypeOK /\ NobodyLost /\ [Next]_vars => NobodyLost'
    BY <1>3, <1>4
  <2> QED
    BY <1>1, <2>1, TypeInit, TypeNext, PTL DEF Spec
<1> QED
  BY <1>4

\* While nobody is lost, everything above holds together.
LEMMA Delivery == Spec /\ []NobodyLost => [](TypeOK /\ Gated /\ Queued /\ Followed)
<1>1. Init => TypeOK /\ Gated /\ Queued /\ Followed
  BY TypeInit, GatedInit, QueuedInit, FollowedInit
<1>2. TypeOK /\ Gated /\ Queued /\ Followed /\ NobodyLost /\ NobodyLost' /\ [Next]_vars
         => (TypeOK /\ Gated /\ Queued /\ Followed)'
  BY TypeNext, GatedNext, QueuedNext, FollowedNext
<1> QED
  BY <1>1, <1>2, PTL DEF Spec

\* Once the last operation of a row has been delivered, the index shows the row as it
\* is (outbox._deliver reads the row under its locks), as long as the server ends no
\* session under a live client.
THEOREM DoneIsShown == Spec /\ []NobodyLost => []Mirrored
<1>1. TypeOK /\ Followed => Mirrored
  <2> SUFFICES ASSUME TypeOK, Followed, NEW e \in Entity,
                      ops[e] # << >>, LastOf(ops[e]).status = "done"
               PROVE  InStep(e)
    BY DEF Mirrored
  <2>0. Data
    BY TypeParts
  <2>1. /\ revs[e] \in Seq(RevisionStates) /\ index[e] \in Views
        /\ Len(revs[e]) \in 0 .. Len(revs[e])
        /\ revs[e] # << >> => LastOf(revs[e]) \in RevisionStates /\ Len(revs[e]) > 0
        /\ revs[e] = << >> => Len(revs[e]) = 0
    BY <2>0, LastIsThere DEF Data
  <2>2. index[e].rev = Len(revs[e]) /\ index[e] \in Mirror!Pictures(e, Len(revs[e]))
    BY DEF Followed
  <2>3. Shows(e, Len(revs[e]), index[e].shown)
    BY <2>0, <2>1, <2>2, Picture
  <2> QED
    BY <2>1, <2>3 DEF InStep, Shows, View, Exists, LastOf, RevisionStates
<1> QED
  BY <1>1, Delivery, PTL

\* What a writer does to a row is a step of the mirror, or nothing.
LEMMA WriterMirrored ==
  ASSUME TypeOK, NEW e \in Entity, Writing(e)
  PROVE  Mirror!Write(e) \/ Mirror!Lapse(e) \/ UNCHANGED <<revs, index>>
<1>1. ASSUME NEW state \in {"active", "inactive"}, NEW kind, NEW s, Revision(e, state, kind, s)
      PROVE  Mirror!Write(e)
  BY <1>1 DEF Revision, Mirror!Write
<1>2. CASE Add(e)
  BY <1>1, <1>2 DEF Add
<1>3. CASE Revise(e)
  <2>1. PICK s \in Scope :
           Revision(e, IF LastOf(revs[e]) = "inactive" THEN "inactive" ELSE "active", "upsert", s)
    BY <1>3 DEF Revise
  <2> QED
    BY <1>1, <2>1
<1>4. CASE SetStatus(e)
  BY <1>1, <1>4 DEF SetStatus
<1>5. CASE Resend(e)
  BY <1>5 DEF Resend, rows
<1>6. CASE Lapse(e)
  <2>1. revs[e] # << >> /\ LastOf(revs[e]) = "active"
    BY <1>6 DEF Lapse, View, Exists
  <2> QED
    BY <1>6, <2>1 DEF Lapse, LastOf, Mirror!Lapse
<1> QED
  BY <1>2, <1>3, <1>4, <1>5, <1>6 DEF Writing

\* Points that move are points that catch up.
LEMMA PointsCatchUp ==
  ASSUME Data, Data', Shown, PointsMove, revs' = revs
  PROVE  Mirror!CatchUp \/ UNCHANGED <<revs, index>>
<1>1. CASE index' = index
  BY <1>1
<1>2. CASE index' # index
  <2>1. ASSUME NEW e \in Entity
        PROVE  /\ index'[e].rev \in index[e].rev .. Len(revs[e])
               /\ index'[e] = index[e] \/ index'[e] \in Mirror!Pictures(e, index'[e].rev)
    <3>1. /\ index[e] \in Views /\ index'[e] \in Views /\ Len(revs[e]) \in Nat
          /\ index[e].rev <= Len(revs[e]) /\ index[e].rev \in Nat /\ index'[e].rev \in Nat
      BY DEF Data, Shown, Views
    <3>2. /\ index[e].rev <= index'[e].rev /\ index'[e].rev <= Len(revs[e])
          /\ index'[e] = index[e] \/ index'[e] \in Mirror!Pictures(e, index'[e].rev)
      BY <1>2, <3>1 DEF PointsMove
    <3> QED
      BY <3>1, <3>2
  <2>2. index' \in [Entity -> Views]
    BY DEF Data
  <2> QED
    BY <2>1, <2>2 DEF Mirror!CatchUp, Views
<1> QED
  BY <1>1, <1>2

\* Every step of the outbox, the processes and the rebuild is a step of the mirror, or
\* leaves rows and points alone.
LEMMA StepMirrored ==
  ASSUME TypeOK, TypeOK', Gated, Queued, Followed, NobodyLost, [Next]_vars
  PROVE  [Mirror!Next]_<<revs, index>>
<1>0. Data /\ Data' /\ Shown
  BY TypeParts, FollowedParts
<1>1. CASE UNCHANGED vars
  BY <1>1 DEF vars, rows
<1>2. ASSUME NEW e \in Entity, Writing(e) PROVE [Mirror!Next]_<<revs, index>>
  BY <1>2, WriterMirrored DEF Mirror!Next
<1>3. ASSUME NEW w \in Worker, DrainStep(w) PROVE [Mirror!Next]_<<revs, index>>
  BY <1>0, <1>3, DrainEffect, DrainMoves, PointsCatchUp DEF Mirror!Next
<1>4. ASSUME NEW w \in Worker, Activate(w) \/ AbandonRebuild(w)
      PROVE  [Mirror!Next]_<<revs, index>>
  BY <1>0, <1>4, ActivationMovesPoints, PointsCatchUp DEF Mirror!Next
<1>5. ASSUME NEW w \in Worker, StartRebuild(w) \/ Build(w) \/ Validate(w) \/ Crash(w)
      PROVE  UNCHANGED <<revs, index>>
  BY <1>5 DEF StartRebuild, Build, Validate, Crash, rows
<1>6. ASSUME NEW o \in Existing, LeaseExpires(o) \/ LeaseOverrun(o)
      PROVE  UNCHANGED <<revs, index>>
  BY <1>6, LeaseEffect
<1> QED
  BY <1>1, <1>2, <1>3, <1>4, <1>5, <1>6 DEF Next, Step, DrainStep

\* The outbox, its drains and the rebuild implement the mirror: points show revisions
\* their rows have had and never go back, as long as the server ends no session under a
\* live client.
THEOREM ImplementsMirror == Spec /\ []NobodyLost => MirrorSpec
<1>1. Init => Mirror!Init
  BY DEF Init, Mirror!Init, Blank
<1>2. TypeOK /\ TypeOK' /\ Gated /\ Queued /\ Followed /\ NobodyLost /\ [Next]_vars
         => [Mirror!Next]_<<revs, index>>
  BY StepMirrored
<1> QED
  BY <1>1, <1>2, Delivery, PTL DEF Spec, MirrorSpec, Mirror!Spec

\* Where no session is lost at all (the runs' MaxLost = 0), both hold of every behaviour.
THEOREM MirroredWithoutLoss ==
  MaxLost = 0 => (Spec => []Mirrored /\ MirrorSpec)
<1>1. CASE MaxLost = 0
  <2>1. Spec => []NobodyLost
    BY <1>1, NobodyIsLost
  <2> QED
    BY <2>1, DoneIsShown, ImplementsMirror, PTL
<1> QED
  BY <1>1
=============================================================================
