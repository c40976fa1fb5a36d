--------------------------- MODULE IndexDelivery ---------------------------
(***************************************************************************)
(* Delivery of the rows of Postgres to the vector index: the transactional *)
(* outbox, the processes that drain it, the maintenance gate, and the      *)
(* rebuild that replaces the whole index behind it.                        *)
(*                                                                         *)
(* A payload is told apart only by the revision of the row it was made     *)
(* from: a payload of a memory carries its revision number, and a raw      *)
(* message never changes.  The collections of memories and of raw messages *)
(* are one map, since their aliases are switched by one request.           *)
(***************************************************************************)
EXTENDS Integers, Sequences, FiniteSets

CONSTANTS
    Worker,         \* the processes that drain the outbox or rebuild the index
    Memory,         \* rows of `memories`
    Message,        \* rows of `messages` long enough to be indexed
    Scope,          \* scopes a row may be in
    NoWorker,       \* claim_token of an operation nobody has claimed
    Batch,          \* batch_size of drain
    MaxAttempts,    \* max_attempts of drain
    MaxRevisions,   \* bound on the revisions of one row
    MaxOps,         \* bound on the operations of one row, repeats included
    MaxFaults,      \* bound on crashes, failed requests, overrun leases and the next
    MaxRebuilds,    \* bound on rebuilds
    MaxLost         \* bound on the sessions ended by the server under live clients

ASSUME NamesAreApart == NoWorker \notin Worker /\ Memory \intersect Message = {}
ASSUME BoundsAreNaturals ==
    /\ Batch \in Nat \ {0} /\ MaxAttempts \in Nat \ {0}
    /\ MaxRevisions \in Nat /\ MaxOps \in Nat
    /\ MaxFaults \in Nat /\ MaxRebuilds \in Nat /\ MaxLost \in Nat

Entity == Memory \union Message

VARIABLES
    revs,           \* the revisions of each row, the last one its present state
    scope,          \* scope_id of each row
    ops,            \* the rows of index_outbox for each entity, in id order
    index,          \* the live collection: per point, the revision it follows
                    \* (history) and what it shows, 0 for no point
    generation,     \* the collection under construction
    gate,           \* the holder of the exclusive maintenance lock
    pc, held, seen, \* a process: where it is, the operations it has claimed and
                    \* not yet delivered, the authoritative row it has read
    lost,           \* its session was ended by the server, and it does not know
    faults, rebuilds

rows == <<revs, scope>>
process == <<pc, held, seen, lost>>
vars == <<rows, ops, index, generation, gate, process, faults, rebuilds>>

Views == [rev : Nat, shown : Nat]
OpIds == Entity \X Nat
Operations == [kind : {"upsert", "delete"}, rev : Nat, scope : Scope,
               status : {"pending", "processing", "done", "failed"},
               by : Worker \union {NoWorker}, stale : BOOLEAN, attempts : Nat]
RevisionStates == {"active", "inactive", "lapsed"}
Stages == {"claiming", "delivering", "fenced", "applied", "failing",
           "snapshot", "built", "validated"}

TypeOK ==
    /\ revs \in [Entity -> Seq(RevisionStates)]
    /\ scope \in [Entity -> Scope]
    /\ ops \in [Entity -> Seq(Operations)]
    /\ index \in [Entity -> Views]
    /\ generation \in [Entity -> Views]
    /\ gate \in Worker \union {NoWorker}
    /\ pc \in [Worker -> Stages]
    /\ held \in [Worker -> Seq(OpIds)]
    /\ seen \in [Worker -> Views]
    /\ lost \in [Worker -> BOOLEAN]
    /\ faults \in Nat /\ rebuilds \in Nat
    \* claimed operations exist, and a delivery is of one of them
    /\ \A w \in Worker :
          /\ \A i \in DOMAIN held[w] : held[w][i][2] \in DOMAIN ops[held[w][i][1]]
          /\ pc[w] \in {"delivering", "fenced", "applied", "failing"} => held[w] # << >>

Blank == [rev |-> 0, shown |-> 0]

Init ==
    /\ revs = [e \in Entity |-> << >>]
    /\ scope \in [Entity -> Scope]
    /\ ops = [e \in Entity |-> << >>]
    /\ index = [e \in Entity |-> Blank]
    /\ generation = [e \in Entity |-> Blank]
    /\ gate = NoWorker
    /\ pc = [w \in Worker |-> "claiming"]
    /\ held = [w \in Worker |-> << >>]
    /\ seen = [w \in Worker |-> Blank]
    /\ lost = [w \in Worker |-> FALSE]
    /\ faults = 0
    /\ rebuilds = 0

-----------------------------------------------------------------------------
\* Rows, locks and operations.

LastOf(s) == s[Len(s)]
Exists(e) == revs[e] # << >>

\* _authoritative_payload: the row if it is to be found, and nothing otherwise.
View(e) ==
    [rev |-> Len(revs[e]),
     shown |-> IF Exists(e) /\ LastOf(revs[e]) = "active" THEN Len(revs[e]) ELSE 0]

\* A delivery's transaction is open: it holds the shared gate, the barrier of
\* its scope, and the lock of its operation's row.
InDelivery(w) == pc[w] \in {"fenced", "applied"} /\ ~lost[w]

\* Mutant of GateOpen: nobody looks at the gate.
GateAlwaysOpen == TRUE

\* pg_try_advisory_xact_lock_shared succeeds.
GateOpen == gate = NoWorker

\* pg_try_advisory_lock succeeds.
GateFree == gate = NoWorker /\ \A w \in Worker : ~InDelivery(w)

Existing == {o \in Entity \X (1 .. MaxOps) : o[2] \in DOMAIN ops[o[1]]}
Op(o) == ops[o[1]][o[2]]
Mine(w) == Head(held[w])

Locked(o) == \E w \in Worker : InDelivery(w) /\ Mine(w) = o

\* No other delivery is inside the barrier of this operation's scope.
BarrierFree(o) ==
    \A v \in Worker : InDelivery(v) => Op(Mine(v)).scope # Op(o).scope

Outstanding(op) == op.status \in {"pending", "processing"}
Expired(op) == op.status = "processing" /\ op.stale

\* An operation nobody claims any longer, in the given status.
Unclaimed(op, status) ==
    [op EXCEPT !.status = status, !.by = NoWorker, !.stale = FALSE]

\* Mutant of Reclaimed: nobody takes back the claims of the dead.
ReclaimedNever(op) == op

\* The claim's first statement: expired leases go back to pending.
Reclaimed(op) == IF Expired(op) THEN Unclaimed(op, "pending") ELSE op

\* It waits for locked rows, and gives up.
ReclaimBlocked == \E o \in Existing : Expired(Op(o)) /\ Locked(o)

\* Mutant of InTurn: whatever is pending may be claimed.
InTurnAlways(o) == TRUE

\* No earlier operation of the same point is outstanding.
InTurn(o) == \A i \in 1 .. (o[2] - 1) : ~Outstanding(ops[o[1]][i])

Eligible(o) == Reclaimed(Op(o)).status = "pending" /\ InTurn(o)

MoveTo(w, stage) == pc' = [pc EXCEPT ![w] = stage]

\* Mutant of NextDelivery: the end of the batch is not noticed.
NextDeliveryEndless(w) ==
    /\ held' = [held EXCEPT ![w] = Tail(@)]
    /\ MoveTo(w, "delivering")
    /\ seen' = [seen EXCEPT ![w] = Blank]

\* The delivery of w's first operation is over.
NextDelivery(w) ==
    /\ held' = [held EXCEPT ![w] = Tail(@)]
    /\ MoveTo(w, IF Len(held[w]) = 1 THEN "claiming" ELSE "delivering")
    /\ seen' = [seen EXCEPT ![w] = Blank]

\* The drain is over, whatever it had claimed.
EndDrain(w) ==
    /\ held' = [held EXCEPT ![w] = << >>]
    /\ seen' = [seen EXCEPT ![w] = Blank]
    /\ lost' = [lost EXCEPT ![w] = FALSE]
    /\ MoveTo(w, "claiming")

Fault == faults < MaxFaults /\ faults' = faults + 1

-----------------------------------------------------------------------------
\* Writers.  Each is one transaction behind the shared gate: the row, its
\* revision and its operation commit together.

NewOp(e, kind, rev, s) ==
    [kind |-> kind, rev |-> rev, scope |-> s, status |-> "pending",
     by |-> NoWorker, stale |-> FALSE, attempts |-> 0]

\* Mutant of Enqueue: the operation is lost when one of the row is still waiting.
EnqueueUnlessWaiting(e, kind, rev, s) ==
    ops' = [ops EXCEPT ![e] =
               IF @ # << >> /\ Outstanding(LastOf(@)) THEN @
               ELSE Append(@, NewOp(e, kind, rev, s))]

\* outbox.enqueue.
Enqueue(e, kind, rev, s) ==
    ops' = [ops EXCEPT ![e] = Append(@, NewOp(e, kind, rev, s))]

Writable(e) == GateOpen /\ Len(ops[e]) < MaxOps

Revision(e, state, kind, s) ==
    /\ Writable(e)
    /\ Len(revs[e]) < MaxRevisions
    /\ revs' = [revs EXCEPT ![e] = Append(@, state)]
    /\ scope' = [scope EXCEPT ![e] = s]
    /\ Enqueue(e, kind, Len(revs[e]) + 1, s)
    /\ UNCHANGED <<index, generation, gate, process, faults, rebuilds>>

\* store.add_memory, and store.add_message of a new message.
Add(e) ==
    /\ ~Exists(e)
    /\ Revision(e, "active", "upsert", scope[e])

\* store.update_memory: may move the row to another scope; always an upsert,
\* also of a row that is archived.
Revise(e) ==
    /\ Exists(e) /\ e \in Memory
    /\ \E s \in Scope :
          Revision(e, IF LastOf(revs[e]) = "inactive" THEN "inactive" ELSE "active",
                   "upsert", s)

\* store.set_memory_status and store.set_review_status.
SetStatus(e) ==
    /\ Exists(e) /\ e \in Memory
    /\ \/ Revision(e, "active", "upsert", scope[e])
       \/ Revision(e, "inactive", "delete", scope[e])

\* store.add_message of a message that is there already: ensure_pending.
Resend(e) ==
    /\ Exists(e) /\ e \in Message
    /\ Writable(e)
    /\ Enqueue(e, "upsert", Len(revs[e]), scope[e])
    /\ UNCHANGED <<rows, index, generation, gate, process, faults, rebuilds>>

\* valid_until passes: no write, no event.
Lapse(e) ==
    /\ e \in Memory
    /\ View(e).shown # 0
    /\ revs' = [revs EXCEPT ![e][Len(revs[e])] = "lapsed"]
    /\ UNCHANGED <<scope, ops, index, generation, gate, process, faults, rebuilds>>

-----------------------------------------------------------------------------
\* outbox.drain.

\* _claim_next finds an operation.
Claim(w) ==
    /\ pc[w] = "claiming"
    /\ Len(held[w]) < Batch
    /\ ~ReclaimBlocked
    /\ \E o \in Existing :
          /\ Eligible(o)
          /\ ops' = [e \in Entity |-> [i \in DOMAIN ops[e] |->
                        IF <<e, i>> = o
                          THEN [ops[e][i] EXCEPT !.status = "processing",
                                                 !.by = w, !.stale = FALSE]
                          ELSE Reclaimed(ops[e][i])]]
          /\ held' = [held EXCEPT ![w] = Append(@, o)]
    /\ UNCHANGED <<rows, index, generation, gate, pc, seen, lost, faults, rebuilds>>

\* The batch is full, or nothing more is due now: operations that failed before
\* may be waiting for available_at.
StartDelivering(w) ==
    /\ pc[w] = "claiming"
    /\ held[w] # << >>
    /\ Len(held[w]) < Batch => \A o \in Existing : Eligible(o) => Op(o).attempts > 0
    /\ MoveTo(w, "delivering")
    /\ UNCHANGED <<rows, ops, index, generation, gate, held, seen, lost, faults, rebuilds>>

ClaimedBy(op, w) == op.status = "processing" /\ op.by = w

\* _deliver meets the exclusive gate: its operation goes back, the exception
\* ends the drain, and the rest of the batch waits for its leases to run out.
Busy(w) ==
    /\ pc[w] = "delivering"
    /\ ~GateOpen
    /\ ops' = [ops EXCEPT ![Mine(w)[1]][Mine(w)[2]] =
                  IF ClaimedBy(@, w) THEN Unclaimed(@, "pending") ELSE @]
    /\ EndDrain(w)
    /\ UNCHANGED <<rows, index, generation, gate, faults, rebuilds>>

\* The claim _deliver checks under the row's lock.
ClaimHolds(w) == ClaimedBy(Op(Mine(w)), w) /\ ~Op(Mine(w)).stale

\* _deliver up to its external call: shared gate, barrier, live claim, row lock,
\* authoritative row.
Fence(w) ==
    /\ pc[w] = "delivering"
    /\ GateOpen
    /\ BarrierFree(Mine(w))
    /\ ClaimHolds(w)
    /\ seen' = [seen EXCEPT ![w] = View(Mine(w)[1])]
    /\ MoveTo(w, "fenced")
    /\ UNCHANGED <<rows, ops, index, generation, gate, held, lost, faults, rebuilds>>

\* The claim is obsolete: nothing is sent.
Obsolete(w) ==
    /\ pc[w] = "delivering"
    /\ GateOpen
    /\ BarrierFree(Mine(w))
    /\ ~ClaimHolds(w)
    /\ NextDelivery(w)
    /\ UNCHANGED <<rows, ops, index, generation, gate, lost, faults, rebuilds>>

\* Another delivery stays inside the barrier for longer than lock_timeout.
TimeOut(w) ==
    /\ pc[w] = "delivering"
    /\ GateOpen
    /\ ~BarrierFree(Mine(w))
    /\ MoveTo(w, "failing")
    /\ UNCHANGED <<rows, ops, index, generation, gate, held, seen, lost, faults, rebuilds>>

\* Mutant of Outcome: the payload is trusted and not compared with the row.
OutcomeOfPayload(op, view, point) ==
    IF op.kind = "upsert" THEN [rev |-> op.rev, shown |-> op.rev]
    ELSE [rev |-> op.rev, shown |-> 0]

\* Mutant of Outcome: a missing row is left to the event of its deletion.
OutcomeWithoutDelete(op, view, point) ==
    IF op.kind = "upsert" /\ view.shown = op.rev THEN view ELSE point

\* What delivery makes of the point: no row, no point; the payload if it is the
\* row's; and nothing if the row has moved on, since a later event owns it.
Outcome(op, view, point) ==
    IF view.shown = 0 \/ (op.kind = "upsert" /\ view.shown = op.rev)
      THEN view
      ELSE point

Delivered(w) ==
    LET e == Mine(w)[1]
    IN  [index EXCEPT ![e] = Outcome(Op(Mine(w)), seen[w], @)]

\* The request to the index is answered.
Apply(w) ==
    /\ pc[w] = "fenced"
    /\ index' = Delivered(w)
    /\ MoveTo(w, "applied")
    /\ UNCHANGED <<rows, ops, generation, gate, held, seen, lost, faults, rebuilds>>

\* Embedding or the request fails, the latter before or after it took effect:
\* the transaction is rolled back.
Fail(w) ==
    /\ pc[w] = "fenced" /\ ~lost[w]
    /\ Fault
    /\ index' \in {index, Delivered(w)}
    /\ MoveTo(w, "failing")
    /\ UNCHANGED <<rows, ops, generation, gate, held, seen, lost, rebuilds>>

\* The operation is marked and the transaction commits.
MarkDone(w) ==
    /\ pc[w] = "applied" /\ ~lost[w]
    /\ ops' = [ops EXCEPT ![Mine(w)[1]][Mine(w)[2]] = Unclaimed(@, "done")]
    /\ NextDelivery(w)
    /\ UNCHANGED <<rows, index, generation, gate, lost, faults, rebuilds>>

\* An attempt more, and the operation is retained or given up.
Retained(op) ==
    [Unclaimed(op, IF op.attempts + 1 >= MaxAttempts THEN "failed" ELSE "pending")
        EXCEPT !.attempts = @ + 1]

\* The handler of the failure, if the claim still stands.
Retain(w) ==
    /\ pc[w] = "failing"
    /\ ops' = [ops EXCEPT ![Mine(w)[1]][Mine(w)[2]] =
                  IF ClaimedBy(@, w) THEN Retained(@) ELSE @]
    /\ NextDelivery(w)
    /\ UNCHANGED <<rows, index, generation, gate, lost, faults, rebuilds>>

-----------------------------------------------------------------------------
\* reindex.rebuild, on the connection that holds the exclusive gate.

StartRebuild(w) ==
    /\ pc[w] = "claiming" /\ held[w] = << >>
    /\ rebuilds < MaxRebuilds
    /\ GateFree
    /\ gate' = w
    /\ rebuilds' = rebuilds + 1
    /\ MoveTo(w, "snapshot")
    /\ UNCHANGED <<rows, ops, index, generation, held, seen, lost, faults>>

\* The snapshot's rows that are to be found become the points of a new
\* generation.
Build(w) ==
    /\ pc[w] = "snapshot"
    /\ generation' = [e \in Entity |-> View(e)]
    /\ MoveTo(w, "built")
    /\ UNCHANGED <<rows, ops, index, gate, held, seen, lost, faults, rebuilds>>

\* What lapsed while they were written is taken out again, and the payloads are
\* compared with what was meant.
Validate(w) ==
    /\ pc[w] = "built"
    /\ generation' = [e \in Entity |->
                        IF View(e).shown = 0
                          THEN [generation[e] EXCEPT !.shown = 0]
                          ELSE generation[e]]
    /\ MoveTo(w, "validated")
    /\ UNCHANGED <<rows, ops, index, gate, held, seen, lost, faults, rebuilds>>

EndRebuild(w) ==
    /\ gate' = NoWorker
    /\ generation' = [e \in Entity |-> Blank]
    /\ MoveTo(w, "claiming")

\* The aliases are switched, and the gate opens.
Activate(w) ==
    /\ pc[w] = "validated"
    /\ index' = generation
    /\ EndRebuild(w)
    /\ UNCHANGED <<rows, ops, held, seen, lost, faults, rebuilds>>

\* Cancelled, refused by the job's guard, or failed; a failed switch of the
\* aliases may have happened.
AbandonRebuild(w) ==
    /\ pc[w] \in {"snapshot", "built", "validated"}
    /\ index' \in {index} \union (IF pc[w] = "validated" THEN {generation} ELSE {})
    /\ EndRebuild(w)
    /\ UNCHANGED <<rows, ops, held, seen, lost, faults, rebuilds>>

-----------------------------------------------------------------------------
\* Time and failure.

\* A drain claims its batch in far less than a lease.
Abandoned(o) == \A w \in Worker : \A i \in DOMAIN held[w] : held[w][i] # o
Delivering(o) ==
    \E w \in Worker : pc[w] # "claiming" /\ \E i \in DOMAIN held[w] : held[w][i] = o

SetStale(o) == ops' = [ops EXCEPT ![o[1]][o[2]].stale = TRUE]

\* The lease of a claim nobody works on runs out.
LeaseExpires(o) ==
    /\ Op(o).status = "processing" /\ ~Op(o).stale
    /\ Abandoned(o)
    /\ SetStale(o)
    /\ UNCHANGED <<rows, index, generation, gate, process, faults, rebuilds>>

\* The lease runs out before its turn in the batch, or during the delivery.
LeaseOverrun(o) ==
    /\ Op(o).status = "processing" /\ ~Op(o).stale
    /\ Delivering(o)
    /\ Fault
    /\ SetStale(o)
    /\ UNCHANGED <<rows, index, generation, gate, process, rebuilds>>

\* The process dies, and another one takes its place: locks are gone, leases
\* and requests already sent are not.
Crash(w) ==
    /\ pc[w] # "claiming" \/ held[w] # << >>
    /\ Fault
    /\ EndDrain(w)
    /\ gate' = IF gate = w THEN NoWorker ELSE gate
    /\ generation' = IF gate = w THEN [e \in Entity |-> Blank] ELSE generation
    /\ UNCHANGED <<rows, ops, index, rebuilds>>

\* The server ends a session that was idle in its transaction for too long,
\* while its client embeds a text or waits for the index.
LoseSession(w) ==
    /\ pc[w] = "fenced" /\ ~lost[w]
    /\ Cardinality({v \in Worker : lost[v]}) < MaxLost
    /\ Fault
    /\ lost' = [lost EXCEPT ![w] = TRUE]
    /\ UNCHANGED <<rows, ops, index, generation, gate, pc, held, seen, rebuilds>>

\* The client finds out when it marks the operation.
FindSessionLost(w) ==
    /\ pc[w] = "applied" /\ lost[w]
    /\ EndDrain(w)
    /\ UNCHANGED <<rows, ops, index, generation, gate, faults, rebuilds>>

-----------------------------------------------------------------------------
Step(w) ==
    \/ Claim(w) \/ StartDelivering(w) \/ Busy(w) \/ Fence(w) \/ Obsolete(w)
    \/ Apply(w) \/ MarkDone(w) \/ Retain(w) \/ FindSessionLost(w)
    \/ Build(w) \/ Validate(w) \/ Activate(w)

Writing(e) == Add(e) \/ Revise(e) \/ SetStatus(e) \/ Resend(e) \/ Lapse(e)

Next ==
    \/ \E e \in Entity : Writing(e)
    \/ \E w \in Worker : \/ Step(w) \/ StartRebuild(w) \/ AbandonRebuild(w)
                         \/ TimeOut(w) \/ Fail(w) \/ Crash(w) \/ LoseSession(w)
    \/ \E o \in Existing : LeaseExpires(o) \/ LeaseOverrun(o)

Spec == Init /\ [][Next]_vars

(***************************************************************************)
(* Every process goes on (requests have a timeout, a worker polls for      *)
(* ever), and the leases of abandoned claims run out.                      *)
(***************************************************************************)
FairSpec ==
    /\ Spec
    /\ \A w \in Worker : WF_vars(Step(w))
    /\ \A o \in Entity \X (1 .. MaxOps) : WF_vars(o \in Existing /\ LeaseExpires(o))

-----------------------------------------------------------------------------
\* Correctness.

\* The point shows the row as it is, or the row has only lapsed since.
InStep(e) ==
    index[e].shown = View(e).shown \/ (Exists(e) /\ LastOf(revs[e]) = "lapsed")

\* Once the last operation of a row has been delivered, the index shows the
\* row's last revision or, if it was archived, nothing: whatever was delivered
\* late, twice, by two processes, or before and after a rebuild, an old upsert
\* does not resurrect a deletion and an old delete does not remove a restored
\* memory.
Mirrored ==
    \A e \in Entity :
        ops[e] # << >> /\ LastOf(ops[e]).status = "done" => InStep(e)

\* A generation that is about to be activated holds exactly the rows, although
\* rows were read long before: nothing was written meanwhile.
GenerationIsCurrent ==
    \A w \in Worker : pc[w] = "validated" =>
        \A e \in Entity : \/ generation[e] = View(e)
                          \/ LastOf(revs[e]) = "lapsed" /\ generation[e].rev = Len(revs[e])

\* What a reader of the index may rely on at any time (see IndexMirror): points
\* show revisions their rows had, and never go back.  The outbox, the processes and
\* the rebuild are how; rows and points are the mirror's own.
Mirror == INSTANCE IndexMirror WITH Entity <- Entity, revs <- revs, index <- index
MirrorSpec == Mirror!Spec

\* Every operation is delivered in the end or given up after MaxAttempts.
EveryOperationConcludes ==
    \A e \in Entity, i \in 1 .. MaxOps :
        (i \in DOMAIN ops[e] /\ Outstanding(ops[e][i])) ~>
            (i \in DOMAIN ops[e] /\ ~Outstanding(ops[e][i]))

-----------------------------------------------------------------------------
\* Why it is correct.

\* Whoever holds the gate rebuilds, nobody delivers meanwhile, and what was built
\* is a picture of the rows: they do not change but by the passing of time.
Gated ==
    /\ \A w \in Worker : gate = w <=> pc[w] \in {"snapshot", "built", "validated"}
    /\ gate # NoWorker => \A w \in Worker : ~InDelivery(w)
    /\ \A w \in Worker : pc[w] \in {"built", "validated"} =>
          \A e \in Entity : generation[e] \in Mirror!Pictures(e, Len(revs[e]))

\* The operations of a row are begun in their order, the last one is of the row as it
\* is, and a process that delivers one has it claimed.
Queued ==
    /\ \A e \in Entity :
          /\ Len(ops[e]) <= MaxOps
          /\ ops[e] # << >> =>
                /\ LastOf(ops[e]).rev = Len(revs[e])
                /\ LastOf(ops[e]).kind = "delete" => Exists(e) /\ LastOf(revs[e]) = "inactive"
          /\ \A i, j \in DOMAIN ops[e] :
                j < i /\ ops[e][i].status # "pending" => ~Outstanding(ops[e][j])
    /\ \A w \in Worker : InDelivery(w) => ClaimedBy(Op(Mine(w)), w)

\* No client has lost its session without knowing it.
NobodyLost == \A w \in Worker : ~lost[w]

\* While nobody is lost: a point is a picture of a revision of its row, the last one
\* once its last operation is done; a delivery never takes it back.
Followed ==
    /\ \A e \in Entity :
          /\ index[e].rev <= Len(revs[e])
          /\ index[e] \in Mirror!Pictures(e, index[e].rev)
          /\ ops[e] # << >> /\ LastOf(ops[e]).status = "done" => index[e].rev = Len(revs[e])
    /\ \A w \in Worker :
          LET e == Mine(w)[1]
              last == Mine(w)[2] = Len(ops[e])
          IN  /\ pc[w] = "fenced" =>
                    /\ index[e].rev <= seen[w].rev
                    /\ seen[w].rev <= Len(revs[e])
                    /\ seen[w] \in Mirror!Pictures(e, seen[w].rev)
                    /\ last => seen[w].rev = Len(revs[e])
              /\ pc[w] = "applied" /\ last => index[e].rev = Len(revs[e])
=============================================================================
