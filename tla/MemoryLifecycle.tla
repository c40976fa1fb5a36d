-------------------------- MODULE MemoryLifecycle --------------------------
(***************************************************************************)
(* The memories of one scope under everything that writes them: people who *)
(* save, correct, delete, restore and review (routers/memory.py), windows  *)
(* of extraction that add, correct, delete and supersede (extract.py),     *)
(* dreams that supersede (dream.py), and consolidation that expires,       *)
(* removes duplicates and merges (consolidate.py), all through store.py.   *)
(*                                                                         *)
(* A row is the last of its memory_revisions (every UPDATE of it appends   *)
(* one, store.py:662).  Its wording, kind, weights and context are left    *)
(* out: what is kept is its status, its validity, the date it was said,    *)
(* what replaced it, and the revision a rewriter of it had read.  Edges    *)
(* are the 'updates' relations; 'extends' and 'derives' change no status.  *)
(*                                                                         *)
(* People act in one transaction.  A rewriting client (Patch) and a        *)
(* background process read first and write later; in between there is a    *)
(* provider, and everybody else.  The statements of the transaction that   *)
(* writes are one step: rows are locked, or written only at the revision   *)
(* that was read.                                                          *)
(***************************************************************************)
EXTENDS Integers, Sequences, FiniteSets, FiniteSetsExt

CONSTANTS
    Process,        \* clients that patch, and background processes
    MaxMemories,    \* bound: memories that are ever added
    MaxRevisions,   \* bound: revisions of all memories together
    MaxTime         \* bound: dates

ASSUME MemoryAssumption ==
    /\ MaxMemories \in Nat \ {0}
    /\ MaxRevisions \in Nat \ {0}
    /\ MaxTime \in Nat \ {0}

VARIABLES
    db,     \* revs: for each memory its revisions; edges: <<new, old>> 'updates'
    now,    \* the date
    plan    \* what each process has read and means to write about

vars == <<db, now, plan>>

Date == 1 .. MaxTime
Never == MaxTime + 1        \* valid_until IS NULL
None == 0                   \* superseded_by IS NULL

Status == {"active", "archived", "expired", "superseded"}

\* base: the revision its writer had read of what it rewrote, 0 if it rewrote nothing
Row == [status : Status, ends : Date \union {Never}, by : Nat, said : Date, base : Nat]

Work == {"idle", "row", "group"}

Memories == DOMAIN db.revs

\* Every memory has a row, and its replacement, like the other end of an edge, is
\* another memory.
WellFormed(d) ==
    /\ d \in [revs : Seq(Seq(Row)), edges : SUBSET (Nat \X Nat)]
    /\ \A m \in DOMAIN d.revs :
          /\ d.revs[m] # <<>>
          /\ \A i \in DOMAIN d.revs[m] :
                d.revs[m][i].by \in ({None} \union DOMAIN d.revs) \ {m}
    /\ \A e \in d.edges : e[1] \in DOMAIN d.revs /\ e[2] \in DOMAIN d.revs /\ e[1] # e[2]

\* A plan is about revisions that memories have had.
TypeOK ==
    /\ WellFormed(db)
    /\ now \in Date
    /\ DOMAIN plan = Process
    /\ \A p \in Process :
          /\ plan[p].kind \in Work
          /\ plan[p].lapsed \subseteq Memories
          /\ DOMAIN plan[p].read \subseteq Memories
          /\ \A m \in DOMAIN plan[p].read : plan[p].read[m] \in DOMAIN db.revs[m]

Idle == [kind |-> "idle", read |-> <<>>, lapsed |-> {}]

Init ==
    /\ db = [revs |-> <<>>, edges |-> {}]
    /\ now = 1
    /\ plan = [p \in Process |-> Idle]

-----------------------------------------------------------------------------
\* Rows, and the writes of store.py as functions from a database to the next.

RowOf(d, m) == d.revs[m][Len(d.revs[m])]

\* memory_active: active, and its validity has not ended.
Live(d, m) == RowOf(d, m).status = "active" /\ RowOf(d, m).ends > now

\* UPDATE memories ... revision+1, with append_memory_revision.
Write(d, m, row) == [d EXCEPT !.revs[m] = Append(@, row)]

\* add_memory; the new memory is the last one.
Add(d, said, ends) ==
    [d EXCEPT !.revs = Append(@, <<[status |-> "active", ends |-> ends, by |-> None,
                                    said |-> said, base |-> 0]>>)]

Newest(d) == Len(d.revs)

\* Mutant of ValidBefore: the previous revision, whatever its status.
ValidBeforeLast(d, m) ==
    LET i == IF Len(d.revs[m]) > 1 THEN Len(d.revs[m]) - 1 ELSE 1
    IN  d.revs[m][i].ends

\* The validity in the last revision that was not superseded.
ValidBefore(d, m) ==
    LET kept == {i \in DOMAIN d.revs[m] : d.revs[m][i].status # "superseded"}
    IN  IF kept = {} THEN Never ELSE d.revs[m][Max(kept)].ends

\* set_memory_status, with superseded_by and valid_until as given.
SetStatus(d, m, status, by, ends) ==
    Write(d, m, [RowOf(d, m) EXCEPT !.status = status, !.by = by, !.ends = ends, !.base = 0])

\* set_memory_status to active.  Of a superseded row this undoes the supersession.
Restored(d, m) ==
    IF RowOf(d, m).status = "superseded"
      THEN SetStatus([d EXCEPT !.edges = {e \in @ : e[2] # m}],
                     m, "active", None, ValidBefore(d, m))
      ELSE SetStatus(d, m, "active", None, RowOf(d, m).ends)

\* supersede: what `old` said ends when `new` was said.
Superseded(d, old, new) ==
    SetStatus([d EXCEPT !.edges = @ \union {<<new, old>>}], old, "superseded", new,
              Min({RowOf(d, old).ends, RowOf(d, new).said}))

\* set_memory_status of several memories in one transaction.
Withdrawn(d, members, status, by) ==
    [d EXCEPT !.revs = [m \in DOMAIN @ |->
        IF m \in members
          THEN Append(@[m], [RowOf(d, m) EXCEPT !.status = status, !.by = by, !.base = 0])
          ELSE @[m]]]

Revisions(d) == Cardinality(UNION {{m} \X DOMAIN d.revs[m] : m \in DOMAIN d.revs})

Fits(d) == Len(d.revs) <= MaxMemories /\ Revisions(d) <= MaxRevisions

Commit(d) ==
    /\ Fits(d)
    /\ db' = d

-----------------------------------------------------------------------------
\* What people do, each in one transaction.

\* POST /v1/memories, and an extraction's ADD: said now or, by a backfill, before.  The
\* code compares no dates here: that a new memory is not said in the future and has not
\* ended yet bounds the inputs, as in ExtractUpdate and ExtractSupersede.
Save(said, ends) ==
    /\ said <= now
    /\ ends > now
    /\ Commit(Add(db, said, ends))
    /\ UNCHANGED <<now, plan>>

\* DELETE /v1/memories/{id}, and each candidate of a forget: whatever its status.
Delete(m) ==
    /\ Commit(SetStatus(db, m, "archived", None, RowOf(db, m).ends))
    /\ UNCHANGED <<now, plan>>

\* POST /v1/memories/{id}/restore: whatever its status.
Restore(m) ==
    /\ Commit(Restored(db, m))
    /\ UNCHANGED <<now, plan>>

\* set_review_status: a decline archives, a confirmation or an undo activates;
\* superseded_by, valid_until and the edges stay as they are.
Review(m, declined) ==
    /\ Commit(Write(db, m, [RowOf(db, m) EXCEPT
                  !.status = IF declined THEN "archived" ELSE "active", !.base = 0]))
    /\ UNCHANGED <<now, plan>>

-----------------------------------------------------------------------------
\* Processes that read now and write later.

ReadNow(S) == [m \in S |-> Len(db.revs[m])]

Begin(p, kind, S, lapsed) ==
    /\ plan[p] = Idle
    /\ plan' = [plan EXCEPT ![p] = [kind |-> kind, read |-> ReadNow(S), lapsed |-> lapsed]]
    /\ UNCHANGED <<db, now>>

Planned(p) == DOMAIN plan[p].read

Done(p) == plan' = [plan EXCEPT ![p] = Idle] /\ UNCHANGED now

\* The process dies, its provider fails, its answer is skipped, or its
\* transaction met a revision conflict and is rolled back.
Abandon(p) ==
    /\ plan[p] # Idle
    /\ Done(p)
    /\ UNCHANGED db

\* Mutant of Current: the row is looked up by its status, not its revision.
CurrentByStatus(p, m) == RowOf(db, m).status = "active"

\* expected_revision: the row is at the revision that was read.
Current(p, m) == Len(db.revs[m]) = plan[p].read[m]

\* A row rewritten on the base of what p read of it.
Rewritten(p, m, row) == Write(db, m, [row EXCEPT !.base = plan[p].read[m]])

\* A client fetches a memory it may want to PATCH, or apply_ops loads the target
\* of an UPDATE or a DELETE; neither locks it.
ReadRow(p, m) == Begin(p, "row", {m}, {})

\* apply_ops: the target was active when it was loaded.
Target(p, m) ==
    /\ plan[p].kind = "row"
    /\ m \in Planned(p)
    /\ db.revs[m][plan[p].read[m]].status = "active"

\* PATCH with the revision the client saw: patch_memory takes what the client
\* does not change from the row.  The end of its validity may be kept, set or cleared.
Patch(p, m, ends) ==
    /\ plan[p].kind = "row"
    /\ m \in Planned(p)
    /\ Current(p, m)
    /\ Commit(Rewritten(p, m, [RowOf(db, m) EXCEPT !.ends = ends]))
    /\ Done(p)

ExtractDelete(p, m) ==
    /\ Target(p, m)
    /\ Current(p, m)
    /\ Commit(SetStatus(db, m, "archived", None, RowOf(db, m).ends))
    /\ Done(p)

\* An UPDATE that corrects: the date it was said is that of the window, and one that
\* says nothing of its validity keeps the end there is.
ExtractUpdate(p, m, said, ends) ==
    /\ Target(p, m)
    /\ said <= now
    /\ Current(p, m)
    /\ ends \in Date \union {RowOf(db, m).ends}
    /\ Commit(Rewritten(p, m, [RowOf(db, m) EXCEPT !.said = said, !.ends = ends]))
    /\ Done(p)

\* An UPDATE that supersedes: the claim is a new memory.  A claim older than its
\* target, as it was read, becomes the target's history.  No revision is expected.
ExtractSupersede(p, m, said, ends) ==
    /\ Target(p, m)
    /\ said <= now /\ ends > said
    /\ LET added == Add(db, said, ends)
           new == Newest(added)
           backwards == said < db.revs[m][plan[p].read[m]].said
       IN  Commit(IF backwards THEN Superseded(added, new, m)
                               ELSE Superseded(added, m, new))
    /\ Done(p)

-----------------------------------------------------------------------------
\* Dreams and consolidation: a group of live memories is read, and locked later.

LiveOnes == {m \in Memories : Live(db, m)}

Lapsed == {m \in Memories : RowOf(db, m).status = "active" /\ RowOf(db, m).ends <= now}

\* plan_clusters of a dream, or plan of a consolidation, which also lists the
\* rows whose validity has ended.  What is done with the group comes later.
ReadGroup(p, S) ==
    /\ Begin(p, "group", S, Lapsed)
    /\ S \subseteq LiveOnes
    /\ Cardinality(S) >= 2 \/ (S = {} /\ Lapsed # {})

\* Mutant of Links: a link may join a memory with itself.
LinksOfAny(S) == S \X S

\* The model's answer: 'updates' links between members of the cluster.
Links(S) == {l \in S \X S : l[1] # l[2]}

\* Mutant of Linked: the memory just superseded stays in the live set.
LinkedTwice(state, l) ==
    LET new == l[1]
        old == l[2]
    IN  IF /\ {new, old} \subseteq state.live
           /\ RowOf(state.d, new).said >= RowOf(state.d, old).said
          THEN [d |-> Superseded(state.d, old, new), live |-> state.live]
          ELSE state

\* One link of _apply: both ends live, the replacement not said before what it
\* replaces; what was superseded is no longer live for the links after it.
Linked(state, l) ==
    LET new == l[1]
        old == l[2]
    IN  IF /\ {new, old} \subseteq state.live
           /\ RowOf(state.d, new).said >= RowOf(state.d, old).said
          THEN [d |-> Superseded(state.d, old, new), live |-> state.live \ {old}]
          ELSE state

\* _lock_live, and the links of the answer in order (two of them at most here).
Dream(p, first, second) ==
    /\ plan[p].kind = "group"
    /\ {first, second} \subseteq Links(Planned(p))
    /\ LET locked == [d |-> db, live |-> Planned(p) \intersect LiveOnes]
       IN  Commit(Linked(Linked(locked, first), second).d)
    /\ Done(p)

\* Mutant of Locked: the plan is trusted.
LockedAsPlanned(p) == Planned(p) # {}

\* _lock_group: all still live, and as they were read.
Locked(p) ==
    /\ Planned(p) # {}
    /\ \A m \in Planned(p) : Live(db, m) /\ Current(p, m)

\* The transaction of consolidate.run: rows still active and ended expire, and
\* the duplicates in a group that is still what it was are superseded by one of
\* them.  No edge is drawn.
Consolidate(p, survivor) ==
    /\ plan[p].kind = "group"
    /\ survivor \in Planned(p) \/ Planned(p) = {}
    /\ LET expired == Withdrawn(db, plan[p].lapsed \intersect Lapsed, "expired", None)
       IN  Commit(IF Locked(p)
                    THEN Withdrawn(expired, Planned(p) \ {survivor}, "superseded", survivor)
                    ELSE expired)
    /\ Done(p)

\* A merge the provider agreed to: a new memory, first said when the earliest
\* member was and valid as long as the newest, supersedes the members.
Merge(p, newest) ==
    /\ plan[p].kind = "group"
    /\ newest \in Planned(p)
    /\ Locked(p)
    /\ LET said == Min({RowOf(db, m).said : m \in Planned(p)})
           added == Add(db, said, RowOf(db, newest).ends)
       IN  Commit(Withdrawn(added, Planned(p), "superseded", Newest(added)))
    /\ Done(p)

Tick ==
    /\ now < MaxTime
    /\ now' = now + 1
    /\ UNCHANGED <<db, plan>>

-----------------------------------------------------------------------------
People ==
    \/ \E said \in Date, ends \in Date \union {Never} : Save(said, ends)
    \/ \E m \in Memories :
          Delete(m) \/ Restore(m) \/ \E declined \in BOOLEAN : Review(m, declined)

Processing(p) ==
    \/ Abandon(p)
    \/ \E m \in Memories :
          \/ ReadRow(p, m)
          \/ \E ends \in Date \union {Never} : Patch(p, m, ends)
          \/ ExtractDelete(p, m)
          \/ \E said \in Date, ends \in Date \union {Never} :
                ExtractUpdate(p, m, said, ends) \/ ExtractSupersede(p, m, said, ends)
          \/ Consolidate(p, m)
          \/ Merge(p, m)
    \/ \E S \in SUBSET Memories : ReadGroup(p, S)
    \/ \E first, second \in Links(Planned(p)) : Dream(p, first, second)

\* Bound: the end is where no revision is left to be written.
Next ==
    /\ Revisions(db) < MaxRevisions
    /\ \/ People
       \/ \E p \in Process : Processing(p)
       \/ Tick

Spec == Init /\ [][Next]_vars

-----------------------------------------------------------------------------
\* Correctness.

StatusOf(m) == RowOf(db, m).status

SupersededOnes(d) == {m \in DOMAIN d.revs : RowOf(d, m).status = "superseded"}

\* Among any superseded memories is one whose replacement is not among them.
NoCircle(d) ==
    \A S \in SUBSET SupersededOnes(d) : S # {} => \E m \in S : RowOf(d, m).by \notin S

\* No circle of replacements: whoever follows superseded_by from a memory that
\* was superseded comes to one that was not.  Dreams and merges run side by side
\* on what they read before a provider was asked.
ChainsEnd == NoCircle(db)

\* A memory that a supersession takes out of use is replaced by one in use: one
\* that is active after the step, or was before it and the same step has
\* superseded it in turn.
HandedOver ==
    [][\A m \in Memories :
          StatusOf(m) = "active" /\ RowOf(db', m).status = "superseded" =>
              LET n == RowOf(db', m).by
              IN  \/ RowOf(db', n).status = "active"
                  \/ n \in Memories /\ StatusOf(n) = "active"]_vars

\* A revision that rewrites a memory was written by someone who had read the one
\* before it.
ReadBefore(d) ==
    \A m \in DOMAIN d.revs : \A i \in DOMAIN d.revs[m] : d.revs[m][i].base \in {0, i - 1}

\* Nobody's wording is overwritten unread, by a client or by a window.
NoLostUpdate == ReadBefore(db)

\* The revision in which m was last in use, if all since are superseded ones.
UsedUntil(m) ==
    {i \in DOMAIN db.revs[m] :
        /\ db.revs[m][i].status = "active"
        /\ \A k \in DOMAIN db.revs[m] : k > i => db.revs[m][k].status = "superseded"}

\* Restoring a superseded memory gives back the validity it had when it was last
\* in use, however often it was superseded or edited in between, and it is
\* listed as replaced no longer.
RestoreUndoes ==
    [][\A m \in Memories :
          /\ StatusOf(m) = "superseded" /\ RowOf(db', m).status = "active"
          /\ RowOf(db', m).by = None
          => /\ UsedUntil(m) # {} => RowOf(db', m).ends = db.revs[m][Max(UsedUntil(m))].ends
             /\ \A e \in db.edges' : e[2] # m]_vars
=============================================================================
