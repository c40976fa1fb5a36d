---------------------------- MODULE IndexMirror ----------------------------
(***************************************************************************)
(* What the vector index promises its readers, whatever delivers to it:    *)
(* every point shows a revision its row has had, and never one older than  *)
(* it has shown before.  A row that was deleted is shown as no point, and  *)
(* a row whose validity lapsed as either.                                  *)
(***************************************************************************)
EXTENDS Integers, Sequences

CONSTANT Entity     \* the rows that have a point: memories and raw messages

VARIABLES
    revs,           \* revs[e]: what each revision of e's row says
    index           \* index[e]: the revision the point follows, and what it
                    \* shows of it, itself or nothing (0)

\* A revision is retrievable, was archived or superseded, or is past valid_until.
RevisionStates == {"active", "inactive", "lapsed"}

\* What a point may show if it follows revision n of e's row.
Pictures(e, n) ==
    {[rev |-> n, shown |-> s] :
        s \in CASE n = 0 -> {0}
                [] n > 0 -> CASE revs[e][n] = "active" -> {n}
                              [] revs[e][n] = "lapsed" -> {0, n}
                              [] OTHER -> {0}}

Init ==
    /\ revs = [e \in Entity |-> << >>]
    /\ index = [e \in Entity |-> [rev |-> 0, shown |-> 0]]

\* A transaction commits the next revision of a row.
Write(e) ==
    /\ \E s \in {"active", "inactive"} : revs' = [revs EXCEPT ![e] = Append(@, s)]
    /\ UNCHANGED index

\* valid_until passes.
Lapse(e) ==
    /\ revs[e] # << >>
    /\ revs[e][Len(revs[e])] = "active"
    /\ revs' = [revs EXCEPT ![e][Len(revs[e])] = "lapsed"]
    /\ UNCHANGED index

\* Some points move on: one by a delivery, all at once by a rebuild.
CatchUp ==
    /\ index' \in [Entity -> [rev : Nat, shown : Nat]]
    /\ \A e \in Entity :
          /\ index'[e].rev \in index[e].rev .. Len(revs[e])
          /\ index'[e] = index[e] \/ index'[e] \in Pictures(e, index'[e].rev)
    /\ UNCHANGED revs

Next == CatchUp \/ \E e \in Entity : Write(e) \/ Lapse(e)

Spec == Init /\ [][Next]_<<revs, index>>
=============================================================================
