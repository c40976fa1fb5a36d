----------------------- MODULE MemoryLifecycle_proofs -----------------------
(***************************************************************************)
(* Theorems about MemoryLifecycle, for any set of processes and any number *)
(* of memories, revisions and dates.                                       *)
(***************************************************************************)
EXTENDS MemoryLifecycle, FiniteSetTheorems, SequenceTheorems, TLAPS

-----------------------------------------------------------------------------
\* Extremes of small sets of numbers.

\* Nonempty sets of natural numbers have a least member: of the intervals 0 .. k
\* none contains another for ever.
LEMMA LeastMember ==
  ASSUME NEW S \in SUBSET Nat, S # {}
  PROVE  \E k \in S : \A l \in S : k <= l
<1> DEFINE T == {0 .. k : k \in S}
<1>1. T \subseteq FiniteSubsetsOf(Nat)
  <2> SUFFICES ASSUME NEW k \in S PROVE 0 .. k \in FiniteSubsetsOf(Nat)
    OBVIOUS
  <2>1. IsFiniteSet(0 .. k)
    BY FS_Interval
  <2>2. 0 .. k \in SUBSET Nat
    OBVIOUS
  <2> QED
    BY <2>1, <2>2 DEF FiniteSubsetsOf
<1>2. T # {}
  OBVIOUS
<1>3. PICK I \in T : \A J \in T : ~ (<<J, I>> \in StrictSubsetOrdering(Nat))
  <2> HIDE DEF T
  <2> QED
    BY <1>1, <1>2, FS_StrictSubsetOrderingWellFounded, WFMin
<1>4. PICK k \in S : I = 0 .. k
  OBVIOUS
<1>5. ASSUME NEW l \in S, l < k PROVE FALSE
  <2>1. 0 .. l \in T
    OBVIOUS
  <2>2. 0 .. l \subseteq 0 .. k /\ 0 .. l # 0 .. k
    <3>1. k \in 0 .. k /\ k \notin 0 .. l
      BY <1>5
    <3>2. 0 .. l \subseteq 0 .. k
      BY <1>5
    <3> QED
      BY <3>1, <3>2
  <2>3. <<0 .. l, 0 .. k>> \in (SUBSET Nat) \X (SUBSET Nat)
    OBVIOUS
  <2>4. <<0 .. l, 0 .. k>> \in StrictSubsetOrdering(Nat)
    BY <2>2, <2>3 DEF StrictSubsetOrdering
  <2> HIDE DEF T
  <2> QED
    BY <2>1, <2>4, <1>3, <1>4
<1> QED
  BY <1>5

LEMMA MinIsMember ==
  ASSUME NEW S \in SUBSET Nat, S # {}
  PROVE  Min(S) \in S
<1>1. PICK k \in S : \A l \in S : k <= l
  BY LeastMember
<1> QED
  BY <1>1 DEF Min

LEMMA MaxIsMember ==
  ASSUME NEW n \in Nat, NEW S \in SUBSET (1 .. n), S # {}
  PROVE  Max(S) \in S
<1> DEFINE T == {n - i : i \in S}
<1>1. T \in SUBSET Nat
  <2> SUFFICES ASSUME NEW i \in S PROVE n - i \in Nat
    OBVIOUS
  <2>1. i \in 1 .. n
    OBVIOUS
  <2> QED
    BY <2>1
<1>2. T # {}
  OBVIOUS
<1>3. PICK k \in T : \A l \in T : k <= l
  <2> HIDE DEF T
  <2> QED
    BY <1>1, <1>2, LeastMember
<1>4. PICK x \in S : k = n - x
  OBVIOUS
<1>5. \A y \in S : x >= y
  <2> TAKE y \in S
  <2>1. n - x <= n - y
    BY <1>3, <1>4
  <2>2. x \in 1 .. n /\ y \in 1 .. n
    OBVIOUS
  <2> QED
    BY <2>1, <2>2
<1> QED
  BY <1>5 DEF Max

-----------------------------------------------------------------------------
\* What the writes of store.py return.

\* Memories and revisions are only added.
Grows(d, e) ==
  /\ DOMAIN d.revs \subseteq DOMAIN e.revs
  /\ \A m \in DOMAIN d.revs : DOMAIN d.revs[m] \subseteq DOMAIN e.revs[m]

\* e is d after revisions of the memories M alone.
Revised(d, e, M) ==
  /\ WellFormed(e)
  /\ Grows(d, e)
  /\ ReadBefore(d) => ReadBefore(e)
  /\ DOMAIN e.revs = DOMAIN d.revs
  /\ \A k \in DOMAIN d.revs \ M : RowOf(e, k) = RowOf(d, k)

\* A row of a well-formed database is a row, and its replacement another memory.
LEMMA RowIsRow ==
  ASSUME NEW d, WellFormed(d), NEW m \in DOMAIN d.revs
  PROVE  /\ d.revs[m] \in Seq(Row) /\ Len(d.revs[m]) \in Nat \ {0}
         /\ Len(d.revs[m]) \in DOMAIN d.revs[m]
         /\ RowOf(d, m) \in Row
         /\ RowOf(d, m).by \in ({None} \union DOMAIN d.revs) \ {m}
<1>1. d.revs[m] \in Seq(Row) /\ d.revs[m] # <<>>
  BY DEF WellFormed
<1>2. Len(d.revs[m]) \in Nat \ {0} /\ Len(d.revs[m]) \in DOMAIN d.revs[m]
  BY <1>1
<1> QED
  BY <1>1, <1>2 DEF RowOf, WellFormed

\* A revision is appended to one memory, and the others keep theirs.
LEMMA WriteFacts ==
  ASSUME NEW d, WellFormed(d), NEW m \in DOMAIN d.revs, NEW row \in Row,
         row.by \in ({None} \union DOMAIN d.revs) \ {m}
  PROVE  /\ WellFormed(Write(d, m, row))
         /\ Grows(d, Write(d, m, row))
         /\ ReadBefore(d) /\ row.base \in {0, Len(d.revs[m])} => ReadBefore(Write(d, m, row))
         /\ DOMAIN Write(d, m, row).revs = DOMAIN d.revs
         /\ Write(d, m, row).edges = d.edges
         /\ Write(d, m, row).revs[m] = Append(d.revs[m], row)
         /\ RowOf(Write(d, m, row), m) = row
         /\ \A k \in DOMAIN d.revs \ {m} :
               /\ Write(d, m, row).revs[k] = d.revs[k]
               /\ RowOf(Write(d, m, row), k) = RowOf(d, k)
<1> DEFINE e == Write(d, m, row)
<1>0. d \in [revs : Seq(Seq(Row)), edges : SUBSET (Nat \X Nat)]
      /\ d.revs \in Seq(Seq(Row)) /\ d.edges \in SUBSET (Nat \X Nat)
      /\ d.revs[m] \in Seq(Row)
  BY DEF WellFormed
<1>1. e.revs = [d.revs EXCEPT ![m] = Append(d.revs[m], row)] /\ e.edges = d.edges
  BY <1>0 DEF Write
<1>2. Append(d.revs[m], row) \in Seq(Row)
  BY <1>0
<1>3. e.revs \in Seq(Seq(Row)) /\ DOMAIN e.revs = DOMAIN d.revs
  BY <1>0, <1>1, <1>2
<1>4. e.revs[m] = Append(d.revs[m], row)
  BY <1>0, <1>1
<1>5. \A k \in DOMAIN d.revs \ {m} : e.revs[k] = d.revs[k]
  BY <1>0, <1>1
<1>6. RowOf(e, m) = row
  BY <1>0, <1>4 DEF RowOf
<1>7. \A k \in DOMAIN d.revs \ {m} : RowOf(e, k) = RowOf(d, k)
  BY <1>5 DEF RowOf
<1>8. \A k \in DOMAIN e.revs : \A i \in DOMAIN e.revs[k] :
         e.revs[k][i].by \in ({None} \union DOMAIN e.revs) \ {k}
  <2> TAKE k \in DOMAIN e.revs
  <2> TAKE i \in DOMAIN e.revs[k]
  <2>1. CASE k # m
    BY <2>1, <1>3, <1>5 DEF WellFormed
  <2>2. CASE k = m /\ i \in DOMAIN d.revs[m]
    <3>1. e.revs[m][i] = d.revs[m][i]
      BY <2>2, <1>0, <1>4
    <3> QED
      BY <3>1, <2>2, <1>3 DEF WellFormed
  <2>3. CASE k = m /\ i \notin DOMAIN d.revs[m]
    <3>1. e.revs[m][i] = row
      BY <2>3, <1>0, <1>4
    <3> QED
      BY <3>1, <2>3, <1>3
  <2> QED
    BY <2>1, <2>2, <2>3
<1>9. \A k \in DOMAIN e.revs : e.revs[k] # <<>>
  BY <1>0, <1>3, <1>4, <1>5 DEF WellFormed
<1>10. e \in [revs : Seq(Seq(Row)), edges : SUBSET (Nat \X Nat)]
  BY <1>0, <1>1, <1>3 DEF Write
<1>11. e.edges = d.edges
  BY <1>1
<1>12. WellFormed(e)
  BY <1>3, <1>8, <1>9, <1>10, <1>11 DEF WellFormed
<1>13. Len(d.revs[m]) \in Nat /\ DOMAIN d.revs[m] = 1 .. Len(d.revs[m])
       /\ DOMAIN e.revs[m] = 1 .. Len(d.revs[m]) + 1
  BY <1>0, <1>4
<1>14. Grows(d, e)
  <2>1. ASSUME NEW k \in DOMAIN d.revs PROVE DOMAIN d.revs[k] \subseteq DOMAIN e.revs[k]
    <3>1. CASE k = m
      BY <3>1, <1>13
    <3>2. CASE k # m
      BY <3>2, <1>5
    <3> QED
      BY <3>1, <3>2
  <2>2. DOMAIN d.revs \subseteq DOMAIN e.revs
    BY <1>3
  <2> HIDE DEF e
  <2> QED
    BY <2>1, <2>2 DEF Grows
<1>15. ASSUME ReadBefore(d), row.base \in {0, Len(d.revs[m])} PROVE ReadBefore(e)
  <2> SUFFICES ASSUME NEW k \in DOMAIN e.revs, NEW i \in DOMAIN e.revs[k]
               PROVE  e.revs[k][i].base \in {0, i - 1}
    BY DEF ReadBefore
  <2>1. CASE k # m
    BY <2>1, <1>3, <1>5, <1>15 DEF ReadBefore
  <2>2. CASE k = m /\ i \in DOMAIN d.revs[m]
    <3>1. e.revs[m][i] = d.revs[m][i]
      BY <2>2, <1>0, <1>4
    <3> QED
      BY <3>1, <2>2, <1>15 DEF ReadBefore
  <2>3. CASE k = m /\ i \notin DOMAIN d.revs[m]
    <3>1. i = Len(d.revs[m]) + 1
      BY <2>3, <1>13
    <3>2. e.revs[m][i] = row
      BY <3>1, <1>0, <1>4
    <3> QED
      BY <3>1, <3>2, <2>3, <1>13, <1>15
  <2> QED
    BY <2>1, <2>2, <2>3
<1> QED
  BY <1>3, <1>4, <1>5, <1>6, <1>7, <1>11, <1>12, <1>14, <1>15

\* A new memory is active, and the others keep their revisions.
LEMMA AddFacts ==
  ASSUME NEW d, WellFormed(d), NEW said \in Date, NEW ends \in Date \union {Never}
  PROVE  LET e == Add(d, said, ends)
             n == Newest(e)
         IN  /\ WellFormed(e)
             /\ Grows(d, e)
             /\ ReadBefore(d) => ReadBefore(e)
             /\ n = Len(d.revs) + 1 /\ n \notin DOMAIN d.revs /\ n # None
             /\ DOMAIN e.revs = DOMAIN d.revs \union {n}
             /\ e.edges = d.edges
             /\ Len(e.revs[n]) = 1
             /\ e.revs[n][1] = RowOf(e, n)
             /\ RowOf(e, n) \in Row
             /\ RowOf(e, n).status = "active" /\ RowOf(e, n).said = said
             /\ RowOf(e, n).by = None /\ RowOf(e, n).base = 0
             /\ \A k \in DOMAIN d.revs : /\ e.revs[k] = d.revs[k]
                                         /\ RowOf(e, k) = RowOf(d, k)
<1> DEFINE e == Add(d, said, ends)
           n == Newest(e)
           row == [status |-> "active", ends |-> ends, by |-> None, said |-> said, base |-> 0]
<1>0. d \in [revs : Seq(Seq(Row)), edges : SUBSET (Nat \X Nat)]
      /\ d.revs \in Seq(Seq(Row)) /\ d.edges \in SUBSET (Nat \X Nat)
  BY DEF WellFormed
<1>1. e.revs = Append(d.revs, <<row>>) /\ e.edges = d.edges
  BY <1>0 DEF Add
<1>2. row \in Row
  BY DEF Row, Status, None
<1>3. e.revs \in Seq(Seq(Row)) /\ n = Len(d.revs) + 1 /\ n # None
      /\ n \notin DOMAIN d.revs /\ DOMAIN e.revs = DOMAIN d.revs \union {n}
  BY <1>0, <1>1, <1>2 DEF Newest, None
<1>4. e.revs[n] = <<row>> /\ \A k \in DOMAIN d.revs : e.revs[k] = d.revs[k]
  <2>1. e.revs = Append(d.revs, <<row>>)
    BY <1>1
  <2>2. DOMAIN d.revs = 1 .. Len(d.revs) /\ Len(d.revs) \in Nat
    BY <1>0
  <2> HIDE DEF e
  <2> QED
    BY <2>1, <2>2, <1>0, <1>3
<1>5. RowOf(e, n) = row /\ \A k \in DOMAIN d.revs : RowOf(e, k) = RowOf(d, k)
  BY <1>4 DEF RowOf
<1>6. \A k \in DOMAIN e.revs : \A i \in DOMAIN e.revs[k] :
         e.revs[k][i].by \in ({None} \union DOMAIN e.revs) \ {k}
  <2> TAKE k \in DOMAIN e.revs
  <2> TAKE i \in DOMAIN e.revs[k]
  <2>1. CASE k = n
    <3>1. i = 1 /\ e.revs[k][i] = row
      BY <2>1, <1>4
    <3>2. n # None
      BY <1>0, <1>3 DEF None
    <3> QED
      BY <3>1, <3>2, <2>1
  <2>2. CASE k \in DOMAIN d.revs
    BY <2>2, <1>3, <1>4 DEF WellFormed
  <2> QED
    BY <2>1, <2>2, <1>3
<1>7. \A k \in DOMAIN e.revs : e.revs[k] # <<>>
  <2>1. \A k \in DOMAIN d.revs : d.revs[k] # <<>>
    BY DEF WellFormed
  <2>2. <<row>> # <<>>
    OBVIOUS
  <2> HIDE DEF e, n, row
  <2> QED
    BY <2>1, <2>2, <1>3, <1>4
<1>8. e \in [revs : Seq(Seq(Row)), edges : SUBSET (Nat \X Nat)] /\ e.edges = d.edges
  BY <1>0, <1>1, <1>3 DEF Add
<1>9. WellFormed(e)
  BY <1>3, <1>6, <1>7, <1>8 DEF WellFormed
<1>10. Grows(d, e)
  BY <1>3, <1>4 DEF Grows
<1>11. ASSUME ReadBefore(d) PROVE ReadBefore(e)
  <2> SUFFICES ASSUME NEW k \in DOMAIN e.revs, NEW i \in DOMAIN e.revs[k]
               PROVE  e.revs[k][i].base \in {0, i - 1}
    BY DEF ReadBefore
  <2>1. CASE k = n
    BY <2>1, <1>4
  <2>2. CASE k \in DOMAIN d.revs
    BY <2>2, <1>4, <1>11 DEF ReadBefore
  <2> QED
    BY <2>1, <2>2, <1>3
<1> QED
  BY <1>2, <1>3, <1>4, <1>5, <1>8, <1>9, <1>10, <1>11

\* set_memory_status, given a replacement that is another memory.
LEMMA SetStatusFacts ==
  ASSUME NEW d, WellFormed(d), NEW m \in DOMAIN d.revs, NEW status \in Status,
         NEW by \in ({None} \union DOMAIN d.revs) \ {m}, NEW ends \in Date \union {Never}
  PROVE  /\ Revised(d, SetStatus(d, m, status, by, ends), {m})
         /\ RowOf(SetStatus(d, m, status, by, ends), m).status = status
         /\ RowOf(SetStatus(d, m, status, by, ends), m).by = by
<1> DEFINE row == [RowOf(d, m) EXCEPT !.status = status, !.by = by, !.ends = ends, !.base = 0]
<1>1. RowOf(d, m) \in Row
  BY RowIsRow
<1>2. by \in Nat
  <2>1. DOMAIN d.revs = 1 .. Len(d.revs) /\ Len(d.revs) \in Nat
    BY DEF WellFormed
  <2> QED
    BY <2>1 DEF None
<1>3. row \in Row /\ row.status = status /\ row.by = by /\ row.base = 0
  BY <1>1, <1>2 DEF Row
<1> HIDE DEF row
<1>4. SetStatus(d, m, status, by, ends) = Write(d, m, row)
  BY DEF SetStatus, row
<1> QED
  BY <1>3, <1>4, WriteFacts DEF Revised

\* ... and it keeps the relations and sets the validity given.
LEMMA SetStatusKeeps ==
  ASSUME NEW d, WellFormed(d), NEW m \in DOMAIN d.revs, NEW status \in Status,
         NEW by \in ({None} \union DOMAIN d.revs) \ {m}, NEW ends \in Date \union {Never}
  PROVE  /\ RowOf(SetStatus(d, m, status, by, ends), m).ends = ends
         /\ SetStatus(d, m, status, by, ends).edges = d.edges
<1> DEFINE row == [RowOf(d, m) EXCEPT !.status = status, !.by = by, !.ends = ends, !.base = 0]
<1>1. RowOf(d, m) \in Row
  BY RowIsRow
<1>2. by \in Nat
  <2>1. DOMAIN d.revs = 1 .. Len(d.revs) /\ Len(d.revs) \in Nat
    BY DEF WellFormed
  <2> QED
    BY <2>1 DEF None
<1>3. row \in Row /\ row.by = by /\ row.ends = ends
  BY <1>1, <1>2 DEF Row
<1> HIDE DEF row
<1>4. SetStatus(d, m, status, by, ends) = Write(d, m, row)
  BY DEF SetStatus, row
<1> QED
  BY <1>3, <1>4, WriteFacts

\* Relations between other memories leave every row as it is.
LEMMA EdgesFacts ==
  ASSUME NEW d, WellFormed(d), NEW E \in SUBSET (Nat \X Nat),
         \A l \in E : l[1] \in DOMAIN d.revs /\ l[2] \in DOMAIN d.revs /\ l[1] # l[2],
         NEW f, f = [d EXCEPT !.edges = E]
  PROVE  WellFormed(f) /\ f.revs = d.revs /\ f.edges = E
<1>1. d \in [revs : Seq(Seq(Row)), edges : SUBSET (Nat \X Nat)]
  BY DEF WellFormed
<1>2. f.revs = d.revs /\ f.edges = E
  BY <1>1
<1>3. f \in [revs : Seq(Seq(Row)), edges : SUBSET (Nat \X Nat)]
  BY <1>1
<1>4. \A m \in DOMAIN d.revs :
         /\ d.revs[m] # <<>>
         /\ \A i \in DOMAIN d.revs[m] :
               d.revs[m][i].by \in ({None} \union DOMAIN d.revs) \ {m}
  BY DEF WellFormed
<1>5. WellFormed(f)
  BY <1>2, <1>3, <1>4 DEF WellFormed
<1> QED
  BY <1>2, <1>5

\* Undoing a supersession, or restoring what was deleted, revises one memory; the
\* first gives it its earlier validity back and drops the relations that replaced it.
LEMMA RestoredFacts ==
  ASSUME NEW d, WellFormed(d), NEW m \in DOMAIN d.revs
  PROVE  /\ Revised(d, Restored(d, m), {m})
         /\ RowOf(Restored(d, m), m).status = "active"
         /\ RowOf(d, m).status = "superseded" =>
               /\ RowOf(Restored(d, m), m).ends = ValidBefore(d, m)
               /\ Restored(d, m).edges = {l \in d.edges : l[2] # m}
<1>1. RowOf(d, m) \in Row
  BY RowIsRow
<1>2. None \in ({None} \union DOMAIN d.revs) \ {m}
  BY DEF WellFormed, None
<1>3. "active" \in Status
  BY DEF Status
<1>4. CASE RowOf(d, m).status # "superseded"
  <2>1. Restored(d, m) = SetStatus(d, m, "active", None, RowOf(d, m).ends)
    BY <1>4 DEF Restored
  <2>2. RowOf(d, m).ends \in Date \union {Never}
    BY <1>1 DEF Row
  <2>3. /\ Revised(d, SetStatus(d, m, "active", None, RowOf(d, m).ends), {m})
        /\ RowOf(SetStatus(d, m, "active", None, RowOf(d, m).ends), m).status = "active"
    BY <1>2, <1>3, <2>2, SetStatusFacts
  <2> QED
    BY <1>4, <2>1, <2>3
<1>5. CASE RowOf(d, m).status = "superseded"
  <2> DEFINE E == {l \in d.edges : l[2] # m}
             f == [d EXCEPT !.edges = E]
  <2>1. /\ E \in SUBSET (Nat \X Nat)
        /\ \A l \in E : l[1] \in DOMAIN d.revs /\ l[2] \in DOMAIN d.revs /\ l[1] # l[2]
    <3>1. d.edges \in SUBSET (Nat \X Nat)
      BY DEF WellFormed
    <3>2. \A l \in d.edges :
             l[1] \in DOMAIN d.revs /\ l[2] \in DOMAIN d.revs /\ l[1] # l[2]
      BY DEF WellFormed
    <3> QED
      BY <3>1, <3>2
  <2>2. WellFormed(f) /\ f.revs = d.revs /\ f.edges = E
    <3> HIDE DEF E
    <3> QED
      BY <2>1, EdgesFacts
  <2>3. f = [d EXCEPT !.edges = {l \in @ : l[2] # m}] /\ f.edges = {l \in d.edges : l[2] # m}
    BY <2>2
  <2> HIDE DEF f, E
  <2>4. Restored(d, m) = SetStatus(f, m, "active", None, ValidBefore(d, m))
    BY <1>5, <2>3 DEF Restored
  <2>5. ValidBefore(d, m) \in Date \union {Never}
    <3> DEFINE kept == {i \in DOMAIN d.revs[m] : d.revs[m][i].status # "superseded"}
    <3>1. CASE kept = {}
      BY <3>1 DEF ValidBefore
    <3>2. CASE kept # {}
      <4>1. d.revs[m] \in Seq(Row)
        BY RowIsRow
      <4>2. kept \in SUBSET (1 .. Len(d.revs[m])) /\ Len(d.revs[m]) \in Nat
        BY <4>1
      <4>3. Max(kept) \in kept
        <5> HIDE DEF kept
        <5> QED
          BY <3>2, <4>2, MaxIsMember
      <4>4. d.revs[m][Max(kept)] \in Row
        <5>1. Max(kept) \in 1 .. Len(d.revs[m])
          BY <4>2, <4>3
        <5> HIDE DEF kept
        <5> QED
          BY <4>1, <5>1
      <4>5. ValidBefore(d, m) = d.revs[m][Max(kept)].ends
        BY <3>2 DEF ValidBefore
      <4> QED
        BY <4>4, <4>5 DEF Row
    <3> QED
      BY <3>1, <3>2
  <2>6. /\ Revised(f, Restored(d, m), {m})
        /\ RowOf(Restored(d, m), m).status = "active"
        /\ RowOf(Restored(d, m), m).ends = ValidBefore(d, m)
        /\ Restored(d, m).edges = f.edges
    <3>1. None \in ({None} \union DOMAIN f.revs) \ {m} /\ m \in DOMAIN f.revs
      BY <1>2, <2>2
    <3>2. /\ Revised(f, SetStatus(f, m, "active", None, ValidBefore(d, m)), {m})
          /\ RowOf(SetStatus(f, m, "active", None, ValidBefore(d, m)), m).status = "active"
      BY <1>3, <2>2, <2>5, <3>1, SetStatusFacts
    <3>3. /\ RowOf(SetStatus(f, m, "active", None, ValidBefore(d, m)), m).ends = ValidBefore(d, m)
          /\ SetStatus(f, m, "active", None, ValidBefore(d, m)).edges = f.edges
      BY <1>3, <2>2, <2>5, <3>1, SetStatusKeeps
    <3> QED
      BY <2>4, <3>2, <3>3
  <2>7. \A k : RowOf(f, k) = RowOf(d, k)
    BY <2>2 DEF RowOf
  <2>8. ReadBefore(d) => ReadBefore(f)
    BY <2>2 DEF ReadBefore
  <2> QED
    BY <2>2, <2>3, <2>6, <2>7, <2>8 DEF Revised, Grows
<1> QED
  BY <1>4, <1>5

\* The last revision in use, if all since are superseded ones, is the last that
\* is not superseded.
LEMMA LastKept ==
  ASSUME NEW m \in Memories, WellFormed(db), UsedUntil(m) # {}
  PROVE  ValidBefore(db, m) = db.revs[m][Max(UsedUntil(m))].ends
<1> DEFINE kept == {k \in DOMAIN db.revs[m] : db.revs[m][k].status # "superseded"}
           later == UsedUntil(m)
<1>1. db.revs[m] \in Seq(Row)
  BY RowIsRow DEF Memories
<1>2. DOMAIN db.revs[m] = 1 .. Len(db.revs[m]) /\ Len(db.revs[m]) \in Nat
  BY <1>1
<1>3. PICK i \in later : TRUE
  OBVIOUS
<1>4. i \in kept /\ kept \in SUBSET (1 .. Len(db.revs[m]))
  BY <1>2, <1>3 DEF UsedUntil
<1>5. \A k \in kept : ~ (k > i)
  BY <1>3 DEF UsedUntil
<1>6. later \in SUBSET kept
  BY DEF UsedUntil
<1>7. Max(kept) \in kept /\ Max(later) \in later
  <2> HIDE DEF kept, later
  <2>1. later \in SUBSET (1 .. Len(db.revs[m]))
    BY <1>4, <1>6
  <2> QED
    BY <1>2, <1>3, <1>4, <2>1, MaxIsMember
<1>8. \A j \in later : \A k \in kept : ~ (k > j)
  BY DEF UsedUntil
<1>9. \A j \in later : j = i
  <2> HIDE DEF kept, later
  <2> TAKE j \in later
  <2>1. i \in 1 .. Len(db.revs[m]) /\ j \in 1 .. Len(db.revs[m])
    BY <1>4, <1>6
  <2>2. ~ (i > j) /\ ~ (j > i)
    BY <1>3, <1>4, <1>6, <1>8
  <2> QED
    BY <2>1, <2>2, <1>2
<1>10. Max(kept) = i
  <2> HIDE DEF kept, later
  <2>1. \A k \in kept : i >= k
    <3> TAKE k \in kept
    <3>1. i \in 1 .. Len(db.revs[m]) /\ k \in 1 .. Len(db.revs[m])
      BY <1>4
    <3> QED
      BY <3>1, <1>2, <1>5
  <2>2. \A k \in kept : (\A l \in kept : k >= l) => k = i
    <3> SUFFICES ASSUME NEW k \in kept, \A l \in kept : k >= l PROVE k = i
      OBVIOUS
    <3>1. i \in 1 .. Len(db.revs[m]) /\ k \in 1 .. Len(db.revs[m])
      BY <1>4
    <3>2. k >= i /\ i >= k
      BY <1>4, <2>1
    <3> QED
      BY <3>1, <3>2, <1>2
  <2> QED
    BY <1>4, <2>1, <2>2 DEF Max
<1>11. ValidBefore(db, m) = db.revs[m][Max(kept)].ends
  BY <1>4 DEF ValidBefore
<1>12. Max(later) = i
  BY <1>7, <1>9
<1> QED
  BY <1>10, <1>11, <1>12

\* A supersession revises the replaced memory alone.
LEMMA SupersededFacts ==
  ASSUME NEW d, WellFormed(d), NEW old \in DOMAIN d.revs, NEW new \in DOMAIN d.revs \ {old}
  PROVE  /\ Revised(d, Superseded(d, old, new), {old})
         /\ RowOf(Superseded(d, old, new), old).status = "superseded"
         /\ RowOf(Superseded(d, old, new), old).by = new
<1> DEFINE E == d.edges \union {<<new, old>>}
           f == [d EXCEPT !.edges = E]
           ends == Min({RowOf(d, old).ends, RowOf(d, new).said})
<1>1. RowOf(d, old) \in Row /\ RowOf(d, new) \in Row
  BY RowIsRow
<1>2. /\ E \in SUBSET (Nat \X Nat)
      /\ \A l \in E : l[1] \in DOMAIN d.revs /\ l[2] \in DOMAIN d.revs /\ l[1] # l[2]
  <2>1. d.edges \in SUBSET (Nat \X Nat)
    BY DEF WellFormed
  <2>2. \A l \in d.edges :
           l[1] \in DOMAIN d.revs /\ l[2] \in DOMAIN d.revs /\ l[1] # l[2]
    BY DEF WellFormed
  <2>3. <<new, old>> \in Nat \X Nat
    <3>1. DOMAIN d.revs = 1 .. Len(d.revs) /\ Len(d.revs) \in Nat
      BY DEF WellFormed
    <3> QED
      BY <3>1
  <2> QED
    BY <2>1, <2>2, <2>3
<1>3. WellFormed(f) /\ f.revs = d.revs
  <2> HIDE DEF E
  <2> QED
    BY <1>2, EdgesFacts
<1>4. ends \in Date \union {Never}
  <2> DEFINE S == {RowOf(d, old).ends, RowOf(d, new).said}
  <2>1. S \subseteq Date \union {Never}
    BY <1>1 DEF Row
  <2>2. S \in SUBSET Nat /\ S # {}
    BY <2>1, MemoryAssumption DEF Date, Never
  <2>3. Min(S) \in S
    <3> HIDE DEF S
    <3> QED
      BY <2>2, MinIsMember
  <2> QED
    BY <2>1, <2>3
<1>5. Superseded(d, old, new) = SetStatus(f, old, "superseded", new, ends)
  BY DEF Superseded
<1> HIDE DEF f, E, ends
<1>6. "superseded" \in Status
  BY DEF Status
<1>7. new \in ({None} \union DOMAIN f.revs) \ {old} /\ old \in DOMAIN f.revs
  BY <1>3
<1>8. /\ Revised(f, Superseded(d, old, new), {old})
      /\ RowOf(Superseded(d, old, new), old).status = "superseded"
      /\ RowOf(Superseded(d, old, new), old).by = new
  <2> DEFINE e == SetStatus(f, old, "superseded", new, ends)
  <2>1. Revised(f, e, {old}) /\ RowOf(e, old).status = "superseded" /\ RowOf(e, old).by = new
    BY <1>3, <1>4, <1>6, <1>7, SetStatusFacts
  <2> QED
    BY <1>5, <2>1
<1>9. \A k : RowOf(f, k) = RowOf(d, k)
  BY <1>3 DEF RowOf
<1>10. ReadBefore(d) => ReadBefore(f)
  BY <1>3 DEF ReadBefore
<1> QED
  BY <1>3, <1>8, <1>9, <1>10 DEF Revised, Grows

\* Several memories are withdrawn, and none of them is the replacement.
LEMMA WithdrawnFacts ==
  ASSUME NEW d, WellFormed(d), NEW M \in SUBSET DOMAIN d.revs, NEW status \in Status,
         NEW by \in {None} \union DOMAIN d.revs, by \notin M,
         NEW e, e = Withdrawn(d, M, status, by)
  PROVE  /\ Revised(d, e, M)
         /\ \A m \in M : RowOf(e, m).status = status /\ RowOf(e, m).by = by
<1> DEFINE row(m) == [RowOf(d, m) EXCEPT !.status = status, !.by = by, !.base = 0]
           revs == [m \in DOMAIN d.revs |->
                      IF m \in M THEN Append(d.revs[m], row(m)) ELSE d.revs[m]]
<1>0. /\ d \in [revs : Seq(Seq(Row)), edges : SUBSET (Nat \X Nat)]
      /\ DOMAIN d.revs = 1 .. Len(d.revs) /\ Len(d.revs) \in Nat
  BY DEF WellFormed
<1>1. e = [d EXCEPT !.revs = revs]
  BY DEF Withdrawn
<1>2. \A m \in M : row(m) \in Row /\ row(m).status = status /\ row(m).by = by /\ row(m).base = 0
  <2> TAKE m \in M
  <2>1. RowOf(d, m) \in Row
    BY RowIsRow
  <2>2. by \in Nat
    BY <1>0 DEF None
  <2> QED
    BY <2>1, <2>2 DEF Row
<1>3. \A m \in DOMAIN d.revs : d.revs[m] \in Seq(Row) /\ d.revs[m] # <<>>
  BY DEF WellFormed
<1> HIDE DEF row
<1>4. \A m \in M : Append(d.revs[m], row(m)) \in Seq(Row) /\ Append(d.revs[m], row(m)) # <<>>
  <2> TAKE m \in M
  <2>1. d.revs[m] \in Seq(Row) /\ row(m) \in Row
    BY <1>2, <1>3
  <2> QED
    BY <2>1
<1>5. revs \in Seq(Seq(Row)) /\ DOMAIN revs = DOMAIN d.revs
  <2>1. \A m \in 1 .. Len(d.revs) : revs[m] \in Seq(Row)
    BY <1>0, <1>3, <1>4
  <2>2. revs \in [1 .. Len(d.revs) -> Seq(Row)]
    BY <1>0, <2>1
  <2> HIDE DEF revs
  <2> QED
    <3>1. revs \in UNION {[1 .. n -> Seq(Row)] : n \in Nat}
      BY <1>0, <2>2
    <3>2. revs \in Seq(Seq(Row))
      BY <3>1, SeqDef
    <3> QED
      BY <1>0, <2>2, <3>2
<1>6. e \in [revs : Seq(Seq(Row)), edges : SUBSET (Nat \X Nat)]
  BY <1>0, <1>1, <1>5
<1>7. e.revs = revs /\ e.edges = d.edges
  BY <1>0, <1>1
<1>8. DOMAIN e.revs = DOMAIN d.revs
  BY <1>5, <1>7
<1>9. \A m \in M : e.revs[m] = Append(d.revs[m], row(m))
  BY <1>7
<1>10. \A m \in DOMAIN d.revs \ M : e.revs[m] = d.revs[m]
  BY <1>7
<1> HIDE DEF revs
<1>11. ASSUME NEW m \in M, NEW i \in DOMAIN e.revs[m], i \notin DOMAIN d.revs[m]
       PROVE  i = Len(d.revs[m]) + 1 /\ e.revs[m][i] = row(m)
  BY <1>2, <1>3, <1>9, <1>11
<1>12. ASSUME NEW m \in M, NEW i \in DOMAIN d.revs[m]
       PROVE  i \in DOMAIN e.revs[m] /\ e.revs[m][i] = d.revs[m][i]
  BY <1>2, <1>3, <1>9
<1>13. \A m \in DOMAIN e.revs :
          /\ e.revs[m] # <<>>
          /\ \A i \in DOMAIN e.revs[m] :
                e.revs[m][i].by \in ({None} \union DOMAIN e.revs) \ {m}
  <2> TAKE m \in DOMAIN e.revs
  <2>1. CASE m \notin M
    BY <2>1, <1>8, <1>10 DEF WellFormed
  <2>2. CASE m \in M
    <3>1. e.revs[m] # <<>>
      BY <2>2, <1>4, <1>9
    <3>2. ASSUME NEW i \in DOMAIN e.revs[m], i \in DOMAIN d.revs[m]
          PROVE  e.revs[m][i].by \in ({None} \union DOMAIN e.revs) \ {m}
      BY <2>2, <3>2, <1>8, <1>12 DEF WellFormed
    <3>3. ASSUME NEW i \in DOMAIN e.revs[m], i \notin DOMAIN d.revs[m]
          PROVE  e.revs[m][i].by \in ({None} \union DOMAIN e.revs) \ {m}
      BY <2>2, <3>3, <1>2, <1>8, <1>11
    <3> QED
      BY <3>1, <3>2, <3>3
  <2> QED
    BY <2>1, <2>2
<1>14. WellFormed(e)
  BY <1>6, <1>7, <1>8, <1>13 DEF WellFormed
<1>15. Grows(d, e)
  <2>1. ASSUME NEW m \in DOMAIN d.revs PROVE DOMAIN d.revs[m] \subseteq DOMAIN e.revs[m]
    BY <1>10, <1>12
  <2> QED
    BY <1>8, <2>1 DEF Grows
<1>16. ASSUME ReadBefore(d) PROVE ReadBefore(e)
  <2> SUFFICES ASSUME NEW m \in DOMAIN e.revs, NEW i \in DOMAIN e.revs[m]
               PROVE  e.revs[m][i].base \in {0, i - 1}
    BY DEF ReadBefore
  <2>1. CASE m \notin M
    BY <2>1, <1>8, <1>10, <1>16 DEF ReadBefore
  <2>2. CASE m \in M /\ i \in DOMAIN d.revs[m]
    BY <2>2, <1>8, <1>12, <1>16 DEF ReadBefore
  <2>3. CASE m \in M /\ i \notin DOMAIN d.revs[m]
    BY <2>3, <1>2, <1>11
  <2> QED
    BY <2>1, <2>2, <2>3
<1>17. \A m \in M : RowOf(e, m) = row(m)
  <2> TAKE m \in M
  <2>1. d.revs[m] \in Seq(Row) /\ row(m) \in Row
    BY <1>2, <1>3
  <2>2. e.revs[m] = Append(d.revs[m], row(m))
    BY <1>9
  <2> QED
    BY <2>1, <2>2 DEF RowOf
<1>18. \A m \in DOMAIN d.revs \ M : RowOf(e, m) = RowOf(d, m)
  BY <1>10 DEF RowOf
<1> QED
  BY <1>2, <1>8, <1>14, <1>15, <1>16, <1>17, <1>18 DEF Revised

-----------------------------------------------------------------------------
\* Circles.

\* A step that supersedes only in favour of s, itself not superseded after it,
\* closes no circle.
LEMMA CircleFree ==
  ASSUME NEW d, NEW e, NoCircle(d), NEW s, s \notin SupersededOnes(e),
         \A m \in SupersededOnes(e) :
            \/ RowOf(e, m).by = s
            \/ m \in SupersededOnes(d) /\ RowOf(e, m).by = RowOf(d, m).by
  PROVE  NoCircle(e)
<1> SUFFICES ASSUME NEW S \in SUBSET SupersededOnes(e), S # {}
             PROVE  \E m \in S : RowOf(e, m).by \notin S
  BY DEF NoCircle
<1>1. CASE \E m \in S : RowOf(e, m).by = s
  BY <1>1
<1>2. CASE \A m \in S : RowOf(e, m).by # s
  <2>1. S \in SUBSET SupersededOnes(d) /\ \A m \in S : RowOf(e, m).by = RowOf(d, m).by
    BY <1>2
  <2> QED
    BY <2>1 DEF NoCircle
<1> QED
  BY <1>1, <1>2

\* Nor does one that supersedes only a memory nobody has been replaced by.
LEMMA CircleFreeHistory ==
  ASSUME NEW d, WellFormed(d), NEW e, NoCircle(d), NEW n, n \notin {None} \union DOMAIN d.revs,
         RowOf(e, n).by # n,
         \A m \in SupersededOnes(e) :
            m = n \/ (m \in SupersededOnes(d) /\ RowOf(e, m).by = RowOf(d, m).by)
  PROVE  NoCircle(e)
<1> SUFFICES ASSUME NEW S \in SUBSET SupersededOnes(e), S # {}
             PROVE  \E m \in S : RowOf(e, m).by \notin S
  BY DEF NoCircle
<1>1. CASE S = {n}
  BY <1>1
<1>2. CASE S # {n}
  <2>1. S \ {n} \in SUBSET SupersededOnes(d) /\ S \ {n} # {}
    BY <1>2
  <2>2. PICK m \in S \ {n} : RowOf(d, m).by \notin S \ {n}
    BY <2>1 DEF NoCircle
  <2>3. m \in SupersededOnes(d) /\ RowOf(e, m).by = RowOf(d, m).by
    BY <2>1, <2>2
  <2>4. m \in DOMAIN d.revs
    BY <2>3 DEF SupersededOnes
  <2>5. RowOf(d, m).by \in {None} \union DOMAIN d.revs
    BY <2>4, RowIsRow
  <2> QED
    BY <2>2, <2>3, <2>5
<1> QED
  BY <1>1, <1>2

-----------------------------------------------------------------------------
\* What every transaction does to a well-formed database.

\* Who is taken out of use is replaced by somebody in use, before or after.
Handed(d, e) ==
  \A m \in DOMAIN d.revs :
     RowOf(d, m).status = "active" /\ RowOf(e, m).status = "superseded" =>
        LET n == RowOf(e, m).by
        IN  \/ RowOf(e, n).status = "active"
            \/ n \in DOMAIN d.revs /\ RowOf(d, n).status = "active"

\* Whatever is superseded names its replacement.
Named(d) == \A m \in SupersededOnes(d) : RowOf(d, m).by # None

\* What was superseded and is active again was restored, or is listed as replaced still.
Revived(d, e) ==
  \A m \in SupersededOnes(d) : RowOf(e, m).status = "active" =>
     RowOf(e, m).by = RowOf(d, m).by \/ e = Restored(d, m)

Good(d, e) ==
  /\ WellFormed(e)
  /\ Grows(d, e)
  /\ ReadBefore(d) => ReadBefore(e)
  /\ NoCircle(d) => NoCircle(e)
  /\ Handed(d, e)
  /\ Named(d) => Named(e)
  /\ Revived(d, e)

\* A single memory is revised and not superseded by that.
LEMMA RevisedOne ==
  ASSUME NEW d, WellFormed(d), NEW e, NEW m \in DOMAIN d.revs, Revised(d, e, {m}),
         \/ RowOf(e, m).status # "superseded"
         \/ RowOf(e, m).status = RowOf(d, m).status /\ RowOf(e, m).by = RowOf(d, m).by,
         \/ RowOf(e, m).status # "active"
         \/ RowOf(e, m).by = RowOf(d, m).by
         \/ e = Restored(d, m)
  PROVE  Good(d, e)
<1>1. /\ WellFormed(e) /\ Grows(d, e) /\ (ReadBefore(d) => ReadBefore(e))
      /\ DOMAIN e.revs = DOMAIN d.revs
      /\ \A k \in DOMAIN d.revs \ {m} : RowOf(e, k) = RowOf(d, k)
  BY DEF Revised
<1>2. \A k \in SupersededOnes(e) :
         k \in SupersededOnes(d) /\ RowOf(e, k).by = RowOf(d, k).by
  BY <1>1 DEF SupersededOnes
<1>3. None \notin SupersededOnes(e)
  BY DEF Revised, WellFormed, SupersededOnes, None
<1>4. NoCircle(d) => NoCircle(e)
  BY <1>2, <1>3, CircleFree
<1>5. Handed(d, e)
  BY <1>1, <1>2 DEF Handed, SupersededOnes
<1>6. Named(d) => Named(e)
  BY <1>2 DEF Named
<1>7. Revived(d, e)
  BY <1>1 DEF Revived, SupersededOnes
<1> QED
  BY <1>1, <1>4, <1>5, <1>6, <1>7 DEF Good

\* Memories are superseded in favour of one that is active.
LEMMA TakenOver ==
  ASSUME NEW d, WellFormed(d), NEW e, WellFormed(e), Grows(d, e),
         ReadBefore(d) => ReadBefore(e),
         NEW s, s # None, RowOf(e, s).status = "active",
         \A m \in SupersededOnes(d) : RowOf(e, m).status # "active",
         \A m \in SupersededOnes(e) :
            \/ RowOf(e, m).by = s
            \/ m \in SupersededOnes(d) /\ RowOf(e, m).by = RowOf(d, m).by
  PROVE  Good(d, e)
<1>1. s \notin SupersededOnes(e)
  BY DEF SupersededOnes
<1>2. NoCircle(d) => NoCircle(e)
  BY <1>1, CircleFree
<1>3. Handed(d, e)
  <2> SUFFICES ASSUME NEW m \in DOMAIN d.revs,
                      RowOf(d, m).status = "active", RowOf(e, m).status = "superseded"
               PROVE  RowOf(e, RowOf(e, m).by).status = "active"
    BY DEF Handed
  <2>1. m \in SupersededOnes(e) /\ m \notin SupersededOnes(d)
    BY DEF SupersededOnes, Grows
  <2> QED
    BY <2>1
<1>4. Named(d) => Named(e)
  BY DEF Named
<1>5. Revived(d, e)
  BY DEF Revived
<1> QED
  BY <1>2, <1>3, <1>4, <1>5 DEF Good

LEMMA AddGood ==
  ASSUME NEW d, WellFormed(d), NEW said \in Date, NEW ends \in Date \union {Never}
  PROVE  Good(d, Add(d, said, ends))
<1> DEFINE e == Add(d, said, ends)
           n == Newest(e)
<1>1. /\ WellFormed(e) /\ Grows(d, e) /\ (ReadBefore(d) => ReadBefore(e))
      /\ DOMAIN e.revs = DOMAIN d.revs \union {n} /\ n # None
      /\ RowOf(e, n).status = "active"
      /\ \A k \in DOMAIN d.revs : RowOf(e, k) = RowOf(d, k)
  BY AddFacts
<1> HIDE DEF e, n
<1>2. /\ \A k \in SupersededOnes(e) :
            k \in SupersededOnes(d) /\ RowOf(e, k).by = RowOf(d, k).by
      /\ \A k \in SupersededOnes(d) : RowOf(e, k).status # "active"
  BY <1>1 DEF SupersededOnes
<1>3. Good(d, e)
  BY <1>1, <1>2, TakenOver
<1> QED
  BY <1>3 DEF e

\* set_memory_status to anything but superseded, and a restore.
LEMMA StatusGood ==
  ASSUME NEW d, WellFormed(d), NEW m \in DOMAIN d.revs
  PROVE  /\ Good(d, SetStatus(d, m, "archived", None, RowOf(d, m).ends))
         /\ Good(d, Restored(d, m))
<1>1. None \in ({None} \union DOMAIN d.revs) \ {m}
  BY DEF WellFormed, None
<1>2. RowOf(d, m).ends \in Date \union {Never}
  BY RowIsRow DEF Row
<1>3. "archived" \in Status
  BY DEF Status
<1> DEFINE ends == RowOf(d, m).ends
           e == SetStatus(d, m, "archived", None, ends)
<1>4. Good(d, e)
  <2>1. ends \in Date \union {Never}
    BY <1>2
  <2> HIDE DEF ends
  <2>2. Revised(d, e, {m}) /\ RowOf(e, m).status = "archived"
    BY <1>1, <1>3, <2>1, SetStatusFacts
  <2> HIDE DEF e
  <2> QED
    BY <2>2, RevisedOne
<1>5. Good(d, Restored(d, m))
  BY RestoredFacts, RevisedOne
<1> QED
  BY <1>4, <1>5

\* A row rewritten in place, its status and its replacement as they were or not
\* superseded.
LEMMA WriteGood ==
  ASSUME NEW d, WellFormed(d), NEW m \in DOMAIN d.revs, NEW row \in Row,
         row.base \in {0, Len(d.revs[m])}, row.by = RowOf(d, m).by,
         row.status # "superseded" \/ row.status = RowOf(d, m).status
  PROVE  Good(d, Write(d, m, row))
<1>1. row.by \in ({None} \union DOMAIN d.revs) \ {m}
  BY RowIsRow
<1>2. Revised(d, Write(d, m, row), {m}) /\ RowOf(Write(d, m, row), m) = row
  BY <1>1, WriteFacts DEF Revised
<1> QED
  BY <1>2, RevisedOne

\* A claim replaces a memory.
LEMMA ForwardsGood ==
  ASSUME NEW d, WellFormed(d), NEW m \in DOMAIN d.revs,
         NEW said \in Date, NEW ends \in Date \union {Never}
  PROVE  LET added == Add(d, said, ends)
         IN  Good(d, Superseded(added, m, Newest(added)))
<1> DEFINE a == Add(d, said, ends)
           n == Newest(a)
           e == Superseded(a, m, n)
<1>1. /\ WellFormed(a) /\ Grows(d, a) /\ (ReadBefore(d) => ReadBefore(a))
      /\ n \notin DOMAIN d.revs /\ n # None
      /\ DOMAIN a.revs = DOMAIN d.revs \union {n}
      /\ RowOf(a, n).status = "active"
      /\ \A k \in DOMAIN d.revs : RowOf(a, k) = RowOf(d, k)
  BY AddFacts
<1> HIDE DEF a, n
<1>2. /\ Revised(a, e, {m})
      /\ RowOf(e, m).by = n /\ RowOf(e, m).status = "superseded"
  BY <1>1, SupersededFacts
<1> HIDE DEF e
<1>3. /\ WellFormed(e) /\ Grows(a, e) /\ (ReadBefore(a) => ReadBefore(e))
      /\ DOMAIN e.revs = DOMAIN a.revs
      /\ \A k \in DOMAIN a.revs \ {m} : RowOf(e, k) = RowOf(a, k)
  BY <1>2 DEF Revised
<1>4. Grows(d, e)
  BY <1>1, <1>3 DEF Grows
<1>5. RowOf(e, n).status = "active"
  BY <1>1, <1>3
<1>6. \A k \in SupersededOnes(e) :
         \/ RowOf(e, k).by = n
         \/ k \in SupersededOnes(d) /\ RowOf(e, k).by = RowOf(d, k).by
  BY <1>1, <1>2, <1>3, <1>5 DEF SupersededOnes
<1>7. \A k \in SupersededOnes(d) : RowOf(e, k).status # "active"
  BY <1>1, <1>2, <1>3 DEF SupersededOnes
<1>8. Good(d, e)
  BY <1>1, <1>3, <1>4, <1>5, <1>6, <1>7, TakenOver
<1> QED
  BY <1>8 DEF e, n, a

\* A claim becomes the history of a memory.
LEMMA BackwardsGood ==
  ASSUME NEW d, WellFormed(d), NEW m \in DOMAIN d.revs,
         NEW said \in Date, NEW ends \in Date \union {Never}
  PROVE  LET added == Add(d, said, ends)
         IN  Good(d, Superseded(added, Newest(added), m))
<1> DEFINE a == Add(d, said, ends)
           n == Newest(a)
           e == Superseded(a, n, m)
<1>1. /\ WellFormed(a) /\ Grows(d, a) /\ (ReadBefore(d) => ReadBefore(a))
      /\ n \notin {None} \union DOMAIN d.revs /\ m # None
      /\ DOMAIN a.revs = DOMAIN d.revs \union {n}
      /\ \A k \in DOMAIN d.revs : RowOf(a, k) = RowOf(d, k)
  <2>1. Len(d.revs) \in Nat /\ DOMAIN d.revs = 1 .. Len(d.revs)
    BY DEF WellFormed
  <2>2. m # None
    BY <2>1 DEF None
  <2>3. /\ WellFormed(a) /\ Grows(d, a) /\ (ReadBefore(d) => ReadBefore(a))
        /\ n \notin DOMAIN d.revs /\ n # None
        /\ DOMAIN a.revs = DOMAIN d.revs \union {n}
        /\ \A k \in DOMAIN d.revs : RowOf(a, k) = RowOf(d, k)
    BY AddFacts
  <2> HIDE DEF a, n
  <2> QED
    BY <2>2, <2>3
<1> HIDE DEF a, n
<1>2. /\ Revised(a, e, {n})
      /\ RowOf(e, n).by = m /\ m # None
  BY <1>1, SupersededFacts
<1> HIDE DEF e
<1>3. /\ WellFormed(e) /\ Grows(a, e) /\ (ReadBefore(a) => ReadBefore(e))
      /\ DOMAIN e.revs = DOMAIN a.revs
      /\ \A k \in DOMAIN a.revs \ {n} : RowOf(e, k) = RowOf(a, k)
  BY <1>2 DEF Revised
<1>4. Grows(d, e)
  BY <1>1, <1>3 DEF Grows
<1>5. \A k \in SupersededOnes(e) :
         k = n \/ (k \in SupersededOnes(d) /\ RowOf(e, k).by = RowOf(d, k).by)
  BY <1>1, <1>3 DEF SupersededOnes
<1>6. NoCircle(d) => NoCircle(e)
  <2>1. RowOf(e, n).by # n
    BY <1>1, <1>2
  <2> QED
    BY <1>1, <1>5, <2>1, CircleFreeHistory
<1>7. Handed(d, e)
  BY <1>1, <1>3 DEF Handed
<1>8. Named(d) => Named(e)
  BY <1>1, <1>2, <1>5 DEF Named
<1>9. Revived(d, e)
  BY <1>1, <1>3 DEF Revived, SupersededOnes
<1>10. Good(d, e)
  BY <1>1, <1>3, <1>4, <1>6, <1>7, <1>8, <1>9 DEF Good
<1> QED
  BY <1>10 DEF e, n, a

\* What the links of a dream made so far have left: who is still live was active
\* when the cluster was locked and is active now.
Linking(d, state) ==
  /\ WellFormed(state.d)
  /\ Grows(d, state.d)
  /\ ReadBefore(d) => ReadBefore(state.d)
  /\ NoCircle(d) => NoCircle(state.d)
  /\ Named(d) => Named(state.d)
  /\ SupersededOnes(d) \subseteq SupersededOnes(state.d)
  /\ DOMAIN state.d.revs = DOMAIN d.revs
  /\ \A k \in state.live : /\ k \in DOMAIN d.revs
                           /\ RowOf(d, k).status = "active"
                           /\ RowOf(state.d, k).status = "active"
  /\ \A m \in DOMAIN d.revs :
        RowOf(d, m).status = "active" /\ RowOf(state.d, m).status = "superseded" =>
           /\ RowOf(state.d, m).by \in DOMAIN d.revs
           /\ RowOf(d, RowOf(state.d, m).by).status = "active"

LEMMA LinkedKeeps ==
  ASSUME NEW d, NEW state, Linking(d, state), NEW l, l[1] # l[2]
  PROVE  Linking(d, Linked(state, l))
<1> DEFINE new == l[1]
           old == l[2]
           e == Superseded(state.d, old, new)
           go == /\ {new, old} \subseteq state.live
                 /\ RowOf(state.d, new).said >= RowOf(state.d, old).said
<1>1. CASE ~ go
  <2>1. Linked(state, l) = state
    BY <1>1 DEF Linked
  <2> QED
    BY <2>1
<1>2. CASE go
  <2>1. Linked(state, l) = [d |-> e, live |-> state.live \ {old}]
    BY <1>2 DEF Linked
  <2>2. Linked(state, l).d = e /\ Linked(state, l).live = state.live \ {old}
    BY <2>1
  <2>3. new \in state.live /\ old \in state.live /\ new # old
    BY <1>2
  <2> HIDE DEF new, old, go
  <2>4. /\ new \in DOMAIN d.revs /\ old \in DOMAIN d.revs
        /\ RowOf(d, new).status = "active" /\ RowOf(state.d, new).status = "active"
        /\ DOMAIN state.d.revs = DOMAIN d.revs /\ WellFormed(state.d)
    BY <2>3 DEF Linking
  <2>5. Revised(state.d, e, {old}) /\ RowOf(e, old).by = new /\ RowOf(e, old).status = "superseded"
    BY <2>3, <2>4, SupersededFacts
  <2> HIDE DEF e
  <2>6. /\ WellFormed(e) /\ Grows(state.d, e) /\ (ReadBefore(state.d) => ReadBefore(e))
        /\ DOMAIN e.revs = DOMAIN d.revs
        /\ \A k \in DOMAIN d.revs \ {old} : RowOf(e, k) = RowOf(state.d, k)
    BY <2>4, <2>5 DEF Revised
  <2>7. RowOf(e, new).status = "active"
    BY <2>3, <2>4, <2>6
  <2>8. Grows(d, e)
    BY <2>4, <2>6 DEF Linking, Grows
  <2>9. ReadBefore(d) => ReadBefore(e)
    BY <2>6 DEF Linking
  <2>10. NoCircle(d) => NoCircle(e)
    <3>1. \A m \in SupersededOnes(e) :
             \/ RowOf(e, m).by = new
             \/ m \in SupersededOnes(state.d) /\ RowOf(e, m).by = RowOf(state.d, m).by
      BY <2>4, <2>5, <2>6 DEF SupersededOnes
    <3>2. new \notin SupersededOnes(e)
      BY <2>7 DEF SupersededOnes
    <3>3. NoCircle(state.d) => NoCircle(e)
      BY <3>1, <3>2, CircleFree
    <3> QED
      BY <3>3 DEF Linking
  <2>11. \A k \in state.live \ {old} : /\ k \in DOMAIN d.revs
                                       /\ RowOf(d, k).status = "active"
                                       /\ RowOf(e, k).status = "active"
    BY <2>6 DEF Linking
  <2>12. \A m \in DOMAIN d.revs :
            RowOf(d, m).status = "active" /\ RowOf(e, m).status = "superseded" =>
               /\ RowOf(e, m).by \in DOMAIN d.revs
               /\ RowOf(d, RowOf(e, m).by).status = "active"
    <3> TAKE m \in DOMAIN d.revs
    <3>1. CASE m = old
      BY <3>1, <2>4, <2>5
    <3>2. CASE m # old
      <4>1. RowOf(e, m) = RowOf(state.d, m)
        BY <3>2, <2>6
      <4> QED
        BY <4>1 DEF Linking
    <3> QED
      BY <3>1, <3>2
  <2>13. Named(d) => Named(e)
    <3>1. new # None
      <4>1. DOMAIN d.revs = 1 .. Len(state.d.revs) /\ Len(state.d.revs) \in Nat
        BY <2>4 DEF WellFormed
      <4> QED
        BY <2>4, <4>1 DEF None
    <3>2. Named(state.d) => Named(e)
      BY <2>4, <2>5, <2>6, <3>1 DEF Named, SupersededOnes
    <3> QED
      BY <3>2 DEF Linking
  <2>14. SupersededOnes(d) \subseteq SupersededOnes(e)
    <3>1. SupersededOnes(state.d) \subseteq SupersededOnes(e)
      BY <2>4, <2>5, <2>6 DEF SupersededOnes
    <3> QED
      BY <3>1 DEF Linking
  <2> QED
    BY <2>2, <2>6, <2>8, <2>9, <2>10, <2>11, <2>12, <2>13, <2>14 DEF Linking
<1> QED
  BY <1>1, <1>2

\* The links of a dream, after its cluster was locked.
LEMMA DreamGood ==
  ASSUME NEW d, WellFormed(d), NEW live \in SUBSET DOMAIN d.revs,
         \A k \in live : RowOf(d, k).status = "active",
         NEW first, first[1] # first[2], NEW second, second[1] # second[2]
  PROVE  Good(d, Linked(Linked([d |-> d, live |-> live], first), second).d)
<1> DEFINE s0 == [d |-> d, live |-> live]
           s1 == Linked(s0, first)
           s2 == Linked(s1, second)
<1>1. s0.d = d /\ s0.live = live
  OBVIOUS
<1> HIDE DEF s0
<1>2. Linking(d, s0)
  BY <1>1 DEF Linking, Grows
<1>3. Linking(d, s1)
  BY <1>2, LinkedKeeps
<1> HIDE DEF s1
<1>4. Linking(d, s2)
  BY <1>3, LinkedKeeps
<1> HIDE DEF s2
<1>5. Handed(d, s2.d)
  BY <1>4 DEF Linking, Handed
<1>6. Revived(d, s2.d)
  BY <1>4 DEF Linking, Revived, SupersededOnes
<1>7. Good(d, s2.d)
  BY <1>4, <1>5, <1>6 DEF Linking, Good
<1> QED
  BY <1>7 DEF s0, s1, s2

\* Members are superseded by a new memory that merges them.
LEMMA MergeGood ==
  ASSUME NEW d, WellFormed(d), NEW M \in SUBSET DOMAIN d.revs,
         NEW said \in Date, NEW ends \in Date \union {Never}
  PROVE  LET added == Add(d, said, ends)
         IN  Good(d, Withdrawn(added, M, "superseded", Newest(added)))
<1> DEFINE a == Add(d, said, ends)
           n == Newest(a)
           e == Withdrawn(a, M, "superseded", n)
<1>1. /\ WellFormed(a) /\ Grows(d, a) /\ (ReadBefore(d) => ReadBefore(a))
      /\ n \notin DOMAIN d.revs /\ n # None
      /\ DOMAIN a.revs = DOMAIN d.revs \union {n}
      /\ RowOf(a, n).status = "active"
      /\ \A k \in DOMAIN d.revs : RowOf(a, k) = RowOf(d, k)
  BY AddFacts
<1> HIDE DEF a, n
<1>2. Revised(a, e, M) /\ \A m \in M : RowOf(e, m).by = n /\ RowOf(e, m).status = "superseded"
  <2>1. "superseded" \in Status
    BY DEF Status
  <2>2. M \in SUBSET DOMAIN a.revs /\ n \in {None} \union DOMAIN a.revs /\ n \notin M
    BY <1>1
  <2>3. WellFormed(a) /\ e = Withdrawn(a, M, "superseded", n)
    BY <1>1
  <2> HIDE DEF e
  <2> QED
    BY <2>1, <2>2, <2>3, WithdrawnFacts
<1> HIDE DEF e
<1>3. /\ WellFormed(e) /\ Grows(a, e) /\ (ReadBefore(a) => ReadBefore(e))
      /\ DOMAIN e.revs = DOMAIN a.revs
      /\ \A k \in DOMAIN a.revs \ M : RowOf(e, k) = RowOf(a, k)
  BY <1>2 DEF Revised
<1>4. Grows(d, e)
  BY <1>1, <1>3 DEF Grows
<1>5. RowOf(e, n).status = "active"
  BY <1>1, <1>3
<1>6. \A k \in SupersededOnes(e) :
         \/ RowOf(e, k).by = n
         \/ k \in SupersededOnes(d) /\ RowOf(e, k).by = RowOf(d, k).by
  BY <1>1, <1>2, <1>3, <1>5 DEF SupersededOnes
<1>7. \A k \in SupersededOnes(d) : RowOf(e, k).status # "active"
  BY <1>1, <1>2, <1>3 DEF SupersededOnes
<1>8. Good(d, e)
  BY <1>1, <1>3, <1>4, <1>5, <1>6, <1>7, TakenOver
<1> QED
  BY <1>8 DEF e, n, a

\* Rows expire.
LEMMA ExpiredGood ==
  ASSUME NEW d, WellFormed(d), NEW M \in SUBSET DOMAIN d.revs
  PROVE  LET e == Withdrawn(d, M, "expired", None)
         IN  /\ Good(d, e)
             /\ Revised(d, e, M)
             /\ \A m \in M : RowOf(e, m).status = "expired"
<1> DEFINE e == Withdrawn(d, M, "expired", None)
<1>1. "expired" \in Status
  BY DEF Status
<1>2. None \in {None} \union DOMAIN d.revs /\ None \notin M
  BY DEF WellFormed, None
<1>3. Revised(d, e, M) /\ \A m \in M : RowOf(e, m).status = "expired"
  BY <1>1, <1>2, WithdrawnFacts
<1> HIDE DEF e
<1>4. /\ WellFormed(e) /\ Grows(d, e) /\ (ReadBefore(d) => ReadBefore(e))
      /\ DOMAIN e.revs = DOMAIN d.revs
      /\ \A k \in DOMAIN d.revs \ M : RowOf(e, k) = RowOf(d, k)
  BY <1>3 DEF Revised
<1>5. \A k \in SupersededOnes(e) :
         k \in SupersededOnes(d) /\ RowOf(e, k).by = RowOf(d, k).by
  BY <1>3, <1>4 DEF SupersededOnes
<1>6. None \notin SupersededOnes(e)
  BY <1>4 DEF WellFormed, SupersededOnes, None
<1>7. NoCircle(d) => NoCircle(e)
  BY <1>5, <1>6, CircleFree
<1>8. Handed(d, e)
  BY <1>4, <1>5 DEF Handed, SupersededOnes
<1>9. Named(d) => Named(e)
  BY <1>5 DEF Named
<1>10. Revived(d, e)
  BY <1>3, <1>4 DEF Revived, SupersededOnes
<1>11. Good(d, e)
  BY <1>4, <1>7, <1>8, <1>9, <1>10 DEF Good
<1> QED
  BY <1>3, <1>11 DEF e

\* Rows expire, and the duplicates of a survivor that did not are superseded by it.
LEMMA ConsolidateGood ==
  ASSUME NEW d, WellFormed(d), NEW E \in SUBSET DOMAIN d.revs, NEW M \in SUBSET DOMAIN d.revs,
         NEW survivor \in DOMAIN d.revs \ (E \union M), RowOf(d, survivor).status = "active"
  PROVE  Good(d, Withdrawn(Withdrawn(d, E, "expired", None), M, "superseded", survivor))
<1> DEFINE x == Withdrawn(d, E, "expired", None)
           e == Withdrawn(x, M, "superseded", survivor)
<1>1. Good(d, x) /\ Revised(d, x, E) /\ \A m \in E : RowOf(x, m).status = "expired"
  BY ExpiredGood
<1> HIDE DEF x
<1>2. /\ WellFormed(x) /\ Grows(d, x) /\ (ReadBefore(d) => ReadBefore(x))
      /\ DOMAIN x.revs = DOMAIN d.revs
      /\ \A k \in DOMAIN d.revs \ E : RowOf(x, k) = RowOf(d, k)
  BY <1>1 DEF Revised
<1>3. "superseded" \in Status
  BY DEF Status
<1>4. /\ M \in SUBSET DOMAIN x.revs
      /\ survivor \in {None} \union DOMAIN x.revs /\ survivor \notin M
  BY <1>2
<1>5. Revised(x, e, M) /\ \A m \in M : RowOf(e, m).by = survivor /\ RowOf(e, m).status = "superseded"
  <2>1. M \in SUBSET DOMAIN x.revs
    BY <1>4
  <2>2. WellFormed(x) /\ e = Withdrawn(x, M, "superseded", survivor)
    BY <1>2
  <2> HIDE DEF e
  <2> QED
    BY <1>3, <1>4, <2>1, <2>2, WithdrawnFacts
<1> HIDE DEF e
<1>6. /\ WellFormed(e) /\ Grows(x, e) /\ (ReadBefore(x) => ReadBefore(e))
      /\ DOMAIN e.revs = DOMAIN x.revs
      /\ \A k \in DOMAIN x.revs \ M : RowOf(e, k) = RowOf(x, k)
  BY <1>5 DEF Revised
<1>7. Grows(d, e)
  BY <1>2, <1>6 DEF Grows
<1>8. RowOf(e, survivor).status = "active"
  BY <1>2, <1>6
<1>9. \A k \in SupersededOnes(e) :
         \/ RowOf(e, k).by = survivor
         \/ k \in SupersededOnes(d) /\ RowOf(e, k).by = RowOf(d, k).by
  BY <1>1, <1>2, <1>5, <1>6 DEF SupersededOnes
<1>10. survivor # None
  <2>1. DOMAIN d.revs = 1 .. Len(d.revs) /\ Len(d.revs) \in Nat
    BY DEF WellFormed
  <2> QED
    BY <2>1 DEF None
<1>11. \A k \in SupersededOnes(d) : RowOf(e, k).status # "active"
  <2> TAKE k \in SupersededOnes(d)
  <2>1. k \in DOMAIN d.revs /\ RowOf(d, k).status = "superseded"
    BY DEF SupersededOnes
  <2>2. RowOf(x, k).status # "active"
    BY <1>1, <1>2, <2>1
  <2> QED
    BY <1>2, <1>5, <1>6, <2>1, <2>2
<1>12. Good(d, e)
  BY <1>2, <1>6, <1>7, <1>8, <1>9, <1>10, <1>11, TakenOver
<1> QED
  BY <1>12 DEF e, x

-----------------------------------------------------------------------------
\* Every action either leaves the memories alone or is a good transaction.

\* What a process is about to write about, and has found current, has the
\* revision it had read.
LEMMA CurrentRow ==
  ASSUME TypeOK, NEW p \in Process, NEW m \in Memories, m \in Planned(p)
  PROVE  /\ WellFormed(db)
         /\ RowOf(db, m) \in Row
         /\ plan[p].read[m] \in DOMAIN db.revs[m]
         /\ Current(p, m) => /\ plan[p].read[m] = Len(db.revs[m])
                             /\ db.revs[m][plan[p].read[m]] = RowOf(db, m)
         /\ plan[p].read[m] \in Nat
<1>1. WellFormed(db) /\ plan[p].read[m] \in DOMAIN db.revs[m]
  BY DEF TypeOK, Planned
<1>2. RowOf(db, m) \in Row /\ db.revs[m] \in Seq(Row)
  BY <1>1, RowIsRow DEF Memories
<1>3. plan[p].read[m] \in Nat
  BY <1>1, <1>2
<1> QED
  BY <1>1, <1>2, <1>3 DEF Current, RowOf

LEMMA Writes ==
  ASSUME TypeOK, Next
  PROVE  db' = db \/ Good(db, db')
<1>1. WellFormed(db)
  BY DEF TypeOK
<1>2. ASSUME NEW said \in Date, NEW ends \in Date \union {Never}, Save(said, ends)
      PROVE  Good(db, db')
  BY <1>1, <1>2, AddGood DEF Save, Commit
<1>3. ASSUME NEW m \in Memories, Delete(m) PROVE Good(db, db')
  BY <1>1, <1>3, StatusGood DEF Delete, Commit, Memories
<1>4. ASSUME NEW m \in Memories, Restore(m) PROVE Good(db, db')
  BY <1>1, <1>4, StatusGood DEF Restore, Commit, Memories
<1>5. ASSUME NEW m \in Memories, NEW declined \in BOOLEAN, Review(m, declined)
      PROVE  Good(db, db')
  <2> DEFINE row == [RowOf(db, m) EXCEPT
                       !.status = IF declined THEN "archived" ELSE "active", !.base = 0]
  <2>1. RowOf(db, m) \in Row
    BY <1>1, RowIsRow DEF Memories
  <2>2. /\ row \in Row /\ row.base \in {0, Len(db.revs[m])} /\ row.by = RowOf(db, m).by
        /\ row.status # "superseded"
    BY <2>1 DEF Row, Status
  <2>3. db' = Write(db, m, row)
    BY <1>5 DEF Review, Commit
  <2> HIDE DEF row
  <2> QED
    BY <1>1, <2>2, <2>3, WriteGood DEF Memories
<1>6. ASSUME NEW p \in Process, NEW m \in Memories, NEW ends \in Date \union {Never},
             Patch(p, m, ends)
      PROVE  Good(db, db')
  <2> DEFINE row == [[RowOf(db, m) EXCEPT !.ends = ends] EXCEPT !.base = plan[p].read[m]]
  <2>1. m \in Planned(p) /\ Current(p, m)
    BY <1>6 DEF Patch
  <2>2. RowOf(db, m) \in Row /\ plan[p].read[m] = Len(db.revs[m]) /\ plan[p].read[m] \in Nat
    BY <2>1, CurrentRow
  <2>3. /\ row \in Row /\ row.base \in {0, Len(db.revs[m])} /\ row.by = RowOf(db, m).by
        /\ row.status = RowOf(db, m).status
    BY <2>2 DEF Row
  <2>4. db' = Write(db, m, row)
    BY <1>6 DEF Patch, Commit, Rewritten
  <2> HIDE DEF row
  <2> QED
    BY <1>1, <2>3, <2>4, WriteGood DEF Memories
<1>7. ASSUME NEW p \in Process, NEW m \in Memories, ExtractDelete(p, m)
      PROVE  Good(db, db')
  BY <1>1, <1>7, StatusGood DEF ExtractDelete, Commit, Memories
<1>8. ASSUME NEW p \in Process, NEW m \in Memories, NEW said \in Date,
             NEW ends \in Date \union {Never}, ExtractUpdate(p, m, said, ends)
      PROVE  Good(db, db')
  <2> DEFINE row == [[RowOf(db, m) EXCEPT !.said = said, !.ends = ends] EXCEPT !.base = plan[p].read[m]]
  <2>1. m \in Planned(p) /\ Current(p, m)
    BY <1>8 DEF ExtractUpdate, Target
  <2>2. RowOf(db, m) \in Row /\ plan[p].read[m] = Len(db.revs[m]) /\ plan[p].read[m] \in Nat
    BY <2>1, CurrentRow
  <2>3. /\ row \in Row /\ row.base \in {0, Len(db.revs[m])} /\ row.by = RowOf(db, m).by
        /\ row.status = RowOf(db, m).status
    BY <2>2 DEF Row
  <2>4. db' = Write(db, m, row)
    BY <1>8 DEF ExtractUpdate, Commit, Rewritten
  <2> HIDE DEF row
  <2> QED
    BY <1>1, <2>3, <2>4, WriteGood DEF Memories
<1>9. ASSUME NEW p \in Process, NEW m \in Memories, NEW said \in Date,
             NEW ends \in Date \union {Never}, ExtractSupersede(p, m, said, ends)
      PROVE  Good(db, db')
  <2> DEFINE added == Add(db, said, ends)
  <2>1. \/ db' = Superseded(added, Newest(added), m)
        \/ db' = Superseded(added, m, Newest(added))
    BY <1>9 DEF ExtractSupersede, Commit
  <2>2. m \in DOMAIN db.revs
    BY DEF Memories
  <2>3. /\ Good(db, Superseded(added, m, Newest(added)))
        /\ Good(db, Superseded(added, Newest(added), m))
    BY <1>1, <2>2, ForwardsGood, BackwardsGood
  <2> HIDE DEF added
  <2> QED
    BY <2>1, <2>3
<1>10. ASSUME NEW p \in Process, NEW first \in Links(Planned(p)),
              NEW second \in Links(Planned(p)), Dream(p, first, second)
       PROVE  Good(db, db')
  <2> DEFINE live == Planned(p) \intersect LiveOnes
  <2>1. db' = Linked(Linked([d |-> db, live |-> live], first), second).d
    BY <1>10 DEF Dream, Commit
  <2>2. live \in SUBSET DOMAIN db.revs /\ \A k \in live : RowOf(db, k).status = "active"
    BY DEF LiveOnes, Live, Memories
  <2>3. first[1] # first[2] /\ second[1] # second[2]
    BY DEF Links
  <2> HIDE DEF live
  <2> QED
    BY <1>1, <2>1, <2>2, <2>3, DreamGood
<1>11. ASSUME NEW p \in Process, NEW m \in Memories, Consolidate(p, m)
       PROVE  Good(db, db')
  <2> DEFINE E == plan[p].lapsed \intersect Lapsed
             M == Planned(p) \ {m}
  <2>1. E \in SUBSET DOMAIN db.revs
    BY DEF Lapsed, Memories
  <2>2. CASE Locked(p)
    <3>1. db' = Withdrawn(Withdrawn(db, E, "expired", None), M, "superseded", m)
      BY <1>11, <2>2 DEF Consolidate, Commit
    <3>2. M \in SUBSET DOMAIN db.revs
      BY DEF TypeOK, Planned, Memories
    <3>3. m \in Planned(p)
      BY <1>11, <2>2 DEF Consolidate, Locked
    <3>4. RowOf(db, m).status = "active" /\ RowOf(db, m).ends > now
      BY <2>2, <3>3 DEF Locked, Live
    <3>5. m \notin E
      <4>1. RowOf(db, m).ends \in Nat /\ now \in Nat
        BY <1>1, RowIsRow, MemoryAssumption DEF Row, Memories, Date, Never, TypeOK
      <4>2. ASSUME m \in Lapsed PROVE FALSE
        BY <3>4, <4>1, <4>2 DEF Lapsed
      <4> QED
        BY <4>2
    <3>6. m \in DOMAIN db.revs \ (E \union M)
      BY <3>5 DEF Memories
    <3> HIDE DEF E, M
    <3> QED
      BY <1>1, <2>1, <3>1, <3>2, <3>4, <3>6, ConsolidateGood
  <2>3. CASE ~ Locked(p)
    <3>1. db' = Withdrawn(db, E, "expired", None)
      BY <1>11, <2>3 DEF Consolidate, Commit
    <3> HIDE DEF E
    <3> QED
      BY <1>1, <2>1, <3>1, ExpiredGood
  <2> QED
    BY <2>2, <2>3
<1>12. ASSUME NEW p \in Process, NEW m \in Memories, Merge(p, m)
       PROVE  Good(db, db')
  <2> DEFINE S == {RowOf(db, k).said : k \in Planned(p)}
             said == Min(S)
             ends == RowOf(db, m).ends
             added == Add(db, said, ends)
  <2>1. Planned(p) \in SUBSET DOMAIN db.revs
    BY DEF TypeOK, Planned, Memories
  <2>2. db' = Withdrawn(added, Planned(p), "superseded", Newest(added))
    BY <1>12 DEF Merge, Commit
  <2>3. said \in Date
    <3>1. S \in SUBSET Date /\ S # {}
      <4>1. \A k \in Planned(p) : RowOf(db, k).said \in Date
        BY <1>1, <2>1, RowIsRow DEF Row
      <4>2. Planned(p) # {}
        BY <1>12 DEF Merge
      <4> QED
        BY <4>1, <4>2
    <3>2. S \in SUBSET Nat
      BY <3>1 DEF Date
    <3> HIDE DEF S
    <3> QED
      BY <3>1, <3>2, MinIsMember
  <2>4. ends \in Date \union {Never}
    BY <1>1, RowIsRow DEF Row, Memories
  <2>5. Good(db, Withdrawn(added, Planned(p), "superseded", Newest(added)))
    <3> HIDE DEF said, ends
    <3> QED
      BY <1>1, <2>1, <2>3, <2>4, MergeGood
  <2> HIDE DEF added
  <2> QED
    BY <2>2, <2>5
<1>13. ASSUME NEW p \in Process, NEW m \in Memories, ReadRow(p, m) PROVE db' = db
  BY <1>13 DEF ReadRow, Begin
<1>14. ASSUME NEW p \in Process, NEW S \in SUBSET Memories, ReadGroup(p, S) PROVE db' = db
  BY <1>14 DEF ReadGroup, Begin
<1>15. ASSUME NEW p \in Process, Abandon(p) PROVE db' = db
  BY <1>15 DEF Abandon
<1>16. CASE Tick
  BY <1>16 DEF Tick
<1>17. CASE People
  BY <1>17, <1>2, <1>3, <1>4, <1>5 DEF People
<1>18. ASSUME NEW p \in Process, Processing(p) PROVE db' = db \/ Good(db, db')
  BY <1>18, <1>6, <1>7, <1>8, <1>9, <1>10, <1>11, <1>12, <1>13, <1>14, <1>15
     DEF Processing
<1> QED
  BY <1>16, <1>17, <1>18 DEF Next

-----------------------------------------------------------------------------
\* The theorems.

\* What a process has read stays true of the past.
PlanOK(P, d) ==
  /\ P.kind \in Work
  /\ P.lapsed \subseteq DOMAIN d.revs
  /\ DOMAIN P.read \subseteq DOMAIN d.revs
  /\ \A m \in DOMAIN P.read : P.read[m] \in DOMAIN d.revs[m]

LEMMA PlanOKGrows ==
  ASSUME NEW P, NEW d, NEW e, PlanOK(P, d), Grows(d, e)
  PROVE  PlanOK(P, e)
BY DEF PlanOK, Grows

LEMMA PlanOKIdle ==
  ASSUME NEW d
  PROVE  PlanOK(Idle, d)
BY DEF PlanOK, Idle, Work

\* An action of a process either begins something or is done with it.
LEMMA BeginOrDone ==
  ASSUME NEW p \in Process, Processing(p)
  PROVE  \/ Done(p)
         \/ \E m \in Memories : ReadRow(p, m)
         \/ \E S \in SUBSET Memories : ReadGroup(p, S)
BY DEF Processing, Abandon, Patch, ExtractDelete, ExtractUpdate, ExtractSupersede,
   Consolidate, Merge, Dream

\* Every action of a process makes it idle, or makes it read what is there.
LEMMA Plans ==
  ASSUME TypeOK, Next
  PROVE  \A p \in Process : \/ plan'[p] = plan[p]
                            \/ plan'[p] = Idle
                            \/ db' = db /\ PlanOK(plan'[p], db)
<1>1. DOMAIN plan = Process
  BY DEF TypeOK
<1>2. ASSUME NEW p \in Process, plan' = [plan EXCEPT ![p] = Idle]
      PROVE  \A q \in Process : plan'[q] = plan[q] \/ plan'[q] = Idle
  BY <1>1, <1>2
<1>3. ASSUME NEW p \in Process, NEW kind \in Work, NEW S \in SUBSET Memories,
             NEW lapsed \in SUBSET Memories, Begin(p, kind, S, lapsed)
      PROVE  \A q \in Process : \/ plan'[q] = plan[q]
                                \/ db' = db /\ PlanOK(plan'[q], db)
  <2> DEFINE P == [kind |-> kind, read |-> ReadNow(S), lapsed |-> lapsed]
  <2>1. plan' = [plan EXCEPT ![p] = P] /\ db' = db
    BY <1>3 DEF Begin
  <2>2. P.kind = kind /\ P.read = ReadNow(S) /\ P.lapsed = lapsed
    OBVIOUS
  <2>3. DOMAIN ReadNow(S) = S /\ \A m \in S : ReadNow(S)[m] = Len(db.revs[m])
    BY DEF ReadNow
  <2>4. \A m \in S : Len(db.revs[m]) \in DOMAIN db.revs[m]
    BY RowIsRow DEF TypeOK, Memories
  <2> HIDE DEF P
  <2>5. PlanOK(P, db)
    BY <2>2, <2>3, <2>4 DEF PlanOK, Memories
  <2> QED
    BY <1>1, <2>1, <2>5
<1>4. ASSUME NEW p \in Process, Processing(p)
      PROVE  \A q \in Process : \/ plan'[q] = plan[q]
                                \/ plan'[q] = Idle
                                \/ db' = db /\ PlanOK(plan'[q], db)
  <2>1. ASSUME NEW m \in Memories, ReadRow(p, m)
        PROVE  \A q \in Process : \/ plan'[q] = plan[q]
                                  \/ db' = db /\ PlanOK(plan'[q], db)
    <3>1. "row" \in Work /\ {m} \in SUBSET Memories /\ {} \in SUBSET Memories
      BY DEF Work
    <3> QED
      BY <2>1, <3>1, <1>3 DEF ReadRow
  <2>2. ASSUME NEW S \in SUBSET Memories, ReadGroup(p, S)
        PROVE  \A q \in Process : \/ plan'[q] = plan[q]
                                  \/ db' = db /\ PlanOK(plan'[q], db)
    <3>1. "group" \in Work /\ Lapsed \in SUBSET Memories
      BY DEF Work, Lapsed
    <3>2. Begin(p, "group", S, Lapsed)
      BY <2>2 DEF ReadGroup
    <3> QED
      BY <3>1, <3>2, <1>3
  <2>3. CASE Done(p)
    BY <2>3, <1>2 DEF Done
  <2>4. \/ Done(p)
        \/ \E m \in Memories : ReadRow(p, m)
        \/ \E S \in SUBSET Memories : ReadGroup(p, S)
    BY <1>4, BeginOrDone
  <2> QED
    BY <2>1, <2>2, <2>3, <2>4
<1>5. CASE People
  BY <1>5 DEF People, Save, Delete, Restore, Review
<1>6. CASE Tick
  BY <1>6 DEF Tick
<1> QED
  BY <1>4, <1>5, <1>6 DEF Next

LEMMA TypeStep ==
  ASSUME TypeOK, [Next]_vars
  PROVE  TypeOK'
<1>1. CASE UNCHANGED vars
  BY <1>1 DEF vars, TypeOK, Memories
<1>2. CASE Next
  <2>1. WellFormed(db') /\ Grows(db, db')
    <3>1. db' = db \/ Good(db, db')
      BY <1>2, Writes
    <3> QED
      BY <3>1 DEF Good, TypeOK, Grows
  <2>2. now' \in Date
    <3>1. now' = now \/ (now < MaxTime /\ now' = now + 1)
      <4>1. ASSUME NEW p \in Process, Processing(p) PROVE now' = now
        BY <4>1, BeginOrDone DEF Done, ReadRow, ReadGroup, Begin
      <4>2. CASE People
        BY <4>2 DEF People, Save, Delete, Restore, Review
      <4>3. CASE Tick
        BY <4>3 DEF Tick
      <4> QED
        BY <1>2, <4>1, <4>2, <4>3 DEF Next
    <3> QED
      BY <3>1, MemoryAssumption DEF TypeOK, Date
  <2>3. DOMAIN plan' = Process
    <3>1. plan' = plan \/ \E p \in Process : \E P : plan' = [plan EXCEPT ![p] = P]
      <4>1. ASSUME NEW p \in Process, Processing(p)
            PROVE  \E P : plan' = [plan EXCEPT ![p] = P]
        BY <4>1, BeginOrDone DEF Done, ReadRow, ReadGroup, Begin
      <4>2. CASE People
        BY <4>2 DEF People, Save, Delete, Restore, Review
      <4>3. CASE Tick
        BY <4>3 DEF Tick
      <4> QED
        BY <1>2, <4>1, <4>2, <4>3 DEF Next
    <3> QED
      BY <3>1 DEF TypeOK
  <2>4. \A p \in Process : PlanOK(plan'[p], db')
    <3> TAKE p \in Process
    <3>1. PlanOK(plan[p], db)
      BY DEF TypeOK, PlanOK, Memories
    <3>2. \/ plan'[p] = plan[p]
          \/ plan'[p] = Idle
          \/ db' = db /\ PlanOK(plan'[p], db)
      BY <1>2, Plans
    <3> QED
      BY <2>1, <3>1, <3>2, PlanOKGrows, PlanOKIdle
  <2> QED
    BY <2>1, <2>2, <2>3, <2>4 DEF TypeOK, PlanOK, Memories
<1> QED
  BY <1>1, <1>2

LEMMA InitFacts ==
  ASSUME Init
  PROVE  TypeOK /\ ReadBefore(db) /\ NoCircle(db) /\ Named(db)
<1>1. db.revs = <<>> /\ db.edges = {} /\ DOMAIN db.revs = {}
  BY DEF Init
<1>2. db \in [revs : Seq(Seq(Row)), edges : SUBSET (Nat \X Nat)]
  <2>1. <<>> \in Seq(Seq(Row))
    OBVIOUS
  <2> QED
    BY <2>1 DEF Init
<1>3. WellFormed(db)
  BY <1>1, <1>2 DEF WellFormed
<1>4. \A p \in Process : plan[p] = Idle
  BY DEF Init
<1>5. \A p \in Process : PlanOK(plan[p], db)
  BY <1>4, PlanOKIdle
<1>6. TypeOK
  BY <1>3, <1>5, MemoryAssumption DEF Init, TypeOK, PlanOK, Memories, Date
<1>7. ReadBefore(db)
  BY <1>1 DEF ReadBefore
<1>8. NoCircle(db) /\ Named(db)
  BY <1>1 DEF NoCircle, Named, SupersededOnes
<1> QED
  BY <1>6, <1>7, <1>8

\* The memories, their replacements and what is planned about them are always
\* well formed.
THEOREM TypeCorrect == Spec => []TypeOK
<1>1. Init => TypeOK
  BY InitFacts
<1>2. TypeOK /\ [Next]_vars => TypeOK'
  BY TypeStep
<1> QED
  BY <1>1, <1>2, PTL DEF Spec

\* However dreams, merges, windows, people and restores interleave, replacements
\* never run in a circle.
THEOREM ReplacementsEnd == Spec => []ChainsEnd
<1>1. Init => ChainsEnd
  BY InitFacts DEF ChainsEnd
<1>2. TypeOK /\ ChainsEnd /\ [Next]_vars => ChainsEnd'
  <2> SUFFICES ASSUME TypeOK, ChainsEnd, [Next]_vars PROVE ChainsEnd'
    OBVIOUS
  <2>1. db' = db \/ Good(db, db')
    BY Writes DEF vars
  <2>2. NoCircle(db')
    BY <2>1 DEF Good, ChainsEnd
  <2> QED
    BY <2>2 DEF ChainsEnd
<1> QED
  BY <1>1, <1>2, TypeCorrect, PTL DEF Spec

\* Nobody's rewrite of a memory is overwritten by one who had not read it.
THEOREM NoRewriteLost == Spec => []NoLostUpdate
<1>1. Init => NoLostUpdate
  BY InitFacts DEF NoLostUpdate
<1>2. TypeOK /\ NoLostUpdate /\ [Next]_vars => NoLostUpdate'
  <2> SUFFICES ASSUME TypeOK, NoLostUpdate, [Next]_vars PROVE NoLostUpdate'
    OBVIOUS
  <2>1. db' = db \/ Good(db, db')
    BY Writes DEF vars
  <2>2. ReadBefore(db')
    BY <2>1 DEF Good, NoLostUpdate
  <2> QED
    BY <2>2 DEF NoLostUpdate
<1> QED
  BY <1>1, <1>2, TypeCorrect, PTL DEF Spec

\* A memory is superseded only in favour of one that is in use.
THEOREM ReplacedByOneInUse == Spec => HandedOver
<1>1. ASSUME TypeOK, [Next]_vars
      PROVE  [\A m \in Memories :
                StatusOf(m) = "active" /\ RowOf(db', m).status = "superseded" =>
                    LET n == RowOf(db', m).by
                    IN  \/ RowOf(db', n).status = "active"
                        \/ n \in Memories /\ StatusOf(n) = "active"]_vars
  <2>1. CASE UNCHANGED vars
    BY <2>1
  <2>2. CASE Next
    <3>1. db' = db \/ Good(db, db')
      BY <1>1, <2>2, Writes
    <3>2. CASE db' = db
      BY <3>2 DEF StatusOf, RowOf
    <3>3. CASE Good(db, db')
      BY <3>3 DEF Good, Handed, StatusOf, Memories
    <3> QED
      BY <3>1, <3>2, <3>3
  <2> QED
    BY <1>1, <2>1, <2>2
<1> QED
  BY <1>1, TypeCorrect, PTL DEF Spec, HandedOver

\* Whatever is superseded names what replaced it: an invariant that tells a
\* restore from the confirmation of a memory that was superseded.
LEMMA AlwaysNamed == Spec => []Named(db)
<1>1. Init => Named(db)
  BY InitFacts
<1>2. TypeOK /\ Named(db) /\ [Next]_vars => Named(db)'
  <2> SUFFICES ASSUME TypeOK, Named(db), [Next]_vars PROVE Named(db')
    BY DEF Named, SupersededOnes, RowOf
  <2>1. db' = db \/ Good(db, db')
    BY Writes DEF vars
  <2> QED
    BY <2>1 DEF Good
<1> QED
  BY <1>1, <1>2, TypeCorrect, PTL DEF Spec

\* Restoring a superseded memory gives back the validity it had when it was last
\* in use, and leaves no relation by which it is replaced.
THEOREM RestoreGivesBack == Spec => RestoreUndoes
<1>1. ASSUME TypeOK, Named(db), [Next]_vars
      PROVE  [\A m \in Memories :
                /\ StatusOf(m) = "superseded" /\ RowOf(db', m).status = "active"
                /\ RowOf(db', m).by = None
                => /\ UsedUntil(m) # {} =>
                         RowOf(db', m).ends = db.revs[m][Max(UsedUntil(m))].ends
                   /\ \A e \in db.edges' : e[2] # m]_vars
  <2>1. CASE UNCHANGED vars
    BY <2>1
  <2>2. CASE Next
    <3> SUFFICES ASSUME NEW m \in Memories, StatusOf(m) = "superseded",
                        RowOf(db', m).status = "active", RowOf(db', m).by = None
                 PROVE  /\ UsedUntil(m) # {} =>
                              RowOf(db', m).ends = db.revs[m][Max(UsedUntil(m))].ends
                        /\ \A e \in db.edges' : e[2] # m
      OBVIOUS
    <3>1. Good(db, db')
      <4>1. db' # db
        BY DEF StatusOf, RowOf
      <4> QED
        BY <1>1, <2>2, <4>1, Writes
    <3>2. m \in SupersededOnes(db) /\ RowOf(db, m).by # None
      BY <1>1 DEF StatusOf, SupersededOnes, Named, Memories
    <3>3. db' = Restored(db, m)
      BY <3>1, <3>2 DEF Good, Revived
    <3>4. WellFormed(db) /\ m \in DOMAIN db.revs /\ RowOf(db, m).status = "superseded"
      BY <1>1 DEF TypeOK, StatusOf, Memories
    <3>5. /\ RowOf(db', m).ends = ValidBefore(db, m)
          /\ db'.edges = {l \in db.edges : l[2] # m}
      BY <3>3, <3>4, RestoredFacts
    <3> QED
      BY <3>4, <3>5, LastKept
  <2> QED
    BY <1>1, <2>1, <2>2
<1> QED
  BY <1>1, TypeCorrect, AlwaysNamed, PTL DEF Spec, RestoreUndoes
=============================================================================
