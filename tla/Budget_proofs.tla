--------------------------- MODULE Budget_proofs ---------------------------
(***************************************************************************)
(* Theorems about Budget, for every set of callers, jobs and reservations, *)
(* every ceiling, and every number of months and faults.                   *)
(***************************************************************************)
EXTENDS Budget, FiniteSetTheorems, TLAPS

\* The sum over the active reservations of a month is a number.
LEMMA HeldIsNatural == \A p \in Period : IsFiniteSet(Active(p)) /\ Held(p) \in Nat
<1> TAKE p \in Period
<1>1. Active(p) \subseteq Reservation
  BY DEF Active
<1> QED
  BY <1>1, ReservationsAreFinite, FS_Subset, FS_CardinalityType DEF Held

\* The same sum after a step.
LEMMA HeldIsNaturalNext ==
  \A p \in Period : IsFiniteSet(Active(p)') /\ Held(p)' \in Nat
<1> TAKE p \in Period
<1>1. Active(p)' \subseteq Reservation
  BY DEF Active
<1> QED
  BY <1>1, ReservationsAreFinite, FS_Subset, FS_CardinalityType DEF Held

\* Giving reservations back never raises a sum.
LEMMA HeldShrinks ==
  ASSUME NEW p \in Period, Active(p)' \subseteq Active(p)
  PROVE  Held(p)' <= Held(p)
  BY HeldIsNatural, FS_Subset DEF Held

\* A step that leaves the reservations alone leaves the sums alone.
LEMMA HeldUnchanged ==
  ASSUME UNCHANGED <<resStatus, resPeriod>>
  PROVE  \A p \in Period : Held(p)' = Held(p)
  BY DEF Held, Active

-----------------------------------------------------------------------------
\* Every variable keeps its type.
LEMMA TypeInit == Init => TypeOK
  BY BoundsAreNaturals DEF Init, TypeOK, Period, Stages

\* Each step of a caller, of a lease, of recovery and of the calendar keeps the
\* types.
LEMMA TypeNext == TypeOK /\ [Next]_vars => TypeOK'
<1> SUFFICES ASSUME TypeOK, [Next]_vars PROVE TypeOK'
  OBVIOUS
<1> USE BoundsAreNaturals
    DEF TypeOK, Stages, jobs, callers, reservations, EndReserve, Discharge,
        MoveTo, Conclude, Fault
<1>0. 1 \in Period
  BY DEF Period
<1>1. CASE UNCHANGED vars
  BY <1>1 DEF vars
<1>2. ASSUME NEW c \in Caller, Step(c) PROVE TypeOK'
  <2>1. CASE ReadSpend(c)
    BY <2>1 DEF ReadSpend
  <2>2. CASE ReadReserved(c)
    BY <2>2, HeldIsNatural DEF ReadReserved
  <2>3. CASE Reserve(c)
    <3>1. PICK r \in Reservation :
              /\ resStatus' = [resStatus EXCEPT ![r] = "active"]
              /\ resPeriod' = [resPeriod EXCEPT ![r] = period[c]]
              /\ resJob' = [resJob EXCEPT ![r] = job[c]]
              /\ mine' = [mine EXCEPT ![c] = r]
      BY <2>3 DEF Reserve
    <3>2. /\ resStatus' \in [Reservation -> {"none", "active", "reconciled", "released"}]
          /\ resPeriod' \in [Reservation -> Period]
          /\ resJob' \in [Reservation -> Job \union {NoJob}]
          /\ mine' \in [Caller -> Reservation \union {NoReservation}]
      BY <3>1
    <3>3. /\ lock' \in [Period -> Caller \union {NoCaller}]
          /\ period' \in [Caller -> Period]
          /\ seen' \in [Caller -> Nat]
          /\ pc' \in [Caller -> Stages]
      BY <2>3, <1>0 DEF Reserve
    <3>4. \A d \in Caller : pc'[d] \in {"reserved", "calling", "releasing"} =>
                               mine'[d] \in Reservation
      BY <2>3, <3>1 DEF Reserve
    <3>5. \A d \in Caller : pc'[d] \in {"reserved", "releasing"} => job'[d] \in Job
      BY <2>3 DEF Reserve
    <3> QED
      BY <2>3, <3>2, <3>3, <3>4, <3>5 DEF Reserve
  <2>4. CASE ReserveRefused(c)
    BY <2>4, <1>0 DEF ReserveRefused
  <2>5. CASE ConsumeCall(c)
    BY <2>5 DEF ConsumeCall
  <2>6. CASE CallRefused(c)
    BY <2>6 DEF CallRefused
  <2>7. CASE Release(c)
    BY <2>7 DEF Release
  <2>8. CASE Log(c)
    <3>1. PICK cost \in {0, 1} :
              /\ spent' = [spent EXCEPT ![month] = @ + cost]
              /\ stray' = [stray EXCEPT ![month] = @ + IF Counted(c) THEN 0 ELSE cost]
      BY <2>8 DEF Log
    <3>2. spent' \in [Period -> Nat] /\ stray' \in [Period -> Nat]
      BY <3>1
    <3> QED
      BY <2>8, <3>2 DEF Log
  <2>9. CASE Finish(c)
    BY <2>9 DEF Finish
  <2> QED
    BY <1>2, <2>1, <2>2, <2>3, <2>4, <2>5, <2>6, <2>7, <2>8, <2>9 DEF Step
<1>3. ASSUME NEW c \in Caller, Ask(c) PROVE TypeOK'
  BY <1>3 DEF Ask
<1>4. ASSUME NEW c \in Caller, Crash(c) PROVE TypeOK'
  <2>1. /\ lock' \in [Period -> Caller \union {NoCaller}]
        /\ period' \in [Caller -> Period]
        /\ seen' \in [Caller -> Nat]
        /\ pc' \in [Caller -> Stages]
        /\ job' \in [Caller -> Job \union {NoJob}]
        /\ mine' \in [Caller -> Reservation \union {NoReservation}]
        /\ faults' \in Nat
    BY <1>4, <1>0 DEF Crash
  <2>2. \A d \in Caller :
           /\ pc'[d] \in {"reserved", "calling", "releasing"} => mine'[d] \in Reservation
           /\ pc'[d] \in {"reserved", "releasing"} => job'[d] \in Job
    BY <1>4 DEF Crash
  <2> QED
    BY <1>4, <2>1, <2>2 DEF Crash
<1>5. ASSUME NEW c \in Caller, NEW j \in Job, Claim(c, j) PROVE TypeOK'
  BY <1>5 DEF Claim
<1>6. ASSUME NEW j \in Job, LeaseExpires(j) \/ LeaseOverrun(j) PROVE TypeOK'
  <2>0. stale' = [stale EXCEPT ![j] = TRUE] /\ faults' \in Nat
    BY <1>6 DEF LeaseExpires, LeaseOverrun
  <2>1. stale' \in [Job -> BOOLEAN] /\ faults' \in Nat
    BY <2>0
  <2> QED
    BY <1>6, <2>1 DEF LeaseExpires, LeaseOverrun
<1>7. CASE Recover
  <2>1. resStatus' \in [Reservation -> {"none", "active", "reconciled", "released"}]
    BY <1>7 DEF Recover
  <2>2. /\ state' \in [Job -> {"queued", "running", "settled"}]
        /\ owner' \in [Job -> Caller \union {NoCaller}]
        /\ stale' \in [Job -> BOOLEAN]
    BY <1>7 DEF Recover
  <2> QED
    BY <1>7, <2>1, <2>2 DEF Recover
<1>8. CASE NextMonth
  <2>1. month' \in Period
    BY <1>8 DEF NextMonth, Period
  <2> QED
    BY <1>8, <2>1 DEF NextMonth
<1> HIDE DEF TypeOK
<1> QED
  BY <1>1, <1>2, <1>3, <1>4, <1>5, <1>6, <1>7, <1>8 DEF Next

\* Every reachable state of the spend control is well typed.
THEOREM TypeCorrect == Spec => []TypeOK
  BY TypeInit, TypeNext, PTL DEF Spec

-----------------------------------------------------------------------------
\* At the start nothing is spent, reserved or being read.
LEMMA ReserverInit == Init => ReserverInv
<1> SUFFICES ASSUME Init PROVE ReserverInv
  OBVIOUS
<1>1. \A p \in Period : Held(p) = 0
  <2> SUFFICES ASSUME NEW p \in Period PROVE Held(p) = 0
    OBVIOUS
  <2>1. Active(p) = {}
    BY DEF Active, Init
  <2> QED
    BY <2>1, FS_EmptySet DEF Held
<1> QED
  BY <1>1, BoundsAreNaturals DEF Init, ReserverInv, OvershootIsStray

\* A step that logs nothing, reserves nothing, and leaves whoever is still
\* reserving afterwards as it was, keeps the invariant.
LEMMA ReserverUntouched ==
  ASSUME TypeOK, ReserverInv, UNCHANGED <<spent, stray>>,
         \A p \in Period : Held(p)' <= Held(p),
         \A c \in Caller : pc'[c] \in {"reading", "checking"} =>
            /\ pc'[c] = pc[c] /\ period'[c] = period[c] /\ seen'[c] = seen[c]
            /\ lock'[period[c]] = lock[period[c]]
  PROVE  ReserverInv'
<1> USE BoundsAreNaturals, HeldIsNatural, HeldIsNaturalNext
    DEF TypeOK, ReserverInv, OvershootIsStray
<1>1. \A c \in Caller : pc'[c] \in {"reading", "checking"} => lock'[period'[c]] = c
  OBVIOUS
<1>2. \A c \in Caller : pc'[c] = "reading" =>
         spent'[period'[c]] <= seen'[c] + stray'[period'[c]]
  OBVIOUS
<1>3. ASSUME NEW c \in Caller, pc'[c] = "checking"
      PROVE  (spent[period[c]] + Held(period[c]) <= seen[c] + stray[period[c]])'
  <2>1. PICK q \in Period : q = period[c] /\ q = period'[c]
    BY <1>3
  <2>2. spent[q] + Held(q) <= seen[c] + stray[q]
    BY <1>3, <2>1
  <2>3. Held(q)' <= Held(q) /\ Held(q)' \in Nat /\ Held(q) \in Nat
    OBVIOUS
  <2>4. spent[q] \in Nat /\ stray[q] \in Nat /\ seen[c] \in Nat /\ seen'[c] = seen[c]
    BY <1>3
  <2>5. spent'[q] + Held(q)' <= seen'[c] + stray'[q]
    BY <2>2, <2>3, <2>4
  <2>6. Held(q)' = Held(period[c])'
    BY <2>1 DEF Held, Active
  <2> QED
    BY <2>1, <2>5, <2>6
<1>4. ASSUME NEW p \in Period
      PROVE  spent'[p] + Held(p)' <= Limit + stray'[p]
  <2>1. spent[p] + Held(p) <= Limit + stray[p]
    OBVIOUS
  <2>2. Held(p)' <= Held(p) /\ Held(p)' \in Nat /\ Held(p) \in Nat
    OBVIOUS
  <2>3. spent[p] \in Nat /\ stray[p] \in Nat
    OBVIOUS
  <2> QED
    BY <2>1, <2>2, <2>3
<1> QED
  BY <1>1, <1>2, <1>3, <1>4

\* Every step keeps the invariant: reserving and logging change the sums, the
\* rest leaves them no larger.
LEMMA ReserverNext == TypeOK /\ ReserverInv /\ [Next]_vars => ReserverInv'
<1> SUFFICES ASSUME TypeOK, ReserverInv, [Next]_vars PROVE ReserverInv'
  OBVIOUS
<1>a. \A p \in Period : Held(p) \in Nat /\ Held(p)' \in Nat
  BY HeldIsNatural, HeldIsNaturalNext
<1>b. ASSUME UNCHANGED <<resStatus, resPeriod>>
      PROVE  \A p \in Period : Held(p)' = Held(p) /\ Held(p)' <= Held(p)
  BY <1>a, <1>b, HeldUnchanged
\* a caller that is reserving has the lock of its period to itself
<1>c. \A c, d \in Caller :
         (/\ pc[c] \in {"reading", "checking"} /\ pc[d] \in {"reading", "checking"}
          /\ period[c] = period[d]) => c = d
  <2>1. \A c \in Caller : pc[c] \in {"reading", "checking"} => lock[period[c]] = c
    BY DEF ReserverInv
  <2> SUFFICES ASSUME NEW c \in Caller, NEW d \in Caller,
                      pc[c] \in {"reading", "checking"},
                      pc[d] \in {"reading", "checking"},
                      period[c] = period[d]
               PROVE  c = d
    OBVIOUS
  <2>2. lock[period[c]] = c /\ lock[period[d]] = d
    BY <2>1, Zenon
  <2> QED
    BY <2>2
<1>1. CASE UNCHANGED vars
  <2> USE <1>1 DEF vars, reservations, callers
  <2>1. \A p \in Period : Held(p)' <= Held(p)
    BY <1>b
  <2> QED
    BY <2>1, ReserverUntouched
<1>2. ASSUME NEW c \in Caller, Step(c) PROVE ReserverInv'
  <2>1. CASE ReadSpend(c)
    <3>1. \A p \in Period : Held(p)' = Held(p)
      BY <2>1, <1>b DEF ReadSpend, reservations
    <3>2. \A d \in Caller : d # c /\ pc[d] \in {"reading", "checking"} =>
             period[d] # month
      BY <2>1, NamesAreApart DEF ReadSpend, ReserverInv
    <3>3. \A d \in Caller : d # c =>
             pc'[d] = pc[d] /\ period'[d] = period[d] /\ seen'[d] = seen[d]
      BY <2>1 DEF ReadSpend, MoveTo, TypeOK
    <3>4. /\ pc'[c] = "reading" /\ period'[c] = month /\ seen'[c] = spent[month]
          /\ month \in Period /\ spent[month] \in Nat /\ stray[month] \in Nat
          /\ spent' = spent /\ stray' = stray
          /\ lock' = [lock EXCEPT ![month] = c]
      BY <2>1 DEF ReadSpend, MoveTo, TypeOK
    <3>5. \A d \in Caller : pc'[d] \in {"reading", "checking"} => lock'[period'[d]] = d
      BY <3>2, <3>3, <3>4 DEF ReserverInv, TypeOK
    <3>6. \A d \in Caller : pc'[d] = "reading" =>
             spent'[period'[d]] <= seen'[d] + stray'[period'[d]]
      BY <3>3, <3>4 DEF ReserverInv, TypeOK
    <3>7. ASSUME NEW d \in Caller, pc'[d] = "checking"
          PROVE  (spent[period[d]] + Held(period[d]) <= seen[d] + stray[period[d]])'
      <4>1. PICK q \in Period : q = period[d] /\ q = period'[d]
        BY <3>7, <3>3, <3>4 DEF TypeOK
      <4>2. spent[q] + Held(q) <= seen[d] + stray[q]
        BY <3>7, <3>3, <3>4, <4>1 DEF ReserverInv
      <4>3. spent'[q] + Held(q)' <= seen'[d] + stray'[q]
        BY <4>2, <3>1, <3>3, <3>4, <3>7
      <4>4. Held(q)' = Held(period[d])'
        BY <4>1 DEF Held, Active
      <4> QED
        BY <4>1, <4>3, <4>4
    <3>8. OvershootIsStray'
      BY <3>1, <3>4 DEF ReserverInv, OvershootIsStray
    <3> QED
      BY <3>5, <3>6, <3>7, <3>8 DEF ReserverInv
  <2>2. CASE ReadReserved(c)
    <3>1. \A p \in Period : Held(p)' = Held(p)
      BY <2>2, <1>b DEF ReadReserved, reservations
    <3>2. /\ period' = period /\ lock' = lock /\ spent' = spent /\ stray' = stray
          /\ pc[c] = "reading" /\ pc'[c] = "checking"
          /\ seen'[c] = seen[c] + Held(period[c])
          /\ \A d \in Caller : d # c => pc'[d] = pc[d] /\ seen'[d] = seen[d]
      BY <2>2 DEF ReadReserved, MoveTo, TypeOK
    <3>3. \A d \in Caller : pc'[d] \in {"reading", "checking"} => lock'[period'[d]] = d
      BY <3>2 DEF ReserverInv
    <3>4. \A d \in Caller : pc'[d] = "reading" =>
             spent'[period'[d]] <= seen'[d] + stray'[period'[d]]
      BY <3>2 DEF ReserverInv
    <3>5. ASSUME NEW d \in Caller, pc'[d] = "checking"
          PROVE  (spent[period[d]] + Held(period[d]) <= seen[d] + stray[period[d]])'
      <4>1. PICK q \in Period : q = period[d] /\ q = period'[d]
        BY <3>2 DEF TypeOK
      <4>2. /\ spent[q] \in Nat /\ stray[q] \in Nat /\ seen[d] \in Nat
            /\ Held(q) \in Nat
        BY <1>a DEF TypeOK
      <4>3. spent'[q] + Held(q)' <= seen'[d] + stray'[q]
        <5>1. CASE d = c
          <6>1. spent[q] <= seen[c] + stray[q]
            BY <3>2, <4>1, <5>1 DEF ReserverInv
          <6>2. seen'[d] = seen[d] + Held(q)
            BY <3>2, <4>1, <5>1
          <6> QED
            BY <6>1, <6>2, <4>2, <5>1, <3>1, <3>2
        <5>2. CASE d # c
          <6>1. spent[q] + Held(q) <= seen[d] + stray[q]
            BY <3>5, <3>2, <4>1, <5>2 DEF ReserverInv
          <6> QED
            BY <6>1, <3>1, <3>2, <5>2
        <5> QED
          BY <5>1, <5>2
      <4>4. Held(q)' = Held(period[d])'
        BY <4>1 DEF Held, Active
      <4> QED
        BY <4>1, <4>3, <4>4
    <3>6. OvershootIsStray'
      BY <3>1, <3>2 DEF ReserverInv, OvershootIsStray
    <3> QED
      BY <3>3, <3>4, <3>5, <3>6 DEF ReserverInv
  <2>3. CASE Reserve(c)
    <3>1. PICK r \in Reservation :
             /\ resStatus[r] = "none"
             /\ resStatus' = [resStatus EXCEPT ![r] = "active"]
             /\ resPeriod' = [resPeriod EXCEPT ![r] = period[c]]
      BY <2>3 DEF Reserve
    <3>2. PICK q \in Period : q = period[c]
      BY DEF TypeOK
    <3>3. \A p \in Period : Held(p)' = IF p = q THEN Held(p) + 1 ELSE Held(p)
      <4> SUFFICES ASSUME NEW p \in Period
                   PROVE  Held(p)' = IF p = q THEN Held(p) + 1 ELSE Held(p)
        OBVIOUS
      <4>1. r \notin Active(p) /\ IsFiniteSet(Active(p))
        BY <3>1, HeldIsNatural DEF Active
      <4>2. Active(p)' = IF p = q THEN Active(p) \union {r} ELSE Active(p)
        BY <3>1, <3>2 DEF Active, TypeOK
      <4> QED
        BY <4>1, <4>2, FS_AddElement DEF Held
    <3>4. /\ spent' = spent /\ stray' = stray
          /\ pc[c] = "checking" /\ pc'[c] \notin {"reading", "checking"}
          /\ seen[c] + 1 <= Limit
          /\ lock' = [p \in Period |-> IF lock[p] = c THEN NoCaller ELSE lock[p]]
          /\ \A d \in Caller : d # c =>
                pc'[d] = pc[d] /\ period'[d] = period[d] /\ seen'[d] = seen[d]
      BY <2>3 DEF Reserve, HasRoom, EndReserve, MoveTo, TypeOK
    <3>5. \A d \in Caller : pc'[d] \in {"reading", "checking"} =>
             d # c /\ pc[d] \in {"reading", "checking"} /\ period[d] # q
      BY <3>2, <3>4, <1>c
    <3>6. \A d \in Caller : pc'[d] \in {"reading", "checking"} => lock'[period'[d]] = d
      BY <3>4, <3>5 DEF ReserverInv, TypeOK
    <3>7. \A d \in Caller : pc'[d] = "reading" =>
             spent'[period'[d]] <= seen'[d] + stray'[period'[d]]
      BY <3>4, <3>5 DEF ReserverInv
    <3>8. ASSUME NEW d \in Caller, pc'[d] = "checking"
          PROVE  (spent[period[d]] + Held(period[d]) <= seen[d] + stray[period[d]])'
      <4>1. PICK u \in Period : u = period[d] /\ u = period'[d] /\ u # q
        BY <3>8, <3>4, <3>5 DEF TypeOK
      <4>2. spent[u] + Held(u) <= seen[d] + stray[u]
        BY <3>8, <3>4, <3>5, <4>1 DEF ReserverInv
      <4>3. spent'[u] + Held(u)' <= seen'[d] + stray'[u]
        BY <4>1, <4>2, <3>3, <3>4, <3>5, <3>8
      <4>4. Held(u)' = Held(period[d])'
        BY <4>1 DEF Held, Active
      <4> QED
        BY <4>1, <4>3, <4>4
    <3>9. ASSUME NEW p \in Period
          PROVE  spent'[p] + Held(p)' <= Limit + stray'[p]
      <4>1. /\ spent[p] \in Nat /\ stray[p] \in Nat /\ Held(p) \in Nat
            /\ seen[c] \in Nat /\ Limit \in Nat
        BY <1>a, BoundsAreNaturals DEF TypeOK
      <4>2. CASE p = q
        <5>1. spent[p] + Held(p) <= seen[c] + stray[p]
          BY <3>2, <3>4, <4>2 DEF ReserverInv
        <5>2. Held(p)' = Held(p) + 1
          BY <3>3, <4>2
        <5> QED
          BY <4>1, <5>1, <5>2, <3>4
      <4>3. CASE p # q
        BY <4>3, <3>3, <3>4 DEF ReserverInv, OvershootIsStray
      <4> QED
        BY <4>2, <4>3
    <3> QED
      BY <3>6, <3>7, <3>8, <3>9 DEF ReserverInv, OvershootIsStray
  <2>4. CASE ReserveRefused(c)
    <3>1. \A p \in Period : Held(p)' <= Held(p)
      BY <2>4, <1>b DEF ReserveRefused, reservations
    <3>2. \A d \in Caller : pc'[d] \in {"reading", "checking"} =>
            /\ pc'[d] = pc[d] /\ period'[d] = period[d] /\ seen'[d] = seen[d]
            /\ lock'[period[d]] = lock[period[d]]
      BY <2>4 DEF ReserveRefused, EndReserve, Conclude, MoveTo, TypeOK, ReserverInv
    <3> QED
      BY <2>4, <3>1, <3>2, ReserverUntouched DEF ReserveRefused
  <2>5. CASE ConsumeCall(c)
    <3>1. \A p \in Period : Held(p)' <= Held(p)
      BY <2>5, <1>b DEF ConsumeCall, reservations
    <3> QED
      BY <2>5, <3>1, ReserverUntouched DEF ConsumeCall, MoveTo, TypeOK
  <2>6. CASE CallRefused(c)
    <3>1. \A p \in Period : Held(p)' <= Held(p)
      BY <2>6, <1>b DEF CallRefused, reservations
    <3> QED
      BY <2>6, <3>1, ReserverUntouched DEF CallRefused, MoveTo, TypeOK
  <2>7. CASE Release(c)
    <3>1. \A p \in Period : Active(p)' \subseteq Active(p)
      BY <2>7 DEF Release, Active, TypeOK
    <3>2. \A p \in Period : Held(p)' <= Held(p)
      BY <3>1, HeldShrinks
    <3> QED
      BY <2>7, <3>2, ReserverUntouched
      DEF Release, Discharge, Conclude, MoveTo, TypeOK
  <2>8. CASE Log(c)
    <3>1. PICK cost \in {0, 1} :
             /\ spent' = [spent EXCEPT ![month] = @ + cost]
             /\ stray' = [stray EXCEPT ![month] = @ + IF Counted(c) THEN 0 ELSE cost]
      BY <2>8 DEF Log
    <3>2. /\ pc[c] = "calling" /\ lock' = lock /\ mine[c] \in Reservation
          /\ resStatus' = [resStatus EXCEPT ![mine[c]] = "reconciled"]
          /\ resPeriod' = resPeriod
          /\ \A d \in Caller : pc'[d] \in {"reading", "checking"} =>
                /\ pc'[d] = pc[d] /\ period'[d] = period[d] /\ seen'[d] = seen[d]
      BY <2>8 DEF Log, Discharge, Conclude, MoveTo, TypeOK
    <3>3. \A p \in Period : Active(p)' = Active(p) \ {mine[c]}
      BY <3>2 DEF Active, TypeOK
    <3>4. \A p \in Period : Held(p)' <= Held(p)
      BY <3>3, HeldShrinks
    <3>5. Counted(c) => Held(month)' = Held(month) - 1
      <4> SUFFICES ASSUME Counted(c) PROVE Held(month)' = Held(month) - 1
        OBVIOUS
      <4>1. PICK m \in Period : m = month /\ m = month'
        BY <2>8 DEF Log, TypeOK
      <4>2. mine[c] \in Active(m)
        BY <3>2, <4>1 DEF Counted, Active
      <4>3. Held(m)' = Held(m) - 1
        BY <3>3, <4>2, HeldIsNatural, FS_RemoveElement DEF Held
      <4> QED
        BY <4>1, <4>3 DEF Held, Active
    <3>6. month \in Period /\ month' = month
      BY <2>8 DEF Log, TypeOK
    <3>7. \A p \in Period :
             /\ spent[p] \in Nat /\ stray[p] \in Nat
             /\ p # month => spent'[p] = spent[p] /\ stray'[p] = stray[p]
             /\ p = month => /\ spent'[p] = spent[p] + cost
                             /\ ~Counted(c) => stray'[p] = stray[p] + cost
                             /\ Counted(c) => stray'[p] = stray[p]
      BY <3>1, <3>6 DEF TypeOK
    \* no sum grows by more than its stray part
    <3>8. \A p \in Period :
             spent'[p] + Held(p)' - stray'[p] <= spent[p] + Held(p) - stray[p]
      <4> SUFFICES ASSUME NEW p \in Period
                   PROVE spent'[p] + Held(p)' - stray'[p] <= spent[p] + Held(p) - stray[p]
        OBVIOUS
      <4>1. Held(p) \in Nat /\ Held(p)' \in Nat /\ Held(p)' <= Held(p)
        BY <1>a, <3>4
      <4>2. Counted(c) /\ p = month => Held(p)' = Held(p) - 1
        BY <3>5, <3>6 DEF Held, Active
      <4> QED
        BY <3>1, <3>7, <4>1, <4>2
    <3>9. \A d \in Caller : pc'[d] \in {"reading", "checking"} => lock'[period'[d]] = d
      BY <3>2 DEF ReserverInv
    <3>10. ASSUME NEW d \in Caller, pc'[d] = "reading"
           PROVE  spent'[period'[d]] <= seen'[d] + stray'[period'[d]]
      <4>1. PICK u \in Period : u = period[d] /\ u = period'[d]
        BY <3>10, <3>2 DEF TypeOK
      <4>2. spent[u] <= seen[d] + stray[u] /\ seen[d] \in Nat /\ seen'[d] = seen[d]
        BY <3>10, <3>2, <4>1 DEF ReserverInv, TypeOK
      <4>3. u = month => ~Counted(c)
        BY <3>10, <3>2, <4>1 DEF Counted, Reading
      <4>4. spent'[u] <= seen'[d] + stray'[u]
        BY <3>1, <3>7, <4>2, <4>3
      <4> QED
        BY <4>1, <4>4
    <3>11. ASSUME NEW d \in Caller, pc'[d] = "checking"
           PROVE  (spent[period[d]] + Held(period[d]) <= seen[d] + stray[period[d]])'
      <4>1. PICK u \in Period : u = period[d] /\ u = period'[d]
        BY <3>11, <3>2 DEF TypeOK
      <4>2. /\ spent[u] + Held(u) <= seen[d] + stray[u]
            /\ seen[d] \in Nat /\ seen'[d] = seen[d]
        BY <3>11, <3>2, <4>1 DEF ReserverInv, TypeOK
      <4>3. /\ Held(u) \in Nat /\ Held(u)' \in Nat
            /\ spent'[u] \in Nat /\ stray'[u] \in Nat
        BY <1>a, <3>1, <3>7
      <4>4. spent'[u] + Held(u)' <= seen'[d] + stray'[u]
        BY <3>7, <3>8, <4>2, <4>3
      <4>5. Held(u)' = Held(period[d])'
        BY <4>1 DEF Held, Active
      <4> QED
        BY <4>1, <4>4, <4>5
    <3>12. ASSUME NEW p \in Period
           PROVE  spent'[p] + Held(p)' <= Limit + stray'[p]
      <4>1. spent[p] + Held(p) <= Limit + stray[p] /\ Limit \in Nat
        BY BoundsAreNaturals DEF ReserverInv, OvershootIsStray
      <4>2. /\ Held(p) \in Nat /\ Held(p)' \in Nat
            /\ spent'[p] \in Nat /\ stray'[p] \in Nat
        BY <1>a, <3>1, <3>7
      <4> QED
        BY <3>7, <3>8, <4>1, <4>2
    <3> QED
      BY <3>9, <3>10, <3>11, <3>12 DEF ReserverInv, OvershootIsStray
  <2>9. CASE Finish(c)
    <3>1. \A p \in Period : Held(p)' <= Held(p)
      BY <2>9, <1>b DEF Finish, reservations
    <3> QED
      BY <2>9, <3>1, ReserverUntouched DEF Finish, MoveTo, TypeOK
  <2> QED
    BY <1>2, <2>1, <2>2, <2>3, <2>4, <2>5, <2>6, <2>7, <2>8, <2>9 DEF Step
<1>3. ASSUME NEW c \in Caller, Ask(c) PROVE ReserverInv'
  <2>1. \A p \in Period : Held(p)' <= Held(p)
    BY <1>3, <1>b DEF Ask, reservations
  <2> QED
    BY <1>3, <2>1, ReserverUntouched DEF Ask, MoveTo, TypeOK
<1>4. ASSUME NEW c \in Caller, Crash(c) PROVE ReserverInv'
  <2>1. \A p \in Period : Held(p)' <= Held(p)
    BY <1>4, <1>b DEF Crash, reservations
  <2>2. \A d \in Caller : pc'[d] \in {"reading", "checking"} =>
          /\ pc'[d] = pc[d] /\ period'[d] = period[d] /\ seen'[d] = seen[d]
          /\ lock'[period[d]] = lock[period[d]]
    BY <1>4 DEF Crash, EndReserve, MoveTo, TypeOK, ReserverInv
  <2> QED
    BY <1>4, <2>1, <2>2, ReserverUntouched DEF Crash
<1>5. ASSUME NEW c \in Caller, NEW j \in Job, Claim(c, j) PROVE ReserverInv'
  <2>1. \A p \in Period : Held(p)' <= Held(p)
    BY <1>5, <1>b DEF Claim, reservations
  <2> QED
    BY <1>5, <2>1, ReserverUntouched DEF Claim, MoveTo, TypeOK
<1>6. ASSUME NEW j \in Job, LeaseExpires(j) \/ LeaseOverrun(j) PROVE ReserverInv'
  <2>1. UNCHANGED <<reservations, callers, spent, stray, lock>>
    BY <1>6 DEF LeaseExpires, LeaseOverrun
  <2>2. \A p \in Period : Held(p)' <= Held(p)
    BY <2>1, <1>b DEF reservations
  <2> QED
    BY <2>1, <2>2, ReserverUntouched DEF callers
<1>7. CASE Recover
  <2>1. \A p \in Period : Active(p)' \subseteq Active(p)
    BY <1>7 DEF Recover, Active, TypeOK
  <2>2. \A p \in Period : Held(p)' <= Held(p)
    BY <2>1, HeldShrinks
  <2> QED
    BY <1>7, <2>2, ReserverUntouched DEF Recover, callers
<1>8. CASE NextMonth
  <2>1. \A p \in Period : Held(p)' <= Held(p)
    BY <1>8, <1>b DEF NextMonth, reservations
  <2> QED
    BY <1>8, <2>1, ReserverUntouched DEF NextMonth, callers
<1> QED
  BY <1>1, <1>2, <1>3, <1>4, <1>5, <1>6, <1>7, <1>8 DEF Next

\* The ceiling is exceeded only by stray costs, and by no more than they amount
\* to, for any number of callers, jobs, months and faults.
THEOREM OvershootAccounted == Spec => []OvershootIsStray
<1>1. Init => TypeOK /\ ReserverInv
  BY TypeInit, ReserverInit
<1>2. TypeOK /\ ReserverInv /\ [Next]_vars => (TypeOK /\ ReserverInv)'
  BY TypeNext, ReserverNext
<1>3. ReserverInv => OvershootIsStray
  BY DEF ReserverInv
<1> QED
  BY <1>1, <1>2, <1>3, PTL DEF Spec

-----------------------------------------------------------------------------
\* At the start no caller has a reservation and no job runs.
LEMMA CoverInit == Init => CoverInv
  BY NamesAreApart DEF Init, CoverInv

\* A step that gives no reservation back and moves no owner keeps the
\* invariant.
LEMMA CoverUntouched ==
  ASSUME TypeOK, CoverInv,
         UNCHANGED <<mine, resStatus, resJob, state, owner>>,
         \A c \in Caller : mine[c] # NoReservation =>
            /\ job'[c] = job[c]
            /\ pc'[c] \in {"reserved", "calling", "releasing"},
         \A j \in Job : stale'[j] => state[j] = "running"
  PROVE  CoverInv'
  BY DEF TypeOK, CoverInv

\* Every step keeps it.
LEMMA CoverNext == TypeOK /\ CoverInv /\ [Next]_vars => CoverInv'
<1> SUFFICES ASSUME TypeOK, CoverInv, [Next]_vars PROVE CoverInv'
  OBVIOUS
<1> USE NamesAreApart DEF TypeOK, CoverInv, MoveTo, reservations, jobs, callers
<1>1. CASE UNCHANGED vars
  BY <1>1 DEF vars
<1>2. ASSUME NEW c \in Caller, Step(c) PROVE CoverInv'
  <2>1. CASE ReadSpend(c)
    BY <2>1, CoverUntouched DEF ReadSpend
  <2>2. CASE ReadReserved(c)
    BY <2>2, CoverUntouched DEF ReadReserved
  <2>3. CASE Reserve(c)
    BY <2>3 DEF Reserve
  <2>4. CASE ReserveRefused(c)
    BY <2>4, CoverUntouched DEF ReserveRefused, Conclude
  <2>5. CASE ConsumeCall(c)
    BY <2>5, CoverUntouched DEF ConsumeCall
  <2>6. CASE CallRefused(c)
    BY <2>6, CoverUntouched DEF CallRefused
  <2>7. CASE Release(c)
    BY <2>7 DEF Release, Discharge, Conclude
  <2>8. CASE Log(c)
    BY <2>8 DEF Log, Discharge, Conclude
  <2>9. CASE Finish(c)
    BY <2>9 DEF Finish
  <2> QED
    BY <1>2, <2>1, <2>2, <2>3, <2>4, <2>5, <2>6, <2>7, <2>8, <2>9 DEF Step
<1>3. ASSUME NEW c \in Caller, Ask(c) PROVE CoverInv'
  BY <1>3, CoverUntouched DEF Ask
<1>4. ASSUME NEW c \in Caller, Crash(c) PROVE CoverInv'
  BY <1>4 DEF Crash, Discharge
<1>5. ASSUME NEW c \in Caller, NEW j \in Job, Claim(c, j) PROVE CoverInv'
  BY <1>5 DEF Claim
<1>6. ASSUME NEW j \in Job, LeaseExpires(j) \/ LeaseOverrun(j) PROVE CoverInv'
  BY <1>6 DEF LeaseExpires, LeaseOverrun
<1>7. CASE Recover
  BY <1>7 DEF Recover, Abandoned
<1>8. CASE NextMonth
  BY <1>8 DEF NextMonth
<1> HIDE DEF TypeOK, CoverInv
<1> QED
  BY <1>1, <1>2, <1>3, <1>4, <1>5, <1>6, <1>7, <1>8 DEF Next

\* Whoever calls the provider for a job it owns, or for none, has the worst
\* cost of the call reserved.
THEOREM CallsCovered == Spec => []CallsAreCovered
<1>1. Init => TypeOK /\ CoverInv
  BY TypeInit, CoverInit
<1>2. TypeOK /\ CoverInv /\ [Next]_vars => (TypeOK /\ CoverInv)'
  BY TypeNext, CoverNext
<1>3. TypeOK /\ CoverInv => CallsAreCovered
  BY NamesAreApart DEF TypeOK, CoverInv, CallsAreCovered
<1> QED
  BY <1>1, <1>2, <1>3, PTL DEF Spec

=============================================================================
