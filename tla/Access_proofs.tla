--------------------------- MODULE Access_proofs ---------------------------
(***************************************************************************)
(* Theorems about Access, for every set of users, scopes, writers and      *)
(* requests that change permissions.                                       *)
(***************************************************************************)
EXTENDS Access, TLAPS

\* What a writer is doing has this form.
WriterRecord ==
    [pc : {"idle", "ready", "membership", "granted", "committed", "refused"},
     kind : Kind, user : User \union {"nobody"}, at : Place \union {"nowhere"},
     todo : SUBSET Place, granted : SUBSET Place, shares : SUBSET Row]

\* The stages at which a transaction may hold locks, and has a user.
WellFormed(r) ==
    /\ r \in WriterRecord
    /\ r.pc \in {"ready", "membership", "granted"} => r.user \in User
    /\ r.pc \in {"idle", "ready", "committed", "refused"} => r.shares = {}
    /\ \A s \in Scope, u \in User :
          role[s][u] = "none" => MemberRow(s, u) \notin r.shares

\* The three tables have different rows.
LEMMA RowsDiffer ==
  ASSUME NEW s, NEW t, NEW u, NEW v
  PROVE  /\ MemberRow(s, u) # UserRow(v)
         /\ MemberRow(s, u) # EntityRow(t)
         /\ MemberRow(s, u) = MemberRow(t, v) => s = t /\ u = v
  BY DEF MemberRow, UserRow, EntityRow

\* A change names what it changes.
LEMMA ChangeParts ==
  ASSUME NEW c \in Change \union {NoChange}
  PROVE  /\ c.what = "user" => c.user \in User
         /\ c.what = "member" => c.scope \in Scope /\ c.user \in User /\ c.role \in Role
         /\ c.what = "archive" => c.scope \in Scope
  BY DEF Change, NoChange

\* The types say of every writer that it is well formed.
LEMMA WritersWellFormed ==
  ASSUME TypeOK, NEW w \in Writer
  PROVE  WellFormed(writer[w])
  BY DEF TypeOK, WellFormed, WriterRecord

\* A step of one writer to a well-formed state keeps the types.
LEMMA SetKeepsTypes ==
  ASSUME TypeOK, NEW w \in Writer, NEW r, WellFormed(r), Set(w, r),
         UNCHANGED <<people, places, asked, requests>>
  PROVE  TypeOK'
<1>1. writer' \in [Writer -> WriterRecord]
  BY DEF TypeOK, WellFormed, WriterRecord, Set
<1>2. \A v \in Writer : WellFormed(writer'[v])
  BY WritersWellFormed DEF TypeOK, Set
<1> QED
  BY <1>1, <1>2 DEF TypeOK, WellFormed, WriterRecord, people, places

\* A step of one writer whose transaction is over keeps the types.
LEMMA OverKeepsTypes ==
  ASSUME TypeOK, NEW w \in Writer, NEW pc \in {"committed", "refused"}, Over(w, pc),
         UNCHANGED <<people, places, asked, requests>>
  PROVE  TypeOK'
<1> DEFINE r == [writer[w] EXCEPT !.pc = pc, !.at = "nowhere", !.todo = {},
                                  !.granted = {}, !.shares = {}]
<1>1. WellFormed(r)
  BY WritersWellFormed DEF WellFormed, WriterRecord
<1> HIDE DEF r
<1> QED
  BY <1>1, SetKeepsTypes DEF Over, r

\* An operation that is refused is dropped, or the transaction is over.
LEMMA RefuseKeepsTypes ==
  ASSUME TypeOK, NEW w \in Writer, NEW r, WellFormed(r), NEW s, r.user \in User,
         Refuse(w, r, s), UNCHANGED <<people, places, asked, requests>>
  PROVE  TypeOK'
<1> DEFINE q == [r EXCEPT !.pc = "granted", !.at = "nowhere", !.todo = @ \ {s}]
<1>1. WellFormed(q)
  BY DEF WellFormed, WriterRecord
<1> HIDE DEF q
<1>2. CASE Set(w, q)
  BY <1>1, <1>2, SetKeepsTypes
<1>3. CASE Over(w, "refused")
  BY <1>3, OverKeepsTypes
<1> QED
  BY <1>2, <1>3 DEF Refuse, q

\* A grant of a place is well formed.
LEMMA GrantWellFormed ==
  ASSUME NEW r, WellFormed(r), r.user \in User, NEW s \in Place
  PROVE  WellFormed(Grant(r, s))
  BY DEF WellFormed, WriterRecord, Grant

\* The rows of a scope and its user can be shared.
LEMMA ScopeRowsLockable ==
  ASSUME NEW r, WellFormed(r), NEW s \in Place, NEW u \in User,
         r.pc \in {"ready", "granted"}
  PROVE  LET locked == [r EXCEPT !.shares = @ \union ScopeRows(u, s)]
         IN  /\ WellFormed([locked EXCEPT !.pc = "membership", !.at = s])
             /\ WellFormed(Grant(locked, s))
<1> DEFINE locked == [r EXCEPT !.shares = @ \union ScopeRows(u, s)]
<1>1. ScopeRows(u, s) \subseteq Row
  BY DEF ScopeRows, Row
<1>2. /\ locked \in WriterRecord /\ locked.shares = r.shares \union ScopeRows(u, s)
      /\ locked.user = r.user /\ locked.pc = r.pc
  BY <1>1 DEF WellFormed, WriterRecord
<1>3. \A t \in Scope, v \in User :
         role[t][v] = "none" => MemberRow(t, v) \notin locked.shares
  <2> SUFFICES ASSUME NEW t \in Scope, NEW v \in User, role[t][v] = "none"
               PROVE  MemberRow(t, v) \notin r.shares \union ScopeRows(u, s)
    BY <1>2
  <2>1. MemberRow(t, v) \notin r.shares
    BY DEF WellFormed
  <2>2. MemberRow(t, v) # EntityRow(s) /\ MemberRow(t, v) # UserRow(u)
    BY RowsDiffer
  <2> QED
    BY <2>1, <2>2 DEF ScopeRows
<1>4. r.user \in User
  BY DEF WellFormed
<1> HIDE DEF locked
<1>5. WellFormed([locked EXCEPT !.pc = "membership", !.at = s])
  BY <1>2, <1>3, <1>4 DEF WellFormed, WriterRecord
<1>6. WellFormed(Grant(locked, s))
  BY <1>2, <1>3, <1>4 DEF WellFormed, WriterRecord, Grant
<1> QED
  BY <1>5, <1>6 DEF locked

\* The row of a membership that is there can be shared.
LEMMA MemberRowLockable ==
  ASSUME NEW r, WellFormed(r), NEW s, r.user \in User,
         r.pc \in {"membership", "granted"}
  PROVE  LET locked == [r EXCEPT !.shares = @ \union MemberRows(s, r.user)]
         IN  WellFormed(locked) /\ locked.user = r.user
<1> DEFINE locked == [r EXCEPT !.shares = @ \union MemberRows(s, r.user)]
<1>1. MemberRows(s, r.user) \subseteq Row
  BY DEF MemberRows, Row
<1>2. /\ locked \in WriterRecord /\ locked.shares = r.shares \union MemberRows(s, r.user)
      /\ locked.user = r.user /\ locked.pc = r.pc
  BY <1>1 DEF WellFormed, WriterRecord
<1>3. \A t \in Scope, v \in User :
         role[t][v] = "none" => MemberRow(t, v) \notin locked.shares
  <2> SUFFICES ASSUME NEW t \in Scope, NEW v \in User, role[t][v] = "none"
               PROVE  MemberRow(t, v) \notin r.shares \union MemberRows(s, r.user)
    BY <1>2
  <2>1. MemberRow(t, v) \notin r.shares
    BY DEF WellFormed
  <2>2. MemberRow(t, v) \notin MemberRows(s, r.user)
    BY RowsDiffer DEF MemberRows
  <2> QED
    BY <2>1, <2>2
<1> HIDE DEF locked
<1>4. WellFormed(locked)
  BY <1>2, <1>3 DEF WellFormed
<1> QED
  BY <1>2, <1>4 DEF locked

-----------------------------------------------------------------------------
LEMMA TypeInit == Init => TypeOK
  BY AccessAssumption DEF Init, TypeOK, Idle, Kind, MemberRow

\* A request or a job that starts has a user and no locks.
LEMMA StartKeepsTypes ==
  ASSUME TypeOK, NEW w \in Writer, NEW k \in Kind, NEW u \in User,
         NEW pc \in {"ready", "granted"}, NEW at \in Place \union {"nowhere"},
         NEW todo \in SUBSET Place, NEW granted \in SUBSET Place,
         Start(w, k, u, pc, at, todo, granted)
  PROVE  TypeOK'
<1> DEFINE r == [pc |-> pc, kind |-> k, user |-> u, at |-> at, todo |-> todo,
                 granted |-> granted, shares |-> {}]
<1>1. WellFormed(r)
  BY DEF WellFormed, WriterRecord
<1> HIDE DEF r
<1> QED
  BY <1>1, SetKeepsTypes DEF Start, r

\* Each step of a request or a job that writes keeps the types.
LEMMA WriteKeepsTypes ==
  ASSUME TypeOK, NEW w \in Writer, Write(w)
  PROVE  TypeOK'
<1> USE WritersWellFormed
<1>1. ASSUME NEW u \in User, NEW s \in Place, StartSession(w, u, s) PROVE TypeOK'
  BY <1>1, StartKeepsTypes DEF StartSession, Kind
<1>2. ASSUME NEW u \in User, NEW s \in Place, StartDirect(w, u, s) PROVE TypeOK'
  <2>1. Start(w, "direct", u, "granted", "nowhere", {}, {s})
    BY <1>2 DEF StartDirect
  <2> QED
    BY <2>1, StartKeepsTypes DEF Kind
<1>3. ASSUME NEW u \in User, NEW s \in Place, NEW named \in SUBSET Place,
             StartExtraction(w, u, s, named)
      PROVE  TypeOK'
  BY <1>3, StartKeepsTypes DEF StartExtraction, Kind
<1>4. ASSUME NEW u \in User, NEW scopes \in SUBSET Place,
             StartConsolidation(w, u, scopes)
      PROVE  TypeOK'
  BY <1>4, StartKeepsTypes DEF StartConsolidation, Kind
<1>5. CASE LockActor(w)
  <2> DEFINE r == writer[w]
             q == [r EXCEPT !.pc = "granted", !.shares = {UserRow(r.user)},
                            !.granted = IF admin[r.user] THEN r.todo ELSE {},
                            !.todo = IF admin[r.user] THEN {} ELSE r.todo]
  <2>0. r.user \in User
    BY <1>5 DEF LockActor, WellFormed
  <2>1. UserRow(r.user) \in Row
    BY <2>0 DEF Row
  <2>2. \A s \in Scope, u \in User : MemberRow(s, u) \notin {UserRow(r.user)}
    BY RowsDiffer
  <2>3. WellFormed(q)
    BY <2>0, <2>1, <2>2 DEF WellFormed, WriterRecord
  <2>4. CASE Set(w, q)
    <3> HIDE DEF q
    <3> QED
      BY <1>5, <2>3, <2>4, SetKeepsTypes DEF LockActor
  <2>5. CASE Over(w, "refused")
    BY <1>5, <2>5, OverKeepsTypes DEF LockActor
  <2> QED
    BY <1>5, <2>4, <2>5 DEF LockActor
<1>6. ASSUME NEW s \in Place, LockScope(w, s) PROVE TypeOK'
  <2> DEFINE r == writer[w]
             locked == [r EXCEPT !.shares = @ \union ScopeRows(r.user, s)]
  <2>0. r.pc \in {"ready", "granted"}
    BY <1>6 DEF LockScope, Following
  <2>1. r.user \in User /\ WellFormed(r)
    BY <2>0 DEF WellFormed
  <2>2. UNCHANGED <<people, places, asked, requests>>
    BY <1>6 DEF LockScope
  <2>3. CASE Refuse(w, r, s)
    BY <2>1, <2>2, <2>3, RefuseKeepsTypes
  <2>4. CASE Set(w, Grant(locked, s))
    BY <2>0, <2>1, <2>2, <2>4, ScopeRowsLockable, SetKeepsTypes
  <2>5. CASE Set(w, [locked EXCEPT !.pc = "membership", !.at = s])
    BY <2>0, <2>1, <2>2, <2>5, ScopeRowsLockable, SetKeepsTypes
  <2> QED
    BY <1>6, <2>3, <2>4, <2>5 DEF LockScope
<1>7. CASE LockMembership(w)
  <2> DEFINE r == writer[w]
             s == r.at
             locked == [r EXCEPT !.shares = @ \union MemberRows(s, r.user)]
  <2>1. r.user \in User /\ WellFormed(r) /\ r.pc = "membership"
    BY <1>7 DEF LockMembership, WellFormed
  <2>2. WellFormed(locked) /\ locked.user \in User
    BY <2>1, MemberRowLockable
  <2>3. UNCHANGED <<people, places, asked, requests>>
    BY <1>7 DEF LockMembership
  <2>4. \/ MayWrite(r.user, s) /\ Set(w, Grant(locked, s))
        \/ Refuse(w, locked, s)
    BY <1>7 DEF LockMembership
  <2> HIDE DEF locked
  <2>5. CASE MayWrite(r.user, s) /\ Set(w, Grant(locked, s))
    <3>1. s \in Place
      BY <2>1, <2>5 DEF MayWrite, Place
    <3> QED
      BY <2>2, <2>3, <2>5, <3>1, GrantWellFormed, SetKeepsTypes
  <2>6. CASE Refuse(w, locked, s)
    BY <2>2, <2>3, <2>6, RefuseKeepsTypes
  <2> QED
    BY <2>4, <2>5, <2>6
<1>8. CASE Commit(w)
  BY <1>8, OverKeepsTypes DEF Commit
<1>9. CASE Abort(w)
  BY <1>9, OverKeepsTypes DEF Abort
<1> QED
  BY <1>1, <1>2, <1>3, <1>4, <1>5, <1>6, <1>7, <1>8, <1>9 DEF Write

\* Each step of a request that changes permissions keeps the types: a row that is
\* deleted is one nobody holds.
LEMMA GovernKeepsTypes ==
  ASSUME TypeOK, NEW a \in Asker, Govern(a)
  PROVE  TypeOK'
<1> USE AccessAssumption DEF people, places
<1>0. asked[a] \in Change \union {NoChange}
  BY DEF TypeOK
<1>1. ASSUME NEW by \in User, NEW c \in Change, Ask(a, by, c) PROVE TypeOK'
  BY <1>1 DEF Ask, TypeOK
<1>2. CASE PatchUser(a)
  <2>1. asked[a].user \in User
    BY <1>0, <1>2, ChangeParts DEF PatchUser
  <2>2. enabled' \in [User -> BOOLEAN]
    BY <1>2, <2>1 DEF PatchUser, TypeOK
  <2>3. admin' \in [User -> BOOLEAN]
    BY <1>2, <2>1 DEF PatchUser, TypeOK
  <2> QED
    BY <1>2, <2>2, <2>3 DEF PatchUser, Answer, TypeOK
<1>3. CASE SetMember(a)
  <2> DEFINE c == asked[a]
  <2>1. c.scope \in Scope /\ c.user \in User /\ c.role \in Role
    BY <1>0, <1>3, ChangeParts DEF SetMember
  <2>2. /\ role' = [role EXCEPT ![c.scope][c.user] = c.role]
        /\ Unshared(MemberRow(c.scope, c.user))
        /\ writer' = writer /\ requests' = requests
        /\ asked' = [asked EXCEPT ![a] = NoChange]
        /\ UNCHANGED <<enabled, admin, archived>>
    BY <1>3 DEF SetMember, Answer
  <2>3. role' \in [Scope -> [User -> Role]]
    BY <2>1, <2>2 DEF TypeOK
  <2>4. \A w \in Writer, s \in Scope, u \in User :
           role'[s][u] = "none" => MemberRow(s, u) \notin writer'[w].shares
    BY <2>1, <2>2 DEF TypeOK, Unshared
  <2> HIDE DEF c
  <2> QED
    BY <2>2, <2>3, <2>4 DEF TypeOK
<1>4. CASE ArchiveEntity(a)
  <2>1. archived' \in [Scope -> BOOLEAN]
    BY <1>4 DEF ArchiveEntity, TypeOK
  <2> QED
    BY <1>4, <2>1 DEF ArchiveEntity, Answer, TypeOK
<1>5. CASE GiveUp(a)
  BY <1>5 DEF GiveUp, Answer, TypeOK
<1> QED
  BY <1>1, <1>2, <1>3, <1>4, <1>5 DEF Govern

LEMMA TypeNext == TypeOK /\ [Next]_vars => TypeOK'
<1> SUFFICES ASSUME TypeOK, [Next]_vars PROVE TypeOK'
  OBVIOUS
<1>1. CASE UNCHANGED vars
  BY <1>1 DEF vars, TypeOK
<1> QED
  BY <1>1, WriteKeepsTypes, GovernKeepsTypes DEF Next

\* Every reachable state of writers and permissions is well typed; no lock outlives
\* its transaction.
THEOREM TypeCorrect == Spec => []TypeOK
  BY TypeInit, TypeNext, PTL DEF Spec

-----------------------------------------------------------------------------
\* No transaction is open at first.
LEMMA AccessInit == Init => AccessInv
  BY DEF Init, Idle, AccessInv

\* What AccessInv says of one writer.
Safe(r) ==
    /\ r.pc = "ready" => r.granted = {}
    /\ r.pc \in {"membership", "granted"} /\ r.kind # "direct" => Secured(r)

\* A step of one writer leaves what the others hold.
LEMMA SetKeepsSecured ==
  ASSUME TypeOK, AccessInv, NEW w \in Writer, NEW r, Set(w, r),
         UNCHANGED <<people, places, asked, requests>>, Safe(r)
  PROVE  AccessInv'
<1>1. \A v \in Writer : writer'[v] = IF v = w THEN r ELSE writer[v]
  BY DEF Set, TypeOK
<1>2. \A v \in Writer : Safe(writer'[v])
  BY <1>1 DEF AccessInv, Safe
<1> QED
  BY <1>2 DEF AccessInv, Safe, Secured, Granted, people, places

\* A transaction that is over holds nothing.
LEMMA OverKeepsSecured ==
  ASSUME TypeOK, AccessInv, NEW w \in Writer, NEW pc \in {"committed", "refused"},
         Over(w, pc), UNCHANGED <<people, places, asked, requests>>
  PROVE  AccessInv'
<1> DEFINE r == [writer[w] EXCEPT !.pc = pc, !.at = "nowhere", !.todo = {},
                                  !.granted = {}, !.shares = {}]
<1>1. Safe(r)
  BY WritersWellFormed DEF WellFormed, WriterRecord, Safe
<1> HIDE DEF r
<1> QED
  BY <1>1, SetKeepsSecured DEF Over, r

\* Dropping an operation gives nothing back, and a transaction that has been granted
\* nothing is over.
LEMMA RefuseKeepsSecured ==
  ASSUME TypeOK, AccessInv, NEW w \in Writer, NEW r \in WriterRecord, NEW s,
         Refuse(w, r, s), r.kind = "extraction" /\ r.granted # {} => Secured(r),
         UNCHANGED <<people, places, asked, requests>>
  PROVE  AccessInv'
<1> DEFINE q == [r EXCEPT !.pc = "granted", !.at = "nowhere", !.todo = @ \ {s}]
<1>1. CASE r.kind = "extraction" /\ r.granted # {} /\ Set(w, q)
  <2>1. /\ q.user = r.user /\ q.shares = r.shares /\ q.granted = r.granted
        /\ q.kind = r.kind /\ q.pc = "granted"
    BY DEF WriterRecord
  <2> HIDE DEF q
  <2>2. Safe(q)
    BY <1>1, <2>1 DEF Safe, Secured, Granted
  <2> QED
    BY <1>1, <2>2, SetKeepsSecured
<1>2. CASE Over(w, "refused")
  BY <1>2, OverKeepsSecured
<1> QED
  BY <1>1, <1>2 DEF Refuse

\* A place is added to what was granted with the rows it rests on.
LEMMA GrantIsSecured ==
  ASSUME NEW r \in WriterRecord, NEW s, enabled[r.user], UserRow(r.user) \in r.shares,
         \A t \in r.granted \union {s} : Granted(r, t)
  PROVE  Safe(Grant(r, s))
<1> DEFINE q == Grant(r, s)
<1>1. /\ q.user = r.user /\ q.shares = r.shares /\ q.granted = r.granted \union {s}
      /\ q.kind = r.kind /\ q.pc = "granted"
  BY DEF WriterRecord, Grant
<1> HIDE DEF q
<1> QED
  BY <1>1 DEF Safe, Secured, Granted, q

\* Each step of a writer keeps the invariant.
LEMMA WriteKeepsSecured ==
  ASSUME TypeOK, AccessInv, NEW w \in Writer, Write(w)
  PROVE  AccessInv'
<1>0. WellFormed(writer[w]) /\ writer[w] \in WriterRecord /\ Safe(writer[w])
  BY WritersWellFormed DEF WellFormed, AccessInv, Safe
<1>1. ASSUME NEW u \in User, NEW s \in Place, StartSession(w, u, s) PROVE AccessInv'
  BY <1>1, SetKeepsSecured DEF StartSession, Start, Safe
<1>2. ASSUME NEW u \in User, NEW s \in Place, StartDirect(w, u, s) PROVE AccessInv'
  BY <1>2, SetKeepsSecured DEF StartDirect, Start, Safe
<1>3. ASSUME NEW u \in User, NEW s \in Place, NEW named \in SUBSET Place,
             StartExtraction(w, u, s, named)
      PROVE  AccessInv'
  BY <1>3, SetKeepsSecured DEF StartExtraction, Start, Safe
<1>4. ASSUME NEW u \in User, NEW scopes \in SUBSET Place,
             StartConsolidation(w, u, scopes)
      PROVE  AccessInv'
  BY <1>4, SetKeepsSecured DEF StartConsolidation, Start, Safe
<1>5. CASE LockActor(w)
  <2> DEFINE r == writer[w]
             q == [r EXCEPT !.pc = "granted", !.shares = {UserRow(r.user)},
                            !.granted = IF admin[r.user] THEN r.todo ELSE {},
                            !.todo = IF admin[r.user] THEN {} ELSE r.todo]
  <2>1. CASE enabled[r.user] /\ Set(w, q)
    <3>1. /\ q.user = r.user /\ q.shares = {UserRow(r.user)} /\ q.pc = "granted"
          /\ q.granted = IF admin[r.user] THEN r.todo ELSE {}
          /\ q.kind = r.kind
      BY <1>0 DEF WriterRecord
    <3> HIDE DEF q
    <3>2. Safe(q)
      BY <1>5, <2>1, <3>1 DEF LockActor, Safe, Secured, Granted
    <3> QED
      BY <1>5, <2>1, <3>2, SetKeepsSecured DEF LockActor
  <2>2. CASE Over(w, "refused")
    BY <1>5, <2>2, OverKeepsSecured DEF LockActor
  <2> QED
    BY <1>5, <2>1, <2>2 DEF LockActor
<1>6. ASSUME NEW s \in Place, LockScope(w, s) PROVE AccessInv'
  <2> DEFINE r == writer[w]
             locked == [r EXCEPT !.shares = @ \union ScopeRows(r.user, s)]
             q == [locked EXCEPT !.pc = "membership", !.at = s]
  <2>1. r.pc \in {"ready", "granted"} /\ r.kind # "direct"
    BY <1>6 DEF LockScope, Following
  <2>2. r.user \in User
    BY <1>0, <2>1 DEF WellFormed
  <2>3. UNCHANGED <<people, places, asked, requests>>
    BY <1>6 DEF LockScope
  <2>4. /\ locked \in WriterRecord /\ locked.shares = r.shares \union ScopeRows(r.user, s)
        /\ locked.user = r.user /\ locked.kind = r.kind /\ locked.granted = r.granted
        /\ locked.pc = r.pc
    <3>1. ScopeRows(r.user, s) \subseteq Row
      BY <2>2 DEF ScopeRows, Row
    <3> QED
      BY <1>0, <3>1 DEF WriterRecord
  <2>5. /\ UserRow(r.user) \in locked.shares
        /\ EntityRow(s) \in locked.shares
        /\ \A t \in locked.granted : Granted(locked, t)
    <3>1. \A t \in r.granted : Granted(r, t)
      BY <1>0, <2>1 DEF Safe, Secured
    <3> QED
      BY <2>4, <3>1 DEF Granted, ScopeRows
  <2> HIDE DEF locked
  <2>6. CASE Refuse(w, r, s)
    <3>1. r.kind = "extraction" /\ r.granted # {} => Secured(r)
      BY <1>0, <2>1 DEF Safe
    <3> QED
      BY <1>0, <2>3, <2>6, <3>1, RefuseKeepsSecured
  <2>7. CASE enabled[r.user] /\ s = r.user /\ Set(w, Grant(locked, s))
    <3>1. Granted(locked, s)
      BY <2>4, <2>7 DEF Granted
    <3>2. Safe(Grant(locked, s))
      BY <2>4, <2>5, <2>7, <3>1, GrantIsSecured
    <3> QED
      BY <2>3, <2>7, <3>2, SetKeepsSecured
  <2>8. CASE enabled[r.user] /\ Open(s) /\ Set(w, q)
    <3>1. /\ q.user = r.user /\ q.shares = locked.shares /\ q.kind = r.kind
          /\ q.granted = locked.granted /\ q.pc = "membership" /\ q.at = s
      BY <2>4 DEF WriterRecord
    <3> HIDE DEF q
    <3>2. Safe(q)
      BY <2>4, <2>5, <2>8, <3>1 DEF Safe, Secured, Granted, Open
    <3> QED
      BY <2>3, <2>8, <3>2, SetKeepsSecured
  <2> QED
    BY <1>6, <2>6, <2>7, <2>8 DEF LockScope, locked
<1>7. CASE LockMembership(w)
  <2> DEFINE r == writer[w]
             s == r.at
             locked == [r EXCEPT !.shares = @ \union MemberRows(s, r.user)]
  <2>1. /\ r.user \in User /\ r.pc = "membership"
        /\ UNCHANGED <<people, places, asked, requests>>
        /\ \/ MayWrite(r.user, s) /\ Set(w, Grant(locked, s))
           \/ Refuse(w, locked, s)
    BY <1>0, <1>7 DEF LockMembership, WellFormed
  <2>2. /\ locked \in WriterRecord /\ locked.shares = r.shares \union MemberRows(s, r.user)
        /\ locked.user = r.user /\ locked.kind = r.kind /\ locked.granted = r.granted
        /\ locked.pc = r.pc /\ locked.at = s
    <3>1. MemberRows(s, r.user) \subseteq Row
      BY <2>1 DEF MemberRows, Row
    <3> QED
      BY <1>0, <3>1 DEF WriterRecord
  <2> HIDE DEF locked
  <2>3. r.kind # "direct" => Secured(r) /\ Secured(locked)
    BY <1>0, <2>1, <2>2 DEF Safe, Secured, Granted
  <2>4. CASE MayWrite(r.user, s) /\ Set(w, Grant(locked, s))
    <3>1. Safe(Grant(locked, s))
      <4>1. CASE r.kind = "direct"
        BY <2>2, <4>1 DEF Safe, Grant, WriterRecord
      <4>2. CASE r.kind # "direct"
        <5>1. s \in Scope => EntityRow(s) \in locked.shares
          BY <2>1, <2>2, <2>3, <4>2 DEF Secured
        <5>2. s = r.user \/ MemberRow(s, r.user) \in locked.shares
          BY <2>2, <2>4 DEF MayWrite, WriterRoles, MemberRows
        <5>3. Granted(locked, s)
          BY <2>2, <2>4, <5>1, <5>2 DEF Granted, MayWrite
        <5> QED
          BY <2>2, <2>3, <4>2, <5>3, GrantIsSecured DEF Secured
      <4> QED
        BY <4>1, <4>2
    <3> QED
      BY <2>1, <2>4, <3>1, SetKeepsSecured
  <2>5. CASE Refuse(w, locked, s)
    BY <2>1, <2>2, <2>3, <2>5, RefuseKeepsSecured
  <2> QED
    BY <2>1, <2>4, <2>5
<1>8. CASE Commit(w)
  BY <1>8, OverKeepsSecured DEF Commit
<1>9. CASE Abort(w)
  BY <1>9, OverKeepsSecured DEF Abort
<1> QED
  BY <1>1, <1>2, <1>3, <1>4, <1>5, <1>6, <1>7, <1>8, <1>9 DEF Write

\* A row that is changed is one nobody shares, so nothing that was granted rests on it.
LEMMA GovernKeepsSecured ==
  ASSUME TypeOK, AccessInv, NEW a \in Asker, Govern(a)
  PROVE  AccessInv'
<1>0. writer' = writer
  BY DEF Govern, Ask, PatchUser, SetMember, ArchiveEntity, GiveUp, Answer
<1> SUFFICES ASSUME NEW w \in Writer, writer[w].pc \in {"membership", "granted"},
                    writer[w].kind # "direct"
             PROVE  Secured(writer[w])'
  BY <1>0 DEF AccessInv
<1> DEFINE r == writer[w]
<1>1. /\ r.user \in User /\ r.granted \subseteq Place
      /\ Secured(r)
  BY WritersWellFormed DEF AccessInv, WellFormed, WriterRecord
<1>2. asked[a] \in Change \union {NoChange}
  BY DEF TypeOK
<1>3. CASE UNCHANGED <<people, places>>
  BY <1>0, <1>1, <1>3 DEF Secured, Granted, people, places
<1>4. CASE PatchUser(a)
  <2>1. asked[a].user \in User /\ asked[a].user # r.user
    BY <1>1, <1>2, <1>4, ChangeParts DEF PatchUser, Unshared, Secured
  <2>2. enabled'[r.user] = enabled[r.user] /\ admin'[r.user] = admin[r.user]
    BY <1>1, <1>4, <2>1 DEF PatchUser, TypeOK
  <2> QED
    BY <1>0, <1>1, <1>4, <2>2 DEF PatchUser, Secured, Granted, places
<1>5. CASE SetMember(a)
  <2> DEFINE c == asked[a]
  <2>1. c.scope \in Scope /\ c.user \in User /\ c.role \in Role
    BY <1>2, <1>5, ChangeParts DEF SetMember
  <2>2. \A s \in Scope : MemberRow(s, r.user) \in r.shares => role'[s][r.user] = role[s][r.user]
    BY <1>1, <1>5, <2>1 DEF SetMember, Unshared, TypeOK
  <2> QED
    BY <1>0, <1>1, <1>5, <2>2 DEF SetMember, Secured, Granted, people
<1>6. CASE ArchiveEntity(a)
  <2>1. \A s \in Scope : EntityRow(s) \in r.shares => archived'[s] = archived[s]
    BY <1>1, <1>6 DEF ArchiveEntity, Unshared, TypeOK
  <2> QED
    BY <1>0, <1>1, <1>6, <2>1 DEF ArchiveEntity, Secured, Granted, people
<1> QED
  BY <1>3, <1>4, <1>5, <1>6 DEF Govern, Ask, GiveUp

LEMMA AccessNext == TypeOK /\ AccessInv /\ [Next]_vars => AccessInv'
<1> SUFFICES ASSUME TypeOK, AccessInv, [Next]_vars PROVE AccessInv'
  OBVIOUS
<1>1. CASE UNCHANGED vars
  BY <1>1 DEF vars, AccessInv, Secured, Granted
<1> QED
  BY <1>1, WriteKeepsSecured, GovernKeepsSecured DEF Next

\* Whatever an open transaction has been granted rests on rows it shares and that say
\* what they said when it was granted.
THEOREM GrantsAreSecured == Spec => []AccessInv
  BY TypeInit, TypeNext, AccessInit, AccessNext, PTL DEF Spec

\* What has been granted is still permitted.
LEMMA GrantedIsEntitled ==
  ASSUME TypeOK, AccessInv
  PROVE  \A w \in Writer :
            writer[w].pc = "granted" /\ writer'[w].pc = "committed" /\ writer[w].kind # "direct"
              => \A s \in writer[w].granted : Entitled(writer[w], s)
  BY DEF AccessInv, Secured, Granted, Entitled, MayWrite

\* What a session or a job writes is committed while its user is enabled and may
\* write every scope it writes, for any number of users, scopes, transactions and
\* withdrawals of permission between their statements (store.require_scope_write).
THEOREM WritesPermitted == Spec => DelayedWritesArePermitted
<1>1. TypeOK /\ AccessInv /\ [Next]_vars
        => [\A w \in Writer :
              writer[w].pc = "granted" /\ writer'[w].pc = "committed" /\ writer[w].kind # "direct"
                => \A s \in writer[w].granted : Entitled(writer[w], s)]_vars
  BY GrantedIsEntitled
<1> QED
  BY <1>1, TypeCorrect, GrantsAreSecured, PTL DEF Spec, DelayedWritesArePermitted
=============================================================================
