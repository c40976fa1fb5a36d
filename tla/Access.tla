------------------------------- MODULE Access -------------------------------
(***************************************************************************)
(* Access: who may write a scope, and when a permission that is withdrawn  *)
(* stops a write that is under way.                                        *)
(*                                                                         *)
(* A request is authorised when it arrives; a job, when it was queued; and *)
(* a provider call may lie between.  So whatever writes on behalf of a     *)
(* session or a job authorises itself again inside the transaction that    *)
(* writes (store.require_scope_write): it reads the rows its permission    *)
(* rests on with share locks and keeps these to the commit, and whoever    *)
(* changes such a row waits.  A request that edits a memory directly does  *)
(* not: it goes by what it was told when it arrived.                       *)
(*                                                                         *)
(* A place is a shared scope, or a user's own, which is named by the user. *)
(***************************************************************************)
EXTENDS Naturals, FiniteSets

CONSTANTS
    User,
    Scope,      \* shared scopes: projects, companies
    Public,     \* those every user sees (visibility = 'team')
    Writer,     \* requests and jobs that write memory or messages
    Asker,      \* requests that change users, members and scopes
    MaxRequests \* of the latter

ASSUME AccessAssumption ==
    /\ User \intersect Scope = {}
    /\ Public \subseteq Scope
    /\ MaxRequests \in Nat

VARIABLES
    enabled,    \* users.disabled_at IS NULL
    admin,      \* users.role = 'admin'
    archived,   \* entities.archived_at IS NOT NULL
    role,       \* memberships.role, or "none" where there is no row
    writer,     \* what each writer is doing
    asked,      \* the change each asker was allowed and has not yet made
    requests    \* how many changes were asked for

vars == <<enabled, admin, archived, role, writer, asked, requests>>

people == <<enabled, admin>>
places == <<archived, role>>

Place == Scope \union User
Kind == {"session", "extraction", "consolidation", "direct"}
Role == {"owner", "member", "viewer", "none"}
WriterRoles == {"owner", "member"}

\* The rows a permission rests on.
UserRow(u) == <<"user", u>>
EntityRow(s) == <<"entity", s>>
MemberRow(s, u) == <<"member", s, u>>
Row == {UserRow(u) : u \in User} \union {EntityRow(s) : s \in Place}
         \union {MemberRow(s, u) : s \in Scope, u \in User}

Change ==
    [what : {"user"}, user : User, role : {"admin", "member", "same"},
     disabled : {"yes", "no", "same"}]
      \union [what : {"member"}, scope : Scope, user : User, role : Role]
      \union [what : {"archive"}, scope : Scope]
NoChange == [what |-> "nothing"]

Idle == [pc |-> "idle", kind |-> "direct", user |-> "nobody", at |-> "nowhere",
         todo |-> {}, granted |-> {}, shares |-> {}]

\* The types; no lock outlives its transaction, and none is held for a membership that
\* is not there.
TypeOK ==
    /\ enabled \in [User -> BOOLEAN]
    /\ admin \in [User -> BOOLEAN]
    /\ archived \in [Scope -> BOOLEAN]
    /\ role \in [Scope -> [User -> Role]]
    /\ writer \in [Writer ->
                    [pc : {"idle", "ready", "membership", "granted", "committed", "refused"},
                     kind : Kind, user : User \union {"nobody"}, at : Place \union {"nowhere"},
                     todo : SUBSET Place, granted : SUBSET Place, shares : SUBSET Row]]
    /\ \A w \in Writer :
          /\ writer[w].pc \in {"ready", "membership", "granted"} => writer[w].user \in User
          /\ writer[w].pc \in {"idle", "ready", "committed", "refused"} => writer[w].shares = {}
          /\ \A s \in Scope, u \in User :
                role[s][u] = "none" => MemberRow(s, u) \notin writer[w].shares
    /\ asked \in [Asker -> Change \union {NoChange}]
    /\ requests \in 0..MaxRequests

\* A running instance has an administrator, and whoever creates a scope owns it.
Init ==
    /\ enabled = [u \in User |-> TRUE]
    /\ admin \in {a \in [User -> BOOLEAN] : \E u \in User : a[u]}
    /\ archived = [s \in Scope |-> FALSE]
    /\ role \in {r \in [Scope -> [User -> Role]] :
                   \A s \in Scope : \E u \in User : r[s][u] = "owner"}
    /\ writer = [w \in Writer |-> Idle]
    /\ asked = [a \in Asker |-> NoChange]
    /\ requests = 0

(***************************************************************************)
(* Permissions as the database has them now                                *)
(***************************************************************************)
Open(s) == s \in Scope => ~archived[s]
MayWrite(u, s) == s = u \/ (s \in Scope /\ ~archived[s] /\ role[s][u] \in WriterRoles)
WritableBy(u) == {s \in Place : MayWrite(u, s)}

(***************************************************************************)
(* Writers                                                                 *)
(***************************************************************************)
Set(w, r) == writer' = [writer EXCEPT ![w] = r]

\* Mutant of Over: the transaction is left open.
OverHolding(w, pc) ==
    Set(w, [writer[w] EXCEPT !.pc = pc, !.at = "nowhere", !.todo = {}, !.granted = {}])

Over(w, pc) ==
    Set(w, [writer[w] EXCEPT !.pc = pc, !.at = "nowhere", !.todo = {}, !.granted = {},
                             !.shares = {}])

Start(w, k, u, pc, at, todo, granted) ==
    /\ writer[w] = Idle
    /\ Set(w, [pc |-> pc, kind |-> k, user |-> u, at |-> at, todo |-> todo,
                granted |-> granted, shares |-> {}])
    /\ UNCHANGED <<people, places, asked, requests>>

\* An event, a close, a dream: one scope, which was the user's when the session
\* was opened or the job queued, and need not be by now.
StartSession(w, u, s) ==
    /\ enabled[u]
    /\ Start(w, "session", u, "ready", s, {}, {})

\* An extraction authorises itself before it spends a call, and remembers where it
\* may write; the places its operations name are routed by what it remembers.
StartExtraction(w, u, s, named) ==
    /\ enabled[u] /\ MayWrite(u, s)
    /\ named \subseteq WritableBy(u)
    /\ Start(w, "extraction", u, "ready", s, named, {})

StartConsolidation(w, u, scopes) ==
    /\ scopes # {}
    /\ Start(w, "consolidation", u, "ready", "nowhere", scopes, {})

\* A direct edit takes no lock: its principal was loaded before its transaction.
StartDirect(w, u, s) ==
    /\ enabled[u] /\ MayWrite(u, s)
    /\ Start(w, "direct", u, "granted", "nowhere", {}, {s})

\* _active_actor: an administrator needs no membership.
LockActor(w) ==
    LET r == writer[w]
        u == r.user
    IN
    /\ r.kind = "consolidation" /\ r.pc = "ready"
    /\ IF ~enabled[u] THEN Over(w, "refused")
       ELSE Set(w, [r EXCEPT !.pc = "granted", !.shares = {UserRow(u)},
                             !.granted = IF admin[u] THEN r.todo ELSE {},
                             !.todo = IF admin[u] THEN {} ELSE r.todo])
    /\ UNCHANGED <<people, places, asked, requests>>

\* The scope a transaction stands on, or the next that it names.
Following(r) == IF r.pc = "ready" THEN {r.at} ELSE IF r.pc = "granted" THEN r.todo ELSE {}

\* An operation on a scope that is refused is dropped; otherwise all is rolled back.
Refuse(w, r, s) ==
    IF r.kind = "extraction" /\ r.granted # {}
    THEN Set(w, [r EXCEPT !.pc = "granted", !.at = "nowhere", !.todo = @ \ {s}])
    ELSE Over(w, "refused")

\* Once its session's scope is granted, an extraction looks again where it may write.
Grant(r, s) ==
    [r EXCEPT !.pc = "granted", !.at = "nowhere", !.granted = @ \union {s},
              !.todo = IF r.kind = "extraction" /\ r.granted = {}
                       THEN (@ \ {s}) \intersect WritableBy(r.user) ELSE @ \ {s}]

\* Mutant of ScopeRows: the rows are read without being locked.
ScopeRowsRead(u, s) == {}

ScopeRows(u, s) == {EntityRow(s), UserRow(u)}

\* The first statement of require_scope_write: the scope and the user.
LockScope(w, s) ==
    LET r == writer[w]
        u == r.user
        locked == [r EXCEPT !.shares = @ \union ScopeRows(u, s)]
    IN
    /\ r.kind \in {"session", "extraction", "consolidation"}
    /\ ~(r.kind = "consolidation" /\ r.pc = "ready")
    /\ s \in Following(r)
    /\ IF ~Open(s) \/ ~enabled[u] THEN Refuse(w, r, s)
       ELSE IF s = u THEN Set(w, Grant(locked, s))
       ELSE Set(w, [locked EXCEPT !.pc = "membership", !.at = s])
    /\ UNCHANGED <<people, places, asked, requests>>

MemberRows(s, u) == IF s \in Scope /\ role[s][u] # "none" THEN {MemberRow(s, u)} ELSE {}

\* Its second statement: the membership.  A user is not a member of another's own scope.
LockMembership(w) ==
    LET r == writer[w]
        u == r.user
        s == r.at
        locked == [r EXCEPT !.shares = @ \union MemberRows(s, u)]
    IN
    /\ r.pc = "membership"
    /\ IF MayWrite(u, s) THEN Set(w, Grant(locked, s)) ELSE Refuse(w, locked, s)
    /\ UNCHANGED <<people, places, asked, requests>>

Commits(w) == writer[w].pc = "granted" /\ writer[w].todo = {}

\* What was granted is written, and the locks are given back.
Commit(w) ==
    /\ Commits(w)
    /\ Over(w, "committed")
    /\ UNCHANGED <<people, places, asked, requests>>

\* Any error, a process that dies, a session that idles for a minute.
Abort(w) ==
    /\ writer[w].pc \in {"membership", "granted"}
    /\ Over(w, "refused")
    /\ UNCHANGED <<people, places, asked, requests>>

(***************************************************************************)
(* Requests that change permissions                                        *)
(***************************************************************************)
OtherAdmins(u) == {v \in User \ {u} : admin[v] /\ enabled[v]}
LosesAdmin(c) == admin[c.user] /\ (c.role = "member" \/ c.disabled = "yes")

\* The last administrator cannot be demoted or disabled.
AllowedToPatch(by, c) == admin[by] /\ (LosesAdmin(c) => OtherAdmins(c.user) # {})
\* _load_entity: who does not see a scope, an administrator too, does not manage it.
Sees(by, s) == ~archived[s] /\ (role[s][by] # "none" \/ s \in Public)
AllowedToManage(by, s) == Sees(by, s) /\ (role[s][by] = "owner" \/ admin[by])
AllowedToArchive(by, s) == Sees(by, s) /\ (MayWrite(by, s) \/ admin[by])

\* What a request reads before its transaction, in several statements that are one
\* moment here: who asks, and whether they may.
Ask(a, by, c) ==
    /\ requests < MaxRequests
    /\ asked[a] = NoChange
    /\ enabled[by]
    /\ CASE c.what = "user" -> AllowedToPatch(by, c)
         [] c.what = "member" -> AllowedToManage(by, c.scope)
         [] c.what = "archive" -> AllowedToArchive(by, c.scope)
    /\ asked' = [asked EXCEPT ![a] = c]
    /\ requests' = requests + 1
    /\ UNCHANGED <<people, places, writer>>

Unshared(row) == \A w \in Writer : row \notin writer[w].shares

Answer(a) ==
    /\ asked' = [asked EXCEPT ![a] = NoChange]
    /\ UNCHANGED <<writer, requests>>

PatchUser(a) ==
    LET c == asked[a] IN
    /\ c.what = "user"
    /\ Unshared(UserRow(c.user))
    /\ enabled' = [enabled EXCEPT ![c.user] = IF c.disabled = "same" THEN @ ELSE c.disabled = "no"]
    /\ admin' = [admin EXCEPT ![c.user] = IF c.role = "same" THEN @ ELSE c.role = "admin"]
    /\ Answer(a)
    /\ UNCHANGED places

\* put_member and delete_member ("none"): one row, which nobody can hold if it is not there.
SetMember(a) ==
    LET c == asked[a] IN
    /\ c.what = "member"
    /\ Unshared(MemberRow(c.scope, c.user))
    /\ role' = [role EXCEPT ![c.scope][c.user] = c.role]
    /\ Answer(a)
    /\ UNCHANGED <<people, archived>>

ArchiveEntity(a) ==
    LET c == asked[a] IN
    /\ c.what = "archive"
    /\ Unshared(EntityRow(c.scope))
    /\ archived' = [archived EXCEPT ![c.scope] = TRUE]
    /\ Answer(a)
    /\ UNCHANGED <<people, role>>

\* The row stays locked for five seconds, or the request dies.
GiveUp(a) ==
    /\ asked[a] # NoChange
    /\ Answer(a)
    /\ UNCHANGED <<people, places>>

-----------------------------------------------------------------------------
Write(w) ==
    \/ \E u \in User, s \in Place :
          \/ StartSession(w, u, s)
          \/ StartDirect(w, u, s)
          \/ \E named \in SUBSET Place : StartExtraction(w, u, s, named)
    \/ \E u \in User, scopes \in SUBSET Place : StartConsolidation(w, u, scopes)
    \/ LockActor(w)
    \/ \E s \in Place : LockScope(w, s)
    \/ LockMembership(w)
    \/ Commit(w)
    \/ Abort(w)

Govern(a) ==
    \/ \E by \in User, c \in Change : Ask(a, by, c)
    \/ PatchUser(a)
    \/ SetMember(a)
    \/ ArchiveEntity(a)
    \/ GiveUp(a)

Next == (\E w \in Writer : Write(w)) \/ (\E a \in Asker : Govern(a))

Spec == Init /\ [][Next]_vars

-----------------------------------------------------------------------------
\* What a transaction has been granted rests on rows it shares: the user's always;
\* for a scope that is not the user's own also the scope's and the membership's, if it
\* is not an administrator's consolidation.  A direct edit has locked nothing.
Granted(r, s) ==
    \/ s = r.user
    \/ r.kind = "consolidation" /\ admin[r.user]
    \/ /\ s \in Scope /\ ~archived[s] /\ role[s][r.user] \in WriterRoles
       /\ EntityRow(s) \in r.shares /\ MemberRow(s, r.user) \in r.shares

Secured(r) ==
    /\ enabled[r.user] /\ UserRow(r.user) \in r.shares
    /\ \A s \in r.granted : Granted(r, s)
    /\ r.pc = "membership" =>
          r.at \in Place /\ (r.at \in Scope => ~archived[r.at] /\ EntityRow(r.at) \in r.shares)

\* The invariant that DelayedWritesArePermitted rests on.
AccessInv ==
    \A w \in Writer :
        /\ writer[w].pc = "ready" => writer[w].granted = {}
        /\ writer[w].pc \in {"membership", "granted"} /\ writer[w].kind # "direct"
              => Secured(writer[w])

Entitled(r, s) ==
    /\ enabled[r.user]
    /\ MayWrite(r.user, s) \/ (r.kind = "consolidation" /\ admin[r.user])

\* "Reauthorize delayed/session writes and hold permission through commit": what a
\* session or a job writes is committed while its user is enabled, its scopes are
\* open and the user's membership, or the administrator's role, is what it needs,
\* whatever was withdrawn since the request arrived or the job was queued, and
\* between the statements of the transaction (store.py:71-92, job_runner.py:130-137).
\* A direct edit is excepted: it takes no lock.
DelayedWritesArePermitted ==
    [][\A w \in Writer :
          writer[w].pc = "granted" /\ writer'[w].pc = "committed" /\ writer[w].kind # "direct"
            => \A s \in writer[w].granted : Entitled(writer[w], s)]_vars
=============================================================================
