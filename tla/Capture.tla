------------------------------- MODULE Capture -------------------------------
(***************************************************************************)
(* Capture: how a conversation gets from a transcript on a user's machine  *)
(* into the database.                                                      *)
(*                                                                         *)
(* The agent appends to a transcript.  After every response, and at the    *)
(* end of the session, it starts a hook, which reads a bounded piece of    *)
(* the transcript from a cursor, posts the turns in it as one batch, moves *)
(* the cursor, and goes on until it has reached the end.  Several hooks of *)
(* a session can be running, any of them may be killed, and a batch whose  *)
(* client has given up may still be stored.  The service keeps one message *)
(* per external id and fixes the scope of a session at its first event.    *)
(*                                                                         *)
(* A transcript is a sequence of units: "part" of a line, or the unit that *)
(* ends a line, which classifies as a "turn" or as something "other".      *)
(***************************************************************************)
EXTENDS Integers, Sequences, FiniteSets, FiniteSetsExt

CONSTANTS
    Hook,       \* hook processes of one session
    MaxDelta,   \* MAX_DELTA_BYTES, in units
    MaxEvents,  \* MAX_EVENTS
    Aliased,    \* the events' workspace is an alias of the repository's scope
    MaxSize,    \* units the agent writes
    MaxChanges, \* how often the membership is granted or withdrawn
    MaxMishaps  \* killed hooks, lost and late requests, failed look-ups, lost cursors

ASSUME CaptureAssumption ==
    /\ MaxDelta \in Nat \ {0}
    /\ MaxEvents \in Nat \ {0}
    /\ Aliased \in BOOLEAN
    /\ MaxSize \in Nat
    /\ MaxChanges \in Nat
    /\ MaxMishaps \in Nat

VARIABLES
    transcript, \* what the agent has written
    cursor,     \* the session's .offset file
    hook,       \* what each hook is doing
    late,       \* requests whose client has gone
    rows,       \* messages stored for the turn that ends at a position
    session,    \* the scope the session was created with
    member,     \* the user may write the repository's scope
    explicit,   \* .memkit.toml names the scope
    missed,     \* history: turns a closing hook had passed and its forced extraction missed
    changes, mishaps

captureVars == <<transcript, cursor, hook, late, rows, session, member, explicit,
                 missed, changes, mishaps>>

service == <<rows, session>>
world == <<member, explicit, changes>>

Unit == {"part", "turn", "other"}
Position == 1..MaxSize
Scope == {"private", "shared"}

\* scope is "private" in a request that names none; what the service will look up, of
\* rows and of permissions, is at least as new as seen and allowed.
BatchRequest == [events : SUBSET Position, scope : Scope, seen : SUBSET Position,
                 allowed : BOOLEAN]
Nothing == [events |-> {}, scope |-> "private", seen |-> {}, allowed |-> FALSE]

Idle == [pc |-> "idle", close |-> FALSE, scope |-> "private",
         previous |-> 0, offset |-> 0, request |-> Nothing]

\* The types, and what the unique index on (user, source, external id) is for:
\* no turn has two rows, whoever sent it how often.
CaptureTypeOK ==
    /\ transcript \in Seq(Unit) /\ Len(transcript) <= MaxSize
    /\ cursor \in 0..MaxSize
    /\ hook \in [Hook -> [pc : {"idle", "read", "send", "resend", "write", "close"},
                          close : BOOLEAN, scope : Scope, previous : 0..MaxSize, offset : 0..MaxSize,
                          request : BatchRequest]]
    /\ late \subseteq BatchRequest
    /\ rows \in [Position -> 0..1]
    /\ session \in Scope \union {"none"}
    /\ member \in BOOLEAN
    /\ explicit \in BOOLEAN
    /\ missed \subseteq Position
    /\ changes \in 0..MaxChanges
    /\ mishaps \in 0..MaxMishaps

CaptureInit ==
    /\ transcript = <<>>
    /\ cursor = 0
    /\ hook = [h \in Hook |-> Idle]
    /\ late = {}
    /\ rows = [p \in Position |-> 0]
    /\ session = "none"
    /\ member \in BOOLEAN
    /\ explicit \in BOOLEAN
    /\ missed = {}
    /\ changes = 0
    /\ mishaps = 0

Mishap == mishaps < MaxMishaps /\ mishaps' = mishaps + 1

Stored == {p \in Position : rows[p] > 0}

(***************************************************************************)
(* Reading a piece of the transcript                                       *)
(***************************************************************************)
EndsLine(p) == transcript[p] # "part"

\* Mutants of TooLong: the piece is used up, or the line goes past a piece, as nothing
\* that is read ever does.
TooLongForRest(s, read) == s.scanned + read = MaxDelta
TooLongPast(s, read) == read > MaxDelta

\* An incomplete line that no piece can hold; a shorter one waits for the next event.
TooLong(s, read) == read = MaxDelta

\* One turn of the loop of events_from_delta: a line, or as much of it as is left
\* of the piece.
Readline(s) ==
    LET here == s.offset + s.scanned
        limit == {here + MaxDelta - s.scanned, Len(transcript)}
        end == Min({p \in here + 1 .. Len(transcript) : EndsLine(p)} \union limit)
        read == [s EXCEPT !.scanned = @ + end - here]
        whole == EndsLine(end)
    IN  IF end = here THEN [s EXCEPT !.stop = TRUE]
        ELSE IF s.discarding THEN [read EXCEPT !.consumed = end, !.discarding = ~whole]
        ELSE IF whole
        THEN [read EXCEPT !.consumed = end,
                          !.events = @ \union {p \in {end} : transcript[p] = "turn"}]
        ELSE [read EXCEPT !.stop = TRUE,
                          !.consumed = IF TooLong(s, end - here) THEN end ELSE s.consumed]

\* A cursor inside a line: the rest of it is discarded.
Opened ==
    LET offset == IF cursor > Len(transcript) THEN 0 ELSE cursor
    IN  [offset |-> offset, consumed |-> offset, scanned |-> 0, events |-> {},
         discarding |-> offset > 0 /\ ~EndsLine(offset), stop |-> FALSE]

Again(s) == ~s.stop /\ s.scanned < MaxDelta /\ Cardinality(s.events) < MaxEvents

\* Every turn of the loop but the last takes at least a unit.
Turns[i \in 0..MaxDelta] ==
    IF i = 0 THEN Opened
    ELSE IF Again(Turns[i - 1]) THEN Readline(Turns[i - 1]) ELSE Turns[i - 1]

\* events_from_delta.
Delta == Turns[MaxDelta]

(***************************************************************************)
(* The service                                                             *)
(***************************************************************************)

\* The scope of the session a request is for.  One that nobody has stored anything
\* for is created in the scope the event names, or else in the one its workspace is
\* an alias of, if the user may write it, or else in the user's own; it is never moved.
Home(r, allowed) ==
    IF session # "none" THEN session
    ELSE IF r.scope = "shared" \/ (Aliased /\ allowed) THEN "shared" ELSE "private"

\* The answers to a batch of a user who was allowed to write the repository's scope, or
\* not, when the request was authenticated; that is checked again under a lock of the
\* membership.  Every event is looked up by its external id and inserted if it is new;
\* one that another transaction has inserted since it was looked up violates the unique
\* index, and everything is rolled back: an internal error.  A service in maintenance,
\* or that takes no such message, refuses.
Answers(r, allowed) ==
    LET forbidden == \/ r.scope = "shared" /\ ~allowed
                     \/ Home(r, allowed) = "shared" /\ ~member
        mismatch == r.scope = "shared" /\ Home(r, allowed) = "private"
        raced == \E p \in r.events \ r.seen : p \in Stored
    IN  {"refused"} \union
        IF forbidden THEN {"forbidden"}
        ELSE IF mismatch THEN {"mismatch"}
        ELSE IF raced THEN {"stored", "error"} ELSE {"stored"}

\* Mutant of Insert: no unique index, only the look-up.
InsertUnindexed(r, allowed) ==
    /\ rows' = [p \in Position |->
                      IF p \in r.events \ r.seen THEN rows[p] + 1 ELSE rows[p]]
    /\ session' = Home(r, allowed)

Insert(r, allowed) ==
    /\ rows' = [p \in Position |-> IF p \in r.events THEN 1 ELSE rows[p]]
    /\ session' = Home(r, allowed)

\* The transaction ends with one of its answers.  A membership may have changed between
\* the sending of the request and its authentication.
Answer(r, answer) ==
    \E allowed \in {r.allowed, member} :
        /\ answer \in Answers(r, allowed)
        /\ IF answer = "stored" THEN Insert(r, allowed) ELSE UNCHANGED service

(***************************************************************************)
(* A hook                                                                  *)
(***************************************************************************)
Fails(h) == hook' = [hook EXCEPT ![h] = Idle]

\* What is stored when the batch is sent is the least its look-ups find.
Batch(events, scope) ==
    [events |-> events, scope |-> scope, seen |-> events \intersect Stored, allowed |-> member]

\* capture.  The scope is the configured one, or is found by name in a list of
\* entities that is fetched, or up to ten minutes old; without the list it is private.
Start(h, close, scope) ==
    /\ hook[h].pc = "idle"
    /\ IF scope = "shared"
       THEN /\ explicit \/ member \/ changes > 0
            /\ UNCHANGED mishaps
       ELSE /\ ~explicit
            /\ IF member THEN Mishap ELSE UNCHANGED mishaps
    /\ hook' = [hook EXCEPT ![h] = [Idle EXCEPT !.pc = "read", !.close = close, !.scope = scope]]
    /\ UNCHANGED <<transcript, cursor, late, service, missed, world>>

\* A piece without a turn is not sent.
Read(h) ==
    /\ hook[h].pc = "read"
    /\ hook' = [hook EXCEPT ![h] =
         [@ EXCEPT !.pc = IF Delta.events = {} THEN "write" ELSE "send",
                   !.previous = cursor,
                   !.offset = Delta.consumed,
                   !.request = IF Delta.events = {} THEN Nothing
                               ELSE Batch(Delta.events, hook[h].scope)]]
    /\ UNCHANGED <<transcript, cursor, late, service, missed, world, mishaps>>

\* The hook's ten seconds are over.
Deadline(h) ==
    /\ hook[h].pc = "read"
    /\ Fails(h)
    /\ UNCHANGED <<transcript, cursor, late, service, missed, world, mishaps>>

\* Mutant of Fallback: whoever chose the scope.
FallbackAlways(h) == hook[h].pc = "send"

\* A refused batch is sent once more without a scope, unless the scope is configured.
Fallback(h) == hook[h].pc = "send" /\ ~explicit

\* The answer reaches the hook.
Post(h, answer) ==
    /\ hook[h].pc \in {"send", "resend"}
    /\ Answer(hook[h].request, answer)
    /\ IF answer = "stored"
       THEN hook' = [hook EXCEPT ![h] = [@ EXCEPT !.pc = "write", !.request = Nothing]]
       ELSE IF answer = "forbidden" /\ Fallback(h)
       THEN hook' = [hook EXCEPT ![h] =
                [@ EXCEPT !.pc = "resend", !.request = Batch(hook[h].request.events, "private")]]
       ELSE Fails(h)
    /\ UNCHANGED <<transcript, cursor, late, missed, world, mishaps>>

\* Mutant of AfterWrite: a hook that is to close has one piece's time.
AfterWriteHastily(h) ==
    IF hook[h].close THEN "close"
    ELSE IF hook[h].offset \in {Len(transcript), hook[h].previous} THEN "idle" ELSE "read"

\* At the end the hook closes or is done; without progress it fails.
AfterWrite(h) ==
    IF hook[h].offset >= Len(transcript)
    THEN IF hook[h].close THEN "close" ELSE "idle"
    ELSE IF hook[h].offset = hook[h].previous THEN "idle" ELSE "read"

\* _write_cursor: the file is replaced, whatever another hook has written to it.
\* A hook that goes on to close has seen the transcript to its end.
MoveCursor(h) ==
    /\ hook[h].pc = "write"
    /\ cursor' = hook[h].offset
    /\ hook' = [hook EXCEPT ![h] =
         IF AfterWrite(h) = "idle" THEN Idle
         ELSE IF AfterWrite(h) = "close"
         THEN [@ EXCEPT !.pc = "close", !.previous = 0, !.offset = Len(transcript)]
         ELSE [@ EXCEPT !.pc = "read", !.previous = 0, !.offset = 0]]
    /\ UNCHANGED <<transcript, late, service, missed, world, mishaps>>

\* Turns that end before an offset, the ones too long for any piece left aside.
TurnsBefore(offset) ==
    {p \in 1..Len(transcript) :
        /\ p <= offset
        /\ transcript[p] = "turn"
        /\ \E q \in 1..p : /\ p - q < MaxDelta
                           /\ q = 1 \/ EndsLine(q - 1)
                           /\ \A i \in q..(p - 1) : ~EndsLine(i)}

\* close_session: 404 for a session nobody has stored anything for, which the
\* hook accepts; otherwise a forced extraction for what is stored.
Close(h) ==
    /\ hook[h].pc = "close"
    /\ Fails(h)
    /\ IF session = "shared" /\ ~member
       THEN UNCHANGED missed
       ELSE missed' = missed \union (TurnsBefore(hook[h].offset) \ Stored)
    /\ UNCHANGED <<transcript, cursor, late, service, world, mishaps>>

\* A hook is killed, or gives up on a request, which may be on its way.
Dies(h) ==
    /\ hook[h].pc # "idle"
    /\ Mishap
    /\ Fails(h)
    /\ late' \in {late, late \union {r \in {hook[h].request} : r.events # {}}}
    /\ UNCHANGED <<transcript, cursor, service, missed, world>>

LateAnswer(r, answer) ==
    /\ Answer(r, answer)
    /\ late' = late \ {r}
    /\ UNCHANGED <<transcript, cursor, hook, missed, world, mishaps>>

(***************************************************************************)
(* The agent, the file system and the other members                        *)
(***************************************************************************)
Write(unit) ==
    /\ Len(transcript) < MaxSize
    /\ transcript' = Append(transcript, unit)
    /\ UNCHANGED <<cursor, hook, late, service, missed, world, mishaps>>

\* A cursor that cannot be read counts as none.
LoseCursor ==
    /\ cursor # 0
    /\ Mishap
    /\ cursor' = 0
    /\ UNCHANGED <<transcript, hook, late, service, missed, world>>

ChangeMembership ==
    /\ changes < MaxChanges
    /\ changes' = changes + 1
    /\ member' = ~member
    /\ UNCHANGED <<transcript, cursor, hook, late, service, missed, explicit, mishaps>>

-----------------------------------------------------------------------------
Reply == {"stored", "forbidden", "mismatch", "error", "refused"}

HookStep(h) ==
    \/ \E close \in BOOLEAN, scope \in Scope : Start(h, close, scope)
    \/ Read(h) \/ Deadline(h) \/ MoveCursor(h) \/ Close(h) \/ Dies(h)
    \/ \E answer \in Reply : Post(h, answer)

CaptureNext ==
    \/ \E h \in Hook : HookStep(h)
    \/ \E r \in late, answer \in Reply : LateAnswer(r, answer)
    \/ \E unit \in Unit : Write(unit)
    \/ LoseCursor
    \/ ChangeMembership

CaptureSpec == CaptureInit /\ [][CaptureNext]_captureVars

-----------------------------------------------------------------------------
(***************************************************************************)
(* Properties                                                              *)
(***************************************************************************)

\* The cursor is only moved over what was stored: every turn that ends before
\* it is a message, whichever hook wrote the cursor last, whatever was being
\* appended meanwhile, and wherever inside a giant line it had stopped.
NothingSkipped ==
    TurnsBefore(cursor) \subseteq Stored

\* A session is closed only after the whole transcript was delivered: when the
\* closing hook succeeds, every turn it has passed is stored and has a forced
\* extraction behind it (memkit_hooks.py:458-460, 497-506).
ClosedIsComplete ==
    missed = {}

\* A refused explicit destination does not silently store the conversation
\* somewhere else (memkit_hooks.py:257-259): a repository that names its scope
\* never has a private session.
ExplicitStaysPut ==
    explicit => session # "private"

\* A piece ends where it began only at the beginning of a line that is not written to
\* its end and that a piece can hold: such a tail is what keeps a session open
\* (memkit_hooks.py:455-460), never a line too long to be read.
OnlyTailsWait ==
    Delta.consumed = cursor /\ cursor < Len(transcript) =>
        /\ cursor = 0 \/ EndsLine(cursor)
        /\ \A p \in cursor + 1 .. Len(transcript) : ~EndsLine(p)
        /\ Len(transcript) - cursor < MaxDelta

-----------------------------------------------------------------------------
(***************************************************************************)
(* Why they hold                                                           *)
(***************************************************************************)

\* A position inside a line is one at which a piece ended without the line's end:
\* the line is too long for any piece already.
AtCut(position) ==
    \A q \in 1..position :
        /\ q = 1 \/ EndsLine(q - 1)
        /\ \A i \in q..position : ~EndsLine(i)
        => position - q >= MaxDelta - 1

Reached(position) == position <= Len(transcript) /\ AtCut(position)

\* Between its look at the transcript and its write of the cursor, what a hook has
\* not stored is in its request.
Delivered(h) ==
    /\ Reached(hook[h].offset)
    /\ hook[h].pc \notin {"send", "resend"} => hook[h].request = Nothing
    /\ hook[h].pc \in {"send", "resend", "write", "close"} =>
          TurnsBefore(hook[h].offset) \subseteq Stored \union hook[h].request.events

Delivery ==
    /\ Reached(cursor)
    /\ NothingSkipped
    /\ \A h \in Hook : Delivered(h)

\* A configured scope is the scope of everything that is on its way.
Destination ==
    explicit =>
        /\ session # "private"
        /\ \A r \in late : r.scope = "shared"
        /\ \A h \in Hook :
              /\ hook[h].pc # "idle" => hook[h].scope = "shared"
              /\ hook[h].pc \in {"send", "resend"} => hook[h].request.scope = "shared"
=============================================================================
