------------------------------ MODULE Sessions ------------------------------
(***************************************************************************)
(* SessionsService (sessions_grpc.go, sessions_postgres.go): player        *)
(* sessions that are started, read (which touches and expires them) and    *)
(* ended.  A process holds s.mu for a whole call; the store, a map or the  *)
(* player_sessions table, is read by one statement and written by another, *)
(* and processes that share a database interleave between the two.         *)
(*                                                                         *)
(* Session ids are random and never drawn twice.                           *)
(***************************************************************************)
EXTENDS Integers, FiniteSets

CONSTANTS
    Players, Operator,
    SessionIds,
    Timeouts,           \* requested timeouts; 0 and less ask for the default
    DefaultTimeout,     \* SetDefaultTimeout
    MaxTimeout,         \* 24 hours
    MaxServers,         \* bound: processes on one database
    MaxTime,            \* bound: the clock
    None

ConstantsAssumption ==
    /\ Timeouts \subseteq Int
    /\ DefaultTimeout \in Nat \ {0} /\ MaxTimeout \in Nat \ {0}
    /\ MaxServers \in Nat \ {0} /\ MaxTime \in Nat

VARIABLES
    servers,        \* how many processes serve the store, chosen once
    sessions,       \* the map, or the rows of player_sessions
    drawn,          \* session ids handed out by randomToken
    audited,        \* success events: <<session, the state it was left in>>
    call,           \* by process: the call that holds s.mu
    now

vars == <<servers, sessions, drawn, audited, call, now>>

Processes == 1..MaxServers

Times   == 0..MaxTime
States  == {"ACTIVE", "ENDED", "EXPIRED"}
Session == [player : Players, state : States, started : Times, lastSeen : Times,
            expires : Nat, ended : Times \cup {None}]
Idle    == [pc |-> "idle"]

\* timeoutForRequest
timeoutForRequest(requested) ==
    LET timeout == IF requested > 0 THEN requested ELSE DefaultTimeout IN
    IF timeout > MaxTimeout THEN MaxTimeout ELSE timeout

\* authorizeStart, authorizeAccess
authorized(actor, player) == actor \in {player, Operator}

\* The call answers; its code is noted where it is made.
Return(p) == call' = [call EXCEPT ![p] = Idle]

\* The call goes on: pc "persist" if the session changed, else "audit".
Continue(p, pc, id, session) ==
    call' = [call EXCEPT ![p] = [pc |-> pc, id |-> id, session |-> session]]

-----------------------------------------------------------------------------

\* StartSession up to persistSession
StartSession(p, actor, player, requested) ==
    /\ call[p] = Idle
    /\ \/ /\ ~authorized(actor, player)
          /\ Return(p)      \* DENIED
          /\ UNCHANGED drawn
       \/ /\ authorized(actor, player)
          /\ \E id \in SessionIds \ drawn :
                /\ drawn' = drawn \cup {id}
                /\ Continue(p, "persist", id,
                       [player |-> player, state |-> "ACTIVE", started |-> now, lastSeen |-> now,
                        expires |-> now + timeoutForRequest(requested), ended |-> None])
    /\ UNCHANGED <<servers, sessions, audited, now>>

\* loadSession, then authorizeAccess: the refusals GetSession and EndSession share
Unavailable(p, actor, id) ==
    \/ Return(p)      \* ERROR
    \/ sessions[id] = None /\ Return(p)      \* INVALID
    \/ /\ sessions[id] # None /\ ~authorized(actor, sessions[id].player)
       /\ Return(p)      \* DENIED

\* An active session becomes ENDED, past its deadline or not; any other is left alone.
EndSession(p, actor, id) ==
    LET s == sessions[id] IN
    /\ call[p] = Idle
    /\ \/ Unavailable(p, actor, id)
       \/ /\ s # None /\ authorized(actor, s.player) /\ s.state = "ACTIVE"
          /\ Continue(p, "persist", id, [s EXCEPT !.state = "ENDED", !.ended = now])
       \/ /\ s # None /\ authorized(actor, s.player) /\ s.state # "ACTIVE"
          /\ Continue(p, "audit", id, s)
    /\ UNCHANGED <<servers, sessions, drawn, audited, now>>

\* Faulty variant: the session expires at its deadline, not after it.
touchAndExpireEarly(s) ==
    IF s.state # "ACTIVE" THEN s
    ELSE IF now >= s.expires THEN [s EXCEPT !.state = "EXPIRED", !.ended = now]
    ELSE [s EXCEPT !.lastSeen = now]

\* touchAndExpireSessionIfNeeded
touchAndExpire(s) ==
    IF s.state # "ACTIVE" THEN s
    ELSE IF now > s.expires THEN [s EXCEPT !.state = "EXPIRED", !.ended = now]
    ELSE [s EXCEPT !.lastSeen = now]

GetSession(p, actor, id) ==
    LET s == sessions[id] IN
    /\ call[p] = Idle
    /\ \/ Unavailable(p, actor, id)
       \/ /\ s # None /\ authorized(actor, s.player)
          /\ Continue(p, IF touchAndExpire(s) = s THEN "audit" ELSE "persist", id, touchAndExpire(s))
    /\ UNCHANGED <<servers, sessions, drawn, audited, now>>

persistSession(p) ==
    LET c == call[p] IN
    /\ c.pc = "persist"
    /\ \/ Return(p) /\ UNCHANGED sessions      \* ERROR
       \/ /\ sessions' = [sessions EXCEPT ![c.id] = c.session]
          /\ call' = [call EXCEPT ![p] = [@ EXCEPT !.pc = "audit"]]
    /\ UNCHANGED <<servers, drawn, audited, now>>

appendAudit(p) ==
    LET c == call[p] IN
    /\ c.pc = "audit"
    /\ \/ Return(p) /\ UNCHANGED audited      \* ERROR
       \/ /\ audited' = audited \cup {<<c.id, c.session.state>>}
          /\ Return(p)      \* OK
    /\ UNCHANGED <<servers, sessions, drawn, now>>

\* The process dies and another takes its place.
Restart(p) ==
    /\ call[p] # Idle
    /\ call' = [call EXCEPT ![p] = Idle]
    /\ UNCHANGED <<servers, sessions, drawn, audited, now>>

Tick ==
    /\ now < MaxTime
    /\ now' = now + 1
    /\ UNCHANGED <<servers, sessions, drawn, audited, call>>

Init ==
    /\ servers \in Processes
    /\ sessions = [id \in SessionIds |-> None]
    /\ drawn = {}
    /\ audited = {}
    /\ call = [p \in Processes |-> Idle]
    /\ now = 0

Next ==
    \/ \E p \in 1..servers, actor \in Players \cup {Operator} :
          \/ \E player \in Players, t \in Timeouts : StartSession(p, actor, player, t)
          \/ \E id \in SessionIds : EndSession(p, actor, id) \/ GetSession(p, actor, id)
    \/ \E p \in 1..servers : persistSession(p) \/ appendAudit(p) \/ Restart(p)
    \/ Tick

Spec == Init /\ [][Next]_vars

-----------------------------------------------------------------------------
(* Properties.                                                               *)

\* Types of the store, the call in progress and the answers.
TypeOK ==
    /\ sessions \in [SessionIds -> Session \cup {None}]
    /\ drawn \subseteq SessionIds
    /\ audited \subseteq SessionIds \X States
    /\ \A p \in Processes :
          /\ call[p].pc \in {"idle", "persist", "audit"}
          /\ call[p].pc # "idle" => call[p].id \in SessionIds /\ call[p].session \in Session
    /\ servers \in Processes /\ now \in Times

\* While one process serves the store, a session that has ended or expired keeps the
\* state, the time and the last activity it ended with, crashes between any two statements
\* included: neither a touch nor a second EndSession reaches it.
FinishedStays ==
    servers = 1 => \A id \in SessionIds :
        sessions[id] # None /\ sessions[id].state # "ACTIVE" => sessions'[id] = sessions[id]

\* A timeout is real: a session is expired only after its deadline, no activity is
\* recorded after the deadline, and the deadline is at most MaxTimeout away.  This is
\* so in the store and in the answer a call is about to give: no client is told that a
\* session is active after its deadline, though nothing but GetSession ever expires one.
DeadlinesHold ==
    \A s \in {sessions[id] : id \in SessionIds} \cup
             {call[p].session : p \in {q \in Processes : call[q] # Idle}} :
        s # None =>
            /\ s.state = "EXPIRED" => s.ended > s.expires
            /\ s.started <= s.lastSeen /\ s.lastSeen <= s.expires
            /\ s.started < s.expires /\ s.expires <= s.started + MaxTimeout

\* While one process serves the store, the end of a session that the audit trail records
\* is the one the store holds: a session is not reported expired in one event and ended in
\* another.
AuditedEndsHold ==
    servers = 1 => \A e \in audited : e[2] # "ACTIVE" => sessions[e[1]].state = e[2]

=============================================================================
