--------------------------- MODULE ServicesProofs ---------------------------
(***************************************************************************)
(* Proofs about Sessions, Config and Events, as Services instantiates them *)
(* for any players, keys, equipment, deployments, capacities and bounds.   *)
(***************************************************************************)
EXTENDS Services, Sequences, TLAPS

-----------------------------------------------------------------------------
(* Sessions.                                                                 *)

SessionCall == [pc : {"persist", "audit"}, id : SessionIds, session : S!Session]

SessionTypes ==
    /\ sessions \in [SessionIds -> S!Session \cup {None}]
    /\ call \in [S!Processes -> {S!Idle} \cup SessionCall]
    /\ drawn \subseteq SessionIds /\ audited \subseteq SessionIds \X S!States
    /\ servers \in S!Processes /\ now \in S!Times

\* What DeadlinesHold says of a session, and that it did not start in the future
Timely(s) ==
    /\ s.state = "EXPIRED" => s.ended > s.expires
    /\ s.started <= s.lastSeen /\ s.lastSeen <= s.expires
    /\ s.started < s.expires /\ s.expires <= s.started + MaxTimeout

InTime(s, t) == Timely(s) /\ s.started <= t

AllInTime ==
    /\ \A id \in SessionIds : sessions[id] # None => InTime(sessions[id], now)
    /\ \A p \in S!Processes : call[p] # S!Idle => InTime(call[p].session, now)

AllDrawn == /\ \A id \in SessionIds : sessions[id] # None => id \in drawn
            /\ \A e \in audited : e[1] \in drawn
            /\ \A p \in S!Processes : call[p] # S!Idle => call[p].id \in drawn

\* One process: what its call is about has not changed since the call read it.
ReadIsFresh(c, store, trail) ==
    /\ c.pc = "persist" =>
          /\ store[c.id] = None \/ store[c.id].state = "ACTIVE"
          /\ \A e \in trail : e[1] = c.id => e[2] = "ACTIVE"
    /\ c.pc = "audit" => store[c.id] = c.session

EndsHold(store, trail) == \A e \in trail : e[2] # "ACTIVE" => store[e[1]].state = e[2]

Alone == servers = 1 => ReadIsFresh(call[1], sessions, audited) /\ EndsHold(sessions, audited)

SessionsInv == SessionTypes /\ AllInTime /\ AllDrawn /\ Alone

LEMMA IdleFacts == S!Idle.pc = "idle" /\ S!Idle \notin SessionCall
<1>1. S!Idle.pc = "idle"
  BY Zenon DEF S!Idle
<1> QED
  BY Zenon, <1>1 DEF SessionCall

LEMMA CallKind ==
    ASSUME SessionTypes, NEW p \in S!Processes
    PROVE  /\ call[p] = S!Idle \/ call[p] \in SessionCall
           /\ call[p].pc \in {"persist", "audit"} => call[p] \in SessionCall /\ call[p] # S!Idle
<1>1. call[p] = S!Idle \/ call[p] \in SessionCall
  BY Zenon DEF SessionTypes
<1> QED
  BY Zenon, <1>1, IdleFacts

LEMMA Serving ==
    ASSUME SessionTypes, S!ConstantsAssumption, NEW p \in 1..servers
    PROVE  p \in S!Processes /\ (servers = 1 => p = 1) /\ 1 \in S!Processes
<1>1. servers \in 1..MaxServers /\ MaxServers \in Nat
  BY Zenon DEF SessionTypes, S!Processes, S!ConstantsAssumption
<1>2. p \in 1..MaxServers /\ (servers = 1 => p = 1) /\ 1 \in 1..MaxServers
  BY <1>1
<1> QED
  BY Zenon, <1>2 DEF S!Processes

\* A step that only gives process p a call c.
LEMMA CallMoves ==
    ASSUME SessionsInv, S!ConstantsAssumption, NEW p \in 1..servers, NEW c,
           call' = [call EXCEPT ![p] = c], UNCHANGED <<servers, sessions, audited, now>>,
           c = S!Idle \/ (c \in SessionCall /\ InTime(c.session, now) /\ c.id \in drawn'),
           servers = 1 => ReadIsFresh(c, sessions, audited),
           drawn \subseteq drawn', drawn' \subseteq SessionIds
    PROVE  SessionsInv'
<1> p \in S!Processes /\ (servers = 1 => p = 1) /\ 1 \in S!Processes
  BY Zenon, Serving DEF SessionsInv
<1>1. SessionTypes /\ AllInTime /\ AllDrawn /\ Alone
  BY Zenon DEF SessionsInv
<1>2. /\ call' \in [S!Processes -> {S!Idle} \cup SessionCall] /\ call'[p] = c
      /\ \A q \in S!Processes : q # p => call'[q] = call[q]
  BY Zenon, <1>1 DEF SessionTypes
<1>3. SessionTypes'
  BY Zenon, <1>1, <1>2 DEF SessionTypes
<1>4. AllInTime'
  <2>1. \A id \in SessionIds : sessions'[id] # None => InTime(sessions'[id], now')
    BY Zenon, <1>1 DEF AllInTime
  <2>2. \A q \in S!Processes : call'[q] # S!Idle => InTime(call'[q].session, now')
    BY Zenon, <1>1, <1>2 DEF AllInTime
  <2> QED
    BY Zenon, <2>1, <2>2 DEF AllInTime, InTime, Timely, S!Idle, S!Processes
<1>5. AllDrawn'
  BY Zenon, <1>1, <1>2 DEF AllDrawn
<1>6. Alone'
  BY Zenon, <1>1, <1>2 DEF Alone
<1> QED
  BY Zenon, <1>3, <1>4, <1>5, <1>6 DEF SessionsInv

LEMMA TimeoutBounds ==
    ASSUME S!ConstantsAssumption, NEW requested \in Timeouts
    PROVE  S!timeoutForRequest(requested) \in 1..MaxTimeout
<1>1. requested \in Int /\ DefaultTimeout \in Nat \ {0} /\ MaxTimeout \in Nat \ {0}
  BY Zenon DEF S!ConstantsAssumption
<1>2. (IF requested > 0 THEN requested ELSE DefaultTimeout) \in Nat \ {0}
  BY <1>1
<1>3. ASSUME NEW n \in Nat \ {0}
      PROVE  (IF n > MaxTimeout THEN MaxTimeout ELSE n) \in 1..MaxTimeout
  BY <1>1
<1> QED
  BY Zenon, <1>2, <1>3 DEF S!timeoutForRequest

LEMMA StartKeeps ==
    ASSUME SessionsInv, S!ConstantsAssumption, NEW p \in 1..servers, NEW actor,
           NEW player \in Players, NEW requested \in Timeouts,
           S!StartSession(p, actor, player, requested)
    PROVE  SessionsInv' /\ sessions' = sessions
<1>1. UNCHANGED <<servers, sessions, audited, now>>
  BY Zenon DEF S!StartSession
<1>2. CASE S!Return(p) /\ UNCHANGED drawn
  <2>1. call' = [call EXCEPT ![p] = S!Idle] /\ drawn' = drawn
    BY Zenon, <1>2 DEF S!Return
  <2>2. ReadIsFresh(S!Idle, sessions, audited)
    BY Zenon, IdleFacts DEF ReadIsFresh
  <2>3. drawn \subseteq drawn' /\ drawn' \subseteq SessionIds
    BY Zenon, <2>1 DEF SessionsInv, SessionTypes
  <2> QED
    BY Zenon, <1>1, <2>1, <2>2, <2>3, CallMoves
<1>3. ASSUME NEW id \in SessionIds \ drawn, drawn' = drawn \cup {id},
             S!Continue(p, "persist", id,
                 [player |-> player, state |-> "ACTIVE", started |-> now, lastSeen |-> now,
                  expires |-> now + S!timeoutForRequest(requested), ended |-> None])
      PROVE  SessionsInv'
  <2> DEFINE until == now + S!timeoutForRequest(requested)
  <2> DEFINE s == [player |-> player, state |-> "ACTIVE", started |-> now, lastSeen |-> now,
                   expires |-> until, ended |-> None]
  <2> DEFINE c == [pc |-> "persist", id |-> id, session |-> s]
  <2>1. call' = [call EXCEPT ![p] = c]
    BY Zenon, <1>3 DEF S!Continue
  <2>2. now \in 0..MaxTime /\ MaxTime \in Nat /\ MaxTimeout \in Nat
    BY Zenon DEF SessionsInv, SessionTypes, S!Times, S!ConstantsAssumption
  <2>3. /\ until \in Nat /\ now <= now /\ now <= until /\ now < until /\ until <= now + MaxTimeout
    <3> DEFINE n == S!timeoutForRequest(requested)
    <3>1. n \in 1..MaxTimeout
      BY Zenon, TimeoutBounds
    <3> HIDE DEF n
    <3>2. now + n \in Nat /\ now <= now /\ now <= now + n /\ now < now + n /\ now + n <= now + MaxTimeout
      BY <2>2, <3>1
    <3> QED
      BY Zenon, <3>2 DEF n
  <2> HIDE DEF until
  <2>4. s \in S!Session /\ s.state = "ACTIVE" /\ s.started = now /\ s.lastSeen = now /\ s.expires = until
    BY Zenon, <2>2, <2>3 DEF S!Session, S!States, S!Times
  <2>5. InTime(s, now)
    BY Zenon, <2>3, <2>4 DEF InTime, Timely
  <2> HIDE DEF s
  <2>6. c \in SessionCall /\ c.session = s /\ c.id = id /\ c.pc = "persist"
    BY Zenon, <2>4 DEF SessionCall
  <2> HIDE DEF c
  <2>7. ReadIsFresh(c, sessions, audited)
    <3>1. sessions[id] = None /\ \A e \in audited : e[1] # id
      BY Zenon DEF SessionsInv, AllDrawn
    <3> QED
      BY Zenon, <2>6, <3>1 DEF ReadIsFresh
  <2>8. drawn \subseteq drawn' /\ drawn' \subseteq SessionIds /\ id \in drawn'
    BY Zenon, <1>3 DEF SessionsInv, SessionTypes
  <2> QED
    BY Zenon, <1>1, <2>1, <2>5, <2>6, <2>7, <2>8, CallMoves
<1> QED
  BY Zenon, <1>1, <1>2, <1>3 DEF S!StartSession

\* A refusal, an error or the end of the process
LEMMA ReturnKeeps ==
    ASSUME SessionsInv, S!ConstantsAssumption, NEW p \in 1..servers,
           call' = [call EXCEPT ![p] = S!Idle], UNCHANGED <<servers, sessions, drawn, audited, now>>
    PROVE  SessionsInv'
<1>1. ReadIsFresh(S!Idle, sessions, audited)
  BY Zenon, IdleFacts DEF ReadIsFresh
<1>2. drawn \subseteq drawn' /\ drawn' \subseteq SessionIds
  BY Zenon DEF SessionsInv, SessionTypes
<1> QED
  BY Zenon, <1>1, <1>2, CallMoves

\* A call that has read session s of id, and goes on with what it makes of it.
LEMMA GoesOn ==
    ASSUME SessionsInv, S!ConstantsAssumption, NEW p \in 1..servers, NEW id \in SessionIds,
           NEW s \in S!Session, NEW step \in {"persist", "audit"},
           S!Continue(p, step, id, s), UNCHANGED <<servers, sessions, drawn, audited, now>>,
           sessions[id] # None, InTime(s, now),
           step = "persist" => sessions[id].state = "ACTIVE",
           step = "audit" => s = sessions[id]
    PROVE  SessionsInv'
<1> DEFINE c == [pc |-> step, id |-> id, session |-> s]
<1>1. call' = [call EXCEPT ![p] = c]
  BY Zenon DEF S!Continue
<1>2. c \in SessionCall /\ c.pc = step /\ c.id = id /\ c.session = s
  BY Zenon DEF SessionCall
<1> HIDE DEF c
<1>3. id \in drawn /\ drawn \subseteq drawn' /\ drawn' \subseteq SessionIds
  BY Zenon DEF SessionsInv, SessionTypes, AllDrawn
<1>4. servers = 1 => ReadIsFresh(c, sessions, audited)
  <2> SUFFICES ASSUME servers = 1 PROVE ReadIsFresh(c, sessions, audited)
    BY Zenon
  <2>1. EndsHold(sessions, audited)
    BY Zenon DEF SessionsInv, Alone
  <2>2. step = "persist" => \A e \in audited : e[1] = id => e[2] = "ACTIVE"
    BY Zenon, <2>1 DEF EndsHold
  <2> QED
    BY Zenon, <1>2, <2>2 DEF ReadIsFresh
<1>5. c.id \in drawn'
  BY Zenon, <1>2, <1>3
<1>6. UNCHANGED <<servers, sessions, audited, now>>
  BY Zenon
<1> QED
  BY Zenon, <1>1, <1>2, <1>3, <1>4, <1>5, <1>6, CallMoves

LEMMA Ended ==
    ASSUME S!ConstantsAssumption, NEW s \in S!Session, NEW t \in S!Times, InTime(s, t),
           s.state = "ACTIVE"
    PROVE  LET e == [s EXCEPT !.state = "ENDED", !.ended = t] IN e \in S!Session /\ InTime(e, t)
<1> DEFINE e == [s EXCEPT !.state = "ENDED", !.ended = t]
<1>1. /\ e \in S!Session /\ e.state = "ENDED" /\ e.started = s.started
      /\ e.lastSeen = s.lastSeen /\ e.expires = s.expires
  BY Zenon DEF S!Session, S!States
<1> HIDE DEF e
<1>2. InTime(e, t)
  BY Zenon, <1>1 DEF InTime, Timely
<1> QED
  BY Zenon, <1>1, <1>2 DEF e

LEMMA Touched ==
    ASSUME S!ConstantsAssumption, NEW s \in S!Session, InTime(s, now), now \in S!Times
    PROVE  /\ S!touchAndExpire(s) \in S!Session /\ InTime(S!touchAndExpire(s), now)
           /\ s.state # "ACTIVE" => S!touchAndExpire(s) = s
<1>1. CASE s.state # "ACTIVE"
  BY Zenon, <1>1 DEF S!touchAndExpire
<1>2. CASE s.state = "ACTIVE" /\ now > s.expires
  <2> DEFINE e == [s EXCEPT !.state = "EXPIRED", !.ended = now]
  <2>1. /\ e \in S!Session /\ e.state = "EXPIRED" /\ e.started = s.started /\ e.ended = now
        /\ e.lastSeen = s.lastSeen /\ e.expires = s.expires
    BY Zenon DEF S!Session, S!States
  <2>2. S!touchAndExpire(s) = e
    BY Zenon, <1>2 DEF S!touchAndExpire
  <2> HIDE DEF e
  <2>3. InTime(e, now)
    BY Zenon, <1>2, <2>1 DEF InTime, Timely
  <2> QED
    BY Zenon, <1>2, <2>1, <2>2, <2>3
<1>3. CASE s.state = "ACTIVE" /\ ~(now > s.expires)
  <2> DEFINE e == [s EXCEPT !.lastSeen = now]
  <2>1. /\ e \in S!Session /\ e.state = "ACTIVE" /\ e.started = s.started
        /\ e.lastSeen = now /\ e.expires = s.expires
    BY Zenon, <1>3 DEF S!Session, S!States
  <2>2. S!touchAndExpire(s) = e
    BY Zenon, <1>3 DEF S!touchAndExpire
  <2> HIDE DEF e
  <2>3. now <= s.expires
    <3>1. now \in 0..MaxTime /\ MaxTime \in Nat /\ s.expires \in Nat
      BY Zenon DEF S!Times, S!Session, S!ConstantsAssumption
    <3> QED
      BY <1>3, <3>1
  <2>4. InTime(e, now)
    BY Zenon, <1>3, <2>1, <2>3 DEF InTime, Timely
  <2> QED
    BY Zenon, <1>3, <2>1, <2>2, <2>4
<1> QED
  BY Zenon, <1>1, <1>2, <1>3

LEMMA EndKeeps ==
    ASSUME SessionsInv, S!ConstantsAssumption, NEW p \in 1..servers, NEW actor,
           NEW id \in SessionIds, S!EndSession(p, actor, id)
    PROVE  SessionsInv' /\ sessions' = sessions
<1> DEFINE s == sessions[id]
<1>1. UNCHANGED <<servers, sessions, drawn, audited, now>>
  BY Zenon DEF S!EndSession
<1>2. CASE S!Unavailable(p, actor, id)
  <2>1. call' = [call EXCEPT ![p] = S!Idle]
    BY Zenon, <1>2 DEF S!Unavailable, S!Return
  <2> QED
    BY Zenon, <1>1, <2>1, ReturnKeeps
<1>3. s # None => s \in S!Session /\ InTime(s, now) /\ now \in S!Times
  BY Zenon DEF SessionsInv, SessionTypes, AllInTime
<1>4. CASE s # None /\ s.state = "ACTIVE"
           /\ S!Continue(p, "persist", id, [s EXCEPT !.state = "ENDED", !.ended = now])
  <2>1. /\ [s EXCEPT !.state = "ENDED", !.ended = now] \in S!Session
        /\ InTime([s EXCEPT !.state = "ENDED", !.ended = now], now)
    BY Zenon, <1>3, <1>4, Ended
  <2> QED
    BY Zenon, <1>1, <1>4, <2>1, GoesOn
<1>5. CASE s # None /\ S!Continue(p, "audit", id, s)
  BY Zenon, <1>1, <1>3, <1>5, GoesOn
<1> QED
  BY Zenon, <1>1, <1>2, <1>4, <1>5 DEF S!EndSession

LEMMA GetKeeps ==
    ASSUME SessionsInv, S!ConstantsAssumption, NEW p \in 1..servers, NEW actor,
           NEW id \in SessionIds, S!GetSession(p, actor, id)
    PROVE  SessionsInv' /\ sessions' = sessions
<1> DEFINE s == sessions[id]
<1> DEFINE t == S!touchAndExpire(s)
<1>1. UNCHANGED <<servers, sessions, drawn, audited, now>>
  BY Zenon DEF S!GetSession
<1>2. CASE S!Unavailable(p, actor, id)
  <2>1. call' = [call EXCEPT ![p] = S!Idle]
    BY Zenon, <1>2 DEF S!Unavailable, S!Return
  <2> QED
    BY Zenon, <1>1, <2>1, ReturnKeeps
<1>3. CASE s # None /\ S!Continue(p, IF t = s THEN "audit" ELSE "persist", id, t)
  <2>1. s \in S!Session /\ InTime(s, now) /\ now \in S!Times
    BY Zenon, <1>3 DEF SessionsInv, SessionTypes, AllInTime
  <2>2. t \in S!Session /\ InTime(t, now) /\ (s.state # "ACTIVE" => t = s)
    BY Zenon, <2>1, Touched
  <2> HIDE DEF t
  <2>3. CASE t = s
    <3>1. S!Continue(p, "audit", id, t)
      BY Zenon, <1>3, <2>3
    <3> QED
      BY Zenon, <1>1, <1>3, <2>2, <2>3, <3>1, GoesOn
  <2>4. CASE t # s
    <3>1. S!Continue(p, "persist", id, t) /\ s.state = "ACTIVE"
      BY Zenon, <1>3, <2>2, <2>4
    <3> QED
      BY Zenon, <1>1, <1>3, <2>2, <3>1, GoesOn
  <2> QED
    BY Zenon, <2>3, <2>4
<1> QED
  BY Zenon, <1>1, <1>2, <1>3 DEF S!GetSession

\* With one process a session that is over is never written again.
LEMMA PersistKeeps ==
    ASSUME SessionsInv, S!ConstantsAssumption, NEW p \in 1..servers, S!persistSession(p)
    PROVE  SessionsInv' /\ S!FinishedStays
<1> p \in S!Processes /\ (servers = 1 => p = 1) /\ 1 \in S!Processes
  BY Zenon, Serving DEF SessionsInv
<1>1. UNCHANGED <<servers, drawn, audited, now>>
  BY Zenon DEF S!persistSession
<1>2. CASE S!Return(p) /\ UNCHANGED sessions
  <2>1. call' = [call EXCEPT ![p] = S!Idle] /\ sessions' = sessions
    BY Zenon, <1>2 DEF S!Return
  <2> QED
    BY Zenon, <1>1, <2>1, ReturnKeeps DEF S!FinishedStays
<1>3. CASE /\ sessions' = [sessions EXCEPT ![call[p].id] = call[p].session]
           /\ call' = [call EXCEPT ![p] = [@ EXCEPT !.pc = "audit"]]
  <2> DEFINE c == call[p]
  <2> DEFINE d == [c EXCEPT !.pc = "audit"]
  <2>1. SessionTypes /\ AllInTime /\ AllDrawn /\ Alone
    BY Zenon DEF SessionsInv
  <2>2. c.pc = "persist" /\ c \in SessionCall /\ c # S!Idle
    BY Zenon, <2>1, CallKind DEF S!persistSession
  <2>3. c.id \in SessionIds /\ c.session \in S!Session /\ InTime(c.session, now) /\ c.id \in drawn
    BY Zenon, <2>1, <2>2 DEF SessionCall, AllInTime, AllDrawn
  <2>4. d \in SessionCall /\ d.id = c.id /\ d.session = c.session /\ d.pc = "audit"
    BY Zenon, <2>2 DEF SessionCall
  <2>5. call' = [call EXCEPT ![p] = d]
    BY Zenon, <1>3
  <2>6. sessions' = [sessions EXCEPT ![c.id] = c.session]
    BY Zenon, <1>3
  <2> HIDE DEF c, d
  <2>7. /\ call' \in [S!Processes -> {S!Idle} \cup SessionCall] /\ call'[p] = d
        /\ \A q \in S!Processes : q # p => call'[q] = call[q]
    BY Zenon, <2>1, <2>4, <2>5 DEF SessionTypes
  <2>8. /\ sessions' \in [SessionIds -> S!Session \cup {None}] /\ sessions'[c.id] = c.session
        /\ \A id \in SessionIds : id # c.id => sessions'[id] = sessions[id]
    BY Zenon, <2>1, <2>3, <2>6 DEF SessionTypes
  <2>9. SessionTypes'
    BY Zenon, <1>1, <2>1, <2>7, <2>8 DEF SessionTypes
  <2>10. AllInTime'
    <3>1. \A id \in SessionIds : sessions'[id] # None => InTime(sessions'[id], now')
      BY Zenon, <1>1, <2>1, <2>3, <2>8 DEF AllInTime
    <3>2. \A q \in S!Processes : call'[q] # S!Idle => InTime(call'[q].session, now')
      BY Zenon, <1>1, <2>1, <2>3, <2>4, <2>7 DEF AllInTime
    <3> QED
      BY Zenon, <3>1, <3>2 DEF AllInTime, InTime, Timely, S!Idle, S!Processes
  <2>11. AllDrawn'
    BY Zenon, <1>1, <2>1, <2>3, <2>4, <2>7, <2>8 DEF AllDrawn
  <2>12. servers = 1 => ReadIsFresh(c, sessions, audited) /\ EndsHold(sessions, audited)
    BY Zenon, <2>1 DEF Alone, c
  <2>13. servers = 1 => ReadIsFresh(d, sessions', audited)
    BY Zenon, <2>4, <2>8 DEF ReadIsFresh
  <2>14. servers = 1 => EndsHold(sessions', audited)
    <3> SUFFICES ASSUME servers = 1, NEW e \in audited, e[2] # "ACTIVE"
                 PROVE  sessions'[e[1]].state = e[2]
      BY Zenon DEF EndsHold
    <3>1. e[1] # c.id /\ e[1] \in SessionIds
      BY Zenon, <2>1, <2>2, <2>12 DEF ReadIsFresh, SessionTypes
    <3> QED
      BY Zenon, <2>8, <2>12, <3>1 DEF EndsHold
  <2>15. Alone'
    BY Zenon, <1>1, <2>7, <2>13, <2>14 DEF Alone
  <2>16. S!FinishedStays
    BY Zenon, <2>2, <2>8, <2>12 DEF S!FinishedStays, ReadIsFresh
  <2> QED
    BY Zenon, <2>9, <2>10, <2>11, <2>15, <2>16 DEF SessionsInv
<1> QED
  BY Zenon, <1>2, <1>3 DEF S!persistSession

LEMMA AuditKeeps ==
    ASSUME SessionsInv, S!ConstantsAssumption, NEW p \in 1..servers, S!appendAudit(p)
    PROVE  SessionsInv' /\ sessions' = sessions
<1> p \in S!Processes /\ (servers = 1 => p = 1) /\ 1 \in S!Processes
  BY Zenon, Serving DEF SessionsInv
<1>1. UNCHANGED <<servers, sessions, drawn, now>> /\ call' = [call EXCEPT ![p] = S!Idle]
  BY Zenon DEF S!appendAudit, S!Return
<1>2. CASE audited' = audited
  BY Zenon, <1>1, <1>2, ReturnKeeps
<1>3. CASE audited' = audited \cup {<<call[p].id, call[p].session.state>>}
  <2> DEFINE c == call[p]
  <2> DEFINE n == <<c.id, c.session.state>>
  <2>1. SessionTypes /\ AllInTime /\ AllDrawn /\ Alone
    BY Zenon DEF SessionsInv
  <2>2. c.pc = "audit" /\ c \in SessionCall /\ c # S!Idle
    BY Zenon, <2>1, CallKind DEF S!appendAudit
  <2>3. c.id \in SessionIds /\ c.session \in S!Session /\ c.id \in drawn
    BY Zenon, <2>1, <2>2 DEF SessionCall, AllDrawn
  <2>4. c.session.state \in S!States
    BY Zenon, <2>3 DEF S!Session
  <2>5. n \in SessionIds \X S!States /\ n[1] = c.id /\ n[2] = c.session.state
    BY Zenon, <2>3, <2>4
  <2>6. audited' = audited \cup {n}
    BY Zenon, <1>3
  <2> HIDE DEF n
  <2>7. /\ call' \in [S!Processes -> {S!Idle} \cup SessionCall] /\ call'[p] = S!Idle
        /\ \A q \in S!Processes : q # p => call'[q] = call[q]
    BY Zenon, <1>1, <2>1 DEF SessionTypes
  <2>8. SessionTypes'
    BY Zenon, <1>1, <2>1, <2>5, <2>6, <2>7 DEF SessionTypes
  <2>9. AllInTime'
    <3>1. \A id \in SessionIds : sessions'[id] # None => InTime(sessions'[id], now')
      BY Zenon, <1>1, <2>1 DEF AllInTime
    <3>2. \A q \in S!Processes : call'[q] # S!Idle => InTime(call'[q].session, now')
      BY Zenon, <1>1, <2>1, <2>7 DEF AllInTime
    <3> QED
      BY Zenon, <3>1, <3>2 DEF AllInTime, InTime, Timely, S!Idle, S!Processes
  <2>10. AllDrawn'
    BY Zenon, <1>1, <2>1, <2>3, <2>5, <2>6, <2>7 DEF AllDrawn
  <2>11. servers = 1 => c = call[1] /\ ReadIsFresh(c, sessions, audited) /\ EndsHold(sessions, audited)
    BY Zenon, <2>1 DEF Alone
  <2> HIDE DEF c
  <2>12. servers = 1 => EndsHold(sessions, audited')
    <3> SUFFICES ASSUME servers = 1, NEW e \in audited', e[2] # "ACTIVE"
                 PROVE  sessions[e[1]].state = e[2]
      BY Zenon DEF EndsHold
    <3>1. CASE e = n
      BY Zenon, <2>2, <2>5, <2>11, <3>1 DEF ReadIsFresh
    <3>2. CASE e # n
      BY Zenon, <2>6, <2>11, <3>2 DEF EndsHold
    <3> QED
      BY Zenon, <3>1, <3>2
  <2>13. servers = 1 => ReadIsFresh(S!Idle, sessions, audited')
    BY Zenon, IdleFacts DEF ReadIsFresh
  <2>14. Alone'
    BY Zenon, <1>1, <2>7, <2>12, <2>13 DEF Alone
  <2> QED
    BY Zenon, <1>1, <2>8, <2>9, <2>10, <2>14 DEF SessionsInv
<1> QED
  BY Zenon, <1>2, <1>3 DEF S!appendAudit

LEMMA TickKeeps ==
    ASSUME SessionsInv, S!ConstantsAssumption, S!Tick
    PROVE  SessionsInv' /\ sessions' = sessions
<1>1. UNCHANGED <<servers, sessions, drawn, audited, call>> /\ now' = now + 1 /\ now < MaxTime
  BY Zenon DEF S!Tick
<1>2. SessionTypes /\ AllInTime /\ AllDrawn /\ Alone
  BY Zenon DEF SessionsInv
<1>3. now \in 0..MaxTime /\ MaxTime \in Nat
  BY Zenon, <1>2 DEF SessionTypes, S!Times, S!ConstantsAssumption
<1>4. now' \in 0..MaxTime /\ \A n \in Nat : n <= now => n <= now'
  BY <1>1, <1>3
<1>5. \A s \in S!Session : InTime(s, now) => InTime(s, now')
  <2>1. \A s \in S!Session : s.started \in Nat
    <3>1. \A n \in S!Times : n \in Nat
      BY <1>3 DEF S!Times
    <3> QED
      BY Zenon, <3>1 DEF S!Session
  <2> QED
    BY Zenon, <1>4, <2>1 DEF InTime
<1>6. SessionTypes'
  BY Zenon, <1>1, <1>2, <1>4 DEF SessionTypes, S!Times
<1>7. AllInTime'
  <2>1. \A id \in SessionIds : sessions'[id] # None => InTime(sessions'[id], now')
    BY Zenon, <1>1, <1>2, <1>5 DEF AllInTime, SessionTypes
  <2>2. \A q \in S!Processes : call'[q] # S!Idle => InTime(call'[q].session, now')
    <3> SUFFICES ASSUME NEW q \in S!Processes, call[q] # S!Idle
                 PROVE  InTime(call[q].session, now')
      BY Zenon, <1>1
    <3>1. call[q].session \in S!Session
      BY Zenon, <1>2, CallKind DEF SessionCall
    <3> QED
      BY Zenon, <1>2, <1>5, <3>1 DEF AllInTime
  <2> QED
    BY Zenon, <2>1, <2>2 DEF AllInTime, InTime, Timely, S!Idle, S!Processes
<1>8. AllDrawn' /\ Alone'
  BY Zenon, <1>1, <1>2 DEF AllDrawn, Alone
<1> QED
  BY Zenon, <1>1, <1>6, <1>7, <1>8 DEF SessionsInv

LEMMA SessionsStep ==
    ASSUME SessionsInv, S!ConstantsAssumption, S!Next
    PROVE  SessionsInv' /\ S!FinishedStays
<1>1. sessions' = sessions => S!FinishedStays
  BY Zenon DEF S!FinishedStays
<1>2. ASSUME NEW p \in 1..servers, S!persistSession(p) \/ S!appendAudit(p) \/ S!Restart(p)
      PROVE  SessionsInv' /\ S!FinishedStays
  <2>1. CASE S!Restart(p)
    BY Zenon, <1>1, <1>2, <2>1, ReturnKeeps DEF S!Restart
  <2> QED
    BY Zenon, <1>1, <1>2, <2>1, PersistKeeps, AuditKeeps
<1>3. ASSUME NEW p \in 1..servers, NEW actor,
             \/ \E player \in Players, t \in Timeouts : S!StartSession(p, actor, player, t)
             \/ \E id \in SessionIds : S!EndSession(p, actor, id) \/ S!GetSession(p, actor, id)
      PROVE  SessionsInv' /\ S!FinishedStays
  BY Zenon, <1>1, <1>3, StartKeeps, EndKeeps, GetKeeps
<1>4. CASE S!Tick
  BY Zenon, <1>1, <1>4, TickKeeps
<1> QED
  BY Zenon, <1>2, <1>3, <1>4 DEF S!Next

LEMMA SessionsInit ==
    ASSUME S!ConstantsAssumption, S!Init
    PROVE  SessionsInv
<1>1. /\ servers \in S!Processes /\ sessions = [id \in SessionIds |-> None]
      /\ drawn = {} /\ audited = {} /\ call = [p \in S!Processes |-> S!Idle] /\ now = 0
  BY Zenon DEF S!Init
<1>2. 0 \in S!Times
  <2>1. MaxTime \in Nat
    BY Zenon DEF S!ConstantsAssumption
  <2> QED
    BY <2>1 DEF S!Times
<1>3. SessionTypes
  BY Zenon, <1>1, <1>2 DEF SessionTypes
<1>4. AllInTime /\ AllDrawn
  BY Zenon, <1>1 DEF AllInTime, AllDrawn
<1>5. Alone
  <2>1. 1 \in S!Processes
    <3>1. MaxServers \in Nat \ {0}
      BY Zenon DEF S!ConstantsAssumption
    <3> QED
      BY <3>1 DEF S!Processes
  <2> QED
    BY Zenon, <1>1, <2>1, IdleFacts DEF Alone, ReadIsFresh, EndsHold
<1> QED
  BY Zenon, <1>3, <1>4, <1>5 DEF SessionsInv

LEMMA SessionsHold ==
    ASSUME SessionsInv
    PROVE  S!TypeOK /\ S!DeadlinesHold /\ S!AuditedEndsHold
<1>1. SessionTypes /\ AllInTime /\ Alone
  BY Zenon DEF SessionsInv
<1>2. S!TypeOK
  <2>1. \A p \in S!Processes :
          /\ call[p].pc \in {"idle", "persist", "audit"}
          /\ call[p].pc # "idle" => call[p].id \in SessionIds /\ call[p].session \in S!Session
    <3> SUFFICES ASSUME NEW p \in S!Processes
                 PROVE  call[p].pc = "idle" \/ (call[p] \in SessionCall /\ call[p].pc \in {"persist", "audit"})
      BY Zenon DEF SessionCall
    <3> QED
      BY Zenon, <1>1, CallKind, IdleFacts DEF SessionCall
  <2> QED
    BY Zenon, <1>1, <2>1 DEF S!TypeOK, SessionTypes
<1>3. S!DeadlinesHold
  BY Zenon, <1>1 DEF S!DeadlinesHold, AllInTime, InTime, Timely
<1>4. S!AuditedEndsHold
  BY Zenon, <1>1 DEF S!AuditedEndsHold, Alone, EndsHold
<1> QED
  BY Zenon, <1>2, <1>3, <1>4

-----------------------------------------------------------------------------
(* Config.                                                                   *)

Actions == {"propose", "approve", "apply"}
ConfigCall == [pc : {"audit", "change", "value"}, action : Actions, id : C!Ids, change : C!Change]

ConfigTypes ==
    /\ deployment \in ConfigDeployments /\ deployment \in C!Deployment
    /\ changes \in [C!Ids -> C!Change \cup {None}]
    /\ rows \in [C!Ids -> C!Change \cup {None}]
    /\ currentValues \in [Keys -> Values \cup {None}]
    /\ values \in [Keys -> Values \cup {None}]
    /\ nextChangeID \in 0..MaxChanges
    /\ audited \subseteq Actions \X C!Ids \X Keys \X Values
    /\ call \in {C!Idle} \cup ConfigCall
    /\ restarts \in 0..deployment.restarts
    /\ reused \subseteq drawn /\ drawn \subseteq C!Ids

\* d is the change c, at the same point of its life or later
Later(c, d) == c.key = d.key /\ c.value = d.value /\ C!Rank[c.status] <= C!Rank[d.status]

\* The status that each action writes
Reached == [propose |-> "PROPOSED", approve |-> "APPROVED", apply |-> "APPLIED"]

\* The row of a change, its entry in the map and the call about it: the map and the call are
\* ahead of the row, and agree.
Linked(row, entry, c, id) ==
    /\ row # None /\ entry # None => Later(row, entry)
    /\ c # C!Idle /\ c.id = id => /\ row # None => Later(row, c.change)
                                  /\ entry # None => entry = c.change

ChangesInv ==
    /\ ~C!Cache => \A id \in C!Ids : changes[id] = None
    /\ \A id \in C!Ids \ drawn : rows[id] = None /\ changes[id] = None
    /\ call # C!Idle => call.id \in drawn /\ call.change.status = Reached[call.action]
    /\ \A id \in C!Ids \ reused : Linked(rows[id], changes[id], call, id)

\* An applied change is written before its value.
ValuesInv ==
    /\ call.pc = "value" => /\ call.change.status = "APPLIED"
                            /\ C!UseDB /\ reused = {} => rows[call.id] = call.change
    /\ C!ValuesComeFromChanges

\* The events of a change up to the status s, written out
Backed(trail, id, c, s) ==
    /\ <<"propose", id, c.key, c.value>> \in trail
    /\ s \in {"APPROVED", "APPLIED"} => <<"approve", id, c.key, c.value>> \in trail
    /\ s = "APPLIED" => <<"apply", id, c.key, c.value>> \in trail

\* The events that a call finds, and its own once it is written
Preceded(trail, c) ==
    /\ c.action = "approve" => Backed(trail, c.id, c.change, "PROPOSED")
    /\ c.action = "apply" => Backed(trail, c.id, c.change, "APPROVED")
    /\ c.pc # "audit" => Backed(trail, c.id, c.change, c.change.status)

\* What HistoryIsAudited says of a row and of a value
RowBacked(trail, id, row) == row # None => Backed(trail, id, row, row.status)
ValueBacked(trail, k, v) ==
    v # None => \E id \in C!Ids : Backed(trail, id, [key |-> k, value |-> v], "APPLIED")

AuditedInv ==
    /\ restarts = 0 => reused = {} /\ drawn = 1..nextChangeID
    /\ C!UseDB /\ ~C!Cache /\ restarts = 0 =>
          /\ \A id \in C!Ids : RowBacked(audited, id, rows[id])
          /\ \A k \in Keys : ValueBacked(audited, k, values[k])
          /\ call # C!Idle => Preceded(audited, call)

ConfigInv == ConfigTypes /\ ChangesInv /\ ValuesInv /\ AuditedInv

LEMMA ConfigIdle == C!Idle.pc = "idle" /\ C!Idle \notin ConfigCall
<1>1. C!Idle.pc = "idle"
  BY Zenon DEF C!Idle
<1> QED
  BY Zenon, <1>1 DEF ConfigCall

LEMMA ConfigCallKind ==
    ASSUME ConfigTypes
    PROVE  /\ call = C!Idle \/ call \in ConfigCall
           /\ call.pc \in {"audit", "change", "value"} => call \in ConfigCall /\ call # C!Idle
           /\ call \in ConfigCall => /\ call.id \in C!Ids /\ call.change \in C!Change
                                     /\ call.action \in Actions /\ call.pc \in {"audit", "change", "value"}
<1>1. call = C!Idle \/ call \in ConfigCall
  BY Zenon DEF ConfigTypes
<1>2. call.pc \in {"audit", "change", "value"} => call \in ConfigCall /\ call # C!Idle
  BY Zenon, <1>1, ConfigIdle
<1> QED
  BY Zenon, <1>1, <1>2 DEF ConfigCall

LEMMA ChangeFields ==
    ASSUME NEW c \in C!Change
    PROVE  /\ c.key \in Keys /\ c.value \in Values /\ c.status \in C!Statuses
           /\ c = [key |-> c.key, value |-> c.value, status |-> c.status]
BY DEF C!Change

LEMMA Ranks ==
    /\ C!Rank["PROPOSED"] = 1 /\ C!Rank["APPROVED"] = 2 /\ C!Rank["APPLIED"] = 3
    /\ \A s \in C!Statuses : C!Rank[s] \in {1, 2, 3}
    /\ \A s \in C!Statuses : C!Rank[s] = 3 => s = "APPLIED"
BY DEF C!Rank, C!Statuses

LEMMA LaterItself ==
    ASSUME NEW c \in C!Change
    PROVE  Later(c, c)
<1>1. C!Rank[c.status] \in {1, 2, 3}
  BY Zenon, ChangeFields, Ranks
<1>2. C!Rank[c.status] <= C!Rank[c.status]
  BY <1>1
<1> QED
  BY Zenon, <1>2 DEF Later

LEMMA LaterStill ==
    ASSUME NEW c \in C!Change, NEW d \in C!Change, NEW e \in C!Change, Later(c, d), Later(d, e)
    PROVE  Later(c, e)
<1>1. C!Rank[c.status] \in {1, 2, 3} /\ C!Rank[d.status] \in {1, 2, 3} /\ C!Rank[e.status] \in {1, 2, 3}
  BY Zenon, ChangeFields, Ranks
<1>2. C!Rank[c.status] <= C!Rank[d.status] /\ C!Rank[d.status] <= C!Rank[e.status]
  BY Zenon DEF Later
<1>3. C!Rank[c.status] <= C!Rank[e.status]
  BY <1>1, <1>2
<1> QED
  BY Zenon, <1>3 DEF Later

\* An applied change is at the end of its life.
LEMMA NothingAfterApplied ==
    ASSUME NEW c \in C!Change, NEW d \in C!Change, Later(c, d), c.status = "APPLIED"
    PROVE  d = c
<1>1. C!Rank[d.status] \in {1, 2, 3} /\ C!Rank[c.status] = 3 /\ C!Rank[c.status] <= C!Rank[d.status]
  BY Zenon, ChangeFields, Ranks DEF Later
<1>2. C!Rank[d.status] = 3
  BY <1>1
<1>3. d.status = "APPLIED"
  BY Zenon, <1>2, ChangeFields, Ranks
<1> QED
  BY Zenon, <1>3, ChangeFields DEF Later

\* The upsert of a later state of the row's change leaves exactly that state.
LEMMA StatusWritten ==
    ASSUME NEW c \in C!Change, NEW d \in C!Change, Later(c, d)
    PROVE  [c EXCEPT !.status = d.status] = d
<1>1. c.key = d.key /\ c.value = d.value
  BY Zenon DEF Later
<1>2. [c EXCEPT !.status = d.status] = [key |-> c.key, value |-> c.value, status |-> d.status]
  BY DEF C!Change
<1> QED
  BY Zenon, <1>1, <1>2, ChangeFields

LEMMA ReachedStatus ==
    /\ Reached["propose"] = "PROPOSED" /\ Reached["approve"] = "APPROVED" /\ Reached["apply"] = "APPLIED"
BY DEF Reached

\* An approval or an application moves a change forward.
LEMMA MovedForward ==
    ASSUME NEW c \in C!Change, NEW action \in {"approve", "apply"},
           c.status = IF action = "approve" THEN "PROPOSED" ELSE "APPROVED"
    PROVE  LET m == [c EXCEPT !.status = Reached[action]] IN
           m \in C!Change /\ m.status = Reached[action] /\ Later(c, m)
<1> DEFINE m == [c EXCEPT !.status = Reached[action]]
<1>1. \/ action = "approve" /\ c.status = "PROPOSED" /\ Reached[action] = "APPROVED"
      \/ action = "apply" /\ c.status = "APPROVED" /\ Reached[action] = "APPLIED"
  BY DEF Reached
<1>2. Reached[action] \in C!Statuses
  BY Zenon, <1>1 DEF C!Statuses
<1>3. m \in C!Change /\ m.status = Reached[action] /\ m.key = c.key /\ m.value = c.value
  BY <1>2 DEF C!Change
<1> HIDE DEF m
<1>4. C!Rank[c.status] <= C!Rank[Reached[action]]
  BY <1>1, Ranks
<1>5. Later(c, m)
  BY Zenon, <1>3, <1>4 DEF Later
<1> QED
  BY Zenon, <1>3, <1>5 DEF m

LEMMA AppliedChange ==
    ASSUME C!ConstantsAssumption, NEW k \in Keys, NEW v \in Values
    PROVE  LET c == [key |-> k, value |-> v, status |-> "APPLIED"] IN
           c \in C!Change /\ c # None /\ c.status = "APPLIED"
<1> DEFINE c == [key |-> k, value |-> v, status |-> "APPLIED"]
<1>1. c \in C!Change /\ c.status = "APPLIED"
  BY DEF C!Change, C!Statuses
<1> HIDE DEF c
<1>2. c # None
  BY Zenon, <1>1 DEF C!ConstantsAssumption
<1> QED
  BY Zenon, <1>1, <1>2 DEF c

\* A step that leaves the rows alone
LEMMA RowsKept ==
    ASSUME ConfigTypes, rows' = rows
    PROVE  C!RowsAdvance
<1>1. \A id \in C!Ids : rows[id] # None => rows[id] \in C!Change
  BY Zenon DEF ConfigTypes
<1>2. \A c \in C!Change : c = [c EXCEPT !.status = c.status] /\ C!Rank[c.status] <= C!Rank[c.status]
  <2> TAKE c \in C!Change
  <2>1. Later(c, c)
    BY Zenon, LaterItself
  <2> QED
    BY Zenon, <2>1, StatusWritten DEF Later
<1> QED
  BY Zenon, <1>1, <1>2 DEF C!RowsAdvance

LEMMA ProposeKeeps ==
    ASSUME ConfigInv, C!ConstantsAssumption, NEW actor, NEW key \in Keys \cup {None},
           NEW value \in Values \cup {None}, C!ProposeConfigChange(actor, key, value)
    PROVE  ConfigInv' /\ C!RowsAdvance
<1> DEFINE id == nextChangeID + 1
<1> DEFINE c == [pc |-> "audit", action |-> "propose", id |-> id,
                 change |-> [key |-> key, value |-> value, status |-> "PROPOSED"]]
<1>1. ConfigTypes /\ ChangesInv /\ ValuesInv /\ AuditedInv
  BY Zenon DEF ConfigInv
<1>2. /\ call = C!Idle
      /\ UNCHANGED <<deployment, changes, currentValues, rows, values, audited, restarts>>
  BY Zenon DEF C!ProposeConfigChange, C!store
<1>3. C!RowsAdvance
  BY Zenon, <1>1, <1>2, RowsKept
<1>4. CASE call' = C!Idle /\ UNCHANGED <<nextChangeID, drawn, reused>>
  <2>1. call' = call
    BY Zenon, <1>2, <1>4
  <2> QED
    BY Zenon, <1>1, <1>2, <1>3, <1>4, <2>1
       DEF ConfigInv, ConfigTypes, ChangesInv, ValuesInv, AuditedInv, C!Cache, C!UseDB,
           C!ValuesComeFromChanges
<1>5. CASE /\ None \notin {key, value} /\ nextChangeID < MaxChanges /\ nextChangeID' = id
           /\ drawn' = drawn \cup {id}
           /\ reused' = (IF id \in drawn THEN reused \cup {id} ELSE reused)
           /\ call' = C!Idle \/ call' = c
  <2>1. nextChangeID \in 0..MaxChanges /\ MaxChanges \in Nat
    BY Zenon, <1>1 DEF ConfigTypes, C!ConstantsAssumption
  <2>2. /\ id \in 1..MaxChanges /\ id \in 0..MaxChanges /\ id \notin 1..nextChangeID
        /\ (1..nextChangeID) \cup {id} = 1..id
    BY <1>5, <2>1
  <2>3. id \in C!Ids
    BY Zenon, <2>2 DEF C!Ids
  <2>4. /\ reused \subseteq reused' /\ drawn \subseteq drawn' /\ id \in drawn'
        /\ (id \notin reused' => id \notin drawn) /\ reused' \subseteq drawn' /\ drawn' \subseteq C!Ids
        /\ (id \notin drawn => reused' = reused)
    BY Zenon, <1>1, <1>5, <2>3 DEF ConfigTypes
  <2>5. /\ c \in ConfigCall /\ c.pc = "audit" /\ c.id = id /\ c.action = "propose"
        /\ c.change.status = Reached[c.action] /\ c # C!Idle
    <3>1. key \in Keys /\ value \in Values
      BY Zenon, <1>5
    <3>2. [key |-> key, value |-> value, status |-> "PROPOSED"] \in C!Change
      BY Zenon, <3>1 DEF C!Change, C!Statuses
    <3>3. c \in ConfigCall /\ c.pc = "audit" /\ c.id = id /\ c.action = "propose"
      BY Zenon, <2>3, <3>2 DEF ConfigCall, Actions
    <3> QED
      BY Zenon, <3>3, ConfigIdle DEF Reached
  <2>6. call' = C!Idle \/ call' = c
    BY Zenon, <1>5
  <2> HIDE DEF c
  <2>7. ConfigTypes'
    BY Zenon, <1>1, <1>2, <1>5, <2>2, <2>4, <2>5, <2>6 DEF ConfigTypes
  <2>8. ChangesInv'
    <3>1. \A i \in C!Ids \ reused' : Linked(rows[i], changes[i], call', i)
      <4> TAKE i \in C!Ids \ reused'
      <4>1. Linked(rows[i], changes[i], call, i)
        BY Zenon, <1>1, <2>4 DEF ChangesInv
      <4>2. i = id => rows[i] = None /\ changes[i] = None
        BY Zenon, <1>1, <2>3, <2>4 DEF ChangesInv
      <4> QED
        BY Zenon, <2>5, <2>6, <4>1, <4>2 DEF Linked
    <3>2. call' # C!Idle => call'.id \in drawn' /\ call'.change.status = Reached[call'.action]
      BY Zenon, <2>4, <2>5, <2>6
    <3>3. \A i \in C!Ids \ drawn' : rows[i] = None /\ changes[i] = None
      BY Zenon, <1>1, <2>4 DEF ChangesInv
    <3> QED
      BY Zenon, <1>1, <1>2, <3>1, <3>2, <3>3 DEF ChangesInv, C!Cache
  <2>9. ValuesInv'
    <3>1. call'.pc # "value"
      BY Zenon, <2>5, <2>6, ConfigIdle
    <3>2. reused' = {} => reused = {}
      BY Zenon, <2>4
    <3> QED
      BY Zenon, <1>1, <1>2, <3>1, <3>2 DEF ValuesInv, C!ValuesComeFromChanges
  <2>10. AuditedInv'
    <3>1. restarts = 0 => reused' = {} /\ drawn' = 1..nextChangeID'
      BY Zenon, <1>1, <1>5, <2>2, <2>4 DEF AuditedInv
    <3>2. call' # C!Idle => Preceded(audited, call')
      BY Zenon, <2>5, <2>6 DEF Preceded
    <3> QED
      BY Zenon, <1>1, <1>2, <3>1, <3>2 DEF AuditedInv, C!UseDB, C!Cache
  <2> QED
    BY Zenon, <1>3, <2>7, <2>8, <2>9, <2>10 DEF ConfigInv
<1> QED
  BY Zenon, <1>4, <1>5 DEF C!ProposeConfigChange, C!Return, C!ids

LEMMA EntryWritten ==
    ASSUME ConfigTypes, NEW id \in C!Ids, NEW e \in C!Change,
           changes' = IF C!Cache THEN [changes EXCEPT ![id] = e] ELSE changes
    PROVE  /\ changes' \in [C!Ids -> C!Change \cup {None}]
           /\ \A i \in C!Ids : i # id => changes'[i] = changes[i]
           /\ C!Cache => changes'[id] = e
           /\ ~C!Cache => changes' = changes
<1>1. changes \in [C!Ids -> C!Change \cup {None}]
  BY Zenon DEF ConfigTypes
<1> QED
  BY Zenon, <1>1

\* A change that a call finds: it is the entry or the row, and not behind the row.
LEMMA FoundFacts ==
    ASSUME ConfigInv, NEW id \in C!Ids, C!Found(id) # None
    PROVE  /\ C!Found(id) \in C!Change /\ id \in drawn
           /\ changes[id] # None => C!Found(id) = changes[id]
           /\ changes[id] = None => C!Found(id) = rows[id]
           /\ id \notin reused /\ rows[id] # None => Later(rows[id], C!Found(id))
<1>1. ConfigTypes /\ ChangesInv
  BY Zenon DEF ConfigInv
<1>2. /\ changes[id] # None => C!Found(id) = changes[id]
      /\ changes[id] = None => C!Found(id) = rows[id]
  BY Zenon DEF C!Found
<1>3. rows[id] \in C!Change \cup {None} /\ changes[id] \in C!Change \cup {None}
  BY Zenon, <1>1 DEF ConfigTypes
<1>4. C!Found(id) \in C!Change /\ id \in drawn
  BY Zenon, <1>1, <1>2, <1>3 DEF ChangesInv
<1>5. ASSUME id \notin reused, rows[id] # None PROVE Later(rows[id], C!Found(id))
  <2>1. CASE changes[id] = None
    BY Zenon, <1>2, <1>4, <2>1, LaterItself
  <2>2. CASE changes[id] # None
    BY Zenon, <1>1, <1>2, <1>5, <2>2 DEF ChangesInv, Linked
  <2> QED
    BY Zenon, <2>1, <2>2
<1> QED
  BY Zenon, <1>2, <1>4, <1>5

\* The entry of an applied change that is found stays.
LEMMA AppliedEntryStays ==
    ASSUME ConfigTypes, NEW id \in C!Ids, NEW e \in C!Change,
           changes' = IF C!Cache THEN [changes EXCEPT ![id] = e] ELSE changes,
           changes[id] # None /\ changes[id].status = "APPLIED" => e = changes[id]
    PROVE  \A i \in C!Ids : changes[i] # None /\ changes[i].status = "APPLIED" => changes'[i] = changes[i]
BY Zenon, EntryWritten

\* Values that come from changes still do when rows and entries of applied changes stay and
\* the values do not change.
LEMMA ValuesStay ==
    ASSUME C!ConstantsAssumption, ConfigTypes, C!ValuesComeFromChanges, reused' = {} => reused = {},
           values' = values, currentValues' = currentValues,
           reused = {} => \A i \in C!Ids : rows[i] # None /\ rows[i].status = "APPLIED" => rows'[i] = rows[i],
           reused = {} => \A i \in C!Ids : changes[i] # None /\ changes[i].status = "APPLIED" => changes'[i] = changes[i]
    PROVE  C!ValuesComeFromChanges'
<1> SUFFICES ASSUME reused = {}, NEW k \in Keys
             PROVE  /\ values'[k] # None => \E id \in C!Ids :
                          rows'[id] = [key |-> k, value |-> values'[k], status |-> "APPLIED"]
                    /\ currentValues'[k] # None => \E id \in C!Ids :
                          changes'[id] = [key |-> k, value |-> currentValues'[k], status |-> "APPLIED"]
  BY Zenon DEF C!ValuesComeFromChanges
<1> DEFINE applied(v) == [key |-> k, value |-> v, status |-> "APPLIED"]
<1>1. /\ values[k] # None => \E id \in C!Ids : rows[id] = applied(values[k])
      /\ currentValues[k] # None => \E id \in C!Ids : changes[id] = applied(currentValues[k])
  BY Zenon DEF C!ValuesComeFromChanges
<1>2. \A v \in Values : applied(v) # None /\ applied(v).status = "APPLIED"
  BY Zenon, AppliedChange
<1>3. values[k] \in Values \cup {None} /\ currentValues[k] \in Values \cup {None}
  BY Zenon DEF ConfigTypes
<1> HIDE DEF applied
<1>4. values[k] # None => \E id \in C!Ids : rows'[id] = applied(values[k])
  BY Zenon, <1>1, <1>2, <1>3
<1>5. currentValues[k] # None => \E id \in C!Ids : changes'[id] = applied(currentValues[k])
  BY Zenon, <1>1, <1>2, <1>3
<1> QED
  BY Zenon, <1>4, <1>5 DEF applied

\* A change is refused, and may have been loaded into the map.
LEMMA LoadKeeps ==
    ASSUME ConfigInv, C!ConstantsAssumption, NEW id \in C!Ids, C!Found(id) # None,
           changes' = IF C!Cache THEN [changes EXCEPT ![id] = C!Found(id)] ELSE changes,
           call = C!Idle, call' = C!Idle,
           UNCHANGED <<deployment, nextChangeID, currentValues, rows, values, audited, restarts,
                       drawn, reused>>
    PROVE  ConfigInv'
<1> DEFINE e == C!Found(id)
<1>1. ConfigTypes /\ ChangesInv /\ ValuesInv /\ AuditedInv
  BY Zenon DEF ConfigInv
<1>2. /\ e \in C!Change /\ id \in drawn /\ (changes[id] # None => e = changes[id])
      /\ (id \notin reused /\ rows[id] # None => Later(rows[id], e))
  BY Zenon, FoundFacts
<1>3. changes' = IF C!Cache THEN [changes EXCEPT ![id] = e] ELSE changes
  BY Zenon
<1> HIDE DEF e
<1>4. /\ changes' \in [C!Ids -> C!Change \cup {None}]
      /\ \A i \in C!Ids : i # id => changes'[i] = changes[i]
      /\ (C!Cache => changes'[id] = e) /\ (~C!Cache => changes' = changes)
  BY Zenon, <1>1, <1>2, <1>3, EntryWritten
<1>5. ConfigTypes'
  BY Zenon, <1>1, <1>4 DEF ConfigTypes
<1>6. ChangesInv'
  <2>1. \A i \in C!Ids \ reused : Linked(rows[i], changes'[i], call', i)
    <3> TAKE i \in C!Ids \ reused
    <3>1. Linked(rows[i], changes[i], call, i)
      BY Zenon, <1>1 DEF ChangesInv
    <3>2. changes'[i] = changes[i] \/ (i = id /\ changes'[i] = e)
      BY Zenon, <1>4
    <3> QED
      BY Zenon, <1>2, <3>1, <3>2 DEF Linked
  <2>2. \A i \in C!Ids \ drawn : changes'[i] = None
    BY Zenon, <1>1, <1>2, <1>4 DEF ChangesInv
  <2> QED
    BY Zenon, <1>1, <1>4, <2>1, <2>2 DEF ChangesInv, C!Cache
<1>7. ValuesInv'
  <2>1. \A i \in C!Ids : changes[i] # None /\ changes[i].status = "APPLIED" => changes'[i] = changes[i]
    BY Zenon, <1>1, <1>2, <1>3, AppliedEntryStays
  <2>2. C!ValuesComeFromChanges'
    BY Zenon, <1>1, <2>1, ValuesStay DEF ValuesInv
  <2> QED
    BY Zenon, <2>2, ConfigIdle DEF ValuesInv
<1>8. AuditedInv'
  BY Zenon, <1>1 DEF AuditedInv, C!UseDB, C!Cache
<1> QED
  BY Zenon, <1>5, <1>6, <1>7, <1>8 DEF ConfigInv

\* A change is moved forward, in the map and in the call, and its value with it.
LEMMA MoveKeeps ==
    ASSUME ConfigInv, C!ConstantsAssumption, NEW id \in C!Ids, C!Found(id) # None,
           NEW action \in {"approve", "apply"}, NEW m \in C!Change, m.status = Reached[action],
           Later(C!Found(id), m),
           C!Found(id).status = IF action = "approve" THEN "PROPOSED" ELSE "APPROVED",
           changes' = IF C!Cache THEN [changes EXCEPT ![id] = m] ELSE changes,
           call' = [pc |-> "audit", action |-> action, id |-> id, change |-> m],
           \/ currentValues' = currentValues
           \/ /\ action = "apply" /\ C!Cache
              /\ currentValues' = [currentValues EXCEPT ![m.key] = m.value],
           UNCHANGED <<deployment, nextChangeID, rows, values, audited, restarts, drawn, reused>>
    PROVE  ConfigInv'
<1> DEFINE f == C!Found(id)
<1>1. ConfigTypes /\ ChangesInv /\ ValuesInv /\ AuditedInv
  BY Zenon DEF ConfigInv
<1>2. /\ f \in C!Change /\ id \in drawn /\ (changes[id] # None => f = changes[id])
      /\ (changes[id] = None => f = rows[id])
      /\ (id \notin reused /\ rows[id] # None => Later(rows[id], f))
  BY Zenon, FoundFacts
<1>3. /\ m.status = Reached[action] /\ Later(f, m) /\ m.key = f.key /\ m.value = f.value
      /\ action \in Actions /\ (action = "apply" => m.status = "APPLIED")
  BY Zenon, ReachedStatus DEF Later, Actions
<1>4. /\ call' \in ConfigCall /\ call'.id = id /\ call'.action = action /\ call'.change = m
      /\ call'.pc = "audit" /\ call' # C!Idle
  <2>1. [pc |-> "audit", action |-> action, id |-> id, change |-> m] \in ConfigCall
    BY Zenon, <1>3 DEF ConfigCall
  <2> QED
    BY Zenon, <2>1, ConfigIdle
<1>5. f.status # "APPLIED" /\ (action = "approve" => f.status = "PROPOSED")
      /\ (action = "apply" => f.status = "APPROVED")
  BY Zenon
<1> HIDE DEF f
<1>6. /\ changes' \in [C!Ids -> C!Change \cup {None}]
      /\ \A i \in C!Ids : i # id => changes'[i] = changes[i]
      /\ (C!Cache => changes'[id] = m) /\ (~C!Cache => changes' = changes)
  BY Zenon, <1>1, <1>3, EntryWritten
<1>7. m.key \in Keys /\ m.value \in Values
  BY Zenon, <1>3, ChangeFields
<1>8. ConfigTypes'
  <2>1. currentValues' \in [Keys -> Values \cup {None}]
    BY Zenon, <1>1, <1>7 DEF ConfigTypes
  <2> QED
    BY Zenon, <1>1, <1>4, <1>6, <2>1 DEF ConfigTypes
<1>9. ChangesInv'
  <2>1. \A i \in C!Ids \ reused : Linked(rows[i], changes'[i], call', i)
    <3> TAKE i \in C!Ids \ reused
    <3>1. Linked(rows[i], changes[i], call, i) /\ rows[i] \in C!Change \cup {None}
      BY Zenon, <1>1 DEF ChangesInv, ConfigTypes
    <3>2. CASE i # id
      BY Zenon, <1>4, <1>6, <3>1, <3>2 DEF Linked
    <3>3. CASE i = id
      <4>1. rows[i] # None => Later(rows[i], m)
        BY Zenon, <1>2, <1>3, <3>1, <3>3, LaterStill
      <4>2. changes'[i] = m \/ changes'[i] = None
        BY Zenon, <1>1, <1>6, <3>3 DEF ChangesInv
      <4> QED
        BY Zenon, <1>4, <3>3, <4>1, <4>2 DEF Linked
    <3> QED
      BY Zenon, <3>2, <3>3
  <2>2. \A i \in C!Ids \ drawn : changes'[i] = None
    BY Zenon, <1>1, <1>2, <1>6 DEF ChangesInv
  <2> QED
    BY Zenon, <1>1, <1>2, <1>3, <1>4, <1>6, <2>1, <2>2 DEF ChangesInv, C!Cache
<1>10. ValuesInv'
  <2>1. \A i \in C!Ids : changes[i] # None /\ changes[i].status = "APPLIED" => changes'[i] = changes[i]
    BY Zenon, <1>2, <1>5, <1>6
  <2>2. CASE currentValues' = currentValues
    <3>1. C!ValuesComeFromChanges'
      BY Zenon, <1>1, <2>1, <2>2, ValuesStay DEF ValuesInv
    <3> QED
      BY Zenon, <1>4, <3>1 DEF ValuesInv
  <2>3. CASE /\ action = "apply" /\ C!Cache
             /\ currentValues' = [currentValues EXCEPT ![m.key] = m.value]
    <3>1. changes'[id] = [key |-> m.key, value |-> m.value, status |-> "APPLIED"]
      <4>1. m.status = "APPLIED" /\ changes'[id] = m
        BY Zenon, <1>3, <1>6, <2>3
      <4>2. m = [key |-> m.key, value |-> m.value, status |-> m.status]
        BY Zenon, <1>3, ChangeFields
      <4> QED
        BY Zenon, <4>1, <4>2
    <3>2. \A k \in Keys : k # m.key => currentValues'[k] = currentValues[k]
      BY Zenon, <1>1, <2>3 DEF ConfigTypes
    <3>3. currentValues'[m.key] = m.value
      BY Zenon, <1>1, <1>7, <2>3 DEF ConfigTypes
    <3>4. reused = {} => \A k \in Keys : currentValues'[k] # None =>
             \E i \in C!Ids : changes'[i] = [key |-> k, value |-> currentValues'[k], status |-> "APPLIED"]
      <4> SUFFICES ASSUME reused = {}, NEW k \in Keys, currentValues'[k] # None
                   PROVE  \E i \in C!Ids : changes'[i] = [key |-> k, value |-> currentValues'[k], status |-> "APPLIED"]
        BY Zenon
      <4>1. CASE k = m.key
        BY Zenon, <3>1, <3>3, <4>1
      <4>2. CASE k # m.key
        <5>1. currentValues[k] # None /\ currentValues'[k] = currentValues[k] /\ currentValues[k] \in Values
          BY Zenon, <1>1, <3>2, <4>2 DEF ConfigTypes
        <5> DEFINE a == [key |-> k, value |-> currentValues[k], status |-> "APPLIED"]
        <5>2. PICK i \in C!Ids : changes[i] = a
          BY Zenon, <1>1, <5>1 DEF ValuesInv, C!ValuesComeFromChanges
        <5>3. a # None /\ a.status = "APPLIED"
          BY Zenon, <5>1, AppliedChange
        <5> HIDE DEF a
        <5>4. changes'[i] = a
          BY Zenon, <2>1, <5>2, <5>3
        <5> QED
          BY Zenon, <5>1, <5>4 DEF a
      <4> QED
        BY Zenon, <4>1, <4>2
    <3> QED
      BY Zenon, <1>1, <1>4, <3>4 DEF ValuesInv, C!ValuesComeFromChanges
  <2> QED
    BY Zenon, <2>2, <2>3
<1>11. AuditedInv'
  <2>1. ASSUME C!UseDB, ~C!Cache, restarts = 0 PROVE Preceded(audited, call')
    <3>1. f = rows[id] /\ f # None
      BY Zenon, <1>1, <1>2, <2>1 DEF ChangesInv, f
    <3>2. Backed(audited, id, f, f.status)
      BY Zenon, <1>1, <2>1, <3>1 DEF AuditedInv, RowBacked
    <3> QED
      BY Zenon, <1>3, <1>4, <1>5, <3>2 DEF Preceded, Backed
  <2> QED
    BY Zenon, <1>1, <2>1 DEF AuditedInv, C!UseDB, C!Cache
<1> QED
  BY Zenon, <1>8, <1>9, <1>10, <1>11 DEF ConfigInv

\* ApproveConfigChange and ApplyConfigChange, up to appendAudit
LEMMA AdvanceKeeps ==
    ASSUME ConfigInv, C!ConstantsAssumption, NEW actor, NEW id \in C!Ids \cup {None},
           NEW action \in {"approve", "apply"},
           C!Advance(actor, id, action, IF action = "approve" THEN "PROPOSED" ELSE "APPROVED", Reached[action]),
           \/ currentValues' = currentValues
           \/ /\ action = "apply" /\ C!Cache /\ call' # C!Idle
              /\ currentValues' = [currentValues EXCEPT ![call'.change.key] = call'.change.value]
    PROVE  ConfigInv' /\ C!RowsAdvance
<1> DEFINE f == C!Found(id)
<1> DEFINE m == [f EXCEPT !.status = Reached[action]]
<1>1. ConfigTypes
  BY Zenon DEF ConfigInv
<1>2. /\ call = C!Idle
      /\ UNCHANGED <<deployment, nextChangeID, rows, values, audited, restarts, drawn, reused>>
  BY Zenon DEF C!Advance, C!store, C!ids
<1>3. C!RowsAdvance
  BY Zenon, <1>1, <1>2, RowsKept
<1>4. CASE call' = C!Idle /\ changes' = changes
  <2>1. call' = call /\ currentValues' = currentValues
    BY Zenon, <1>2, <1>4
  <2> QED
    BY Zenon, <1>2, <1>3, <1>4, <2>1
       DEF ConfigInv, ConfigTypes, ChangesInv, ValuesInv, AuditedInv, C!Cache, C!UseDB,
           C!ValuesComeFromChanges
<1>5. CASE /\ id # None /\ f # None /\ call' = C!Idle
           /\ changes' = IF C!Cache THEN [changes EXCEPT ![id] = f] ELSE changes
  <2>1. currentValues' = currentValues /\ id \in C!Ids
    BY Zenon, <1>5
  <2> QED
    BY Zenon, <1>2, <1>3, <1>5, <2>1, LoadKeeps
<1>6. CASE /\ id # None /\ f # None /\ f.status = (IF action = "approve" THEN "PROPOSED" ELSE "APPROVED")
           /\ changes' = (IF C!Cache THEN [changes EXCEPT ![id] = m] ELSE changes)
           /\ call' = [pc |-> "audit", action |-> action, id |-> id, change |-> m]
  <2>1. id \in C!Ids /\ f \in C!Change
    BY Zenon, <1>6, FoundFacts
  <2>2. m \in C!Change /\ m.status = Reached[action] /\ Later(f, m)
    BY Zenon, <1>6, <2>1, MovedForward
  <2> HIDE DEF m
  <2>3. call'.change = m
    BY Zenon, <1>6
  <2>4. \/ currentValues' = currentValues
        \/ /\ action = "apply" /\ C!Cache
           /\ currentValues' = [currentValues EXCEPT ![m.key] = m.value]
    BY Zenon, <2>3
  <2>5. ConfigInv'
    BY Zenon, <1>2, <1>6, <2>1, <2>2, <2>4, MoveKeeps
  <2> QED
    BY Zenon, <1>3, <2>5
<1> QED
  BY Zenon, <1>4, <1>5, <1>6 DEF C!Advance, C!Return

LEMMA ApproveKeeps ==
    ASSUME ConfigInv, C!ConstantsAssumption, NEW actor, NEW id \in C!Ids \cup {None},
           C!ApproveConfigChange(actor, id) \/ C!ApplyConfigChange(actor, id)
    PROVE  ConfigInv' /\ C!RowsAdvance
<1>1. CASE C!ApproveConfigChange(actor, id)
  <2>1. /\ C!Advance(actor, id, "approve", IF "approve" = "approve" THEN "PROPOSED" ELSE "APPROVED", Reached["approve"])
        /\ currentValues' = currentValues
    BY Zenon, <1>1, ReachedStatus DEF C!ApproveConfigChange
  <2> QED
    BY Zenon, <2>1, AdvanceKeeps
<1>2. CASE C!ApplyConfigChange(actor, id)
  <2>1. C!Advance(actor, id, "apply", IF "apply" = "approve" THEN "PROPOSED" ELSE "APPROVED", Reached["apply"])
    BY Zenon, <1>2, ReachedStatus DEF C!ApplyConfigChange
  <2>2. \/ currentValues' = currentValues
        \/ /\ C!Cache /\ call' # C!Idle
           /\ currentValues' = [currentValues EXCEPT ![call'.change.key] = call'.change.value]
    BY Zenon, <1>2 DEF C!ApplyConfigChange
  <2> QED
    BY Zenon, <2>1, <2>2, AdvanceKeeps
<1> QED
  BY Zenon, <1>1, <1>2

\* The audit trail only grows, and its own event completes what a call found.
LEMMA BackedGrows ==
    ASSUME NEW trail, NEW more, trail \subseteq more
    PROVE  /\ \A id, c, s : Backed(trail, id, c, s) => Backed(more, id, c, s)
           /\ \A id, row : RowBacked(trail, id, row) => RowBacked(more, id, row)
           /\ \A k, v : ValueBacked(trail, k, v) => ValueBacked(more, k, v)
<1>1. \A id, c, s : Backed(trail, id, c, s) => Backed(more, id, c, s)
  BY Zenon DEF Backed
<1> QED
  BY Zenon, <1>1 DEF RowBacked, ValueBacked

LEMMA EventCompletes ==
    ASSUME NEW trail, NEW more, NEW c \in ConfigCall, c.change.status = Reached[c.action],
           Preceded(trail, c), trail \subseteq more,
           <<c.action, c.id, c.change.key, c.change.value>> \in more
    PROVE  Backed(more, c.id, c.change, c.change.status)
<1> DEFINE s == c.change.status
<1>1. \/ c.action = "propose" /\ s = "PROPOSED"
      \/ c.action = "approve" /\ s = "APPROVED"
      \/ c.action = "apply" /\ s = "APPLIED"
  BY Zenon, ReachedStatus DEF ConfigCall, Actions
<1>2. /\ c.action = "approve" => Backed(more, c.id, c.change, "PROPOSED")
      /\ c.action = "apply" => Backed(more, c.id, c.change, "APPROVED")
  BY Zenon, BackedGrows DEF Preceded
<1> HIDE DEF s
<1>3. CASE c.action = "propose" /\ s = "PROPOSED"
  BY Zenon, <1>3 DEF Backed, s
<1>4. CASE c.action = "approve" /\ s = "APPROVED"
  BY Zenon, <1>2, <1>4 DEF Backed, s
<1>5. CASE c.action = "apply" /\ s = "APPLIED"
  BY Zenon, <1>2, <1>5 DEF Backed, s
<1> QED
  BY Zenon, <1>1, <1>3, <1>4, <1>5

LEMMA ConfigAuditKeeps ==
    ASSUME ConfigInv, C!ConstantsAssumption, C!appendAudit
    PROVE  ConfigInv' /\ C!RowsAdvance
<1> DEFINE c == [call EXCEPT !.pc = "change"]
<1>1. ConfigTypes /\ ChangesInv /\ ValuesInv /\ AuditedInv
  BY Zenon DEF ConfigInv
<1>2. UNCHANGED <<deployment, changes, currentValues, nextChangeID, rows, values, restarts, drawn, reused>>
  BY Zenon DEF C!appendAudit, C!memory, C!ids
<1>3. call.pc = "audit" /\ call \in ConfigCall /\ call # C!Idle
  BY Zenon, <1>1, ConfigCallKind DEF C!appendAudit
<1>4. /\ call.id \in C!Ids /\ call.change \in C!Change /\ call.action \in Actions
      /\ call.change.key \in Keys /\ call.change.value \in Values
  BY Zenon, <1>1, <1>3, ConfigCallKind, ChangeFields
<1>5. C!Event \in Actions \X C!Ids \X Keys \X Values
  BY Zenon, <1>4 DEF C!Event
<1>6. audited' = audited \/ audited' = audited \cup {C!Event}
  BY Zenon DEF C!appendAudit, C!Failed
<1>7. audited \subseteq audited' /\ audited' \subseteq Actions \X C!Ids \X Keys \X Values
  BY Zenon, <1>1, <1>5, <1>6 DEF ConfigTypes
<1>8. call' = C!Idle \/ (call' = c /\ C!Event \in audited')
  BY Zenon DEF C!appendAudit, C!Return
<1>9. /\ c \in ConfigCall /\ c.pc = "change" /\ c.id = call.id /\ c.action = call.action
      /\ c.change = call.change /\ c # C!Idle
  <2>1. /\ c \in ConfigCall /\ c.pc = "change" /\ c.id = call.id /\ c.action = call.action
        /\ c.change = call.change
    BY Zenon, <1>3 DEF ConfigCall
  <2> QED
    BY Zenon, <2>1, ConfigIdle
<1> HIDE DEF c
<1>10. ConfigTypes'
  BY Zenon, <1>1, <1>2, <1>7, <1>8, <1>9 DEF ConfigTypes
<1>11. ChangesInv'
  <2>1. \A i \in C!Ids \ reused : Linked(rows[i], changes[i], call', i)
    BY Zenon, <1>1, <1>3, <1>8, <1>9 DEF ChangesInv, Linked
  <2>2. call' # C!Idle => call'.id \in drawn /\ call'.change.status = Reached[call'.action]
    BY Zenon, <1>1, <1>3, <1>8, <1>9 DEF ChangesInv
  <2> QED
    BY Zenon, <1>1, <1>2, <2>1, <2>2 DEF ChangesInv, C!Cache
<1>12. ValuesInv'
  <2>1. call'.pc # "value"
    BY Zenon, <1>8, <1>9, ConfigIdle
  <2> QED
    BY Zenon, <1>1, <1>2, <2>1 DEF ValuesInv, C!ValuesComeFromChanges
<1>13. AuditedInv'
  <2>1. ASSUME C!UseDB, ~C!Cache, restarts = 0
        PROVE  /\ \A id \in C!Ids : RowBacked(audited', id, rows[id])
               /\ \A k \in Keys : ValueBacked(audited', k, values[k])
    BY Zenon, <1>1, <1>7, <2>1, BackedGrows DEF AuditedInv
  <2>2. ASSUME C!UseDB, ~C!Cache, restarts = 0, call' # C!Idle PROVE Preceded(audited', call')
    <3>1. Preceded(audited, call) /\ call' = c /\ C!Event \in audited'
      BY Zenon, <1>1, <1>3, <1>8, <2>2 DEF AuditedInv
    <3>2. call.change.status = Reached[call.action]
      BY Zenon, <1>1, <1>3 DEF ChangesInv
    <3>3. Backed(audited', call.id, call.change, call.change.status)
      BY Zenon, <1>3, <1>7, <3>1, <3>2, EventCompletes DEF C!Event
    <3>4. /\ call.action = "approve" => Backed(audited', call.id, call.change, "PROPOSED")
          /\ call.action = "apply" => Backed(audited', call.id, call.change, "APPROVED")
      BY Zenon, <1>7, <3>1, BackedGrows DEF Preceded
    <3> QED
      BY Zenon, <1>9, <3>1, <3>3, <3>4 DEF Preceded
  <2> QED
    BY Zenon, <1>1, <1>2, <2>1, <2>2 DEF AuditedInv, C!UseDB, C!Cache
<1>14. C!RowsAdvance
  BY Zenon, <1>1, <1>2, RowsKept
<1> QED
  BY Zenon, <1>10, <1>11, <1>12, <1>13, <1>14 DEF ConfigInv

\* The upsert of the change of a call: of an id handed out once, it leaves the call's change.
LEMMA UpsertFacts ==
    ASSUME ConfigInv, call \in ConfigCall, NEW r, r = C!Upserted
    PROVE  /\ r \in [C!Ids -> C!Change \cup {None}]
           /\ \A i \in C!Ids : i # call.id => r[i] = rows[i]
           /\ call.id \notin reused => r[call.id] = call.change
<1>1. ConfigTypes /\ ChangesInv
  BY Zenon DEF ConfigInv
<1>2. call.id \in C!Ids /\ call.change \in C!Change /\ call # C!Idle
  BY Zenon, <1>1, ConfigCallKind, ConfigIdle
<1> DEFINE row == rows[call.id]
<1> DEFINE new == IF row = None THEN call.change ELSE [row EXCEPT !.status = call.change.status]
<1>3. rows \in [C!Ids -> C!Change \cup {None}] /\ row \in C!Change \cup {None}
  BY Zenon, <1>1, <1>2 DEF ConfigTypes
<1>4. r = [rows EXCEPT ![call.id] = new]
  BY Zenon DEF C!Upserted
<1>5. row # None => [row EXCEPT !.status = call.change.status] \in C!Change
  <2>1. call.change.status \in C!Statuses
    BY Zenon, <1>2, ChangeFields
  <2> HIDE DEF row
  <2> QED
    BY <1>3, <2>1 DEF C!Change
<1>6. new \in C!Change
  BY Zenon, <1>2, <1>5
<1>7. ASSUME call.id \notin reused PROVE new = call.change
  <2>1. CASE row = None
    BY Zenon, <2>1
  <2>2. CASE row # None
    <3>1. Later(row, call.change) /\ row \in C!Change
      BY Zenon, <1>1, <1>2, <1>3, <1>7, <2>2 DEF ChangesInv, Linked
    <3>2. [row EXCEPT !.status = call.change.status] = call.change
      BY Zenon, <1>2, <3>1, StatusWritten
    <3> QED
      BY Zenon, <2>2, <3>2
  <2> QED
    BY Zenon, <2>1, <2>2
<1> HIDE DEF new
<1> QED
  BY Zenon, <1>2, <1>3, <1>4, <1>6, <1>7

\* The row of a change takes the state of the call about it, or stays.
LEMMA UpsertAdvances ==
    ASSUME ConfigInv, call \in ConfigCall, rows' = rows \/ rows' = C!Upserted, reused' = reused
    PROVE  C!RowsAdvance
<1>1. ConfigTypes /\ ChangesInv
  BY Zenon DEF ConfigInv
<1>2. CASE rows' = rows
  BY Zenon, <1>1, <1>2, RowsKept
<1>3. CASE rows' = C!Upserted
  <2> SUFFICES ASSUME NEW id \in C!Ids, rows[id] # None, id \notin reused'
               PROVE  /\ rows'[id] = [rows[id] EXCEPT !.status = rows'[id].status]
                      /\ C!Rank[rows[id].status] <= C!Rank[rows'[id].status]
    BY Zenon DEF C!RowsAdvance
  <2>1. rows[id] \in C!Change /\ id \notin reused
    BY Zenon, <1>1 DEF ConfigTypes
  <2>2. rows'[id] \in C!Change /\ Later(rows[id], rows'[id])
    <3>1. CASE id # call.id
      <4>1. rows'[id] = rows[id]
        BY Zenon, <1>3, <3>1, UpsertFacts
      <4> QED
        BY Zenon, <2>1, <4>1, LaterItself
    <3>2. CASE id = call.id
      <4>1. rows'[id] = call.change /\ call.change \in C!Change /\ call # C!Idle
        BY Zenon, <1>1, <1>3, <2>1, <3>2, UpsertFacts, ConfigCallKind, ConfigIdle
      <4>2. Later(rows[id], call.change)
        BY Zenon, <1>1, <2>1, <3>2, <4>1 DEF ChangesInv, Linked
      <4> QED
        BY Zenon, <4>1, <4>2
    <3> QED
      BY Zenon, <3>1, <3>2
  <2>3. [rows[id] EXCEPT !.status = rows'[id].status] = rows'[id]
    BY Zenon, <2>1, <2>2, StatusWritten
  <2> QED
    BY Zenon, <2>2, <2>3 DEF Later
<1> QED
  BY Zenon, <1>2, <1>3

LEMMA ChangePersistKeeps ==
    ASSUME ConfigInv, C!ConstantsAssumption, C!persistConfigChange
    PROVE  ConfigInv' /\ C!RowsAdvance
<1> DEFINE c == [call EXCEPT !.pc = "value"]
<1>1. ConfigTypes /\ ChangesInv /\ ValuesInv /\ AuditedInv
  BY Zenon DEF ConfigInv
<1>2. UNCHANGED <<deployment, currentValues, nextChangeID, values, audited, restarts, drawn, reused>>
  BY Zenon DEF C!persistConfigChange, C!ids
<1>3. call.pc = "change" /\ call \in ConfigCall /\ call # C!Idle
      /\ call.id \in C!Ids /\ call.change \in C!Change
  BY Zenon, <1>1, ConfigCallKind DEF C!persistConfigChange
<1>4. rows' = rows \/ rows' = C!Upserted
  BY Zenon DEF C!persistConfigChange, C!Failed
<1>5. C!RowsAdvance
  BY Zenon, <1>2, <1>3, <1>4, UpsertAdvances
<1>6. /\ rows' \in [C!Ids -> C!Change \cup {None}]
      /\ \A i \in C!Ids : i # call.id => rows'[i] = rows[i]
      /\ rows'[call.id] = rows[call.id] \/ (call.id \notin reused => rows'[call.id] = call.change)
  <2>1. CASE rows' = rows
    BY Zenon, <1>1, <2>1 DEF ConfigTypes
  <2>2. CASE rows' = C!Upserted
    BY Zenon, <1>3, <2>2, UpsertFacts
  <2> QED
    BY Zenon, <1>4, <2>1, <2>2
<1>7. \/ changes' = changes
      \/ changes' = IF C!Cache THEN [changes EXCEPT ![call.id] = call.change] ELSE changes
  BY Zenon DEF C!persistConfigChange, C!ChangePersisted
<1>8. /\ changes' \in [C!Ids -> C!Change \cup {None}]
      /\ \A i \in C!Ids : i # call.id => changes'[i] = changes[i]
      /\ changes'[call.id] = changes[call.id] \/ changes'[call.id] = call.change
      /\ ~C!Cache => changes' = changes
  <2>1. CASE changes' = changes
    BY Zenon, <1>1, <2>1 DEF ConfigTypes
  <2>2. CASE changes' = IF C!Cache THEN [changes EXCEPT ![call.id] = call.change] ELSE changes
    BY Zenon, <1>1, <1>3, <2>2, EntryWritten
  <2> QED
    BY Zenon, <1>7, <2>1, <2>2
<1>9. \/ call' = C!Idle
      \/ call' = c /\ call.action = "apply" /\ (C!UseDB => rows' = C!Upserted)
  BY Zenon DEF C!persistConfigChange, C!ChangePersisted, C!Return
<1>10. /\ c \in ConfigCall /\ c.pc = "value" /\ c.id = call.id /\ c.action = call.action
       /\ c.change = call.change /\ c # C!Idle
  <2>1. /\ c \in ConfigCall /\ c.pc = "value" /\ c.id = call.id /\ c.action = call.action
        /\ c.change = call.change
    BY Zenon, <1>3 DEF ConfigCall
  <2> QED
    BY Zenon, <2>1, ConfigIdle
<1> HIDE DEF c
<1>11. ConfigTypes'
  BY Zenon, <1>1, <1>2, <1>6, <1>8, <1>9, <1>10 DEF ConfigTypes
<1>12. ChangesInv'
  <2>1. \A i \in C!Ids \ reused : Linked(rows'[i], changes'[i], call', i)
    <3> TAKE i \in C!Ids \ reused
    <3>1. Linked(rows[i], changes[i], call, i)
      BY Zenon, <1>1 DEF ChangesInv
    <3>2. CASE i # call.id
      BY Zenon, <1>6, <1>8, <1>9, <1>10, <3>1, <3>2 DEF Linked
    <3>3. CASE i = call.id
      <4>1. /\ rows'[i] = rows[i] \/ rows'[i] = call.change
            /\ changes'[i] = changes[i] \/ changes'[i] = call.change
        BY Zenon, <1>6, <1>8, <3>3
      <4>2. /\ rows'[i] # None => Later(rows'[i], call.change)
            /\ changes'[i] # None => changes'[i] = call.change
        BY Zenon, <1>3, <3>1, <3>3, <4>1, LaterItself DEF Linked
      <4> QED
        BY Zenon, <1>9, <1>10, <4>2 DEF Linked
    <3> QED
      BY Zenon, <3>2, <3>3
  <2>2. call' # C!Idle => call'.id \in drawn /\ call'.change.status = Reached[call'.action]
    BY Zenon, <1>1, <1>3, <1>9, <1>10 DEF ChangesInv
  <2>3. \A i \in C!Ids \ drawn : rows'[i] = None /\ changes'[i] = None
    BY Zenon, <1>1, <1>3, <1>6, <1>8 DEF ChangesInv
  <2>4. ~C!Cache => \A i \in C!Ids : changes'[i] = None
    BY Zenon, <1>1, <1>8 DEF ChangesInv
  <2> QED
    BY Zenon, <1>2, <2>1, <2>2, <2>3, <2>4 DEF ChangesInv, C!Cache
<1>13. ValuesInv'
  <2>1. ASSUME reused = {}
        PROVE  \A i \in C!Ids : rows[i] # None /\ rows[i].status = "APPLIED" => rows'[i] = rows[i]
    <3> TAKE i \in C!Ids
    <3> HAVE rows[i] # None /\ rows[i].status = "APPLIED"
    <3>1. CASE i # call.id
      BY Zenon, <1>6, <3>1
    <3>2. CASE i = call.id
      <4>1. Later(rows[i], call.change) /\ rows[i] \in C!Change
        BY Zenon, <1>1, <1>3, <2>1, <3>2 DEF ChangesInv, Linked, ConfigTypes
      <4>2. call.change = rows[i]
        BY Zenon, <1>3, <4>1, NothingAfterApplied
      <4> QED
        BY Zenon, <1>6, <2>1, <3>2, <4>2
    <3> QED
      BY Zenon, <3>1, <3>2
  <2>2. ASSUME reused = {}
        PROVE  \A i \in C!Ids : changes[i] # None /\ changes[i].status = "APPLIED" => changes'[i] = changes[i]
    <3>1. changes[call.id] # None => changes[call.id] = call.change
      BY Zenon, <1>1, <1>3, <2>2 DEF ChangesInv, Linked
    <3> QED
      BY Zenon, <1>8, <3>1
  <2>3. C!ValuesComeFromChanges'
    BY Zenon, <1>1, <1>2, <2>1, <2>2, ValuesStay DEF ValuesInv
  <2>4. ASSUME call'.pc = "value"
        PROVE  /\ call'.change.status = "APPLIED"
               /\ C!UseDB /\ reused = {} => rows'[call'.id] = call'.change
    <3>1. call' = c /\ call.action = "apply" /\ (C!UseDB => rows' = C!Upserted)
      BY Zenon, <1>9, <2>4, ConfigIdle
    <3>2. call.change.status = "APPLIED"
      BY Zenon, <1>1, <1>3, <3>1, ReachedStatus DEF ChangesInv
    <3>3. C!UseDB /\ reused = {} => rows'[call.id] = call.change
      BY Zenon, <1>3, <3>1, UpsertFacts
    <3> QED
      BY Zenon, <1>10, <3>1, <3>2, <3>3
  <2> QED
    BY Zenon, <1>2, <2>3, <2>4 DEF ValuesInv, C!UseDB
<1>14. AuditedInv'
  <2>1. ASSUME C!UseDB, ~C!Cache, restarts = 0
        PROVE  /\ \A i \in C!Ids : RowBacked(audited, i, rows'[i])
               /\ call' # C!Idle => Preceded(audited, call')
    <3>1. Preceded(audited, call) /\ reused = {} /\ \A i \in C!Ids : RowBacked(audited, i, rows[i])
      BY Zenon, <1>1, <1>3, <2>1 DEF AuditedInv
    <3>2. Backed(audited, call.id, call.change, call.change.status)
      BY Zenon, <1>3, <3>1 DEF Preceded
    <3>3. \A i \in C!Ids : RowBacked(audited, i, rows'[i])
      BY Zenon, <1>6, <3>1, <3>2 DEF RowBacked
    <3>4. call' # C!Idle => Preceded(audited, call')
      BY Zenon, <1>9, <1>10, <3>1, <3>2 DEF Preceded
    <3> QED
      BY Zenon, <3>3, <3>4
  <2> QED
    BY Zenon, <1>1, <1>2, <2>1 DEF AuditedInv, C!UseDB, C!Cache
<1> QED
  BY Zenon, <1>5, <1>11, <1>12, <1>13, <1>14 DEF ConfigInv

LEMMA ValuePersistKeeps ==
    ASSUME ConfigInv, C!ConstantsAssumption, C!persistCurrentValue
    PROVE  ConfigInv' /\ C!RowsAdvance
<1> DEFINE key == call.change.key
<1> DEFINE val == call.change.value
<1>1. ConfigTypes /\ ChangesInv /\ ValuesInv /\ AuditedInv
  BY Zenon DEF ConfigInv
<1>2. /\ UNCHANGED <<deployment, changes, currentValues, nextChangeID, rows, audited, restarts, drawn, reused>>
      /\ call' = C!Idle
  BY Zenon DEF C!persistCurrentValue, C!memory, C!ids, C!Return
<1>3. call.pc = "value" /\ call \in ConfigCall /\ call # C!Idle /\ call.id \in C!Ids
      /\ call.change \in C!Change /\ key \in Keys /\ val \in Values
  BY Zenon, <1>1, ConfigCallKind, ChangeFields DEF C!persistCurrentValue
<1>4. values' = values \/ (C!UseDB /\ values' = [values EXCEPT ![key] = val])
  BY Zenon DEF C!persistCurrentValue, C!Failed
<1>5. call.change = [key |-> key, value |-> val, status |-> "APPLIED"]
  BY Zenon, <1>1, <1>3, ChangeFields DEF ValuesInv
<1> HIDE DEF key, val
<1>6. /\ values' \in [Keys -> Values \cup {None}]
      /\ \A k \in Keys : values'[k] = values[k] \/ (k = key /\ C!UseDB /\ values'[k] = val)
  BY Zenon, <1>1, <1>3, <1>4 DEF ConfigTypes
<1>7. ConfigTypes'
  BY Zenon, <1>1, <1>2, <1>6 DEF ConfigTypes
<1>8. ChangesInv'
  BY Zenon, <1>1, <1>2 DEF ChangesInv, Linked, C!Cache
<1>9. ValuesInv'
  <2>1. reused = {} => \A k \in Keys : values'[k] # None =>
           \E id \in C!Ids : rows[id] = [key |-> k, value |-> values'[k], status |-> "APPLIED"]
    <3> SUFFICES ASSUME reused = {}, NEW k \in Keys, values'[k] # None
                 PROVE  \E id \in C!Ids : rows[id] = [key |-> k, value |-> values'[k], status |-> "APPLIED"]
      BY Zenon
    <3>1. CASE values'[k] = values[k]
      BY Zenon, <1>1, <3>1 DEF ValuesInv, C!ValuesComeFromChanges
    <3>2. CASE k = key /\ C!UseDB /\ values'[k] = val
      <4>1. rows[call.id] = call.change
        BY Zenon, <1>1, <1>3, <3>2 DEF ValuesInv
      <4> QED
        BY Zenon, <1>3, <1>5, <3>2, <4>1
    <3> QED
      BY Zenon, <1>6, <3>1, <3>2
  <2> QED
    BY Zenon, <1>1, <1>2, <2>1, ConfigIdle DEF ValuesInv, C!ValuesComeFromChanges
<1>10. AuditedInv'
  <2>1. ASSUME C!UseDB, ~C!Cache, restarts = 0
        PROVE  \A k \in Keys : ValueBacked(audited, k, values'[k])
    <3>1. Preceded(audited, call) /\ \A k \in Keys : ValueBacked(audited, k, values[k])
      BY Zenon, <1>1, <1>3, <2>1 DEF AuditedInv
    <3>2. Backed(audited, call.id, call.change, "APPLIED")
      BY Zenon, <1>1, <1>3, <3>1 DEF Preceded, ValuesInv
    <3>3. call.change.key = key /\ call.change.value = val
      BY Zenon DEF key, val
    <3>4. Backed(audited, call.id, [key |-> key, value |-> val], "APPLIED")
      BY Zenon, <3>2, <3>3 DEF Backed
    <3>5. ValueBacked(audited, key, val)
      BY Zenon, <1>3, <3>4 DEF ValueBacked
    <3> QED
      BY Zenon, <1>6, <3>1, <3>5
  <2> QED
    BY Zenon, <1>1, <1>2, <2>1 DEF AuditedInv, C!UseDB, C!Cache
<1>11. C!RowsAdvance
  BY Zenon, <1>1, <1>2, RowsKept
<1> QED
  BY Zenon, <1>7, <1>8, <1>9, <1>10, <1>11 DEF ConfigInv

LEMMA ConfigRestartKeeps ==
    ASSUME ConfigInv, C!ConstantsAssumption, C!Restart
    PROVE  ConfigInv' /\ C!RowsAdvance
<1>1. ConfigTypes /\ ChangesInv /\ ValuesInv /\ AuditedInv
  BY Zenon DEF ConfigInv
<1>2. /\ changes' = [id \in C!Ids |-> None] /\ currentValues' = [k \in Keys |-> None]
      /\ nextChangeID' = 0 /\ call' = C!Idle /\ restarts' = restarts + 1
      /\ restarts < deployment.restarts
      /\ UNCHANGED <<deployment, rows, values, audited, drawn, reused>>
  BY Zenon DEF C!Restart, C!NewMaps, C!store, C!ids
<1>3. deployment.restarts \in Nat /\ restarts \in 0..deployment.restarts /\ MaxChanges \in Nat
  BY Zenon, <1>1 DEF ConfigTypes, C!Deployment, C!ConstantsAssumption
<1>4. restarts' \in 0..deployment.restarts /\ restarts' # 0 /\ 0 \in 0..MaxChanges
  BY <1>2, <1>3
<1>5. /\ changes' \in [C!Ids -> C!Change \cup {None}] /\ \A id \in C!Ids : changes'[id] = None
      /\ currentValues' \in [Keys -> Values \cup {None}] /\ \A k \in Keys : currentValues'[k] = None
  BY Zenon, <1>2
<1>6. ConfigTypes'
  BY Zenon, <1>1, <1>2, <1>4, <1>5 DEF ConfigTypes
<1>7. ChangesInv'
  BY Zenon, <1>1, <1>2, <1>5 DEF ChangesInv, Linked, C!Cache
<1>8. ValuesInv'
  BY Zenon, <1>1, <1>2, <1>5, ConfigIdle DEF ValuesInv, C!ValuesComeFromChanges
<1>9. AuditedInv'
  BY Zenon, <1>4 DEF AuditedInv
<1>10. C!RowsAdvance
  BY Zenon, <1>1, <1>2, RowsKept
<1> QED
  BY Zenon, <1>6, <1>7, <1>8, <1>9, <1>10 DEF ConfigInv

LEMMA ConfigInit == ASSUME C!ConstantsAssumption, C!Init PROVE ConfigInv
<1>1. /\ deployment \in ConfigDeployments /\ nextChangeID = 0 /\ audited = {} /\ call = C!Idle
      /\ restarts = 0 /\ drawn = {} /\ reused = {}
      /\ changes = [id \in C!Ids |-> None] /\ currentValues = [k \in Keys |-> None]
      /\ rows = [id \in C!Ids |-> None] /\ values = [k \in Keys |-> None]
  BY Zenon DEF C!Init
<1>2. deployment \in C!Deployment /\ deployment.restarts \in Nat /\ MaxChanges \in Nat
  BY Zenon, <1>1 DEF C!Deployment, C!ConstantsAssumption
<1>3. restarts \in 0..deployment.restarts /\ nextChangeID \in 0..MaxChanges /\ {} = 1..0
  BY <1>1, <1>2
<1>4. /\ changes \in [C!Ids -> C!Change \cup {None}] /\ \A id \in C!Ids : changes[id] = None
      /\ rows \in [C!Ids -> C!Change \cup {None}] /\ \A id \in C!Ids : rows[id] = None
      /\ currentValues \in [Keys -> Values \cup {None}] /\ \A k \in Keys : currentValues[k] = None
      /\ values \in [Keys -> Values \cup {None}] /\ \A k \in Keys : values[k] = None
  BY Zenon, <1>1
<1>5. ConfigTypes
  BY Zenon, <1>1, <1>2, <1>3, <1>4 DEF ConfigTypes
<1>6. ChangesInv
  BY Zenon, <1>1, <1>4 DEF ChangesInv, Linked
<1>7. ValuesInv
  BY Zenon, <1>1, <1>4, ConfigIdle DEF ValuesInv, C!ValuesComeFromChanges
<1>8. AuditedInv
  BY Zenon, <1>1, <1>3, <1>4 DEF AuditedInv, RowBacked, ValueBacked
<1> QED
  BY Zenon, <1>5, <1>6, <1>7, <1>8 DEF ConfigInv

\* Every step of the configuration service keeps the invariant, and rows only advance.
LEMMA ConfigStep ==
    ASSUME ConfigInv, C!ConstantsAssumption, C!Next
    PROVE  ConfigInv' /\ C!RowsAdvance
BY Zenon, ProposeKeeps, ApproveKeeps, ConfigAuditKeeps, ChangePersistKeeps, ValuePersistKeeps,
   ConfigRestartKeeps DEF C!Next

\* The events that back a change are its trail.
LEMMA TrailBacked ==
    ASSUME NEW trail, NEW id, NEW c, NEW s \in C!Statuses, Backed(trail, id, c, s)
    PROVE  C!Trail(id, c, s) \subseteq trail
<1>1. CASE s = "PROPOSED"
  <2>1. C!Trail(id, c, s) = {<<action, id, c.key, c.value>> : action \in {"propose"}}
    BY <1>1 DEF C!Trail
  <2> QED
    BY Zenon, <2>1 DEF Backed
<1>2. CASE s = "APPROVED"
  <2>1. C!Trail(id, c, s) = {<<action, id, c.key, c.value>> : action \in {"propose", "approve"}}
    BY <1>2 DEF C!Trail
  <2> QED
    BY Zenon, <1>2, <2>1 DEF Backed
<1>3. CASE s = "APPLIED"
  <2>1. C!Trail(id, c, s) = {<<action, id, c.key, c.value>> : action \in {"propose", "approve", "apply"}}
    BY <1>3 DEF C!Trail
  <2> QED
    BY Zenon, <1>3, <2>1 DEF Backed
<1> QED
  BY Zenon, <1>1, <1>2, <1>3 DEF C!Statuses

LEMMA ConfigHold ==
    ASSUME ConfigInv
    PROVE  C!TypeOK /\ C!ValuesComeFromChanges /\ C!HistoryIsAudited
<1>1. ConfigTypes /\ ChangesInv /\ ValuesInv /\ AuditedInv
  BY Zenon DEF ConfigInv
<1>2. C!TypeOK
  <2>1. /\ call.pc \in {"idle", "audit", "change", "value"}
        /\ call # C!Idle => call.id \in C!Ids /\ call.change \in C!Change
    BY Zenon, <1>1, ConfigCallKind, ConfigIdle
  <2> QED
    BY Zenon, <1>1, <2>1 DEF ConfigTypes, C!TypeOK, Actions
<1>3. C!ValuesComeFromChanges
  BY Zenon, <1>1 DEF ValuesInv
<1>4. ASSUME C!UseDB, ~C!Cache, restarts = 0
      PROVE  /\ \A id \in C!Ids : rows[id] # None => C!Trail(id, rows[id], rows[id].status) \subseteq audited
             /\ \A k \in Keys : values[k] # None =>
                   \E id \in C!Ids : C!Trail(id, [key |-> k, value |-> values[k]], "APPLIED") \subseteq audited
  <2>1. /\ \A id \in C!Ids : RowBacked(audited, id, rows[id])
        /\ \A k \in Keys : ValueBacked(audited, k, values[k])
    BY Zenon, <1>1, <1>4 DEF AuditedInv
  <2>2. \A id \in C!Ids : rows[id] # None => rows[id].status \in C!Statuses
    BY Zenon, <1>1, ChangeFields DEF ConfigTypes
  <2>3. "APPLIED" \in C!Statuses
    BY Zenon DEF C!Statuses
  <2>4. \A id \in C!Ids : rows[id] # None => C!Trail(id, rows[id], rows[id].status) \subseteq audited
    BY Zenon, <2>1, <2>2, TrailBacked DEF RowBacked
  <2>5. \A k \in Keys : values[k] # None =>
           \E id \in C!Ids : C!Trail(id, [key |-> k, value |-> values[k]], "APPLIED") \subseteq audited
    BY Zenon, <2>1, <2>3, TrailBacked DEF ValueBacked
  <2> QED
    BY Zenon, <2>4, <2>5
<1>5. C!HistoryIsAudited
  BY Zenon, <1>4 DEF C!HistoryIsAudited
<1> QED
  BY Zenon, <1>2, <1>3, <1>5

-----------------------------------------------------------------------------
(* Events.                                                                   *)

INSTANCE FiniteSetTheorems

EventCall == [pc : {"audit", "persist"}, id : E!RecordIds, record : E!Record]

EventTypes ==
    /\ deployment \in EventDeployments /\ deployment \in E!Deployment
    /\ records \in [E!RecordIds -> E!Record \cup {None}]
    /\ rows \in [E!RecordIds -> E!Record \cup {None}]
    /\ buffers \in Seq({"queued", "acknowledged"}) /\ Len(buffers) <= MaxSubmissions
    /\ disabled \in BOOLEAN /\ failed \in Nat /\ bufferRows \in Nat
    /\ equipment \subseteq Equipment
    /\ audited \subseteq E!RecordIds \X E!Record
    /\ call \in {E!Idle} \cup EventCall
    /\ restarts \in 0..deployment.restarts

Slots(b) == {i \in DOMAIN b : b[i] = "queued"}
Open(c) == IF c = E!Idle THEN 0 ELSE 1

\* What BufferAccounts says, with the call in progress in the count of the rows
Accounts(b, c, f, d, n, counted) ==
    /\ Cardinality(Slots(b)) = f + Open(c)
    /\ Cardinality(Slots(b)) <= bufferCap
    /\ d => f = bufferCap
    /\ c # E!Idle => Len(b) \in DOMAIN b /\ b[Len(b)] = "queued"
    /\ counted => Len(b) - Cardinality(Slots(b)) <= n /\ n + Open(c) <= Len(b)

AccountsInv == Accounts(buffers, call, failed, disabled, bufferRows, E!UseDB /\ restarts = 0)

StoredInv ==
    /\ call # E!Idle => records[call.id] = None
    /\ call.pc = "persist" => <<call.id, call.record>> \in audited
    /\ \A id \in E!RecordIds, r \in E!Record :
          /\ records[id] = r \/ rows[id] = r => <<id, r>> \in audited
          /\ rows[id] = r => r.equipment \in equipment

EventsInv == EventTypes /\ AccountsInv /\ StoredInv

LEMMA SlotsAreFinite ==
    ASSUME NEW b \in Seq({"queued", "acknowledged"})
    PROVE  /\ IsFiniteSet(Slots(b)) /\ Cardinality(Slots(b)) \in Nat
           /\ Len(b) \in Nat /\ DOMAIN b = 1..Len(b)
<1>1. Len(b) \in Nat /\ DOMAIN b = 1..Len(b)
  OBVIOUS
<1>2. IsFiniteSet(1..Len(b))
  <2>1. 1 \in Int /\ Len(b) \in Int
    BY <1>1
  <2> QED
    BY Zenon, <2>1, FS_Interval
<1>3. Slots(b) \subseteq 1..Len(b)
  BY Zenon, <1>1 DEF Slots
<1> QED
  BY Zenon, <1>1, <1>2, <1>3, FS_Subset, FS_CardinalityType

LEMMA SlotTaken ==
    ASSUME NEW b \in Seq({"queued", "acknowledged"})
    PROVE  LET c == Append(b, "queued") IN
           /\ c \in Seq({"queued", "acknowledged"}) /\ Len(c) = Len(b) + 1
           /\ Len(c) \in DOMAIN c /\ c[Len(c)] = "queued"
           /\ Cardinality(Slots(c)) = Cardinality(Slots(b)) + 1
<1> DEFINE c == Append(b, "queued")
<1>1. /\ Len(b) \in Nat /\ DOMAIN b = 1..Len(b) /\ IsFiniteSet(Slots(b))
  BY Zenon, SlotsAreFinite
<1>2. /\ c \in Seq({"queued", "acknowledged"}) /\ Len(c) = Len(b) + 1
      /\ \A i \in 1..Len(b) : c[i] = b[i]
      /\ c[Len(b) + 1] = "queued"
  OBVIOUS
<1>3. DOMAIN c = 1..(Len(b) + 1)
  BY <1>2
<1> HIDE DEF c
<1>4. /\ 1..(Len(b) + 1) = (1..Len(b)) \cup {Len(b) + 1} /\ Len(b) + 1 \notin 1..Len(b)
      /\ Len(b) + 1 \in 1..(Len(b) + 1)
  BY <1>1
<1>5. Slots(c) = Slots(b) \cup {Len(b) + 1} /\ Len(b) + 1 \notin Slots(b)
  BY Zenon, <1>1, <1>2, <1>3, <1>4 DEF Slots
<1>6. Cardinality(Slots(c)) = Cardinality(Slots(b)) + 1
  BY Zenon, <1>1, <1>5, FS_AddElement
<1> QED
  BY Zenon, <1>2, <1>3, <1>4, <1>6 DEF c

LEMMA SlotGivenBack ==
    ASSUME NEW b \in Seq({"queued", "acknowledged"}), Len(b) \in DOMAIN b, b[Len(b)] = "queued"
    PROVE  LET c == [b EXCEPT ![Len(b)] = "acknowledged"] IN
           /\ c \in Seq({"queued", "acknowledged"}) /\ Len(c) = Len(b)
           /\ Cardinality(Slots(c)) = Cardinality(Slots(b)) - 1
<1> DEFINE c == [b EXCEPT ![Len(b)] = "acknowledged"]
<1>1. Len(b) \in Nat /\ DOMAIN b = 1..Len(b) /\ IsFiniteSet(Slots(b))
  BY Zenon, SlotsAreFinite
<1>2. c \in Seq({"queued", "acknowledged"}) /\ Len(c) = Len(b)
  <2>1. Len(b) \in 1..Len(b) /\ "acknowledged" \in {"queued", "acknowledged"}
    BY Zenon, <1>1
  <2> QED
    BY <2>1
<1>3. /\ DOMAIN c = DOMAIN b /\ c[Len(b)] = "acknowledged"
      /\ \A i \in DOMAIN b : i # Len(b) => c[i] = b[i]
  BY Zenon
<1> HIDE DEF c
<1>4. Slots(c) = Slots(b) \ {Len(b)} /\ Len(b) \in Slots(b)
  BY Zenon, <1>3 DEF Slots
<1>5. Cardinality(Slots(c)) = Cardinality(Slots(b)) - 1
  BY Zenon, <1>1, <1>4, FS_RemoveElement
<1> QED
  BY Zenon, <1>2, <1>5 DEF c

LEMMA EventIdle == E!Idle.pc = "idle" /\ E!Idle \notin EventCall /\ Open(E!Idle) = 0
<1>1. E!Idle.pc = "idle"
  BY Zenon DEF E!Idle
<1> QED
  BY Zenon, <1>1 DEF EventCall, Open

LEMMA EventCallKind ==
    ASSUME EventTypes
    PROVE  /\ call = E!Idle \/ call \in EventCall
           /\ call.pc \in {"audit", "persist"} => call \in EventCall /\ call # E!Idle /\ Open(call) = 1
           /\ call \in EventCall => call.id \in E!RecordIds /\ call.record \in E!Record
<1>1. call = E!Idle \/ call \in EventCall
  BY Zenon DEF EventTypes
<1>2. call.pc \in {"audit", "persist"} => call \in EventCall /\ call # E!Idle
  BY Zenon, <1>1, EventIdle
<1> QED
  BY Zenon, <1>1, <1>2 DEF EventCall, Open

\* The numbers of a buffer
LEMMA BufferNumbers ==
    ASSUME EventTypes, E!ConstantsAssumption
    PROVE  /\ Cardinality(Slots(buffers)) \in Nat /\ Len(buffers) \in Nat /\ failed \in Nat
           /\ bufferRows \in Nat /\ bufferCap \in Nat \ {0} /\ MaxSubmissions \in Nat
BY Zenon, SlotsAreFinite DEF EventTypes, E!ConstantsAssumption

LEMMA QueuedSlots == E!queued = Cardinality(Slots(buffers))
BY Zenon DEF E!queued, Slots, E!Cardinality, Cardinality

\* A submission without a free slot disables ingress: all slots are failed submissions.
LEMMA ExhaustedAccounts ==
    ASSUME EventTypes, E!ConstantsAssumption, AccountsInv, call = E!Idle,
           disabled \/ E!queued >= bufferCap
    PROVE  failed = bufferCap
<1>1. Cardinality(Slots(buffers)) = failed /\ Cardinality(Slots(buffers)) <= bufferCap
  <2>1. /\ Cardinality(Slots(buffers)) = failed + Open(call)
        /\ Cardinality(Slots(buffers)) <= bufferCap
    BY Zenon DEF AccountsInv, Accounts
  <2>2. Open(call) = 0
    BY Zenon, EventIdle
  <2>3. failed + 0 = failed
    BY BufferNumbers
  <2> QED
    BY Zenon, <2>1, <2>2, <2>3
<1>2. CASE disabled
  BY Zenon, <1>2 DEF AccountsInv, Accounts
<1>3. CASE Cardinality(Slots(buffers)) >= bufferCap
  BY <1>1, <1>3, BufferNumbers
<1> QED
  BY Zenon, <1>2, <1>3, QueuedSlots

\* The parts of the events service that a step of the buffer leaves alone
EventStores == <<deployment, records, rows, equipment, audited, restarts>>

LEMMA RefusedKeeps ==
    ASSUME EventsInv, E!ConstantsAssumption, call = E!Idle, call' = E!Idle, E!bufferExhausted,
           UNCHANGED <<EventStores, failed, bufferRows>>
    PROVE  EventsInv'
<1>1. /\ disabled' = TRUE /\ buffers' = buffers /\ call' = call /\ failed' = failed
      /\ bufferRows' = bufferRows /\ UNCHANGED <<deployment, records, rows, equipment, audited, restarts>>
      /\ (disabled \/ E!queued >= bufferCap)
  BY Zenon DEF E!bufferExhausted, EventStores
<1>2. EventTypes /\ AccountsInv /\ StoredInv
  BY Zenon DEF EventsInv
<1>3. failed = bufferCap
  BY Zenon, <1>1, <1>2, ExhaustedAccounts
<1>4. EventTypes'
  BY Zenon, <1>1, <1>2 DEF EventTypes
<1>5. Accounts(buffers, call, failed, TRUE, bufferRows, E!UseDB /\ restarts = 0)
  BY Zenon, <1>2, <1>3 DEF AccountsInv, Accounts
<1>6. AccountsInv'
  BY Zenon, <1>1, <1>5 DEF AccountsInv, E!UseDB
<1>7. StoredInv'
  BY Zenon, <1>1, <1>2 DEF StoredInv
<1> QED
  BY Zenon, <1>4, <1>6, <1>7 DEF EventsInv

LEMMA QueuedKeeps ==
    ASSUME EventsInv, E!ConstantsAssumption, call = E!Idle, E!queueBuffer,
           NEW id \in E!RecordIds, NEW record \in E!Record, records[id] = None,
           call' = [pc |-> "audit", id |-> id, record |-> record],
           UNCHANGED <<EventStores, failed, bufferRows>>
    PROVE  EventsInv'
<1> DEFINE b == Append(buffers, "queued")
<1> DEFINE c == [pc |-> "audit", id |-> id, record |-> record]
<1>1. /\ ~disabled /\ disabled' = disabled /\ buffers' = b /\ call' = c /\ failed' = failed
      /\ bufferRows' = bufferRows /\ UNCHANGED <<deployment, records, rows, equipment, audited, restarts>>
      /\ E!queued < bufferCap /\ Len(buffers) < MaxSubmissions
  BY Zenon DEF E!queueBuffer, EventStores
<1>2. EventTypes /\ AccountsInv /\ StoredInv
  BY Zenon DEF EventsInv
<1>3. /\ b \in Seq({"queued", "acknowledged"}) /\ Len(b) = Len(buffers) + 1
      /\ Len(b) \in DOMAIN b /\ b[Len(b)] = "queued"
      /\ Cardinality(Slots(b)) = Cardinality(Slots(buffers)) + 1
  BY Zenon, <1>2, SlotTaken DEF EventTypes
<1> HIDE DEF b
<1>4. c \in EventCall /\ c # E!Idle /\ c.pc = "audit" /\ c.id = id
  <2>1. c \in EventCall /\ c.pc = "audit" /\ c.id = id
    BY Zenon DEF EventCall
  <2> QED
    BY Zenon, <2>1, EventIdle
<1> HIDE DEF c
<1>5. Open(c) = 1 /\ Open(call) = 0
  BY Zenon, <1>4, EventIdle DEF Open
<1>6. Len(b) <= MaxSubmissions
  BY <1>1, <1>2, <1>3, BufferNumbers
<1>7. EventTypes'
  BY Zenon, <1>1, <1>2, <1>3, <1>4, <1>6 DEF EventTypes
<1>8. Accounts(b, c, failed, disabled, bufferRows, E!UseDB /\ restarts = 0)
  <2> DEFINE q == Cardinality(Slots(buffers))
  <2> DEFINE n == Len(buffers)
  <2>1. /\ q \in Nat /\ n \in Nat /\ failed \in Nat /\ bufferRows \in Nat /\ bufferCap \in Nat
        /\ q = failed + 0 /\ q < bufferCap
        /\ (E!UseDB /\ restarts = 0) => n - q <= bufferRows /\ bufferRows + 0 <= n
    BY Zenon, <1>1, <1>2, <1>5, BufferNumbers, QueuedSlots DEF AccountsInv, Accounts
  <2>2. Cardinality(Slots(b)) = q + 1 /\ Len(b) = n + 1
    BY Zenon, <1>3
  <2> HIDE DEF q, n
  <2>3. /\ Cardinality(Slots(b)) = failed + 1 /\ Cardinality(Slots(b)) <= bufferCap
        /\ (E!UseDB /\ restarts = 0) => Len(b) - Cardinality(Slots(b)) <= bufferRows /\ bufferRows + 1 <= Len(b)
    BY <2>1, <2>2
  <2> QED
    BY Zenon, <1>1, <1>3, <1>5, <2>3 DEF Accounts
<1>9. AccountsInv'
  BY Zenon, <1>1, <1>8 DEF AccountsInv, E!UseDB
<1>10. StoredInv'
  BY Zenon, <1>1, <1>2, <1>4 DEF StoredInv
<1> QED
  BY Zenon, <1>7, <1>9, <1>10 DEF EventsInv

LEMMA SubmitKeeps ==
    ASSUME EventsInv, E!ConstantsAssumption, NEW actor, NEW id \in E!RecordIds \cup {None},
           NEW q \in Equipment \cup {None}, NEW type \in {"event", "snapshot", "delta"},
           E!Submit(actor, id, [equipment |-> q, type |-> type])
    PROVE  EventsInv' /\ rows' = rows /\ records' = records
<1> DEFINE record == [equipment |-> q, type |-> type]
<1>1. call = E!Idle /\ UNCHANGED <<EventStores, failed, bufferRows>>
  BY Zenon DEF E!Submit, EventStores, E!tables
<1>2. rows' = rows /\ records' = records
  BY Zenon, <1>1 DEF EventStores
<1>3. CASE E!Return /\ UNCHANGED <<buffers, disabled>>
  <2>1. UNCHANGED <<deployment, records, rows, equipment, audited, restarts, failed, bufferRows,
                    buffers, disabled, call>>
    BY Zenon, <1>1, <1>3 DEF E!Return, EventStores
  <2> QED
    BY Zenon, <1>2, <2>1 DEF EventsInv, EventTypes, AccountsInv, StoredInv, E!UseDB
<1>4. CASE E!bufferExhausted /\ E!Return
  BY Zenon, <1>1, <1>2, <1>4, RefusedKeeps DEF E!Return
<1>5. CASE /\ id # None /\ record.equipment # None /\ records[id] = None
           /\ E!queueBuffer /\ call' = [pc |-> "audit", id |-> id, record |-> record]
  <2>1. id \in E!RecordIds /\ record \in E!Record
    BY Zenon, <1>5 DEF E!Record
  <2> QED
    BY Zenon, <1>1, <1>2, <1>5, <2>1, QueuedKeeps
<1> QED
  BY Zenon, <1>3, <1>4, <1>5 DEF E!Submit

\* A call that fails leaves its slot queued: one more failure, one call less.
LEMMA FailedAccounts ==
    ASSUME EventTypes, E!ConstantsAssumption, AccountsInv, call # E!Idle, NEW n \in Nat,
           bufferRows <= n, n <= bufferRows + 1
    PROVE  Accounts(buffers, E!Idle, failed + 1, disabled, n, E!UseDB /\ restarts = 0)
<1> DEFINE s == Cardinality(Slots(buffers))
<1>1. Open(call) = 1 /\ Open(E!Idle) = 0
  BY Zenon DEF Open
<1>2. /\ s \in Nat /\ Len(buffers) \in Nat /\ failed \in Nat /\ bufferRows \in Nat /\ bufferCap \in Nat
      /\ s = failed + 1 /\ s <= bufferCap /\ (disabled => failed = bufferCap)
      /\ (E!UseDB /\ restarts = 0) => Len(buffers) - s <= bufferRows /\ bufferRows + 1 <= Len(buffers)
  BY Zenon, <1>1, BufferNumbers DEF AccountsInv, Accounts
<1> HIDE DEF s
<1>3. /\ s = (failed + 1) + 0 /\ ~disabled
      /\ (E!UseDB /\ restarts = 0) => Len(buffers) - s <= n /\ n + 0 <= Len(buffers)
  BY <1>2
<1> QED
  BY Zenon, <1>1, <1>2, <1>3 DEF Accounts, s

\* A call that succeeds gives its slot back.
LEMMA AcknowledgedAccounts ==
    ASSUME EventTypes, E!ConstantsAssumption, AccountsInv, call # E!Idle, NEW n \in Nat,
           n = IF E!UseDB THEN bufferRows + 1 ELSE bufferRows
    PROVE  LET b == [buffers EXCEPT ![Len(buffers)] = "acknowledged"] IN
           /\ b \in Seq({"queued", "acknowledged"}) /\ Len(b) = Len(buffers)
           /\ Accounts(b, E!Idle, failed, disabled, n, E!UseDB /\ restarts = 0)
<1> DEFINE s == Cardinality(Slots(buffers))
<1> DEFINE b == [buffers EXCEPT ![Len(buffers)] = "acknowledged"]
<1>1. Open(call) = 1 /\ Open(E!Idle) = 0
  BY Zenon DEF Open
<1>2. /\ s \in Nat /\ Len(buffers) \in Nat /\ failed \in Nat /\ bufferRows \in Nat /\ bufferCap \in Nat
      /\ s = failed + 1 /\ s <= bufferCap /\ (disabled => failed = bufferCap)
      /\ (E!UseDB /\ restarts = 0) => Len(buffers) - s <= bufferRows /\ bufferRows + 1 <= Len(buffers)
  BY Zenon, <1>1, BufferNumbers DEF AccountsInv, Accounts
<1>3. Len(buffers) \in DOMAIN buffers /\ buffers[Len(buffers)] = "queued"
  BY Zenon DEF AccountsInv, Accounts
<1>4. /\ b \in Seq({"queued", "acknowledged"}) /\ Len(b) = Len(buffers)
      /\ Cardinality(Slots(b)) = s - 1
  BY Zenon, <1>3, SlotGivenBack DEF EventTypes
<1>5. E!UseDB => n = bufferRows + 1
  BY Zenon
<1> HIDE DEF s, b
<1>6. /\ s - 1 = failed + 0 /\ s - 1 <= bufferCap /\ ~disabled
      /\ (E!UseDB /\ restarts = 0) => Len(buffers) - (s - 1) <= n /\ n + 0 <= Len(buffers)
  BY <1>2, <1>5
<1> QED
  BY Zenon, <1>1, <1>4, <1>6 DEF Accounts, b

LEMMA EventAuditKeeps ==
    ASSUME EventsInv, E!ConstantsAssumption, E!appendAudit
    PROVE  EventsInv' /\ rows' = rows /\ records' = records
<1> DEFINE e == <<call.id, call.record>>
<1>1. EventTypes /\ AccountsInv /\ StoredInv
  BY Zenon DEF EventsInv
<1>2. /\ UNCHANGED <<deployment, records, buffers, disabled, rows, equipment, bufferRows, restarts>>
  BY Zenon DEF E!appendAudit, E!tables
<1>3. call.pc = "audit" /\ call \in EventCall /\ call # E!Idle /\ call.id \in E!RecordIds
      /\ call.record \in E!Record
  BY Zenon, <1>1, EventCallKind DEF E!appendAudit
<1>4. e \in E!RecordIds \X E!Record
  BY Zenon, <1>3
<1>5. audited' = audited \/ audited' = audited \cup {e}
  BY Zenon DEF E!appendAudit
<1>6. audited \subseteq audited' /\ audited' \subseteq E!RecordIds \X E!Record
  BY Zenon, <1>1, <1>4, <1>5 DEF EventTypes
<1>7. CASE call' = E!Idle /\ failed' = failed + 1
  <2>1. failed \in Nat /\ bufferRows \in Nat
    BY Zenon, <1>1 DEF EventTypes
  <2>2. failed + 1 \in Nat /\ bufferRows <= bufferRows /\ bufferRows <= bufferRows + 1
    BY <2>1
  <2>3. Accounts(buffers, E!Idle, failed + 1, disabled, bufferRows, E!UseDB /\ restarts = 0)
    BY Zenon, <1>1, <1>3, <2>1, <2>2, FailedAccounts
  <2>4. AccountsInv'
    BY Zenon, <1>2, <1>7, <2>3 DEF AccountsInv, E!UseDB
  <2>5. EventTypes'
    BY Zenon, <1>1, <1>2, <1>6, <1>7, <2>2 DEF EventTypes
  <2>6. StoredInv'
    BY Zenon, <1>1, <1>2, <1>6, <1>7, EventIdle DEF StoredInv
  <2> QED
    BY Zenon, <1>2, <2>4, <2>5, <2>6 DEF EventsInv
<1>8. CASE /\ audited' = audited \cup {e} /\ call' = [call EXCEPT !.pc = "persist"]
           /\ UNCHANGED failed
  <2> DEFINE c == [call EXCEPT !.pc = "persist"]
  <2>1. c \in EventCall /\ c.id = call.id /\ c.record = call.record /\ c.pc = "persist"
    BY Zenon, <1>3 DEF EventCall
  <2>2. call' = c
    BY Zenon, <1>8
  <2> HIDE DEF c
  <2>3. c # E!Idle /\ Open(c) = 1 /\ Open(call) = 1
    BY Zenon, <1>3, <2>1, EventIdle DEF Open
  <2>4. Accounts(buffers, c, failed, disabled, bufferRows, E!UseDB /\ restarts = 0)
    BY Zenon, <1>1, <1>3, <2>3 DEF AccountsInv, Accounts
  <2>5. AccountsInv'
    BY Zenon, <1>2, <1>8, <2>2, <2>4 DEF AccountsInv, E!UseDB
  <2>6. EventTypes'
    BY Zenon, <1>1, <1>2, <1>6, <1>8, <2>1, <2>2 DEF EventTypes
  <2>7. StoredInv'
    <3>1. <<c.id, c.record>> \in audited' /\ records[c.id] = None
      BY Zenon, <1>1, <1>3, <1>8, <2>1 DEF StoredInv
    <3> QED
      BY Zenon, <1>1, <1>2, <1>6, <2>2, <3>1 DEF StoredInv
  <2> QED
    BY Zenon, <1>2, <2>5, <2>6, <2>7 DEF EventsInv
<1> QED
  BY Zenon, <1>2, <1>7, <1>8 DEF E!appendAudit, E!Fail, E!Return

\* The transaction of a call, committed or not: what it leaves is audited, rows stay.
LEMMA InsertKeeps ==
    ASSUME EventTypes, StoredInv, call \in EventCall, call.pc = "persist", E!ConstantsAssumption,
           E!Insert \/ UNCHANGED <<rows, equipment, bufferRows>>
    PROVE  /\ rows' \in [E!RecordIds -> E!Record \cup {None}] /\ equipment' \subseteq Equipment
           /\ \A id \in E!RecordIds : rows[id] # None => rows'[id] = rows[id]
           /\ \A id \in E!RecordIds, r \in E!Record :
                 rows'[id] = r => <<id, r>> \in audited /\ r.equipment \in equipment'
           /\ bufferRows' \in Nat /\ bufferRows <= bufferRows' /\ bufferRows' <= bufferRows + 1
<1>1. bufferRows \in Nat /\ rows \in [E!RecordIds -> E!Record \cup {None}] /\ equipment \subseteq Equipment
  BY Zenon DEF EventTypes
<1>2. bufferRows' = bufferRows + 1 \/ bufferRows' = bufferRows
  BY Zenon DEF E!Insert
<1>3. bufferRows' \in Nat /\ bufferRows <= bufferRows' /\ bufferRows' <= bufferRows + 1
  BY <1>1, <1>2
<1>4. CASE UNCHANGED <<rows, equipment, bufferRows>>
  BY Zenon, <1>1, <1>3, <1>4 DEF StoredInv
<1>5. CASE E!Insert
  <2>1. /\ equipment' = equipment \cup {call.record.equipment}
        /\ rows' = [rows EXCEPT ![call.id] = IF rows[call.id] = None THEN call.record ELSE rows[call.id]]
    BY Zenon, <1>5 DEF E!Insert
  <2>2. call.id \in E!RecordIds /\ call.record \in E!Record /\ call.record.equipment \in Equipment
    BY Zenon DEF EventCall, E!Record
  <2>3. equipment' \subseteq Equipment
    BY Zenon, <1>1, <2>1, <2>2
  <2>4. \A id \in E!RecordIds :
           rows'[id] = rows[id] \/ (id = call.id /\ rows[id] = None /\ rows'[id] = call.record)
    BY Zenon, <1>1, <2>1
  <2>5. rows' \in [E!RecordIds -> E!Record \cup {None}]
    <3>1. (IF rows[call.id] = None THEN call.record ELSE rows[call.id]) \in E!Record \cup {None}
      BY Zenon, <1>1, <2>2
    <3> QED
      BY Zenon, <1>1, <2>1, <3>1
  <2>6. \A id \in E!RecordIds, r \in E!Record :
           rows'[id] = r => <<id, r>> \in audited /\ r.equipment \in equipment'
    BY Zenon, <2>1, <2>2, <2>4 DEF StoredInv
  <2>7. \A id \in E!RecordIds : rows[id] # None => rows'[id] = rows[id]
    BY Zenon, <2>4
  <2> QED
    BY Zenon, <1>3, <2>3, <2>5, <2>6, <2>7
<1> QED
  BY Zenon, <1>4, <1>5

LEMMA EventPersistKeeps ==
    ASSUME EventsInv, E!ConstantsAssumption, E!persist
    PROVE  EventsInv' /\ E!FirstRecordStays
<1>1. EventTypes /\ AccountsInv /\ StoredInv
  BY Zenon DEF EventsInv
<1>2. UNCHANGED <<deployment, disabled, audited, restarts>>
  BY Zenon DEF E!persist
<1>3. call.pc = "persist" /\ call \in EventCall /\ call # E!Idle /\ call.id \in E!RecordIds
      /\ call.record \in E!Record /\ call' = E!Idle
  BY Zenon, <1>1, EventCallKind DEF E!persist, E!Fail, E!Return, E!StoreAndAnswer
<1>4. E!Insert \/ UNCHANGED <<rows, equipment, bufferRows>>
  BY Zenon DEF E!persist, E!tables
<1>5. /\ rows' \in [E!RecordIds -> E!Record \cup {None}] /\ equipment' \subseteq Equipment
      /\ \A id \in E!RecordIds : rows[id] # None => rows'[id] = rows[id]
      /\ \A id \in E!RecordIds, r \in E!Record :
            rows'[id] = r => <<id, r>> \in audited /\ r.equipment \in equipment'
      /\ bufferRows' \in Nat /\ bufferRows <= bufferRows' /\ bufferRows' <= bufferRows + 1
  BY Zenon, <1>1, <1>3, <1>4, InsertKeeps
<1>6. failed \in Nat /\ failed + 1 \in Nat
  <2>1. failed \in Nat
    BY Zenon, <1>1 DEF EventTypes
  <2> QED
    BY <2>1
<1>7. records \in [E!RecordIds -> E!Record \cup {None}] /\ records[call.id] = None
  BY Zenon, <1>1, <1>3 DEF EventTypes, StoredInv
<1>8. CASE failed' = failed + 1 /\ UNCHANGED <<records, buffers>>
  <2>1. Accounts(buffers, E!Idle, failed + 1, disabled, bufferRows', E!UseDB /\ restarts = 0)
    BY Zenon, <1>1, <1>3, <1>5, FailedAccounts
  <2>2. AccountsInv'
    BY Zenon, <1>2, <1>3, <1>8, <2>1 DEF AccountsInv, E!UseDB
  <2>3. EventTypes'
    BY Zenon, <1>1, <1>2, <1>3, <1>5, <1>6, <1>8 DEF EventTypes
  <2>4. StoredInv'
    BY Zenon, <1>1, <1>2, <1>3, <1>5, <1>8, EventIdle DEF StoredInv
  <2>5. E!FirstRecordStays
    BY Zenon, <1>5, <1>8 DEF E!FirstRecordStays
  <2> QED
    BY Zenon, <2>2, <2>3, <2>4, <2>5 DEF EventsInv
<1>9. CASE /\ E!acknowledgeBuffer /\ UNCHANGED failed
           /\ records' = IF E!Cache THEN [records EXCEPT ![call.id] = call.record] ELSE records
           /\ IF E!UseDB THEN E!Insert ELSE UNCHANGED <<rows, equipment, bufferRows>>
  <2> DEFINE b == [buffers EXCEPT ![Len(buffers)] = "acknowledged"]
  <2>1. bufferRows' = IF E!UseDB THEN bufferRows + 1 ELSE bufferRows
    BY Zenon, <1>9 DEF E!Insert
  <2>2. /\ b \in Seq({"queued", "acknowledged"}) /\ Len(b) = Len(buffers)
        /\ Accounts(b, E!Idle, failed, disabled, bufferRows', E!UseDB /\ restarts = 0)
    BY Zenon, <1>1, <1>3, <1>5, <2>1, AcknowledgedAccounts
  <2>3. buffers' = b
    BY Zenon, <1>9 DEF E!acknowledgeBuffer
  <2> HIDE DEF b
  <2>4. AccountsInv'
    BY Zenon, <1>2, <1>3, <1>9, <2>2, <2>3 DEF AccountsInv, E!UseDB
  <2>5. \A id \in E!RecordIds :
           records'[id] = records[id] \/ (id = call.id /\ records'[id] = call.record)
    BY Zenon, <1>7, <1>9
  <2>6. records' \in [E!RecordIds -> E!Record \cup {None}]
    BY Zenon, <1>3, <1>7, <1>9
  <2>7. EventTypes'
    BY Zenon, <1>1, <1>2, <1>3, <1>5, <1>9, <2>2, <2>3, <2>6 DEF EventTypes
  <2>8. StoredInv'
    <3>1. <<call.id, call.record>> \in audited
      BY Zenon, <1>1, <1>3 DEF StoredInv
    <3>2. \A id \in E!RecordIds, r \in E!Record : records'[id] = r => <<id, r>> \in audited
      BY Zenon, <1>1, <2>5, <3>1 DEF StoredInv
    <3> QED
      BY Zenon, <1>2, <1>3, <1>5, <3>2, EventIdle DEF StoredInv
  <2>9. E!FirstRecordStays
    BY Zenon, <1>5, <1>7, <2>5 DEF E!FirstRecordStays
  <2> QED
    BY Zenon, <2>4, <2>7, <2>8, <2>9 DEF EventsInv
<1> QED
  BY Zenon, <1>8, <1>9 DEF E!persist, E!Fail, E!StoreAndAnswer, E!tables

LEMMA NewProcessAccounts ==
    ASSUME E!ConstantsAssumption, NEW n \in Nat, NEW counted \in BOOLEAN, counted => n = 0
    PROVE  /\ <<>> \in Seq({"queued", "acknowledged"}) /\ Len(<<>>) = 0 /\ Len(<<>>) <= MaxSubmissions
           /\ Accounts(<<>>, E!Idle, 0, FALSE, n, counted)
<1>1. <<>> \in Seq({"queued", "acknowledged"}) /\ Len(<<>>) = 0
  OBVIOUS
<1>2. Slots(<<>>) = {}
  BY <1>1 DEF Slots
<1>3. Cardinality(Slots(<<>>)) = 0 /\ Open(E!Idle) = 0
  BY Zenon, <1>2, FS_EmptySet, EventIdle
<1>4. bufferCap \in Nat /\ MaxSubmissions \in Nat
  BY Zenon DEF E!ConstantsAssumption
<1>5. 0 = 0 + 0 /\ 0 <= bufferCap /\ 0 <= MaxSubmissions /\ 0 - 0 <= 0 /\ 0 + 0 <= 0
  BY <1>4
<1> QED
  BY Zenon, <1>1, <1>3, <1>5 DEF Accounts

\* A new process has nothing in memory; the tables and the audit trail are still there.
LEMMA EventRestartKeeps ==
    ASSUME EventsInv, E!ConstantsAssumption, E!Restart
    PROVE  EventsInv' /\ rows' = rows /\ restarts' # restarts
<1>1. EventTypes /\ AccountsInv /\ StoredInv
  BY Zenon DEF EventsInv
<1>2. /\ records' = [id \in E!RecordIds |-> None] /\ buffers' = <<>> /\ disabled' = FALSE
      /\ failed' = 0 /\ call' = E!Idle /\ restarts' = restarts + 1 /\ restarts < deployment.restarts
      /\ UNCHANGED <<deployment, rows, equipment, bufferRows, audited>>
  BY Zenon DEF E!Restart, E!tables
<1>3. deployment.restarts \in Nat /\ restarts \in 0..deployment.restarts /\ bufferRows \in Nat
  BY Zenon, <1>1 DEF EventTypes, E!Deployment
<1>4. restarts' \in 0..deployment.restarts /\ restarts' # restarts /\ restarts' # 0 /\ 0 \in Nat
  BY <1>2, <1>3
<1>5. /\ <<>> \in Seq({"queued", "acknowledged"}) /\ Len(<<>>) <= MaxSubmissions
      /\ Accounts(<<>>, E!Idle, 0, FALSE, bufferRows, FALSE)
  BY Zenon, <1>3, NewProcessAccounts
<1>6. AccountsInv'
  BY Zenon, <1>2, <1>4, <1>5 DEF AccountsInv, Accounts
<1>7. records' \in [E!RecordIds -> E!Record \cup {None}] /\ \A id \in E!RecordIds : records'[id] = None
  BY Zenon, <1>2
<1>8. EventTypes'
  BY Zenon, <1>1, <1>2, <1>4, <1>5, <1>7 DEF EventTypes
<1>9. StoredInv'
  BY Zenon, <1>1, <1>2, <1>7, EventIdle DEF StoredInv, E!ConstantsAssumption
<1> QED
  BY Zenon, <1>2, <1>4, <1>6, <1>8, <1>9 DEF EventsInv

LEMMA EventsInit == ASSUME E!ConstantsAssumption, E!Init PROVE EventsInv
<1>1. /\ records = [id \in E!RecordIds |-> None] /\ buffers = <<>> /\ disabled = FALSE
      /\ rows = [id \in E!RecordIds |-> None] /\ failed = 0 /\ call = E!Idle /\ restarts = 0
      /\ deployment \in EventDeployments /\ equipment = {} /\ bufferRows = 0 /\ audited = {}
  BY Zenon DEF E!Init
<1>2. deployment \in E!Deployment /\ deployment.restarts \in Nat
  BY Zenon, <1>1 DEF E!ConstantsAssumption, E!Deployment
<1>3. restarts \in 0..deployment.restarts /\ 0 \in Nat
  BY <1>1, <1>2
<1>4. /\ <<>> \in Seq({"queued", "acknowledged"}) /\ Len(<<>>) <= MaxSubmissions
      /\ \A counted \in BOOLEAN : Accounts(<<>>, E!Idle, 0, FALSE, 0, counted)
  BY Zenon, <1>3, NewProcessAccounts
<1>5. Accounts(<<>>, E!Idle, 0, FALSE, 0, E!UseDB /\ restarts = 0)
  BY Zenon, <1>4
<1>6. /\ records \in [E!RecordIds -> E!Record \cup {None}] /\ \A id \in E!RecordIds : records[id] = None
      /\ rows \in [E!RecordIds -> E!Record \cup {None}] /\ \A id \in E!RecordIds : rows[id] = None
  BY Zenon, <1>1
<1>7. EventTypes
  BY Zenon, <1>1, <1>2, <1>3, <1>4, <1>6 DEF EventTypes
<1>8. StoredInv
  BY Zenon, <1>1, <1>6, EventIdle DEF StoredInv, E!ConstantsAssumption
<1> QED
  BY Zenon, <1>1, <1>5, <1>7, <1>8 DEF EventsInv, AccountsInv

\* Every step of the events service keeps the invariant and the first records.
LEMMA EventsStep ==
    ASSUME EventsInv, E!ConstantsAssumption, E!Next
    PROVE  EventsInv' /\ E!FirstRecordStays
<1>1. CASE E!persist
  BY Zenon, <1>1, EventPersistKeeps
<1>2. CASE E!Restart
  <2>1. EventsInv' /\ rows' = rows /\ restarts' # restarts
    BY Zenon, <1>2, EventRestartKeeps
  <2> QED
    BY Zenon, <2>1 DEF E!FirstRecordStays
<1>3. CASE E!appendAudit
  <2>1. EventsInv' /\ rows' = rows /\ records' = records
    BY Zenon, <1>3, EventAuditKeeps
  <2> QED
    BY Zenon, <2>1 DEF E!FirstRecordStays
<1>4. ASSUME NEW actor, NEW q \in Equipment \cup {None}, NEW id \in E!RecordIds \cup {None},
             NEW type \in {"event", "snapshot", "delta"},
             E!Submit(actor, id, [equipment |-> q, type |-> type])
      PROVE  EventsInv' /\ E!FirstRecordStays
  <2>1. EventsInv' /\ rows' = rows /\ records' = records
    BY Zenon, <1>4, SubmitKeeps
  <2> QED
    BY Zenon, <2>1 DEF E!FirstRecordStays
<1>5. EventIds \cup {None} \subseteq E!RecordIds \cup {None} /\ MeterIds \cup {None} \subseteq E!RecordIds \cup {None}
  BY Zenon DEF E!RecordIds
<1>6. CASE \E actor \in {Operator, Player}, q \in Equipment \cup {None} :
              \/ \E id \in EventIds \cup {None} : E!SubmitSignificantEvent(actor, id, q)
              \/ \E id \in MeterIds \cup {None} :
                    E!SubmitMeterSnapshot(actor, id, q) \/ E!SubmitMeterDelta(actor, id, q)
  BY Zenon, <1>4, <1>5, <1>6 DEF E!SubmitSignificantEvent, E!SubmitMeterSnapshot, E!SubmitMeterDelta
<1> QED
  BY Zenon, <1>1, <1>2, <1>3, <1>6 DEF E!Next

LEMMA EventsHold ==
    ASSUME EventsInv, E!ConstantsAssumption
    PROVE  E!TypeOK /\ E!BufferAccounts /\ E!StoredIsAudited
<1>1. EventTypes /\ AccountsInv /\ StoredInv
  BY Zenon DEF EventsInv
<1>2. E!TypeOK
  <2>1. call.pc \in {"idle", "audit", "persist"}
    BY Zenon, <1>1, EventIdle DEF EventTypes, EventCall
  <2>2. call # E!Idle => call.id \in E!RecordIds /\ call.record \in E!Record
    BY Zenon, <1>1, EventCallKind
  <2> QED
    BY Zenon, <1>1, <2>1, <2>2 DEF E!TypeOK, EventTypes
<1>3. E!StoredIsAudited
  BY Zenon, <1>1 DEF E!StoredIsAudited, StoredInv
<1>4. E!BufferAccounts
  <2>1. /\ E!queued = failed + Open(call) /\ E!queued <= bufferCap /\ (disabled => failed = bufferCap)
        /\ (E!UseDB /\ restarts = 0) => Len(buffers) - E!queued <= bufferRows /\ bufferRows + Open(call) <= Len(buffers)
    BY Zenon, <1>1, QueuedSlots DEF AccountsInv, Accounts
  <2>2. Open(call) = IF call = E!Idle THEN 0 ELSE 1
    BY Zenon DEF Open
  <2>3. Open(call) \in Nat
    BY Zenon, 0 \in Nat, 1 \in Nat DEF Open
  <2>4. bufferRows + Open(call) <= Len(buffers) => bufferRows <= Len(buffers)
    BY <1>1, <2>3, BufferNumbers
  <2> QED
    BY Zenon, <2>1, <2>2, <2>4 DEF E!BufferAccounts
<1> QED
  BY Zenon, <1>2, <1>3, <1>4

-----------------------------------------------------------------------------
(* The services, one of which runs.                                          *)

ServicesInv ==
    /\ service = "sessions" => SessionsInv
    /\ service = "config" => ConfigInv
    /\ service = "events" => EventsInv

LEMMA StutterKeeps ==
    ASSUME ServicesInv, UNCHANGED servicesVars
    PROVE  ServicesInv'
<1>1. UNCHANGED <<service, deployment, rows, audited, call, restarts, drawn, servers, sessions, now,
                  changes, currentValues, nextChangeID, values, reused, records, buffers, disabled,
                  equipment, bufferRows, failed>>
  BY Zenon DEF servicesVars, ofSessions, ofConfig, ofEvents, ofSeveral
<1>2. SessionsInv => SessionsInv'
  BY Zenon, <1>1 DEF SessionsInv, SessionTypes, AllInTime, AllDrawn, Alone
<1>3. ConfigInv => ConfigInv'
  BY Zenon, <1>1 DEF ConfigInv, ConfigTypes, ChangesInv, ValuesInv, AuditedInv, C!Cache, C!UseDB,
                     C!ValuesComeFromChanges
<1>4. EventsInv => EventsInv'
  BY Zenon, <1>1 DEF EventsInv, EventTypes, AccountsInv, StoredInv, E!UseDB
<1> QED
  BY Zenon, <1>1, <1>2, <1>3, <1>4 DEF ServicesInv

\* A step of the service that runs, and what it may not undo
LEMMA ServicesStep ==
    ASSUME ServicesInv, ServicesNext
    PROVE  /\ ServicesInv'
           /\ service = "sessions" => S!FinishedStays
           /\ service = "config" => C!RowsAdvance
           /\ service = "events" => E!FirstRecordStays
<1>1. service' = service
  BY Zenon DEF ServicesNext
<1>2. S!ConstantsAssumption /\ C!ConstantsAssumption /\ E!ConstantsAssumption
  BY Zenon, ServicesAssumption
<1>3. CASE service = "sessions" /\ S!Next
  <2>1. SessionsInv' /\ S!FinishedStays
    BY Zenon, <1>2, <1>3, SessionsStep DEF ServicesInv
  <2> QED
    BY Zenon, <1>1, <1>3, <2>1 DEF ServicesInv
<1>4. CASE service = "config" /\ C!Next
  <2>1. ConfigInv' /\ C!RowsAdvance
    BY Zenon, <1>2, <1>4, ConfigStep DEF ServicesInv
  <2> QED
    BY Zenon, <1>1, <1>4, <2>1 DEF ServicesInv
<1>5. CASE service = "events" /\ E!Next
  <2>1. EventsInv' /\ E!FirstRecordStays
    BY Zenon, <1>2, <1>5, EventsStep DEF ServicesInv
  <2> QED
    BY Zenon, <1>1, <1>5, <2>1 DEF ServicesInv
<1> QED
  BY Zenon, <1>3, <1>4, <1>5 DEF ServicesNext

LEMMA ServicesStart == ASSUME ServicesInit PROVE ServicesInv
<1>1. S!ConstantsAssumption /\ C!ConstantsAssumption /\ E!ConstantsAssumption
  BY Zenon, ServicesAssumption
<1>2. CASE service = "sessions" /\ S!Init
  BY Zenon, <1>1, <1>2, SessionsInit DEF ServicesInv
<1>3. CASE service = "config" /\ C!Init
  BY Zenon, <1>1, <1>3, ConfigInit DEF ServicesInv
<1>4. CASE service = "events" /\ E!Init
  BY Zenon, <1>1, <1>4, EventsInit DEF ServicesInv
<1> QED
  BY Zenon, <1>2, <1>3, <1>4 DEF ServicesInit

\* The inductive invariants of the three services hold in every state.
THEOREM ServicesInvariant == ServicesSpec => []ServicesInv
<1>1. ServicesInit => ServicesInv
  BY Zenon, ServicesStart
<1>2. ServicesInv /\ [ServicesNext]_servicesVars => ServicesInv'
  BY Zenon, ServicesStep, StutterKeeps
<1> QED
  BY <1>1, <1>2, PTL DEF ServicesSpec

\* The state of the service that runs has its types.
ServicesTypes ==
    /\ service = "sessions" => S!TypeOK
    /\ service = "config" => C!TypeOK
    /\ service = "events" => E!TypeOK

\* The maps, tables, buffers and calls of the three services keep their types (events_grpc.go,
\* config_grpc.go, sessions_grpc.go): a call in progress always holds a complete request.
THEOREM ServicesAreTyped == ServicesSpec => []ServicesTypes
<1>1. ServicesInv => ServicesTypes
  BY Zenon, SessionsHold, ConfigHold, EventsHold, ServicesAssumption DEF ServicesInv, ServicesTypes
<1> QED
  BY <1>1, ServicesInvariant, PTL

\* No session is expired before its deadline, none is used or extended after it, and no
\* deadline is further away than the longest timeout (touchAndExpireLocked, StartSession), for
\* any number of processes that share the table.
THEOREM SessionDeadlines == ServicesSpec => []DeadlinesHold
<1>1. ServicesInv => DeadlinesHold
  BY Zenon, SessionsHold, ServicesAssumption DEF ServicesInv, DeadlinesHold
<1> QED
  BY <1>1, ServicesInvariant, PTL

\* A value in force comes from an applied change, in the tables and in the maps, whichever
\* statement fails and wherever the process dies (ApplyConfigChange, persistCurrentValue).
THEOREM ValuesInForce == ServicesSpec => []ValuesComeFromChanges
<1>1. ServicesInv => ValuesComeFromChanges
  BY Zenon, ConfigHold, ServicesAssumption DEF ServicesInv, ValuesComeFromChanges
<1> QED
  BY <1>1, ServicesInvariant, PTL

\* The ingestion buffer holds the submissions that failed and the one in progress, never more
\* than its capacity, and is disabled only when every slot is a failed one
\* (queueBufferLocked, acknowledgeBufferLocked), whatever the capacity.
THEOREM BufferIsAccountedFor == ServicesSpec => []BufferAccounts
<1>1. ServicesInv => BufferAccounts
  BY Zenon, EventsHold, ServicesAssumption DEF ServicesInv, BufferAccounts
<1> QED
  BY <1>1, ServicesInvariant, PTL

\* What the services stored is in their audit trail (appendAudit before persist): ends of
\* sessions of a single process, configuration without the maps, events and meters.
THEOREM StoresAreAudited == ServicesSpec => []AuditExplainsStore
<1>1. ServicesInv => AuditExplainsStore
  BY Zenon, SessionsHold, ConfigHold, EventsHold, ServicesAssumption DEF ServicesInv, AuditExplainsStore
<1> QED
  BY <1>1, ServicesInvariant, PTL

\* A session that is over stays as it ended, the row of a configuration change keeps its key
\* and value and only moves forward, and the first record under an id stays (EndSession,
\* ApproveConfigChange, SubmitSignificantEvent).
THEOREM ServicesUndoNothing == ServicesSpec => NothingIsUndone
<1> DEFINE A == /\ service = "sessions" => S!FinishedStays
                /\ service = "config" => C!RowsAdvance
                /\ service = "events" => E!FirstRecordStays
<1>1. ServicesInv /\ [ServicesNext]_servicesVars => [A]_servicesVars
  BY Zenon, ServicesStep
<1>2. ServicesSpec => [][A]_servicesVars
  <2> HIDE DEF A
  <2> QED
    BY <1>1, ServicesInvariant, PTL DEF ServicesSpec
<1> QED
  BY <1>2 DEF NothingIsUndone

=============================================================================
