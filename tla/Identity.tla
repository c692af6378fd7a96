------------------------------ MODULE Identity ------------------------------
(***************************************************************************)
(* IdentityService (identity_grpc.go, identity_postgres.go): login with a  *)
(* rate limit and a lockout, refresh tokens that are rotated and revoked,  *)
(* and the administration of credentials and lockouts.  A process holds    *)
(* s.mu for a whole call.  The stores are maps of one process, or tables   *)
(* that several processes share, whose statements then interleave.         *)
(*                                                                         *)
(* Whether a secret matches the stored hash is left open (bcrypt), refresh *)
(* tokens are random and never drawn twice, here 1, 2, ...  Events of      *)
(* denied calls, whose errors are dropped, change nothing that is          *)
(* modelled.  The clocks of the processes and of the database agree.       *)
(***************************************************************************)
EXTENDS Integers, FiniteSets

CONSTANTS
    Actors,
    Stranger,           \* an actor with no session of its own
    Operator,           \* authorized by authorizeIdentityAdmin
    RefreshTTL,
    MaxFailures, LockoutTTL,            \* SetLockoutPolicy
    LoginRateWindow,    \* SetLoginRateLimit
    Processes,
    Deployments,        \* a subset of [db : BOOLEAN, servers : SUBSET Processes,
                        \*              rateMax : Nat, tokens : Nat, time : Nat]; the last
                        \* two are bounds: on the refresh tokens stored and on the clock
    MaxTokens,          \* the largest of the bounds on tokens
    None

\* What the stores hold: identitySession, and rows of identity_lockouts and
\* identity_login_rate_limits
SessionRow == [actor : Actors, expires : Nat, revoked : BOOLEAN]
LockoutRow == [failed : Nat, until : Nat]
RateRow    == [start : Nat, count : Nat]

ASSUME ConstantsAssumption ==
    /\ {RefreshTTL, MaxFailures, LockoutTTL, LoginRateWindow} \subseteq Nat \ {0}
    /\ MaxTokens \in Nat
    /\ IsFiniteSet(Processes)
    /\ \A d \in Deployments :
          /\ d.servers \subseteq Processes /\ (~d.db => Cardinality(d.servers) = 1)
          /\ d.tokens \in 0..MaxTokens /\ d.time \in Nat /\ d.rateMax \in Nat
    /\ None \notin SessionRow \cup LockoutRow \cup RateRow

VARIABLES
    deployment,     \* chosen once
    sessions,       \* refreshSessions, or the rows of identity_sessions
    lockouts,       \* failedAttempts and lockedUntil, or the rows of identity_lockouts
    rates,          \* loginRates, or the rows of identity_login_rate_limits
    credentials,    \* the status in identity_credentials; in memory nothing changes it
    call,           \* by process: the call that holds s.mu
    now,
    drawn,          \* how many of the tokens of randomToken have been stored
    deadline,       \* history: by token, when the session stored under it expires
    given,          \* history: tokens that clients were given in an OK answer
    heirs,          \* history: by token, the tokens it was exchanged for
    loggedOut       \* history: tokens a Logout has revoked

stores  == <<sessions, lockouts, rates, credentials>>
history == <<deadline, given, heirs, loggedOut>>
vars    == <<deployment, stores, call, now, drawn, history>>

UseDB == deployment.db
Servers == deployment.servers
LoginRateMax == deployment.rateMax      \* 0 is no limit
Tokens == 1..MaxTokens
Idle == [pc |-> "idle"]

\* identitySession
Session(actor) == [actor |-> actor, expires |-> now + RefreshTTL, revoked |-> FALSE]

\* What a statement leaves behind when it fails: the database may have taken it.
Failed(before, after) == IF UseDB THEN {before, after} ELSE {}

\* The call is answered with one of the result codes.  Only an OK leaves a trace (given).
Return(p, code) ==
    /\ code \in {"OK", "INVALID", "DENIED", "ERROR"}
    /\ call' = [call EXCEPT ![p] = Idle]

Continue(p, c) == call' = [call EXCEPT ![p] = c]

-----------------------------------------------------------------------------
(* Login                                                                     *)

\* rateLimitExceeded's counter after one more attempt, in a window that restarts when it
\* is over.  Counts past the limit are all alike and are kept at the first of them.
Attempted(rate) ==
    LET window == IF rate = None \/ now - rate.start >= LoginRateWindow
                  THEN [start |-> now, count |-> 0]
                  ELSE rate
    IN  [window EXCEPT !.count = IF @ > LoginRateMax THEN @ ELSE @ + 1]

\* The request names an actor, and its credentials are of that actor.
validateLoginRequest(a) == a # None

\* Login up to rateLimitExceeded
Login(p, a) ==
    /\ call[p] = Idle
    /\ \/ /\ ~validateLoginRequest(a)
          /\ Return(p, "DENIED")
          /\ UNCHANGED rates
       \/ /\ validateLoginRequest(a) /\ LoginRateMax = 0
          /\ Continue(p, [op |-> "login", pc |-> "locked", actor |-> a])
          /\ UNCHANGED rates
       \/ /\ validateLoginRequest(a) /\ LoginRateMax > 0
          /\ LET attempted == [rates EXCEPT ![a] = Attempted(@)] IN
             \/ /\ rates' \in Failed(rates, attempted)
                /\ Return(p, "ERROR")
             \/ /\ rates' = attempted
                /\ IF rates'[a].count > LoginRateMax
                   THEN Return(p, "DENIED")
                   ELSE Continue(p, [op |-> "login", pc |-> "locked", actor |-> a])
    /\ UNCHANGED <<deployment, sessions, lockouts, credentials, now, drawn, history>>

\* lockedUntil.After(now)
Locked(a) == lockouts[a] # None /\ lockouts[a].until > now

checkLocked(p) ==
    LET c == call[p] IN
    /\ c.pc = "locked"
    /\ \/ UseDB /\ Return(p, "ERROR")
       \/ Locked(c.actor) /\ Return(p, "DENIED")
       \/ ~Locked(c.actor) /\ Continue(p, [c EXCEPT !.pc = "verify"])
    /\ UNCHANGED <<deployment, stores, now, drawn, history>>

\* A secret that matches counts only if the credential is there and active.
verifyCredentials(p) ==
    LET c == call[p] IN
    /\ c.pc = "verify"
    /\ \/ UseDB /\ Return(p, "ERROR")
       \/ Continue(p, [c EXCEPT !.pc = "fail"])
       \/ credentials[c.actor] = "active" /\ Continue(p, [c EXCEPT !.pc = "reset"])
    /\ UNCHANGED <<deployment, stores, now, drawn, history>>

\* Faulty variant: the account locks one failure too late.
FailureLate(lockout) ==
    LET l == IF lockout = None THEN [failed |-> 0, until |-> 0] ELSE lockout
    IN  [failed |-> l.failed + 1,
         until  |-> IF l.failed + 1 > MaxFailures THEN now + LockoutTTL ELSE l.until]

\* The lockout after one more failure.  The INSERT of a first row never locks.
Failure(lockout) ==
    IF lockout = None /\ UseDB THEN [failed |-> 1, until |-> 0]
    ELSE LET l == IF lockout = None THEN [failed |-> 0, until |-> 0] ELSE lockout
         IN  [failed |-> l.failed + 1,
              until  |-> IF l.failed + 1 >= MaxFailures THEN now + LockoutTTL ELSE l.until]

\* Login drops the error of recordFailure.
recordFailure(p) ==
    LET c == call[p]
        recorded == [lockouts EXCEPT ![c.actor] = Failure(@)]
    IN
    /\ c.pc = "fail"
    /\ lockouts' \in {recorded} \cup Failed(lockouts, recorded)
    /\ Return(p, "DENIED")
    /\ UNCHANGED <<deployment, sessions, rates, credentials, now, drawn, history>>

\* resetFailures, in Login, SetCredential and ResetLockout.  The lockoutStatus that
\* ResetLockout reads afterwards fails like its audit event.
resetFailures(p) ==
    LET c == call[p]
        reset == [lockouts EXCEPT ![c.actor] =
                     IF UseDB THEN [failed |-> 0, until |-> 0] ELSE None]
    IN
    /\ c.pc = "reset"
    /\ \/ /\ lockouts' \in Failed(lockouts, reset)
          /\ Return(p, "ERROR")
       \/ /\ lockouts' = reset
          /\ Continue(p, [c EXCEPT !.pc = IF c.op = "login" THEN "store" ELSE "audit"])
    /\ UNCHANGED <<deployment, sessions, rates, credentials, now, drawn, history>>

\* Faulty variant: the error of the upsert is dropped.
storeSessionOrNot(p) ==
    LET c == call[p]
        token == drawn + 1
    IN
    /\ c.pc = "store" /\ drawn < deployment.tokens
    /\ sessions' \in {sessions, [sessions EXCEPT ![token] = Session(c.actor)]}
    /\ drawn' = token
    /\ deadline' = [deadline EXCEPT ![token] = now + RefreshTTL]
    /\ Continue(p, [op |-> "login", pc |-> "audit", actor |-> c.actor, token |-> token])
    /\ UNCHANGED <<deployment, lockouts, rates, credentials, now, given, heirs, loggedOut>>

\* signAccessToken, randomToken and storeSession: any of them may fail.
storeSession(p) ==
    LET c == call[p]
        token == drawn + 1
        stored == [sessions EXCEPT ![token] = Session(c.actor)]
    IN
    /\ c.pc = "store"
    /\ \/ /\ Return(p, "ERROR")
          /\ UNCHANGED <<sessions, drawn, deadline>>
       \/ /\ drawn < deployment.tokens
          /\ sessions' = stored
          /\ drawn' = token
          /\ deadline' = [deadline EXCEPT ![token] = now + RefreshTTL]
          /\ \/ UseDB /\ Return(p, "ERROR")
             \/ Continue(p, [op |-> "login", pc |-> "audit", actor |-> c.actor, token |-> token])
    /\ UNCHANGED <<deployment, lockouts, rates, credentials, now, given, heirs, loggedOut>>

-----------------------------------------------------------------------------
(* Logout and RefreshToken                                                   *)

\* revokeSession, delete(refreshSessions, token): a row may be gone already.
Revoked(token) ==
    [sessions EXCEPT ![token] =
        IF @ = None \/ ~UseDB THEN None ELSE [@ EXCEPT !.revoked = TRUE]]

\* Faulty variant: whoever has the token can log it out.
LogoutByAnyone(p, a, token) ==
    /\ call[p] = Idle
    /\ None \notin {a, token} /\ sessions[token] # None
    /\ Continue(p, [op |-> "logout", pc |-> "revoke", actor |-> a, token |-> token])
    /\ UNCHANGED <<deployment, stores, now, drawn, history>>

\* Logout up to revokeSession.  A revoked row can be logged out again.
Logout(p, a, token) ==
    /\ call[p] = Idle
    /\ \/ None \in {a, token} /\ Return(p, "INVALID")
       \/ /\ None \notin {a, token}
          /\ \/ UseDB /\ Return(p, "ERROR")
             \/ sessions[token] = None /\ Return(p, "DENIED")
             \/ /\ sessions[token] # None /\ sessions[token].actor # a
                /\ Return(p, "DENIED")
             \/ /\ sessions[token] # None /\ sessions[token].actor = a
                /\ Continue(p, [op |-> "logout", pc |-> "revoke", actor |-> a, token |-> token])
    /\ UNCHANGED <<deployment, stores, now, drawn, history>>

revokeSession(p) ==
    LET c == call[p] IN
    /\ c.pc = "revoke"
    /\ \/ /\ sessions' \in Failed(sessions, Revoked(c.token))
          /\ Return(p, "ERROR")
       \/ /\ sessions' = Revoked(c.token)
          /\ Continue(p, [c EXCEPT !.pc = "audit"])
    /\ loggedOut' = IF sessions' # sessions THEN loggedOut \cup {c.token} ELSE loggedOut
    /\ UNCHANGED <<deployment, lockouts, rates, credentials, now, drawn, deadline, given, heirs>>

Live(token) ==
    sessions[token] # None /\ ~sessions[token].revoked /\ sessions[token].expires > now

\* Faulty variant: the revoked flag is not looked at.
RefreshUnexpired(p, a, token) ==
    /\ call[p] = Idle
    /\ None \notin {a, token} /\ sessions[token] # None
    /\ sessions[token].expires > now /\ sessions[token].actor = a
    /\ Continue(p, [op |-> "refresh", pc |-> "rotate", actor |-> a, token |-> token])
    /\ UNCHANGED <<deployment, stores, now, drawn, history>>

\* RefreshToken up to rotateSession
RefreshToken(p, a, token) ==
    /\ call[p] = Idle
    /\ \/ None \in {a, token} /\ Return(p, "INVALID")
       \/ /\ None \notin {a, token}
          /\ \/ UseDB /\ Return(p, "ERROR")
             \/ ~Live(token) /\ Return(p, "DENIED")
             \/ /\ Live(token) /\ sessions[token].actor # a
                /\ Return(p, "DENIED")
             \/ /\ Live(token) /\ sessions[token].actor = a
                /\ Continue(p, [op |-> "refresh", pc |-> "rotate", actor |-> a, token |-> token])
    /\ UNCHANGED <<deployment, stores, now, drawn, history>>

\* signAccessToken, randomToken and rotateSession, one transaction.  It does not look at
\* the row it revokes.
rotateSession(p) ==
    LET c == call[p]
        next == drawn + 1
        rotated == [Revoked(c.token) EXCEPT ![next] = Session(c.actor)]
    IN
    /\ c.pc = "rotate"
    /\ \/ /\ Return(p, "ERROR")
          /\ UNCHANGED <<sessions, drawn, deadline, heirs>>
       \/ /\ drawn < deployment.tokens
          /\ sessions' = rotated
          /\ drawn' = next
          /\ deadline' = [deadline EXCEPT ![next] = now + RefreshTTL]
          /\ heirs' = [heirs EXCEPT ![c.token] = @ \cup {next}]
          /\ \/ UseDB /\ Return(p, "ERROR")
             \/ Continue(p, [c EXCEPT !.pc = "audit", !.token = next])
    /\ UNCHANGED <<deployment, lockouts, rates, credentials, now, given, loggedOut>>

-----------------------------------------------------------------------------
(* Administration                                                            *)

authorizeIdentityAdmin(admin) == admin = Operator

\* SetCredential up to setCredentialHash; `hash` is missing, not bcrypt or of too low a
\* cost ("weak"), or good.
SetCredential(p, admin, a, hash) ==
    LET set == [credentials EXCEPT ![a] = "active"] IN
    /\ call[p] = Idle
    /\ \/ /\ hash = None /\ Return(p, "INVALID")
          /\ UNCHANGED credentials
       \/ /\ hash # None /\ ~authorizeIdentityAdmin(admin) /\ Return(p, "DENIED")
          /\ UNCHANGED credentials
       \/ /\ hash = "weak" /\ authorizeIdentityAdmin(admin) /\ Return(p, "INVALID")
          /\ UNCHANGED credentials
       \/ /\ hash = "good" /\ authorizeIdentityAdmin(admin)
          /\ \/ ~UseDB /\ Return(p, "DENIED") /\ UNCHANGED credentials
             \/ credentials' \in Failed(credentials, set) /\ Return(p, "ERROR")
             \/ /\ UseDB
                /\ credentials' = set
                /\ Continue(p, [op |-> "admin", pc |-> "reset", actor |-> a])
    /\ UNCHANGED <<deployment, sessions, lockouts, rates, now, drawn, history>>

\* DisableCredential and EnableCredential up to appendAudit
setCredentialStatus(p, admin, a, status) ==
    LET set == [credentials EXCEPT ![a] = IF @ = None THEN None ELSE status] IN
    /\ call[p] = Idle
    /\ \/ /\ ~authorizeIdentityAdmin(admin) \/ ~UseDB
          /\ Return(p, "DENIED")
          /\ UNCHANGED credentials
       \/ /\ authorizeIdentityAdmin(admin)
          /\ credentials' \in Failed(credentials, set)
          /\ Return(p, "ERROR")
       \/ /\ authorizeIdentityAdmin(admin) /\ UseDB
          /\ credentials' = set
          /\ IF set[a] = None THEN Return(p, "INVALID")
             ELSE Continue(p, [op |-> "admin", pc |-> "audit", actor |-> a])
    /\ UNCHANGED <<deployment, sessions, lockouts, rates, now, drawn, history>>

DisableCredential(p, admin, a) == setCredentialStatus(p, admin, a, "disabled")
EnableCredential(p, admin, a)  == setCredentialStatus(p, admin, a, "active")

GetLockout(p, admin) ==
    /\ call[p] = Idle
    /\ \/ ~authorizeIdentityAdmin(admin) /\ Return(p, "DENIED")
       \/ authorizeIdentityAdmin(admin) /\ UseDB /\ Return(p, "ERROR")
       \/ authorizeIdentityAdmin(admin) /\ Return(p, "OK")
    /\ UNCHANGED <<deployment, stores, now, drawn, history>>

\* ResetLockout up to resetFailures
ResetLockout(p, admin, a) ==
    /\ call[p] = Idle
    /\ \/ ~authorizeIdentityAdmin(admin) /\ Return(p, "DENIED")
       \/ /\ authorizeIdentityAdmin(admin)
          /\ Continue(p, [op |-> "admin", pc |-> "reset", actor |-> a])
    /\ UNCHANGED <<deployment, stores, now, drawn, history>>

-----------------------------------------------------------------------------

\* The success event of a call, then its answer.  Of the calls whose event fails, Login
\* goes on to take its session back, RefreshToken takes the new one back in memory only,
\* and the others leave what they have done.
appendAudit(p) ==
    LET c == call[p] IN
    /\ c.pc = "audit"
    /\ \/ /\ Return(p, "OK")
          /\ given' = IF c.op \in {"login", "refresh"} THEN given \cup {c.token} ELSE given
          /\ UNCHANGED sessions
       \/ /\ c.op = "login"
          /\ Continue(p, [c EXCEPT !.pc = "undo"])
          /\ UNCHANGED <<sessions, given>>
       \/ /\ c.op # "login"
          /\ sessions' = IF c.op = "refresh" /\ ~UseDB THEN Revoked(c.token) ELSE sessions
          /\ Return(p, "ERROR")
          /\ UNCHANGED given
    /\ UNCHANGED <<deployment, lockouts, rates, credentials, now, drawn, deadline, heirs, loggedOut>>

\* Login's revokeSession after a failed audit event; its own error is dropped.
undo(p) ==
    LET c == call[p] IN
    /\ c.pc = "undo"
    /\ sessions' \in {Revoked(c.token)} \cup Failed(sessions, Revoked(c.token))
    /\ Return(p, "ERROR")
    /\ UNCHANGED <<deployment, lockouts, rates, credentials, now, drawn, history>>

Expired == {t \in Tokens : sessions[t] # None /\ sessions[t].expires <= now}

\* StartSessionCleanupWorker holds no lock.  A batch is taken as several steps: one expired
\* row at a time, the oldest first.
CleanupExpiredSessions ==
    /\ UseDB
    /\ \E t \in Expired :
          /\ \A u \in Expired : sessions[t].expires <= sessions[u].expires
          /\ sessions' = [sessions EXCEPT ![t] = None]
    /\ UNCHANGED <<deployment, lockouts, rates, credentials, call, now, drawn, history>>

\* The process dies and another takes its place on the database.
Restart(p) ==
    /\ UseDB /\ call[p] # Idle
    /\ call' = [call EXCEPT ![p] = Idle]
    /\ UNCHANGED <<deployment, stores, now, drawn, history>>

Tick ==
    /\ now < deployment.time
    /\ now' = now + 1
    /\ UNCHANGED <<deployment, stores, call, drawn, history>>

Init ==
    /\ deployment \in Deployments
    /\ sessions = [t \in Tokens |-> None]
    /\ lockouts = [a \in Actors |-> None]
    /\ rates = [a \in Actors |-> None]
    /\ credentials \in [Actors -> IF UseDB THEN {"active", None} ELSE {"active"}]
    /\ call = [p \in Processes |-> Idle]
    /\ now = 0
    /\ drawn = 0
    /\ deadline = [t \in Tokens |-> 0]
    /\ given = {}
    /\ heirs = [t \in Tokens |-> {}]
    /\ loggedOut = {}

Handler(p) ==
    \/ \E a \in Actors \cup {None} : Login(p, a)
    \/ \E a \in Actors \cup {Stranger, None}, t \in Tokens \cup {None} :
          Logout(p, a, t) \/ RefreshToken(p, a, t)
    \/ \E admin \in {Operator, Stranger} :
          \/ GetLockout(p, admin)
          \/ \E a \in Actors :
                \/ \E hash \in {"good", "weak", None} : SetCredential(p, admin, a, hash)
                \/ DisableCredential(p, admin, a) \/ EnableCredential(p, admin, a)
                \/ ResetLockout(p, admin, a)

Step(p) ==
    \/ checkLocked(p) \/ verifyCredentials(p) \/ recordFailure(p) \/ resetFailures(p)
    \/ storeSession(p) \/ revokeSession(p) \/ rotateSession(p)
    \/ appendAudit(p) \/ undo(p) \/ Restart(p)

Next ==
    \/ \E p \in Servers : Handler(p) \/ Step(p)
    \/ CleanupExpiredSessions
    \/ Tick

Spec == Init /\ [][Next]_vars

-----------------------------------------------------------------------------
(* Properties.                                                               *)

\* Types of the stores and of the calls in progress.
TypeOK ==
    /\ sessions \in [Tokens -> SessionRow \cup {None}]
    /\ lockouts \in [Actors -> LockoutRow \cup {None}]
    /\ rates \in [Actors -> [start : 0..now, count : 1..LoginRateMax + 1] \cup {None}]
    /\ credentials \in [Actors -> {"active", "disabled", None}]
    /\ \A p \in Processes :
          call[p] # Idle =>
             /\ call[p].op \in {"login", "logout", "refresh", "admin"}
             /\ call[p].pc \in {"locked", "verify", "fail", "reset", "store", "revoke",
                                "rotate", "audit", "undo"}
             /\ call[p].actor \in Actors
    /\ drawn \in 0..MaxTokens /\ now \in 0..deployment.time
    /\ deadline \in [Tokens -> Nat]
    /\ given \subseteq 1..drawn /\ loggedOut \subseteq 1..drawn
    /\ heirs \in [Tokens -> SUBSET (1..drawn)]

\* A refresh token that a client was given works until it expires, unless it is exchanged or
\* logged out: no failed login, no sweep of the expired rows and no crash before the exchange
\* takes it away.  An exchange spends the token once rotateSession has committed, also when
\* its answer is lost, because its audit event fails or the process dies.
TokensHonoured ==
    \A t \in given \ loggedOut : now < deadline[t] /\ heirs[t] = {} => Live(t)

\* The failures that lock an account.  The first row of a table never does, so there a
\* policy of one failure takes two.
LockingFailures == IF UseDB /\ MaxFailures = 1 THEN 2 ELSE MaxFailures

\* Guessing is slow whatever the calls do at the same time: once the wrong secrets that lock
\* an account are counted, each process adds at most one more in every lockout period.
FailuresBounded ==
    \A a \in Actors : lockouts[a] # None =>
        lockouts[a].failed <=
            LockingFailures - 1 + Cardinality(Servers) * (1 + now \div LockoutTTL)

\* The processes whose RefreshToken has found the token live and is about to exchange it
Exchanging(t) == {p \in Servers : call[p].pc = "rotate" /\ call[p].token = t}

\* Once a refresh token has been exchanged or logged out no call passes the check of it any
\* more.  Only a call of another process that passed it before may still exchange the token,
\* once: with one process none, so that a token is exchanged at most once and never after
\* it was logged out; with n processes at most n - 1.
SpentStays ==
    \A t \in Tokens : t \in loggedOut \/ heirs[t] # {} =>
        /\ Exchanging(t) # Servers
        /\ Exchanging(t)' \subseteq Exchanging(t)
        /\ heirs'[t] = heirs[t] \/ Exchanging(t)' # Exchanging(t)

\* The processes whose Login of the actor has passed checkLocked
LoggingIn(a) ==
    {p \in Servers : /\ call[p] # Idle /\ call[p].op = "login" /\ call[p].actor = a
                     /\ call[p].pc \in {"verify", "fail", "reset", "store"}}

\* While an actor is locked out no login of it passes checkLocked.  Only an administrator or
\* a login of another process that passed before shortens the lockout, and only such a login
\* opens a session for the actor: with one process there is none.
LoginLockoutHolds ==
    \A a \in Actors : Locked(a) =>
        LET late == \E p \in LoggingIn(a) : call'[p] # call[p] IN
        /\ LoggingIn(a) # Servers
        /\ LoggingIn(a)' \subseteq LoggingIn(a)
        /\ \/ lockouts'[a] # None /\ lockouts'[a].until >= lockouts[a].until
           \/ \E p \in Processes : call[p] # Idle /\ call[p].op = "admin" /\ call[p].actor = a
           \/ late
        /\ \A t \in Tokens :
              sessions[t] = None /\ sessions'[t] # None /\ sessions'[t].actor = a =>
                  late \/ \E u \in Tokens : t \in heirs'[u]

\* Neither a spent token nor a locked account is opened again: not by failed answers, crashes
\* or the sweep of expired rows, and of overlapping calls of several processes only by those
\* that had looked before, at most one of each other process.
ClosedStays == [][SpentStays /\ LoginLockoutHolds]_vars

=============================================================================
