--------------------------- MODULE IdentityProofs ---------------------------
(***************************************************************************)
(* What holds of Identity for every set of actors and processes, every     *)
(* policy and every deployment.                                            *)
(***************************************************************************)
EXTENDS Identity, FiniteSetTheorems, TLAPS

-----------------------------------------------------------------------------
(* The calls there are, and the types of the stores and the history.         *)

Kinds(op, pcs)     == [op : {op}, pc : pcs, actor : Actors]
KindsWith(op, pcs) == [op : {op}, pc : pcs, actor : Actors, token : Tokens]

\* The calls there are, by the places where they can be
Early   == Kinds("login", {"locked", "verify", "fail", "reset", "store"})
Opened  == KindsWith("login", {"audit", "undo"})
Closing == KindsWith("logout", {"revoke", "audit"})
Turning == KindsWith("refresh", {"rotate", "audit"})
Admin   == Kinds("admin", {"reset", "audit"})
Calls   == Early \cup Opened \cup Closing \cup Turning \cup Admin

\* The call has a new token that no client has been given yet.
Fresh(c) == c \in Opened \/ (c \in Turning /\ c.pc = "audit")

StoresOK ==
    /\ deployment \in Deployments
    /\ sessions \in [Tokens -> SessionRow \cup {None}]
    /\ lockouts \in [Actors -> LockoutRow \cup {None}]
    /\ rates \in [Actors -> [start : 0..now, count : 1..LoginRateMax + 1] \cup {None}]
    /\ credentials \in [Actors -> {"active", "disabled", None}]
    /\ now \in 0..deployment.time
    /\ drawn \in 0..deployment.tokens
    /\ \A t \in Tokens : sessions[t] # None => t <= drawn

HistoryOK ==
    /\ deadline \in [Tokens -> Nat]
    /\ given \subseteq 1..drawn /\ loggedOut \subseteq 1..drawn
    /\ heirs \in [Tokens -> SUBSET (1..drawn)]

CallsOK ==
    /\ call \in [Processes -> Calls \cup {Idle}]
    /\ \A p \in Processes : call[p] # Idle => p \in Servers
    /\ \A p \in Processes : call[p] \in Opened \cup Closing \cup Turning => call[p].token <= drawn

-----------------------------------------------------------------------------
(* The steps there are, by what they do to the stores and the history.       *)

RateType == [start : 0..now, count : 1..LoginRateMax + 1] \cup {None}

Goes(p, c) == p \in Servers /\ call' = [call EXCEPT ![p] = c]

\* A call ends, begins, or goes on without touching a session, a lockout or the history.
Onward(old, c) ==
    \/ c = Idle
    \/ old = Idle /\ c \in Early /\ c.pc = "locked"
    \/ old = Idle /\ c \in Admin
    \/ old = Idle /\ c \in Closing /\ c.pc = "revoke" /\ sessions[c.token] # None
    \/ old = Idle /\ c \in Turning /\ c.pc = "rotate" /\ Live(c.token)
    \/ /\ old \in Early /\ old.pc = "locked" /\ ~Locked(old.actor)
       /\ c \in Early /\ c.pc = "verify" /\ c.actor = old.actor
    \/ /\ old \in Early /\ old.pc = "verify"
       /\ c \in Early /\ c.pc \in {"fail", "reset"} /\ c.actor = old.actor
    \/ /\ old \in Opened /\ old.pc = "audit"
       /\ c \in Opened /\ c.pc = "undo" /\ c.token = old.token

Walks(p, c) ==
    /\ Goes(p, c) /\ Onward(call[p], c)
    /\ rates' \in [Actors -> RateType] /\ credentials' \in [Actors -> {"active", "disabled", None}]
    /\ UNCHANGED <<deployment, sessions, lockouts, now, drawn, history>>

\* A call is answered OK, and a new token is given to the client.
Tells(p) ==
    /\ Goes(p, Idle)
    /\ \/ given' = given
       \/ Fresh(call[p]) /\ call[p].pc = "audit" /\ given' = given \cup {call[p].token}
    /\ UNCHANGED <<deployment, stores, now, drawn, deadline, heirs, loggedOut>>

\* A failure is counted.
Counts(p) ==
    /\ call[p] \in Early /\ call[p].pc = "fail"
    /\ Goes(p, Idle)
    /\ lockouts' = [lockouts EXCEPT ![call[p].actor] = Failure(@)]
    /\ UNCHANGED <<deployment, sessions, rates, credentials, now, drawn, history>>

\* The failures are forgotten.
Resets(p, c) ==
    /\ \/ call[p] \in Early /\ call[p].pc = "reset" /\ c \in Early \cup {Idle}
       \/ call[p] \in Admin /\ c \in Admin \cup {Idle}
    /\ c # Idle => c.actor = call[p].actor /\ c.pc \in {"store", "audit"}
    /\ Goes(p, c)
    /\ lockouts' = [lockouts EXCEPT ![call[p].actor] =
                       IF UseDB THEN [failed |-> 0, until |-> 0] ELSE None]
    /\ UNCHANGED <<deployment, sessions, rates, credentials, now, drawn, history>>

\* A session is stored under a new token.
Opens(p, c) ==
    /\ call[p] \in Early /\ call[p].pc = "store" /\ drawn < deployment.tokens
    /\ c = Idle \/ (c \in Opened /\ c.pc = "audit" /\ c.token = drawn + 1)
    /\ Goes(p, c)
    /\ sessions' = [sessions EXCEPT ![drawn + 1] = Session(call[p].actor)]
    /\ drawn' = drawn + 1
    /\ deadline' = [deadline EXCEPT ![drawn + 1] = now + RefreshTTL]
    /\ UNCHANGED <<deployment, lockouts, rates, credentials, now, given, heirs, loggedOut>>

\* A session is logged out.
Revokes(p, c) ==
    /\ call[p] \in Closing /\ call[p].pc = "revoke"
    /\ c = Idle \/ (c \in Closing /\ c.pc = "audit" /\ c.token = call[p].token)
    /\ Goes(p, c)
    /\ sessions' = Revoked(call[p].token)
    /\ loggedOut' = IF sessions' # sessions THEN loggedOut \cup {call[p].token} ELSE loggedOut
    /\ UNCHANGED <<deployment, lockouts, rates, credentials, now, drawn, deadline, given, heirs>>

\* A session is exchanged for one under a new token.
Rotates(p, c) ==
    /\ call[p] \in Turning /\ call[p].pc = "rotate" /\ drawn < deployment.tokens
    /\ c = Idle \/ (c \in Turning /\ c.pc = "audit" /\ c.token = drawn + 1)
    /\ Goes(p, c)
    /\ sessions' = [Revoked(call[p].token) EXCEPT ![drawn + 1] = Session(call[p].actor)]
    /\ drawn' = drawn + 1
    /\ deadline' = [deadline EXCEPT ![drawn + 1] = now + RefreshTTL]
    /\ heirs' = [heirs EXCEPT ![call[p].token] = @ \cup {drawn + 1}]
    /\ UNCHANGED <<deployment, lockouts, rates, credentials, now, given, loggedOut>>

\* The session of a call that failed is taken back.
TakesBack(p) ==
    /\ Fresh(call[p])
    /\ Goes(p, Idle)
    /\ sessions' = Revoked(call[p].token)
    /\ UNCHANGED <<deployment, lockouts, rates, credentials, now, drawn, history>>

Does(p) ==
    \/ \E c \in Calls \cup {Idle} :
          Walks(p, c) \/ Resets(p, c) \/ Opens(p, c) \/ Revokes(p, c) \/ Rotates(p, c)
    \/ Tells(p) \/ Counts(p) \/ TakesBack(p)

\* What the constants say of a deployment
LEMMA DeploymentType ==
    ASSUME deployment \in Deployments
    PROVE  /\ Servers \subseteq Processes /\ IsFiniteSet(Servers) /\ Cardinality(Servers) \in Nat
           /\ ~UseDB => Cardinality(Servers) = 1
           /\ deployment.tokens \in Nat /\ deployment.tokens <= MaxTokens
           /\ deployment.time \in Nat /\ LoginRateMax \in Nat /\ MaxTokens \in Nat
<1>1. Servers \subseteq Processes /\ IsFiniteSet(Processes)
  BY Zenon, ConstantsAssumption DEF Servers
<1>2. IsFiniteSet(Servers)
  BY Zenon, <1>1, FS_Subset
<1>3. Cardinality(Servers) \in Nat
  BY Zenon, <1>2, FS_CardinalityType
<1>4. /\ deployment.tokens \in 0..MaxTokens /\ MaxTokens \in Nat
      /\ deployment.time \in Nat /\ deployment.rateMax \in Nat
      /\ ~deployment.db => Cardinality(deployment.servers) = 1
  BY Zenon, ConstantsAssumption
<1> QED
  BY <1>1, <1>2, <1>3, <1>4 DEF Servers, UseDB, LoginRateMax

\* Where a call is says which call it is.
LEMMA CallKinds ==
    ASSUME NEW c \in Calls \cup {Idle}
    PROVE  /\ c.pc \in {"locked", "verify", "fail", "store"} => c \in Early
           /\ c.pc = "reset" => c \in Early \cup Admin
           /\ c.pc = "reset" /\ c.op = "login" => c \in Early
           /\ c.pc = "revoke" => c \in Closing
           /\ c.pc = "rotate" => c \in Turning
           /\ c.pc = "undo" => c \in Opened
           /\ c.pc = "audit" => c \in Opened \cup Closing \cup Turning \cup Admin
           /\ c.pc = "audit" /\ c.op = "login" => c \in Opened
           /\ c.pc = "audit" /\ c.op = "refresh" => c \in Turning
<1>1. CASE c \in Early
  BY Zenon, <1>1 DEF Early, Kinds
<1>2. CASE c \in Opened
  BY Zenon, <1>2 DEF Opened, KindsWith
<1>3. CASE c \in Closing
  BY Zenon, <1>3 DEF Closing, KindsWith
<1>4. CASE c \in Turning
  BY Zenon, <1>4 DEF Turning, KindsWith
<1>5. CASE c \in Admin
  BY Zenon, <1>5 DEF Admin, Kinds
<1>6. CASE c = Idle
  BY Zenon, <1>6 DEF Idle
<1> QED
  BY Zenon, <1>1, <1>2, <1>3, <1>4, <1>5, <1>6 DEF Calls

\* The kinds are apart.
LEMMA KindsApart ==
    /\ \A c \in Early : /\ c # Idle /\ c \notin Opened \cup Closing \cup Turning \cup Admin
                        /\ c.actor \in Actors
    /\ \A c \in Opened : /\ c # Idle /\ c \notin Early \cup Closing \cup Turning \cup Admin
                         /\ c.actor \in Actors /\ c.token \in Tokens
    /\ \A c \in Closing : /\ c # Idle /\ c \notin Early \cup Opened \cup Turning \cup Admin
                          /\ c.actor \in Actors /\ c.token \in Tokens
    /\ \A c \in Turning : /\ c # Idle /\ c \notin Early \cup Opened \cup Closing \cup Admin
                          /\ c.actor \in Actors /\ c.token \in Tokens
    /\ \A c \in Admin : /\ c # Idle /\ c \notin Early \cup Opened \cup Closing \cup Turning
                        /\ c.actor \in Actors
<1>1. /\ \A c \in Early : c.op = "login" /\ c.pc \in {"locked", "verify", "fail", "reset", "store"}
      /\ \A c \in Opened : c.op = "login" /\ c.pc \in {"audit", "undo"}
      /\ \A c \in Closing : c.op = "logout" /\ c.pc # "idle"
      /\ \A c \in Turning : c.op = "refresh" /\ c.pc # "idle"
      /\ \A c \in Admin : c.op = "admin" /\ c.pc # "idle"
  BY Zenon DEF Early, Opened, Closing, Turning, Admin, Kinds, KindsWith
<1>2. Idle.pc = "idle"
  BY Zenon DEF Idle
<1>3. /\ \A c \in Early \cup Admin : c.actor \in Actors
      /\ \A c \in Opened \cup Closing \cup Turning : c.actor \in Actors /\ c.token \in Tokens
  BY Zenon DEF Early, Opened, Closing, Turning, Admin, Kinds, KindsWith
<1> QED
  BY <1>1, <1>2, <1>3

\* A call that is in progress is one of the calls there are.
LEMMA CallType ==
    ASSUME StoresOK, CallsOK, NEW p \in Servers
    PROVE  p \in Processes /\ call[p] \in Calls \cup {Idle}
<1>1. p \in Processes
  BY Zenon, DeploymentType DEF StoresOK
<1> QED
  BY Zenon, <1>1 DEF CallsOK

\* A step that only moves a call walks.
LEMMA OnlyWalks ==
    ASSUME StoresOK, NEW p \in Servers, NEW c \in Calls \cup {Idle}, Goes(p, c), Onward(call[p], c),
           UNCHANGED <<deployment, sessions, lockouts, rates, credentials, now, drawn, history>>
    PROVE  Does(p)
<1>1. rates' \in [Actors -> RateType] /\ credentials' \in [Actors -> {"active", "disabled", None}]
  BY Zenon DEF StoresOK, RateType
<1>2. Walks(p, c)
  BY Zenon, <1>1 DEF Walks
<1> QED
  BY Zenon, <1>2 DEF Does

\* A call that ends and leaves everything as it is
LEMMA OnlyEnds ==
    ASSUME StoresOK, NEW p \in Servers, call' = [call EXCEPT ![p] = Idle],
           UNCHANGED <<deployment, sessions, lockouts, rates, credentials, now, drawn, history>>
    PROVE  Does(p)
  BY Zenon, OnlyWalks DEF Goes, Onward

\* rateLimitExceeded counts an attempt and keeps the row a row.
LEMMA AttemptedType ==
    ASSUME StoresOK, NEW a \in Actors
    PROVE  [rates EXCEPT ![a] = Attempted(@)] \in [Actors -> RateType]
<1>1. rates \in [Actors -> RateType] /\ rates[a] \in RateType /\ now \in Nat /\ LoginRateMax \in Nat
  BY DeploymentType DEF StoresOK, RateType
<1> DEFINE w == IF rates[a] = None \/ now - rates[a].start >= LoginRateWindow
                THEN [start |-> now, count |-> 0]
                ELSE rates[a]
<1>2. w \in [start : 0..now, count : 0..LoginRateMax + 1]
  BY <1>1 DEF RateType
<1>3. Attempted(rates[a]) = [w EXCEPT !.count = IF @ > LoginRateMax THEN @ ELSE @ + 1]
  BY Zenon DEF Attempted
<1>4. Attempted(rates[a]) \in [start : 0..now, count : 1..LoginRateMax + 1]
  <2> HIDE DEF w
  <2>1. w.start \in 0..now /\ w.count \in 0..LoginRateMax + 1
    BY Zenon, <1>2
  <2>2. (IF w.count > LoginRateMax THEN w.count ELSE w.count + 1) \in 1..LoginRateMax + 1
    BY <1>1, <2>1
  <2> QED
    BY Zenon, <1>2, <1>3, <2>2
<1> QED
  BY Zenon, <1>1, <1>4 DEF RateType

LEMMA LoginDoes ==
    ASSUME StoresOK, CallsOK, NEW p \in Servers, NEW a \in Actors \cup {None}, Login(p, a)
    PROVE  Does(p)
<1> DEFINE c == [op |-> "login", pc |-> "locked", actor |-> a]
           attempted == [rates EXCEPT ![a] = Attempted(@)]
<1>1. UNCHANGED <<deployment, sessions, lockouts, credentials, now, drawn, history>> /\ call[p] = Idle
  BY Zenon DEF Login
<1>2. a # None => c \in Early /\ c.pc = "locked" /\ c \in Calls
  BY Zenon DEF Early, Kinds, Calls
<1>3. /\ Goes(p, Idle) \/ (a # None /\ Goes(p, c))
      /\ rates' = rates \/ (a # None /\ rates' = attempted)
  <2> HIDE DEF c, attempted
  <2>1. CASE ~validateLoginRequest(a)
    BY Zenon, <2>1 DEF Login, Return, Goes
  <2>2. CASE validateLoginRequest(a) /\ LoginRateMax = 0
    BY <2>2 DEF Login, Continue, Goes, validateLoginRequest, c
  <2>3. CASE validateLoginRequest(a) /\ LoginRateMax > 0
    BY Zenon, <2>3 DEF Login, Continue, Return, Failed, Goes, validateLoginRequest, c, attempted
  <2> QED
    BY Zenon, <2>1, <2>2, <2>3 DEF Login
<1>4. rates' \in [Actors -> RateType]
  <2>1. rates \in [Actors -> RateType]
    BY Zenon DEF StoresOK, RateType
  <2> QED
    BY Zenon, <1>3, <2>1, AttemptedType
<1>5. credentials' \in [Actors -> {"active", "disabled", None}]
  BY Zenon, <1>1 DEF StoresOK
<1> HIDE DEF c
<1>6. CASE Goes(p, Idle)
  <2>1. Walks(p, Idle)
    BY Zenon, <1>1, <1>4, <1>5, <1>6 DEF Walks, Onward
  <2> QED
    BY Zenon, <2>1 DEF Does
<1>7. CASE a # None /\ Goes(p, c)
  <2>1. Walks(p, c)
    BY Zenon, <1>1, <1>2, <1>4, <1>5, <1>7 DEF Walks, Onward
  <2> QED
    BY Zenon, <1>2, <1>7, <2>1 DEF Does
<1> QED
  BY Zenon, <1>3, <1>6, <1>7

LEMMA CheckDoes ==
    ASSUME StoresOK, CallsOK, NEW p \in Servers, checkLocked(p) \/ verifyCredentials(p)
    PROVE  Does(p)
<1> DEFINE At(pc) == [call[p] EXCEPT !.pc = pc]
<1>1. call[p] \in Early /\ UNCHANGED <<deployment, stores, now, drawn, history>>
  BY Zenon, CallType, CallKinds DEF checkLocked, verifyCredentials
<1>2. \A pc \in {"verify", "fail", "reset"} :
          At(pc) \in Early /\ At(pc).pc = pc /\ At(pc).actor = call[p].actor
  BY Zenon, <1>1 DEF Early, Kinds
<1>3. \/ Goes(p, Idle)
      \/ call[p].pc = "locked" /\ ~Locked(call[p].actor) /\ Goes(p, At("verify"))
      \/ call[p].pc = "verify" /\ (Goes(p, At("fail")) \/ Goes(p, At("reset")))
  BY Zenon DEF checkLocked, verifyCredentials, Return, Continue, Goes
<1>4. Early \subseteq Calls
  BY Zenon DEF Calls
<1>5. CASE Goes(p, Idle)
  BY Zenon, <1>1, <1>5, OnlyWalks DEF Onward, stores
<1> HIDE DEF At
<1>6. CASE call[p].pc = "locked" /\ ~Locked(call[p].actor) /\ Goes(p, At("verify"))
  <2>1. Onward(call[p], At("verify"))
    BY Zenon, <1>1, <1>2, <1>6 DEF Onward
  <2> QED
    BY Zenon, <1>1, <1>2, <1>4, <1>6, <2>1, OnlyWalks DEF stores
<1>7. ASSUME NEW pc \in {"fail", "reset"}, call[p].pc = "verify", Goes(p, At(pc))
      PROVE  Does(p)
  <2>1. Onward(call[p], At(pc))
    BY Zenon, <1>1, <1>2, <1>7 DEF Onward
  <2> QED
    BY Zenon, <1>1, <1>2, <1>4, <1>7, <2>1, OnlyWalks DEF stores
<1> QED
  BY Zenon, <1>3, <1>5, <1>6, <1>7

LEMMA CountsDoes ==
    ASSUME StoresOK, CallsOK, NEW p \in Servers, recordFailure(p)
    PROVE  Does(p)
<1>1. /\ call[p] \in Early /\ call[p].pc = "fail" /\ Goes(p, Idle)
      /\ UNCHANGED <<deployment, sessions, rates, credentials, now, drawn, history>>
  BY Zenon, CallType, CallKinds DEF recordFailure, Return, Goes
<1>2. \/ lockouts' = lockouts
      \/ lockouts' = [lockouts EXCEPT ![call[p].actor] = Failure(@)]
  BY Zenon DEF recordFailure, Failed
<1>3. CASE lockouts' = lockouts
  BY Zenon, <1>1, <1>3, OnlyWalks DEF Onward
<1>4. CASE lockouts' = [lockouts EXCEPT ![call[p].actor] = Failure(@)]
  BY Zenon, <1>1, <1>4 DEF Counts, Does
<1> QED
  BY Zenon, <1>2, <1>3, <1>4

LEMMA ResetsDoes ==
    ASSUME StoresOK, CallsOK, NEW p \in Servers, resetFailures(p)
    PROVE  Does(p)
<1> DEFINE next == IF call[p].op = "login" THEN "store" ELSE "audit"
           c == [call[p] EXCEPT !.pc = next]
           reset == [lockouts EXCEPT ![call[p].actor] =
                        IF UseDB THEN [failed |-> 0, until |-> 0] ELSE None]
<1>1. /\ call[p].pc = "reset"
      /\ UNCHANGED <<deployment, sessions, rates, credentials, now, drawn, history>>
      /\ call[p] \in Early \/ call[p] \in Admin
  BY Zenon, CallType, CallKinds DEF resetFailures
<1>2. /\ call[p] \in Early => c \in Early /\ c.pc = "store" /\ c.actor = call[p].actor
      /\ call[p] \in Admin => c \in Admin /\ c.pc = "audit" /\ c.actor = call[p].actor
  <2>1. call[p] \in Early => next = "store"
    BY Zenon DEF Early, Kinds
  <2>2. call[p] \in Admin => next = "audit"
    BY Zenon DEF Admin, Kinds
  <2> HIDE DEF next
  <2>3. ASSUME call[p] \in Early
        PROVE  c \in Early /\ c.pc = "store" /\ c.actor = call[p].actor
    BY Zenon, <2>1, <2>3 DEF Early, Kinds
  <2>4. ASSUME call[p] \in Admin
        PROVE  c \in Admin /\ c.pc = "audit" /\ c.actor = call[p].actor
    BY Zenon, <2>2, <2>4 DEF Admin, Kinds
  <2> QED
    BY Zenon, <2>3, <2>4
<1>3. \/ Goes(p, Idle) /\ lockouts' \in {lockouts, reset}
      \/ Goes(p, c) /\ lockouts' = reset
  BY Zenon DEF resetFailures, Failed, Return, Continue, Goes
<1>4. CASE Goes(p, Idle) /\ lockouts' = lockouts
  BY Zenon, <1>1, <1>4, OnlyWalks DEF Onward
<1>5. CASE Goes(p, Idle) /\ lockouts' = reset
  <2>1. Resets(p, Idle)
    BY Zenon, <1>1, <1>5 DEF Resets
  <2> QED
    BY Zenon, <2>1 DEF Does
<1>6. CASE Goes(p, c) /\ lockouts' = reset
  <2>1. Resets(p, c)
    <3> HIDE DEF c
    <3> QED
      BY Zenon, <1>1, <1>2, <1>6 DEF Resets
  <2>2. c \in Calls
    <3> HIDE DEF c
    <3> QED
      BY Zenon, <1>1, <1>2 DEF Calls
  <2> QED
    BY Zenon, <2>1, <2>2 DEF Does
<1> QED
  BY Zenon, <1>3, <1>4, <1>5, <1>6

LEMMA OpensDoes ==
    ASSUME StoresOK, CallsOK, NEW p \in Servers, storeSession(p)
    PROVE  Does(p)
<1> DEFINE c == [op |-> "login", pc |-> "audit", actor |-> call[p].actor, token |-> drawn + 1]
<1>1. /\ call[p] \in Early /\ call[p].pc = "store"
      /\ UNCHANGED <<deployment, lockouts, rates, credentials, now, given, heirs, loggedOut>>
  BY Zenon, CallType, CallKinds DEF storeSession
<1>2. drawn < deployment.tokens => drawn + 1 \in Tokens
  BY DeploymentType DEF StoresOK, Tokens
<1>3. drawn < deployment.tokens => c \in Opened /\ c.pc = "audit" /\ c.token = drawn + 1 /\ c \in Calls
  BY Zenon, <1>1, <1>2, KindsApart DEF Opened, KindsWith, Calls
<1>4. CASE Goes(p, Idle) /\ UNCHANGED <<sessions, drawn, deadline>>
  BY Zenon, <1>1, <1>4, OnlyWalks DEF Onward, history
<1>5. ASSUME ~(Goes(p, Idle) /\ UNCHANGED <<sessions, drawn, deadline>>)
      PROVE  /\ drawn < deployment.tokens
             /\ sessions' = [sessions EXCEPT ![drawn + 1] = Session(call[p].actor)]
             /\ drawn' = drawn + 1
             /\ deadline' = [deadline EXCEPT ![drawn + 1] = now + RefreshTTL]
             /\ Goes(p, Idle) \/ Goes(p, c)
  BY Zenon, <1>5 DEF storeSession, Return, Continue, Goes
<1> HIDE DEF c
<1>6. ASSUME ~(Goes(p, Idle) /\ UNCHANGED <<sessions, drawn, deadline>>)
      PROVE  Opens(p, Idle) \/ Opens(p, c)
  BY Zenon, <1>1, <1>3, <1>5, <1>6 DEF Opens
<1>7. CASE ~(Goes(p, Idle) /\ UNCHANGED <<sessions, drawn, deadline>>)
  BY Zenon, <1>3, <1>5, <1>6, <1>7 DEF Does
<1> QED
  BY Zenon, <1>4, <1>7

LEMMA LogoutDoes ==
    ASSUME StoresOK, CallsOK, NEW p \in Servers, NEW a \in Actors \cup {Stranger, None},
           NEW t \in Tokens \cup {None}, Logout(p, a, t)
    PROVE  Does(p)
<1> DEFINE c == [op |-> "logout", pc |-> "revoke", actor |-> a, token |-> t]
<1>1. call[p] = Idle /\ UNCHANGED <<deployment, stores, now, drawn, history>>
  BY Zenon DEF Logout
<1>2. \/ Goes(p, Idle)
      \/ t # None /\ sessions[t] # None /\ sessions[t].actor = a /\ Goes(p, c)
  BY Zenon DEF Logout, Return, Continue, Goes
<1>3. CASE Goes(p, Idle)
  BY Zenon, <1>1, <1>3, OnlyWalks DEF Onward, stores
<1>4. CASE t # None /\ sessions[t] # None /\ sessions[t].actor = a /\ Goes(p, c)
  <2>1. t \in Tokens /\ sessions[t] \in SessionRow
    BY Zenon, <1>4 DEF StoresOK
  <2>2. a \in Actors
    BY Zenon, <1>4, <2>1 DEF SessionRow
  <2>3. c \in Closing /\ c.pc = "revoke" /\ c.token = t
    BY Zenon, <2>1, <2>2 DEF Closing, KindsWith
  <2> HIDE DEF c
  <2>4. Onward(call[p], c) /\ c \in Calls
    BY Zenon, <1>1, <1>4, <2>3 DEF Onward, Calls
  <2> QED
    BY Zenon, <1>1, <1>4, <2>4, OnlyWalks DEF stores
<1> QED
  BY Zenon, <1>2, <1>3, <1>4

LEMMA RefreshDoes ==
    ASSUME StoresOK, CallsOK, NEW p \in Servers, NEW a \in Actors \cup {Stranger, None},
           NEW t \in Tokens \cup {None}, RefreshToken(p, a, t)
    PROVE  Does(p)
<1> DEFINE c == [op |-> "refresh", pc |-> "rotate", actor |-> a, token |-> t]
<1>1. call[p] = Idle /\ UNCHANGED <<deployment, stores, now, drawn, history>>
  BY Zenon DEF RefreshToken
<1>2. \/ Goes(p, Idle)
      \/ t # None /\ Live(t) /\ sessions[t].actor = a /\ Goes(p, c)
  BY Zenon DEF RefreshToken, Return, Continue, Goes
<1>3. CASE Goes(p, Idle)
  BY Zenon, <1>1, <1>3, OnlyWalks DEF Onward, stores
<1>4. CASE t # None /\ Live(t) /\ sessions[t].actor = a /\ Goes(p, c)
  <2>1. t \in Tokens /\ sessions[t] \in SessionRow
    BY Zenon, <1>4 DEF StoresOK, Live
  <2>2. a \in Actors
    BY Zenon, <1>4, <2>1 DEF SessionRow
  <2>3. c \in Turning /\ c.pc = "rotate" /\ c.token = t
    BY Zenon, <2>1, <2>2 DEF Turning, KindsWith
  <2> HIDE DEF c
  <2>4. Onward(call[p], c) /\ c \in Calls
    BY Zenon, <1>1, <1>4, <2>3 DEF Onward, Calls
  <2> QED
    BY Zenon, <1>1, <1>4, <2>4, OnlyWalks DEF stores
<1> QED
  BY Zenon, <1>2, <1>3, <1>4

LEMMA RevokesDoes ==
    ASSUME StoresOK, CallsOK, NEW p \in Servers, revokeSession(p)
    PROVE  Does(p)
<1> DEFINE c == [call[p] EXCEPT !.pc = "audit"]
<1>1. /\ call[p] \in Closing /\ call[p].pc = "revoke"
      /\ UNCHANGED <<deployment, lockouts, rates, credentials, now, drawn, deadline, given, heirs>>
      /\ loggedOut' = IF sessions' # sessions THEN loggedOut \cup {call[p].token} ELSE loggedOut
  BY Zenon, CallType, CallKinds DEF revokeSession
<1>2. c \in Closing /\ c.pc = "audit" /\ c.token = call[p].token
  BY Zenon, <1>1 DEF Closing, KindsWith
<1>3. \/ Goes(p, Idle) /\ sessions' = sessions
      \/ (Goes(p, Idle) \/ Goes(p, c)) /\ sessions' = Revoked(call[p].token)
  BY Zenon DEF revokeSession, Failed, Return, Continue, Goes
<1>4. CASE Goes(p, Idle) /\ sessions' = sessions
  BY Zenon, <1>1, <1>4, OnlyWalks DEF Onward, history
<1> HIDE DEF c
<1>5. CASE (Goes(p, Idle) \/ Goes(p, c)) /\ sessions' = Revoked(call[p].token)
  <2>1. Revokes(p, Idle) \/ Revokes(p, c)
    BY Zenon, <1>1, <1>2, <1>5 DEF Revokes
  <2> QED
    BY Zenon, <1>2, <2>1 DEF Does, Calls
<1> QED
  BY Zenon, <1>3, <1>4, <1>5

LEMMA RotatesDoes ==
    ASSUME StoresOK, CallsOK, NEW p \in Servers, rotateSession(p)
    PROVE  Does(p)
<1> DEFINE c == [call[p] EXCEPT !.pc = "audit", !.token = drawn + 1]
           Same == Goes(p, Idle) /\ UNCHANGED <<sessions, drawn, deadline, heirs>>
<1>1. /\ call[p] \in Turning /\ call[p].pc = "rotate"
      /\ UNCHANGED <<deployment, lockouts, rates, credentials, now, given, loggedOut>>
  BY Zenon, CallType, CallKinds DEF rotateSession
<1>2. drawn < deployment.tokens => drawn + 1 \in Tokens
  BY DeploymentType DEF StoresOK, Tokens
<1>3. drawn < deployment.tokens => c \in Turning /\ c.pc = "audit" /\ c.token = drawn + 1
  BY Zenon, <1>1, <1>2 DEF Turning, KindsWith
<1>4. CASE Same
  BY Zenon, <1>1, <1>4, OnlyWalks DEF Onward, history
<1>5. ASSUME ~Same
      PROVE  /\ drawn < deployment.tokens
             /\ sessions' = [Revoked(call[p].token) EXCEPT ![drawn + 1] = Session(call[p].actor)]
             /\ drawn' = drawn + 1
             /\ deadline' = [deadline EXCEPT ![drawn + 1] = now + RefreshTTL]
             /\ heirs' = [heirs EXCEPT ![call[p].token] = @ \cup {drawn + 1}]
             /\ Goes(p, Idle) \/ Goes(p, c)
  BY Zenon, <1>5 DEF rotateSession, Return, Continue, Goes
<1> HIDE DEF c, Same
<1>6. ASSUME ~Same
      PROVE  Rotates(p, Idle) \/ Rotates(p, c)
  BY Zenon, <1>1, <1>3, <1>5, <1>6 DEF Rotates
<1>7. CASE ~Same
  BY Zenon, <1>3, <1>5, <1>6, <1>7 DEF Does, Calls
<1> QED
  BY Zenon, <1>4, <1>7

LEMMA AdminDoes ==
    ASSUME StoresOK, CallsOK, NEW p \in Servers, NEW admin, NEW a \in Actors,
           \/ \E hash \in {"good", "weak", None} : SetCredential(p, admin, a, hash)
           \/ \E status \in {"disabled", "active"} : setCredentialStatus(p, admin, a, status)
           \/ ResetLockout(p, admin, a)
    PROVE  Does(p)
<1> DEFINE At(pc) == [op |-> "admin", pc |-> pc, actor |-> a]
           Status == [Actors -> {"active", "disabled", None}]
<1>1. /\ call[p] = Idle
      /\ UNCHANGED <<deployment, sessions, lockouts, rates, now, drawn, history>>
  BY Zenon DEF SetCredential, setCredentialStatus, ResetLockout, stores
<1>2. \A pc \in {"reset", "audit"} : At(pc) \in Admin
  BY Zenon DEF Admin, Kinds
<1>3. Goes(p, Idle) \/ Goes(p, At("reset")) \/ Goes(p, At("audit"))
  <2>1. ASSUME NEW hash, SetCredential(p, admin, a, hash)
        PROVE  Goes(p, Idle) \/ Goes(p, At("reset"))
    BY Zenon, <2>1 DEF SetCredential, Return, Continue, Goes
  <2>2. ASSUME NEW status, setCredentialStatus(p, admin, a, status)
        PROVE  Goes(p, Idle) \/ Goes(p, At("audit"))
    BY Zenon, <2>2 DEF setCredentialStatus, Return, Continue, Goes
  <2>3. ResetLockout(p, admin, a) => Goes(p, Idle) \/ Goes(p, At("reset"))
    BY Zenon DEF ResetLockout, Return, Continue, Goes
  <2> HIDE DEF At
  <2> QED
    BY Zenon, <2>1, <2>2, <2>3
<1>4. credentials' \in Status
  <2>0. credentials \in Status
    BY Zenon DEF StoresOK
  <2>1. ASSUME NEW hash, SetCredential(p, admin, a, hash)
        PROVE  credentials' \in {credentials, [credentials EXCEPT ![a] = "active"]}
    BY Zenon, <2>1 DEF SetCredential, Failed
  <2>2. ASSUME NEW status, setCredentialStatus(p, admin, a, status)
        PROVE  credentials' \in {credentials, [credentials EXCEPT ![a] = IF @ = None THEN None ELSE status]}
    BY Zenon, <2>2 DEF setCredentialStatus, Failed
  <2>3. ResetLockout(p, admin, a) => credentials' = credentials
    BY Zenon DEF ResetLockout, stores
  <2>4. [credentials EXCEPT ![a] = "active"] \in Status
    BY Zenon, <2>0
  <2>5. \A status \in {"disabled", "active"} :
            [credentials EXCEPT ![a] = IF @ = None THEN None ELSE status] \in Status
    BY Zenon, <2>0
  <2> HIDE DEF Status
  <2>6. ASSUME NEW status \in {"disabled", "active"}, setCredentialStatus(p, admin, a, status)
        PROVE  credentials' \in Status
    BY Zenon, <2>0, <2>2, <2>5, <2>6
  <2> QED
    BY Zenon, <2>0, <2>1, <2>3, <2>4, <2>6
<1>5. rates' \in [Actors -> RateType]
  BY Zenon, <1>1 DEF StoresOK, RateType
<1> HIDE DEF At
<1>6. ASSUME NEW c \in Calls \cup {Idle}, Goes(p, c), c \in Admin \cup {Idle}
      PROVE  Does(p)
  <2>1. Walks(p, c)
    BY Zenon, <1>1, <1>4, <1>5, <1>6 DEF Walks, Onward
  <2> QED
    BY Zenon, <2>1 DEF Does
<1> QED
  BY Zenon, <1>2, <1>3, <1>6 DEF Calls

LEMMA AuditDoes ==
    ASSUME StoresOK, CallsOK, NEW p \in Servers, appendAudit(p)
    PROVE  Does(p)
<1> DEFINE c == [call[p] EXCEPT !.pc = "undo"]
<1>1. /\ call[p].pc = "audit" /\ call[p] \in Calls \cup {Idle}
      /\ UNCHANGED <<deployment, lockouts, rates, credentials, now, drawn, deadline, heirs, loggedOut>>
  BY Zenon, CallType DEF appendAudit
<1>2. call[p].op \in {"login", "refresh"} => Fresh(call[p])
  BY Zenon, <1>1, CallKinds DEF Fresh
<1>3. CASE /\ Goes(p, Idle) /\ UNCHANGED sessions
           /\ given' = IF call[p].op \in {"login", "refresh"} THEN given \cup {call[p].token} ELSE given
  BY Zenon, <1>1, <1>2, <1>3 DEF Tells, Does, stores
<1>4. CASE call[p].op = "login" /\ Goes(p, c) /\ UNCHANGED <<sessions, given>>
  <2>1. call[p] \in Opened
    BY Zenon, <1>1, <1>4, CallKinds
  <2>2. c \in Opened /\ c.pc = "undo" /\ c.token = call[p].token
    BY Zenon, <2>1 DEF Opened, KindsWith
  <2> HIDE DEF c
  <2>3. Onward(call[p], c) /\ c \in Calls
    BY Zenon, <1>1, <2>1, <2>2 DEF Onward, Calls
  <2> QED
    BY Zenon, <1>1, <1>4, <2>3, OnlyWalks DEF history
<1>5. CASE Goes(p, Idle) /\ UNCHANGED <<sessions, given>>
  BY Zenon, <1>1, <1>5, OnlyWalks DEF Onward, history
<1>6. CASE /\ call[p].op = "refresh" /\ sessions' = Revoked(call[p].token)
           /\ Goes(p, Idle) /\ UNCHANGED given
  BY Zenon, <1>1, <1>2, <1>6 DEF TakesBack, Does, history
<1> QED
  BY Zenon, <1>3, <1>4, <1>5, <1>6 DEF appendAudit, Return, Continue, Goes

LEMMA UndoDoes ==
    ASSUME StoresOK, CallsOK, NEW p \in Servers, undo(p)
    PROVE  Does(p)
<1>1. /\ call[p] \in Opened /\ Goes(p, Idle)
      /\ UNCHANGED <<deployment, lockouts, rates, credentials, now, drawn, history>>
  BY Zenon, CallType, CallKinds DEF undo, Return, Goes
<1>2. sessions' = sessions \/ sessions' = Revoked(call[p].token)
  BY Zenon DEF undo, Failed
<1>3. CASE sessions' = sessions
  BY Zenon, <1>1, <1>3, OnlyWalks DEF Onward
<1>4. CASE sessions' = Revoked(call[p].token)
  BY Zenon, <1>1, <1>4 DEF TakesBack, Fresh, Does
<1> QED
  BY Zenon, <1>2, <1>3, <1>4

\* Every step is one of these.
LEMMA NextDoes ==
    ASSUME StoresOK, CallsOK, [Next]_vars
    PROVE  (\E p \in Servers : Does(p)) \/ CleanupExpiredSessions \/ Tick \/ UNCHANGED vars
<1>1. ASSUME NEW p \in Servers, Handler(p)
      PROVE  Does(p)
  <2>1. ASSUME NEW a \in Actors \cup {None}, Login(p, a)
        PROVE  Does(p)
    BY Zenon, <2>1, LoginDoes
  <2>2. ASSUME NEW a \in Actors \cup {Stranger, None}, NEW t \in Tokens \cup {None},
               Logout(p, a, t) \/ RefreshToken(p, a, t)
        PROVE  Does(p)
    BY Zenon, <2>2, LogoutDoes, RefreshDoes
  <2>3. ASSUME NEW admin \in {Operator, Stranger}, GetLockout(p, admin)
        PROVE  Does(p)
    BY Zenon, <1>1, <2>3, OnlyEnds DEF GetLockout, Return, stores
  <2>4. ASSUME NEW admin \in {Operator, Stranger}, NEW a \in Actors,
               \/ \E hash \in {"good", "weak", None} : SetCredential(p, admin, a, hash)
               \/ DisableCredential(p, admin, a) \/ EnableCredential(p, admin, a)
               \/ ResetLockout(p, admin, a)
        PROVE  Does(p)
    BY Zenon, <2>4, AdminDoes DEF DisableCredential, EnableCredential
  <2> QED
    BY Zenon, <1>1, <2>1, <2>2, <2>3, <2>4 DEF Handler
<1>2. ASSUME NEW p \in Servers, Step(p)
      PROVE  Does(p)
  <2>1. CASE Restart(p)
    BY Zenon, <2>1, OnlyEnds DEF Restart, stores
  <2> QED
    BY Zenon, <1>2, <2>1, CheckDoes, CountsDoes, ResetsDoes, OpensDoes, RevokesDoes, RotatesDoes, AuditDoes,
       UndoDoes DEF Step
<1> QED
  BY Zenon, <1>1, <1>2 DEF Next

-----------------------------------------------------------------------------
(* The stores, the history and the calls keep their types.                   *)

\* What revokeSession leaves behind
LEMMA RevokedIs ==
    ASSUME StoresOK, NEW t \in Tokens
    PROVE  /\ Revoked(t) \in [Tokens -> SessionRow \cup {None}]
           /\ \A u \in Tokens \ {t} : Revoked(t)[u] = sessions[u]
           /\ Revoked(t)[t] = None \/ Revoked(t)[t].revoked
           /\ sessions[t] = None => Revoked(t)[t] = None
           /\ Revoked(t) = sessions => sessions[t] = None \/ sessions[t].revoked
<1> DEFINE new == IF sessions[t] = None \/ ~UseDB THEN None ELSE [sessions[t] EXCEPT !.revoked = TRUE]
<1>1. sessions \in [Tokens -> SessionRow \cup {None}]
  BY Zenon DEF StoresOK
<1>2. new = None \/ (new \in SessionRow /\ new.revoked = TRUE)
  BY Zenon, <1>1 DEF SessionRow
<1>3. sessions[t] = None => new = None
  BY Zenon
<1>4. Revoked(t) = [sessions EXCEPT ![t] = new]
  BY Zenon DEF Revoked
<1> HIDE DEF new
<1>5. /\ Revoked(t)[t] = new /\ \A u \in Tokens \ {t} : Revoked(t)[u] = sessions[u]
      /\ Revoked(t) \in [Tokens -> SessionRow \cup {None}]
  BY Zenon, <1>1, <1>2, <1>4
<1> QED
  BY Zenon, <1>2, <1>3, <1>5

\* One more failure
LEMMA FailureIs ==
    ASSUME StoresOK, NEW l \in LockoutRow \cup {None}
    PROVE  /\ Failure(l) \in LockoutRow
           /\ Failure(l).failed = IF l = None THEN 1 ELSE l.failed + 1
           /\ l # None => Failure(l).until \in {l.until, now + LockoutTTL}
           /\ l = None => Failure(l).until \in {0, now + LockoutTTL}
           /\ Failure(l).failed >= LockingFailures => Failure(l).until = now + LockoutTTL
<1>1. now \in Nat /\ LockoutTTL \in Nat /\ MaxFailures \in Nat \ {0}
  BY ConstantsAssumption, DeploymentType DEF StoresOK
<1>2. CASE l = None /\ UseDB
  <2>1. Failure(l) = [failed |-> 1, until |-> 0]
    BY Zenon, <1>2 DEF Failure
  <2>2. ~(1 >= LockingFailures)
    BY <1>1, <1>2 DEF LockingFailures
  <2> QED
    BY <1>1, <1>2, <2>1, <2>2 DEF LockoutRow
<1>3. CASE ~(l = None /\ UseDB)
  <2> DEFINE m == IF l = None THEN [failed |-> 0, until |-> 0] ELSE l
             u == IF m.failed + 1 >= MaxFailures THEN now + LockoutTTL ELSE m.until
  <2>1. Failure(l) = [failed |-> m.failed + 1, until |-> u]
    BY Zenon, <1>3 DEF Failure
  <2>2. m \in LockoutRow /\ (l # None => m = l) /\ (l = None => m.failed = 0 /\ m.until = 0)
    BY Zenon DEF LockoutRow
  <2>3. m.failed \in Nat /\ m.until \in Nat /\ u \in {m.until, now + LockoutTTL}
    BY Zenon, <2>2 DEF LockoutRow
  <2>4. m.failed + 1 >= LockingFailures => u = now + LockoutTTL
    BY <1>1, <2>3 DEF LockingFailures
  <2> HIDE DEF m, u
  <2> QED
    BY <1>1, <2>1, <2>2, <2>3, <2>4 DEF LockoutRow
<1> QED
  BY Zenon, <1>2, <1>3

\* The call of p moves and the others stay.
LEMMA GoesIs ==
    ASSUME StoresOK, CallsOK, NEW p, NEW c \in Calls \cup {Idle}, Goes(p, c)
    PROVE  /\ p \in Processes /\ p \in Servers
           /\ call' \in [Processes -> Calls \cup {Idle}]
           /\ call'[p] = c
           /\ \A q \in Processes \ {p} : call'[q] = call[q]
<1>1. p \in Processes /\ p \in Servers
  BY Zenon, DeploymentType DEF StoresOK, Goes
<1> QED
  BY Zenon, <1>1 DEF CallsOK, Goes

\* The variables the effects leave alone
LEMMA DoesFrame ==
    ASSUME NEW p, Does(p)
    PROVE  UNCHANGED <<deployment, now>> /\ \E c \in Calls \cup {Idle} : Goes(p, c)
  BY Zenon DEF Does, Walks, Resets, Opens, Revokes, Rotates, Tells, Counts, TakesBack

\* The lockouts, the rates and the credentials keep their types.
LEMMA RowsStep ==
    ASSUME StoresOK, CallsOK, NEW p \in Servers, Does(p)
    PROVE  /\ lockouts' \in [Actors -> LockoutRow \cup {None}]
           /\ rates' \in [Actors -> RateType]
           /\ credentials' \in [Actors -> {"active", "disabled", None}]
<1>0. /\ lockouts \in [Actors -> LockoutRow \cup {None}]
      /\ rates \in [Actors -> RateType]
      /\ credentials \in [Actors -> {"active", "disabled", None}]
  BY Zenon DEF StoresOK, RateType
<1>1. CASE Counts(p)
  <2>1. call[p].actor \in Actors
    BY Zenon, <1>1, KindsApart DEF Counts
  <2>2. lockouts[call[p].actor] \in LockoutRow \cup {None}
    BY Zenon, <1>0, <2>1
  <2>3. Failure(lockouts[call[p].actor]) \in LockoutRow
    BY Zenon, <2>2, FailureIs
  <2> QED
    BY Zenon, <1>0, <1>1, <2>1, <2>3 DEF Counts
<1>2. ASSUME NEW c, Resets(p, c)
      PROVE  /\ lockouts' \in [Actors -> LockoutRow \cup {None}]
             /\ UNCHANGED <<rates, credentials>>
  <2>1. (IF UseDB THEN [failed |-> 0, until |-> 0] ELSE None) \in LockoutRow \cup {None}
    BY Zenon DEF LockoutRow
  <2> QED
    BY Zenon, <1>0, <1>2, <2>1 DEF Resets
<1>3. ASSUME NEW c, Opens(p, c) \/ Revokes(p, c) \/ Rotates(p, c)
      PROVE  UNCHANGED <<lockouts, rates, credentials>>
  BY Zenon, <1>3 DEF Opens, Revokes, Rotates
<1>4. CASE Tells(p) \/ TakesBack(p)
  BY Zenon, <1>0, <1>4 DEF Tells, TakesBack, stores
<1>5. ASSUME NEW c, Walks(p, c)
      PROVE  /\ lockouts' = lockouts /\ rates' \in [Actors -> RateType]
             /\ credentials' \in [Actors -> {"active", "disabled", None}]
  BY Zenon, <1>5 DEF Walks
<1> HIDE DEF RateType
<1> QED
  BY Zenon, <1>0, <1>1, <1>2, <1>3, <1>4, <1>5 DEF Does

\* The new token is the next number.
LEMMA NewToken ==
    ASSUME StoresOK, drawn < deployment.tokens
    PROVE  /\ drawn \in Nat /\ drawn + 1 \in Tokens /\ drawn + 1 \in 0..deployment.tokens
           /\ now + RefreshTTL \in Nat
           /\ \A t \in 1..drawn : t \in 1..(drawn + 1) /\ t # drawn + 1
<1>1. deployment \in Deployments /\ now \in 0..deployment.time /\ drawn \in 0..deployment.tokens
  BY Zenon DEF StoresOK
<1>2. /\ deployment.tokens \in Nat /\ deployment.tokens <= MaxTokens /\ MaxTokens \in Nat
      /\ deployment.time \in Nat
  BY Zenon, <1>1, DeploymentType
<1>3. RefreshTTL \in Nat
  BY Zenon, ConstantsAssumption
<1> QED
  BY <1>1, <1>2, <1>3 DEF Tokens

\* A session that is stored
LEMMA StoredIs ==
    ASSUME StoresOK, drawn < deployment.tokens, NEW a \in Actors
    PROVE  /\ Session(a) \in SessionRow /\ Session(a) # None
           /\ Session(a).actor = a /\ ~Session(a).revoked /\ Session(a).expires = now + RefreshTTL
<1>1. Session(a) \in SessionRow
  BY Zenon, NewToken DEF Session, SessionRow
<1> QED
  BY Zenon, <1>1, ConstantsAssumption DEF Session

\* The sessions keep their types, under tokens that have been drawn.
LEMMA SessionsStep ==
    ASSUME StoresOK, CallsOK, NEW p \in Servers, Does(p)
    PROVE  /\ sessions' \in [Tokens -> SessionRow \cup {None}]
           /\ drawn' \in 0..deployment.tokens /\ drawn <= drawn'
           /\ \A t \in Tokens : sessions'[t] # None => t <= drawn'
<1>0. /\ sessions \in [Tokens -> SessionRow \cup {None}] /\ drawn \in 0..deployment.tokens
      /\ \A t \in Tokens : sessions[t] # None => t <= drawn
      /\ drawn \in Nat /\ \A t \in Tokens : t \in Nat
  BY DeploymentType DEF StoresOK, Tokens
<1>1. ASSUME NEW c, Opens(p, c)
      PROVE  /\ sessions' \in [Tokens -> SessionRow \cup {None}]
             /\ drawn' \in 0..deployment.tokens /\ drawn <= drawn'
             /\ \A t \in Tokens : sessions'[t] # None => t <= drawn'
  <2>1. /\ drawn < deployment.tokens /\ drawn' = drawn + 1 /\ call[p].actor \in Actors
        /\ sessions' = [sessions EXCEPT ![drawn + 1] = Session(call[p].actor)]
    BY Zenon, <1>1, KindsApart DEF Opens
  <2>2. Session(call[p].actor) \in SessionRow /\ drawn + 1 \in Tokens /\ drawn' \in 0..deployment.tokens
    BY Zenon, <2>1, NewToken, StoredIs
  <2>3. \A t \in Tokens : sessions'[t] = IF t = drawn + 1 THEN Session(call[p].actor) ELSE sessions[t]
    BY Zenon, <1>0, <2>1
  <2>4. \A t \in Tokens : sessions'[t] # None => t <= drawn'
    BY <1>0, <2>1, <2>3
  <2> QED
    BY <1>0, <2>1, <2>2, <2>4
<1>2. ASSUME NEW c, Rotates(p, c)
      PROVE  /\ sessions' \in [Tokens -> SessionRow \cup {None}]
             /\ drawn' \in 0..deployment.tokens /\ drawn <= drawn'
             /\ \A t \in Tokens : sessions'[t] # None => t <= drawn'
  <2> DEFINE r == Revoked(call[p].token)
  <2>1. /\ drawn < deployment.tokens /\ drawn' = drawn + 1
        /\ call[p].actor \in Actors /\ call[p].token \in Tokens
        /\ sessions' = [r EXCEPT ![drawn + 1] = Session(call[p].actor)]
    BY Zenon, <1>2, KindsApart DEF Rotates
  <2>2. Session(call[p].actor) \in SessionRow /\ drawn + 1 \in Tokens /\ drawn' \in 0..deployment.tokens
    BY Zenon, <2>1, NewToken, StoredIs
  <2>3. /\ r \in [Tokens -> SessionRow \cup {None}]
        /\ \A t \in Tokens : r[t] # None => sessions[t] # None
    BY <2>1, RevokedIs
  <2> HIDE DEF r
  <2>4. \A t \in Tokens : sessions'[t] = IF t = drawn + 1 THEN Session(call[p].actor) ELSE r[t]
    BY Zenon, <2>1, <2>3
  <2>5. \A t \in Tokens : sessions'[t] # None => t <= drawn'
    BY <1>0, <2>1, <2>3, <2>4
  <2> QED
    BY <1>0, <2>1, <2>2, <2>3, <2>5
<1>3. ASSUME NEW t \in Tokens, sessions' = Revoked(t), drawn' = drawn
      PROVE  /\ sessions' \in [Tokens -> SessionRow \cup {None}]
             /\ drawn' \in 0..deployment.tokens /\ drawn <= drawn'
             /\ \A u \in Tokens : sessions'[u] # None => u <= drawn'
  <2>1. /\ sessions' \in [Tokens -> SessionRow \cup {None}]
        /\ \A u \in Tokens : sessions'[u] # None => sessions[u] # None
    BY Zenon, <1>3, RevokedIs
  <2> QED
    BY <1>0, <1>3, <2>1
<1>4. ASSUME NEW c, Revokes(p, c)
      PROVE  call[p].token \in Tokens /\ sessions' = Revoked(call[p].token) /\ drawn' = drawn
  BY Zenon, <1>4, KindsApart DEF Revokes
<1>5. ASSUME TakesBack(p)
      PROVE  call[p].token \in Tokens /\ sessions' = Revoked(call[p].token) /\ drawn' = drawn
  BY Zenon, <1>5, KindsApart DEF TakesBack, Fresh
<1>6. ASSUME NEW c, Walks(p, c) \/ Resets(p, c)
      PROVE  UNCHANGED <<sessions, drawn>>
  BY Zenon, <1>6 DEF Walks, Resets
<1>7. CASE Tells(p) \/ Counts(p)
  BY <1>0, <1>7 DEF Tells, Counts, stores
<1>8. CASE UNCHANGED <<sessions, drawn>>
  BY <1>0, <1>8
<1> QED
  BY Zenon, <1>1, <1>2, <1>3, <1>4, <1>5, <1>6, <1>7, <1>8 DEF Does

\* The stores keep their types.
LEMMA StoresStep ==
    ASSUME StoresOK, CallsOK, [Next]_vars
    PROVE  StoresOK'
<1>1. ASSUME NEW p \in Servers, Does(p)
      PROVE  StoresOK'
  <2>1. UNCHANGED <<deployment, now>>
    BY Zenon, <1>1, DoesFrame
  <2>2. UNCHANGED <<RateType, LoginRateMax>>
    BY Zenon, <2>1 DEF RateType, LoginRateMax
  <2>3. rates' \in [Actors -> [start : 0..now, count : 1..LoginRateMax + 1] \cup {None}]'
    BY Zenon, <1>1, <2>2, RowsStep DEF RateType
  <2> QED
    BY Zenon, <1>1, <2>1, <2>3, RowsStep, SessionsStep DEF StoresOK
<1>2. CASE CleanupExpiredSessions
  <2>1. PICK t \in Expired : sessions' = [sessions EXCEPT ![t] = None]
    BY Zenon, <1>2 DEF CleanupExpiredSessions
  <2>2. UNCHANGED <<deployment, lockouts, rates, credentials, now, drawn>>
    BY Zenon, <1>2 DEF CleanupExpiredSessions
  <2>3. sessions \in [Tokens -> SessionRow \cup {None}]
    BY Zenon DEF StoresOK
  <2>4. \A u \in Tokens : sessions'[u] = IF u = t THEN None ELSE sessions[u]
    BY Zenon, <2>1, <2>3
  <2>5. sessions' \in [Tokens -> SessionRow \cup {None}]
    BY Zenon, <2>1, <2>3
  <2>6. \A u \in Tokens : sessions'[u] # None => u <= drawn
    BY Zenon, <2>4 DEF StoresOK
  <2> QED
    BY Zenon, <2>2, <2>5, <2>6 DEF StoresOK, LoginRateMax
<1>3. CASE Tick
  <2>1. /\ now < deployment.time /\ now' = now + 1
        /\ UNCHANGED <<deployment, sessions, lockouts, rates, credentials, drawn>>
    BY Zenon, <1>3 DEF Tick, stores
  <2>2. now \in Nat /\ deployment.time \in Nat
    BY DeploymentType DEF StoresOK
  <2>3. now' \in 0..deployment.time
    BY <2>1, <2>2
  <2>4. 0..now \subseteq 0..now'
    BY <2>1, <2>2
  <2>5. rates' \in [Actors -> [start : 0..now, count : 1..LoginRateMax + 1] \cup {None}]'
    <3>1. rates \in [Actors -> [start : 0..now, count : 1..LoginRateMax + 1] \cup {None}]
      BY Zenon DEF StoresOK
    <3>2. [start : 0..now, count : 1..LoginRateMax + 1]
              \subseteq [start : 0..now', count : 1..LoginRateMax + 1]
      BY Zenon, <2>4
    <3> QED
      BY Zenon, <2>1, <3>1, <3>2 DEF LoginRateMax
  <2> QED
    BY Zenon, <2>1, <2>3, <2>5 DEF StoresOK
<1>4. CASE UNCHANGED vars
  BY Zenon, <1>4 DEF vars, stores, StoresOK, LoginRateMax
<1> QED
  BY Zenon, <1>1, <1>2, <1>3, <1>4, NextDoes

\* The history keeps its types.
LEMMA HistoryStep ==
    ASSUME StoresOK, HistoryOK, CallsOK, [Next]_vars
    PROVE  HistoryOK'
<1>0. drawn \in Nat
  BY DeploymentType DEF StoresOK
<1>1. ASSUME NEW p \in Servers, Does(p)
      PROVE  HistoryOK'
  <2>0. p \in Processes
    BY Zenon, DeploymentType DEF StoresOK
  <2>1. ASSUME NEW c, Opens(p, c)
        PROVE  HistoryOK'
    <3>1. /\ drawn < deployment.tokens /\ drawn' = drawn + 1
          /\ deadline' = [deadline EXCEPT ![drawn + 1] = now + RefreshTTL]
          /\ UNCHANGED <<given, heirs, loggedOut>>
      BY Zenon, <2>1 DEF Opens
    <3>2. deadline' \in [Tokens -> Nat]
      BY Zenon, <3>1, NewToken DEF HistoryOK
    <3>3. 1..drawn \subseteq 1..drawn'
      BY <1>0, <3>1
    <3> QED
      BY Zenon, <3>1, <3>2, <3>3 DEF HistoryOK
  <2>2. ASSUME NEW c, Rotates(p, c)
        PROVE  HistoryOK'
    <3>1. /\ drawn < deployment.tokens /\ drawn' = drawn + 1
          /\ deadline' = [deadline EXCEPT ![drawn + 1] = now + RefreshTTL]
          /\ heirs' = [heirs EXCEPT ![call[p].token] = @ \cup {drawn + 1}]
          /\ UNCHANGED <<given, loggedOut>>
      BY Zenon, <2>2 DEF Rotates
    <3>2. deadline' \in [Tokens -> Nat]
      BY Zenon, <3>1, NewToken DEF HistoryOK
    <3>3. 1..drawn \subseteq 1..drawn' /\ drawn + 1 \in 1..drawn'
      BY <1>0, <3>1
    <3>4. call[p].token \in Tokens
      BY Zenon, <2>2, KindsApart DEF Rotates
    <3>5. heirs' \in [Tokens -> SUBSET (1..drawn')]
      BY Zenon, <3>1, <3>3, <3>4 DEF HistoryOK
    <3> QED
      BY Zenon, <3>1, <3>2, <3>3, <3>5 DEF HistoryOK
  <2>3. ASSUME NEW c, Revokes(p, c)
        PROVE  HistoryOK'
    <3>1. /\ UNCHANGED <<drawn, deadline, given, heirs>>
          /\ loggedOut' \in {loggedOut, loggedOut \cup {call[p].token}}
      BY Zenon, <2>3 DEF Revokes
    <3>2. call[p].token \in 1..drawn
      <4>1. call[p].token \in Tokens /\ call[p].token <= drawn
        BY Zenon, <2>0, <2>3, KindsApart DEF Revokes, CallsOK
      <4> QED
        BY <1>0, <4>1 DEF Tokens
    <3> QED
      BY Zenon, <3>1, <3>2 DEF HistoryOK
  <2>4. CASE Tells(p)
    <3>1. /\ UNCHANGED <<drawn, deadline, heirs, loggedOut>>
          /\ given' = given \/ (Fresh(call[p]) /\ given' = given \cup {call[p].token})
      BY Zenon, <2>4 DEF Tells
    <3>2. Fresh(call[p]) => call[p].token \in 1..drawn
      <4>1. ASSUME Fresh(call[p])
            PROVE  call[p].token \in Tokens /\ call[p].token <= drawn
        BY Zenon, <2>0, <4>1, KindsApart DEF Fresh, CallsOK
      <4> QED
        BY <1>0, <4>1 DEF Tokens
    <3> QED
      BY Zenon, <3>1, <3>2 DEF HistoryOK
  <2>5. ASSUME NEW c, Walks(p, c) \/ Resets(p, c)
        PROVE  HistoryOK'
    BY Zenon, <2>5 DEF Walks, Resets, history, HistoryOK
  <2>6. CASE Counts(p) \/ TakesBack(p)
    BY Zenon, <2>6 DEF Counts, TakesBack, history, HistoryOK
  <2> QED
    BY Zenon, <1>1, <2>1, <2>2, <2>3, <2>4, <2>5, <2>6 DEF Does
<1>2. CASE CleanupExpiredSessions
  BY Zenon, <1>2 DEF CleanupExpiredSessions, history, HistoryOK
<1>3. CASE Tick
  BY Zenon, <1>3 DEF Tick, history, HistoryOK
<1>4. CASE UNCHANGED vars
  BY Zenon, <1>4 DEF vars, history, HistoryOK
<1> QED
  BY Zenon, <1>1, <1>2, <1>3, <1>4, NextDoes

\* The calls keep their types, and their tokens have been drawn.
LEMMA CallsStep ==
    ASSUME StoresOK, CallsOK, [Next]_vars
    PROVE  CallsOK'
<1> DEFINE Held == Opened \cup Closing \cup Turning
<1>0. drawn \in Nat /\ \A t \in Tokens : t \in Nat
  BY DeploymentType DEF StoresOK, Tokens
<1>1. ASSUME NEW p \in Servers, Does(p)
      PROVE  CallsOK'
  <2>0. p \in Processes
    BY Zenon, DeploymentType DEF StoresOK
  <2>1. PICK c \in Calls \cup {Idle} : Goes(p, c)
    BY Zenon, <1>1, DoesFrame
  <2>2. /\ call' \in [Processes -> Calls \cup {Idle}] /\ call'[p] = c
        /\ \A q \in Processes \ {p} : call'[q] = call[q]
    BY Zenon, <2>1, GoesIs
  <2>3. Servers' = Servers
    BY Zenon, <1>1, DoesFrame DEF Servers
  <2>4. drawn <= drawn' /\ drawn' \in Nat
    BY <1>1, SessionsStep, DeploymentType DEF StoresOK
  <2>5. c \in Held => c.token <= drawn'
    <3>1. ASSUME NEW b, Walks(p, b), b \in Held
          PROVE  b.token <= drawn
      <4>1. call[p] \in Held => call[p].token <= drawn
        BY Zenon, <2>0 DEF CallsOK
      <4>2. ASSUME NEW t \in Tokens, sessions[t] # None
            PROVE  t <= drawn
        BY Zenon, <4>2 DEF StoresOK
      <4> QED
        BY Zenon, <3>1, <4>1, <4>2, KindsApart DEF Walks, Onward, Live
    <3>2. ASSUME NEW b, Resets(p, b)
          PROVE  b \notin Held
      BY Zenon, <3>2, KindsApart DEF Resets
    <3>3. ASSUME NEW b, Opens(p, b) \/ Rotates(p, b), b \in Held
          PROVE  b.token = drawn'
      BY Zenon, <3>3, KindsApart DEF Opens, Rotates
    <3>4. ASSUME NEW b, Revokes(p, b), b \in Held
          PROVE  b.token <= drawn
      BY Zenon, <2>0, <3>4, KindsApart DEF Revokes, CallsOK
    <3>5. \A b : Goes(p, b) => b = c
      BY Zenon, <2>0, <2>2 DEF Goes, CallsOK
    <3>6. /\ \A b : Walks(p, b) => Goes(p, b)
          /\ \A b : Resets(p, b) => Goes(p, b)
          /\ \A b : Opens(p, b) => Goes(p, b)
          /\ \A b : Revokes(p, b) => Goes(p, b)
          /\ \A b : Rotates(p, b) => Goes(p, b)
          /\ Tells(p) \/ Counts(p) \/ TakesBack(p) => Goes(p, Idle)
      BY Zenon DEF Walks, Resets, Opens, Revokes, Rotates, Tells, Counts, TakesBack
    <3>7. CASE Tells(p) \/ Counts(p) \/ TakesBack(p)
      BY Zenon, <3>5, <3>6, <3>7, KindsApart
    <3>8. CASE Walks(p, c) \/ Resets(p, c) \/ Opens(p, c) \/ Revokes(p, c) \/ Rotates(p, c)
      <4> SUFFICES ASSUME c \in Held
                   PROVE  c.token <= drawn'
        BY Zenon
      <4>1. c.token \in Nat
        BY Zenon, <1>0, KindsApart
      <4>2. c.token <= drawn \/ c.token = drawn'
        BY Zenon, <3>1, <3>2, <3>3, <3>4, <3>8
      <4> HIDE DEF Held
      <4> QED
        BY <1>0, <2>4, <4>1, <4>2
    <3> QED
      BY Zenon, <1>1, <3>5, <3>6, <3>7, <3>8 DEF Does
  <2>6. ASSUME NEW q \in Processes, call'[q] \in Held
        PROVE  call'[q].token <= drawn'
    <3>1. CASE q = p
      BY Zenon, <2>2, <2>5, <2>6, <3>1
    <3>2. CASE q # p
      <4>1. call[q].token <= drawn /\ call[q].token \in Nat /\ call'[q] = call[q]
        BY Zenon, <1>0, <2>2, <2>6, <3>2, KindsApart DEF CallsOK
      <4> HIDE DEF Held
      <4> QED
        BY <1>0, <2>4, <4>1
    <3> QED
      BY Zenon, <3>1, <3>2
  <2>7. \A q \in Processes : call'[q] # Idle => q \in Servers'
    BY Zenon, <2>2, <2>3 DEF CallsOK
  <2> QED
    BY Zenon, <2>2, <2>6, <2>7 DEF CallsOK
<1>2. CASE CleanupExpiredSessions
  BY Zenon, <1>2 DEF CleanupExpiredSessions, CallsOK, Servers
<1>3. CASE Tick
  BY Zenon, <1>3 DEF Tick, CallsOK, Servers
<1>4. CASE UNCHANGED vars
  BY Zenon, <1>4 DEF vars, CallsOK, Servers
<1> QED
  BY Zenon, <1>1, <1>2, <1>3, <1>4, NextDoes


-----------------------------------------------------------------------------
(* The inductive invariant.                                                  *)

\* A session that was stored is there until its deadline, or was logged out or exchanged.
Kept(t) ==
    \/ t \in loggedOut \/ heirs[t] # {}
    \/ sessions[t] = None /\ deadline[t] <= now
    \/ sessions[t] # None /\ ~sessions[t].revoked /\ sessions[t].expires = deadline[t]

Honour ==
    /\ \A t \in given : Kept(t)
    /\ \A p \in Processes : Fresh(call[p]) =>
          /\ call[p].token \notin given
          /\ call[p].pc = "audit" => Kept(call[p].token)
          /\ \A q \in Processes \ {p} : Fresh(call[q]) => call[q].token # call[p].token

\* What was logged out or exchanged is not live, and some process, the one that spent it or a
\* later one, is not about to exchange it.
Spent ==
    /\ \A t \in Tokens : t \in loggedOut \/ heirs[t] # {} => sessions[t] = None \/ sessions[t].revoked
    /\ \A t \in Tokens : heirs[t] # {} => t <= drawn
    /\ \A t \in Tokens : t \in loggedOut \/ heirs[t] # {} =>
          \E p \in Servers : ~(call[p] \in Turning /\ call[p].pc = "rotate" /\ call[p].token = t)

\* A lockout ends within its period, and while it lasts some process is not past its check.
Lockout ==
    /\ \A a \in Actors : lockouts[a] # None => lockouts[a].until <= now + LockoutTTL
    /\ \A a \in Actors : Locked(a) =>
          \E p \in Servers : ~(call[p] \in Early /\ call[p].pc # "locked" /\ call[p].actor = a)

\* The processes that may yet count a failure for an actor whatever its lockout
Past(a) == {p \in Servers : call[p] \in Early /\ call[p].pc \in {"verify", "fail"} /\ call[p].actor = a}

\* Once the account has been locked each process has one failure in every period up to the
\* last one's, and the calls past the check have not had theirs while it lasts.
Guesses ==
    \A a \in Actors : lockouts[a] # None /\ lockouts[a].failed >= LockingFailures =>
        LET periods == lockouts[a].until \div LockoutTTL IN
        lockouts[a].failed + (IF periods > now \div LockoutTTL THEN Cardinality(Past(a)) ELSE 0)
            <= LockingFailures - 1 + Cardinality(Servers) * periods

IdentityInv == StoresOK /\ HistoryOK /\ CallsOK /\ Honour /\ Spent /\ Lockout /\ Guesses

-----------------------------------------------------------------------------
(* Tokens that were given are honoured.                                      *)

\* Only taking a session back, and that of the call alone, takes it away.
LEMMA KeptStays ==
    ASSUME StoresOK, HistoryOK, CallsOK, NEW p \in Servers, Does(p),
           NEW t \in 1..drawn, Kept(t), TakesBack(p) => call[p].token # t
    PROVE  Kept(t)'
<1>0. t \in Tokens /\ drawn \in Nat /\ now' = now /\ heirs \in [Tokens -> SUBSET (1..drawn)]
  BY DeploymentType, DoesFrame DEF StoresOK, Tokens, HistoryOK
<1>1. ASSUME NEW c, Opens(p, c)
      PROVE  Kept(t)'
  <2>1. /\ drawn < deployment.tokens
        /\ sessions' = [sessions EXCEPT ![drawn + 1] = Session(call[p].actor)]
        /\ deadline' = [deadline EXCEPT ![drawn + 1] = now + RefreshTTL]
        /\ UNCHANGED <<heirs, loggedOut>>
    BY Zenon, <1>1 DEF Opens
  <2>2. t # drawn + 1
    BY <1>0
  <2>3. sessions'[t] = sessions[t] /\ deadline'[t] = deadline[t]
    BY Zenon, <1>0, <2>1, <2>2 DEF StoresOK, HistoryOK
  <2> QED
    BY Zenon, <1>0, <2>1, <2>3 DEF Kept
<1>2. ASSUME NEW c, Rotates(p, c)
      PROVE  Kept(t)'
  <2> DEFINE r == Revoked(call[p].token)
  <2>1. /\ drawn < deployment.tokens /\ call[p].token \in Tokens
        /\ sessions' = [r EXCEPT ![drawn + 1] = Session(call[p].actor)]
        /\ deadline' = [deadline EXCEPT ![drawn + 1] = now + RefreshTTL]
        /\ heirs' = [heirs EXCEPT ![call[p].token] = @ \cup {drawn + 1}]
        /\ UNCHANGED loggedOut
    BY Zenon, <1>2, KindsApart DEF Rotates
  <2>2. t # drawn + 1
    BY <1>0
  <2>3. /\ r \in [Tokens -> SessionRow \cup {None}]
        /\ t # call[p].token => r[t] = sessions[t]
    BY Zenon, <1>0, <2>1, RevokedIs
  <2> HIDE DEF r
  <2>4. sessions'[t] = r[t] /\ deadline'[t] = deadline[t]
    BY Zenon, <1>0, <2>1, <2>2, <2>3 DEF HistoryOK
  <2>5. /\ t # call[p].token => heirs'[t] = heirs[t]
        /\ t = call[p].token => drawn + 1 \in heirs'[t]
    BY Zenon, <1>0, <2>1
  <2>6. CASE t = call[p].token
    BY Zenon, <2>5, <2>6 DEF Kept
  <2>7. CASE t # call[p].token
    BY Zenon, <1>0, <2>1, <2>3, <2>4, <2>5, <2>7 DEF Kept
  <2> QED
    BY Zenon, <2>6, <2>7
<1>3. ASSUME NEW c, Revokes(p, c)
      PROVE  Kept(t)'
  <2>1. /\ call[p].token \in Tokens /\ sessions' = Revoked(call[p].token)
        /\ loggedOut' = IF sessions' # sessions THEN loggedOut \cup {call[p].token} ELSE loggedOut
        /\ UNCHANGED <<deadline, heirs>>
    BY Zenon, <1>3, KindsApart DEF Revokes
  <2>2. CASE t # call[p].token
    <3>1. sessions'[t] = sessions[t]
      BY Zenon, <1>0, <2>1, <2>2, RevokedIs
    <3> QED
      BY Zenon, <1>0, <2>1, <3>1 DEF Kept
  <2>3. CASE t = call[p].token
    <3>1. CASE sessions' # sessions
      BY Zenon, <2>1, <2>3, <3>1 DEF Kept
    <3>2. CASE sessions' = sessions
      BY Zenon, <1>0, <2>1, <3>2 DEF Kept
    <3> QED
      BY Zenon, <3>1, <3>2
  <2> QED
    BY Zenon, <2>2, <2>3
<1>4. CASE TakesBack(p)
  <2>1. /\ call[p].token \in Tokens \ {t} /\ sessions' = Revoked(call[p].token)
        /\ UNCHANGED <<deadline, heirs, loggedOut>>
    BY Zenon, <1>4, KindsApart DEF TakesBack, Fresh, history
  <2>2. sessions'[t] = sessions[t]
    BY <1>0, <2>1, RevokedIs
  <2> QED
    BY Zenon, <1>0, <2>1, <2>2 DEF Kept
<1>5. CASE UNCHANGED <<sessions, deadline, heirs, loggedOut>>
  BY Zenon, <1>0, <1>5 DEF Kept
<1>6. ASSUME NEW c, Walks(p, c) \/ Resets(p, c)
      PROVE  UNCHANGED <<sessions, deadline, heirs, loggedOut>>
  BY Zenon, <1>6 DEF Walks, Resets, history
<1>7. Tells(p) \/ Counts(p) => UNCHANGED <<sessions, deadline, heirs, loggedOut>>
  BY Zenon DEF Tells, Counts, history, stores
<1> QED
  BY Zenon, <1>1, <1>2, <1>3, <1>4, <1>5, <1>6, <1>7 DEF Does

\* A call comes by a new token by storing a session under it, or has it already.
LEMMA FreshComes ==
    ASSUME StoresOK, HistoryOK, CallsOK, NEW p \in Servers, Does(p), Fresh(call'[p])
    PROVE  \/ /\ call'[p].token = drawn + 1 /\ call'[p].token \notin 1..drawn /\ given' = given
              /\ \A t \in Tokens : t = drawn + 1 => Kept(t)'
           \/ /\ Fresh(call[p]) /\ call'[p].token = call[p].token /\ call'[p].pc = "undo"
              /\ given' = given
<1>0. p \in Processes /\ drawn \in Nat
  BY DeploymentType DEF StoresOK
<1>1. PICK c \in Calls \cup {Idle} :
          Walks(p, c) \/ Resets(p, c) \/ Opens(p, c) \/ Revokes(p, c) \/ Rotates(p, c)
  <2>1. ASSUME Goes(p, Idle)
        PROVE  FALSE
    BY Zenon, <2>1, GoesIs, KindsApart DEF Fresh
  <2> QED
    BY Zenon, <2>1 DEF Does, Tells, Counts, TakesBack
<1>2. call'[p] = c
  <2>1. Goes(p, c)
    BY Zenon, <1>1 DEF Walks, Resets, Opens, Revokes, Rotates
  <2> QED
    BY Zenon, <2>1, GoesIs
<1>3. CASE Walks(p, c)
  <2>1. /\ call[p] \in Opened /\ c \in Opened /\ c.pc = "undo" /\ c.token = call[p].token
    BY Zenon, <1>2, <1>3, KindsApart DEF Walks, Onward, Fresh
  <2> QED
    BY Zenon, <1>2, <1>3, <2>1 DEF Walks, Fresh, history
<1>4. CASE Resets(p, c) \/ Revokes(p, c)
  BY Zenon, <1>2, <1>4, KindsApart DEF Resets, Revokes, Fresh
<1>5. CASE Opens(p, c)
  <2>1. /\ drawn < deployment.tokens /\ call[p].actor \in Actors
        /\ sessions' = [sessions EXCEPT ![drawn + 1] = Session(call[p].actor)]
        /\ deadline' = [deadline EXCEPT ![drawn + 1] = now + RefreshTTL]
        /\ given' = given /\ c.token = drawn + 1
    BY Zenon, <1>2, <1>5, KindsApart DEF Opens, Fresh
  <2>2. /\ sessions'[drawn + 1] = Session(call[p].actor)
        /\ deadline'[drawn + 1] = now + RefreshTTL
    BY Zenon, <2>1, NewToken DEF StoresOK, HistoryOK
  <2>3. /\ sessions'[drawn + 1] # None /\ ~sessions'[drawn + 1].revoked
        /\ sessions'[drawn + 1].expires = deadline'[drawn + 1]
    BY Zenon, <2>1, <2>2, StoredIs
  <2>4. \A t \in Tokens : t = drawn + 1 => Kept(t)'
    BY Zenon, <2>3 DEF Kept
  <2>5. drawn + 1 \notin 1..drawn
    BY <1>0
  <2> QED
    BY Zenon, <1>2, <2>1, <2>4, <2>5
<1>6. CASE Rotates(p, c)
  <2>1. /\ drawn < deployment.tokens /\ call[p].actor \in Actors /\ call[p].token \in Tokens
        /\ sessions' = [Revoked(call[p].token) EXCEPT ![drawn + 1] = Session(call[p].actor)]
        /\ deadline' = [deadline EXCEPT ![drawn + 1] = now + RefreshTTL]
        /\ given' = given /\ c.token = drawn + 1
    BY Zenon, <1>2, <1>6, KindsApart DEF Rotates, Fresh
  <2>2. /\ sessions'[drawn + 1] = Session(call[p].actor)
        /\ deadline'[drawn + 1] = now + RefreshTTL
    <3>1. Revoked(call[p].token) \in [Tokens -> SessionRow \cup {None}]
      BY Zenon, <2>1, RevokedIs
    <3> QED
      BY Zenon, <2>1, <3>1, NewToken DEF HistoryOK
  <2>3. /\ sessions'[drawn + 1] # None /\ ~sessions'[drawn + 1].revoked
        /\ sessions'[drawn + 1].expires = deadline'[drawn + 1]
    BY Zenon, <2>1, <2>2, StoredIs
  <2>4. \A t \in Tokens : t = drawn + 1 => Kept(t)'
    BY Zenon, <2>3 DEF Kept
  <2>5. drawn + 1 \notin 1..drawn
    BY <1>0
  <2> QED
    BY Zenon, <1>2, <2>1, <2>4, <2>5
<1> QED
  BY Zenon, <1>1, <1>3, <1>4, <1>5, <1>6

\* The token of a call that is not given out yet has been drawn.
LEMMA FreshDrawn ==
    ASSUME StoresOK, CallsOK, NEW q \in Processes, Fresh(call[q])
    PROVE  call[q].token \in 1..drawn
<1>1. call[q].token \in Tokens /\ call[q].token <= drawn /\ drawn \in Nat
  BY KindsApart, DeploymentType DEF Fresh, CallsOK, StoresOK
<1> QED
  BY <1>1 DEF Tokens

\* Tokens that were given, or are about to be, stay kept.
LEMMA HonourStep ==
    ASSUME StoresOK, HistoryOK, CallsOK, Honour, [Next]_vars
    PROVE  Honour'
<1>0. given \subseteq 1..drawn /\ 1..drawn \subseteq Tokens
  BY DeploymentType DEF HistoryOK, StoresOK, Tokens
<1>1. ASSUME NEW p \in Servers, Does(p)
      PROVE  Honour'
  <2>0. p \in Processes /\ \A q \in Processes \ {p} : call'[q] = call[q]
    BY Zenon, <1>1, DoesFrame, GoesIs
  <2>1. ASSUME NEW t \in 1..drawn, Kept(t), TakesBack(p) => call[p].token # t
        PROVE  Kept(t)'
    BY Zenon, <1>1, <2>1, KeptStays
  <2>2. ASSUME NEW q \in Processes, Fresh(call[q])
        PROVE  /\ call[q].token \in 1..drawn /\ call[q].token \notin given
               /\ call[q].pc = "audit" => Kept(call[q].token)
               /\ \A r \in Processes \ {q} : Fresh(call[r]) => call[r].token # call[q].token
    BY Zenon, <2>2, FreshDrawn DEF Honour
  <2>3. given' # given => /\ Fresh(call[p]) /\ call[p].pc = "audit" /\ ~Fresh(call'[p])
                          /\ given' = given \cup {call[p].token} /\ ~TakesBack(p)
    <3>1. /\ \A c : Walks(p, c) => given' = given
          /\ \A c : Resets(p, c) => given' = given
          /\ \A c : Opens(p, c) => given' = given
          /\ \A c : Revokes(p, c) => given' = given
          /\ \A c : Rotates(p, c) => given' = given
          /\ Counts(p) \/ TakesBack(p) => given' = given
      BY Zenon DEF Walks, Resets, Opens, Revokes, Rotates, Counts, TakesBack, history
    <3>2. ASSUME Tells(p)
          PROVE  ~Fresh(call'[p])
      <4>1. call'[p] = Idle
        BY Zenon, <3>2, GoesIs DEF Tells
      <4> QED
        BY Zenon, <4>1, KindsApart DEF Fresh
    <3> QED
      BY Zenon, <1>1, <3>1, <3>2 DEF Does, Tells
  <2>4. TakesBack(p) => Fresh(call[p])
    BY Zenon DEF TakesBack
  <2>5. ASSUME NEW t \in given'
        PROVE  Kept(t)'
    <3>1. CASE t \in given
      <4>1. Kept(t) /\ t \in 1..drawn /\ (TakesBack(p) => call[p].token # t)
        BY <1>0, <2>0, <2>2, <2>4, <3>1 DEF Honour
      <4> QED
        BY Zenon, <2>1, <4>1
    <3>2. CASE t \notin given
      <4>1. t = call[p].token /\ Fresh(call[p]) /\ call[p].pc = "audit" /\ ~TakesBack(p)
        BY Zenon, <2>3, <2>5, <3>2
      <4>2. Kept(t) /\ t \in 1..drawn
        BY Zenon, <2>0, <2>2, <4>1
      <4> QED
        BY Zenon, <2>1, <4>1, <4>2
    <3> QED
      BY Zenon, <3>1, <3>2
  <2>6. ASSUME NEW q \in Processes \ {p}, Fresh(call'[q])
        PROVE  /\ Fresh(call[q]) /\ call'[q] = call[q] /\ call[q].token \in 1..drawn
               /\ call[q].token \notin given'
               /\ call[q].pc = "audit" => \A t : t = call[q].token => Kept(t)'
    <3>1. Fresh(call[q]) /\ call'[q] = call[q]
      BY Zenon, <2>0, <2>6
    <3>2. /\ call[q].token \in 1..drawn /\ call[q].token \notin given
          /\ Fresh(call[p]) => call[p].token # call[q].token
      BY Zenon, <2>0, <2>2, <3>1
    <3>3. call[q].token \notin given'
      BY Zenon, <2>3, <3>2
    <3>4. ASSUME call[q].pc = "audit", NEW t, t = call[q].token
          PROVE  Kept(t)'
      <4>1. Kept(t) /\ t \in 1..drawn /\ (TakesBack(p) => call[p].token # t)
        BY Zenon, <2>2, <2>4, <3>1, <3>2, <3>4
      <4> QED
        BY Zenon, <2>1, <4>1
    <3> QED
      BY Zenon, <3>1, <3>2, <3>3, <3>4
  <2>7. ASSUME Fresh(call'[p])
        PROVE  /\ call'[p].token \notin given'
               /\ call'[p].pc = "audit" => \A t : t = call'[p].token => Kept(t)'
               /\ \A q \in Processes \ {p} : Fresh(call'[q]) => call'[q].token # call'[p].token
    <3>1. CASE /\ call'[p].token = drawn + 1 /\ call'[p].token \notin 1..drawn /\ given' = given
               /\ \A t \in Tokens : t = drawn + 1 => Kept(t)'
      <4>1. call'[p].token \in Tokens
        BY Zenon, <2>7, KindsApart DEF Fresh
      <4> QED
        BY Zenon, <1>0, <2>6, <3>1, <4>1
    <3>2. CASE /\ Fresh(call[p]) /\ call'[p].token = call[p].token /\ call'[p].pc = "undo"
               /\ given' = given
      <4>1. \A q \in Processes \ {p} : Fresh(call'[q]) => call'[q].token # call'[p].token
        BY Zenon, <2>0, <2>2, <2>6, <3>2
      <4> QED
        BY Zenon, <2>0, <2>2, <3>2, <4>1
    <3> QED
      BY Zenon, <1>1, <2>7, <3>1, <3>2, FreshComes
  <2>8. ASSUME NEW q \in Processes, Fresh(call'[q])
        PROVE  /\ call'[q].token \notin given'
               /\ call'[q].pc = "audit" => \A t : t = call'[q].token => Kept(t)'
               /\ \A r \in Processes \ {q} : Fresh(call'[r]) => call'[r].token # call'[q].token
    <3>1. CASE q = p
      BY Zenon, <2>7, <2>8, <3>1
    <3>2. CASE q # p
      <4>1. ASSUME NEW r \in Processes \ {q}, Fresh(call'[r])
            PROVE  call'[r].token # call'[q].token
        <5>1. CASE r = p
          BY Zenon, <2>7, <2>8, <3>2, <4>1, <5>1
        <5>2. CASE r # p
          BY Zenon, <2>2, <2>6, <2>8, <3>2, <4>1, <5>2
        <5> QED
          BY Zenon, <5>1, <5>2
      <4> QED
        BY Zenon, <2>6, <2>8, <3>2, <4>1
    <3> QED
      BY Zenon, <3>1, <3>2
  <2> QED
    BY <2>5, <2>8 DEF Honour, Kept, Fresh
<1>2. ASSUME UNCHANGED <<call, given, deadline, heirs, loggedOut>>,
             \A t \in Tokens : Kept(t) => Kept(t)'
      PROVE  Honour'
  <2>1. \A t \in given' : Kept(t)'
    BY Zenon, <1>0, <1>2 DEF Honour
  <2>2. ASSUME NEW q \in Processes, Fresh(call[q]), call[q].pc = "audit", NEW t, t = call[q].token
        PROVE  Kept(t)'
    <3>1. t \in Tokens /\ Kept(t)
      BY Zenon, <1>0, <2>2, FreshDrawn DEF Honour
    <3> QED
      BY Zenon, <1>2, <3>1
  <2> QED
    BY <1>2, <2>1, <2>2 DEF Honour, Kept, Fresh
<1>3. CASE CleanupExpiredSessions
  <2>1. /\ UNCHANGED <<call, now, given, deadline, heirs, loggedOut>>
        /\ \E t \in Expired : sessions' = [sessions EXCEPT ![t] = None]
    BY Zenon, <1>3 DEF CleanupExpiredSessions, history
  <2>2. PICK x \in Expired : sessions' = [sessions EXCEPT ![x] = None]
    BY Zenon, <2>1
  <2>3. ASSUME NEW t \in Tokens, Kept(t)
        PROVE  Kept(t)'
    <3>1. sessions'[t] = IF t = x THEN None ELSE sessions[t]
      BY Zenon, <2>2 DEF StoresOK
    <3> QED
      BY Zenon, <2>1, <2>3, <3>1 DEF Kept, Expired
  <2> QED
    BY Zenon, <1>2, <2>1, <2>3
<1>4. CASE Tick
  <2>1. /\ UNCHANGED <<call, sessions, given, deadline, heirs, loggedOut>> /\ now' = now + 1
    BY Zenon, <1>4 DEF Tick, history, stores
  <2>2. ASSUME NEW t \in Tokens, Kept(t)
        PROVE  Kept(t)'
    <3>1. deadline[t] \in Nat /\ now \in Nat
      BY DeploymentType DEF HistoryOK, StoresOK
    <3> QED
      BY <2>1, <2>2, <3>1 DEF Kept
  <2> QED
    BY Zenon, <1>2, <2>1, <2>2
<1>5. CASE UNCHANGED vars
  BY Zenon, <1>2, <1>5 DEF vars, stores, history, Kept
<1> QED
  BY Zenon, <1>1, <1>3, <1>4, <1>5, NextDoes

-----------------------------------------------------------------------------
(* What is spent or locked.                                                  *)

\* A call that comes to the exchange finds its token live, hence not spent.
LEMMA ExchangeComes ==
    ASSUME StoresOK, CallsOK, NEW p \in Servers, Does(p), call'[p] \in Turning, call'[p].pc = "rotate"
    PROVE  Live(call'[p].token) /\ call'[p].token \in Tokens /\ UNCHANGED <<heirs, loggedOut>>
<1>1. PICK c \in Calls \cup {Idle} : Goes(p, c)
  BY Zenon, DoesFrame
<1>2. call'[p] = c /\ c \in Turning /\ c.pc = "rotate" /\ p \in Processes
  BY Zenon, <1>1, GoesIs
<1>3. \A b : Goes(p, b) => b = c
  BY Zenon, <1>2 DEF Goes, CallsOK
<1>4. Walks(p, c)
  <2>1. /\ \A b : Walks(p, b) => Goes(p, b)
        /\ \A b : Resets(p, b) => Goes(p, b)
        /\ \A b : Opens(p, b) => Goes(p, b)
        /\ \A b : Revokes(p, b) => Goes(p, b)
        /\ \A b : Rotates(p, b) => Goes(p, b)
        /\ Tells(p) \/ Counts(p) \/ TakesBack(p) => Goes(p, Idle)
    BY Zenon DEF Walks, Resets, Opens, Revokes, Rotates, Tells, Counts, TakesBack
  <2>2. c # Idle /\ ~Resets(p, c) /\ ~Opens(p, c) /\ ~Revokes(p, c) /\ ~Rotates(p, c)
    BY Zenon, <1>2, KindsApart DEF Resets, Opens, Revokes, Rotates
  <2> QED
    BY Zenon, <1>3, <2>1, <2>2 DEF Does
<1> QED
  BY Zenon, <1>2, <1>4, KindsApart DEF Walks, Onward, history

\* What was logged out or exchanged stays spent.
LEMMA SpentStep ==
    ASSUME StoresOK, HistoryOK, CallsOK, Spent, [Next]_vars
    PROVE  Spent'
<1> DEFINE Closed == \A t \in Tokens : t \in loggedOut \/ heirs[t] # {} =>
                         sessions[t] = None \/ sessions[t].revoked
           Drawn == \A t \in Tokens : heirs[t] # {} => t <= drawn
<1>0. /\ loggedOut \subseteq 1..drawn /\ drawn \in Nat /\ \A t \in Tokens : t \in Nat
      /\ heirs \in [Tokens -> SUBSET (1..drawn)] /\ sessions \in [Tokens -> SessionRow \cup {None}]
  BY DeploymentType DEF HistoryOK, StoresOK, Tokens
<1>1. ASSUME NEW p \in Servers, Does(p)
      PROVE  Spent'
  <2>0. p \in Processes
    BY Zenon, DeploymentType DEF StoresOK
  <2>1. Closed' /\ Drawn'
    <3>1. ASSUME NEW c, Opens(p, c)
          PROVE  Closed' /\ Drawn'
      <4>1. /\ drawn < deployment.tokens /\ drawn' = drawn + 1
            /\ sessions' = [sessions EXCEPT ![drawn + 1] = Session(call[p].actor)]
            /\ UNCHANGED <<heirs, loggedOut>>
        BY Zenon, <3>1 DEF Opens
      <4>2. \A t \in Tokens : t # drawn + 1 => sessions'[t] = sessions[t]
        BY Zenon, <1>0, <4>1
      <4>3. drawn + 1 \notin loggedOut /\ \A t \in Tokens : t = drawn + 1 => heirs[t] = {}
        BY <1>0 DEF Spent
      <4>4. Drawn'
        BY <1>0, <4>1 DEF Spent
      <4> QED
        BY Zenon, <4>1, <4>2, <4>3, <4>4 DEF Spent
    <3>2. ASSUME NEW c, Rotates(p, c)
          PROVE  Closed' /\ Drawn'
      <4> DEFINE r == Revoked(call[p].token)
      <4>1. /\ drawn < deployment.tokens /\ drawn' = drawn + 1
            /\ call[p].token \in Tokens /\ call[p].token <= drawn
            /\ sessions' = [r EXCEPT ![drawn + 1] = Session(call[p].actor)]
            /\ heirs' = [heirs EXCEPT ![call[p].token] = @ \cup {drawn + 1}]
            /\ UNCHANGED loggedOut
        BY Zenon, <2>0, <3>2, KindsApart DEF Rotates, CallsOK
      <4>2. /\ r \in [Tokens -> SessionRow \cup {None}]
            /\ \A t \in Tokens \ {call[p].token} : r[t] = sessions[t]
            /\ r[call[p].token] = None \/ r[call[p].token].revoked
        BY Zenon, <4>1, RevokedIs
      <4> HIDE DEF r
      <4>3. \A t \in Tokens : t # drawn + 1 => sessions'[t] = r[t]
        BY Zenon, <4>1, <4>2
      <4>4. \A t \in Tokens \ {call[p].token} : heirs'[t] = heirs[t]
        BY Zenon, <1>0, <4>1
      <4>5. /\ drawn + 1 # call[p].token /\ drawn + 1 \notin loggedOut
            /\ \A t \in Tokens : t = drawn + 1 => heirs[t] = {}
        BY <1>0, <4>1 DEF Spent
      <4>6. Drawn'
        BY <1>0, <4>1, <4>4 DEF Spent
      <4>7. ASSUME NEW t \in Tokens, t \in loggedOut \/ heirs'[t] # {}
            PROVE  sessions'[t] = None \/ sessions'[t].revoked
        <5>1. t # drawn + 1
          BY Zenon, <4>4, <4>5, <4>7
        <5>2. CASE t = call[p].token
          BY Zenon, <4>2, <4>3, <5>1, <5>2
        <5>3. CASE t # call[p].token
          BY Zenon, <4>2, <4>3, <4>4, <4>7, <5>1, <5>3 DEF Spent
        <5> QED
          BY Zenon, <5>2, <5>3
      <4> QED
        BY Zenon, <4>1, <4>6, <4>7
    <3>3. ASSUME NEW x \in Tokens, sessions' = Revoked(x), UNCHANGED <<drawn, heirs>>,
                 loggedOut' \subseteq loggedOut \cup {x}
          PROVE  Closed' /\ Drawn'
      <4>1. /\ \A t \in Tokens \ {x} : sessions'[t] = sessions[t]
            /\ sessions'[x] = None \/ sessions'[x].revoked
        BY Zenon, <3>3, RevokedIs
      <4> QED
        BY Zenon, <3>3, <4>1 DEF Spent
    <3>4. ASSUME NEW c, Revokes(p, c)
          PROVE  Closed' /\ Drawn'
      <4>1. /\ call[p].token \in Tokens /\ sessions' = Revoked(call[p].token)
            /\ UNCHANGED <<drawn, heirs>> /\ loggedOut' \subseteq loggedOut \cup {call[p].token}
        BY Zenon, <3>4, KindsApart DEF Revokes
      <4> QED
        BY Zenon, <3>3, <4>1
    <3>5. CASE TakesBack(p)
      <4>1. /\ call[p].token \in Tokens /\ sessions' = Revoked(call[p].token)
            /\ UNCHANGED <<drawn, heirs, loggedOut>>
        BY Zenon, <3>5, KindsApart DEF TakesBack, Fresh, history
      <4> QED
        BY Zenon, <3>3, <4>1
    <3>6. CASE UNCHANGED <<sessions, drawn, heirs, loggedOut>>
      BY Zenon, <3>6 DEF Spent
    <3>7. ASSUME NEW c, Walks(p, c) \/ Resets(p, c)
          PROVE  UNCHANGED <<sessions, drawn, heirs, loggedOut>>
      BY Zenon, <3>7 DEF Walks, Resets, history
    <3>8. Tells(p) \/ Counts(p) => UNCHANGED <<sessions, drawn, heirs, loggedOut>>
      BY Zenon DEF Tells, Counts, history, stores
    <3> HIDE DEF Closed, Drawn
    <3> QED
      BY Zenon, <1>1, <3>1, <3>2, <3>4, <3>5, <3>6, <3>7, <3>8 DEF Does
  <2>2. Servers' = Servers
    BY Zenon, <1>1, DoesFrame DEF Servers
  <2>3. ASSUME NEW t \in Tokens, t \in loggedOut' \/ heirs'[t] # {}
        PROVE  ~(call'[p] \in Turning /\ call'[p].pc = "rotate" /\ call'[p].token = t)
    BY Zenon, <1>1, <2>3, ExchangeComes DEF Spent, Live
  <2> QED
    BY Zenon, <2>1, <2>2, <2>3 DEF Spent
<1>2. CASE CleanupExpiredSessions
  <2>1. PICK x \in Expired : sessions' = [sessions EXCEPT ![x] = None]
    BY Zenon, <1>2 DEF CleanupExpiredSessions
  <2>2. UNCHANGED <<deployment, call, drawn, heirs, loggedOut>>
    BY Zenon, <1>2 DEF CleanupExpiredSessions, history
  <2>3. \A t \in Tokens : sessions'[t] = None \/ sessions'[t] = sessions[t]
    BY Zenon, <1>0, <2>1
  <2> QED
    BY Zenon, <2>2, <2>3 DEF Spent, Servers
<1>3. CASE Tick
  BY Zenon, <1>3 DEF Tick, stores, history, Spent, Servers
<1>4. CASE UNCHANGED vars
  BY Zenon, <1>4 DEF vars, stores, history, Spent, Servers
<1> QED
  BY Zenon, <1>1, <1>2, <1>3, <1>4, NextDoes

\* Where a call comes from that is past the check
LEMMA EarlyComes ==
    ASSUME StoresOK, CallsOK, NEW p \in Servers, Does(p), call'[p] \in Early, call'[p].pc # "locked"
    PROVE  \/ /\ UNCHANGED <<lockouts, now>> /\ call[p] \in Early /\ call'[p].actor = call[p].actor
              /\ \/ call[p].pc = "locked" /\ call'[p].pc = "verify" /\ ~Locked(call[p].actor)
                 \/ call[p].pc = "verify"
           \/ /\ Resets(p, call'[p]) /\ call'[p].actor = call[p].actor /\ call'[p].pc = "store"
<1>0. p \in Processes
  BY Zenon, DeploymentType DEF StoresOK
<1>1. PICK c \in Calls \cup {Idle} :
          Walks(p, c) \/ Resets(p, c) \/ Opens(p, c) \/ Revokes(p, c) \/ Rotates(p, c)
  <2>1. ASSUME Goes(p, Idle)
        PROVE  FALSE
    BY Zenon, <2>1, GoesIs, KindsApart
  <2> QED
    BY Zenon, <2>1 DEF Does, Tells, Counts, TakesBack
<1>2. call'[p] = c
  <2>1. Goes(p, c)
    BY Zenon, <1>1 DEF Walks, Resets, Opens, Revokes, Rotates
  <2> QED
    BY Zenon, <2>1, GoesIs
<1>3. c \in Early /\ c.pc # "locked" /\ c.pc # "audit"
  BY Zenon, <1>2 DEF Early, Kinds
<1>4. CASE Walks(p, c)
  BY Zenon, <1>2, <1>3, <1>4, KindsApart DEF Walks, Onward
<1>5. CASE Resets(p, c)
  BY Zenon, <1>2, <1>3, <1>5, KindsApart DEF Resets
<1>6. CASE Opens(p, c) \/ Revokes(p, c) \/ Rotates(p, c)
  BY Zenon, <1>3, <1>6, KindsApart DEF Opens, Revokes, Rotates
<1> QED
  BY Zenon, <1>1, <1>4, <1>5, <1>6

\* What a step of a process does to the lockout of an actor
LEMMA LockoutsMove ==
    ASSUME StoresOK, CallsOK, NEW p \in Servers, Does(p), NEW a \in Actors
    PROVE  \/ lockouts'[a] = lockouts[a]
           \/ Counts(p) /\ call[p].actor = a /\ lockouts'[a] = Failure(lockouts[a])
           \/ /\ \E c : Resets(p, c) /\ call[p].actor = a
              /\ lockouts'[a] = IF UseDB THEN [failed |-> 0, until |-> 0] ELSE None
<1>0. lockouts \in [Actors -> LockoutRow \cup {None}]
  BY Zenon DEF StoresOK
<1>1. CASE Counts(p)
  <2>1. call[p].actor \in Actors
    BY Zenon, <1>1, KindsApart DEF Counts
  <2> QED
    BY Zenon, <1>0, <1>1, <2>1 DEF Counts
<1>2. ASSUME NEW c, Resets(p, c)
      PROVE  \/ lockouts'[a] = lockouts[a]
             \/ /\ \E b : Resets(p, b) /\ call[p].actor = a
                /\ lockouts'[a] = IF UseDB THEN [failed |-> 0, until |-> 0] ELSE None
  <2>1. call[p].actor \in Actors
    BY Zenon, <1>2, KindsApart DEF Resets
  <2>2. lockouts' = [lockouts EXCEPT ![call[p].actor] =
                        IF UseDB THEN [failed |-> 0, until |-> 0] ELSE None]
    BY Zenon, <1>2 DEF Resets
  <2> QED
    BY Zenon, <1>0, <1>2, <2>1, <2>2
<1>3. ASSUME NEW c, Walks(p, c) \/ Opens(p, c) \/ Revokes(p, c) \/ Rotates(p, c)
      PROVE  lockouts' = lockouts
  BY Zenon, <1>3 DEF Walks, Opens, Revokes, Rotates
<1>4. Tells(p) \/ TakesBack(p) => lockouts' = lockouts
  BY Zenon DEF Tells, TakesBack, stores
<1> QED
  BY Zenon, <1>1, <1>2, <1>3, <1>4 DEF Does

\* A lockout ends within its period, and the process that locked the account is not past it.
LEMMA LockoutStep ==
    ASSUME StoresOK, CallsOK, Lockout, [Next]_vars
    PROVE  Lockout'
<1>0. /\ lockouts \in [Actors -> LockoutRow \cup {None}] /\ now \in Nat
      /\ LockoutTTL \in Nat /\ None \notin LockoutRow
      /\ call \in [Processes -> Calls \cup {Idle}]
  BY DeploymentType, ConstantsAssumption DEF StoresOK, CallsOK
<1>1. ASSUME NEW p \in Servers, Does(p)
      PROVE  Lockout'
  <2>0. UNCHANGED <<deployment, now>> /\ Servers' = Servers
    BY Zenon, <1>1, DoesFrame DEF Servers
  <2>1. ASSUME NEW a \in Actors, lockouts'[a] # None
        PROVE  lockouts'[a].until <= now + LockoutTTL
    <3>1. CASE lockouts'[a] = lockouts[a]
      BY Zenon, <2>1, <3>1 DEF Lockout
    <3>2. CASE lockouts'[a] = Failure(lockouts[a])
      <4>1. lockouts[a] \in LockoutRow \cup {None}
        BY Zenon, <1>0
      <4>2. lockouts[a] # None => lockouts[a].until <= now + LockoutTTL
        BY Zenon DEF Lockout
      <4> QED
        BY <1>0, <3>2, <4>1, <4>2, FailureIs
    <3>3. CASE lockouts'[a] = IF UseDB THEN [failed |-> 0, until |-> 0] ELSE None
      BY <1>0, <2>1, <3>3
    <3> QED
      BY Zenon, <1>1, <3>1, <3>2, <3>3, LockoutsMove
  <2>2. ASSUME NEW a \in Actors, Locked(a)'
        PROVE  \E q \in Servers :
                   ~(call'[q] \in Early /\ call'[q].pc # "locked" /\ call'[q].actor = a)
    <3>1. CASE call'[p] \in Early /\ call'[p].pc # "locked" /\ call'[p].actor = a
      <4>1. CASE /\ UNCHANGED <<lockouts, now>> /\ call[p] \in Early /\ call'[p].actor = call[p].actor
                 /\ \/ call[p].pc = "locked" /\ call'[p].pc = "verify" /\ ~Locked(call[p].actor)
                    \/ call[p].pc = "verify"
        <5>1. Locked(a)
          BY Zenon, <2>2, <4>1 DEF Locked
        <5>2. call[p].pc # "locked" /\ call[p].actor = a
          BY Zenon, <3>1, <4>1, <5>1
        <5>3. PICK q \in Servers :
                  ~(call[q] \in Early /\ call[q].pc # "locked" /\ call[q].actor = a)
          BY Zenon, <5>1 DEF Lockout
        <5>4. q # p
          BY Zenon, <4>1, <5>2, <5>3
        <5>5. call'[q] = call[q]
          <6>1. PICK c \in Calls \cup {Idle} : Goes(p, c)
            BY Zenon, <1>1, DoesFrame
          <6>2. q \in Processes
            BY Zenon, CallType
          <6>3. \A x \in Processes \ {p} : call'[x] = call[x]
            BY Zenon, <6>1, GoesIs
          <6> QED
            BY Zenon, <5>4, <6>2, <6>3
        <5> QED
          BY Zenon, <5>3, <5>5
      <4>2. CASE Resets(p, call'[p]) /\ call'[p].actor = call[p].actor
        <5>1. lockouts'[a] = IF UseDB THEN [failed |-> 0, until |-> 0] ELSE None
          BY Zenon, <1>0, <3>1, <4>2 DEF Resets
        <5>2. lockouts'[a] # None => lockouts'[a].until = 0
          BY <5>1
        <5>3. FALSE
          BY <1>0, <2>0, <2>2, <5>2 DEF Locked
        <5> QED
          BY Zenon, <5>3
      <4> QED
        BY Zenon, <1>1, <3>1, <4>1, <4>2, EarlyComes
    <3> QED
      BY Zenon, <3>1
  <2> QED
    BY Zenon, <2>0, <2>1, <2>2 DEF Lockout
<1>2. ASSUME UNCHANGED <<deployment, lockouts, call>>, now' \in {now, now + 1}
      PROVE  Lockout'
  <2>1. \A a \in Actors : lockouts[a] # None => lockouts[a].until <= now' + LockoutTTL
    <3>1. \A a \in Actors : lockouts[a] # None => lockouts[a].until \in Nat
      BY Zenon, <1>0 DEF LockoutRow
    <3> QED
      BY <1>0, <1>2, <3>1 DEF Lockout
  <2>2. ASSUME NEW a \in Actors, Locked(a)'
        PROVE  Locked(a)
    <3>1. lockouts[a] # None => lockouts[a].until \in Nat
      BY Zenon, <1>0 DEF LockoutRow
    <3> QED
      BY <1>0, <1>2, <2>2, <3>1 DEF Locked
  <2> QED
    BY Zenon, <1>2, <2>1, <2>2 DEF Lockout, Servers
<1>3. CASE CleanupExpiredSessions
  BY Zenon, <1>2, <1>3 DEF CleanupExpiredSessions
<1>4. CASE Tick
  BY Zenon, <1>2, <1>4 DEF Tick, stores
<1>5. CASE UNCHANGED vars
  BY Zenon, <1>2, <1>5 DEF vars, stores
<1> QED
  BY Zenon, <1>1, <1>3, <1>4, <1>5, NextDoes

-----------------------------------------------------------------------------
(* Guessing.                                                                 *)

\* The periods of a lockout: the last one ends at most one period after now.
LEMMA Periods ==
    ASSUME NEW u \in Nat, NEW n \in Nat, NEW k \in Nat \ {0}
    PROVE  /\ u \div k \in Nat /\ n \div k \in Nat
           /\ u <= n + k => u \div k <= n \div k + 1
           /\ u = n + k => u \div k = n \div k + 1
           /\ u <= n => u \div k <= n \div k
           /\ (n + 1) \div k \in Nat /\ n \div k <= (n + 1) \div k
<1>1. u \div k \in Nat /\ n \div k \in Nat /\ (n + 1) \div k \in Nat
  OBVIOUS
<1>2. (n + k) \div k = n \div k + 1
  OBVIOUS
<1>3. \A x, y \in Nat : x <= y => x \div k <= y \div k
  OBVIOUS
<1>4. u <= n + k => u \div k <= n \div k + 1
  <2>1. n + k \in Nat
    OBVIOUS
  <2>2. u <= n + k => u \div k <= (n + k) \div k
    BY Zenon, <1>3, <2>1
  <2> QED
    BY Zenon, <1>2, <2>2
<1>5. u <= n => u \div k <= n \div k
  BY Zenon, <1>3
<1>6. n \div k <= (n + 1) \div k
  <2>1. n + 1 \in Nat /\ n <= n + 1
    OBVIOUS
  <2> QED
    BY Zenon, <1>3, <2>1
<1> QED
  BY Zenon, <1>1, <1>2, <1>4, <1>5, <1>6

\* The calls past the check are of the processes there are.
LEMMA PastIs ==
    ASSUME StoresOK, NEW a
    PROVE  /\ IsFiniteSet(Past(a)) /\ Cardinality(Past(a)) \in Nat
           /\ Cardinality(Past(a)) <= Cardinality(Servers)
<1>1. Past(a) \in SUBSET Servers
  BY Zenon DEF Past
<1>2. IsFiniteSet(Servers)
  BY Zenon, DeploymentType DEF StoresOK
<1>3. IsFiniteSet(Past(a)) /\ Cardinality(Past(a)) <= Cardinality(Servers)
  BY Zenon, <1>1, <1>2, FS_Subset
<1> QED
  BY Zenon, <1>3, FS_CardinalityType

\* A process that comes past the check finds no lockout.
LEMMA PastStep ==
    ASSUME StoresOK, CallsOK, NEW p \in Servers, Does(p), NEW a \in Actors
    PROVE  /\ Locked(a) => Past(a)' \subseteq Past(a)
           /\ Counts(p) /\ call[p].actor = a => p \in Past(a) /\ Past(a)' = Past(a) \ {p}
<1>0. Servers' = Servers /\ Servers \subseteq Processes
  BY Zenon, DoesFrame, DeploymentType DEF Servers, StoresOK
<1>1. PICK c \in Calls \cup {Idle} : Goes(p, c)
  BY Zenon, DoesFrame
<1>2. call'[p] = c /\ \A q \in Processes \ {p} : call'[q] = call[q]
  BY Zenon, <1>1, GoesIs
<1>3. \A q \in Servers \ {p} : q \in Past(a)' <=> q \in Past(a)
  BY Zenon, <1>0, <1>2 DEF Past
<1>4. ASSUME Locked(a), p \in Past(a)'
      PROVE  p \in Past(a)
  <2>1. call'[p] \in Early /\ call'[p].pc \in {"verify", "fail"} /\ call'[p].actor = a
    BY Zenon, <1>4 DEF Past
  <2>2. call[p] \in Early /\ call[p].actor = a /\ call[p].pc = "verify"
    BY Zenon, <1>4, <2>1, EarlyComes
  <2> QED
    BY Zenon, <2>2 DEF Past
<1>5. ASSUME Counts(p), call[p].actor = a
      PROVE  p \in Past(a) /\ p \notin Past(a)'
  <2>1. p \in Past(a)
    BY Zenon, <1>5 DEF Past, Counts
  <2>2. call'[p] = Idle
    BY Zenon, <1>5, GoesIs DEF Counts
  <2> QED
    BY Zenon, <2>1, <2>2, KindsApart DEF Past
<1>6. Past(a) \subseteq Servers /\ Past(a)' \subseteq Servers
  BY Zenon, <1>0 DEF Past
<1>7. Locked(a) => Past(a)' \subseteq Past(a)
  BY Zenon, <1>3, <1>4, <1>6
<1>8. Counts(p) /\ call[p].actor = a => p \in Past(a) /\ Past(a)' = Past(a) \ {p}
  <2> HIDE DEF Past
  <2> QED
    BY Zenon, <1>3, <1>5, <1>6
<1> QED
  BY Zenon, <1>7, <1>8

\* The arithmetic of one more failure: f failures so far, k calls past the check of s
\* processes, in a lockout of x periods at the end of y.
LEMMA OneMore ==
    ASSUME NEW f \in Nat, NEW m \in Nat, NEW s \in Nat, NEW k \in Nat, NEW x \in Nat, NEW y \in Nat,
           k <= s, x <= y + 1,
           f >= m => f + (IF x > y THEN k ELSE 0) <= m - 1 + s * x
    PROVE  f + k <= m - 1 + s * (y + 1)
<1>1. s * (y + 1) = s * y + s /\ s * y \in Nat /\ s * x \in Nat
  OBVIOUS
<1>2. x <= y => s * x <= s * y
  OBVIOUS
<1>3. CASE f < m
  BY <1>1, <1>3
<1>4. CASE f >= m /\ x > y
  <2>1. x = y + 1
    BY <1>4
  <2> QED
    BY Zenon, <1>4, <2>1
<1>5. CASE f >= m /\ ~(x > y)
  BY <1>1, <1>2, <1>5
<1> QED
  BY <1>3, <1>4, <1>5

\* Each process has one failure in a period.
LEMMA GuessesStep ==
    ASSUME StoresOK, CallsOK, Lockout, Guesses, [Next]_vars
    PROVE  Guesses'
<1> DEFINE M == LockingFailures
           S == Cardinality(Servers)
           Y == now \div LockoutTTL
           K(a) == Cardinality(Past(a))
           X(a) == lockouts[a].until \div LockoutTTL
           Holds(a) == lockouts[a] # None /\ lockouts[a].failed >= M =>
                           lockouts[a].failed + (IF X(a) > Y THEN K(a) ELSE 0) <= M - 1 + S * X(a)
<1>0. /\ lockouts \in [Actors -> LockoutRow \cup {None}] /\ now \in Nat
      /\ LockoutTTL \in Nat \ {0} /\ None \notin LockoutRow
      /\ S \in Nat /\ M \in Nat \ {0}
  BY DeploymentType, ConstantsAssumption DEF StoresOK, LockingFailures
<1>1. \A a \in Actors : Holds(a)
  BY Zenon DEF Guesses
<1>2. SUFFICES ASSUME NEW a \in Actors
               PROVE  Holds(a)'
  BY Zenon, <1>2 DEF Guesses
<1>3. K(a) \in Nat /\ K(a) <= S /\ IsFiniteSet(Past(a))
  BY Zenon, PastIs
<1>4. lockouts[a] # None =>
          /\ lockouts[a].failed \in Nat /\ lockouts[a].until \in Nat
          /\ lockouts[a].until <= now + LockoutTTL
  BY Zenon, <1>0 DEF LockoutRow, Lockout
<1>5. Y \in Nat /\ (now + 1) \div LockoutTTL \in Nat /\ Y <= (now + 1) \div LockoutTTL
  BY Zenon, <1>0, Periods
<1>6. lockouts[a] # None =>
          X(a) \in Nat /\ X(a) <= Y + 1 /\ (lockouts[a].until <= now => X(a) <= Y)
  BY Zenon, <1>0, <1>4, Periods
<1>7. ASSUME NEW p \in Servers, Does(p)
      PROVE  Holds(a)'
  <2>0. UNCHANGED <<deployment, now>>
    BY Zenon, <1>7, DoesFrame
  <2>1. S' = S /\ M' = M /\ Y' = Y
    BY Zenon, <2>0 DEF Servers, LockingFailures, UseDB
  <2>2. CASE lockouts'[a] = lockouts[a]
    <3>1. X(a)' = X(a)
      BY Zenon, <2>2
    <3>2. lockouts[a] # None /\ X(a) > Y => K(a)' \in Nat /\ K(a)' <= K(a)
      <4>1. lockouts[a] # None /\ X(a) > Y => Locked(a)
        BY <1>0, <1>4, <1>5, <1>6 DEF Locked
      <4>2. Locked(a) => Past(a)' \in SUBSET Past(a)
        BY Zenon, <1>7, PastStep
      <4>3. Past(a)' \in SUBSET Past(a) => K(a)' \in Nat /\ K(a)' <= K(a)
        BY Zenon, <1>3, FS_Subset, FS_CardinalityType
      <4> QED
        BY Zenon, <4>1, <4>2, <4>3
    <3> HIDE DEF S, M, Y, K, X
    <3>3. ASSUME lockouts[a] # None, lockouts[a].failed >= M
          PROVE  lockouts[a].failed + (IF X(a) > Y THEN K(a)' ELSE 0) <= M - 1 + S * X(a)
      <4>1. lockouts[a].failed + (IF X(a) > Y THEN K(a) ELSE 0) <= M - 1 + S * X(a)
        BY Zenon, <1>1, <3>3
      <4>2. S * X(a) \in Nat
        BY <1>0, <1>6, <3>3
      <4> HIDE DEF Holds
      <4>3. CASE X(a) > Y
        BY <1>0, <1>3, <1>4, <3>2, <3>3, <4>1, <4>2, <4>3
      <4>4. CASE ~(X(a) > Y)
        BY Zenon, <4>1, <4>4
      <4> QED
        BY Zenon, <4>3, <4>4
    <3> QED
      BY Zenon, <2>1, <2>2, <3>1, <3>3
  <2>3. CASE Counts(p) /\ call[p].actor = a /\ lockouts'[a] = Failure(lockouts[a])
    <3> DEFINE f == IF lockouts[a] = None THEN 0 ELSE lockouts[a].failed
               x == IF lockouts[a] = None THEN 0 ELSE X(a)
    <3>1. lockouts[a] \in LockoutRow \cup {None}
      BY Zenon, <1>0
    <3>2. /\ lockouts'[a].failed = f + 1 /\ f \in Nat
          /\ lockouts'[a].failed >= M => lockouts'[a].until = now + LockoutTTL
      BY <1>4, <2>3, <3>1, FailureIs
    <3>3. K(a)' = K(a) - 1
      <4>1. p \in Past(a) /\ Past(a)' = Past(a) \ {p}
        BY Zenon, <1>7, <2>3, PastStep
      <4> QED
        BY Zenon, <1>3, <4>1, FS_RemoveElement
    <3>4. lockouts'[a].failed >= M => X(a)' = Y + 1
      <4>1. now + LockoutTTL \in Nat
        BY <1>0
      <4>2. (now + LockoutTTL) \div LockoutTTL = Y + 1
        BY Zenon, <1>0, <4>1, Periods
      <4> QED
        BY Zenon, <3>2, <4>2
    <3>5. x \in Nat /\ x <= Y + 1 /\ (f >= M => f + (IF x > Y THEN K(a) ELSE 0) <= M - 1 + S * x)
      <4>1. CASE lockouts[a] = None
        BY <1>0, <1>5, <4>1
      <4>2. CASE lockouts[a] # None
        BY Zenon, <1>1, <1>6, <4>2
      <4> QED
        BY Zenon, <4>1, <4>2
    <3> HIDE DEF f, x, S, M, Y, K, X
    <3>6. f + K(a) <= M - 1 + S * (Y + 1)
      BY Zenon, <1>0, <1>3, <1>5, <3>2, <3>5, OneMore
    <3>7. Y + 1 > Y /\ f + 1 + (K(a) - 1) = f + K(a)
      BY <1>3, <1>5, <3>2
    <3> QED
      BY Zenon, <2>1, <3>2, <3>3, <3>4, <3>6, <3>7
  <2>4. CASE lockouts'[a] = IF UseDB THEN [failed |-> 0, until |-> 0] ELSE None
    <3>1. lockouts'[a] # None => lockouts'[a].failed = 0
      BY <2>4
    <3>2. ~(0 >= M)
      BY <1>0
    <3> HIDE DEF S, M, Y, K, X
    <3> QED
      BY Zenon, <2>1, <3>1, <3>2
  <2> HIDE DEF Holds
  <2> QED
    BY Zenon, <1>7, <2>2, <2>3, <2>4, LockoutsMove
<1>8. ASSUME UNCHANGED <<deployment, lockouts, call>>, now' \in {now, now + 1}
      PROVE  Holds(a)'
  <2>1. S' = S /\ M' = M /\ K(a)' = K(a) /\ X(a)' = X(a)
    BY Zenon, <1>8 DEF Servers, LockingFailures, UseDB, Past
  <2>2. Y' \in Nat /\ Y <= Y'
    <3>1. CASE now' = now
      BY <1>5, <3>1
    <3>2. CASE now' = now + 1
      BY Zenon, <1>5, <3>2
    <3> QED
      BY Zenon, <1>8, <3>1, <3>2
  <2> HIDE DEF S, M, Y, K, X
  <2>3. ASSUME lockouts[a] # None, lockouts[a].failed >= M
        PROVE  lockouts[a].failed + (IF X(a) > Y' THEN K(a) ELSE 0) <= M - 1 + S * X(a)
    <3>1. lockouts[a].failed + (IF X(a) > Y THEN K(a) ELSE 0) <= M - 1 + S * X(a)
      BY Zenon, <1>1, <2>3
    <3>2. S * X(a) \in Nat
      BY <1>0, <1>6, <2>3
    <3> HIDE DEF Holds
    <3>3. (IF X(a) > Y' THEN K(a) ELSE 0) <= (IF X(a) > Y THEN K(a) ELSE 0)
      BY <1>3, <1>5, <1>6, <2>2, <2>3
    <3> QED
      BY <1>0, <1>3, <1>4, <2>3, <3>1, <3>2, <3>3
  <2> QED
    BY Zenon, <1>8, <2>1, <2>3
<1> HIDE DEF Holds
<1>9. CASE CleanupExpiredSessions
  BY Zenon, <1>8, <1>9 DEF CleanupExpiredSessions
<1>10. CASE Tick
  BY Zenon, <1>8, <1>10 DEF Tick, stores
<1>11. CASE UNCHANGED vars
  BY Zenon, <1>8, <1>11 DEF vars, stores
<1> QED
  BY Zenon, <1>7, <1>9, <1>10, <1>11, NextDoes

-----------------------------------------------------------------------------
(* The theorems.                                                             *)

LEMMA IdentityInit == Init => IdentityInv
<1> SUFFICES ASSUME Init
             PROVE  IdentityInv
  BY Zenon
<1>0. deployment \in Deployments
  BY Zenon DEF Init
<1>1. /\ deployment.tokens \in Nat /\ deployment.time \in Nat /\ Tokens \subseteq Nat
  BY <1>0, DeploymentType DEF Tokens
<1>2. credentials \in [Actors -> {"active", "disabled", None}]
  BY Zenon DEF Init
<1>3. StoresOK
  BY <1>0, <1>1, <1>2 DEF Init, StoresOK
<1>4. HistoryOK
  BY Zenon, <1>1 DEF Init, HistoryOK
<1>5. \A p \in Processes : call[p] = Idle
  BY Zenon DEF Init
<1>6. CallsOK
  BY Zenon, <1>5, KindsApart DEF Init, CallsOK
<1>7. \A p \in Processes : ~Fresh(call[p]) /\ call[p] \notin Turning /\ call[p] \notin Early
  BY Zenon, <1>5, KindsApart DEF Fresh
<1>8. Honour
  BY Zenon, <1>7 DEF Init, Honour
<1>9. Spent
  BY Zenon, <1>7 DEF Init, Spent
<1>10. Lockout
  BY Zenon DEF Init, Lockout, Locked
<1>11. Guesses
  BY Zenon DEF Init, Guesses
<1> QED
  BY Zenon, <1>3, <1>4, <1>6, <1>8, <1>9, <1>10, <1>11 DEF IdentityInv

LEMMA IdentityStep == IdentityInv /\ [Next]_vars => IdentityInv'
  BY Zenon, StoresStep, HistoryStep, CallsStep, HonourStep, SpentStep, LockoutStep, GuessesStep
     DEF IdentityInv

LEMMA IdentityInvariant == Spec => []IdentityInv
  BY IdentityInit, IdentityStep, PTL DEF Spec

\* A session appears for a login, or as the heir of another.
LEMMA SessionAppears ==
    ASSUME IdentityInv, NEW p \in Servers, Does(p),
           NEW t \in Tokens, sessions[t] = None, sessions'[t] # None
    PROVE  \/ \E c : Opens(p, c) /\ sessions'[t].actor = call[p].actor
           \/ \E u \in Tokens : t \in heirs'[u]
<1>0. /\ StoresOK /\ sessions \in [Tokens -> SessionRow \cup {None}]
      /\ heirs \in [Tokens -> SUBSET (1..drawn)]
  BY Zenon DEF IdentityInv, StoresOK, HistoryOK
<1>1. ASSUME NEW c, Opens(p, c)
      PROVE  \E b : Opens(p, b) /\ sessions'[t].actor = call[p].actor
  <2>1. drawn + 1 \in Tokens /\ sessions' = [sessions EXCEPT ![drawn + 1] = Session(call[p].actor)]
    BY Zenon, <1>0, <1>1, NewToken DEF Opens
  <2>2. sessions'[t] = Session(call[p].actor)
    BY Zenon, <1>0, <2>1
  <2>3. sessions'[t].actor = call[p].actor
    BY <2>2 DEF Session
  <2> QED
    BY Zenon, <1>1, <2>3
<1>2. ASSUME NEW c, Rotates(p, c)
      PROVE  \E u \in Tokens : t \in heirs'[u]
  <2>1. /\ drawn + 1 \in Tokens /\ call[p].token \in Tokens
        /\ sessions' = [Revoked(call[p].token) EXCEPT ![drawn + 1] = Session(call[p].actor)]
        /\ heirs' = [heirs EXCEPT ![call[p].token] = @ \cup {drawn + 1}]
    BY Zenon, <1>0, <1>2, NewToken, KindsApart DEF Rotates
  <2>2. Revoked(call[p].token) \in [Tokens -> SessionRow \cup {None}]
    BY Zenon, <1>0, <2>1, RevokedIs
  <2>3. Revoked(call[p].token)[t] = None
    BY <1>0, <2>1, RevokedIs
  <2>4. t = drawn + 1
    BY Zenon, <2>1, <2>2, <2>3
  <2>5. t \in heirs'[call[p].token]
    BY Zenon, <1>0, <2>1, <2>4
  <2> QED
    BY Zenon, <2>1, <2>5
<1>3. ASSUME NEW x \in Tokens, sessions' = Revoked(x)
      PROVE  FALSE
  BY <1>0, <1>3, RevokedIs
<1>4. ASSUME NEW c, Revokes(p, c)
      PROVE  FALSE
  BY Zenon, <1>3, <1>4, KindsApart DEF Revokes
<1>5. CASE TakesBack(p)
  BY Zenon, <1>3, <1>5, KindsApart DEF TakesBack, Fresh
<1>6. ASSUME NEW c, Walks(p, c) \/ Resets(p, c)
      PROVE  FALSE
  BY Zenon, <1>6 DEF Walks, Resets
<1>7. CASE Tells(p) \/ Counts(p)
  BY Zenon, <1>7 DEF Tells, Counts, stores
<1> QED
  BY Zenon, <1>1, <1>2, <1>4, <1>5, <1>6, <1>7 DEF Does

\* A spent token is exchanged only by a call that had found it live before.
LEMMA SpentNotExchanged ==
    ASSUME IdentityInv, [Next]_vars
    PROVE  SpentStays
<1>0. /\ heirs \in [Tokens -> SUBSET (1..drawn)] /\ StoresOK /\ CallsOK /\ Spent
      /\ call \in [Processes -> Calls \cup {Idle}] /\ Servers \subseteq Processes
  BY Zenon, DeploymentType DEF IdentityInv, HistoryOK, CallsOK, StoresOK
<1> SUFFICES ASSUME NEW t \in Tokens, t \in loggedOut \/ heirs[t] # {}
             PROVE  /\ Exchanging(t) # Servers
                    /\ Exchanging(t)' \subseteq Exchanging(t)
                    /\ heirs'[t] = heirs[t] \/ Exchanging(t)' # Exchanging(t)
  BY Zenon DEF SpentStays
<1>1. Exchanging(t) # Servers
  <2>1. PICK p \in Servers : ~(call[p] \in Turning /\ call[p].pc = "rotate" /\ call[p].token = t)
    BY Zenon, <1>0 DEF Spent
  <2>2. p \notin Exchanging(t)
    BY Zenon, <1>0, <2>1, CallKinds DEF Exchanging
  <2> QED
    BY Zenon, <2>2
<1>2. ASSUME NEW p \in Servers, Does(p)
      PROVE  /\ Exchanging(t)' \subseteq Exchanging(t)
             /\ heirs'[t] = heirs[t] \/ Exchanging(t)' # Exchanging(t)
  <2>1. Servers' = Servers
    BY Zenon, <1>2, DoesFrame DEF Servers
  <2>2. PICK c \in Calls \cup {Idle} : Goes(p, c)
    BY Zenon, <1>2, DoesFrame
  <2>3. call'[p] = c /\ \A q \in Processes \ {p} : call'[q] = call[q]
    BY Zenon, <1>0, <2>2, GoesIs
  <2>4. p \notin Exchanging(t)'
    <3>1. ~(call'[p] \in Turning /\ call'[p].pc = "rotate" /\ call'[p].token = t)
      BY Zenon, <1>0, <1>2, ExchangeComes DEF Spent, Live
    <3> QED
      BY Zenon, <2>3, <3>1, CallKinds DEF Exchanging
  <2>5. Exchanging(t)' \subseteq Exchanging(t)
    BY Zenon, <1>0, <2>1, <2>3, <2>4 DEF Exchanging
  <2>6. ASSUME NEW b, Rotates(p, b), heirs'[t] # heirs[t]
        PROVE  p \in Exchanging(t)
    <3>1. /\ call[p].pc = "rotate" /\ call[p] \in Turning
          /\ heirs' = [heirs EXCEPT ![call[p].token] = @ \cup {drawn + 1}]
      BY Zenon, <2>6 DEF Rotates
    <3>2. call[p].token = t
      BY Zenon, <1>0, <2>6, <3>1
    <3> QED
      BY Zenon, <3>1, <3>2 DEF Exchanging
  <2>7. ASSUME NEW b, Walks(p, b) \/ Resets(p, b) \/ Opens(p, b) \/ Revokes(p, b)
        PROVE  heirs' = heirs
    BY Zenon, <2>7 DEF Walks, Resets, Opens, Revokes, history
  <2>8. Tells(p) \/ Counts(p) \/ TakesBack(p) => heirs' = heirs
    BY Zenon DEF Tells, Counts, TakesBack, history
  <2>9. heirs'[t] # heirs[t] => p \in Exchanging(t)
    BY Zenon, <1>2, <2>6, <2>7, <2>8 DEF Does
  <2> QED
    BY Zenon, <2>4, <2>5, <2>9
<1>3. CASE CleanupExpiredSessions \/ Tick \/ UNCHANGED vars
  <2>1. UNCHANGED <<deployment, call, heirs>>
    BY Zenon, <1>3 DEF CleanupExpiredSessions, Tick, vars, history
  <2>2. Exchanging(t)' = Exchanging(t)
    BY Zenon, <2>1 DEF Exchanging, Servers
  <2> QED
    BY Zenon, <1>1, <2>1, <2>2
<1> QED
  BY Zenon, <1>0, <1>1, <1>2, <1>3, NextDoes DEF IdentityInv

\* The logins past checkLocked are the early calls past their first place.
LEMMA LoggingInIs ==
    ASSUME StoresOK, CallsOK, NEW p \in Servers, NEW a
    PROVE  p \in LoggingIn(a) <=> call[p] \in Early /\ call[p].pc # "locked" /\ call[p].actor = a
<1>1. call[p] \in Calls \cup {Idle}
  BY Zenon, CallType
<1>2. call[p] \in Early => call[p] # Idle /\ call[p].op = "login"
                           /\ call[p].pc \in {"locked", "verify", "fail", "reset", "store"}
  BY Zenon, KindsApart DEF Early, Kinds
<1>3. call[p].op = "login" /\ call[p].pc \in {"verify", "fail", "reset", "store"} =>
          call[p] \in Early /\ call[p].pc # "locked"
  BY Zenon, <1>1, CallKinds
<1> QED
  BY Zenon, <1>2, <1>3 DEF LoggingIn

\* No login passes the check of a locked actor.
LEMMA NoneComesIn ==
    ASSUME StoresOK, CallsOK, NEW p \in Servers, Does(p), NEW a \in Actors, Locked(a)
    PROVE  LoggingIn(a)' \subseteq LoggingIn(a)
<1>1. Servers' = Servers /\ Servers \subseteq Processes
  BY Zenon, DoesFrame, DeploymentType DEF Servers, StoresOK
<1>2. PICK c \in Calls \cup {Idle} : Goes(p, c)
  BY Zenon, DoesFrame
<1>3. call'[p] = c /\ \A q \in Processes \ {p} : call'[q] = call[q]
  BY Zenon, <1>2, GoesIs
<1>4. ASSUME p \in LoggingIn(a)'
      PROVE  p \in LoggingIn(a)
  <2>1. call'[p] # Idle /\ call'[p].op = "login" /\ call'[p].actor = a
        /\ call'[p].pc \in {"verify", "fail", "reset", "store"}
    BY Zenon, <1>4 DEF LoggingIn
  <2>2. call'[p] \in Early /\ call'[p].pc # "locked"
    BY Zenon, <1>3, <2>1, CallKinds
  <2>3. call[p] \in Early /\ call[p].actor = a /\ call[p].pc # "locked"
    <3>1. CASE /\ call[p] \in Early /\ call'[p].actor = call[p].actor
               /\ \/ call[p].pc = "locked" /\ call'[p].pc = "verify" /\ ~Locked(call[p].actor)
                  \/ call[p].pc = "verify"
      BY Zenon, <2>1, <3>1
    <3>2. CASE Resets(p, call'[p]) /\ call'[p].actor = call[p].actor /\ call'[p].pc = "store"
      BY Zenon, <2>1, <2>2, <3>2, KindsApart DEF Resets
    <3> QED
      BY Zenon, <2>2, <3>1, <3>2, EarlyComes
  <2> QED
    BY Zenon, <2>3, LoggingInIs
<1> QED
  BY Zenon, <1>1, <1>3, <1>4 DEF LoggingIn

\* Only a login that had passed the check forgets a lockout or opens a session under it.
LEMMA LockoutKept ==
    ASSUME IdentityInv, [Next]_vars
    PROVE  LoginLockoutHolds
<1>0. /\ lockouts \in [Actors -> LockoutRow \cup {None}] /\ StoresOK /\ CallsOK /\ Lockout
      /\ sessions \in [Tokens -> SessionRow \cup {None}]
  BY Zenon DEF IdentityInv, StoresOK
<1> DEFINE late(a) == \E p \in LoggingIn(a) : call'[p] # call[p]
           kept(a) == \/ lockouts'[a] # None /\ lockouts'[a].until >= lockouts[a].until
                      \/ \E p \in Processes :
                            call[p] # Idle /\ call[p].op = "admin" /\ call[p].actor = a
                      \/ late(a)
           shut(a) == \A t \in Tokens :
                          sessions[t] = None /\ sessions'[t] # None /\ sessions'[t].actor = a =>
                              late(a) \/ \E u \in Tokens : t \in heirs'[u]
<1> SUFFICES ASSUME NEW a \in Actors, Locked(a)
             PROVE  /\ LoggingIn(a) # Servers /\ LoggingIn(a)' \subseteq LoggingIn(a)
                    /\ kept(a) /\ shut(a)
  BY Zenon DEF LoginLockoutHolds
<1> HIDE DEF kept, shut
<1>1. lockouts[a] # None /\ lockouts[a].until \in Nat
  BY Zenon, <1>0 DEF Locked, LockoutRow
<1>2. LoggingIn(a) # Servers
  <2>1. PICK q \in Servers : ~(call[q] \in Early /\ call[q].pc # "locked" /\ call[q].actor = a)
    BY Zenon, <1>0 DEF Lockout
  <2> QED
    BY Zenon, <1>0, <2>1, LoggingInIs
<1>3. ASSUME NEW p \in Servers, Does(p)
      PROVE  LoggingIn(a)' \subseteq LoggingIn(a) /\ kept(a) /\ shut(a)
  <2>0. p \in Processes
    BY Zenon, <1>0, DeploymentType DEF StoresOK
  <2>1. LoggingIn(a)' \subseteq LoggingIn(a)
    BY Zenon, <1>0, <1>3, NoneComesIn
  <2>2. lockouts'[a] = lockouts[a] => lockouts'[a] # None /\ lockouts'[a].until >= lockouts[a].until
    BY <1>1
  <2>3. ASSUME call[p] \in Early, call[p].pc # "locked", call[p].actor = a, call'[p] # call[p]
        PROVE  late(a)
    BY Zenon, <1>0, <2>3, LoggingInIs
  <2>4. ASSUME Counts(p), call[p].actor = a
        PROVE  late(a)
    <3>1. call[p] \in Early /\ call[p].pc # "locked" /\ call'[p] = Idle
      BY Zenon, <1>0, <2>4, GoesIs DEF Counts
    <3> QED
      BY Zenon, <2>3, <2>4, <3>1, KindsApart
  <2>5. ASSUME NEW c, Resets(p, c), call[p].actor = a
        PROVE  late(a) \/ (call[p] # Idle /\ call[p].op = "admin")
    <3>1. CASE call[p] \in Admin
      BY Zenon, <3>1, KindsApart DEF Admin, Kinds
    <3>2. CASE call[p] \in Early /\ call[p].pc = "reset" /\ c \in Early \cup {Idle}
      <4>1. call'[p] = c
        BY Zenon, <1>0, <2>0, <2>5 DEF Resets, Goes, CallsOK
      <4>2. c # call[p]
        BY Zenon, <2>5, <3>2, KindsApart DEF Resets
      <4> QED
        BY Zenon, <2>3, <2>5, <3>2, <4>1, <4>2
    <3> QED
      BY Zenon, <2>5, <3>1, <3>2 DEF Resets
  <2>6. kept(a)
    BY Zenon, <1>0, <1>3, <2>0, <2>2, <2>4, <2>5, LockoutsMove DEF kept
  <2>7. ASSUME NEW t \in Tokens, sessions[t] = None, sessions'[t] # None, sessions'[t].actor = a
        PROVE  late(a) \/ \E u \in Tokens : t \in heirs'[u]
    <3>1. ASSUME NEW c, Opens(p, c), sessions'[t].actor = call[p].actor
          PROVE  late(a)
      <4>1. call[p] \in Early /\ call[p].pc = "store" /\ call[p].actor = a
        BY Zenon, <2>7, <3>1 DEF Opens
      <4>2. call'[p] = c /\ c \notin Early
        BY Zenon, <1>0, <2>0, <3>1, KindsApart DEF Opens, Goes, CallsOK
      <4> QED
        BY Zenon, <2>3, <4>1, <4>2
    <3> QED
      BY Zenon, <1>3, <2>7, <3>1, SessionAppears
  <2> QED
    BY Zenon, <2>1, <2>6, <2>7 DEF shut
<1>5. CASE CleanupExpiredSessions
  <2>1. UNCHANGED <<deployment, call, lockouts>>
    BY Zenon, <1>5 DEF CleanupExpiredSessions
  <2>2. \A t \in Tokens : sessions[t] = None => sessions'[t] = None
    BY Zenon, <1>0, <1>5 DEF CleanupExpiredSessions
  <2>3. LoggingIn(a)' = LoggingIn(a)
    BY Zenon, <2>1 DEF LoggingIn, Servers
  <2> QED
    BY <1>1, <1>2, <2>1, <2>2, <2>3 DEF kept, shut
<1>6. CASE Tick \/ UNCHANGED vars
  <2>1. UNCHANGED <<deployment, call, lockouts, sessions>>
    BY Zenon, <1>6 DEF Tick, vars, stores
  <2>2. LoggingIn(a)' = LoggingIn(a)
    BY Zenon, <2>1 DEF LoggingIn, Servers
  <2> QED
    BY <1>1, <1>2, <2>1, <2>2 DEF kept, shut
<1> QED
  BY Zenon, <1>0, <1>2, <1>3, <1>5, <1>6, NextDoes

\* Types of the stores and of the calls in progress, for every deployment.
THEOREM IdentityTypes == Spec => []TypeOK
<1>1. IdentityInv => TypeOK
  <2> SUFFICES ASSUME IdentityInv
               PROVE  TypeOK
    BY Zenon
  <2>1. StoresOK /\ HistoryOK /\ CallsOK
    BY Zenon DEF IdentityInv
  <2>2. drawn \in 0..MaxTokens
    BY <2>1, DeploymentType DEF StoresOK
  <2>3. \A c \in Calls :
            /\ c.op \in {"login", "logout", "refresh", "admin"}
            /\ c.pc \in {"locked", "verify", "fail", "reset", "store", "revoke",
                         "rotate", "audit", "undo"}
            /\ c.actor \in Actors
    BY Zenon DEF Calls, Early, Opened, Closing, Turning, Admin, Kinds, KindsWith
  <2>4. \A p \in Processes : call[p] # Idle => call[p] \in Calls
    BY Zenon, <2>1 DEF CallsOK
  <2> QED
    BY Zenon, <2>1, <2>2, <2>3, <2>4 DEF TypeOK, StoresOK, HistoryOK
<1> QED
  BY <1>1, IdentityInvariant, PTL

\* A refresh token that a client was given works until it expires, unless rotateSession has
\* exchanged it or a Logout has revoked it: neither failed logins nor crashes before that nor
\* the cleanup worker take it away, for any number of processes on a database.
THEOREM Honoured == Spec => []TokensHonoured
<1>1. IdentityInv => TokensHonoured
  <2> SUFFICES ASSUME IdentityInv, NEW t \in given \ loggedOut, now < deadline[t], heirs[t] = {}
               PROVE  Live(t)
    BY Zenon DEF TokensHonoured
  <2>1. Kept(t)
    BY Zenon DEF IdentityInv, Honour
  <2>2. t \in Tokens /\ deadline[t] \in Nat /\ now \in Nat
    <3>1. given \subseteq 1..drawn /\ drawn \in 0..deployment.tokens /\ deployment.tokens \in Nat
          /\ deployment.tokens <= MaxTokens /\ MaxTokens \in Nat /\ deployment.time \in Nat
      BY Zenon, DeploymentType DEF IdentityInv, StoresOK, HistoryOK
    <3>2. t \in 1..drawn /\ drawn \in Nat /\ drawn <= MaxTokens
      <4>1. t \in 1..drawn
        BY Zenon, <3>1
      <4>2. drawn \in Nat /\ drawn <= deployment.tokens
        BY <3>1
      <4> QED
        BY <3>1, <4>1, <4>2
    <3>3. t \in Tokens
      BY <3>1, <3>2 DEF Tokens
    <3>4. deadline[t] \in Nat
      BY Zenon, <3>3 DEF IdentityInv, HistoryOK
    <3>5. now \in 0..deployment.time
      BY Zenon DEF IdentityInv, StoresOK
    <3> QED
      BY <3>1, <3>3, <3>4, <3>5
  <2>3. sessions[t] # None /\ ~sessions[t].revoked /\ sessions[t].expires = deadline[t]
    BY <2>1, <2>2 DEF Kept
  <2> QED
    BY Zenon, <2>2, <2>3 DEF Live
<1> QED
  BY <1>1, IdentityInvariant, PTL

\* Guessing is slow whatever the calls do at the same time: once the wrong secrets that lock
\* an account are counted by recordFailure, each process adds at most one more in every
\* lockout period.
THEOREM FailuresAreBounded == Spec => []FailuresBounded
<1>1. IdentityInv => FailuresBounded
  <2> SUFFICES ASSUME IdentityInv, NEW a \in Actors, lockouts[a] # None
               PROVE  lockouts[a].failed <=
                          LockingFailures - 1 + Cardinality(Servers) * (1 + now \div LockoutTTL)
    BY Zenon DEF FailuresBounded
  <2> DEFINE f == lockouts[a].failed
             x == lockouts[a].until \div LockoutTTL
             y == now \div LockoutTTL
             k == Cardinality(Past(a))
             s == Cardinality(Servers)
  <2>1. /\ f \in Nat /\ lockouts[a].until \in Nat /\ now \in Nat /\ LockoutTTL \in Nat \ {0}
        /\ lockouts[a].until <= now + LockoutTTL
        /\ s \in Nat /\ LockingFailures \in Nat
    BY DeploymentType, ConstantsAssumption
       DEF IdentityInv, StoresOK, LockoutRow, Lockout, LockingFailures
  <2>2. x \in Nat /\ y \in Nat /\ x <= y + 1
    BY Zenon, <2>1, Periods
  <2>3. k \in Nat /\ k <= s
    BY Zenon, PastIs DEF IdentityInv
  <2>4. f >= LockingFailures => f + (IF x > y THEN k ELSE 0) <= LockingFailures - 1 + s * x
    BY Zenon DEF IdentityInv, Guesses
  <2> HIDE DEF f, x, y, k, s
  <2>5. f + k <= LockingFailures - 1 + s * (y + 1)
    BY Zenon, <2>1, <2>2, <2>3, <2>4, OneMore
  <2>6. s * (y + 1) = s * (1 + y) /\ s * (y + 1) \in Nat
    BY <2>1, <2>2
  <2>7. f <= LockingFailures - 1 + s * (1 + y)
    BY <2>1, <2>3, <2>5, <2>6
  <2> QED
    BY Zenon, <2>7 DEF f, y, s
<1> QED
  BY <1>1, IdentityInvariant, PTL

\* Neither a refresh token that was exchanged or logged out nor an account that is locked is
\* opened again, by failures, crashes and the cleanup worker included: no call of RefreshToken
\* or Login passes its check any more, and the calls that passed it before, which may still go
\* through, are of fewer processes than there are, so of none when there is one.
THEOREM ClosedStay == Spec => ClosedStays
<1>1. IdentityInv /\ [Next]_vars => [SpentStays /\ LoginLockoutHolds]_vars
  BY Zenon, SpentNotExchanged, LockoutKept
<1> QED
  BY <1>1, IdentityInvariant, PTL DEF Spec, ClosedStays

=============================================================================
