------------------------------- MODULE Access -------------------------------
(***************************************************************************)
(* How a call reaches a service of rgsd (cmd/rgsd/main.go): the process    *)
(* that is configured, started, stopped or killed; the HTTP path through   *)
(* RemoteAccessGuard, HTTPJWTMiddleware and the gateway; the gRPC path     *)
(* through UnaryJWTInterceptor; resolveActor in the service; and the key   *)
(* set that signs and verifies tokens, reloaded from its source by a       *)
(* goroutine of its own while calls are served.                            *)
(*                                                                         *)
(* A request's source is what extractSourceIP returns, the first address   *)
(* of an X-Forwarded-For header that the client may have written.  The     *)
(* numbers of the guard's audit events are counted; what an event says is  *)
(* left out, and how the table chains events is AuditChain's.              *)
(***************************************************************************)
EXTENDS Routes, Integers, FiniteSets, Functions

CONSTANTS
    Clients,
    Actors,             \* actors that can log in: [id, type], the type as the token spells it
    Sources, Trusted,   \* network sources, and those inside RGS_TRUSTED_CIDRS
    Contents,           \* what the key set source may hold: [active, keys], or Unreadable
    Unreadable,         \* the source cannot be read or decoded
    Deployments,        \* configurations of the process, and what happens to it
    Blank, None

\* Flags and variables main reads (refreshes: RGS_JWT_KEYSET_REFRESH_INTERVAL is above 0);
\* what the key set source may hold; who calls what, and whether they watch the health
\* service; and the bounds: tokens issued, guarded calls to one process, changes of the
\* source, starts.
Deployment ==
    [strict : BOOLEAN, strictExternal : BOOLEAN, db : BOOLEAN, tls : BOOLEAN,
     file : BOOLEAN, command : BOOLEAN, refreshes : BOOLEAN, spec : BOOLEAN,
     defaultSecret : BOOLEAN, cap : Nat, contents : SUBSET Contents,
     clients : SUBSET Clients, rpcs : SUBSET RPCs, watch : BOOLEAN,
     tokens : Nat, accesses : Nat, rotations : Nat, starts : Nat]

\* The names and the secrets a key set can have, and the tokens that can be signed
Names   == {"default"} \cup UNION {{c.active} \cup DOMAIN c.keys : c \in Contents \ {Unreadable}}
Secrets ==
    {"secret"} \cup UNION {{c.keys[k] : k \in DOMAIN c.keys} : c \in Contents \ {Unreadable}}
Token   == [actor : Actors, kid : Names, secret : Secrets]

ASSUME ConstantsAssumption ==
    /\ Trusted \subseteq Sources
    /\ Unreadable \in Contents
    /\ Deployments \subseteq Deployment
    /\ None \notin Actors \cup Contents \cup Sources \cup Token \cup {"stored", "in memory"}

VARIABLES
    deployment,     \* chosen once
    phase,          \* the process: down, up, or on its way down
    starts,
    source,         \* the file, the command's output or the environment
    rotations,      \* times the source has changed
    signer, verifier,   \* the key sets of the JWTSigner and the JWTVerifier
    fingerprint,    \* of the key set the refresh loop took last: the key set itself
    refresh,        \* the refresh loop: waiting, or a key set it has yet to install
    tokens,         \* access tokens issued
    expired,        \* those of them past their expiry and the leeway
    request,        \* by client: the call in progress
    logs,           \* entries of the guard's log in memory
    nextID,         \* the guard's audit numbers
    events          \* remote-access numbers that are taken in audit_events

keys    == <<signer, verifier, fingerprint, refresh>>
process == <<phase, starts>>
guard   == <<logs, nextID, events>>
vars    == <<deployment, process, source, rotations, keys, tokens, expired, request, guard>>

Idle == [pc |-> "idle"]

\* A stream of the health service (grpc.health.v1.Health/Watch): no interceptor sees it
Watching == [pc |-> "watch", via |-> "gRPC"]

-----------------------------------------------------------------------------
(* The process and its configuration.                                        *)

\* The four refusals of validateProductionRuntime
validateProductionRuntime(d) ==
    d.strict =>
        /\ d.db
        /\ d.tls
        /\ d.spec \/ d.file \/ d.command \/ ~d.defaultSecret
        /\ d.strictExternal => d.file \/ d.command

\* The sources loadJWTKeyset reads again on every refresh
External == deployment.file \/ deployment.command

\* Faulty variant: the active key need not be among the keys.
LoadAnyKeyset(content) ==
    IF content = Unreadable THEN None
    ELSE [active |-> content.active,
          keys |-> Restrict(content.keys, {k \in DOMAIN content.keys : content.keys[k] # Blank})]

\* LoadHMACKeysetJSON: entries with a blank name or a blank secret are dropped.
LoadHMACKeysetJSON(content) ==
    IF content = Unreadable THEN None
    ELSE LET active == IF content.active = Blank THEN "default" ELSE content.active
             kept   == {k \in DOMAIN content.keys : k # Blank /\ content.keys[k] # Blank}
         IN IF active \in kept THEN [active |-> active, keys |-> Restrict(content.keys, kept)]
            ELSE None

\* ParseHMACKeyset: a blank entry is an error; without a spec the one key is the secret.
ParseHMACKeyset(content) ==
    IF content = Unreadable THEN None
    ELSE LET active == IF content.active = Blank THEN "default" ELSE content.active
         IN IF ~deployment.spec
            THEN [active |-> active, keys |-> [k \in {active} |-> "secret"]]
            ELSE IF /\ active \in DOMAIN content.keys
                    /\ \A k \in DOMAIN content.keys : k # Blank /\ content.keys[k] # Blank
                 THEN [active |-> active, keys |-> content.keys]
                 ELSE None

loadJWTKeyset == IF External THEN LoadHMACKeysetJSON(source) ELSE ParseHMACKeyset(source)

\* main up to the two listeners.  Any failure on the way is fatal and leaves the process down.
Start ==
    /\ phase = "down" /\ starts < deployment.starts
    /\ validateProductionRuntime(deployment)
    /\ loadJWTKeyset # None
    /\ phase' = "up" /\ starts' = starts + 1
    /\ signer' = loadJWTKeyset /\ verifier' = loadJWTKeyset /\ fingerprint' = loadJWTKeyset
    /\ refresh' = None
    /\ logs' = 0 /\ nextID' = 0
    /\ UNCHANGED <<deployment, source, rotations, tokens, expired, request, events>>

InFlight(via) == {c \in Clients : request[c] # Idle /\ request[c].via = via}

\* Faulty variant: the first step waits for HTTP requests too.
StopTogether ==
    /\ \/ phase = "up" /\ phase' = "stopping gRPC" /\ UNCHANGED request
       \/ /\ phase = "stopping gRPC" /\ InFlight("gRPC") = {} /\ InFlight("HTTP") = {}
          /\ phase' = "stopping HTTP" /\ UNCHANGED request
       \/ /\ phase = "stopping HTTP"
          /\ phase' = "down" /\ request' = [c \in Clients |-> Idle]
    /\ UNCHANGED <<deployment, starts, source, rotations, keys, tokens, expired, guard>>

\* SIGTERM; GracefulStop once every gRPC call has returned; Shutdown once every HTTP request
\* has, or after its ten seconds.  HTTP requests are accepted until GracefulStop returns.
Stop ==
    /\ \/ phase = "up" /\ phase' = "stopping gRPC" /\ UNCHANGED request
       \/ /\ phase = "stopping gRPC" /\ InFlight("gRPC") = {}
          /\ phase' = "stopping HTTP" /\ UNCHANGED request
       \/ /\ phase = "stopping HTTP"
          /\ phase' = "down" /\ request' = [c \in Clients |-> Idle]
    /\ UNCHANGED <<deployment, starts, source, rotations, keys, tokens, expired, guard>>

\* The process dies.
Crash ==
    /\ phase # "down"
    /\ phase' = "down"
    /\ request' = [c \in Clients |-> Idle]
    /\ UNCHANGED <<deployment, starts, source, rotations, keys, tokens, expired, guard>>

-----------------------------------------------------------------------------
(* The key set.                                                              *)

\* An operator replaces what the source holds.
Rotate(content) ==
    /\ rotations < deployment.rotations
    /\ content # source
    /\ source' = content
    /\ rotations' = rotations + 1
    /\ UNCHANGED <<deployment, process, keys, tokens, expired, request, guard>>

\* Faulty variant: the fingerprint is of the active key's name alone.
RefreshByName ==
    /\ phase = "up" \/ (phase # "down" /\ deployment.file)
    /\ External /\ deployment.refreshes
    /\ refresh = None
    /\ loadJWTKeyset # None /\ loadJWTKeyset.active # fingerprint.active
    /\ refresh' = loadJWTKeyset
    /\ UNCHANGED <<deployment, process, source, rotations, signer, verifier, fingerprint, tokens,
                   expired, request, guard>>

\* A tick: a key set that cannot be loaded, or has been taken already, is left for the next.
\* A tick that is due when the process stops may or may not be taken; the command is not run
\* then.
RefreshLoad ==
    /\ phase = "up" \/ (phase # "down" /\ deployment.file)
    /\ External /\ deployment.refreshes
    /\ refresh = None
    /\ loadJWTKeyset # None /\ loadJWTKeyset # fingerprint
    /\ refresh' = loadJWTKeyset
    /\ UNCHANGED <<deployment, process, source, rotations, signer, verifier, fingerprint, tokens,
                   expired, request, guard>>

\* JWTSigner.SetKeyset
RefreshSigner ==
    /\ phase # "down"
    /\ refresh # None /\ signer # refresh
    /\ signer' = refresh
    /\ UNCHANGED <<deployment, process, source, rotations, verifier, fingerprint, refresh, tokens,
                   expired, request, guard>>

\* Faulty variant: the verifier is not told.
RefreshForgotten ==
    /\ phase # "down"
    /\ refresh # None /\ signer = refresh
    /\ fingerprint' = refresh
    /\ refresh' = None
    /\ UNCHANGED <<deployment, process, source, rotations, signer, verifier, tokens, expired,
                   request, guard>>

\* JWTVerifier.SetKeyset, then the new fingerprint
RefreshVerifier ==
    /\ phase # "down"
    /\ refresh # None /\ signer = refresh
    /\ verifier' = refresh
    /\ fingerprint' = refresh
    /\ refresh' = None
    /\ UNCHANGED <<deployment, process, source, rotations, signer, tokens, expired, request, guard>>

\* SignActor
SignActor(actor) == [actor |-> actor, kid |-> signer.active, secret |-> signer.keys[signer.active]]

\* A token's time is up.
Expire(token) ==
    /\ token \in tokens \ expired
    /\ expired' = expired \cup {token}
    /\ UNCHANGED <<deployment, process, source, rotations, keys, tokens, request, guard>>

\* ParseActor succeeds: the key the token names is known and is the one it was signed with.
ParseActor(token) ==
    /\ token # None /\ token \notin expired
    /\ token.kid \in DOMAIN verifier.keys
    /\ verifier.keys[token.kid] = token.secret

-----------------------------------------------------------------------------
(* A call on its way to the service.                                         *)

isTrusted(src) == src \in Trusted

isAdminPath(path) == path[1] \in {"config", "reporting", "audit"}

skipPaths == {<<"system", "status">>, <<"identity", "login">>, <<"identity", "refresh">>}

allowUnauthenticatedMethods ==
    {<<"SystemService", "GetSystemStatus">>, <<"IdentityService", "Login">>,
     <<"IdentityService", "RefreshToken">>}

\* Faulty variant: the whole of the identity service is skipped.
openToAnyone(via, rpc) == rpc[1] = "IdentityService" \/ rpc[2] = "GetSystemStatus"

\* The calls that need no token: skipPaths of the middleware, the interceptor's allow list
open(via, rpc) ==
    IF via = "HTTP" THEN Path(rpc) \in skipPaths ELSE rpc \in allowUnauthenticatedMethods

Answered(c) == request' = [request EXCEPT ![c] = Idle]

At(c, pc) == request[c].pc = pc

\* A call comes in: at a guarded path to logActivity, at any other to the token check.
Arrive(c, via, rpc, src, token, meta) ==
    LET admin == via = "HTTP" /\ isAdminPath(Path(rpc)) IN
    /\ request[c] = Idle
    /\ phase = "up" \/ (phase = "stopping gRPC" /\ via = "HTTP")
    /\ rpc[2] = "Login" => Cardinality(tokens) < deployment.tokens
    /\ admin => nextID + Cardinality(InFlight("HTTP")) < deployment.accesses
    /\ request' = [request EXCEPT ![c] =
           [pc |-> IF admin THEN "log" ELSE "authenticate", via |-> via, rpc |-> rpc,
            trusted |-> admin => isTrusted(src), token |-> token, meta |-> meta,
            row |-> FALSE, event |-> None, actor |-> None]]
    /\ UNCHANGED <<deployment, process, source, rotations, keys, tokens, expired, guard>>

\* Log or audit event written, or not and the process does not insist: on to pc.
Proceed(c, written, pc) ==
    IF ~written /\ deployment.strict THEN Answered(c)
    ELSE request' = [request EXCEPT ![c].pc = pc]

\* An insert that is reported as failed may have been made.
persistActivity(c) ==
    \/ request' = [request EXCEPT ![c] = [@ EXCEPT !.row = TRUE, !.pc = "audit"]]
    \/ Proceed(c, FALSE, "audit")

\* Faulty variant: an error of the insert is not returned.
logActivityUnheeded(c) ==
    LET cached == ~deployment.strict
        full   == cached /\ ~deployment.db /\ deployment.cap > 0 /\ logs >= deployment.cap
    IN
    /\ At(c, "log")
    /\ \E row \in IF deployment.db THEN BOOLEAN ELSE {FALSE} :
          request' = [request EXCEPT ![c] = [@ EXCEPT !.row = row, !.pc = "audit"]]
    /\ logs' = IF cached /\ ~full THEN logs + 1 ELSE logs
    /\ UNCHANGED <<deployment, process, source, rotations, keys, tokens, expired, nextID, events>>

\* logActivity: the log in memory, up to its cap when there is no database, then the row.
logActivity(c) ==
    LET cached == ~deployment.strict
        full   == cached /\ ~deployment.db /\ deployment.cap > 0 /\ logs >= deployment.cap
    IN
    /\ At(c, "log")
    /\ logs' = IF cached /\ ~full THEN logs + 1 ELSE logs
    /\ \/ full /\ Proceed(c, FALSE, "audit")
       \/ ~full /\ ~deployment.db /\ Proceed(c, TRUE, "audit")
       \/ deployment.db /\ persistActivity(c)
    /\ UNCHANGED <<deployment, process, source, rotations, keys, tokens, expired, nextID, events>>

\* appendAudit: a number, the row of audit_events (none if the number is taken, which is not
\* an error), the store in memory.  After it a source outside the trusted networks gets 403.
appendAudit(c) ==
    LET id == nextID + 1
        onward(written) == IF request[c].trusted THEN Proceed(c, written, "authenticate")
                           ELSE Answered(c)
    IN
    /\ At(c, "audit")
    /\ nextID' = id
    /\ \/ /\ deployment.db
          /\ onward(FALSE)
          /\ events' \in {events, events \cup {id}}
       \/ /\ IF request[c].trusted
             THEN LET event == IF deployment.db /\ id \notin events THEN "stored" ELSE "in memory"
                  IN request' = [request EXCEPT ![c] =
                                    [@ EXCEPT !.pc = "authenticate", !.event = event]]
             ELSE Answered(c)
          /\ events' = IF deployment.db THEN events \cup {id} ELSE events
    /\ UNCHANGED <<deployment, process, source, rotations, keys, tokens, expired, logs>>

\* actorTypeFromString
actorTypeFromString(type) ==
    CASE type \in {"ACTOR_TYPE_PLAYER", "PLAYER"}     -> "ACTOR_TYPE_PLAYER"
      [] type \in {"ACTOR_TYPE_OPERATOR", "OPERATOR"} -> "ACTOR_TYPE_OPERATOR"
      [] type \in {"ACTOR_TYPE_SERVICE", "SERVICE"}   -> "ACTOR_TYPE_SERVICE"
      [] OTHER                                        -> "ACTOR_TYPE_UNSPECIFIED"

\* An actor with its type as the protocol has it
Typed(actor) == [id |-> actor.id, type |-> actorTypeFromString(actor.type)]

\* resolveActor with the actor of the token in the context: it, if the request agrees
resolveActor(ctx, meta) ==
    IF Typed(ctx).type = "ACTOR_TYPE_UNSPECIFIED" \/ meta \notin {None, Typed(ctx)} THEN None
    ELSE Typed(ctx)

\* Logout does not call resolveActor: it acts for the actor that the request names, which it
\* compares with the one of the refresh session (Identity!Logout).
namedActor(meta) ==
    IF meta = None THEN None
    ELSE IF Typed(meta).type = "ACTOR_TYPE_UNSPECIFIED" THEN None ELSE Typed(meta)

\* The token is checked where the call needs one; then the service finds out for whom it acts.
authenticate(c, via) ==
    LET r == request[c]
        Serve(actor) ==
            request' = [request EXCEPT ![c] = [@ EXCEPT !.pc = "serve", !.actor = actor]]
    IN
    /\ At(c, "authenticate") /\ r.via = via
    /\ \/ open(r.via, r.rpc) /\ Serve(None)
       \/ /\ ~open(r.via, r.rpc) /\ ParseActor(r.token)
          /\ LET actor == IF r.rpc[2] = "Logout" THEN namedActor(r.meta)
                          ELSE resolveActor(r.token.actor, r.meta)
             IN
             IF actor = None THEN Answered(c) ELSE Serve(actor)
       \/ ~open(r.via, r.rpc) /\ ~ParseActor(r.token) /\ Answered(c)
    /\ UNCHANGED <<deployment, process, source, rotations, keys, tokens, expired, guard>>

HTTPJWTMiddlewareWithSkips(c) == authenticate(c, "HTTP")

UnaryJWTInterceptor(c) == authenticate(c, "gRPC")

\* With a database a call that moves money, once it saves its answer, waits for the mutex it
\* holds (LedgerDB!CallsReturn), and every later call of the service waits behind it.
Hangs(c) ==
    /\ deployment.db /\ request[c].rpc[1] = "LedgerService"
    /\ \/ request[c].rpc[2] \in {"Deposit", "Withdraw", "TransferToDevice", "TransferToAccount"}
       \/ \E d \in Clients : At(d, "hung")

\* The service answers, or never does; a Login, or a RefreshToken, that succeeds signs a token.
serve(c) ==
    /\ At(c, "serve")
    /\ \/ /\ Hangs(c)
          /\ request' = [request EXCEPT ![c].pc = "hung"]
          /\ UNCHANGED <<tokens, expired>>
       \/ Answered(c) /\ UNCHANGED <<tokens, expired>>
       \/ /\ Answered(c)
          /\ request[c].rpc[2] \in {"Login", "RefreshToken"}
          /\ \E actor \in Actors :
                /\ tokens' = tokens \cup {SignActor(actor)}
                /\ expired' = expired \ {SignActor(actor)}
                /\ Cardinality(tokens') <= deployment.tokens
    /\ UNCHANGED <<deployment, process, source, rotations, keys, guard>>

\* A client watches the health service, until it leaves.
Watch(c) ==
    /\ deployment.watch /\ phase = "up" /\ request[c] = Idle
    /\ request' = [request EXCEPT ![c] = Watching]
    /\ UNCHANGED <<deployment, process, source, rotations, keys, tokens, expired, guard>>

Leave(c) ==
    /\ request[c] = Watching
    /\ Answered(c)
    /\ UNCHANGED <<deployment, process, source, rotations, keys, tokens, expired, guard>>

-----------------------------------------------------------------------------

Init ==
    /\ deployment \in Deployments
    /\ phase = "down" /\ starts = 0
    /\ source \in deployment.contents /\ rotations = 0
    /\ signer = None /\ verifier = None /\ fingerprint = None /\ refresh = None
    /\ tokens = {} /\ expired = {}
    /\ request = [c \in Clients |-> Idle]
    /\ logs = 0 /\ nextID = 0 /\ events = {}

\* What the process does by itself
Step(c)   == \/ logActivity(c) \/ appendAudit(c)
             \/ HTTPJWTMiddlewareWithSkips(c) \/ UnaryJWTInterceptor(c) \/ serve(c)

Next ==
    \/ Start \/ Stop \/ Crash
    \/ RefreshLoad \/ RefreshSigner \/ RefreshVerifier
    \/ \E content \in deployment.contents : Rotate(content)
    \/ \E token \in tokens : Expire(token)
    \/ \E c \in deployment.clients :
          \/ Step(c) \/ Watch(c) \/ Leave(c)
          \/ \E via \in {"HTTP", "gRPC"}, rpc \in deployment.rpcs, src \in Sources :
                IF open(via, rpc) THEN Arrive(c, via, rpc, src, None, None)
                ELSE \E token \in tokens \cup {None}, meta \in Actors \cup {None} :
                         Arrive(c, via, rpc, src, token, meta)

\* A handler that does not hang runs on, the ticker ticks and a file is read, a key set that
\* was loaded is installed, and a shutdown that has begun goes on.  Nothing makes a client
\* leave, and nothing ends a command that prints the key set: it runs without a timeout.
Fairness ==
    /\ \A c \in Clients : WF_vars(Step(c))
    /\ WF_vars(phase = "up" /\ deployment.file /\ RefreshLoad)
    /\ WF_vars(phase = "up" /\ (RefreshSigner \/ RefreshVerifier))
    /\ WF_vars(phase # "up" /\ Stop)

Spec == Init /\ [][Next]_vars /\ Fairness

-----------------------------------------------------------------------------
(* Properties.                                                               *)

AdminServices == {"ConfigService", "ReportingService", "AuditService"}

\* Types of the process, the key sets, the tokens, the calls in progress and the guard's log.
TypeOK ==
    /\ deployment \in Deployments
    /\ phase \in {"down", "up", "stopping gRPC", "stopping HTTP"} /\ starts \in 0..deployment.starts
    /\ source \in deployment.contents /\ rotations \in 0..deployment.rotations
    /\ phase # "down" => \A k \in {signer, verifier} : k # None /\ k.active \in DOMAIN k.keys
    /\ expired \subseteq tokens /\ Cardinality(tokens) <= deployment.tokens
    /\ \A c \in Clients :
          request[c].pc \in {"idle", "log", "audit", "authenticate", "serve", "hung", "watch"}
    /\ logs \in Nat /\ nextID \in Nat /\ events \subseteq Nat

\* An administrative call over HTTP that is being served has a source inside the trusted
\* networks, as extractSourceIP tells it, X-Forwarded-For included, and in strict production
\* mode its activity row is stored and so is its audit event, whatever failed on the way,
\* unless an earlier process used the event's number: the numbers start again with the
\* process and an event whose number is taken is dropped without an error.
\* Without strict mode and without a database the log never outgrows its cap.
AdminAccessIsRecorded ==
    /\ \A c \in Clients :
          LET r == request[c] IN
          /\ r # Idle
          /\ r.pc = "serve" /\ r.via = "HTTP" /\ r.rpc[1] \in AdminServices
          => /\ r.trusted
             /\ deployment.strict => r.row /\ r.event # None
             /\ deployment.strict /\ starts = 1 => r.event = "stored"
    /\ ~deployment.strict /\ ~deployment.db /\ deployment.cap > 0 => logs <= deployment.cap

\* A call that is being served acts for the actor its token was signed for, over either
\* transport and whatever actor the request names; only logging in, refreshing and the
\* system status are served without a token.  Logout needs a token, but acts for the actor
\* the request names, of the token's or not.
ActorsComeFromTokens ==
    \A c \in Clients :
        LET r == request[c] IN
        r # Idle /\ r.pc = "serve" =>
            \/ /\ r.rpc[2] \in {"Login", "RefreshToken", "GetSystemStatus"}
               /\ r.actor = None
            \/ /\ r.token \in tokens
               /\ IF r.rpc[2] = "Logout" THEN r.meta # None /\ r.actor.id = r.meta.id
                  ELSE r.actor.id = r.token.actor.id /\ r.meta \in {None, r.actor}

\* A token is refused before its time only if its key is gone: one that was signed with a
\* key the signer still holds is accepted, except between the two halves of a reload, when
\* the signer has the new key set and the verifier has not.
SignedIsAccepted ==
    phase # "down" =>
        \A t \in tokens \ expired :
            /\ t.kid \in DOMAIN signer.keys
            /\ signer.keys[t.kid] = t.secret
            => ParseActor(t) \/ refresh = signer

\* While the process is up, refreshes its key set and can load the file, which changes
\* finitely often, signer and verifier come to hold the key set of the file, however often it
\* changed or could not be loaded before.  Of a command nothing can be said: one that does
\* not end stops the refresh loop.
KeysetConverges ==
    LET current == phase = "up" /\ deployment.file /\ deployment.refreshes /\ loadJWTKeyset # None
    IN  current ~> (current => signer = loadJWTKeyset /\ verifier = loadJWTKeyset)

\* A gRPC call that GracefulStop may wait for without end: one that hangs, or a stream whose
\* client stays
Held == \E c \in InFlight("gRPC") : request[c].pc \in {"hung", "watch"}

\* A process that has been told to stop stops, calls in progress or not, if no gRPC call is
\* held: no HTTP request, one that hangs included, keeps it, nor does a gRPC call that
\* returns, nor the refresh loop.
StopCompletes == []<>(phase \in {"up", "down"} \/ Held)

=============================================================================
