---------------------------- MODULE AccessProofs ----------------------------
(***************************************************************************)
(* What holds of Access for every set of clients, actors, key set contents *)
(* and deployments.                                                        *)
(***************************************************************************)
EXTENDS Access, FiniteSetTheorems, TLAPS

-----------------------------------------------------------------------------
(* The inductive invariant.                                                  *)

\* A key set that was loaded: it holds its active key.
Keyset(k) ==
    /\ k.active \in DOMAIN k.keys
    /\ DOMAIN k.keys \subseteq Names
    /\ k.keys[k.active] \in Secrets

\* The actors calls act for
Resolved == {Typed(a) : a \in Actors}

Call ==
    [pc : {"log", "audit", "authenticate", "serve", "hung"}, via : {"HTTP", "gRPC"}, rpc : RPCs,
     trusted : BOOLEAN, token : Token \cup {None}, meta : Actors \cup {None}, row : BOOLEAN,
     event : {None, "stored", "in memory"}, actor : Resolved \cup {None}]

Admin(r) == r.via = "HTTP" /\ isAdminPath(Path(r.rpc))

\* What the guard has done for a call r, by the place it has reached, in the process of the
\* deployment d that was started as the n-th
Recorded(r, d, n) ==
    /\ r.pc = "audit" => (d.strict => r.row)
    /\ r.pc \in {"authenticate", "serve"} =>
          /\ r.trusted
          /\ d.strict => r.row /\ r.event # None
          /\ d.strict /\ n = 1 => r.event = "stored"

\* Whom a call acts for, when ts are the tokens issued
Acting(r, ts) ==
    r.pc = "serve" =>
        \/ r.rpc[2] \in {"Login", "RefreshToken", "GetSystemStatus"} /\ r.actor = None
        \/ /\ r.token \in ts
           /\ IF r.rpc[2] = "Logout" THEN r.meta # None /\ r.actor.id = r.meta.id
              ELSE r.actor.id = r.token.actor.id /\ r.meta \in {None, r.actor}

Sound(r, d, n, ts) ==
    \/ r \in {Idle, Watching}
    \/ /\ r \in Call
       /\ r.token \in ts \cup {None}
       /\ Admin(r) => Recorded(r, d, n)
       /\ Acting(r, ts)

\* The process and its bounds
ProcessOK ==
    /\ deployment \in Deployments
    /\ phase \in {"down", "up", "stopping gRPC", "stopping HTTP"}
    /\ starts \in 0..deployment.starts
    /\ source \in deployment.contents
    /\ rotations \in 0..deployment.rotations
    /\ phase # "down" => starts > 0
    /\ starts > 0 => validateProductionRuntime(deployment)

\* The signer is ahead of the verifier only by the key set the refresh loop is installing.
KeysOK ==
    phase # "down" =>
        /\ signer # None /\ Keyset(signer)
        /\ verifier # None /\ Keyset(verifier)
        /\ refresh # None => Keyset(refresh)
        /\ signer = verifier \/ (refresh # None /\ signer = refresh)

TokensOK ==
    /\ tokens \subseteq Token
    /\ expired \subseteq tokens
    /\ Cardinality(tokens) <= deployment.tokens

CallsOK ==
    /\ DOMAIN request = Clients
    /\ \A c \in Clients : Sound(request[c], deployment, starts, tokens)
    /\ phase = "down" => \A c \in Clients : request[c] = Idle

\* In the first process no number is taken that was not given.
GuardOK ==
    /\ logs \in Nat /\ nextID \in Nat /\ events \subseteq Nat
    /\ starts = 0 => events = {}
    /\ starts = 1 => \A id \in events : id <= nextID
    /\ ~deployment.strict /\ ~deployment.db /\ deployment.cap > 0 => logs <= deployment.cap

AccessInv == ProcessOK /\ KeysOK /\ TokensOK /\ CallsOK /\ GuardOK

-----------------------------------------------------------------------------
(* The routes.                                                               *)

\* Every method has the name of its service first.
LEMMA Methods == \A rpc \in RPCs : /\ rpc[1] \in DOMAIN Services
                                   /\ rpc[2] \in Services[rpc[1]]
<1> SUFFICES ASSUME NEW rpc \in RPCs
             PROVE  rpc[1] \in DOMAIN Services /\ rpc[2] \in Services[rpc[1]]
  BY Zenon
<1>1. PICK s \in DOMAIN Services : rpc \in {<<s, m>> : m \in Services[s]}
  BY Zenon DEF RPCs
<1>2. PICK m \in Services[s] : rpc = <<s, m>>
  BY Zenon, <1>1
<1> QED
  BY Zenon, <1>2

\* The methods of the three administrative services are all served under a guarded path.
LEMMA AdminPaths == \A rpc \in RPCs : rpc[1] \in AdminServices => isAdminPath(Path(rpc))
<1> SUFFICES ASSUME NEW rpc \in RPCs, rpc[1] \in AdminServices
             PROVE  isAdminPath(Path(rpc))
  BY Zenon
<1>1. rpc[2] \in Services[rpc[1]]
  BY Zenon, Methods
<1>2. CASE rpc[1] = "ConfigService"
  <2>1. rpc[2] \in ConfigService /\ Path(rpc) = ConfigRoutes[rpc[2]]
    <3>1. Services["ConfigService"] = ConfigService
      BY Zenon DEF Services
    <3>2. Gateway["ConfigService"] = ConfigRoutes
      BY Zenon DEF Gateway
    <3> QED
      BY Zenon, <1>1, <1>2, <3>1, <3>2 DEF Path
  <2>2. \A m \in ConfigService : ConfigRoutes[m][1] = "config"
    BY DEF ConfigService, ConfigRoutes
  <2> QED
    BY Zenon, <2>1, <2>2 DEF isAdminPath
<1>3. CASE rpc[1] = "ReportingService"
  <2>1. rpc[2] \in ReportingService /\ Path(rpc) = ReportingRoutes[rpc[2]]
    <3>1. Services["ReportingService"] = ReportingService
      BY Zenon DEF Services
    <3>2. Gateway["ReportingService"] = ReportingRoutes
      BY Zenon DEF Gateway
    <3> QED
      BY Zenon, <1>1, <1>3, <3>1, <3>2 DEF Path
  <2>2. \A m \in ReportingService : ReportingRoutes[m][1] = "reporting"
    BY DEF ReportingService, ReportingRoutes
  <2> QED
    BY Zenon, <2>1, <2>2 DEF isAdminPath
<1>4. CASE rpc[1] = "AuditService"
  <2>1. rpc[2] \in AuditService /\ Path(rpc) = AuditRoutes[rpc[2]]
    <3>1. Services["AuditService"] = AuditService
      BY Zenon DEF Services
    <3>2. Gateway["AuditService"] = AuditRoutes
      BY Zenon DEF Gateway
    <3> QED
      BY Zenon, <1>1, <1>4, <3>1, <3>2 DEF Path
  <2>2. \A m \in AuditService : AuditRoutes[m][1] = "audit"
    BY DEF AuditService, AuditRoutes
  <2> QED
    BY Zenon, <2>1, <2>2 DEF isAdminPath
<1> QED
  BY Zenon, <1>2, <1>3, <1>4 DEF AdminServices

\* A path that needs no token is one of these methods' path.
LEMMA OpenPaths == \A rpc \in RPCs :
                       Path(rpc) \in skipPaths => rpc[2] \in {"Login", "RefreshToken", "GetSystemStatus"}
<1> SUFFICES ASSUME NEW rpc \in RPCs, Path(rpc) \in skipPaths
             PROVE  rpc[2] \in {"Login", "RefreshToken", "GetSystemStatus"}
  BY Zenon
<1>1. rpc[1] \in DOMAIN Services /\ rpc[2] \in Services[rpc[1]]
  BY Zenon, Methods
<1>2. Path(rpc)[1] \in {"system", "identity"}
  BY DEF skipPaths
<1>3. CASE rpc[1] = "SystemService"
  BY <1>1, <1>3 DEF Services, SystemService
<1>4. CASE rpc[1] = "IdentityService"
  <2>1. rpc[2] \in IdentityService /\ Path(rpc) = IdentityRoutes[rpc[2]]
    <3>1. Services["IdentityService"] = IdentityService
      BY Zenon DEF Services
    <3>2. Gateway["IdentityService"] = IdentityRoutes
      BY Zenon DEF Gateway
    <3> QED
      BY Zenon, <1>1, <1>4, <3>1, <3>2 DEF Path
  <2>2. \A m \in IdentityService \ {"Login", "RefreshToken"} :
            IdentityRoutes[m][2] \notin {"status", "login", "refresh"}
    BY DEF IdentityService, IdentityRoutes
  <2>3. Path(rpc)[2] \in {"status", "login", "refresh"}
    BY DEF skipPaths
  <2> QED
    BY Zenon, <2>1, <2>2, <2>3
<1>5. CASE rpc[1] = "LedgerService"
  <2>1. rpc[2] \in LedgerService /\ Path(rpc) = LedgerRoutes[rpc[2]]
    <3>1. Services["LedgerService"] = LedgerService
      BY Zenon DEF Services
    <3>2. Gateway["LedgerService"] = LedgerRoutes
      BY Zenon DEF Gateway
    <3> QED
      BY Zenon, <1>1, <1>5, <3>1, <3>2 DEF Path
  <2>2. \A m \in LedgerService : LedgerRoutes[m][1] = "ledger"
    BY DEF LedgerService, LedgerRoutes
  <2> QED
    BY Zenon, <1>2, <2>1, <2>2
<1>6. CASE rpc[1] = "WageringService"
  <2>1. rpc[2] \in WageringService /\ Path(rpc) = WageringRoutes[rpc[2]]
    <3>1. Services["WageringService"] = WageringService
      BY Zenon DEF Services
    <3>2. Gateway["WageringService"] = WageringRoutes
      BY Zenon DEF Gateway
    <3> QED
      BY Zenon, <1>1, <1>6, <3>1, <3>2 DEF Path
  <2>2. \A m \in WageringService : WageringRoutes[m][1] = "wagering"
    BY DEF WageringService, WageringRoutes
  <2> QED
    BY Zenon, <1>2, <2>1, <2>2
<1>7. CASE rpc[1] = "RegistryService"
  <2>1. rpc[2] \in RegistryService /\ Path(rpc) = RegistryRoutes[rpc[2]]
    <3>1. Services["RegistryService"] = RegistryService
      BY Zenon DEF Services
    <3>2. Gateway["RegistryService"] = RegistryRoutes
      BY Zenon DEF Gateway
    <3> QED
      BY Zenon, <1>1, <1>7, <3>1, <3>2 DEF Path
  <2>2. \A m \in RegistryService : RegistryRoutes[m][1] = "registry"
    BY DEF RegistryService, RegistryRoutes
  <2> QED
    BY Zenon, <1>2, <2>1, <2>2
<1>8. CASE rpc[1] = "EventsService"
  <2>1. rpc[2] \in EventsService /\ Path(rpc) = EventsRoutes[rpc[2]]
    <3>1. Services["EventsService"] = EventsService
      BY Zenon DEF Services
    <3>2. Gateway["EventsService"] = EventsRoutes
      BY Zenon DEF Gateway
    <3> QED
      BY Zenon, <1>1, <1>8, <3>1, <3>2 DEF Path
  <2>2. \A m \in EventsService : EventsRoutes[m][1] = "events"
    BY DEF EventsService, EventsRoutes
  <2> QED
    BY Zenon, <1>2, <2>1, <2>2
<1>9. CASE rpc[1] = "PromotionsService"
  <2>1. rpc[2] \in PromotionsService /\ Path(rpc) = PromotionsRoutes[rpc[2]]
    <3>1. Services["PromotionsService"] = PromotionsService
      BY Zenon DEF Services
    <3>2. Gateway["PromotionsService"] = PromotionsRoutes
      BY Zenon DEF Gateway
    <3> QED
      BY Zenon, <1>1, <1>9, <3>1, <3>2 DEF Path
  <2>2. \A m \in PromotionsService : PromotionsRoutes[m][1] = "promotions"
    BY DEF PromotionsService, PromotionsRoutes
  <2> QED
    BY Zenon, <1>2, <2>1, <2>2
<1>10. CASE rpc[1] = "UISystemOverlayService"
  <2>1. rpc[2] \in UISystemOverlayService /\ Path(rpc) = UISystemOverlayRoutes[rpc[2]]
    <3>1. Services["UISystemOverlayService"] = UISystemOverlayService
      BY Zenon DEF Services
    <3>2. Gateway["UISystemOverlayService"] = UISystemOverlayRoutes
      BY Zenon DEF Gateway
    <3> QED
      BY Zenon, <1>1, <1>10, <3>1, <3>2 DEF Path
  <2>2. \A m \in UISystemOverlayService : UISystemOverlayRoutes[m][1] = "ui"
    BY DEF UISystemOverlayService, UISystemOverlayRoutes
  <2> QED
    BY Zenon, <1>2, <2>1, <2>2
<1>11. CASE rpc[1] = "SessionsService"
  <2>1. rpc[2] \in SessionsService /\ Path(rpc) = SessionsRoutes[rpc[2]]
    <3>1. Services["SessionsService"] = SessionsService
      BY Zenon DEF Services
    <3>2. Gateway["SessionsService"] = SessionsRoutes
      BY Zenon DEF Gateway
    <3> QED
      BY Zenon, <1>1, <1>11, <3>1, <3>2 DEF Path
  <2>2. \A m \in SessionsService : SessionsRoutes[m][1] = "sessions"
    BY DEF SessionsService, SessionsRoutes
  <2> QED
    BY Zenon, <1>2, <2>1, <2>2
<1>12. CASE rpc[1] \in AdminServices
  <2>1. Path(rpc)[1] \in {"config", "reporting", "audit"}
    BY Zenon, <1>12, AdminPaths DEF isAdminPath
  <2> QED
    BY Zenon, <1>2, <2>1
<1> QED
  BY Zenon, <1>1, <1>3, <1>4, <1>5, <1>6, <1>7, <1>8, <1>9, <1>10, <1>11, <1>12 DEF Services, AdminServices

\* Only logging in, refreshing and the system status need no token, over either transport.
LEMMA OpenMethods == \A via, rpc : rpc \in RPCs /\ open(via, rpc) =>
                         rpc[2] \in {"Login", "RefreshToken", "GetSystemStatus"}
  BY OpenPaths DEF open, allowUnauthenticatedMethods

-----------------------------------------------------------------------------
(* The process, its key sets and its tokens.                                 *)

\* What the bounds of a deployment are
LEMMA DeploymentType ==
    ASSUME deployment \in Deployments
    PROVE  /\ deployment \in Deployment
           /\ deployment.contents \subseteq Contents
           /\ deployment.clients \subseteq Clients
           /\ deployment.rpcs \subseteq RPCs
           /\ deployment.strict \in BOOLEAN /\ deployment.db \in BOOLEAN
           /\ deployment.cap \in Nat /\ deployment.tokens \in Nat
           /\ deployment.starts \in Nat /\ deployment.rotations \in Nat
<1>1. deployment \in Deployment
  BY Zenon, ConstantsAssumption
<1> QED
  BY Zenon, <1>1 DEF Deployment

\* A key set that loads holds its active key: both loaders refuse any other.
LEMMA LoadedIsKeyset ==
    ASSUME source \in Contents, loadJWTKeyset # None
    PROVE  Keyset(loadJWTKeyset)
<1>1. source # Unreadable
  BY Zenon DEF loadJWTKeyset, LoadHMACKeysetJSON, ParseHMACKeyset
<1> DEFINE active == IF source.active = Blank THEN "default" ELSE source.active
           kept   == {k \in DOMAIN source.keys : k # Blank /\ source.keys[k] # Blank}
<1>2. active \in Names /\ "secret" \in Secrets
  BY <1>1 DEF Names, Secrets
<1>3. DOMAIN source.keys \subseteq Names
  BY <1>1 DEF Names
<1>4. \A k \in DOMAIN source.keys : source.keys[k] \in Secrets
  BY <1>1 DEF Secrets
<1>5. CASE External
  <2>1. active \in kept /\ loadJWTKeyset = [active |-> active, keys |-> Restrict(source.keys, kept)]
    BY Zenon, <1>1, <1>5 DEF loadJWTKeyset, LoadHMACKeysetJSON
  <2>2. /\ DOMAIN Restrict(source.keys, kept) = kept
        /\ Restrict(source.keys, kept)[active] = source.keys[active]
    BY Zenon, <2>1 DEF Restrict
  <2>3. kept \subseteq DOMAIN source.keys
    BY Zenon
  <2> HIDE DEF active, kept
  <2> QED
    BY Zenon, <1>3, <1>4, <2>1, <2>2, <2>3 DEF Keyset
<1>6. CASE ~External /\ ~deployment.spec
  <2>1. loadJWTKeyset = [active |-> active, keys |-> [k \in {active} |-> "secret"]]
    BY Zenon, <1>1, <1>6 DEF loadJWTKeyset, ParseHMACKeyset
  <2> HIDE DEF active
  <2> QED
    BY Zenon, <1>2, <2>1 DEF Keyset
<1>7. CASE ~External /\ deployment.spec
  <2>1. active \in DOMAIN source.keys /\ loadJWTKeyset = [active |-> active, keys |-> source.keys]
    BY Zenon, <1>1, <1>7 DEF loadJWTKeyset, ParseHMACKeyset
  <2> HIDE DEF active
  <2> QED
    BY Zenon, <1>3, <1>4, <2>1 DEF Keyset
<1> QED
  BY Zenon, <1>5, <1>6, <1>7

\* What the signer signs is a token.
LEMMA SignedIsToken ==
    ASSUME Keyset(signer), NEW actor \in Actors
    PROVE  SignActor(actor) \in Token
  BY Zenon DEF Keyset, SignActor, Token

\* A step of the call of client c
Calling(c) ==
    \/ Step(c) \/ Watch(c) \/ Leave(c)
    \/ \E via \in {"HTTP", "gRPC"}, rpc \in deployment.rpcs, src \in Sources :
          IF open(via, rpc) THEN Arrive(c, via, rpc, src, None, None)
          ELSE \E token \in tokens \cup {None}, meta \in Actors \cup {None} :
                   Arrive(c, via, rpc, src, token, meta)

\* The steps there are
LEMMA NextCases ==
    ASSUME ProcessOK, [Next]_vars
    PROVE  \/ Start \/ Stop \/ Crash \/ RefreshLoad \/ RefreshSigner \/ RefreshVerifier
           \/ \E content \in deployment.contents : Rotate(content)
           \/ \E token \in tokens : Expire(token)
           \/ \E c \in Clients : Calling(c)
           \/ UNCHANGED vars
<1>1. CASE Next
  <2>1. deployment.clients \subseteq Clients
    BY Zenon, DeploymentType DEF ProcessOK
  <2> QED
    BY Zenon, <1>1, <2>1 DEF Next, Calling
<1> QED
  BY Zenon, <1>1

\* A step of a call concerns the calls, the tokens and the guard.
LEMMA CallingFrame ==
    ASSUME NEW c \in Clients, Calling(c)
    PROVE  UNCHANGED <<deployment, phase, starts, source, rotations, signer, verifier, fingerprint,
                       refresh>>
<1> DEFINE Frame == UNCHANGED <<deployment, process, source, rotations, keys>>
<1>1. logActivity(c) \/ appendAudit(c) => Frame
  BY Zenon DEF logActivity, appendAudit
<1>2. \A via : authenticate(c, via) => Frame
  BY Zenon DEF authenticate
<1>3. serve(c) => Frame
  BY Zenon DEF serve
<1>4. \A via, rpc, src, token, meta : Arrive(c, via, rpc, src, token, meta) => Frame
  BY Zenon DEF Arrive
<1>5. CASE Step(c) \/ Watch(c) \/ Leave(c)
  <2>1. Watch(c) \/ Leave(c) => Frame
    BY Zenon DEF Watch, Leave
  <2>2. Frame
    BY Zenon, <1>1, <1>2, <1>3, <1>5, <2>1
       DEF Step, HTTPJWTMiddlewareWithSkips, UnaryJWTInterceptor
  <2> QED
    BY Zenon, <2>2 DEF process, keys
<1>6. CASE ~(Step(c) \/ Watch(c) \/ Leave(c))
  <2>1. PICK via \in {"HTTP", "gRPC"}, rpc \in deployment.rpcs, src \in Sources :
            IF open(via, rpc) THEN Arrive(c, via, rpc, src, None, None)
            ELSE \E token \in tokens \cup {None}, meta \in Actors \cup {None} :
                     Arrive(c, via, rpc, src, token, meta)
    BY Zenon, <1>6 DEF Calling
  <2>2. PICK token, meta : Arrive(c, via, rpc, src, token, meta)
    BY Zenon, <2>1
  <2>3. Frame
    BY Zenon, <1>4, <2>2
  <2> QED
    BY Zenon, <2>3 DEF process, keys
<1> QED
  BY Zenon, <1>5, <1>6

\* The process stays within its configuration.
LEMMA ProcessStep ==
    ASSUME ProcessOK, [Next]_vars
    PROVE  ProcessOK'
<1> USE DEF ProcessOK, process, keys, guard
<1>0. /\ deployment.starts \in Nat /\ deployment.rotations \in Nat
      /\ deployment.contents \subseteq Contents
  BY Zenon, DeploymentType
<1>1. CASE Start
  BY <1>0, <1>1 DEF Start, validateProductionRuntime
<1>2. CASE Stop
  BY Zenon, <1>0, <1>2 DEF Stop, validateProductionRuntime
<1>3. CASE Crash
  BY Zenon, <1>0, <1>3 DEF Crash, validateProductionRuntime
<1>4. CASE RefreshLoad \/ RefreshSigner \/ RefreshVerifier
  BY Zenon, <1>4 DEF RefreshLoad, RefreshSigner, RefreshVerifier, validateProductionRuntime
<1>5. ASSUME NEW content \in deployment.contents, Rotate(content)
      PROVE  ProcessOK'
  <2> HIDE DEF ProcessOK
  <2>1. /\ UNCHANGED <<deployment, phase, starts>> /\ source' = content
        /\ rotations < deployment.rotations /\ rotations' = rotations + 1
    BY Zenon, <1>5 DEF Rotate
  <2>2. rotations \in 0..deployment.rotations
    BY Zenon DEF ProcessOK
  <2>3. rotations' \in 0..deployment.rotations'
    BY <1>0, <2>1, <2>2
  <2> QED
    BY Zenon, <2>1, <2>3 DEF ProcessOK, validateProductionRuntime
<1>6. ASSUME NEW token \in tokens, Expire(token)
      PROVE  ProcessOK'
  BY Zenon, <1>6 DEF Expire, validateProductionRuntime
<1>7. ASSUME NEW c \in Clients, Calling(c)
      PROVE  ProcessOK'
  BY Zenon, <1>7, CallingFrame DEF validateProductionRuntime
<1>8. CASE UNCHANGED vars
  BY Zenon, <1>8 DEF vars, validateProductionRuntime
<1> QED
  BY Zenon, <1>1, <1>2, <1>3, <1>4, <1>5, <1>6, <1>7, <1>8, NextCases

\* The key sets stay in step with the refresh loop.
LEMMA KeysStep ==
    ASSUME ProcessOK, KeysOK, [Next]_vars
    PROVE  KeysOK'
<1> USE DEF KeysOK
<1>1. CASE Start
  <2>1. Keyset(loadJWTKeyset) /\ loadJWTKeyset # None
    BY Zenon, <1>1, DeploymentType, LoadedIsKeyset DEF Start, ProcessOK
  <2>2. signer' = loadJWTKeyset /\ verifier' = loadJWTKeyset /\ refresh' = None
    BY Zenon, <1>1 DEF Start
  <2> HIDE DEF KeysOK
  <2>3. Keyset(signer') /\ Keyset(verifier')
    BY Zenon, <2>1, <2>2
  <2> QED
    BY Zenon, <2>1, <2>2, <2>3 DEF KeysOK, Keyset
<1>2. CASE Stop
  BY Zenon, <1>2 DEF Stop, keys, Keyset
<1>3. CASE Crash
  BY Zenon, <1>3 DEF Crash
<1>4. CASE RefreshLoad
  <2>1. Keyset(loadJWTKeyset) /\ loadJWTKeyset # None
    BY Zenon, <1>4, DeploymentType, LoadedIsKeyset DEF RefreshLoad, ProcessOK
  <2>2. refresh' = loadJWTKeyset /\ UNCHANGED <<phase, signer, verifier>> /\ refresh = None
    BY Zenon, <1>4 DEF RefreshLoad, process
  <2>3. Keyset(refresh')
    BY Zenon, <2>1, <2>2
  <2> QED
    BY Zenon, <2>2, <2>3 DEF Keyset
<1>5. CASE RefreshSigner
  BY Zenon, <1>5 DEF RefreshSigner, process, Keyset
<1>6. CASE RefreshVerifier
  BY Zenon, <1>6 DEF RefreshVerifier, process, Keyset
<1>7. ASSUME NEW content \in deployment.contents, Rotate(content)
      PROVE  KeysOK'
  BY Zenon, <1>7 DEF Rotate, process, keys, Keyset
<1>8. ASSUME NEW token \in tokens, Expire(token)
      PROVE  KeysOK'
  BY Zenon, <1>8 DEF Expire, process, keys, Keyset
<1>9. ASSUME NEW c \in Clients, Calling(c)
      PROVE  KeysOK'
  BY Zenon, <1>9, CallingFrame DEF Keyset
<1>10. CASE UNCHANGED vars
  BY Zenon, <1>10 DEF vars, process, keys, Keyset
<1> QED
  BY Zenon, <1>1, <1>2, <1>3, <1>4, <1>5, <1>6, <1>7, <1>8, <1>9, <1>10, NextCases

\* Tokens are signed within their bound, and only tokens that were signed expire.
LEMMA TokensStep ==
    ASSUME ProcessOK, KeysOK, CallsOK, TokensOK, [Next]_vars
    PROVE  TokensOK' /\ tokens \subseteq tokens'
<1> DEFINE Same == UNCHANGED <<deployment, tokens, expired>>
<1>0. Same => TokensOK' /\ tokens \subseteq tokens'
  BY Zenon DEF TokensOK
<1>1. CASE Start \/ Stop \/ Crash \/ RefreshLoad \/ RefreshSigner \/ RefreshVerifier
  BY Zenon, <1>0, <1>1 DEF Start, Stop, Crash, RefreshLoad, RefreshSigner, RefreshVerifier
<1>2. ASSUME NEW content \in deployment.contents, Rotate(content)
      PROVE  Same
  BY Zenon, <1>2 DEF Rotate
<1>3. ASSUME NEW token \in tokens, Expire(token)
      PROVE  TokensOK' /\ tokens \subseteq tokens'
  BY Zenon, <1>3 DEF Expire, TokensOK
<1>4. ASSUME NEW c \in Clients, Calling(c)
      PROVE  TokensOK' /\ tokens \subseteq tokens'
  <2>1. CASE Same
    BY Zenon, <1>0, <2>1
  <2>2. CASE ~Same
    <3>1. serve(c)
      <4>1. logActivity(c) \/ appendAudit(c) => Same
        BY Zenon DEF logActivity, appendAudit
      <4>2. \A via : authenticate(c, via) => Same
        BY Zenon DEF authenticate
      <4>3. \A via, rpc, src, token, meta : Arrive(c, via, rpc, src, token, meta) => Same
        BY Zenon DEF Arrive
      <4>4. Watch(c) \/ Leave(c) => Same
        BY Zenon DEF Watch, Leave
      <4> HIDE DEF Same
      <4> QED
        BY Zenon, <1>4, <2>2, <4>1, <4>2, <4>3, <4>4
           DEF Calling, Step, HTTPJWTMiddlewareWithSkips, UnaryJWTInterceptor
    <3>2. PICK actor \in Actors :
              /\ tokens' = tokens \cup {SignActor(actor)}
              /\ expired' = expired \ {SignActor(actor)}
              /\ Cardinality(tokens') <= deployment.tokens
      BY Zenon, <2>2, <3>1 DEF serve
    <3>3. phase # "down"
      BY <1>4, <3>1 DEF CallsOK, serve, At, Idle
    <3>4. SignActor(actor) \in Token
      BY Zenon, <3>3, SignedIsToken DEF KeysOK
    <3>5. deployment' = deployment
      BY Zenon, <3>1 DEF serve
    <3> QED
      BY Zenon, <3>2, <3>4, <3>5 DEF TokensOK
  <2> QED
    BY Zenon, <2>1, <2>2
<1>5. UNCHANGED vars => Same
  BY Zenon DEF vars
<1> QED
  BY Zenon, <1>0, <1>1, <1>2, <1>3, <1>4, <1>5, NextCases

-----------------------------------------------------------------------------
(* The calls.                                                                *)

\* A call stays sound in the same process as tokens are issued.
LEMMA SoundKept ==
    ASSUME NEW r, NEW d, NEW n, NEW ts, NEW us, ts \subseteq us, Sound(r, d, n, ts)
    PROVE  Sound(r, d, n, us)
<1>1. Acting(r, ts) => Acting(r, us)
  BY Zenon DEF Acting
<1> QED
  BY Zenon, <1>1 DEF Sound

\* A step that moves the call of c to r
Moves(c, r) == request' = [request EXCEPT ![c] = r]

\* The calls stay sound when one of them moves to a sound place.
LEMMA CallsMove ==
    ASSUME CallsOK, NEW c \in Clients, NEW r, Moves(c, r), phase # "down",
           UNCHANGED <<deployment, phase, starts>>, tokens \subseteq tokens',
           Sound(r, deployment, starts, tokens)
    PROVE  CallsOK'
<1>1. DOMAIN request = Clients /\ DOMAIN request' = Clients
  BY Zenon DEF CallsOK, Moves
<1>2. ASSUME NEW b \in Clients
      PROVE  Sound(request[b], deployment, starts, tokens)'
  <2>1. request'[b] = IF b = c THEN r ELSE request[b]
    BY Zenon, <1>1 DEF Moves
  <2>2. Sound(request[b], deployment, starts, tokens)
    BY Zenon DEF CallsOK
  <2>3. Sound(request'[b], deployment, starts, tokens)
    BY Zenon, <2>1, <2>2
  <2>4. Sound(request'[b], deployment, starts, tokens')
    BY Zenon, <2>3, SoundKept
  <2> QED
    BY Zenon, <2>4
<1> QED
  BY Zenon, <1>1, <1>2 DEF CallsOK

\* A call in progress is one of the record's shape, in a process that is up.
LEMMA InProgress ==
    ASSUME CallsOK, NEW c \in Clients, NEW pc, pc \notin {"idle", "watch"}, At(c, pc)
    PROVE  /\ request[c] \in Call /\ request[c].pc = pc /\ phase # "down"
           /\ request[c].token \in tokens \cup {None}
           /\ Admin(request[c]) => Recorded(request[c], deployment, starts)
           /\ Acting(request[c], tokens)
<1>1. request[c] \notin {Idle, Watching}
  BY DEF At, Idle, Watching
<1>2. phase # "down"
  BY Zenon, <1>1 DEF CallsOK
<1> QED
  BY Zenon, <1>1, <1>2 DEF CallsOK, Sound, At

LEMMA NoCallIsSound ==
    Sound(Idle, deployment, starts, tokens) /\ Sound(Watching, deployment, starts, tokens)
  BY Zenon DEF Sound

\* A call that arrives is sound.
LEMMA ArriveMoves ==
    ASSUME ProcessOK, TokensOK, CallsOK, NEW c \in Clients,
           NEW via \in {"HTTP", "gRPC"}, NEW rpc \in deployment.rpcs, NEW src \in Sources,
           NEW token \in tokens \cup {None}, NEW meta \in Actors \cup {None},
           Arrive(c, via, rpc, src, token, meta)
    PROVE  CallsOK'
<1> DEFINE admin == via = "HTTP" /\ isAdminPath(Path(rpc))
           start == IF admin THEN "log" ELSE "authenticate"
           ok    == admin => isTrusted(src)
           r     == [pc |-> start, via |-> via, rpc |-> rpc, trusted |-> ok, token |-> token,
                     meta |-> meta, row |-> FALSE, event |-> None, actor |-> None]
<1>1. Moves(c, r) /\ phase # "down" /\ UNCHANGED <<deployment, phase, starts, tokens>>
  BY Zenon DEF Arrive, Moves, process
<1>2. start \in {"log", "authenticate"} /\ ok \in BOOLEAN
  BY Zenon
<1>3. rpc \in RPCs /\ token \in Token \cup {None}
  BY Zenon, DeploymentType DEF ProcessOK, TokensOK
<1>4. admin => start = "log"
  BY Zenon
<1>5. r \in Call
  <2> HIDE DEF start, ok
  <2> QED
    BY Zenon, <1>2, <1>3 DEF Call
<1>6. Admin(r) => r.pc = "log"
  <2>1. r.via = via /\ r.rpc = rpc /\ r.pc = start
    BY Zenon
  <2> HIDE DEF r, start
  <2> QED
    BY Zenon, <1>4, <2>1 DEF Admin
<1>7. r.pc # "serve" /\ r.token = token
  <2>1. r.pc = start /\ r.token = token
    BY Zenon
  <2> QED
    BY Zenon, <1>2, <2>1
<1>8. Sound(r, deployment, starts, tokens)
  <2> HIDE DEF r
  <2> QED
    BY Zenon, <1>5, <1>6, <1>7 DEF Sound, Recorded, Acting
<1> HIDE DEF r
<1> QED
  BY Zenon, <1>1, <1>8, CallsMove

\* A call leaves logActivity with its row, or the process does not insist on one.
LEMMA LogMoves ==
    ASSUME ProcessOK, CallsOK, NEW c \in Clients, logActivity(c)
    PROVE  CallsOK'
<1> DEFINE r == request[c]
           q == [r EXCEPT !.pc = "audit"]
           w == [r EXCEPT !.row = TRUE, !.pc = "audit"]
<1>1. /\ r \in Call /\ r.pc = "log" /\ phase # "down"
      /\ r.token \in tokens \cup {None}
  BY Zenon, InProgress DEF logActivity
<1>2. UNCHANGED <<deployment, phase, starts, tokens>>
  BY Zenon DEF logActivity, process
<1>3. deployment.strict => deployment.db
  BY Zenon, <1>1 DEF ProcessOK, validateProductionRuntime
<1>4. \/ Moves(c, Idle)
      \/ Moves(c, q) /\ ~deployment.strict
      \/ Moves(c, w)
  BY Zenon, <1>3 DEF logActivity, Proceed, persistActivity, Answered, Moves
<1>5. CASE Moves(c, Idle)
  BY Zenon, <1>1, <1>2, <1>5, CallsMove, NoCallIsSound
<1>6. CASE Moves(c, q) /\ ~deployment.strict
  <2>1. q \in Call /\ q.pc = "audit" /\ q.token = r.token
    BY Zenon, <1>1 DEF Call
  <2>2. Sound(q, deployment, starts, tokens)
    <3> HIDE DEF q
    <3> QED
      BY Zenon, <1>1, <1>6, <2>1 DEF Sound, Recorded, Acting
  <2> HIDE DEF q
  <2> QED
    BY Zenon, <1>1, <1>2, <1>6, <2>2, CallsMove
<1>7. CASE Moves(c, w)
  <2>1. w \in Call /\ w.pc = "audit" /\ w.row = TRUE /\ w.token = r.token
    BY Zenon, <1>1 DEF Call
  <2>2. Sound(w, deployment, starts, tokens)
    <3> HIDE DEF w
    <3> QED
      BY Zenon, <1>1, <2>1 DEF Sound, Recorded, Acting
  <2> HIDE DEF w
  <2> QED
    BY Zenon, <1>1, <1>2, <1>7, <2>2, CallsMove
<1> QED
  BY Zenon, <1>4, <1>5, <1>6, <1>7

\* A call leaves appendAudit from a trusted source with its event, stored if its number is
\* not taken, or the process does not insist on one.
LEMMA AuditMoves ==
    ASSUME ProcessOK, CallsOK, GuardOK, NEW c \in Clients, appendAudit(c)
    PROVE  CallsOK'
<1> DEFINE r == request[c]
           id == nextID + 1
           event == IF deployment.db /\ id \notin events THEN "stored" ELSE "in memory"
           q == [r EXCEPT !.pc = "authenticate"]
           w == [r EXCEPT !.pc = "authenticate", !.event = event]
<1>1. /\ r \in Call /\ r.pc = "audit" /\ phase # "down"
      /\ r.token \in tokens \cup {None}
      /\ Admin(r) => Recorded(r, deployment, starts)
  BY Zenon, InProgress DEF appendAudit
<1>2. UNCHANGED <<deployment, phase, starts, tokens>>
  BY Zenon DEF appendAudit, process
<1>3. deployment.strict => deployment.db
  BY Zenon, <1>1 DEF ProcessOK, validateProductionRuntime
<1>4. \/ Moves(c, Idle)
      \/ Moves(c, q) /\ ~deployment.strict /\ r.trusted
      \/ Moves(c, w) /\ r.trusted
  BY Zenon DEF appendAudit, Proceed, Answered, Moves
<1>5. CASE Moves(c, Idle)
  BY Zenon, <1>1, <1>2, <1>5, CallsMove, NoCallIsSound
<1>6. CASE Moves(c, q) /\ ~deployment.strict /\ r.trusted
  <2>1. q \in Call /\ q.pc = "authenticate" /\ q.token = r.token /\ q.trusted = r.trusted
    BY Zenon, <1>1 DEF Call
  <2>2. Sound(q, deployment, starts, tokens)
    <3> HIDE DEF q
    <3> QED
      BY Zenon, <1>1, <1>6, <2>1 DEF Sound, Recorded, Acting
  <2> HIDE DEF q
  <2> QED
    BY Zenon, <1>1, <1>2, <1>6, <2>2, CallsMove
<1>7. CASE Moves(c, w) /\ r.trusted
  <2>1. event \in {"stored", "in memory"}
    BY Zenon
  <2>2. /\ w \in Call /\ w.pc = "authenticate" /\ w.token = r.token /\ w.trusted = r.trusted
        /\ w.event = event /\ w.row = r.row /\ w.via = r.via /\ w.rpc = r.rpc
    <3> HIDE DEF event
    <3> QED
      BY Zenon, <1>1, <2>1 DEF Call
  <2>3. deployment.strict /\ starts = 1 => event = "stored"
    <3>1. ASSUME starts = 1
          PROVE  id \notin events
      BY <3>1 DEF GuardOK
    <3> QED
      BY Zenon, <1>3, <3>1
  <2>4. event # None
    BY Zenon, ConstantsAssumption
  <2>5. Admin(w) => Admin(r)
    BY Zenon, <2>2 DEF Admin
  <2>6. Sound(w, deployment, starts, tokens)
    <3> HIDE DEF w, event
    <3> QED
      BY Zenon, <1>1, <1>7, <2>2, <2>3, <2>4, <2>5 DEF Sound, Recorded, Acting
  <2> HIDE DEF w
  <2> QED
    BY Zenon, <1>1, <1>2, <1>7, <2>6, CallsMove
<1> QED
  BY Zenon, <1>4, <1>5, <1>6, <1>7

\* A call is served for no one where no token is needed, and else for the actor of its token,
\* or the one that a Logout names.
LEMMA AuthenticateMoves ==
    ASSUME CallsOK, TokensOK, NEW c \in Clients, NEW via, authenticate(c, via)
    PROVE  CallsOK'
<1> DEFINE r == request[c]
           Serving(a) == [r EXCEPT !.pc = "serve", !.actor = a]
           actor == IF r.rpc[2] = "Logout" THEN namedActor(r.meta)
                    ELSE resolveActor(r.token.actor, r.meta)
<1>1. /\ r \in Call /\ r.pc = "authenticate" /\ phase # "down"
      /\ r.token \in tokens \cup {None}
      /\ Admin(r) => Recorded(r, deployment, starts)
  BY Zenon, InProgress DEF authenticate
<1>2. UNCHANGED <<deployment, phase, starts, tokens>>
  BY Zenon DEF authenticate, process
<1>3. \/ Moves(c, Idle)
      \/ open(r.via, r.rpc) /\ Moves(c, Serving(None))
      \/ ParseActor(r.token) /\ actor # None /\ Moves(c, Serving(actor))
  BY Zenon DEF authenticate, Answered, Moves
<1>4. ASSUME NEW a \in Resolved \cup {None}
      PROVE  /\ Serving(a) \in Call /\ Serving(a).pc = "serve" /\ Serving(a).actor = a
             /\ Serving(a).token = r.token /\ Serving(a).rpc = r.rpc /\ Serving(a).meta = r.meta
             /\ Admin(Serving(a)) => Recorded(Serving(a), deployment, starts)
  <2>1. /\ Serving(a) \in Call /\ Serving(a).pc = "serve" /\ Serving(a).actor = a
        /\ Serving(a).token = r.token /\ Serving(a).rpc = r.rpc /\ Serving(a).meta = r.meta
        /\ Serving(a).via = r.via /\ Serving(a).trusted = r.trusted /\ Serving(a).row = r.row
        /\ Serving(a).event = r.event
    BY Zenon, <1>1, <1>4 DEF Call
  <2> HIDE DEF Serving
  <2> QED
    BY Zenon, <1>1, <2>1 DEF Admin, Recorded
<1>5. CASE Moves(c, Idle)
  BY Zenon, <1>1, <1>2, <1>5, CallsMove, NoCallIsSound
<1>6. CASE open(r.via, r.rpc) /\ Moves(c, Serving(None))
  <2>1. r.rpc[2] \in {"Login", "RefreshToken", "GetSystemStatus"}
    BY Zenon, <1>1, <1>6, OpenMethods DEF Call
  <2>2. Sound(Serving(None), deployment, starts, tokens)
    <3> HIDE DEF Serving
    <3> QED
      BY Zenon, <1>1, <1>4, <2>1 DEF Sound, Acting
  <2> HIDE DEF Serving
  <2> QED
    BY Zenon, <1>1, <1>2, <1>6, <2>2, CallsMove
<1>7. CASE ParseActor(r.token) /\ actor # None /\ Moves(c, Serving(actor))
  <2>1. r.token \in tokens /\ r.token.actor \in Actors
    BY Zenon, <1>1, <1>7 DEF ParseActor, TokensOK, Token
  <2>2. IF r.rpc[2] = "Logout" THEN r.meta # None /\ actor = Typed(r.meta)
        ELSE actor = Typed(r.token.actor) /\ r.meta \in {None, actor}
    BY Zenon, <1>7 DEF resolveActor, namedActor
  <2>3. /\ actor \in Resolved
        /\ actor.id = IF r.rpc[2] = "Logout" THEN r.meta.id ELSE r.token.actor.id
    <3>1. \A a \in Actors : Typed(a) \in Resolved /\ Typed(a).id = a.id
      BY Zenon DEF Resolved, Typed
    <3>2. r.meta \in Actors \cup {None}
      BY Zenon, <1>1 DEF Call
    <3> HIDE DEF actor
    <3> QED
      BY Zenon, <2>1, <2>2, <3>1, <3>2
  <2>4. Sound(Serving(actor), deployment, starts, tokens)
    <3> HIDE DEF Serving, actor
    <3> QED
      BY Zenon, <1>1, <1>4, <2>1, <2>2, <2>3 DEF Sound, Acting
  <2> HIDE DEF Serving
  <2> QED
    BY Zenon, <1>1, <1>2, <1>7, <2>4, CallsMove
<1> QED
  BY Zenon, <1>3, <1>5, <1>6, <1>7

\* A call that is served ends, or hangs as it is.
LEMMA ServeMoves ==
    ASSUME CallsOK, NEW c \in Clients, serve(c), tokens \subseteq tokens'
    PROVE  CallsOK'
<1> DEFINE r == request[c]
           q == [r EXCEPT !.pc = "hung"]
<1>1. /\ r \in Call /\ r.pc = "serve" /\ phase # "down"
      /\ r.token \in tokens \cup {None}
  BY Zenon, InProgress DEF serve
<1>2. UNCHANGED <<deployment, phase, starts>>
  BY Zenon DEF serve, process
<1>3. Moves(c, Idle) \/ Moves(c, q)
  BY Zenon DEF serve, Answered, Moves
<1>4. Sound(q, deployment, starts, tokens)
  <2>1. q \in Call /\ q.pc = "hung" /\ q.token = r.token
    BY Zenon, <1>1 DEF Call
  <2> HIDE DEF q
  <2> QED
    BY Zenon, <1>1, <2>1 DEF Sound, Recorded, Acting
<1> HIDE DEF q
<1> QED
  BY Zenon, <1>1, <1>2, <1>3, <1>4, CallsMove, NoCallIsSound

\* The calls stay sound.
LEMMA CallsStep ==
    ASSUME ProcessOK, KeysOK, TokensOK, CallsOK, GuardOK, [Next]_vars
    PROVE  CallsOK'
<1> DEFINE Same == UNCHANGED <<deployment, phase, starts, tokens, request>>
<1>0. Same => CallsOK'
  BY Zenon DEF CallsOK
<1>1. CASE Start
  <2>1. request' = request /\ \A c \in Clients : request[c] = Idle
    BY Zenon, <1>1 DEF Start, CallsOK
  <2> QED
    BY Zenon, <2>1 DEF CallsOK, Sound
<1>2. CASE Stop
  <2>1. CASE request' = request /\ phase' # "down" /\ phase # "down"
    BY Zenon, <1>2, <2>1 DEF Stop, CallsOK
  <2>2. CASE request' = [c \in Clients |-> Idle]
    BY Zenon, <2>2 DEF CallsOK, Sound
  <2> QED
    BY Zenon, <1>2, <2>1, <2>2 DEF Stop
<1>3. CASE Crash
  BY Zenon, <1>3 DEF Crash, CallsOK, Sound
<1>4. CASE RefreshLoad \/ RefreshSigner \/ RefreshVerifier
  BY Zenon, <1>0, <1>4 DEF RefreshLoad, RefreshSigner, RefreshVerifier, process
<1>5. ASSUME NEW content \in deployment.contents, Rotate(content)
      PROVE  Same
  BY Zenon, <1>5 DEF Rotate, process
<1>6. ASSUME NEW token \in tokens, Expire(token)
      PROVE  Same
  BY Zenon, <1>6 DEF Expire, process
<1>7. ASSUME NEW c \in Clients, Calling(c)
      PROVE  CallsOK'
  <2>1. CASE logActivity(c) \/ appendAudit(c)
    BY Zenon, <2>1, LogMoves, AuditMoves
  <2>2. ASSUME NEW via, authenticate(c, via)
        PROVE  CallsOK'
    BY Zenon, <2>2, AuthenticateMoves
  <2>3. CASE serve(c)
    BY Zenon, <2>3, ServeMoves, TokensStep
  <2>5. CASE Watch(c) \/ Leave(c)
    <3>1. UNCHANGED <<deployment, phase, starts, tokens>>
      BY Zenon, <2>5 DEF Watch, Leave, process
    <3>2. phase # "down"
      <4>1. Watching # Idle
        BY DEF Watching, Idle
      <4>2. CASE Leave(c)
        BY Zenon, <4>1, <4>2 DEF Leave, CallsOK
      <4>3. CASE Watch(c)
        BY <4>3 DEF Watch
      <4> QED
        BY Zenon, <2>5, <4>2, <4>3
    <3>3. Moves(c, Idle) \/ Moves(c, Watching)
      BY Zenon, <2>5 DEF Watch, Leave, Answered, Moves
    <3> QED
      BY Zenon, <3>1, <3>2, <3>3, CallsMove, NoCallIsSound
  <2>4. ASSUME ~(Step(c) \/ Watch(c) \/ Leave(c))
        PROVE  CallsOK'
    <3>1. PICK via \in {"HTTP", "gRPC"}, rpc \in deployment.rpcs, src \in Sources :
              IF open(via, rpc) THEN Arrive(c, via, rpc, src, None, None)
              ELSE \E token \in tokens \cup {None}, meta \in Actors \cup {None} :
                       Arrive(c, via, rpc, src, token, meta)
      BY Zenon, <1>7, <2>4 DEF Calling
    <3>2. PICK token \in tokens \cup {None}, meta \in Actors \cup {None} :
              Arrive(c, via, rpc, src, token, meta)
      BY Zenon, <3>1
    <3> QED
      BY Zenon, <3>2, ArriveMoves
  <2> QED
    BY Zenon, <2>1, <2>2, <2>3, <2>4, <2>5
       DEF Step, HTTPJWTMiddlewareWithSkips, UnaryJWTInterceptor
<1>8. UNCHANGED vars => Same
  BY Zenon DEF vars, process
<1> HIDE DEF Same
<1> QED
  BY Zenon, <1>0, <1>1, <1>2, <1>3, <1>4, <1>5, <1>6, <1>7, <1>8, NextCases

-----------------------------------------------------------------------------
(* The guard's log and its audit numbers.                                    *)

\* Only the first two stages of a guarded call, and a start, touch the guard's state.
LEMMA GuardStep ==
    ASSUME ProcessOK, CallsOK, GuardOK, [Next]_vars
    PROVE  GuardOK'
<1> DEFINE Same == UNCHANGED <<deployment, starts, logs, nextID, events>>
<1>0. Same => GuardOK'
  BY Zenon DEF GuardOK
<1>1. CASE Start
  <2>1. /\ UNCHANGED <<deployment, events>> /\ starts' = starts + 1 /\ starts \in Nat
        /\ logs' = 0 /\ nextID' = 0
    BY <1>1, DeploymentType DEF Start, ProcessOK
  <2>2. starts' = 1 => events = {}
    BY <2>1 DEF GuardOK
  <2>3. deployment.cap \in Nat
    BY Zenon, DeploymentType DEF ProcessOK
  <2> QED
    BY <2>1, <2>2, <2>3 DEF GuardOK
<1>2. CASE Stop \/ Crash \/ RefreshLoad \/ RefreshSigner \/ RefreshVerifier
  BY Zenon, <1>0, <1>2 DEF Stop, Crash, RefreshLoad, RefreshSigner, RefreshVerifier, process, guard
<1>3. ASSUME NEW content \in deployment.contents, Rotate(content)
      PROVE  Same
  BY Zenon, <1>3 DEF Rotate, process, guard
<1>4. ASSUME NEW token \in tokens, Expire(token)
      PROVE  Same
  BY Zenon, <1>4 DEF Expire, process, guard
<1>5. ASSUME NEW c \in Clients, Calling(c)
      PROVE  GuardOK'
  <2>1. CASE logActivity(c)
    <3>1. /\ UNCHANGED <<deployment, starts, nextID, events>>
          /\ logs' \in {logs, logs + 1}
          /\ (~deployment.strict /\ ~deployment.db /\ deployment.cap > 0 /\ logs >= deployment.cap)
             => logs' = logs
      BY Zenon, <2>1 DEF logActivity, process
    <3>2. deployment.cap \in Nat /\ logs \in Nat
      BY Zenon, DeploymentType DEF ProcessOK, GuardOK
    <3>3. \A l, m, cap \in Nat : /\ m \in {l, l + 1}
                                 /\ l >= cap => m = l
                                 /\ l <= cap
                                 => m <= cap
      OBVIOUS
    <3>4. logs' \in Nat
      BY <3>1, <3>2
    <3>5. ~deployment.strict /\ ~deployment.db /\ deployment.cap > 0 => logs' <= deployment.cap
      BY Zenon, <3>1, <3>2, <3>3, <3>4 DEF GuardOK
    <3> QED
      BY Zenon, <3>1, <3>4, <3>5 DEF GuardOK
  <2>2. CASE appendAudit(c)
    <3>1. /\ UNCHANGED <<deployment, starts, logs>>
          /\ nextID' = nextID + 1
          /\ events' \in {events, events \cup {nextID + 1}}
      BY Zenon, <2>2 DEF appendAudit, process
    <3>2. starts # 0
      <4>1. phase # "down"
        BY Zenon, <2>2, InProgress DEF appendAudit
      <4>2. starts > 0
        BY Zenon, <4>1 DEF ProcessOK
      <4> QED
        BY <4>2
    <3>3. nextID \in Nat /\ nextID' \in Nat /\ events' \subseteq Nat
      BY <3>1 DEF GuardOK
    <3>4. starts = 1 => \A id \in events' : id <= nextID'
      BY <3>1, <3>3 DEF GuardOK
    <3> QED
      BY Zenon, <3>1, <3>2, <3>3, <3>4 DEF GuardOK
  <2>3. \A via : authenticate(c, via) => Same
    BY Zenon DEF authenticate, process, guard
  <2>4. serve(c) => Same
    BY Zenon DEF serve, process, guard
  <2>5. \A via, rpc, src, token, meta : Arrive(c, via, rpc, src, token, meta) => Same
    BY Zenon DEF Arrive, process, guard
  <2>6. Watch(c) \/ Leave(c) => Same
    BY Zenon DEF Watch, Leave, process, guard
  <2> HIDE DEF Same
  <2> QED
    BY Zenon, <1>0, <1>5, <2>1, <2>2, <2>3, <2>4, <2>5, <2>6
       DEF Calling, Step, HTTPJWTMiddlewareWithSkips, UnaryJWTInterceptor
<1>6. UNCHANGED vars => Same
  BY Zenon DEF vars, process, guard
<1> HIDE DEF Same
<1> QED
  BY Zenon, <1>0, <1>1, <1>2, <1>3, <1>4, <1>5, <1>6, NextCases

-----------------------------------------------------------------------------
(* The results.                                                              *)

LEMMA AccessInit == Init => AccessInv
<1> SUFFICES ASSUME Init
             PROVE  AccessInv
  BY Zenon
<1>1. ProcessOK
  BY DeploymentType DEF Init, ProcessOK
<1>2. KeysOK
  BY Zenon DEF Init, KeysOK
<1>3. TokensOK
  BY DeploymentType, FS_EmptySet DEF Init, TokensOK
<1>4. CallsOK
  BY Zenon DEF Init, CallsOK, Sound
<1>5. GuardOK
  BY DeploymentType DEF Init, GuardOK
<1> QED
  BY Zenon, <1>1, <1>2, <1>3, <1>4, <1>5 DEF AccessInv

LEMMA AccessStep == AccessInv /\ [Next]_vars => AccessInv'
  BY Zenon, ProcessStep, KeysStep, TokensStep, CallsStep, GuardStep DEF AccessInv

LEMMA AccessInvariant == Spec => []AccessInv
  BY AccessInit, AccessStep, PTL DEF Spec

\* The state of the process, its key sets, its tokens and its calls is what the code's types
\* and bounds say; a process that serves always has a key to sign and to verify with.
THEOREM AccessTypes == Spec => []TypeOK
<1>1. AccessInv => TypeOK
  <2> SUFFICES ASSUME AccessInv
               PROVE  TypeOK
    BY Zenon
  <2>1. ASSUME NEW c \in Clients
        PROVE  request[c].pc
                   \in {"idle", "log", "audit", "authenticate", "serve", "hung", "watch"}
    <3>1. request[c] \in {Idle, Watching} \/ request[c] \in Call
      BY Zenon DEF AccessInv, CallsOK, Sound
    <3>2. CASE request[c] \in {Idle, Watching}
      BY <3>2 DEF Idle, Watching
    <3>3. CASE request[c] \in Call
      BY Zenon, <3>3 DEF Call
    <3> QED
      BY Zenon, <3>1, <3>2, <3>3
  <2>2. phase # "down" => \A k \in {signer, verifier} : k # None /\ k.active \in DOMAIN k.keys
    BY Zenon DEF AccessInv, KeysOK, Keyset
  <2>3. /\ deployment \in Deployments
        /\ phase \in {"down", "up", "stopping gRPC", "stopping HTTP"}
        /\ starts \in 0..deployment.starts
        /\ source \in deployment.contents /\ rotations \in 0..deployment.rotations
    BY Zenon DEF AccessInv, ProcessOK
  <2> QED
    BY Zenon, <2>1, <2>2, <2>3 DEF AccessInv, TokensOK, GuardOK, TypeOK
<1> QED
  BY <1>1, AccessInvariant, PTL

\* RemoteAccessGuard: an administrative call over HTTP is served only if its source, as
\* extractSourceIP tells it, is in a trusted network, and in strict production mode only with its activity row and its audit event, which is
\* stored as long as the process is the first to number events; the log in memory keeps its cap.
THEOREM AdminRecorded == Spec => []AdminAccessIsRecorded
<1>1. AccessInv => AdminAccessIsRecorded
  <2> SUFFICES ASSUME AccessInv
               PROVE  AdminAccessIsRecorded
    BY Zenon
  <2>1. ASSUME NEW c \in Clients, request[c] # Idle, request[c].pc = "serve",
               request[c].via = "HTTP", request[c].rpc[1] \in AdminServices
        PROVE  Recorded(request[c], deployment, starts)
    <3>0. request[c] # Watching
      BY <2>1 DEF Watching
    <3>1. request[c] \in Call /\ (Admin(request[c]) => Recorded(request[c], deployment, starts))
      BY Zenon, <2>1, <3>0 DEF AccessInv, CallsOK, Sound
    <3>2. request[c].rpc \in RPCs
      BY Zenon, <3>1 DEF Call
    <3> QED
      BY Zenon, <2>1, <3>1, <3>2, AdminPaths DEF Admin
  <2> QED
    BY Zenon, <2>1 DEF AdminAccessIsRecorded, Recorded, AccessInv, GuardOK
<1> QED
  BY <1>1, AccessInvariant, PTL

\* HTTPJWTMiddleware, UnaryJWTInterceptor and resolveActor: a call acts for the actor of its
\* token, over either transport, but Logout acts for the actor its request names, though it
\* too needs a token.
THEOREM ActorsFromTokens == Spec => []ActorsComeFromTokens
<1>1. AccessInv => ActorsComeFromTokens
  <2>1. Watching.pc # "serve"
    BY DEF Watching
  <2> QED
    BY Zenon, <2>1 DEF AccessInv, CallsOK, Sound, Acting, ActorsComeFromTokens
<1> QED
  BY <1>1, AccessInvariant, PTL

\* JWTSigner and JWTVerifier: a token whose key the signer still holds is accepted, but for the
\* moment between the two halves of a reload.
THEOREM SignedAccepted == Spec => []SignedIsAccepted
<1>1. AccessInv => SignedIsAccepted
  <2> SUFFICES ASSUME AccessInv, phase # "down", NEW t \in tokens \ expired,
                      t.kid \in DOMAIN signer.keys, signer.keys[t.kid] = t.secret
               PROVE  ParseActor(t) \/ refresh = signer
    BY Zenon DEF SignedIsAccepted
  <2>1. t # None
    BY Zenon, ConstantsAssumption DEF AccessInv, TokensOK
  <2>2. signer = verifier \/ refresh = signer
    BY Zenon DEF AccessInv, KeysOK
  <2> QED
    BY Zenon, <2>1, <2>2 DEF ParseActor
<1> QED
  BY <1>1, AccessInvariant, PTL

=============================================================================
