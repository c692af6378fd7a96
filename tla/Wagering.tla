------------------------------ MODULE Wagering ------------------------------
(***************************************************************************)
(* WageringService (wagering_grpc.go, wagering_postgres.go) as it can be    *)
(* deployed: in memory, on Postgres with the in-memory caches, and on      *)
(* Postgres without them (the strict production mode), by one process or   *)
(* several.  A process holds s.mu for a whole call, so it runs one call at *)
(* a time; call[p] is that call between two of its statements.  Any        *)
(* statement may fail, and a process may die between two of them.          *)
(*                                                                         *)
(* A stake, payout or cancel reason is a payload: what the request hash    *)
(* tells apart.  Wager ids contain the clock's nanoseconds and are never   *)
(* drawn twice, restarts included.                                         *)
(***************************************************************************)
EXTENDS Integers, FiniteSets

CONSTANTS
    Players, Operator, Keys, Payloads,
    Deployments,    \* ways to run the service, each with its bounds (Deployment)
    MaxServers,     \* bound: processes
    MaxWagers,      \* bound: wagers placed in a behaviour
    None

Processes == 1..MaxServers

\* db: s.dbEnabled(); mirror: s.useInMemoryCache(), s.useInMemoryWagerMirror();
\* servers: the processes; wagers, restarts: bounds on a behaviour
Deployment == [db : BOOLEAN, mirror : BOOLEAN, servers : Processes,
               wagers : 0..MaxWagers, restarts : Nat]

ASSUME ConstantsAssumption ==
    /\ MaxServers \in Nat /\ MaxWagers \in Nat
    /\ Deployments \subseteq Deployment
    /\ \A d \in Deployments : ~d.db => d.mirror /\ d.servers = 1 /\ d.restarts = 0
    /\ None \notin Payloads \cup Keys

VARIABLES
    deployment,           \* chosen once
    wagers,               \* by process: the mirror
    byIdempotency,        \* by process: the three ...ByIdempotency maps
    wagersTable,
    idempotencyTable,     \* wagering_idempotency_keys
    audited,              \* success events: <<operation, wager, key>>
    lastWagerID,
    call,                 \* by process: the call that holds s.mu
    reply,                \* the result code of the last call
    acknowledged,         \* history: the OK answers clients were given, <<id, wager>>
    restarts

vars == <<deployment, wagers, byIdempotency, wagersTable, idempotencyTable, audited, lastWagerID,
          call, reply, acknowledged, restarts>>

UseDB  == deployment.db
Mirror == deployment.mirror

WagerIds == 1..MaxWagers
Finish   == {"settle", "cancel"}
Ids      == ({"place"} \X Players \X Keys) \cup (Finish \X WagerIds \X Keys)
Id(r)    == <<r.op, r.scope, r.key>>

Requests ==
    [op : {"place"}, scope : Players, actor : Players \cup {Operator},
     payload : Payloads \cup {None}, key : Keys \cup {None}]
    \cup
    [op : Finish, scope : WagerIds, actor : Players \cup {Operator},
     payload : Payloads \cup {None}, key : Keys \cup {None}]

\* detail: the payout or the reason
Wager    == [id : WagerIds, status : {"pending", "settled", "canceled"},
             stake : Payloads, detail : Payloads \cup {None}]
Response == [code : {"OK", "INVALID", "DENIED", "ERROR"}, wager : Wager \cup {None}]
Saved    == [hash : Payloads, response : Response]
Idle     == [pc |-> "idle"]

ASSUME ValuesAssumption == None \notin Wager \cup Response \cup Saved

Refusal(code) == [code |-> code, wager |-> None]
OK(w)         == [code |-> "OK", wager |-> w]

\* Faulty variant: the amount is not validated.
malformedKeyOnly(r) == r.key = None

\* requests lacking a field, a valid amount or an idempotency key
malformed(r) == r.payload = None \/ r.key = None

\* authorizePlace, authorizeSettlement
authorized(r) ==
    IF r.op = "place" THEN r.actor \in {Operator, r.scope} ELSE r.actor = Operator

Return(p, r, response) ==
    /\ call' = [call EXCEPT ![p] = Idle]
    /\ reply' = response.code
    /\ acknowledged' = IF response.code = "OK"
                       THEN acknowledged \cup {<<Id(r), response.wager>>} ELSE acknowledged

Memory == <<wagers, byIdempotency>>
Tables == <<wagersTable, idempotencyTable>>
Answers == <<reply, acknowledged>>

-----------------------------------------------------------------------------
(* The statements of a call, in order.                                       *)

Refused(p, r) ==
    /\ malformed(r) \/ ~authorized(r)
    /\ Return(p, r, Refusal(IF malformed(r) THEN "INVALID" ELSE "DENIED"))
    /\ UNCHANGED <<Memory, Tables>>

\* Faulty variant: the remembered answer shares the wager object with the mirror.
CachedShared(p, r) ==
    /\ Mirror /\ byIdempotency[p][Id(r)] # None
    /\ Return(p, r, OK(wagers[p][byIdempotency[p][Id(r)].wager.id]))
    /\ UNCHANGED <<Memory, Tables>>

\* A cached answer is returned whatever the payload of this request.
Cached(p, r) ==
    /\ Mirror /\ byIdempotency[p][Id(r)] # None
    /\ Return(p, r, byIdempotency[p][Id(r)])
    /\ UNCHANGED <<Memory, Tables>>

\* loadIdempotencyResponse
Loaded(p, r) ==
    LET saved == idempotencyTable[Id(r)] IN
    /\ UseDB
    /\ Mirror => byIdempotency[p][Id(r)] = None
    /\ \/ /\ Return(p, r, Refusal("ERROR"))
          /\ UNCHANGED Memory
       \/ /\ saved # None /\ saved.hash # r.payload
          /\ Return(p, r, Refusal("INVALID"))
          /\ UNCHANGED Memory
       \/ /\ saved # None /\ saved.hash = r.payload
          /\ Return(p, r, saved.response)
          /\ IF Mirror
             THEN /\ byIdempotency' = [byIdempotency EXCEPT ![p][Id(r)] = saved.response]
                  /\ wagers' = [wagers EXCEPT ![p][saved.response.wager.id] = saved.response.wager]
             ELSE UNCHANGED Memory
    /\ UNCHANGED Tables

\* bound: calls that still have to draw a wager id
Drawing == Cardinality({q \in Processes : call[q].pc = "fresh" /\ call[q].request.op = "place"})

NotSeen(p, r) ==
    /\ r.op = "place" => lastWagerID + Drawing < deployment.wagers
    /\ Mirror => byIdempotency[p][Id(r)] = None
    /\ UseDB => idempotencyTable[Id(r)] = None
    /\ call' = [call EXCEPT ![p] = [pc |-> "fresh", request |-> r]]
    /\ UNCHANGED <<Answers, Memory, Tables>>

Begin(p, r) ==
    /\ call[p] = Idle
    /\ \/ Refused(p, r)
       \/ ~malformed(r) /\ authorized(r) /\ (Cached(p, r) \/ Loaded(p, r) \/ NotSeen(p, r))
    /\ UNCHANGED <<deployment, audited, lastWagerID, restarts>>

\* The object and the answer are in memory before anything is durable.
Decided(p, r, w, mirror) ==
    /\ wagers' = [wagers EXCEPT ![p] = mirror]
    /\ byIdempotency' = IF Mirror THEN [byIdempotency EXCEPT ![p][Id(r)] = OK(w)]
                        ELSE byIdempotency
    /\ call' = [call EXCEPT ![p] =
           [pc |-> IF UseDB THEN "decided" ELSE "saved", request |-> r, wager |-> w]]
    /\ UNCHANGED Answers

PlaceWager(p) ==
    LET r == call[p].request
        id == lastWagerID + 1
        w == [id |-> id, status |-> "pending", stake |-> r.payload, detail |-> None]
    IN
    /\ call[p].pc = "fresh" /\ r.op = "place"
    /\ lastWagerID < deployment.wagers     \* bound: NotSeen has left room for this id
    /\ lastWagerID' = id
    /\ Decided(p, r, w, IF Mirror THEN [wagers[p] EXCEPT ![id] = w] ELSE wagers[p])
    /\ UNCHANGED <<deployment, Tables, audited, restarts>>

\* Faulty variant: the status of the wager is not looked at.
FinishAnyWager(p) ==
    LET r == call[p].request
        found == IF UseDB /\ wagers[p][r.scope] = None THEN wagersTable[r.scope]
                 ELSE wagers[p][r.scope]
        w == [found EXCEPT !.status = IF r.op = "settle" THEN "settled" ELSE "canceled",
                           !.detail = r.payload]
    IN
    /\ call[p].pc = "fresh" /\ r.op \in Finish
    /\ \/ /\ found = None
          /\ Return(p, r, Refusal("INVALID"))
          /\ UNCHANGED Memory
       \/ /\ found # None
          /\ Decided(p, r, w, IF Mirror THEN [wagers[p] EXCEPT ![r.scope] = w] ELSE wagers[p])
    /\ UNCHANGED <<deployment, Tables, audited, lastWagerID, restarts>>

\* Faulty variant: the status of a wager read from the database is not looked at.
FinishStoredWager(p) ==
    LET r == call[p].request
        found == wagersTable[r.scope]
        w == [found EXCEPT !.status = IF r.op = "settle" THEN "settled" ELSE "canceled",
                           !.detail = r.payload]
    IN
    /\ call[p].pc = "fresh" /\ r.op \in Finish
    /\ IF ~Mirror /\ found # None THEN Decided(p, r, w, wagers[p])
       ELSE Return(p, r, Refusal("INVALID")) /\ UNCHANGED Memory
    /\ UNCHANGED <<deployment, Tables, audited, lastWagerID, restarts>>

\* The wager a call finds: the mirror's, or one getWager builds from the row
getWager(p, id) == IF wagers[p][id] # None \/ ~UseDB THEN wagers[p][id] ELSE wagersTable[id]

\* SettleWager and CancelWager change the object they found: the mirror's, or the
\* one getWager has built, of which the mirror then keeps an unchanged copy.
FinishWager(p) ==
    LET r == call[p].request
        mirrored == wagers[p][r.scope]
        found == getWager(p, r.scope)
        kept == IF Mirror THEN [wagers[p] EXCEPT ![r.scope] = found] ELSE wagers[p]
        w == [found EXCEPT !.status = IF r.op = "settle" THEN "settled" ELSE "canceled",
                           !.detail = r.payload]
    IN
    /\ call[p].pc = "fresh" /\ r.op \in Finish
    /\ \/ /\ UseDB /\ mirrored = None
          /\ Return(p, r, Refusal("ERROR"))
          /\ UNCHANGED Memory
       \/ /\ found = None \/ (found # None /\ found.status # "pending")
          /\ Return(p, r, Refusal("INVALID"))
          /\ wagers' = [wagers EXCEPT ![p] = kept]
          /\ UNCHANGED byIdempotency
       \/ /\ found # None /\ found.status = "pending"
          /\ Decided(p, r, w, IF mirrored # None THEN [wagers[p] EXCEPT ![r.scope] = w] ELSE kept)
    /\ UNCHANGED <<deployment, Tables, audited, lastWagerID, restarts>>

persistWager(p) ==
    LET w == call[p].wager IN
    /\ call[p].pc = "decided"
    /\ \/ /\ Return(p, call[p].request, Refusal("ERROR"))
          /\ UNCHANGED wagersTable
       \/ /\ wagersTable' = [wagersTable EXCEPT ![w.id] = w]
          /\ call' = [call EXCEPT ![p].pc = "persisted"]
          /\ UNCHANGED Answers
    /\ UNCHANGED <<deployment, Memory, idempotencyTable, audited, lastWagerID, restarts>>

\* Faulty variant: the saved answer holds the wager as it was before the call.
persistEarlierResponse(p) ==
    LET r == call[p].request IN
    /\ call[p].pc = "persisted"
    /\ idempotencyTable' = [idempotencyTable EXCEPT ![Id(r)] =
           [hash |-> r.payload, response |-> OK([call[p].wager EXCEPT !.status = "pending"])]]
    /\ call' = [call EXCEPT ![p].pc = "saved"]
    /\ UNCHANGED <<deployment, Answers, Memory, wagersTable, audited, lastWagerID, restarts>>

persistIdempotencyResponse(p) ==
    LET r == call[p].request IN
    /\ call[p].pc = "persisted"
    /\ \/ /\ Return(p, r, Refusal("ERROR"))
          /\ UNCHANGED idempotencyTable
       \/ /\ idempotencyTable' = [idempotencyTable EXCEPT ![Id(r)] =
                 [hash |-> r.payload, response |-> OK(call[p].wager)]]
          /\ call' = [call EXCEPT ![p].pc = "saved"]
          /\ UNCHANGED Answers
    /\ UNCHANGED <<deployment, Memory, wagersTable, audited, lastWagerID, restarts>>

\* Faulty variant: the event is appended before anything is written.
appendAuditFirst(p) ==
    LET r == call[p].request
        w == call[p].wager
    IN
    /\ \/ call[p].pc = "decided" /\ UNCHANGED <<call, Answers>>
       \/ call[p].pc = "saved" /\ Return(p, r, OK(w))
    /\ audited' = audited \cup {<<r.op, w.id, r.key>>}
    /\ UNCHANGED <<deployment, Memory, Tables, lastWagerID, restarts>>

appendAudit(p) ==
    LET r == call[p].request
        w == call[p].wager
    IN
    /\ call[p].pc = "saved"
    /\ \/ Return(p, r, Refusal("ERROR")) /\ UNCHANGED audited
       \/ Return(p, r, OK(w)) /\ audited' = audited \cup {<<r.op, w.id, r.key>>}
    /\ UNCHANGED <<deployment, Memory, Tables, lastWagerID, restarts>>

\* The process dies, with its call, and NewWageringService starts empty.
Restart(p) ==
    /\ restarts < deployment.restarts
    /\ restarts' = restarts + 1
    /\ wagers' = [wagers EXCEPT ![p] = [w \in WagerIds |-> None]]
    /\ byIdempotency' = [byIdempotency EXCEPT ![p] = [i \in Ids |-> None]]
    /\ call' = [call EXCEPT ![p] = Idle]
    /\ UNCHANGED <<deployment, Tables, audited, lastWagerID, reply, acknowledged>>

Init ==
    /\ deployment \in Deployments
    /\ wagers = [p \in Processes |-> [w \in WagerIds |-> None]]
    /\ byIdempotency = [p \in Processes |-> [i \in Ids |-> None]]
    /\ wagersTable = [w \in WagerIds |-> None]
    /\ idempotencyTable = [i \in Ids |-> None]
    /\ audited = {}
    /\ lastWagerID = 0
    /\ call = [p \in Processes |-> Idle]
    /\ reply = None
    /\ acknowledged = {}
    /\ restarts = 0

Next ==
    \E p \in 1..deployment.servers :
        \/ \E r \in Requests : Begin(p, r)
        \/ PlaceWager(p)
        \/ FinishWager(p)
        \/ persistWager(p)
        \/ persistIdempotencyResponse(p)
        \/ appendAudit(p)
        \/ Restart(p)

Spec == Init /\ [][Next]_vars

-----------------------------------------------------------------------------
(* Properties.                                                               *)

\* Types of the maps, the tables and the call in progress (WageringService).
TypeOK ==
    /\ deployment \in Deployments
    /\ wagers \in [Processes -> [WagerIds -> Wager \cup {None}]]
    /\ byIdempotency \in [Processes -> [Ids -> Response \cup {None}]]
    /\ wagersTable \in [WagerIds -> Wager \cup {None}]
    /\ idempotencyTable \in [Ids -> Saved \cup {None}]
    /\ audited \subseteq {"place", "settle", "cancel"} \X WagerIds \X Keys
    /\ lastWagerID \in 0..MaxWagers
    /\ reply \in {"OK", "INVALID", "DENIED", "ERROR", None}
    /\ acknowledged \subseteq Ids \X Wager
    /\ \A p \in Processes :
          /\ call[p].pc \in {"idle", "fresh", "decided", "persisted", "saved"}
          /\ call[p].pc # "idle" => call[p].request \in Requests
          /\ call[p].pc \in {"decided", "persisted", "saved"} => call[p].wager \in Wager
    /\ restarts \in 0..deployment.restarts

Finished(w) == w # None /\ w.status # "pending"

InMemory == ~UseDB
\* the strict production mode, one process
Strict   == ~Mirror /\ deployment.servers = 1

\* Without a database, what the service tells its clients about a wager is what it holds:
\* a remembered settlement or cancellation is the wager's present state, so one operation
\* only has finished it, and a remembered placement is of a wager with that stake.  And
\* every wager was placed under exactly one idempotency key: a retried PlaceWager never
\* places a second one, whatever failed the first time.
AnswersDescribeWagers ==
    InMemory => \A p \in Processes :
        /\ \A i \in Ids : byIdempotency[p][i] # None =>
              LET w == byIdempotency[p][i].wager IN
              IF i[1] = "place" THEN wagers[p][w.id] # None /\ wagers[p][w.id].stake = w.stake
              ELSE w.id = i[2] /\ wagers[p][w.id] = w
        /\ \A w \in WagerIds : wagers[p][w] # None =>
              \E k \in Ids : {k} = {i \in Ids : i[1] = "place" /\ byIdempotency[p][i] # None
                                                /\ byIdempotency[p][i].wager.id = w}

\* In strict mode a row of wagers that has left PENDING is final, whatever fails and
\* whenever the process dies: what "wager is not pending" refuses in SettleWager and
\* CancelWager.
FinishedRowsStay ==
    [][Strict => \A w \in WagerIds :
          Finished(wagersTable[w]) => wagersTable'[w] = wagersTable[w]]_vars

\* The outcome a client was given, in this or an earlier life of the process, is the one
\* the wagers table holds: saved settlements and cancellations agree with the row.
SavedAnswersDescribeRows ==
    Strict =>
        \A i \in Ids :
            idempotencyTable[i] # None =>
                LET w == idempotencyTable[i].response.wager IN
                IF i[1] = "place"
                THEN wagersTable[w.id] # None /\ wagersTable[w.id].stake = w.stake
                ELSE wagersTable[i[2]] = w

\* In every deployment with a database a success event is about something durable: the
\* wager's row exists, it is finished if the event says so, and the call's answer can be
\* replayed.
AuditedIsDurable ==
    UseDB =>
        \A e \in audited :
            /\ wagersTable[e[2]] # None
            /\ e[1] \in Finish => /\ Finished(wagersTable[e[2]])
                                  /\ idempotencyTable[e] # None

\* In strict mode a call that answers OK has left that answer under its key, where it
\* outlives the process (RGS-0701: "DB-backed replay/durability in PostgreSQL mode").
OKIsDurable ==
    Strict =>
        \A a \in acknowledged :
            idempotencyTable[a[1]] # None /\ idempotencyTable[a[1]].response = OK(a[2])

\* What an auditor reads and what a client was told both outlive the process.
ToldIsDurable == AuditedIsDurable /\ OKIsDurable

\* Without a database or in strict mode clients agree: all OK answers under a key are the
\* same, restarts in between or not.
OneAnswerPerKey ==
    InMemory \/ Strict => \A a, b \in acknowledged : a[1] = b[1] => a = b

\* Clients agree about a wager: it is settled or it is canceled, with one payout or reason.
OneOutcomePerWager ==
    \A a, b \in acknowledged :
        a[2].id = b[2].id /\ Finished(a[2]) /\ Finished(b[2]) => a[2] = b[2]

=============================================================================
