------------------------------ MODULE Records -------------------------------
(***************************************************************************)
(* The services that record what others report, each in its own order of   *)
(* three writes (the map, the row, the audit event): RegistryService,      *)
(* PromotionsService, UISystemOverlayService, ReportingService, and the    *)
(* download log of ConfigService.  A deployment runs one of them.  A call  *)
(* is a sequence of steps; a database statement may fail, its effect lost  *)
(* or not, and the process may die between any two steps.                  *)
(*                                                                         *)
(* A record is named by the call that wrote it: "body" is the call its     *)
(* columns come from, "kept" the call of the columns ON CONFLICT leaves    *)
(* alone (created_at; library_path; report type, interval and format).     *)
(* Requests that are answered INVALID without any write are left out.      *)
(***************************************************************************)
EXTENDS Integers, Sequences, FiniteSets, Functions

CONSTANTS
    Clients,
    ClientIds,      \* ids that clients choose
    Deployments,    \* the service, what it runs on, and the bounds
    None

Kinds == {"equipment", "bonus", "award", "window", "download", "report"}

\* Bounds: calls that take s.mu, calls without authorization, entries reports are about,
\* restarts, failed statements
Deployment ==
    [kind : Kinds, db : BOOLEAN, cache : BOOLEAN,
     calls : Nat, denials : Nat, entries : Nat, restarts : Nat, failures : Nat]

VARIABLES
    deployment,     \* chosen once
    mu,             \* the client that holds s.mu
    call,           \* by client
    mirror, order,  \* the map of records and the list of their ids
    nextID, nextAuditID,
    log,            \* turns with a success event in the AuditStore
    rows,           \* the service's table
    events,         \* its part of audit_events: audit number -> turn, 0 for a denial
    activity,       \* what reports are about, by its time: [table, maps]
    turns,          \* calls that took s.mu, which numbers them
    denials, restarts, failures,
    answered,       \* calls answered OK
    dropped         \* turns whose event was not inserted, its number being taken

memory  == <<mirror, order, nextID, nextAuditID, log>>
store   == <<rows, events>>
bounds  == <<turns, denials, restarts, failures>>
history == <<answered, dropped>>
vars    == <<deployment, mu, call, memory, store, activity, bounds, history>>

UseDB == deployment.db
Cache == deployment.cache       \* ~disableInMemoryCache
Kind  == deployment.kind

Turns == 1..deployment.calls
Ids   == ClientIds \cup Turns    \* a generated id is the number in "bonus-1" and its like
Rec   == [body : Turns, kept : Turns]
Idle  == [pc |-> <<>>]

-----------------------------------------------------------------------------
(* The handlers, once the request is authorized and valid.                   *)

Persist == IF UseDB THEN <<"persist">> ELSE <<>>
Mirror  == IF Cache THEN <<"mirror">> ELSE <<>>
Audit   == <<"draw", "audit">>

UpsertEquipment == <<"lock", "read">> \o Audit \o (IF UseDB THEN Persist ELSE Mirror)

RecordBonusTransaction == <<"lock">> \o Mirror \o Persist \o Audit

RecordPromotionalAward == <<"lock">> \o Mirror \o Persist \o Audit

SubmitSystemWindowEvent == <<"lock">> \o Mirror \o Persist \o Audit

RecordDownloadLibraryChange == <<"lock">> \o Audit \o Persist \o Mirror

GenerateReport == <<"build", "lock">> \o Mirror \o <<"unlock">> \o Audit \o Persist

Handler ==
    CASE Kind = "equipment" -> UpsertEquipment
      [] Kind = "bonus"     -> RecordBonusTransaction
      [] Kind = "award"     -> RecordPromotionalAward
      [] Kind = "window"    -> SubmitSystemWindowEvent
      [] Kind = "download"  -> RecordDownloadLibraryChange
      [] Kind = "report"    -> GenerateReport

\* A call without authorization, or one an extension finds invalid, is audited without the
\* lock; the audit event of an activation with a wrong signature is written under it, when
\* the entry already has its id.  An activation without a signature only uses up an id.
Refusals ==
    {<<"draw", "note">>} \cup
    (IF Kind = "download" THEN {<<"lock", "draw", "note">>, <<"lock">>} ELSE {})

-----------------------------------------------------------------------------
(* What a report covers.  The time of an entry, relative to the interval:    *)
(* earlier than its start, at its start, within it, or later than now.  An   *)
(* entry that came without a time has that of its recording.  Only           *)
(* life-to-date has no start.  The liability summary is about the accounts,  *)
(* whatever the interval.                                                    *)

Times  == {"earlier", "start", "within", "later"}
Topics == [type : {"events", "liability", "statement"}, interval : {"LTD", "other"}]

UpToNow == Times \ {"later"}

\* The times that are not before the start
intervalStart(interval) == IF interval = "LTD" THEN Times ELSE Times \ {"earlier"}

\* Faulty variant: the start of the interval is left out.
inIntervalOpen(interval) == IF interval = "LTD" THEN Times ELSE {"within"}

\* The entries of the maps that a report takes; those dated ahead too if there is no start
inInterval(interval) ==
    IF interval = "LTD" THEN Times ELSE intervalStart(interval) \cap UpToNow

\* The entries of the tables that its query selects
fetchSignificantEventsRows(interval) ==
    activity.table \cap intervalStart(interval) \cap UpToNow

fetchCashlessLiabilityRows == activity.table

fetchAccountTransactionStatementRows(interval) ==
    activity.table \cap intervalStart(interval) \cap UpToNow

\* The rows of the table, none if it could not be read; if there are none, the entries of the
\* maps, as far as those are on
Rows(fetched, kept, readable) ==
    LET found == IF UseDB /\ readable THEN fetched ELSE {}
    IN IF found = {} /\ Cache THEN activity.maps \cap kept ELSE found

buildSignificantEventsPayload(interval, readable) ==
    Rows(fetchSignificantEventsRows(interval), inInterval(interval), readable)

buildCashlessLiabilityPayload(readable) ==
    Rows(fetchCashlessLiabilityRows, Times, readable)

buildAccountTransactionStatementPayload(interval, readable) ==
    Rows(fetchAccountTransactionStatementRows(interval), inInterval(interval), readable)

payload(topic, readable) ==
    CASE topic.type = "events"    -> buildSignificantEventsPayload(topic.interval, readable)
      [] topic.type = "liability" -> buildCashlessLiabilityPayload(readable)
      [] topic.type = "statement" ->
             buildAccountTransactionStatementPayload(topic.interval, readable)

\* An event, a transaction or an account reaches the table and the maps.
Happen(t) ==
    /\ Kind = "report"
    /\ Cardinality(activity.table \cup activity.maps \cup {t}) <= deployment.entries
    /\ activity' = [table |-> IF UseDB THEN activity.table \cup {t} ELSE {},
                    maps  |-> IF Cache THEN activity.maps \cup {t} ELSE {}]
    /\ UNCHANGED <<deployment, mu, call, memory, store, bounds, history>>

-----------------------------------------------------------------------------
(* The steps of a call.                                                      *)

At(c, step) == call[c].pc # <<>> /\ Head(call[c].pc) = step

Waiting == {c \in Clients : \E i \in DOMAIN call[c].pc : call[c].pc[i] = "lock"}

\* A request arrives.  Equipment has the id the client gives, a report the one it is given;
\* "dated" is whether an equipment comes with a created_at.
Call(c, steps, given, dated) ==
    /\ call[c] = Idle
    /\ IF steps[1] = "draw"
       THEN denials < deployment.denials /\ denials' = denials + 1
       ELSE turns + Cardinality(Waiting) < deployment.calls /\ UNCHANGED denials
    /\ given \in IF Kind = "report" \/ steps[1] = "draw" THEN {None}
                 ELSE IF Kind = "equipment" THEN ClientIds ELSE ClientIds \cup {None}
    /\ Kind # "equipment" => dated
    /\ call' = [call EXCEPT ![c] =
                   [pc |-> steps, ok |-> steps = Handler, id |-> given, dated |-> dated,
                    turn |-> 0, kept |-> 0, number |-> 0, report |-> None]]
    /\ UNCHANGED <<deployment, mu, memory, store, activity, turns, restarts, failures, history>>

\* The call goes on as r, or returns; it gives s.mu back when it returns.
Continue(c, r, holder) ==
    LET left == Tail(r.pc) IN
    /\ call' = [call EXCEPT ![c] = IF left = <<>> THEN Idle ELSE [r EXCEPT !.pc = left]]
    /\ mu' = IF left = <<>> /\ holder = c THEN None ELSE holder
    /\ answered' = IF left = <<>> /\ r.ok
                   THEN answered \cup {[turn |-> r.turn, id |-> r.id, report |-> r.report]}
                   ELSE answered

\* A database statement fails; the call answers ERROR.
Fail(c) ==
    /\ failures < deployment.failures
    /\ failures' = failures + 1
    /\ call' = [call EXCEPT ![c] = Idle]
    /\ mu' = IF mu = c THEN None ELSE mu
    /\ UNCHANGED answered

OnRecord == IF UseDB THEN activity.table ELSE activity.maps

\* The report's content, before s.mu is taken.  A table that cannot be read counts as empty.
Build(c, topic, readable) ==
    /\ At(c, "build")
    /\ readable \/ (UseDB /\ failures < deployment.failures)
    /\ failures' = IF readable THEN failures ELSE failures + 1
    /\ Continue(c, [call[c] EXCEPT !.report =
                       [topic |-> topic, readable |-> readable, all |-> OnRecord,
                        covers |-> payload(topic, readable)]], mu)
    /\ UNCHANGED <<deployment, memory, store, activity, turns, denials, restarts, dropped>>

\* s.mu.Lock(), and a new id if the request brought none
Lock(c) ==
    LET fresh == call[c].id = None IN
    /\ At(c, "lock") /\ mu = None
    /\ turns' = turns + 1
    /\ nextID' = IF fresh THEN nextID + 1 ELSE nextID
    /\ Continue(c, [call[c] EXCEPT !.turn = turns + 1, !.kept = turns + 1,
                                   !.id = IF fresh THEN nextID + 1 ELSE @], c)
    /\ UNCHANGED <<deployment, mirror, order, nextAuditID, log, store, activity, denials,
                   restarts, failures, dropped>>

Unlock(c) ==
    /\ At(c, "unlock")
    /\ Continue(c, call[c], None)
    /\ UNCHANGED <<deployment, memory, store, activity, bounds, dropped>>

Put(f, k, v) == [x \in DOMAIN f \cup {k} |-> IF x = k THEN v ELSE f[x]]

Lookup(f, k) == IF k \in DOMAIN f THEN {f[k]} ELSE {}

\* What the service finds under an id: {} if nothing
getEquipmentFromDB(id) == Lookup(rows, id)

GetEquipment(id) ==
    IF UseDB THEN getEquipmentFromDB(id) ELSE IF Cache THEN Lookup(mirror, id) ELSE {}

getReportRunFromDB(id) == Lookup(rows, id)

GetReportRun(id) == IF UseDB THEN getReportRunFromDB(id) ELSE Lookup(mirror, id)

\* The other services only list what they have.
Found(id) ==
    CASE Kind = "equipment" -> GetEquipment(id)
      [] Kind = "report"    -> GetReportRun(id)
      [] OTHER              -> Lookup(IF UseDB THEN rows ELSE mirror, id)

\* UpsertEquipment looks for the created_at of the equipment there is.
Read(c) ==
    LET there == Found(call[c].id) IN
    /\ At(c, "read")
    /\ \/ /\ Continue(c, [call[c] EXCEPT !.kept =
                             IF ~call[c].dated /\ there # {}
                             THEN (CHOOSE r \in there : TRUE).kept ELSE @], mu)
          /\ UNCHANGED failures
       \/ UseDB /\ Fail(c)
    /\ UNCHANGED <<deployment, memory, store, activity, turns, denials, restarts, dropped>>

\* The service's map and its list of ids.  The registry has no list: it sorts the ids.
MirrorStep(c) ==
    LET id == call[c].id IN
    /\ At(c, "mirror")
    /\ mirror' = Put(mirror, id, [body |-> call[c].turn, kept |-> call[c].kept])
    /\ order' = IF Kind = "equipment" THEN order ELSE Append(order, id)
    /\ Continue(c, call[c], mu)
    /\ UNCHANGED <<deployment, nextID, nextAuditID, log, store, activity, bounds, dropped>>

\* INSERT ... ON CONFLICT DO UPDATE: of every column, or of all but some
Keeping(f, id, r) ==
    IF id \in DOMAIN f THEN Put(f, id, [r EXCEPT !.kept = f[id].kept]) ELSE Put(f, id, r)

upsertEquipmentInDB(id, r) == Keeping(rows, id, r)

persistBonusTransaction(id, r) == Put(rows, id, r)

persistPromotionalAward(id, r) == Put(rows, id, r)

persistSystemWindowEvent(id, r) == Put(rows, id, r)

persistDownloadEntry(id, r) == Keeping(rows, id, r)

\* Faulty variant: ON CONFLICT DO NOTHING.
persistReportRunOnce(id, r) == IF id \in DOMAIN rows THEN rows ELSE Put(rows, id, r)

persistReportRun(id, r) == Keeping(rows, id, r)

Upserted(id, r) ==
    CASE Kind = "equipment" -> upsertEquipmentInDB(id, r)
      [] Kind = "bonus"     -> persistBonusTransaction(id, r)
      [] Kind = "award"     -> persistPromotionalAward(id, r)
      [] Kind = "window"    -> persistSystemWindowEvent(id, r)
      [] Kind = "download"  -> persistDownloadEntry(id, r)
      [] Kind = "report"    -> persistReportRun(id, r)

PersistStep(c) ==
    LET written == Upserted(call[c].id, [body |-> call[c].turn, kept |-> call[c].kept]) IN
    /\ At(c, "persist")
    /\ \/ rows' = written /\ Continue(c, call[c], mu) /\ UNCHANGED failures
       \/ rows' \in {rows, written} /\ Fail(c)
    /\ UNCHANGED <<deployment, memory, events, activity, turns, denials, restarts, dropped>>

\* s.nextAuditID++ is a read and a write: callers without s.mu may come between the two.
Draw(c) ==
    /\ At(c, "draw")
    /\ Continue(c, [call[c] EXCEPT !.number = nextAuditID + 1], mu)
    /\ UNCHANGED <<deployment, memory, store, activity, bounds, dropped>>

\* appendAuditEventToDB: ON CONFLICT (audit_id) DO NOTHING.  An event is a turn and an id;
\* that of a refusal is turn 0.
Event(c) == [turn |-> IF call[c].ok THEN call[c].turn ELSE 0, id |-> call[c].id]

Taken(c) == call[c].number \in DOMAIN events

Inserted(c) == IF Taken(c) THEN events ELSE Put(events, call[c].number, Event(c))

\* appendAudit: the table, then the AuditStore.  A refusal answers the same if it fails.
AppendAudit(c) ==
    /\ At(c, "audit") \/ At(c, "note")
    /\ nextAuditID' = call[c].number
    /\ \/ /\ events' = IF UseDB THEN Inserted(c) ELSE events
          /\ log' = log \cup {Event(c)}
          /\ dropped' = IF UseDB /\ Taken(c) THEN dropped \cup {Event(c)} ELSE dropped
          /\ Continue(c, call[c], mu)
          /\ UNCHANGED failures
       \/ /\ UseDB
          /\ events' \in {events, Inserted(c)}
          /\ Fail(c)
          /\ UNCHANGED <<log, dropped>>
    /\ UNCHANGED <<deployment, mirror, order, nextID, rows, activity, turns, denials, restarts>>

\* The process dies and starts again with empty maps and counters.
Crash ==
    /\ restarts < deployment.restarts
    /\ restarts' = restarts + 1
    /\ mu' = None
    /\ call' = [c \in Clients |-> Idle]
    /\ mirror' = <<>> /\ order' = <<>> /\ log' = {}
    /\ nextID' = 0 /\ nextAuditID' = 0
    /\ activity' = [activity EXCEPT !.maps = {}]
    /\ UNCHANGED <<deployment, store, turns, denials, failures, history>>

Init ==
    /\ deployment \in Deployments
    /\ mu = None /\ call = [c \in Clients |-> Idle]
    /\ mirror = <<>> /\ order = <<>> /\ log = {}
    /\ nextID = 0 /\ nextAuditID = 0
    /\ rows = <<>> /\ events = <<>>
    /\ activity = [table |-> {}, maps |-> {}]
    /\ turns = 0 /\ denials = 0 /\ restarts = 0 /\ failures = 0
    /\ answered = {} /\ dropped = {}

Next ==
    \/ \E c \in Clients :
        \/ \E steps \in {Handler} \cup Refusals, given \in ClientIds \cup {None},
              dated \in BOOLEAN : Call(c, steps, given, dated)
        \/ \E topic \in Topics, readable \in BOOLEAN : Build(c, topic, readable)
        \/ Lock(c) \/ Unlock(c) \/ Read(c) \/ MirrorStep(c) \/ PersistStep(c)
        \/ Draw(c) \/ AppendAudit(c)
    \/ \E t \in Times : Happen(t)
    \/ Crash

Spec == Init /\ [][Next]_vars

ConstantsAssumption ==
    /\ ClientIds \subseteq Nat \ {0}
    /\ Deployments \subseteq Deployment
    /\ None \notin Clients \cup ClientIds

-----------------------------------------------------------------------------
(* What the services promise.                                                *)

\* Success events that are kept: in the table, or without one in the AuditStore
Audited == {e \in IF UseDB THEN Range(events) ELSE log : e.turn > 0}

RowOf(id, turn) == \E r \in Found(id) : r.body >= turn

\* Types of the maps, the tables, the counters and the calls.
TypeOK ==
    /\ deployment \in Deployments /\ mu \in Clients \cup {None}
    /\ \A f \in {mirror, rows} : DOMAIN f \subseteq Ids /\ Range(f) \subseteq Rec
    /\ order \in Seq(Ids)
    /\ nextID \in 0..turns /\ nextAuditID \in 0..(turns + denials)
    /\ \A e \in Range(events) \cup log \cup dropped :
          e.turn \in 0..turns /\ e.id \in Ids \cup {None}
    /\ DOMAIN events \subseteq 1..(turns + denials)
    /\ turns \in 0..deployment.calls /\ denials \in 0..deployment.denials
    /\ \A a \in answered : a.turn \in 1..turns /\ a.id \in Ids
    /\ \A c \in Clients : call[c] # Idle => call[c].pc # <<>> /\ call[c].turn \in 0..turns

\* Whatever a service answers OK to is on record from then on, as that call or a later one
\* with the same id wrote it: no failed statement, no restart with its counters back at 1 and
\* no later refused call takes it away.  Without a database it is also in the list of ids.
OKIsRecorded ==
    \A a \in answered :
        /\ RowOf(a.id, a.turn)
        /\ ~UseDB /\ Kind # "equipment" => a.id \in Range(order)

\* The registry, the download log and the reports over a database write the audit event
\* first, so a row has the event of the call that wrote it; the others write the record
\* first, so an event has its record.  The one exception is an event whose number was taken,
\* which happens only after a restart or when two calls drew a number without the lock.
AuditAndRowsAgree ==
    /\ IF Kind \in {"equipment", "download"} \/ (Kind = "report" /\ UseDB)
       THEN \A id \in Ids : \A r \in Found(id) :
                [turn |-> r.body, id |-> id] \in Audited \cup dropped
       ELSE \A e \in Audited : RowOf(e.id, e.turn)
    /\ dropped # {} => restarts > 0 \/ denials > 0 \/ Kind = "report"

\* A report covers the entries of its interval that were on record when it was built, and
\* none outside it but those dated ahead in a life-to-date report; "No Activity" is the
\* truth unless the table could not be read, an error GenerateReport does not report.
ReportsCoverInterval ==
    \A a \in answered :
        (Kind = "report" /\ a.report.readable) =>
            LET r   == a.report
                due == IF r.topic.type = "liability" THEN r.all
                       ELSE IF r.topic.interval = "LTD" THEN r.all \ {"later"}
                       ELSE r.all \cap {"start", "within"}
            IN due \subseteq r.covers /\ r.covers \ due \subseteq
                   IF r.topic.interval = "LTD" THEN r.all \cap {"later"} ELSE {}

\* Every download operation that was answered OK can be told from what is kept: its audit
\* event, or the row of its entry, all columns of which are then its own.
OperationsRetained ==
    \A a \in answered :
        Kind = "download" =>
            \/ [turn |-> a.turn, id |-> a.id] \in Audited
            \/ rows[a.id] = [body |-> a.turn, kept |-> a.turn]

=============================================================================
