----------------------------- MODULE MCServices -----------------------------
(***************************************************************************)
(* Model-checking instances of the modules that do not interact with each  *)
(* other: one of them is chosen at the start, and the variables of the     *)
(* others stay None.                                                       *)
(***************************************************************************)
EXTENDS Services, TLC

CONSTANTS
    RunningServices,    \* the modules this run is about
    \* Records
    Clients, ClientIds, RecordDeployments,
    \* Paging
    Sizes, Default, MaxPage, Window, MaxInitial, MaxRows,
    \* Evidence
    Runs, Hosts, DevID, DevKey, OtherKey, Unreadable, Empty

VARIABLES
    mu, mirror, order, nextID, nextAuditID, log, events, activity, turns, denials, failures,
    answered, dropped,
    listing, list, made, at, done, due, seen, twice, shifted, receded,
    host, verifier, pc, files, exits, latest, signed, mishaps

ofRecords  == <<mu, mirror, order, nextID, nextAuditID, log, events, activity, turns, denials,
                failures, answered, dropped>>
ofPaging   == <<listing, list, made, at, done, due, seen, twice, shifted, receded>>
ofEvidence == <<host, verifier, pc, files, exits, latest, signed, mishaps>>

vars == <<servicesVars, ofRecords, ofPaging, ofEvidence>>

-----------------------------------------------------------------------------
(* The instances.                                                            *)

\* In memory; with a database and the maps; with a database alone (strict production)
SupportedDeployments ==
    {[db |-> FALSE, cache |-> TRUE,  restarts |-> 0],
     [db |-> TRUE,  cache |-> TRUE,  restarts |-> 1],
     [db |-> TRUE,  cache |-> FALSE, restarts |-> 1]}

\* Without the maps a configuration process remembers nothing a restart could lose.
CheckedConfigs ==
    {IF d.db /\ ~d.cache THEN [d EXCEPT !.restarts = 0] ELSE d : d \in SupportedDeployments}

R == INSTANCE Records WITH Deployments <- RecordDeployments
P == INSTANCE Paging
V == INSTANCE Evidence

\* For the key files in the hosts below, which do not depend on the hosts
K == INSTANCE Evidence WITH Hosts <- {}

ASSUME R!ConstantsAssumption /\ P!ConstantsAssumption

\* Each recording service on each deployment, with calls that overlap refused ones (awards and
\* window events are recorded as bonuses are); reports with two calls, with a call and a
\* refused one, and with one call and something to report
RecordsOn(kind, d, n, refused, entries) ==
    [kind |-> kind, db |-> d.db, cache |-> d.cache, calls |-> n, denials |-> refused,
     entries |-> entries, restarts |-> d.restarts, failures |-> IF d.db THEN 1 ELSE 0]

CheckedRecords ==
    {RecordsOn(k, d, IF k = "equipment" THEN 3 ELSE 2, 1, 0) :
        k \in {"equipment", "bonus", "award", "window", "download"}, d \in SupportedDeployments} \cup
    UNION {{RecordsOn("report", d, 2, 0, 0), RecordsOn("report", d, 1, 1, 0),
            RecordsOn("report", d, 1, 0, 2)} : d \in SupportedDeployments}

\* One download after another across a restart, and nothing fails
RestartedDownloads ==
    {[RecordsOn("download", [db |-> TRUE, cache |-> TRUE, restarts |-> 1], 2, 0, 0)
        EXCEPT !.failures = 0]}

CheckedSizes == {-1, 0, 1, 3}

\* Environments without keys; with the files attestkeygen writes for a single key; with those
\* for a ring, and a command that prints the ring next to an older key; with a ring that
\* cannot be read before the single key; and with assignments, as attestkeygen prints them
\* or with the public key from a file
Environment(id, keys, enforce) ==
    [id |-> id, private |-> keys.private, public |-> keys.public, enforce |-> enforce,
     allowInline |-> FALSE]

Unset      == [ring |-> K!NoSource, single |-> K!NoSource]
Developer  == Environment(DevID, [private |-> Unset, public |-> Unset], FALSE)
SingleHost == Environment("ci", K!writeSecretFiles("ci", OtherKey, FALSE), TRUE)
RingHost   == [Environment("ci", K!writeSecretFiles("ci", DevKey, TRUE), TRUE) EXCEPT
                  !.public.ring = [K!NoSource EXCEPT
                      !.command = [ring |-> "ci" :> DevKey @@ DevID :> OtherKey]]]
Mislaid    == [SingleHost EXCEPT !.public.ring.file = Unreadable]
Assigned(ring, enforce) ==
    Environment("ci", K!renderAssignments("ci", OtherKey, ring), enforce)
Exported   == [Assigned(FALSE, FALSE) EXCEPT !.public = SingleHost.public]

CheckedHosts ==
    {<<Developer, Developer, 1>>, <<RingHost, RingHost, 2>>, <<SingleHost, RingHost, 1>>,
     <<SingleHost, Mislaid, 0>>, <<Exported, SingleHost, 0>>,
     <<Assigned(FALSE, FALSE), SingleHost, 0>>, <<Assigned(TRUE, FALSE), RingHost, 0>>,
     <<Assigned(FALSE, TRUE), SingleHost, 0>>}

\* The players, the configuration values, the equipment, the clients and the evidence runs
\* are all the same two names: only one of the modules runs, and none tells them apart.
Interchangeable == Permutations(Players)

-----------------------------------------------------------------------------
(* One of them runs.                                                         *)

NoRecords  == /\ mu = None /\ mirror = None /\ order = None /\ nextID = None
              /\ nextAuditID = None /\ log = None /\ events = None /\ activity = None
              /\ turns = None /\ denials = None /\ failures = None /\ answered = None
              /\ dropped = None
NoPaging   == /\ listing = None /\ list = None /\ made = None /\ at = None /\ done = None
              /\ due = None /\ seen = None /\ twice = None /\ shifted = None
              /\ receded = None
NoEvidence == /\ host = None /\ verifier = None /\ pc = None /\ files = None
              /\ exits = None /\ latest = None /\ signed = None /\ mishaps = None
NoCall     == audited = None /\ call = None /\ drawn = None

Init ==
    /\ service \in RunningServices
    /\ \/ ServicesInit /\ NoRecords /\ NoPaging /\ NoEvidence
       \/ /\ service = "records"
          /\ R!Init /\ NoSessions /\ NoConfig /\ NoEvents /\ NoPaging /\ NoEvidence
          /\ audited = None /\ drawn = None
       \/ /\ service = "paging"
          /\ P!Init /\ NoSessions /\ NoConfig /\ NoEvents /\ NoRecords /\ NoEvidence
          /\ NoStore /\ NoCall
       \/ /\ service = "evidence"
          /\ V!Init /\ NoSessions /\ NoConfig /\ NoEvents /\ NoRecords /\ NoPaging
          /\ NoStore /\ NoCall

Next ==
    \/ ServicesNext /\ UNCHANGED <<ofRecords, ofPaging, ofEvidence>>
    \/ /\ service = "records" /\ R!Next
       /\ UNCHANGED <<service, ofSessions, ofConfig, ofEvents, ofPaging, ofEvidence, audited, drawn>>
    \/ /\ service = "paging" /\ P!Next
       /\ UNCHANGED <<servicesVars, ofRecords, ofEvidence>>
    \/ /\ service = "evidence" /\ V!Next
       /\ UNCHANGED <<servicesVars, ofRecords, ofPaging>>

Spec == Init /\ [][Next]_vars

-----------------------------------------------------------------------------
(* Properties, besides those of Services.                                    *)

\* The type invariant of the service that runs
ServicesTypeOK ==
    CASE service = "sessions" -> S!TypeOK
      [] service = "config"   -> C!TypeOK
      [] service = "events"   -> E!TypeOK
      [] service = "records"  -> R!TypeOK
      [] service = "paging"   -> P!TypeOK
      [] service = "evidence" -> V!TypeOK

\* Records!OKIsRecorded and Records!AuditAndRowsAgree: what a service answered OK to stays on
\* record, and what it stored and what it audited agree in the way its order of writes allows.
OKIsRecorded == service = "records" => R!OKIsRecorded /\ R!AuditAndRowsAgree

\* Records!ReportsCoverInterval: a report covers its interval, and "No Activity" is true.
ReportsCoverInterval == service = "records" => R!ReportsCoverInterval

\* Records!OperationsRetained: every download operation can be told from what is kept.
OperationsRetained == service = "records" => R!OperationsRetained

\* Paging!PagesCoverList: following the tokens of a listing misses no row.
PagesCoverList == service = "paging" => P!PagesCoverList

\* Evidence!AcceptedIsOneRun: an accepted directory is what one run signed.
AcceptedIsOneRun == service = "evidence" => V!AcceptedIsOneRun

\* Evidence!FinishedRunIsAccepted: the files a run leaves are accepted.
FinishedRunIsAccepted == service = "evidence" => V!FinishedRunIsAccepted

=============================================================================
