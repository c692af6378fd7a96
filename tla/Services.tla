------------------------------ MODULE Services ------------------------------
(***************************************************************************)
(* Sessions, Config and Events: the services that keep a store of their    *)
(* own, write an audit event for what they store, and do not interact with *)
(* each other.  One of them is chosen at the start, and the variables of   *)
(* the others stay None.                                                   *)
(***************************************************************************)
EXTENDS Integers

CONSTANTS
    \* Sessions
    Players, SessionIds, Timeouts, DefaultTimeout, MaxTimeout, MaxServers, MaxTime,
    \* Config
    Keys, Values, MaxChanges, ConfigDeployments,
    \* Events
    EventIds, MeterIds, Equipment, bufferCap, MaxSubmissions, EventDeployments,
    \* several
    Operator, Player, None

VARIABLES
    service,
    deployment, rows, audited, call, restarts, drawn,
    servers, sessions, now,
    changes, currentValues, nextChangeID, values, reused,
    records, buffers, disabled, equipment, bufferRows, failed

ofSessions == <<servers, sessions, now>>
ofConfig   == <<changes, currentValues, nextChangeID, values, reused>>
ofEvents   == <<records, buffers, disabled, equipment, bufferRows, failed>>
ofSeveral  == <<deployment, rows, audited, call, restarts, drawn>>

servicesVars == <<service, ofSessions, ofConfig, ofEvents, ofSeveral>>

S == INSTANCE Sessions
C == INSTANCE Config WITH Deployments <- ConfigDeployments
E == INSTANCE Events WITH Deployments <- EventDeployments

ASSUME ServicesAssumption ==
    S!ConstantsAssumption /\ C!ConstantsAssumption /\ E!ConstantsAssumption

-----------------------------------------------------------------------------
(* One of them runs.                                                         *)

NoSessions == servers = None /\ sessions = None /\ now = None
NoConfig   == /\ changes = None /\ currentValues = None /\ nextChangeID = None
              /\ values = None /\ reused = None
NoEvents   == /\ records = None /\ buffers = None /\ disabled = None /\ equipment = None
              /\ bufferRows = None /\ failed = None
NoStore    == deployment = None /\ rows = None /\ restarts = None

ServicesInit ==
    \/ service = "sessions" /\ S!Init /\ NoConfig /\ NoEvents /\ NoStore
    \/ service = "config" /\ C!Init /\ NoSessions /\ NoEvents
    \/ service = "events" /\ E!Init /\ NoSessions /\ NoConfig /\ drawn = None

ServicesNext ==
    /\ UNCHANGED service
    /\ \/ /\ service = "sessions" /\ S!Next
          /\ UNCHANGED <<ofConfig, ofEvents, deployment, rows, restarts>>
       \/ /\ service = "config" /\ C!Next
          /\ UNCHANGED <<ofSessions, ofEvents>>
       \/ /\ service = "events" /\ E!Next
          /\ UNCHANGED <<ofSessions, ofConfig, drawn>>

ServicesSpec == ServicesInit /\ [][ServicesNext]_servicesVars

-----------------------------------------------------------------------------
(* Properties.                                                               *)

\* A session that is over stays as it ended (EndSession, GetSession); the row of a
\* configuration change keeps its key and value and only moves forward (ApproveConfigChange,
\* ApplyConfigChange); the first event or meter record under an id stays
\* (SubmitSignificantEvent, SubmitMeterSnapshot).
NothingIsUndone ==
    [][/\ service = "sessions" => S!FinishedStays
       /\ service = "config" => C!RowsAdvance
       /\ service = "events" => E!FirstRecordStays]_servicesVars

\* What a service has stored and what it has audited agree, each service in the way its
\* order of writes allows: ends of sessions, configuration without the maps, and events and
\* meters (EndSession, ApplyConfigChange, SubmitSignificantEvent).
AuditExplainsStore ==
    /\ service = "sessions" => S!AuditedEndsHold
    /\ service = "config" => C!HistoryIsAudited
    /\ service = "events" => E!StoredIsAudited

\* Sessions!DeadlinesHold: no session is expired before its deadline or used after it.
DeadlinesHold == service = "sessions" => S!DeadlinesHold

\* Config!ValuesComeFromChanges: a value in force comes from an applied change.
ValuesComeFromChanges == service = "config" => C!ValuesComeFromChanges

\* Events!BufferAccounts: the ingestion buffer counts what it holds, and disables in time.
BufferAccounts == service = "events" => E!BufferAccounts

=============================================================================
