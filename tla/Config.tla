------------------------------- MODULE Config -------------------------------
(***************************************************************************)
(* ConfigService (config_grpc.go, config_postgres.go): a configuration     *)
(* change is proposed, approved and applied, each by one call that holds   *)
(* s.mu throughout and writes in up to three separate statements: the      *)
(* audit event, the row of config_changes and the row of                   *)
(* config_current_values.  Any statement may fail, its effect lost or not, *)
(* and the process may die between two of them.                            *)
(*                                                                         *)
(* Change ids "cfg-N" are numbers here; namespaces are part of the key.    *)
(* Reasons, actors, times and the previous value of a change are written   *)
(* and listed but decide nothing, and are left out.                        *)
(*                                                                         *)
(* Change numbers start over with the process.  An id handed out twice     *)
(* joins two changes in one row, and may set an applied one back to        *)
(* proposed: that is in the model, and the properties exempt such ids.     *)
(***************************************************************************)
EXTENDS Integers

CONSTANTS
    Operator, Player,   \* actors that may and may not change configuration
    Keys, Values,
    Deployments,        \* what the service may run on
    MaxChanges,         \* bound: proposals by one process
    None                \* no value, no row, an empty field

Ids      == 1..MaxChanges
Statuses == {"PROPOSED", "APPROVED", "APPLIED"}
Change   == [key : Keys, value : Values, status : Statuses]

Deployment == [db : BOOLEAN, cache : BOOLEAN, restarts : Nat]

ConstantsAssumption ==
    /\ Operator # Player
    /\ None \notin Keys \cup Values /\ None \notin Ids /\ None \notin Change
    /\ MaxChanges \in Nat \ {0}
    /\ Deployments \subseteq Deployment

VARIABLES
    deployment,     \* chosen once
    changes,        \* the map of changes, without entry where None
    currentValues,  \* the map of values
    nextChangeID,
    rows,           \* config_changes
    values,         \* config_current_values
    audited,        \* success events: <<action, change id, key, value>>
    call,           \* the call that holds s.mu
    restarts,
    drawn, reused   \* change ids ever handed out, and those handed out twice

memory == <<changes, currentValues, nextChangeID>>
store  == <<rows, values, audited>>
ids    == <<drawn, reused>>
vars   == <<deployment, memory, store, call, restarts, ids>>

UseDB == deployment.db
Cache == deployment.cache       \* ~disableInMemoryCache

Idle == [pc |-> "idle"]

\* authorize
authorized(actor) == actor = Operator

\* The call answers; its code is noted where it is made.
Return == call' = Idle

\* What a statement leaves behind when it fails: the database may have taken it.
Failed(before, after) == IF UseDB THEN {before, after} ELSE {before}

-----------------------------------------------------------------------------

\* ProposeConfigChange up to appendAudit
ProposeConfigChange(actor, key, value) ==
    LET id == nextChangeID + 1 IN
    /\ call = Idle
    /\ \/ /\ None \in {key, value}
          /\ Return          \* INVALID
          /\ UNCHANGED <<nextChangeID, ids>>
       \/ /\ None \notin {key, value} /\ ~authorized(actor)
          /\ Return          \* DENIED
          /\ UNCHANGED <<nextChangeID, ids>>
       \/ /\ None \notin {key, value} /\ authorized(actor)
          /\ nextChangeID < MaxChanges
          /\ nextChangeID' = id
          /\ drawn' = drawn \cup {id}
          /\ reused' = IF id \in drawn THEN reused \cup {id} ELSE reused
          /\ \/ UseDB /\ Return                \* ERROR: getCurrentValue
             \/ /\ call' = [pc |-> "audit", action |-> "propose", id |-> id,
                            change |-> [key |-> key, value |-> value, status |-> "PROPOSED"]]
    /\ UNCHANGED <<deployment, changes, currentValues, store, restarts>>

\* The change a call finds: the map first, then the table
Found(id) == IF changes[id] # None THEN changes[id]
             ELSE IF UseDB THEN rows[id] ELSE None

\* The start of ApproveConfigChange and ApplyConfigChange: a change in the state `from`
\* moves to the state `to`, in the map itself if there is one, before anything is written.
\* A change loaded from the table is kept in the map even if it is then refused.
Advance(actor, id, action, from, to) ==
    LET c == Found(id)
        moved == [c EXCEPT !.status = to]
    IN
    /\ call = Idle
    /\ \/ /\ id = None
          /\ Return          \* INVALID
          /\ UNCHANGED changes
       \/ /\ id # None /\ ~authorized(actor)
          /\ Return          \* DENIED
          /\ UNCHANGED changes
       \/ /\ id # None /\ authorized(actor)
          /\ \/ /\ changes[id] = None /\ UseDB          \* getConfigChange
                /\ Return          \* ERROR
                /\ UNCHANGED changes
             \/ /\ c = None
                /\ Return          \* INVALID
                /\ UNCHANGED changes
             \/ /\ c # None /\ c.status # from
                /\ Return          \* DENIED
                /\ changes' = IF Cache THEN [changes EXCEPT ![id] = c] ELSE changes
             \/ /\ c # None /\ c.status = from
                /\ changes' = IF Cache THEN [changes EXCEPT ![id] = moved] ELSE changes
                /\ call' = [pc |-> "audit", action |-> action, id |-> id, change |-> moved]
    /\ UNCHANGED <<deployment, nextChangeID, store, restarts, ids>>

ApproveConfigChange(actor, id) ==
    /\ Advance(actor, id, "approve", "PROPOSED", "APPROVED")
    /\ UNCHANGED currentValues

\* Faulty variant: the value is put into the map before the status is looked at.
ApplyValueFirst(actor, id) ==
    /\ Advance(actor, id, "apply", "APPROVED", "APPLIED")
    /\ currentValues' =
           IF Cache /\ id # None /\ Found(id) # None /\ authorized(actor)
           THEN [currentValues EXCEPT ![Found(id).key] = Found(id).value]
           ELSE currentValues

\* The value goes into the map with the status, before the audit event.
ApplyConfigChange(actor, id) ==
    /\ Advance(actor, id, "apply", "APPROVED", "APPLIED")
    /\ currentValues' =
           IF call' # Idle /\ Cache
           THEN [currentValues EXCEPT ![call'.change.key] = call'.change.value]
           ELSE currentValues

-----------------------------------------------------------------------------

Event == <<call.action, call.id, call.change.key, call.change.value>>

\* A failure ends the call and takes nothing back.
appendAudit ==
    /\ call.pc = "audit"
    /\ \/ /\ Return          \* ERROR
          /\ audited' \in Failed(audited, audited \cup {Event})
       \/ /\ audited' = audited \cup {Event}
          /\ call' = [call EXCEPT !.pc = "change"]
    /\ UNCHANGED <<deployment, memory, rows, values, restarts, ids>>

\* ON CONFLICT (change_id): of an existing row only the status is written.
Upserted ==
    [rows EXCEPT ![call.id] =
        IF @ = None THEN call.change ELSE [@ EXCEPT !.status = call.change.status]]

\* What follows the upsert: a proposal enters the map, an applied change writes its value.
ChangePersisted ==
    /\ changes' = IF call.action = "propose" /\ Cache
                  THEN [changes EXCEPT ![call.id] = call.change] ELSE changes
    /\ IF call.action = "apply" THEN call' = [call EXCEPT !.pc = "value"]
       ELSE Return          \* OK

persistConfigChange ==
    /\ call.pc = "change"
    /\ \/ /\ UseDB
          /\ Return          \* ERROR
          /\ rows' \in Failed(rows, Upserted)
          /\ UNCHANGED changes
       \/ /\ rows' = IF UseDB THEN Upserted ELSE rows
          /\ ChangePersisted
    /\ UNCHANGED <<deployment, currentValues, nextChangeID, values, audited, restarts, ids>>

persistCurrentValue ==
    LET written == [values EXCEPT ![call.change.key] = call.change.value] IN
    /\ call.pc = "value"
    /\ \/ /\ UseDB
          /\ Return          \* ERROR
          /\ values' \in Failed(values, written)
       \/ /\ Return          \* OK
          /\ values' = IF UseDB THEN written ELSE values
    /\ UNCHANGED <<deployment, memory, rows, audited, restarts, ids>>

\* NewConfigService: the maps are empty and the counter starts over.
NewMaps ==
    /\ changes' = [id \in Ids |-> None]
    /\ currentValues' = [k \in Keys |-> None]
    /\ nextChangeID' = 0

\* The process dies, during a call or not, and another takes its place.
Restart ==
    /\ restarts < deployment.restarts
    /\ restarts' = restarts + 1
    /\ NewMaps
    /\ call' = Idle
    /\ UNCHANGED <<deployment, store, ids>>

Init ==
    /\ deployment \in Deployments
    /\ changes = [id \in Ids |-> None]
    /\ currentValues = [k \in Keys |-> None]
    /\ nextChangeID = 0
    /\ rows = [id \in Ids |-> None]
    /\ values = [k \in Keys |-> None]
    /\ audited = {}
    /\ call = Idle
    /\ restarts = 0
    /\ drawn = {} /\ reused = {}

Next ==
    \/ \E actor \in {Operator, Player} :
          \/ \E key \in Keys \cup {None}, value \in Values \cup {None} :
                ProposeConfigChange(actor, key, value)
          \/ \E id \in Ids \cup {None} : ApproveConfigChange(actor, id) \/ ApplyConfigChange(actor, id)
    \/ appendAudit \/ persistConfigChange \/ persistCurrentValue
    \/ Restart

Spec == Init /\ [][Next]_vars

-----------------------------------------------------------------------------
(* Properties.  Change ids start over with each process, and an id handed    *)
(* out twice joins two changes in one row; the properties say what holds     *)
(* as long as that has not happened, restarts included.                      *)

\* Types of the maps, the tables and the call in progress.
TypeOK ==
    /\ deployment \in Deployments /\ deployment \in Deployment
    /\ changes \in [Ids -> Change \cup {None}]
    /\ rows \in [Ids -> Change \cup {None}]
    /\ currentValues \in [Keys -> Values \cup {None}]
    /\ values \in [Keys -> Values \cup {None}]
    /\ nextChangeID \in 0..MaxChanges
    /\ audited \subseteq {"propose", "approve", "apply"} \X Ids \X Keys \X Values
    /\ call.pc \in {"idle", "audit", "change", "value"}
    /\ call # Idle => call.id \in Ids /\ call.change \in Change
    /\ restarts \in 0..deployment.restarts
    /\ reused \subseteq drawn /\ drawn \subseteq Ids

\* The audit trail of change `id`, as far as `status`
Trail(id, c, status) ==
    LET actions == CASE status = "PROPOSED" -> {"propose"}
                     [] status = "APPROVED" -> {"propose", "approve"}
                     [] status = "APPLIED"  -> {"propose", "approve", "apply"}
    IN  {<<action, id, c.key, c.value>> : action \in actions}

\* Without the maps (strict production), what a process writes is backed by the audit
\* trail whichever statement fails: a row in some state has the events that lead to that
\* state, and a value in force is the value of a change that was proposed, approved and
\* applied.  (With the maps an approval whose audit event failed stays in force.)
HistoryIsAudited ==
    UseDB /\ ~Cache /\ restarts = 0 =>
        /\ \A id \in Ids : rows[id] # None => Trail(id, rows[id], rows[id].status) \subseteq audited
        /\ \A k \in Keys : values[k] # None =>
              \E id \in Ids : Trail(id, [key |-> k, value |-> values[k]], "APPLIED") \subseteq audited

\* A value in force comes from an applied change, in the tables (whichever statement fails
\* and wherever a process dies) and in the maps, where both are changed before the audit
\* event is known to be written.
ValuesComeFromChanges ==
    reused = {} => \A k \in Keys :
        /\ values[k] # None =>
              \E id \in Ids : rows[id] = [key |-> k, value |-> values[k], status |-> "APPLIED"]
        /\ currentValues[k] # None =>
              \E id \in Ids : changes[id] = [key |-> k, value |-> currentValues[k], status |-> "APPLIED"]

Rank == [PROPOSED |-> 1, APPROVED |-> 2, APPLIED |-> 3]

\* The row of a change keeps its key and value and its status only moves forward, across
\* failed calls that left the map ahead of the table, retries and restarts.
RowsAdvance ==
    \A id \in Ids : rows[id] # None /\ id \notin reused' =>
        /\ rows'[id] = [rows[id] EXCEPT !.status = rows'[id].status]
        /\ Rank[rows[id].status] <= Rank[rows'[id].status]

=============================================================================
