------------------------------- MODULE Events -------------------------------
(***************************************************************************)
(* EventsService (events_grpc.go, events_postgres.go): significant events  *)
(* and meter records are taken in through a buffer of at most bufferCap    *)
(* unacknowledged submissions.  A call holds s.mu throughout; it queues a  *)
(* slot, writes the audit event, writes the record and its buffer row in   *)
(* one transaction, and acknowledges the slot.  Either write may fail, the *)
(* transaction committed or not, and the process may die between them.     *)
(*                                                                         *)
(* A record is told apart by its type and its equipment.                   *)
(***************************************************************************)
EXTENDS Integers, Sequences, FiniteSets

CONSTANTS
    Operator, Player,       \* actors that may and may not submit
    EventIds, MeterIds,
    Equipment,
    bufferCap,
    Deployments,            \* what the service may run on
    MaxSubmissions,         \* bound: slots queued by one process
    None                    \* no record, an empty field

RecordIds == EventIds \cup MeterIds
Record    == [equipment : Equipment, type : {"event", "snapshot", "delta"}]

Deployment == [db : BOOLEAN, cache : BOOLEAN, restarts : Nat]

ConstantsAssumption ==
    /\ Operator # Player
    /\ EventIds \cap MeterIds = {}
    /\ None \notin RecordIds \cup Equipment /\ None \notin Record
    /\ bufferCap \in Nat \ {0} /\ MaxSubmissions \in Nat
    /\ Deployments \subseteq Deployment

VARIABLES
    deployment,     \* chosen once
    records,        \* the maps of events and of meters, without entry where None
    buffers,        \* status of each slot, in the order of their ids
    disabled,
    rows,           \* significant_events and meter_records
    equipment,      \* equipment_registry
    bufferRows,     \* number of rows of ingestion_buffers
    audited,        \* success events: <<record id, record>>
    call,           \* the call that holds s.mu
    restarts,
    failed          \* calls of this process that failed after queueing a slot

memory == <<records, buffers, disabled, failed>>
tables == <<rows, equipment, bufferRows>>
vars   == <<deployment, memory, tables, audited, call, restarts>>

UseDB == deployment.db
Cache == deployment.cache       \* ~disableInMemoryCache

Idle == [pc |-> "idle"]

\* authorizeWrite
authorized(actor) == actor = Operator

queued == Cardinality({i \in DOMAIN buffers : buffers[i] = "queued"})

\* The call answers; its code is noted where it is made.
Return == call' = Idle

-----------------------------------------------------------------------------

\* Faulty variant: one slot too many.
queueBufferLate ==
    /\ ~disabled /\ queued <= bufferCap /\ Len(buffers) < MaxSubmissions
    /\ buffers' = Append(buffers, "queued")
    /\ UNCHANGED disabled

\* queueBufferLocked with a free slot
queueBuffer ==
    /\ ~disabled /\ queued < bufferCap /\ Len(buffers) < MaxSubmissions
    /\ buffers' = Append(buffers, "queued")
    /\ UNCHANGED disabled

\* queueBufferLocked without: ingress is disabled from now on
bufferExhausted ==
    /\ disabled \/ queued >= bufferCap
    /\ disabled' = TRUE
    /\ UNCHANGED buffers

\* The body that SubmitSignificantEvent and submitMeter share, up to appendAudit
Submit(actor, id, record) ==
    /\ call = Idle
    /\ \/ /\ id = None \/ record.equipment = None
          /\ Return      \* INVALID
          /\ UNCHANGED <<buffers, disabled>>
       \/ /\ id # None /\ record.equipment # None /\ ~authorized(actor)
          /\ Return      \* DENIED
          /\ UNCHANGED <<buffers, disabled>>
       \/ /\ id # None /\ record.equipment # None /\ authorized(actor)
          /\ \/ /\ records[id] # None
                /\ Return      \* OK, with records[id]
                /\ UNCHANGED <<buffers, disabled>>
             \/ /\ records[id] = None
                /\ bufferExhausted
                /\ Return      \* DENIED
             \/ /\ records[id] = None
                /\ queueBuffer
                /\ call' = [pc |-> "audit", id |-> id, record |-> record]
    /\ UNCHANGED <<deployment, records, failed, tables, audited, restarts>>

SubmitSignificantEvent(actor, id, q) == Submit(actor, id, [equipment |-> q, type |-> "event"])

SubmitMeterSnapshot(actor, id, q) == Submit(actor, id, [equipment |-> q, type |-> "snapshot"])

\* Faulty variant: the record type is not set.
SubmitMeterUntyped(actor, id, q) == Submit(actor, id, [equipment |-> q, type |-> "unspecified"])

SubmitMeterDelta(actor, id, q) == Submit(actor, id, [equipment |-> q, type |-> "delta"])

\* ERROR: a failure after queueing leaves the slot queued.
Fail == Return /\ failed' = failed + 1

\* Faulty variant: the call goes on when the audit event was not written.
appendAuditUnnoticed ==
    /\ call.pc = "audit"
    /\ audited' \in {audited, audited \cup {<<call.id, call.record>>}}
    /\ call' = [call EXCEPT !.pc = "persist"]
    /\ UNCHANGED <<deployment, records, buffers, disabled, failed, tables, restarts>>

appendAudit ==
    /\ call.pc = "audit"
    /\ \/ /\ Fail
          /\ audited' \in {audited} \cup IF UseDB THEN {audited \cup {<<call.id, call.record>>}} ELSE {}
       \/ /\ audited' = audited \cup {<<call.id, call.record>>}
          /\ call' = [call EXCEPT !.pc = "persist"]
          /\ UNCHANGED failed
    /\ UNCHANGED <<deployment, records, buffers, disabled, tables, restarts>>

\* Faulty variant: the row is overwritten.
InsertOver ==
    /\ equipment' = equipment \cup {call.record.equipment}
    /\ rows' = [rows EXCEPT ![call.id] = call.record]
    /\ bufferRows' = bufferRows + 1

\* The transaction: ensureEquipmentRowTx, the record (ON CONFLICT DO NOTHING), persistBufferTx
Insert ==
    /\ equipment' = equipment \cup {call.record.equipment}
    /\ rows' = [rows EXCEPT ![call.id] = IF @ = None THEN call.record ELSE @]
    /\ bufferRows' = bufferRows + 1

\* acknowledgeBufferLocked: the slot of this call is the last one queued
acknowledgeBuffer == buffers' = [buffers EXCEPT ![Len(buffers)] = "acknowledged"]

\* The record enters its map, if there is one, and is returned.
StoreAndAnswer ==
    /\ records' = IF Cache THEN [records EXCEPT ![call.id] = call.record] ELSE records
    /\ Return      \* OK, with the record

\* persistSignificantEvent or persistMeterRecord, then the rest of the call
persist ==
    /\ call.pc = "persist"
    /\ \/ /\ UseDB
          /\ Fail
          /\ Insert \/ UNCHANGED tables
          /\ UNCHANGED <<records, buffers>>
       \/ /\ IF UseDB THEN Insert ELSE UNCHANGED tables
          /\ StoreAndAnswer
          /\ acknowledgeBuffer
          /\ UNCHANGED failed
    /\ UNCHANGED <<deployment, disabled, audited, restarts>>

\* NewEventsService after the process died, during a call or not
Restart ==
    /\ restarts < deployment.restarts
    /\ restarts' = restarts + 1
    /\ records' = [id \in RecordIds |-> None]
    /\ buffers' = <<>> /\ disabled' = FALSE /\ failed' = 0
    /\ call' = Idle
    /\ UNCHANGED <<deployment, tables, audited>>

Init ==
    /\ deployment \in Deployments
    /\ records = [id \in RecordIds |-> None]
    /\ buffers = <<>> /\ disabled = FALSE /\ failed = 0
    /\ rows = [id \in RecordIds |-> None]
    /\ equipment = {} /\ bufferRows = 0 /\ audited = {}
    /\ call = Idle
    /\ restarts = 0

Next ==
    \/ \E actor \in {Operator, Player}, q \in Equipment \cup {None} :
          \/ \E id \in EventIds \cup {None} : SubmitSignificantEvent(actor, id, q)
          \/ \E id \in MeterIds \cup {None} :
                SubmitMeterSnapshot(actor, id, q) \/ SubmitMeterDelta(actor, id, q)
    \/ appendAudit \/ persist \/ Restart

Spec == Init /\ [][Next]_vars

-----------------------------------------------------------------------------
(* Properties.                                                               *)

\* Types of the maps, the buffer, the tables and the call in progress.
TypeOK ==
    /\ deployment \in Deployments /\ deployment \in Deployment
    /\ records \in [RecordIds -> Record \cup {None}]
    /\ rows \in [RecordIds -> Record \cup {None}]
    /\ buffers \in Seq({"queued", "acknowledged"}) /\ Len(buffers) <= MaxSubmissions
    /\ disabled \in BOOLEAN /\ failed \in Nat /\ bufferRows \in Nat
    /\ equipment \subseteq Equipment
    /\ audited \subseteq RecordIds \X Record
    /\ call.pc \in {"idle", "audit", "persist"}
    /\ call # Idle => call.id \in RecordIds /\ call.record \in Record
    /\ restarts \in 0..deployment.restarts

\* The buffer holds the submissions that failed, and the one in progress, and nothing
\* else: a slot is given back by success alone, never twice, and at most bufferCap are
\* out.  Ingress is disabled only when as many submissions as the buffer holds failed.
\* Every slot given back has its row of ingestion_buffers, and no slot has two, however
\* transactions end.
BufferAccounts ==
    /\ queued = failed + (IF call = Idle THEN 0 ELSE 1)
    /\ queued <= bufferCap
    /\ disabled => failed = bufferCap
    /\ UseDB /\ restarts = 0 =>
          Len(buffers) - queued <= bufferRows /\ bufferRows <= Len(buffers)

\* The first record stored under an id stays: no later submission of the id, in this
\* process or the next, changes its row, its type or its equipment.
FirstRecordStays ==
    \A id \in RecordIds :
        /\ rows[id] # None => rows'[id] = rows[id]
        /\ records[id] # None /\ restarts' = restarts => records'[id] = records[id]

\* Everything stored is explained by the audit trail of the process: a record in a map or a
\* table has an audit event with exactly that record, and its equipment is registered.
StoredIsAudited ==
    restarts = 0 => \A id \in RecordIds, r \in Record :
        /\ records[id] = r \/ rows[id] = r => <<id, r>> \in audited
        /\ rows[id] = r => r.equipment \in equipment

=============================================================================
