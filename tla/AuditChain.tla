----------------------------- MODULE AuditChain -----------------------------
(***************************************************************************)
(* The audit trail: audit.InMemoryStore (chain.go, store.go), the           *)
(* audit_events table that appendAuditEventToDB extends, and               *)
(* verifyAuditChainFromDB (audit_postgres.go).  Services append at the same *)
(* time, each with its own audit id prefix, counter and memory store; the  *)
(* database runs their transactions at READ COMMITTED.  Within a service   *)
(* the handler that holds s.mu appends alone, except for the denials of    *)
(* calls that are refused before they take s.mu: they use the same counter *)
(* without a lock.                                                         *)
(*                                                                         *)
(* SHA-256 is modelled as injective: a hash is the sequence of what was    *)
(* hashed, GENESIS the empty one.                                          *)
(***************************************************************************)
EXTENDS Integers, Sequences, FiniteSets, SequencesExt

CONSTANTS
    Services,       \* numbered in the text order of their audit id prefixes
    Refusals,       \* bound: calls of a service being refused outside s.mu
    Payloads,       \* before and after states: a subset of {"nil", "empty", "object"}
    Radix,          \* of the decimal counter in an audit id (10 in the code)
    Micro,          \* clock units per microsecond, the resolution of timestamptz
    DayLength,      \* clock units per day
    MaxTime,        \* bound: the clock
    MaxEvents,      \* bound: events of a service, between two restarts
    MaxRows,        \* bound: events of a behaviour
    MaxFaults,      \* bound: restarts and rewritten rows of a behaviour
    NoRow

Ids == Services \X (1..MaxEvents)

ASSUME AuditAssumption ==
    /\ Services \subseteq Nat /\ Refusals \in Nat
    /\ Payloads \subseteq {"nil", "empty", "object"}
    /\ Radix \in Nat \ {0, 1} /\ Micro \in Nat \ {0} /\ DayLength \in Nat \ {0}
    /\ MaxTime \in Nat /\ MaxEvents \in Nat /\ MaxRows \in Nat /\ MaxFaults \in Nat
    /\ NoRow \notin Ids

VARIABLES
    rows,       \* audit_events: a set of rows
    events,     \* by service: InMemoryStore.events
    nextAuditID,
    append,     \* by appender: the append in progress
    clock,
    contested,  \* history: ids that were taken when they were drawn, since the last restart
    altered,    \* ids of the rows rewritten behind the service's back
    faults

auditVars == <<rows, events, nextAuditID, append, clock, contested, altered, faults>>

Appenders == Services \X (0..Refusals)   \* 0: the handler that holds s.mu

Times == 0..MaxTime
NoAppend == [pc |-> "idle"]

GENESIS == <<>>

\* What ComputeHash feeds to SHA-256, after the previous hash.
ComputeHash(prev, id, time, payload) == Append(prev, <<id, time, payload>>)

\* The text of a before/after state as jsonb gives it back: normalizeAuditJSON makes
\* an absent one the empty object, and jsonb prints any other object in its own layout.
jsonb(payload) == IF payload = "object" THEN "jsonb object" ELSE
                  IF payload = "nil" THEN "empty" ELSE payload

\* timestamptz keeps microseconds
timestamptz(t) == ((t + Micro \div 2) \div Micro) * Micro

PartitionDay(t) == t \div DayLength

-----------------------------------------------------------------------------
(* ORDER BY recorded_at, audit_id: ids compare as text, "audit-10" before    *)
(* "audit-9".                                                                *)

Digits[n \in 0..MaxEvents] ==
    IF n < Radix THEN <<n>> ELSE Append(Digits[n \div Radix], n % Radix)

TextLess(s, t) ==
    \/ IsStrictPrefix(s, t)
    \/ \E k \in DOMAIN s \cap DOMAIN t :
           s[k] < t[k] /\ \A j \in 1..(k - 1) : s[j] = t[j]

IdLess(i, j) == i[1] < j[1] \/ (i[1] = j[1] /\ TextLess(Digits[i[2]], Digits[j[2]]))

RowLess(q, r) == q.time < r.time \/ (q.time = r.time /\ IdLess(q.id, r.id))

Partition(day) == {r \in rows : r.day = day}

Newest(committed) == {r \in committed : \A q \in committed \ {r} : RowLess(q, r)}

\* ORDER BY recorded_at DESC, audit_id DESC LIMIT 1
newestOf(committed) == IF committed = {} THEN {NoRow} ELSE {r.id : r \in Newest(committed)}

\* Faulty variant: the hash is recomputed from the row's own hash_prev.
verifyRowsOnly(day) ==
    \A r \in Partition(day) : r.curr = ComputeHash(r.prev, r.id, r.time, r.payload)

Before(r) == {q \in Partition(r.day) : RowLess(q, r)}

\* verifyAuditChainFromDB for one partition; the chains of different days are apart.
verifyAuditChain(day) ==
    \A r \in Partition(day) :
        LET expectedPrev == IF Before(r) = {} THEN GENESIS
                            ELSE (CHOOSE q \in Newest(Before(r)) : TRUE).curr
        IN r.prev = expectedPrev /\ r.curr = ComputeHash(expectedPrev, r.id, r.time, r.payload)

-----------------------------------------------------------------------------
(* An append, statement by statement; g[1] is the service.                   *)

Taken(id) ==
    \/ \E r \in rows : r.id = id
    \/ \E g \in Appenders : append[g] # NoAppend /\ append[g].id = id

\* appendAudit of the service reads the clock and the counter, before the database is
\* asked for anything; before and after states of a refused call are empty.
Draw(g) ==
    /\ append[g] = NoAppend
    /\ nextAuditID[g[1]] <= MaxEvents
    /\ Cardinality(rows) + Cardinality({h \in Appenders : append[h] # NoAppend}) < MaxRows
    /\ LET id == <<g[1], nextAuditID[g[1]]>> IN
       /\ \E payload \in IF g[2] = 0 THEN Payloads ELSE Payloads \ {"object"} :
              append' = [append EXCEPT ![g] =
                            [pc |-> "drawing", id |-> id, time |-> clock, payload |-> payload]]
       /\ contested' = IF Taken(id) THEN contested \cup {id} ELSE contested
    /\ UNCHANGED <<rows, events, nextAuditID, clock, altered, faults>>

\* s.nextAuditID++ writes what it has read, plus one.
Stamp(g) ==
    /\ append[g].pc = "drawing"
    /\ nextAuditID' = [nextAuditID EXCEPT ![g[1]] = append[g].id[2] + 1]
    /\ append' = [append EXCEPT ![g] = [@ EXCEPT !.pc = "stamped"]]
    /\ UNCHANGED <<rows, events, clock, contested, altered, faults>>

\* Faulty variant: the newest row of the table, whatever its day.
SelectAnyDay(g) ==
    /\ append[g].pc = "stamped"
    /\ \E newest \in newestOf(rows) :
           append' = [append EXCEPT ![g] = [pc |-> "selected", id |-> @.id, time |-> @.time,
                                        payload |-> @.payload, newest |-> newest]]
    /\ UNCHANGED <<rows, events, nextAuditID, clock, contested, altered, faults>>

\* lockQ takes its snapshot: the newest row of the partition, or none.
Select(g) ==
    /\ append[g].pc = "stamped"
    /\ \E newest \in newestOf(Partition(PartitionDay(append[g].time))) :
           append' = [append EXCEPT ![g] = [pc |-> "selected", id |-> @.id, time |-> @.time,
                                        payload |-> @.payload, newest |-> newest]]
    /\ UNCHANGED <<rows, events, nextAuditID, clock, contested, altered, faults>>

\* FOR UPDATE waits for the row, then returns the row it waited for: rows are never
\* updated, so nothing makes the query look again.
Lock(g) ==
    LET newest == append[g].newest IN
    /\ append[g].pc = "selected"
    /\ newest # NoRow =>
           \A h \in Appenders \ {g} : append[h].pc = "locked" => append[h].newest # newest
    /\ append' = [append EXCEPT ![g] = [@ EXCEPT !.pc = "locked"]]
    /\ UNCHANGED <<rows, events, nextAuditID, clock, contested, altered, faults>>

\* InMemoryStore.last
lastHash(s) == IF events[s] = <<>> THEN GENESIS ELSE Last(events[s]).curr

\* Faulty variant: audit_id is not a key.
InsertAnyRow(r) == rows \cup {r}

\* ON CONFLICT (audit_id) DO NOTHING
InsertRow(r) == IF \E q \in rows : q.id = r.id THEN rows ELSE rows \cup {r}

\* insQ and the commit, then AuditStore.Append
Commit(g) ==
    LET c == append[g]
        prev == IF c.newest = NoRow THEN GENESIS
                ELSE (CHOOSE r \in rows : r.id = c.newest).curr
        last == lastHash(g[1])
    IN
    /\ c.pc = "locked"
    /\ rows' = InsertRow(
           [id |-> c.id, day |-> PartitionDay(c.time),
            time |-> timestamptz(c.time), payload |-> jsonb(c.payload),
            prev |-> prev, curr |-> ComputeHash(prev, c.id, c.time, c.payload)])
    /\ events' = [events EXCEPT ![g[1]] = Append(@,
           [id |-> c.id, time |-> c.time, payload |-> c.payload,
            prev |-> last, curr |-> ComputeHash(last, c.id, c.time, c.payload)])]
    /\ append' = [append EXCEPT ![g] = NoAppend]
    /\ UNCHANGED <<nextAuditID, clock, contested, altered, faults>>

\* The database is unavailable: the transaction rolls back, nothing reaches the store.
Fail(g) ==
    /\ append[g].pc \in {"stamped", "selected", "locked"}
    /\ append' = [append EXCEPT ![g] = NoAppend]
    /\ UNCHANGED <<rows, events, nextAuditID, clock, contested, altered, faults>>

\* The process restarts: store and counter begin again.
RestartServices ==
    /\ faults < MaxFaults
    /\ faults' = faults + 1
    /\ events' = [s \in Services |-> <<>>]
    /\ nextAuditID' = [s \in Services |-> 1]
    /\ append' = [g \in Appenders |-> NoAppend]
    /\ contested' = {}
    /\ UNCHANGED <<rows, clock, altered>>

\* A hashed column of a row is rewritten past the append-only triggers: what the
\* verification is there to detect.
Alter ==
    /\ faults < MaxFaults
    /\ faults' = faults + 1
    /\ \E r \in rows :
          /\ altered' = altered \cup {r.id}
          /\ rows' = (rows \ {r}) \cup {[r EXCEPT !.payload = "altered"]}
    /\ UNCHANGED <<events, nextAuditID, append, clock, contested>>

ClockTick ==
    /\ clock < MaxTime
    /\ clock' = clock + 1
    /\ UNCHANGED <<rows, events, nextAuditID, append, contested, altered, faults>>

AuditInit ==
    /\ rows = {}
    /\ events = [s \in Services |-> <<>>]
    /\ nextAuditID = [s \in Services |-> 1]
    /\ append = [g \in Appenders |-> NoAppend]
    /\ clock = 0
    /\ contested = {} /\ altered = {}
    /\ faults = 0

\* The bounds are used up and every append has returned.
Exhausted ==
    /\ clock = MaxTime
    /\ Cardinality(rows) = MaxRows \/ \A s \in Services : nextAuditID[s] > MaxEvents
    /\ \A g \in Appenders : append[g] = NoAppend
    /\ UNCHANGED auditVars

AuditNext ==
    \/ \E g \in Appenders : Draw(g) \/ Stamp(g) \/ Select(g) \/ Lock(g) \/ Commit(g) \/ Fail(g)
    \/ RestartServices
    \/ Alter
    \/ ClockTick
    \/ Exhausted

AuditSpec == AuditInit /\ [][AuditNext]_auditVars

-----------------------------------------------------------------------------
(* Properties.                                                               *)

\* Types of the table, the stores and the appends in progress.
AuditTypeOK ==
    /\ \A r \in rows :
          /\ r.id \in Ids /\ r.time \in Nat /\ r.day \in Nat
          /\ r.payload \in {"empty", "jsonb object", "altered"}
          /\ r.prev \in Seq(Ids \X Times \X Payloads)
          /\ r.curr \in Seq(Ids \X Times \X Payloads) \ {<<>>}
    /\ \A q, r \in rows : q.id = r.id => q = r
    /\ nextAuditID \in [Services -> 1..(MaxEvents + 1)]
    /\ \A g \in Appenders :
          /\ append[g].pc \in {"idle", "drawing", "stamped", "selected", "locked"}
          /\ append[g].pc # "idle" =>
                /\ append[g].id \in Ids /\ append[g].time \in Times
                /\ append[g].payload \in Payloads
    /\ contested \subseteq Ids
    /\ clock \in Times /\ faults \in 0..MaxFaults

\* A row continues a row of its own day that the table holds: however appends of
\* several services interleave or fail, no hash_prev dangles and no chain crosses days.
RowsContinueRows ==
    \A r \in rows :
        r.prev = GENESIS \/ \E q \in rows : q.day = r.day /\ q.curr = r.prev

\* Every event continues the one before it, from GENESIS on.
Chained(es) ==
    \A k \in DOMAIN es :
        LET prev == IF k = 1 THEN GENESIS ELSE es[k - 1].curr
        IN  /\ es[k].prev = prev
            /\ es[k].curr = ComputeHash(prev, es[k].id, es[k].time, es[k].payload)

\* The row is that of the event: its hash_curr is of what the event says.
RowOfEvent(r, e) ==
    r.id = e.id /\ r.curr = ComputeHash(r.prev, e.id, e.time, e.payload)

\* The event has its own row, unless its id was contested: then the row under the id may be
\* of another event.
HasRow(e, committed, ids) ==
    \E r \in committed : r.id = e.id /\ (e.id \notin ids => RowOfEvent(r, e))

Recorded(es, committed, ids) == \A k \in DOMAIN es : HasRow(es[k], committed, ids)

\* The chain of an in-memory store recomputes from GENESIS, so Append never meets
\* ErrCorruptChain, and neither a failed insert nor a crash leaves an event in memory
\* alone.  Only an id that was drawn while it was taken, by a call refused outside s.mu or
\* after a restart, does: ON CONFLICT skips the row of the later insert.
StoresAreChained ==
    \A s \in Services : Chained(events[s]) /\ Recorded(events[s], rows, contested)

\* Both copies of the trail are chains, and an event in memory has its own row in the table
\* unless its id was taken when it was drawn.
CopiesAreChained == RowsContinueRows /\ StoresAreChained

\* The columns of the row that the event e made come back as they were hashed.
Survives(e) == timestamptz(e[2]) = e[2] /\ jsonb(e[3]) = e[3]

\* What VerifyAuditChain says of a day.  If "valid", nobody has rewritten a row and the
\* chain visits the rows in table order, one after the other: a fork does not go
\* unnoticed.  If they are visited so, nobody has rewritten them, and their states and times
\* come back from the table as they were hashed, it says "valid".  Days whose states or
\* times do not come back so are the subject of ChainVerifies.
VerdictsAreRight ==
    \A day \in 0..PartitionDay(MaxTime) :
        LET rs        == Partition(day)
            valid     == verifyAuditChain(day)
            untouched == \A r \in rs : r.id \notin altered
            oneChain  == \A r \in rs : Len(r.prev) = Cardinality(Before(r))
        IN  /\ valid => untouched /\ oneChain
            /\ untouched /\ oneChain /\ (\A r \in rs : Survives(Last(r.curr))) => valid

\* A table nobody has rewritten verifies, whatever was appended to it.
ChainVerifies ==
    altered = {} => \A day \in 0..PartitionDay(MaxTime) : verifyAuditChain(day)

=============================================================================
