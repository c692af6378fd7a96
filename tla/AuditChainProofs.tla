-------------------------- MODULE AuditChainProofs --------------------------
(***************************************************************************)
(* Proofs about AuditChain, for any services, payloads, clock resolution   *)
(* and length of a day, and all bounds.                                    *)
(***************************************************************************)
EXTENDS AuditChain, SequenceTheorems, TLAPS

-----------------------------------------------------------------------------
(* Types.                                                                    *)

Link   == Ids \X Times \X Payloads
Stored == {"empty", "jsonb object", "altered"}

Row   == [id : Ids, day : Nat, time : Nat, payload : Stored,
          prev : Seq(Link), curr : Seq(Link) \ {<<>>}]
Event == [id : Ids, time : Times, payload : Payloads,
          prev : Seq(Link), curr : Seq(Link) \ {<<>>}]

Drawn  == [pc : {"drawing", "stamped"}, id : Ids, time : Times, payload : Payloads]
Picked == [pc : {"selected", "locked"}, id : Ids, time : Times, payload : Payloads,
           newest : Ids \cup {NoRow}]

Keyed == \A q, r \in rows : q.id = r.id => q = r

TypeInv ==
    /\ rows \subseteq Row /\ Keyed
    /\ events \in [Services -> Seq(Event)]
    /\ nextAuditID \in [Services -> 1..(MaxEvents + 1)]
    /\ append \in [Appenders -> {NoAppend} \cup Drawn \cup Picked]
    /\ contested \subseteq Ids
    /\ clock \in Times /\ faults \in 0..MaxFaults

\* The row whose hash an append is going to continue is there, on the day of the event.
RowOf(id, day) == \E r \in rows : r.id = id /\ r.day = day

NewestIsStored ==
    \A g \in Appenders : append[g] \in Picked /\ append[g].newest # NoRow =>
        RowOf(append[g].newest, PartitionDay(append[g].time))

\* An id that two appends hold, or an append and a row, was taken when the later of them
\* drew it.
Contest ==
    /\ \A g, h \in Appenders :
          g # h /\ append[g] # NoAppend /\ append[h] # NoAppend /\ append[g].id = append[h].id =>
              append[g].id \in contested
    /\ \A g \in Appenders : \A r \in rows :
          append[g] # NoAppend /\ r.id = append[g].id => r.id \in contested

ChainInv == TypeInv /\ NewestIsStored /\ CopiesAreChained

LEMMA Appending ==
    ASSUME NEW g \in Appenders
    PROVE  g[1] \in Services
BY Zenon DEF Appenders

\* The kinds of calls are told apart by their pc.
LEMMA CallFields ==
    ASSUME TypeInv, NEW g \in Appenders
    PROVE  /\ append[g] = NoAppend \/ append[g] \in Drawn \/ append[g] \in Picked
           /\ append[g].pc \in {"drawing", "stamped"} => append[g] \in Drawn
           /\ append[g].pc \in {"selected", "locked"} => append[g] \in Picked
           /\ append[g].pc \in {"idle", "drawing", "stamped", "selected", "locked"}
           /\ append[g].pc # "idle" =>
                 append[g].id \in Ids /\ append[g].time \in Times /\ append[g].payload \in Payloads
<1>1. append[g] = NoAppend \/ append[g] \in Drawn \/ append[g] \in Picked
  BY Zenon DEF TypeInv
<1>2. CASE append[g] = NoAppend
  <2>1. NoAppend.pc = "idle"
    BY Zenon DEF NoAppend
  <2> QED
    BY Zenon, <1>2, <2>1
<1>3. CASE append[g] \in Drawn
  BY Zenon, <1>3 DEF Drawn
<1>4. CASE append[g] \in Picked
  BY Zenon, <1>4 DEF Picked
<1> QED
  BY Zenon, <1>1, <1>2, <1>3, <1>4

\* ComputeHash adds one link.
LEMMA HashType ==
    ASSUME NEW prev \in Seq(Link), NEW id \in Ids, NEW time \in Times, NEW payload \in Payloads
    PROVE  ComputeHash(prev, id, time, payload) \in Seq(Link) \ {<<>>}
<1> DEFINE x == <<id, time, payload>>
<1>1. x \in Link
  BY Zenon DEF Link
<1> HIDE DEF x
<1>2. Append(prev, x) \in Seq(Link) /\ Append(prev, x) # <<>>
  BY <1>1, AppendProperties
<1> QED
  BY Zenon, <1>2 DEF ComputeHash, x

LEMMA Genesis == GENESIS \in Seq(Link)
BY DEF GENESIS

\* The columns that do not come back as they were hashed
LEMMA ColumnTypes ==
    ASSUME NEW t \in Times, NEW payload \in Payloads
    PROVE  /\ timestamptz(t) \in Nat /\ PartitionDay(t) \in Nat
           /\ jsonb(payload) \in Stored
<1>1. t \in Nat /\ Micro \in Nat \ {0} /\ DayLength \in Nat \ {0}
  BY AuditAssumption DEF Times
<1>2. t \div DayLength \in Nat /\ Micro \div 2 \in Nat
  BY <1>1
<1>3. (t + Micro \div 2) \div Micro \in Nat
  <2> DEFINE m == t + Micro \div 2
  <2>1. m \in Nat
    BY <1>1, <1>2
  <2> HIDE DEF m
  <2>2. m \div Micro \in Nat
    BY <1>1, <2>1
  <2> QED
    BY Zenon, <2>2 DEF m
<1>4. timestamptz(t) \in Nat
  <2> DEFINE m == (t + Micro \div 2) \div Micro
  <2>1. m \in Nat
    BY Zenon, <1>3
  <2> HIDE DEF m
  <2>2. m * Micro \in Nat
    BY <1>1, <2>1
  <2> QED
    BY Zenon, <2>2 DEF m, timestamptz
<1>5. jsonb(payload) \in Stored
  BY Zenon, AuditAssumption DEF jsonb, Stored
<1> QED
  BY Zenon, <1>2, <1>4, <1>5 DEF PartitionDay

-----------------------------------------------------------------------------
(* Steps that leave rows and stores alone.                                   *)

\* Rows that keep their keys, days and hashes, and one more perhaps: what the rest of
\* the invariant says of the table still holds.
LEMMA RowsGrow ==
    ASSUME \A r \in rows : \E q \in rows' :
               q.id = r.id /\ q.day = r.day /\ q.prev = r.prev /\ q.curr = r.curr,
           contested \subseteq contested'
    PROVE  /\ \A id, day : RowOf(id, day) => \E q \in rows' : q.id = id /\ q.day = day
           /\ \A es : Recorded(es, rows, contested) => Recorded(es, rows', contested')
<1>1. \A id, day : RowOf(id, day) => \E q \in rows' : q.id = id /\ q.day = day
  BY Zenon DEF RowOf
<1>2. ASSUME NEW e, HasRow(e, rows, contested)
      PROVE  HasRow(e, rows', contested')
  <2>1. PICK r \in rows : r.id = e.id /\ (e.id \notin contested => RowOfEvent(r, e))
    BY Zenon, <1>2 DEF HasRow
  <2>2. PICK q \in rows' : q.id = r.id /\ q.prev = r.prev /\ q.curr = r.curr
    BY Zenon
  <2>3. RowOfEvent(r, e) => RowOfEvent(q, e)
    BY Zenon, <2>2 DEF RowOfEvent
  <2> QED
    BY Zenon, <2>1, <2>2, <2>3 DEF HasRow
<1>3. \A es : Recorded(es, rows, contested) => Recorded(es, rows', contested')
  BY Zenon, <1>2 DEF Recorded
<1> QED
  BY Zenon, <1>1, <1>3

LEMMA CallSteps ==
    ASSUME TypeInv, NewestIsStored, CopiesAreChained, UNCHANGED <<rows, events>>,
           NEW g \in Appenders, NEW c, append' = [append EXCEPT ![g] = c],
           c \in {NoAppend} \cup Drawn \cup Picked,
           c \in Picked /\ c.newest # NoRow => RowOf(c.newest, PartitionDay(c.time)),
           nextAuditID' \in [Services -> 1..(MaxEvents + 1)],
           contested \subseteq contested', contested' \subseteq Ids,
           UNCHANGED <<clock, faults>>
    PROVE  ChainInv'
<1>1. /\ append'[g] = c /\ \A h \in Appenders : h # g => append'[h] = append[h]
      /\ append' \in [Appenders -> {NoAppend} \cup Drawn \cup Picked]
  BY Zenon DEF TypeInv
<1>2. TypeInv'
  BY Zenon, <1>1 DEF TypeInv, Keyed
<1>4. NewestIsStored'
  <2> SUFFICES ASSUME NEW h \in Appenders, append'[h] \in Picked, append'[h].newest # NoRow
               PROVE  \E r \in rows' : r.id = append'[h].newest /\ r.day = PartitionDay(append'[h].time)
    BY Zenon DEF NewestIsStored, RowOf, PartitionDay
  <2> QED
    BY Zenon, <1>1 DEF NewestIsStored, RowOf
<1>5. CopiesAreChained'
  <2>1. rows' = rows /\ events' = events
    BY Zenon
  <2>2. RowsContinueRows'
    BY Zenon, <2>1 DEF CopiesAreChained, RowsContinueRows, GENESIS
  <2>3. \A es : Recorded(es, rows, contested) => Recorded(es, rows', contested')
    BY Zenon, <2>1, RowsGrow
  <2>4. StoresAreChained'
    BY Zenon, <2>1, <2>3 DEF CopiesAreChained, StoresAreChained
  <2> QED
    BY Zenon, <2>2, <2>4 DEF CopiesAreChained
<1> QED
  BY Zenon, <1>2, <1>4, <1>5 DEF ChainInv

LEMMA DrawKeeps ==
    ASSUME ChainInv, NEW g \in Appenders, Draw(g)
    PROVE  ChainInv'
<1> DEFINE s == g[1]
<1>1. TypeInv /\ NewestIsStored /\ CopiesAreChained
  BY Zenon DEF ChainInv
<1>2. s \in Services /\ nextAuditID[s] \in 1..(MaxEvents + 1) /\ nextAuditID[s] <= MaxEvents
  BY Zenon, <1>1, Appending DEF TypeInv, Draw
<1>3. nextAuditID[s] \in 1..MaxEvents
  BY <1>2, AuditAssumption
<1>4. <<s, nextAuditID[s]>> \in Ids /\ clock \in Times
  BY Zenon, <1>1, <1>2, <1>3 DEF Ids, TypeInv
<1>5. PICK payload \in IF g[2] = 0 THEN Payloads ELSE Payloads \ {"object"} :
          append' = [append EXCEPT ![g] = [pc |-> "drawing", id |-> <<s, nextAuditID[s]>>,
                                       time |-> clock, payload |-> payload]]
  BY Zenon DEF Draw
<1> DEFINE c == [pc |-> "drawing", id |-> <<s, nextAuditID[s]>>, time |-> clock, payload |-> payload]
<1>6. payload \in Payloads
  BY Zenon, <1>5
<1>7. c \in Drawn /\ c \notin Picked
  BY Zenon, <1>4, <1>6 DEF Drawn, Picked
<1>8. append' = [append EXCEPT ![g] = c]
  BY Zenon, <1>5
<1>9. UNCHANGED <<rows, events, nextAuditID, clock, faults>>
  BY Zenon DEF Draw
<1>10. nextAuditID' \in [Services -> 1..(MaxEvents + 1)]
  BY Zenon, <1>1, <1>9 DEF TypeInv
<1>11. contested \subseteq contested' /\ contested' \subseteq Ids
  BY Zenon, <1>1, <1>4 DEF Draw, TypeInv
<1> HIDE DEF c
<1> QED
  BY Zenon, <1>1, <1>7, <1>8, <1>9, <1>10, <1>11, CallSteps

\* Changing the pc of a call leaves the rest of it.
LEMMA Stamped ==
    ASSUME NEW c \in Drawn
    PROVE  [c EXCEPT !.pc = "stamped"] \in Drawn /\ [c EXCEPT !.pc = "stamped"] \notin Picked
BY Zenon DEF Drawn, Picked

LEMMA Locked ==
    ASSUME NEW c \in Picked
    PROVE  /\ [c EXCEPT !.pc = "locked"] \in Picked
           /\ [c EXCEPT !.pc = "locked"].newest = c.newest
           /\ [c EXCEPT !.pc = "locked"].time = c.time
BY Zenon DEF Picked

LEMMA StampKeeps ==
    ASSUME ChainInv, NEW g \in Appenders, Stamp(g)
    PROVE  ChainInv'
<1> DEFINE s == g[1]
<1> DEFINE n == append[g].id[2]
<1> DEFINE c == [append[g] EXCEPT !.pc = "stamped"]
<1>1. TypeInv /\ NewestIsStored /\ CopiesAreChained
  BY Zenon DEF ChainInv
<1>2. s \in Services
  BY Zenon, Appending
<1>3. append[g].pc = "drawing" /\ append[g] \in Drawn /\ append[g].id \in Ids
  BY Zenon, <1>1, CallFields DEF Stamp, Drawn
<1>4. n \in 1..MaxEvents
  BY Zenon, <1>3 DEF Ids
<1>5. c \in Drawn /\ c \notin Picked
  BY Zenon, <1>3, Stamped
<1>6. /\ nextAuditID' = [nextAuditID EXCEPT ![s] = n + 1]
      /\ append' = [append EXCEPT ![g] = c]
      /\ UNCHANGED <<rows, events, clock, contested, faults>>
  BY Zenon DEF Stamp
<1> HIDE DEF c, n, s
<1>7. n + 1 \in 1..(MaxEvents + 1)
  BY <1>4, AuditAssumption
<1>8. /\ nextAuditID' \in [Services -> 1..(MaxEvents + 1)]
      /\ contested \subseteq contested' /\ contested' \subseteq Ids
  BY Zenon, <1>1, <1>2, <1>6, <1>7 DEF TypeInv
<1> QED
  BY Zenon, <1>1, <1>5, <1>6, <1>8, CallSteps

\* The newest row of a partition is one of its rows.
LEMMA NewestOf ==
    ASSUME NEW day, TypeInv, NEW newest \in newestOf(Partition(day))
    PROVE  /\ newest \in Ids \cup {NoRow}
           /\ newest # NoRow => RowOf(newest, day)
<1>1. newest = NoRow \/ \E r \in Partition(day) : newest = r.id
  BY Zenon DEF newestOf, Newest
<1>2. CASE newest = NoRow
  BY Zenon, <1>2
<1>3. ASSUME NEW r \in Partition(day), newest = r.id
      PROVE  newest \in Ids /\ RowOf(newest, day)
  <2>1. r \in rows /\ r.day = day
    BY Zenon, <1>3 DEF Partition
  <2>2. r.id \in Ids
    BY Zenon, <2>1 DEF TypeInv, Row
  <2> QED
    BY Zenon, <1>3, <2>1, <2>2 DEF RowOf
<1> QED
  BY Zenon, <1>1, <1>2, <1>3

LEMMA SelectKeeps ==
    ASSUME ChainInv, NEW g \in Appenders, Select(g)
    PROVE  ChainInv'
<1>1. TypeInv /\ NewestIsStored /\ CopiesAreChained
  BY Zenon DEF ChainInv
<1>2. PICK newest \in newestOf(Partition(PartitionDay(append[g].time))) :
          append' = [append EXCEPT ![g] = [pc |-> "selected", id |-> @.id, time |-> @.time,
                                       payload |-> @.payload, newest |-> newest]]
  BY Zenon DEF Select
<1> DEFINE c == [pc |-> "selected", id |-> append[g].id, time |-> append[g].time,
                 payload |-> append[g].payload, newest |-> newest]
<1>3. append' = [append EXCEPT ![g] = c]
  BY Zenon, <1>2
<1>4. /\ newest \in Ids \cup {NoRow}
      /\ newest # NoRow => RowOf(newest, PartitionDay(append[g].time))
  BY Zenon, <1>1, <1>2, NewestOf
<1>5. append[g].id \in Ids /\ append[g].time \in Times /\ append[g].payload \in Payloads
  BY Zenon, <1>1, CallFields DEF Select
<1>6. c \in Picked /\ c.newest = newest /\ c.time = append[g].time
  BY Zenon, <1>4, <1>5 DEF Picked
<1>7. UNCHANGED <<rows, events, nextAuditID, clock, contested, faults>>
  BY Zenon DEF Select
<1> HIDE DEF c
<1>8. /\ contested \subseteq contested' /\ contested' \subseteq Ids
      /\ nextAuditID' \in [Services -> 1..(MaxEvents + 1)]
  BY Zenon, <1>1, <1>7 DEF TypeInv
<1>9. c.newest # NoRow => RowOf(c.newest, PartitionDay(c.time))
  BY Zenon, <1>4, <1>6
<1> QED
  BY Zenon, <1>1, <1>3, <1>6, <1>7, <1>8, <1>9, CallSteps

LEMMA LockKeeps ==
    ASSUME ChainInv, NEW g \in Appenders, Lock(g)
    PROVE  ChainInv'
<1> DEFINE c == [append[g] EXCEPT !.pc = "locked"]
<1>1. TypeInv /\ NewestIsStored /\ CopiesAreChained
  BY Zenon DEF ChainInv
<1>2. append[g] \in Picked
  BY Zenon, <1>1, CallFields DEF Lock
<1>3. c \in Picked /\ c.newest = append[g].newest /\ c.time = append[g].time
  BY Zenon, <1>2, Locked
<1>4. /\ append' = [append EXCEPT ![g] = c]
      /\ UNCHANGED <<rows, events, nextAuditID, clock, contested, faults>>
  BY Zenon DEF Lock
<1> HIDE DEF c
<1>5. c.newest # NoRow => RowOf(c.newest, PartitionDay(c.time))
  BY Zenon, <1>1, <1>2, <1>3 DEF NewestIsStored
<1>6. /\ nextAuditID' \in [Services -> 1..(MaxEvents + 1)]
      /\ contested \subseteq contested' /\ contested' \subseteq Ids
  BY Zenon, <1>1, <1>4 DEF TypeInv
<1> QED
  BY Zenon, <1>1, <1>3, <1>4, <1>5, <1>6, CallSteps

LEMMA FailKeeps ==
    ASSUME ChainInv, NEW g \in Appenders, Fail(g)
    PROVE  ChainInv'
<1>1. TypeInv /\ NewestIsStored /\ CopiesAreChained
  BY Zenon DEF ChainInv
<1>2. /\ append' = [append EXCEPT ![g] = NoAppend]
      /\ UNCHANGED <<rows, events, nextAuditID, clock, contested, faults>>
  BY Zenon DEF Fail
<1>3. NoAppend \notin Picked
  BY Zenon DEF NoAppend, Picked
<1>4. /\ nextAuditID' \in [Services -> 1..(MaxEvents + 1)]
      /\ contested \subseteq contested' /\ contested' \subseteq Ids
  BY Zenon, <1>1, <1>2 DEF TypeInv
<1> QED
  BY Zenon, <1>1, <1>2, <1>3, <1>4, CallSteps

-----------------------------------------------------------------------------
(* Steps that change rows or stores.                                         *)

\* An event that continues the last one keeps a store chained.
LEMMA AppendChains ==
    ASSUME NEW es \in Seq(Event), Chained(es), NEW e \in Event, NEW last,
           last = IF es = <<>> THEN GENESIS ELSE Last(es).curr,
           e.prev = last, e.curr = ComputeHash(last, e.id, e.time, e.payload)
    PROVE  Chained(Append(es, e))
<1> DEFINE fs == Append(es, e)
<1> DEFINE Prior(ds, k) == IF k = 1 THEN GENESIS ELSE ds[k - 1].curr
<1>1. /\ Len(fs) = Len(es) + 1 /\ DOMAIN fs = 1..Len(fs) /\ DOMAIN es = 1..Len(es)
      /\ Len(es) \in Nat
  BY AppendProperties
<1>2. (\A k \in 1..Len(es) : fs[k] = es[k]) /\ fs[Len(es) + 1] = e
  BY AppendProperties
<1>3. \A k \in DOMAIN es : /\ es[k].prev = Prior(es, k)
                           /\ es[k].curr = ComputeHash(Prior(es, k), es[k].id, es[k].time, es[k].payload)
  BY Zenon DEF Chained
<1>4. es = <<>> <=> Len(es) = 0
  BY Zenon, EmptySeq
<1>5. Last(es) = es[Len(es)]
  BY Zenon DEF Last
<1> HIDE DEF fs
<1>6. last = Prior(fs, Len(es) + 1)
  <2>1. CASE Len(es) = 0
    BY <1>4, <2>1
  <2>2. CASE Len(es) # 0
    <3>1. Len(es) \in 1..Len(es) /\ Len(es) + 1 # 1 /\ (Len(es) + 1) - 1 = Len(es)
      BY <1>1, <2>2
    <3>2. last = fs[Len(es)].curr
      BY Zenon, <1>2, <1>4, <1>5, <2>2, <3>1
    <3> QED
      BY Zenon, <3>1, <3>2
  <2> QED
    BY Zenon, <2>1, <2>2
<1>7. \A k \in 1..Len(es) : Prior(fs, k) = Prior(es, k)
  <2> SUFFICES ASSUME NEW k \in 1..Len(es), k # 1
               PROVE  fs[k - 1] = es[k - 1]
    BY Zenon
  <2>1. k - 1 \in 1..Len(es)
    BY <1>1
  <2> QED
    BY Zenon, <1>2, <2>1
<1>8. \A k \in 1..Len(fs) : k \in 1..Len(es) \/ k = Len(es) + 1
  BY <1>1
<1>9. ASSUME NEW k \in DOMAIN fs
      PROVE  /\ fs[k].prev = Prior(fs, k)
             /\ fs[k].curr = ComputeHash(Prior(fs, k), fs[k].id, fs[k].time, fs[k].payload)
  <2> HIDE DEF Prior
  <2>1. CASE k \in 1..Len(es)
    BY Zenon, <1>1, <1>2, <1>3, <1>7, <2>1
  <2>2. CASE k = Len(es) + 1
    BY Zenon, <1>2, <1>6, <2>2
  <2> QED
    BY Zenon, <1>1, <1>8, <1>9, <2>1, <2>2
<1>10. Chained(fs)
  BY Zenon, <1>9 DEF Chained
<1> QED
  BY Zenon, <1>10 DEF fs

\* The hash that an append continues: the one of the row it has picked.
LEMMA PickedHash ==
    ASSUME TypeInv, NewestIsStored, NEW g \in Appenders, append[g] \in Picked
    PROVE  LET prev == IF append[g].newest = NoRow THEN GENESIS
                       ELSE (CHOOSE r \in rows : r.id = append[g].newest).curr
           IN /\ prev \in Seq(Link)
              /\ prev = GENESIS \/ \E q \in rows : q.day = PartitionDay(append[g].time) /\ q.curr = prev
<1>1. CASE append[g].newest = NoRow
  BY Zenon, <1>1, Genesis
<1>2. CASE append[g].newest # NoRow
  <2> DEFINE r == CHOOSE r \in rows : r.id = append[g].newest
  <2>1. PICK q \in rows : q.id = append[g].newest /\ q.day = PartitionDay(append[g].time)
    BY Zenon, <1>2 DEF NewestIsStored, RowOf
  <2>2. r \in rows /\ r.id = append[g].newest
    BY Zenon, <2>1
  <2> HIDE DEF r
  <2>3. r = q
    BY Zenon, <2>1, <2>2 DEF TypeInv, Keyed
  <2>4. r.curr \in Seq(Link)
    BY Zenon, <2>2 DEF TypeInv, Row
  <2>5. r.curr = (CHOOSE x \in rows : x.id = append[g].newest).curr
    BY Zenon DEF r
  <2> QED
    BY Zenon, <1>2, <2>1, <2>3, <2>4, <2>5
<1> QED
  BY Zenon, <1>1, <1>2

\* The last hash of a store.
LEMMA StoreHash ==
    ASSUME TypeInv, NEW s \in Services
    PROVE  lastHash(s) \in Seq(Link)
<1>1. events[s] \in Seq(Event)
  BY Zenon DEF TypeInv
<1>2. CASE events[s] = <<>>
  BY Zenon, <1>2, Genesis DEF lastHash
<1>3. CASE events[s] # <<>>
  <2> DEFINE es == events[s]
  <2>1. Len(es) \in 1..Len(es)
    BY <1>1, <1>3
  <2>2. es[Len(es)] \in Event
    BY Zenon, <1>1, <2>1, ElementOfSeq
  <2>3. es[Len(es)].curr \in Seq(Link)
    BY Zenon, <2>2 DEF Event
  <2> QED
    BY Zenon, <1>3, <2>3 DEF lastHash, Last
<1> QED
  BY Zenon, <1>2, <1>3

\* InsertRow: the row is added, or the table has one with its id.
LEMMA Inserted ==
    ASSUME TypeInv, RowsContinueRows, NEW n \in Row, rows' = InsertRow(n),
           n.prev = GENESIS \/ \E q \in rows : q.day = n.day /\ q.curr = n.prev
    PROVE  /\ rows' \subseteq Row /\ Keyed' /\ RowsContinueRows'
           /\ rows \subseteq rows'
           /\ \E r \in rows' : r.id = n.id
           /\ n \in rows' \/ \E q \in rows : q.id = n.id
<1>1. CASE \E q \in rows : q.id = n.id
  <2>1. rows' = rows
    BY Zenon, <1>1 DEF InsertRow
  <2>2. RowsContinueRows'
    BY Zenon, <2>1 DEF RowsContinueRows, GENESIS
  <2> QED
    BY Zenon, <1>1, <2>1, <2>2 DEF TypeInv, Keyed
<1>2. CASE ~ \E q \in rows : q.id = n.id
  <2>1. rows' = rows \cup {n}
    BY Zenon, <1>2 DEF InsertRow
  <2>2. RowsContinueRows'
    <3> SUFFICES ASSUME NEW r \in rows', r.prev # GENESIS
                 PROVE  \E q \in rows' : q.day = r.day /\ q.curr = r.prev
      BY Zenon DEF RowsContinueRows, GENESIS
    <3> QED
      BY Zenon, <2>1 DEF RowsContinueRows
  <2>3. Keyed'
    BY Zenon, <1>2, <2>1 DEF TypeInv, Keyed
  <2>4. rows' \subseteq Row
    BY Zenon, <2>1 DEF TypeInv
  <2> QED
    BY Zenon, <2>1, <2>2, <2>3, <2>4
<1> QED
  BY Zenon, <1>1, <1>2

\* The row and the event that an append writes.
NewRow(c, prev) ==
    [id |-> c.id, day |-> PartitionDay(c.time),
     time |-> timestamptz(c.time), payload |-> jsonb(c.payload),
     prev |-> prev, curr |-> ComputeHash(prev, c.id, c.time, c.payload)]

NewEvent(c, last) ==
    [id |-> c.id, time |-> c.time, payload |-> c.payload,
     prev |-> last, curr |-> ComputeHash(last, c.id, c.time, c.payload)]

LEMMA NewRowFields ==
    ASSUME NEW c \in Picked, NEW prev \in Seq(Link)
    PROVE  /\ NewRow(c, prev) \in Row
           /\ NewRow(c, prev).id = c.id /\ NewRow(c, prev).prev = prev
           /\ NewRow(c, prev).day = PartitionDay(c.time)
           /\ NewRow(c, prev).curr = ComputeHash(prev, c.id, c.time, c.payload)
<1>1. c.id \in Ids /\ c.time \in Times /\ c.payload \in Payloads
  BY Zenon DEF Picked
<1>2. ComputeHash(prev, c.id, c.time, c.payload) \in Seq(Link) \ {<<>>}
  BY Zenon, <1>1, HashType
<1>3. timestamptz(c.time) \in Nat /\ PartitionDay(c.time) \in Nat /\ jsonb(c.payload) \in Stored
  BY Zenon, <1>1, ColumnTypes
<1> QED
  BY Zenon, <1>1, <1>2, <1>3 DEF NewRow, Row

LEMMA NewEventFields ==
    ASSUME NEW c \in Picked, NEW last \in Seq(Link)
    PROVE  LET e == NewEvent(c, last) IN
           /\ e \in Event /\ e.id = c.id /\ e.time = c.time /\ e.payload = c.payload /\ e.prev = last
           /\ e.curr = ComputeHash(last, e.id, e.time, e.payload)
<1>1. c.id \in Ids /\ c.time \in Times /\ c.payload \in Payloads
  BY Zenon DEF Picked
<1>2. ComputeHash(last, c.id, c.time, c.payload) \in Seq(Link) \ {<<>>}
  BY Zenon, <1>1, HashType
<1> QED
  BY Zenon, <1>1, <1>2 DEF NewEvent, Event

\* A store with one event more.
LEMMA StoreGrows ==
    ASSUME NEW es \in Seq(Event), NEW committed, NEW ids, Chained(es), Recorded(es, committed, ids),
           NEW e \in Event, NEW last, last = IF es = <<>> THEN GENESIS ELSE Last(es).curr,
           e.prev = last, e.curr = ComputeHash(last, e.id, e.time, e.payload),
           HasRow(e, committed, ids)
    PROVE  /\ Append(es, e) \in Seq(Event) /\ Chained(Append(es, e))
           /\ Recorded(Append(es, e), committed, ids)
<1> DEFINE fs == Append(es, e)
<1>1. fs \in Seq(Event) /\ DOMAIN fs = 1..(Len(es) + 1) /\ Len(es) \in Nat /\ DOMAIN es = 1..Len(es)
  BY AppendProperties
<1>2. (\A k \in 1..Len(es) : fs[k] = es[k]) /\ fs[Len(es) + 1] = e
  BY AppendProperties
<1>3. \A k \in 1..(Len(es) + 1) : k \in 1..Len(es) \/ k = Len(es) + 1
  BY <1>1
<1>4. Chained(fs)
  BY Zenon, AppendChains
<1> HIDE DEF fs
<1>5. Recorded(fs, committed, ids)
  <2> SUFFICES ASSUME NEW k \in DOMAIN fs
               PROVE  HasRow(fs[k], committed, ids)
    BY Zenon DEF Recorded
  <2>1. CASE k \in 1..Len(es)
    BY Zenon, <1>1, <1>2, <2>1 DEF Recorded
  <2>2. CASE k = Len(es) + 1
    BY Zenon, <1>2, <2>2
  <2> QED
    BY Zenon, <1>1, <1>3, <2>1, <2>2
<1> QED
  BY Zenon, <1>1, <1>4, <1>5 DEF fs

LEMMA CommitKeeps ==
    ASSUME ChainInv, Contest, NEW g \in Appenders, Commit(g)
    PROVE  ChainInv' /\ rows \subseteq rows'
<1> DEFINE c == append[g]
<1> DEFINE s == g[1]
<1> DEFINE prev == IF c.newest = NoRow THEN GENESIS ELSE (CHOOSE r \in rows : r.id = c.newest).curr
<1> DEFINE n == NewRow(c, prev)
<1> DEFINE e == NewEvent(c, lastHash(s))
<1>1. TypeInv /\ NewestIsStored /\ RowsContinueRows /\ StoresAreChained
  BY Zenon DEF ChainInv, CopiesAreChained
<1>2. s \in Services /\ events[s] \in Seq(Event)
  BY Zenon, <1>1, Appending DEF TypeInv
<1>3. c \in Picked
  BY Zenon, <1>1, CallFields DEF Commit
<1>4. /\ prev \in Seq(Link)
      /\ prev = GENESIS \/ \E q \in rows : q.day = PartitionDay(c.time) /\ q.curr = prev
  BY Zenon, <1>1, <1>3, PickedHash
<1>5. /\ rows' = InsertRow(n)
      /\ events' = [events EXCEPT ![s] = Append(events[s], e)]
      /\ append' = [append EXCEPT ![g] = NoAppend]
      /\ UNCHANGED <<nextAuditID, clock, contested, faults>>
  BY Zenon DEF Commit, NewRow, NewEvent
<1>6. lastHash(s) \in Seq(Link)
  BY Zenon, <1>1, <1>2, StoreHash
<1> HIDE DEF prev
<1>7. /\ n \in Row /\ n.id = c.id /\ n.prev = prev /\ n.day = PartitionDay(c.time)
      /\ n.curr = ComputeHash(prev, c.id, c.time, c.payload)
  BY Zenon, <1>3, <1>4, NewRowFields
<1>8. /\ e \in Event /\ e.id = c.id /\ e.time = c.time /\ e.payload = c.payload
      /\ e.prev = lastHash(s)
      /\ e.curr = ComputeHash(lastHash(s), e.id, e.time, e.payload)
  BY Zenon, <1>3, <1>6, NewEventFields
<1> HIDE DEF n, e
<1>9. n.prev = GENESIS \/ \E q \in rows : q.day = n.day /\ q.curr = n.prev
  BY Zenon, <1>4, <1>7
<1>10. /\ rows' \subseteq Row /\ Keyed' /\ RowsContinueRows' /\ rows \subseteq rows'
       /\ \E r \in rows' : r.id = n.id
       /\ n \in rows' \/ \E q \in rows : q.id = n.id
  BY Zenon, <1>1, <1>5, <1>7, <1>9, Inserted
<1>11. /\ \A id, day : RowOf(id, day) => \E q \in rows' : q.id = id /\ q.day = day
       /\ \A es : Recorded(es, rows, contested) => Recorded(es, rows', contested')
  <2>1. \A r \in rows : \E q \in rows' :
            q.id = r.id /\ q.day = r.day /\ q.prev = r.prev /\ q.curr = r.curr
    BY Zenon, <1>10
  <2> QED
    BY Zenon, <1>5, <2>1, RowsGrow
<1>12. /\ Append(events[s], e) \in Seq(Event) /\ Chained(Append(events[s], e))
       /\ Recorded(Append(events[s], e), rows', contested')
  <2>1. Chained(events[s]) /\ Recorded(events[s], rows', contested')
    BY Zenon, <1>1, <1>2, <1>11 DEF StoresAreChained
  <2>2. lastHash(s) = IF events[s] = <<>> THEN GENESIS ELSE Last(events[s]).curr
    BY Zenon DEF lastHash
  <2>3. HasRow(e, rows', contested')
    <3>1. CASE e.id \in contested'
      BY Zenon, <1>7, <1>8, <1>10, <3>1 DEF HasRow
    <3>2. CASE e.id \notin contested'
      <4>1. append[g] # NoAppend
        <5>1. NoAppend.pc = "idle"
          BY Zenon DEF NoAppend
        <5> QED
          BY Zenon, <5>1 DEF Commit
      <4>2. n \in rows'
        BY Zenon, <1>5, <1>7, <1>8, <1>10, <3>2, <4>1 DEF Contest
      <4>3. RowOfEvent(n, e)
        BY Zenon, <1>7, <1>8 DEF RowOfEvent
      <4> QED
        BY Zenon, <1>7, <1>8, <4>2, <4>3 DEF HasRow
    <3> QED
      BY Zenon, <3>1, <3>2
  <2> QED
    BY Zenon, <1>2, <1>8, <2>1, <2>2, <2>3, StoreGrows
<1> HIDE DEF c, s
<1>13. /\ events' \in [Services -> Seq(Event)] /\ events'[s] = Append(events[s], e)
       /\ \A t \in Services : t # s => events'[t] = events[t]
  BY Zenon, <1>1, <1>2, <1>5, <1>12 DEF TypeInv
<1>14. /\ append' \in [Appenders -> {NoAppend} \cup Drawn \cup Picked] /\ append'[g] = NoAppend
       /\ \A h \in Appenders : h # g => append'[h] = append[h]
  BY Zenon, <1>1, <1>5 DEF TypeInv
<1>15. TypeInv'
  BY Zenon, <1>1, <1>5, <1>10, <1>13, <1>14 DEF TypeInv
<1>16. NoAppend \notin Picked
  BY Zenon DEF NoAppend, Picked
<1>17. NewestIsStored'
  <2> SUFFICES ASSUME NEW h \in Appenders, append'[h] \in Picked, append'[h].newest # NoRow
               PROVE  \E r \in rows' : r.id = append'[h].newest /\ r.day = PartitionDay(append'[h].time)
    BY Zenon DEF NewestIsStored, RowOf, PartitionDay
  <2>1. h # g /\ append'[h] = append[h]
    BY Zenon, <1>14, <1>16
  <2>2. RowOf(append[h].newest, PartitionDay(append[h].time))
    BY Zenon, <1>1, <2>1 DEF NewestIsStored
  <2>3. \E r \in rows' : r.id = append[h].newest /\ r.day = PartitionDay(append[h].time)
    BY Zenon, <1>11, <2>2
  <2> QED
    BY Zenon, <2>1, <2>3
<1>18. StoresAreChained'
  <2> SUFFICES ASSUME NEW t \in Services
               PROVE  Chained(events'[t]) /\ Recorded(events'[t], rows', contested')
    BY Zenon DEF StoresAreChained
  <2> QED
    BY Zenon, <1>1, <1>11, <1>12, <1>13 DEF StoresAreChained
<1> QED
  BY Zenon, <1>10, <1>15, <1>17, <1>18 DEF ChainInv, CopiesAreChained

LEMMA AlterKeeps ==
    ASSUME ChainInv, Alter
    PROVE  /\ ChainInv'
           /\ \A r \in rows : \E q \in rows' :
                  q.id = r.id /\ q.day = r.day /\ q.prev = r.prev /\ q.curr = r.curr
<1>1. TypeInv /\ NewestIsStored /\ RowsContinueRows /\ StoresAreChained
  BY Zenon DEF ChainInv, CopiesAreChained
<1>2. PICK r \in rows : rows' = (rows \ {r}) \cup {[r EXCEPT !.payload = "altered"]}
  BY Zenon DEF Alter
<1> DEFINE a == [r EXCEPT !.payload = "altered"]
<1>3. r \in Row
  BY Zenon, <1>1 DEF TypeInv
<1>4. /\ a \in Row /\ a.id = r.id /\ a.day = r.day /\ a.prev = r.prev /\ a.curr = r.curr
  BY Zenon, <1>3 DEF Row, Stored
<1>5. rows' = (rows \ {r}) \cup {a}
  BY Zenon, <1>2
<1> HIDE DEF a
<1>6. UNCHANGED <<events, nextAuditID, append, clock, contested>>
  BY Zenon DEF Alter
<1>7. \A q \in rows : \E p \in rows' :
          p.id = q.id /\ p.day = q.day /\ p.prev = q.prev /\ p.curr = q.curr
  <2> SUFFICES ASSUME NEW q \in rows
               PROVE  \E p \in rows' : p.id = q.id /\ p.day = q.day /\ p.prev = q.prev /\ p.curr = q.curr
    BY Zenon
  <2>1. CASE q = r
    BY Zenon, <1>4, <1>5, <2>1
  <2>2. CASE q # r
    BY Zenon, <1>5, <2>2
  <2> QED
    BY Zenon, <2>1, <2>2
<1>8. \A p \in rows' : \E q \in rows :
          p.id = q.id /\ p.day = q.day /\ p.prev = q.prev /\ p.curr = q.curr
  BY Zenon, <1>4, <1>5
<1>9. Keyed'
  <2> SUFFICES ASSUME NEW p \in rows', NEW q \in rows', p.id = q.id
               PROVE  p = q
    BY Zenon DEF Keyed
  <2>1. Keyed
    BY Zenon, <1>1 DEF TypeInv
  <2>2. \A x \in rows : x.id = r.id => x = r
    BY Zenon, <2>1 DEF Keyed
  <2>3. CASE p = a \/ q = a
    BY Zenon, <1>4, <1>5, <2>2, <2>3
  <2>4. CASE p # a /\ q # a
    BY Zenon, <1>5, <2>1, <2>4 DEF Keyed
  <2> QED
    BY Zenon, <2>3, <2>4
<1>10. TypeInv'
  <2>1. rows' \subseteq Row
    BY Zenon, <1>1, <1>4, <1>5 DEF TypeInv
  <2>2. faults \in 0..MaxFaults /\ faults < MaxFaults /\ faults' = faults + 1
    BY Zenon, <1>1 DEF TypeInv, Alter
  <2>3. faults' \in 0..MaxFaults
    BY <2>2, AuditAssumption
  <2> QED
    BY Zenon, <1>1, <1>6, <1>9, <2>1, <2>3 DEF TypeInv
<1>11. /\ \A id, day : RowOf(id, day) => \E q \in rows' : q.id = id /\ q.day = day
       /\ \A es : Recorded(es, rows, contested) => Recorded(es, rows', contested')
  BY Zenon, <1>6, <1>7, RowsGrow
<1>12. NewestIsStored'
  <2> SUFFICES ASSUME NEW h \in Appenders, append'[h] \in Picked, append'[h].newest # NoRow
               PROVE  \E q \in rows' : q.id = append'[h].newest /\ q.day = PartitionDay(append'[h].time)
    BY Zenon DEF NewestIsStored, RowOf, PartitionDay
  <2> QED
    BY Zenon, <1>1, <1>6, <1>11 DEF NewestIsStored
<1>13. RowsContinueRows'
  <2> SUFFICES ASSUME NEW p \in rows', p.prev # GENESIS
               PROVE  \E q \in rows' : q.day = p.day /\ q.curr = p.prev
    BY Zenon DEF RowsContinueRows, GENESIS
  <2>1. PICK x \in rows : p.day = x.day /\ p.prev = x.prev
    BY Zenon, <1>8
  <2>2. PICK y \in rows : y.day = x.day /\ y.curr = x.prev
    BY Zenon, <1>1, <2>1 DEF RowsContinueRows
  <2>3. PICK z \in rows' : z.day = y.day /\ z.curr = y.curr
    BY Zenon, <1>7
  <2>4. z.day = p.day /\ z.curr = p.prev
    BY Zenon, <2>1, <2>2, <2>3
  <2> QED
    BY Zenon, <2>4
<1>14. StoresAreChained'
  <2> SUFFICES ASSUME NEW t \in Services
               PROVE  Chained(events'[t]) /\ Recorded(events'[t], rows', contested')
    BY Zenon DEF StoresAreChained
  <2> QED
    BY Zenon, <1>1, <1>6, <1>11 DEF StoresAreChained
<1> QED
  BY Zenon, <1>7, <1>10, <1>12, <1>13, <1>14 DEF ChainInv, CopiesAreChained

LEMMA RestartKeeps ==
    ASSUME ChainInv, RestartServices
    PROVE  ChainInv' /\ rows' = rows
<1>1. TypeInv /\ RowsContinueRows
  BY Zenon DEF ChainInv, CopiesAreChained
<1>2. /\ events' = [s \in Services |-> <<>>] /\ nextAuditID' = [s \in Services |-> 1]
      /\ append' = [g \in Appenders |-> NoAppend] /\ contested' = {} /\ UNCHANGED <<rows, clock>>
      /\ faults < MaxFaults /\ faults' = faults + 1 /\ faults \in 0..MaxFaults
  BY Zenon, <1>1 DEF RestartServices, TypeInv
<1>3. faults' \in 0..MaxFaults /\ 1 \in 1..(MaxEvents + 1)
  BY <1>2, AuditAssumption
<1>4. <<>> \in Seq(Event) /\ DOMAIN <<>> = {}
  OBVIOUS
<1>5. TypeInv'
  <2>1. events' \in [Services -> Seq(Event)]
    BY Zenon, <1>2, <1>4
  <2>2. nextAuditID' \in [Services -> 1..(MaxEvents + 1)]
    BY Zenon, <1>2, <1>3
  <2>3. append' \in [Appenders -> {NoAppend} \cup Drawn \cup Picked]
    BY Zenon, <1>2
  <2> QED
    BY Zenon, <1>1, <1>2, <1>3, <2>1, <2>2, <2>3 DEF TypeInv, Keyed
<1>6. NewestIsStored'
  <2>1. NoAppend \notin Picked
    BY Zenon DEF NoAppend, Picked
  <2> QED
    BY Zenon, <1>2, <2>1 DEF NewestIsStored
<1>7. RowsContinueRows'
  BY Zenon, <1>1, <1>2 DEF RowsContinueRows, GENESIS
<1>8. StoresAreChained'
  <2>1. Chained(<<>>) /\ Recorded(<<>>, rows', contested')
    BY Zenon, <1>4 DEF Chained, Recorded
  <2> QED
    BY Zenon, <1>2, <2>1 DEF StoresAreChained
<1> QED
  BY Zenon, <1>2, <1>5, <1>6, <1>7, <1>8 DEF ChainInv, CopiesAreChained

LEMMA QuietSteps ==
    ASSUME ChainInv, ClockTick \/ Exhausted \/ UNCHANGED auditVars
    PROVE  ChainInv' /\ rows' = rows
<1>1. TypeInv /\ NewestIsStored /\ RowsContinueRows /\ StoresAreChained
  BY Zenon DEF ChainInv, CopiesAreChained
<1>2. UNCHANGED <<rows, events, nextAuditID, append, contested, faults>>
  BY Zenon DEF ClockTick, Exhausted, auditVars
<1>3. clock' \in Times
  <2>1. clock \in Times
    BY Zenon, <1>1 DEF TypeInv
  <2>2. CASE ClockTick
    <3>1. clock < MaxTime /\ clock' = clock + 1
      BY Zenon, <2>2 DEF ClockTick
    <3> QED
      BY <2>1, <3>1, AuditAssumption DEF Times
  <2>3. CASE Exhausted \/ UNCHANGED auditVars
    BY Zenon, <2>1, <2>3 DEF Exhausted, auditVars
  <2> QED
    BY Zenon, <2>2, <2>3
<1>4. TypeInv'
  BY Zenon, <1>1, <1>2, <1>3 DEF TypeInv, Keyed
<1>5. NewestIsStored'
  BY Zenon, <1>1, <1>2 DEF NewestIsStored, RowOf, PartitionDay
<1>6. RowsContinueRows'
  BY Zenon, <1>1, <1>2 DEF RowsContinueRows, GENESIS
<1>7. StoresAreChained'
  BY Zenon, <1>1, <1>2 DEF StoresAreChained
<1> QED
  BY Zenon, <1>2, <1>4, <1>5, <1>6, <1>7 DEF ChainInv, CopiesAreChained

-----------------------------------------------------------------------------
(* Ids that are taken.                                                       *)

\* The ids of the table and of the appends in progress stay among what they were, and no
\* contested id is forgotten.
LEMMA ContestStays ==
    ASSUME Contest, contested \subseteq contested',
           \A h \in Appenders : append'[h] = NoAppend
               \/ (append[h] # NoAppend /\ append'[h].id = append[h].id),
           \A q \in rows' : \E r \in rows : q.id = r.id
    PROVE  Contest'
<1>1. ASSUME NEW g \in Appenders, NEW h \in Appenders, g # h, append'[g] # NoAppend,
             append'[h] # NoAppend, append'[g].id = append'[h].id
      PROVE  append'[g].id \in contested'
  BY Zenon, <1>1 DEF Contest
<1>2. ASSUME NEW g \in Appenders, NEW q \in rows', append'[g] # NoAppend, q.id = append'[g].id
      PROVE  q.id \in contested'
  BY Zenon, <1>2 DEF Contest
<1>3. NoAppend' = NoAppend /\ Appenders' = Appenders
  BY Zenon
<1> QED
  BY Zenon, <1>1, <1>2, <1>3 DEF Contest

LEMMA DrawContest ==
    ASSUME ChainInv, Contest, NEW g \in Appenders, Draw(g)
    PROVE  Contest'
<1> DEFINE id == <<g[1], nextAuditID[g[1]]>>
<1>1. append \in [Appenders -> {NoAppend} \cup Drawn \cup Picked]
  BY Zenon DEF ChainInv, TypeInv
<1>2. PICK payload :
          append' = [append EXCEPT ![g] = [pc |-> "drawing", id |-> id, time |-> clock, payload |-> payload]]
  BY Zenon DEF Draw
<1>3. append'[g].id = id /\ \A h \in Appenders : h # g => append'[h] = append[h]
  BY Zenon, <1>1, <1>2
<1>4. rows' = rows /\ contested \subseteq contested' /\ (Taken(id) => id \in contested')
  BY Zenon DEF Draw
<1> HIDE DEF id
<1>5. ASSUME NEW h \in Appenders, h # g, append[h] # NoAppend, append[h].id = id
      PROVE  id \in contested'
  BY Zenon, <1>4, <1>5 DEF Taken
<1>6. ASSUME NEW r \in rows, r.id = id
      PROVE  id \in contested'
  BY Zenon, <1>4, <1>6 DEF Taken
<1>7. ASSUME NEW h \in Appenders, NEW k \in Appenders, h # k, append'[h] # NoAppend,
             append'[k] # NoAppend, append'[h].id = append'[k].id
      PROVE  append'[h].id \in contested'
  <2>1. CASE h = g
    BY Zenon, <1>3, <1>5, <1>7, <2>1
  <2>2. CASE k = g
    BY Zenon, <1>3, <1>5, <1>7, <2>2
  <2>3. CASE h # g /\ k # g
    BY Zenon, <1>3, <1>4, <1>7, <2>3 DEF Contest
  <2> QED
    BY Zenon, <2>1, <2>2, <2>3
<1>8. ASSUME NEW h \in Appenders, NEW r \in rows, append'[h] # NoAppend, r.id = append'[h].id
      PROVE  r.id \in contested'
  <2>1. CASE h = g
    BY Zenon, <1>3, <1>6, <1>8, <2>1
  <2>2. CASE h # g
    BY Zenon, <1>3, <1>4, <1>8, <2>2 DEF Contest
  <2> QED
    BY Zenon, <2>1, <2>2
<1> QED
  BY Zenon, <1>4, <1>7, <1>8 DEF Contest

\* What an append becomes while it is in progress
LEMMA IdKept ==
    ASSUME ChainInv, NEW g \in Appenders, Stamp(g) \/ Select(g) \/ Lock(g) \/ Fail(g)
    PROVE  \A h \in Appenders : append'[h] = NoAppend
               \/ (append[h] # NoAppend /\ append'[h].id = append[h].id)
<1>1. append \in [Appenders -> {NoAppend} \cup Drawn \cup Picked] /\ TypeInv
  BY Zenon DEF ChainInv, TypeInv
<1>2. NoAppend.pc = "idle"
  BY Zenon DEF NoAppend
<1>3. \A h \in Appenders : h # g => append'[h] = append[h]
  BY Zenon, <1>1 DEF Stamp, Select, Lock, Fail
<1>4. append[g] # NoAppend
  BY Zenon, <1>2 DEF Stamp, Select, Lock, Fail
<1>5. append'[g] = NoAppend \/ append'[g].id = append[g].id
  <2>1. CASE Stamp(g)
    <3>1. append[g] \in Drawn /\ append'[g] = [append[g] EXCEPT !.pc = "stamped"]
      BY Zenon, <1>1, <2>1, CallFields DEF Stamp
    <3> QED
      BY Zenon, <3>1 DEF Drawn
  <2>2. CASE Select(g)
    <3>1. PICK newest :
              append' = [append EXCEPT ![g] = [pc |-> "selected", id |-> append[g].id,
                             time |-> append[g].time, payload |-> append[g].payload,
                             newest |-> newest]]
      BY Zenon, <2>2 DEF Select
    <3> QED
      BY Zenon, <1>1, <3>1
  <2>3. CASE Lock(g)
    <3>1. append[g] \in Picked /\ append'[g] = [append[g] EXCEPT !.pc = "locked"]
      BY Zenon, <1>1, <2>3, CallFields DEF Lock
    <3> QED
      BY Zenon, <3>1 DEF Picked
  <2>4. CASE Fail(g)
    BY Zenon, <1>1, <2>4 DEF Fail
  <2> QED
    BY Zenon, <2>1, <2>2, <2>3, <2>4
<1> QED
  BY Zenon, <1>3, <1>4, <1>5

LEMMA CommitContest ==
    ASSUME ChainInv, Contest, NEW g \in Appenders, Commit(g)
    PROVE  Contest'
<1>1. append \in [Appenders -> {NoAppend} \cup Drawn \cup Picked]
  BY Zenon DEF ChainInv, TypeInv
<1>2. /\ append'[g] = NoAppend /\ (\A h \in Appenders : h # g => append'[h] = append[h])
      /\ contested' = contested
  BY Zenon, <1>1 DEF Commit
<1>3. append[g] # NoAppend
  <2>1. NoAppend.pc = "idle"
    BY Zenon DEF NoAppend
  <2> QED
    BY Zenon, <2>1 DEF Commit
<1>4. PICK prev : rows' = InsertRow(NewRow(append[g], prev))
  BY Zenon DEF Commit, NewRow
<1>5. \A q \in rows' : q \in rows \/ q.id = append[g].id
  <2>1. NewRow(append[g], prev).id = append[g].id
    BY Zenon DEF NewRow
  <2> QED
    BY Zenon, <1>4, <2>1 DEF InsertRow
<1>6. ASSUME NEW h \in Appenders, NEW k \in Appenders, h # k, append'[h] # NoAppend,
             append'[k] # NoAppend, append'[h].id = append'[k].id
      PROVE  append'[h].id \in contested'
  BY Zenon, <1>2, <1>6 DEF Contest
<1>7. ASSUME NEW h \in Appenders, NEW q \in rows', append'[h] # NoAppend, q.id = append'[h].id
      PROVE  q.id \in contested'
  <2>1. h # g /\ append'[h] = append[h]
    BY Zenon, <1>2, <1>7
  <2>2. CASE q \in rows
    BY Zenon, <1>2, <1>7, <2>1, <2>2 DEF Contest
  <2>3. CASE q.id = append[g].id
    BY Zenon, <1>2, <1>3, <1>7, <2>1, <2>3 DEF Contest
  <2> QED
    BY Zenon, <1>5, <1>7, <2>2, <2>3
<1> QED
  BY Zenon, <1>6, <1>7 DEF Contest

\* An id that is held twice is contested.
LEMMA ContestStep ==
    ASSUME ChainInv, Contest, [AuditNext]_auditVars
    PROVE  Contest'
<1>1. ASSUME NEW g \in Appenders, Stamp(g) \/ Select(g) \/ Lock(g) \/ Fail(g)
      PROVE  Contest'
  <2>1. rows' = rows /\ contested' = contested
    BY Zenon, <1>1 DEF Stamp, Select, Lock, Fail
  <2>2. \A h \in Appenders : append'[h] = NoAppend
            \/ (append[h] # NoAppend /\ append'[h].id = append[h].id)
    BY Zenon, <1>1, IdKept
  <2> QED
    BY Zenon, <2>1, <2>2, ContestStays
<1>2. CASE Alter
  <2>1. UNCHANGED <<append, contested>> /\ rows \subseteq Row
    BY Zenon, <1>2 DEF Alter, ChainInv, TypeInv
  <2>2. PICK r \in rows : rows' = (rows \ {r}) \cup {[r EXCEPT !.payload = "altered"]}
    BY Zenon, <1>2 DEF Alter
  <2>3. [r EXCEPT !.payload = "altered"].id = r.id
    BY Zenon, <2>1 DEF Row
  <2>4. \A q \in rows' : \E x \in rows : q.id = x.id
    BY Zenon, <2>2, <2>3
  <2> QED
    BY Zenon, <2>1, <2>4, ContestStays
<1>3. CASE RestartServices
  BY Zenon, <1>3 DEF RestartServices, Contest
<1>4. CASE ClockTick \/ Exhausted \/ UNCHANGED auditVars
  <2>1. UNCHANGED <<rows, append, contested>>
    BY Zenon, <1>4 DEF ClockTick, Exhausted, auditVars
  <2> QED
    BY Zenon, <2>1, ContestStays
<1> QED
  BY Zenon, <1>1, <1>2, <1>3, <1>4, DrawContest, CommitContest DEF AuditNext

-----------------------------------------------------------------------------
(* The theorems.                                                             *)

LEMMA InitChain ==
    ASSUME AuditInit
    PROVE  ChainInv /\ Contest
<1>1. /\ rows = {} /\ events = [s \in Services |-> <<>>] /\ nextAuditID = [s \in Services |-> 1]
      /\ append = [g \in Appenders |-> NoAppend] /\ clock = 0 /\ contested = {} /\ faults = 0
  BY Zenon DEF AuditInit
<1>2. 0 \in Times /\ 0 \in 0..MaxFaults /\ 1 \in 1..(MaxEvents + 1)
  BY AuditAssumption DEF Times
<1>3. <<>> \in Seq(Event) /\ DOMAIN <<>> = {}
  OBVIOUS
<1>4. TypeInv
  <2>1. events \in [Services -> Seq(Event)]
    BY Zenon, <1>1, <1>3
  <2>2. nextAuditID \in [Services -> 1..(MaxEvents + 1)]
    BY Zenon, <1>1, <1>2
  <2>3. append \in [Appenders -> {NoAppend} \cup Drawn \cup Picked]
    BY Zenon, <1>1
  <2> QED
    BY Zenon, <1>1, <1>2, <2>1, <2>2, <2>3 DEF TypeInv, Keyed
<1>5. NewestIsStored
  <2>1. NoAppend \notin Picked
    BY Zenon DEF NoAppend, Picked
  <2> QED
    BY Zenon, <1>1, <2>1 DEF NewestIsStored
<1>6. RowsContinueRows
  BY Zenon, <1>1 DEF RowsContinueRows
<1>7. StoresAreChained
  <2>1. Chained(<<>>) /\ Recorded(<<>>, rows, contested)
    BY Zenon, <1>3 DEF Chained, Recorded
  <2> QED
    BY Zenon, <1>1, <2>1 DEF StoresAreChained
<1>8. Contest
  BY Zenon, <1>1 DEF Contest
<1> QED
  BY Zenon, <1>4, <1>5, <1>6, <1>7, <1>8 DEF ChainInv, CopiesAreChained

\* A row that is committed keeps its key, its day and its two hashes: no append, failed
\* append, conflicting id or restart rewrites the chain of the table, and whoever
\* rewrites a hashed column does not get to the hashes.
HashesStay ==
    \A r \in rows : \E q \in rows' :
        q.id = r.id /\ q.day = r.day /\ q.prev = r.prev /\ q.curr = r.curr

LEMMA ChainStep ==
    ASSUME ChainInv, Contest, [AuditNext]_auditVars
    PROVE  ChainInv' /\ Contest' /\ HashesStay
<1>0. Contest'
  BY Zenon, ContestStep
<1>1. ASSUME NEW g \in Appenders,
             Draw(g) \/ Stamp(g) \/ Select(g) \/ Lock(g) \/ Fail(g)
      PROVE  ChainInv' /\ rows' = rows
  <2>1. rows' = rows
    BY Zenon, <1>1 DEF Draw, Stamp, Select, Lock, Fail
  <2> QED
    BY Zenon, <1>1, <2>1, DrawKeeps, StampKeeps, SelectKeeps, LockKeeps, FailKeeps
<1>2. ASSUME NEW g \in Appenders, Commit(g)
      PROVE  ChainInv' /\ rows \subseteq rows'
  BY Zenon, <1>2, CommitKeeps
<1>3. rows \subseteq rows' => HashesStay
  BY Zenon DEF HashesStay
<1>4. CASE Alter
  BY Zenon, <1>0, <1>4, AlterKeeps DEF HashesStay
<1>5. CASE RestartServices \/ ClockTick \/ Exhausted \/ UNCHANGED auditVars
  BY Zenon, <1>0, <1>3, <1>5, RestartKeeps, QuietSteps
<1> QED
  BY Zenon, <1>0, <1>1, <1>2, <1>3, <1>4, <1>5 DEF AuditNext

\* The table, the memory stores and the appends in progress keep their types, and an
\* audit id is a key of the table, for any number of services and refused calls.
THEOREM AuditTypes == AuditSpec => []AuditTypeOK
<1>1. ChainInv => AuditTypeOK
  <2> SUFFICES ASSUME ChainInv PROVE AuditTypeOK
    OBVIOUS
  <2>1. TypeInv
    BY Zenon DEF ChainInv
  <2>2. \A r \in rows :
          /\ r.id \in Ids /\ r.time \in Nat /\ r.day \in Nat
          /\ r.payload \in Stored /\ r.prev \in Seq(Link) /\ r.curr \in Seq(Link) \ {<<>>}
    BY Zenon, <2>1 DEF TypeInv, Row
  <2>3. \A g \in Appenders :
          /\ append[g].pc \in {"idle", "drawing", "stamped", "selected", "locked"}
          /\ append[g].pc # "idle" =>
                append[g].id \in Ids /\ append[g].time \in Times /\ append[g].payload \in Payloads
    BY Zenon, <2>1, CallFields
  <2> QED
    BY Zenon, <2>1, <2>2, <2>3 DEF AuditTypeOK, TypeInv, Keyed, Stored, Link
<1> QED
  BY PTL, <1>1, InitChain, ChainStep DEF AuditSpec

\* Both copies of the trail are chains, however the appends of several services, their
\* failures and restarts interleave: every row continues a row of its day that the table
\* still holds, every memory store recomputes from GENESIS, and every event in memory has a
\* row of its own, with the hash of what it says, unless its id was taken when appendAudit
\* drew it.  It does not say that the rows of a day are one chain: they may fork.
THEOREM TrailIsChained == AuditSpec => []CopiesAreChained
<1>1. ChainInv => CopiesAreChained
  BY Zenon DEF ChainInv
<1> QED
  BY PTL, <1>1, InitChain, ChainStep DEF AuditSpec

\* The chain of the table only grows: no step changes the key, the day or a hash of a
\* row, and none removes one.
THEOREM TrailOnlyGrows == AuditSpec => [][HashesStay]_auditVars
BY PTL, InitChain, ChainStep DEF AuditSpec

=============================================================================
