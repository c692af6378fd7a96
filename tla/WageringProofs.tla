--------------------------- MODULE WageringProofs ---------------------------
(***************************************************************************)
(* Proofs about Wagering, for any players, keys, payloads and deployments  *)
(* and all bounds.                                                         *)
(***************************************************************************)
EXTENDS Wagering, TLAPS

\* What a service remembers under a key is an OK answer.
Answer == [code : {"OK"}, wager : Wager]

\* The requests that get past the first checks of a handler
Sound == {r \in Requests : ~malformed(r)}

Fresh   == [pc : {"fresh"}, request : Sound]
Working == [pc : {"decided", "persisted", "saved"}, request : Sound, wager : Wager]

CallShape == call \in [Processes -> {Idle} \cup Fresh \cup Working]

StoreOK ==
    /\ deployment \in Deployments
    /\ wagers \in [Processes -> [WagerIds -> Wager \cup {None}]]
    /\ byIdempotency \in [Processes -> [Ids -> Answer \cup {None}]]
    /\ wagersTable \in [WagerIds -> Wager \cup {None}]
    /\ idempotencyTable \in [Ids -> [hash : Payloads, response : Answer] \cup {None}]
    /\ audited \subseteq {"place", "settle", "cancel"} \X WagerIds \X Keys
    /\ reply \in {"OK", "INVALID", "DENIED", "ERROR", None}
    /\ acknowledged \subseteq Ids \X Wager
    /\ restarts \in 0..deployment.restarts

\* The bound on wager ids holds.
DrawsBounded == lastWagerID \in 0..deployment.wagers

TypeInv == StoreOK /\ CallShape /\ DrawsBounded

-----------------------------------------------------------------------------
(* Types.                                                                    *)

LEMMA DeploymentFields ==
    ASSUME NEW d \in Deployments
    PROVE  /\ d.db \in BOOLEAN /\ d.mirror \in BOOLEAN /\ d.servers \in Processes
           /\ d.wagers \in 0..MaxWagers /\ d.restarts \in Nat
           /\ ~d.db => d.mirror /\ d.servers = 1 /\ d.restarts = 0
<1>1. d \in Deployment
  BY Zenon, ConstantsAssumption
<1> QED
  BY Zenon, <1>1, ConstantsAssumption DEF Deployment

\* The fields of a request that has a payload and a key.
LEMMA RequestFields ==
    ASSUME NEW r \in Sound
    PROVE  /\ r.op \in {"place", "settle", "cancel"} /\ r.payload \in Payloads /\ r.key \in Keys
           /\ r.op = "place" => r.scope \in Players
           /\ r.op \in Finish => r.scope \in WagerIds
           /\ Id(r) \in Ids /\ Id(r) = <<r.op, r.scope, r.key>>
<1>1. r \in Requests /\ r.payload # None /\ r.key # None
  BY Zenon DEF Sound, malformed
<1>2. /\ r.op \in {"place", "settle", "cancel"} /\ r.payload \in Payloads /\ r.key \in Keys
      /\ r.op = "place" => r.scope \in Players
      /\ r.op \in Finish => r.scope \in WagerIds
  BY Zenon, <1>1 DEF Requests, Finish
<1> QED
  BY Zenon, <1>2 DEF Id, Ids, Finish

\* The fields of a call, by where it is.
LEMMA CallFields ==
    ASSUME CallShape, NEW p \in Processes
    PROVE  /\ call[p].pc \in {"idle", "fresh", "decided", "persisted", "saved"}
           /\ call[p].pc = "idle" <=> call[p] = Idle
           /\ call[p].pc # "idle" => call[p].request \in Sound
           /\ call[p].pc \in {"decided", "persisted", "saved"} =>
                  call[p].wager \in Wager /\ call[p] \in Working
           /\ call[p].pc = "fresh" => call[p] \in Fresh
<1>1. call[p] = Idle \/ call[p] \in Fresh \/ call[p] \in Working
  BY Zenon DEF CallShape
<1>2. CASE call[p] = Idle
  BY <1>2 DEF Idle
<1>3. CASE call[p] \in Fresh
  BY <1>3 DEF Fresh, Idle
<1>4. CASE call[p] \in Working
  BY <1>4 DEF Working, Idle
<1> QED
  BY Zenon, <1>1, <1>2, <1>3, <1>4

\* The fields of a wager.
LEMMA WagerFields ==
    ASSUME NEW w \in Wager
    PROVE  /\ w.id \in WagerIds /\ w.status \in {"pending", "settled", "canceled"}
           /\ w.stake \in Payloads /\ w.detail \in Payloads \cup {None} /\ w # None
BY Zenon, ValuesAssumption DEF Wager

\* A call that returns leaves its code, the answer its client was given, and no id to
\* draw.
ReturnOK ==
    /\ CallShape /\ DrawsBounded /\ reply \in {"OK", "INVALID", "DENIED", "ERROR", None}
    /\ acknowledged \subseteq Ids \X Wager

\* A refusal is a code without a wager.
LEMMA RefusalFields ==
    ASSUME NEW code
    PROVE  Refusal(code).code = code
BY Zenon DEF Refusal

LEMMA AnswerFields ==
    /\ \A w \in Wager : OK(w) \in Answer /\ OK(w).code = "OK" /\ OK(w).wager = w
    /\ \A a \in Answer : a.code = "OK" /\ a.wager \in Wager /\ a = OK(a.wager) /\ a # None
<1>1. \A a \in Answer : a \in Response
  BY Zenon DEF Answer, Response
<1> QED
  BY <1>1, ValuesAssumption DEF Answer, OK

\* Process p remembers the answer a under k.
Remembers(p, k, a) ==
    /\ byIdempotency' \in [Processes -> [Ids -> Answer \cup {None}]]
    /\ \A q \in Processes, i \in Ids :
          byIdempotency'[q][i] = IF q = p /\ i = k THEN a ELSE byIdempotency[q][i]

\* Process p mirrors the wager w under k.
Mirrors(p, k, w) ==
    /\ wagers' \in [Processes -> [WagerIds -> Wager \cup {None}]]
    /\ \A q \in Processes, j \in WagerIds :
          wagers'[q][j] = IF q = p /\ j = k THEN w ELSE wagers[q][j]

LEMMA AnswerKept ==
    ASSUME StoreOK, NEW p \in Processes, NEW k \in Ids, NEW a \in Answer,
           byIdempotency' = [byIdempotency EXCEPT ![p][k] = a]
    PROVE  Remembers(p, k, a)
<1> DEFINE V == Answer \cup {None}
           h == [byIdempotency[p] EXCEPT ![k] = a]
<1>1. byIdempotency \in [Processes -> [Ids -> V]] /\ a \in V
  BY Zenon DEF StoreOK
<1> HIDE DEF V
<1>2. byIdempotency[p] \in [Ids -> V]
  BY Zenon, <1>1
<1>3. h \in [Ids -> V] /\ h[k] = a /\ \A i \in Ids \ {k} : h[i] = byIdempotency[p][i]
  BY Zenon, <1>1, <1>2
<1>4. byIdempotency' = [byIdempotency EXCEPT ![p] = h]
  BY Zenon
<1> HIDE DEF h
<1>5. byIdempotency' \in [Processes -> [Ids -> V]]
  BY Zenon, <1>1, <1>3, <1>4
<1>6. \A q \in Processes, i \in Ids :
          byIdempotency'[q][i] = IF q = p /\ i = k THEN a ELSE byIdempotency[q][i]
  BY Zenon, <1>1, <1>3, <1>4
<1> QED
  BY Zenon, <1>5, <1>6 DEF V, Remembers

LEMMA WagerKept ==
    ASSUME StoreOK, NEW p \in Processes, NEW k \in WagerIds, NEW w \in Wager \cup {None},
           wagers' = [wagers EXCEPT ![p] = [wagers[p] EXCEPT ![k] = w]]
    PROVE  Mirrors(p, k, w)
<1> DEFINE V == Wager \cup {None}
           h == [wagers[p] EXCEPT ![k] = w]
<1>1. wagers \in [Processes -> [WagerIds -> V]] /\ w \in V
  BY Zenon DEF StoreOK
<1> HIDE DEF V
<1>2. wagers[p] \in [WagerIds -> V]
  BY Zenon, <1>1
<1>3. h \in [WagerIds -> V] /\ h[k] = w /\ \A j \in WagerIds \ {k} : h[j] = wagers[p][j]
  BY Zenon, <1>1, <1>2
<1>4. wagers' = [wagers EXCEPT ![p] = h]
  BY Zenon
<1> HIDE DEF h
<1>5. wagers' \in [Processes -> [WagerIds -> V]]
  BY Zenon, <1>1, <1>3, <1>4
<1>6. \A q \in Processes, j \in WagerIds : wagers'[q][j] = IF q = p /\ j = k THEN w ELSE wagers[q][j]
  BY Zenon, <1>1, <1>3, <1>4
<1> QED
  BY Zenon, <1>5, <1>6 DEF V, Mirrors

\* What replaying the saved answer a does.
Replays(p, r, a) ==
    /\ a \in Answer /\ idempotencyTable[Id(r)] # None /\ a = idempotencyTable[Id(r)].response
    /\ Return(p, r, a)
    /\ \/ Mirror /\ Mirrors(p, a.wager.id, a.wager) /\ Remembers(p, Id(r), a)
       \/ ~Mirror /\ UNCHANGED Memory

\* What a call that is refused on reading its saved answer does.
Rejects(p, r) ==
    /\ UNCHANGED Memory
    /\ \E code \in {"ERROR", "INVALID"} : Return(p, r, Refusal(code))

LEMMA LoadedEffect ==
    ASSUME TypeInv, NEW p \in Processes, NEW r \in Sound, Loaded(p, r)
    PROVE  Rejects(p, r) \/ \E a \in Answer : Replays(p, r, a)
<1> DEFINE saved == idempotencyTable[Id(r)]
<1>1. saved \in [hash : Payloads, response : Answer] \cup {None} /\ Id(r) \in Ids /\ StoreOK
  BY Zenon, RequestFields DEF TypeInv, StoreOK
<1>2. CASE UNCHANGED Memory /\ (Return(p, r, Refusal("ERROR")) \/ Return(p, r, Refusal("INVALID")))
  BY Zenon, <1>2 DEF Rejects
<1>3. CASE /\ saved # None /\ saved.hash = r.payload
           /\ Return(p, r, saved.response)
           /\ \/ /\ Mirror
                 /\ byIdempotency' = [byIdempotency EXCEPT ![p][Id(r)] = saved.response]
                 /\ wagers' = [wagers EXCEPT ![p][saved.response.wager.id] = saved.response.wager]
              \/ ~Mirror /\ UNCHANGED Memory
  <2> DEFINE a == saved.response
             w == a.wager
             n == w.id
             k == Id(r)
  <2>1. a \in Answer
    BY Zenon, <1>1, <1>3
  <2>2. w \in Wager /\ n \in WagerIds /\ k \in Ids
    BY Zenon, <1>1, <2>1, AnswerFields, WagerFields
  <2>3. CASE /\ Mirror
             /\ byIdempotency' = [byIdempotency EXCEPT ![p][Id(r)] = saved.response]
             /\ wagers' = [wagers EXCEPT ![p][saved.response.wager.id] = saved.response.wager]
    <3>1. /\ byIdempotency' = [byIdempotency EXCEPT ![p][k] = a]
          /\ wagers' = [wagers EXCEPT ![p] = [wagers[p] EXCEPT ![n] = w]]
          /\ w \in Wager \cup {None}
      BY Zenon, <2>2, <2>3
    <3>2. Remembers(p, k, a) /\ Mirrors(p, n, w)
      <4> HIDE DEF a, w, n, k
      <4> QED
        BY Zenon, <1>1, <2>1, <2>2, <3>1, WagerKept, AnswerKept
    <3> QED
      BY Zenon, <1>3, <2>1, <2>3, <3>2 DEF Replays
  <2>4. CASE ~Mirror /\ UNCHANGED Memory
    BY Zenon, <1>3, <2>1, <2>4 DEF Replays
  <2> QED
    BY Zenon, <1>3, <2>3, <2>4
<1> QED
  BY Zenon, <1>2, <1>3 DEF Loaded

\* The call of process p becomes c.
Moves(p, c) == call' = [call EXCEPT ![p] = c]

\* A call that has decided on the wager w for the request r
Stage(pc, r, w)   == [pc |-> pc, request |-> r, wager |-> w]
DecidedCall(r, w) == Stage(IF UseDB THEN "decided" ELSE "saved", r, w)

\* What PlaceWager does: the wager w is new.
Places(p, r, w) ==
    /\ call[p].pc = "fresh" /\ r = call[p].request /\ r \in Sound /\ r.op = "place"
    /\ w \in Wager /\ w.id = lastWagerID + 1 /\ w.status = "pending" /\ w.stake = r.payload
    /\ lastWagerID' = w.id /\ w.id \in WagerIds
    /\ \/ Mirror /\ Mirrors(p, w.id, w) /\ Remembers(p, Id(r), OK(w))
       \/ ~Mirror /\ UNCHANGED Memory
    /\ Moves(p, DecidedCall(r, w))
    /\ UNCHANGED <<deployment, Tables, audited, restarts, Answers>>

\* What a settlement or cancellation of a pending wager does: found becomes w.
Finishes(p, r, found, w) ==
    /\ call[p].pc = "fresh" /\ r = call[p].request /\ r \in Sound /\ r.op \in Finish
    /\ found = getWager(p, r.scope) /\ found \in Wager /\ found.status = "pending"
    /\ w \in Wager /\ w.id = found.id /\ w.stake = found.stake /\ Finished(w)
    /\ \/ wagers[p][r.scope] # None /\ Mirrors(p, r.scope, w)
       \/ wagers[p][r.scope] = None /\ Mirror /\ Mirrors(p, r.scope, found)
       \/ wagers[p][r.scope] = None /\ ~Mirror /\ UNCHANGED wagers
    /\ \/ Mirror /\ Remembers(p, Id(r), OK(w))
       \/ ~Mirror /\ UNCHANGED byIdempotency
    /\ Moves(p, DecidedCall(r, w))
    /\ UNCHANGED <<deployment, Tables, audited, lastWagerID, restarts, Answers>>

\* What a refused settlement or cancellation does: the row that was read may be kept.
Looks(p, r) ==
    /\ call[p].pc = "fresh" /\ r = call[p].request /\ r \in Sound /\ r.op \in Finish
    /\ \/ wagers' = wagers
       \/ Mirror /\ Mirrors(p, r.scope, getWager(p, r.scope))
    /\ \E code \in {"ERROR", "INVALID"} : Return(p, r, Refusal(code))
    /\ UNCHANGED <<deployment, byIdempotency, Tables, audited, lastWagerID, restarts>>

LEMMA RemembersOK ==
    ASSUME TypeInv, NEW p \in Processes, NEW r \in Sound, NEW w \in Wager,
           byIdempotency' = [byIdempotency EXCEPT ![p][Id(r)] = OK(w)]
    PROVE  Remembers(p, Id(r), OK(w))
<1> DEFINE k == Id(r)
           a == OK(w)
<1>1. k \in Ids /\ a \in Answer /\ StoreOK
  BY Zenon, RequestFields, AnswerFields DEF TypeInv
<1>2. byIdempotency' = [byIdempotency EXCEPT ![p][k] = a]
  BY Zenon
<1> HIDE DEF k, a
<1>3. Remembers(p, k, a)
  BY Zenon, <1>1, <1>2, AnswerKept
<1> QED
  BY Zenon, <1>3 DEF k, a

\* The id a placement draws.
LEMMA DrawsOne ==
    ASSUME TypeInv, lastWagerID < deployment.wagers
    PROVE  /\ lastWagerID \in Nat /\ lastWagerID + 1 <= deployment.wagers
           /\ lastWagerID + 1 \in WagerIds
<1>1. deployment.wagers \in 0..MaxWagers /\ MaxWagers \in Nat
  BY Zenon, DeploymentFields, ConstantsAssumption DEF TypeInv, StoreOK
<1> QED
  BY <1>1 DEF WagerIds, TypeInv, DrawsBounded

LEMMA PlaceEffect ==
    ASSUME TypeInv, NEW p \in Processes, PlaceWager(p)
    PROVE  \E r \in Sound, w \in Wager : Places(p, r, w)
<1> DEFINE r == call[p].request
           id == lastWagerID + 1
           w == [id |-> id, status |-> "pending", stake |-> r.payload, detail |-> None]
<1>1. call[p].pc = "fresh" /\ r.op = "place" /\ r \in Sound
  BY Zenon, CallFields DEF PlaceWager, TypeInv
<1>2. r.payload \in Payloads /\ id \in WagerIds
  BY Zenon, <1>1, RequestFields, DrawsOne DEF PlaceWager
<1>3. w \in Wager /\ w.id = id /\ w.status = "pending" /\ w.stake = r.payload
  BY Zenon, <1>2 DEF Wager
<1>4. /\ lastWagerID' = id
      /\ wagers' = [wagers EXCEPT ![p] = IF Mirror THEN [wagers[p] EXCEPT ![id] = w] ELSE wagers[p]]
      /\ byIdempotency' = IF Mirror THEN [byIdempotency EXCEPT ![p][Id(r)] = OK(w)] ELSE byIdempotency
      /\ call' = [call EXCEPT ![p] = DecidedCall(r, w)]
      /\ UNCHANGED <<deployment, Tables, audited, restarts, Answers>>
  BY Zenon DEF PlaceWager, Decided, DecidedCall, Stage
<1> HIDE DEF w, id, r
<1>5. CASE Mirror
  <2>1. /\ wagers' = [wagers EXCEPT ![p] = [wagers[p] EXCEPT ![id] = w]]
        /\ byIdempotency' = [byIdempotency EXCEPT ![p][Id(r)] = OK(w)]
    BY Zenon, <1>4, <1>5
  <2>2. Remembers(p, Id(r), OK(w))
    BY Zenon, <1>1, <1>3, <2>1, RemembersOK
  <2>3. StoreOK /\ w \in Wager \cup {None}
    BY Zenon, <1>3 DEF TypeInv
  <2>4. Mirrors(p, id, w)
    BY Zenon, <1>2, <2>1, <2>3, WagerKept
  <2> QED
    BY Zenon, <1>1, <1>2, <1>3, <1>4, <1>5, <2>2, <2>4 DEF Places, r, id, Moves
<1>6. CASE ~Mirror
  <2>1. UNCHANGED Memory
    BY Zenon, <1>4, <1>6 DEF TypeInv, StoreOK, Memory
  <2> QED
    BY Zenon, <1>1, <1>2, <1>3, <1>4, <1>6, <2>1 DEF Places, r, id, Moves
<1> QED
  BY Zenon, <1>5, <1>6

LEMMA FinishEffect ==
    ASSUME TypeInv, NEW p \in Processes, FinishWager(p)
    PROVE  \E r \in Sound : Looks(p, r) \/ \E found, w \in Wager : Finishes(p, r, found, w)
<1> DEFINE r == call[p].request
           found == getWager(p, r.scope)
           kept == IF Mirror THEN [wagers[p] EXCEPT ![r.scope] = found] ELSE wagers[p]
           w == [found EXCEPT !.status = IF r.op = "settle" THEN "settled" ELSE "canceled",
                              !.detail = r.payload]
           mirror == IF wagers[p][r.scope] # None THEN [wagers[p] EXCEPT ![r.scope] = w] ELSE kept
<1>1. call[p].pc = "fresh" /\ r.op \in Finish /\ r \in Sound
  BY Zenon, CallFields DEF FinishWager, TypeInv
<1>2. r.payload \in Payloads /\ r.scope \in WagerIds
  BY Zenon, <1>1, RequestFields
<1>3. /\ wagers[p] \in [WagerIds -> Wager \cup {None}] /\ wagers[p][r.scope] \in Wager \cup {None}
      /\ wagersTable[r.scope] \in Wager \cup {None} /\ StoreOK
  BY Zenon, <1>2 DEF TypeInv, StoreOK
<1>4. found \in Wager \cup {None}
  BY Zenon, <1>3 DEF getWager
<1>5. UNCHANGED <<deployment, Tables, audited, lastWagerID, restarts>>
  BY Zenon DEF FinishWager
<1>6. \/ Return(p, r, Refusal("ERROR")) /\ UNCHANGED Memory
      \/ Return(p, r, Refusal("INVALID")) /\ wagers' = [wagers EXCEPT ![p] = kept] /\ UNCHANGED byIdempotency
      \/ found # None /\ found.status = "pending" /\ Decided(p, r, w, mirror)
  BY Zenon DEF FinishWager
<1>7. CASE Return(p, r, Refusal("ERROR")) /\ UNCHANGED Memory
  BY Zenon, <1>1, <1>5, <1>7 DEF Looks, Memory
<1>8. CASE /\ Return(p, r, Refusal("INVALID")) /\ wagers' = [wagers EXCEPT ![p] = kept]
           /\ UNCHANGED byIdempotency
  <2>1. CASE Mirror
    <3>1. wagers' = [wagers EXCEPT ![p] = [wagers[p] EXCEPT ![r.scope] = found]]
      BY Zenon, <1>8, <2>1
    <3> HIDE DEF found
    <3>2. Mirrors(p, r.scope, found)
      BY Zenon, <1>2, <1>3, <1>4, <3>1, WagerKept
    <3> QED
      BY Zenon, <1>1, <1>5, <1>8, <2>1, <3>2 DEF Looks, found
  <2>2. CASE ~Mirror
    <3>1. wagers' = wagers
      BY Zenon, <1>3, <1>8, <2>2 DEF StoreOK
    <3> QED
      BY Zenon, <1>1, <1>5, <1>8, <3>1 DEF Looks
  <2> QED
    BY Zenon, <2>1, <2>2
<1>9. CASE found # None /\ found.status = "pending" /\ Decided(p, r, w, mirror)
  <2>1. found \in Wager
    BY Zenon, <1>4, <1>9
  <2>2. w \in Wager /\ w.id = found.id /\ w.stake = found.stake /\ w.status # "pending"
    <3> HIDE DEF found
    <3> QED
      BY Zenon, <1>2, <2>1 DEF Wager
  <2>3. Finished(w)
    BY Zenon, <2>2, WagerFields DEF Finished
  <2>4. /\ wagers' = [wagers EXCEPT ![p] = mirror]
        /\ byIdempotency' = IF Mirror THEN [byIdempotency EXCEPT ![p][Id(r)] = OK(w)] ELSE byIdempotency
        /\ Moves(p, DecidedCall(r, w))
        /\ UNCHANGED Answers
    BY Zenon, <1>9 DEF Decided, Moves, DecidedCall, Stage
  <2> HIDE DEF found, w
  <2>5. \/ Mirror /\ Remembers(p, Id(r), OK(w))
        \/ ~Mirror /\ UNCHANGED byIdempotency
    BY Zenon, <1>1, <2>2, <2>4, RemembersOK
  <2>6. CASE wagers[p][r.scope] # None
    <3>1. wagers' = [wagers EXCEPT ![p] = [wagers[p] EXCEPT ![r.scope] = w]] /\ w \in Wager \cup {None}
      BY Zenon, <2>2, <2>4, <2>6
    <3>2. Mirrors(p, r.scope, w)
      BY Zenon, <1>2, <1>3, <3>1, WagerKept
    <3>3. Finishes(p, r, found, w)
      BY Zenon, <1>1, <1>5, <1>9, <2>1, <2>2, <2>3, <2>4, <2>5, <2>6, <3>2 DEF Finishes, found
    <3> QED
      BY Zenon, <1>1, <2>1, <2>2, <3>3
  <2>7. CASE wagers[p][r.scope] = None /\ Mirror
    <3>1. wagers' = [wagers EXCEPT ![p] = [wagers[p] EXCEPT ![r.scope] = found]]
      BY Zenon, <2>4, <2>7
    <3>2. Mirrors(p, r.scope, found)
      BY Zenon, <1>2, <1>3, <1>4, <3>1, WagerKept
    <3>3. Finishes(p, r, found, w)
      BY Zenon, <1>1, <1>5, <1>9, <2>1, <2>2, <2>3, <2>4, <2>5, <2>7, <3>2 DEF Finishes, found
    <3> QED
      BY Zenon, <1>1, <2>1, <2>2, <3>3
  <2>8. CASE wagers[p][r.scope] = None /\ ~Mirror
    <3>1. UNCHANGED wagers
      BY Zenon, <1>3, <2>4, <2>8 DEF StoreOK
    <3>2. Finishes(p, r, found, w)
      BY Zenon, <1>1, <1>5, <1>9, <2>1, <2>2, <2>3, <2>4, <2>5, <2>8, <3>1 DEF Finishes, found
    <3> QED
      BY Zenon, <1>1, <2>1, <2>2, <3>2
  <2> QED
    BY Zenon, <2>6, <2>7, <2>8
<1> QED
  BY Zenon, <1>6, <1>7, <1>8, <1>9

LEMMA WorkingKeeps ==
    ASSUME TypeInv, NEW p \in Processes, NEW c \in Working, Moves(p, c)
    PROVE  CallShape'
BY Zenon DEF Moves, TypeInv, CallShape

LEMMA DecidedCallOK ==
    ASSUME NEW r \in Sound, NEW w \in Wager
    PROVE  /\ DecidedCall(r, w) \in Working /\ DecidedCall(r, w).request = r
           /\ DecidedCall(r, w).wager = w
           /\ DecidedCall(r, w).pc = IF UseDB THEN "decided" ELSE "saved"
BY Zenon DEF DecidedCall, Stage, Working

\* What the three statements after the decision do when they succeed, and when they fail.
Persists(p, r, w) ==
    /\ call[p] = Stage("decided", r, w) /\ Moves(p, Stage("persisted", r, w))
    /\ wagersTable' = [wagersTable EXCEPT ![w.id] = w]
    /\ UNCHANGED <<deployment, Memory, idempotencyTable, audited, lastWagerID, restarts, Answers>>

Saves(p, r, w) ==
    /\ call[p] = Stage("persisted", r, w) /\ Moves(p, Stage("saved", r, w))
    /\ idempotencyTable' = [idempotencyTable EXCEPT ![Id(r)] = [hash |-> r.payload, response |-> OK(w)]]
    /\ UNCHANGED <<deployment, Memory, wagersTable, audited, lastWagerID, restarts, Answers>>

Tells(p, r, w) ==
    /\ call[p] = Stage("saved", r, w) /\ Return(p, r, OK(w))
    /\ audited' = audited \cup {<<r.op, w.id, r.key>>}
    /\ UNCHANGED <<deployment, Memory, Tables, lastWagerID, restarts>>

Fails(p, r) ==
    /\ Return(p, r, Refusal("ERROR"))
    /\ UNCHANGED <<deployment, Memory, Tables, audited, lastWagerID, restarts>>

LEMMA StageOK ==
    ASSUME NEW r \in Sound, NEW w \in Wager, NEW pc \in {"decided", "persisted", "saved"}
    PROVE  /\ Stage(pc, r, w) \in Working /\ Stage(pc, r, w).request = r
           /\ Stage(pc, r, w).wager = w /\ Stage(pc, r, w).pc = pc
BY Zenon DEF Stage, Working

\* A call past its decision, and the same call one statement later.
LEMMA StageForm ==
    ASSUME TypeInv, NEW p \in Processes, call[p].pc \in {"decided", "persisted", "saved"}
    PROVE  \E r \in Sound, w \in Wager :
              /\ r = call[p].request /\ w = call[p].wager /\ call[p] = Stage(call[p].pc, r, w)
              /\ \A pc : [call EXCEPT ![p].pc = pc] = [call EXCEPT ![p] = Stage(pc, r, w)]
<1> DEFINE c == call[p]
<1>1. c \in Working
  BY Zenon, CallFields DEF TypeInv
<1> HIDE DEF c
<1>2. c.request \in Sound /\ c.wager \in Wager /\ c = Stage(c.pc, c.request, c.wager)
  BY Zenon, <1>1 DEF Working, Stage
<1>3. \A pc : [c EXCEPT !.pc = pc] = Stage(pc, c.request, c.wager)
  BY <1>1 DEF Working, Stage
<1>4. \A pc : [call EXCEPT ![p].pc = pc] = [call EXCEPT ![p] = [c EXCEPT !.pc = pc]]
  BY Zenon DEF c
<1> QED
  BY <1>2, <1>3, <1>4 DEF c

LEMMA PersistEffect ==
    ASSUME TypeInv, NEW p \in Processes, persistWager(p)
    PROVE  \E r \in Sound, w \in Wager : Persists(p, r, w) \/ (Fails(p, r) /\ r = call[p].request)
<1>1. PICK r \in Sound, w \in Wager :
          /\ r = call[p].request /\ w = call[p].wager /\ call[p] = Stage(call[p].pc, r, w)
          /\ \A pc : [call EXCEPT ![p].pc = pc] = [call EXCEPT ![p] = Stage(pc, r, w)]
  BY Zenon, StageForm DEF persistWager
<1>2. CASE Return(p, call[p].request, Refusal("ERROR")) /\ UNCHANGED wagersTable
  BY Zenon, <1>1, <1>2 DEF Fails, persistWager, Memory, Tables
<1>3. CASE /\ wagersTable' = [wagersTable EXCEPT ![call[p].wager.id] = call[p].wager]
           /\ call' = [call EXCEPT ![p].pc = "persisted"]
           /\ UNCHANGED Answers
  <2>1. call' = [call EXCEPT ![p] = Stage("persisted", r, w)] /\ call[p] = Stage("decided", r, w)
    BY Zenon, <1>1, <1>3 DEF persistWager
  <2> QED
    BY Zenon, <1>1, <1>3, <2>1 DEF Persists, persistWager, Moves
<1> QED
  BY Zenon, <1>2, <1>3 DEF persistWager

LEMMA SaveEffect ==
    ASSUME TypeInv, NEW p \in Processes, persistIdempotencyResponse(p)
    PROVE  \E r \in Sound, w \in Wager : Saves(p, r, w) \/ (Fails(p, r) /\ r = call[p].request)
<1>1. PICK r \in Sound, w \in Wager :
          /\ r = call[p].request /\ w = call[p].wager /\ call[p] = Stage(call[p].pc, r, w)
          /\ \A pc : [call EXCEPT ![p].pc = pc] = [call EXCEPT ![p] = Stage(pc, r, w)]
  BY Zenon, StageForm DEF persistIdempotencyResponse
<1>2. CASE Return(p, call[p].request, Refusal("ERROR")) /\ UNCHANGED idempotencyTable
  BY Zenon, <1>1, <1>2 DEF Fails, persistIdempotencyResponse, Memory, Tables
<1>3. CASE /\ idempotencyTable' = [idempotencyTable EXCEPT ![Id(call[p].request)] =
                  [hash |-> call[p].request.payload, response |-> OK(call[p].wager)]]
           /\ call' = [call EXCEPT ![p].pc = "saved"]
           /\ UNCHANGED Answers
  <2>1. call' = [call EXCEPT ![p] = Stage("saved", r, w)] /\ call[p] = Stage("persisted", r, w)
    BY Zenon, <1>1, <1>3 DEF persistIdempotencyResponse
  <2> QED
    BY Zenon, <1>1, <1>3, <2>1 DEF Saves, persistIdempotencyResponse, Moves
<1> QED
  BY Zenon, <1>2, <1>3 DEF persistIdempotencyResponse

LEMMA AuditEffect ==
    ASSUME TypeInv, NEW p \in Processes, appendAudit(p)
    PROVE  \E r \in Sound, w \in Wager : Tells(p, r, w) \/ (Fails(p, r) /\ r = call[p].request)
<1>1. PICK r \in Sound, w \in Wager :
          r = call[p].request /\ w = call[p].wager /\ call[p] = Stage(call[p].pc, r, w)
  BY Zenon, StageForm DEF appendAudit
<1> QED
  BY Zenon, <1>1 DEF Tells, Fails, appendAudit

\* The processes a deployment runs
LEMMA ServersAreProcesses ==
    ASSUME StoreOK, NEW p \in 1..deployment.servers
    PROVE  p \in Processes
BY DeploymentFields, ConstantsAssumption DEF StoreOK, Processes

LEMMA TypeInit == Init => TypeInv
<1> SUFFICES ASSUME Init PROVE TypeInv
  BY Zenon
<1>1. deployment \in Deployments /\ deployment.wagers \in Nat /\ deployment.restarts \in Nat
  BY DeploymentFields, ConstantsAssumption DEF Init
<1>2. StoreOK
  BY <1>1 DEF Init, StoreOK
<1>3. CallShape
  BY Zenon DEF Init, CallShape
<1>6. DrawsBounded
  BY <1>1 DEF DrawsBounded, Init
<1> QED
  BY Zenon, <1>2, <1>3, <1>6 DEF TypeInv

LEMMA TypeStep == TypeInv /\ [Next]_vars => TypeInv'
<1>ReturnKeeps.
    ASSUME TypeInv, NEW p \in Processes, NEW r, NEW response, Return(p, r, response),
           UNCHANGED <<deployment, lastWagerID>>,
           response.code \in {"OK", "INVALID", "DENIED", "ERROR"},
           response.code = "OK" => response.wager \in Wager /\ Id(r) \in Ids
    PROVE  ReturnOK'
  <2> USE <1>ReturnKeeps
  <2>1. call' = [call EXCEPT ![p] = Idle] /\ CallShape
    BY Zenon DEF Return, TypeInv
  <2>2. CallShape'
    BY Zenon, <2>1 DEF CallShape
  <2>5. acknowledged' \subseteq Ids \X Wager
    BY DEF Return, TypeInv, StoreOK
  <2>7. DrawsBounded'
    BY Zenon DEF TypeInv, DrawsBounded
  <2> QED
    BY Zenon, <2>2, <2>5, <2>7 DEF Return, ReturnOK
<1>TypeRefused.
    ASSUME TypeInv, NEW p \in Processes, NEW r \in Requests, Begin(p, r), Refused(p, r)
    PROVE  TypeInv'
  <2> USE <1>TypeRefused
  <2> DEFINE code == IF malformed(r) THEN "INVALID" ELSE "DENIED"
  <2>1. Refusal(code).code = code /\ code \in {"INVALID", "DENIED"}
    BY RefusalFields
  <2>2. Return(p, r, Refusal(code)) /\ UNCHANGED <<deployment, lastWagerID>>
    BY Zenon DEF Refused, Begin
  <2>3. ReturnOK'
    BY Zenon, <2>1, <2>2, <1>ReturnKeeps
  <2> QED
    BY Zenon, <2>3 DEF TypeInv, StoreOK, Begin, Refused, Memory, Tables, ReturnOK
<1>TypeCached.
    ASSUME TypeInv, NEW p \in Processes, NEW r \in Sound, Begin(p, r), Cached(p, r)
    PROVE  TypeInv'
  <2> USE <1>TypeCached
  <2> DEFINE a == byIdempotency[p][Id(r)]
  <2>1. a \in Answer
    BY RequestFields DEF TypeInv, StoreOK, Cached
  <2>2. Return(p, r, a) /\ UNCHANGED <<deployment, lastWagerID>>
    BY Zenon DEF Cached, Begin
  <2>3. ReturnOK'
    <3> HIDE DEF a
    <3> QED
      BY Zenon, <2>1, <2>2, <1>ReturnKeeps, AnswerFields, RequestFields
  <2> QED
    BY Zenon, <2>3 DEF TypeInv, StoreOK, Begin, Cached, Memory, Tables, ReturnOK
<1>TypeLoaded.
    ASSUME TypeInv, NEW p \in Processes, NEW r \in Sound, Begin(p, r), Loaded(p, r)
    PROVE  TypeInv'
  <2> USE <1>TypeLoaded
  <2>1. UNCHANGED <<deployment, lastWagerID, audited, restarts, wagersTable, idempotencyTable>>
    BY Zenon DEF Begin, Loaded, Tables
  <2>2. CASE Rejects(p, r)
    <3>1. ReturnOK'
      BY Zenon, <2>1, <2>2, <1>ReturnKeeps, RefusalFields DEF Rejects
    <3> QED
      BY Zenon, <2>1, <2>2, <3>1 DEF TypeInv, StoreOK, Memory, ReturnOK, Rejects
  <2>3. ASSUME NEW a \in Answer, Replays(p, r, a)
        PROVE  TypeInv'
    <3>1. a.code = "OK" /\ a.wager \in Wager /\ Id(r) \in Ids
      BY Zenon, AnswerFields, RequestFields
    <3>2. ReturnOK'
      BY Zenon, <2>1, <2>3, <3>1, <1>ReturnKeeps DEF Replays
    <3>3. /\ wagers' \in [Processes -> [WagerIds -> Wager \cup {None}]]
          /\ byIdempotency' \in [Processes -> [Ids -> Answer \cup {None}]]
      BY Zenon, <2>3 DEF Replays, Mirrors, Remembers, Memory, TypeInv, StoreOK
    <3> QED
      BY Zenon, <2>1, <3>2, <3>3 DEF TypeInv, StoreOK, ReturnOK
  <2> QED
    BY Zenon, <2>2, <2>3, LoadedEffect
<1>TypeNotSeen.
    ASSUME TypeInv, NEW p \in Processes, NEW r \in Sound, Begin(p, r), NotSeen(p, r)
    PROVE  TypeInv'
  <2> USE <1>TypeNotSeen
  <2> DEFINE c == [pc |-> "fresh", request |-> r]
  <2>1. call' = [call EXCEPT ![p] = c] /\ c \in Fresh /\ CallShape
    BY Zenon DEF NotSeen, Fresh, TypeInv
  <2>2. CallShape'
    BY Zenon, <2>1 DEF CallShape
  <2>5. DrawsBounded'
    BY Zenon DEF TypeInv, DrawsBounded, Begin
  <2> QED
    BY Zenon, <2>2, <2>5 DEF TypeInv, StoreOK, Begin, NotSeen, Memory, Tables, Answers
<1>TypeBegin.
    ASSUME TypeInv, NEW p \in Processes, NEW r \in Requests, Begin(p, r)
    PROVE  TypeInv'
  BY Zenon, <1>TypeBegin, <1>TypeRefused, <1>TypeCached, <1>TypeLoaded, <1>TypeNotSeen DEF Begin, Sound
<1>TypePlace.
    ASSUME TypeInv, NEW p \in Processes, PlaceWager(p)
    PROVE  TypeInv'
  <2> USE <1>TypePlace
  <2>1. PICK r \in Sound, w \in Wager : Places(p, r, w)
    BY Zenon, PlaceEffect
  <2>3. CallShape'
    BY Zenon, <2>1, DecidedCallOK, WorkingKeeps DEF Places
  <2>2. lastWagerID < deployment.wagers
    BY Zenon DEF PlaceWager
  <2>4. lastWagerID' = lastWagerID + 1 /\ deployment' = deployment
    BY Zenon, <2>1 DEF Places
  <2>5. deployment.wagers \in Nat
    BY DeploymentFields, ConstantsAssumption DEF TypeInv, StoreOK
  <2>8. DrawsBounded'
    BY <2>2, <2>4, <2>5 DEF DrawsBounded, TypeInv
  <2>7. /\ wagers' \in [Processes -> [WagerIds -> Wager \cup {None}]]
        /\ byIdempotency' \in [Processes -> [Ids -> Answer \cup {None}]]
    BY Zenon, <2>1 DEF Places, Mirrors, Remembers, Memory, TypeInv, StoreOK
  <2> QED
    BY Zenon, <2>1, <2>3, <2>7, <2>8 DEF Places, TypeInv, StoreOK, Tables, Answers
<1>TypeFinish.
    ASSUME TypeInv, NEW p \in Processes, FinishWager(p)
    PROVE  TypeInv'
  <2> USE <1>TypeFinish
  <2>1. PICK r \in Sound : Looks(p, r) \/ \E found, w \in Wager : Finishes(p, r, found, w)
    BY Zenon, FinishEffect
  <2>2. CASE Looks(p, r)
    <3>1. ReturnOK'
      BY Zenon, <2>2, <1>ReturnKeeps, RefusalFields DEF Looks
    <3>2. wagers' \in [Processes -> [WagerIds -> Wager \cup {None}]]
      BY Zenon, <2>2 DEF Looks, Mirrors, TypeInv, StoreOK
    <3> QED
      BY Zenon, <2>2, <3>1, <3>2 DEF Looks, TypeInv, StoreOK, Tables, ReturnOK
  <2>3. ASSUME NEW found \in Wager, NEW w \in Wager, Finishes(p, r, found, w)
        PROVE  TypeInv'
    <3>1. CallShape'
      BY Zenon, <2>3, DecidedCallOK, WorkingKeeps DEF Finishes
    <3>4. DrawsBounded'
      BY Zenon, <2>3 DEF DrawsBounded, TypeInv, Finishes
    <3>5. wagers' \in [Processes -> [WagerIds -> Wager \cup {None}]]
      BY Zenon, <2>3 DEF Finishes, Mirrors, TypeInv, StoreOK
    <3>6. byIdempotency' \in [Processes -> [Ids -> Answer \cup {None}]]
      BY Zenon, <2>3 DEF Finishes, Remembers, TypeInv, StoreOK
    <3> QED
      BY Zenon, <2>3, <3>1, <3>4, <3>5, <3>6 DEF Finishes, TypeInv, StoreOK, Tables, Answers
  <2> QED
    BY Zenon, <2>1, <2>2, <2>3
<1>TypeFails.
    ASSUME TypeInv, NEW p \in Processes, NEW r \in Sound, Fails(p, r)
    PROVE  TypeInv'
  <2> USE <1>TypeFails
  <2>1. ReturnOK'
    BY <1>ReturnKeeps, RefusalFields DEF Fails
  <2> QED
    BY Zenon, <2>1 DEF TypeInv, StoreOK, Fails, Memory, Tables, ReturnOK
<1>TypeStage.
    ASSUME TypeInv, NEW p \in Processes, NEW r \in Sound, NEW w \in Wager,
           NEW pc \in {"decided", "persisted", "saved"}, Moves(p, Stage(pc, r, w)),
           UNCHANGED <<lastWagerID, deployment>>
    PROVE  CallShape' /\ DrawsBounded'
  <2> USE <1>TypeStage
  <2>1. CallShape'
    BY StageOK, WorkingKeeps
  <2> QED
    BY Zenon, <2>1 DEF DrawsBounded, TypeInv
<1>TypePersist.
    ASSUME TypeInv, NEW p \in Processes, persistWager(p)
    PROVE  TypeInv'
  <2> USE <1>TypePersist
  <2>1. PICK r \in Sound, w \in Wager : Persists(p, r, w) \/ Fails(p, r)
    BY Zenon, PersistEffect
  <2>2. CASE Persists(p, r, w)
    <3>1. CallShape' /\ DrawsBounded'
      BY Zenon, <2>2, <1>TypeStage DEF Persists
    <3>2. wagersTable' \in [WagerIds -> Wager \cup {None}]
      BY Zenon, <2>2, WagerFields DEF Persists, TypeInv, StoreOK
    <3> QED
      BY Zenon, <2>2, <3>1, <3>2 DEF TypeInv, StoreOK, Persists, Memory, Answers
  <2> QED
    BY Zenon, <2>1, <2>2, <1>TypeFails
<1>TypeSave.
    ASSUME TypeInv, NEW p \in Processes, persistIdempotencyResponse(p)
    PROVE  TypeInv'
  <2> USE <1>TypeSave
  <2>1. PICK r \in Sound, w \in Wager : Saves(p, r, w) \/ Fails(p, r)
    BY Zenon, SaveEffect
  <2>2. CASE Saves(p, r, w)
    <3>1. CallShape' /\ DrawsBounded'
      BY Zenon, <2>2, <1>TypeStage DEF Saves
    <3>2. [hash |-> r.payload, response |-> OK(w)] \in [hash : Payloads, response : Answer]
      BY Zenon, AnswerFields, RequestFields
    <3>3. idempotencyTable' \in [Ids -> [hash : Payloads, response : Answer] \cup {None}]
      BY Zenon, <2>2, <3>2 DEF Saves, TypeInv, StoreOK
    <3> QED
      BY Zenon, <2>2, <3>1, <3>3 DEF TypeInv, StoreOK, Saves, Memory, Answers
  <2> QED
    BY Zenon, <2>1, <2>2, <1>TypeFails
<1>TypeAudit.
    ASSUME TypeInv, NEW p \in Processes, appendAudit(p)
    PROVE  TypeInv'
  <2> USE <1>TypeAudit
  <2>1. PICK r \in Sound, w \in Wager : Tells(p, r, w) \/ Fails(p, r)
    BY Zenon, AuditEffect
  <2>2. CASE Tells(p, r, w)
    <3>1. ReturnOK'
      BY Zenon, <2>2, <1>ReturnKeeps, AnswerFields, RequestFields DEF Tells
    <3>2. audited' \subseteq {"place", "settle", "cancel"} \X WagerIds \X Keys
      BY <2>2, WagerFields, RequestFields DEF Tells, TypeInv, StoreOK
    <3> QED
      BY Zenon, <2>2, <3>1, <3>2 DEF TypeInv, StoreOK, Tells, Memory, Tables, ReturnOK
  <2> QED
    BY Zenon, <2>1, <2>2, <1>TypeFails
<1>TypeRestart.
    ASSUME TypeInv, NEW p \in Processes, Restart(p)
    PROVE  TypeInv'
  <2> USE <1>TypeRestart
  <2>1. call' = [call EXCEPT ![p] = Idle] /\ CallShape
    BY Zenon DEF Restart, TypeInv, Idle
  <2>2. CallShape'
    BY Zenon, <2>1 DEF CallShape
  <2>4. deployment.wagers \in Nat /\ deployment.restarts \in Nat
    BY DeploymentFields, ConstantsAssumption DEF TypeInv, StoreOK
  <2>5. DrawsBounded'
    BY Zenon DEF TypeInv, DrawsBounded, Restart
  <2>6. wagers' \in [Processes -> [WagerIds -> Wager \cup {None}]]
    BY Zenon DEF Restart, TypeInv, StoreOK
  <2>7. byIdempotency' \in [Processes -> [Ids -> Answer \cup {None}]]
    BY Zenon DEF Restart, TypeInv, StoreOK
  <2>8. restarts' \in 0..deployment.restarts
    BY <2>4 DEF Restart, TypeInv, StoreOK
  <2> QED
    BY Zenon, <2>2, <2>5, <2>6, <2>7, <2>8 DEF TypeInv, StoreOK, Restart, Tables
<1> SUFFICES ASSUME TypeInv, [Next]_vars PROVE TypeInv'
  BY Zenon
<1>1. CASE UNCHANGED vars
  <2>1. UNCHANGED <<deployment, lastWagerID, call>>
    BY Zenon, <1>1 DEF vars
  <2>2. CallShape'
    BY Zenon, <2>1 DEF CallShape, TypeInv
  <2> QED
    BY Zenon, <1>1, <2>2 DEF vars, TypeInv, StoreOK, DrawsBounded
<1>2. ASSUME NEW p \in 1..deployment.servers,
             (\E r \in Requests : Begin(p, r)) \/ PlaceWager(p) \/ FinishWager(p)
             \/ persistWager(p) \/ persistIdempotencyResponse(p) \/ appendAudit(p) \/ Restart(p)
      PROVE  TypeInv'
  <2>1. p \in Processes
    BY Zenon, ServersAreProcesses DEF TypeInv
  <2> QED
    BY Zenon, <1>2, <2>1, <1>TypeBegin, <1>TypePlace, <1>TypeFinish, <1>TypePersist, <1>TypeSave, <1>TypeAudit, <1>TypeRestart
<1> QED
  BY Zenon, <1>1, <1>2 DEF Next

LEMMA TypeImplied == TypeInv => TypeOK
<1> SUFFICES ASSUME TypeInv PROVE TypeOK
  BY Zenon
<1>1. Answer \subseteq Response /\ [hash : Payloads, response : Answer] \subseteq Saved
  BY Zenon DEF Answer, Response, Saved
<1>2. lastWagerID \in 0..MaxWagers
  BY DeploymentFields, ConstantsAssumption DEF TypeInv, StoreOK, DrawsBounded
<1>3. \A p \in Processes :
          /\ call[p].pc \in {"idle", "fresh", "decided", "persisted", "saved"}
          /\ call[p].pc # "idle" => call[p].request \in Requests
          /\ call[p].pc \in {"decided", "persisted", "saved"} => call[p].wager \in Wager
  BY Zenon, CallFields DEF TypeInv, Sound
<1>4. byIdempotency \in [Processes -> [Ids -> Response \cup {None}]]
  BY <1>1 DEF TypeInv, StoreOK
<1>5. idempotencyTable \in [Ids -> Saved \cup {None}]
  BY Zenon, <1>1 DEF TypeInv, StoreOK
<1> QED
  BY Zenon, <1>2, <1>3, <1>4, <1>5 DEF TypeOK, TypeInv, StoreOK

-----------------------------------------------------------------------------
(* The steps of a process, by what they do to what it shares and remembers.  *)

\* A call ends: refused, failed, or answered from memory.
Ends(p) ==
    /\ Moves(p, Idle) /\ UNCHANGED <<deployment, byIdempotency, Tables, audited, lastWagerID>>
    /\ \/ wagers' = wagers
       \/ Mirror /\ \E n \in WagerIds : Mirrors(p, n, getWager(p, n))
    /\ \/ acknowledged' = acknowledged
       \/ \E i \in Ids : /\ byIdempotency[p][i] # None
                         /\ acknowledged' = acknowledged \cup {<<i, byIdempotency[p][i].wager>>}

\* A call ends with a saved answer.
EndsReplaying(p, r, a) ==
    /\ UseDB /\ Moves(p, Idle) /\ UNCHANGED <<deployment, Tables, audited, lastWagerID>>
    /\ Replays(p, r, a) /\ acknowledged' = acknowledged \cup {<<Id(r), a.wager>>}

\* A call has found no answer under its key.
Starts(p, r) ==
    /\ Moves(p, [pc |-> "fresh", request |-> r])
    /\ Mirror => byIdempotency[p][Id(r)] = None
    /\ UseDB => idempotencyTable[Id(r)] = None
    /\ UNCHANGED <<deployment, Memory, Tables, audited, lastWagerID, acknowledged>>

\* A call has appended its event and answered.
EndsTelling(p, r, w) ==
    /\ call[p] = Stage("saved", r, w) /\ Moves(p, Idle)
    /\ audited' = audited \cup {<<r.op, w.id, r.key>>}
    /\ acknowledged' = acknowledged \cup {<<Id(r), w>>}
    /\ UNCHANGED <<deployment, Memory, Tables, lastWagerID>>

Dies(p) ==
    /\ restarts < deployment.restarts /\ Moves(p, Idle)
    /\ wagers' = [wagers EXCEPT ![p] = [w \in WagerIds |-> None]]
    /\ byIdempotency' = [byIdempotency EXCEPT ![p] = [i \in Ids |-> None]]
    /\ UNCHANGED <<deployment, Tables, audited, lastWagerID, acknowledged>>

Does(p) ==
    \/ Ends(p)
    \/ \E r \in Sound, a \in Answer : EndsReplaying(p, r, a)
    \/ \E r \in Sound : Starts(p, r)
    \/ \E r \in Sound, w \in Wager :
          \/ Places(p, r, w)
          \/ \E found \in Wager : Finishes(p, r, found, w)
          \/ Persists(p, r, w)
          \/ Saves(p, r, w)
          \/ EndsTelling(p, r, w)
    \/ Dies(p)

LEMMA RefusalEnds ==
    ASSUME NEW p \in Processes, NEW r, NEW code \in {"ERROR", "INVALID", "DENIED"},
           Return(p, r, Refusal(code))
    PROVE  Moves(p, Idle) /\ acknowledged' = acknowledged
BY Zenon, RefusalFields DEF Return, Moves

LEMMA BeginDoes ==
    ASSUME TypeInv, NEW p \in Processes, NEW r \in Requests, Begin(p, r)
    PROVE  Does(p)
<1>1. CASE Refused(p, r)
  <2>1. Moves(p, Idle) /\ acknowledged' = acknowledged
    <3> DEFINE code == IF malformed(r) THEN "INVALID" ELSE "DENIED"
    <3>1. code \in {"ERROR", "INVALID", "DENIED"} /\ Return(p, r, Refusal(code))
      BY Zenon, <1>1 DEF Refused
    <3> HIDE DEF code
    <3> QED
      BY Zenon, <3>1, RefusalEnds
  <2> QED
    BY Zenon, <1>1, <2>1 DEF Does, Ends, Begin, Refused, Memory
<1>2. CASE r \in Sound /\ Cached(p, r)
  <2> DEFINE i == Id(r)
             a == byIdempotency[p][i]
  <2>1. i \in Ids /\ a # None /\ a \in Answer /\ Return(p, r, a)
    BY <1>2, RequestFields DEF Cached, TypeInv, StoreOK
  <2>2. Moves(p, Idle) /\ acknowledged' = acknowledged \cup {<<i, a.wager>>}
    <3>1. a.code = "OK"
      <4> HIDE DEF a
      <4> QED
        BY Zenon, <2>1, AnswerFields
    <3> QED
      BY Zenon, <2>1, <3>1 DEF Return, Moves
  <2>3. UNCHANGED <<deployment, byIdempotency, wagers, Tables, audited, lastWagerID>>
    BY Zenon, <1>2 DEF Begin, Cached, Memory
  <2>4. Ends(p)
    <3> HIDE DEF i
    <3> QED
      BY Zenon, <2>1, <2>2, <2>3 DEF Ends
  <2> QED
    BY Zenon, <2>4 DEF Does
<1>3. CASE r \in Sound /\ Loaded(p, r)
  <2>1. UNCHANGED <<deployment, Tables, audited, lastWagerID>> /\ UseDB
    BY Zenon, <1>3 DEF Begin, Loaded
  <2>2. CASE Rejects(p, r)
    <3>1. Moves(p, Idle) /\ acknowledged' = acknowledged
      BY Zenon, <2>2, RefusalEnds DEF Rejects
    <3> QED
      BY Zenon, <2>1, <2>2, <3>1 DEF Does, Ends, Rejects, Memory
  <2>3. ASSUME NEW a \in Answer, Replays(p, r, a)
        PROVE  Does(p)
    <3>1. Moves(p, Idle) /\ acknowledged' = acknowledged \cup {<<Id(r), a.wager>>}
      BY Zenon, <2>3, AnswerFields DEF Replays, Return, Moves
    <3>2. EndsReplaying(p, r, a)
      BY Zenon, <2>1, <2>3, <3>1 DEF EndsReplaying
    <3> QED
      BY Zenon, <1>3, <3>2 DEF Does
  <2> QED
    BY Zenon, <1>3, <2>2, <2>3, LoadedEffect
<1>4. CASE r \in Sound /\ NotSeen(p, r)
  <2>1. Starts(p, r)
    BY Zenon, <1>4 DEF Starts, NotSeen, Begin, Moves, Answers
  <2> QED
    BY Zenon, <1>4, <2>1 DEF Does
<1> QED
  BY Zenon, <1>1, <1>2, <1>3, <1>4 DEF Begin, Sound

LEMMA FailsEnds ==
    ASSUME NEW p \in Processes, NEW r, Fails(p, r)
    PROVE  Ends(p)
BY Zenon, RefusalEnds DEF Fails, Ends, Memory

LEMMA LooksEnds ==
    ASSUME NEW p \in Processes, NEW r \in Sound, Looks(p, r)
    PROVE  Ends(p)
<1>1. Moves(p, Idle) /\ acknowledged' = acknowledged
  BY Zenon, RefusalEnds DEF Looks
<1>2. r.scope \in WagerIds
  BY Zenon, RequestFields DEF Looks
<1> QED
  BY Zenon, <1>1, <1>2 DEF Looks, Ends

LEMMA NextDoes ==
    ASSUME TypeInv, Next
    PROVE  \E p \in Processes : p \in 1..deployment.servers /\ Does(p)
<1>1. PICK p \in 1..deployment.servers :
          (\E r \in Requests : Begin(p, r)) \/ PlaceWager(p) \/ FinishWager(p)
          \/ persistWager(p) \/ persistIdempotencyResponse(p) \/ appendAudit(p) \/ Restart(p)
  BY Zenon DEF Next
<1>2. p \in Processes
  BY Zenon, ServersAreProcesses DEF TypeInv
<1>3. CASE \E r \in Requests : Begin(p, r)
  BY Zenon, <1>2, <1>3, BeginDoes
<1>4. CASE PlaceWager(p)
  BY Zenon, <1>2, <1>4, PlaceEffect DEF Does
<1>5. CASE FinishWager(p)
  BY Zenon, <1>2, <1>5, FinishEffect, LooksEnds DEF Does
<1>6. CASE persistWager(p)
  BY Zenon, <1>2, <1>6, PersistEffect, FailsEnds DEF Does
<1>7. CASE persistIdempotencyResponse(p)
  BY Zenon, <1>2, <1>7, SaveEffect, FailsEnds DEF Does
<1>8. CASE appendAudit(p)
  <2>1. PICK r \in Sound, w \in Wager : Tells(p, r, w) \/ Fails(p, r)
    BY Zenon, <1>2, <1>8, AuditEffect
  <2>2. CASE Tells(p, r, w)
    <3>1. Moves(p, Idle) /\ acknowledged' = acknowledged \cup {<<Id(r), w>>}
      BY Zenon, <2>2, AnswerFields DEF Tells, Return, Moves
    <3>2. EndsTelling(p, r, w)
      BY Zenon, <2>2, <3>1 DEF EndsTelling, Tells
    <3> QED
      BY Zenon, <1>2, <3>2 DEF Does
  <2> QED
    BY Zenon, <1>2, <2>1, <2>2, FailsEnds DEF Does
<1>9. CASE Restart(p)
  <2>1. Dies(p)
    BY Zenon, <1>9 DEF Restart, Dies, Moves
  <2> QED
    BY Zenon, <1>2, <2>1 DEF Does
<1> QED
  BY Zenon, <1>1, <1>3, <1>4, <1>5, <1>6, <1>7, <1>8, <1>9

LEMMA CallMoves ==
    ASSUME CallShape, NEW p \in Processes, NEW c, Moves(p, c)
    PROVE  call'[p] = c /\ \A q \in Processes : q # p => call'[q] = call[q]
BY Zenon DEF CallShape, Moves

LEMMA Decides ==
    ASSUME CallShape, NEW p \in Processes, NEW r \in Sound, NEW w \in Wager, Moves(p, DecidedCall(r, w))
    PROVE  /\ call'[p] = DecidedCall(r, w) /\ call'[p].request = r /\ call'[p].wager = w
           /\ UseDB => call'[p].pc = "decided"
           /\ ~UseDB => call'[p].pc = "saved"
           /\ \A q \in Processes : q # p => call'[q] = call[q]
<1>1. call'[p] = DecidedCall(r, w) /\ \A q \in Processes : q # p => call'[q] = call[q]
  BY Zenon, CallMoves
<1>2. /\ DecidedCall(r, w).request = r /\ DecidedCall(r, w).wager = w
      /\ DecidedCall(r, w).pc = IF UseDB THEN "decided" ELSE "saved"
  BY Zenon, DecidedCallOK
<1> QED
  BY Zenon, <1>1, <1>2

\* The deployment is chosen once, and only persistWager changes the wagers table.
LEMMA OnlyPersistsWrites ==
    ASSUME NEW p \in Processes, Does(p)
    PROVE  /\ deployment' = deployment
           /\ (\E r \in Sound, w \in Wager : Persists(p, r, w)) \/ wagersTable' = wagersTable
<1>1. CASE Ends(p) \/ Dies(p)
  BY Zenon, <1>1 DEF Ends, Dies, Tables
<1>2. ASSUME NEW r \in Sound, NEW a \in Answer, EndsReplaying(p, r, a)
      PROVE  deployment' = deployment /\ wagersTable' = wagersTable
  BY Zenon, <1>2 DEF EndsReplaying, Tables
<1>3. ASSUME NEW r \in Sound, Starts(p, r)
      PROVE  deployment' = deployment /\ wagersTable' = wagersTable
  BY Zenon, <1>3 DEF Starts, Tables
<1>4. ASSUME NEW r \in Sound, NEW w \in Wager, Places(p, r, w)
      PROVE  deployment' = deployment /\ wagersTable' = wagersTable
  BY Zenon, <1>4 DEF Places, Tables
<1>5. ASSUME NEW r \in Sound, NEW found \in Wager, NEW w \in Wager, Finishes(p, r, found, w)
      PROVE  deployment' = deployment /\ wagersTable' = wagersTable
  BY Zenon, <1>5 DEF Finishes, Tables
<1>6. ASSUME NEW r \in Sound, NEW w \in Wager, Persists(p, r, w)
      PROVE  deployment' = deployment
  BY Zenon, <1>6 DEF Persists
<1>7. ASSUME NEW r \in Sound, NEW w \in Wager, Saves(p, r, w)
      PROVE  deployment' = deployment /\ wagersTable' = wagersTable
  BY Zenon, <1>7 DEF Saves
<1>8. ASSUME NEW r \in Sound, NEW w \in Wager, EndsTelling(p, r, w)
      PROVE  deployment' = deployment /\ wagersTable' = wagersTable
  BY Zenon, <1>8 DEF EndsTelling, Tables
<1> QED
  BY Zenon, <1>1, <1>2, <1>3, <1>4, <1>5, <1>6, <1>7, <1>8 DEF Does


-----------------------------------------------------------------------------
(* What is in the database when an auditor is told: any deployment.          *)

Late == {"decided", "persisted", "saved"}

\* Every wager anyone knows of has been drawn, and is kept under its own id.
MirrorKnown ==
    \A q \in Processes, j \in WagerIds :
        wagers[q][j] # None => wagers[q][j].id = j /\ j <= lastWagerID
RowsKnown ==
    \A j \in WagerIds : wagersTable[j] # None => wagersTable[j].id = j /\ j <= lastWagerID
SavedKnown ==
    \A i \in Ids : idempotencyTable[i] # None => idempotencyTable[i].response.wager.id <= lastWagerID
AnswersKnown ==
    \A q \in Processes, i \in Ids :
        byIdempotency[q][i] # None => byIdempotency[q][i].wager.id <= lastWagerID
CallsKnown ==
    \A q \in Processes : call[q].pc \in Late => call[q].wager.id <= lastWagerID

KnownIds == MirrorKnown /\ RowsKnown /\ SavedKnown /\ AnswersKnown /\ CallsKnown

\* A call places a pending wager or finishes the one it was asked to finish.
CallsSound ==
    \A p \in Processes : call[p].pc \in Late =>
        IF call[p].request.op = "place" THEN call[p].wager.status = "pending"
        ELSE call[p].wager.id = call[p].request.scope /\ Finished(call[p].wager)

\* A placed wager that has not been written is known to nobody else.
Private(p, n) ==
    /\ wagersTable[n] = None
    /\ \A q \in Processes : q # p => /\ wagers[q][n] = None
                                     /\ call[q].pc \in Late => call[q].wager.id # n
    /\ \A i \in Ids : idempotencyTable[i] # None => idempotencyTable[i].response.wager.id # n

PlacedIsPrivate ==
    \A p \in Processes : call[p].pc = "decided" /\ call[p].request.op = "place" =>
        Private(p, call[p].wager.id)

\* What a call with a database has written by the time it gets there.
WrittenByThen ==
    UseDB => \A p \in Processes :
        /\ call[p].pc \in {"persisted", "saved"} =>
              /\ wagersTable[call[p].wager.id] # None
              /\ call[p].request.op \in Finish => Finished(wagersTable[call[p].wager.id])
        /\ call[p].pc = "saved" => idempotencyTable[Id(call[p].request)] # None

DurableInv == KnownIds /\ CallsSound /\ PlacedIsPrivate /\ WrittenByThen /\ AuditedIsDurable

\* The call of p, at a stage past its decision, and every other call.
LEMMA StageMoves ==
    ASSUME TypeInv, NEW p \in Processes, NEW r \in Sound, NEW w \in Wager,
           NEW from \in {"decided", "persisted"}, NEW to \in {"persisted", "saved"},
           call[p] = Stage(from, r, w), Moves(p, Stage(to, r, w))
    PROVE  /\ call[p].pc = from /\ call[p].request = r /\ call[p].wager = w
           /\ call'[p].pc = to /\ call'[p].request = r /\ call'[p].wager = w
           /\ \A q \in Processes : q # p => call'[q] = call[q]
<1>1. call'[p] = Stage(to, r, w) /\ \A q \in Processes : q # p => call'[q] = call[q]
  BY Zenon, CallMoves DEF TypeInv
<1> QED
  BY <1>1, StageOK

\* No finished row becomes unfinished, and no row goes away, in any deployment.
LEMMA RowsMoveForward ==
    ASSUME TypeInv, DurableInv, NEW p \in Processes, NEW r \in Sound, NEW w \in Wager, Persists(p, r, w)
    PROVE  /\ \A j \in WagerIds : wagersTable[j] # None => wagersTable'[j] # None
           /\ \A j \in WagerIds : Finished(wagersTable[j]) => Finished(wagersTable'[j])
           /\ w.id \in WagerIds /\ wagersTable'[w.id] = w
           /\ \A j \in WagerIds : j # w.id => wagersTable'[j] = wagersTable[j]
<1>1. call[p].pc = "decided" /\ call[p].request = r /\ call[p].wager = w
  BY Zenon, StageMoves DEF Persists
<1>2. w.id \in WagerIds /\ w # None
  BY Zenon, WagerFields
<1>3. /\ wagersTable'[w.id] = w
      /\ \A j \in WagerIds : j # w.id => wagersTable'[j] = wagersTable[j]
  BY Zenon, <1>2 DEF Persists, TypeInv, StoreOK
<1>4. Finished(wagersTable[w.id]) => Finished(w)
  <2>1. CASE r.op = "place"
    <3>1. Private(p, w.id)
      BY Zenon, <1>1, <2>1 DEF DurableInv, PlacedIsPrivate
    <3> QED
      BY Zenon, <3>1 DEF Private, Finished
  <2>2. CASE r.op # "place"
    BY Zenon, <1>1, <2>2 DEF DurableInv, CallsSound, Late
  <2> QED
    BY Zenon, <2>1, <2>2
<1>5. \A j \in WagerIds : Finished(wagersTable[j]) => Finished(wagersTable'[j])
  BY Zenon, <1>3, <1>4
<1> QED
  BY Zenon, <1>2, <1>3, <1>5

LEMMA DurableInit == Init => DurableInv
<1> SUFFICES ASSUME Init PROVE DurableInv
  BY Zenon
<1>1. KnownIds
  BY Zenon DEF Init, KnownIds, MirrorKnown, RowsKnown, SavedKnown, AnswersKnown, CallsKnown, Idle, Late
<1>2. CallsSound /\ PlacedIsPrivate /\ WrittenByThen /\ AuditedIsDurable
  BY Zenon DEF Init, CallsSound, PlacedIsPrivate, WrittenByThen, AuditedIsDurable, Idle, Late
<1> QED
  BY Zenon, <1>1, <1>2 DEF DurableInv

LEMMA DurableStep == TypeInv /\ DurableInv /\ [Next]_vars => DurableInv'
<1>EndsKeepsDurable.
    ASSUME TypeInv, DurableInv, NEW p \in Processes, Ends(p)
    PROVE  DurableInv'
  <2> USE <1>EndsKeepsDurable
  <2>1. call'[p] = Idle /\ \A q \in Processes : q # p => call'[q] = call[q]
    BY Zenon, CallMoves DEF Ends, TypeInv
  <2>2. Idle.pc \notin Late
    BY Zenon DEF Idle, Late
  <2>3. UNCHANGED <<deployment, byIdempotency, wagersTable, idempotencyTable, audited, lastWagerID>>
    BY Zenon DEF Ends, Tables
  <2>4. \A q \in Processes, j \in WagerIds :
            \/ wagers'[q][j] = wagers[q][j]
            \/ q = p /\ wagers'[q][j] = getWager(p, j)
    BY Zenon DEF Ends, Mirrors
  <2>5. \A j \in WagerIds : getWager(p, j) \in {wagers[p][j], wagersTable[j]}
    BY Zenon DEF getWager
  <2>6. KnownIds'
    <3>1. MirrorKnown'
      BY <2>3, <2>4, <2>5 DEF DurableInv, KnownIds, MirrorKnown, RowsKnown
    <3>2. CallsKnown'
      BY Zenon, <2>1, <2>2, <2>3 DEF DurableInv, KnownIds, CallsKnown
    <3> QED
      BY Zenon, <2>3, <3>1, <3>2 DEF DurableInv, KnownIds, RowsKnown, SavedKnown, AnswersKnown
  <2>7. CallsSound'
    BY Zenon, <2>1, <2>2 DEF DurableInv, CallsSound
  <2>8. PlacedIsPrivate'
    <3> SUFFICES ASSUME NEW q \in Processes, call'[q].pc = "decided", call'[q].request.op = "place"
                 PROVE  Private(q, call[q].wager.id)' /\ call'[q] = call[q]
      BY Zenon DEF PlacedIsPrivate
    <3>1. q # p /\ call'[q] = call[q]
      BY Zenon, <2>1, <2>2 DEF Late
    <3> DEFINE n == call[q].wager.id
    <3>2. Private(q, n) /\ n \in WagerIds
      BY Zenon, <3>1, CallFields, WagerFields DEF DurableInv, PlacedIsPrivate, TypeInv
    <3> HIDE DEF n
    <3>3. \A x \in WagerIds : x = n => Private(q, x)'
      BY <2>1, <2>2, <2>3, <2>4, <2>5, <3>1, <3>2 DEF Private
    <3> QED
      BY Zenon, <3>1, <3>2, <3>3 DEF n
  <2>9. WrittenByThen' /\ AuditedIsDurable'
    BY <2>1, <2>2, <2>3 DEF DurableInv, WrittenByThen, AuditedIsDurable, UseDB, Late
  <2> QED
    BY Zenon, <2>6, <2>7, <2>8, <2>9 DEF DurableInv
<1>ReplayKeepsDurable.
    ASSUME TypeInv, DurableInv, NEW p \in Processes, NEW r \in Sound, NEW a \in Answer,
           EndsReplaying(p, r, a)
    PROVE  DurableInv'
  <2> USE <1>ReplayKeepsDurable
  <2> DEFINE k == a.wager.id
  <2>1. call'[p] = Idle /\ \A q \in Processes : q # p => call'[q] = call[q]
    BY Zenon, CallMoves DEF EndsReplaying, TypeInv
  <2>2. Idle.pc \notin Late
    BY Zenon DEF Idle, Late
  <2>3. UNCHANGED <<deployment, wagersTable, idempotencyTable, audited, lastWagerID>>
    BY Zenon DEF EndsReplaying, Tables
  <2>4. /\ k \in WagerIds /\ Id(r) \in Ids /\ idempotencyTable[Id(r)] # None
        /\ idempotencyTable[Id(r)].response.wager = a.wager
    BY Zenon, AnswerFields, WagerFields, RequestFields DEF EndsReplaying, Replays
  <2>5. k <= lastWagerID
    BY Zenon, <2>4 DEF DurableInv, KnownIds, SavedKnown
  <2>6. \A q \in Processes, j \in WagerIds :
            \/ wagers'[q][j] = wagers[q][j]
            \/ q = p /\ j = k /\ wagers'[q][j] = a.wager
    BY DEF EndsReplaying, Replays, Mirrors, Memory
  <2>7. \A q \in Processes, i \in Ids :
            \/ byIdempotency'[q][i] = byIdempotency[q][i]
            \/ byIdempotency'[q][i] = a
    BY Zenon DEF EndsReplaying, Replays, Remembers, Memory
  <2>8. KnownIds'
    <3>1. MirrorKnown'
      BY <2>3, <2>5, <2>6 DEF DurableInv, KnownIds, MirrorKnown
    <3>2. CallsKnown'
      BY Zenon, <2>1, <2>2, <2>3 DEF DurableInv, KnownIds, CallsKnown
    <3>3. AnswersKnown'
      BY Zenon, <2>3, <2>5, <2>7 DEF DurableInv, KnownIds, AnswersKnown
    <3> QED
      BY Zenon, <2>3, <3>1, <3>2, <3>3 DEF DurableInv, KnownIds, RowsKnown, SavedKnown
  <2>9. CallsSound'
    BY Zenon, <2>1, <2>2 DEF DurableInv, CallsSound
  <2>10. PlacedIsPrivate'
    <3> SUFFICES ASSUME NEW q \in Processes, call'[q].pc = "decided", call'[q].request.op = "place"
                 PROVE  Private(q, call[q].wager.id)' /\ call'[q] = call[q]
      BY Zenon DEF PlacedIsPrivate
    <3>1. q # p /\ call'[q] = call[q]
      BY Zenon, <2>1, <2>2 DEF Late
    <3> DEFINE n == call[q].wager.id
    <3>2. Private(q, n) /\ n \in WagerIds
      BY Zenon, <3>1, CallFields, WagerFields DEF DurableInv, PlacedIsPrivate, TypeInv
    <3>3. k # n
      BY Zenon, <2>4, <3>2 DEF Private
    <3> HIDE DEF n, k
    <3>4. \A x \in WagerIds : x = n => Private(q, x)'
      BY <2>1, <2>2, <2>3, <2>6, <3>1, <3>2, <3>3 DEF Private
    <3> QED
      BY Zenon, <3>1, <3>2, <3>4 DEF n
  <2>11. WrittenByThen' /\ AuditedIsDurable'
    BY <2>1, <2>2, <2>3 DEF DurableInv, WrittenByThen, AuditedIsDurable, UseDB, Late
  <2> QED
    BY Zenon, <2>8, <2>9, <2>10, <2>11 DEF DurableInv
<1>StartsKeepsDurable.
    ASSUME TypeInv, DurableInv, NEW p \in Processes, NEW r \in Sound, Starts(p, r)
    PROVE  DurableInv'
  <2> USE <1>StartsKeepsDurable
  <2>1. call'[p].pc = "fresh" /\ \A q \in Processes : q # p => call'[q] = call[q]
    BY CallMoves DEF Starts, TypeInv
  <2>2. "fresh" \notin Late
    BY Zenon DEF Late
  <2>3. UNCHANGED <<deployment, wagers, byIdempotency, wagersTable, idempotencyTable, audited, lastWagerID>>
    BY Zenon DEF Starts, Tables, Memory
  <2>4. KnownIds'
    <3>1. CallsKnown'
      BY Zenon, <2>1, <2>2, <2>3 DEF DurableInv, KnownIds, CallsKnown
    <3> QED
      BY Zenon, <2>3, <3>1 DEF DurableInv, KnownIds, MirrorKnown, RowsKnown, SavedKnown, AnswersKnown
  <2>5. CallsSound'
    BY <2>1, <2>2 DEF DurableInv, CallsSound
  <2>6. PlacedIsPrivate'
    <3> SUFFICES ASSUME NEW q \in Processes, call'[q].pc = "decided", call'[q].request.op = "place"
                 PROVE  Private(q, call[q].wager.id)' /\ call'[q] = call[q]
      BY Zenon DEF PlacedIsPrivate
    <3>1. q # p /\ call'[q] = call[q]
      BY Zenon, <2>1
    <3> DEFINE n == call[q].wager.id
    <3>2. Private(q, n)
      BY Zenon, <3>1 DEF DurableInv, PlacedIsPrivate
    <3> HIDE DEF n
    <3>3. \A x : x = n => Private(q, x)'
      BY <2>1, <2>2, <2>3, <3>1, <3>2 DEF Private
    <3> QED
      BY Zenon, <3>1, <3>3 DEF n
  <2>7. WrittenByThen' /\ AuditedIsDurable'
    BY <2>1, <2>3 DEF DurableInv, WrittenByThen, AuditedIsDurable, UseDB
  <2> QED
    BY Zenon, <2>4, <2>5, <2>6, <2>7 DEF DurableInv
<1>DiesKeepsDurable.
    ASSUME TypeInv, DurableInv, NEW p \in Processes, Dies(p)
    PROVE  DurableInv'
  <2> USE <1>DiesKeepsDurable
  <2>1. call'[p] = Idle /\ \A q \in Processes : q # p => call'[q] = call[q]
    BY Zenon, CallMoves DEF Dies, TypeInv
  <2>2. Idle.pc \notin Late
    BY Zenon DEF Idle, Late
  <2>3. UNCHANGED <<deployment, wagersTable, idempotencyTable, audited, lastWagerID>>
    BY Zenon DEF Dies, Tables
  <2>4. \A q \in Processes, j \in WagerIds : wagers'[q][j] \in {None, wagers[q][j]}
    BY Zenon DEF Dies, TypeInv, StoreOK
  <2>5. \A q \in Processes, i \in Ids : byIdempotency'[q][i] \in {None, byIdempotency[q][i]}
    BY Zenon DEF Dies, TypeInv, StoreOK
  <2>6. KnownIds'
    <3>1. MirrorKnown'
      BY <2>3, <2>4 DEF DurableInv, KnownIds, MirrorKnown
    <3>2. AnswersKnown'
      BY <2>3, <2>5 DEF DurableInv, KnownIds, AnswersKnown
    <3>3. CallsKnown'
      BY Zenon, <2>1, <2>2, <2>3 DEF DurableInv, KnownIds, CallsKnown
    <3> QED
      BY Zenon, <2>3, <3>1, <3>2, <3>3 DEF DurableInv, KnownIds, RowsKnown, SavedKnown
  <2>7. CallsSound'
    BY Zenon, <2>1, <2>2 DEF DurableInv, CallsSound
  <2>8. PlacedIsPrivate'
    <3> SUFFICES ASSUME NEW q \in Processes, call'[q].pc = "decided", call'[q].request.op = "place"
                 PROVE  Private(q, call[q].wager.id)' /\ call'[q] = call[q]
      BY Zenon DEF PlacedIsPrivate
    <3>1. q # p /\ call'[q] = call[q]
      BY Zenon, <2>1, <2>2 DEF Late
    <3> DEFINE n == call[q].wager.id
    <3>2. Private(q, n) /\ n \in WagerIds
      BY Zenon, <3>1, CallFields, WagerFields DEF DurableInv, PlacedIsPrivate, TypeInv
    <3> HIDE DEF n
    <3>3. \A x \in WagerIds : x = n => Private(q, x)'
      BY <2>1, <2>2, <2>3, <2>4, <3>1, <3>2 DEF Private
    <3> QED
      BY Zenon, <3>1, <3>2, <3>3 DEF n
  <2>9. WrittenByThen' /\ AuditedIsDurable'
    BY <2>1, <2>2, <2>3 DEF DurableInv, WrittenByThen, AuditedIsDurable, UseDB, Late
  <2> QED
    BY Zenon, <2>6, <2>7, <2>8, <2>9 DEF DurableInv
<1>PlacesKeepsDurable.
    ASSUME TypeInv, DurableInv, NEW p \in Processes, NEW r \in Sound, NEW w \in Wager, Places(p, r, w)
    PROVE  DurableInv'
  <2> USE <1>PlacesKeepsDurable
  <2> DEFINE k == w.id
  <2>1. /\ call'[p] = DecidedCall(r, w) /\ call'[p].request = r /\ call'[p].wager = w
        /\ UseDB => call'[p].pc = "decided"
        /\ \A q \in Processes : q # p => call'[q] = call[q]
    BY Zenon, Decides DEF Places, TypeInv
  <2>2. /\ UNCHANGED <<deployment, wagersTable, idempotencyTable, audited>>
        /\ r.op = "place" /\ w.status = "pending"
    BY Zenon DEF Places, Tables
  <2>3. lastWagerID \in Nat /\ lastWagerID' = lastWagerID + 1 /\ k = lastWagerID + 1 /\ k \in WagerIds
    BY DEF Places, TypeInv, DrawsBounded
  <2>4. \A q \in Processes, j \in WagerIds :
            \/ wagers'[q][j] = wagers[q][j]
            \/ q = p /\ j = k /\ wagers'[q][j] = w
    BY Zenon DEF Places, Mirrors, Memory
  <2>5. \A q \in Processes, i \in Ids :
            \/ byIdempotency'[q][i] = byIdempotency[q][i]
            \/ byIdempotency'[q][i].wager = w
    BY AnswerFields DEF Places, Remembers, Memory
  <2>6. /\ WagerIds \subseteq Nat
        /\ \A x \in WagerIds : x <= lastWagerID => x <= lastWagerID + 1
    BY <2>3 DEF WagerIds
  <2>7. KnownIds'
    <3>1. MirrorKnown'
      <4>1. \A q \in Processes, j \in WagerIds :
                wagers[q][j] # None => wagers[q][j].id = j /\ j <= lastWagerID + 1
        BY Zenon, <2>6 DEF DurableInv, KnownIds, MirrorKnown
      <4>2. \A q \in Processes, j \in WagerIds :
                wagers'[q][j] # None => wagers'[q][j].id = j /\ j <= lastWagerID + 1
        <5> SUFFICES ASSUME NEW q \in Processes, NEW j \in WagerIds, wagers'[q][j] # None
                     PROVE  wagers'[q][j].id = j /\ j <= lastWagerID + 1
          BY Zenon
        <5>1. CASE wagers'[q][j] = wagers[q][j]
          BY Zenon, <4>1, <5>1
        <5>2. CASE j = k /\ wagers'[q][j] = w
          <6>1. k <= lastWagerID + 1
            BY <2>3
          <6> QED
            BY Zenon, <5>2, <6>1
        <5> QED
          BY Zenon, <2>4, <5>1, <5>2
      <4> QED
        BY Zenon, <2>3, <4>2 DEF MirrorKnown
    <3>2. RowsKnown'
      <4>1. \A j \in WagerIds : wagersTable[j] # None => wagersTable[j].id = j /\ j <= lastWagerID + 1
        BY Zenon, <2>6 DEF DurableInv, KnownIds, RowsKnown
      <4> QED
        BY Zenon, <2>2, <2>3, <4>1 DEF RowsKnown
    <3>3. SavedKnown'
      <4> SUFFICES ASSUME NEW i \in Ids, idempotencyTable[i] # None
                   PROVE  idempotencyTable[i].response.wager.id <= lastWagerID + 1
        BY Zenon, <2>2, <2>3 DEF SavedKnown
      <4>1. idempotencyTable[i].response.wager.id \in WagerIds
        BY AnswerFields, WagerFields DEF TypeInv, StoreOK
      <4>2. idempotencyTable[i].response.wager.id <= lastWagerID
        BY Zenon DEF DurableInv, KnownIds, SavedKnown
      <4> QED
        BY Zenon, <2>6, <4>1, <4>2
    <3>4. AnswersKnown'
      <4> SUFFICES ASSUME NEW q \in Processes, NEW i \in Ids, byIdempotency'[q][i] # None
                   PROVE  byIdempotency'[q][i].wager.id <= lastWagerID + 1
        BY Zenon, <2>3 DEF AnswersKnown
      <4>1. CASE byIdempotency'[q][i].wager = w
        BY <2>3, <4>1
      <4>2. CASE byIdempotency'[q][i] = byIdempotency[q][i]
        <5>1. byIdempotency[q][i].wager.id \in WagerIds
          BY <4>2, AnswerFields, WagerFields DEF TypeInv, StoreOK
        <5>2. byIdempotency[q][i].wager.id <= lastWagerID
          BY Zenon, <4>2 DEF DurableInv, KnownIds, AnswersKnown
        <5> QED
          BY Zenon, <2>6, <4>2, <5>1, <5>2
      <4> QED
        BY Zenon, <2>5, <4>1, <4>2
    <3>5. CallsKnown'
      <4> SUFFICES ASSUME NEW q \in Processes, call'[q].pc \in Late
                   PROVE  call'[q].wager.id <= lastWagerID + 1
        BY Zenon, <2>3 DEF CallsKnown
      <4>1. CASE q = p
        BY <2>1, <2>3, <4>1
      <4>2. CASE q # p
        <5>1. call[q].wager.id \in WagerIds
          BY Zenon, <2>1, <4>2, CallFields, WagerFields DEF TypeInv, Late
        <5>2. call[q].wager.id <= lastWagerID
          BY Zenon, <2>1, <4>2 DEF DurableInv, KnownIds, CallsKnown
        <5> QED
          BY Zenon, <2>1, <2>6, <4>2, <5>1, <5>2
      <4> QED
        BY Zenon, <4>1, <4>2
    <3> QED
      BY Zenon, <3>1, <3>2, <3>3, <3>4, <3>5 DEF KnownIds
  <2>8. CallsSound'
    BY <2>1, <2>2 DEF DurableInv, CallsSound
  <2>9. PlacedIsPrivate'
    <3> SUFFICES ASSUME NEW q \in Processes, call'[q].pc = "decided", call'[q].request.op = "place"
                 PROVE  Private(q, call[q].wager.id)'
      BY Zenon DEF PlacedIsPrivate
    <3>1. CASE q = p
      <4>1. wagersTable[k] = None
        BY <2>3, <2>6 DEF DurableInv, KnownIds, RowsKnown
      <4>2. \A o \in Processes : o # p => wagers[o][k] = None
        BY <2>3, <2>6 DEF DurableInv, KnownIds, MirrorKnown
      <4>3. \A o \in Processes : o # p => (call[o].pc \in Late => call[o].wager.id # k)
        BY <2>3, <2>6 DEF DurableInv, KnownIds, CallsKnown
      <4>4. \A i \in Ids : idempotencyTable[i] # None => idempotencyTable[i].response.wager.id # k
        BY <2>3, <2>6 DEF DurableInv, KnownIds, SavedKnown
      <4> HIDE DEF k
      <4>5. \A x \in WagerIds : x = k => Private(p, x)'
        BY <2>1, <2>2, <2>4, <4>1, <4>2, <4>3, <4>4 DEF Private
      <4> QED
        BY Zenon, <2>1, <2>3, <3>1, <4>5 DEF k
    <3>2. CASE q # p
      <4> DEFINE n == call[q].wager.id
      <4>1. call'[q] = call[q]
        BY Zenon, <2>1, <3>2
      <4>2. Private(q, n) /\ n \in WagerIds
        BY Zenon, <4>1, CallFields, WagerFields DEF DurableInv, PlacedIsPrivate, TypeInv
      <4>3. n # k
        BY <2>3, <2>6, <4>1, <4>2 DEF DurableInv, KnownIds, CallsKnown, Late
      <4> HIDE DEF n, k
      <4>4. \A x \in WagerIds : x = n => Private(q, x)'
        BY <2>1, <2>2, <2>4, <3>2, <4>2, <4>3 DEF Private, k
      <4> QED
        BY Zenon, <4>1, <4>2, <4>4 DEF n
    <3> QED
      BY Zenon, <3>1, <3>2
  <2>10. WrittenByThen' /\ AuditedIsDurable'
    BY Zenon, <2>1, <2>2 DEF DurableInv, WrittenByThen, AuditedIsDurable, UseDB
  <2> QED
    BY Zenon, <2>7, <2>8, <2>9, <2>10 DEF DurableInv
<1>FinishesKeepsDurable.
    ASSUME TypeInv, DurableInv, NEW p \in Processes, NEW r \in Sound,
           NEW found \in Wager, NEW w \in Wager, Finishes(p, r, found, w)
    PROVE  DurableInv'
  <2> USE <1>FinishesKeepsDurable
  <2> DEFINE k == r.scope
  <2>1. /\ call'[p] = DecidedCall(r, w) /\ call'[p].request = r /\ call'[p].wager = w
        /\ UseDB => call'[p].pc = "decided"
        /\ \A q \in Processes : q # p => call'[q] = call[q]
    BY Zenon, Decides DEF Finishes, TypeInv
  <2>2. /\ UNCHANGED <<deployment, wagersTable, idempotencyTable, audited, lastWagerID>>
        /\ r.op # "place" /\ Finished(w)
    BY Zenon DEF Finishes, Tables, Finish
  <2>3. k \in WagerIds /\ found # None /\ found \in {wagers[p][k], wagersTable[k]}
    BY Zenon, RequestFields, WagerFields DEF Finishes, getWager
  <2>4. found.id = k /\ w.id = k /\ k <= lastWagerID
    <3>1. w.id = found.id
      BY Zenon DEF Finishes
    <3>2. CASE found = wagers[p][k]
      BY Zenon, <2>3, <3>1, <3>2 DEF DurableInv, KnownIds, MirrorKnown
    <3>3. CASE found = wagersTable[k]
      BY Zenon, <2>3, <3>1, <3>3 DEF DurableInv, KnownIds, RowsKnown
    <3> QED
      BY Zenon, <2>3, <3>2, <3>3
  <2>5. \A q \in Processes, j \in WagerIds :
            \/ wagers'[q][j] = wagers[q][j]
            \/ q = p /\ j = k /\ wagers'[q][j] \in {w, found}
    BY Zenon DEF Finishes, Mirrors
  <2>6. \A q \in Processes, i \in Ids :
            \/ byIdempotency'[q][i] = byIdempotency[q][i]
            \/ byIdempotency'[q][i].wager = w
    <3>1. OK(w).wager = w
      BY Zenon, AnswerFields
    <3>2. Remembers(p, Id(r), OK(w)) \/ UNCHANGED byIdempotency
      BY Zenon DEF Finishes
    <3> QED
      BY Zenon, <3>1, <3>2 DEF Remembers
  <2>7. KnownIds'
    <3>1. MirrorKnown'
      BY <2>2, <2>4, <2>5 DEF DurableInv, KnownIds, MirrorKnown
    <3>2. AnswersKnown'
      BY Zenon, <2>2, <2>4, <2>6 DEF DurableInv, KnownIds, AnswersKnown
    <3>3. CallsKnown'
      BY Zenon, <2>1, <2>2, <2>4 DEF DurableInv, KnownIds, CallsKnown
    <3> QED
      BY Zenon, <2>2, <3>1, <3>2, <3>3 DEF DurableInv, KnownIds, RowsKnown, SavedKnown
  <2>8. CallsSound'
    BY <2>1, <2>2, <2>4 DEF DurableInv, CallsSound
  <2>9. PlacedIsPrivate'
    <3> SUFFICES ASSUME NEW q \in Processes, call'[q].pc = "decided", call'[q].request.op = "place"
                 PROVE  Private(q, call[q].wager.id)'
      BY Zenon DEF PlacedIsPrivate
    <3> DEFINE n == call[q].wager.id
    <3>1. q # p /\ call'[q] = call[q]
      BY Zenon, <2>1, <2>2
    <3>2. Private(q, n) /\ n \in WagerIds
      BY Zenon, <3>1, CallFields, WagerFields DEF DurableInv, PlacedIsPrivate, TypeInv
    <3>3. n # k
      BY Zenon, <2>3, <3>1, <3>2 DEF Private
    <3> HIDE DEF n, k
    <3>4. \A x \in WagerIds : x = n => Private(q, x)'
      BY <2>1, <2>2, <2>4, <2>5, <3>1, <3>2, <3>3 DEF Private
    <3> QED
      BY Zenon, <3>1, <3>2, <3>4 DEF n
  <2>10. WrittenByThen' /\ AuditedIsDurable'
    BY Zenon, <2>1, <2>2 DEF DurableInv, WrittenByThen, AuditedIsDurable, UseDB
  <2> QED
    BY Zenon, <2>7, <2>8, <2>9, <2>10 DEF DurableInv
<1>PersistsKeepsDurable.
    ASSUME TypeInv, DurableInv, NEW p \in Processes, NEW r \in Sound, NEW w \in Wager, Persists(p, r, w)
    PROVE  DurableInv'
  <2> USE <1>PersistsKeepsDurable
  <2> DEFINE k == w.id
  <2>1. /\ call[p].pc = "decided" /\ call[p].request = r /\ call[p].wager = w
        /\ call'[p].pc = "persisted" /\ call'[p].request = r /\ call'[p].wager = w
        /\ \A q \in Processes : q # p => call'[q] = call[q]
    BY Zenon, StageMoves DEF Persists
  <2>2. UNCHANGED <<deployment, wagers, byIdempotency, idempotencyTable, audited, lastWagerID>>
    BY Zenon DEF Persists, Memory
  <2>3. /\ \A j \in WagerIds : wagersTable[j] # None => wagersTable'[j] # None
        /\ \A j \in WagerIds : Finished(wagersTable[j]) => Finished(wagersTable'[j])
        /\ k \in WagerIds /\ wagersTable'[k] = w /\ w # None
        /\ \A j \in WagerIds : j # k => wagersTable'[j] = wagersTable[j]
    BY RowsMoveForward, WagerFields
  <2>4. k <= lastWagerID
    BY Zenon, <2>1 DEF DurableInv, KnownIds, CallsKnown, Late
  <2>5. KnownIds'
    <3>1. RowsKnown'
      BY Zenon, <2>2, <2>3, <2>4 DEF DurableInv, KnownIds, RowsKnown
    <3>2. CallsKnown'
      BY Zenon, <2>1, <2>2, <2>4 DEF DurableInv, KnownIds, CallsKnown
    <3> QED
      BY Zenon, <2>2, <3>1, <3>2 DEF DurableInv, KnownIds, MirrorKnown, SavedKnown, AnswersKnown
  <2>6. CallsSound'
    BY <2>1 DEF DurableInv, CallsSound, Late
  <2>7. PlacedIsPrivate'
    <3> SUFFICES ASSUME NEW q \in Processes, call'[q].pc = "decided", call'[q].request.op = "place"
                 PROVE  Private(q, call[q].wager.id)'
      BY Zenon DEF PlacedIsPrivate
    <3> DEFINE n == call[q].wager.id
    <3>1. q # p /\ call'[q] = call[q]
      BY Zenon, <2>1
    <3>2. Private(q, n) /\ n \in WagerIds
      BY Zenon, <3>1, CallFields, WagerFields DEF DurableInv, PlacedIsPrivate, TypeInv
    <3>3. n # k
      BY Zenon, <2>1, <3>1, <3>2 DEF Private, Late
    <3> HIDE DEF n, k
    <3>4. \A x \in WagerIds : x = n => Private(q, x)'
      BY <2>1, <2>2, <2>3, <3>1, <3>2, <3>3 DEF Private, Late, k
    <3> QED
      BY Zenon, <3>1, <3>2, <3>4 DEF n
  <2>8. WrittenByThen'
    <3> SUFFICES ASSUME UseDB, NEW q \in Processes, call'[q].pc \in {"persisted", "saved"}
                 PROVE  /\ wagersTable'[call'[q].wager.id] # None
                        /\ call'[q].request.op \in Finish => Finished(wagersTable'[call'[q].wager.id])
                        /\ call'[q].pc = "saved" => idempotencyTable'[Id(call'[q].request)] # None
      BY Zenon, <2>2 DEF WrittenByThen, UseDB, Id
    <3>1. CASE q = p
      BY <2>1, <2>3, <3>1 DEF DurableInv, CallsSound, Late, Finish
    <3>2. CASE q # p
      <4>1. call'[q] = call[q] /\ call[q].wager.id \in WagerIds
        BY Zenon, <2>1, <3>2, CallFields, WagerFields DEF TypeInv
      <4> QED
        BY Zenon, <2>2, <2>3, <4>1 DEF DurableInv, WrittenByThen
    <3> QED
      BY Zenon, <3>1, <3>2
  <2>9. AuditedIsDurable'
    <3>1. \A e \in audited : e[2] \in WagerIds
      BY Zenon DEF TypeInv, StoreOK
    <3> QED
      BY Zenon, <2>2, <2>3, <3>1 DEF DurableInv, AuditedIsDurable, UseDB
  <2> QED
    BY Zenon, <2>5, <2>6, <2>7, <2>8, <2>9 DEF DurableInv
<1>SavesKeepsDurable.
    ASSUME TypeInv, DurableInv, NEW p \in Processes, NEW r \in Sound, NEW w \in Wager, Saves(p, r, w)
    PROVE  DurableInv'
  <2> USE <1>SavesKeepsDurable
  <2> DEFINE i == Id(r)
             a == [hash |-> r.payload, response |-> OK(w)]
  <2>1. /\ call[p].pc = "persisted" /\ call[p].request = r /\ call[p].wager = w
        /\ call'[p].pc = "saved" /\ call'[p].request = r /\ call'[p].wager = w
        /\ \A q \in Processes : q # p => call'[q] = call[q]
    BY Zenon, StageMoves DEF Saves
  <2>2. UNCHANGED <<deployment, wagers, byIdempotency, wagersTable, audited, lastWagerID>>
    BY Zenon DEF Saves, Memory
  <2>3. /\ i \in Ids /\ a # None /\ a.response.wager = w /\ idempotencyTable'[i] = a
        /\ \A x \in Ids : x # i => idempotencyTable'[x] = idempotencyTable[x]
    <3>1. i \in Ids /\ r.payload \in Payloads /\ OK(w) \in Response /\ OK(w).wager = w
      BY Zenon, RequestFields, AnswerFields DEF Answer, Response
    <3>2. a \in Saved
      BY Zenon, <3>1 DEF Saved
    <3> QED
      BY Zenon, <3>1, <3>2, ValuesAssumption DEF Saves, TypeInv, StoreOK
  <2> HIDE DEF a
  <2>4. w.id <= lastWagerID
    BY Zenon, <2>1 DEF DurableInv, KnownIds, CallsKnown, Late
  <2>5. KnownIds'
    <3>1. SavedKnown'
      BY Zenon, <2>2, <2>3, <2>4 DEF DurableInv, KnownIds, SavedKnown
    <3>2. CallsKnown'
      BY Zenon, <2>1, <2>2, <2>4 DEF DurableInv, KnownIds, CallsKnown
    <3> QED
      BY Zenon, <2>2, <3>1, <3>2 DEF DurableInv, KnownIds, MirrorKnown, RowsKnown, AnswersKnown
  <2>6. CallsSound'
    BY <2>1 DEF DurableInv, CallsSound, Late
  <2>7. PlacedIsPrivate'
    <3> SUFFICES ASSUME NEW q \in Processes, call'[q].pc = "decided", call'[q].request.op = "place"
                 PROVE  Private(q, call[q].wager.id)'
      BY Zenon DEF PlacedIsPrivate
    <3> DEFINE n == call[q].wager.id
    <3>1. q # p /\ call'[q] = call[q]
      BY Zenon, <2>1
    <3>2. Private(q, n) /\ n \in WagerIds
      BY Zenon, <3>1, CallFields, WagerFields DEF DurableInv, PlacedIsPrivate, TypeInv
    <3>3. n # w.id
      BY Zenon, <2>1, <3>1, <3>2 DEF Private, Late
    <3> HIDE DEF n, i
    <3>4. \A x \in WagerIds : x = n => Private(q, x)'
      BY <2>1, <2>2, <2>3, <3>1, <3>2, <3>3 DEF Private, Late
    <3> QED
      BY Zenon, <3>1, <3>2, <3>4 DEF n
  <2>8. WrittenByThen'
    <3> SUFFICES ASSUME UseDB, NEW q \in Processes, call'[q].pc \in {"persisted", "saved"}
                 PROVE  /\ wagersTable'[call'[q].wager.id] # None
                        /\ call'[q].request.op \in Finish => Finished(wagersTable'[call'[q].wager.id])
                        /\ call'[q].pc = "saved" => idempotencyTable'[Id(call'[q].request)] # None
      BY Zenon, <2>2 DEF WrittenByThen, UseDB, Id
    <3>1. CASE q = p
      BY <2>1, <2>2, <2>3, <3>1 DEF DurableInv, WrittenByThen
    <3>2. CASE q # p
      <4>1. call'[q] = call[q] /\ Id(call[q].request) \in Ids
        BY Zenon, <2>1, <3>2, CallFields, RequestFields DEF TypeInv
      <4>2. /\ wagersTable[call[q].wager.id] # None
            /\ call[q].request.op \in Finish => Finished(wagersTable[call[q].wager.id])
            /\ call[q].pc = "saved" => idempotencyTable[Id(call[q].request)] # None
        BY Zenon, <4>1 DEF DurableInv, WrittenByThen
      <4> QED
        BY Zenon, <2>2, <2>3, <4>1, <4>2
    <3> QED
      BY Zenon, <3>1, <3>2
  <2>9. AuditedIsDurable'
    <3> SUFFICES ASSUME UseDB, NEW e \in audited
                 PROVE  /\ wagersTable[e[2]] # None
                        /\ e[1] \in Finish => /\ Finished(wagersTable[e[2]])
                                              /\ idempotencyTable'[e] # None
      BY Zenon, <2>2 DEF AuditedIsDurable, UseDB
    <3>1. e[1] \in Finish => e \in Ids
      BY Zenon DEF TypeInv, StoreOK, Ids, Finish
    <3> QED
      BY Zenon, <2>3, <3>1 DEF DurableInv, AuditedIsDurable
  <2> QED
    BY Zenon, <2>5, <2>6, <2>7, <2>8, <2>9 DEF DurableInv
<1>TellsKeepsDurable.
    ASSUME TypeInv, DurableInv, NEW p \in Processes, NEW r \in Sound, NEW w \in Wager,
           EndsTelling(p, r, w)
    PROVE  DurableInv'
  <2> USE <1>TellsKeepsDurable
  <2>1. /\ call[p].pc = "saved" /\ call[p].request = r /\ call[p].wager = w
        /\ call'[p] = Idle /\ \A q \in Processes : q # p => call'[q] = call[q]
    BY CallMoves, StageOK DEF EndsTelling, TypeInv
  <2>2. Idle.pc \notin Late
    BY Zenon DEF Idle, Late
  <2>3. UNCHANGED <<deployment, wagers, byIdempotency, wagersTable, idempotencyTable, lastWagerID>>
    BY Zenon DEF EndsTelling, Tables, Memory
  <2>4. KnownIds'
    <3>1. CallsKnown'
      BY Zenon, <2>1, <2>2, <2>3 DEF DurableInv, KnownIds, CallsKnown
    <3> QED
      BY Zenon, <2>3, <3>1 DEF DurableInv, KnownIds, MirrorKnown, RowsKnown, SavedKnown, AnswersKnown
  <2>5. CallsSound'
    BY <2>1, <2>2 DEF DurableInv, CallsSound
  <2>6. PlacedIsPrivate'
    <3> SUFFICES ASSUME NEW q \in Processes, call'[q].pc = "decided", call'[q].request.op = "place"
                 PROVE  Private(q, call[q].wager.id)' /\ call'[q] = call[q]
      BY Zenon DEF PlacedIsPrivate
    <3>1. q # p /\ call'[q] = call[q]
      BY Zenon, <2>1, <2>2 DEF Late
    <3> DEFINE n == call[q].wager.id
    <3>2. Private(q, n)
      BY Zenon, <3>1 DEF DurableInv, PlacedIsPrivate
    <3> HIDE DEF n
    <3>3. \A x : x = n => Private(q, x)'
      BY <2>1, <2>2, <2>3, <3>1, <3>2 DEF Private
    <3> QED
      BY Zenon, <3>1, <3>3 DEF n
  <2>7. WrittenByThen'
    BY <2>1, <2>2, <2>3 DEF DurableInv, WrittenByThen, UseDB, Late
  <2>8. AuditedIsDurable'
    <3> DEFINE new == <<r.op, w.id, r.key>>
    <3>1. audited' = audited \cup {new}
      BY Zenon DEF EndsTelling
    <3>2. ASSUME UseDB
          PROVE  /\ wagersTable[w.id] # None
                 /\ r.op \in Finish => /\ Finished(wagersTable[w.id])
                                       /\ idempotencyTable[new] # None
      <4>1. r.op \in Finish => w.id = r.scope
        BY Zenon, <2>1 DEF DurableInv, CallsSound, Late, Finish
      <4>2. r.op \in Finish => new = Id(r)
        BY Zenon, <4>1 DEF Id
      <4> HIDE DEF new
      <4> QED
        BY Zenon, <2>1, <3>2, <4>2 DEF DurableInv, WrittenByThen
    <3>3. new[1] = r.op /\ new[2] = w.id
      BY Zenon
    <3> HIDE DEF new
    <3> QED
      BY Zenon, <2>3, <3>1, <3>2, <3>3 DEF DurableInv, AuditedIsDurable, UseDB
  <2> QED
    BY Zenon, <2>4, <2>5, <2>6, <2>7, <2>8 DEF DurableInv
<1> SUFFICES ASSUME TypeInv, DurableInv, [Next]_vars PROVE DurableInv'
  BY Zenon
<1>1. CASE UNCHANGED vars
  <2>1. KnownIds'
    BY Zenon, <1>1 DEF vars, DurableInv, KnownIds, MirrorKnown, RowsKnown, SavedKnown, AnswersKnown, CallsKnown
  <2>2. PlacedIsPrivate'
    BY Zenon, <1>1 DEF vars, DurableInv, PlacedIsPrivate, Private
  <2> QED
    BY Zenon, <1>1, <2>1, <2>2 DEF vars, DurableInv, CallsSound, WrittenByThen, AuditedIsDurable, UseDB
<1>2. CASE Next
  <2>1. PICK p \in Processes : Does(p)
    BY Zenon, <1>2, NextDoes
  <2> QED
    BY Zenon, <2>1, <1>EndsKeepsDurable, <1>ReplayKeepsDurable, <1>StartsKeepsDurable, <1>PlacesKeepsDurable,
       <1>FinishesKeepsDurable, <1>PersistsKeepsDurable, <1>SavesKeepsDurable, <1>TellsKeepsDurable,
       <1>DiesKeepsDurable DEF Does
<1> QED
  BY Zenon, <1>1, <1>2

-----------------------------------------------------------------------------
(* Strict mode, one process, restarts included.                              *)

\* Only the processes of the deployment take calls, only mirrors hold wagers and answers,
\* and only calls with a database write.
Idlers ==
    /\ \A q \in Processes : q \notin 1..deployment.servers => call[q] = Idle
    /\ ~Mirror => \A q \in Processes : /\ \A j \in WagerIds : wagers[q][j] = None
                                       /\ \A i \in Ids : byIdempotency[q][i] = None
    /\ ~UseDB => \A q \in Processes : call[q].pc \notin {"decided", "persisted"}

LEMMA IdlersKept ==
    ASSUME Idlers, NEW p \in Processes, p \in 1..deployment.servers, UNCHANGED deployment,
           ~Mirror => UNCHANGED <<wagers, byIdempotency>>,
           \A q \in Processes : q # p => call'[q] = call[q],
           ~UseDB => call'[p].pc \in {"idle", "saved"}
    PROVE  Idlers'
<1>1. \A q \in Processes : q \notin 1..deployment'.servers => call'[q] = Idle
  BY Zenon DEF Idlers
<1>2. ~Mirror' => \A q \in Processes : /\ \A j \in WagerIds : wagers'[q][j] = None
                                       /\ \A i \in Ids : byIdempotency'[q][i] = None
  BY Zenon DEF Idlers, Mirror
<1>3. ~UseDB' => \A q \in Processes : call'[q].pc \notin {"decided", "persisted"}
  BY Zenon DEF Idlers, UseDB
<1> QED
  BY Zenon, <1>1, <1>2, <1>3 DEF Idlers

LEMMA IdlersStep ==
    ASSUME TypeInv, Idlers, NEW p \in Processes, p \in 1..deployment.servers, Does(p)
    PROVE  Idlers'
<1>1. /\ Idle.pc = "idle"
      /\ \A r : [pc |-> "fresh", request |-> r].pc = "fresh"
  BY Zenon DEF Idle
<1>2. CASE Ends(p)
  <2>1. \A q \in Processes : q # p => call'[q] = call[q]
    BY Zenon, <1>2, CallMoves DEF Ends, TypeInv
  <2>2. call'[p].pc = "idle"
    BY Zenon, <1>1, <1>2, CallMoves DEF Ends, TypeInv
  <2>3. UNCHANGED <<deployment, byIdempotency>> /\ (~Mirror => UNCHANGED wagers)
    BY Zenon, <1>2 DEF Ends
  <2> QED
    BY Zenon, <1>1, <2>1, <2>2, <2>3, IdlersKept
<1>3. ASSUME NEW r \in Sound, NEW a \in Answer, EndsReplaying(p, r, a)
      PROVE  Idlers'
  <2>1. \A q \in Processes : q # p => call'[q] = call[q]
    BY Zenon, <1>3, CallMoves DEF EndsReplaying, TypeInv
  <2>2. call'[p].pc = "idle"
    BY Zenon, <1>1, <1>3, CallMoves DEF EndsReplaying, TypeInv
  <2>3. UNCHANGED deployment /\ (~Mirror => UNCHANGED <<wagers, byIdempotency>>)
    BY Zenon, <1>3 DEF EndsReplaying, Replays, Memory
  <2> QED
    BY Zenon, <1>1, <2>1, <2>2, <2>3, IdlersKept
<1>4. ASSUME NEW r \in Sound, Starts(p, r)
      PROVE  Idlers'
  <2>1. \A q \in Processes : q # p => call'[q] = call[q]
    BY Zenon, <1>4, CallMoves DEF Starts, TypeInv
  <2>2. call'[p].pc = "fresh"
    BY <1>1, <1>4, CallMoves DEF Starts, TypeInv
  <2> QED
    BY Zenon, <1>4, <2>1, <2>2 DEF Idlers, Starts, Memory, Mirror, UseDB
<1>5. ASSUME NEW r \in Sound, NEW w \in Wager, Places(p, r, w)
      PROVE  Idlers'
  <2>1. \A q \in Processes : q # p => call'[q] = call[q]
    BY Zenon, <1>5, CallMoves DEF Places, TypeInv
  <2>2. ~UseDB => call'[p].pc = "saved"
    BY Zenon, <1>5, Decides DEF Places, TypeInv
  <2>3. UNCHANGED deployment /\ (~Mirror => UNCHANGED <<wagers, byIdempotency>>)
    BY Zenon, <1>5 DEF Places, Memory
  <2> QED
    BY Zenon, <1>1, <2>1, <2>2, <2>3, IdlersKept
<1>6. ASSUME NEW r \in Sound, NEW found \in Wager, NEW w \in Wager, Finishes(p, r, found, w)
      PROVE  Idlers'
  <2>1. \A q \in Processes : q # p => call'[q] = call[q]
    BY Zenon, <1>6, CallMoves DEF Finishes, TypeInv
  <2>2. ~UseDB => call'[p].pc = "saved"
    BY Zenon, <1>6, Decides DEF Finishes, TypeInv
  <2>3. r.scope \in WagerIds
    BY Zenon, <1>6, RequestFields DEF Finishes
  <2>4. ~Mirror => UNCHANGED <<wagers, byIdempotency>>
    BY Zenon, <1>6, <2>3 DEF Idlers, Finishes
  <2>5. UNCHANGED deployment
    BY Zenon, <1>6 DEF Finishes
  <2> QED
    BY Zenon, <1>1, <2>1, <2>2, <2>4, <2>5, IdlersKept
<1>7. ASSUME NEW r \in Sound, NEW w \in Wager, Persists(p, r, w)
      PROVE  Idlers'
  <2>1. /\ \A q \in Processes : q # p => call'[q] = call[q]
        /\ call[p].pc = "decided"
    BY Zenon, <1>7, StageMoves DEF Persists
  <2> QED
    BY Zenon, <1>7, <2>1 DEF Idlers, Persists, Memory, Mirror, UseDB
<1>8. ASSUME NEW r \in Sound, NEW w \in Wager, Saves(p, r, w)
      PROVE  Idlers'
  <2>1. /\ \A q \in Processes : q # p => call'[q] = call[q]
        /\ call[p].pc = "persisted"
    BY Zenon, <1>8, StageMoves DEF Saves
  <2> QED
    BY Zenon, <1>8, <2>1 DEF Idlers, Saves, Memory, Mirror, UseDB
<1>9. ASSUME NEW r \in Sound, NEW w \in Wager, EndsTelling(p, r, w)
      PROVE  Idlers'
  <2>1. \A q \in Processes : q # p => call'[q] = call[q]
    BY Zenon, <1>9, CallMoves DEF EndsTelling, TypeInv
  <2>2. call'[p].pc = "idle"
    BY Zenon, <1>1, <1>9, CallMoves DEF EndsTelling, TypeInv
  <2> QED
    BY Zenon, <1>9, <2>1, <2>2 DEF Idlers, EndsTelling, Memory, Mirror, UseDB
<1>10. CASE Dies(p)
  <2>1. \A q \in Processes : q # p => call'[q] = call[q]
    BY Zenon, <1>10, CallMoves DEF Dies, TypeInv
  <2>2. call'[p].pc = "idle"
    BY Zenon, <1>1, <1>10, CallMoves DEF Dies, TypeInv
  <2>3. /\ \A q \in Processes, j \in WagerIds : wagers'[q][j] \in {None, wagers[q][j]}
        /\ \A q \in Processes, i \in Ids : byIdempotency'[q][i] \in {None, byIdempotency[q][i]}
    BY Zenon, <1>10 DEF Dies, TypeInv, StoreOK
  <2>4. UNCHANGED deployment /\ call'[p] = Idle
    BY Zenon, <1>10, CallMoves DEF Dies, TypeInv
  <2>5. /\ \A q \in Processes, j \in WagerIds : wagers[q][j] = None => wagers'[q][j] = None
        /\ \A q \in Processes, i \in Ids : byIdempotency[q][i] = None => byIdempotency'[q][i] = None
    BY Zenon, <2>3
  <2> QED
    BY Zenon, <2>1, <2>2, <2>4, <2>5 DEF Idlers, Mirror, UseDB
<1> QED
  BY Zenon, <1>2, <1>3, <1>4, <1>5, <1>6, <1>7, <1>8, <1>9, <1>10 DEF Does

\* A process that is alone has the only call.
LEMMA Alone ==
    ASSUME TypeInv, Idlers, deployment.servers = 1, NEW p \in Processes, p \in 1..deployment.servers
    PROVE  p = 1 /\ \A q \in Processes : q # p => call[q].pc = "idle"
<1>1. p = 1 /\ \A q \in Processes : q # p => q \notin 1..deployment.servers
  BY DEF Processes
<1>2. \A q \in Processes : q # p => call[q] = Idle
  BY Zenon, <1>1 DEF Idlers
<1>3. Idle.pc = "idle"
  BY Zenon DEF Idle
<1> QED
  BY Zenon, <1>1, <1>2, <1>3

LEMMA MovesAlone ==
    ASSUME TypeInv, Idlers, deployment.servers = 1, NEW p \in Processes, p \in 1..deployment.servers,
           NEW c, Moves(p, c)
    PROVE  call'[p] = c /\ \A q \in Processes : q # p => call'[q].pc = "idle"
<1>1. \A q \in Processes : q # p => call[q].pc = "idle"
  BY Zenon, Alone
<1>2. call'[p] = c /\ \A q \in Processes : q # p => call'[q] = call[q]
  BY Zenon, CallMoves DEF TypeInv
<1> QED
  BY Zenon, <1>1, <1>2

LEMMA StartsAlone ==
    ASSUME TypeInv, Idlers, deployment.servers = 1, NEW p \in Processes, p \in 1..deployment.servers,
           NEW r \in Sound, Starts(p, r)
    PROVE  /\ call'[p].pc = "fresh" /\ call'[p].request = r
           /\ \A q \in Processes : q # p => call'[q].pc = "idle"
<1> DEFINE c == [pc |-> "fresh", request |-> r]
<1>1. c.pc = "fresh" /\ c.request = r
  BY Zenon
<1>2. Moves(p, c)
  BY Zenon DEF Starts
<1> HIDE DEF c
<1>3. call'[p] = c /\ \A q \in Processes : q # p => call'[q].pc = "idle"
  BY Zenon, <1>2, MovesAlone
<1> QED
  BY Zenon, <1>1, <1>3

LEMMA DecidesAlone ==
    ASSUME TypeInv, Idlers, deployment.servers = 1, NEW p \in Processes, p \in 1..deployment.servers,
           NEW r \in Sound, NEW w \in Wager, Moves(p, DecidedCall(r, w))
    PROVE  /\ call'[p].request = r /\ call'[p].wager = w
           /\ UseDB => call'[p].pc = "decided"
           /\ ~UseDB => call'[p].pc = "saved"
           /\ \A q \in Processes : q # p => call'[q].pc = "idle"
<1>1. \A q \in Processes : q # p => call'[q].pc = "idle"
  BY Zenon, MovesAlone
<1>2. /\ call'[p].request = r /\ call'[p].wager = w
      /\ UseDB => call'[p].pc = "decided"
      /\ ~UseDB => call'[p].pc = "saved"
  <2>1. CallShape
    BY Zenon DEF TypeInv
  <2> QED
    BY <2>1, Decides
<1> QED
  BY Zenon, <1>1, <1>2

\* In strict mode the key of a call is unused until its answer is saved,
StrictKeys ==
    Strict => \A p \in Processes :
        /\ call[p].pc \in {"fresh", "decided", "persisted"} =>
              idempotencyTable[Id(call[p].request)] = None
        /\ call[p].pc = "saved" =>
              /\ idempotencyTable[Id(call[p].request)] # None
              /\ idempotencyTable[Id(call[p].request)].response = OK(call[p].wager)

\* the row a call is about to finish is pending still, and the row it wrote is its wager,
PendingRow(n, w) == wagersTable[n] # None /\ wagersTable[n].status = "pending" /\ wagersTable[n].stake = w.stake

StrictRows ==
    Strict => \A p \in Processes :
        /\ call[p].pc = "decided" /\ call[p].request.op \in Finish =>
              PendingRow(call[p].wager.id, call[p].wager)
        /\ call[p].pc = "persisted" => wagersTable[call[p].wager.id] = call[p].wager

\* and the saved answers agree with the rows.
AnswerAgrees(i, w) ==
    IF i[1] = "place" THEN wagersTable[w.id] # None /\ wagersTable[w.id].stake = w.stake
    ELSE wagersTable[i[2]] = w /\ Finished(w)

StrictAnswers ==
    Strict => \A i \in Ids :
        idempotencyTable[i] # None => AnswerAgrees(i, idempotencyTable[i].response.wager)

StrictInv == StrictKeys /\ StrictRows /\ StrictAnswers /\ OKIsDurable

\* In strict mode there is a database and nothing in memory.
LEMMA StrictFacts ==
    ASSUME TypeInv, Idlers, Strict
    PROVE  /\ UseDB /\ ~Mirror /\ deployment.servers = 1
           /\ \A q \in Processes : /\ \A j \in WagerIds : wagers[q][j] = None
                                   /\ \A i \in Ids : byIdempotency[q][i] = None
BY Zenon, DeploymentFields DEF Strict, TypeInv, StoreOK, UseDB, Mirror, Idlers

\* The tables stay as they are while a call starts or decides.
LEMMA StrictReads ==
    ASSUME StrictInv, UNCHANGED <<deployment, Tables, acknowledged>>
    PROVE  StrictAnswers' /\ OKIsDurable'
BY Zenon DEF StrictInv, StrictAnswers, OKIsDurable, Strict, Mirror, AnswerAgrees, Tables

\* In strict mode the row a call writes is new, or pending and of the same stake.
LEMMA StrictRowWritten ==
    ASSUME TypeInv, DurableInv, StrictInv, Strict, NEW p \in Processes,
           NEW r \in Sound, NEW w \in Wager, Persists(p, r, w)
    PROVE  wagersTable[w.id] = None \/ PendingRow(w.id, w)
<1>1. call[p].pc = "decided" /\ call[p].request = r /\ call[p].wager = w
  BY Zenon, StageMoves DEF Persists
<1>2. CASE r.op = "place"
  BY Zenon, <1>1, <1>2 DEF DurableInv, PlacedIsPrivate, Private
<1>3. CASE r.op \in Finish
  BY Zenon, <1>1, <1>3 DEF StrictInv, StrictRows
<1> QED
  BY Zenon, <1>2, <1>3, RequestFields DEF Finish

LEMMA StrictStep ==
    \A p \in Processes : TypeInv /\ DurableInv /\ Idlers /\ StrictInv
                          /\ p \in 1..deployment.servers /\ Does(p) => StrictInv'
\* A call ends, and the tables stay as they are.
<1>StrictIdle.
    ASSUME TypeInv, Idlers, StrictInv, Strict, NEW p \in Processes, p \in 1..deployment.servers,
           Moves(p, Idle), UNCHANGED <<deployment, Tables>>, OKIsDurable'
    PROVE  StrictInv'
  <2> USE <1>StrictIdle
  <2>1. \A q \in Processes : call'[q].pc = "idle"
    <3>1. deployment.servers = 1 /\ Idle.pc = "idle"
      BY Zenon, StrictFacts DEF Idle
    <3> QED
      BY Zenon, <3>1, MovesAlone
  <2>2. StrictKeys' /\ StrictRows'
    BY Zenon, <2>1 DEF StrictKeys, StrictRows
  <2>3. StrictAnswers'
    BY Zenon DEF StrictInv, StrictAnswers, Strict, Mirror, AnswerAgrees, Tables
  <2> QED
    BY Zenon, <2>2, <2>3 DEF StrictInv
<1>EndsKeepsStrict.
    ASSUME TypeInv, Idlers, StrictInv, Strict, NEW p \in Processes, p \in 1..deployment.servers, Ends(p)
    PROVE  StrictInv'
  <2> USE <1>EndsKeepsStrict
  <2>1. acknowledged' = acknowledged
    BY Zenon, StrictFacts DEF Ends
  <2>2. OKIsDurable'
    BY Zenon, <2>1 DEF StrictInv, OKIsDurable, Ends, Tables, Strict, Mirror
  <2> QED
    BY Zenon, <2>2, <1>StrictIdle DEF Ends
<1>ReplayKeepsStrict.
    ASSUME TypeInv, Idlers, StrictInv, Strict, NEW p \in Processes, p \in 1..deployment.servers,
           NEW r \in Sound, NEW a \in Answer, EndsReplaying(p, r, a)
    PROVE  StrictInv'
  <2> USE <1>ReplayKeepsStrict
  <2> DEFINE new == <<Id(r), a.wager>>
  <2>1. acknowledged' = acknowledged \cup {new} /\ new[1] = Id(r) /\ new[2] = a.wager
    BY Zenon DEF EndsReplaying
  <2>2. idempotencyTable[Id(r)] # None /\ idempotencyTable[Id(r)].response = OK(a.wager)
    BY Zenon, AnswerFields DEF EndsReplaying, Replays
  <2>3. UNCHANGED <<idempotencyTable, deployment>>
    BY Zenon DEF EndsReplaying, Tables
  <2>4. OKIsDurable'
    <3> HIDE DEF new
    <3> QED
      BY Zenon, <2>1, <2>2, <2>3 DEF StrictInv, OKIsDurable, Strict, Mirror
  <2> QED
    BY Zenon, <2>4, <1>StrictIdle DEF EndsReplaying
<1>TellsKeepsStrict.
    ASSUME TypeInv, Idlers, StrictInv, Strict, NEW p \in Processes, p \in 1..deployment.servers,
           NEW r \in Sound, NEW w \in Wager, EndsTelling(p, r, w)
    PROVE  StrictInv'
  <2> USE <1>TellsKeepsStrict
  <2> DEFINE new == <<Id(r), w>>
  <2>1. acknowledged' = acknowledged \cup {new} /\ new[1] = Id(r) /\ new[2] = w
    BY Zenon DEF EndsTelling
  <2>2. call[p].pc = "saved" /\ call[p].request = r /\ call[p].wager = w
    BY StageOK DEF EndsTelling
  <2>3. idempotencyTable[Id(r)] # None /\ idempotencyTable[Id(r)].response = OK(w)
    BY Zenon, <2>2 DEF StrictInv, StrictKeys
  <2>4. UNCHANGED <<idempotencyTable, deployment>>
    BY Zenon DEF EndsTelling, Tables
  <2>5. OKIsDurable'
    <3> HIDE DEF new
    <3> QED
      BY Zenon, <2>1, <2>3, <2>4 DEF StrictInv, OKIsDurable, Strict, Mirror
  <2> QED
    BY Zenon, <2>5, <1>StrictIdle DEF EndsTelling
<1>DiesKeepsStrict.
    ASSUME TypeInv, Idlers, StrictInv, Strict, NEW p \in Processes, p \in 1..deployment.servers, Dies(p)
    PROVE  StrictInv'
  <2> USE <1>DiesKeepsStrict
  <2>1. OKIsDurable'
    BY Zenon DEF StrictInv, OKIsDurable, Dies, Tables, Strict, Mirror
  <2> QED
    BY Zenon, <2>1, <1>StrictIdle DEF Dies
<1>StartsKeepsStrict.
    ASSUME TypeInv, Idlers, StrictInv, Strict, NEW p \in Processes, p \in 1..deployment.servers,
           NEW r \in Sound, Starts(p, r)
    PROVE  StrictInv'
  <2> USE <1>StartsKeepsStrict
  <2>1. /\ call'[p].pc = "fresh" /\ call'[p].request = r
        /\ \A q \in Processes : q # p => call'[q].pc = "idle"
    <3>1. deployment.servers = 1
      BY Zenon, StrictFacts
    <3> QED
      BY Zenon, <3>1, StartsAlone
  <2>2. idempotencyTable'[Id(r)] = None
    BY Zenon, StrictFacts DEF Starts, Tables
  <2>3. StrictKeys'
    BY Zenon, <2>1, <2>2 DEF StrictKeys
  <2>4. StrictRows'
    BY Zenon, <2>1 DEF StrictRows
  <2>5. StrictAnswers' /\ OKIsDurable'
    BY Zenon, StrictReads DEF Starts
  <2> QED
    BY Zenon, <2>3, <2>4, <2>5 DEF StrictInv
<1>PlacesKeepsStrict.
    ASSUME TypeInv, Idlers, StrictInv, Strict, NEW p \in Processes, p \in 1..deployment.servers,
           NEW r \in Sound, NEW w \in Wager, Places(p, r, w)
    PROVE  StrictInv'
  <2> USE <1>PlacesKeepsStrict
  <2>1. /\ call'[p].pc = "decided" /\ call'[p].request = r
        /\ \A q \in Processes : q # p => call'[q].pc = "idle"
    <3>1. Moves(p, DecidedCall(r, w)) /\ UseDB /\ deployment.servers = 1
      BY Zenon, StrictFacts DEF Places
    <3> QED
      BY Zenon, <3>1, DecidesAlone
  <2>2. idempotencyTable'[Id(r)] = None
    BY Zenon DEF StrictInv, StrictKeys, Places, Tables
  <2>3. StrictKeys'
    BY Zenon, <2>1, <2>2 DEF StrictKeys
  <2>4. StrictRows'
    BY Zenon, <2>1 DEF StrictRows, Places, Finish
  <2>5. StrictAnswers' /\ OKIsDurable'
    BY Zenon, StrictReads DEF Places, Answers
  <2> QED
    BY Zenon, <2>3, <2>4, <2>5 DEF StrictInv
<1>FinishesKeepsStrict.
    ASSUME TypeInv, DurableInv, Idlers, StrictInv, Strict, NEW p \in Processes,
           p \in 1..deployment.servers, NEW r \in Sound, NEW found \in Wager, NEW w \in Wager,
           Finishes(p, r, found, w)
    PROVE  StrictInv'
  <2> USE <1>FinishesKeepsStrict
  <2>1. /\ call'[p].pc = "decided" /\ call'[p].request = r /\ call'[p].wager = w
        /\ \A q \in Processes : q # p => call'[q].pc = "idle"
    <3>1. Moves(p, DecidedCall(r, w)) /\ UseDB /\ deployment.servers = 1
      BY Zenon, StrictFacts DEF Finishes
    <3> QED
      BY Zenon, <3>1, DecidesAlone
  <2>2. idempotencyTable'[Id(r)] = None
    BY Zenon DEF StrictInv, StrictKeys, Finishes, Tables
  <2>3. StrictKeys'
    BY Zenon, <2>1, <2>2 DEF StrictKeys
  <2>4. r.scope \in WagerIds /\ found = wagersTable[r.scope] /\ found # None
    BY Zenon, StrictFacts, RequestFields, WagerFields DEF Finishes, getWager
  <2>5. w.id = r.scope
    BY Zenon, <2>4 DEF DurableInv, KnownIds, RowsKnown, Finishes
  <2>6. PendingRow(w.id, w)
    BY Zenon, <2>4, <2>5 DEF PendingRow, Finishes
  <2>7. \A n, x : PendingRow(n, x) => PendingRow(n, x)'
    BY Zenon DEF PendingRow, Finishes, Tables
  <2>8. StrictRows'
    BY Zenon, <2>1, <2>6, <2>7 DEF StrictRows
  <2>9. StrictAnswers' /\ OKIsDurable'
    BY Zenon, StrictReads DEF Finishes, Answers
  <2> QED
    BY Zenon, <2>3, <2>8, <2>9 DEF StrictInv
<1>PersistsKeepsStrict.
    ASSUME TypeInv, DurableInv, Idlers, StrictInv, Strict, NEW p \in Processes,
           p \in 1..deployment.servers, NEW r \in Sound, NEW w \in Wager, Persists(p, r, w)
    PROVE  StrictInv'
  <2> USE <1>PersistsKeepsStrict
  <2>1. /\ call[p].pc = "decided" /\ call[p].request = r /\ call[p].wager = w
        /\ call'[p].pc = "persisted" /\ call'[p].request = r /\ call'[p].wager = w
        /\ \A q \in Processes : q # p => call'[q].pc = "idle"
    BY Alone, StrictFacts, StageMoves DEF Persists
  <2>2. UNCHANGED <<deployment, idempotencyTable, acknowledged>>
    BY Zenon DEF Persists, Answers
  <2>3. /\ w.id \in WagerIds /\ wagersTable'[w.id] = w
        /\ \A j \in WagerIds : j # w.id => wagersTable'[j] = wagersTable[j]
    BY RowsMoveForward
  <2>4. StrictKeys'
    <3>1. idempotencyTable'[Id(r)] = None
      BY Zenon, <2>1, <2>2 DEF StrictInv, StrictKeys
    <3> QED
      BY Zenon, <2>1, <3>1 DEF StrictKeys
  <2>5. StrictRows'
    BY Zenon, <2>1, <2>3 DEF StrictRows
  <2>6. StrictAnswers'
    <3> SUFFICES ASSUME NEW i \in Ids, idempotencyTable[i] # None
                 PROVE  AnswerAgrees(i, idempotencyTable[i].response.wager)'
      BY Zenon, <2>2 DEF StrictAnswers
    <3> DEFINE x == idempotencyTable[i].response.wager
    <3>1. x \in Wager /\ x.id \in WagerIds /\ (i[1] # "place" => i[2] \in WagerIds) /\ w # None
      BY AnswerFields, WagerFields DEF TypeInv, StoreOK, Ids, Finish
    <3>2. AnswerAgrees(i, x) /\ (wagersTable[w.id] = None \/ PendingRow(w.id, w))
      BY Zenon, StrictRowWritten DEF StrictInv, StrictAnswers
    <3> HIDE DEF x
    <3>3. \A y \in Wager : y = x => AnswerAgrees(i, y)'
      <4>1. CASE i[1] = "place"
        BY <2>3, <3>1, <3>2, <4>1 DEF AnswerAgrees, PendingRow
      <4>2. CASE i[1] # "place"
        <5>1. i[2] # w.id
          BY Zenon, <3>2, <4>2 DEF AnswerAgrees, PendingRow, Finished
        <5> QED
          BY Zenon, <2>3, <3>1, <3>2, <4>2, <5>1 DEF AnswerAgrees
      <4> QED
        BY Zenon, <4>1, <4>2
    <3> QED
      BY Zenon, <2>2, <3>1, <3>3 DEF x
  <2>7. OKIsDurable'
    BY Zenon, <2>2 DEF StrictInv, OKIsDurable, Strict, Mirror
  <2> QED
    BY Zenon, <2>4, <2>5, <2>6, <2>7 DEF StrictInv
<1>SavesKeepsStrict.
    ASSUME TypeInv, DurableInv, Idlers, StrictInv, Strict, NEW p \in Processes,
           p \in 1..deployment.servers, NEW r \in Sound, NEW w \in Wager, Saves(p, r, w)
    PROVE  StrictInv'
  <2> USE <1>SavesKeepsStrict
  <2> DEFINE k == Id(r)
             a == [hash |-> r.payload, response |-> OK(w)]
  <2>1. /\ call[p].pc = "persisted" /\ call[p].request = r /\ call[p].wager = w
        /\ call'[p].pc = "saved" /\ call'[p].request = r /\ call'[p].wager = w
        /\ \A q \in Processes : q # p => call'[q].pc = "idle"
    BY Alone, StrictFacts, StageMoves DEF Saves
  <2>2. UNCHANGED <<deployment, wagersTable, acknowledged>>
    BY Zenon DEF Saves, Answers
  <2>3. /\ k \in Ids /\ a # None /\ a.response = OK(w) /\ idempotencyTable'[k] = a
        /\ \A x \in Ids : x # k => idempotencyTable'[x] = idempotencyTable[x]
    <3>1. k \in Ids /\ r.payload \in Payloads /\ OK(w) \in Response /\ OK(w).wager = w
      BY Zenon, RequestFields, AnswerFields DEF Answer, Response
    <3>2. a \in Saved
      BY Zenon, <3>1 DEF Saved
    <3> QED
      BY Zenon, <3>1, <3>2, ValuesAssumption DEF Saves, TypeInv, StoreOK
  <2>4. idempotencyTable[k] = None /\ wagersTable[w.id] = w /\ w # None
    BY Zenon, <2>1, WagerFields DEF StrictInv, StrictKeys, StrictRows
  <2> HIDE DEF a
  <2>5. StrictKeys'
    BY Zenon, <2>1, <2>3 DEF StrictKeys
  <2>6. StrictRows'
    BY Zenon, <2>1 DEF StrictRows
  <2>7. StrictAnswers'
    <3> SUFFICES ASSUME NEW i \in Ids, idempotencyTable'[i] # None
                 PROVE  AnswerAgrees(i, idempotencyTable[i].response.wager)'
      BY Zenon DEF StrictAnswers
    <3>1. CASE i = k
      <4>1. k[1] = r.op /\ k[2] = r.scope
        BY Zenon DEF Id
      <4>2. r.op # "place" => w.id = r.scope /\ Finished(w)
        BY Zenon, <2>1 DEF DurableInv, CallsSound, Late
      <4>3. AnswerAgrees(k, w)
        BY Zenon, <2>4, <4>1, <4>2 DEF AnswerAgrees
      <4> HIDE DEF k
      <4>4. idempotencyTable'[i].response.wager = w
        BY Zenon, <2>3, <3>1, AnswerFields
      <4>5. \A y : y = w => AnswerAgrees(i, y)'
        BY Zenon, <2>2, <3>1, <4>3 DEF AnswerAgrees
      <4> QED
        BY Zenon, <4>4, <4>5
    <3>2. CASE i # k
      <4>1. idempotencyTable'[i] = idempotencyTable[i]
        BY Zenon, <2>3, <3>2
      <4>2. AnswerAgrees(i, idempotencyTable[i].response.wager)
        BY Zenon, <4>1 DEF StrictInv, StrictAnswers
      <4> QED
        BY Zenon, <2>2, <4>1, <4>2 DEF AnswerAgrees
    <3> QED
      BY Zenon, <3>1, <3>2
  <2>8. OKIsDurable'
    <3> SUFFICES ASSUME NEW b \in acknowledged
                 PROVE  idempotencyTable'[b[1]] # None /\ idempotencyTable'[b[1]].response = OK(b[2])
      BY Zenon, <2>2 DEF OKIsDurable
    <3>1. idempotencyTable[b[1]] # None /\ idempotencyTable[b[1]].response = OK(b[2]) /\ b[1] \in Ids
      BY Zenon DEF StrictInv, OKIsDurable, TypeInv, StoreOK
    <3> QED
      BY Zenon, <2>3, <2>4, <3>1
  <2> QED
    BY Zenon, <2>5, <2>6, <2>7, <2>8 DEF StrictInv
<1> SUFFICES ASSUME TypeInv, DurableInv, Idlers, StrictInv, NEW p \in Processes,
                    p \in 1..deployment.servers, Does(p)
             PROVE  StrictInv'
  BY Zenon
<1>1. deployment' = deployment
  BY Zenon, OnlyPersistsWrites
<1>2. CASE ~Strict
  BY Zenon, <1>1, <1>2 DEF StrictInv, StrictKeys, StrictRows, StrictAnswers, OKIsDurable, Strict, Mirror
<1>3. CASE Strict
  BY Zenon, <1>3, <1>EndsKeepsStrict, <1>ReplayKeepsStrict, <1>StartsKeepsStrict, <1>PlacesKeepsStrict,
     <1>FinishesKeepsStrict, <1>PersistsKeepsStrict, <1>SavesKeepsStrict, <1>TellsKeepsStrict,
     <1>DiesKeepsStrict DEF Does
<1> QED
  BY Zenon, <1>2, <1>3

LEMMA StrictRowsStay ==
    ASSUME TypeInv, DurableInv, StrictInv, Strict, NEW p \in Processes, Does(p)
    PROVE  \A j \in WagerIds : Finished(wagersTable[j]) => wagersTable'[j] = wagersTable[j]
<1>1. ASSUME NEW r \in Sound, NEW w \in Wager, Persists(p, r, w)
      PROVE  \A j \in WagerIds : Finished(wagersTable[j]) => wagersTable'[j] = wagersTable[j]
  <2>1. \A j \in WagerIds : j # w.id => wagersTable'[j] = wagersTable[j]
    BY <1>1, RowsMoveForward
  <2>2. ~Finished(wagersTable[w.id])
    BY Zenon, <1>1, StrictRowWritten DEF PendingRow, Finished
  <2> QED
    BY Zenon, <2>1, <2>2
<1>2. (\E r \in Sound, w \in Wager : Persists(p, r, w)) \/ wagersTable' = wagersTable
  BY Zenon, OnlyPersistsWrites
<1> QED
  BY Zenon, <1>1, <1>2

-----------------------------------------------------------------------------
(* Without a database.                                                       *)

\* The key of a call is unused until it has decided,
MemoryKeys ==
    InMemory => \A p \in Processes :
        /\ call[p].pc = "fresh" => byIdempotency[p][Id(call[p].request)] = None
        /\ call[p].pc = "saved" => byIdempotency[p][Id(call[p].request)] = OK(call[p].wager)

\* the remembered answers agree with the wagers,
MemoryAgrees(p, i, w) ==
    IF i[1] = "place" THEN wagers[p][w.id] # None /\ wagers[p][w.id].stake = w.stake
    ELSE w.id = i[2] /\ wagers[p][w.id] = w /\ Finished(w)

MemoryAnswers ==
    InMemory => \A p \in Processes, i \in Ids :
        byIdempotency[p][i] # None => MemoryAgrees(p, i, byIdempotency[p][i].wager)

\* every wager has one placement, and the answers given are the ones remembered.
PlacedUnder(p, n, i) ==
    i[1] = "place" /\ byIdempotency[p][i] # None /\ byIdempotency[p][i].wager.id = n

MemoryPlacements ==
    InMemory => \A p \in Processes, n \in WagerIds : wagers[p][n] # None =>
        \E k \in Ids : \A i \in Ids : PlacedUnder(p, n, i) <=> i = k

MemoryTold == InMemory => \A a \in acknowledged : byIdempotency[1][a[1]] = OK(a[2])

MemoryInv == MemoryKeys /\ MemoryAnswers /\ MemoryPlacements /\ MemoryTold

\* What the remembered answers, the placements and the answers given depend on.
LEMMA MemoryReads ==
    ASSUME MemoryInv, UNCHANGED <<deployment, wagers, byIdempotency, acknowledged>>
    PROVE  MemoryAnswers' /\ MemoryPlacements' /\ MemoryTold'
<1>1. InMemory' <=> InMemory
  BY Zenon DEF InMemory, UseDB
<1>2. /\ \A q, n, i : PlacedUnder(q, n, i)' <=> PlacedUnder(q, n, i)
      /\ \A q, i, w : MemoryAgrees(q, i, w)' <=> MemoryAgrees(q, i, w)
  BY Zenon DEF PlacedUnder, MemoryAgrees
<1>3. MemoryAnswers'
  BY Zenon, <1>1, <1>2 DEF MemoryInv, MemoryAnswers
<1>4. MemoryPlacements'
  BY Zenon, <1>1, <1>2 DEF MemoryInv, MemoryPlacements
<1>5. MemoryTold'
  BY Zenon, <1>1 DEF MemoryInv, MemoryTold
<1> QED
  BY Zenon, <1>3, <1>4, <1>5

\* A decision without a database finds its key unused and remembers its answer under it.
MemoryDecided(p, k, w) ==
    /\ byIdempotency[p][k] = None /\ k \in Ids
    /\ \A q \in Processes, i \in Ids :
          IF q = p /\ i = k THEN byIdempotency'[q][i] = OK(w)
          ELSE byIdempotency'[q][i] = byIdempotency[q][i]
    /\ OK(w).wager = w /\ OK(w) # None
    /\ MemoryKeys' /\ MemoryTold'

LEMMA MemoryStep ==
    \A p \in Processes : TypeInv /\ DurableInv /\ Idlers /\ MemoryInv
                          /\ p \in 1..deployment.servers /\ Does(p) => MemoryInv'
<1>MemoryFacts.
    ASSUME TypeInv, InMemory
    PROVE  ~UseDB /\ Mirror /\ deployment.servers = 1 /\ deployment.restarts = 0
  BY Zenon, <1>MemoryFacts, DeploymentFields DEF InMemory, TypeInv, StoreOK, UseDB, Mirror
<1>AnswerIds.
    ASSUME TypeInv, NEW p \in Processes, NEW i \in Ids, byIdempotency[p][i] # None
    PROVE  byIdempotency[p][i].wager.id \in WagerIds
  <2> USE <1>AnswerIds
  <2>1. byIdempotency[p][i] \in Answer
    BY Zenon DEF TypeInv, StoreOK
  <2>2. byIdempotency[p][i].wager \in Wager
    BY Zenon, <2>1, AnswerFields
  <2> QED
    BY Zenon, <2>2, WagerFields
\* A call ends, and the mirror stays as it is.
<1>MemoryIdle.
    ASSUME TypeInv, Idlers, MemoryInv, InMemory, NEW p \in Processes, p \in 1..deployment.servers,
           Moves(p, Idle), UNCHANGED <<deployment, byIdempotency>>,
           \A q \in Processes, j \in WagerIds : wagers'[q][j] = wagers[q][j],
           MemoryTold'
    PROVE  MemoryInv'
  <2> USE <1>MemoryIdle
  <2>1. \A q \in Processes : call'[q].pc = "idle"
    <3>1. deployment.servers = 1 /\ Idle.pc = "idle"
      BY Zenon, <1>MemoryFacts DEF Idle
    <3> QED
      BY Zenon, <3>1, MovesAlone
  <2>2. MemoryKeys'
    BY Zenon, <2>1 DEF MemoryKeys
  <2>3. MemoryAnswers'
    <3> SUFFICES ASSUME NEW q \in Processes, NEW i \in Ids, byIdempotency[q][i] # None
                 PROVE  MemoryAgrees(q, i, byIdempotency[q][i].wager)'
      BY Zenon DEF MemoryAnswers
    <3> DEFINE x == byIdempotency[q][i].wager
    <3>1. x.id \in WagerIds /\ x' = x
      BY Zenon, <1>AnswerIds
    <3>2. MemoryAgrees(q, i, x)
      BY Zenon DEF MemoryInv, MemoryAnswers
    <3> HIDE DEF x
    <3>3. \A y : y = x => MemoryAgrees(q, i, y)'
      BY Zenon, <3>1, <3>2 DEF MemoryAgrees
    <3> QED
      BY Zenon, <3>1, <3>3 DEF x
  <2>4. \A q, n, i : PlacedUnder(q, n, i)' <=> PlacedUnder(q, n, i)
    BY Zenon DEF PlacedUnder
  <2>5. MemoryPlacements'
    BY Zenon, <2>4 DEF MemoryInv, MemoryPlacements
  <2> QED
    BY Zenon, <2>2, <2>3, <2>5 DEF MemoryInv
<1>EndsKeepsMemory.
    ASSUME TypeInv, Idlers, MemoryInv, InMemory, NEW p \in Processes, p \in 1..deployment.servers, Ends(p)
    PROVE  MemoryInv'
  <2> USE <1>EndsKeepsMemory
  <2>1. \A q \in Processes, j \in WagerIds : wagers'[q][j] = wagers[q][j]
    BY Zenon, <1>MemoryFacts DEF Ends, Mirrors, getWager
  <2>2. UNCHANGED <<deployment, byIdempotency>> /\ Moves(p, Idle) /\ p = 1
    BY Zenon, Alone, <1>MemoryFacts DEF Ends
  <2>3. MemoryTold'
    <3>1. CASE acknowledged' = acknowledged
      BY Zenon, <2>2, <3>1 DEF MemoryInv, MemoryTold, InMemory, UseDB
    <3>2. ASSUME NEW i \in Ids, byIdempotency[p][i] # None,
                 acknowledged' = acknowledged \cup {<<i, byIdempotency[p][i].wager>>}
          PROVE  MemoryTold'
      <4> DEFINE a == byIdempotency[p][i]
                 new == <<i, a.wager>>
      <4>1. a = OK(a.wager)
        BY <3>2, AnswerFields DEF TypeInv, StoreOK
      <4>2. acknowledged' = acknowledged \cup {new} /\ new[1] = i /\ new[2] = a.wager
        BY Zenon, <3>2
      <4>3. byIdempotency[1][new[1]] = OK(new[2])
        BY Zenon, <2>2, <4>1
      <4> HIDE DEF new, a
      <4> QED
        BY Zenon, <2>2, <4>2, <4>3 DEF MemoryInv, MemoryTold
    <3> QED
      BY Zenon, <3>1, <3>2 DEF Ends
  <2> QED
    BY Zenon, <2>1, <2>2, <2>3, <1>MemoryIdle
<1>TellsKeepsMemory.
    ASSUME TypeInv, Idlers, MemoryInv, InMemory, NEW p \in Processes, p \in 1..deployment.servers,
           NEW r \in Sound, NEW w \in Wager, EndsTelling(p, r, w)
    PROVE  MemoryInv'
  <2> USE <1>TellsKeepsMemory
  <2> DEFINE new == <<Id(r), w>>
  <2>1. \A q \in Processes, j \in WagerIds : wagers'[q][j] = wagers[q][j]
    BY Zenon DEF EndsTelling, Memory
  <2>2. UNCHANGED <<deployment, byIdempotency>> /\ Moves(p, Idle) /\ p = 1
    BY Zenon, Alone, <1>MemoryFacts DEF EndsTelling, Memory
  <2>3. call[p].pc = "saved" /\ call[p].request = r /\ call[p].wager = w
    BY StageOK DEF EndsTelling
  <2>4. acknowledged' = acknowledged \cup {new} /\ new[1] = Id(r) /\ new[2] = w
    BY Zenon DEF EndsTelling
  <2>5. byIdempotency[1][new[1]] = OK(new[2])
    BY Zenon, <2>2, <2>3 DEF MemoryInv, MemoryKeys
  <2>6. MemoryTold'
    <3> HIDE DEF new
    <3> QED
      BY Zenon, <2>2, <2>4, <2>5 DEF MemoryInv, MemoryTold
  <2> QED
    BY Zenon, <2>1, <2>2, <2>6, <1>MemoryIdle
<1>StartsKeepsMemory.
    ASSUME TypeInv, Idlers, MemoryInv, InMemory, NEW p \in Processes, p \in 1..deployment.servers,
           NEW r \in Sound, Starts(p, r)
    PROVE  MemoryInv'
  <2> USE <1>StartsKeepsMemory
  <2>1. /\ call'[p].pc = "fresh" /\ call'[p].request = r
        /\ \A q \in Processes : q # p => call'[q].pc = "idle"
    <3>1. deployment.servers = 1
      BY Zenon, <1>MemoryFacts
    <3> QED
      BY Zenon, <3>1, StartsAlone
  <2>2. byIdempotency'[p][Id(r)] = None
    BY Zenon, <1>MemoryFacts DEF Starts, Memory
  <2>3. MemoryKeys'
    BY Zenon, <2>1, <2>2 DEF MemoryKeys
  <2>4. UNCHANGED <<deployment, wagers, byIdempotency, acknowledged>>
    BY Zenon DEF Starts, Memory
  <2>5. MemoryAnswers' /\ MemoryPlacements' /\ MemoryTold'
    BY Zenon, <2>4, MemoryReads
  <2> QED
    BY Zenon, <2>3, <2>5 DEF MemoryInv
\* A decision without a database: the key was unused, and the answer is there now.
<1>MemoryDecides.
    ASSUME TypeInv, Idlers, MemoryInv, InMemory, NEW p \in Processes, p \in 1..deployment.servers,
           NEW r \in Sound, NEW w \in Wager, call[p].pc = "fresh", r = call[p].request,
           Remembers(p, Id(r), OK(w)), Moves(p, DecidedCall(r, w)),
           UNCHANGED <<deployment, acknowledged>>
    PROVE  MemoryDecided(p, Id(r), w)
  <2> USE <1>MemoryDecides
  <2> DEFINE k == Id(r)
  <2>1. byIdempotency[p][k] = None /\ k \in Ids
    BY Zenon, RequestFields DEF MemoryInv, MemoryKeys
  <2>2. OK(w).wager = w /\ OK(w) # None /\ \A x \in Wager : OK(x) # None
    BY Zenon, AnswerFields
  <2>3. \A q \in Processes, i \in Ids :
            IF q = p /\ i = k THEN byIdempotency'[q][i] = OK(w)
            ELSE byIdempotency'[q][i] = byIdempotency[q][i]
    BY DEF Remembers
  <2>4. /\ call'[p].pc = "saved" /\ call'[p].request = r /\ call'[p].wager = w
        /\ \A q \in Processes : q # p => call'[q].pc = "idle"
    BY Zenon, <1>MemoryFacts, DecidesAlone
  <2>5. MemoryKeys'
    BY Zenon, <2>1, <2>3, <2>4 DEF MemoryKeys
  <2>6. MemoryTold'
    <3> SUFFICES ASSUME NEW a \in acknowledged
                 PROVE  byIdempotency'[1][a[1]] = OK(a[2])
      BY Zenon DEF MemoryTold
    <3>1. byIdempotency[1][a[1]] = OK(a[2]) /\ a[1] \in Ids /\ a[2] \in Wager
      BY Zenon DEF MemoryInv, MemoryTold, TypeInv, StoreOK
    <3>2. p = 1
      BY Zenon, Alone, <1>MemoryFacts
    <3>3. a[1] # k
      BY Zenon, <2>1, <2>2, <3>1, <3>2
    <3> HIDE DEF k
    <3> QED
      BY Zenon, <2>3, <3>1, <3>2, <3>3
  <2> QED
    BY Zenon, <2>1, <2>2, <2>3, <2>5, <2>6 DEF MemoryDecided
<1>PlacesKeepsMemory.
    ASSUME TypeInv, DurableInv, Idlers, MemoryInv, InMemory, NEW p \in Processes,
           p \in 1..deployment.servers, NEW r \in Sound, NEW w \in Wager, Places(p, r, w)
    PROVE  MemoryInv'
  <2> USE <1>PlacesKeepsMemory
  <2> DEFINE k == Id(r)
             n == w.id
  <2>1. /\ byIdempotency[p][k] = None /\ k \in Ids
        /\ \A q \in Processes, i \in Ids :
              IF q = p /\ i = k THEN byIdempotency'[q][i] = OK(w)
              ELSE byIdempotency'[q][i] = byIdempotency[q][i]
        /\ OK(w).wager = w /\ OK(w) # None
        /\ MemoryKeys' /\ MemoryTold'
    <3>1. /\ call[p].pc = "fresh" /\ r = call[p].request /\ Moves(p, DecidedCall(r, w))
          /\ UNCHANGED <<deployment, acknowledged>>
      BY Zenon DEF Places, Answers
    <3>2. Remembers(p, Id(r), OK(w))
      BY Zenon, <1>MemoryFacts DEF Places
    <3>3. MemoryDecided(p, k, w)
      BY Zenon, <3>1, <3>2, <1>MemoryDecides
    <3> QED
      BY Zenon, <3>3 DEF MemoryDecided
  <2>2. /\ n = lastWagerID + 1 /\ n \in WagerIds /\ lastWagerID \in Nat /\ w # None
        /\ k[1] = "place"
    BY WagerFields DEF Places, TypeInv, DrawsBounded, Id
  <2>3. \A q \in Processes, j \in WagerIds :
            IF q = p /\ j = n THEN wagers'[q][j] = w ELSE wagers'[q][j] = wagers[q][j]
    BY Zenon, <1>MemoryFacts DEF Places, Mirrors
  <2>4. \A q \in Processes, i \in Ids : byIdempotency[q][i] # None =>
            /\ byIdempotency[q][i].wager.id \in WagerIds /\ byIdempotency[q][i].wager.id # n
    <3> SUFFICES ASSUME NEW q \in Processes, NEW i \in Ids, byIdempotency[q][i] # None
                 PROVE  byIdempotency[q][i].wager.id \in WagerIds /\ byIdempotency[q][i].wager.id # n
      BY Zenon
    <3>1. byIdempotency[q][i].wager.id \in WagerIds
      BY Zenon, <1>AnswerIds
    <3>2. byIdempotency[q][i].wager.id <= lastWagerID
      BY Zenon DEF DurableInv, KnownIds, AnswersKnown
    <3> QED
      BY <2>2, <3>1, <3>2 DEF WagerIds
  <2> HIDE DEF k, n
  <2>5. MemoryAnswers'
    <3> SUFFICES ASSUME NEW q \in Processes, NEW i \in Ids, byIdempotency'[q][i] # None
                 PROVE  MemoryAgrees(q, i, byIdempotency[q][i].wager)'
      BY Zenon DEF MemoryAnswers
    <3>1. CASE q = p /\ i = k
      <4>1. byIdempotency'[q][i].wager = w /\ wagers'[q][w.id] = w /\ w # None
        BY Zenon, <2>1, <2>2, <2>3, <3>1 DEF n
      <4>2. \A y : y = w => MemoryAgrees(q, i, y)'
        BY Zenon, <2>2, <3>1, <4>1 DEF MemoryAgrees
      <4> QED
        BY Zenon, <4>1, <4>2
    <3>2. CASE ~(q = p /\ i = k)
      <4> DEFINE x == byIdempotency[q][i].wager
      <4>1. byIdempotency'[q][i] = byIdempotency[q][i]
        BY Zenon, <2>1, <3>2
      <4>2. MemoryAgrees(q, i, x) /\ x.id \in WagerIds /\ x.id # n
        BY Zenon, <2>4, <4>1 DEF MemoryInv, MemoryAnswers
      <4>3. x' = x
        BY Zenon, <4>1
      <4> HIDE DEF x
      <4>4. \A y : y = x => MemoryAgrees(q, i, y)'
        <5>1. wagers'[q][x.id] = wagers[q][x.id]
          BY Zenon, <2>3, <4>2
        <5> QED
          BY Zenon, <4>2, <5>1 DEF MemoryAgrees
      <4> QED
        BY Zenon, <4>3, <4>4 DEF x
    <3> QED
      BY Zenon, <3>1, <3>2
  <2>6. MemoryPlacements'
    <3> SUFFICES ASSUME NEW q \in Processes, NEW m \in WagerIds, wagers'[q][m] # None
                 PROVE  \E j \in Ids : \A i \in Ids : PlacedUnder(q, m, i)' <=> i = j
      BY Zenon DEF MemoryPlacements
    <3>1. CASE q = p /\ m = n
      <4>1. \A i \in Ids : PlacedUnder(q, m, i)' <=> i = k
        <5> SUFFICES ASSUME NEW i \in Ids PROVE PlacedUnder(q, m, i)' <=> i = k
          BY Zenon
        <5>1. CASE i = k
          <6>1. byIdempotency'[q][i] # None /\ byIdempotency'[q][i].wager = w /\ i[1] = "place"
            BY Zenon, <2>1, <2>2, <3>1, <5>1
          <6>2. byIdempotency'[q][i].wager.id = m
            BY Zenon, <3>1, <6>1 DEF n
          <6> QED
            BY Zenon, <5>1, <6>1, <6>2 DEF PlacedUnder
        <5>2. CASE i # k
          <6>1. byIdempotency'[q][i] = byIdempotency[q][i]
            BY Zenon, <2>1, <5>2
          <6>2. byIdempotency'[q][i] # None => byIdempotency'[q][i].wager.id # m
            BY Zenon, <2>4, <3>1, <6>1
          <6> QED
            BY Zenon, <5>2, <6>2 DEF PlacedUnder
        <5> QED
          BY Zenon, <5>1, <5>2
      <4> QED
        BY Zenon, <2>1, <4>1
    <3>2. CASE ~(q = p /\ m = n)
      <4>1. wagers[q][m] # None
        BY Zenon, <2>3, <3>2
      <4>2. PICK j \in Ids : \A i \in Ids : PlacedUnder(q, m, i) <=> i = j
        BY Zenon, <4>1 DEF MemoryInv, MemoryPlacements
      <4>3. \A i \in Ids : PlacedUnder(q, m, i)' <=> PlacedUnder(q, m, i)
        <5> SUFFICES ASSUME NEW i \in Ids PROVE PlacedUnder(q, m, i)' <=> PlacedUnder(q, m, i)
          BY Zenon
        <5>1. CASE q = p /\ i = k
          <6>1. byIdempotency'[q][i].wager.id # m /\ byIdempotency[q][i] = None
            BY Zenon, <2>1, <3>2, <5>1 DEF n
          <6> QED
            BY Zenon, <6>1 DEF PlacedUnder
        <5>2. CASE ~(q = p /\ i = k)
          <6>1. byIdempotency'[q][i] = byIdempotency[q][i]
            BY Zenon, <2>1, <5>2
          <6> QED
            BY Zenon, <6>1 DEF PlacedUnder
        <5> QED
          BY Zenon, <5>1, <5>2
      <4> QED
        BY Zenon, <4>2, <4>3
    <3> QED
      BY Zenon, <3>1, <3>2
  <2> QED
    BY Zenon, <2>1, <2>5, <2>6 DEF MemoryInv
<1>FinishesKeepsMemory.
    ASSUME TypeInv, DurableInv, Idlers, MemoryInv, InMemory, NEW p \in Processes,
           p \in 1..deployment.servers, NEW r \in Sound, NEW found \in Wager, NEW w \in Wager,
           Finishes(p, r, found, w)
    PROVE  MemoryInv'
  <2> USE <1>FinishesKeepsMemory
  <2> DEFINE k == Id(r)
             n == r.scope
  <2>1. /\ byIdempotency[p][k] = None /\ k \in Ids
        /\ \A q \in Processes, i \in Ids :
              IF q = p /\ i = k THEN byIdempotency'[q][i] = OK(w)
              ELSE byIdempotency'[q][i] = byIdempotency[q][i]
        /\ OK(w).wager = w /\ OK(w) # None
        /\ MemoryKeys' /\ MemoryTold'
    <3>1. /\ call[p].pc = "fresh" /\ r = call[p].request /\ Moves(p, DecidedCall(r, w))
          /\ UNCHANGED <<deployment, acknowledged>>
      BY Zenon DEF Finishes, Answers
    <3>2. Remembers(p, Id(r), OK(w))
      BY Zenon, <1>MemoryFacts DEF Finishes
    <3>3. MemoryDecided(p, k, w)
      BY Zenon, <3>1, <3>2, <1>MemoryDecides
    <3> QED
      BY Zenon, <3>3 DEF MemoryDecided
  <2>2. /\ n \in WagerIds /\ w # None /\ found # None /\ found = wagers[p][n]
        /\ found.status = "pending" /\ w.stake = found.stake /\ Finished(w)
        /\ k[1] # "place" /\ k[2] = n
    BY Zenon, WagerFields, RequestFields, <1>MemoryFacts DEF Finishes, getWager, Id, Finish
  <2>3. w.id = n
    BY Zenon, <2>2 DEF DurableInv, KnownIds, MirrorKnown, Finishes
  <2>4. \A q \in Processes, j \in WagerIds :
            IF q = p /\ j = n THEN wagers'[q][j] = w ELSE wagers'[q][j] = wagers[q][j]
    <3>1. Mirrors(p, n, w)
      BY Zenon, <2>2 DEF Finishes
    <3> QED
      BY Zenon, <3>1 DEF Mirrors
  <2> HIDE DEF k, n
  <2>5. MemoryAnswers'
    <3> SUFFICES ASSUME NEW q \in Processes, NEW i \in Ids, byIdempotency'[q][i] # None
                 PROVE  MemoryAgrees(q, i, byIdempotency[q][i].wager)'
      BY Zenon DEF MemoryAnswers
    <3>1. CASE q = p /\ i = k
      <4>1. byIdempotency'[q][i].wager = w /\ wagers'[q][w.id] = w /\ w # None
        BY Zenon, <2>1, <2>2, <2>3, <2>4, <3>1
      <4>2. \A y : y = w => MemoryAgrees(q, i, y)'
        BY Zenon, <2>2, <2>3, <3>1, <4>1 DEF MemoryAgrees, Finished
      <4> QED
        BY Zenon, <4>1, <4>2
    <3>2. CASE ~(q = p /\ i = k)
      <4> DEFINE x == byIdempotency[q][i].wager
      <4>1. byIdempotency'[q][i] = byIdempotency[q][i]
        BY Zenon, <2>1, <3>2
      <4>2. MemoryAgrees(q, i, x) /\ x.id \in WagerIds
        BY Zenon, <4>1, <1>AnswerIds DEF MemoryInv, MemoryAnswers
      <4>3. x' = x
        BY Zenon, <4>1
      <4> HIDE DEF x
      <4>4. \A y : y = x => MemoryAgrees(q, i, y)'
        <5>1. CASE i[1] = "place"
          <6>1. wagers[q][x.id] # None /\ wagers[q][x.id].stake = x.stake
            BY Zenon, <4>2, <5>1 DEF MemoryAgrees
          <6>2. wagers'[q][x.id] # None /\ wagers'[q][x.id].stake = x.stake
            <7>1. CASE q = p /\ x.id = n
              BY Zenon, <2>2, <2>4, <4>2, <6>1, <7>1
            <7>2. CASE ~(q = p /\ x.id = n)
              BY Zenon, <2>4, <4>2, <6>1, <7>2
            <7> QED
              BY Zenon, <7>1, <7>2
          <6> QED
            BY Zenon, <5>1, <6>2 DEF MemoryAgrees
        <5>2. CASE i[1] # "place"
          <6>1. x.id = i[2] /\ wagers[q][x.id] = x /\ Finished(x)
            BY Zenon, <4>2, <5>2 DEF MemoryAgrees
          <6>2. ~(q = p /\ x.id = n)
            BY Zenon, <2>2, <6>1 DEF Finished
          <6>3. wagers'[q][x.id] = x
            BY Zenon, <2>4, <4>2, <6>1, <6>2
          <6> QED
            BY Zenon, <5>2, <6>1, <6>3 DEF MemoryAgrees, Finished
        <5> QED
          BY Zenon, <5>1, <5>2
      <4> QED
        BY Zenon, <4>3, <4>4 DEF x
    <3> QED
      BY Zenon, <3>1, <3>2
  <2>6. MemoryPlacements'
    <3> SUFFICES ASSUME NEW q \in Processes, NEW m \in WagerIds, wagers'[q][m] # None
                 PROVE  \E j \in Ids : \A i \in Ids : PlacedUnder(q, m, i)' <=> i = j
      BY Zenon DEF MemoryPlacements
    <3>1. wagers[q][m] # None
      BY Zenon, <2>2, <2>4
    <3>2. PICK j \in Ids : \A i \in Ids : PlacedUnder(q, m, i) <=> i = j
      BY Zenon, <3>1 DEF MemoryInv, MemoryPlacements
    <3>3. \A i \in Ids : PlacedUnder(q, m, i)' <=> PlacedUnder(q, m, i)
      <4> SUFFICES ASSUME NEW i \in Ids, i[1] = "place"
                   PROVE  PlacedUnder(q, m, i)' <=> PlacedUnder(q, m, i)
        BY Zenon DEF PlacedUnder
      <4>1. byIdempotency'[q][i] = byIdempotency[q][i]
        BY Zenon, <2>1, <2>2
      <4> QED
        BY Zenon, <4>1 DEF PlacedUnder
    <3> QED
      BY Zenon, <3>2, <3>3
  <2> QED
    BY Zenon, <2>1, <2>5, <2>6 DEF MemoryInv
<1> SUFFICES ASSUME TypeInv, DurableInv, Idlers, MemoryInv, NEW p \in Processes,
                    p \in 1..deployment.servers, Does(p)
             PROVE  MemoryInv'
  BY Zenon
<1>1. deployment' = deployment
  BY Zenon, OnlyPersistsWrites
<1>2. CASE ~InMemory
  BY Zenon, <1>1, <1>2 DEF MemoryInv, MemoryKeys, MemoryAnswers, MemoryPlacements, MemoryTold, InMemory, UseDB
<1>3. CASE InMemory
  <2>1. ~UseDB /\ call[p].pc \notin {"decided", "persisted"} /\ deployment.restarts = 0
    BY Zenon, <1>3, <1>MemoryFacts DEF Idlers
  <2>2. ~Dies(p)
    <3>1. restarts \in 0..0
      BY Zenon, <2>1 DEF TypeInv, StoreOK
    <3>2. Dies(p) => restarts < 0
      BY Zenon, <2>1 DEF Dies
    <3> QED
      BY <3>1, <3>2
  <2>3. \A r \in Sound, w \in Wager : ~Persists(p, r, w) /\ ~Saves(p, r, w)
    <3> SUFFICES ASSUME NEW r \in Sound, NEW w \in Wager
                 PROVE  ~Persists(p, r, w) /\ ~Saves(p, r, w)
      BY Zenon
    <3>1. /\ Persists(p, r, w) => call[p] = Stage("decided", r, w)
          /\ Saves(p, r, w) => call[p] = Stage("persisted", r, w)
      BY Zenon DEF Persists, Saves
    <3>2. Stage("decided", r, w).pc = "decided" /\ Stage("persisted", r, w).pc = "persisted"
      BY Zenon DEF Stage
    <3> QED
      BY Zenon, <2>1, <3>1, <3>2
  <2>4. \A r \in Sound, a \in Answer : ~EndsReplaying(p, r, a)
    BY Zenon, <2>1 DEF EndsReplaying
  <2> QED
    BY Zenon, <1>3, <2>2, <2>3, <2>4, <1>EndsKeepsMemory, <1>StartsKeepsMemory, <1>PlacesKeepsMemory,
       <1>FinishesKeepsMemory, <1>TellsKeepsMemory DEF Does
<1> QED
  BY Zenon, <1>2, <1>3

-----------------------------------------------------------------------------
(* The theorems.                                                             *)

FullInv == TypeInv /\ DurableInv /\ Idlers /\ StrictInv /\ MemoryInv

LEMMA FullInit == Init => FullInv
<1> SUFFICES ASSUME Init PROVE FullInv
  BY Zenon
<1>1. TypeInv /\ DurableInv
  BY Zenon, TypeInit, DurableInit
<1>2. Idlers
  BY Zenon DEF Init, Idlers, Idle
<1>3. StrictInv
  BY Zenon DEF Init, StrictInv, StrictKeys, StrictRows, StrictAnswers, OKIsDurable, Idle
<1>4. MemoryKeys /\ MemoryAnswers /\ MemoryTold
  BY Zenon DEF Init, MemoryKeys, MemoryAnswers, MemoryTold, Idle
<1>5. MemoryPlacements
  BY Zenon DEF Init, MemoryPlacements
<1> QED
  BY Zenon, <1>1, <1>2, <1>3, <1>4, <1>5 DEF FullInv, MemoryInv

LEMMA FullStep == FullInv /\ [Next]_vars => FullInv'
<1> SUFFICES ASSUME FullInv, [Next]_vars PROVE FullInv'
  BY Zenon
<1>1. TypeInv' /\ DurableInv'
  BY Zenon, TypeStep, DurableStep DEF FullInv
<1>2. CASE UNCHANGED vars
  <2>1. UNCHANGED <<deployment, wagers, byIdempotency, wagersTable, idempotencyTable, call, acknowledged>>
    BY Zenon, <1>2 DEF vars
  <2>2. Idlers'
    BY Zenon, <2>1 DEF FullInv, Idlers, Mirror, UseDB
  <2>3. StrictKeys' /\ StrictRows'
    BY Zenon, <2>1 DEF FullInv, StrictInv, StrictKeys, StrictRows, PendingRow, Strict, Mirror
  <2>4. StrictAnswers' /\ OKIsDurable'
    BY Zenon, <2>1, StrictReads DEF FullInv, Tables
  <2>5. MemoryInv'
    <3>1. MemoryKeys'
      BY Zenon, <2>1 DEF FullInv, MemoryInv, MemoryKeys, InMemory, UseDB
    <3> QED
      BY Zenon, <2>1, <3>1, MemoryReads DEF FullInv, MemoryInv
  <2> QED
    BY Zenon, <1>1, <2>2, <2>3, <2>4, <2>5 DEF FullInv, StrictInv
<1>3. CASE Next
  <2>1. PICK p \in Processes : p \in 1..deployment.servers /\ Does(p)
    BY Zenon, <1>3, NextDoes DEF FullInv
  <2> QED
    BY Zenon, <1>1, <2>1, IdlersStep, StrictStep, MemoryStep DEF FullInv
<1> QED
  BY Zenon, <1>2, <1>3

LEMMA FullAlways == Spec => []FullInv
BY FullInit, FullStep, PTL DEF Spec

\* The maps, the tables and the calls of WageringService keep their types, and no more
\* wagers are placed than the bound of the behaviour allows.
THEOREM WageringTypes == Spec => []TypeOK
<1>1. FullInv => TypeOK
  BY Zenon, TypeImplied DEF FullInv
<1> QED
  BY <1>1, FullAlways, PTL

\* A success event of appendAudit is about durable rows in every deployment with a
\* database, however many processes share it and whatever dies; and in strict mode an OK
\* answer is the one saved under its key.
THEOREM ToldDurable == Spec => []ToldIsDurable
<1>1. FullInv => ToldIsDurable
  BY Zenon DEF FullInv, DurableInv, StrictInv, ToldIsDurable
<1> QED
  BY <1>1, FullAlways, PTL

\* In strict mode the answers persistIdempotencyResponse has saved agree with the rows
\* persistWager has written, through any number of restarts.
THEOREM SavedAgree == Spec => []SavedAnswersDescribeRows
<1>1. FullInv => SavedAnswersDescribeRows
  BY Zenon DEF FullInv, StrictInv, StrictAnswers, AnswerAgrees, SavedAnswersDescribeRows
<1> QED
  BY <1>1, FullAlways, PTL

\* Without a database the answers remembered in the ...ByIdempotency maps agree with the
\* wagers map, and every wager was placed under exactly one key.
THEOREM AnswersDescribe == Spec => []AnswersDescribeWagers
<1>1. ASSUME FullInv
      PROVE  AnswersDescribeWagers
  <2> SUFFICES ASSUME InMemory, NEW p \in Processes
               PROVE  /\ \A i \in Ids : byIdempotency[p][i] # None =>
                            LET w == byIdempotency[p][i].wager IN
                            IF i[1] = "place"
                            THEN wagers[p][w.id] # None /\ wagers[p][w.id].stake = w.stake
                            ELSE w.id = i[2] /\ wagers[p][w.id] = w
                      /\ \A w \in WagerIds : wagers[p][w] # None =>
                            \E k \in Ids :
                                {k} = {i \in Ids : i[1] = "place" /\ byIdempotency[p][i] # None
                                                   /\ byIdempotency[p][i].wager.id = w}
    BY Zenon DEF AnswersDescribeWagers
  <2>1. \A i \in Ids : byIdempotency[p][i] # None =>
            LET w == byIdempotency[p][i].wager IN
            IF i[1] = "place"
            THEN wagers[p][w.id] # None /\ wagers[p][w.id].stake = w.stake
            ELSE w.id = i[2] /\ wagers[p][w.id] = w
    BY Zenon, <1>1 DEF FullInv, MemoryInv, MemoryAnswers, MemoryAgrees
  <2>2. ASSUME NEW w \in WagerIds, wagers[p][w] # None
        PROVE  \E k \in Ids :
                   {k} = {i \in Ids : i[1] = "place" /\ byIdempotency[p][i] # None
                                      /\ byIdempotency[p][i].wager.id = w}
    <3>1. PICK k \in Ids : \A i \in Ids : PlacedUnder(p, w, i) <=> i = k
      BY Zenon, <1>1, <2>2 DEF FullInv, MemoryInv, MemoryPlacements
    <3> QED
      BY Zenon, <3>1 DEF PlacedUnder
  <2> QED
    BY Zenon, <2>1, <2>2
<1> QED
  BY <1>1, FullAlways, PTL

\* Without a database or in strict mode all OK answers under a key are the same.
THEOREM OneAnswer == Spec => []OneAnswerPerKey
<1>1. ASSUME FullInv
      PROVE  OneAnswerPerKey
  <2> SUFFICES ASSUME InMemory \/ Strict, NEW a \in acknowledged, NEW b \in acknowledged, a[1] = b[1]
               PROVE  a = b
    BY Zenon DEF OneAnswerPerKey
  <2>1. /\ a \in Ids \X Wager /\ b \in Ids \X Wager
        /\ a[2] \in Wager /\ b[2] \in Wager
    BY Zenon, <1>1 DEF FullInv, TypeInv, StoreOK
  <2>2. OK(a[2]) = OK(b[2])
    BY Zenon, <1>1 DEF FullInv, StrictInv, OKIsDurable, MemoryInv, MemoryTold
  <2>3. a[2] = b[2]
    BY <2>1, <2>2, AnswerFields
  <2> QED
    BY <2>1, <2>3
<1> QED
  BY <1>1, FullAlways, PTL

\* In strict mode SettleWager and CancelWager never change a row that has left PENDING.
THEOREM FinishedStay == Spec => FinishedRowsStay
<1>1. ASSUME FullInv, [Next]_vars
      PROVE  [Strict => \A w \in WagerIds :
                 Finished(wagersTable[w]) => wagersTable'[w] = wagersTable[w]]_vars
  <2>1. CASE UNCHANGED vars
    BY Zenon, <2>1
  <2>2. CASE Next
    <3>1. PICK p \in Processes : Does(p)
      BY Zenon, <1>1, <2>2, NextDoes DEF FullInv
    <3> QED
      BY Zenon, <1>1, <3>1, StrictRowsStay DEF FullInv
  <2> QED
    BY Zenon, <1>1, <2>1, <2>2
<1> QED
  BY <1>1, FullAlways, PTL DEF Spec, FinishedRowsStay

=============================================================================
