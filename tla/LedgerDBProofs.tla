--------------------------- MODULE LedgerDBProofs ---------------------------
(***************************************************************************)
(* Proofs about LedgerDB, for any number of processes, clients, accounts   *)
(* and keys and all bounds.  Only a commit touches the books (BooksKept);  *)
(* what a commit does is stated once (CommitEffect).                       *)
(***************************************************************************)
EXTENDS LedgerDB, FiniteSetTheorems, WellFoundedInduction, TLAPS

Codes    == {"NONE", "OK", "DENIED", "ERROR"}
Answered == [pc : {"idle"}, code : Codes]
Underway == [pc : {"waiting", "entered", "hung"}, process : Processes, request : Requests]
Prepared == [pc : {"audited"}, process : Processes, request : Requests, txID : TxIds,
             amount : Nat \ {0}]

\* The calls that hold the mutex of their process
Holding == {"entered", "audited", "hung"}

CallShape == call \in [Clients -> Answered \cup Underway \cup Prepared]

\* A call between s.mu.Lock and its return holds the mutex of its process, and nobody else does.
Mutex ==
    /\ mu \in [Processes -> Clients \cup {Free}]
    /\ \A c \in Clients : call[c].pc \in Holding => mu[call[c].process] = c
    /\ \A p \in Processes : mu[p] # Free =>
           call[mu[p]].pc \in Holding /\ call[mu[p]].process = p

TypeInv == TypeOK /\ CallShape /\ Mutex

Books == <<balance, ledgerTransactions, ledgerPostings, applied>>

-----------------------------------------------------------------------------
(* Types.                                                                    *)

\* The fields of a call, by where it is.
LEMMA CallFields ==
    ASSUME CallShape, NEW c \in Clients
    PROVE  /\ call[c].pc \in {"idle", "waiting", "entered", "audited", "hung"}
           /\ call[c].pc # "idle" => call[c].process \in Processes /\ call[c].request \in Requests
           /\ call[c].pc = "audited" => call[c].txID \in TxIds /\ call[c].amount \in Nat \ {0}
<1>1. call[c] \in Answered \/ call[c] \in Underway \/ call[c] \in Prepared
  BY Zenon DEF CallShape
<1>2. CASE call[c] \in Answered
  BY Zenon, <1>2 DEF Answered
<1>3. CASE call[c] \in Underway
  BY Zenon, <1>3 DEF Underway
<1>4. CASE call[c] \in Prepared
  BY Zenon, <1>4 DEF Prepared
<1> QED
  BY Zenon, <1>1, <1>2, <1>3, <1>4

\* The fields of a request.
LEMMA RequestFields ==
    ASSUME NEW r \in Requests
    PROVE  /\ r.op \in Credits \cup Debits /\ r.account \in Accounts
           /\ r.key \in Keys /\ r.amount \in Nat \ {0}
           /\ Id(r) \in Ids
           /\ Debited(r) \in AllAccounts /\ Credited(r) \in AllAccounts
<1>1. r.op \in Credits \cup Debits /\ r.account \in Accounts /\ r.key \in Keys /\ r.amount \in Nat \ {0}
  BY Zenon, ConstantsAssumption DEF Requests
<1>2. Counterpart(r.op) \in AllAccounts
  BY Zenon, <1>1 DEF Counterpart, Credits, Debits, AllAccounts
<1> QED
  BY Zenon, <1>1, <1>2 DEF Id, Ids, Debited, Credited, AllAccounts

\* A call that returns leaves calls and mutexes in order.
LEMMA ReturnKeeps ==
    ASSUME TypeInv, NEW c \in Clients, call[c].pc # "idle", NEW code \in Codes,
           call[c].pc \in Holding \/ mu[call[c].process] = Free,
           Return(c, code)
    PROVE  CallShape' /\ Mutex'
<1> DEFINE p == call[c].process
<1>1. p \in Processes
  BY Zenon, CallFields DEF TypeInv
<1>2. mu \in [Processes -> Clients \cup {Free}] /\ DOMAIN call = Clients
  BY Zenon DEF TypeInv, TypeOK, CallShape
<1>3. [pc |-> "idle", code |-> code] \in Answered
  BY Zenon DEF Answered
<1>4. CallShape'
  BY Zenon, <1>3 DEF TypeInv, CallShape, Return
<1>5. /\ call'[c].pc = "idle" /\ mu'[p] = Free
      /\ \A d \in Clients \ {c} : call'[d] = call[d]
      /\ \A q \in Processes \ {p} : mu'[q] = mu[q]
      /\ mu' \in [Processes -> Clients \cup {Free}]
  BY Zenon, <1>1, <1>2 DEF Return
<1>6. ASSUME NEW d \in Clients, call'[d].pc \in Holding
      PROVE  mu'[call'[d].process] = d
  <2>1. d # c /\ call'[d] = call[d] /\ mu[call[d].process] = d
    BY <1>5, <1>6 DEF Holding, TypeInv, Mutex
  <2>2. call[d].process \in Processes
    BY Zenon, <1>6, <2>1, CallFields DEF TypeInv, Holding
  <2>3. call[d].process # p
    BY <2>1, <1>1, ValuesAssumption DEF TypeInv, Mutex
  <2> QED
    BY Zenon, <2>1, <2>2, <2>3, <1>5
<1>7. ASSUME NEW q \in Processes, mu'[q] # Free
      PROVE  call'[mu'[q]].pc \in Holding /\ call'[mu'[q]].process = q
  <2>1. q # p /\ mu'[q] = mu[q]
    BY Zenon, <1>5, <1>7
  <2>2. call[mu[q]].pc \in Holding /\ call[mu[q]].process = q /\ mu[q] \in Clients
    BY <2>1, <1>7, <1>2 DEF TypeInv, Mutex
  <2>3. mu[q] # c
    BY Zenon, <2>1, <2>2
  <2> QED
    BY Zenon, <2>1, <2>2, <2>3, <1>5
<1> QED
  BY Zenon, <1>4, <1>5, <1>6, <1>7 DEF Mutex

\* A call that goes on holding its mutex leaves calls and mutexes in order.
LEMMA ContinueKeeps ==
    ASSUME TypeInv, NEW c \in Clients, call[c].pc \in Holding,
           NEW next \in Underway \cup Prepared, next.pc \in Holding,
           next.process = call[c].process,
           call' = [call EXCEPT ![c] = next], mu' = mu
    PROVE  CallShape' /\ Mutex'
<1>1. mu \in [Processes -> Clients \cup {Free}] /\ DOMAIN call = Clients
  BY Zenon DEF TypeInv, TypeOK, CallShape
<1>2. CallShape'
  BY Zenon DEF TypeInv, CallShape
<1>3. call'[c] = next /\ \A d \in Clients \ {c} : call'[d] = call[d]
  BY Zenon, <1>1
<1>4. \A d \in Clients : (call'[d].pc \in Holding <=> call[d].pc \in Holding)
                         /\ (call[d].pc \in Holding => call'[d].process = call[d].process)
  BY Zenon, <1>3
<1> QED
  BY <1>1, <1>2, <1>4, ValuesAssumption DEF Mutex, TypeInv

\* The parts of TypeOK that are not about calls
StoreOK ==
    /\ balance \in [AllAccounts -> Int]
    /\ ledgerTransactions \in [TxIds -> Row \cup {None}]
    /\ ledgerPostings \in Seq([txID : TxIds, debited : AllAccounts, credited : AllAccounts,
                               amount : Nat \ {0}])
    /\ auditEvents \in [1..MaxAudit -> Events \cup {None}]
    /\ failedAttempts \in [Accounts -> Nat]
    /\ lockedOut \in [Accounts -> BOOLEAN]
    /\ cache \in [Processes -> [Ids -> {"OK", None}]]
    /\ nextTransactionID \in [Processes -> 0..MaxTx]
    /\ nextAuditID \in [Processes -> 0..MaxAudit]
    /\ applied \in [Ids -> Nat]

\* Mutexes are held by the calls that TypeOK says hold them.
LEMMA TypeParts ==
    TypeInv <=> StoreOK /\ CallShape /\ Mutex
<1>1. ASSUME CallShape, Mutex, NEW c \in Clients
      PROVE  /\ call[c].pc \in {"idle", "waiting", "entered", "audited", "hung"}
             /\ call[c].pc \in {"entered", "audited", "hung"} <=> \E p \in Processes : mu[p] = c
  <2>1. ASSUME call[c].pc \in Holding PROVE \E p \in Processes : mu[p] = c
    BY Zenon, <1>1, <2>1, CallFields DEF Mutex, Holding
  <2>2. ASSUME NEW p \in Processes, mu[p] = c PROVE call[c].pc \in Holding
    BY Zenon, <1>1, <2>2, ValuesAssumption DEF Mutex
  <2> QED
    BY Zenon, <1>1, <2>1, <2>2, CallFields DEF Holding
<1>2. ASSUME TypeInv PROVE StoreOK
  BY Zenon, <1>2 DEF TypeInv, TypeOK, StoreOK
<1>3. ASSUME StoreOK, CallShape, Mutex PROVE TypeOK
  BY Zenon, <1>1, <1>3 DEF TypeOK, StoreOK, Mutex
<1> QED
  BY Zenon, <1>2, <1>3 DEF TypeInv

\* The same after a step.
LEMMA TypePartsNext ==
    ASSUME StoreOK', CallShape', Mutex' PROVE TypeInv'
BY TypeParts, PTL

\* What the audit appends of a process do to the numbers and the table, written or not.
LEMMA AuditStep ==
    ASSUME StoreOK, NEW p \in Processes, NEW event \in Events,
           InsertAudit(p, event) \/ auditDenied(p, event)
    PROVE  /\ nextAuditID' = [nextAuditID EXCEPT ![p] = @ + 1]
           /\ nextAuditID[p] + 1 \in 1..MaxAudit
           /\ nextAuditID' \in [Processes -> 0..MaxAudit]
           /\ auditEvents' \in [1..MaxAudit -> Events \cup {None}]
           /\ \A n \in 1..MaxAudit : auditEvents[n] # None => auditEvents'[n] = auditEvents[n]
           /\ \A n \in 1..MaxAudit : n # nextAuditID[p] + 1 => auditEvents'[n] = auditEvents[n]
<1>1. nextAuditID[p] \in 0..MaxAudit /\ MaxAudit \in Nat
  BY Zenon, ConstantsAssumption DEF StoreOK
<1>2. nextAuditID[p] + 1 <= MaxAudit /\ nextAuditID' = [nextAuditID EXCEPT ![p] = nextAuditID[p] + 1]
  BY <1>1 DEF InsertAudit, auditDenied
<1>3. \/ auditEvents' = auditEvents
      \/ auditEvents' = [auditEvents EXCEPT ![nextAuditID[p] + 1] = IF @ = None THEN event ELSE @]
  BY Zenon DEF InsertAudit, auditDenied
<1> QED
  <2>1. nextAuditID[p] + 1 \in 1..MaxAudit /\ nextAuditID' \in [Processes -> 0..MaxAudit]
    BY <1>1, <1>2 DEF StoreOK
  <2>2. auditEvents \in [1..MaxAudit -> Events \cup {None}]
    BY Zenon DEF StoreOK
  <2>3. CASE auditEvents' = auditEvents
    BY Zenon, <1>2, <2>1, <2>2, <2>3
  <2>4. CASE auditEvents' = [auditEvents EXCEPT ![nextAuditID[p] + 1] = IF @ = None THEN event ELSE @]
    BY Zenon, <1>2, <2>1, <2>2, <2>4
  <2> QED
    BY Zenon, <1>3, <2>3, <2>4

\* The first state is well typed.
LEMMA TypeInit == ASSUME Init PROVE TypeInv
<1>1. StoreOK
  BY ConstantsAssumption DEF Init, StoreOK
<1>2. CallShape /\ Mutex
  BY Zenon DEF Init, CallShape, Mutex, Idle, Answered, Codes, Holding
<1> QED
  BY Zenon, <1>1, <1>2, TypeParts

\* A call that arrives waits for the mutex.
LEMMA TypeCall ==
    ASSUME TypeInv, NEW c \in Clients, NEW p \in Processes, NEW r \in Requests, Call(c, p, r)
    PROVE  TypeInv'
<1>1. StoreOK'
  BY Zenon, TypeParts DEF Call, tables, memory, StoreOK
<1>2. [pc |-> "waiting", process |-> p, request |-> r] \in Underway
  BY Zenon DEF Underway
<1>3. CallShape'
  BY Zenon, <1>2 DEF TypeInv, CallShape, Call
<1>4. mu' = mu /\ mu \in [Processes -> Clients \cup {Free}] /\ DOMAIN call = Clients
  BY Zenon DEF Call, memory, TypeInv, TypeOK, CallShape
<1>5. call'[c].pc = "waiting" /\ call[c].pc = "idle" /\ \A d \in Clients \ {c} : call'[d] = call[d]
  BY Zenon, <1>4 DEF Call
<1>6. Mutex'
  BY <1>4, <1>5 DEF Mutex, TypeInv, Holding
<1> QED
  BY Zenon, <1>1, <1>3, <1>4, <1>6, TypePartsNext

\* A call enters, or is answered at once.
LEMMA TypeEnter ==
    ASSUME TypeInv, NEW c \in Clients, Enter(c)
    PROVE  TypeInv'
<1> DEFINE p == call[c].process
           r == call[c].request
<1>1. /\ StoreOK /\ p \in Processes /\ r \in Requests /\ Id(r) \in Ids
      /\ call[c].pc = "waiting" /\ mu[p] = Free
  BY Zenon, TypeParts, CallFields, RequestFields DEF Enter, TypeInv
<1>2. <<"denied", Id(r)>> \in Events
  BY Zenon, <1>1 DEF Events
<1>3. UNCHANGED <<balance, ledgerTransactions, ledgerPostings, failedAttempts, lockedOut,
                  nextTransactionID, applied, restarts>>
  BY Zenon DEF Enter
<1>4. CASE Return(c, "ERROR") /\ UNCHANGED <<nextAuditID, auditEvents, cache>>
  <2>1. StoreOK'
    BY Zenon, <1>1, <1>3, <1>4 DEF StoreOK
  <2> QED
    BY Zenon, <1>1, <1>4, <2>1, ReturnKeeps, TypePartsNext DEF Codes
<1>5. CASE auditDenied(p, <<"denied", Id(r)>>) /\ Return(c, "DENIED") /\ UNCHANGED cache
  <2>1. StoreOK'
    BY Zenon, <1>1, <1>2, <1>3, <1>5, AuditStep DEF StoreOK
  <2> QED
    BY Zenon, <1>1, <1>5, <2>1, ReturnKeeps, TypePartsNext DEF Codes
<1>6. CASE /\ cache' = [cache EXCEPT ![p][Id(r)] = "OK"]
           /\ Return(c, "OK")
           /\ UNCHANGED <<nextAuditID, auditEvents>>
  <2>1. cache' \in [Processes -> [Ids -> {"OK", None}]]
    BY Zenon, <1>1, <1>6 DEF StoreOK
  <2>2. StoreOK'
    BY Zenon, <1>1, <1>3, <1>6, <2>1 DEF StoreOK
  <2> QED
    BY Zenon, <1>1, <1>6, <2>2, ReturnKeeps, TypePartsNext DEF Codes
<1>7. CASE /\ mu' = [mu EXCEPT ![p] = c]
           /\ call' = [call EXCEPT ![c].pc = "entered"]
           /\ UNCHANGED <<nextAuditID, auditEvents, cache>>
  <2>1. StoreOK'
    BY Zenon, <1>1, <1>3, <1>7 DEF StoreOK
  <2>2. call[c] \in Underway
    BY Zenon, <1>1 DEF TypeInv, CallShape, Answered, Prepared
  <2>3. [call[c] EXCEPT !.pc = "entered"] \in Underway
    BY Zenon, <2>2 DEF Underway
  <2>4. DOMAIN call = Clients /\ mu \in [Processes -> Clients \cup {Free}]
    BY Zenon DEF TypeInv, TypeOK, CallShape
  <2>5. CallShape'
    BY Zenon, <1>7, <2>3 DEF TypeInv, CallShape
  <2>6. /\ call'[c].pc = "entered" /\ call'[c].process = p
        /\ \A d \in Clients \ {c} : call'[d] = call[d]
        /\ mu'[p] = c /\ \A q \in Processes \ {p} : mu'[q] = mu[q]
        /\ mu' \in [Processes -> Clients \cup {Free}]
    BY Zenon, <1>1, <1>7, <2>2, <2>4 DEF Underway
  <2>7. ASSUME NEW d \in Clients, call'[d].pc \in Holding PROVE mu'[call'[d].process] = d
    <3>1. CASE d = c
      BY Zenon, <3>1, <2>6
    <3>2. CASE d # c
      <4>1. call'[d] = call[d] /\ mu[call[d].process] = d /\ call[d].process \in Processes
        BY Zenon, <3>2, <2>6, <2>7, CallFields DEF TypeInv, Mutex, Holding
      <4>2. call[d].process # p
        BY Zenon, <4>1, <1>1, ValuesAssumption
      <4> QED
        BY <4>1, <4>2, <2>6
    <3> QED
      BY Zenon, <3>1, <3>2
  <2>8. ASSUME NEW q \in Processes, mu'[q] # Free
        PROVE  call'[mu'[q]].pc \in Holding /\ call'[mu'[q]].process = q
    <3>1. CASE q = p
      BY Zenon, <3>1, <2>6 DEF Holding
    <3>2. CASE q # p
      <4>1. mu'[q] = mu[q] /\ mu[q] \in Clients
        BY Zenon, <3>2, <2>4, <2>6, <2>8
      <4>2. call[mu[q]].pc \in Holding /\ call[mu[q]].process = q
        BY Zenon, <4>1, <2>8 DEF TypeInv, Mutex
      <4>3. mu[q] # c
        BY Zenon, <4>2, <1>1 DEF Holding
      <4> QED
        BY <4>1, <4>2, <4>3, <2>6
    <3> QED
      BY Zenon, <3>1, <3>2
  <2> QED
    BY Zenon, <2>1, <2>5, <2>6, <2>7, <2>8, TypePartsNext DEF Mutex
<1> QED
  BY Zenon, <1>4, <1>5, <1>6, <1>7 DEF Enter

\* The amount of a request that is not refused is positive.
LEMMA MovedPositive ==
    ASSUME NEW r \in Requests, NEW available \in Int, ~Refused(r, available)
    PROVE  Moved(r, available) \in Nat \ {0}
BY RequestFields DEF Moved, Refused

\* A decision to move money, its success event appended or not
EventAppended(c) ==
    /\ InsertAudit(call[c].process, <<"success", Id(call[c].request)>>)
    /\ call' = [call EXCEPT ![c] =
           [pc |-> "audited", process |-> call[c].process, request |-> call[c].request,
            txID |-> nextTransactionID[call[c].process] + 1,
            amount |-> Moved(call[c].request, balance[call[c].request.account])]]
    /\ UNCHANGED mu

EventLost(c) ==
    /\ nextAuditID[call[c].process] < MaxAudit
    /\ nextAuditID' = [nextAuditID EXCEPT ![call[c].process] = @ + 1]
    /\ Return(c, "ERROR")
    /\ UNCHANGED auditEvents

\* A decision is refused, fails, or has its success event appended.
LEMMA TypeDecide ==
    ASSUME TypeInv, NEW c \in Clients, Decide(c)
    PROVE  TypeInv'
<1> DEFINE p == call[c].process
           r == call[c].request
           t == nextTransactionID[p] + 1
<1>1. /\ StoreOK /\ p \in Processes /\ r \in Requests /\ Id(r) \in Ids /\ r.account \in Accounts
      /\ call[c].pc = "entered" /\ call[c].pc \in Holding
  BY Zenon, TypeParts, CallFields, RequestFields DEF Decide, TypeInv, Holding
<1>2. <<"denied", Id(r)>> \in Events /\ <<"success", Id(r)>> \in Events
  BY Zenon, <1>1 DEF Events
<1>3. UNCHANGED <<balance, ledgerTransactions, ledgerPostings, cache, applied, restarts>>
  BY Zenon DEF Decide
<1>4. CASE /\ Return(c, "ERROR")
           /\ UNCHANGED <<nextTransactionID, nextAuditID, auditEvents, failedAttempts, lockedOut>>
  <2>1. StoreOK'
    BY Zenon, <1>1, <1>3, <1>4 DEF StoreOK
  <2> QED
    BY Zenon, <1>1, <1>4, <2>1, ReturnKeeps, TypePartsNext DEF Codes
<1>5. CASE /\ recordEFTFailure(r.account)
           /\ auditDenied(p, <<"denied", Id(r)>>)
           /\ persistIdempotencyResponse(c)
           /\ UNCHANGED nextTransactionID
  <2>1. failedAttempts' \in [Accounts -> Nat] /\ lockedOut' \in [Accounts -> BOOLEAN]
    <3>1. failedAttempts \in [Accounts -> Nat] /\ lockedOut \in [Accounts -> BOOLEAN]
      BY Zenon, <1>1 DEF StoreOK
    <3> QED
      BY <1>1, <1>5, <3>1 DEF recordEFTFailure
  <2>2. StoreOK'
    BY Zenon, <1>1, <1>2, <1>3, <1>5, <2>1, AuditStep DEF StoreOK
  <2>3. [pc |-> "hung", process |-> p, request |-> r] \in Underway
    BY Zenon, <1>1 DEF Underway
  <2>4. call' = [call EXCEPT ![c] = [pc |-> "hung", process |-> p, request |-> r]] /\ mu' = mu
    BY Zenon, <1>5 DEF persistIdempotencyResponse
  <2> QED
    BY Zenon, <1>1, <2>2, <2>3, <2>4, ContinueKeeps, TypePartsNext DEF Holding
<1>6. CASE /\ ~Refused(r, balance[r.account]) /\ t <= MaxTx
           /\ nextTransactionID' = [nextTransactionID EXCEPT ![p] = t]
           /\ EventAppended(c) \/ EventLost(c)
           /\ UNCHANGED <<failedAttempts, lockedOut>>
  <2>1. nextTransactionID' \in [Processes -> 0..MaxTx] /\ t \in TxIds
    <3>1. nextTransactionID \in [Processes -> 0..MaxTx] /\ MaxTx \in Nat
      BY Zenon, <1>1, ConstantsAssumption DEF StoreOK
    <3> QED
      BY <1>1, <1>6, <3>1 DEF TxIds
  <2>2. CASE EventAppended(c)
    <3>1. StoreOK'
      BY Zenon, <1>1, <1>2, <1>3, <1>6, <2>1, <2>2, AuditStep DEF StoreOK, EventAppended
    <3>2. balance[r.account] \in Int
      BY Zenon, <1>1 DEF StoreOK, AllAccounts
    <3>3. Moved(r, balance[r.account]) \in Nat \ {0}
      BY Zenon, <1>1, <1>6, <3>2, MovedPositive
    <3>4. [pc |-> "audited", process |-> p, request |-> r, txID |-> t,
           amount |-> Moved(r, balance[r.account])] \in Prepared
      BY Zenon, <1>1, <2>1, <3>3 DEF Prepared
    <3> QED
      BY Zenon, <1>1, <2>2, <3>1, <3>4, ContinueKeeps, TypePartsNext DEF Holding, EventAppended
  <2>3. CASE EventLost(c)
    <3>1. nextAuditID' \in [Processes -> 0..MaxAudit]
      <4>1. nextAuditID \in [Processes -> 0..MaxAudit] /\ MaxAudit \in Nat
        BY Zenon, <1>1, ConstantsAssumption DEF StoreOK
      <4> QED
        BY <1>1, <2>3, <4>1 DEF EventLost
    <3>2. StoreOK'
      BY Zenon, <1>1, <1>3, <1>6, <2>1, <2>3, <3>1 DEF StoreOK, EventLost
    <3> QED
      BY Zenon, <1>1, <2>3, <3>2, ReturnKeeps, TypePartsNext DEF Codes, EventLost
  <2> QED
    BY Zenon, <1>6, <2>2, <2>3
<1> QED
  BY Zenon, <1>4, <1>5, <1>6 DEF Decide, EventAppended, EventLost

\* The database transaction of a call commits.
Committed(c) ==
    /\ call[c].pc = "audited"
    /\ ~UniqueViolation(call[c].txID, call[c].request)
    /\ ~CheckViolation(call[c].request, call[c].amount)
    /\ InsertTransaction(call[c].txID,
           [op |-> call[c].request.op, account |-> call[c].request.account,
            key |-> call[c].request.key, amount |-> call[c].amount])
    /\ ledgerPostings' =
           Append(ledgerPostings, Postings(call[c].txID, call[c].request, call[c].amount))
    /\ AdjustBalances(call[c].request, call[c].amount)
    /\ applied' = [applied EXCEPT ![Id(call[c].request)] = @ + 1]
    /\ persistIdempotencyResponse(c) \/ Return(c, "ERROR")
    /\ UNCHANGED <<auditEvents, failedAttempts, lockedOut, cache, nextTransactionID,
                   nextAuditID, restarts>>

\* Or it does not, and the call returns.
RolledBack(c) ==
    /\ call[c].pc = "audited"
    /\ Return(c, "ERROR")
    /\ UNCHANGED <<Books, auditEvents, failedAttempts, lockedOut, cache, nextTransactionID,
                   nextAuditID, restarts>>

LEMMA CommitCases ==
    ASSUME NEW c \in Clients, Commit(c)
    PROVE  Committed(c) \/ RolledBack(c)
BY Zenon DEF Commit, Committed, RolledBack, Books

\* A commit keeps the types of the books.
LEMMA TypeCommitted ==
    ASSUME TypeInv, NEW c \in Clients, Committed(c)
    PROVE  TypeInv'
<1> DEFINE p == call[c].process
           r == call[c].request
           t == call[c].txID
           n == call[c].amount
<1>1. /\ StoreOK /\ p \in Processes /\ r \in Requests /\ t \in TxIds /\ n \in Nat \ {0}
      /\ call[c].pc = "audited" /\ call[c].pc \in Holding
  BY Zenon, TypeParts, CallFields DEF Committed, TypeInv, Holding
<1>2. /\ r.op \in Credits \cup Debits /\ r.account \in Accounts /\ r.key \in Keys /\ Id(r) \in Ids
      /\ Debited(r) \in AllAccounts /\ Credited(r) \in AllAccounts
  BY Zenon, <1>1, RequestFields
<1>3. balance' \in [AllAccounts -> Int]
  <2>1. balance \in [AllAccounts -> Int]
    BY Zenon, <1>1 DEF StoreOK
  <2> QED
    BY <1>1, <1>2, <2>1 DEF Committed, AdjustBalances
<1>4. ledgerTransactions' \in [TxIds -> Row \cup {None}]
  <2>1. [op |-> r.op, account |-> r.account, key |-> r.key, amount |-> n] \in Row
    BY Zenon, <1>1, <1>2 DEF Row
  <2>2. ledgerTransactions \in [TxIds -> Row \cup {None}]
    BY Zenon, <1>1 DEF StoreOK
  <2> QED
    BY Zenon, <1>1, <2>1, <2>2 DEF Committed, InsertTransaction
<1>5. ledgerPostings' \in Seq([txID : TxIds, debited : AllAccounts, credited : AllAccounts,
                               amount : Nat \ {0}])
  BY <1>1, <1>2 DEF Committed, Postings, StoreOK
<1>6. applied' \in [Ids -> Nat]
  BY <1>1, <1>2 DEF Committed, StoreOK
<1>7. StoreOK'
  BY Zenon, <1>1, <1>3, <1>4, <1>5, <1>6 DEF Committed, StoreOK
<1>8. [pc |-> "hung", process |-> p, request |-> r] \in Underway
  BY Zenon, <1>1 DEF Underway
<1>9. CASE persistIdempotencyResponse(c)
  <2>1. call' = [call EXCEPT ![c] = [pc |-> "hung", process |-> p, request |-> r]] /\ mu' = mu
    BY Zenon, <1>9 DEF persistIdempotencyResponse
  <2> QED
    BY Zenon, <1>1, <1>7, <1>8, <2>1, ContinueKeeps, TypePartsNext DEF Holding
<1>10. CASE Return(c, "ERROR")
  <2>1. call[c].pc # "idle"
    BY Zenon, <1>1
  <2> QED
    BY Zenon, <1>1, <1>7, <1>10, <2>1, ReturnKeeps, TypePartsNext DEF Codes
<1> QED
  BY Zenon, <1>9, <1>10 DEF Committed

\* A commit that fails changes nothing but the call.
LEMMA TypeRolledBack ==
    ASSUME TypeInv, NEW c \in Clients, RolledBack(c)
    PROVE  TypeInv'
<1>1. StoreOK'
  BY Zenon, TypeParts DEF RolledBack, Books, StoreOK
<1>2. call[c].pc \in Holding /\ call[c].pc # "idle" /\ Return(c, "ERROR")
  BY Zenon DEF RolledBack, Holding
<1> QED
  BY Zenon, <1>1, <1>2, ReturnKeeps, TypePartsNext DEF Codes

\* A restart frees the mutex of the process and drops its calls.
LEMMA TypeRestart ==
    ASSUME TypeInv, NEW p \in Processes, Restart(p)
    PROVE  TypeInv'
<1>1. StoreOK
  BY Zenon, TypeParts
<1>2. StoreOK'
  <2>1. cache' \in [Processes -> [Ids -> {"OK", None}]]
    BY Zenon, <1>1 DEF StoreOK, Restart
  <2>2. nextTransactionID' \in [Processes -> 0..MaxTx] /\ nextAuditID' \in [Processes -> 0..MaxAudit]
    BY <1>1, ConstantsAssumption DEF StoreOK, Restart
  <2> QED
    BY Zenon, <1>1, <2>1, <2>2 DEF StoreOK, Restart, tables
<1>3. Idle \in Answered
  BY Zenon DEF Idle, Answered, Codes
<1>4. /\ \A d \in Clients : call'[d] = IF call[d].pc # "idle" /\ call[d].process = p
                                       THEN Idle ELSE call[d]
      /\ mu'[p] = Free /\ \A q \in Processes \ {p} : mu'[q] = mu[q]
      /\ mu' \in [Processes -> Clients \cup {Free}]
  BY Zenon DEF Restart, TypeInv, Mutex
<1>5. CallShape'
  BY Zenon, <1>3 DEF Restart, TypeInv, CallShape
<1>6. ASSUME NEW d \in Clients, call'[d].pc \in Holding PROVE mu'[call'[d].process] = d
  <2>1. call'[d] = call[d] /\ call[d].pc # "idle"
    BY <1>4, <1>6 DEF Idle, Holding
  <2>2. call[d].process \in Processes \ {p}
    BY <1>4, <1>6, <2>1, CallFields DEF TypeInv, Idle, Holding
  <2> QED
    BY <1>4, <1>6, <2>1, <2>2 DEF TypeInv, Mutex
<1>7. ASSUME NEW q \in Processes, mu'[q] # Free
      PROVE  call'[mu'[q]].pc \in Holding /\ call'[mu'[q]].process = q
  <2>1. q # p /\ mu'[q] = mu[q] /\ mu[q] \in Clients
    BY <1>4, <1>7 DEF TypeInv, Mutex
  <2>2. call[mu[q]].pc \in Holding /\ call[mu[q]].process = q
    BY Zenon, <1>7, <2>1 DEF TypeInv, Mutex
  <2> QED
    BY Zenon, <1>4, <2>1, <2>2
<1>8. Mutex'
  BY Zenon, <1>4, <1>6, <1>7 DEF Mutex
<1> QED
  BY Zenon, <1>2, <1>5, <1>8, TypePartsNext

\* Every step keeps the types.
LEMMA TypeStep ==
    ASSUME TypeInv, [Next]_vars
    PROVE  TypeInv'
<1>1. CASE UNCHANGED vars
  BY Zenon, <1>1, TypeParts, TypePartsNext DEF vars, tables, memory, StoreOK, CallShape, Mutex
<1>2. ASSUME NEW a \in Accounts, LockoutExpires(a) PROVE TypeInv'
  <2>1. StoreOK'
    BY Zenon, <1>2, TypeParts DEF LockoutExpires, memory, StoreOK
  <2>2. CallShape' /\ Mutex'
    BY Zenon, <1>2 DEF LockoutExpires, memory, TypeInv, CallShape, Mutex
  <2> QED
    BY Zenon, <2>1, <2>2, TypePartsNext
<1>3. ASSUME NEW c \in Clients, Commit(c) PROVE TypeInv'
  BY Zenon, <1>3, CommitCases, TypeCommitted, TypeRolledBack
<1> QED
  BY Zenon, <1>1, <1>2, <1>3, TypeCall, TypeEnter, TypeDecide, TypeRestart DEF Next

\* Every reachable state of the tables, the processes and the calls in progress is well typed,
\* and a call holds the mutex of its process from s.mu.Lock to its return.
THEOREM TypeCorrect == Spec => []TypeOK
<1>1. Init => TypeInv
  BY Zenon, TypeInit
<1>2. TypeInv /\ [Next]_vars => TypeInv'
  BY Zenon, TypeStep
<1>3. TypeInv => TypeOK
  BY Zenon DEF TypeInv
<1> QED
  BY <1>1, <1>2, <1>3, PTL DEF Spec

-----------------------------------------------------------------------------
(* The sum of the postings.  PostedTo is a recursive function; that it does  *)
(* what its definition says is shown with the smallest number at which it    *)
(* would not.                                                                *)

\* A set of naturals has a smallest element.
LEMMA Smallest ==
    ASSUME NEW T \in SUBSET Nat, T # {}
    PROVE  \E m \in T : \A k \in T : m <= k
<1> DEFINE R == OpToRel(<, Nat)
<1>1. \A j, k \in Nat : j < k => <<j, k>> \in R
  BY Zenon DEF OpToRel
<1>2. IsWellFoundedOn(R, Nat)
  BY Zenon, NatLessThanWellFounded
<1> HIDE DEF R
<1>3. PICK m \in T : \A k \in T : ~(<<k, m>> \in R)
  BY Zenon, <1>2, WFMin
<1>4. \A k \in T : ~(k < m)
  BY Zenon, <1>1, <1>3
<1> QED
  BY <1>4

Posting == [txID : TxIds, debited : AllAccounts, credited : AllAccounts, amount : Nat \ {0}]

\* f holds the sums of the first 0, 1, ..., n postings for account a.
Follows(s, a, n, f) ==
    \A k \in 0..n : f[k] = IF k = 0 THEN 0 ELSE f[k - 1] + Posted(s[k], a)

Sums(s, a, n, f) == f \in [0..n -> Int] /\ Follows(s, a, n, f)

Agree(s, t, n) == \A k \in 1..n : s[k] = t[k]

LEMMA PostedType ==
    ASSUME NEW s \in Seq(Posting), NEW a, NEW k \in 1..Len(s)
    PROVE  Posted(s[k], a) \in Int
<1>1. s[k] \in Posting
  OBVIOUS
<1>2. s[k].amount \in Int
  BY <1>1 DEF Posting
<1> QED
  BY <1>2 DEF Posted

LEMMA SumsExist ==
    ASSUME NEW s \in Seq(Posting), NEW a, NEW n \in 0..Len(s)
    PROVE  \E f : Sums(s, a, n, f)
<1> DEFINE T == {m \in 0..Len(s) : ~\E f : Sums(s, a, m, f)}
<1>1. SUFFICES ASSUME T # {} PROVE FALSE
  BY Zenon
<1>2. T \in SUBSET Nat
  OBVIOUS
<1>3. PICK m \in T : \A k \in T : m <= k
  BY Zenon, <1>1, <1>2, Smallest
<1>4. Sums(s, a, 0, [k \in 0..0 |-> 0])
  BY DEF Sums, Follows
<1>5. m # 0 /\ m \in 1..Len(s) /\ m - 1 \in 0..Len(s)
  BY <1>3, <1>4
<1>6. m - 1 \notin T
  BY <1>3, <1>5
<1>7. PICK f : Sums(s, a, m - 1, f)
  BY Zenon, <1>5, <1>6
<1>8. Posted(s[m], a) \in Int
  BY Zenon, <1>5, PostedType
<1> DEFINE g == [k \in 0..m |-> IF k = m THEN f[m - 1] + Posted(s[m], a) ELSE f[k]]
<1>9. f \in [0..(m - 1) -> Int] /\ f[m - 1] \in Int
  BY <1>5, <1>7 DEF Sums, Follows
<1>10. g \in [0..m -> Int]
  BY <1>5, <1>8, <1>9
<1>11. ASSUME NEW k \in 0..m PROVE g[k] = IF k = 0 THEN 0 ELSE g[k - 1] + Posted(s[k], a)
  <2>1. CASE k = m
    BY <1>5, <2>1
  <2>2. CASE k # m
    <3>1. k \in 0..(m - 1) /\ g[k] = f[k] /\ (k # 0 => g[k - 1] = f[k - 1])
      BY <1>5, <2>2
    <3> QED
      BY Zenon, <3>1, <1>7 DEF Sums, Follows
  <2> QED
    BY Zenon, <2>1, <2>2
<1>12. Sums(s, a, m, g)
  BY Zenon, <1>10, <1>11 DEF Sums, Follows
<1> QED
  BY Zenon, <1>3, <1>12

\* Sums of sequences that agree agree.
LEMMA SumsUnique ==
    ASSUME NEW s, NEW t, NEW a, NEW n \in Nat, NEW f, NEW g,
           Agree(s, t, n), Follows(s, a, n, f), Follows(t, a, n, g)
    PROVE  \A k \in 0..n : f[k] = g[k]
<1> DEFINE T == {k \in 0..n : f[k] # g[k]}
<1>1. SUFFICES ASSUME T # {} PROVE FALSE
  BY Zenon
<1>2. T \in SUBSET Nat
  OBVIOUS
<1>3. PICK m \in T : \A k \in T : m <= k
  BY Zenon, <1>1, <1>2, Smallest
<1>4. m # 0
  BY Zenon, <1>3 DEF Follows
<1>5. m - 1 \in 0..n /\ m - 1 \notin T /\ m \in 1..n
  BY <1>3, <1>4
<1>6. f[m - 1] = g[m - 1] /\ s[m] = t[m]
  BY Zenon, <1>5 DEF Agree
<1> QED
  BY Zenon, <1>3, <1>4, <1>5, <1>6 DEF Follows

\* PostedTo is the last of the sums.
LEMMA PostedToSums ==
    ASSUME NEW s \in Seq(Posting), NEW a, NEW f, Sums(s, a, Len(s), f)
    PROVE  PostedTo(s, a) = f[Len(s)]
<1> DEFINE Def(g) == g = [n \in 0..Len(s) |-> IF n = 0 THEN 0 ELSE g[n - 1] + Posted(s[n], a)]
           h == CHOOSE g : Def(g)
<1>1. PostedTo(s, a) = h[Len(s)]
  BY Zenon DEF PostedTo
<1>2. Def(f)
  BY Zenon DEF Sums, Follows
<1>3. Def(h)
  BY Zenon, <1>2
<1>4. Follows(s, a, Len(s), h)
  BY Zenon, <1>3 DEF Follows
<1> HIDE DEF h
<1>5. Len(s) \in Nat /\ Len(s) \in 0..Len(s) /\ Agree(s, s, Len(s))
  BY DEF Agree
<1>6. \A k \in 0..Len(s) : f[k] = h[k]
  BY <1>4, <1>5, SumsUnique DEF Sums
<1> QED
  BY Zenon, <1>1, <1>5, <1>6

\* A new posting adds what it says to the sum.
LEMMA PostedToAppend ==
    ASSUME NEW s \in Seq(Posting), NEW e \in Posting, NEW a
    PROVE  /\ PostedTo(Append(s, e), a) = PostedTo(s, a) + Posted(e, a)
           /\ PostedTo(s, a) \in Int
<1> DEFINE t == Append(s, e)
<1>1. /\ t \in Seq(Posting) /\ Len(t) = Len(s) + 1 /\ t[Len(s) + 1] = e /\ Len(s) \in Nat
      /\ Len(s) \in 0..Len(s) /\ Len(t) \in 0..Len(t)
  OBVIOUS
<1>2. Agree(s, t, Len(s))
  BY DEF Agree
<1> HIDE DEF t
<1>3. PICK f : Sums(s, a, Len(s), f)
  BY Zenon, <1>1, SumsExist
<1>4. PICK g : Sums(t, a, Len(t), g)
  BY Zenon, <1>1, SumsExist
<1>5. Follows(t, a, Len(s), g)
  BY <1>1, <1>4 DEF Sums, Follows
<1>6. f[Len(s)] = g[Len(s)]
  <2>1. \A k \in 0..Len(s) : f[k] = g[k]
    BY <1>1, <1>2, <1>3, <1>5, SumsUnique DEF Sums
  <2> QED
    BY Zenon, <1>1, <2>1
<1>7. g[Len(s) + 1] = g[Len(s)] + Posted(e, a)
  BY <1>1, <1>4 DEF Sums, Follows
<1>8. f[Len(s)] \in Int
  BY Zenon, <1>1, <1>3 DEF Sums
<1> QED
  BY Zenon, <1>1, <1>3, <1>4, <1>6, <1>7, <1>8, PostedToSums DEF t

-----------------------------------------------------------------------------
(* The books.                                                                *)

\* Only a commit touches the books.
LEMMA BooksKept ==
    ASSUME [Next]_vars
    PROVE  UNCHANGED Books \/ \E c \in Clients : Committed(c)
<1>1. CASE UNCHANGED vars
  BY Zenon, <1>1 DEF vars, tables, Books
<1>2. ASSUME NEW c \in Clients, Commit(c)
      PROVE  UNCHANGED Books \/ \E d \in Clients : Committed(d)
  BY Zenon, <1>2, CommitCases DEF RolledBack
<1>3. ASSUME NEW c \in Clients, NEW p \in Processes, NEW r \in Requests, Call(c, p, r)
      PROVE  UNCHANGED Books
  BY Zenon, <1>3 DEF Call, tables, Books
<1>4. ASSUME NEW c \in Clients, Enter(c) \/ Decide(c) PROVE UNCHANGED Books
  BY Zenon, <1>4 DEF Enter, Decide, Books
<1>5. ASSUME NEW p \in Processes, Restart(p) PROVE UNCHANGED Books
  BY Zenon, <1>5 DEF Restart, tables, Books
<1>6. ASSUME NEW a \in Accounts, LockoutExpires(a) PROVE UNCHANGED Books
  BY Zenon, <1>6 DEF LockoutExpires, Books
<1> QED
  BY Zenon, <1>1, <1>2, <1>3, <1>4, <1>5, <1>6 DEF Next

\* The sum of no postings is zero.
LEMMA PostedToNothing == ASSUME NEW a PROVE PostedTo(<<>>, a) = 0
<1>1. <<>> \in Seq(Posting) /\ Len(<<>>) = 0
  OBVIOUS
<1>2. Sums(<<>>, a, 0, [k \in 0..0 |-> 0])
  BY DEF Sums, Follows
<1> QED
  BY <1>1, <1>2, PostedToSums

\* What a commit does to the balances is what its postings say.
LEMMA BalancesStep ==
    ASSUME TypeInv, PostingsExplainBalances, NEW c \in Clients, Committed(c)
    PROVE  PostingsExplainBalances'
<1> DEFINE r == call[c].request
           n == call[c].amount
           e == Postings(call[c].txID, r, n)
<1>1. r \in Requests /\ call[c].txID \in TxIds /\ n \in Nat \ {0}
  BY Zenon, CallFields DEF Committed, TypeInv
<1>2. Debited(r) \in AllAccounts /\ Credited(r) \in AllAccounts
  BY Zenon, <1>1, RequestFields
<1>3. e \in Posting /\ e.debited = Debited(r) /\ e.credited = Credited(r) /\ e.amount = n
  BY Zenon, <1>1, <1>2 DEF Postings, Posting
<1>4. balance \in [AllAccounts -> Int] /\ ledgerPostings \in Seq(Posting)
  BY Zenon, TypeParts DEF StoreOK, Posting
<1>5. ledgerPostings' = Append(ledgerPostings, e)
  BY Zenon DEF Committed
<1>6. ASSUME NEW a \in AllAccounts PROVE balance'[a] = balance[a] + Posted(e, a)
  <2>1. balance'[a] = balance[a] - (IF a = Debited(r) THEN n ELSE 0)
                                 + (IF a = Credited(r) THEN n ELSE 0)
    BY Zenon DEF Committed, AdjustBalances
  <2>2. Posted(e, a) = (IF Credited(r) = a THEN n ELSE 0) - (IF Debited(r) = a THEN n ELSE 0)
    BY Zenon, <1>3 DEF Posted
  <2>3. balance[a] \in Int /\ n \in Int
    BY <1>1, <1>4
  <2> HIDE DEF r, n, e
  <2> QED
    BY <2>1, <2>2, <2>3
<1>7. ASSUME NEW a \in AllAccounts
      PROVE  balance'[a] = PostedTo(ledgerPostings', a) + (IF a \in {House, Escrow} THEN Float ELSE 0)
  <2>1. /\ PostedTo(ledgerPostings', a) = PostedTo(ledgerPostings, a) + Posted(e, a)
        /\ PostedTo(ledgerPostings, a) \in Int
    BY Zenon, <1>3, <1>4, <1>5, PostedToAppend
  <2>2. balance[a] = PostedTo(ledgerPostings, a) + (IF a \in {House, Escrow} THEN Float ELSE 0)
    BY Zenon DEF PostingsExplainBalances
  <2>3. Posted(e, a) \in Int
    BY <1>1, <1>3 DEF Posted
  <2>4. Float \in Nat /\ balance[a] \in Int
    BY Zenon, <1>4, ConstantsAssumption
  <2> HIDE DEF e
  <2> QED
    BY <1>6, <2>1, <2>2, <2>3, <2>4
<1> QED
  BY Zenon, <1>7 DEF PostingsExplainBalances

\* Every balance in ledger_accounts, those of the house accounts included, is what the rows of
\* ledger_postings add up to, whatever calls fail, processes die or transaction numbers are
\* drawn twice (persistLedgerMutation).
THEOREM BalancesExplained == Spec => []PostingsExplainBalances
<1>1. Init => TypeInv /\ PostingsExplainBalances
  <2>1. ASSUME Init PROVE PostingsExplainBalances
    BY <2>1, PostedToNothing, ConstantsAssumption DEF Init, PostingsExplainBalances
  <2> QED
    BY Zenon, <2>1, TypeInit
<1>2. TypeInv /\ PostingsExplainBalances /\ [Next]_vars => TypeInv' /\ PostingsExplainBalances'
  <2>1. ASSUME PostingsExplainBalances, UNCHANGED Books PROVE PostingsExplainBalances'
    BY Zenon, <2>1 DEF PostingsExplainBalances, Books
  <2> QED
    BY Zenon, <2>1, TypeStep, BooksKept, BalancesStep
<1> QED
  BY <1>1, <1>2, PTL DEF Spec

-----------------------------------------------------------------------------
(* How often a request is applied.                                           *)

\* Request i has a row in ledger_transactions.
Recorded(i) == \E t \in TxIds : ledgerTransactions[t] # None /\ Id(ledgerTransactions[t]) = i

\* Every transaction number has been committed once at most.
NoReuse ==
    \A j, k \in 1..Len(ledgerPostings) : ledgerPostings[j].txID = ledgerPostings[k].txID => j = k

\* A row is of a request that was applied, and has its postings.
RowsSound ==
    /\ \A i \in Ids : Recorded(i) => applied[i] > 0
    /\ \A t \in TxIds : ledgerTransactions[t] # None =>
           \E j \in 1..Len(ledgerPostings) : ledgerPostings[j].txID = t

\* Without reuse a request that was applied has its row, and was applied once.
OnceWithoutReuse ==
    NoReuse => \A i \in Ids : applied[i] <= 1 /\ (applied[i] > 0 => Recorded(i))

CacheSound == \A p \in Processes, i \in Ids : cache[p][i] = "OK" => applied[i] > 0

AppliedInv == RowsSound /\ OnceWithoutReuse /\ CacheSound

\* The effect of a commit on the tables.
LEMMA CommitEffect ==
    ASSUME TypeInv, NEW c \in Clients, Committed(c)
    PROVE  /\ call[c].request \in Requests /\ Id(call[c].request) \in Ids /\ call[c].txID \in TxIds
           /\ applied' = [applied EXCEPT ![Id(call[c].request)] = applied[Id(call[c].request)] + 1]
           /\ \A t \in TxIds : ledgerTransactions[t] # None =>
                  ledgerTransactions'[t] = ledgerTransactions[t]
           /\ \A t \in TxIds \ {call[c].txID} : ledgerTransactions'[t] = ledgerTransactions[t]
           /\ ledgerTransactions[call[c].txID] = None =>
                  /\ ledgerTransactions'[call[c].txID] # None
                  /\ Id(ledgerTransactions'[call[c].txID]) = Id(call[c].request)
                  /\ ~Recorded(Id(call[c].request))
           /\ Len(ledgerPostings') = Len(ledgerPostings) + 1 /\ Len(ledgerPostings) \in Nat
           /\ ledgerPostings'[Len(ledgerPostings) + 1].txID = call[c].txID
           /\ \A j \in 1..Len(ledgerPostings) : ledgerPostings'[j] = ledgerPostings[j]
<1> DEFINE r == call[c].request
           t == call[c].txID
           n == call[c].amount
           row == [op |-> r.op, account |-> r.account, key |-> r.key, amount |-> n]
<1>1. r \in Requests /\ t \in TxIds /\ n \in Nat \ {0} /\ Id(r) \in Ids
  BY Zenon, CallFields, RequestFields DEF Committed, TypeInv
<1>2. row \in Row /\ Id(row) = Id(r)
  BY Zenon, <1>1, RequestFields DEF Row, Id
<1>3. row # None
  BY Zenon, <1>2, ValuesAssumption
<1>4. StoreOK
  BY Zenon, TypeParts
<1>5. ledgerTransactions' = [ledgerTransactions EXCEPT ![t] =
          IF ledgerTransactions[t] = None THEN row ELSE ledgerTransactions[t]]
  BY Zenon DEF Committed, InsertTransaction
<1>6. ledgerTransactions[t] = None => ~Recorded(Id(r))
  BY Zenon DEF Committed, UniqueViolation, Recorded
<1>7. applied' = [applied EXCEPT ![Id(r)] = applied[Id(r)] + 1]
  BY Zenon DEF Committed
<1>8. ledgerPostings' = Append(ledgerPostings, Postings(t, r, n))
  BY Zenon DEF Committed
<1>9. Postings(t, r, n).txID = t
  BY Zenon DEF Postings
<1>10. /\ Len(ledgerPostings') = Len(ledgerPostings) + 1 /\ Len(ledgerPostings) \in Nat
       /\ ledgerPostings'[Len(ledgerPostings) + 1].txID = t
       /\ \A j \in 1..Len(ledgerPostings) : ledgerPostings'[j] = ledgerPostings[j]
  BY <1>4, <1>8, <1>9 DEF StoreOK
<1>11. /\ \A u \in TxIds : ledgerTransactions[u] # None => ledgerTransactions'[u] = ledgerTransactions[u]
       /\ \A u \in TxIds \ {t} : ledgerTransactions'[u] = ledgerTransactions[u]
       /\ ledgerTransactions[t] = None => ledgerTransactions'[t] = row
  BY Zenon, <1>1, <1>4, <1>5 DEF StoreOK
<1> HIDE DEF row
<1> QED
  BY Zenon, <1>1, <1>2, <1>3, <1>6, <1>7, <1>10, <1>11

\* A commit keeps the record of what was applied.
LEMMA AppliedCommit ==
    ASSUME TypeInv, AppliedInv, NEW c \in Clients, Committed(c)
    PROVE  AppliedInv'
<1> DEFINE q == Id(call[c].request)
           t == call[c].txID
<1>0. applied \in [Ids -> Nat]
  BY Zenon, TypeParts DEF StoreOK
<1>1. /\ q \in Ids /\ t \in TxIds
      /\ applied' = [applied EXCEPT ![q] = applied[q] + 1]
      /\ \A u \in TxIds : ledgerTransactions[u] # None => ledgerTransactions'[u] = ledgerTransactions[u]
      /\ \A u \in TxIds \ {t} : ledgerTransactions'[u] = ledgerTransactions[u]
      /\ ledgerTransactions[t] = None =>
             /\ ledgerTransactions'[t] # None /\ Id(ledgerTransactions'[t]) = q
             /\ ~Recorded(q)
      /\ Len(ledgerPostings') = Len(ledgerPostings) + 1 /\ Len(ledgerPostings) \in Nat
      /\ ledgerPostings'[Len(ledgerPostings) + 1].txID = t
      /\ \A j \in 1..Len(ledgerPostings) : ledgerPostings'[j] = ledgerPostings[j]
  BY Zenon, CommitEffect
<1> HIDE DEF q, t
<1>2. \A i \in Ids : applied'[i] = IF i = q THEN applied[i] + 1 ELSE applied[i]
  BY Zenon, <1>0, <1>1
<1>3. \A i \in Ids : applied[i] \in Nat
  BY Zenon, <1>0
<1>4. ASSUME NEW i \in Ids, Recorded(i)' PROVE Recorded(i) \/ (i = q /\ ledgerTransactions[t] = None)
  <2>1. PICK u \in TxIds : ledgerTransactions'[u] # None /\ Id(ledgerTransactions'[u]) = i
    BY Zenon, <1>4 DEF Recorded
  <2> QED
    BY Zenon, <1>1, <2>1 DEF Recorded
<1>5. ASSUME NEW i \in Ids, Recorded(i) PROVE Recorded(i)'
  <2>1. PICK u \in TxIds : ledgerTransactions[u] # None /\ Id(ledgerTransactions[u]) = i
    BY Zenon, <1>5 DEF Recorded
  <2>2. ledgerTransactions'[u] = ledgerTransactions[u]
    BY Zenon, <1>1, <2>1
  <2> QED
    BY Zenon, <2>1, <2>2 DEF Recorded
<1>6. RowsSound'
  <2>1. ASSUME NEW i \in Ids, Recorded(i)' PROVE applied'[i] > 0
    BY <1>2, <1>3, <1>4, <2>1 DEF AppliedInv, RowsSound
  <2>2. ASSUME NEW u \in TxIds, ledgerTransactions'[u] # None
        PROVE  \E j \in 1..Len(ledgerPostings') : ledgerPostings'[j].txID = u
    <3>1. CASE u = t
      <4>1. Len(ledgerPostings) + 1 \in 1..Len(ledgerPostings')
        BY <1>1
      <4> QED
        BY Zenon, <1>1, <3>1, <4>1
    <3>2. CASE u # t
      <4>1. PICK j \in 1..Len(ledgerPostings) : ledgerPostings[j].txID = u
        BY Zenon, <1>1, <2>2, <3>2 DEF AppliedInv, RowsSound
      <4>2. j \in 1..Len(ledgerPostings') /\ ledgerPostings'[j] = ledgerPostings[j]
        BY <1>1
      <4> QED
        BY Zenon, <4>1, <4>2
    <3> QED
      BY Zenon, <3>1, <3>2
  <2> QED
    BY Zenon, <2>1, <2>2 DEF RowsSound
<1>7. OnceWithoutReuse'
  <2>1. SUFFICES ASSUME NoReuse', NEW i \in Ids
                 PROVE  applied'[i] <= 1 /\ (applied'[i] > 0 => Recorded(i)')
    BY Zenon DEF OnceWithoutReuse
  <2>2. NoReuse
    <3>1. ASSUME NEW j \in 1..Len(ledgerPostings), NEW k \in 1..Len(ledgerPostings),
                 ledgerPostings[j].txID = ledgerPostings[k].txID
          PROVE  j = k
      <4>1. j \in 1..Len(ledgerPostings') /\ k \in 1..Len(ledgerPostings')
        BY <1>1
      <4>2. ledgerPostings'[j].txID = ledgerPostings'[k].txID
        BY Zenon, <1>1, <3>1
      <4> QED
        BY Zenon, <2>1, <4>1, <4>2 DEF NoReuse
    <3> QED
      BY Zenon, <3>1 DEF NoReuse
  <2>3. ledgerTransactions[t] = None
    <3>1. SUFFICES ASSUME ledgerTransactions[t] # None PROVE FALSE
      BY Zenon
    <3>2. PICK j \in 1..Len(ledgerPostings) : ledgerPostings[j].txID = t
      BY Zenon, <1>1, <3>1 DEF AppliedInv, RowsSound
    <3>3. /\ j \in 1..Len(ledgerPostings') /\ Len(ledgerPostings) + 1 \in 1..Len(ledgerPostings')
          /\ ledgerPostings'[j].txID = t /\ j # Len(ledgerPostings) + 1
      BY <1>1, <3>2
    <3> QED
      BY Zenon, <1>1, <2>1, <3>3 DEF NoReuse
  <2>4. i = q => ~Recorded(i) /\ Recorded(i)'
    BY Zenon, <1>1, <2>3 DEF Recorded
  <2>5. applied[i] <= 1 /\ (applied[i] > 0 => Recorded(i))
    BY Zenon, <2>2 DEF AppliedInv, OnceWithoutReuse
  <2> QED
    BY <1>2, <1>3, <1>5, <2>4, <2>5
<1>8. CacheSound'
  <2>1. cache' = cache
    BY Zenon DEF Committed
  <2> QED
    BY <1>2, <1>3, <2>1 DEF AppliedInv, CacheSound
<1> QED
  BY Zenon, <1>6, <1>7, <1>8 DEF AppliedInv

\* An answer enters a cache only if its request has been recorded or was in it already.
LEMMA CacheStep ==
    ASSUME TypeInv, [Next]_vars, NEW p \in Processes, NEW i \in Ids, cache'[p][i] = "OK"
    PROVE  cache[p][i] = "OK" \/ Recorded(i)
<1>0. cache \in [Processes -> [Ids -> {"OK", None}]]
  BY Zenon, TypeParts DEF StoreOK
<1>1. ASSUME NEW c \in Clients, Enter(c) PROVE cache[p][i] = "OK" \/ Recorded(i)
  <2> DEFINE s == call[c].process
             r == call[c].request
  <2>1. s \in Processes /\ r \in Requests /\ Id(r) \in Ids
    BY Zenon, <1>1, CallFields, RequestFields DEF Enter, TypeInv
  <2>2. CASE UNCHANGED cache
    BY Zenon, <2>2
  <2>3. CASE /\ cache[s][Id(r)] # None \/ findTransactionByIdempotency(r)
             /\ cache' = [cache EXCEPT ![s][Id(r)] = "OK"]
    <3>1. CASE p = s /\ i = Id(r)
      <4>1. cache[s][Id(r)] \in {"OK", None}
        BY Zenon, <1>0, <2>1
      <4> QED
        BY Zenon, <2>3, <3>1, <4>1 DEF findTransactionByIdempotency, Recorded
    <3>2. CASE ~(p = s /\ i = Id(r))
      BY Zenon, <1>0, <2>1, <2>3, <3>2
    <3> QED
      BY Zenon, <3>1, <3>2
  <2> QED
    BY Zenon, <1>1, <2>2, <2>3 DEF Enter
<1>2. ASSUME NEW s \in Processes, Restart(s) PROVE cache[p][i] = "OK"
  BY Zenon, <1>0, <1>2, ValuesAssumption DEF Restart
<1>3. ASSUME NEW c \in Clients, Decide(c) \/ Commit(c) PROVE UNCHANGED cache
  BY Zenon, <1>3 DEF Decide, Commit
<1>4. ASSUME NEW c \in Clients, NEW s \in Processes, NEW r \in Requests, Call(c, s, r)
      PROVE  UNCHANGED cache
  BY Zenon, <1>4 DEF Call, memory
<1>5. ASSUME NEW a \in Accounts, LockoutExpires(a) PROVE UNCHANGED cache
  BY Zenon, <1>5 DEF LockoutExpires, memory
<1>6. CASE UNCHANGED vars
  BY Zenon, <1>6 DEF vars, memory
<1> QED
  BY Zenon, <1>1, <1>2, <1>3, <1>4, <1>5, <1>6 DEF Next

LEMMA AppliedStep ==
    ASSUME TypeInv, AppliedInv, [Next]_vars
    PROVE  AppliedInv'
<1>1. CASE UNCHANGED Books
  <2>1. \A i \in Ids : Recorded(i)' <=> Recorded(i)
    BY Zenon, <1>1 DEF Books, Recorded
  <2>2. RowsSound' /\ OnceWithoutReuse'
    BY Zenon, <1>1, <2>1 DEF AppliedInv, RowsSound, OnceWithoutReuse, NoReuse, Books
  <2>3. CacheSound'
    BY Zenon, <1>1, CacheStep DEF AppliedInv, RowsSound, CacheSound, Books
  <2> QED
    BY Zenon, <2>2, <2>3 DEF AppliedInv
<1> QED
  BY Zenon, <1>1, BooksKept, AppliedCommit

LEMMA AppliedInit == ASSUME Init PROVE AppliedInv
<1>1. \A i \in Ids : ~Recorded(i) /\ applied[i] = 0
  BY Zenon DEF Init, Recorded
<1>2. CacheSound
  BY Zenon, ValuesAssumption DEF Init, CacheSound
<1> QED
  BY <1>1, <1>2 DEF Init, AppliedInv, RowsSound, OnceWithoutReuse

\* A request is applied twice only where a transaction number was committed twice: with distinct
\* numbers the unique index stops every retry, on whichever process it arrives
\* (findTransactionByIdempotency, ux_ledger_transactions_idempotency).
THEOREM ReuseIsTheOnlyWay == Spec => []AppliedTwiceOnlyOnReuse
<1>1. Init => TypeInv /\ AppliedInv
  BY Zenon, TypeInit, AppliedInit
<1>2. TypeInv /\ AppliedInv /\ [Next]_vars => TypeInv' /\ AppliedInv'
  BY Zenon, TypeStep, AppliedStep
<1>3. TypeInv /\ AppliedInv => AppliedTwiceOnlyOnReuse
  <2>1. SUFFICES ASSUME TypeInv, AppliedInv, NEW i \in Ids, applied[i] > 1
                 PROVE  ~NoReuse
    BY Zenon DEF AppliedTwiceOnlyOnReuse, NoReuse
  <2>2. applied[i] \in Nat
    BY Zenon, <2>1, TypeParts DEF StoreOK
  <2> QED
    BY <2>1, <2>2 DEF AppliedInv, OnceWithoutReuse
<1> QED
  BY <1>1, <1>2, <1>3, PTL DEF Spec

-----------------------------------------------------------------------------
(* Events come before moves.                                                 *)

SuccessEvents(i) == {n \in 1..MaxAudit : auditEvents[n] = <<"success", i>>}

\* The success event of a call for request i is written, its move is not.
Pending(i) == \E c \in Clients : call[c].pc = "audited" /\ Id(call[c].request) = i

\* While no process has restarted the numbers of the events are those that were drawn, and a
\* call whose event is written has drawn one.  With one numbering a move that was made, or is
\* about to be, has its own event.
EventsFirst ==
    /\ restarts \in Nat
    /\ restarts = 0 =>
           /\ \A n \in 1..MaxAudit : auditEvents[n] # None =>
                  \E p \in Processes : n <= nextAuditID[p]
           /\ \A c \in Clients : call[c].pc = "audited" => nextAuditID[call[c].process] > 0
           /\ OneNumbering => \A i \in Ids :
                  applied[i] + (IF Pending(i) THEN 1 ELSE 0) <= Cardinality(SuccessEvents(i))

\* A step that writes no success event and makes no move
Quiet ==
    /\ restarts' = restarts /\ applied' = applied
    /\ \A p \in Processes : nextAuditID[p] <= nextAuditID'[p]
    /\ \A n \in 1..MaxAudit : auditEvents[n] # None => auditEvents'[n] = auditEvents[n]
    /\ \A n \in 1..MaxAudit : auditEvents'[n] # None =>
           auditEvents[n] # None \/ \E p \in Processes : n <= nextAuditID'[p]
    /\ \A d \in Clients : call'[d].pc = "audited" => call'[d] = call[d]

LEMMA SuccessEventsFinite ==
    ASSUME NEW i
    PROVE  IsFiniteSet(SuccessEvents(i)) /\ Cardinality(SuccessEvents(i)) \in Nat
<1>1. IsFiniteSet(1..MaxAudit)
  BY FS_Interval, ConstantsAssumption
<1>2. SuccessEvents(i) \in SUBSET (1..MaxAudit)
  BY Zenon DEF SuccessEvents
<1> QED
  BY Zenon, <1>1, <1>2, FS_Subset, FS_CardinalityType

\* Events are never overwritten, so that their number does not fall.
LEMMA SuccessEventsGrow ==
    ASSUME NEW i \in Ids,
           \A n \in 1..MaxAudit : auditEvents[n] # None => auditEvents'[n] = auditEvents[n]
    PROVE  /\ Cardinality(SuccessEvents(i)) <= Cardinality(SuccessEvents(i)')
           /\ Cardinality(SuccessEvents(i)) \in Nat /\ Cardinality(SuccessEvents(i)') \in Nat
<1>1. IsFiniteSet(1..MaxAudit)
  BY FS_Interval, ConstantsAssumption
<1>2. SuccessEvents(i)' \in SUBSET (1..MaxAudit)
  BY Zenon DEF SuccessEvents
<1>3. IsFiniteSet(SuccessEvents(i)') /\ Cardinality(SuccessEvents(i)') \in Nat
  BY Zenon, <1>1, <1>2, FS_Subset, FS_CardinalityType
<1>4. <<"success", i>> # None
  BY ValuesAssumption DEF Events
<1>5. SuccessEvents(i) \in SUBSET (SuccessEvents(i)')
  BY Zenon, <1>4 DEF SuccessEvents
<1> QED
  BY Zenon, <1>3, <1>5, FS_Subset, SuccessEventsFinite

\* With one numbering after a step there was one before it.
LEMMA OneNumberingBefore ==
    ASSUME restarts' = restarts, \A p \in Processes : nextAuditID[p] <= nextAuditID'[p],
           TypeInv, TypeInv', OneNumbering'
    PROVE  OneNumbering
<1>1. \A p \in Processes : nextAuditID[p] \in Nat /\ nextAuditID'[p] \in Nat
  BY ConstantsAssumption DEF TypeInv, TypeOK
<1>2. \A p \in Processes : nextAuditID'[p] = 0 => nextAuditID[p] = 0
  BY <1>1
<1> QED
  BY Zenon, <1>2 DEF OneNumbering

LEMMA QuietKeeps ==
    ASSUME TypeInv, TypeInv', EventsFirst, Quiet
    PROVE  EventsFirst'
<1>1. \A p \in Processes : nextAuditID[p] \in Nat /\ nextAuditID'[p] \in Nat
  BY ConstantsAssumption DEF TypeInv, TypeOK
<1>2. restarts' \in Nat
  BY Zenon DEF EventsFirst, Quiet
<1>3. SUFFICES ASSUME restarts' = 0
               PROVE  /\ \A n \in 1..MaxAudit : auditEvents'[n] # None =>
                             \E p \in Processes : n <= nextAuditID'[p]
                      /\ \A c \in Clients : call'[c].pc = "audited" => nextAuditID'[call'[c].process] > 0
                      /\ OneNumbering' => \A i \in Ids :
                             applied'[i] + (IF Pending(i)' THEN 1 ELSE 0)
                                 <= Cardinality(SuccessEvents(i)')
  BY Zenon, <1>2 DEF EventsFirst
<1>4. restarts = 0
  BY Zenon, <1>3 DEF Quiet
<1>5. ASSUME NEW n \in 1..MaxAudit, auditEvents'[n] # None
      PROVE  \E p \in Processes : n <= nextAuditID'[p]
  <2>1. CASE auditEvents[n] # None
    <3>1. PICK p \in Processes : n <= nextAuditID[p]
      BY Zenon, <1>4, <2>1 DEF EventsFirst
    <3>2. n <= nextAuditID'[p]
      BY <1>1, <3>1 DEF Quiet
    <3> QED
      BY Zenon, <3>2
  <2> QED
    BY Zenon, <1>5, <2>1 DEF Quiet
<1>6. ASSUME NEW c \in Clients, call'[c].pc = "audited"
      PROVE  nextAuditID'[call'[c].process] > 0
  <2>1. call'[c] = call[c]
    BY Zenon, <1>6 DEF Quiet
  <2>2. nextAuditID[call[c].process] > 0 /\ call[c].process \in Processes
    BY Zenon, <1>4, <1>6, <2>1, CallFields DEF EventsFirst, TypeInv
  <2> QED
    BY <1>1, <2>1, <2>2 DEF Quiet
<1>7. ASSUME OneNumbering', NEW i \in Ids
      PROVE  applied'[i] + (IF Pending(i)' THEN 1 ELSE 0) <= Cardinality(SuccessEvents(i)')
  <2>1. OneNumbering
    BY Zenon, <1>7, OneNumberingBefore DEF Quiet
  <2>2. Pending(i)' => Pending(i)
    BY Zenon DEF Quiet, Pending
  <2>3. applied'[i] = applied[i] /\ applied[i] \in Nat
    BY Zenon, TypeParts DEF Quiet, StoreOK
  <2>4. applied[i] + (IF Pending(i) THEN 1 ELSE 0) <= Cardinality(SuccessEvents(i))
    BY Zenon, <1>4, <2>1 DEF EventsFirst
  <2>5. /\ Cardinality(SuccessEvents(i)) <= Cardinality(SuccessEvents(i)')
        /\ Cardinality(SuccessEvents(i)) \in Nat /\ Cardinality(SuccessEvents(i)') \in Nat
    BY Zenon, SuccessEventsGrow DEF Quiet
  <2> QED
    BY <2>2, <2>3, <2>4, <2>5
<1> QED
  BY Zenon, <1>5, <1>6, <1>7

\* A success event takes a number of its own while there is one numbering.
LEMMA AppendedKeeps ==
    ASSUME TypeInv, TypeInv', EventsFirst, NEW c \in Clients, call[c].pc = "entered",
           EventAppended(c), restarts' = restarts, applied' = applied
    PROVE  EventsFirst'
<1> DEFINE p == call[c].process
           q == Id(call[c].request)
           m == nextAuditID[p] + 1
<1>1. StoreOK /\ p \in Processes /\ call[c].request \in Requests /\ q \in Ids
  BY Zenon, TypeParts, CallFields, RequestFields DEF TypeInv
<1>2. <<"success", q>> \in Events /\ InsertAudit(p, <<"success", q>>)
  BY Zenon, <1>1 DEF Events, EventAppended
<1>3. /\ m \in 1..MaxAudit /\ nextAuditID' = [nextAuditID EXCEPT ![p] = nextAuditID[p] + 1]
      /\ \A n \in 1..MaxAudit : auditEvents[n] # None => auditEvents'[n] = auditEvents[n]
      /\ \A n \in 1..MaxAudit : n # m => auditEvents'[n] = auditEvents[n]
  BY Zenon, <1>1, <1>2, AuditStep
<1>4. auditEvents[m] = None => auditEvents'[m] = <<"success", q>>
  BY Zenon, <1>1, <1>2, <1>3 DEF InsertAudit, StoreOK
<1>5. \A s \in Processes : nextAuditID[s] \in Nat /\ nextAuditID'[s] \in Nat
  BY ConstantsAssumption DEF TypeInv, TypeOK
<1>6. /\ nextAuditID'[p] = m /\ \A s \in Processes \ {p} : nextAuditID'[s] = nextAuditID[s]
      /\ \A s \in Processes : nextAuditID[s] <= nextAuditID'[s]
  <2>1. nextAuditID \in [Processes -> 0..MaxAudit]
    BY Zenon, <1>1 DEF StoreOK
  <2>2. nextAuditID'[p] = m /\ \A s \in Processes \ {p} : nextAuditID'[s] = nextAuditID[s]
    BY Zenon, <1>1, <1>3, <2>1
  <2>3. \A s \in Processes : nextAuditID[s] <= nextAuditID[s] + 1 /\ nextAuditID[s] <= nextAuditID[s]
    BY <1>5
  <2> QED
    BY Zenon, <2>2, <2>3
<1>7. /\ \A d \in Clients \ {c} : call'[d] = call[d]
      /\ call'[c].pc = "audited" /\ call'[c].process = p /\ Id(call'[c].request) = q
  BY Zenon DEF EventAppended, TypeInv, CallShape
<1> HIDE DEF p, q, m
<1>8. SUFFICES ASSUME restarts' = 0
               PROVE  /\ \A n \in 1..MaxAudit : auditEvents'[n] # None =>
                             \E s \in Processes : n <= nextAuditID'[s]
                      /\ \A d \in Clients : call'[d].pc = "audited" => nextAuditID'[call'[d].process] > 0
                      /\ OneNumbering' => \A i \in Ids :
                             applied'[i] + (IF Pending(i)' THEN 1 ELSE 0)
                                 <= Cardinality(SuccessEvents(i)')
  BY Zenon DEF EventsFirst
<1>9. ASSUME NEW n \in 1..MaxAudit, auditEvents'[n] # None
      PROVE  \E s \in Processes : n <= nextAuditID'[s]
  <2>1. CASE n = m
    BY <1>1, <1>3, <1>6, <2>1
  <2>2. CASE n # m
    <3>1. PICK s \in Processes : n <= nextAuditID[s]
      BY Zenon, <1>3, <1>8, <1>9, <2>2 DEF EventsFirst
    <3>2. n <= nextAuditID'[s]
      BY <1>5, <1>6, <3>1
    <3> QED
      BY Zenon, <3>2
  <2> QED
    BY Zenon, <2>1, <2>2
<1>10. ASSUME NEW d \in Clients, call'[d].pc = "audited" PROVE nextAuditID'[call'[d].process] > 0
  <2>1. CASE d = c
    BY <1>3, <1>6, <1>7, <2>1
  <2>2. CASE d # c
    <3>1. call'[d] = call[d] /\ call[d].process \in Processes /\ nextAuditID[call[d].process] > 0
      BY Zenon, <1>7, <1>8, <1>10, <2>2, CallFields DEF EventsFirst, TypeInv
    <3> QED
      BY <1>5, <1>6, <3>1
  <2> QED
    BY Zenon, <2>1, <2>2
<1>11. ASSUME OneNumbering', NEW i \in Ids
       PROVE  applied'[i] + (IF Pending(i)' THEN 1 ELSE 0) <= Cardinality(SuccessEvents(i)')
  <2>1. OneNumbering
    BY Zenon, <1>6, <1>11, OneNumberingBefore
  <2>2. applied[i] + (IF Pending(i) THEN 1 ELSE 0) <= Cardinality(SuccessEvents(i)) /\ applied[i] \in Nat
    BY Zenon, <1>1, <1>8, <2>1 DEF EventsFirst, StoreOK
  <2>3. /\ Cardinality(SuccessEvents(i)) <= Cardinality(SuccessEvents(i)')
        /\ Cardinality(SuccessEvents(i)) \in Nat /\ Cardinality(SuccessEvents(i)') \in Nat
    BY Zenon, <1>3, SuccessEventsGrow
  <2>4. CASE i # q
    <3>1. Pending(i)' => Pending(i)
      BY Zenon, <1>7, <2>4 DEF Pending
    <3> QED
      BY <2>2, <2>3, <3>1
  <2>5. CASE i = q
    <3>1. auditEvents[m] = None
      <4>1. SUFFICES ASSUME auditEvents[m] # None PROVE FALSE
        BY Zenon
      <4>2. PICK s \in Processes : m <= nextAuditID[s]
        BY Zenon, <1>3, <1>8, <4>1 DEF EventsFirst
      <4>3. m = nextAuditID[p] + 1 /\ m > 0
        BY <1>3 DEF m
      <4>4. s # p
        BY <1>1, <1>5, <4>2, <4>3
      <4>5. nextAuditID'[s] # 0 /\ nextAuditID'[p] # 0
        BY <1>1, <1>5, <1>6, <4>2, <4>3, <4>4
      <4> QED
        BY Zenon, <1>1, <1>11, <4>4, <4>5 DEF OneNumbering
    <3>2. SuccessEvents(i)' = SuccessEvents(i) \cup {m} /\ m \notin SuccessEvents(i)
      <4>1. <<"success", i>> # None
        BY ValuesAssumption DEF Events
      <4> QED
        BY Zenon, <1>3, <1>4, <2>5, <3>1, <4>1 DEF SuccessEvents
    <3>3. Cardinality(SuccessEvents(i)') = Cardinality(SuccessEvents(i)) + 1
      BY Zenon, <3>2, FS_AddElement, SuccessEventsFinite
    <3> QED
      BY <2>2, <2>3, <3>3
  <2> QED
    BY Zenon, <2>4, <2>5
<1> QED
  BY Zenon, <1>9, <1>10, <1>11

\* A commit spends the event of its call, and no other call has one while there is one numbering.
LEMMA CommittedKeeps ==
    ASSUME TypeInv, TypeInv', EventsFirst, NEW c \in Clients, Committed(c)
    PROVE  EventsFirst'
<1> DEFINE q == Id(call[c].request)
<1>1. q \in Ids /\ applied' = [applied EXCEPT ![q] = applied[q] + 1]
  BY Zenon, CommitEffect
<1>2. UNCHANGED <<auditEvents, nextAuditID, restarts>> /\ call[c].pc = "audited"
  BY Zenon DEF Committed
<1>3. /\ \A d \in Clients \ {c} : call'[d] = call[d]
      /\ call'[c].pc \in {"hung", "idle"}
  <2>1. CASE persistIdempotencyResponse(c)
    BY Zenon, <2>1 DEF persistIdempotencyResponse, TypeInv, CallShape
  <2>2. CASE Return(c, "ERROR")
    BY Zenon, <2>2 DEF Return, TypeInv, CallShape
  <2> QED
    BY Zenon, <2>1, <2>2 DEF Committed
<1>4. applied \in [Ids -> Nat]
  BY Zenon, TypeParts DEF StoreOK
<1> HIDE DEF q
<1>5. ASSUME restarts = 0, OneNumbering', NEW i \in Ids
      PROVE  applied'[i] + (IF Pending(i)' THEN 1 ELSE 0) <= Cardinality(SuccessEvents(i)')
  <2>1. OneNumbering
    BY Zenon, <1>2, <1>5 DEF OneNumbering
  <2>2. applied[i] + (IF Pending(i) THEN 1 ELSE 0) <= Cardinality(SuccessEvents(i)) /\ applied[i] \in Nat
    BY Zenon, <1>4, <1>5, <2>1 DEF EventsFirst
  <2>3. Cardinality(SuccessEvents(i)') = Cardinality(SuccessEvents(i)) /\ Cardinality(SuccessEvents(i)) \in Nat
    BY Zenon, <1>2, SuccessEventsFinite DEF SuccessEvents
  <2>4. ~Pending(i)'
    <3>1. SUFFICES ASSUME NEW d \in Clients, call'[d].pc = "audited" PROVE FALSE
      BY Zenon DEF Pending
    <3>2. d # c /\ call[d].pc = "audited"
      BY Zenon, <1>3, <3>1
    <3>3. /\ call[c].process \in Processes /\ call[d].process \in Processes
          /\ mu[call[c].process] = c /\ mu[call[d].process] = d
      BY Zenon, <1>2, <3>2, CallFields DEF TypeInv, Mutex, Holding
    <3>4. nextAuditID[call[c].process] > 0 /\ nextAuditID[call[d].process] > 0
      BY Zenon, <1>2, <1>5, <3>2 DEF EventsFirst
    <3>5. call[c].process = call[d].process
      BY <2>1, <3>3, <3>4 DEF OneNumbering
    <3> QED
      BY Zenon, <3>2, <3>3, <3>5
  <2>5. i = q => Pending(i)
    BY Zenon, <1>2 DEF Pending, q
  <2>6. applied'[i] = IF i = q THEN applied[i] + 1 ELSE applied[i]
    BY Zenon, <1>1, <1>4
  <2> QED
    BY <2>2, <2>3, <2>4, <2>5, <2>6
<1>6. ASSUME restarts = 0, NEW d \in Clients, call'[d].pc = "audited"
      PROVE  nextAuditID'[call'[d].process] > 0
  <2>1. call'[d] = call[d]
    BY Zenon, <1>3, <1>6
  <2> QED
    BY Zenon, <1>2, <1>6, <2>1 DEF EventsFirst
<1> QED
  BY Zenon, <1>2, <1>5, <1>6 DEF EventsFirst

\* The audit appends that are not of a success event
LEMMA DenialQuiet ==
    ASSUME TypeInv, NEW p \in Processes, NEW event \in Events, auditDenied(p, event)
    PROVE  /\ \A s \in Processes : nextAuditID[s] <= nextAuditID'[s]
           /\ \A n \in 1..MaxAudit : auditEvents[n] # None => auditEvents'[n] = auditEvents[n]
           /\ \A n \in 1..MaxAudit : auditEvents'[n] # None =>
                  auditEvents[n] # None \/ \E s \in Processes : n <= nextAuditID'[s]
<1>1. StoreOK
  BY Zenon, TypeParts
<1>2. /\ nextAuditID' = [nextAuditID EXCEPT ![p] = nextAuditID[p] + 1]
      /\ nextAuditID[p] + 1 \in 1..MaxAudit
      /\ \A n \in 1..MaxAudit : auditEvents[n] # None => auditEvents'[n] = auditEvents[n]
      /\ \A n \in 1..MaxAudit : n # nextAuditID[p] + 1 => auditEvents'[n] = auditEvents[n]
  BY Zenon, <1>1, AuditStep
<1>3. \A s \in Processes : nextAuditID[s] \in Nat
  BY <1>1 DEF StoreOK
<1>4. nextAuditID'[p] = nextAuditID[p] + 1 /\ \A s \in Processes \ {p} : nextAuditID'[s] = nextAuditID[s]
  BY Zenon, <1>1, <1>2 DEF StoreOK
<1>5. \A s \in Processes : nextAuditID[s] <= nextAuditID'[s]
  BY <1>3, <1>4
<1>6. ASSUME NEW n \in 1..MaxAudit, auditEvents'[n] # None
      PROVE  auditEvents[n] # None \/ \E s \in Processes : n <= nextAuditID'[s]
  <2>1. CASE n = nextAuditID[p] + 1
    <3>1. n <= nextAuditID'[p]
      BY <1>3, <1>4, <2>1
    <3> QED
      BY Zenon, <3>1
  <2>2. CASE n # nextAuditID[p] + 1
    BY Zenon, <1>2, <1>6, <2>2
  <2> QED
    BY Zenon, <2>1, <2>2
<1> QED
  BY Zenon, <1>2, <1>5, <1>6

LEMMA EventsFirstStep ==
    ASSUME TypeInv, TypeInv', EventsFirst, [Next]_vars
    PROVE  EventsFirst'
<1>1. \A p \in Processes : nextAuditID[p] \in Nat
  BY DEF TypeInv, TypeOK
<1>2. ASSUME UNCHANGED <<nextAuditID, auditEvents, restarts, applied>>,
             \A d \in Clients : call'[d].pc = "audited" => call'[d] = call[d]
      PROVE  EventsFirst'
  <2>1. Quiet
    BY <1>1, <1>2 DEF Quiet
  <2> QED
    BY Zenon, <2>1, QuietKeeps
<1>3. ASSUME NEW c \in Clients, NEW code, Return(c, code)
      PROVE  \A d \in Clients : call'[d].pc = "audited" => call'[d] = call[d]
  BY Zenon, <1>3 DEF Return, TypeInv, CallShape
<1>4. ASSUME NEW c \in Clients, NEW p \in Processes, NEW r \in Requests, Call(c, p, r)
      PROVE  EventsFirst'
  <2>1. \A d \in Clients : call'[d].pc = "audited" => call'[d] = call[d]
    BY Zenon, <1>4 DEF Call, TypeInv, CallShape
  <2> QED
    BY Zenon, <1>2, <1>4, <2>1 DEF Call, tables, memory
<1>5. ASSUME NEW c \in Clients, Enter(c) PROVE EventsFirst'
  <2> DEFINE p == call[c].process
             r == call[c].request
  <2>1. p \in Processes /\ <<"denied", Id(r)>> \in Events
    BY Zenon, <1>5, CallFields, RequestFields DEF Enter, TypeInv, Events
  <2>2. UNCHANGED <<applied, restarts>>
    BY Zenon, <1>5 DEF Enter
  <2>3. CASE \E code \in Codes : Return(c, code) /\ UNCHANGED <<nextAuditID, auditEvents>>
    BY Zenon, <1>2, <1>3, <2>2, <2>3
  <2>4. CASE auditDenied(p, <<"denied", Id(r)>>) /\ Return(c, "DENIED")
    <3>1. Quiet
      BY Zenon, <1>3, <2>1, <2>2, <2>4, DenialQuiet DEF Quiet
    <3> QED
      BY Zenon, <3>1, QuietKeeps
  <2>5. CASE /\ call' = [call EXCEPT ![c].pc = "entered"]
             /\ UNCHANGED <<nextAuditID, auditEvents>>
    <3>1. call[c] \in Underway
      BY Zenon, <1>5 DEF Enter, TypeInv, CallShape, Answered, Prepared
    <3>2. \A d \in Clients : call'[d].pc = "audited" => call'[d] = call[d]
      BY Zenon, <2>5, <3>1 DEF TypeInv, CallShape, Underway
    <3> QED
      BY Zenon, <1>2, <2>2, <2>5, <3>2
  <2> QED
    BY Zenon, <1>5, <2>3, <2>4, <2>5 DEF Enter, Codes
<1>6. ASSUME NEW c \in Clients, Decide(c) PROVE EventsFirst'
  <2> DEFINE p == call[c].process
             r == call[c].request
  <2>1. p \in Processes /\ <<"denied", Id(r)>> \in Events /\ call[c].pc = "entered"
    BY Zenon, <1>6, CallFields, RequestFields DEF Decide, TypeInv, Events
  <2>2. UNCHANGED <<applied, restarts>>
    BY Zenon, <1>6 DEF Decide
  <2>3. CASE Return(c, "ERROR") /\ UNCHANGED <<nextAuditID, auditEvents>>
    BY Zenon, <1>2, <1>3, <2>2, <2>3
  <2>4. CASE auditDenied(p, <<"denied", Id(r)>>) /\ persistIdempotencyResponse(c)
    <3>1. \A d \in Clients : call'[d].pc = "audited" => call'[d] = call[d]
      BY Zenon, <2>4 DEF persistIdempotencyResponse, TypeInv, CallShape
    <3>2. Quiet
      BY Zenon, <2>1, <2>2, <2>4, <3>1, DenialQuiet DEF Quiet
    <3> QED
      BY Zenon, <3>2, QuietKeeps
  <2>5. CASE EventAppended(c)
    BY Zenon, <2>1, <2>2, <2>5, AppendedKeeps
  <2>6. CASE EventLost(c)
    <3>1. \A s \in Processes : nextAuditID[s] <= nextAuditID'[s]
      <4>1. nextAuditID \in [Processes -> 0..MaxAudit]
        BY Zenon, <1>1 DEF TypeInv, TypeOK
      <4>2. nextAuditID' = [nextAuditID EXCEPT ![p] = nextAuditID[p] + 1]
        BY Zenon, <2>6 DEF EventLost
      <4>3. \A s \in Processes : nextAuditID[s] <= nextAuditID[s] + 1 /\ nextAuditID[s] <= nextAuditID[s]
        BY <4>1
      <4> QED
        BY Zenon, <2>1, <4>1, <4>2, <4>3
    <3>2. Quiet
      BY Zenon, <1>3, <2>2, <2>6, <3>1 DEF EventLost, Quiet
    <3> QED
      BY Zenon, <3>2, QuietKeeps
  <2> QED
    BY Zenon, <1>6, <2>3, <2>4, <2>5, <2>6 DEF Decide, EventAppended, EventLost
<1>7. ASSUME NEW c \in Clients, Commit(c) PROVE EventsFirst'
  <2>1. CASE RolledBack(c)
    BY Zenon, <1>2, <1>3, <2>1 DEF RolledBack, Books
  <2> QED
    BY Zenon, <1>7, <2>1, CommitCases, CommittedKeeps
<1>8. ASSUME NEW p \in Processes, Restart(p) PROVE EventsFirst'
  <2>1. restarts \in Nat /\ restarts' = restarts + 1
    BY Zenon, <1>8 DEF Restart, EventsFirst
  <2>2. restarts' \in Nat /\ restarts' # 0
    BY <2>1
  <2> QED
    BY Zenon, <2>2 DEF EventsFirst
<1>9. ASSUME NEW a \in Accounts, LockoutExpires(a) PROVE EventsFirst'
  BY Zenon, <1>2, <1>9 DEF LockoutExpires, memory
<1>10. CASE UNCHANGED vars
  BY Zenon, <1>2, <1>10 DEF vars, tables, memory
<1> QED
  BY Zenon, <1>4, <1>5, <1>6, <1>7, <1>8, <1>9, <1>10 DEF Next

LEMMA EventsFirstInit == ASSUME Init PROVE EventsFirst
<1>1. \A i \in Ids : applied[i] = 0 /\ ~Pending(i)
  BY Zenon DEF Init, Pending, Idle
<1>2. \A i \in Ids : 0 <= Cardinality(SuccessEvents(i))
  BY SuccessEventsFinite
<1> QED
  BY <1>1, <1>2 DEF Init, EventsFirst, Idle

\* A process answers OK from its cache, or from the table, only for a request that was applied;
\* and while audit numbers come from one life of one process every move was preceded by an event
\* of its own, whatever failed in between (appendAuditEventToDB before persistLedgerMutation).
THEOREM OKIsBacked == Spec => []OKMeansApplied
<1>1. Init => TypeInv /\ AppliedInv /\ EventsFirst
  BY Zenon, TypeInit, AppliedInit, EventsFirstInit
<1>2. TypeInv /\ AppliedInv /\ EventsFirst /\ [Next]_vars => TypeInv' /\ AppliedInv' /\ EventsFirst'
  BY Zenon, TypeStep, AppliedStep, EventsFirstStep
<1>3. TypeInv /\ AppliedInv /\ EventsFirst => OKMeansApplied
  <2> SUFFICES ASSUME TypeInv, AppliedInv, EventsFirst PROVE OKMeansApplied
    BY Zenon
  <2>1. \A p \in Processes, i \in Ids : cache[p][i] = "OK" => applied[i] > 0
    BY Zenon DEF AppliedInv, CacheSound
  <2>2. ASSUME OneNumbering, NEW i \in Ids
        PROVE  applied[i] <= Quantify(1..MaxAudit, LAMBDA n : auditEvents[n] = <<"success", i>>)
    <3>1. Quantify(1..MaxAudit, LAMBDA n : auditEvents[n] = <<"success", i>>)
              = Cardinality(SuccessEvents(i))
      BY Zenon DEF Quantify, SuccessEvents
    <3>2. applied[i] + (IF Pending(i) THEN 1 ELSE 0) <= Cardinality(SuccessEvents(i))
      BY Zenon, <2>2 DEF EventsFirst, OneNumbering
    <3>3. applied[i] \in Nat /\ Cardinality(SuccessEvents(i)) \in Nat
      BY Zenon, SuccessEventsFinite, TypeParts DEF StoreOK
    <3>4. applied[i] <= Cardinality(SuccessEvents(i))
      BY <3>2, <3>3
    <3> QED
      BY Zenon, <3>1, <3>4
  <2> QED
    BY Zenon, <2>1, <2>2 DEF OKMeansApplied
<1> QED
  BY <1>1, <1>2, <1>3, PTL DEF Spec

=============================================================================
