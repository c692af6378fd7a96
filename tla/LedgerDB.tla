------------------------------ MODULE LedgerDB ------------------------------
(***************************************************************************)
(* LedgerService over Postgres (ledger_grpc.go, ledger_postgres.go): one or *)
(* more processes share the tables; each holds its s.mu for a whole call,  *)
(* may crash between two statements, and restarts with its counters at     *)
(* zero and its caches empty.                                              *)
(*                                                                         *)
(* The calls are the ones that pass the checks made before the lock (they  *)
(* are in module Ledger), in one currency.  The in-memory mirror is left   *)
(* out: with a database every handler works on what it has just read from  *)
(* it.  So is ledger_idempotency_keys: persistIdempotencyResponse asks for *)
(* the TTL, getIdempotencyTTL takes s.mu, which its caller holds, and the  *)
(* INSERT is never reached; a call that gets there is "hung".              *)
(***************************************************************************)
EXTENDS Integers, Sequences, FiniteSetsExt

CONSTANTS
    Processes,
    Clients,             \* concurrent calls
    Accounts,            \* player accounts
    House,               \* operator_liability
    Escrow,              \* device_escrow
    Device,              \* device_escrow:<a device>
    Float,               \* what House and Escrow hold when the service is deployed
    Keys,
    Amounts,
    MaxFailures,         \* eftFraudMaxFailures
    MaxTx,               \* bound: transaction numbers drawn by one process life
    MaxAudit,            \* bound: audit numbers drawn by one process life
    MaxRestarts,         \* bound: restarts in a behaviour
    MaxPostings,         \* bound: commits in a behaviour
    MaxLost,             \* bound: how many of the first commits may be reported as failed
    Free,                \* no one holds the mutex
    None                 \* no row, no response

ASSUME ConstantsAssumption ==
    /\ Amounts \subseteq Nat \ {0}
    /\ Float \in Nat
    /\ MaxFailures \in Nat \ {0}
    /\ {MaxTx, MaxAudit, MaxRestarts, MaxPostings, MaxLost} \subseteq Nat

VARIABLES
    \* tables
    balance,             \* ledger_accounts.available_balance_minor, 0 without a row
    ledgerTransactions,  \* by transaction number
    ledgerPostings,      \* in posting_id order
    auditEvents,         \* by audit number
    failedAttempts,      \* ledger_eft_lockouts
    lockedOut,           \* locked_until is in the future
    \* memory of the processes
    mu, cache, nextTransactionID, nextAuditID,
    \* the calls in progress, and how often each request has been applied
    call, applied, restarts

tables == <<balance, ledgerTransactions, ledgerPostings, auditEvents, failedAttempts, lockedOut>>
memory == <<mu, cache, nextTransactionID, nextAuditID>>
vars   == <<tables, memory, call, applied, restarts>>

Credits     == {"deposit", "transfer_to_account"}
Debits      == {"withdraw", "transfer_to_device"}
AllAccounts == Accounts \cup {House, Escrow, Device}
TxIds       == 1..MaxTx
Requests    == [op : Credits \cup Debits, account : Accounts, amount : Amounts, key : Keys]
Row         == [op : Credits \cup Debits, account : Accounts, key : Keys, amount : Nat \ {0}]
Ids         == (Credits \cup Debits) \X Accounts \X Keys
Events      == {"success", "denied"} \X Ids
Id(r)       == <<r.op, r.account, r.key>>

ASSUME ValuesAssumption ==
    /\ Free \notin Clients
    /\ None \notin Row \cup Events \cup {"OK"}

Idle == [pc |-> "idle", code |-> "NONE"]

\* Faulty: an early return leaves s.mu locked.
ReturnLocked(c, code) ==
    /\ call' = [call EXCEPT ![c] = [pc |-> "idle", code |-> code]]
    /\ UNCHANGED mu

\* The call returns: s.mu is released and the client has its answer.
Return(c, code) ==
    /\ call' = [call EXCEPT ![c] = [pc |-> "idle", code |-> code]]
    /\ mu' = [mu EXCEPT ![call[c].process] = Free]

\* Waits in getIdempotencyTTL for the lock it holds
persistIdempotencyResponse(c) ==
    /\ call' = [call EXCEPT ![c] = [pc |-> "hung", process |-> @.process, request |-> @.request]]
    /\ UNCHANGED mu

\* The account on the other side of the postings
Counterpart(op) ==
    CASE op \in {"deposit", "withdraw"} -> House
      [] op = "transfer_to_device"      -> Device
      [] op = "transfer_to_account"     -> Escrow

Debited(r)  == IF r.op \in Credits THEN Counterpart(r.op) ELSE r.account
Credited(r) == IF r.op \in Credits THEN r.account ELSE Counterpart(r.op)

\* The two rows of ledger_postings that one commit inserts
Postings(t, r, amount) ==
    [txID |-> t, debited |-> Debited(r), credited |-> Credited(r), amount |-> amount]

-----------------------------------------------------------------------------
(* SQL statements.                                                           *)

\* appendAuditEventToDB: ON CONFLICT (audit_id) DO NOTHING
InsertAudit(p, event) ==
    LET n == nextAuditID[p] + 1 IN
    /\ n <= MaxAudit
    /\ nextAuditID' = [nextAuditID EXCEPT ![p] = n]
    /\ auditEvents' = [auditEvents EXCEPT ![n] = IF @ = None THEN event ELSE @]

\* auditDenied drops the error of the append, which costs only its number.
auditDenied(p, event) ==
    \/ InsertAudit(p, event)
    \/ /\ nextAuditID[p] < MaxAudit
       /\ nextAuditID' = [nextAuditID EXCEPT ![p] = @ + 1]
       /\ UNCHANGED auditEvents

\* Faulty: the lookup ignores the transaction type.
findTransactionOfAnyType(r) ==
    \E t \in TxIds : /\ ledgerTransactions[t] # None
                     /\ ledgerTransactions[t].account = r.account
                     /\ ledgerTransactions[t].key = r.key

\* findTransactionByIdempotency, which TransferToDevice does not call
findTransactionByIdempotency(r) ==
    r.op # "transfer_to_device" /\ \E t \in TxIds :
        ledgerTransactions[t] # None /\ Id(ledgerTransactions[t]) = Id(r)

\* The first failure inserts a row whose locked_until is NULL.
recordEFTFailure(a) ==
    /\ failedAttempts' = [failedAttempts EXCEPT ![a] = @ + 1]
    /\ lockedOut' = [lockedOut EXCEPT ![a] =
           @ \/ (failedAttempts[a] > 0 /\ failedAttempts[a] + 1 >= MaxFailures)]

\* Faulty: the schema has no unique index on (account_id, transaction_type,
\* idempotency_key).
NoUniqueIndex(t, r) == FALSE

\* ux_ledger_transactions_idempotency; a taken transaction number is not an error,
\* ON CONFLICT (transaction_id) DO NOTHING skips the row before any other index
UniqueViolation(t, r) ==
    /\ ledgerTransactions[t] = None
    /\ \E u \in TxIds : ledgerTransactions[u] # None /\ Id(ledgerTransactions[u]) = Id(r)

\* CHECK (available_balance_minor >= 0), on the debited row
CheckViolation(r, amount) == balance[Debited(r)] < amount

InsertTransaction(t, row) ==
    ledgerTransactions' = [ledgerTransactions EXCEPT ![t] = IF @ = None THEN row ELSE @]

\* Faulty: the house account stands in for every counterpart.
AdjustHouse(r, amount) ==
    LET other == IF r.op \in Credits THEN -amount ELSE amount IN
    balance' = [a \in AllAccounts |-> balance[a] + (IF a = r.account THEN -other ELSE 0)
                                                 + (IF a = House THEN other ELSE 0)]

AdjustBalances(r, amount) ==
    balance' = [a \in AllAccounts |-> balance[a] - (IF a = Debited(r) THEN amount ELSE 0)
                                                 + (IF a = Credited(r) THEN amount ELSE 0)]

-----------------------------------------------------------------------------
(* A call.  Between two of its steps other processes work on the tables.     *)

Call(c, p, r) ==
    /\ call[c].pc = "idle"
    /\ call' = [call EXCEPT ![c] = [pc |-> "waiting", process |-> p, request |-> r]]
    /\ UNCHANGED <<tables, memory, applied, restarts>>

\* s.mu.Lock, eftLocked and the lookups of an earlier answer
Enter(c) ==
    LET p == call[c].process
        r == call[c].request
    IN
    /\ call[c].pc = "waiting"
    /\ mu[p] = Free
    /\ \/ Return(c, "ERROR") /\ UNCHANGED <<nextAuditID, auditEvents, cache>>
       \/ /\ lockedOut[r.account]
          /\ auditDenied(p, <<"denied", Id(r)>>)
          /\ Return(c, "DENIED")
          /\ UNCHANGED cache
       \/ /\ ~lockedOut[r.account]
          /\ cache[p][Id(r)] # None \/ findTransactionByIdempotency(r)
          /\ cache' = [cache EXCEPT ![p][Id(r)] = "OK"]
          /\ Return(c, "OK")
          /\ UNCHANGED <<nextAuditID, auditEvents>>
       \/ /\ ~lockedOut[r.account]
          /\ cache[p][Id(r)] = None /\ ~findTransactionByIdempotency(r)
          /\ mu' = [mu EXCEPT ![p] = c]
          /\ call' = [call EXCEPT ![c].pc = "entered"]
          /\ UNCHANGED <<nextAuditID, auditEvents, cache>>
    /\ UNCHANGED <<balance, ledgerTransactions, ledgerPostings, failedAttempts, lockedOut,
                   nextTransactionID, applied, restarts>>

\* The amount a request moves when the account holds available
Moved(r, available) ==
    IF r.op = "transfer_to_device" /\ available < r.amount THEN available ELSE r.amount

Refused(r, available) ==
    \/ r.op = "withdraw" /\ available < r.amount
    \/ r.op = "transfer_to_device" /\ available <= 0

\* mutationAccountState and the decision, up to and including the audit append
Decide(c) ==
    LET p == call[c].process
        r == call[c].request
        available == balance[r.account]
        t == nextTransactionID[p] + 1
    IN
    /\ call[c].pc = "entered"
    /\ \/ /\ Return(c, "ERROR")
          /\ UNCHANGED <<nextTransactionID, nextAuditID, auditEvents, failedAttempts, lockedOut>>
       \/ /\ Refused(r, available)
          /\ recordEFTFailure(r.account)
          /\ auditDenied(p, <<"denied", Id(r)>>)
          /\ persistIdempotencyResponse(c)
          /\ UNCHANGED nextTransactionID
       \/ /\ ~Refused(r, available) /\ t <= MaxTx
          /\ nextTransactionID' = [nextTransactionID EXCEPT ![p] = t]
          /\ \/ /\ InsertAudit(p, <<"success", Id(r)>>)
                /\ call' = [call EXCEPT ![c] =
                       [pc |-> "audited", process |-> p, request |-> r, txID |-> t,
                        amount |-> Moved(r, available)]]
                /\ UNCHANGED mu
             \/ /\ nextAuditID[p] < MaxAudit
                /\ nextAuditID' = [nextAuditID EXCEPT ![p] = @ + 1]
                /\ Return(c, "ERROR")
                /\ UNCHANGED auditEvents
          /\ UNCHANGED <<failedAttempts, lockedOut>>
    /\ UNCHANGED <<balance, ledgerTransactions, ledgerPostings, cache, applied, restarts>>

\* persistLedgerMutation: one database transaction, which may be reported as failed after it
\* took effect, then persistIdempotencyResponse
Commit(c) ==
    LET r == call[c].request
        t == call[c].txID
    IN
    /\ call[c].pc = "audited"
    /\ \/ /\ Return(c, "ERROR")
          /\ UNCHANGED <<balance, ledgerTransactions, ledgerPostings, applied>>
       \/ /\ UniqueViolation(t, r) \/ CheckViolation(r, call[c].amount)
          /\ Return(c, "ERROR")
          /\ UNCHANGED <<balance, ledgerTransactions, ledgerPostings, applied>>
       \/ /\ ~UniqueViolation(t, r) /\ ~CheckViolation(r, call[c].amount)
          /\ Len(ledgerPostings) < MaxPostings
          /\ InsertTransaction(t, [op |-> r.op, account |-> r.account, key |-> r.key,
                                   amount |-> call[c].amount])
          /\ ledgerPostings' = Append(ledgerPostings, Postings(t, r, call[c].amount))
          /\ AdjustBalances(r, call[c].amount)
          /\ applied' = [applied EXCEPT ![Id(r)] = @ + 1]
          /\ \/ persistIdempotencyResponse(c)
             \/ Len(ledgerPostings) < MaxLost /\ Return(c, "ERROR")
    /\ UNCHANGED <<auditEvents, failedAttempts, lockedOut, cache, nextTransactionID,
                   nextAuditID, restarts>>

\* The process dies with its calls, and NewLedgerService starts from nothing.
Restart(p) ==
    /\ restarts < MaxRestarts
    /\ restarts' = restarts + 1
    /\ mu' = [mu EXCEPT ![p] = Free]
    /\ cache' = [cache EXCEPT ![p] = [i \in Ids |-> None]]
    /\ nextTransactionID' = [nextTransactionID EXCEPT ![p] = 0]
    /\ nextAuditID' = [nextAuditID EXCEPT ![p] = 0]
    /\ call' = [c \in Clients |->
           IF call[c].pc # "idle" /\ call[c].process = p THEN Idle ELSE call[c]]
    /\ UNCHANGED <<tables, applied>>

\* locked_until passes
LockoutExpires(a) ==
    /\ lockedOut[a]
    /\ lockedOut' = [lockedOut EXCEPT ![a] = FALSE]
    /\ UNCHANGED <<balance, ledgerTransactions, ledgerPostings, auditEvents, failedAttempts,
                   memory, call, applied, restarts>>

Init ==
    /\ balance = [a \in AllAccounts |-> IF a \in {House, Escrow} THEN Float ELSE 0]
    /\ ledgerTransactions = [t \in TxIds |-> None]
    /\ ledgerPostings = <<>>
    /\ auditEvents = [n \in 1..MaxAudit |-> None]
    /\ failedAttempts = [a \in Accounts |-> 0]
    /\ lockedOut = [a \in Accounts |-> FALSE]
    /\ mu = [p \in Processes |-> Free]
    /\ cache = [p \in Processes |-> [i \in Ids |-> None]]
    /\ nextTransactionID = [p \in Processes |-> 0]
    /\ nextAuditID = [p \in Processes |-> 0]
    /\ call = [c \in Clients |-> Idle]
    /\ applied = [i \in Ids |-> 0]
    /\ restarts = 0

Next ==
    \/ \E c \in Clients :
           \/ \E p \in Processes, r \in Requests : Call(c, p, r)
           \/ Enter(c)
           \/ Decide(c)
           \/ Commit(c)
    \/ \E p \in Processes : Restart(p)
    \/ \E a \in Accounts : LockoutExpires(a)

Spec == Init /\ [][Next]_vars

\* The runtime schedules every goroutine that can run; nobody promises a restart.
FairSpec == Spec /\ \A c \in Clients : WF_vars(Enter(c)) /\ WF_vars(Decide(c)) /\ WF_vars(Commit(c))

-----------------------------------------------------------------------------
(* Properties.                                                               *)

\* The tables have the shape of the migrations, the calls that of the handlers.
TypeOK ==
    /\ balance \in [AllAccounts -> Int]
    /\ ledgerTransactions \in [TxIds -> Row \cup {None}]
    /\ ledgerPostings \in Seq([txID : TxIds, debited : AllAccounts, credited : AllAccounts,
                               amount : Nat \ {0}])
    /\ auditEvents \in [1..MaxAudit -> Events \cup {None}]
    /\ failedAttempts \in [Accounts -> Nat]
    /\ lockedOut \in [Accounts -> BOOLEAN]
    /\ mu \in [Processes -> Clients \cup {Free}]
    /\ cache \in [Processes -> [Ids -> {"OK", None}]]
    /\ nextTransactionID \in [Processes -> 0..MaxTx]
    /\ nextAuditID \in [Processes -> 0..MaxAudit]
    /\ \A c \in Clients : call[c].pc \in {"idle", "waiting", "entered", "audited", "hung"}
    /\ \A c \in Clients : call[c].pc \in {"entered", "audited", "hung"} <=>
           \E p \in Processes : mu[p] = c
    /\ applied \in [Ids -> Nat]

Posted(p, a) == (IF p.credited = a THEN p.amount ELSE 0) - (IF p.debited = a THEN p.amount ELSE 0)

\* What postings add up to for an account
PostedTo(postings, a) ==
    LET sum[n \in 0..Len(postings)] ==
            IF n = 0 THEN 0 ELSE sum[n - 1] + Posted(postings[n], a)
    IN sum[Len(postings)]

\* The postings table explains every balance, those of the house accounts included.
PostingsExplainBalances ==
    \A a \in AllAccounts :
        balance[a] = PostedTo(ledgerPostings, a) + (IF a \in {House, Escrow} THEN Float ELSE 0)

\* Audit numbers have been drawn by one life of one process, so that none was taken.
OneNumbering ==
    /\ restarts = 0
    /\ \A p, q \in Processes : p # q => nextAuditID[p] = 0 \/ nextAuditID[q] = 0

\* A client that is told OK by a process that did not do the work itself is told so
\* of its own request: it has been applied.  And each time a request has been applied its
\* success event was written first, whatever failed in between, unless the event's number
\* was taken.  (The converse fails: an event may report a move that did not commit.)
OKMeansApplied ==
    /\ \A p \in Processes, i \in Ids : cache[p][i] = "OK" => applied[i] > 0
    /\ OneNumbering => \A i \in Ids :
           applied[i] <= Quantify(1..MaxAudit, LAMBDA n : auditEvents[n] = <<"success", i>>)

\* A request is applied twice only where a transaction number was used twice: with
\* distinct numbers the unique index stops a retry, even one racing its original on
\* another process, and even for TransferToDevice, which never looks it up.
AppliedTwiceOnlyOnReuse ==
    (\E i \in Ids : applied[i] > 1) =>
        \E j, k \in 1..Len(ledgerPostings) : j # k /\ ledgerPostings[j].txID = ledgerPostings[k].txID

\* RGS-0102: each request is applied at most once, restarts included.
AppliedAtMostOnce == \A i \in Ids : applied[i] <= 1

\* Every call that reaches the service is answered.
CallsReturn == \A c \in Clients : call[c].pc = "waiting" ~> call[c].pc = "idle"

=============================================================================
