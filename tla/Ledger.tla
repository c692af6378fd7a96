------------------------------- MODULE Ledger -------------------------------
(***************************************************************************)
(* LedgerService without a database (ledger_grpc.go): the accounts map, the *)
(* transactions, the double-entry postings, the four idempotency maps and  *)
(* the EFT fraud lockout.  Every handler runs under s.mu from its lockout  *)
(* check to its return, so one handler call is one step.                   *)
(*                                                                         *)
(* The audit store is modelled by what the handler sees of it: an append   *)
(* succeeds or fails (no store, or a corrupt chain).  auditTrail[a] is the  *)
(* projection of the store on the successful events of account a.  The     *)
(* write of a denied event is best effort: the handler drops its error, so *)
(* it shows only in reply.audit.                                           *)
(*                                                                         *)
(* pending balances and descriptions are left out: no handler writes the   *)
(* first, nothing reads the second.                                        *)
(***************************************************************************)
EXTENDS Integers, Sequences

CONSTANTS
    Accounts,           \* player accounts; a player actor has its account's name
    Strangers,          \* player actors without an account
    Devices,            \* d stands for the account "device_escrow:" + d
    OperatorLiability,  \* the house side of deposits and withdrawals
    DeviceEscrow,       \* the account "device_escrow" TransferToAccount debits
    Operator,           \* an operator or service actor
    Currencies,
    NoCurrency,         \* the empty currency of a malformed request
    Keys,               \* idempotency keys
    NoKey,              \* the empty idempotency key
    Amounts,            \* requested amounts, in minor units
    MaxAmount,          \* bound: the largest of them
    MaxFailures,        \* eftFraudMaxFailures
    LockoutTTL,         \* eftFraudLockoutTTL, in clock ticks
    MaxInt,             \* largest int64
    MaxTx,              \* bound: transaction ids drawn in a behaviour
    MaxTime             \* bound: clock ticks in a behaviour

ASSUME ConstantsAssumption ==
    /\ NoCurrency \notin Currencies
    /\ Strangers \cap (Accounts \cup {Operator}) = {}
    /\ NoKey \notin Keys
    /\ MaxAmount \in Nat
    /\ Amounts \subseteq -MaxAmount..MaxAmount
    /\ MaxFailures \in Nat \ {0}
    /\ LockoutTTL \in Nat \ {0}
    /\ MaxInt \in Nat /\ MaxAmount <= MaxInt
    /\ MaxTx \in Nat
    /\ MaxTime \in Nat

VARIABLES
    currency,            \* accounts[a].currency, NoCurrency: a not in the map
    available,           \* accounts[a].available
    transactionsByAcct,
    postingsByTx,        \* by transaction number, <<>>: no entry
    byIdempotency,       \* the four ...ByIdempotency maps
    nextTransactionID,
    nextTransferID,
    eftFraudFailures,
    eftFraudLockedUntil, \* 0: no entry
    now,
    auditTrail,
    reply                \* what the last call answered and appended to the audit

vars == <<currency, available, transactionsByAcct, postingsByTx, byIdempotency,
          nextTransactionID, nextTransferID, eftFraudFailures,
          eftFraudLockedUntil, now, auditTrail, reply>>

Credits == {"deposit", "transfer_to_account"}
Debits  == {"withdraw", "transfer_to_device"}
Ops     == Credits \cup Debits

Requests == [op : Ops, account : Accounts, actor : Accounts \cup Strangers \cup {Operator},
             amount : Amounts, currency : Currencies \cup {NoCurrency},
             key : Keys \cup {NoKey}]

\* The response of any of the four operations: id is the transaction number, for
\* transfer_to_device the transfer number; amount is the amount moved.
Response == [code : {"OK", "DENIED", "INVALID", "ERROR", "NONE"},
             id : Nat, amount : Int, balance : Int]

NoResponse    == [code |-> "NONE", id |-> 0, amount |-> 0, balance |-> 0]
Refusal(code) == [code |-> code, id |-> 0, amount |-> 0, balance |-> 0]

Ids   == Accounts \X Ops \X Keys
Id(r) == <<r.account, r.op, r.key>>

\* int64 arithmetic, for the sum or difference of two int64 values
Wrap(x) == IF x > MaxInt THEN x - 2 * (MaxInt + 1)
           ELSE IF x < -MaxInt - 1 THEN x + 2 * (MaxInt + 1)
           ELSE x

-----------------------------------------------------------------------------
authorize(r) == r.actor \in {Operator, r.account}

\* Faulty: an empty currency is let through.
invalidAmountOnly(r) == r.amount <= 0

invalidAmount(r) == r.amount <= 0 \/ r.currency = NoCurrency

eftLocked(a) == eftFraudLockedUntil[a] > now

\* The currency of account a once getOrCreateAccount has run for request r
accountCurrency(r) ==
    IF currency[r.account] = NoCurrency THEN r.currency ELSE currency[r.account]

getOrCreateAccount(r) == currency' = [currency EXCEPT ![r.account] = accountCurrency(r)]

recordEFTFailure(a) ==
    /\ eftFraudFailures' = [eftFraudFailures EXCEPT ![a] = @ + 1]
    /\ eftFraudLockedUntil' =
           IF eftFraudFailures[a] + 1 >= MaxFailures
           THEN [eftFraudLockedUntil EXCEPT ![a] = now + LockoutTTL]
           ELSE eftFraudLockedUntil

resetEFTFailures(a) ==
    /\ eftFraudFailures' = [eftFraudFailures EXCEPT ![a] = 0]
    /\ eftFraudLockedUntil' = [eftFraudLockedUntil EXCEPT ![a] = 0]

\* An answer that no retry is held to
Refuse(code, audit) ==
    reply' = [id |-> <<>>, response |-> Refusal(code), audit |-> audit]

Answer(r, response, audit) ==
    reply' = [id |-> <<r.account, r.op, r.key>>, response |-> response, audit |-> audit]

Books  == <<currency, available, transactionsByAcct, postingsByTx, byIdempotency,
            nextTransactionID, nextTransferID, auditTrail>>
Fraud  == <<eftFraudFailures, eftFraudLockedUntil>>

\* Faulty: the lockout is not consulted.
AdmittedLocked(r) == authorize(r) /\ ~invalidAmount(r) /\ r.key # NoKey

\* The account the call is charged against when nothing stops it earlier
Admitted(r) ==
    /\ authorize(r)
    /\ ~invalidAmount(r)
    /\ r.key # NoKey
    /\ ~eftLocked(r.account)

Fresh(r) ==
    /\ Admitted(r)
    /\ byIdempotency[Id(r)] = NoResponse
    /\ accountCurrency(r) = r.currency

-----------------------------------------------------------------------------
(* The early returns the four handlers share, in the order they are tested.  *)

Unauthorized(r, logged) ==
    /\ ~authorize(r)
    /\ Refuse("DENIED", IF logged THEN "denied" ELSE "none")
    /\ UNCHANGED <<Books, Fraud, now>>

Malformed(r) ==
    /\ authorize(r)
    /\ invalidAmount(r) \/ r.key = NoKey
    /\ Refuse("INVALID", "none")
    /\ UNCHANGED <<Books, Fraud, now>>

LockedOut(r, logged) ==
    /\ authorize(r) /\ ~invalidAmount(r) /\ r.key # NoKey
    /\ eftLocked(r.account)
    /\ Refuse("DENIED", IF logged THEN "denied" ELSE "none")
    /\ UNCHANGED <<Books, Fraud, now>>

Replay(r) ==
    /\ Admitted(r)
    /\ byIdempotency[Id(r)] # NoResponse
    /\ Answer(r, byIdempotency[Id(r)], "none")
    /\ UNCHANGED <<Books, Fraud, now>>

CurrencyMismatch(r) ==
    /\ Admitted(r)
    /\ byIdempotency[Id(r)] = NoResponse
    /\ accountCurrency(r) # r.currency
    /\ Refuse("INVALID", "none")
    /\ UNCHANGED <<Books, Fraud, now>>

\* Faulty: only an OK answer is looked up before a denial is remembered.
InsufficientAgain(r, logged) ==
    LET response == [code |-> "DENIED", id |-> 0, amount |-> 0,
                     balance |-> available[r.account]] IN
    /\ Admitted(r) /\ accountCurrency(r) = r.currency
    /\ byIdempotency[Id(r)].code # "OK"
    /\ getOrCreateAccount(r)
    /\ recordEFTFailure(r.account)
    /\ byIdempotency' = [byIdempotency EXCEPT ![Id(r)] = response]
    /\ Answer(r, response, IF logged THEN "denied" ELSE "none")
    /\ UNCHANGED <<available, transactionsByAcct, postingsByTx, nextTransactionID,
                   nextTransferID, now, auditTrail>>

\* A debit the balance does not cover: counted against the lockout, and the
\* denial is remembered under the idempotency key.
Insufficient(r, logged) ==
    LET response == [code |-> "DENIED", id |-> 0, amount |-> 0,
                     balance |-> available[r.account]] IN
    /\ Fresh(r)
    /\ getOrCreateAccount(r)
    /\ recordEFTFailure(r.account)
    /\ byIdempotency' = [byIdempotency EXCEPT ![Id(r)] = response]
    /\ Answer(r, response, IF logged THEN "denied" ELSE "none")
    /\ UNCHANGED <<available, transactionsByAcct, postingsByTx, nextTransactionID,
                   nextTransferID, now, auditTrail>>

-----------------------------------------------------------------------------
(* The mutation every accepted operation makes, and its rollback.            *)

Posting(account, direction, amount) ==
    [account |-> account, direction |-> direction, amount |-> amount]

\* What the handler has changed in memory when it calls appendAudit
Mutated(r, amount, delta, txID, postings) ==
    [available |-> [available EXCEPT ![r.account] = Wrap(@ + delta)],
     transactions |->
         [transactionsByAcct EXCEPT ![r.account] =
             Append(@, [id |-> txID, op |-> r.op, amount |-> amount,
                        currency |-> r.currency])],
     postings |-> [postingsByTx EXCEPT ![txID] = @ \o postings]]

\* Faulty rollbacks: one of the three changes is not undone.
BalanceKept(m, r, delta, txID) ==
    [available |-> m.available,
     transactions |-> [m.transactions EXCEPT ![r.account] = SubSeq(@, 1, Len(@) - 1)],
     postings |-> [m.postings EXCEPT ![txID] = <<>>]]

TransactionKept(m, r, delta, txID) ==
    [available |-> [m.available EXCEPT ![r.account] = Wrap(@ - delta)],
     transactions |-> m.transactions,
     postings |-> [m.postings EXCEPT ![txID] = <<>>]]

\* What is left of it after the handler has undone it
RolledBack(m, r, delta, txID) ==
    [available |-> [m.available EXCEPT ![r.account] = Wrap(@ - delta)],
     transactions |->
         [m.transactions EXCEPT ![r.account] = SubSeq(@, 1, Len(@) - 1)],
     postings |-> [m.postings EXCEPT ![txID] = <<>>]]

Become(m) ==
    /\ available' = m.available
    /\ transactionsByAcct' = m.transactions
    /\ postingsByTx' = m.postings

\* Faulty: the answer reports the requested amount, not the one moved.
AcceptAnswersRequested(r, amount, delta, postings) ==
    LET a == r.account
        txID == nextTransactionID + 1
        m == Mutated(r, amount, delta, txID, postings)
        response == [code |-> "OK", amount |-> r.amount, balance |-> m.available[a], id |-> txID]
    IN
    /\ Fresh(r)
    /\ nextTransactionID < MaxTx
    /\ getOrCreateAccount(r)
    /\ nextTransactionID' = txID
    /\ Become(m)
    /\ auditTrail' = [auditTrail EXCEPT ![a] =
           Append(@, [action |-> r.op, before |-> available[a], after |-> m.available[a]])]
    /\ byIdempotency' = [byIdempotency EXCEPT ![Id(r)] = response]
    /\ resetEFTFailures(a)
    /\ Answer(r, response, "success")
    /\ UNCHANGED <<now, nextTransferID>>

Accept(r, amount, delta, postings) ==
    LET a == r.account
        txID == nextTransactionID + 1
        m == Mutated(r, amount, delta, txID, postings)
        transferID == nextTransferID + 1
        response == [code |-> "OK", amount |-> amount, balance |-> m.available[a],
                     id |-> IF r.op = "transfer_to_device" THEN transferID ELSE txID]
    IN
    /\ Fresh(r)
    /\ nextTransactionID < MaxTx
    /\ getOrCreateAccount(r)
    /\ nextTransactionID' = txID
    /\ Become(m)
    /\ auditTrail' = [auditTrail EXCEPT ![a] =
           Append(@, [action |-> r.op, before |-> available[a], after |-> m.available[a]])]
    /\ nextTransferID' = IF r.op = "transfer_to_device" THEN transferID ELSE nextTransferID
    /\ byIdempotency' = [byIdempotency EXCEPT ![Id(r)] = response]
    /\ resetEFTFailures(a)
    /\ Answer(r, response, "success")
    /\ UNCHANGED now

AuditUnavailable(r, amount, delta, postings) ==
    LET txID == nextTransactionID + 1
        m == Mutated(r, amount, delta, txID, postings)
    IN
    /\ Fresh(r)
    /\ nextTransactionID < MaxTx
    /\ getOrCreateAccount(r)
    /\ nextTransactionID' = txID
    /\ Become(RolledBack(m, r, delta, txID))
    /\ Refuse("ERROR", "none")
    /\ UNCHANGED <<byIdempotency, nextTransferID, Fraud, now, auditTrail>>

-----------------------------------------------------------------------------
(* The four handlers.  ok: the outcome of the audit append the call makes.   *)

Returned(r, ok) ==
    \/ Unauthorized(r, ok)
    \/ Malformed(r)
    \/ LockedOut(r, ok)
    \/ Replay(r)
    \/ CurrencyMismatch(r)

Mutation(r, amount, delta, postings, ok) ==
    \/ ok /\ Accept(r, amount, delta, postings)
    \/ ~ok /\ AuditUnavailable(r, amount, delta, postings)

Deposit(r, ok) ==
    /\ r.op = "deposit"
    /\ \/ Returned(r, ok)
       \/ Mutation(r, r.amount, r.amount,
                   <<Posting(OperatorLiability, "debit", r.amount),
                     Posting(r.account, "credit", r.amount)>>, ok)

Withdraw(r, ok) ==
    /\ r.op = "withdraw"
    /\ \/ Returned(r, ok)
       \/ available[r.account] < r.amount /\ Insufficient(r, ok)
       \/ /\ available[r.account] >= r.amount
          /\ Mutation(r, r.amount, -r.amount,
                      <<Posting(r.account, "debit", r.amount),
                        Posting(OperatorLiability, "credit", r.amount)>>, ok)

TransferToDevice(r, d, ok) ==
    LET transfer == IF available[r.account] < r.amount THEN available[r.account]
                    ELSE r.amount
    IN
    /\ r.op = "transfer_to_device"
    /\ \/ Returned(r, ok)
       \/ available[r.account] <= 0 /\ Insufficient(r, ok)
       \/ /\ available[r.account] > 0
          /\ Mutation(r, transfer, -transfer,
                      <<Posting(r.account, "debit", transfer),
                        Posting(d, "credit", transfer)>>, ok)

TransferToAccount(r, ok) ==
    /\ r.op = "transfer_to_account"
    /\ \/ Returned(r, ok)
       \/ Mutation(r, r.amount, r.amount,
                   <<Posting(DeviceEscrow, "debit", r.amount),
                     Posting(r.account, "credit", r.amount)>>, ok)

\* The clock the service reads
Tick ==
    /\ now < MaxTime
    /\ now' = now + 1
    /\ UNCHANGED <<Books, Fraud, reply>>

Init ==
    /\ currency = [a \in Accounts |-> NoCurrency]
    /\ available = [a \in Accounts |-> 0]
    /\ transactionsByAcct = [a \in Accounts |-> <<>>]
    /\ postingsByTx = [n \in 1..MaxTx |-> <<>>]
    /\ byIdempotency = [i \in Ids |-> NoResponse]
    /\ nextTransactionID = 0
    /\ nextTransferID = 0
    /\ eftFraudFailures = [a \in Accounts |-> 0]
    /\ eftFraudLockedUntil = [a \in Accounts |-> 0]
    /\ now = 0
    /\ auditTrail = [a \in Accounts |-> <<>>]
    /\ reply = [id |-> <<>>, response |-> NoResponse, audit |-> "none"]

Next ==
    \/ \E r \in Requests, ok \in BOOLEAN :
           \/ Deposit(r, ok)
           \/ Withdraw(r, ok)
           \/ \E d \in Devices : TransferToDevice(r, d, ok)
           \/ TransferToAccount(r, ok)
    \/ Tick

Spec == Init /\ [][Next]_vars

-----------------------------------------------------------------------------
(* Properties.                                                               *)

Transaction == [id : 1..MaxTx, op : Ops, amount : Int, currency : Currencies]
PostingSet  == [account : Accounts \cup Devices \cup {OperatorLiability, DeviceEscrow},
                direction : {"debit", "credit"}, amount : Int]
AuditEvent  == [action : Ops, before : Int, after : Int]

\* Every variable has the shape its Go declaration gives it.
TypeOK ==
    /\ currency \in [Accounts -> Currencies \cup {NoCurrency}]
    /\ available \in [Accounts -> Int]
    /\ transactionsByAcct \in [Accounts -> Seq(Transaction)]
    /\ postingsByTx \in [1..MaxTx -> Seq(PostingSet)]
    /\ byIdempotency \in [Ids -> Response]
    /\ nextTransactionID \in 0..MaxTx
    /\ nextTransferID \in Nat
    /\ eftFraudFailures \in [Accounts -> Nat]
    /\ eftFraudLockedUntil \in [Accounts -> Nat]
    /\ now \in 0..MaxTime
    /\ auditTrail \in [Accounts -> Seq(AuditEvent)]
    /\ reply \in [id : (Accounts \X Ops \X (Keys \cup {NoKey})) \cup {<<>>},
                  response : Response, audit : {"none", "success", "denied"}]

\* RGS-0101: no handler leaves an account with a negative balance.
NonNegative == \A a \in Accounts : available[a] >= 0

\* The successful audit events of an account tell its whole history: the first
\* starts from zero, each starts where the one before ended, and the last ends at
\* the balance.  A mutation that is not audited, or is rolled back after its event
\* was written, breaks the chain.
AuditTrailExplainsBalance ==
    \A a \in Accounts :
        LET t == auditTrail[a] IN
        /\ available[a] = IF t = <<>> THEN 0 ELSE t[Len(t)].after
        /\ \A i \in 1..Len(t) : t[i].before = IF i = 1 THEN 0 ELSE t[i - 1].after

\* Transaction t is the one audit event e reports.
Reports(e, t) ==
    /\ t.op = e.action
    /\ t.amount > 0
    /\ e.after = Wrap(e.before + (IF t.op \in Credits THEN t.amount ELSE -t.amount))

\* The n-th transaction of an account is the one its n-th audit event reports: the
\* same operation, and an amount equal to the change of balance.
TransactionsMatchAudit ==
    \A a \in Accounts :
        /\ Len(transactionsByAcct[a]) = Len(auditTrail[a])
        /\ \A i \in 1..Len(auditTrail[a]) : Reports(auditTrail[a][i], transactionsByAcct[a][i])

\* p is the pair of postings of transaction t on account a.
Pair(p, t, a) ==
    /\ Len(p) = 2
    /\ p[1].direction = "debit" /\ p[2].direction = "credit"
    /\ p[1].amount = t.amount /\ p[2].amount = t.amount
    /\ p[IF t.op \in Credits THEN 2 ELSE 1].account = a

\* postingsByTx holds one balanced debit/credit pair for every transaction still in
\* the books, with the transaction's amount and account on the side its type says,
\* and nothing for the ids a rollback left unused.
PostingsMatchTransactions ==
    /\ \A a \in Accounts : \A i \in 1..Len(transactionsByAcct[a]) :
           Pair(postingsByTx[transactionsByAcct[a][i].id], transactionsByAcct[a][i], a)
    /\ \A n \in 1..MaxTx :
           postingsByTx[n] # <<>> =>
               \E a \in Accounts : \E i \in 1..Len(transactionsByAcct[a]) :
                   transactionsByAcct[a][i].id = n

\* All the money of an account is in one currency, although the account takes its
\* currency from whichever request touches it first, an unsuccessful one included.
OneCurrency ==
    \A a \in Accounts : \A i \in 1..Len(transactionsByAcct[a]) :
        transactionsByAcct[a][i].currency = currency[a]

\* The three journals of an account agree: its transactions are its audit events, their
\* postings balance and charge the side the operation names, and all are in one currency,
\* however many requests were retried, denied or rolled back in between.
JournalsAgree == TransactionsMatchAudit /\ PostingsMatchTransactions /\ OneCurrency

\* RGS-0102: an answer that says the money has moved is the one remembered under
\* the request's key, so any retry gets it again.
AcknowledgedIsRemembered ==
    reply.response.code = "OK" => byIdempotency[reply.id] = reply.response

\* RGS-0102: a remembered answer, a denial included, is never replaced.
RememberedForever ==
    [][\A i \in Ids : byIdempotency[i] # NoResponse => byIdempotency'[i] = byIdempotency[i]]_vars

\* Fail closed on audit loss: a balance moves only in a step that appends the audit
\* event reporting exactly that move, and in which no other account moves.
MoneyMovesAudited ==
    [][\A a \in Accounts : available'[a] # available[a] =>
           /\ Len(auditTrail'[a]) = Len(auditTrail[a]) + 1
           /\ auditTrail'[a][Len(auditTrail'[a])].before = available[a]
           /\ auditTrail'[a][Len(auditTrail'[a])].after = available'[a]
           /\ \A b \in Accounts \ {a} : available'[b] = available[b]]_vars

\* Amounts and bounds under which no sum of credits reaches the end of the int64 range
NoOverflow == MaxTx * MaxAmount <= MaxInt

\* The signed amount the remembered answer of a request reports
effect(i) == IF i[2] \in Credits THEN byIdempotency[i].amount ELSE -byIdempotency[i].amount

Promise == INSTANCE IdempotentLedger WITH
    Effects <- -MaxAmount..MaxAmount,
    balance <- available,
    outcome <- [i \in Ids |-> [settled |-> byIdempotency[i] # NoResponse, effect |-> effect(i)]]

\* The service implements the abstract ledger: each (account, operation, key) takes
\* effect at most once, whatever the retries, denials and audit failures.
ImplementsPromise == Promise!Spec

\* Nothing about account a moves, its lockout included.
Frozen(a) ==
    /\ available'[a] = available[a]
    /\ eftFraudFailures'[a] = eftFraudFailures[a]
    /\ eftFraudLockedUntil'[a] = eftFraudLockedUntil[a]
    /\ \A i \in Ids : i[1] = a => byIdempotency'[i] = byIdempotency[i]

\* A request on account a gets its answer, and this code.
Settles(a, code) ==
    \E i \in Ids : i[1] = a /\ byIdempotency'[i] # byIdempotency[i] /\ byIdempotency'[i].code = code

\* While an account is locked out nothing about it moves: no balance, no remembered
\* answer, no count, and the lockout is neither lifted nor extended.  Once the limit is
\* reached every later failure locks the account again, however many lockouts have ended
\* by then, and only an operation that succeeds takes the count down.
LockoutHolds ==
    [][\A a \in Accounts :
           /\ eftLocked(a) => Frozen(a)
           /\ Settles(a, "DENIED") /\ eftFraudFailures[a] + 1 >= MaxFailures => eftLocked(a)'
           /\ eftFraudFailures'[a] < eftFraudFailures[a] => Settles(a, "OK")]_vars

=============================================================================
