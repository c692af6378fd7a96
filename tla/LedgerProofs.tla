---------------------------- MODULE LedgerProofs ----------------------------
(***************************************************************************)
(* Proofs about Ledger, for all sets of accounts, keys, amounts, devices   *)
(* and currencies and all bounds.  Every step of Next is one of five kinds *)
(* (StepCases); an audit failure leaves the books as they were             *)
(* (RollbackRestores); the invariants follow one conjunct at a time.       *)
(***************************************************************************)
EXTENDS Ledger, SequenceTheorems, TLAPS

\* The int64 range
Int64 == (-MaxInt - 1)..MaxInt

\* What a handler passes to Mutation: a positive amount, its sign, and a balanced
\* pair of postings with the request's account on the side of the sign.
Charge(r, amount, delta, postings) ==
    /\ r \in Requests
    /\ amount \in 1..MaxAmount
    /\ r.op \in Debits => amount <= available[r.account]
    /\ delta = IF r.op \in Credits THEN amount ELSE -amount
    /\ \E other \in Devices \cup {OperatorLiability, DeviceEscrow} :
           postings = IF r.op \in Credits
                      THEN <<Posting(other, "debit", amount), Posting(r.account, "credit", amount)>>
                      ELSE <<Posting(r.account, "debit", amount), Posting(other, "credit", amount)>>

\* A call that changes nothing but the answer
Unmoved(r) ==
    /\ r \in Requests
    /\ UNCHANGED <<Books, Fraud, now>>
    /\ reply' \in [id : {<<r.account, r.op, r.key>>, <<>>}, response : Response,
                   audit : {"none", "success", "denied"}]
    /\ reply'.response.code = "OK" =>
           /\ r.key \in Keys /\ reply'.id = Id(r)
           /\ reply'.response = byIdempotency[Id(r)]

-----------------------------------------------------------------------------
(* int64 arithmetic.                                                         *)

\* Adding a signed amount to a balance gives a balance.
LEMMA WrapRange ==
    ASSUME NEW x \in Int64, NEW d \in -MaxAmount..MaxAmount
    PROVE  Wrap(x + d) \in Int64
BY ConstantsAssumption DEF Wrap, Int64

\* Undoing an addition gives back the balance, even when the addition wrapped.
LEMMA WrapBack ==
    ASSUME NEW x \in Int64, NEW d \in -MaxAmount..MaxAmount
    PROVE  Wrap(Wrap(x + d) - d) = x
BY ConstantsAssumption DEF Wrap, Int64

-----------------------------------------------------------------------------
(* The kinds of step.                                                        *)

\* The fields of a request.
LEMMA RequestFields ==
    ASSUME NEW r \in Requests
    PROVE  /\ r.op \in Ops
           /\ r.account \in Accounts
           /\ r.amount \in Int /\ r.amount <= MaxAmount
           /\ r.currency \in Currencies \cup {NoCurrency}
           /\ r.key \in Keys \cup {NoKey}
<1>1. r.amount \in Amounts
  BY Zenon DEF Requests
<1>2. r.amount \in -MaxAmount..MaxAmount
  BY Zenon, <1>1, ConstantsAssumption
<1> QED
  BY <1>2, ConstantsAssumption DEF Requests

\* Every early return of a handler answers and changes nothing else.
LEMMA ReturnedUnmoved ==
    ASSUME TypeOK, NEW r \in Requests, NEW ok \in BOOLEAN, Returned(r, ok)
    PROVE  Unmoved(r)
<1> USE DEF Unmoved, Returned
<1>1. CASE Unauthorized(r, ok)
  BY <1>1 DEF Unauthorized, Refuse, Refusal, Response
<1>2. CASE Malformed(r)
  BY <1>2 DEF Malformed, Refuse, Refusal, Response
<1>3. CASE LockedOut(r, ok)
  BY <1>3 DEF LockedOut, Refuse, Refusal, Response
<1>4. CASE Replay(r)
  <2>1. Id(r) \in Ids /\ r.key \in Keys
    BY Zenon, <1>4 DEF Replay, Admitted, Requests, Id, Ids
  <2>2. byIdempotency[Id(r)] \in Response
    BY Zenon, <2>1 DEF TypeOK
  <2> QED
    BY Zenon, <1>4, <2>1, <2>2 DEF Replay, Answer, Id
<1>5. CASE CurrencyMismatch(r)
  BY <1>5 DEF CurrencyMismatch, Refuse, Refusal, Response
<1> QED
  BY Zenon, <1>1, <1>2, <1>3, <1>4, <1>5

\* A deposit or transfer to the account charges the requested amount.
LEMMA CreditCharge ==
    ASSUME TypeOK, NEW r \in Requests, r.op \in Credits, r.amount > 0,
           NEW other \in Devices \cup {OperatorLiability, DeviceEscrow}
    PROVE  Charge(r, r.amount, r.amount,
                  <<Posting(other, "debit", r.amount), Posting(r.account, "credit", r.amount)>>)
<1>1. r.amount \in 1..MaxAmount
  BY RequestFields, ConstantsAssumption
<1>2. ~(r.op \in Debits)
  BY Zenon DEF Credits, Debits
<1> QED
  BY Zenon, <1>1, <1>2 DEF Charge

\* A withdrawal or transfer to a device charges at most the balance.
LEMMA DebitCharge ==
    ASSUME TypeOK, NEW r \in Requests, r.op \in Debits,
           NEW n \in Int, 0 < n, n <= r.amount, n <= available[r.account],
           NEW other \in Devices \cup {OperatorLiability, DeviceEscrow}
    PROVE  Charge(r, n, -n,
                  <<Posting(r.account, "debit", n), Posting(other, "credit", n)>>)
<1>1. n \in 1..MaxAmount
  BY RequestFields, ConstantsAssumption
<1>2. ~(r.op \in Credits)
  BY Zenon DEF Credits, Debits
<1> QED
  BY Zenon, <1>1, <1>2 DEF Charge

\* What Mutation is called with is a charge, whichever handler calls it.
StepKind ==
    \/ Tick
    \/ \E r \in Requests : Unmoved(r)
    \/ \E r \in Requests, ok \in BOOLEAN : r.op \in Debits /\ Insufficient(r, ok)
    \/ \E r \in Requests : \E amount, delta \in Int : \E postings :
           /\ Charge(r, amount, delta, postings)
           /\ \/ Accept(r, amount, delta, postings)
              \/ AuditUnavailable(r, amount, delta, postings)

LEMMA StepCases ==
    ASSUME TypeOK, Next
    PROVE  StepKind
<1> USE DEF StepKind
<1>1. CASE Tick
  BY Zenon, <1>1
<1>2. ASSUME NEW r \in Requests, NEW ok \in BOOLEAN, Returned(r, ok)
      PROVE  StepKind
  BY Zenon, <1>2, ReturnedUnmoved
<1>3. ASSUME NEW r \in Requests, NEW ok \in BOOLEAN, NEW n \in Int, NEW delta \in Int,
             NEW postings, Mutation(r, n, delta, postings, ok), 
             Charge(r, n, delta, postings)
      PROVE  StepKind
  <2>1. Accept(r, n, delta, postings) \/ AuditUnavailable(r, n, delta, postings)
    BY Zenon, <1>3 DEF Mutation
  <2> QED
    BY Zenon, <1>3, <2>1
<1>4. ASSUME NEW r \in Requests, NEW n, NEW delta, NEW postings, NEW ok \in BOOLEAN,
             Mutation(r, n, delta, postings, ok)
      PROVE  r.amount \in Int /\ r.amount > 0 /\ available[r.account] \in Int
  <2>1. ~(r.amount <= 0)
    BY Zenon, <1>4 DEF Mutation, Accept, AuditUnavailable, Fresh, Admitted, invalidAmount
  <2> QED
    BY <2>1, RequestFields DEF TypeOK
<1>5. ASSUME NEW r \in Requests, NEW ok \in BOOLEAN, Deposit(r, ok)
      PROVE  StepKind
  <2> DEFINE ps == <<Posting(OperatorLiability, "debit", r.amount),
                     Posting(r.account, "credit", r.amount)>>
  <2>1. CASE Mutation(r, r.amount, r.amount, ps, ok)
    <3>1. r.amount \in Int /\ r.amount > 0
      BY Zenon, <2>1, <1>4
    <3>2. Charge(r, r.amount, r.amount, ps)
      BY Zenon, <1>5, <3>1, CreditCharge DEF Deposit, Credits
    <3> QED
      BY Zenon, <2>1, <3>1, <3>2, <1>3
  <2> QED
    BY Zenon, <1>5, <1>2, <2>1 DEF Deposit
<1>6. ASSUME NEW r \in Requests, NEW ok \in BOOLEAN, TransferToAccount(r, ok)
      PROVE  StepKind
  <2> DEFINE ps == <<Posting(DeviceEscrow, "debit", r.amount),
                     Posting(r.account, "credit", r.amount)>>
  <2>1. CASE Mutation(r, r.amount, r.amount, ps, ok)
    <3>1. r.amount \in Int /\ r.amount > 0
      BY Zenon, <2>1, <1>4
    <3>2. Charge(r, r.amount, r.amount, ps)
      BY Zenon, <1>6, <3>1, CreditCharge DEF TransferToAccount, Credits
    <3> QED
      BY Zenon, <2>1, <3>1, <3>2, <1>3
  <2> QED
    BY Zenon, <1>6, <1>2, <2>1 DEF TransferToAccount
<1>7. ASSUME NEW r \in Requests, NEW ok \in BOOLEAN, Withdraw(r, ok)
      PROVE  StepKind
  <2> DEFINE ps == <<Posting(r.account, "debit", r.amount),
                     Posting(OperatorLiability, "credit", r.amount)>>
  <2>1. CASE available[r.account] >= r.amount /\ Mutation(r, r.amount, -r.amount, ps, ok)
    <3>1. r.amount \in Int /\ r.amount > 0 /\ available[r.account] \in Int
      BY Zenon, <2>1, <1>4
    <3>2. Charge(r, r.amount, -r.amount, ps)
      BY <1>7, <2>1, <3>1, DebitCharge DEF Withdraw, Debits
    <3>3. -r.amount \in Int /\ r.amount \in Int
      BY <3>1
    <3> QED
      BY Zenon, <2>1, <3>3, <3>2, <1>3
  <2>2. CASE Insufficient(r, ok)
    BY Zenon, <1>7, <2>2 DEF Withdraw, Debits
  <2> QED
    BY Zenon, <1>7, <1>2, <2>1, <2>2 DEF Withdraw
<1>8. ASSUME NEW r \in Requests, NEW ok \in BOOLEAN, NEW d \in Devices,
             TransferToDevice(r, d, ok)
      PROVE  StepKind
  <2> DEFINE n == IF available[r.account] < r.amount THEN available[r.account] ELSE r.amount
             ps == <<Posting(r.account, "debit", n), Posting(d, "credit", n)>>
  <2>1. CASE available[r.account] > 0 /\ Mutation(r, n, -n, ps, ok)
    <3>1. r.amount \in Int /\ r.amount > 0 /\ available[r.account] \in Int
      BY Zenon, <2>1, <1>4
    <3>2. n \in Int /\ -n \in Int /\ 0 < n /\ n <= r.amount /\ n <= available[r.account]
      BY <2>1, <3>1
    <3>3. Charge(r, n, -n, ps)
      <4> HIDE DEF n
      <4> QED BY <1>8, <3>2, DebitCharge DEF TransferToDevice, Debits
    <3> QED
      <4> HIDE DEF n, ps
      <4> QED BY <2>1, <3>2, <3>3, <1>3
  <2>2. CASE Insufficient(r, ok)
    BY Zenon, <1>8, <2>2 DEF TransferToDevice, Debits
  <2> QED
    BY Zenon, <1>8, <1>2, <2>1, <2>2 DEF TransferToDevice
<1> QED
  BY Zenon, <1>1, <1>5, <1>6, <1>7, <1>8 DEF Next

-----------------------------------------------------------------------------
(* Type correctness, and the rollback of an unaudited mutation.              *)

\* Balances are int64 values.
InRange == \A a \in Accounts : available[a] \in Int64

\* A transaction number not drawn yet has no postings.
UnusedIds == \A n \in 1..MaxTx : n > nextTransactionID => postingsByTx[n] = <<>>

TypeInv == TypeOK /\ InRange /\ UnusedIds

\* A fresh request has a key and a currency, and its account takes that currency.
LEMMA FreshFacts ==
    ASSUME NEW r \in Requests, Fresh(r)
    PROVE  /\ Id(r) \in Ids
           /\ r.key \in Keys
           /\ r.currency \in Currencies
           /\ accountCurrency(r) = r.currency
BY Zenon DEF Fresh, Admitted, invalidAmount, Requests, Id, Ids

\* A charge moves an amount of the bounded range, by two well-formed postings.
LEMMA ChargeFacts ==
    ASSUME NEW r, NEW amount, NEW delta, NEW postings, Charge(r, amount, delta, postings)
    PROVE  /\ r \in Requests /\ r.account \in Accounts /\ r.op \in Ops
           /\ amount \in Int /\ amount > 0 /\ amount <= MaxAmount
           /\ delta \in -MaxAmount..MaxAmount
           /\ postings \in Seq(PostingSet)
           /\ Len(postings) = 2
<1>1. r \in Requests /\ r.account \in Accounts /\ r.op \in Ops
  BY Zenon, RequestFields DEF Charge
<1>2. amount \in Int /\ amount > 0 /\ amount <= MaxAmount
  BY ConstantsAssumption DEF Charge
<1>3. delta \in -MaxAmount..MaxAmount
  BY <1>2, ConstantsAssumption DEF Charge
<1>4. PICK other \in Devices \cup {OperatorLiability, DeviceEscrow} :
           postings = IF r.op \in Credits
                      THEN <<Posting(other, "debit", amount), Posting(r.account, "credit", amount)>>
                      ELSE <<Posting(r.account, "debit", amount), Posting(other, "credit", amount)>>
  BY Zenon DEF Charge
<1>5. /\ Posting(other, "debit", amount) \in PostingSet
      /\ Posting(other, "credit", amount) \in PostingSet
      /\ Posting(r.account, "debit", amount) \in PostingSet
      /\ Posting(r.account, "credit", amount) \in PostingSet
  BY Zenon, <1>1, <1>2 DEF Posting, PostingSet
<1> QED
  BY <1>1, <1>2, <1>3, <1>4, <1>5

\* Removing the last element undoes an append.
LEMMA FrontOfAppend ==
    ASSUME NEW S, NEW s \in Seq(S), NEW x \in S
    PROVE  SubSeq(Append(s, x), 1, Len(Append(s, x)) - 1) = s
<1> DEFINE t == Append(s, x)
           u == SubSeq(t, 1, Len(t) - 1)
<1>1. /\ t \in Seq(S) /\ Len(t) = Len(s) + 1 /\ Len(s) \in Nat
      /\ \A i \in 1..Len(s) : t[i] = s[i]
  BY AppendProperties, LenProperties
<1>2. /\ u \in Seq(S) /\ Len(u) = Len(s)
      /\ \A i \in 1..Len(s) : u[i] = s[i]
  BY <1>1, SubSeqProperties
<1> HIDE DEF u
<1>3. u = s
  BY Zenon, <1>2, SeqEqual
<1> QED
  BY Zenon, <1>3 DEF u

\* Fail closed: what a handler undoes after a failed audit append is all it has done.
LEMMA RollbackRestores ==
    ASSUME TypeInv, NEW r, NEW amount, NEW delta, NEW postings,
           Charge(r, amount, delta, postings), AuditUnavailable(r, amount, delta, postings)
    PROVE  UNCHANGED <<available, transactionsByAcct, postingsByTx>>
<1> DEFINE txID == nextTransactionID + 1
           tx == [id |-> txID, op |-> r.op, amount |-> amount, currency |-> r.currency]
           m == Mutated(r, amount, delta, txID, postings)
           a == r.account
<1>1. /\ available \in [Accounts -> Int]
      /\ transactionsByAcct \in [Accounts -> Seq(Transaction)]
      /\ postingsByTx \in [1..MaxTx -> Seq(PostingSet)]
      /\ txID \in 1..MaxTx /\ postingsByTx[txID] = <<>>
  <2>1. txID \in 1..MaxTx /\ txID > nextTransactionID
    BY ConstantsAssumption DEF TypeInv, TypeOK, AuditUnavailable
  <2> HIDE DEF txID
  <2> QED
    BY Zenon, <2>1 DEF TypeInv, TypeOK, UnusedIds
<1>2. /\ r \in Requests /\ a \in Accounts /\ r.op \in Ops
      /\ amount \in Int
      /\ delta \in -MaxAmount..MaxAmount
  BY Zenon, ChargeFacts
<1>3. available' = [m.available EXCEPT ![a] = Wrap(m.available[a] - delta)]
  BY Zenon, <1>1, <1>2 DEF AuditUnavailable, Become, RolledBack, Mutated
<1>4. available' = available
  <2>1. m.available = [available EXCEPT ![a] = Wrap(available[a] + delta)]
    BY Zenon, <1>1, <1>2 DEF Mutated
  <2>2. Wrap(Wrap(available[a] + delta) - delta) = available[a]
    BY Zenon, <1>2, WrapBack DEF TypeInv, InRange
  <2> HIDE DEF m
  <2> QED
    BY Zenon, <1>1, <1>2, <1>3, <2>1, <2>2
<1>5. transactionsByAcct' = transactionsByAcct
  <2>1. m.transactions = [transactionsByAcct EXCEPT ![a] = Append(transactionsByAcct[a], tx)]
    BY Zenon, <1>1, <1>2 DEF Mutated
  <2>2. transactionsByAcct' =
            [m.transactions EXCEPT ![a] = SubSeq(m.transactions[a], 1, Len(m.transactions[a]) - 1)]
    BY Zenon, <1>1, <1>2 DEF AuditUnavailable, Become, RolledBack, Mutated
  <2>3. tx \in Transaction
    BY Zenon, <1>1, <1>2, FreshFacts DEF Transaction, AuditUnavailable
  <2> HIDE DEF m, tx
  <2>4. SubSeq(Append(transactionsByAcct[a], tx), 1, Len(Append(transactionsByAcct[a], tx)) - 1)
            = transactionsByAcct[a]
    BY Zenon, <1>1, <1>2, <2>3, FrontOfAppend
  <2> QED
    BY Zenon, <1>1, <1>2, <2>1, <2>2, <2>4
<1>6. postingsByTx' = postingsByTx
  <2>1. postingsByTx' = [m.postings EXCEPT ![txID] = <<>>]
    BY Zenon DEF AuditUnavailable, Become, RolledBack, Mutated
  <2>2. m.postings = [postingsByTx EXCEPT ![txID] = postingsByTx[txID] \o postings]
    BY Zenon, <1>1 DEF Mutated
  <2> HIDE DEF m, txID
  <2> QED
    BY Zenon, <1>1, <2>1, <2>2
<1> QED
  BY Zenon, <1>4, <1>5, <1>6

\* The balance, transaction and audit event an accepted operation leaves.
After(r, delta)   == Wrap(available[r.account] + delta)
NewTx(r, amount)  == [id |-> nextTransactionID + 1, op |-> r.op, amount |-> amount,
                      currency |-> r.currency]
Event(r, delta)   == [action |-> r.op, before |-> available[r.account], after |-> After(r, delta)]

\* The books after an accepted operation, component by component.
Accepted(r, amount, delta, postings) ==
    /\ After(r, delta) \in Int64 /\ After(r, delta) \in Int
    /\ nextTransactionID + 1 \in 1..MaxTx /\ nextTransactionID' = nextTransactionID + 1
    /\ NewTx(r, amount) \in Transaction
    /\ Event(r, delta) \in AuditEvent
    /\ available' = [available EXCEPT ![r.account] = After(r, delta)]
    /\ transactionsByAcct' = [transactionsByAcct EXCEPT ![r.account] =
           Append(transactionsByAcct[r.account], NewTx(r, amount))]
    /\ postingsByTx' = [postingsByTx EXCEPT ![nextTransactionID + 1] = postings]
    /\ auditTrail' = [auditTrail EXCEPT ![r.account] =
           Append(auditTrail[r.account], Event(r, delta))]
    /\ currency' = [currency EXCEPT ![r.account] = r.currency]
    /\ Id(r) \in Ids
    /\ reply'.response \in Response
    /\ reply'.response.code = "OK" /\ reply'.response.amount = amount
    /\ reply'.id = Id(r)
    /\ byIdempotency' = [byIdempotency EXCEPT ![Id(r)] = reply'.response]

\* An accepted operation has these effects on the books.
LEMMA AcceptEffect ==
    ASSUME TypeInv, NEW r, NEW amount, NEW delta, NEW postings,
           Charge(r, amount, delta, postings), Accept(r, amount, delta, postings)
    PROVE  Accepted(r, amount, delta, postings)
<1> DEFINE a == r.account
           txID == nextTransactionID + 1
           after == Wrap(available[a] + delta)
           m == Mutated(r, amount, delta, txID, postings)
           event == [action |-> r.op, before |-> available[a], after |-> after]
<1>1. /\ r \in Requests /\ a \in Accounts /\ r.op \in Ops
      /\ amount \in Int /\ delta \in -MaxAmount..MaxAmount
      /\ postings \in Seq(PostingSet)
  BY Zenon, ChargeFacts
<1>2. /\ available \in [Accounts -> Int] /\ available[a] \in Int64
      /\ transactionsByAcct \in [Accounts -> Seq(Transaction)]
      /\ postingsByTx \in [1..MaxTx -> Seq(PostingSet)]
      /\ auditTrail \in [Accounts -> Seq(AuditEvent)]
      /\ nextTransferID \in Nat
  BY Zenon, <1>1 DEF TypeInv, TypeOK, InRange
<1>3. after \in Int64 /\ after \in Int
  <2>1. after \in Int64
    BY Zenon, <1>1, <1>2, WrapRange
  <2> QED
    BY <2>1, ConstantsAssumption DEF Int64
<1>4. txID \in 1..MaxTx /\ nextTransactionID' = txID /\ postingsByTx[txID] = <<>>
  <2>1. nextTransactionID \in 0..MaxTx /\ nextTransactionID < MaxTx
    BY Zenon DEF TypeInv, TypeOK, Accept
  <2>2. txID \in 1..MaxTx /\ txID > nextTransactionID
    BY <2>1, ConstantsAssumption
  <2> QED
    BY Zenon, <2>2 DEF TypeInv, UnusedIds, Accept
<1>5. Fresh(r) /\ Id(r) \in Ids /\ r.currency \in Currencies /\ accountCurrency(r) = r.currency
  BY Zenon, <1>1, FreshFacts DEF Accept
<1>6. [id |-> txID, op |-> r.op, amount |-> amount, currency |-> r.currency] \in Transaction
  BY Zenon, <1>1, <1>4, <1>5 DEF Transaction
<1>7. event \in AuditEvent
  BY Zenon, <1>1, <1>2, <1>3 DEF AuditEvent
<1>8. m.available = [available EXCEPT ![a] = after] /\ m.available[a] = after
  BY Zenon, <1>1, <1>2 DEF Mutated
<1>9. available' = [available EXCEPT ![a] = after]
  BY Zenon, <1>8 DEF Accept, Become
<1>10. transactionsByAcct' = [transactionsByAcct EXCEPT ![a] =
                  Append(transactionsByAcct[a],
                         [id |-> txID, op |-> r.op, amount |-> amount, currency |-> r.currency])]
  BY Zenon, <1>1, <1>2 DEF Accept, Become, Mutated
<1>11. postingsByTx' = [postingsByTx EXCEPT ![txID] = postings]
  <2>1. postingsByTx' = [postingsByTx EXCEPT ![txID] = postingsByTx[txID] \o postings]
    BY Zenon, <1>2, <1>4 DEF Accept, Become, Mutated
  <2>2. postingsByTx[txID] \o postings = postings
    BY Zenon, <1>1, <1>4, ConcatEmptySeq
  <2> QED
    BY Zenon, <2>1, <2>2
<1>12. auditTrail' = [auditTrail EXCEPT ![a] = Append(auditTrail[a], event)]
  BY Zenon, <1>1, <1>2, <1>8 DEF Accept
<1>13. currency' = [currency EXCEPT ![a] = r.currency]
  BY Zenon, <1>5 DEF Accept, getOrCreateAccount
<1>14. PICK n \in Nat : reply' = [id |-> Id(r), audit |-> "success", response |->
           [code |-> "OK", amount |-> amount, balance |-> after, id |-> n]]
  <2> DEFINE n == IF r.op = "transfer_to_device" THEN nextTransferID + 1 ELSE txID
  <2>1. n \in Nat
    BY <1>2, <1>4
  <2>2. reply' = [id |-> Id(r), audit |-> "success", response |->
           [code |-> "OK", amount |-> amount, balance |-> after, id |-> n]]
    BY Zenon, <1>8 DEF Accept, Answer, Id
  <2> HIDE DEF n
  <2> QED
    BY Zenon, <2>1, <2>2
<1>15. /\ reply'.response \in Response
       /\ reply'.response.code = "OK" /\ reply'.response.amount = amount
       /\ reply'.id = Id(r)
  BY Zenon, <1>1, <1>3, <1>14 DEF Response
<1>16. byIdempotency' = [byIdempotency EXCEPT ![Id(r)] = reply'.response]
  BY Zenon DEF Accept, Answer
<1> QED
  BY Zenon, <1>3, <1>4, <1>5, <1>6, <1>7, <1>9, <1>10, <1>11, <1>12, <1>13, <1>15, <1>16
     DEF After, NewTx, Event, Accepted

\* The initial state is well typed.
LEMMA TypeInvInit == Init => TypeInv
<1> SUFFICES ASSUME Init PROVE TypeInv
  BY Zenon
<1>1. NoResponse \in Response
  BY DEF NoResponse, Response
<1>2. InRange /\ UnusedIds
  BY ConstantsAssumption DEF Init, InRange, UnusedIds, Int64
<1>3. TypeOK
  BY <1>1, ConstantsAssumption DEF Init, TypeOK
<1> QED
  BY Zenon, <1>2, <1>3 DEF TypeInv

\* Every step keeps the state well typed.
LEMMA TypeInvStep == TypeInv /\ [Next]_vars => TypeInv'
<1> SUFFICES ASSUME TypeInv, [Next]_vars PROVE TypeInv'
  BY Zenon
<1>1. CASE UNCHANGED vars
  BY Zenon, <1>1 DEF TypeInv, TypeOK, InRange, UnusedIds, vars
<1>2. CASE Tick
  BY <1>2, ConstantsAssumption
     DEF Tick, TypeInv, TypeOK, InRange, UnusedIds, Books, Fraud
<1>3. ASSUME NEW r \in Requests, Unmoved(r)
      PROVE  TypeInv'
  <2>1. reply' \in [id : (Accounts \X Ops \X (Keys \cup {NoKey})) \cup {<<>>},
                    response : Response, audit : {"none", "success", "denied"}]
    BY <1>3, RequestFields DEF Unmoved
  <2> QED
    BY Zenon, <1>3, <2>1 DEF Unmoved, TypeInv, TypeOK, InRange, UnusedIds, Books, Fraud
<1>4. ASSUME NEW r \in Requests, NEW ok \in BOOLEAN, Insufficient(r, ok)
      PROVE  TypeInv'
  <2> DEFINE response == [code |-> "DENIED", id |-> 0, amount |-> 0,
                          balance |-> available[r.account]]
  <2>1. Fresh(r) /\ r.account \in Accounts /\ r.op \in Ops
    BY Zenon, <1>4, RequestFields DEF Insufficient
  <2>2. Id(r) \in Ids /\ r.key \in Keys /\ r.currency \in Currencies /\ accountCurrency(r) = r.currency
    BY Zenon, <2>1, FreshFacts
  <2>3. response \in Response
    BY <2>1 DEF TypeInv, TypeOK, Response
  <2>4. byIdempotency' \in [Ids -> Response]
    BY Zenon, <1>4, <2>2, <2>3 DEF Insufficient, TypeInv, TypeOK
  <2>5. reply' \in [id : (Accounts \X Ops \X (Keys \cup {NoKey})) \cup {<<>>},
                    response : Response, audit : {"none", "success", "denied"}]
    BY Zenon, <1>4, <2>1, <2>2, <2>3 DEF Insufficient, Answer
  <2>6. currency' \in [Accounts -> Currencies \cup {NoCurrency}]
    BY Zenon, <1>4, <2>1, <2>2 DEF Insufficient, getOrCreateAccount, TypeInv, TypeOK
  <2>7. eftFraudFailures' \in [Accounts -> Nat] /\ eftFraudLockedUntil' \in [Accounts -> Nat]
    <3>1. /\ eftFraudFailures \in [Accounts -> Nat] /\ eftFraudLockedUntil \in [Accounts -> Nat]
          /\ now + LockoutTTL \in Nat
      BY ConstantsAssumption DEF TypeInv, TypeOK
    <3>2. eftFraudFailures' = [eftFraudFailures EXCEPT ![r.account] = eftFraudFailures[r.account] + 1]
      BY Zenon, <1>4, <2>1, <3>1 DEF Insufficient, recordEFTFailure
    <3>3. \/ eftFraudLockedUntil' = eftFraudLockedUntil
          \/ eftFraudLockedUntil' = [eftFraudLockedUntil EXCEPT ![r.account] = now + LockoutTTL]
      BY Zenon, <1>4 DEF Insufficient, recordEFTFailure
    <3> QED
      BY <2>1, <3>1, <3>2, <3>3
  <2> QED
    BY Zenon, <1>4, <2>4, <2>5, <2>6, <2>7
       DEF Insufficient, TypeInv, TypeOK, InRange, UnusedIds
<1>5. ASSUME NEW r \in Requests, NEW amount \in Int, NEW delta \in Int, NEW postings,
             Charge(r, amount, delta, postings), Accept(r, amount, delta, postings)
      PROVE  TypeInv'
  <2> DEFINE a == r.account
             txID == nextTransactionID + 1
             after == After(r, delta)
             tx == NewTx(r, amount)
             event == Event(r, delta)
  <2>1. /\ after \in Int64 /\ after \in Int
        /\ txID \in 1..MaxTx /\ nextTransactionID' = txID
        /\ tx \in Transaction
        /\ event \in AuditEvent
        /\ available' = [available EXCEPT ![a] = after]
        /\ transactionsByAcct' = [transactionsByAcct EXCEPT ![a] = Append(transactionsByAcct[a], tx)]
        /\ postingsByTx' = [postingsByTx EXCEPT ![txID] = postings]
        /\ auditTrail' = [auditTrail EXCEPT ![a] = Append(auditTrail[a], event)]
        /\ currency' = [currency EXCEPT ![a] = r.currency]
        /\ Id(r) \in Ids
        /\ reply'.response \in Response
        /\ byIdempotency' = [byIdempotency EXCEPT ![Id(r)] = reply'.response]
    <3>1. Accepted(r, amount, delta, postings)
      BY Zenon, <1>5, AcceptEffect
    <3> QED
      BY Zenon, <3>1 DEF Accepted
  <2>2. a \in Accounts /\ postings \in Seq(PostingSet) /\ r.op \in Ops
    BY Zenon, <1>5, ChargeFacts
  <2>3. r.currency \in Currencies /\ r.key \in Keys
    BY Zenon, <1>5, FreshFacts DEF Accept
  <2>4. txID - 1 = nextTransactionID /\ txID \in 0..MaxTx
    <3>1. nextTransactionID \in 0..MaxTx
      BY Zenon DEF TypeInv, TypeOK
    <3>2. nextTransactionID + 1 \in 1..MaxTx
      BY Zenon, <2>1
    <3> QED
      BY <3>1, <3>2, ConstantsAssumption
  <2> HIDE DEF a, txID, after, tx, event
  <2>5. available' \in [Accounts -> Int] /\ InRange'
    BY Zenon, <2>1, <2>2 DEF TypeInv, TypeOK, InRange
  <2>6. transactionsByAcct' \in [Accounts -> Seq(Transaction)]
    BY <2>1, <2>2 DEF TypeInv, TypeOK
  <2>7. postingsByTx' \in [1..MaxTx -> Seq(PostingSet)]
    BY Zenon, <2>1, <2>2 DEF TypeInv, TypeOK
  <2>8. UnusedIds'
    <3> SUFFICES ASSUME NEW n \in 1..MaxTx, n > txID PROVE postingsByTx'[n] = <<>>
      BY Zenon, <2>1 DEF UnusedIds
    <3>1. n # txID /\ n > nextTransactionID
      BY <2>1, <2>4, ConstantsAssumption
    <3> QED
      BY Zenon, <2>1, <3>1 DEF TypeInv, TypeOK, UnusedIds
  <2>9. auditTrail' \in [Accounts -> Seq(AuditEvent)]
    BY <2>1, <2>2 DEF TypeInv, TypeOK
  <2>10. currency' \in [Accounts -> Currencies \cup {NoCurrency}]
    BY Zenon, <2>1, <2>2, <2>3 DEF TypeInv, TypeOK
  <2>11. byIdempotency' \in [Ids -> Response]
    BY Zenon, <2>1 DEF TypeInv, TypeOK
  <2>12. /\ nextTransferID' \in Nat /\ now' = now
         /\ eftFraudFailures' \in [Accounts -> Nat] /\ eftFraudLockedUntil' \in [Accounts -> Nat]
    <3>1. /\ resetEFTFailures(r.account) /\ now' = now
          /\ nextTransferID' = IF r.op = "transfer_to_device" THEN nextTransferID + 1
                               ELSE nextTransferID
      BY Zenon, <1>5 DEF Accept
    <3> QED
      BY <2>2, <3>1 DEF a, resetEFTFailures, TypeInv, TypeOK
  <2>13. reply' \in [id : (Accounts \X Ops \X (Keys \cup {NoKey})) \cup {<<>>},
                     response : Response, audit : {"none", "success", "denied"}]
    <3>1. PICK response : reply' = [id |-> <<r.account, r.op, r.key>>, response |-> response,
                                    audit |-> "success"]
      BY Zenon, <1>5 DEF Accept, Answer
    <3>2. response \in Response
      BY Zenon, <2>1, <3>1
    <3> QED
      BY Zenon, <2>2, <2>3, <3>1, <3>2 DEF a
  <2> QED
    BY Zenon, <2>1, <2>4, <2>5, <2>6, <2>7, <2>8, <2>9, <2>10, <2>11, <2>12, <2>13
       DEF TypeInv, TypeOK
<1>6. ASSUME NEW r \in Requests, NEW amount \in Int, NEW delta \in Int, NEW postings,
             Charge(r, amount, delta, postings), AuditUnavailable(r, amount, delta, postings)
      PROVE  TypeInv'
  <2>1. UNCHANGED <<available, transactionsByAcct, postingsByTx>>
    BY Zenon, <1>6, RollbackRestores
  <2>2. r.account \in Accounts /\ r.op \in Ops /\ r.key \in Keys
        /\ currency' \in [Accounts -> Currencies \cup {NoCurrency}]
    BY Zenon, <1>6, RequestFields, FreshFacts DEF AuditUnavailable, getOrCreateAccount, TypeInv, TypeOK
  <2>3. reply' \in [id : (Accounts \X Ops \X (Keys \cup {NoKey})) \cup {<<>>},
                    response : Response, audit : {"none", "success", "denied"}]
    BY <1>6, <2>2 DEF AuditUnavailable, Refuse, Refusal, Response
  <2>4. nextTransactionID' = nextTransactionID + 1 /\ nextTransactionID' \in 0..MaxTx
    <3>1. nextTransactionID \in 0..MaxTx
      BY Zenon DEF TypeInv, TypeOK
    <3>2. nextTransactionID' = nextTransactionID + 1 /\ nextTransactionID < MaxTx
      BY Zenon, <1>6 DEF AuditUnavailable
    <3> QED
      BY <3>1, <3>2, ConstantsAssumption
  <2>5. UnusedIds'
    BY <2>1, <2>4, ConstantsAssumption DEF TypeInv, TypeOK, UnusedIds
  <2> QED
    BY Zenon, <1>6, <2>1, <2>2, <2>3, <2>4, <2>5
       DEF AuditUnavailable, TypeInv, TypeOK, InRange, Fraud
<1> QED
  <2>1. CASE Next
    BY Zenon, <2>1, <1>2, <1>3, <1>4, <1>5, <1>6, StepCases DEF TypeInv, StepKind
  <2> QED
    BY Zenon, <1>1, <2>1

\* Type correctness, for every value of the constants.
THEOREM TypeCorrect == Spec => []TypeOK
<1>1. Spec => []TypeInv
  BY TypeInvInit, TypeInvStep, PTL DEF Spec
<1>2. TypeInv => TypeOK
  BY Zenon DEF TypeInv
<1> QED
  BY <1>1, <1>2, PTL

-----------------------------------------------------------------------------
(* The invariants.                                                           *)

\* An account's last audited balance.
Audited(t) == IF t = <<>> THEN 0 ELSE t[Len(t)].after

\* The chain of before and after snapshots.
Chained(t) == \A i \in 1..Len(t) : t[i].before = IF i = 1 THEN 0 ELSE t[i - 1].after

\* Appending an event that starts at the last audited balance keeps the chain.
LEMMA ChainAppend ==
    ASSUME NEW t \in Seq(AuditEvent), NEW e \in AuditEvent, Chained(t), e.before = Audited(t)
    PROVE  Chained(Append(t, e)) /\ Audited(Append(t, e)) = e.after
<1> DEFINE u == Append(t, e)
<1>1. /\ Len(t) \in Nat /\ u \in Seq(AuditEvent) /\ Len(u) = Len(t) + 1 /\ u # <<>>
      /\ u[Len(t) + 1] = e
      /\ \A i \in 1..Len(t) : u[i] = t[i]
  BY AppendProperties, LenProperties
<1> HIDE DEF u
<1>2. Audited(u) = e.after
  BY Zenon, <1>1 DEF Audited
<1>3. ASSUME NEW i \in 1..Len(u)
      PROVE  u[i].before = IF i = 1 THEN 0 ELSE u[i - 1].after
  <2>1. CASE i \in 1..Len(t)
    BY <1>1, <2>1 DEF Chained
  <2>2. CASE i = Len(t) + 1 /\ t = <<>>
    BY <1>1, <2>2 DEF Audited
  <2>3. CASE i = Len(t) + 1 /\ t # <<>>
    <3>1. Len(t) \in 1..Len(t) /\ i # 1 /\ i - 1 = Len(t)
      BY <1>1, <2>3, EmptySeq
    <3> QED
      BY Zenon, <1>1, <2>3, <3>1 DEF Audited
  <2> QED
    BY <1>1, <2>1, <2>2, <2>3
<1> QED
  BY Zenon, <1>2, <1>3 DEF Chained, u

\* AuditTrailExplainsBalance is inductive relative to the type invariant.
LEMMA AuditTrailStep ==
    TypeInv /\ AuditTrailExplainsBalance /\ [Next]_vars => AuditTrailExplainsBalance'
<1> SUFFICES ASSUME TypeInv, AuditTrailExplainsBalance, [Next]_vars
             PROVE  AuditTrailExplainsBalance'
  BY Zenon
<1>1. \A b \in Accounts : available[b] = Audited(auditTrail[b]) /\ Chained(auditTrail[b])
  BY Zenon DEF AuditTrailExplainsBalance, Audited, Chained
<1>2. CASE UNCHANGED <<available, auditTrail>>
  BY Zenon, <1>2 DEF AuditTrailExplainsBalance
<1>3. ASSUME NEW r \in Requests, NEW amount \in Int, NEW delta \in Int, NEW postings,
             Charge(r, amount, delta, postings), Accept(r, amount, delta, postings)
      PROVE  AuditTrailExplainsBalance'
  <2> DEFINE a == r.account
             after == After(r, delta)
             event == Event(r, delta)
  <2>1. /\ event \in AuditEvent
        /\ available' = [available EXCEPT ![a] = after]
        /\ auditTrail' = [auditTrail EXCEPT ![a] = Append(auditTrail[a], event)]
    <3>1. Accepted(r, amount, delta, postings)
      BY Zenon, <1>3, AcceptEffect
    <3> QED
      BY Zenon, <3>1 DEF Accepted
  <2>2. /\ a \in Accounts /\ available \in [Accounts -> Int]
        /\ auditTrail \in [Accounts -> Seq(AuditEvent)]
    BY Zenon, <1>3, ChargeFacts DEF TypeInv, TypeOK
  <2>3. event.before = available[a] /\ event.after = after
    BY Zenon DEF Event
  <2> HIDE DEF a, after, event
  <2>4. ASSUME NEW b \in Accounts
        PROVE  available'[b] = Audited(auditTrail'[b]) /\ Chained(auditTrail'[b])
    <3>1. CASE b = a
      <4>1. Chained(Append(auditTrail[a], event)) /\ Audited(Append(auditTrail[a], event)) = event.after
        BY Zenon, <1>1, <2>1, <2>2, <2>3, ChainAppend
      <4>2. auditTrail'[b] = Append(auditTrail[a], event) /\ available'[b] = after
        BY Zenon, <2>1, <2>2, <3>1
      <4> QED
        BY Zenon, <4>1, <4>2, <2>3
    <3>2. CASE b # a
      BY Zenon, <1>1, <2>1, <2>2, <3>2
    <3> QED
      BY Zenon, <3>1, <3>2
  <2> QED
    BY Zenon, <2>4 DEF AuditTrailExplainsBalance, Audited, Chained
<1>4. ASSUME NEW r \in Requests, NEW amount \in Int, NEW delta \in Int, NEW postings,
             Charge(r, amount, delta, postings), AuditUnavailable(r, amount, delta, postings)
      PROVE  AuditTrailExplainsBalance'
  BY Zenon, <1>2, <1>4, RollbackRestores DEF AuditUnavailable
<1> QED
  <2>1. CASE Next
    <3>1. CASE Tick \/ \E r \in Requests : Unmoved(r)
      BY Zenon, <1>2, <3>1 DEF Tick, Unmoved, Books
    <3>2. CASE \E r \in Requests, ok \in BOOLEAN : r.op \in Debits /\ Insufficient(r, ok)
      BY Zenon, <1>2, <3>2 DEF Insufficient
    <3> QED
      BY Zenon, <2>1, <3>1, <3>2, <1>3, <1>4, StepCases DEF TypeInv, StepKind
  <2> QED
    BY Zenon, <1>2, <2>1 DEF vars

\* The audit events of an account tell its history, from zero to its balance.
THEOREM AuditTrailSound == Spec => []AuditTrailExplainsBalance
<1>1. Init => AuditTrailExplainsBalance
  <2> SUFFICES ASSUME Init, NEW a \in Accounts
               PROVE  /\ available[a] = IF auditTrail[a] = <<>> THEN 0
                                        ELSE auditTrail[a][Len(auditTrail[a])].after
                      /\ 1..Len(auditTrail[a]) = {}
    BY Zenon DEF AuditTrailExplainsBalance
  <2> QED
    BY DEF Init
<1>2. Spec => []TypeInv
  BY TypeInvInit, TypeInvStep, PTL DEF Spec
<1> QED
  BY <1>1, <1>2, AuditTrailStep, PTL DEF Spec

\* A balance is at most what the transactions drawn so far can have credited.
Bounded == \A a \in Accounts : 0 <= available[a] /\ available[a] <= nextTransactionID * MaxAmount

\* The bound grows by MaxAmount with each transaction number, and stays in the range.
LEMMA BoundGrows ==
    ASSUME NoOverflow, NEW n \in Nat, n < MaxTx
    PROVE  /\ (n + 1) * MaxAmount = n * MaxAmount + MaxAmount
           /\ (n + 1) * MaxAmount <= MaxInt
           /\ n * MaxAmount \in Nat
<1>1. MaxAmount \in Nat /\ MaxTx \in Nat /\ MaxInt \in Nat /\ MaxTx * MaxAmount <= MaxInt
  BY Zenon, ConstantsAssumption DEF NoOverflow
<1>2. (n + 1) * MaxAmount = n * MaxAmount + MaxAmount
  BY <1>1
<1>3. n + 1 <= MaxTx
  BY <1>1
<1>4. (n + 1) * MaxAmount <= MaxTx * MaxAmount
  <2>1. PICK k \in Nat : MaxTx = n + 1 + k
    <3>1. MaxTx - (n + 1) \in Nat /\ MaxTx = n + 1 + (MaxTx - (n + 1))
      BY <1>1, <1>3
    <3> QED
      BY Zenon, <3>1
  <2>2. MaxTx * MaxAmount = (n + 1) * MaxAmount + k * MaxAmount /\ k * MaxAmount >= 0
    BY <1>1, <2>1
  <2> QED
    BY <1>1, <2>2
<1> QED
  BY <1>1, <1>2, <1>4

\* Bounded is inductive when the bounds of the model exclude an int64 overflow.
LEMMA BoundedStep ==
    ASSUME NoOverflow, TypeInv, Bounded, [Next]_vars
    PROVE  Bounded'
<1>1. nextTransactionID \in Nat /\ available \in [Accounts -> Int]
  BY DEF TypeInv, TypeOK
<1>2. CASE UNCHANGED <<available, nextTransactionID>>
  BY Zenon, <1>2 DEF Bounded
<1>3. ASSUME NEW r \in Requests, NEW amount \in Int, NEW delta \in Int, NEW postings,
             Charge(r, amount, delta, postings), Accept(r, amount, delta, postings)
      PROVE  Bounded'
  <2> DEFINE bound == nextTransactionID * MaxAmount
             a == r.account
  <2>1. /\ available' = [available EXCEPT ![a] = After(r, delta)]
        /\ nextTransactionID' = nextTransactionID + 1
        /\ nextTransactionID < MaxTx
        /\ a \in Accounts /\ r.op \in Ops
        /\ amount > 0 /\ amount <= MaxAmount
    <3>1. /\ available' = [available EXCEPT ![a] = After(r, delta)]
          /\ nextTransactionID' = nextTransactionID + 1
      <4>1. Accepted(r, amount, delta, postings)
        BY Zenon, <1>3, AcceptEffect
      <4> QED
        BY Zenon, <4>1 DEF Accepted
    <3>2. a \in Accounts /\ r.op \in Ops /\ amount > 0 /\ amount <= MaxAmount
      BY Zenon, <1>3, ChargeFacts
    <3> QED
      BY Zenon, <1>3, <3>1, <3>2 DEF Accept
  <2>2. /\ nextTransactionID' * MaxAmount = bound + MaxAmount
        /\ bound + MaxAmount <= MaxInt /\ bound \in Nat
    BY Zenon, <1>1, <2>1, BoundGrows
  <2>3. \A b \in Accounts : 0 <= available[b] /\ available[b] <= bound
    BY Zenon DEF Bounded
  <2>4. IF r.op \in Credits THEN delta = amount ELSE delta = -amount /\ amount <= available[a]
    BY Zenon, <1>3, <2>1 DEF Charge, Ops
  <2> HIDE DEF bound, a
  <2>5. After(r, delta) \in Int /\ 0 <= After(r, delta) /\ After(r, delta) <= bound + MaxAmount
    <3>1. available[a] \in Int /\ 0 <= available[a] /\ available[a] <= bound /\ amount \in Int
      BY Zenon, <1>1, <1>3, <2>1, <2>3
    <3>2. available[a] + delta \in 0..(bound + MaxAmount)
      BY <2>1, <2>2, <2>4, <3>1, ConstantsAssumption
    <3>3. Wrap(available[a] + delta) = available[a] + delta
      BY <2>2, <3>2, ConstantsAssumption DEF Wrap
    <3> QED
      BY <3>2, <3>3, <2>2, ConstantsAssumption DEF After, a
  <2>6. ASSUME NEW b \in Accounts
        PROVE  0 <= available'[b] /\ available'[b] <= bound + MaxAmount
    <3>1. CASE b = a
      BY Zenon, <1>1, <2>1, <2>5, <3>1
    <3>2. CASE b # a
      <4>1. available'[b] = available[b] /\ available[b] \in Int
        BY Zenon, <1>1, <2>1, <3>2
      <4> QED
        BY <2>2, <2>3, <4>1, ConstantsAssumption
    <3> QED
      BY Zenon, <3>1, <3>2
  <2> QED
    BY Zenon, <2>2, <2>6 DEF Bounded
<1>4. ASSUME NEW r \in Requests, NEW amount \in Int, NEW delta \in Int, NEW postings,
             Charge(r, amount, delta, postings), AuditUnavailable(r, amount, delta, postings)
      PROVE  Bounded'
  <2> DEFINE bound == nextTransactionID * MaxAmount
  <2>1. available' = available /\ nextTransactionID' = nextTransactionID + 1 /\ nextTransactionID < MaxTx
    BY Zenon, <1>4, RollbackRestores DEF AuditUnavailable
  <2>2. nextTransactionID' * MaxAmount = bound + MaxAmount /\ bound \in Nat
    BY Zenon, <1>1, <2>1, BoundGrows
  <2>3. \A b \in Accounts : available[b] \in Int /\ 0 <= available[b] /\ available[b] <= bound
    BY Zenon, <1>1 DEF Bounded
  <2> HIDE DEF bound
  <2> QED
    BY <2>1, <2>2, <2>3, ConstantsAssumption DEF Bounded
<1> QED
  <2>1. CASE Next
    <3>1. CASE Tick \/ \E r \in Requests : Unmoved(r)
      BY Zenon, <1>2, <3>1 DEF Tick, Unmoved, Books
    <3>2. CASE \E r \in Requests, ok \in BOOLEAN : r.op \in Debits /\ Insufficient(r, ok)
      BY Zenon, <1>2, <3>2 DEF Insufficient
    <3> QED
      BY Zenon, <2>1, <3>1, <3>2, <1>3, <1>4, StepCases DEF TypeInv, StepKind
  <2> QED
    BY Zenon, <1>2, <2>1 DEF vars

\* No account exists yet, and no transaction number is drawn.
LEMMA BoundedInit == Init => Bounded
<1>1. 0 * MaxAmount = 0
  BY ConstantsAssumption
<1> SUFFICES ASSUME Init, NEW a \in Accounts
             PROVE  0 <= available[a] /\ available[a] <= nextTransactionID * MaxAmount
  BY Zenon DEF Bounded
<1> QED
  BY <1>1 DEF Init

\* RGS-0101: balances are never negative, as long as the sum of the credits stays in
\* the int64 range.
THEOREM BalancesNonNegative ==
    ASSUME NoOverflow
    PROVE  Spec => []NonNegative
<1>2. Spec => []TypeInv
  BY TypeInvInit, TypeInvStep, PTL DEF Spec
<1>3. TypeInv /\ Bounded /\ [Next]_vars => Bounded'
  BY Zenon, BoundedStep
<1>4. TypeInv /\ Bounded => NonNegative
  BY Zenon DEF TypeInv, TypeOK, Bounded, NonNegative
<1> QED
  BY BoundedInit, <1>2, <1>3, <1>4, PTL DEF Spec

-----------------------------------------------------------------------------
(* What a step may never do, and what a client may rely on.                  *)

\* Every step that touches the idempotency maps settles one fresh request.
LEMMA SettlesFresh ==
    ASSUME TypeInv, [Next]_vars, byIdempotency' # byIdempotency
    PROVE  \E r \in Requests :
               /\ Fresh(r)
               /\ reply'.id = Id(r)
               /\ byIdempotency' = [byIdempotency EXCEPT ![Id(r)] = reply'.response]
<1>1. CASE Next
  <2>1. ASSUME NEW r \in Requests, NEW ok \in BOOLEAN, Insufficient(r, ok)
        PROVE  /\ Fresh(r)
               /\ reply'.id = Id(r)
               /\ byIdempotency' = [byIdempotency EXCEPT ![Id(r)] = reply'.response]
    BY Zenon, <2>1 DEF Insufficient, Answer, Id
  <2>2. ASSUME NEW r \in Requests, NEW amount \in Int, NEW delta \in Int, NEW postings,
               Accept(r, amount, delta, postings)
        PROVE  /\ Fresh(r)
               /\ reply'.id = Id(r)
               /\ byIdempotency' = [byIdempotency EXCEPT ![Id(r)] = reply'.response]
    BY Zenon, <2>2 DEF Accept, Answer, Id
  <2> QED
    BY <1>1, <2>1, <2>2, StepCases
       DEF TypeInv, StepKind, Tick, Unmoved, Books, AuditUnavailable
<1> QED
  BY Zenon, <1>1 DEF vars

\* RGS-0102: an answer given under a key is the answer to every retry.
THEOREM AnswersRemembered == Spec => RememberedForever
<1>1. Spec => []TypeInv
  BY TypeInvInit, TypeInvStep, PTL DEF Spec
<1>2. TypeInv /\ [Next]_vars =>
          [\A i \in Ids : byIdempotency[i] # NoResponse => byIdempotency'[i] = byIdempotency[i]]_vars
  <2> SUFFICES ASSUME TypeInv, [Next]_vars, NEW i \in Ids, byIdempotency[i] # NoResponse
               PROVE  byIdempotency'[i] = byIdempotency[i]
    BY Zenon
  <2>1. CASE byIdempotency' # byIdempotency
    <3>1. PICK r \in Requests :
              Fresh(r) /\ byIdempotency' = [byIdempotency EXCEPT ![Id(r)] = reply'.response]
      BY Zenon, <2>1, SettlesFresh
    <3>2. i # Id(r)
      BY Zenon, <3>1 DEF Fresh
    <3> QED
      BY Zenon, <3>1, <3>2 DEF TypeInv, TypeOK
  <2> QED
    BY Zenon, <2>1
<1> QED
  BY <1>1, <1>2, PTL DEF Spec, RememberedForever

\* RGS-0102: whoever is told OK will be told the same again.
THEOREM OKRemembered == Spec => []AcknowledgedIsRemembered
<1>1. Init => AcknowledgedIsRemembered
  BY DEF Init, AcknowledgedIsRemembered, NoResponse
<1>2. Spec => []TypeInv
  BY TypeInvInit, TypeInvStep, PTL DEF Spec
<1>3. TypeInv /\ AcknowledgedIsRemembered /\ [Next]_vars => AcknowledgedIsRemembered'
  <2> SUFFICES ASSUME TypeInv, AcknowledgedIsRemembered, [Next]_vars
               PROVE  AcknowledgedIsRemembered'
    BY Zenon
  <2>1. CASE UNCHANGED <<byIdempotency, reply>>
    BY Zenon, <2>1 DEF AcknowledgedIsRemembered
  <2>2. CASE byIdempotency' # byIdempotency
    <3>1. PICK r \in Requests :
              /\ Fresh(r)
              /\ reply'.id = Id(r)
              /\ byIdempotency' = [byIdempotency EXCEPT ![Id(r)] = reply'.response]
      BY Zenon, <2>2, SettlesFresh
    <3>2. Id(r) \in Ids /\ byIdempotency \in [Ids -> Response]
      BY Zenon, <3>1, FreshFacts DEF TypeInv, TypeOK
    <3> QED
      BY Zenon, <3>1, <3>2 DEF AcknowledgedIsRemembered
  <2>3. ASSUME NEW r \in Requests, Unmoved(r)
        PROVE  AcknowledgedIsRemembered'
    <3>1. byIdempotency' = byIdempotency
      BY Zenon, <2>3 DEF Unmoved, Books
    <3> QED
      BY Zenon, <2>3, <3>1 DEF AcknowledgedIsRemembered, Unmoved
  <2>4. ASSUME NEW r \in Requests, NEW amount \in Int, NEW delta \in Int, NEW postings,
               AuditUnavailable(r, amount, delta, postings)
        PROVE  AcknowledgedIsRemembered'
    BY Zenon, <2>4 DEF AuditUnavailable, Refuse, Refusal, AcknowledgedIsRemembered
  <2>5. ASSUME NEW r \in Requests, NEW ok \in BOOLEAN, Insufficient(r, ok)
        PROVE  AcknowledgedIsRemembered'
    BY Zenon, <2>5 DEF Insufficient, Answer, AcknowledgedIsRemembered
  <2>6. ASSUME NEW r \in Requests, NEW amount \in Int, NEW delta \in Int, NEW postings,
               Charge(r, amount, delta, postings), Accept(r, amount, delta, postings)
        PROVE  AcknowledgedIsRemembered'
    <3>1. /\ reply'.id = Id(r) /\ Id(r) \in Ids
          /\ byIdempotency' = [byIdempotency EXCEPT ![Id(r)] = reply'.response]
      <4>1. Accepted(r, amount, delta, postings)
        BY Zenon, <2>6, AcceptEffect
      <4> QED
        BY Zenon, <4>1 DEF Accepted
    <3> QED
      BY Zenon, <3>1 DEF AcknowledgedIsRemembered, TypeInv, TypeOK
  <2>7. CASE Next
    <3>1. CASE Tick
      BY Zenon, <2>1, <3>1 DEF Tick, Books
    <3> QED
      BY Zenon, <2>7, <3>1, <2>3, <2>4, <2>5, <2>6, StepCases DEF TypeInv, StepKind
  <2> QED
    BY Zenon, <2>1, <2>7 DEF vars
<1> QED
  BY <1>1, <1>2, <1>3, PTL DEF Spec

\* Fail closed: money moves only together with the audit event that reports it.
THEOREM MovesAreAudited == Spec => MoneyMovesAudited
<1> DEFINE A == \A a \in Accounts : available'[a] # available[a] =>
                    /\ Len(auditTrail'[a]) = Len(auditTrail[a]) + 1
                    /\ auditTrail'[a][Len(auditTrail'[a])].before = available[a]
                    /\ auditTrail'[a][Len(auditTrail'[a])].after = available'[a]
                    /\ \A b \in Accounts \ {a} : available'[b] = available[b]
<1>1. Spec => []TypeInv
  BY TypeInvInit, TypeInvStep, PTL DEF Spec
<1>2. TypeInv /\ [Next]_vars => [A]_vars
  <2> SUFFICES ASSUME TypeInv, [Next]_vars
               PROVE  A
    BY Zenon
  <2>1. CASE available' = available
    BY Zenon, <2>1
  <2>2. ASSUME NEW r \in Requests, NEW amount \in Int, NEW delta \in Int, NEW postings,
               Charge(r, amount, delta, postings), Accept(r, amount, delta, postings)
        PROVE  A
    <3> DEFINE c == r.account
               event == Event(r, delta)
    <3>1. /\ event \in AuditEvent
          /\ available' = [available EXCEPT ![c] = After(r, delta)]
          /\ auditTrail' = [auditTrail EXCEPT ![c] = Append(auditTrail[c], event)]
      <4>1. Accepted(r, amount, delta, postings)
        BY Zenon, <2>2, AcceptEffect
      <4> QED
        BY Zenon, <4>1 DEF Accepted
    <3>2. /\ c \in Accounts /\ available \in [Accounts -> Int]
          /\ auditTrail \in [Accounts -> Seq(AuditEvent)]
      BY Zenon, <2>2, ChargeFacts DEF TypeInv, TypeOK
    <3>3. event.before = available[c] /\ event.after = After(r, delta)
      BY Zenon DEF Event
    <3> HIDE DEF c, event
    <3>4. /\ Len(auditTrail'[c]) = Len(auditTrail[c]) + 1
          /\ auditTrail'[c][Len(auditTrail'[c])] = event
      BY <3>1, <3>2, AppendProperties
    <3> QED
      BY Zenon, <3>1, <3>2, <3>3, <3>4
  <2>3. ASSUME NEW r \in Requests, NEW amount \in Int, NEW delta \in Int, NEW postings,
               Charge(r, amount, delta, postings), AuditUnavailable(r, amount, delta, postings)
        PROVE  A
    BY Zenon, <2>1, <2>3, RollbackRestores
  <2>4. CASE Next
    <3>1. CASE Tick \/ \E r \in Requests : Unmoved(r)
      BY Zenon, <2>1, <3>1 DEF Tick, Unmoved, Books
    <3>2. CASE \E r \in Requests, ok \in BOOLEAN : r.op \in Debits /\ Insufficient(r, ok)
      BY Zenon, <2>1, <3>2 DEF Insufficient
    <3> HIDE DEF A
    <3> QED
      BY Zenon, <2>4, <3>1, <3>2, <2>2, <2>3, StepCases DEF TypeInv, StepKind
  <2> QED
    BY Zenon, <2>1, <2>4 DEF vars
<1> QED
  BY <1>1, <1>2, PTL DEF Spec, MoneyMovesAudited

\* Without overflow a charge moves the balance by exactly its amount.
LEMMA AcceptExact ==
    ASSUME NoOverflow, TypeInv, Bounded, NEW r, NEW amount, NEW delta, NEW postings,
           Charge(r, amount, delta, postings), Accept(r, amount, delta, postings)
    PROVE  After(r, delta) = available[r.account] + delta /\ available[r.account] + delta >= 0
<1> DEFINE a == r.account
           bound == nextTransactionID * MaxAmount
<1>1. /\ a \in Accounts /\ r.op \in Ops
      /\ amount \in Int /\ amount > 0 /\ amount <= MaxAmount
  BY Zenon, ChargeFacts
<1>2. bound + MaxAmount <= MaxInt /\ bound \in Nat
  <2>1. nextTransactionID \in 0..MaxTx /\ nextTransactionID < MaxTx
    <3>1. nextTransactionID < MaxTx
      BY Zenon DEF Accept
    <3> QED
      BY Zenon, <3>1 DEF TypeInv, TypeOK
  <2> QED
    BY <2>1, BoundGrows
<1>3. available[a] \in Int /\ 0 <= available[a] /\ available[a] <= bound
  BY Zenon, <1>1 DEF TypeInv, TypeOK, Bounded
<1>4. IF r.op \in Credits THEN delta = amount ELSE delta = -amount /\ amount <= available[a]
  BY Zenon, <1>1 DEF Charge, Ops
<1> HIDE DEF bound, a
<1>5. available[a] + delta \in 0..(bound + MaxAmount)
  BY <1>1, <1>2, <1>3, <1>4, ConstantsAssumption
<1>6. Wrap(available[a] + delta) = available[a] + delta
  BY <1>2, <1>5, ConstantsAssumption DEF Wrap
<1> QED
  <2>1. available[a] + delta >= 0
    BY <1>2, <1>5, ConstantsAssumption
  <2> QED
    BY Zenon, <1>6, <2>1 DEF After, a

\* A denial has no effect, on either side of the books.
LEMMA NegZero ==
    ASSUME NEW n \in Int, n <= 0, n >= 0
    PROVE  -n = n
OBVIOUS

\* The refinement mapping: what the abstract ledger sees of one request.
Outcome == [i \in Ids |-> [settled |-> byIdempotency[i] # NoResponse, effect |-> effect(i)]]

\* Remembering an answer settles the request it answers, and no other.
LEMMA RememberedSettles ==
    ASSUME TypeInv, NEW r \in Requests, Fresh(r),
           NEW x \in Response, x.code # "NONE",
           byIdempotency' = [byIdempotency EXCEPT ![Id(r)] = x]
    PROVE  /\ Outcome[Id(r)].settled = FALSE
           /\ Outcome' = [Outcome EXCEPT ![Id(r)] =
                  [settled |-> TRUE, effect |-> IF r.op \in Credits THEN x.amount ELSE -x.amount]]
<1>1. Id(r) \in Ids /\ Id(r)[2] = r.op /\ byIdempotency \in [Ids -> Response]
  BY Zenon, FreshFacts DEF Id, TypeInv, TypeOK
<1>2. byIdempotency[Id(r)] = NoResponse /\ x # NoResponse
  BY DEF Fresh, NoResponse
<1>3. ASSUME NEW i \in Ids
      PROVE  Outcome'[i] = IF i = Id(r)
                           THEN [settled |-> TRUE,
                                 effect |-> IF r.op \in Credits THEN x.amount ELSE -x.amount]
                           ELSE Outcome[i]
  <2>1. byIdempotency'[i] = IF i = Id(r) THEN x ELSE byIdempotency[i]
    BY Zenon, <1>1
  <2> QED
    BY Zenon, <1>1, <1>2, <2>1 DEF Outcome, effect
<1>4. Outcome' = [i \in Ids |-> Outcome'[i]] /\ Outcome = [i \in Ids |-> Outcome[i]]
  BY Zenon DEF Outcome
<1>5. Outcome[Id(r)].settled = FALSE
  BY Zenon, <1>1, <1>2 DEF Outcome
<1> HIDE DEF Outcome
<1> QED
  BY Zenon, <1>1, <1>3, <1>4, <1>5

\* Every step settles one open request, or is invisible to the abstract ledger.
LEMMA PromiseStep ==
    ASSUME NoOverflow, TypeInv, Bounded, [Next]_vars
    PROVE  [Promise!Next]_(Promise!vars)
<1>1. CASE UNCHANGED <<available, byIdempotency>>
  BY Zenon, <1>1 DEF Promise!vars, effect
<1>2. ASSUME NEW r \in Requests, NEW n \in -MaxAmount..MaxAmount, Fresh(r),
             available[r.account] + n >= 0,
             available' = [available EXCEPT ![r.account] = available[r.account] + n],
             Outcome[Id(r)].settled = FALSE,
             Outcome' = [Outcome EXCEPT ![Id(r)] = [settled |-> TRUE, effect |-> n]]
      PROVE  Promise!Next
  <2>1. Id(r) \in Ids /\ Id(r)[1] = r.account
    BY Zenon, <1>2, FreshFacts DEF Id
  <2>2. Promise!Settle(Id(r), n)
    BY Zenon, <1>2, <2>1 DEF Promise!Settle, Outcome
  <2> QED
    BY Zenon, <2>1, <2>2 DEF Promise!Next
<1>3. ASSUME NEW r \in Requests, NEW ok \in BOOLEAN, r.op \in Debits, Insufficient(r, ok)
      PROVE  Promise!Next
  <2> DEFINE x == [code |-> "DENIED", id |-> 0, amount |-> 0, balance |-> available[r.account]]
  <2>1. /\ Fresh(r) /\ available' = available
        /\ byIdempotency' = [byIdempotency EXCEPT ![Id(r)] = x]
    BY Zenon, <1>3 DEF Insufficient
  <2>2. available \in [Accounts -> Int] /\ r.account \in Accounts
    BY Zenon, RequestFields DEF TypeInv, TypeOK
  <2>3. x \in Response /\ x.code # "NONE" /\ x.amount = 0
    BY <2>2 DEF Response
  <2>4. (IF r.op \in Credits THEN x.amount ELSE -x.amount) = 0
    <3> DEFINE n == x.amount
    <3>1. n \in Int /\ n <= 0 /\ n >= 0
      BY <2>3
    <3> HIDE DEF x, n
    <3>2. -n = n
      BY Zenon, <3>1, NegZero
    <3>3. n = 0
      BY <3>1
    <3>4. (IF r.op \in Credits THEN n ELSE -n) = n
      BY Zenon, <3>2
    <3> QED
      BY Zenon, <3>3, <3>4 DEF n
  <2> HIDE DEF x
  <2>5. Outcome[Id(r)].settled = FALSE
        /\ Outcome' = [Outcome EXCEPT ![Id(r)] = [settled |-> TRUE, effect |-> 0]]
    BY <2>1, <2>3, <2>4, RememberedSettles
  <2>6. /\ available[r.account] + 0 >= 0
        /\ available' = [available EXCEPT ![r.account] = available[r.account] + 0]
        /\ 0 \in -MaxAmount..MaxAmount
    BY <2>1, <2>2, ConstantsAssumption DEF Bounded
  <2> QED
    BY Zenon, <1>2, <2>1, <2>5, <2>6
<1>4. ASSUME NEW r \in Requests, NEW amount \in Int, NEW delta \in Int, NEW postings,
             Charge(r, amount, delta, postings), Accept(r, amount, delta, postings)
      PROVE  Promise!Next
  <2>1. /\ available' = [available EXCEPT ![r.account] = After(r, delta)]
        /\ reply'.response \in Response
        /\ reply'.response.code = "OK" /\ reply'.response.amount = amount
        /\ byIdempotency' = [byIdempotency EXCEPT ![Id(r)] = reply'.response]
    <3>1. Accepted(r, amount, delta, postings)
      BY Zenon, <1>4, AcceptEffect
    <3> QED
      BY Zenon, <3>1 DEF Accepted
  <2>2. After(r, delta) = available[r.account] + delta /\ available[r.account] + delta >= 0
    BY Zenon, <1>4, AcceptExact
  <2>3. Fresh(r) /\ delta = (IF r.op \in Credits THEN amount ELSE -amount)
    BY Zenon, <1>4 DEF Accept, Charge
  <2>4. Outcome[Id(r)].settled = FALSE
        /\ Outcome' = [Outcome EXCEPT ![Id(r)] = [settled |-> TRUE, effect |-> delta]]
    BY Zenon, <2>1, <2>3, RememberedSettles
  <2>5. delta \in -MaxAmount..MaxAmount
    BY Zenon, <1>4, ChargeFacts
  <2> QED
    BY Zenon, <1>2, <2>1, <2>2, <2>3, <2>4, <2>5
<1>5. ASSUME NEW r \in Requests, NEW amount \in Int, NEW delta \in Int, NEW postings,
             Charge(r, amount, delta, postings), AuditUnavailable(r, amount, delta, postings)
      PROVE  UNCHANGED <<available, byIdempotency>>
  BY Zenon, <1>5, RollbackRestores DEF AuditUnavailable
<1>6. CASE Next
  <2>1. CASE Tick \/ \E r \in Requests : Unmoved(r)
    BY Zenon, <1>1, <2>1 DEF Tick, Unmoved, Books
  <2> QED
    BY Zenon, <1>6, <1>1, <2>1, <1>3, <1>4, <1>5, StepCases DEF TypeInv, StepKind
<1> QED
  BY Zenon, <1>1, <1>6 DEF vars

\* The service settles each request at most once: it implements IdempotentLedger, as
\* long as the sum of the credits stays in the int64 range.
THEOREM LedgerKeepsPromise ==
    ASSUME NoOverflow
    PROVE  Spec => ImplementsPromise
<1>1. Init => Promise!Init
  <2> SUFFICES ASSUME Init, NEW i \in Ids
               PROVE  byIdempotency[i] = NoResponse /\ effect(i) = 0
    BY DEF Init, Promise!Init, Promise!Open
  <2>1. byIdempotency[i] = NoResponse
    BY Zenon DEF Init
  <2> DEFINE n == byIdempotency[i].amount
  <2>2. n \in Int /\ n <= 0 /\ n >= 0 /\ n = 0
    BY <2>1 DEF NoResponse
  <2>3. -n = n
    <3>1. n \in Int /\ n <= 0 /\ n >= 0
      BY Zenon, <2>2
    <3> HIDE DEF n
    <3> QED
      BY Zenon, <3>1, NegZero
  <2>4. effect(i) = IF i[2] \in Credits THEN n ELSE -n
    BY Zenon DEF effect
  <2> HIDE DEF n
  <2> QED
    BY Zenon, <2>1, <2>2, <2>3, <2>4
<1>2. Spec => []TypeInv
  BY TypeInvInit, TypeInvStep, PTL DEF Spec
<1>3. TypeInv /\ Bounded /\ [Next]_vars => [Promise!Next]_(Promise!vars) /\ Bounded'
  BY Zenon, PromiseStep, BoundedStep
<1> QED
  BY <1>1, <1>2, BoundedInit, <1>3, PTL DEF Spec, ImplementsPromise, Promise!Spec

-----------------------------------------------------------------------------
(* The journals.                                                             *)

\* g is f with x appended to the journal of account a.
Appended(g, f, a, x) ==
    /\ \A b \in Accounts : Len(f[b]) \in Nat
    /\ \A b \in Accounts : Len(g[b]) = IF b = a THEN Len(f[b]) + 1 ELSE Len(f[b])
    /\ \A b \in Accounts : \A i \in 1..Len(f[b]) : g[b][i] = f[b][i]
    /\ g[a][Len(f[a]) + 1] = x

\* Appending to one journal leaves the entries of all where they are.
LEMMA AppendsOne ==
    ASSUME NEW S, NEW f \in [Accounts -> Seq(S)], NEW a \in Accounts, NEW x \in S
    PROVE  Appended([f EXCEPT ![a] = Append(f[a], x)], f, a, x)
<1> DEFINE g == [f EXCEPT ![a] = Append(f[a], x)]
<1>1. /\ Len(Append(f[a], x)) = Len(f[a]) + 1
      /\ Append(f[a], x)[Len(f[a]) + 1] = x
      /\ \A i \in 1..Len(f[a]) : Append(f[a], x)[i] = f[a][i]
  BY AppendProperties
<1>2. \A b \in Accounts : Len(f[b]) \in Nat
  BY Zenon, LenProperties
<1>3. g[a] = Append(f[a], x) /\ \A b \in Accounts : b # a => g[b] = f[b]
  BY Zenon
<1> HIDE DEF g
<1>4. Appended(g, f, a, x)
  BY Zenon, <1>1, <1>2, <1>3 DEF Appended
<1> QED
  BY Zenon, <1>4 DEF g

\* The numbers of the transactions in the books have been drawn.
DrawnIds ==
    \A a \in Accounts : \A i \in 1..Len(transactionsByAcct[a]) :
        transactionsByAcct[a][i].id <= nextTransactionID

JournalInv == JournalsAgree /\ DrawnIds

\* What an accepted charge writes: an event that reports the transaction, and its postings.
LEMMA ChargeWrites ==
    ASSUME NEW r, NEW amount, NEW delta, NEW postings, Charge(r, amount, delta, postings)
    PROVE  /\ Reports(Event(r, delta), NewTx(r, amount))
           /\ Pair(postings, NewTx(r, amount), r.account)
<1>1. amount > 0 /\ delta = IF r.op \in Credits THEN amount ELSE -amount
  BY Zenon, ChargeFacts DEF Charge
<1>2. Reports(Event(r, delta), NewTx(r, amount))
  BY Zenon, <1>1 DEF Reports, Event, NewTx, After
<1>3. PICK other \in Devices \cup {OperatorLiability, DeviceEscrow} :
           postings = IF r.op \in Credits
                      THEN <<Posting(other, "debit", amount), Posting(r.account, "credit", amount)>>
                      ELSE <<Posting(r.account, "debit", amount), Posting(other, "credit", amount)>>
  BY Zenon DEF Charge
<1>4. Pair(postings, NewTx(r, amount), r.account)
  BY Zenon, <1>3 DEF Pair, NewTx, Posting
<1> QED
  BY Zenon, <1>2, <1>4

\* An account that has transactions has their currency, and a fresh request must bring it.
LEMMA CurrencyFixed ==
    ASSUME TypeInv, OneCurrency, NEW r \in Requests, Fresh(r),
           NEW a \in Accounts, NEW i \in 1..Len(transactionsByAcct[a])
    PROVE  [currency EXCEPT ![r.account] = r.currency][a] = currency[a]
<1>1. transactionsByAcct[a][i].currency = currency[a]
  BY Zenon DEF OneCurrency
<1>2. transactionsByAcct[a] \in Seq(Transaction)
  BY Zenon DEF TypeInv, TypeOK
<1>3. transactionsByAcct[a][i] \in Transaction
  BY Zenon, <1>2, ElementOfSeq
<1>4. currency[a] # NoCurrency
  BY Zenon, <1>1, <1>3, ConstantsAssumption DEF Transaction
<1>5. CASE a = r.account
  <2>1. r.currency = currency[a]
    BY Zenon, <1>4, <1>5 DEF Fresh, accountCurrency
  <2> QED
    BY Zenon, <1>5, <2>1 DEF TypeInv, TypeOK
<1>6. CASE a # r.account
  BY Zenon, <1>6 DEF TypeInv, TypeOK
<1> QED
  BY Zenon, <1>5, <1>6

\* Postings match as long as neither they nor the transactions change.
LEMMA PostingsKept ==
    ASSUME PostingsMatchTransactions, UNCHANGED <<transactionsByAcct, postingsByTx>>
    PROVE  PostingsMatchTransactions'
BY Zenon DEF PostingsMatchTransactions

\* The books as they are, with a currency that may be new to an account without
\* transactions: a denial, or a mutation that was rolled back.
LEMMA JournalsKept ==
    ASSUME TypeInv, JournalInv, NEW r \in Requests, Fresh(r),
           getOrCreateAccount(r), UNCHANGED <<transactionsByAcct, postingsByTx, auditTrail>>,
           nextTransactionID' \in Int, nextTransactionID' >= nextTransactionID
    PROVE  JournalInv'
<1>1. TransactionsMatchAudit' /\ PostingsMatchTransactions'
  <2>1. TransactionsMatchAudit'
    BY Zenon DEF JournalInv, JournalsAgree, TransactionsMatchAudit
  <2>2. PostingsMatchTransactions'
    BY Zenon, PostingsKept DEF JournalInv, JournalsAgree
  <2> QED
    BY Zenon, <2>1, <2>2
<1>2. currency' = [currency EXCEPT ![r.account] = r.currency]
  BY Zenon, FreshFacts DEF getOrCreateAccount
<1>3. OneCurrency'
  BY Zenon, <1>2, CurrencyFixed DEF OneCurrency, JournalInv, JournalsAgree
<1>4. DrawnIds'
  <2> SUFFICES ASSUME NEW a \in Accounts, NEW i \in 1..Len(transactionsByAcct[a])
               PROVE  transactionsByAcct[a][i].id <= nextTransactionID'
    BY Zenon DEF DrawnIds
  <2>1. transactionsByAcct[a] \in Seq(Transaction) /\ nextTransactionID \in Int
    BY DEF TypeInv, TypeOK
  <2>2. transactionsByAcct[a][i] \in Transaction
    BY Zenon, <2>1, ElementOfSeq
  <2>3. transactionsByAcct[a][i].id \in Int
    BY <2>2 DEF Transaction
  <2>4. transactionsByAcct[a][i].id <= nextTransactionID
    BY Zenon DEF JournalInv, DrawnIds
  <2> QED
    BY <2>1, <2>3, <2>4
<1> QED
  BY Zenon, <1>1, <1>3, <1>4 DEF JournalInv, JournalsAgree

\* An accepted operation adds one entry to each journal.
LEMMA JournalsGrow ==
    ASSUME TypeInv, JournalInv, NEW r, NEW amount, NEW delta, NEW postings,
           Charge(r, amount, delta, postings), Accept(r, amount, delta, postings)
    PROVE  JournalInv'
<1> DEFINE c  == r.account
           tx == NewTx(r, amount)
           e  == Event(r, delta)
           n  == nextTransactionID + 1
<1>1. Accepted(r, amount, delta, postings)
  BY Zenon, AcceptEffect
<1>2. r \in Requests /\ c \in Accounts /\ Fresh(r)
  BY Zenon, ChargeFacts DEF Accept
<1>3. /\ n \in 1..MaxTx /\ nextTransactionID' = n /\ nextTransactionID \in Int /\ n > nextTransactionID
      /\ tx \in Transaction /\ e \in AuditEvent
      /\ postingsByTx \in [1..MaxTx -> Seq(PostingSet)]
      /\ postingsByTx' = [postingsByTx EXCEPT ![n] = postings]
      /\ currency' = [currency EXCEPT ![c] = r.currency]
      /\ currency \in [Accounts -> Currencies \cup {NoCurrency}]
  <2>1. /\ n \in 1..MaxTx /\ nextTransactionID' = n
        /\ tx \in Transaction /\ e \in AuditEvent
        /\ postingsByTx' = [postingsByTx EXCEPT ![n] = postings]
        /\ currency' = [currency EXCEPT ![c] = r.currency]
    BY Zenon, <1>1 DEF Accepted
  <2>2. /\ postingsByTx \in [1..MaxTx -> Seq(PostingSet)]
        /\ currency \in [Accounts -> Currencies \cup {NoCurrency}]
        /\ nextTransactionID \in 0..MaxTx
    BY Zenon DEF TypeInv, TypeOK
  <2>3. nextTransactionID \in Int /\ n > nextTransactionID
    BY <2>2
  <2> QED
    BY Zenon, <2>1, <2>2, <2>3
<1>4. Reports(e, tx) /\ Pair(postings, tx, c)
  BY Zenon, ChargeWrites
<1>5. tx.id = n /\ tx.currency = r.currency
  BY Zenon DEF NewTx
<1>6. Appended(transactionsByAcct', transactionsByAcct, c, tx)
  <2>1. transactionsByAcct \in [Accounts -> Seq(Transaction)]
    BY Zenon DEF TypeInv, TypeOK
  <2>2. transactionsByAcct' = [transactionsByAcct EXCEPT ![c] = Append(transactionsByAcct[c], tx)]
    BY Zenon, <1>1 DEF Accepted
  <2> QED
    BY Zenon, <1>2, <1>3, <2>1, <2>2, AppendsOne
<1>7. Appended(auditTrail', auditTrail, c, e)
  <2>1. auditTrail \in [Accounts -> Seq(AuditEvent)]
    BY Zenon DEF TypeInv, TypeOK
  <2>2. auditTrail' = [auditTrail EXCEPT ![c] = Append(auditTrail[c], e)]
    BY Zenon, <1>1 DEF Accepted
  <2> QED
    BY Zenon, <1>2, <1>3, <2>1, <2>2, AppendsOne
<1>8. \A b \in Accounts : \A i \in 1..Len(transactionsByAcct[b]) :
          transactionsByAcct[b][i].id \in 1..nextTransactionID
  <2> TAKE b \in Accounts
  <2> TAKE i \in 1..Len(transactionsByAcct[b])
  <2>1. transactionsByAcct[b] \in Seq(Transaction)
    BY Zenon DEF TypeInv, TypeOK
  <2>2. transactionsByAcct[b][i] \in Transaction
    BY Zenon, <2>1, ElementOfSeq
  <2>3. transactionsByAcct[b][i].id <= nextTransactionID
    BY Zenon DEF JournalInv, DrawnIds
  <2> QED
    <3>1. transactionsByAcct[b][i].id \in 1..MaxTx /\ nextTransactionID \in Int
      BY Zenon, <1>3, <2>2 DEF Transaction
    <3> QED
      BY <2>3, <3>1
<1> HIDE DEF c, tx, e, n
\* An entry of the new journal is an old one or the new one.
<1>9. ASSUME NEW b \in Accounts, NEW i \in 1..Len(transactionsByAcct'[b])
      PROVE  \/ /\ i \in 1..Len(transactionsByAcct[b])
                /\ transactionsByAcct'[b][i] = transactionsByAcct[b][i]
             \/ /\ b = c /\ i = Len(transactionsByAcct[b]) + 1
                /\ transactionsByAcct'[b][i] = tx
  BY <1>6 DEF Appended
<1>10. TransactionsMatchAudit'
  <2>1. \A b \in Accounts :
            /\ Len(transactionsByAcct[b]) = Len(auditTrail[b])
            /\ \A i \in 1..Len(auditTrail[b]) : Reports(auditTrail[b][i], transactionsByAcct[b][i])
    BY Zenon DEF JournalInv, JournalsAgree, TransactionsMatchAudit
  <2>2. ASSUME NEW b \in Accounts
        PROVE  Len(transactionsByAcct'[b]) = Len(auditTrail'[b])
    BY <1>6, <1>7, <2>1 DEF Appended
  <2>3. ASSUME NEW b \in Accounts, NEW i \in 1..Len(auditTrail'[b])
        PROVE  Reports(auditTrail'[b][i], transactionsByAcct'[b][i])
    <3>1. CASE i \in 1..Len(auditTrail[b])
      BY Zenon, <1>6, <1>7, <2>1, <3>1 DEF Appended
    <3>2. CASE b = c /\ i = Len(auditTrail[b]) + 1
      BY Zenon, <1>4, <1>6, <1>7, <2>1, <3>2 DEF Appended
    <3>3. i \in 1..Len(auditTrail[b]) \/ (b = c /\ i = Len(auditTrail[b]) + 1)
      BY <1>7 DEF Appended
    <3> QED
      BY Zenon, <3>1, <3>2, <3>3
  <2> QED
    BY Zenon, <2>2, <2>3 DEF TransactionsMatchAudit
<1>11. ASSUME NEW b \in Accounts, NEW i \in 1..Len(transactionsByAcct'[b])
       PROVE  Pair(postingsByTx'[transactionsByAcct'[b][i].id], transactionsByAcct'[b][i], b)
  <2>1. CASE /\ i \in 1..Len(transactionsByAcct[b])
             /\ transactionsByAcct'[b][i] = transactionsByAcct[b][i]
    <3>1. Pair(postingsByTx[transactionsByAcct[b][i].id], transactionsByAcct[b][i], b)
      BY Zenon, <2>1 DEF JournalInv, JournalsAgree, PostingsMatchTransactions
    <3>2. transactionsByAcct[b][i].id \in 1..nextTransactionID
      BY Zenon, <1>8, <2>1
    <3>3. transactionsByAcct[b][i].id \in 1..MaxTx /\ transactionsByAcct[b][i].id # n
      <4>1. nextTransactionID \in Int /\ n = nextTransactionID + 1 /\ n <= MaxTx
        BY <1>3 DEF n
      <4> QED
        BY <3>2, <4>1, ConstantsAssumption
    <3>4. postingsByTx'[transactionsByAcct[b][i].id] = postingsByTx[transactionsByAcct[b][i].id]
      BY Zenon, <1>3, <3>3
    <3> QED
      BY Zenon, <2>1, <3>1, <3>4
  <2>2. CASE b = c /\ transactionsByAcct'[b][i] = tx
    <3>1. postingsByTx'[n] = postings
      BY Zenon, <1>3
    <3> QED
      BY Zenon, <1>4, <1>5, <2>2, <3>1
  <2> QED
    BY Zenon, <1>9, <2>1, <2>2
<1>12. ASSUME NEW m \in 1..MaxTx, postingsByTx'[m] # <<>>
       PROVE  \E b \in Accounts : \E i \in 1..Len(transactionsByAcct'[b]) :
                  transactionsByAcct'[b][i].id = m
  <2>1. CASE m = n
    <3>1. /\ Len(transactionsByAcct[c]) + 1 \in 1..Len(transactionsByAcct'[c])
          /\ transactionsByAcct'[c][Len(transactionsByAcct[c]) + 1] = tx
      BY <1>2, <1>6 DEF Appended
    <3> QED
      BY Zenon, <1>2, <1>5, <2>1, <3>1
  <2>2. CASE m # n
    <3>1. postingsByTx[m] # <<>>
      BY Zenon, <1>3, <1>12, <2>2
    <3>2. PICK b \in Accounts : \E i \in 1..Len(transactionsByAcct[b]) :
              transactionsByAcct[b][i].id = m
      BY Zenon, <3>1 DEF JournalInv, JournalsAgree, PostingsMatchTransactions
    <3>3. PICK i \in 1..Len(transactionsByAcct[b]) : transactionsByAcct[b][i].id = m
      BY Zenon, <3>2
    <3>4. /\ i \in 1..Len(transactionsByAcct'[b])
          /\ transactionsByAcct'[b][i] = transactionsByAcct[b][i]
      BY <1>6 DEF Appended
    <3> QED
      BY Zenon, <3>3, <3>4
  <2> QED
    BY Zenon, <2>1, <2>2
<1>13. PostingsMatchTransactions'
  BY Zenon, <1>11, <1>12 DEF PostingsMatchTransactions
<1>14. OneCurrency'
  <2> SUFFICES ASSUME NEW b \in Accounts, NEW i \in 1..Len(transactionsByAcct'[b])
               PROVE  transactionsByAcct'[b][i].currency = currency'[b]
    BY Zenon DEF OneCurrency
  <2>1. CASE /\ i \in 1..Len(transactionsByAcct[b])
             /\ transactionsByAcct'[b][i] = transactionsByAcct[b][i]
    <3>1. currency'[b] = currency[b]
      BY Zenon, <1>2, <1>3, <2>1, CurrencyFixed DEF JournalInv, JournalsAgree, c
    <3> QED
      BY Zenon, <2>1, <3>1 DEF JournalInv, JournalsAgree, OneCurrency
  <2>2. CASE b = c /\ transactionsByAcct'[b][i] = tx
    BY Zenon, <1>3, <1>5, <2>2
  <2> QED
    BY Zenon, <1>9, <2>1, <2>2
<1>15. DrawnIds'
  <2> SUFFICES ASSUME NEW b \in Accounts, NEW i \in 1..Len(transactionsByAcct'[b])
               PROVE  transactionsByAcct'[b][i].id <= n
    BY Zenon, <1>3 DEF DrawnIds
  <2>1. CASE /\ i \in 1..Len(transactionsByAcct[b])
             /\ transactionsByAcct'[b][i] = transactionsByAcct[b][i]
    <3>1. transactionsByAcct[b][i].id \in 1..nextTransactionID
      BY Zenon, <1>8, <2>1
    <3> QED
      BY <1>3, <2>1, <3>1
  <2>2. CASE transactionsByAcct'[b][i] = tx
    BY <1>3, <1>5, <2>2
  <2> QED
    BY Zenon, <1>9, <2>1, <2>2
<1> QED
  BY Zenon, <1>10, <1>13, <1>14, <1>15 DEF JournalInv, JournalsAgree

\* JournalsAgree is inductive with DrawnIds, relative to the type invariant.
LEMMA JournalStep == TypeInv /\ JournalInv /\ [Next]_vars => JournalInv'
<1> SUFFICES ASSUME TypeInv, JournalInv, [Next]_vars
             PROVE  JournalInv'
  BY Zenon
<1>1. CASE UNCHANGED <<currency, transactionsByAcct, postingsByTx, auditTrail, nextTransactionID>>
  <2>1. TransactionsMatchAudit'
    BY <1>1, Zenon DEF JournalInv, JournalsAgree, TransactionsMatchAudit
  <2>2. PostingsMatchTransactions'
    BY Zenon, <1>1, PostingsKept DEF JournalInv, JournalsAgree
  <2>3. OneCurrency' /\ DrawnIds'
    BY <1>1, Zenon DEF JournalInv, JournalsAgree, OneCurrency, DrawnIds
  <2> QED
    BY Zenon, <2>1, <2>2, <2>3 DEF JournalInv, JournalsAgree
<1>2. nextTransactionID \in Int
  BY DEF TypeInv, TypeOK
<1>3. ASSUME NEW r \in Requests, NEW ok \in BOOLEAN, Insufficient(r, ok)
      PROVE  JournalInv'
  BY <1>2, <1>3, JournalsKept DEF Insufficient
<1>4. ASSUME NEW r \in Requests, NEW amount \in Int, NEW delta \in Int, NEW postings,
             Charge(r, amount, delta, postings), AuditUnavailable(r, amount, delta, postings)
      PROVE  JournalInv'
  <2>1. UNCHANGED <<transactionsByAcct, postingsByTx>>
    BY Zenon, <1>4, RollbackRestores
  <2>2. /\ Fresh(r) /\ getOrCreateAccount(r) /\ auditTrail' = auditTrail
        /\ nextTransactionID' = nextTransactionID + 1
    BY Zenon, <1>4 DEF AuditUnavailable
  <2> QED
    BY <1>2, <2>1, <2>2, JournalsKept
<1>5. CASE Next
  <2>1. CASE Tick \/ \E r \in Requests : Unmoved(r)
    BY Zenon, <1>1, <2>1 DEF Tick, Unmoved, Books
  <2> QED
    BY Zenon, <1>3, <1>4, <1>5, <2>1, StepCases, JournalsGrow DEF TypeInv, StepKind
<1> QED
  BY Zenon, <1>1, <1>5 DEF vars

\* Transactions, postings, audit events and currency of an account agree, whatever was
\* retried, denied or rolled back (appendAudit and the rollback after it, getOrCreateAccount).
THEOREM JournalsSound == Spec => []JournalsAgree
<1>1. Init => JournalInv
  <2> SUFFICES ASSUME Init PROVE JournalInv
    BY Zenon
  <2>1. \A a \in Accounts : /\ Len(transactionsByAcct[a]) = 0 /\ Len(auditTrail[a]) = 0
                            /\ 1..Len(transactionsByAcct[a]) = {} /\ 1..Len(auditTrail[a]) = {}
    <3>1. \A a \in Accounts : transactionsByAcct[a] = <<>> /\ auditTrail[a] = <<>>
      BY Zenon DEF Init
    <3>2. Len(<<>>) = 0 /\ 1..0 = {}
      OBVIOUS
    <3> QED
      BY Zenon, <3>1, <3>2
  <2>2. \A n \in 1..MaxTx : postingsByTx[n] = <<>>
    BY Zenon DEF Init
  <2> QED
    BY Zenon, <2>1, <2>2 DEF JournalInv, JournalsAgree, TransactionsMatchAudit,
                      PostingsMatchTransactions, OneCurrency, DrawnIds
<1>2. Spec => []TypeInv
  BY TypeInvInit, TypeInvStep, PTL DEF Spec
<1>3. JournalInv => JournalsAgree
  BY Zenon DEF JournalInv
<1> QED
  BY <1>1, <1>2, <1>3, JournalStep, PTL DEF Spec

-----------------------------------------------------------------------------
(* The lockout.                                                              *)

\* A fresh request is not for a locked account, and the answer to it concerns no other one.
LEMMA FreshElsewhere ==
    ASSUME TypeInv, NEW r \in Requests, Fresh(r), NEW a \in Accounts, eftLocked(a), NEW response,
           byIdempotency' = [byIdempotency EXCEPT ![Id(r)] = response]
    PROVE  /\ a # r.account
           /\ \A i \in Ids : i[1] = a => byIdempotency'[i] = byIdempotency[i]
<1>1. a # r.account
  BY Zenon DEF Fresh, Admitted
<1>2. ASSUME NEW i \in Ids, i[1] = a
      PROVE  byIdempotency'[i] = byIdempotency[i]
  <2>1. Id(r)[1] = r.account
    BY Zenon DEF Id
  <2>2. i # Id(r)
    BY Zenon, <1>1, <1>2, <2>1
  <2>3. byIdempotency \in [Ids -> Response]
    BY Zenon DEF TypeInv, TypeOK
  <2> QED
    BY Zenon, <2>2, <2>3
<1> QED
  BY Zenon, <1>1, <1>2

\* No step of the service touches a locked account.
LEMMA LockedFrozen ==
    ASSUME TypeInv, [Next]_vars, NEW a \in Accounts, eftLocked(a)
    PROVE  Frozen(a)
<1>1. CASE UNCHANGED <<available, Fraud, byIdempotency>>
  BY Zenon, <1>1 DEF Fraud, Frozen
<1>2. /\ available \in [Accounts -> Int]
      /\ eftFraudFailures \in [Accounts -> Nat]
      /\ eftFraudLockedUntil \in [Accounts -> Nat]
  BY Zenon DEF TypeInv, TypeOK
<1>3. ASSUME NEW r \in Requests, NEW ok \in BOOLEAN, Insufficient(r, ok)
      PROVE  Frozen(a)
  <2>1. a # r.account /\ \A i \in Ids : i[1] = a => byIdempotency'[i] = byIdempotency[i]
    BY Zenon, <1>3, FreshElsewhere DEF Insufficient
  <2> QED
    BY Zenon, <1>2, <1>3, <2>1 DEF Frozen, Insufficient, recordEFTFailure
<1>4. ASSUME NEW r \in Requests, NEW amount \in Int, NEW delta \in Int, NEW postings,
             Charge(r, amount, delta, postings), Accept(r, amount, delta, postings)
      PROVE  Frozen(a)
  <2>1. Fresh(r) /\ resetEFTFailures(r.account)
    BY Zenon, <1>4 DEF Accept
  <2>2. /\ available' = [available EXCEPT ![r.account] = After(r, delta)]
        /\ byIdempotency' = [byIdempotency EXCEPT ![Id(r)] = reply'.response]
    <3>1. Accepted(r, amount, delta, postings)
      BY Zenon, <1>4, AcceptEffect
    <3> QED
      BY Zenon, <3>1 DEF Accepted
  <2>3. a # r.account /\ \A i \in Ids : i[1] = a => byIdempotency'[i] = byIdempotency[i]
    BY Zenon, <2>1, <2>2, FreshElsewhere
  <2> QED
    BY Zenon, <1>2, <2>1, <2>2, <2>3 DEF Frozen, resetEFTFailures
<1>5. ASSUME NEW r \in Requests, NEW amount \in Int, NEW delta \in Int, NEW postings,
             Charge(r, amount, delta, postings), AuditUnavailable(r, amount, delta, postings)
      PROVE  Frozen(a)
  BY Zenon, <1>1, <1>5, RollbackRestores DEF AuditUnavailable
<1>6. CASE Next
  <2>1. CASE Tick \/ \E r \in Requests : Unmoved(r)
    BY Zenon, <1>1, <2>1 DEF Tick, Unmoved, Books
  <2> QED
    BY Zenon, <1>3, <1>4, <1>5, <1>6, <2>1, StepCases DEF TypeInv, StepKind
<1> QED
  BY Zenon, <1>1, <1>6 DEF vars, Fraud

\* A step that leaves answers and counts alone has nothing to do with later failures.
LEMMA QuietCounts ==
    ASSUME NEW a \in Accounts, UNCHANGED <<byIdempotency, eftFraudFailures>>,
           eftFraudFailures \in [Accounts -> Nat]
    PROVE  ~Settles(a, "DENIED") /\ ~(eftFraudFailures'[a] < eftFraudFailures[a])
<1>1. eftFraudFailures[a] \in Nat
  BY Zenon
<1>2. ~(eftFraudFailures[a] < eftFraudFailures[a])
  BY <1>1
<1> QED
  BY Zenon, <1>2 DEF Settles

\* A failure at the limit or beyond locks, and only a success takes the count down.
LEMMA FailuresLock ==
    ASSUME TypeInv, [Next]_vars, NEW a \in Accounts
    PROVE  /\ Settles(a, "DENIED") /\ eftFraudFailures[a] + 1 >= MaxFailures => eftLocked(a)'
           /\ eftFraudFailures'[a] < eftFraudFailures[a] => Settles(a, "OK")
<1>1. /\ byIdempotency \in [Ids -> Response] /\ now \in Nat
      /\ eftFraudFailures \in [Accounts -> Nat] /\ eftFraudLockedUntil \in [Accounts -> Nat]
  BY DEF TypeInv, TypeOK
<1> DEFINE Goal == /\ Settles(a, "DENIED") /\ eftFraudFailures[a] + 1 >= MaxFailures
                          => eftLocked(a)'
                   /\ eftFraudFailures'[a] < eftFraudFailures[a] => Settles(a, "OK")
<1>2. UNCHANGED <<byIdempotency, eftFraudFailures>> => Goal
  BY Zenon, <1>1, QuietCounts
<1>3. ASSUME NEW r \in Requests, NEW ok \in BOOLEAN, Insufficient(r, ok)
      PROVE  Goal
  <2>1. /\ recordEFTFailure(r.account) /\ now' = now
        /\ \E response : byIdempotency' = [byIdempotency EXCEPT ![Id(r)] = response]
    BY Zenon, <1>3 DEF Insufficient
  <2>2. Settles(a, "DENIED") => a = r.account
    <3>1. \A i \in Ids : i # Id(r) => byIdempotency'[i] = byIdempotency[i]
      BY Zenon, <1>1, <2>1
    <3>2. Id(r)[1] = r.account
      BY Zenon DEF Id
    <3> QED
      BY Zenon, <3>1, <3>2 DEF Settles
  <2>3. a = r.account /\ eftFraudFailures[a] + 1 >= MaxFailures => eftLocked(a)'
    <3>1. SUFFICES ASSUME a = r.account, eftFraudFailures[a] + 1 >= MaxFailures
                   PROVE  eftLocked(a)'
      BY Zenon
    <3>2. eftFraudLockedUntil'[a] = now + LockoutTTL
      BY Zenon, <1>1, <2>1, <3>1 DEF recordEFTFailure
    <3>3. now + LockoutTTL > now
      BY <1>1, ConstantsAssumption
    <3> QED
      BY Zenon, <2>1, <3>2, <3>3 DEF eftLocked
  <2>4. ~(eftFraudFailures'[a] < eftFraudFailures[a])
    <3>1. eftFraudFailures'[a] \in {eftFraudFailures[a], eftFraudFailures[a] + 1}
      BY Zenon, <1>1, <2>1 DEF recordEFTFailure
    <3>2. eftFraudFailures[a] \in Nat
      BY Zenon, <1>1
    <3> QED
      BY <3>1, <3>2
  <2> QED
    BY Zenon, <2>2, <2>3, <2>4
<1>4. ASSUME NEW r \in Requests, NEW amount \in Int, NEW delta \in Int, NEW postings,
             Charge(r, amount, delta, postings), Accept(r, amount, delta, postings)
      PROVE  Goal
  <2>1. /\ Id(r) \in Ids /\ reply'.response.code = "OK"
        /\ byIdempotency' = [byIdempotency EXCEPT ![Id(r)] = reply'.response]
    <3>1. Accepted(r, amount, delta, postings)
      BY Zenon, <1>4, AcceptEffect
    <3> QED
      BY Zenon, <3>1 DEF Accepted
  <2>2. Fresh(r) /\ resetEFTFailures(r.account)
    BY Zenon, <1>4 DEF Accept
  <2>3. /\ byIdempotency'[Id(r)] = reply'.response
        /\ \A i \in Ids : i # Id(r) => byIdempotency'[i] = byIdempotency[i]
    BY Zenon, <1>1, <2>1
  <2>4. ~Settles(a, "DENIED")
    BY Zenon, <2>1, <2>3 DEF Settles
  <2>5. a = r.account => Settles(a, "OK")
    <3>1. byIdempotency[Id(r)].code = "NONE"
      BY <2>2 DEF Fresh, NoResponse
    <3>2. Id(r)[1] = r.account
      BY Zenon DEF Id
    <3> QED
      BY Zenon, <2>1, <2>3, <3>1, <3>2 DEF Settles
  <2>6. a # r.account => ~(eftFraudFailures'[a] < eftFraudFailures[a])
    <3>1. SUFFICES ASSUME a # r.account PROVE ~(eftFraudFailures'[a] < eftFraudFailures[a])
      BY Zenon
    <3>2. eftFraudFailures'[a] = eftFraudFailures[a] /\ eftFraudFailures[a] \in Nat
      BY Zenon, <1>1, <2>2, <3>1 DEF resetEFTFailures
    <3> QED
      BY <3>2
  <2> QED
    BY Zenon, <2>4, <2>5, <2>6
<1>5. ASSUME NEW r \in Requests, NEW amount \in Int, NEW delta \in Int, NEW postings,
             Charge(r, amount, delta, postings), AuditUnavailable(r, amount, delta, postings)
      PROVE  Goal
  BY Zenon, <1>2, <1>5 DEF AuditUnavailable, Fraud
<1>6. ASSUME Next PROVE Goal
  <2>1. Tick \/ (\E r \in Requests : Unmoved(r)) => Goal
    BY Zenon, <1>2 DEF Tick, Unmoved, Books, Fraud
  <2> HIDE DEF Goal
  <2> QED
    BY Zenon, <1>3, <1>4, <1>5, <1>6, <2>1, StepCases DEF TypeInv, StepKind
<1> QED
  BY Zenon, <1>2, <1>6 DEF vars

\* While an account is locked out nothing about it moves, and only the clock ends a lockout;
\* past the limit every failure locks again, until an operation succeeds (recordEFTFailure,
\* resetEFTFailures and the lockout check of the four handlers).
THEOREM LockoutFreezes == Spec => LockoutHolds
<1>1. Spec => []TypeInv
  BY TypeInvInit, TypeInvStep, PTL DEF Spec
<1>2. TypeInv /\ [Next]_vars =>
          [\A a \in Accounts :
               /\ eftLocked(a) => Frozen(a)
               /\ Settles(a, "DENIED") /\ eftFraudFailures[a] + 1 >= MaxFailures => eftLocked(a)'
               /\ eftFraudFailures'[a] < eftFraudFailures[a] => Settles(a, "OK")]_vars
  BY Zenon, LockedFrozen, FailuresLock
<1> QED
  BY <1>1, <1>2, PTL DEF Spec, LockoutHolds

=============================================================================
