-------------------------- MODULE IdempotentLedger --------------------------
(***************************************************************************)
(* What LedgerService promises its clients.  A request is identified by    *)
(* its account, operation and idempotency key; it is settled at most once, *)
(* with one effect on the balance of its account (none, when it is         *)
(* denied), and a settlement never takes a balance below zero.             *)
(***************************************************************************)
EXTENDS Integers

CONSTANTS
    Accounts,
    Ids,       \* request identities: tuples whose first component is the account
    Effects    \* the amounts, signed, a settlement may move

VARIABLES balance, outcome

vars == <<balance, outcome>>

Open == [settled |-> FALSE, effect |-> 0]

Init ==
    /\ balance = [a \in Accounts |-> 0]
    /\ outcome = [i \in Ids |-> Open]

Settle(i, n) ==
    /\ ~outcome[i].settled
    /\ balance[i[1]] + n >= 0
    /\ balance' = [balance EXCEPT ![i[1]] = @ + n]
    /\ outcome' = [outcome EXCEPT ![i] = [settled |-> TRUE, effect |-> n]]

Next == \E i \in Ids, n \in Effects : Settle(i, n)

Spec == Init /\ [][Next]_vars

=============================================================================
