------------------------------ MODULE MCLedger ------------------------------
(* Model-checking instances of Ledger. *)
EXTENDS Ledger, TLC

\* Nothing in Ledger names a currency.
Interchangeable == Permutations(Currencies)

=============================================================================
