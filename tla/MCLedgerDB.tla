----------------------------- MODULE MCLedgerDB -----------------------------
(* Model-checking instances of LedgerDB. *)
EXTENDS LedgerDB, TLC

\* Nothing in LedgerDB names a client, a process or a key.
Interchangeable == Permutations(Clients) \cup Permutations(Processes) \cup Permutations(Keys)

=============================================================================
