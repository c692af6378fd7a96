----------------------------- MODULE MCWagering -----------------------------
(* Model-checking instances of Wagering. *)
EXTENDS Wagering, TLC

\* Nothing in Wagering names a key or a payload.
Interchangeable == Permutations(Keys) \cup Permutations(Payloads)

\* Two wagers without a database; two wagers and a crash in strict mode; two processes
\* in strict mode on one database; and one process with the mirror, restarted once.
SupportedDeployments ==
    {[db |-> FALSE, mirror |-> TRUE,  servers |-> 1, wagers |-> 2, restarts |-> 0],
     [db |-> TRUE,  mirror |-> FALSE, servers |-> 1, wagers |-> 2, restarts |-> 1],
     [db |-> TRUE,  mirror |-> FALSE, servers |-> 2, wagers |-> 1, restarts |-> 0],
     [db |-> TRUE,  mirror |-> TRUE,  servers |-> 1, wagers |-> 1, restarts |-> 1]}

\* One process with the mirror, restarted once.
MirrorDeployment ==
    {[db |-> TRUE, mirror |-> TRUE, servers |-> 1, wagers |-> 1, restarts |-> 1]}

=============================================================================
