--------------------------- MODULE MCIdentityAudit ---------------------------
(***************************************************************************)
(* Model-checking instances of Identity and of AuditChain, which share no  *)
(* state: one of the two runs, and the other stays as it begins.           *)
(***************************************************************************)
EXTENDS Identity, AuditChain, TLC

VARIABLE running

runVars == <<running, vars, auditVars>>

\* In memory; on a database, one process or two, with more tokens or more time
SupportedDeployments ==
    LET One == {{p} : p \in Processes} IN
    UNION {[db : {FALSE}, servers : One,         rateMax : {0, 3}, tokens : {3}, time : {2}],
           [db : {TRUE},  servers : One,         rateMax : {3},    tokens : {3}, time : {0}],
           [db : {TRUE},  servers : One,         rateMax : {3},    tokens : {2}, time : {2}],
           [db : {TRUE},  servers : {Processes}, rateMax : {3},    tokens : {2}, time : {0}],
           [db : {TRUE},  servers : {Processes}, rateMax : {3},    tokens : {1}, time : {1}]}

\* Nothing in Identity or AuditChain names a process.
Interchangeable == Permutations(Processes)

RunInit ==
    /\ Init /\ AuditInit
    /\ \/ running = "identity"
       \/ running = "audit" /\ UseDB /\ Servers = Processes /\ now = deployment.time
          /\ credentials = [a \in Actors |-> None]

RunNext ==
    \/ running = "identity" /\ Next /\ UNCHANGED <<running, auditVars>>
    \/ running = "audit" /\ AuditNext /\ UNCHANGED <<running, vars>>

RunSpec == RunInit /\ [][RunNext]_runVars

=============================================================================
