------------------------------ MODULE MCAccess ------------------------------
(* Model-checking instances of Access. *)
EXTENDS Access, TLC

Alice == [id |-> "alice", type |-> "ACTOR_TYPE_PLAYER"]
Olga  == [id |-> "olga", type |-> "ACTOR_TYPE_OPERATOR"]

OneKey == [active |-> "a", keys |-> [a |-> "s1"]]

\* One key; the next key beside it; the next key alone; the first key's secret replaced; a
\* blank secret for the active key; no file
KeysetContents ==
    {OneKey,
     [active |-> "b", keys |-> [a |-> "s1", b |-> "s2"]],
     [active |-> Blank, keys |-> [default |-> "s2", a |-> Blank]],
     [active |-> "a", keys |-> [a |-> "s3"]],
     [active |-> "b", keys |-> [a |-> "s1", b |-> Blank]],
     Unreadable}

CheckedActors == {Alice, Olga}

Login == <<"IdentityService", "Login">>

Strict == [strict |-> TRUE, strictExternal |-> TRUE, db |-> TRUE, tls |-> TRUE, file |-> TRUE,
           command |-> FALSE, refreshes |-> TRUE, spec |-> FALSE, defaultSecret |-> TRUE,
           cap |-> 1, contents |-> {OneKey}, clients |-> {"c1"}, rpcs |-> {Login},
           watch |-> FALSE, tokens |-> 1, accesses |-> 0,
           rotations |-> 0, starts |-> 1]

Dev == [Strict EXCEPT !.strict = FALSE, !.strictExternal = FALSE, !.db = FALSE, !.tls = FALSE,
                      !.file = FALSE]

CheckedDeployments ==
    { \* the key set rotates under calls of a player
     [Strict EXCEPT !.contents = KeysetContents, !.rotations = 2,
                    !.rpcs = {Login, <<"LedgerService", "Deposit">>}],
      \* it is printed by a command, or never loaded again
     [Strict EXCEPT !.contents = KeysetContents, !.rotations = 1,
                    !.command = TRUE, !.file = FALSE],
     [Strict EXCEPT !.contents = KeysetContents, !.rotations = 1, !.refreshes = FALSE],
      \* calls that hang, and a stream that stays, while the process stops
     [Strict EXCEPT !.clients = {"c1", "c2"}, !.watch = TRUE, !.starts = 2,
                    !.rpcs = {Login, <<"LedgerService", "Deposit">>,
                              <<"LedgerService", "GetBalance">>}],
      \* administration with restarts; by two clients; without strict mode; without a database
     [Strict EXCEPT !.accesses = 2, !.starts = 2,
                    !.rpcs = {Login, <<"AuditService", "ListAuditEvents">>}],
     [Strict EXCEPT !.clients = {"c1", "c2"}, !.accesses = 2,
                    !.rpcs = {Login, <<"AuditService", "ListAuditEvents">>}],
     [Dev EXCEPT !.db = TRUE, !.spec = TRUE, !.accesses = 2,
                 !.rpcs = {Login, <<"ConfigService", "ApplyConfigChange">>}],
     [Dev EXCEPT !.clients = {"c1", "c2"}, !.accesses = 2,
                 !.rpcs = {Login, <<"ReportingService", "GenerateReport">>}],
      \* every method
     [Strict EXCEPT !.command = TRUE, !.file = FALSE, !.accesses = 1, !.rpcs = RPCs],
      \* configurations that are refused
     [Strict EXCEPT !.db = FALSE], [Strict EXCEPT !.file = FALSE], [Strict EXCEPT !.tls = FALSE]}

=============================================================================
