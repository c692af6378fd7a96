# Verification of open-rgs-go

TLA+ specifications of the Remote Gaming System services, the TLC runs that check
them on small instances, and TLAPS proofs of most of what the runs check, for every value
of the constants. All paths below are relative to the repository root; `server/` abbreviates
`internal/platform/server/`, `auth/`, `audit/` and `evidence/` likewise.

Reading order: `IdempotentLedger` and `Ledger`, then `LedgerDB`; `Routes` before `Access`;
`Sessions`, `Config` and `Events` before `Services`. The other modules are independent of
each other. `XProofs` goes with `X`.

    tlc -workers 2 -config MCLedger.cfg MCLedger                  # any run of the table below
    tlapm --cleanfp --threads 2 --stretch 1 LedgerProofs.tla      # any ...Proofs module

From nothing, on two threads, `PagingProofs` takes about a minute, `AccessProofs` two,
`LedgerProofs` three, `LedgerDBProofs` five, `WageringProofs` and `IdentityProofs` eight,
`AuditChainProofs` ten, `ServicesProofs` fifteen.

## 1. The system

`cmd/rgsd` starts one process with a gRPC server and a REST gateway. It holds one
object per service. Every service has the same shape:

* a mutex `s.mu`, held from the first read of state to the return of the handler
  (authorization and validation come before it in most handlers);
* in-memory maps: the store itself when there is no database, a cache or mirror of
  the tables when there is one;
* optionally a Postgres database, written by one or more separate statements or
  transactions per call;
* a flag `disableInMemory...` (set by strict production mode) that switches the maps
  off and leaves the tables only;
* an audit store of its own. The handler reads the outcome of the append and, in
  most services, answers ERROR when the append fails.

So there are three deployments of a service: memory, Postgres with maps, Postgres
in strict mode. The modules choose one in `Init` (`deployment`, `servers`), and
each property says for which of them it is stated.

Interactions: every service appends to the shared `audit_events` table and chains
it by hash; processes on one database meet in the tables only; after a crash a
process keeps nothing but the tables. No service calls another one, except that reports
read the tables, or the maps, of events and ledger. A call comes in by gRPC or by HTTP.
An interceptor or a middleware checks its token, for administrative HTTP paths after the
remote access guard has recorded it, and the handler resolves the actor first. A
goroutine of the process reloads the keys that sign and verify tokens. Beside the
process there is the evidence of a verification run: a script writes it, a tool signs
it, a validator accepts it.

### Inventory

| Part | Source | State | Operations that change it | What makes it hard | What must be right |
|---|---|---|---|---|---|
| Ledger, memory | `server/ledger_grpc.go` | accounts, transactions, postings, four idempotency maps, failure counts and lockouts | Deposit, Withdraw, TransferToDevice, TransferToAccount | rollback after an audit failure; partial transfers; retries; lockout | double entry, audit trail equals balance, once per key, no negative balance |
| Ledger, Postgres | `server/ledger_postgres.go`, `migrations/000002_...` | six tables, counters and caches per process | the same, as statements | stale reads, unique indexes, CHECK constraints, restarts, locking | the same, across processes and crashes |
| Wagering | `server/wagering_grpc.go`, `wagering_postgres.go` | wagers, idempotency answers, mirror | PlaceWager, SettleWager, CancelWager | wager and answer in two transactions; mirror against row | one outcome, one answer per key, OK is durable |
| Sessions | `server/sessions_grpc.go`, `sessions_postgres.go` | player sessions | StartSession, GetSession (touches and expires), EndSession | read and write in two statements; time | deadlines, finished is final |
| Audit chain | `audit/`, `server/audit_postgres.go` | `audit_events`, a memory store per service | append; verify (a read) | READ COMMITTED, clock and id order, rounding, jsonb | the chain is a chain; tampering is seen |
| Configuration | `server/config_grpc.go`, `config_postgres.go` | changes, current values, download log | Propose, Approve, Apply; RecordDownload | three statements per call; counter restarts | history only moves forward, values come from applied changes |
| Events and meters | `server/events_grpc.go`, `events_postgres.go` | records, bounded buffer, `disabled` | SubmitSignificantEvent, SubmitMeterSnapshot, SubmitMeterDelta | buffer at its limit, failures keep slots | slots accounted for, OK is stored and audited |
| Identity | `server/identity_grpc.go`, `identity_postgres.go` | credentials, refresh sessions, failures, rate windows | Login, RefreshToken, Logout, credential administration | rotation races, lockout windows | one live successor per refresh token, lockout holds |
| JWT keyset | `auth/`, `cmd/rgsd` | key sets of signer and verifier | reload, sign, verify | signer and verifier change one after the other | a token works as long as its key; a rotation comes through |
| Call path | `auth/`, `server/actor_context.go`, `gen/rgs/v1` | none | none | two transports with a list of open methods each; one method that resolves its actor differently | a call acts for the actor of its token |
| Remote access | `server/remote_access.go` | activity log, audit numbers | every administrative HTTP request | log at its cap, failing statements | nothing is served unrecorded in strict mode |
| Process | `cmd/rgsd/main.go` | up, stopping, down | start, stop, crash | two servers stopped one after the other | a stop ends |
| Registry, extensions, download log | `server/registry_*.go`, `extensions_*.go`, `config_*.go` | records in maps and tables | upserts and recordings | three writes in an order that differs by service; ids that restart | OK stays on record; rows and events agree |
| Reporting | `server/reporting_*.go` | report runs | GenerateReport | works after the unlock; reads other tables | a report covers its interval |
| Listings | all services | none | none | page tokens are offsets | following the tokens misses no row |
| Evidence | `evidence/`, `cmd/attest*`, `cmd/verifysummary`, `scripts/verify_evidence.sh` | files of a run | the steps of a run | files that contain each other's digests; mixed-up directories | accepted means: of one run, unchanged |
| Rest | `metrics.go`, `tls.go`, `system_*.go`, `cmd/credhash` | none another part reads | none | | |

## 2. Modules and how they correspond to the code

`PROJECT.json` maps every definition to its source lines. Definitions keep the
names of the Go functions where one definition stands for one function. Operators
whose comment begins with "Faulty" are deliberate defects, used by nothing in the
specifications; each replaces one definition to show that a property can fail.

**`IdempotentLedger`** is what the ledger promises its clients: a request identity
(account, operation, key) is settled at most once, with one effect on one balance,
never below zero. It knows nothing of audit, lockout or transactions.

**`Ledger`** is `LedgerService` without a database. A handler holds `s.mu`
throughout, so a call is one step: authorization, validation, lockout, lookup of the
key, the mutation, the audit append, and either the remembered answer or the
rollback (`Accept`, `AuditUnavailable`). Balances are added with int64 wrap-around.
`auditTrail[a]` is the projection of the store on the successful events of account
`a`. `ImplementsPromise` instantiates `IdempotentLedger` with `available` as the
balance and the remembered answers as the outcomes.

**`LedgerDB`** is the same service over Postgres. A call is `Enter` (takes `s.mu`,
checks the lockout, looks up the key), `Decide` (reads the balance, decides, appends
the audit event) and `Commit` (the transaction of rows, postings and balance updates
with its unique index and CHECK constraints, after which the call hangs, see below).
Any of them may return an error, and a commit may be reported as failed although it took
effect; `MaxLost` bounds how many of the first commits may be. `Restart` ends the calls of a process
and resets its counters and caches. Requests that fail before the lock are left to
`Ledger`.

**`Wagering`**, **`Config`** and **`Events`** have one action for each handler up to
its first write, and one action for each write. A write may fail, and where the code
cannot tell, its effect may have happened. `Restart` comes between any two writes.
`call` holds what the handler carries from one statement to the next.

**`Sessions`** separates the read of a session from its write, lets two processes
interleave between them, and has a clock. A crash loses the call in progress.

**`Identity`** has one action for each handler up to its first statement and one for
each later statement of `Login` (rate window, lockout, secret, failure or reset,
session, audit event, undo), `RefreshToken`, `Logout` and the administration of
credentials and lockouts. The sweep of expired sessions runs beside them without the
lock. Whether a secret matches is left open. `deadline`, `given`, `heirs` and
`loggedOut` are history: what the client was given and what became of it. `Exchanging` and
`LoggingIn` are the processes whose call has passed a check and not yet acted on it.

**`AuditChain`** runs the statements of `appendAuditEventToDB` (clock, lock of the
newest row, insert, memory append) for handlers of several services, and for denials
that append outside `s.mu`. `verifyAuditChain` is the verification as an operator.
Timestamps are rounded to the resolution of `timestamptz`, jsonb rewrites an object's
text, ids compare as decimal text. `Alter` changes a stored row outside the service,
which is what verification is there to notice. SHA-256 is modelled as injective.
`contested` is history: the ids that were taken when they were drawn.

**`Routes`** is the table of the API: the methods of the twelve services as the generated
service descriptors list them, and the HTTP path of each as the generated gateway
registers it (the part after `/v1/`).

**`Access`** follows a call from the wire to the service: `Arrive`, `logActivity` and
`appendAudit` of the guard where the path is administrative, `HTTPJWTMiddlewareWithSkips`
or `UnaryJWTInterceptor` with `resolveActor`, `serve`. Each is one step, so calls of
several clients interleave with each other, with the three steps of the reload loop
(`RefreshLoad`, `RefreshSigner`, `RefreshVerifier`), with `Rotate`, which replaces the
external key set, and with `Stop` and `Crash`. `Start` takes the checks of
`validateProductionRuntime`. A token carries the secret that signed it. `Logout` does not
call `resolveActor` and acts for the actor the request names (`namedActor`). A ledger call
over a database may hang (`Hangs`, after `LedgerDB`), and a client may hold the stream of
the health service (`Watch`, `Leave`). The guard's source is what `extractSourceIP` returns,
`X-Forwarded-For` included.

**`Records`** is the shape that registry, promotions, overlay, reporting and download log
share: a handler is the sequence of its writes, `UpsertEquipment == lock, read, draw,
audit, persist` and so on, and one action per kind of write takes the next element.
Statements fail with or without effect, refused calls draw audit numbers without the
lock, the process dies anywhere. Reports add what they are about: entries at the edges
of the interval, in the tables or in the maps, and the rows each `build...Payload`
selects from them.

**`Paging`** is one reader who follows the tokens of one listing while writers insert,
filter out and reorder rows. The twenty-two listings are records of their rule for the
next token (`full` after a page of the table that has the full size, `more` in memory),
of where new rows appear in their order, and of what may happen to a row.

**`Evidence`** runs `scripts/verify_evidence.sh` step by step, twice at the same time,
with the keys `attestkeygen` leaves, as files or as assignments, and `attestsign` and the
validator resolve: ring before single key, file before command before variable
(`resolveValueSource`, `resolveKey`). `ValidateSummaryArtifact`
is an operator over the files of a directory. After a run its files may be removed,
replaced by those of the other run, or the summary corrected by hand. Digests and
signatures are injective.

**`Services`** instantiates `Sessions`, `Config` and `Events`, which do not interact: its
variable `service` picks one of them at the start, and the variables of the others stay
`None`. It states what the three have in common (what is final stays, store and audit trail
agree), and it is what `ServicesProofs` proves about. **`MCServices`** adds `Records`,
`Paging` and `Evidence` in the same way and is what TLC runs; `RunningServices` selects the
services of a run.

**`MCIdentityAudit`** runs `Identity` or `AuditChain`, which share no state, in the same way.
**`MCLedgerDBLossy`** runs `LedgerDB` either with calls that overlap or with commits that are
reported as failed: both together are too many states, and are covered by the proofs.

The **`...Proofs`** modules hold the theorems (section 4). The other `MC...` modules define
symmetry sets and deployments.

## 3. What is model-checked

Passing runs. Deadlock is checked in all of them except three where the system really
may stop: a ledger process whose call hangs and that is not restarted (`MCLedgerDB`), a
process that is down for good or whose configuration is refused (`MCAccess`), and a
reader that has read its listing or an evidence run that is over (`MCServices`).

| Run | Instance | Distinct states |
|---|---|---|
| `MCLedger` | 1 account, its player, a stranger, an operator, 2 currencies, amounts 1 and 2, 3 transactions, lockout after the first failure and after each later one | 5.2 thousand |
| `MCLedgerDB` (module `MCLedgerDBLossy`) | 2 processes, 2 clients, 1 key, 1 restart, 3 commits; overlapping calls of 2 amounts, or one call at a time with a lost reply of the first commit | 1.4 million |
| `MCWagering` | memory; strict with a crash; two strict processes; mirror with a crash | 0.6 million |
| `MCIdentityAudit` | identity: 1 actor, a stranger, an operator, lockout after 2 failures; memory with 3 tokens and 3 instants; one process on a database with 3 tokens, or with 2 tokens and 3 instants; two processes with 2 tokens, or with 1 token and 2 instants; audit trail: a handler and a refused call, 3 rows, two days, 1 restart or rewritten row | 0.9 million |
| `MCAccess` | a rotating key set with six contents and 2 changes, read from a file; one printed by a command, and one never loaded again; ledger calls that hang and a health stream, with 2 clients and 2 lives; a guarded path over 2 lives of a strict process, and with 2 clients in one life, with a cap of 1 without a database; all methods over both transports; configurations that are refused | 0.25 million |
| `MCServices` | see below | 0.9 million |

`MCServices` is six instances: sessions of 2 players by 1 or 2 processes, timeouts default,
short and above the cap, 4 instants; configuration with 2 proposals per life and 2 values;
events with 1 event, 1 meter, 2 pieces of equipment, a buffer of 2, 3 slots; each kind of
record with 2 calls of 2 clients (3 for equipment), a refused call and a failed statement;
reports with 2 calls, with a call and a refused one, or about 2 entries; every listing with
up to 3 rows, 2 of them there at first, and pages of -1, 0, 1 and 3; two evidence runs on six
pairs of hosts, with two mishaps where the keys are a ring on both. The first four have up to one restart and the three
deployments, except that `Config` in strict mode is not restarted.

What they show:

* `MCLedger`. Balances, postings, transactions and audit events tell the same story,
  also after an audit failure was rolled back and after a transfer was cut to the balance,
  and all of an account's transactions are in one currency
  (`AuditTrailExplainsBalance`, `JournalsAgree`). A key takes effect once and keeps its
  answer, denials included (`RememberedForever`), and no balance is negative
  (`ImplementsPromise` covers both). A lockout freezes the account, every
  failure after it locks the account again, and only a success lowers the count
  (`LockoutHolds`).
* `MCLedgerDB`. Balances equal the postings, although withdrawals are decided on stale
  balances and the CHECK refuses some of them (`PostingsExplainBalances`). An OK taken
  from the tables means applied, and what was applied has its audit event, as long as one
  life of one process draws the audit numbers (`OKMeansApplied`). A request is applied
  twice only when a transaction number was used twice (`AppliedTwiceOnlyOnReuse`).
* `MCWagering`. In memory, wagers and remembered answers describe each other one to one
  (`AnswersDescribeWagers`). With one process in strict mode a finished row never changes
  (`FinishedRowsStay`), saved answers agree with the rows (`SavedAnswersDescribeRows`),
  and an OK is durable; there and in memory all OK answers under a key are the same
  (`OneAnswerPerKey`). With any database an audited outcome is durable, two processes
  included (`ToldIsDurable`).
* `MCIdentityAudit`, identity. A refresh token a client holds works until it expires, is
  exchanged or is logged out (`TokensHonoured`); the exchange is its commit, whether the
  answer arrives or not. Once the failures are used up each process lets at most
  one more guess through in a lockout period, however the calls of the processes interleave
  (`FailuresBounded`). Once a token is spent or an account locked no call passes the check
  any more; only calls of other processes that had passed it, at most one of each, still
  exchange the token, open a session or lift the lockout (`ClosedStays`). With one process
  there are none: a token is exchanged at most once, never after a logout, and no login gets
  past a lockout.
* `MCIdentityAudit`, audit trail. Every `hash_prev` names a stored row of its day or GENESIS;
  memory stores chain, and each of their events has its own row, unless its number was taken
  when it was drawn, by a call refused outside the lock or after a restart
  (`CopiesAreChained`). If verification says valid, nobody has rewritten a row of the day and
  the chain visits its rows one after the other; and it does say valid of such a day if its
  columns come back as they were hashed (`VerdictsAreRight`).
* `MCAccess`. An administrative HTTP call that is served has a trusted source and,
  in strict mode, its activity row and its audit event, whatever failed; after a restart the
  event may have been dropped, its number being taken (`AdminAccessIsRecorded`). Over either
  transport a call acts for the actor of its token, Logout for the one the request names,
  and only three methods need no token (`ActorsComeFromTokens`). A token whose key the signer
  still holds is accepted, except between the two halves of a reload (`SignedIsAccepted`).
  A key set whose file can be loaded comes to be used (`KeysetConverges`), and a stop ends
  unless a gRPC call hangs or a client stays on a stream (`StopCompletes`).
* `MCServices`. What is final stays: ended sessions while one process serves them,
  states of configuration changes whose id was not reused, the first record under an event
  id (`NothingIsUndone`). For sessions, configuration and events, what is stored and what is
  audited agree in the direction each order of writes allows (`AuditExplainsStore`). No session outlives its deadline or ends before it
  (`DeadlinesHold`), values in force come from applied changes (`ValuesComeFromChanges`),
  buffer slots are exactly the failed submissions and the one in progress
  (`BufferAccounts`). What was answered OK stays on record, across restarts that reuse ids,
  and there too rows and audit events agree as the order of writes allows
  (`OKIsRecorded`). A report has the entries of its interval (`ReportsCoverInterval`). A
  reader who follows the tokens misses no row that stayed where it was
  (`PagesCoverList`). A directory that validates is what one run signed, and its verdict
  that of the checks (`AcceptedIsOneRun`); what a run leaves validates
  (`FinishedRunIsAccepted`).

Bounds, and why they are enough. Two is the least number of clients, processes,
payloads or values that can disagree; the code treats all of them alike, which is
also why the symmetry sets are sound. One key suffices where an operation and
account complete the identity. One restart meets all rows of an earlier life, and a
second adds only another reset of the same counters. Three transactions allow a
credit, a debit and a retry of either; amounts 1 and 2 make a debit smaller than,
equal to and larger than the balance. A radix of 3 and three ids make a carry, where
text order and number order part. A buffer of 2 with 3 slots fills, drains and is used
again. Three tokens let a token be exchanged, and its successor too. Two changes of the
key set reach each of its contents from each other one. Three rows and pages of one to
three put the end of a page before, at and behind the end of the list; the proof covers
every other size. Two runs of the evidence script are needed to mix up their files, and
two mishaps to change a file together with one that vouches for it. Every bound is a
named constant, or a field of a deployment, in a guard.

Fairness. `LedgerDB!FairSpec` has weak fairness of `Enter`, `Decide` and `Commit` for
each client, since the Go runtime runs a goroutine that can run and the statements
return. `Access!Spec` has weak fairness of each step of a call that does not hang, for the
same reason; of the reload of a file and of its installation while the process is up, since
the ticker fires for as long as the process runs; and of the steps of a shutdown once the
signal has come. There is none for a command that prints the key set, which runs without a
timeout (`cmd/rgsd/main.go:142`), for a ledger call that hangs as `MCLedgerDBDeadlock` shows,
or for a client that holds a stream: `GracefulStop` has no bound and waits for both, and
`StopCompletes` says that nothing else holds a shutdown up. Starts, restarts, signals, crashes and changes of the key
set are never assumed to happen. Everything else is a safety property.

### Disagreements between the code and its documents

Each of these runs checks one statement of the documents or tests and TLC refutes
it. `PROJECT.json` quotes the lines.

| Run | Property | What happens |
|---|---|---|
| `MCLedgerDBDeadlock` | `CallsReturn` | `persistIdempotencyResponse` asks `getIdempotencyTTL`, which locks the mutex the handler already holds: a committed call never returns, and no later call of the process does (`ledger_postgres.go:282`). |
| `MCLedgerDBRetry` | `AppliedAtMostOnce` | Transaction numbers restart at 1 with the process. `ON CONFLICT (transaction_id) DO NOTHING` then skips the row that carries the idempotency index but not the postings: a Deposit applied so leaves no row, is not recognised when it is retried after one more restart, and is credited twice (`ledger_postgres.go:72`). |
| `MCWageringMirror` | `OneOutcomePerWager` | After a restart the mirror keeps a copy of the row while the handler changes another one, so a settled wager can be canceled (`wagering_grpc.go:334`). |
| `MCAuditChainFork` | `ChainVerifies` | `FOR UPDATE` on the newest row does not show a waiting append the row inserted meanwhile, and locks nothing on an empty day: two rows continue one hash (`audit_postgres.go:64`). |
| `MCAuditChainStored` | `ChainVerifies` | States are hashed as the bytes the service marshalled and come back from `jsonb` in another layout: a day with one event that has states does not verify (`audit_postgres.go:94`). |
| `MCDownloadLog` | `OperationsRetained` | Entry ids and audit numbers restart with the process. The event of the next download operation is dropped, its number being taken, and its row is written over the earlier one, of which it keeps the path: what is retained tells only the first operation in full (`audit_postgres.go:94`, `config_postgres.go:73`). |

Behaviours met while modelling that no run is about; they are in the models, and
they are the reason several properties are limited to one deployment, one process or
one life:

* int64 balances are added without an overflow check;
* change numbers of the configuration service restart like transaction numbers: the first
  proposal of a new process upserts over the row of the old `cfg-1` and sets an applied
  change back to proposed (`config_grpc.go:140`); `Config!reused` holds such ids and the
  properties exempt them;
* `rotateSession` does not look at the row it revokes (`identity_postgres.go:125`), so two
  processes can both exchange one refresh token; a login that passed the lockout check
  before another process locked the account still succeeds and lifts the lockout;
* a refresh whose audit event fails, or whose process dies after the commit, costs the
  client its session: the old token is spent and the new one was never handed out;
* logging out with a token that was already exchanged answers OK with a database, and
  leaves the successor alive; disabling a credential leaves its refresh sessions alive;
* with a database the first failure of an actor never locks, in memory it does when the
  limit is 1 (`identity_grpc.go:340`);
* audit numbers restart too, and an event whose number is taken is dropped and
  reported as written; denials draw numbers without the lock;
* the house account begins at zero under a non-negative CHECK, so a first deposit is
  refused unless it was funded (`Float`);
* an audit event is written before the data, so it may report a change that then
  failed;
* a wager whose answer was not saved is placed again by the retry;
* a session stays active, and a cached approval in force, after their audit event
  failed and the caller was told ERROR;
* two processes may overwrite each other's view of a session;
* hashed nanoseconds do not survive `timestamptz` either;
* Logout compares the actor the request names with that of the refresh session and never
  with that of the access token (`identity_grpc.go:588`), although the repository's `README.md:353` says
  "request `meta.actor` mismatch with token is denied"; `ActorsComeFromTokens` says what
  Logout does instead;
* a ledger call that hangs, or a client that stays on the health stream, keeps a process that
  was told to stop from stopping;
* failed submissions keep their buffer slot for the life of the process; in strict
  mode a changed resubmission is answered OK while the row keeps the first record;
  buffer rows of meter deltas carry the kind `meter_snapshot`;
* bonuses, awards and window events are stored before their audit event, so a record
  stays when the event fails and the caller is told ERROR;
* a report whose table cannot be read says "No Activity" (`reporting_grpc.go:208`), and a
  report or download row written after a restart mixes columns of two calls;
* an offset token misses a row when one in front of it left the list or moved behind it,
  as happens to equipment, awards, window events, downloads and report runs; rows with
  equal `recorded_at` have no order in the ledger's listing; the listing of remote access
  reads the newest 5000 rows only, and falls back to memory when the table cannot be read;
* between the two halves of a reload a token signed with the new key is refused;
* the assignments `attestkeygen` prints by default put a ring into the variable of the
  single key, which does not decode;
* the ten seconds of a shutdown begin before `GracefulStop`, which may use them up.

## 4. What is proved

Every theorem holds for all values of the constants that satisfy the module's
assumption on them (`ConstantsAssumption`, `AuditAssumption`): any number of processes, clients, keys, amounts and equipment, any
capacity, and any value of the bounds. Each proof follows the same plan. An inductive
invariant (`...Inv`) says what the property leaves unsaid about the calls in progress. One lemma per kind of step shows that it
is preserved, and the theorem combines them. Where a module has many actions, a lemma first
reduces `Next` to the few things a step can do to the stores (`StepCases`, `NextCases`,
`NextDoes`). Leaves cite `Zenon` where it is the prover that finds them, which saves the
attempt of the other; leaves with arithmetic are left to SMT.

### Ledger in memory (`LedgerProofs`)

| Theorem | Statement |
|---|---|
| `TypeCorrect` | `Spec => []TypeOK` |
| `AuditTrailSound` | `Spec => []AuditTrailExplainsBalance`: an account's events start at zero, join end to end and end at its balance |
| `MovesAreAudited` | `Spec => MoneyMovesAudited`: a balance moves only in the step that appends the event reporting that move, and alone |
| `AnswersRemembered` | `Spec => RememberedForever` |
| `OKRemembered` | `Spec => []AcknowledgedIsRemembered` |
| `JournalsSound` | `Spec => []JournalsAgree`: transactions, postings, audit events and currency of an account agree |
| `LockoutFreezes` | `Spec => LockoutHolds`: nothing about a locked account moves, and later failures lock it again |
| `BalancesNonNegative` | under `NoOverflow`, `Spec => []NonNegative` |
| `LedgerKeepsPromise` | under `NoOverflow`, `Spec => ImplementsPromise` |

`NoOverflow` says that the largest amount, as often as there are transactions, fits
the int64 range. The assumption is needed: without it two credits wrap around and
the balance is negative. The first seven theorems hold with wrap-around included.

The argument. `StepCases` splits `Next` into five kinds of step: nothing but the
answer changes, a denial is remembered, a mutation is accepted, a mutation is rolled
back, the clock moves. `TypeInv` is `TypeOK` with two additions that make it
inductive. `InRange` keeps balances within int64, and `UnusedIds` says that no
posting exists under a transaction number not yet drawn. Both are needed for
`RollbackRestores`: undoing an addition restores the balance only if it was in range
(`WrapBack`), and deleting the postings of the failed transaction restores the
postings only if there were none. After that lemma a rollback changes no books, and
`AcceptEffect` states once what an acceptance does. The other invariants each need
one case. Non-negative balances need one more strengthening, `Bounded`: a balance is
at most the number of transactions drawn times the largest amount. The refinement
uses `TypeInv` and `Bounded`: every step settles one open identity or leaves the
abstract state alone.

`JournalsAgree` needs `DrawnIds`: the number of a transaction in the books has been drawn,
so the postings of a new one never replace those of another. `JournalsGrow` is the case of
an acceptance, which appends a transaction and the event that reports it; `JournalsKept`
that of a denial or a rollback, which may give an account its currency but only before it
has transactions (`CurrencyFixed`). `LockoutHolds` follows from `Fresh`: only a fresh request
changes anything, and a request for a locked account is not fresh (`LockedFrozen`); what
failures after the limit do is `FailuresLock`.

### Ledger over Postgres (`LedgerDBProofs`)

| Theorem | Statement |
|---|---|
| `TypeCorrect` | `Spec => []TypeOK` |
| `BalancesExplained` | `Spec => []PostingsExplainBalances`: every balance, the house accounts' included, is the sum of its postings |
| `ReuseIsTheOnlyWay` | `Spec => []AppliedTwiceOnlyOnReuse` |
| `OKIsBacked` | `Spec => []OKMeansApplied` |

The argument. `TypeInv` adds to the types which client holds the mutex of which process
(`Mutex`): a call between lock and return owns the counters it draws from. Only a commit
touches the books (`BooksKept`), and `CommitEffect` states once what it does. The sum of
the postings is a recursive function, so that it follows them one by one is shown by way of
the least counterexample (`Smallest`, from the well-foundedness of the naturals): sums exist
(`SumsExist`), are unique (`SumsUnique`), and grow by one term when a posting is appended
(`PostedToAppend`). `AppliedInv` relates rows, applications and caches: a row is of an applied
request and has postings, and without a reused number an applied request has its row, so
the unique index refuses a second one. `OKMeansApplied` also counts events: `EventsFirst`
says that a call whose event is written and whose move is not has one event more than moves.

### Wagering (`WageringProofs`)

| Theorem | Statement |
|---|---|
| `WageringTypes` | `Spec => []TypeOK` |
| `ToldDurable` | `Spec => []ToldIsDurable` |
| `SavedAgree` | `Spec => []SavedAnswersDescribeRows` |
| `AnswersDescribe` | `Spec => []AnswersDescribeWagers` |
| `OneAnswer` | `Spec => []OneAnswerPerKey` |
| `FinishedStay` | `Spec => FinishedRowsStay` |

The argument. `FullInv` has a part for each deployment. `DurableInv`, with any database and
any number of processes: ids in use were drawn (`KnownIds`), a placed wager not yet written is
known to nobody else (`PlacedIsPrivate`), and a call has written what its place in the handler
says (`WrittenByThen`). `StrictInv`: the key of a call is unused until its answer is saved, and
the row it is about to finish is still pending, which is what a second process would break.
`MemoryInv` is the same about the maps, with one placement for every wager.

### Call path and keys (`AccessProofs`)

| Theorem | Statement |
|---|---|
| `AccessTypes` | `Spec => []TypeOK` |
| `AdminRecorded` | `Spec => []AdminAccessIsRecorded` |
| `ActorsFromTokens` | `Spec => []ActorsComeFromTokens` |
| `SignedAccepted` | `Spec => []SignedIsAccepted` |

The argument. `AccessInv` says of a call, by the place it has reached, what the guard has
recorded for it (`Recorded`) and whom it acts for (`Acting`), and that the signer is ahead of
the verifier only by the key set being installed (`KeysOK`). Which paths are administrative
and which methods open is computed from `Routes` once for all methods (`AdminPaths`,
`OpenPaths`). `GuardOK` is why the audit event is promised only in the first life: there no
number was taken before it was drawn.

### Identity (`IdentityProofs`)

| Theorem | Statement |
|---|---|
| `IdentityTypes` | `Spec => []TypeOK` |
| `Honoured` | `Spec => []TokensHonoured` |
| `FailuresAreBounded` | `Spec => []FailuresBounded` |
| `ClosedStay` | `Spec => ClosedStays` |

The argument. `NextDoes` reduces the handlers to eight kinds of step (`Walks`, `Tells`,
`Counts`, `Resets`, `Opens`, `Revokes`, `Rotates`, `TakesBack`). `Honour`: a token given out is
kept until its deadline, and a new one that is still with its call is known to no other call,
so undoing a login never takes back somebody else's session. `Spent` and `Lockout` say that not
every process is past the check of a spent token or of a locked account: the one that spent it
or locked it is not. `Guesses` is the bound on wrong
secrets: each process has had at most one failure in every lockout period, and a call that
is past the check while the account is locked has not had its own yet.

### Audit trail (`AuditChainProofs`)

| Theorem | Statement |
|---|---|
| `AuditTypes` | `AuditSpec => []AuditTypeOK` |
| `TrailIsChained` | `AuditSpec => []CopiesAreChained` |
| `TrailOnlyGrows` | `AuditSpec => [][HashesStay]_auditVars`: no step removes a row or changes its key, day or hashes |

The argument. `CopiesAreChained` is nearly inductive. Missing are that ids are keys of the
table (`Keyed`) and that the row an append has selected is still there, on the day of its event,
when the append continues it (`NewestIsStored`), which holds because rows are only added. That an
event has its own row needs `Contest`: an id that two appends hold, or an append and a row, was
taken when the later of them drew it. That
the table is a single chain does not follow and is false (`MCAuditChainFork`).

### Sessions, configuration, events (`ServicesProofs`)

| Theorem | Statement |
|---|---|
| `ServicesAreTyped` | `ServicesSpec => []ServicesTypes` |
| `SessionDeadlines` | `ServicesSpec => []DeadlinesHold` |
| `ValuesInForce` | `ServicesSpec => []ValuesComeFromChanges` |
| `BufferIsAccountedFor` | `ServicesSpec => []BufferAccounts` |
| `StoresAreAudited` | `ServicesSpec => []AuditExplainsStore` |
| `ServicesUndoNothing` | `ServicesSpec => NothingIsUndone` |

The argument. `ServicesInv` is the invariant of the service that runs. `SessionsInv`: sessions
in the store and in calls are within their deadlines and did not start in the future, and with
one process what a call has read is still what the store holds (`ReadIsFresh`). `ConfigInv`: of
a change whose id was drawn once, the map and the call are at or past the status of the row
(`Linked`); a change is written as applied before its value is (`ValuesInv`); and in strict
mode a call has the audit events of the earlier steps behind it (`Preceded`). `EventsInv`: the
slots in use are the failed submissions and the one in progress, whose slot is the last
(`Accounts`), and a call that is about to write its record has its event (`StoredInv`).

### Listings (`PagingProofs`)

| Theorem | Statement |
|---|---|
| `TokensCoverList` | `Spec => []PagesCoverList`: at the end of the tokens every row that stayed in place was seen unless a passed row left or moved behind the token, and no row was seen twice unless one came or moved in front of it |

The argument. The property speaks of the last page; the inductive invariant `PagingInv`
says what the token means before it. `Covering`: while nothing receded, a row that is due
and not seen is at or behind the token (`Ahead`). `Single`: while nothing shifted or
receded, every row seen is in front of the token (`Passed`). Both need
`Distinct`, that no row is twice in the list, and `Typed`. The lemmas say once what
inserting and removing at a place does to an arbitrary list: which index every other row
gets (`Inserted`, `Removed`), that rows stay distinct, and which rows lie from an index
on (`InsertedFrom`, `RemovedFrom`). They speak of the predicates `Inserts` and `Removes`,
which is what the provers can instantiate. `MoveStep` is then a removal followed by an
insertion. The step of the reader (`ReadStep`) rests on `PageRows`: a page is the rows
between its offset and the next token.

### Only model-checked

* `KeysetConverges`, `StopCompletes` and `CallsReturn`: liveness under fairness is outside
  the prover's reach.
* `VerdictsAreRight`: verification goes through the rows of a day by time and by ids as decimal
  text, whose digits are computed by recursion; what a valid verdict says of all the rows
  before one would need induction over them.
* `OKIsRecorded` and `ReportsCoverInterval` of `Records`: a handler there is a sequence of
  step names and `Head` decides which action comes next, so an inductive invariant has to
  list the suffixes of all six handlers.
* `AcceptedIsOneRun` and `FinishedRunIsAccepted` of `Evidence`: files contain the digests of
  files that contain digests, and the validator is a long conjunction over all of them.
* `ServicesTypeOK` as a whole, since it includes `Records` and `Evidence`; its parts about
  sessions, configuration and events are `ServicesAreTyped`.

`PagesCoverList` is stated in `MCServices` about an instance of `Paging`; `TokensCoverList`
proves it of `Paging` itself. `MoneyMovesAudited`, `NonNegative`, `AcknowledgedIsRemembered`
and `HashesStay` are proved and not part of a run.

## 5. What is not modelled

* The expiry worker of `ledger_idempotency_keys`: no call ever fills that table.
* `GetBalance` and `ListRecentBonusTransactions`: reads of one field and of the last rows.
* Totals and the rendering of reports as JSON or CSV: sums and formatting of the rows that
  `Records` selects.
* The wiring in `cmd/rgsd`. Its effect is the deployment of a module and what `Restart`
  resets.
* Metrics, TLS set-up, system status, `credhash`: counters nothing reads, library
  configuration, constant answers, one hash.
* The generated message types, and the decoding of requests in the generated gateway: data
  without state. Methods and routes are in `Routes`.
* Two evidence runs that write into one directory (the script looks for a
  free name before it makes the directory), and other spellings of a path in `run_dir`, which is compared as text.
* The order of rows with equal `recorded_at` in the ledger's listing, which the table may
  change from page to page.
* Token encoding, HMAC, Ed25519, SHA-256, bcrypt: library code, taken to be injective or
  left open.

What remains has no state that changes, or only formats what is modelled; more of it
would add lines and no behaviour.
