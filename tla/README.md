# A verified model of go-scaffold

TLA+ specifications of the service in this repository and of the tools that
generate its code, model-checked with TLC and, where it says so, proved with
TLAPS. Paths are relative to the repository.

## 1. The system

go-scaffold is two programs in one repository: a **service** (Kratos over HTTP
and gRPC, PostgreSQL through gorm) with the features *user* and *wallet*, and
the **tools** that start new features and generate the code that is not
written by hand.

| Component | Code | State it keeps | Operations |
|---|---|---|---|
| user feature | `internal/feature/user` | rows of `users` | `CreateUser`, `GetUser` |
| wallet feature | `internal/feature/wallet` | rows of `wallets` | `CreateWallet`, `GetWallet`; the `Facade` for other features |
| schema | `db/migrations`, `db/schema` | unique indexes, a foreign key, an id sequence | checked by PostgreSQL on every insertion |
| unit of work | `internal/platform/database/tx.go` | the transaction a context carries | `Do`, `WithinTransaction`, `DB` |
| configuration | `internal/conf`, `cmd/server/main.go` | the `Bootstrap` being filled | `Load`, `Validate`, `newLogger` |
| access tokens | `internal/platform/authn` | none but the configured lifetime, issuer and key | issue, parse |
| server pipeline | `cmd/server/server.go`, `internal/platform/middleware`, `internal/platform/httpx` | the context of a request | middlewares, public operations, health probes |
| wiring and lifecycle | `cmd/server/wire.go`, `internal/platform/wire.go`, `database/conn.go` | the process and its connection pool | start, stop, clean-up, restart |
| scaffold | `cmd/scaffold/main.go` | files of the project | `add-feature` |
| codegen | `cmd/codegen` | files of the project | one run per `make generate` |
| doctor, upgrade | `cmd/scaffold/doctor.go`, `scaffold_meta.go`, `upgrade.go` | none, read only | verdicts on the manifest and on files |
| gormgen, protos, scripts | `cmd/gormgen`, `api`, `Makefile` | none of their own | call other tools |

**How they interact.** A request is a goroutine. It passes the middlewares and
reaches `Service`, which forwards to `UseCase`. `CreateUser` opens a unit of
work, and everything it calls with the scope's context, the wallet feature's
`Facade.CreateByUserID` included, runs on the transaction this context
carries. `GetUser` calls the facade without a transaction. Requests meet only
in the database: in what they see of each other's rows, in the unique indexes
on which an insertion waits for another transaction, and in the id sequence.
The scaffold and codegen meet in the file tree: the scaffold writes protos,
`buf generate` (run by `make generate`) turns them into `gen/`, codegen reads
`gen/` and writes the feature packages and the registry that the server's
wiring imports; doctor looks at the files and tools all of them need. Tokens
are issued by whoever holds a token manager, this deployment or another one,
and meet the server in the `Authorization` header, on another clock. Requests
meet the lifecycle of the process in the connection pool.

**What is hard about it.**

* *Interleaving.* Check and insert are two statements (`ExistsByEmail`,
  `Create`); a read of an account is two statements outside a transaction; two
  features write one account in one transaction.
* *Failure.* Any statement may fail, a handler may panic, the process may die,
  the acknowledgement of a COMMIT may be lost; and when the context of a request
  ends, `database/sql` rolls its transaction back underneath the function that
  still runs in it.
* *Waiting.* Unique indexes make requests wait for each other's transactions;
  two kinds of them, e-mails and wallets, could be taken in opposite orders. A
  row that its foreign key is about to refuse is in the index until then, and
  makes others wait as well. A stop waits for requests, and those for clients that
  may take their time to send a message.
* *Nesting.* `Do` inside `Do` joins; errors of the inner call may be swallowed.
* *Layers.* The configuration is merged in place from five sources, and the
  environment that chooses one of them is decided in two places.
* *Files.* Tools write one file at a time, some only once and some each time,
  and a developer works on them in between; doctor looks at one after the other.
* *Clocks.* The dates of a token are cut to seconds and compared with another
  machine's clock, which is not.
* *Order.* Which middleware comes first decides whether a panic is caught and a
  refusal has a request id; which clean-up comes first, whether a request finds
  the pool closed.

**What makes each component correct.**

* user and wallet: no two users with an e-mail; a user and her wallet appear
  together; what was answered is and stays true; nobody waits for ever.
* unit of work: no call ends a transaction but the one that began it, and that one
  never leaves it open, on any path; rows appear together; `Do` says nil only of
  what is committed.
* configuration: sources count in the documented order, and what they say together
  is what is judged.
* tokens and pipeline: who is let in holds a token of this service that is in
  force, who is refused does not, every answer has a request id, and no panic
  takes an answer away.
* lifecycle: the pool outlives the requests; a stop answers them first, and nothing
  but a client that does not send its message keeps it from ending.
* doctor and upgrade: a verdict is true of the manifest, files and tools there
  were, the two commands do not contradict each other, the advice works.
* scaffold and codegen: hand-written work in a feature is never replaced; what is
  generated for the features in `gen/` is always rebuilt from its sources; a new
  feature needs no manual step.

The hazards this code is exposed to, each at its line, are in `PROJECT.json`.

## 2. The modules

| Module | What it is |
|---|---|
| `Registry` | abstract specification: a registry of accounts with atomic registration |
| `Accounts` | the user and wallet features over PostgreSQL, concurrent and failing |
| `AccountsProofs` | proofs about `Accounts`, the refinement of `Registry` among them |
| `ProgressProofs` | proofs that the requests of `Accounts` get on; extends `AccountsProofs` |
| `AtomicStore` | abstract specification: flat transactions that end once, as a whole |
| `UnitOfWork` | `Do` and `WithinTransaction`, nested, failing and panicking, with contexts that end |
| `UnitOfWorkProofs` | proofs about `UnitOfWork`, the refinement of `AtomicStore` among them |
| `Tokens` | operators: what `JWTTokenManager` issues and what it accepts |
| `Server` | the process, its middlewares, requests, tokens and clocks; extends `Tokens` |
| `ServerProofs` | proofs about `Tokens` and `Server`, liveness included |
| `ConfigLoad` | `conf.Load`, `Validate` and `newLogger` |
| `ConfigLoadProofs` | proofs about `ConfigLoad` |
| `Workspace` | the files of a project under `add-feature`, `make generate` and a developer |
| `WorkspaceProofs` | proofs about `Workspace` |
| `FeatureProofs` | proofs about new features and repeated runs; extends `WorkspaceProofs` |
| `Doctor` | `scaffold doctor` and `upgrade --check`, against `make` and a developer |
| `DoctorProofs` | proofs about `Doctor` |
| `MCAccounts`, `MCUnitOfWork`, `MCServer`, `MCConfigLoad`, `MCWorkspace`, `MCDoctor` | values for the constants, and symmetry |

Operators whose comment begins with *(Faulty: ...)* are variants of the next
definition with a bug in it. No specification uses them; they are there to be
put in the place of the original, to see that the property a run checks can
tell the difference. `PROJECT.json` says which one breaks which property.

### Accounts

`users` and `wallets` are the tables; a row carries `xmin`, the transaction
that wrote it, and whether others see it follows from `xact`, the state of that
transaction. Each request has a program counter `pc`, named for the statement
it is about to run, its arguments (`op`, `email`, `uid`) and its `reply`.

| Action | Code |
|---|---|
| `ReceiveCreateUser`, ... | `Service` forwards to `UseCase` |
| `Begin` | `UnitOfWork.Do` up to the call of the function |
| `ExistsByEmail`, `ExistsByUserID` | the check at the start of each function, and its early return |
| `NextVal`, `InsertUser`, `InsertUserRejected` | `user.Repo.Create`: the default of `users.id`, then the row or the violation |
| `InsertWallet`, `InsertWalletRejected`, `CheckUser` | `wallet.Repo.Create`, called directly and through `Facade.CreateByUserID`: the row and its place in the unique index, or the violation; then the trigger of the foreign key |
| `Commit`, `Ack`, `AckLost` | the return of `Do`; the server commits before the caller knows |
| `TxFails` | an error, a deadline or a panic before the commit, anywhere |
| `GetByID`, `GetBalanceByUserID`, `GetByUserID`, `ReadFails` | the reads of `GetUser` and `GetWallet` |
| `Crash` | the process dies, PostgreSQL aborts what was open |

Decisions a reader should know of:

* READ COMMITTED, PostgreSQL's default, since `conn.go` sets nothing else. A
  statement sees what was committed when it began, and its transaction's rows.
* An insertion that collides with a row of a running transaction waits: neither
  `InsertUser` nor `InsertUserRejected` is enabled until that one has ended.
* The INSERT of a wallet is two steps. PostgreSQL checks a reference in a trigger
  after the row is in the table and in its unique index; `InsertWallet` puts it
  there, and `CheckUser` finds the user and goes on to the COMMIT, or fails and
  takes the row back. Between the two a `CreateWallet` for the id a running
  `CreateUser` has drawn is in the way of that one, and so of whoever waits for
  its e-mail. `ForeignKeyHolds` sees committed rows and those of the transaction;
  users are never deleted or updated, so its share lock never waits.
* `TxFails` stands for `database/sql`'s own rollback, too: in one step with the
  error that the next statement of the request gets. `UnitOfWork` has the two
  apart.
* `users.id` comes from a sequence, which is not transactional: ids may be
  skipped, never given twice. `uid` is set at `NextVal`, although the Go code
  learns the id only when the INSERT returns; nothing reads it in between.
* The pool is unlimited, as in `conn.go`: no request waits for a connection.
* Requests do not come back: a retry is a request of its own.
* *Legacy* users are those older than the second migration, which creates
  `wallets` and backfills nothing. They are the reason for `CreateWallet` and
  the only users without a wallet.
* The balance is left out, since every operation writes 0.

### UnitOfWork

One goroutine's calls of `Do`, as a `stack` of frames: the transaction the
scope's context carries, and whether this call began it. `Join` is a call
whose context carries a transaction, `Begin` one whose context carries none,
also inside another call (the caller kept its own context instead of the
scope's). `ExecFails` breaks the transaction, as PostgreSQL does at a failing
statement; the function may swallow the error, go on and return nil, and then
the COMMIT turns into a rollback that gorm reports as an error, so `ReturnNil`
is not possible and `ReturnError` is. `CommitUnconfirmed` is a lost
acknowledgement, `Panic`, `Unwind` and `Recover` are a panic on its way to the
recovery middleware. A nil transactor (`ErrTransactorNotConfigured`) changes no
state and is left out; so is the branch for a missing scope, which `Do` never
reaches because it builds the scope itself.

A transaction is begun with the context of the request (`tx.go:61`). When that
ends, at its deadline or because the client has left (`ContextEnds`), statements
and the COMMIT fail, and at a moment of its own `database/sql` rolls the
transaction back (`ContextRollsBack`), while the function goes on, perhaps
swallowing the errors it gets. From then to the return of the call that began it
the transaction is *undone*: nothing of it is left, and no call has ended it.
`BeginFails` is a BEGIN that fails, as it does after the deadline.

An inner call that returns an error of its own, without a failing statement,
and an outer function that swallows it: what the inner call wrote is committed
with the rest. This is what the code does (there are no savepoints for joined
calls), and the model has it.

### Tokens and Server

An instant is a number of ticks, of which a second has `Precision`. A token is
the record of its claims and of the key that signed it. `Truncate` is what
`jwt.NewNumericDate` does to a date; the clock a token is checked against is
not cut. `Issue` keeps, beside each issued token, the life it was *meant* to
have, and the properties compare the two.

| Action | Code |
|---|---|
| `Wire`, `WireFails`, `Run`, `Stop`, `Cleanup` | `main`, `wireApp`, `app.Run` and the deferred clean-up |
| `CloseServer`, `ServerStops`, `RunReturns` | each server is told to stop by a goroutine of its own; `http.Server.Shutdown`, `grpc.GracefulStop` return (external) |
| `IssueToken`, `Tick` | `IssueAccessToken` on a clock that may differ; time |
| `Receive`, `Decode` | a call is accepted; the generated handler has read and decoded its message, or cannot |
| `ReceiveProbe` | the probes, which bypass the chain |
| `Recovery`, `RequestID`, `SkipAuthentication`, `Authenticate`, `Refuse`, `ProtoValidate` | `serverMiddlewares`, in its order |
| `Handle`, `Healthz`, `Readyz`, `Panic`, `Leave` | the handler, the probes, a panic on its way down the stack, the client |

* A restart may use another configuration: tokens of the old key are then no
  longer accepted, and a lifetime of another deployment still counts.
* A lifetime may be zero or negative: `Validate` parses it (`load.go:69`), and a
  duration may have any sign.
* The message of a call is read after the call was accepted and before the first
  middleware. Kratos' timeout of a second ends a context, which nothing looks at
  while the message is read, and no read deadline is set. Nothing makes `Decode`
  happen.
* A server accepts requests until `CloseServer` has told it to stop. It then waits
  for those in flight, the ones still being read included, while the other server
  may go on accepting.
* A token without an `exp` or `iat` can only come from elsewhere (`Foreign`).
* A panic is possible at authentication, validation and in the handler. The
  recovery does nothing before it has deferred its recover, and the request id
  looks at a header and draws a UUID, which panics only if `crypto/rand` fails;
  since Go 1.24 it does not (`go.mod` has 1.25).
* What a handler does with the database is in `Accounts`; here it ends somehow.

### ConfigLoad

One action per layer: `ReadBase`, `ChooseEnv`, `StatOverride`, `MergeOverride`,
`SetEnv`, `ApplyEnvOverrides`, `Validate`, `NewLogger`. Four settings stand for
all, and they differ in what the code does with them:

| Setting | Default | `Validate` | And like it |
|---|---|---|---|
| `app.env` | `local` | nothing; it also chooses a file | |
| `log.level` | `info` | one of four, normalised, or blank | |
| `auth.jwt.access_token_ttl` | `2h` | not blank, and `time.ParseDuration` takes it | `app.name`, the issuer and the signing key, which only must not be blank |
| `data.database.dsn` | none | not blank | the addresses of the two servers |

A file may lack a key (`Absent`) or have it blank (`Blank`), which are different
to `yaml.Unmarshal`. `overrides` has the content of each override file that was
read, so that the properties can ask whether it was the right one.

### Workspace

`tree` is the set of files that exist, `edited` those with work of the
developer, `broken` those a failing write has truncated; `rpcs` says which
methods a proto, a `_http.pb.go`, a `service.go` or a `usecase.go` declares;
`binding` and `registry` are what `wire.go` and `features_gen.go` refer to.

| Action | Code |
|---|---|
| `StartAdd` | `nextMigrationName`, and the check that no file exists |
| `WriteNewFile`, `FinishAdd` | the writes in their order, then `ensureBufGenIncludesAPI` |
| `GenProto` | `buf generate`, as `make generate` calls it; a proto without methods gives no `_http.pb.go`, and an old one stays |
| `Scan`, `NextService`, `GenerateFile`, `RegisterServices` | `cmd/codegen` |
| `Fail`, `FailWriting` | a tool is killed or a write fails, at any file, before it or within |
| `Edit`, `ChangeMethods`, `Repair`, `DropFacade`, `Discard`, `Clean` | the developer, between two runs |

A name is the sequence of its words and a word is a stem and an ending, enough
to say what `toPascalCase` and `pluralize` do to it: empty words vanish,
endings change. Names that are keywords of Go, or whose last word Go takes for a
build constraint (`order_test`, `order_windows`), give files that do not compile
or are not compiled; `add-feature` accepts them and `Names` has none. Words that begin with a digit are left out; `toPascalCase` runs
them together with the word before (`order_2`, `order2`), one more way to get
equal identifiers. Tools run one at a time, and nobody saves a file while one
runs: the code checks and then writes without a lock, so a file created by
someone else in between is replaced. `gormgen` and `wire`, the two steps of
`make generate` around codegen, write only files of their own and are left out
here; `Doctor` has them.

### Doctor

`present` is the set of files and tools that are there, `manifest` what
`scaffold.yaml` says, `make` the recipe lines that are left. `StartDoctor` and
`StartUpgrade` read the manifest, `Look` is one check, `Report` the end of a
command; in between `RunStep`, `StepFails`, `Clean`, `EditManifest`, `Lose` and
`Get` change the project. `seen` and `lost` are what was there, and what was
not, at some time during a command, `last` what a command has found if nothing
has changed since it began: no code keeps them, the properties need them
(`Notice`).

A key of the manifest may be absent (`yaml.Unmarshal` leaves the default),
blank (`normalize` replaces it, except for the version) or give another place.
`make` writes to the default places whatever the manifest says.

## 3. What the runs check

| Run | Instance | What it shows |
|---|---|---|
| `accounts_safety` | 3 requests of any kind, 2 e-mails, 1 legacy user; symmetric requests | the invariants of section 4, nobody stuck, and that `Accounts` implements `Registry` |
| `accounts_liveness` | 3 requests that open transactions, no symmetry | every request received is answered, or dies with the process |
| `accounts_notfound` | as `accounts_safety` | *violated*: `USER_NOT_FOUND` for a user who is there |
| `accounts_duplicate` | as `accounts_safety` | *violated*: an internal error where the e-mail is taken |
| `unit_of_work` | depth 4, 3 transactions, 3 rows, contexts that end at any time; symmetric | the rules of transactions of section 1, and that `UnitOfWork` implements `AtomicStore` |
| `server` | 2 requests over HTTP and gRPC, 2 configurations, 1 issued token and 2 others, clocks behind, equal and ahead, 2 starts | who is let in and who is refused, named and complete answers, a pool that outlives the requests, stops that only a client can hold up |
| `config_load` | 2 environments, 3 levels, 2 lifetimes, 1 DSN; files and variables with up to 2 settings | order of the sources, the override file among them, and what `Validate` judges |
| `config_env` | the same | *violated*: `APP_ENV` overrides `-env` |
| `config_level` | the same | *violated*: a level in capitals is accepted and ignored |
| `workspace` | 2 names with one plural, 2 interventions, 1 failure | hand-written work, generated code, repeated runs, new features, migrations |
| `workspace_names` | 2 names with the same identifiers | *violated*: two features that do not compile together |
| `doctor` | 6 files, 4 tools, 2 changes by the developer, 2 runs of `make` | earned verdicts, agreement of the two commands, advice that works |

**Bounds, and why they are enough.** Three requests are the least in which a
request can wait for one that waits for another, and in which a third one reads
while two write; conflicts are over one e-mail or one wallet, so two e-mails
and one legacy user give both the collision and its absence. Ids are as many as
can be used. The proofs of section 5 lift the bounds for all properties that
can be proved; `IdsSuffice` is the proof that so many ids are enough. Depth 4
has a join inside a transaction inside a join inside a transaction. In `Server`
a second is two ticks, the least in which a date can be cut. The clock goes from 0
to 2 and an issuer's is behind, equal or a tick ahead, so that tokens are presented
before, in and after their life: one issued ahead at 1 begins at 2, one issued
behind at 0 ends, after the cut, at 0; with a lifetime of one tick the cut leaves
nothing of some. Two tokens that somebody else has made with the first key lack
the issued-at claim and are of another issuer. One request calls with a token over
HTTP, without one over gRPC, or probes, and the other calls a public operation over
gRPC, or probes: a stop can overtake either server, and two starts let the key
change between issuing and checking. In `ConfigLoad` settings do not interact
except through `app.env`, so two in a file are enough; one DSN, two lifetimes
(one is no duration) and three levels (default, misspelled, in capitals) have
every outcome of `Validate`. In `Workspace` a feature takes part in a conflict with at most
one other; two interventions give a proto and its use case a change each, or
discard and redo a feature, and one failure leaves any prefix of any run, which
`LastSecond`, the bound on the clock, lets a retry follow in the same second or
in the next. In `Doctor` two changes are enough to lose a file and get it back,
or to break the manifest and mend it, during one command, and two runs of
`make` for one that fails and one that follows it; of the hand-written files
one required and one optional one is there, and of the tools those `make
generate` needs and an optional one.

**Deadlock** is checked in the runs of `Accounts` (a crash is always possible,
so there it says little; that requests do not block each other is what
`NobodyIsStuck` and `Answered` say) and of `Doctor` (a command can always be run). It is not
checked where the program ends: a goroutine that has used its transactions, a
`Load` that is done, a process that may not be started again, a developer who
has used her interventions.

**Fairness.** In `Accounts`, `FairSpec` assumes weak fairness of `Step(r)` for
each request: the Go scheduler runs goroutines that can run, and PostgreSQL wakes those that
wait for a transaction that has ended. No fairness is assumed of failures, of
crashes or of the arrival of requests. `Answered` then depends on the code: on
each path a transaction that others wait for is ended. In `Server`, `FairSpec`
assumes weak fairness of `Step(r)`, since a goroutine runs and a handler ends
(Kratos gives every request a context of one second, which ends what a handler
waits for in the database, though not the reading of a message), of
`CloseServer(t)`, since the goroutine that stops a server waits for nothing but the
signal, and of `Shutdown`, the rest of a stop. Nothing makes a client send the rest
of its message (`Decode`) or leave, a request panic or time pass. `StopEnds` then
says what can hold up a stop: neither `StopTimeout` nor a read deadline is set, so a
client that does not send all of its message can, for as long as it likes, and
nothing else.

## 4. The properties

Each is stated in full, with a comment, at the end of its module.

* `Accounts`: `OneUserPerEmail`, `UserHasWallet`, `AckedIsDurable`, `ConflictIsReal`, `WalletsOpenedForLegacyOnly` (it takes
  the foreign key, READ COMMITTED and the sequence to keep `CreateWallet` from
  getting ahead of a running `CreateUser`: it may be in its way for a moment, but
  neither opens the wallet nor makes it fail), `ReadsCompleteAccounts` (two reads
  without a transaction never see half an account, because the rows become
  visible at once and are read in the order user, wallet), `RetryIsStopped` (once
  an account is there, no further `CreateUser` for its e-mail gets past the check,
  however the first one was answered, or not at all), `HoldersWaitForDoomed`
  (no deadlock inside the database: a transaction that others wait for waits
  itself only for a `CreateWallet` whose foreign key is about to fail, so waits
  form chains of two at most and never a circle), `NobodyIsStuck` (who cannot go on
  waits, over one request or two, for one who can), `ImplementsRegistry` (which `WalletHasUser` follows from),
  `Answered`.
* `UnitOfWork`: `NotEndedUnderneath` (no call of `Do` ends a transaction another
  one runs in; the end of a context may), `NoneLeaks` (whatever is open has the
  call that began it still running), `ImplementsAtomicStore` (which
  `ReportsAreTrue` is a part of).
* `ConfigLoad`: `SourcesInOrder` (the settings come from the sources in their
  order, and the override file among them is that of the environment chosen, by
  its content), `JudgedAsAWhole` (whether `Load` refuses depends on what the
  sources say together, not on a single layer).
* `Workspace`: `HandWorkKept`, `GlueIsRebuilt` (for the features in `gen/`; an
  empty `gen/` is noted below), `AddedFeatureBuilds` (as long as package `ports`
  compiles and what is created once is whole), `OneMigrationPerTable`, `GeneratingAgainChangesNothing` (a second
  `make generate` writes what is there already, file by file: what codegen writes
  depends on `gen/` and the facades alone, and not on what it has written).
* `Server`: `OnlyAdmittedGetFurther` (others learn no more than that their message
  cannot be decoded, that they are refused, or that something panicked),
  `AdmittedWithinLife` and `RefusedForCause` (who is let in and who is not, in terms of the life a token
  was meant to have: cutting it to seconds costs its holder less than a second),
  `RepliesAreNamed`, `NobodyIsCutOff`, `PoolOutlivesRequests`, `StopEnds`.
* `Doctor`: `VerdictIsEarned`, `CommandsAgree`, `HintHelps`.

`WalletHasUser`, `WrittenTogether` and `ReportsAreTrue` are proved (section 5) and
no run checks them for themselves: the refinements say as much of the rows.

**Where the code does not do what the repository says** (the runs marked
*violated*, `findings` in `PROJECT.json`):

1. `GetUser` takes every error of its first read for an absent user; the design
   passes errors on (`design.md:752`).
2. The loser of a race for an e-mail gets the raw database error, 500, where
   the error catalogue has `USER_ALREADY_EXISTS`, 409
   (`api/user/v1/error_reason.proto:14`).
3. With `-env` and `APP_ENV` both set, the override file is that of `-env` and
   `app.env` that of `APP_ENV`; `README.md:114` puts `-env` first.
4. `Validate` accepts `WARN` and `newLogger` then logs at info.
5. `order_item` and `order__item` are both valid names, and both become
   `OrderItem`.

**Noted while modelling**, where no statement of the repository is contradicted
outright or no property is at stake:

* `codegen` takes the services from `gen/`, which only `make clean` empties: a
  feature that was discarded comes back with the next `make generate`, although
  `design.md:955` calls the protos the source of the interfaces.
* With nothing in `gen/` codegen returns before it writes `features_gen.go`
  (`codegen/main.go:216`): discard the last feature, `make clean`, `make generate`,
  and the file still names it. `GlueIsRebuilt` says so.
* A write that fails within `ports/<name>.go` (`scaffold/main.go:182`) leaves a file
  that keeps package `ports` from compiling, and with it every feature that has a
  facade; `add-feature` finds the file and will not write it again.
* `add-feature` writes `buf.gen.yaml` anew from the keys it knows
  (`scaffold/main.go:206`): comments, other keys and the paths of the first input
  are lost. `HandWorkKept` is about the files of features.
* `add-feature` accepts keywords of Go (`type`, `func`) and names Go takes for a
  build constraint (`order_test`, `order_windows`), whose files do not compile or
  are left out of the build.
* A proto whose methods have all been taken out keeps its old `_http.pb.go`, and
  codegen goes on registering what it declares.
* A client that sends a part of its message keeps the process from stopping, since
  neither a read deadline nor a `StopTimeout` is set (`main.go:26`, `server.go:28`).
* A manifest without `scaffold_version` gets that of the tool as a default, so
  `upgrade --check`, which is to check the recorded version (`README.md:202`),
  passes it.
* doctor does not look for `gen/`, for the `protoc-gen-go*` plugins or for
  PowerShell, which `make generate` needs: `make generate` can fail in a project
  doctor has no complaint about.
* The advice to run `make generate` cannot help a project whose manifest has the
  generated files elsewhere; `HintHelps` excludes it.
* A token is refused at the instant it is issued by a server whose clock is
  behind; no leeway is configured. `RefusedForCause` says that a token that is
  not yet, or hardly any longer, in force is the only cause besides the key and
  the issuer.

## 5. What is proved

`AccountsProofs`, for any set of requests, e-mails, ids and legacy users that
satisfies `AccountsAssumption` (ids are positive, legacy e-mails differ, the
markers are no members of the sets):

* `Invariance`: `Spec => []IndInv`. The safety properties speak of committed
  rows and of answers, and a single step can be seen to keep them only if it is
  known what a request has written by then. `IndInv` says it: `PhasesAgree`
  (program counter, transaction and answer), `IdsAreFresh` (the sequence gives
  every `CreateUser` an id of its own), `RowsHaveAuthors` (which request wrote
  a row, and how far that one must have come), `WorkIsDone` (the converse: what
  a request that has come so far has written), `ConstraintsHold` (the unique
  indexes over rows of running transactions too, and the foreign key of those
  wallets whose INSERT has ended) and
  `SightsLast` (what a request has seen stays true). There is one lemma for
  each action, with one step for each part.
* `TypeCorrect`, `EmailsAreUnique`, `AccountsAreComplete`, `WalletsAreOwned`,
  `AcksAreDurable`, `ConflictsAreReal`, `OnlyLegacyWalletsOpened`,
  `ReadsAreComplete`, `NoWaitCycles`: consequences of it.
* `Refinement`: `Spec => ImplementsRegistry`. `Commit` is a `Register` or an
  `OpenWallet`, `Ack` an `Acknowledge`, the early return of `ExistsByEmail` a
  `Refuse`; every other step leaves the registry as it is.

`ProgressProofs`, for the same, how the requests get on:

* `WorkRunsOut` (an action property): every step of the system, failures and
  crashes included, leaves some request with less to do (`Left`, nine steps at
  most) and none with more. So finitely many requests come to an end, after a
  number of steps that is known beforehand.
* `WaitsAreShort`: who waits, waits for one request; if this one waits too, then for
  a third that waits for nobody, a `CreateWallet` on its way to being refused.
  `WaitingIsAll`: waiting is the only
  thing that stops a request; the condition of its next statement is true
  otherwise. It needs `IdsSuffice`, that an INSERT always finds an id if there
  is one for each legacy user and each request, which follows from counting:
  `SequenceCounts`, the sequence has moved by one for each `CreateUser` that has
  come so far, however it ended.
* `RetriesAreSafe` (an action property): `RetryIsStopped`, for any number of
  retries. That an account is there follows from `WorkIsDone`; that a retry sees
  it, from what the check reads.
* `RequestsAreAnswered` and `AnsweredUnlessOvertaken`: `Answered`, see *Liveness*
  below.

`UnitOfWorkProofs`, for any transactions, rows and depth:

* `UnitInvariance`: `Spec => []UnitInv`, which adds to the properties that a
  joined call has the opener of its transaction below it, and only one.
* `TypeCorrect`, `NobodyEndsAnothersTransaction`, `NoTransactionLeaks`, `ReportsHold`,
  `RowsAppearTogether` (an action property): consequences of it.
* `Refinement`: `Spec => ImplementsAtomicStore`. `Exec` is a `Write`; the call
  that began a transaction and leaves it is a `Commit` or a `RollBack`, and so is
  the BEGIN that fails; a call that joined one, an error on its way, a panic on its
  way and the end of a context are not seen.

`ServerProofs`, for any requests, operations, configurations, tokens, clocks and
any `Precision` of at least 1 (`TokensAssumption`, `ServerAssumption`):

* `AcceptedWithinLife` and `RefusedOutsideLife`, about `Tokens` alone, from
  `TruncateBounds`: a cut moves an instant back by less than a second.
* `Invariance`: `Spec => []ServerInv`. That a request in the handler has a
  principal does not follow from the step that brought it there; `OnItsWay` says
  for each rest of the chain what a request has by then (a recover below it, its
  id, its principal), `HasEnded` what its answer presupposes, `Vouched` that the
  manager that accepted its token is still the running one, `CutToSeconds` how
  the dates of an issued token relate to its life, and `ProcessInv` that
  requests are in flight only on servers that have not stopped.
* `TypeCorrect`, `Admission`, `NoOverstay`, `NoEarlyRefusal`, `Naming`,
  `PoolIsKept`, `PanicsAreCaught`: consequences of it. `StoppingTakesNobodyIn`
  (an action property): a server that has been told to stop takes nobody in, so the
  set of requests it waits for only shrinks, whatever the other server does.
  `SomethingIsAlwaysNext`: the conditions of the next step are met by every running
  request, and by a process that stops when no request is in flight.
* `RequestsAreAnswered` and `StopsEnd`: a running request is answered, and
  `StopEnds`; see *Liveness*.

`ConfigLoadProofs`, for any environments, levels, DSNs, files and variables:
`Invariance` (`LoadInv` says after each step what `cfg` is made of:
`BeforeOverride`, `AfterOverride`, and the chosen environment as long as it is
in use; `Judged`, that `Validate` let through what is usable), then
`TypeCorrect`, `Precedence`, `Judgement`.

`WorkspaceProofs`, for any names, methods and numbers of edits and failures:

* `Invariance`: `Spec => []WorkspaceInv`. `AddsNewFiles` says how far
  `add-feature` has come and that it has found none of the files it has yet to
  write; so it replaces nothing, and writing a file or truncating it is the same
  to all others. `MigrationsHaveSchemas` is why there is one migration for a
  table: the schema is written before, stays, and keeps the next `add-feature`
  away, also after one that was stopped between the two. `CodegenGlues` is how
  far codegen has come with which service, and `GenIsCurrent` why a
  `buf generate` after a successful `make generate` changes nothing.
* `TypeCorrect`, `HandWorkIsKept` (an action property), `MigrationsAreUnique`,
  `GlueIsCurrent`: consequences of it.

`FeatureProofs`, for the same: `FeaturesInvariance` and, from both invariants,
`AddedFeaturesBuild`. `AddedAreWhole` follows the files of a feature after
`add-feature`: they are never truncated again, because a second `add-feature`
finds the proto, and what repairs files touches truncated ones only. What others
can do to the feature is in its premises: package `ports` has to compile.
`MethodsAreKept` says why the use case codegen writes once still fits: nobody
has edited proto or use case since, so both have the methods of the template.
`GenerationIsRepeatable` (an action property) is about `make generate` run again.
`NothingIsStale` is what it needs besides `GlueIsRebuilt`: after a successful run no
generated file holds work a second run would take away; and while codegen runs, a
`service.go` with work in it is the next file or belongs to a service still in the queue.

`DoctorProofs`, for any checks, tools, versions and numbers of edits and runs:

* `Invariance`: `Spec => []DoctorInv`. `Reported` says that each check a command
  has to do is still to come, reported for something that was missing, or passed
  by something that was there; `Undisturbed`, that as long as nothing changes
  the reported and the coming problems are all there are to find, and
  `Recalled`, the same of the results of commands that have ended. `Generates`
  is why `make generate` leaves both generated files behind: its last line is
  `wire`, which needs the one and writes the other.
* `TypeCorrect`, `VerdictsAreEarned`, `CommandsAlwaysAgree`, `HintsHelp`:
  consequences of it. `DoctorAssumption` says of the checks of files and tools
  that they have no hint, and that none has the name of a check of the manifest.

**Liveness.** The prover knows weak fairness but not ENABLED, so a proof can use
the fairness of a step only if it is told when the step can be taken.
`NobodyIsStuck` says that, in `Accounts` and in `Server`, and the liveness theorems
have `[]NobodyIsStuck` as a hypothesis. In `Accounts` it takes some thought and TLC
checks it as an invariant of `accounts_safety`. In `Server` it is no more than that
the guards of a request cover all cases; `SomethingIsAlwaysNext` proves that of the
conditions the steps ask for, no run checks it, and `StopEnds` itself is checked.
What the theorems add for any number of requests is the rest of the argument: a
measure of what is left to do (`Left`, `StopLeft`) that the fair step lowers and no
other step raises.

Two of them also have a hypothesis that is a rule of temporal logic, true of
every behavior of every system. The prover cannot derive such rules, since that
takes an induction with a temporal formula as its hypothesis. They are stated for
the variables they are used with, and assume nothing about the code:
`SizeSettles` (a natural number that no step raises falls finitely often) and
`BusySettles` (a finite set that from some time on only loses members is from some
time on the same).

* `Server`, `RequestsAreAnswered`: `FairSpec` and `[]NobodyIsStuck` imply that a
  request does not run for ever.
* `Server`, `StopsEnd`: with `BusySettles` they imply `StopEnds`. In the end both
  servers have been told to stop (`BothClose`). The requests in flight are finitely
  many at any time (`BusyIsFinite`) and none is taken in any more
  (`StoppingTakesNobodyIn`), so they are from some time on the same; each of them
  that has been read is answered, so, unless a client owes its message again and
  again, they are none (`SettledIsDrained`), and then the shutdown goes through its
  steps (`StopEndsOnceDrained`).
* `Accounts`, `AnsweredUnlessOvertaken`: `Answered`, if nobody is overtaken for
  ever, that is, unless others insert again and again what a request is about to
  insert, for any set of requests. Between two overtakings a request waits for one
  transaction. The one that runs it either waits for nobody, or for a `CreateWallet`
  that does not (`HolderGetsOn`), so it ends (`HolderEnds`), and then the request
  takes its step (`GetsOn`).
* `Accounts`, `RequestsAreAnswered`: `Answered` for any finite set of requests,
  with `SizeSettles`. `Size` is what all of them have left to do together; by
  `WorkRunsOut` every step lowers it, so nobody is overtaken for ever. Both
  theorems have `[]Fairness` where `FairSpec` has `Fairness`. They say the same,
  since weak fairness does not depend on where a behavior starts, but the prover
  does not move the box through the quantifier.

**Only model-checked.** `NobodyIsStuck` in `Accounts`, because of ENABLED;
`WaitsAreShort` and `WaitingIsAll` prove the conditions of the steps it is made of.
And the violated properties, by their nature.

## 6. Not modelled, and the plan

That every run of a tool of `Workspace` and of `Doctor` ends is not stated: each of
its steps shortens a finite list of files, services, lines or checks.

Left to model: `Accounts` under `Server`, that is, handlers of `Server` as requests
of `Accounts`, with the stop of the process between their statements. Each is
checked alone so far; a stop waits for handlers, and a killed process is
`Crash`.

Left out for good: `gormgen`, `wire` and `buf` themselves (external tools; what
`make` needs of them is in `Doctor`), the protos (declarations; the error
reasons they give are the answers in `Accounts`) and the rules of validation in
them, the generated OpenAPI documents, the targets of the `Makefile` that run a
tool and keep no state, the wording of answers, reports and logs, the names of
users and the balances of wallets (nothing depends on them).
