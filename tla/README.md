# Verification of microhook

microhook is an HTTP service that runs preconfigured commands on request and
keeps a history of the runs in SQLite. This directory holds TLA+ models of its
parts, the TLC runs that check them on small instances, and TLAPS proofs of the
properties that matter most for every instance.

    tlc -workers 2 -config MCExecution_core.cfg MCExecution    # a run
    tlapm HistoryProofs.tla                                    # the proofs of a module

`PROJECT.json` lists the runs, the mutants that show that no property is
vacuous, the source lines behind every definition, the hazards the properties
are for, and the theorems.

## The system and its parts

| Part | Code | State it keeps | Operations | What makes it correct |
| --- | --- | --- | --- | --- |
| execution service | `internal/execution/service.go`, `scheduler.go` | `rejectRunning` (a set behind a mutex); one thread of control per invocation, which for an asynchronous run outlives its handler | `Invoke`, `Recover` | at most one run of a reject action at a time; the gate is always released; every run is settled; recovery cancels exactly what nobody runs |
| process runner | `internal/execution/runner.go` `execute` | two contexts, the child, its process group, `waitCh`, two tail buffers | start, wait, kill, join, classify | the recorded status is how the child ended; a timeout ends a run; nobody of its own user is left in the process group; the tails are complete |
| tail buffer | `runner.go` `tailBuffer` | `limit`, `buf` | `Write`, `String` | the buffer is the end of the output |
| run store | `internal/storage` | rows of runs, action snapshots, one metadata value; SQLite's write lock | `Open`, `CreateRun`, `UpdateRun`, `GetRun`, `ListRuns`, `ApplyRetention`, `Close` | calls take effect one at a time and as a whole; a row and its snapshot appear and go together; retention touches settled runs only and is all or nothing; no error path keeps the lock |
| application lifecycle | `internal/app`, `internal/cli` `runServe` | open store, listener | `Bootstrap`, `Serve`, `Shutdown`, `Close` | everything is recovered before anything is served; shutting down loses no settled result |
| HTTP API | `internal/httpapi` | none of its own | invoke, get and list runs, health | the answer agrees with the history; scoped tokens see their actions only |
| authentication | `internal/auth` | digests of tokens | `AuthenticateHeader`, `AuthorizeAction` | first matching credential decides |
| configuration | `internal/config` | the registry | `Load`, `Validate`, `Get` | what passes validation cannot break the rest, and means what is written in the file |
| command line | `internal/cli` | the process of one command | `serve`, `validate-config`, `generate-token`, `version` | the exit code tells the truth; `serve` closes what it opened and ends after a signal |

They interact by calls, by one shared database, by contexts and by one
in-memory map. `httpapi.invokeAction` calls `Service.Invoke` under the request's
context. `Invoke` creates the row under that context, so a disconnect can hit
between the commit and the read that follows it. A synchronous run executes
under the request's context, an asynchronous one under none, in a goroutine that
nobody waits for: shutdown drains handlers for ten seconds and then closes the
store under whatever still runs. On the next start `Bootstrap` applies retention,
then `Recover` cancels every row still marked running, and only then is the
address bound.

What is hard, and what the models are about: interleavings of handlers,
goroutines, disconnects and timers; a child that exits while it is being killed;
descendants that outlive it and hold its output pipes; statements that fail on
any step; a crash at any step, in recovery too; a second process on the same
database; a lock all writers share; checks in five packages that have to agree. The hazards in `PROJECT.json` give the lines.

## Modules

| Module | Role |
| --- | --- |
| `RunStore` | the run history as operators on a function from run ids to rows, one operator per committed statement or transaction |
| `RunHistory` | abstract specification of the store: the history changes by whole calls, one at a time |
| `Storage` | the calls statement by statement, with the write lock, rollbacks, several processes and crashes; shown to implement `RunHistory` |
| `Execution` | the core: execution service, life of the process, history; extends `RunStore` |
| `RunLifecycle` | abstract specification: what callers may rely on, with no processes, goroutines or restarts |
| `Runner` | `execute` in detail, for one run, composed with `TailBuffer`; shown to implement the steps of `Execution` |
| `TailBuffer` | the output buffer |
| `HttpApi` | the three `/v1` handlers and the tokens, on top of `RunLifecycle` |
| `Config` | normalisation, validation and the registry, as operators on the decoded file |
| `Deployment` | what authentication, `Invoke`, the store and the runner make of an accepted file, and an operator who edits the file; extends `Config` |
| `Cli` | the commands, their exit codes, and `serve` from `Load` to `os.Exit`; extends `Deployment` |
| `MCExecution`, `MCRunner`, `MCHttpApi`, `MCStorage`, `MCCli` | instances for TLC |
| `RunStoreProofs` | lemmas about the operators of `RunStore`: what each statement does to the rows |
| `ExecutionProofs`, `HistoryProofs` | theorems about `Execution`, the second for a single service |
| `StorageProofs`, `RunnerProofs`, `TailBufferProofs`, `HttpApiProofs` | theorems about the modules they are named after |
| `CliProofs` | theorems about `Cli` and, for every file an operator can write, about `Deployment` and `Config` |

### Execution

A run `r` is one `POST /v1/actions/{name}/runs`; the run it creates has the same
id (the code draws 128 random bits, so ids are distinct). `pc[r]` is where its
thread is:

| `pc` | code |
| --- | --- |
| `received` | `httpapi.invokeAction` up to `Invoke`'s switch on the policy |
| `creating` | `createRun`, the insert not yet committed |
| `reading` | the row is committed, `CreateRun` reads it back |
| `starting`, `waiting`, `killed` | `execute`: before `cmd.Start`, in the select, after the kill |
| `updating`, `rereading` | `finishRun`: before the update, between it and the read |
| `finishing` | on the way to `finishRejectAction` and the return |
| `done`, `lost` | returned; or gone with its process |

`phase[i]` is how far process `i` is in `runServe` (`opened`, `retained` and
`recovering` are inside `Bootstrap`), `gate[i]` its `rejectRunning`, `todo[i]`
what its recovery loop has left. `req`, `ctx`, `proc`, `res` and `reply` hold per
run the request, its context, the child, the outcome the thread carries and what
`Invoke` returned. `db` is the history.

Each action is one atomic step of the code: everything under `Service.mu`, one
statement or transaction, one select. A failed statement is an action of its own
(`CreateRunFails`, `ReadCreatedFails`, `FinishRunFails`, `BootstrapFails`), taken
when the store is closed, the row is gone, the context is cancelled, or at any
time when `StorageFaults`. `Die` is the end of a process, by return or crash:
threads stop where they are, memory is lost, rows stay. `Supervised` says that
children die with their service. The systemd unit that ships with microhook
(default `KillMode`) does that; a plain shell does not.
`StubbornChildren` lets a kill fail to end the wait, which is what `Runner` shows
can happen.

Left out of a row: output, exit code, times other than creation, request
metadata and the action snapshot, which no decision of this code depends on.
`absent` (never inserted) and `pruned` (deleted) are both "no such row" to every
statement; the model tells them apart so that properties can.

### Runner

The child leads a process group; descendants (`Kin`) are in it or have left it,
and hold the pipe or not. `cmd.Wait` returns once the child is reaped and no
holder of the pipe is left. `DeadlineFires` and `CallerCancels` end `execCtx`, and
the first of them stays its `Err`.

`kill(-pid)` returns nil as soon as it could signal one member of the group, and
`EPERM` only if it could signal none. A member that has changed its user (a shell
command that calls `sudo`; the packaged unit sets `NoNewPrivileges`, other setups need
not) is therefore left alone, and nothing tells `execute` of it unless every member
is one. The user of a process matters at the kill only, so with `UserChanges` the kill
picks any set `S` of members to leave: `terminateProcessGroup` is the call that
returned nil, `terminateFails` the one that got `EPERM` and tried `process.Kill`, whose
error `Execution` returns to the caller. `spared` keeps `S` and what its processes
fork from then on; `NoGroupSurvivor` says that these are the only survivors.

`ImplementsExecution` maps this onto run 1 of `Execution`: `selecting`, `polling` and
`killing` are its `waiting`, and its child is alive until `waitCh` has the result. So
what `Execution` assumes of `execute` is checked, not assumed.

The output goes through `TailBuffer`: `CopyOutput` hands the buffer any number of
the bytes that are in the pipe, and the buffer keeps the whole stream as a history
variable. The n-th byte written is n, so a tail that is short, shifted or stale
shows.

### Storage

A worker is a call in flight: `op[w]` has its arguments and the time it read on
entry, `pc[w]` the statement it executes next. `disk` is what is committed, `work`
what the holder of `lock` sees. `BeginTx` is deferred, so the lock is taken by the
first statement that writes, and a worker that finds it taken waits until
`BusyTimeout`; `UpdateStatement` is its own transaction. `StatementFails` stands
for a full disk, a cancelled context and a failed COMMIT alike: the deferred
`Rollback` runs, and what the call returns to is `Return`, for Bootstrap's calls
the end of the process. `Die` releases the lock and drops `work`, which is what
SQLite does. SQLite and `database/sql` are external and modelled from the DSN
(`busy_timeout`, WAL, `foreign_keys`) and the calls.

`handle[p]` orders the calls as Bootstrap does: `Open`, `ApplyRetention`, then
everybody else's; with two processes one prunes while the other creates and
updates. `ImplementsHistory` maps `disk.runs` to the history of `RunHistory`,
whose steps are the operators of `RunStore`: this is why `Execution` may take each
call for one step and each failure for no step at all. (The one exception,
`CreateRun` that commits and then fails to read back, is two steps there too.)

### Config, Deployment, Cli

A text is a word and at most one flaw (white space around it, `=`, NUL, bytes
that are no UTF-8 or U+FFFD in it), which is all that trimming, the validators,
JSON and `getenv` look at. `IsFile` is the type of what the decoder makes of a
file, field by field. `Config` follows the functions of the package under their own
names; a validator returns the set of its messages. `Deployment` has the
second looks that other packages take: `auth.New`, `Invoke`'s lookups and switch,
`validateActionSnapshot`, the round trip of the action through its stored
snapshot, `buildCommand`, `buildEnv`. Its three predicates say that none of them
finds anything `Validate` let through.

In `Cli` an operator edits the file and runs commands. Every write may fail.
`serve` opens the store, applies retention with `MaxAge` in two's complement of
`DayBits` bits, recovers, listens, and then waits in the select between the
channel of the goroutine in `Serve` and the signals; each failing step has its
own way out. A signal that comes before `NotifyContext` is a crash, see
`Execution`.

### HttpApi

A connection has one request at a time. `invokeAction`, `getRun` and `listRuns`
are the handlers up to their first call out of the package: they depend on the
request and the configuration only, so each is one step and `InvokeRefusal` gives
the early returns in their order. `Invoke` then takes steps of `RunLifecycle` on
behalf of the handler, which is all the handler may rely on (`HistoryProofs`
proves it of one service); `runRead` and `runsListed` read the history;
`writeJSON` ends the request, and the client may be gone. `WriteDeadline` is the
write timeout, which is set when the request arrives. `Background` is whatever
else moves the history. `Restart` may bring another list of tokens. `heard`
(what the client of a POST got) and `told` (which token saw which run) are
history variables. A request without a valid bearer token is one with a token
that matches no credential.

## Runs

| Run | Checks | Instance | Distinct states |
| --- | --- | --- | --- |
| `core` | `TypeOK`, `RejectExclusive`, `GateHasHolder`, `StatusMatchesProcess`, `RestartSummaryTruthful`, `NoOverlap`, `RecoveredBeforeServing`, `TerminalIsFinal`, `ImplementsLifecycle` | 1 service, a reject action with a timeout, an allow action without, 2 runs, 2 times, max_runs 1, statements may fail | 4.6 M |
| `live` | `TimedInvocationReturns`, `GateReleased`, `AcceptedSettles` | 1 reject action, 2 runs, 1 time, max_runs 1, statements may fail, fair | 324 k |
| `execute` | `TypeOK`, `OutcomeSound`, `NoGroupSurvivor`, `TailsComplete`, `TailIsSuffix`, `ImplementsExecution`, `TimeoutBoundsGroup` | 2 descendants, 4 bytes of output, limits 0 and 3, escapes, members of another user, fair | 201 k |
| `api` | `TypeOK`, `ScopeRespected`, `ReadableOnceTold`, `CodesMatchHistory` | 2 connections, 1 run, 2 tokens, 2 token files, an enabled and a disabled action | 195 k |
| `store` | `TypeOK`, `RowsHaveSnapshots`, `LockHasHolder`, `ImplementsHistory`, `RetentionComplete`, `CallReturns` | 2 processes with a call each, 2 runs, 3 times, an age limit of 1 and max_runs 1, fair | 203 k |
| `config` | `TypeOK`, `AcceptedIsUsable`, `ScopeAsWritten`, `EnvironmentAsWritten`, `ExitCodeTruthful`, `StoreClosedOnExit`, `SignalEndsServe` | every file within 3 edits of a valid one, every command, fair | 910 k |

Six runs show a disagreement between the code and what the repository says of
it, and TLC finds the behaviour:

- `ghost` (`EveryRowSettles`): a client disconnects after `CreateRun` committed
  and before it read the row back. The row stays `running`; nothing runs, and
  nothing will settle it before the next restart.
- `escape` (`TimeoutBoundsRun`): a descendant that left the process group holds
  the output pipe, and `execute` waits for ever after its kill. `TimeoutBoundsGroup`
  in `execute` shows that only this and a process in the group that SIGKILL may not
  signal, because it runs as another user, can do it.
- `latecancel` (`DeadlineKillIsTimedOut`): the deadline kills the child, the
  client disconnects before `interruptedStatus` looks, and the run is recorded as
  `cancelled`.
- `slowsync` (`CompletedRunIsAnswered`): a synchronous run outlasts the write
  timeout of 30 seconds; it completes and the answer cannot be written.
- `twin` (`RestartSummaryTruthful`): a second process started by mistake cancels
  the runs of the first before it finds its address taken.
- `retention` (`RetentionAsConfigured`): from 106752 days on,
  `time.Duration(retention_days) * 24h` wraps. `validate-config` calls the file
  valid; the service then refuses to start (a negative age) or prunes by another
  age (213504 days are 25 minutes). The instance has days of 5 units in 6 bits,
  so that 7 days are the first to wrap.

**Why the bounds are enough.** Runs of one action interact through one gate key
and through the store; two runs are enough for a conflict, an overlap, a recovery
list with something left on it and a retention limit that is exceeded. Two
actions, one of each policy, show that they do not interfere. Restarts are not
bounded. Two times order rows both ways and tie; the wall clock may stand still
or go back. The theorems below remove the bounds for the safety properties they
cover. Two descendants are the least with which one forks another, one leaves
and one stays. Four bytes with a limit of three reach every branch of
`tailBuffer.Write`, from an empty, a partly filled and a full buffer; the theorem
covers the other limits. In `Storage` a lock has one holder and one loser, so two
calls show every pair that can meet, and three times are the least with which a
run is older than an age limit of one. Three edits are enough to copy a token or
an action and make two changes to the copies, so that duplicates, dangling names
and flaws of two fields meet. In `HttpApi`
the handlers look at one run at a time, so one run is enough, read on one
connection while it is made on the other; the second token file drops one token
and lists the other twice with different scopes. Deadlock is
checked except for `Runner`, where a run ends.

**Fairness.** `FairSpec` of `Execution` is weak fairness of each run's thread:
the Go scheduler runs what can run, timers fire, and SQLite answers within its
busy timeout. Nothing is assumed of clients, of children (a child may never
exit), of faults, or of the service staying up; `AcceptedSettles` states that
as a condition of its own. The liveness properties of `Execution` are about actions
with a timeout, without one a run may take for ever, and are checked with
`StubbornChildren` off; `escape` shows what happens otherwise. In `Runner` the
thread, the copies, the wait goroutine and the timer are fair, the processes not.
`AcceptedSettles` also excludes, as a condition, the behaviours in which the very
last write of a run fails and no restart follows: nobody retries it. In `Storage`
a call that was entered goes on, `BusyTimeout` included, and nothing has to fail
or to call; in `Cli` the process goes on, and signals and edits need not come.

## Proofs

Every invariant and every action property that a passing run checks is proved for
all values of the constants, and so are the three refinements; liveness is not.
All theorems hold for arbitrary sets of runs, times, actions and (unless stated)
service processes, with the assumptions named in the modules: runs and times are
numbers, 0 is no time (it marks "never"), the sets of actions are subsets of
`Actions`, flags are Boolean, the empty string is nobody's name (`validateNames`
sees to it), and what an operator writes into a field has the type the decoder
insists on (`FileAssumption`).

| Theorem | States | Assumes besides |
| --- | --- | --- |
| `ExecutionProofs!TypeCorrect` | `[]TypeOK` | |
| `ExecutionProofs!RejectIsExclusive` | `[]RejectExclusive` | |
| `ExecutionProofs!GateNeverLeaks` | `[]GateHasHolder` | |
| `ExecutionProofs!StatusTellsOutcome` | `[]StatusMatchesProcess` | |
| `HistoryProofs!RecoveryPrecedesServing` | `[]RecoveredBeforeServing` | one service |
| `HistoryProofs!RestartSummaryIsTrue` | `[]RestartSummaryTruthful` | one service |
| `HistoryProofs!HistoryMovesForward` | `TerminalIsFinal` | one service |
| `HistoryProofs!ChildrenNeverOverlap` | `[]NoOverlap` | one service, supervised |
| `HistoryProofs!ServiceImplementsLifecycle` | `ImplementsLifecycle` | one service |
| `StorageProofs!StorageTypeCorrect` | `[]TypeOK` | |
| `StorageProofs!LockNeverLeaks` | `[]LockHasHolder` | |
| `StorageProofs!SnapshotsMatchRuns` | `[]RowsHaveSnapshots` | |
| `StorageProofs!StorageImplementsHistory` | `ImplementsHistory` | |
| `StorageProofs!RetentionIsComplete` | `RetentionComplete` | |
| `RunnerProofs!RunnerTypeCorrect` | `[]TypeOK` | |
| `RunnerProofs!OutcomeIsSound` | `[]OutcomeSound` | |
| `RunnerProofs!OwnGroupIsDead` | `[]NoGroupSurvivor` | |
| `RunnerProofs!TailsAreComplete` | `[]TailsComplete` | |
| `RunnerProofs!RunnerTailIsSuffix` | `[]TailIsSuffix` | |
| `RunnerProofs!RunnerImplementsExecution` | `ImplementsExecution` | |
| `TailBufferProofs!TailCorrect` | `[]TailIsSuffix` | |
| `HttpApiProofs!ApiTypeCorrect` | `[]TypeOK` | |
| `HttpApiProofs!ScopeIsRespected` | `[]ScopeRespected` | |
| `HttpApiProofs!ReadableOnceShown` | `[]ReadableOnceTold` | |
| `HttpApiProofs!CodesAreTrue` | `[]CodesMatchHistory` | |
| `CliProofs!CliTypeCorrect` | `[]TypeOK` | |
| `CliProofs!ExitCodesAreTrue` | `[]ExitCodeTruthful` | |
| `CliProofs!StoreIsClosed` | `[]StoreClosedOnExit` | |
| `CliProofs!AcceptedFilesWork` | `[]AcceptedIsUsable` | |
| `CliProofs!ScopesAreAsWritten` | `[]ScopeAsWritten` | |
| `CliProofs!EnvironmentsAreAsWritten` | `[]EnvironmentAsWritten` | |

*Types.* `TypeOK` alone is not inductive: `UpdateRun` stores `res`, so `TypeInv`
adds that a thread at `updating` or `rereading` carries a terminal status and one
at `killed` the cause of the kill.

*The gate.* Neither gate property is inductive. `GateInv` is the two of them
together with the converse of `GateHasHolder`: an invocation of a reject action
in flight has its key in the gate of its service. With it, `InvokeReject` finds
the gate empty only if nobody is in flight, and `Finish` deletes the key of the
only one that is.

*The history.* `HistoryInv` says how the row and the answer of a run follow its
`pc` (`Local`), and what recovery knows (`Recovery`): while the process boots
no thread is at work; everything a dead process left running is on the list or
settled; everything on the list is running. The last part makes an unguarded
UPDATE safe, and needs a single process: with two, one may work while the other
boots, and `twin` is the counterexample. From the invariant, `RowStep` says what
a step may do to the rows and `AnswerStep` what it may tell a caller, and the
refinement of `RunLifecycle` is these two lemmas read through the mapping.

*The children.* A living child has a thread at `waiting` or `killed` (`ChildInv`),
because `execute` always joins `waitCh`; the gate excludes the threads.

*The outcomes.* `StatusMatchesProcess` relates a row to a child that may be long
gone. `OutcomeInv` carries the relation along the thread: before the start there is
no child and no row that is settled, after a kill its cause is true, at `updating`
the outcome already fits, and a settled row that recovery did not write belongs to a
thread past its update. It needs no single service: a second one may cancel the run
of a living thread, but marks what it wrote, and the thread overwrites it with what
it saw.

*The store.* `StoreInv` has two halves. `Calls` says where each kind of call can be,
that Bootstrap's calls are alone in their process, and from which statement on a call
holds the lock. `Contents` says what the holder has made of the committed rows so
far: `Transaction` gives it per statement as an operator of `RunStore` applied to
`disk`, so that COMMIT is one step of `RunHistory`; `Snapshots` allows the one run
whose second INSERT is still to come. Neither half is inductive without the other: a
transaction is described relative to a `disk` that nobody else may change, which is
what the lock is for. `RetentionComplete` then is a fact about `Retain`
(`RunStoreProofs`), read at the commit.

*The runner.* `RunnerInv`: the place of the thread tells what there is to wait for
(`Place`); once `waitCh` delivers, the pipe is closed, everything is copied, and
nobody is left who holds a descriptor to pass on (`Drained`); what ended `execCtx`
is true (`Cause`); after the kill whoever is left in the group to fork into it was
spared or descends from one who was (`Killed`). The refinement of `Execution` maps every step to one of its
thread, of its child or to a stutter.

*The buffer.* `TailIsSuffix` is inductive; the proof splits on the branches of
`Write`.

*The API.* `ApiInv` has what each handler has established at its stage (`Sound`), that
a run is asked for by one request, whose client has heard nothing yet (`Owner`), that
what `Invoke` answered stays true (`Answered`), and that a token was shown only what
exists and is in its scope (`Shown`). The first matching credential is the least index
of a set of numbers, which is where the proof uses well-founded induction from the
library.

*The commands.* `CliInv` says that a command that runs has delivered nothing, and that
`serve` past its first step runs on a file that loads and holds the Store until
`Shutdown` has returned.

*The file.* `Deployment`'s three predicates hold of every file that has the type
`IsFile`, which every edit keeps. The lemmas follow the code: what `Validate` returned
nothing about (`AcceptedAction`, `AcceptedNames`), what the JSON round trip keeps
(`RoundTrip`, `StoredKeys`), and that two keys of the child's environment with one name
are one key (`OneVariable`).

Only model-checked: liveness (`TimedInvocationReturns`, `GateReleased`,
`AcceptedSettles`, `TimeoutBoundsGroup`, `CallReturns`, `SignalEndsServe`), which needs
fairness and ENABLED and is out of the prover's reach; and the six disagreements, which
are counterexamples.

## Not modelled

- Text: logging, help, shell completion, error wording, build information.
- `ResolvePath` (flag, environment variable, default) and the YAML decoder: a file
  is missing, malformed or decoded.
- The characters of a token. `tokenformat.Validate` is a yes or no, `Generate` a
  token or an error.
- The columns of a row that no decision depends on, and the arguments that
  `CreateRun` and `UpdateRun` refuse before they touch the database.
- The generated query plumbing under the statements.
- Reuse of a pid between the reaping of a child and the kill of its group.
- What a negative `timeout` means: `Load` accepts it and `execute` takes it for no
  timeout, and no document says otherwise.
- `LastRetentionPruneAt`, which nothing in the service calls.

## Plan

1. Done: all modules above with their runs, and the theorems above.
2. Next: the API relies on `RunLifecycle`, the service on `RunHistory`, and the runner
   implements the service; a composition that states the chain from the HTTP answer to
   the committed row as one theorem.
3. Action properties that are implied by the invariants and are not yet stated: a
   refusal never becomes a run, a pruned run never comes back.
