# Runnerly: a TLA+ development

Runnerly installs, registers, supervises and reports on self-hosted GitHub
Actions runners. This directory models the parts of it whose correctness
depends on what happens in which order, checks the models with TLC, and proves
the central invariants with TLAPS for every value of the constants.

## The system

| Part | State it keeps | Operations | What is hard about it |
|---|---|---|---|
| Process supervisor (`internal/supervisor`) | the child process, the consecutive-failure count, the restart budget, the restart flag | launch, wait, decide, back off, stop, kill; `Restart` from another goroutine | an operator's restart racing with an exit, a shutdown racing with both, failures paced to defeat the policy |
| Agent reporter (`internal/agent/report.go`) | status, a bounded event buffer, a refusal flag | observe, flush, heartbeat, run commands, final report | lost requests and responses, a full buffer, a credential that stops working |
| Agent (`internal/agent/agent.go`, `enroll.go`, `executor.go`) | composition of the above | run, enroll, preflight | what is persisted when, and what a restart of the agent finds |
| Job hooks (`internal/jobstate`, `internal/cli/hook.go`) | `job.json` beside the runner | job started, job completed | hooks that did not run, a runner killed in the middle of a job |
| Docker clean-up (`internal/docker`) | a snapshot of containers, volumes and networks | take, diff, remove | anything that appears between two snapshots, a snapshot that could not be taken |
| Ephemeral runs (`internal/cli/ephemeral.go`) | a registration at GitHub, a directory, a row in `runners.yaml`, a row at the server | register, supervise, tear down | a crash between any two steps, a failing step |
| Command queue (`internal/store/commands.go`, `internal/server`) | one row per command: pending, delivered, completed, failed | queue, collect, report, expire | two presses of one button, a heartbeat whose response is lost, an expiry racing with an execution |
| Machine credentials (`internal/store/tokens.go`, `internal/auth`) | token rows and the agent's credentials file | enroll, authenticate, rotate, revoke | rotation with a lost response, two transactions at READ COMMITTED, two agents sharing one file |
| Runner rows and health (`internal/store/runners.go`, `models.go`, `events.go`) | one row per runner, its status and last heartbeat, its events | upsert, heartbeat, retire, delete, record | staleness of a status, a heartbeat after a retirement |
| Users, sessions, OAuth (`internal/store/users.go`, `internal/server/oauth.go`, `auth.go`) | users, sessions, state cookies | sign in, authenticate, sign out, prune | expiry and the login check |
| Rate limiting (`internal/ratelimit`) | a token bucket per address | allow, sweep | forgetting a bucket, rounding of Retry-After |
| Schema migrations (`internal/store/migrate.go`) | applied versions | migrate | two servers starting at once, a failure between two migrations |
| Install and upgrade (`internal/runner`, `internal/cli/upgrade.go`, `runner_create.go`, `runner.go`) | the runner directory, its configuration, `runners.yaml` | download, verify, extract, configure, remove, upgrade | a step that fails after the previous one took effect, a job starting after the check for one |
| Local files (`internal/state`, `internal/auth`, `internal/config`) | `runners.yaml`, `credentials.yaml`, `config.yaml` | load, modify, save | two processes saving at once, a crash in the middle of a write |
| Service units (`internal/cli/launchd.go`, `schtasks.go`, `deploy/`) | a service definition on the machine | install, start, stop, remove | partial failure |
| Setup and doctor (`internal/cli/setup.go`, `internal/doctor`) | nothing of their own | checks and a guided sequence of the commands above | order of the checks |
| GitHub client (`internal/github`) | nothing | REST calls | external |
| Control-plane client (`internal/controlplane`) | the current token | the agent's five requests | which failures are final |
| Machine readings, metrics, secrets, UI, version, dashboards (`internal/machine`, `metrics`, `secret`, `ui`, `version`, `web`, `web/`, `site/`) | readings and pages | sample, render | none that a model checker reaches |

How they meet: the agent's `Run` starts the supervisor, and a reporter on a
goroutine of its own; the supervisor calls the reporter on every event, and the
reporter calls `Restart` when a heartbeat brings a restart command. The server
is stateless between requests: every handler is a few statements against
PostgreSQL, and any two handlers interleave between statements. The runner's
own process calls the job hooks, which share `job.json` with the agent and with
`runnerly upgrade`. The command line shares `runners.yaml` and
`credentials.yaml` with everything.

### What makes each part correct

| Part | Properties |
|---|---|
| Process supervisor | one process at a time; a restart by an operator excuses the process it was aimed at and no other; the hourly budget decides, whatever is forgiven: failures closer together than it allows end supervision, failures spread wider never do; a shutdown ends, with nothing left running |
| Command queue | a command is carried out at most once; what is resolved stays resolved; every command is resolved; a second press queues nothing unless it overlaps the first |
| Machine credentials | an agent that misses nothing is never locked out; two credentials of a runner live only after two reissues that overlap; an old one dies |
| Job hooks, Docker clean-up | `job.json` says what the runner does; a clean-up takes what its job made, and nothing that was there before |
| Agent reporter, runner rows, health | an event is stored once or lost, and never comes back; the status is what the supervisor last did, which it must infer from events that do not all have one; silence is shown; retired stays retired |
| Ephemeral runs | a run that did not die leaves nothing behind; completed means that it ran its job; the dashboard sees the end of it |
| Install, upgrade, local files | a command that said it succeeded is obeyed until another one is about the same thing; an upgrade throws away no job it could have known of |
| Rate limiting | no address gets more than an exact bucket gives, or less, up to the time a caller waits for the lock; forgetting a bucket changes no answer |
| Users, sessions, OAuth | the session in a browser was begun in that browser |
| Enrollment tokens | no token enrolls more machines than it may; every use is accounted for |
| Migrations | each is applied once and in order, by however many servers, and before it is relied on |

## Modules

| Module | Models | Proofs |
|---|---|---|
| `Supervisor` | `internal/supervisor`: `Run`, `Restart`, the process, the clock | `SupervisorProofs` |
| `RunnerPhases` | the phases of a supervised runner, shared by what depends on them | with `SupervisorProofs`, `ReportingProofs` |
| `RunnerLife` | the abstract specification of a supervisor: extends `RunnerPhases` | implemented by `Supervisor`, in `SupervisorProofs` |
| `Commands` | `internal/store/commands.go`, its handlers, and the part of the reporter that collects, runs and reports commands | `CommandsProofs` |
| `Credentials` | `internal/store/tokens.go`, the register and heartbeat handlers as far as they issue, `internal/agent/enroll.go`, the credentials file | `CredentialsProofs` |
| `JobHooks` | `internal/cli/hook.go`, `internal/jobstate`, `internal/docker` | `JobHooksProofs` |
| `JobFile` | the abstract specification of `job.json` | implemented by `JobHooks`, in `JobHooksProofs` |
| `RunnerRows` | `internal/store/runners.go`, `models.go`: one row, and what is derived from it | with `Reporting` |
| `EventFeed` | the abstract specification of event reporting | implemented by `Reporting`, in `ReportingProofs` |
| `Reporting` | `internal/agent/report.go`, `internal/server/agent.go`: extends `RunnerRows`, implements `EventFeed` | `ReportingProofs` |
| `Ephemeral` | `internal/cli/ephemeral.go`, and what it calls of `internal/runner` and `internal/agent` | `EphemeralProofs` |
| `Machine` | `internal/state`, `internal/auth`, `internal/cli/runner_create.go`, `runner.go`, `upgrade.go`, `auth.go` | `MachineProofs` |
| `RateLimit` | `internal/ratelimit`, which the server's middleware asks | `ServerProofs` |
| `Migrations` | `internal/store/migrate.go`, `cmd/runnerly-server`, `internal/cli/server.go` | with `Server` |
| `Server` | `internal/server/oauth.go`, `auth.go`, `agent.go`, `api.go` and their store: extends `Migrations` | `ServerProofs` |
| `MCServer` | `Server` for TLC, with its symmetry | |

Every `.cfg` names its module's specification and gives the constants their
values. Each module has its actions in groups, one group per party; a definition
whose comment calls it a mutant is a wrong variant of the definition that
follows it, and no specification uses it. Variables called history record what
happened and steer nothing.

### Supervisor

The variable `pc` is the point of `Run`'s loop (`Points` says which), `attempt`,
`recent` and `startedAt` are its locals, `current` and `restarting` the fields
under the mutex. One action is what happens between two points where another
goroutine can be noticed: `Launch` (`Start`, `setCurrent`), `ObserveExit` and
`ObserveCancel` (the first `select` of `awaitExit`, which may take either branch
when both are ready), `Kill` and `ShutDown` (the second), `TakeRestartFlag`, and
then one of `RestartAsked`, `Complete` and `Fail`, in the order `Run` asks;
`Retry` and `AbandonRetry` are the `select` of `waitBeforeRetry`. `Restart` is
two steps, because it sends the signal after it has released the mutex. The
process exits cleanly or not, at any time, and finishes a job (`jobDone`, what
the hooks recorded) at any time. The clock moves only where `Run` waits and
nothing is ready. `BudgetDecides` compares what `spendRestart` counted with all
restarts there were (`spends`): it has too many in one span of `Window`
(`OverspentAt`) before it gives up for that reason, and gives up as soon as it has.

What the rest of an agent sees of this is `RunnerLife`: the phase of the runner
(`LifeAt` gives it for each point of `Run`), how many were launched, and which are
alive. A runner begins when none is alive, dies when it likes, and only one that is
being stopped may outlast the phase it is in.

### Commands

`row` is the status column of `runner_commands`. `QueueCommand` is two actions,
`AskFirst` and `Insert`, with anything in between. The history `looked` and
`since` say how many rows a request, and the one a row comes from, had before it
when it looked for an open one; so `OneOpenUnlessOverlapped` can tell two requests
that overlapped from two that did not. `TakeCommands` is two as
well: its sub-select reads a snapshot (`Take`) and its outer update tests only
the id (`Deliver`), so under READ COMMITTED another statement can run between
them and the update still writes. A heartbeat the agent gave up on may go on at
the server: that is the side `stray`. `runCommands` takes the commands of an
answer one at a time (`RunCommand`, then `Report`, `ReportFails`, or a report
that arrives when the agent no longer waits for it, `ReportLate`). Of the
supervisor only the phase of `RunnerPhases` is kept, which moves as `Then` lets it:
`Restart` finds a runner, or the next one is coming, unless the phase is `ended`.
`leaving` is the last
heartbeat of `finalReport`.

### Credentials

Tokens are numbered in the order they are committed; 1 .. `old` are past their
lifetime. A request goes through the statements of its handler: `Redeem` or
`Authenticate`, `CheckAge`, then `IssueMachineToken` as `Begin` (the snapshot of
the `UPDATE`) and `Commit`. Two transactions for one runner that overlap see
neither's new row; the rows they both want to revoke are revoked by the first
(the second waits for its lock, and finds them revoked). The agent has a
credential in memory (`mem`), the machine one in its file, by server and not by
runner. Every write to the file may fail, and a failed write leaves what a crash in it
does (`HalfStored`): the old entry, the new one, or, since `os.WriteFile`
truncates first, an empty file, which `Load` reads as no credential.
(A file cut off in the middle of an entry does not parse, and the agent then
refuses to start; that is not modelled.)

### JobHooks

A hook is a process: it reads the configuration, the file if it is the second
hook, Docker kind by kind if it cleans up, removes what appeared one thing at a
time, and writes the file, in steps named `step`. Each can fail, and a kill of
the runner takes the hook along, since the supervisor signals the whole process
group. Others create and remove things in Docker at any moment. An identifier is
never used again once it is gone; this is so for containers and networks, while
the name of a volume could return, which the model leaves out. The pruning of
dangling images and the anonymous volumes that go with a container are left out.

What the readers of `job.json` get of this is `JobFile`. The file is mapped to what
`Running` and `FinishedAJob` answer (`Record`), and a job counts as begun when its
first hook is over, whether it wrote or not.

### RunnerRows, Reporting and EventFeed

`RunnerRows` has the row of one runner as a record, with the age of its last
heartbeat in place of the time, and each statement of the store as an operator on
it (`Upserted`, `Heard`, `Finished`); `Health` and `EffectiveStatus` are what the
dashboard computes on reading.

`Reporting` joins what `agent.Run` joins. The supervisor is reduced to the order
in which its events may follow each other (`Follows`); `Observe` is
`reporter.observe`, which has a status for some events and none for others
(`Silent`), `Enqueue` drops what does not fit. The reporter's goroutine is
at a `point` of `run` and waits for one `request` at a time; a heartbeat's answer
may bring a restart of the process that `setCurrent` has made known, even before
`started` is emitted (`MayAim`), whose Stop then fails or succeeds while the
supervisor goes on (`aimed`, `StopFails`). A request succeeds, succeeds in vain, fails, or
outlives its sender's patience as the `stray`, which arrives whenever it likes:
after a restart of the agent, after the runner was retired, deleted, or enrolled
by another machine. Another machine that enrolls under the same name may revoke the
credential (`EnrolledElsewhere`), and so may a rotation whose answer was lost
(`Superseded`). `EventFeed` promises that events wait, and are stored once or
lost; the refinement maps its `waiting` to the buffer and all requests.

### Ephemeral

One run after another in the same directory, each step of which may fail as the
code allows, or be the last before the run dies. The state is what steps leave
behind: the registration at GitHub, the record, the credential, `.runner` and
`job.json` in the directory, the row of the server, and runner processes, which
live on in a process group of their own. The number of a run stands for its random
name. `faulty` and `spoiled` say which runs died or could not finish a step.

### Machine

The commands of a machine, several at once, over `runners.yaml` and
`credentials.yaml`. A command is a process at a `pc`: `Load`, then `Truncate` and
`Write`, which is what `os.WriteFile` does, with anything in between, since
neither file has a lock. `Torn` is the file between the two, which reads as one
without entries. Around this, what each command does to the registration, the
directory and the job: `Install` in one step, `Purge`, `Clear`. An entry of a file
is the number of the command that wrote it, so that the property can tell whose
promise it is; `meant` is what the last successful command promised, or `Unknown`
where another one has begun, or has met the file torn. Jobs begin and end beside
it, recorded in `job.json` or not; with its job the registration of an ephemeral
runner goes, and GitHub drops those it has not seen for long (`Deregistered`).
`DeleteMachine` of the credentials file has no caller, and no action.

### RateLimit

A bucket counts time in place of tokens, so all of it is integers: a token is
worth `Every`. `Arrive` reads the clock and `Allow` takes the lock, at most `Lag`
apart, in any order. The reference are two exact buckets for each address
(`ample`, `strict`), refilled by the clock, never forgotten, one larger by the
lag; they are charged for what the limiter allows.

### Migrations and Server

`Migrations` has processes of different ages on one database, each started to
serve, to migrate only, or to serve without migrating. `AppliedMigrations` reads
once what is applied; `ApplyMigration` is one transaction, which the primary key
of `schema_migrations` lets commit only once per migration.

`Server` extends it with what a serving process does. A sign-in is a number for
its state, its code and its session, which the code draws at random: no two
sign-ins share any, and no one can guess one. The browser's jar holds the state
and the session; a callback is `ExchangeCode`, `CreateSession` and the answer,
each of which may fail, be lost, or end with its process. An enrollment is
`RedeemEnrollmentToken`, `IssueMachineToken` and the answer; the agent may give up
and ask again while the handler goes on. `Ends` takes what was under way at a
process with it, since the grace of a shutdown can run out between any two
statements. A statement needs its tables (`Works`), so a server that skipped the
migrations fails, and does no more than that. A person authorises only a page he
opened himself, as GitHub asks him. Creating and revoking tokens is one statement
each, whoever does it.

## Runs

"Finding" runs look for a violation, and find it; the others pass.

| Run | Question | Bounds, and why they are enough |
|---|---|---|
| `supervisor` | does it implement `RunnerLife`, so with one runner at a time; the budget, the flag; does a shutdown end, does a restart reach its process, does a hasty crash loop end | One failure in a row and two in a window of five before giving up, one operator restart. An uptime of one is forgiven and still leaves room for three failures in one window; with an uptime of two they are further apart, and the clock stops at 10 with `Run` still at work: without its premise of haste `CrashLoopEnds` would fail. A runner in haste is given up on by 9 |
| `supervisor_finding_ephemeral` | does an ephemeral runner that has finished stay finished | One operator restart |
| `commands` | does no command run twice, is nothing resolved changed, are two open only after an overlap, is each resolved | Two commands, two operators whose requests overlap or not, two starts, one command per collection so that the limit matters; two collections or results may outlive the agent's wait for them |
| `commands_finding_done` | is what is done carried out | The smallest instance |
| `credentials_rotation` | why an agent is locked out, when two credentials live, whether an old one dies | Four credentials, so two rotations follow an enrollment and a second enrollment fits; three starts; one request that outlives its agent's patience. Two agents that share the file are in the proofs |
| `jobhooks_safety` | what is removed, what is left, what the file says | Two jobs, so that the second finds what the first and its hooks left; one thing of each kind, which may exist before, be made by a job or by others; an edit of the configuration and a kill |
| `jobhooks_finding_untaken` | is nothing removed when nothing was recorded | One job |
| `reporting` | is an event stored at most once, is the status right, is silence shown, is who works shown at work, does retired stay | A buffer of two that three events fill, batches of one so that the last report leaves some behind. Events, strays and second starts share a bound of four: a start, an exit, a Stop that fails and an event that has no status fit into it, or three of them and a stray of the first agent that meets the second one. Thresholds one and two tell healthy, stale and offline apart |
| `ephemeral` | what a run leaves, what completed means, whether it is retired | Two runs: what one leaves, the next one finds, and nothing but the directory, the credential and the processes reaches from one to the other |
| `machine` | is a command obeyed, is a known job spared | Two commands at once and three in all over two runners that share a file: one command to set up what two others then fight about. Any number of them in the proofs |
| `ratelimit` | does the limiter answer like the exact bucket | Two tokens that take two units each, so levels between tokens occur; two callers with a lag of one, so clocks are served out of order; time enough to be forgotten and asked again |
| `server` | do migrations fit, is a session its browser's own, are uses accounted for | Two processes of two ages, two migrations, two browsers, two machines, one token for one machine. The bound on starts, sign-ins and enrollments together is four: two servers with two sign-ins, two enrollments, or one of each; or one server and three. What is larger in one direction is in the proofs. Processes, browsers and machines are symmetric, since no definition tells one from another and no property is temporal |

`CHECK_DEADLOCK FALSE` stands where the bounds let the system stop: an agent
that used up its starts, a runner without a further job, commands or runs that
are used up, a clock at its end.

Each passing run states one type invariant. The other properties each take
several steps of several parties to break. For each there is a mutant, a
plausible error in one definition, that breaks it.

### Fairness

- `Supervisor`: the Go scheduler runs a goroutine that can run, timers fire, and
  a process that was killed dies (`WF` on `RunStep`, `SendStop`, `Tick`, and an
  exit after `Kill`). This assumes that `Wait` returns once the process group is
  dead; a descendant that left the group and holds the output pipe would delay
  it. The run adds that a runner told to stop by an operator does stop
  (`CooperativeSpec`), as no timeout stands behind that signal;
  `CrashLoopEnds` has the premise that the runner keeps dying, and each time so
  soon that a window holds more failures than the budget (`Hasty`): one whose
  failures are further apart is restarted for ever, as
  `TestSpacedRestartsDoNotExhaustTheBudget` (`supervisor_test.go:666`) wants it.
- `Commands`: only the server is fair. A statement that began ends, and
  housekeeping runs every hour; nothing is assumed of agents or operators.
- `Credentials`: the reporter's loop turns, time passes, and the network and the
  database do not fail for ever (strong fairness of each statement of an agent's
  own request, as any attempt may fail and is made again).
- `Reporting`: time passes, a request ends (every one has a timeout), a Stop
  returns. The reporter's `select` picks at random among what is ready, so neither
  a heartbeat nor the last report is put off for ever (`SF`), and the network does
  not fail every heartbeat (`SF` on a heartbeat that succeeds). Nothing is assumed
  of agents: they may crash and never come back.
- `Ephemeral`: a run goes on, in its own steps, until it ends, fails or dies (`WF`).
  Nothing is assumed of its supervisor, which may wait for a job or relaunch a
  runner for ever; `RetiredInTheEnd` has the premise that no run stays with its
  supervisor for ever (`SupervisionEnds`).
- `JobHooks`, `Machine`, `RateLimit`, `Server`: none; their properties are safety.

## Proofs

The proofs hold for every value of the constants that satisfies the module's
assumption: any policy, any number of operators, commands, agents, credentials,
things, jobs, addresses, processes, browsers and machines. One theorem has a
hypothesis more. `ShutdownLaunchesHolds` has `PositiveDelays`: with a delay of zero
the timer and the context are ready together for ever.

| Theorem | Argument |
|---|---|
| `TypeCorrect`, in each module | Step by step, one fact per action |
| `Supervisor`: `OneRunnerHolds` | Inductive as it stands: a process is launched only where none is alive |
| `LifeImplemented` | Each action maps to a step of `RunnerLife` or to a stutter (`LifeStep`), given `TypeOK` and `OneRunner`: these say that `Launch` meets no runner, and that every step out of a phase but the one into `stopping` leaves none |
| `RestartExcusesItsTargetHolds` | `FlagInv`: `current` is the last process launched, from `Launch` to the end of `taken`, so a flag raised in that time names it; launching lowers any other. `RestartExcusesItsTarget` alone says nothing of a flag not yet read |
| `AcceptedIsStoppedHolds` | `AcceptedInv`, over `FlagInv`: what `Restart` accepted was the last process, so a new one was never accepted before. With it, `RestartReachesItsTarget` needs only that `SendStop` happens and that the runner obeys |
| `BudgetDecidesHolds` | `BudgetInv`: entries pruned from `recent` are older than the window (`PrunedIsOld`) and entries are dated in launch order (`SpendsAreDated`), so what `spendRestart` counts is all that the span ending now holds (`SpanIsKept`), and a new entry enters no earlier span. Conversely, where `Run` gives up for the budget, the span that ends with the restart it has just counted holds too many (`FailCause`) |
| `ShutdownLaunchesHolds` | `ShutdownInv` counts a launch that `Run` is committed to (`Committed`) as made |
| `Commands`: `RunsAtMostOnceHolds` | `OnceInv`: what waits in the table has not been run, what the agent holds or is about to get has not been run and is no longer pending, and the agent holds at most one answer |
| `FinalUnlessOverlappedHolds` | Type correctness and each action's guard: only `Deliver` writes over a resolved row, and only over one it selected |
| `OneOpenHolds` | `LookedInv`: whatever is open and was not reopened, and stands in the table when a request inserts, was inserted after that request looked; so the new row's `since` is below it. Nothing but an insert opens a row, except a late collection, which records it as reopened |
| `Credentials`: `LockoutHasCauseHolds` | `LockoutInv`: the credential in the file, in an agent and in an answer is live or was superseded by one the agent never had. `ServerMoves` says what the server can do to a credential, and `EveryStepMoves` that it does nothing else, so each action of an agent is a case of its own |
| `TwoLiveOnlyByOverlapHolds` | A commit that leaves two live missed one above its snapshot; no other step adds a live one |
| `JobHooks`: `FileTellsTheTruthHolds` | Inductive with the types: a hook returns only by writing, or by admitting that it did not |
| `KeepsWhatWasThereHolds` | `KeepInv`: what is left of what was there is covered, first kind by kind by the list (`ListedInv`), then by the file (`RecordedInv`), then by the copy, and never by what is left to remove (`SparedInv`) |
| `LeavesNothingHolds` | `LeftInv`: nothing of a job can be in the snapshot that its second hook reads, whichever hook wrote it (`FirstOfItsNumber`, `NotRecorded`, `NotInCopy`), so all of it is listed (`OwnListed`) and then doomed (`OwnDoomed`) |
| `HooksImplementJobFile` | `RecordInv`: the file has a start only if it has a status or an end with it, and the second hook writes over what it read, or over nothing it could read; so it adds an end only where a start was recorded |
| `Reporting`: `ReporterImplementsFeed` | `PlacesOK`: an event that may still be stored is in the buffer, the request or the stray, in one of them, in the buffer once, and was emitted. Each action is then a step of `EventFeed` or a stutter, and nothing stored can be stored again |
| `StoredOnce` | `StoredInv`, over the refinement: what is stored does not wait, by the steps of `EventFeed`, and no batch under way has an event twice, so appending one to the table (`ConcatOnce`) adds no second row |
| `StatusIsRight` | `StatusFollowsSupervisor` with `LastOK`: an event that has a status has the one its point calls for (`StatusAfterIsRight`); one that has none comes only where the same status was called for already, or `stopping` still is (`SilentKeepsStatus`); and the last report, which sets offline, is reached only when `Run` has returned |
| `RetiredStays` | Action by action: of what reaches the row, heartbeats included, only an enrollment lowers the flag, and the flag outweighs status and age in what is shown |
| `EventsKeepToLife`, `EventsCoverLife` | `PhaseAfter` gives the phase each event stands for. Over it the table of events and `Then` agree: no event changes the phase otherwise (`FollowingKeepsToLife`, and only `Observe` emits), and no change is out of reach of three events |
| `Ephemeral`: `LeavesNothingHolds`, `CompletedWorkedHolds` | `IInv` says what a run has at each `pc`: what it registered, recorded, configured and reported, which anything else has left only if it is `faulty` (`RegisteredOK`, `RecordedOK`, `ConfiguredOK`, `AliveOK`, `RowOK`); and whose job the file speaks of (`JobOK`). The two properties speak of runs that are over, and each step of the teardown is there to take one of these away |
| `RateLimit`: `LimiterIsFair` | For a bucket that is tracked, the exact ones are what its level would be if it were asked now, up to the lag (`AmpleOK`, `StrictOK`, over `Due`); for one that is not, they are full. A bucket is forgotten after `IdleAfter`, when the exact one has been full for long; this needs `IdleAfter >= Full + 2 * Lag`, which holds because `PerMinute` fills every bucket in a minute and `idleAfter` is ten |
| `Machine`: `PromisesAreKept` | A command unsays what was promised of its own entry (`UnsureOK`); what it writes of the others is what it read, and they are still promised to be so (`SeenOK`); it promises something new only if it was alone (`AloneOK`), and then what it loaded is what the file held (`LoadedOK`) and what it did still stands (`DoneOK`) |
| `KnownJobsAreSpared` | `ClearOK`: a job recorded at the time of the clean-up began after the check |
| `Server`: `SchemaFitsTheorem` | `SchemaInv`: what a process has left is the end of what its binary knows and holds all that is missing, so the first of it that can be recorded is the next of `effects` |
| `SessionIsOwnTheorem` | `OwnOK`: the state in a jar, the callback it admits and the session that this creates were begun by the jar's browser |
| `UsesAreAccountedTheorem` | `UsesOK` with `RequestsOK`: requests are unique by their number, and a use is a credential, is wasted, or is with the one request that will issue it |

Every safety property that a run checks is proved. Only model-checked are the
liveness properties (`ShutdownEnds`, `RestartReachesItsTarget`, `CrashLoopEnds`,
`EveryCommandResolved`, `OldIsRevoked`, `SilenceIsShown`, `UpIsShown`,
`RetiredInTheEnd`), since the provers installed do not reason about `ENABLED`, on
which fairness rests; and the findings, which are false and need only an example.

### How the modules fit together

Each component is proved on its own. Where one rests on another, it has in its place
what the other is proved to keep to:

| Who assumes | What | Who keeps it |
|---|---|---|
| `Commands` | the supervisor's runner goes through the phases of `RunnerPhases` | `Supervisor`, by `LifeImplemented` |
| `Reporting` | the events of a supervisor follow each other as in `Follows`, which is these phases again, in the detail of the events (`EventsKeepToLife`, `EventsCoverLife`) | `Supervisor`, by `LifeImplemented`, as far as the phases go; the order of the events inside a phase is read off the code |
| `Ephemeral` (`SupervisionEnds`) | a runner that keeps exiting does not stay with its supervisor for ever | `Supervisor` if it exits in haste, by `CrashLoopEnds`, which is model-checked; nobody if not |
| `Supervisor` (`jobDone`), `Reporting` (`job`) | `job.json` says that a job was finished only when one is over, and that one runs only when one has begun | `JobHooks`, by `HooksImplementJobFile` |
| `Reporting` (`live`) | a credential may stop working at any time after an enrollment or a rotation | `Credentials` says for which reasons (`LockoutHasCauseHolds`) |
| the dashboard, outside the models | events are stored once or lost | `Reporting`, by `ReporterImplementsFeed` |

## Findings

1. A restart by an operator makes an ephemeral runner that finished its job run
   again (`supervisor_finding_ephemeral`): `Run` reads the restart flag first.
2. The last heartbeat of an agent collects a restart and reports it done with
   nothing left to restart (`commands_finding_done`).
3. A snapshot that could not be taken is read back as an empty one, and the
   clean-up then removes every container, volume and network on the machine
   (`jobhooks_finding_untaken`). The same happens when the first hook could not
   write the file, when the file cannot be read, and when the clean-up is
   switched on between the two hooks; `blind` names these cases.

Seen while modelling, and visible in what a property has to except:

- Two presses that overlap queue two restarts, where `dashboard.md` says one, and a
  late collection can open a resolved command again: hence
  `OneOpenUnlessOverlapped` and `FinalUnlessOverlapped`. Two rotations that overlap leave two live credentials:
  hence `TwoLiveOnlyByOverlap`, where `tokens.go` says never.
- A restart accepted between `takeRestartFlag` and `setCurrent(nil)` has no
  effect, though `Restart` returned true (`supervisor.go:258`). A launch that
  fails costs nothing of the hourly budget (`supervisor.go:229`).
- A `Restart` whose Stop fails because the process had died emits stopping, and a
  runner that works is shown as stopping until its next event that has a status
  (`unsettled`). An ephemeral runner that has completed is shown as starting until
  the last report says offline, as `completed` has no status of its own.
- A runner whose failures are spread wider than the budget counts is restarted for
  ever; an ephemeral one that exits so without its job is never retired.
- When the buffer is full the newest event is dropped; `report.go:17` says the
  oldest. What exceeds one batch at the end is not sent.
- A late heartbeat is stored on a retired row, which stays retired; on a row of a
  runner that another machine enrolled again it sets the old status.
- A command that was delivered in an answer that got lost blocks further
  restarts until it expires, while `api.go:187` promises the next heartbeat; and
  a command that was carried out, but whose result was lost, ends as failed.
- An agent that could not store a rotated credential starts with the revoked one
  and is refused; it does not enroll again, as `report.go:330` says it would.
- The agents of one machine share one entry per server in `credentials.yaml`,
  and with it the identity of one runner. An ephemeral run therefore reports, and
  retires, as the runner whose credential it finds.
- What a killed job left in Docker is part of the next job's snapshot, and so is
  never removed. What somebody else creates while a job runs is removed with it
  (`docker.go:174`), while `docs/architecture.md:150` says that nothing but the
  job's can be.
- `runnerly ephemeral run` installs no signal handler, so a stop by the service
  manager ends it without the teardown that "every path must end in"
  (`ephemeral.go:262`). A `job.json` it leaves makes the next run completed
  without a job; its registration, its record and its row stay; a directory that
  was half unpacked is reused (`install.go:129`).
- `runner remove --purge` that fails on the files cannot be repeated, as the record
  is gone (`runner.go:262`). An upgrade puts back the record it read at its
  beginning, and resurrects a runner that was removed meanwhile
  (`upgrade.go:189`); one that fails after it cleared leaves no runner installed. A
  file read between truncation and writing is taken for empty, and made so
  (`state.go:95`).
- `Retry-After` is rounded down (`observability.go:155`), so a client that obeys it
  can be refused once more.
- The allow list is asked at sign-in only, and a session lives on for seven days.
  A second tab overwrites the state cookie of the first, and any callback's answer
  clears it. A new sign-in does not end the session before it.
- An enrollment token's use is spent even if a later step fails
  (`server/agent.go:69`).
- An older binary starts on a newer schema without complaint. Of two servers that
  meet at a migration one exits with an error and is started again by its service
  manager.

## Not modelled

- Service units (`internal/cli/launchd.go`, `schtasks.go`, `deploy/`): sequences of
  calls to `launchctl`, `schtasks` and `systemctl`. The state is in those, and what
  they do with it is not in this code.
- Setup and doctor: setup asks, and calls the functions of login and
  runner create, which are in `Machine`; doctor only reads.
- The GitHub client: requests without state; each module has GitHub's answers as
  outcomes, external in the map.
- Configuration: parsing, defaults and validation.
- Machine readings, metrics, secrets, listings, pages, formatting, logging and
  versions: no order of events can make them wrong.
- Inside what is modelled: the contents of migrations, archives, checksums and
  `config.sh` (one outcome each); the allow list's rules; a credentials file cut off
  in the middle of an entry, which does not parse; the pruning of dangling images.

Numbers that the code takes from the clock, from a sequence or at random are
numbers in order here; that two random ones differ is assumed.
