# go-sarah in TLA+

go-sarah is a framework for chat bots. One process (`Run`) drives any number of
bots, each of which talks to a chat service through an adapter. The work is done
by goroutines that share state, wait on channels and call each other back; this
project models that part of the code, checks it with TLC and proves most of its
safety with TLAPS.

## 1. Inventory

| Part | State it keeps | Operations | Interacts with |
|---|---|---|---|
| Runner and supervision (`runner.go`, `alert.go`, `error.go`) | the context of `Run`, one context per bot, a `WaitGroup` | `Run`, `runner.run`, `runBot`, `superviseBot` (`errNotifier`, `handleError`, `stopBot`, `sendAlert`), `alertAll` | starts every other part; adapters call `errNotifier` from any goroutine |
| Registration (`command.go`, `task.go`, `Register*` and `newRunner` in `runner.go`) | the props of each builder, the stashed options | setters and `Build`, `RegisterBot`, `RegisterCommand(Props)`, `RegisterScheduledTask(Props)`, `newRunner`, `registerCommands`, `registerScheduledTasks` | feeds commands and scheduler of every bot, and the watcher with callbacks |
| Status (`status.go`) | `runnerStatus`: `finished`, the list of `botStatus`, an `RWMutex` | `start`, `addBot`, `stopBot`, `snapshot`, `running` | written by `Run` and the goroutines of the bots, read by `CurrentStatus` |
| Scheduler (`scheduler.go`, `task.go`) | a map from tasks to cron entries, two channels of size 1 | `remove`, `update`, `receiveEvent`, `buildScheduledTask` | called by the goroutine of the bot and, through callbacks, by the watcher's |
| File watcher (`watchers/filewatcher.go`, `watcher.go`) | subscriptions per directory, the directories fsnotify watches, three channels | `Read`, `Watch`, `Unwatch`, `run` with `doSubscribe`, `doUnsubscribe`, `doHandleEvent` | calls back into the registration of commands and tasks |
| Commands and live configuration (`command.go`, `locker.go`) | the command collection, one `RWMutex` per plugin, configuration objects | `buildCommand`, `Append`, `FindFirstMatched`, `Execute` | built by the bot's and the watcher's goroutine, executed by workers |
| Default bot and conversations (`bot.go`, `storage.go`, `input.go`) | the user contexts in a cache, if there is one | `Respond`: `Get`, `Delete`, execute, `Set`, `SendMessage`; `Flush` | run by a pool of workers |
| Input receiver (`setupInputReceiver`) | a counter of refusals in a row | enqueue or drop | called by adapters, feeds the worker |
| Slack RTM adapter (`slack/rtmapi.go`) | connection, its context, the channel `tryPing` | `run`, `connect`, `receivePayload`, `superviseConnection` | reports through `errNotifier`, hands on inputs |
| Slack Events API adapter (`slack/eventsapi.go`) | an HTTP server | `run` | the same |
| Gitter adapter (`gitter/`) | a goroutine and a connection per room | `Run`, `runEachRoom`, `receiveMessageRecursive` | the same |
| LINE alerter, payloads, REST clients, message builders | none that outlives a call | conversions and single requests | |

What is hard: several goroutines of a bot escalate errors while the bot ends by
itself; one select serves competing channels; callbacks run in the goroutine of
the watcher; contexts are canceled between any two steps; locks are taken twice;
a user's inputs are handled by several workers; alerters and plugins fail or
panic in the middle. `PROJECT.json` lists these under `hazards`, each at its line
and with the properties that watch it.

What makes each part correct:

- supervision: a bot ends only because Sarah stopped it, every unintended end is
  alerted, nobody is alerted twice by one goroutine, shutting down terminates;
- status: one `Run`, and what `CurrentStatus` says is true, complete and final;
- scheduler: cron and the map agree, a task that failed to build does not go on
  with its old configuration, what runs is the last build;
- watcher: map and fsnotify agree, no callback after `Unwatch`, no lost change;
- watcher and scheduler together: while the context lives nobody waits for ever;
- registration: a bot gets what was registered for it and no more, and `Build`
  refuses exactly what could never be scheduled;
- live configuration: an execution sees one version, and a quiet command is up to
  date;
- conversation: a context is not lost, continued once, and ended by an abort;
- adapters: nothing is left open, no return without a reason, no goroutine that
  outlives its bot.

## 2. Modules

| Module | Models | Notes |
|---|---|---|
| `BotLifecycle` | what Sarah promises of each bot | abstract specification |
| `Supervisor` | `Run`, `runner.run`, `runBot`, `superviseBot`, `alertAll` | refines `BotLifecycle` |
| `SupervisorProofs` | | theorems about `Supervisor` |
| `GitterBot` | the Gitter adapter composed with `Supervisor` | extends `Supervisor` |
| `GitterBotProofs` | | theorems about `GitterBot` |
| `SlackBot` | `slack/rtmapi.go` and `slack/eventsapi.go` composed with `Supervisor` | extends `Supervisor`, refines `BotLifecycle` |
| `SlackBotProofs` | | theorems about `SlackBot` |
| `Status`, `MCStatus` | `status.go` and its `RWMutex` | |
| `StatusProofs` | | theorems about `Status` |
| `RunContext` | the context of `Run`, which every part shares | |
| `Scheduler`, `MCScheduler` | `scheduler.go` with `registerScheduledTasks` | extends `RunContext` |
| `FileWatcher`, `MCFileWatcher` | `watchers/filewatcher.go` with its callers | extends `RunContext` |
| `ConfigReload`, `MCConfigReload` | watcher and scheduler together | composes the two |
| `ConfigReloadProofs` | | theorems about `Scheduler`, `FileWatcher` and `ConfigReload` |
| `LiveConfig`, `MCLiveConfig` | `buildCommand`, `Commands`, the plugin lock | |
| `LiveConfigProofs` | | theorems about `LiveConfig` |
| `Registration`, `MCRegistration` | builders, options, and what `runBot` registers | |
| `RegistrationProofs` | | theorems about `Registration` |
| `Conversation` | `defaultBot.Respond` over workers and storage | |
| `ConversationProofs` | | theorems about `Conversation` |

Every definition that models code is listed under `map` in `PROJECT.json` with
its lines. Definitions marked as mutants in their comment are wrong on purpose:
they show which bug in the code a property would find, and no specification uses
them.

### Supervisor
`botPc` follows the goroutine that `runner.run` starts for a bot through
`addBot`, `runBot`, its deferred function, `wg.Done` and `stopBot`. `botCtx` is
the bot's own cancellation; the bot's context is done when `runnerCtx` or
`botCtx` is. `call[b][c]` says where goroutine `c` of bot `b` is inside
`errNotifier`: the check of `botCtx.Done()` (`Escalate`, `NotifyFromDefer`), the
cancellation (`HandleFatal`, `HandleOther`) and the start of the alerting
goroutine (`SendAlert`) are three steps, so calls overlap in every way. Each
alerting goroutine is a record in `alerts[b]`, and `AlertOne` is one turn of the
loop of `alertAll`. `reasons` keeps why `stopBot` was called. The answer of the
developer's supervising function is free. `watching` is the outcome of `Watch`
and `Unwatch`. `BotTypes` says which bots share a BotType, as `RegisterBot` allows:
`stopBot` closes the status entries of the whole type, and `Unwatch` ends all of its
subscriptions. `Escalating` bounds which bots have adapters that escalate errors.
The phase that `BotLifecycle` knows a bot by is that of its goroutine, not of its
status.

### GitterBot
`adapter` and `room` extend the state of `Supervisor`. `FetchRooms`, `FetchFails`
and `RunReturnsToBot` are `Adapter.Run`, the `Room` actions are `runEachRoom` and
`receiveMessageRecursive`. `wire` holds the lines that the stream of a room still
has. Each `Receive` wraps it into a new `bufio.Reader`, so `RoomReceives` takes any
number of lines off it, the beginning of one more perhaps, and returns the first:
the others are lost. Panics of `Adapter.Run` are left out: the code of the adapter
contains none.

### Status
Go's `RWMutex` is modelled with its waiting writer: `Lock` first announces the
writer, which keeps new readers out, and gets the lock when the readers have
left. `stopBot` and `snapshot` go through the list one entry per step, as they
share the read lock.

### Scheduler
Two clients (the bot's goroutine and the watcher's) go through remove, build,
send and await; `removing` and `updating` are the channels, `schedule` is the map
and `entries` is what cron holds. `loopVar` is the variable of the loop over
plain tasks, which all their functions share under the Go version of `go.mod`.
Building fails or succeeds freely; cron refuses an empty or malformed schedule.

### FileWatcher
`loop` says what `run` is doing. `Watch` is a rendezvous that lasts until the
answer; `Unwatch` returns after the rendezvous, before `doUnsubscribe`. A callback
reads the file of its plugin, which `stale` records. After the context is done
the channel `unsubscribe` is closed and `Unwatch` returns an error; a bot that
calls `Watch` then waits for ever, which is what the code does. `PluginsOf` gives
each plugin to one bot and once: a plugin is one registration, and of those two may
well have the same identifier (`IdOf`). `Among` filters a list; it says which element
is the k-th that is left, as the prover knows nothing about `SelectSeq`.

### ConfigReload
Every step is one of `FileWatcher`, one of `Scheduler`, or one of each. The bots
wait for the watcher in `Watch` and `Unwatch`; the watcher's goroutine runs the
callbacks, and the callback of a task waits for the scheduler, as the goroutine
of `TaskBot` does when it registers its tasks. One `Cancel` ends the context of
both. A task that was read, built and sent is then watched (`WatchTask`), and
`BotPanics` is the end of `Bot.Run` that skips `Unwatch`.

### LiveConfig
A configuration has two fields, and decoding a file or executing a command takes
one step for each. A pointer or a map is decoded in place (`object`), anything
else into a copy that goes into the new command. The lock of the plugin is the
same waiting-writer mutex as in `Status`.

### Conversation
An input goes from the queue to a worker and through `Respond`; each access to
the storage is a step. A context is named after the input that opened it. Users
in `Patient` send the next input when they have the reply to the last one.

An abort is an input, a request for help too. `stateful` tells a bot with a
storage from one without, and `Flush` empties the storage at any moment.

### SlackBot
The variables of the adapter are functions from the bots and extend the state of
`Supervisor`. `RunRTM` or `RunServer` is what the adapter was built for. With RTM,
`run` connects, supervises, closes, cancels and connects again; every connection
has a receiver of its own, and receivers of old connections may still be at work,
even when `run` has returned. `tryPing` has room for one signal, and `Signal` never
waits. With the Events API, `run` waits for the end of the context or of the
`server`, whose goroutines call the payload handler until it is down. That the
server ends with `http.ErrServerClosed` only when the context is done is assumed of
the client, as the comment in `eventsapi.go` does. What `run` escalates is a call
of the `errNotifier` of `Supervisor`.

### Registration
A builder owns one `props` record; the setters change it, `Build` validates it and
returns the record itself, not a copy, so that what was registered is known by its
builder. `Run` applies the stashed options (`applied`): from then on a registration
changes nothing. `todo` has the places in `applied` that the goroutine of a bot has yet
to come to, and `Before` their order: commands before tasks, props before the
developer's own plugins, and each of the four lists in the order of registration. `Configured` says what `buildScheduledTask` makes of
the schedule and the destination of the config and of the props; a file may be
missing, broken, or give an empty or malformed schedule. `watched` are the props
with a callback, and `Reload` builds them again. A bot is known by its BotType, and
its commands and tasks are maps from identifiers, since `LiveConfig` and `Scheduler`
have the details. One detail is kept: `remove` does not wait for the scheduler, so a
removal may stay in its channel (`removing`) beyond the update that it was sent
before, and `ReceiveRemoval` then takes away the task that is there by now.

## 3. Runs

| Run | Checks | Instance |
|---|---|---|
| `Supervisor` | type; `UnintentionalStopIsAlerted`, `OneFatalAlertPerCaller`, `FinishedTypeWasCanceled`; refinement of `BotLifecycle` with its fairness; `ShutdownCompletes` | two bots of one BotType, one of them with two goroutines that may escalate an error, one alerter |
| `SlackBot` | type; `NothingIsLeftOpen`, `NoPayloadAfterCancel`, `ReturnHasReason`; refinement of `BotLifecycle` with its fairness (`SlackImplementsLifecycle`); `LostConnectionIsClosed`, `ReceiversEnd`, `CanceledSlackBotEnds` | one bot, two connections, two trials, one input; or a server; two alerters |
| `GitterBot` | type; `SilentReturnServesRooms`, `InputsInOrder`; `RoomsEnd` | one bot, two rooms, two lines per room |
| `Status` | type; `ReportedFinishedIsFinished`, `StoppedBotIsReported`, `FinishedIsFinal` | two callers of `Run`, three bots of which two share a type, two snapshots |
| `Scheduler` | `CronHoldsTheSchedule`, `FailedTaskIsRemoved`, `ScheduledTaskIsCurrent` | two tasks with props, a plain one, two configuration changes |
| `ConfigReload` | type of watcher and scheduler; `SubscriptionsAreSound`, `NoCallbackAfterUnwatch`, `RunningBotIsSubscribed`; `ChangesAreApplied`, `CallsReturn` | two bots, one with a command and a task of the same identifier, one change |
| `LiveConfig` | `NoTornConfig`, `QuietCommandIsCurrent`; `BuildEnds` | a shared and a copied configuration, a plain command, two changes per file |
| `Registration` | `BotServesItsCommands`, `BotRunsItsTasks`, `ValidationIsTight` | two builders (symmetric), two BotTypes, two identifiers, three options |
| `Conversation` | type; `ContextIsNotLost`, `AbortCancelsContext` | a patient and an impatient user, two workers, a queue of one, with and without a storage |
| `StatusDeadlock` | `CurrentStatusReturns` is violated | one `Run`, two bots, one snapshot |
| `SchedulerLostTask` | `RegisteredTaskIsScheduled` is violated | one task, one change |
| `ConfigReloadShutdown` | `UnwatchReturns` is violated | one bot, one task, one change |

The types of `LiveConfig`, of `Registration` and of `Scheduler`, and the safety of the
watcher by itself, also for several bots of one type, are proved and need no run.

Every system here may legitimately stop (the bounds run out, a canceled process
ends), so deadlock is not checked; what must not get stuck is stated as liveness.

Bounds. `MaxEscalations`, `MaxSnapshots`, `MaxUpdates`, `MaxEvents`, `MaxChanges`,
`MaxInputs`, `MaxConns`, `MaxLines` and `MaxOptions` cap what the environment does;
`Trials` is the number in the retry policy. Two of each is enough for
one to overtake another, which is what the properties are about: an error of the
adapter races with the deferred one (the invariants of `Supervisor` pass with two
errors as well), two rebuilds of a task overlap with the registration of
another, the receiver of a closed connection meets the next connection (`SlackBot`
passes with three connections too). Three bots are needed where two share a type and
a third must not be disturbed. Three options are a bot, its plugin and one that
competes with it or belongs to another bot; `Registration` passes with four as well.
The safety results do not depend on the bounds where they are proved (section 5).

Fairness is weak, for goroutines that can go on: the Go scheduler runs them. A
select that has a case ready all the time comes to it. In `Supervisor`, `Bot.Run`
has to return once its context is done, which the `Bot` interface asks for, and not
before; nobody has to cancel or to fail. `CanceledSlackBotEnds` shows that the Slack
adapter keeps to it, and `SlackImplementsLifecycle` that without the assumption a
Slack bot does what `BotLifecycle` promises. In `SlackBot` `Receive` returns an
error on a connection that is lost or closed, and the ticker ticks. In `GitterBot` a
stream ends with its context. In `ConfigReload` `Bot.Run` ends when its context is
done, and each case of the two selects (watcher and scheduler) is taken some time if
it stays ready. In `LiveConfig` the functions of commands return.
`Status` alone has strong fairness, for calls that wait for the mutex, which
`sync.RWMutex` does not starve; only the violated property uses it, so the
counterexample is no artefact of an unfair mutex.

## 4. Where the code and its comments disagree

Three counterexamples belong to the runs:

- `StatusDeadlock`: `snapshot` holds the read lock and takes it again in
  `running`; a writer that arrives in between blocks `CurrentStatus` and every bot.
- `SchedulerLostTask`: removals and updates use two channels, so an update may be
  received before the removal that was sent first. The task is gone although
  `update` answered nil.
- `ConfigReloadShutdown`: the context ends while the watcher runs the callback of a
  task. The scheduler has left, the callback waits for its answer, the watcher never
  closes `unsubscribe`, and `Unwatch` never returns.

Further ones have a property in the section "What the comments of the code
promise" of their module and a configuration that gives the counterexample:

| Configuration | Module | What it shows |
|---|---|---|
| `SupervisorSharedType` | `Supervisor` | when one of two bots of a BotType ends, the other one, still running, is reported as finished: `FinishedBotIsCanceled` |
| `SupervisorUnwatch` | `Supervisor` | after a panic of `Bot.Run`, `Unwatch` is not called |
| `SupervisorResources` | `Supervisor` | when all bots stopped, worker and scheduler go on |
| `StatusRunning` | `MCStatus` | `Status.Running` stays true when all bots stopped |
| `StatusFailedRun` | `MCStatus` | after a `Run` that failed, the next one gets `ErrRunnerAlreadyRunning` |
| `SchedulerLoopVar` | `MCScheduler` | of several plain tasks, the one registered last is executed for all |
| `SchedulerCancel` | `MCScheduler` | canceling while tasks are registered blocks the goroutine of the bot |
| `FileWatcherSameId` | `MCFileWatcher` | of a command and a task with one identifier, one is subscribed |
| `FileWatcherGap` | `MCFileWatcher` | a change between reading a file and watching it is missed |
| `ConversationTwice` | `Conversation` | two workers find the same context and both execute it |
| `ConversationAbort` | `Conversation` | an abort is overtaken by the context of an earlier input |
| `ConversationHelp` | `Conversation` | a request for help within a conversation is fed to the waiting function |
| `GitterBotStops` | `GitterBot` | `Adapter.Run` returns when the rooms are started, which the runner takes for the end of the bot |
| `GitterBotLostLine` | `GitterBot` | what a `Receive` buffered beyond the line it returns is lost |
| `SchedulerSameId` | `MCScheduler` | of a task that is registered twice, a failed registration may leave the other one scheduled: `FailedTaskIsRemoved` needs distinct tasks |
| `LiveConfigSameId` | `MCLiveConfig` | of a command that is registered twice, the older build may be appended last: `QuietCommandIsCurrent` needs distinct commands |
| `LiveConfigBroken` | `MCLiveConfig` | a file that fails to decode half way leaves a shared configuration half updated |
| `RegistrationReuse` | `MCRegistration` | using a builder again changes the props that were registered |
| `RegistrationNilConfig` | `MCRegistration` | `ConfigurableFunc` with a nil config is accepted, and the function reads `cfg[0]` of an empty list |
| `RegistrationPriority` | `MCRegistration` | a schedule in the config wins over the one given to the builder, against the comment |

One more is visible in the statement of a property that holds:
`RunningBotIsSubscribed` excepts bots whose BotType another, stopped bot has, as
`doUnsubscribe` drops the subscriptions of the whole type. Likewise
`BotRunsItsTasks` promises a scheduled task only where no props have its identifier:
a task of props may be lost to its own removal, which is what `SchedulerLostTask`
shows.

## 5. Proofs

`SupervisorProofs` assumes `SupervisorAssumption` only (the numbers are naturals,
`"main"` is not the name of another goroutine, and each bot has one BotType), so its
theorems hold for any bots, however they are spread over BotTypes, and any
goroutines, alerters and number of errors.

The safety invariants are not inductive. That the end of a bot is alerted, for
one, depends on what the deferred call of `errNotifier` found and on what the
goroutines that canceled the context before it are about to do. `IndInv` adds:

- `StatusFollowsBot`: a bot has a status from `addBot` on, finished when its goroutine
  has left `stopBot`, and not before one of its type has;
- `NoCallBeforeRun`: `errNotifier` is not called before `Bot.Run` is;
- `LeavingBotIsDone`: after the deferred call the context is done, or this
  goroutine is about to cancel it;
- `CancelHasReason`: a canceled bot has a reason, and a fatal one has its alert
  under way;
- `FatalAlertFollowsCancel`: the converse, which makes `errNotifier` drop what a
  goroutine sends after its own fatal error;
- `OneFatalAlertPerCaller` itself.

Each conjunct has a lemma that shows it is preserved, one case per action; frame
lemmas say what `SendAlert` and `AlertOne` leave alone in the list of alerting
goroutines. Proved: `InductiveInvariant`, `TypeCorrect`,
`UnintentionalStopsAreAlerted`, `FatalAlertsAreNotRepeated`,
`FinishedTypesWereCanceled`, and `SupervisorImplementsLifecycle`, the refinement
without fairness: `Init` maps to `Init`, and every step to a step of
`BotLifecycle` or a stutter.

`GitterBotProofs`. Every step of the composition is one of `Supervisor` or leaves its
state alone (`GitterBehavesAsBot`): that is how the composition is written and shows
nothing of the adapter by itself, but lets the theorems about `Supervisor` be cited,
for `GitterStopsAreAlerted` and for the types. `GitterReturnsForAReason` proves
`SilentReturnServesRooms`, which depends on what `FetchFails` escalates while the bot
may be canceled. `GitterInputsInOrder` needs `StreamsInOrder`: the lines on the wire,
torn ones included, are increasing, come after all that was enqueued, and are at most
the ones that Gitter has sent. Lemmas say that appending the next line and dropping
any number of lines from the front keep that. `GitterTypeCorrect` rests on the types of
`Supervisor`.

`SlackBotProofs` has the same for the Slack adapter (`SlackBehavesAsBot`, and from it
`SlackStopsAreAlerted`), and the safety of the adapter for every number of
connections, trials, inputs and bots. `NothingIsLeftOpen` and `ReturnHasReason` say
what holds when `run` connects again or returns; it comes about in the steps before,
so `SlackInv` says of each bot:

- `HasConnection`: `run` has a connection from the time it supervises one, and none
  before it connects or with a server;
- `EndsWithContext`: without an error, supervision and the server end only with the
  context;
- `CanceledLast`: a connection is closed before it is canceled, and not canceled
  before `run` is done with it;
- `LeftOpenNot` and `HasReason`, the two properties for one bot.

The steps split into those of `run` (`OwnRunStep`) and those of receivers, network
and supervisor (`OwnQuietStep`); `OtherAdapters` says that a step of one bot leaves
the adapters of the others alone. Proved: `SlackInductiveInvariant`,
`SlackTypeCorrect`, `NoConnectionLeftOpen`, `SlackReturnsForAReason`, and the action
property `OldReceiverGetsNoPayload`, for which `CanceledLast` is needed: a receiver
that finds its connection closed gets an error and no payload.

`StatusProofs`. What a monitor has read is compared with a list that others close
meanwhile, so `StatusInv` adds to the types:

- `ListIsLocked`: whoever goes through the list holds the read lock, so that it does
  not grow under way;
- `ReadingsAreOld`: what was read before may have become what is there now
  (`MayBecome`: the same type, and running only if it was), the last answer, the
  current reading and the list in this order;
- `VisitedIsClosed`, `AddedBotIsListed`, `ClosedIsStopped`: `stopBot` leaves no
  running entry of its type behind, every started bot has an entry, and entries are
  closed by bots of their type only.

Proved: `StatusTypeCorrect`, `StopIsReported`, `FinishedIsTrue`, and the action
property `FinishedStaysFinished`, whatever `StatusAssumption` allows. `RunPassesOnce`
says that of any number of calls of `Run` one at most passes `status.start`, and that no
bot is ever started when that one fails.

The proofs about `Scheduler`, in `ConfigReloadProofs`, have two invariants. `SchedulerInv` holds for any order of tasks,
also with repetitions: each client is at work on a task it may work on (`AtWork`), the
loop variable is set (`LoopVarIsSet`), and cron gives out each id once
(`IdsAreUnique`), without which removing one task could remove the entry of another.
It yields `CronFollowsTheMap`. `RegistrationInv` assumes
`TasksAreDistinct`, that no task is registered twice, because otherwise the bot's and
the watcher's goroutine may be at work on the same one; the configuration
`SchedulerSameId` shows that the property fails then. Its parts say that what is yet to be
registered is unknown to the watcher (`TodoIsNew`), that an update in the channel is
awaited by its client, that an unfinished registration has no outcome, that from the
removal to the update the task is unscheduled or about to be (`RemovalComesFirst`), and
that what is scheduled is the latest build or that one is on its way
(`LatestIsComing`). It yields `FailedRegistrationUnschedules` and
`CronRunsTheLatestBuild`.

`ConfigReloadProofs` then proves the watcher, alone and in the composition. `WatcherInv`
has the types, `SubscriptionsAreSound` and `NoCallbackAfterUnwatch`, and adds that the
subscriptions of a directory belong to bots of its BotType, that only `Unwatch` makes
the loop drop subscriptions (`LeavingIsUnwatched`), that the subscriptions of a bot
whose `Unwatch` has returned are gone or the next thing to go (`UnwatchedIsLeaving`),
and that what `Watch` confirmed stays until a bot of that BotType leaves
(`WatchedIsSubscribed`). `WatcherInvariant` states it for the watcher by itself,
`ReloadInvariant` for the composition, where `TasksAreRegistered` ties the goroutine
that registers a task to the scheduler's client. The composition takes the scheduler's
steps and no other ones (the lemma `ReloadImplementsScheduler`), so the scheduler's
theorems are cited there: `ReloadKeepsTheSchedule` and `ReloadKeepsTasksCurrent`.
For the watcher that is not so: reading the
file of a task and going on to `Watch` are one step of `FileWatcher` and several here,
so its invariant is proved once more, with the scheduler's types from that lemma.
Also proved: `ReloadTypeCorrect`, `SubscriptionsStaySound`,
`UnwatchedBotIsNotCalled`, `RunningBotStaysSubscribed`. From `FileWatcherAssumption`
they use that each plugin is one registration of one bot.

`LiveConfigProofs`. `LiveInv` is the locking discipline: whoever decodes holds the
lock of the plugin alone, whoever executes holds it for reading, and a writer that
waits keeps its claim. From it follow two results with a hypothesis each, and a
configuration that shows that the hypothesis is needed:

- `ConfigIsNotTorn`, if no file of a shared configuration fails to decode
  (`SharedConfigsDecode`, otherwise `LiveConfigBroken`): a configuration has two
  versions in it only while its file is decoded;
- `QuietIsCurrent`, if no command is registered twice (`CommandsAreDistinct`,
  otherwise `LiveConfigSameId`): what is yet to be registered is not watched
  (`OneBuilder`), and a build during which nothing changed has what is in the file
  (`BuildIsCurrent`).

`ConversationProofs`. The two properties are about users who wait for the reply, which
`OneAtATime` turns into a fact about `Respond`: of such a user one input at most is in
progress, and it is the last. So while it is handled nobody else writes the user's
context (`StorageIsTheirs`), and a context that was stored is there until an input
finds it or it expires (`ContextIsKept`). `NotYet` says what `Respond` has not computed
so far, and `WorkersAreEnough` bounds the running calls. One lemma (`RespondStep`)
treats a step of `Respond` on one input; the six steps are instances of it. Proved:
`ConversationTypeCorrect`, `PatientContextIsKept`, `AbortEndsContext`. `OnceInv`, a
second invariant on top of the first, says whose contexts are stored and found, and that
what an input of a waiting user has found is in the storage only until that input deletes
it (`FoundIsTaken`); so no other input finds it (`FoundByOne`). `PatientStepRunsOnce` is
the promise that `ConversationTwice` shows broken, for the users who wait. The run is
too small for it, since it takes three inputs of one user; the invariant was checked with
one user and four inputs.

`RegistrationProofs` assumes that no builder is used again after `Build` (`~Reuse`), as
every example does. `Build` hands out the record it goes on working on, and without the
assumption a bot may be given props under another BotType or identifier than they were
registered with: `RegistrationReuse`. Nothing else is asked of builders, chains of
setters, options and their order. The properties speak of bots that are ready, so
`PluginsInv` says them place by place, of what the bot has come to (`Registered`):

- `BuiltIsValid`: the builders that `Build` accepted are those whose props are valid now;
- `StashedIsKnown`, `AppliedIsKnown`: options from builders name accepted ones, under the
  BotType that the props have;
- `NothingBeforeRun`, `TodoIsFiled`, `WatchedIsFiled`: bots come to, and have callbacks
  for, nothing but what `Run` applied for their BotType;
- `PropsFirst`: once the bot has come to a command of the developer's own, no props of
  commands are left, so that only a callback can replace it;
- `CommandIsOfTheBot`, `RegisteredCommandIsThere`, `OwnCommandIsLast`, `JobIsOfTheBot`,
  `RegisteredTaskRuns`: the clauses of the two properties;
- `RemovalIsOfProps`: a removal under way is that of a task of props, so that it takes no
  other one away, however late it is received.

`RegKeeps` says what one registration of props does, whether `runBot` or a callback makes
it. Proved: `PluginsInvariant`, `RegistrationTypeCorrect`, `BotHasItsCommands`,
`BotHasItsTasks`, `BuildRefusesTheHopeless`.

Each inductive invariant was checked with TLC, as an invariant of the runs' instances,
before it was proved.

Only model-checked: liveness and the fairness part of the refinements, which are outside
the prover's reach (`ShutdownCompletes`, `ChangesAreApplied`, `CallsReturn`, `BuildEnds`,
`RoomsEnd`, `LostConnectionIsClosed`, `ReceiversEnd`, `CanceledSlackBotEnds`, and the
fairness in `ImplementsLifecycle` and `SlackImplementsLifecycle`). Every invariant and every action property of a
passing run is proved.

## 6. What is not modelled

- The worker pool, cron, fsnotify, the cache, the retry policy, the WebSocket and
  HTTP clients: external, modelled as the code uses them.
- The counter of refusals in `setupInputReceiver`, which several goroutines change
  without a lock: it ends up in an error that the adapters here discard.
- Results and destinations of scheduled tasks (`executeScheduledTask`), `Helps`, and
  storages other than the default one.
- `RegisterAlerter`, `RegisterConfigWatcher`, `RegisterWorker` and
  `RegisterBotErrorSupervisor`, which set one field each.
- The Slack messages and responses, the LINE client and the REST client of Gitter:
  conversions and single requests, whose outcome is a choice where it matters.
- Case of directory names: `Watch` uses the BotType as it is spelled and `Read` in
  lower case; the model has one directory per type.
- The size of the worker pool: `newRunner` sets 100 workers and a queue of 10 in a
  configuration that it then does not pass to `worker.Run`; `Conversation` has both
  as constants.
- Message construction, payload conversion, logging, examples.

## 7. Plan

Done: the supervisor and its proofs, then status, scheduler, watcher, live
configuration and conversation; the watcher composed with the scheduler; the Slack
and Gitter adapters composed with the supervisor; registration; proofs of the safety
of all of them. What is left:

1. The counter of the input receiver as the goroutines of several rooms change it.
2. The execution of scheduled tasks under the plugin lock and what becomes of their
   results.
