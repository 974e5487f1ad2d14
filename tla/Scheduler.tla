----------------------------- MODULE Scheduler ------------------------------
(***************************************************************************)
(* scheduler.go with the two goroutines that use it through                *)
(* runner.registerScheduledTasks: the one that runs the bot registers the  *)
(* tasks, and the one that watches configuration files registers a task    *)
(* again when its configuration changed. They talk to the goroutine that   *)
(* runs receiveEvent over two channels, one for removals and one for       *)
(* updates. The cron library is external: a set of entries.                *)
(***************************************************************************)
EXTENDS RunContext, Integers, Sequences, FiniteSets

CONSTANTS
    Props,        \* tasks registered with RegisterScheduledTaskProps
    PlainTasks,   \* tasks registered with RegisterScheduledTask
    Order,        \* the order in which registerScheduledTasks goes through them
    MaxUpdates,   \* bound: configuration changes the watcher reports
    NoTask        \* no task: the value of a variable not yet assigned

Tasks == Props \union PlainTasks

ASSUME SchedulerAssumption ==
    /\ Props \intersect PlainTasks = {}
    /\ Order \in Seq(Tasks)
    /\ MaxUpdates \in Nat
    /\ NoTask \notin Tasks

BotGo     == "bot"       \* the goroutine in runBot
WatcherGo == "watcher"   \* the goroutine that calls the callbacks of Watch
Clients   == {BotGo, WatcherGo}

ChanSize  == 1           \* capacity of removingTask and of updatingTask
NoEntry   == 0

VARIABLES
    receiving,  \* TRUE while receiveEvent runs, and with it cron
    removing,   \* channel removingTask
    updating,   \* channel updatingTask
    schedule,   \* the map from tasks to cron entries that receiveEvent keeps
    entries,    \* the entries that cron holds
    lastId,     \* the last EntryID cron gave out
    pc,         \* progress of each client
    cur,        \* the task each client works on
    answer,     \* the err channel of each client's update
    todo,       \* the tasks the bot's goroutine has yet to register
    loopVar,    \* the variable "task" of its loop over the plain tasks
    reloadable, \* tasks whose callback the watcher knows
    version,    \* how often each task was built
    outcome,    \* how the last registration of each task ended
    updates,    \* number of callbacks so far
    ran         \* pairs: a task that was due, the task that was executed

clientVars == <<pc, cur, todo, loopVar, reloadable, version, outcome, updates>>
loopVars   == <<receiving, schedule, entries, lastId>>
schedulerState == <<removing, updating, answer, ran, clientVars, loopVars>>
schedulerVars == <<ctxDone, schedulerState>>

Scheds == {"good", "bad", "empty"}   \* what cron.AddFunc will make of Schedule()
Update == [client : Clients, task : Tasks, ver : Nat, sched : Scheds]
Entry  == [id : Nat, task : Tasks, ver : Nat]

SchedulerTypeOK ==
    /\ ctxDone \in BOOLEAN /\ receiving \in BOOLEAN
    /\ removing \in Seq(Tasks) /\ Len(removing) <= ChanSize
    /\ updating \in Seq(Update) /\ Len(updating) <= ChanSize
    /\ schedule \in [Tasks -> Nat]
    /\ entries \subseteq Entry
    /\ lastId \in Nat
    /\ pc \in [Clients -> {"idle", "remove", "build", "send", "await", "watch"}]
    /\ cur \in [Clients -> Tasks \union {NoTask}]
    /\ answer \in [Clients -> {"none", "ok", "error"}]
    /\ todo \in Seq(Tasks)
    /\ loopVar \in PlainTasks \union {NoTask}
    /\ reloadable \subseteq Props
    /\ version \in [Tasks -> Nat]
    /\ outcome \in [Tasks -> {"none", "ok", "failed"}]
    /\ updates \in 0 .. MaxUpdates
    /\ ran \subseteq Tasks \X Tasks

SchedulerInit ==
    /\ ctxDone = FALSE /\ receiving = TRUE
    /\ removing = <<>> /\ updating = <<>>
    /\ schedule = [t \in Tasks |-> NoEntry]
    /\ entries = {} /\ lastId = 0
    /\ pc = [c \in Clients |-> "idle"]
    /\ cur = [c \in Clients |-> NoTask]
    /\ answer = [c \in Clients |-> "none"]
    /\ todo = Order
    /\ loopVar = NoTask
    /\ reloadable = {}
    /\ version = [t \in Tasks |-> 0]
    /\ outcome = [t \in Tasks |-> "none"]
    /\ updates = 0
    /\ ran = {}

CancelScheduler ==
    /\ ~ctxDone
    /\ ctxDone' = TRUE
    /\ UNCHANGED schedulerState

-----------------------------------------------------------------------------
(***************************************************************************)
(* registerScheduledTasks and its callbacks                                *)
(***************************************************************************)
Goto(c, from, to) ==
    /\ pc[c] = from
    /\ pc' = [pc EXCEPT ![c] = to]

\* The loop over the props: reg(p).
RegisterProps ==
    /\ todo # <<>> /\ Head(todo) \in Props
    /\ Goto(BotGo, "idle", "remove")
    /\ cur' = [cur EXCEPT ![BotGo] = Head(todo)]
    /\ outcome' = [outcome EXCEPT ![Head(todo)] = "none"]
    /\ UNCHANGED <<ctxDone, removing, updating, answer, ran, todo, loopVar,
                   reloadable, version, updates, loopVars>>

\* The loop over the plain tasks. One without a schedule is skipped.
RegisterTask(skipped) ==
    /\ todo # <<>> /\ Head(todo) \in PlainTasks
    /\ loopVar' = Head(todo)
    /\ \/ /\ skipped
          /\ pc[BotGo] = "idle"
          /\ todo' = Tail(todo)
          /\ UNCHANGED <<pc, cur, version>>
       \/ /\ ~skipped
          /\ Goto(BotGo, "idle", "send")
          /\ cur' = [cur EXCEPT ![BotGo] = Head(todo)]
          /\ version' = [version EXCEPT ![Head(todo)] = @ + 1]
          /\ UNCHANGED todo
    /\ UNCHANGED <<ctxDone, removing, updating, answer, ran, reloadable, outcome,
                   updates, loopVars>>

\* Mutant of Callback: reg does not remove the task before it builds it.
CallbackWithoutRemove(t) ==
    /\ t \in reloadable
    /\ updates < MaxUpdates
    /\ updates' = updates + 1
    /\ Goto(WatcherGo, "idle", "build")
    /\ cur' = [cur EXCEPT ![WatcherGo] = t]
    /\ outcome' = [outcome EXCEPT ![t] = "none"]
    /\ UNCHANGED <<ctxDone, removing, updating, answer, ran, todo, loopVar,
                   reloadable, version, loopVars>>

\* The watcher calls the callback of a task: reg(p) again.
Callback(t) ==
    /\ t \in reloadable
    /\ updates < MaxUpdates
    /\ updates' = updates + 1
    /\ Goto(WatcherGo, "idle", "remove")
    /\ cur' = [cur EXCEPT ![WatcherGo] = t]
    /\ outcome' = [outcome EXCEPT ![t] = "none"]
    /\ UNCHANGED <<ctxDone, removing, updating, answer, ran, todo, loopVar,
                   reloadable, version, loopVars>>

SendRemove(c) ==
    /\ Goto(c, "remove", "build")
    /\ Len(removing) < ChanSize
    /\ removing' = Append(removing, cur[c])
    /\ UNCHANGED <<ctxDone, updating, answer, ran, cur, todo, loopVar, reloadable,
                   version, outcome, updates, loopVars>>

\* The end of a registration. The bot's goroutine goes on to Watch, or to the
\* next plain task.
Finish(c, result) ==
    /\ pc' = [pc EXCEPT ![c] = IF c = BotGo /\ cur[c] \in Props THEN "watch"
                                                               ELSE "idle"]
    /\ outcome' = [outcome EXCEPT ![cur[c]] = result]
    /\ todo' = IF c = BotGo /\ cur[c] \notin Props THEN Tail(todo) ELSE todo
    /\ UNCHANGED <<cur, loopVar, reloadable, updates>>

\* Watch, which may fail; the loop goes on with the next task.
WatchTask(ok) ==
    /\ Goto(BotGo, "watch", "idle")
    /\ todo' = Tail(todo)
    /\ reloadable' = IF ok THEN reloadable \union {cur[BotGo]} ELSE reloadable
    /\ UNCHANGED <<ctxDone, removing, updating, answer, ran, cur, loopVar,
                   version, outcome, updates, loopVars>>

\* buildScheduledTask: the configuration cannot be read or gives no schedule.
BuildFails(c) ==
    /\ pc[c] = "build"
    /\ Finish(c, "failed")
    /\ UNCHANGED <<ctxDone, removing, updating, answer, ran, version, loopVars>>

BuildSucceeds(c) ==
    /\ Goto(c, "build", "send")
    /\ version' = [version EXCEPT ![cur[c]] = @ + 1]
    /\ UNCHANGED <<ctxDone, removing, updating, answer, ran, cur, todo, loopVar,
                   reloadable, outcome, updates, loopVars>>

\* Mutant of SendUpdate: the closure holds on to the task built before.
SendUpdateStale(c, sched) ==
    /\ Goto(c, "send", "await")
    /\ sched = "empty" => cur[c] \in PlainTasks
    /\ Len(updating) < ChanSize
    /\ updating' = Append(updating, [client |-> c, task |-> cur[c],
                                     ver |-> version[cur[c]] - 1, sched |-> sched])
    /\ UNCHANGED <<ctxDone, removing, answer, ran, cur, todo, loopVar, reloadable,
                   version, outcome, updates, loopVars>>

\* scheduler.update up to its wait for the answer. A task built from props has
\* a schedule; that of a plain task may be gone since it was checked.
\* What c built last is what was built last of the task, as only c is at work on
\* it: in Order no task comes twice unless a run is about just that.
SendUpdate(c, sched) ==
    /\ Goto(c, "send", "await")
    /\ sched = "empty" => cur[c] \in PlainTasks
    /\ Len(updating) < ChanSize
    /\ updating' = Append(updating, [client |-> c, task |-> cur[c],
                                     ver |-> version[cur[c]], sched |-> sched])
    /\ UNCHANGED <<ctxDone, removing, answer, ran, cur, todo, loopVar, reloadable,
                   version, outcome, updates, loopVars>>

\* Mutant of UpdateReturns: receiveEvent does not send errors to add.err.
UpdateReturnsOnSuccess(c) ==
    /\ pc[c] = "await"
    /\ answer[c] = "ok"
    /\ Finish(c, "ok")
    /\ answer' = [answer EXCEPT ![c] = "none"]
    /\ UNCHANGED <<ctxDone, removing, updating, ran, version, loopVars>>

UpdateReturns(c) ==
    /\ pc[c] = "await"
    /\ answer[c] # "none"
    /\ Finish(c, IF answer[c] = "ok" THEN "ok" ELSE "failed")
    /\ answer' = [answer EXCEPT ![c] = "none"]
    /\ UNCHANGED <<ctxDone, removing, updating, ran, version, loopVars>>

-----------------------------------------------------------------------------
(***************************************************************************)
(* receiveEvent. When several cases of its select are ready, any of them   *)
(* may be taken.                                                           *)
(***************************************************************************)
ReceiveDone ==
    /\ receiving /\ ctxDone
    /\ receiving' = FALSE
    /\ UNCHANGED <<ctxDone, removing, updating, answer, ran, clientVars,
                   schedule, entries, lastId>>

\* Mutant of Without: removeFunc forgets the entry and leaves it with cron.
WithoutNothing(t) == entries

\* What removeFunc leaves of the cron entries.
Without(t) == {e \in entries : e.id # schedule[t]}

ReceiveRemove ==
    /\ receiving /\ removing # <<>>
    /\ removing' = Tail(removing)
    /\ schedule' = [schedule EXCEPT ![Head(removing)] = NoEntry]
    /\ entries' = Without(Head(removing))
    /\ UNCHANGED <<ctxDone, updating, answer, ran, clientVars, receiving, lastId>>

ReceiveUpdate ==
    LET add == Head(updating)
    IN  /\ receiving /\ updating # <<>>
        /\ updating' = Tail(updating)
        /\ \/ /\ add.sched = "empty"
              /\ answer' = [answer EXCEPT ![add.client] = "error"]
              /\ UNCHANGED <<schedule, entries, lastId>>
           \/ /\ add.sched = "bad"
              /\ schedule' = [schedule EXCEPT ![add.task] = NoEntry]
              /\ entries' = Without(add.task)
              /\ answer' = [answer EXCEPT ![add.client] = "error"]
              /\ UNCHANGED lastId
           \/ /\ add.sched = "good"
              /\ lastId' = lastId + 1
              /\ schedule' = [schedule EXCEPT ![add.task] = lastId + 1]
              /\ entries' = Without(add.task) \union
                     {[id |-> lastId + 1, task |-> add.task, ver |-> add.ver]}
              /\ answer' = [answer EXCEPT ![add.client] = "ok"]
        /\ UNCHANGED <<ctxDone, removing, ran, clientVars, receiving>>

\* cron runs the function of an entry. That of a plain task reads the loop
\* variable of registerScheduledTasks, which go 1.21 shares between iterations.
\* An error or results without a destination are logged and the other results
\* sent, which leaves this state alone.
Fire(e) ==
    /\ receiving /\ e \in entries
    /\ ran' = ran \union
                 {<<e.task, IF e.task \in PlainTasks THEN loopVar ELSE e.task>>}
    /\ UNCHANGED <<ctxDone, removing, updating, answer, clientVars, loopVars>>

-----------------------------------------------------------------------------
ClientSteps(c) ==
    \/ SendRemove(c) \/ BuildFails(c) \/ BuildSucceeds(c)
    \/ \E sched \in Scheds : SendUpdate(c, sched)
    \/ UpdateReturns(c)

RegisterSteps ==
    \/ RegisterProps
    \/ \E skipped \in BOOLEAN : RegisterTask(skipped)
    \/ \E ok \in BOOLEAN : WatchTask(ok)

ReceiveSteps == ReceiveRemove \/ ReceiveUpdate \/ ReceiveDone

SchedulerNext ==
    \/ CancelScheduler
    \/ RegisterSteps
    \/ \E t \in Props : Callback(t)
    \/ \E c \in Clients : ClientSteps(c)
    \/ ReceiveSteps
    \/ \E e \in entries : Fire(e)

SchedulerSpec == SchedulerInit /\ [][SchedulerNext]_schedulerVars

\* The goroutines run whenever they can, and a select in which a case stays
\* ready comes to it some time.
SchedulerFairness ==
    /\ WF_schedulerVars(RegisterSteps)
    /\ \A c \in Clients : WF_schedulerVars(ClientSteps(c))
    /\ WF_schedulerVars(ReceiveRemove) /\ WF_schedulerVars(ReceiveUpdate)
    /\ WF_schedulerVars(ReceiveDone)

FairSchedulerSpec == SchedulerSpec /\ SchedulerFairness

-----------------------------------------------------------------------------
(***************************************************************************)
(* Safety                                                                  *)
(***************************************************************************)

\* The map of receiveEvent and the entries of cron say the same: no task has
\* two entries, so none runs twice when it is due, and no entry is left that
\* nobody can remove any more.
CronHoldsTheSchedule ==
    /\ \A e \in entries : schedule[e.task] = e.id
    /\ \A t \in Tasks : schedule[t] # NoEntry
          => \E e \in entries : e.id = schedule[t] /\ e.task = t

\* Nobody is at work on the registration of t and no event about it is queued.
Quiet(t) ==
    /\ \A c \in Clients : pc[c] \notin {"idle", "watch"} => cur[c] # t
    /\ \A i \in DOMAIN removing : removing[i] # t
    /\ \A i \in DOMAIN updating : updating[i].task # t

\* A task whose last registration failed does not go on with the configuration
\* it had before: the removal that reg sends first gets through.
FailedTaskIsRemoved ==
    \A t \in Props : Quiet(t) /\ outcome[t] = "failed" => schedule[t] = NoEntry

\* Whatever cron still runs for a task is what was built last for it.
ScheduledTaskIsCurrent ==
    \A e \in entries : Quiet(e.task) => e.ver = version[e.task]

-----------------------------------------------------------------------------
(***************************************************************************)
(* What the comments of the code promise and the code does not do          *)
(***************************************************************************)

\* RegisterScheduledTaskProps: "This instance is reused when a configuration file
\* is updated and the corresponding ScheduledTask needs to be rebuilt." A task
\* whose last registration succeeded is scheduled.
RegisteredTaskIsScheduled ==
    \A t \in Tasks : ~ctxDone /\ Quiet(t) /\ outcome[t] = "ok"
                       => schedule[t] # NoEntry

\* RegisterScheduledTask: "On Run, a schedule is set for this task." It holds for
\* one task that is registered this way; the functions of several share the loop
\* variable and all execute the one registered last.
EveryDueTaskIsExecuted == \A pair \in ran : pair[1] = pair[2]

\* Run: "To control its lifecycle, a developer may cancel ctx and stop Sarah at
\* any moment." The goroutine of the bot gets through registerScheduledTasks.
CanceledRegistrationEnds == <>(todo = <<>>)
=============================================================================
