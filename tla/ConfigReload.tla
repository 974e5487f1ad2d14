---------------------------- MODULE ConfigReload ----------------------------
(***************************************************************************)
(* The watcher of configuration files and the scheduler at work together.  *)
(* The callback of a ScheduledTask runs in the goroutine of the watcher    *)
(* and calls scheduler.remove and scheduler.update, as registering the     *)
(* task in the goroutine of the bot does: the bots wait for the watcher in *)
(* Watch and Unwatch, the watcher and one bot wait for the scheduler, and  *)
(* one context ends both. Every step is one of FileWatcher, one of         *)
(* Scheduler, or one of each.                                              *)
(***************************************************************************)
EXTENDS FileWatcher, Scheduler

CONSTANT TaskBot   \* the bot whose tasks the scheduler runs

\* registerCommands comes before registerScheduledTasks, which goes through the
\* props before it comes to the plain tasks.
ASSUME ConfigReloadAssumption ==
    /\ TaskBot \in Bots
    /\ Props \subseteq Plugins /\ PlainTasks \intersect Plugins = {}
    /\ LET IsTask(p) == p \in Props
       IN  /\ SelectSeq(PluginsOf[TaskBot], IsTask) = SelectSeq(Order, IsTask)
           /\ \A b \in Bots \ {TaskBot} : SelectSeq(PluginsOf[b], IsTask) = <<>>

vars == <<ctxDone, watcherState, schedulerState>>

TypeOK == WatcherTypeOK /\ SchedulerTypeOK

Init == WatcherInit /\ SchedulerInit

\* Steps of one part that do not concern the other one.
Watcher(A)      == A /\ UNCHANGED schedulerState
AtScheduler(A)  == A /\ UNCHANGED watcherState

Cancel == CancelWatcher /\ CancelScheduler

-----------------------------------------------------------------------------
(***************************************************************************)
(* The goroutine of a bot                                                  *)
(***************************************************************************)
AtTask(b) == next[b] <= Len(PluginsOf[b]) /\ Plugin(b) \in Props

ReadCommandConfig(b) == ~AtTask(b) /\ Watcher(ReadConfig(b))

\* registerScheduledTasks: reg(p), and update for a plain task.
BeginTask ==
    /\ botPc[TaskBot] = "read"
    /\ \/ AtTask(TaskBot) /\ AtScheduler(RegisterProps)
       \/ /\ next[TaskBot] > Len(PluginsOf[TaskBot])
          /\ \E skipped \in BOOLEAN : AtScheduler(RegisterTask(skipped))

\* Watch is the rendezvous with the watcher.
WatchPlugin(b, added) ==
    /\ Subscribe(b, added)
    /\ IF AtTask(b) THEN WatchTask(Plugin(b) \in watched')
                    ELSE UNCHANGED schedulerState

Registered(b) ==
    /\ b = TaskBot => todo = <<>>
    /\ Watcher(AllRegistered(b))

-----------------------------------------------------------------------------
(***************************************************************************)
(* reg(p), in the goroutine of the bot or of the watcher                   *)
(***************************************************************************)

\* buildScheduledTask reads the file.
ReadTaskConfig(c) == stale' = [stale EXCEPT ![cur[c]] = "no"]

\* What comes after reg(p): Watch, or the next callback of the event. After a
\* plain task it is the next one.
RegReturns(c) ==
    \/ /\ c = BotGo
       /\ botPc' = [botPc EXCEPT ![TaskBot] = IF cur[c] \in Props THEN "watch" ELSE @]
       /\ UNCHANGED <<loop, calls>>
    \/ /\ c = WatcherGo
       /\ calls' = Tail(calls)
       /\ loop' = IF calls' = <<>> THEN "select" ELSE "calling"
       /\ UNCHANGED botPc

TaskSteps(c) ==
    \/ AtScheduler(SendRemove(c))
    \/ \E sched \in Scheds : AtScheduler(SendUpdate(c, sched))
    \/ /\ BuildSucceeds(c)
       /\ ReadTaskConfig(c)
       /\ UNCHANGED <<loop, calls, leaving, subscriptions, fsWatched, events,
                      changes, botPc, next, watched>>
    \/ /\ BuildFails(c)
       /\ ReadTaskConfig(c) /\ RegReturns(c)
       /\ UNCHANGED <<leaving, subscriptions, fsWatched, events, changes, next,
                      watched>>
    \/ /\ UpdateReturns(c)
       /\ RegReturns(c)
       /\ UNCHANGED <<leaving, subscriptions, fsWatched, events, changes, next,
                      watched, stale>>

-----------------------------------------------------------------------------
(***************************************************************************)
(* The goroutine of the watcher                                            *)
(***************************************************************************)
RunNextCallback ==
    /\ loop = "calling"
    /\ IF Head(calls).plugin \in Props
         THEN AtScheduler(Callback(Head(calls).plugin))
         ELSE Watcher(RunCallback)

-----------------------------------------------------------------------------
BotGoroutine(b) ==
    \/ ReadCommandConfig(b) \/ Registered(b)
    \/ \E added \in BOOLEAN : WatchPlugin(b, added)
    \/ b = TaskBot /\ (BeginTask \/ TaskSteps(BotGo))
    \/ Watcher(ReceiveUnsubscribe(b)) \/ Watcher(UnwatchPanics(b))

BotRunEnds(b) == Watcher(CallUnwatch(b)) \/ Watcher(BotPanics(b))

\* What run does between two rounds of its select.
WatcherGoroutine ==
    RunNextCallback \/ TaskSteps(WatcherGo) \/ Watcher(DoUnsubscribe)

Next ==
    \/ Cancel
    \/ \E d \in Types, id \in Ids, relevant \in BOOLEAN :
          Watcher(FileChanges(d, id, relevant))
    \/ \E b \in Bots : BotGoroutine(b) \/ BotRunEnds(b)
    \/ WatcherGoroutine \/ Watcher(ReceiveEvent) \/ Watcher(ContextDone)
    \/ AtScheduler(ReceiveRemove) \/ AtScheduler(ReceiveUpdate)
    \/ AtScheduler(ReceiveDone)
    \/ \E e \in entries : AtScheduler(Fire(e))

Spec == Init /\ [][Next]_vars

\* Goroutines run when they can, and a case of a select that stays ready is taken
\* some time. Bot.Run ends when its context is done.
Fairness ==
    /\ \A b \in Bots : WF_vars(BotGoroutine(b) \/ (ctxDone /\ BotRunEnds(b)))
    /\ WF_vars(WatcherGoroutine)
    /\ WF_vars(Watcher(ContextDone)) /\ WF_vars(Watcher(ReceiveEvent))
    /\ WF_vars(AtScheduler(ReceiveRemove)) /\ WF_vars(AtScheduler(ReceiveUpdate))
    /\ WF_vars(AtScheduler(ReceiveDone))

FairSpec == Spec /\ Fairness

-----------------------------------------------------------------------------
(***************************************************************************)
(* Properties, besides those of FileWatcher and Scheduler                  *)
(***************************************************************************)

\* As long as the context lives nobody waits for ever, although bots wait for
\* the watcher, which runs callbacks meanwhile, and the callbacks of tasks wait
\* for the scheduler: every bot gets through its registration, and Unwatch
\* returns. (A bot does not go back, so "again and again" means "in the end".)
CallsReturn ==
    []<>(ctxDone \/ \A b \in Bots : botPc[b] \in {"running", "unwatched", "panicked"})

-----------------------------------------------------------------------------
(***************************************************************************)
(* What the comments of the code promise and the code does not do          *)
(***************************************************************************)

\* fileWatcher.run: "Explicitly close unsubscribeGroup to make sure enqueueing
\* does not block forever, but panics instead." Unwatch returns, also when the
\* context is canceled at the same time. It does not when the watcher is in the
\* callback of a task, waiting for a scheduler that has ended: the watcher never
\* comes to close the channel.
UnwatchReturns ==
    \A b \in Bots : botPc[b] = "unwatch" ~> botPc[b] = "unwatched"
=============================================================================
