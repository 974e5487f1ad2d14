---------------------------- MODULE FileWatcher -----------------------------
(***************************************************************************)
(* watchers/filewatcher.go: the goroutine that runs fileWatcher.run, the   *)
(* goroutines of the bots that call Watch and Unwatch through              *)
(* registerCommands, registerScheduledTasks and unsubscribeConfigWatcher,  *)
(* and the file system. fsnotify is external: a set of watched directories *)
(* and a queue of events. A plugin is a Command or a ScheduledTask; its    *)
(* callback reads the configuration file again.                            *)
(***************************************************************************)
EXTENDS RunContext, Naturals, Sequences, SequencesExt, FiniteSets

CONSTANTS
    Bots,        \* the bots; several may have the same BotType
    Types,       \* the BotTypes; each has its own directory, baseDir/BotType
    Ids,         \* identifiers, which name the files in a directory
    Plugins,     \* the Commands and ScheduledTasks, built for each bot anew
    TypeOf,      \* the BotType of each bot
    IdOf,        \* the identifier of each plugin
    PluginsOf,   \* the plugins of each bot in the order of their registration
    MaxEvents    \* bound: changes to files

ASSUME FileWatcherAssumption ==
    /\ TypeOf \in [Bots -> Types]
    /\ IdOf \in [Plugins -> Ids]
    /\ PluginsOf \in [Bots -> Seq(Plugins)]
    /\ \A a, b \in Bots : \A i \in DOMAIN PluginsOf[a], j \in DOMAIN PluginsOf[b] :
          PluginsOf[a][i] = PluginsOf[b][j] => a = b /\ i = j
    /\ MaxEvents \in Nat

VARIABLES
    loop,            \* what run is doing; "stopped": unsubscribe is closed
    calls,           \* doHandleEvent: the subscriptions yet to be called
    leaving,         \* doUnsubscribe: the BotType that run took off the channel
    subscriptions,   \* run's map from directories to subscriptions
    fsWatched,       \* the directories that fsnotify watches
    events,          \* the events fsnotify has not delivered yet
    changes,         \* number of changes to files
    botPc,           \* progress of the goroutine of each bot
    next,            \* the plugin of each bot that is registered next
    watched,         \* plugins for which Watch returned nil
    stale            \* whether the file of a plugin changed since it was read

watcherState == <<loop, calls, leaving, subscriptions, fsWatched, events, changes,
                  botPc, next, watched, stale>>
watcherVars == <<ctxDone, watcherState>>

Subscription == [bot : Bots, plugin : Plugins]
Event == [dir : Types, id : Ids, relevant : BOOLEAN]

WatcherTypeOK ==
    /\ ctxDone \in BOOLEAN
    /\ loop \in {"select", "calling", "unsubscribing", "stopped"}
    /\ calls \in Seq(Subscription)
    /\ leaving \subseteq Types
    /\ subscriptions \in [Types -> Seq(Subscription)]
    /\ fsWatched \subseteq Types
    /\ events \in Seq(Event)
    /\ changes \in 0 .. MaxEvents
    /\ botPc \in [Bots -> {"read", "watch", "running", "unwatch", "unwatched",
                         "panicked"}]
    /\ next \in [Bots -> Nat]
    /\ watched \subseteq Plugins
    /\ stale \in [Plugins -> {"no", "due", "missed"}]
    /\ loop = "calling" <=> calls # <<>>
    /\ loop = "unsubscribing" <=> leaving # {}

WatcherInit ==
    /\ ctxDone = FALSE
    /\ loop = "select"
    /\ calls = <<>>
    /\ leaving = {}
    /\ subscriptions = [d \in Types |-> <<>>]
    /\ fsWatched = {}
    /\ events = <<>>
    /\ changes = 0
    /\ botPc = [b \in Bots |-> "read"]
    /\ next = [b \in Bots |-> 1]
    /\ watched = {}
    /\ stale = [p \in Plugins |-> "no"]

CancelWatcher ==
    /\ ~ctxDone
    /\ ctxDone' = TRUE
    /\ UNCHANGED watcherState

-----------------------------------------------------------------------------
(***************************************************************************)
(* The file system                                                         *)
(***************************************************************************)

\* The elements of s that are in T, in their order.
Among(s, T) ==
    LET I == {i \in DOMAIN s : s[i] \in T}
        Place(k) == CHOOSE i \in I : Cardinality({j \in I : j <= i}) = k
    IN  [k \in 1 .. Cardinality(I) |-> s[Place(k)]]

SubscriptionsTo(d, id) ==
    Among(subscriptions[d], {s \in Subscription : IdOf[s.plugin] = id})

\* A file that is written or created and has one of the known extensions is
\* relevant; only that is a configuration file.
FileChanges(d, id, relevant) ==
    /\ changes < MaxEvents
    /\ changes' = changes + 1
    /\ events' = IF d \in fsWatched
                   THEN Append(events, [dir |-> d, id |-> id, relevant |-> relevant])
                   ELSE events
    /\ stale' = [p \in Plugins |->
                   IF /\ relevant /\ IdOf[p] = id
                      /\ \E b \in Bots : TypeOf[b] = d /\ Contains(PluginsOf[b], p)
                     THEN IF p \in watched THEN "due" ELSE "missed"
                     ELSE stale[p]]
    /\ UNCHANGED <<ctxDone, loop, calls, leaving, subscriptions, fsWatched, botPc,
                   next, watched>>

-----------------------------------------------------------------------------
(***************************************************************************)
(* The goroutine of a bot                                                  *)
(***************************************************************************)
Plugin(b) == PluginsOf[b][next[b]]

\* reg(p): the plugin is built with what Read finds.
ReadConfig(b) ==
    /\ botPc[b] = "read"
    /\ next[b] <= Len(PluginsOf[b])
    /\ stale' = [stale EXCEPT ![Plugin(b)] = "no"]
    /\ botPc' = [botPc EXCEPT ![b] = "watch"]
    /\ UNCHANGED <<ctxDone, loop, calls, leaving, subscriptions, fsWatched,
                   events, changes, next, watched>>

AllRegistered(b) ==
    /\ botPc[b] = "read"
    /\ next[b] > Len(PluginsOf[b])
    /\ botPc' = [botPc EXCEPT ![b] = "running"]
    /\ UNCHANGED <<ctxDone, loop, calls, leaving, subscriptions, fsWatched,
                   events, changes, next, watched, stale>>

\* Bot.Run returned; the goroutine now waits to send on unsubscribe.
CallUnwatch(b) ==
    /\ botPc[b] = "running"
    /\ botPc' = [botPc EXCEPT ![b] = "unwatch"]
    /\ UNCHANGED <<ctxDone, loop, calls, leaving, subscriptions, fsWatched,
                   events, changes, next, watched, stale>>

\* Bot.Run panics: unsubscribeConfigWatcher is skipped.
BotPanics(b) ==
    /\ botPc[b] = "running"
    /\ botPc' = [botPc EXCEPT ![b] = "panicked"]
    /\ UNCHANGED <<ctxDone, loop, calls, leaving, subscriptions, fsWatched,
                   events, changes, next, watched, stale>>

\* The send panics on the closed channel: Unwatch returns ErrWatcherNotRunning.
UnwatchPanics(b) ==
    /\ botPc[b] = "unwatch"
    /\ loop = "stopped"
    /\ botPc' = [botPc EXCEPT ![b] = "unwatched"]
    /\ UNCHANGED <<ctxDone, loop, calls, leaving, subscriptions, fsWatched,
                   events, changes, next, watched, stale>>

-----------------------------------------------------------------------------
(***************************************************************************)
(* fileWatcher.run: its select takes any case that is ready                *)
(***************************************************************************)
ContextDone ==
    /\ loop = "select" /\ ctxDone
    /\ loop' = "stopped"
    /\ fsWatched' = {}
    /\ UNCHANGED <<ctxDone, calls, leaving, subscriptions, events, changes, botPc,
                   next, watched, stale>>

\* Mutant of ReceiveEvent: an event that concerns nobody is not skipped.
ReceiveEventUnfiltered ==
    /\ loop = "select" /\ events # <<>>
    /\ events' = Tail(events)
    /\ calls' = SubscriptionsTo(Head(events).dir, Head(events).id)
    /\ loop' = "calling"
    /\ UNCHANGED <<ctxDone, leaving, subscriptions, fsWatched, changes, botPc,
                   next, watched, stale>>

\* doHandleEvent
ReceiveEvent ==
    /\ loop = "select" /\ events # <<>>
    /\ events' = Tail(events)
    /\ LET e == Head(events)
       IN  calls' = IF e.relevant THEN SubscriptionsTo(e.dir, e.id) ELSE <<>>
    /\ loop' = IF calls' = <<>> THEN "select" ELSE "calling"
    /\ UNCHANGED <<ctxDone, leaving, subscriptions, fsWatched, changes, botPc,
                   next, watched, stale>>

\* The callback runs in the goroutine of run, which serves nobody meanwhile.
RunCallback ==
    /\ loop = "calling"
    /\ stale' = [stale EXCEPT ![Head(calls).plugin] = "no"]
    /\ calls' = Tail(calls)
    /\ loop' = IF calls' = <<>> THEN "select" ELSE "calling"
    /\ UNCHANGED <<ctxDone, leaving, subscriptions, fsWatched, events, changes,
                   botPc, next, watched>>

\* Mutant of Accepted: what fsnotify says about the directory is ignored.
AcceptedUnwatched(d, p, added) == SubscriptionsTo(d, IdOf[p]) = <<>>

\* The early returns of doSubscribe: the first subscription to a directory
\* needs fsnotify to accept it, and an id is not subscribed twice.
Accepted(d, p, added) ==
    /\ subscriptions[d] = <<>> => added
    /\ SubscriptionsTo(d, IdOf[p]) = <<>>

\* doSubscribe, from the rendezvous with Watch to the answer. The directory
\* may not exist, in which case fsnotify refuses it.
Subscribe(b, added) ==
    LET d == TypeOf[b]
        p == Plugin(b)
        ok == Accepted(d, p, added)
    IN  /\ loop = "select" /\ botPc[b] = "watch"
        /\ added => subscriptions[d] = <<>>
        /\ fsWatched' = IF added THEN fsWatched \union {d} ELSE fsWatched
        /\ subscriptions' = IF ok THEN [subscriptions EXCEPT ![d] =
                                          Append(@, [bot |-> b, plugin |-> p])]
                                  ELSE subscriptions
        /\ watched' = IF ok THEN watched \union {p} ELSE watched
        /\ botPc' = [botPc EXCEPT ![b] = "read"]
        /\ next' = [next EXCEPT ![b] = @ + 1]
        /\ UNCHANGED <<ctxDone, loop, calls, leaving, events, changes, stale>>

\* The rendezvous with Unwatch, which returns at once.
ReceiveUnsubscribe(b) ==
    /\ loop = "select" /\ botPc[b] = "unwatch"
    /\ loop' = "unsubscribing"
    /\ leaving' = {TypeOf[b]}
    /\ botPc' = [botPc EXCEPT ![b] = "unwatched"]
    /\ UNCHANGED <<ctxDone, calls, subscriptions, fsWatched, events, changes,
                   next, watched, stale>>

\* Mutant of Remains: the subscriptions of the bot are not dropped.
RemainsAll(d) == subscriptions[d]

\* Mutant of Remains: the subscriptions of other BotTypes are dropped too.
RemainsNothing(d) == <<>>

Remains(d) ==
    Among(subscriptions[d], {s \in Subscription : TypeOf[s.bot] \notin leaving})

\* doUnsubscribe returns after the first directory of which nothing remains;
\* the ones it has not come to belong to other BotTypes and would stay as they
\* are.
DoUnsubscribe ==
    /\ loop = "unsubscribing"
    /\ subscriptions' = [d \in Types |-> Remains(d)]
    /\ fsWatched' = {d \in fsWatched : Remains(d) # <<>>}
    /\ loop' = "select"
    /\ leaving' = {}
    /\ UNCHANGED <<ctxDone, calls, events, changes, botPc, next, watched, stale>>

-----------------------------------------------------------------------------
BotSteps(b) == ReadConfig(b) \/ AllRegistered(b) \/ UnwatchPanics(b)

LoopSteps ==
    \/ ContextDone \/ ReceiveEvent \/ RunCallback \/ DoUnsubscribe
    \/ \E b \in Bots : ReceiveUnsubscribe(b) \/ \E added \in BOOLEAN : Subscribe(b, added)

WatcherNext ==
    \/ CancelWatcher
    \/ \E d \in Types, id \in Ids, relevant \in BOOLEAN : FileChanges(d, id, relevant)
    \/ \E b \in Bots : BotSteps(b) \/ CallUnwatch(b) \/ BotPanics(b)
    \/ LoopSteps

WatcherSpec == WatcherInit /\ [][WatcherNext]_watcherVars

\* Goroutines run when they can, callbacks return, and a case of the select
\* that stays ready is taken some time.
WatcherFairness ==
    /\ \A b \in Bots :
         /\ WF_watcherVars(BotSteps(b))
         /\ WF_watcherVars(ReceiveUnsubscribe(b))
         /\ WF_watcherVars(\E added \in BOOLEAN : Subscribe(b, added))
    /\ WF_watcherVars(ContextDone) /\ WF_watcherVars(ReceiveEvent)
    /\ WF_watcherVars(RunCallback) /\ WF_watcherVars(DoUnsubscribe)

FairWatcherSpec == WatcherSpec /\ WatcherFairness

-----------------------------------------------------------------------------
(***************************************************************************)
(* Safety                                                                  *)
(***************************************************************************)

\* A change to a file is told to each subscriber once, and only if fsnotify
\* still watches the directory: doSubscribe and doUnsubscribe keep the map and
\* the watched directories together, also when bots share a BotType.
SubscriptionsAreSound ==
    /\ \A d \in Types : \A i, j \in DOMAIN subscriptions[d] :
          IdOf[subscriptions[d][i].plugin] = IdOf[subscriptions[d][j].plugin] => i = j
    /\ loop # "stopped" => fsWatched = {d \in Types : subscriptions[d] # <<>>}

\* Once Unwatch returned, no callback of the bot is called any more, although
\* Unwatch does not wait for doUnsubscribe.
NoCallbackAfterUnwatch ==
    \A b \in Bots : botPc[b] = "unwatched"
        => \A i \in DOMAIN calls : calls[i].bot # b

\* "Unwatch is called when Bot is stopped and subscription is no longer
\* required": a bot that runs keeps the subscriptions Watch confirmed, whichever
\* bots of other BotTypes stop. (Those of its own BotType take them along.)
RunningBotIsSubscribed ==
    \A b \in Bots :
        /\ botPc[b] = "running"
        /\ \A o \in Bots : TypeOf[o] = TypeOf[b] => botPc[o] # "unwatched"
        => \A i \in DOMAIN PluginsOf[b] : PluginsOf[b][i] \in watched =>
              \E j \in DOMAIN subscriptions[TypeOf[b]] :
                  subscriptions[TypeOf[b]][j] = [bot |-> b, plugin |-> PluginsOf[b][i]]

-----------------------------------------------------------------------------
(***************************************************************************)
(* Liveness, under FairWatcherSpec                                         *)
(***************************************************************************)

\* A change to the file of a plugin that Watch accepted gets to the plugin,
\* unless the watcher stops first or a bot of the BotType does: again and again
\* there is no plugin for which a change is due.
ChangesAreApplied ==
    []<>(\A b \in Bots : \A i \in DOMAIN PluginsOf[b] :
            \/ stale[PluginsOf[b][i]] # "due"
            \/ ctxDone
            \/ \E o \in Bots : TypeOf[o] = TypeOf[b] /\ botPc[o] = "unwatched")

-----------------------------------------------------------------------------
(***************************************************************************)
(* What the comments of the code promise and the code does not do          *)
(***************************************************************************)

\* RegisterConfigWatcher: "If a ConfigWatcher is registered, Sarah's process
\* subscribes to the changes to Command or ScheduledTask's configuration." So
\* a plugin is subscribed also when another one with its identifier already is.
SharedIdIsSubscribed ==
    \A b \in Bots : botPc[b] = "running"
        => \A i, j \in DOMAIN PluginsOf[b] :
              /\ i < j /\ IdOf[PluginsOf[b][i]] = IdOf[PluginsOf[b][j]]
              /\ PluginsOf[b][i] \in watched
              => PluginsOf[b][j] \in watched

\* RegisterConfigWatcher: "When a configuration is updated, ConfigWatcher reads
\* the new configuration setting and reflects to the corresponding
\* configuration instance". No update of a watched plugin is missed for good.
NoChangeIsMissed ==
    events = <<>> /\ calls = <<>> => \A p \in watched : stale[p] # "missed"
=============================================================================
