------------------------- MODULE ConfigReloadProofs -------------------------
(***************************************************************************)
(* Proofs about Scheduler, about FileWatcher, and about their composition  *)
(* in ConfigReload, for any tasks in any order of registration, any bots,  *)
(* plugins and changes to files.                                           *)
(***************************************************************************)
EXTENDS ConfigReload, SequenceTheorems, FiniteSetTheorems, TLAPS

(***************************************************************************)
(* The first invariant needs nothing of the order of registration.         *)
(***************************************************************************)

\* What each client works on: the bot's goroutine on the first task it has yet to
\* register, the watcher's on one that it knows a callback of.
AtWork ==
    /\ pc[BotGo] # "idle" => todo # <<>> /\ cur[BotGo] = Head(todo)
    /\ pc[BotGo] \in {"remove", "build", "watch"} => cur[BotGo] \in Props
    /\ pc[WatcherGo] # "watch"
    /\ pc[WatcherGo] # "idle" => cur[WatcherGo] \in reloadable

\* The functions of plain tasks find the loop variable assigned.
LoopVarIsSet ==
    /\ \A e \in entries : e.task \in PlainTasks => loopVar \in PlainTasks
    /\ \A i \in DOMAIN updating :
          updating[i].task \in PlainTasks => loopVar \in PlainTasks
    /\ pc[BotGo] # "idle" /\ cur[BotGo] \in PlainTasks => loopVar \in PlainTasks

\* cron gives out each EntryID once, so removing the entry of one task does not
\* remove that of another one.
IdsAreUnique ==
    /\ \A t \in Tasks : schedule[t] <= lastId
    /\ \A t, u \in Tasks : schedule[t] = schedule[u] /\ schedule[t] # NoEntry => t = u
    /\ \A e \in entries : e.id # NoEntry

SchedulerInv ==
    /\ SchedulerTypeOK
    /\ AtWork
    /\ LoopVarIsSet
    /\ CronHoldsTheSchedule
    /\ IdsAreUnique

-----------------------------------------------------------------------------
(***************************************************************************)
(* Facts about channels of capacity one                                    *)
(***************************************************************************)

\* Receiving from a channel takes what is in it and leaves it empty.
LEMMA ChanReceive ==
    ASSUME NEW S, NEW ch \in Seq(S), Len(ch) <= ChanSize, ch # <<>>
    PROVE  /\ Head(ch) \in S /\ Head(ch) = ch[1] /\ Tail(ch) = <<>>
           /\ DOMAIN ch = {1}
<1>0. Len(ch) \in Nat /\ Len(ch) # 0
    BY EmptySeq
<1>1. Len(ch) = 1
    BY SMTT(30), <1>0 DEF ChanSize
<1>2. Tail(ch) \in Seq(S) /\ Len(Tail(ch)) = 0 /\ Head(ch) \in S
    BY <1>1, HeadTailProperties
<1>3. Tail(ch) = <<>>
    BY <1>2, EmptySeq
<1> QED
    BY <1>1, <1>2, <1>3

\* Sending on a channel that has room puts the value into an empty one.
LEMMA ChanSend ==
    ASSUME NEW S, NEW ch \in Seq(S), Len(ch) < ChanSize, NEW x \in S
    PROVE  /\ ch = <<>> /\ Append(ch, x) \in Seq(S) /\ Len(Append(ch, x)) = 1
           /\ DOMAIN Append(ch, x) = {1} /\ Append(ch, x)[1] = x
BY DEF ChanSize

\* Counting what was built keeps the counters natural numbers.
LEMMA CountUp ==
    ASSUME NEW f \in [Tasks -> Nat], NEW t
    PROVE  [f EXCEPT ![t] = @ + 1] \in [Tasks -> Nat]
<1>1. CASE t \in Tasks
    <2>1. f[t] + 1 \in Nat
        BY <1>1
    <2> QED
        BY <2>1
<1>2. CASE t \notin Tasks
    <2>1. \A u \in Tasks : [f EXCEPT ![t] = @ + 1][u] = f[u]
        BY <1>2
    <2> QED
        BY <2>1
<1> QED
    BY <1>1, <1>2

-----------------------------------------------------------------------------
(***************************************************************************)
(* The first invariant is inductive                                        *)
(***************************************************************************)
LEMMA SchedulerInitInv == SchedulerInit => SchedulerInv
<1> SUFFICES ASSUME SchedulerInit PROVE SchedulerInv
    OBVIOUS
<1> USE SchedulerAssumption DEF SchedulerInit, NoEntry
<1>1. SchedulerTypeOK
    <2>1. removing \in Seq(Tasks) /\ Len(removing) <= ChanSize
        BY DEF ChanSize
    <2>2. updating \in Seq(Update) /\ Len(updating) <= ChanSize
        BY DEF ChanSize
    <2>3. updates \in 0 .. MaxUpdates /\ lastId \in Nat /\ schedule \in [Tasks -> Nat]
        OBVIOUS
    <2> QED
        BY <2>1, <2>2, <2>3 DEF SchedulerTypeOK
<1>2. AtWork
    BY DEF AtWork, Clients, BotGo, WatcherGo
<1>3. LoopVarIsSet /\ CronHoldsTheSchedule /\ IdsAreUnique
    BY DEF LoopVarIsSet, CronHoldsTheSchedule, IdsAreUnique, Clients, BotGo
<1> QED
    BY <1>1, <1>2, <1>3 DEF SchedulerInv

\* Cron's entries and the map change together, in receiveEvent only: the entry of
\* one task goes, and perhaps a new one comes.
LEMMA CronStep ==
    ASSUME SchedulerInv, NEW t \in Tasks,
           NEW S, S \subseteq Entry, NEW id \in Nat,
           \/ id = NoEntry /\ S = {} /\ lastId' = lastId
           \/ /\ id = lastId + 1 /\ lastId' = lastId + 1
              /\ \E v \in Nat : S = {[id |-> id, task |-> t, ver |-> v]},
           schedule' = [schedule EXCEPT ![t] = id],
           entries' = Without(t) \union S
    PROVE  /\ schedule' \in [Tasks -> Nat] /\ entries' \subseteq Entry /\ lastId' \in Nat
           /\ CronHoldsTheSchedule' /\ IdsAreUnique'
<1> USE DEF SchedulerInv, SchedulerTypeOK, NoEntry
<1>1. schedule' \in [Tasks -> Nat] /\ entries' \subseteq Entry /\ lastId' \in Nat
    BY DEF Without
<1>2. \A e \in entries : e \in Entry /\ e.task \in Tasks /\ e.id \in Nat
                         /\ schedule[e.task] = e.id /\ e.id # 0
    BY DEF CronHoldsTheSchedule, IdsAreUnique, Entry
<1>3. \A e \in Without(t) : e \in entries /\ e.task # t
    BY <1>2 DEF Without
<1>4. \A e \in S : e.id = id /\ e.task = t /\ id # 0
    OBVIOUS
<1>5. \A e \in entries' : schedule'[e.task] = e.id /\ e.id # 0
    BY <1>2, <1>3, <1>4
<1>6. ASSUME NEW u \in Tasks, schedule'[u] # 0
      PROVE  \E e \in entries' : e.id = schedule'[u] /\ e.task = u
    <2>1. CASE u = t
        <3>1. PICK v \in Nat : S = {[id |-> id, task |-> t, ver |-> v]}
            <4>1. schedule'[u] = id
                BY <2>1
            <4> QED
                BY <4>1, <1>6
        <3>2. [id |-> id, task |-> t, ver |-> v] \in entries'
            BY <3>1
        <3>3. schedule'[u] = id
            BY <2>1
        <3> QED
            BY <2>1, <3>2, <3>3
    <2>2. CASE u # t
        <3>1. schedule'[u] = schedule[u]
            BY <2>2
        <3>2. PICK e \in entries : e.id = schedule[u] /\ e.task = u
            BY <1>6, <3>1 DEF CronHoldsTheSchedule
        <3>3. e.id # schedule[t]
            BY <1>6, <2>2, <3>1, <3>2 DEF IdsAreUnique
        <3> QED
            BY <3>1, <3>2, <3>3 DEF Without
    <2> QED
        BY <2>1, <2>2
<1>7. \A u \in Tasks : schedule'[u] <= lastId'
    BY <1>1 DEF IdsAreUnique
<1>8. \A u, w \in Tasks : schedule'[u] = schedule'[w] /\ schedule'[u] # 0 => u = w
    BY DEF IdsAreUnique
<1> QED
    BY <1>1, <1>5, <1>6, <1>7, <1>8 DEF CronHoldsTheSchedule, IdsAreUnique


\* The goroutines that use the scheduler keep to their program. Only receiveEvent
\* touches the map and cron.
LEMMA ClientStep ==
    ASSUME SchedulerInv,
           \/ RegisterSteps
           \/ \E t \in Props : Callback(t)
           \/ \E c \in Clients : ClientSteps(c)
    PROVE  SchedulerInv'
<1>0. UNCHANGED <<schedule, entries, lastId, ran, receiving, ctxDone>>
    BY DEF RegisterSteps, RegisterProps, RegisterTask, WatchTask, Callback, ClientSteps,
           SendRemove, BuildFails, BuildSucceeds, SendUpdate, UpdateReturns, loopVars
<1>1. /\ CronHoldsTheSchedule' /\ IdsAreUnique'
      /\ UNCHANGED <<schedule, entries, lastId, ran, receiving, ctxDone>>
    BY <1>0 DEF SchedulerInv, CronHoldsTheSchedule, IdsAreUnique
<1> USE SchedulerAssumption
<1> USE DEF SchedulerInv, SchedulerTypeOK, AtWork, LoopVarIsSet, Goto, Clients, BotGo,
            WatcherGo
<1>2. todo # <<>> => Head(todo) \in Tasks /\ Tail(todo) \in Seq(Tasks)
    BY HeadTailProperties
<1>3. CASE RegisterProps
    BY <1>1, <1>2, <1>3 DEF RegisterProps, loopVars
<1>4. ASSUME NEW skipped \in BOOLEAN, RegisterTask(skipped) PROVE SchedulerInv'
    <2>1. /\ loopVar' = Head(todo) /\ loopVar' \in PlainTasks
          /\ UNCHANGED <<removing, updating, answer, reloadable, outcome, updates>>
        BY <1>4 DEF RegisterTask
    <2>2. CASE skipped
        BY <1>1, <1>2, <1>4, <2>1, <2>2 DEF RegisterTask
    <2>3. CASE ~skipped
        <3>1. /\ pc[BotGo] = "idle" /\ pc' = [pc EXCEPT ![BotGo] = "send"]
              /\ cur' = [cur EXCEPT ![BotGo] = Head(todo)]
              /\ version' = [version EXCEPT ![Head(todo)] = @ + 1] /\ todo' = todo
            BY <1>4, <2>3 DEF RegisterTask
        <3>2. version' \in [Tasks -> Nat]
            BY <3>1, CountUp
        <3>3. AtWork' /\ LoopVarIsSet'
            BY <1>1, <1>4, <2>1, <3>1 DEF RegisterTask
        <3> QED
            BY <1>1, <1>2, <1>4, <2>1, <3>1, <3>2, <3>3 DEF RegisterTask
    <2> QED
        BY <2>2, <2>3
<1>5. ASSUME NEW ok \in BOOLEAN, WatchTask(ok) PROVE SchedulerInv'
    BY <1>1, <1>2, <1>5 DEF WatchTask, loopVars
<1>6. ASSUME NEW t \in Props, Callback(t) PROVE SchedulerInv'
    <2>1. /\ pc[WatcherGo] = "idle" /\ pc' = [pc EXCEPT ![WatcherGo] = "remove"]
          /\ cur' = [cur EXCEPT ![WatcherGo] = t] /\ t \in reloadable /\ t \in Tasks
          /\ outcome' = [outcome EXCEPT ![t] = "none"]
          /\ updates < MaxUpdates /\ updates' = updates + 1
          /\ UNCHANGED <<removing, updating, answer, todo, loopVar, reloadable, version>>
        BY <1>6 DEF Callback, Tasks
    <2>2. updates' \in 0 .. MaxUpdates
        BY <2>1
    <2>3. /\ pc' \in [Clients -> {"idle", "remove", "build", "send", "await", "watch"}]
          /\ cur' \in [Clients -> Tasks \union {NoTask}]
          /\ outcome' \in [Tasks -> {"none", "ok", "failed"}]
        BY <2>1
    <2>4. SchedulerTypeOK'
        BY <1>1, <2>1, <2>2, <2>3
    <2>5. AtWork' /\ LoopVarIsSet'
        BY <1>1, <2>1
    <2> QED
        BY <1>1, <2>4, <2>5
<1>7. ASSUME NEW c \in Clients, SendRemove(c) PROVE SchedulerInv'
    <2>1. cur[c] \in Tasks
        BY <1>2, <1>7 DEF SendRemove, Tasks
    <2>2. removing' \in Seq(Tasks) /\ Len(removing') <= ChanSize
        BY <1>7, <2>1, ChanSend DEF SendRemove, ChanSize
    <2> QED
        BY <1>1, <1>7, <2>2 DEF SendRemove, loopVars
<1>8. ASSUME NEW c \in Clients, BuildFails(c) \/ UpdateReturns(c) PROVE SchedulerInv'
    <2>1. PICK result \in {"ok", "failed"} : Finish(c, result)
        BY <1>8 DEF BuildFails, UpdateReturns
    <2>2. cur[c] \in Tasks /\ (c = BotGo => todo # <<>> /\ cur[c] = Head(todo))
        BY <1>2, <1>8 DEF BuildFails, UpdateReturns, Tasks
    <2>3. UNCHANGED <<cur, loopVar, reloadable, updates, removing, updating, version>>
        BY <1>8, <2>1 DEF BuildFails, UpdateReturns, Finish
    <2>4. answer' \in [Clients -> {"none", "ok", "error"}]
        BY <1>8 DEF BuildFails, UpdateReturns
    <2>5. todo' \in Seq(Tasks) /\ outcome' \in [Tasks -> {"none", "ok", "failed"}]
        BY <1>2, <2>1, <2>2 DEF Finish
    <2>6. AtWork'
        BY <1>8, <2>1, <2>2, <2>3 DEF Finish
    <2>7. pc' \in [Clients -> {"idle", "remove", "build", "send", "await", "watch"}]
        BY <2>1 DEF Finish
    <2>8. LoopVarIsSet'
        BY <1>1, <1>8, <2>1, <2>2, <2>3 DEF Finish
    <2> QED
        BY <1>1, <2>3, <2>4, <2>5, <2>6, <2>7, <2>8
<1>9. ASSUME NEW c \in Clients, BuildSucceeds(c) PROVE SchedulerInv'
    <2>1. version' \in [Tasks -> Nat]
        BY <1>9, CountUp DEF BuildSucceeds
    <2> QED
        BY <1>1, <1>9, <2>1 DEF BuildSucceeds
<1>10. ASSUME NEW c \in Clients, NEW sched \in Scheds, SendUpdate(c, sched)
       PROVE  SchedulerInv'
    <2>1. cur[c] \in Tasks
        BY <1>2, <1>10 DEF SendUpdate, Tasks
    <2> DEFINE u == [client |-> c, task |-> cur[c], ver |-> version[cur[c]],
                     sched |-> sched]
    <2>2. u \in Update
        BY <2>1 DEF Update
    <2>3. /\ updating' \in Seq(Update) /\ Len(updating') <= ChanSize
          /\ DOMAIN updating' = {1} /\ updating'[1] = u
        BY SMTT(30), <1>10, <2>2, ChanSend DEF SendUpdate, ChanSize
    <2>4. AtWork'
        BY <1>10 DEF SendUpdate
    <2>5. LoopVarIsSet'
        BY <1>1, <1>10, <2>3 DEF SendUpdate
    <2> QED
        BY <1>1, <1>10, <2>3, <2>4, <2>5 DEF SendUpdate, loopVars
<1> QED
    BY <1>3, <1>4, <1>5, <1>6, <1>7, <1>8, <1>9, <1>10 DEF RegisterSteps, ClientSteps

\* Nor does receiveEvent disturb the clients, and what it does to the map it does
\* to cron.
LEMMA ReceiveStep ==
    ASSUME SchedulerInv, ReceiveSteps \/ \E e \in entries : Fire(e)
    PROVE  SchedulerInv'
<1> USE DEF SchedulerInv, SchedulerTypeOK, AtWork, LoopVarIsSet, clientVars, loopVars
<1>1. CASE ReceiveDone
    BY <1>1 DEF ReceiveDone, CronHoldsTheSchedule, IdsAreUnique
<1>2. CASE ReceiveRemove
    <2>1. Head(removing) \in Tasks /\ Tail(removing) = <<>>
        BY <1>2, ChanReceive DEF ReceiveRemove
    <2>2. CronHoldsTheSchedule' /\ IdsAreUnique'
          /\ schedule' \in [Tasks -> Nat] /\ entries' \subseteq Entry /\ lastId' \in Nat
        <3>1. entries' = Without(Head(removing)) \union {}
            BY <1>2 DEF ReceiveRemove
        <3> QED
            BY <1>2, <2>1, <3>1, CronStep DEF ReceiveRemove, NoEntry
    <2>3. removing' \in Seq(Tasks) /\ Len(removing') <= ChanSize
        BY <1>2, <2>1 DEF ReceiveRemove, ChanSize
    <2>4. entries' \subseteq entries
        BY <1>2 DEF ReceiveRemove, Without
    <2> QED
        BY <1>2, <2>2, <2>3, <2>4 DEF ReceiveRemove
<1>3. CASE ReceiveUpdate
    <2> DEFINE add == Head(updating)
    <2>1. add \in Update /\ add = updating[1] /\ Tail(updating) = <<>>
          /\ DOMAIN updating = {1}
        BY <1>3, ChanReceive DEF ReceiveUpdate
    <2>2. updating' = <<>> /\ updating' \in Seq(Update) /\ Len(updating') <= ChanSize
        BY SMTT(30), <1>3, <2>1 DEF ReceiveUpdate, ChanSize
    <2>3. /\ add.client \in Clients /\ add.task \in Tasks /\ add.ver \in Nat
          /\ add.sched \in Scheds
        BY <2>1 DEF Update
    <2>4. /\ CronHoldsTheSchedule' /\ IdsAreUnique'
          /\ schedule' \in [Tasks -> Nat] /\ entries' \subseteq Entry /\ lastId' \in Nat
          /\ \A e \in entries' : e \in entries \/ e.task = add.task
        <3>1. CASE add.sched = "empty"
            <4>1. UNCHANGED <<schedule, entries, lastId>>
                BY <1>3, <3>1 DEF ReceiveUpdate
            <4> QED
                BY <4>1 DEF CronHoldsTheSchedule, IdsAreUnique
        <3>2. CASE add.sched = "bad"
            <4>1. /\ schedule' = [schedule EXCEPT ![add.task] = NoEntry]
                  /\ entries' = Without(add.task) \union {} /\ lastId' = lastId
                BY <1>3, <3>2 DEF ReceiveUpdate
            <4>2. \A e \in entries' : e \in entries
                BY <4>1 DEF Without
            <4> QED
                BY <2>3, <4>1, <4>2, CronStep DEF NoEntry
        <3>3. CASE add.sched = "good"
            <4> DEFINE new == [id |-> lastId + 1, task |-> add.task, ver |-> add.ver]
            <4>1. /\ schedule' = [schedule EXCEPT ![add.task] = lastId + 1]
                  /\ entries' = Without(add.task) \union {new} /\ lastId' = lastId + 1
                BY <1>3, <3>3 DEF ReceiveUpdate
            <4>2. \A e \in entries' : e \in entries \/ e.task = add.task
                BY <4>1 DEF Without
            <4>3. {new} \subseteq Entry /\ lastId + 1 \in Nat
                BY <2>3 DEF Entry
            <4> QED
                BY <2>3, <4>1, <4>2, <4>3, CronStep
        <3> QED
            BY <2>3, <3>1, <3>2, <3>3 DEF Scheds
    <2>5. LoopVarIsSet'
        BY <1>3, <2>1, <2>2, <2>4 DEF ReceiveUpdate
    <2>6. answer' \in [Clients -> {"none", "ok", "error"}]
        BY <1>3, <2>3 DEF ReceiveUpdate
    <2> QED
        BY <1>3, <2>2, <2>4, <2>5, <2>6 DEF ReceiveUpdate
<1>4. ASSUME NEW e \in entries, Fire(e) PROVE SchedulerInv'
    <2>1. e.task \in Tasks /\ (e.task \in PlainTasks => loopVar \in Tasks)
        BY DEF Entry, Tasks
    <2>2. ran' \subseteq Tasks \X Tasks
        BY <1>4, <2>1 DEF Fire
    <2> QED
        BY <1>4, <2>2 DEF Fire, CronHoldsTheSchedule, IdsAreUnique
<1> QED
    BY <1>1, <1>2, <1>3, <1>4 DEF ReceiveSteps

LEMMA SchedulerInvStep == SchedulerInv /\ [SchedulerNext]_schedulerVars => SchedulerInv'
<1>1. ASSUME SchedulerInv, CancelScheduler \/ UNCHANGED schedulerVars PROVE SchedulerInv'
    <2>1. UNCHANGED schedulerState /\ ctxDone' \in BOOLEAN
        BY <1>1 DEF CancelScheduler, schedulerVars, SchedulerInv, SchedulerTypeOK
    <2>2. SchedulerTypeOK' /\ AtWork' /\ LoopVarIsSet'
        BY <1>1, <2>1 DEF SchedulerInv, SchedulerTypeOK, AtWork, LoopVarIsSet,
                          schedulerState, clientVars, loopVars
    <2>3. CronHoldsTheSchedule' /\ IdsAreUnique'
        BY <1>1, <2>1 DEF SchedulerInv, CronHoldsTheSchedule, IdsAreUnique,
                          schedulerState, loopVars
    <2> QED
        BY <2>2, <2>3 DEF SchedulerInv
<1> QED
    BY <1>1, ClientStep, ReceiveStep DEF SchedulerNext

\* The first invariant holds however the tasks are ordered, even when one is
\* registered twice.
THEOREM SchedulerInvariant == SchedulerSpec => []SchedulerInv
BY SchedulerInitInv, SchedulerInvStep, PTL DEF SchedulerSpec


-----------------------------------------------------------------------------
(***************************************************************************)
(* The second invariant. That a task is removed before it is built again,  *)
(* and that what cron runs is the latest build, depends on who else works  *)
(* on the task: nobody does, provided that every task is registered once.  *)
(***************************************************************************)
TasksAreDistinct == \A i, j \in DOMAIN Order : Order[i] = Order[j] => i = j

\* What the bot's goroutine has yet to register, the watcher does not know yet.
TodoIsNew ==
    /\ \A i, j \in DOMAIN todo : todo[i] = todo[j] => i = j
    /\ \A i \in DOMAIN todo : todo[i] \notin reloadable

\* An update in the channel has a client that waits for its answer.
UpdatesAreAwaited ==
    /\ \A i \in DOMAIN updating :
         LET u == updating[i]
         IN  /\ pc[u.client] = "await" /\ answer[u.client] = "none"
             /\ cur[u.client] = u.task
             /\ u.sched = "empty" => u.task \in PlainTasks
    /\ \A c \in Clients : answer[c] # "none" => pc[c] = "await"

Working(c)     == pc[c] \notin {"idle", "watch"} /\ cur[c] \in Props
Removed(t)     == schedule[t] = NoEntry \/ \E i \in DOMAIN removing : removing[i] = t
AboutToSend(t) == \E c \in Clients : pc[c] = "send" /\ cur[c] = t

\* A registration has no outcome before it ends.
OutcomeIsOpen == \A c \in Clients : Working(c) => outcome[cur[c]] = "none"

\* From the time the removal is sent until the update, the task is not scheduled or
\* about to be removed; so it is when the update or the registration failed.
RemovalComesFirst ==
    /\ \A c \in Clients :
         /\ Working(c) /\ pc[c] \in {"build", "send"} => Removed(cur[c])
         /\ Working(c) /\ answer[c] = "error" => Removed(cur[c])
    /\ \A t \in Props : outcome[t] = "failed" => Removed(t)

\* What is scheduled or sent is the latest build, or that one is on its way.
LatestIsComing ==
    /\ \A e \in entries : \/ e.ver = version[e.task] \/ AboutToSend(e.task)
                          \/ \E i \in DOMAIN updating : updating[i].task = e.task
    /\ \A i \in DOMAIN updating : \/ updating[i].ver = version[updating[i].task]
                                  \/ AboutToSend(updating[i].task)

\* A plain task is not scheduled before it is registered.
PlainTaskIsNew ==
    \A i \in DOMAIN todo : todo[i] \in PlainTasks =>
        \/ \A e \in entries : e.task # todo[i]
        \/ i = 1 /\ pc[BotGo] = "await" /\ answer[BotGo] # "none"

RegistrationInv ==
    /\ TodoIsNew
    /\ UpdatesAreAwaited
    /\ OutcomeIsOpen
    /\ RemovalComesFirst
    /\ LatestIsComing
    /\ PlainTaskIsNew


\* The two goroutines never work on the same task.
LEMMA OneClientPerTask ==
    ASSUME SchedulerInv, TodoIsNew, NEW c \in Clients, NEW d \in Clients, c # d,
           pc[c] # "idle", pc[d] # "idle"
    PROVE  cur[c] # cur[d]
<1>1. pc[BotGo] # "idle" /\ pc[WatcherGo] # "idle" => cur[BotGo] # cur[WatcherGo]
    <2> SUFFICES ASSUME pc[BotGo] # "idle", pc[WatcherGo] # "idle"
                 PROVE  cur[BotGo] # cur[WatcherGo]
        OBVIOUS
    <2>1. todo \in Seq(Tasks) /\ todo # <<>> /\ cur[BotGo] = Head(todo)
        BY DEF SchedulerInv, SchedulerTypeOK, AtWork
    <2>2. 1 \in DOMAIN todo /\ Head(todo) = todo[1]
        BY <2>1
    <2>3. cur[WatcherGo] \in reloadable
        BY DEF SchedulerInv, AtWork
    <2> QED
        BY <2>1, <2>2, <2>3 DEF TodoIsNew
<1> QED
    BY <1>1 DEF Clients

LEMMA UpdateType ==
    ASSUME SchedulerTypeOK, NEW i \in DOMAIN updating
    PROVE  /\ updating[i].client \in Clients /\ updating[i].task \in Tasks
           /\ updating[i].ver \in Nat /\ updating[i].sched \in Scheds
<1>1. updating[i] \in Update
    BY DEF SchedulerTypeOK
<1> QED
    BY <1>1 DEF Update

LEMMA RegistrationInit ==
    ASSUME TasksAreDistinct, SchedulerInit
    PROVE  RegistrationInv
<1> USE DEF SchedulerInit
<1>1. TodoIsNew
    BY DEF TodoIsNew, TasksAreDistinct
<1>2. UpdatesAreAwaited /\ OutcomeIsOpen
    BY DEF UpdatesAreAwaited, OutcomeIsOpen, Working
<1>3. RemovalComesFirst
    BY DEF RemovalComesFirst, Removed, Working, Tasks
<1>4. LatestIsComing /\ PlainTaskIsNew
    BY DEF LatestIsComing, PlainTaskIsNew
<1> QED
    BY <1>1, <1>2, <1>3, <1>4 DEF RegistrationInv

\* The beginning of a registration.
LEMMA BeginKeepsRegistration ==
    ASSUME SchedulerInv, RegistrationInv,
           \/ RegisterProps
           \/ RegisterTask(FALSE)
           \/ \E t \in Props : Callback(t)
    PROVE  RegistrationInv'
<1> USE DEF RegistrationInv
<1> DEFINE Begins(c, t, to) ==
             /\ pc[c] = "idle" /\ pc' = [pc EXCEPT ![c] = to]
             /\ cur' = [cur EXCEPT ![c] = t]
             /\ UNCHANGED <<removing, updating, answer, ran, todo, reloadable, loopVars>>
             /\ \/ to = "send" /\ t \in PlainTasks /\ outcome' = outcome
                   /\ c = BotGo /\ version' = [version EXCEPT ![t] = @ + 1]
                \/ to = "remove" /\ t \in Props /\ version' = version
                   /\ outcome' = [outcome EXCEPT ![t] = "none"]
             /\ c = BotGo => todo # <<>> /\ t = Head(todo)
             /\ c = WatcherGo => t \in reloadable
<1>0. \E c \in Clients, t \in Tasks, to \in {"remove", "send"} : Begins(c, t, to)
    <2>1. CASE RegisterProps
        <3>1. Begins(BotGo, Head(todo), "remove") /\ Head(todo) \in Tasks
            BY <2>1 DEF RegisterProps, Goto, BotGo, WatcherGo, Tasks
        <3> QED
            BY <3>1 DEF Clients
    <2>2. CASE RegisterTask(FALSE)
        <3>1. Begins(BotGo, Head(todo), "send") /\ Head(todo) \in Tasks
            BY <2>2 DEF RegisterTask, Goto, BotGo, WatcherGo, Tasks
        <3> QED
            BY <3>1 DEF Clients
    <2>3. ASSUME NEW p \in Props, Callback(p)
          PROVE  \E c \in Clients, t \in Tasks, to \in {"remove", "send"} : Begins(c, t, to)
        <3>1. Begins(WatcherGo, p, "remove") /\ p \in Tasks
            BY <2>3 DEF Callback, Goto, BotGo, WatcherGo, Tasks
        <3> QED
            BY <3>1 DEF Clients
    <2> QED
        BY <2>1, <2>2, <2>3
<1>1. PICK c \in Clients, t \in Tasks, to \in {"remove", "send"} : Begins(c, t, to)
    BY <1>0
<1> USE DEF SchedulerInv, SchedulerTypeOK
<1>2. TodoIsNew'
    BY <1>1 DEF TodoIsNew
<1>3. \A d \in Clients : d # c => pc'[d] = pc[d] /\ cur'[d] = cur[d]
    BY <1>1
<1>4. answer[c] = "none"
    BY <1>1 DEF UpdatesAreAwaited
<1>5. UpdatesAreAwaited'
    <2>1. \A i \in DOMAIN updating : updating[i].client # c /\ updating[i].client \in Clients
        BY <1>1, UpdateType DEF UpdatesAreAwaited
    <2> QED
        BY <1>1, <1>3, <1>4, <2>1 DEF UpdatesAreAwaited
<1>6. \A d \in Clients : d # c /\ Working(d) => cur[d] # t
    <2> SUFFICES ASSUME NEW d \in Clients, d # c, Working(d) PROVE cur[d] # t
        OBVIOUS
    <2>1. CASE c = BotGo
        <3>1. d = WatcherGo /\ cur[d] \in reloadable
            BY <2>1 DEF AtWork, Clients, Working
        <3>2. todo # <<>> /\ t = todo[1] /\ 1 \in DOMAIN todo
            BY <1>1, <2>1
        <3> QED
            BY <3>1, <3>2 DEF TodoIsNew
    <2>2. CASE c = WatcherGo
        <3>1. d = BotGo /\ todo # <<>> /\ cur[d] = todo[1] /\ 1 \in DOMAIN todo
            BY <2>2 DEF AtWork, Clients, Working
        <3>2. t \in reloadable
            BY <1>1, <2>2
        <3> QED
            BY <3>1, <3>2 DEF TodoIsNew
    <2> QED
        BY <2>1, <2>2 DEF Clients
<1>7. OutcomeIsOpen'
    BY <1>1, <1>3, <1>6, SchedulerAssumption DEF OutcomeIsOpen, Working, Tasks
<1>8. RemovalComesFirst'
    <2>1. \A u : Removed(u)' <=> Removed(u)
        BY <1>1 DEF Removed, loopVars
    <2>2. ASSUME NEW d \in Clients, Working(d)'
          PROVE  /\ pc'[d] \in {"build", "send"} => Removed(cur[d])'
                 /\ answer'[d] = "error" => Removed(cur[d])'
        <3>1. CASE d = c
            BY <1>1, <1>4, <2>2, <3>1, SchedulerAssumption DEF Working
        <3>2. CASE d # c
            BY <1>1, <1>3, <2>1, <2>2, <3>2 DEF RemovalComesFirst, Working
        <3> QED
            BY <3>1, <3>2
    <2>3. \A u \in Props : outcome'[u] = "failed" => Removed(u)'
        BY <1>1, <2>1 DEF RemovalComesFirst, Tasks
    <2> QED
        BY <2>2, <2>3 DEF RemovalComesFirst
<1>9. LatestIsComing'
    <2>1. \A u \in Tasks : AboutToSend(u) => AboutToSend(u)'
        BY <1>1, <1>3 DEF AboutToSend
    <2>2. \A u \in Tasks : version'[u] = version[u] \/ AboutToSend(u)'
        BY <1>1 DEF AboutToSend
    <2>3. \A i \in DOMAIN updating : updating[i].task \in Tasks
        BY UpdateType
    <2>4. \A e \in entries : e.task \in Tasks
        BY DEF Entry
    <2> QED
        BY <1>1, <2>1, <2>2, <2>3, <2>4 DEF LatestIsComing, loopVars
<1>10. PlainTaskIsNew'
    BY <1>1, <1>4 DEF PlainTaskIsNew, loopVars
<1> QED
    BY <1>2, <1>5, <1>7, <1>8, <1>9, <1>10


\* The loop goes on to the next task, which is none of those before it.
LEMMA NextKeepsRegistration ==
    ASSUME SchedulerInv, RegistrationInv, todo # <<>>,
           todo' = Tail(todo), cur' = cur,
           pc[BotGo] \in {"idle", "watch", "await"}, pc' = [pc EXCEPT ![BotGo] = "idle"],
           answer' = [answer EXCEPT ![BotGo] = "none"],
           pc[BotGo] # "await" \/ answer[BotGo] # "none",
           reloadable' = reloadable \/ reloadable' = reloadable \union {Head(todo)},
           \A t \in Props : outcome'[t] = outcome[t],
           UNCHANGED <<removing, updating, version, loopVars>>
    PROVE  RegistrationInv'
<1> USE DEF RegistrationInv, SchedulerInv, SchedulerTypeOK
<1>1. /\ Tail(todo) \in Seq(Tasks) /\ DOMAIN Tail(todo) = 1 .. Len(todo) - 1
      /\ \A i \in DOMAIN Tail(todo) : Tail(todo)[i] = todo[i + 1] /\ i + 1 \in DOMAIN todo
                                      /\ i + 1 # 1
      /\ Head(todo) = todo[1] /\ 1 \in DOMAIN todo
    BY SMTT(30), HeadTailProperties
<1>2. TodoIsNew'
    <2>1. \A i, j \in DOMAIN todo' : todo'[i] = todo'[j] => i = j
        BY <1>1 DEF TodoIsNew
    <2>2. ASSUME NEW i \in DOMAIN todo' PROVE todo'[i] \notin reloadable'
        <3>1. todo'[i] = todo[i + 1] /\ todo[i + 1] # todo[1] /\ todo[i + 1] \notin reloadable
            BY <1>1 DEF TodoIsNew
        <3> QED
            BY <1>1, <3>1
    <2> QED
        BY <2>1, <2>2 DEF TodoIsNew
<1>3. \A d \in Clients : d # BotGo => pc'[d] = pc[d] /\ answer'[d] = answer[d]
    OBVIOUS
<1>4. pc'[BotGo] = "idle" /\ answer'[BotGo] = "none"
    BY DEF Clients
<1>5. UpdatesAreAwaited'
    <2>1. \A i \in DOMAIN updating : updating[i].client # BotGo
        BY DEF UpdatesAreAwaited
    <2>2. \A i \in DOMAIN updating :
            LET c == updating[i].client
            IN  pc'[c] = pc[c] /\ answer'[c] = answer[c] /\ cur'[c] = cur[c]
        BY <1>3, <2>1, UpdateType
    <2>3. \A c \in Clients : answer'[c] # "none" => pc'[c] = "await"
        BY <1>3, <1>4 DEF UpdatesAreAwaited
    <2>4. updating' = updating
        OBVIOUS
    <2> QED
        BY <2>2, <2>3, <2>4 DEF UpdatesAreAwaited
<1>6. OutcomeIsOpen'
    <2> SUFFICES ASSUME NEW d \in Clients, Working(d)' PROVE outcome'[cur'[d]] = "none"
        BY DEF OutcomeIsOpen
    <2>1. d # BotGo /\ Working(d) /\ cur[d] \in Props
        BY <1>3, <1>4 DEF Working
    <2> QED
        BY <2>1 DEF OutcomeIsOpen
<1>7. RemovalComesFirst'
    BY <1>3, <1>4 DEF RemovalComesFirst, Working, Removed, loopVars
<1>8. \A u : AboutToSend(u) => AboutToSend(u)'
    BY <1>3 DEF AboutToSend
<1>9. LatestIsComing'
    BY <1>8 DEF LatestIsComing, loopVars
<1>10. PlainTaskIsNew'
    <2> SUFFICES ASSUME NEW i \in DOMAIN todo', todo'[i] \in PlainTasks
                 PROVE  \A e \in entries : e.task # todo'[i]
        BY DEF PlainTaskIsNew, loopVars
    <2>1. todo'[i] = todo[i + 1] /\ i + 1 \in DOMAIN todo /\ i + 1 # 1
        BY <1>1
    <2> QED
        BY <2>1 DEF PlainTaskIsNew
<1> QED
    BY <1>2, <1>5, <1>6, <1>7, <1>9, <1>10

\* The removal is sent before the task is built again.
LEMMA RemoveKeepsRegistration ==
    ASSUME SchedulerInv, RegistrationInv, NEW c \in Clients, SendRemove(c)
    PROVE  RegistrationInv'
<1> USE DEF RegistrationInv, SchedulerInv, SchedulerTypeOK
<1>1. /\ pc[c] = "remove" /\ pc' = [pc EXCEPT ![c] = "build"]
      /\ UNCHANGED <<updating, answer, cur, todo, reloadable, version, outcome, loopVars>>
    BY DEF SendRemove, Goto
<1>2. cur[c] \in Tasks
    BY <1>1, HeadTailProperties DEF AtWork, Clients, Tasks
<1>3. removing = <<>> /\ DOMAIN removing' = {1} /\ removing'[1] = cur[c]
    BY <1>2, ChanSend DEF SendRemove
<1>4. \A t : Removed(t) => Removed(t)'
    BY <1>1, <1>3 DEF Removed, loopVars
<1>5. Removed(cur[c])'
    BY <1>1, <1>3 DEF Removed
<1>6. \A d \in Clients : d # c => pc'[d] = pc[d]
    BY <1>1
<1>7. answer[c] = "none" /\ \A i \in DOMAIN updating : updating[i].client # c
    BY <1>1 DEF UpdatesAreAwaited
<1>8. TodoIsNew' /\ OutcomeIsOpen'
    BY <1>1, <1>6 DEF TodoIsNew, OutcomeIsOpen, Working
<1>9. UpdatesAreAwaited'
    BY <1>1, <1>6, <1>7, UpdateType DEF UpdatesAreAwaited
<1>10. RemovalComesFirst'
    BY <1>1, <1>4, <1>5, <1>6, <1>7 DEF RemovalComesFirst, Working
<1>11. \A u : AboutToSend(u) => AboutToSend(u)'
    BY <1>1, <1>6 DEF AboutToSend
<1>12. LatestIsComing'
    BY <1>1, <1>11 DEF LatestIsComing, loopVars
<1>13. PlainTaskIsNew'
    BY <1>1, <1>6 DEF PlainTaskIsNew, loopVars
<1> QED
    BY <1>8, <1>9, <1>10, <1>12, <1>13

\* A new version is built, and its client goes on to send it.
LEMMA BuildKeepsRegistration ==
    ASSUME SchedulerInv, RegistrationInv, NEW c \in Clients, BuildSucceeds(c)
    PROVE  RegistrationInv'
<1> USE DEF RegistrationInv, SchedulerInv, SchedulerTypeOK
<1>1. /\ pc[c] = "build" /\ pc' = [pc EXCEPT ![c] = "send"]
      /\ version' = [version EXCEPT ![cur[c]] = @ + 1]
      /\ UNCHANGED <<removing, updating, answer, cur, todo, reloadable, outcome, loopVars>>
    BY DEF BuildSucceeds, Goto
<1>2. \A d \in Clients : d # c => pc'[d] = pc[d]
    BY <1>1
<1>3. answer[c] = "none" /\ \A i \in DOMAIN updating : updating[i].client # c
    BY <1>1 DEF UpdatesAreAwaited
<1>4. TodoIsNew' /\ OutcomeIsOpen'
    BY <1>1, <1>2 DEF TodoIsNew, OutcomeIsOpen, Working
<1>5. UpdatesAreAwaited'
    BY <1>1, <1>2, <1>3, UpdateType DEF UpdatesAreAwaited
<1>6. RemovalComesFirst'
    BY <1>1, <1>2, <1>3 DEF RemovalComesFirst, Working, Removed, loopVars
<1>7. LatestIsComing'
    <2>1. \A u \in Tasks : AboutToSend(u) => AboutToSend(u)'
        BY <1>1, <1>2 DEF AboutToSend
    <2>2. \A u \in Tasks : version'[u] = version[u] \/ AboutToSend(u)'
        BY <1>1 DEF AboutToSend
    <2>3. \A e \in entries : e.task \in Tasks
        BY DEF Entry
    <2> QED
        BY <1>1, <2>1, <2>2, <2>3, UpdateType DEF LatestIsComing, loopVars
<1>8. PlainTaskIsNew'
    BY <1>1, <1>2 DEF PlainTaskIsNew, loopVars
<1> QED
    BY <1>4, <1>5, <1>6, <1>7, <1>8


\* A registration from props ends: what fails is not scheduled any more.
LEMMA FinishKeepsRegistration ==
    ASSUME SchedulerInv, RegistrationInv, NEW c \in Clients,
           BuildFails(c) \/ UpdateReturns(c), cur[c] \in Props
    PROVE  RegistrationInv'
<1> USE DEF RegistrationInv, SchedulerInv, SchedulerTypeOK
<1>1. PICK result \in {"ok", "failed"} :
        /\ Finish(c, result)
        /\ result = "failed" => pc[c] = "build" \/ answer[c] = "error"
    BY DEF BuildFails, UpdateReturns
<1>2. /\ pc[c] \in {"build", "await"}
      /\ pc' = [pc EXCEPT ![c] = IF c = BotGo THEN "watch" ELSE "idle"]
      /\ outcome' = [outcome EXCEPT ![cur[c]] = result]
      /\ UNCHANGED <<removing, updating, todo, cur, reloadable, version, loopVars>>
    BY <1>1 DEF Finish, BuildFails, UpdateReturns
<1>3. /\ answer' = [answer EXCEPT ![c] = "none"]
      /\ pc[c] = "await" => answer[c] # "none"
    <2>1. CASE BuildFails(c)
        BY <2>1 DEF BuildFails, UpdatesAreAwaited
    <2>2. CASE UpdateReturns(c)
        BY <2>2 DEF UpdateReturns
    <2> QED
        BY <2>1, <2>2
<1>4. \A d \in Clients : d # c => pc'[d] = pc[d] /\ answer'[d] = answer[d]
    BY <1>2, <1>3
<1>5. pc'[c] \in {"idle", "watch"} /\ answer'[c] = "none"
    BY <1>2, <1>3
<1>6. \A d \in Clients : d # c /\ pc[d] # "idle" => cur[d] # cur[c]
    BY <1>2, OneClientPerTask
<1>7. TodoIsNew'
    BY <1>2 DEF TodoIsNew
<1>8. UpdatesAreAwaited'
    <2>1. \A i \in DOMAIN updating : updating[i].client # c
        BY <1>2, <1>3 DEF UpdatesAreAwaited
    <2> QED
        BY <1>2, <1>4, <1>5, <2>1, UpdateType DEF UpdatesAreAwaited
<1>9. OutcomeIsOpen'
    <2> SUFFICES ASSUME NEW d \in Clients, Working(d)' PROVE outcome'[cur'[d]] = "none"
        BY DEF OutcomeIsOpen
    <2>1. d # c /\ Working(d)
        BY <1>2, <1>4, <1>5 DEF Working
    <2> QED
        BY <1>2, <1>6, <2>1 DEF OutcomeIsOpen, Working
<1>10. RemovalComesFirst'
    <2>1. \A t : Removed(t)' <=> Removed(t)
        BY <1>2 DEF Removed, loopVars
    <2>2. result = "failed" => Removed(cur[c])
        BY <1>1, <1>2 DEF RemovalComesFirst, Working
    <2>3. ASSUME NEW d \in Clients, Working(d)'
          PROVE  /\ pc'[d] \in {"build", "send"} => Removed(cur[d])'
                 /\ answer'[d] = "error" => Removed(cur[d])'
        BY <1>2, <1>4, <1>5, <2>1, <2>3 DEF RemovalComesFirst, Working
    <2>4. \A t \in Props : outcome'[t] = "failed" => Removed(t)'
        BY <1>2, <2>1, <2>2 DEF RemovalComesFirst, Tasks
    <2> QED
        BY <2>3, <2>4 DEF RemovalComesFirst
<1>11. LatestIsComing'
    <2>1. \A u : AboutToSend(u) => AboutToSend(u)'
        BY <1>2, <1>4 DEF AboutToSend
    <2> QED
        BY <1>2, <2>1 DEF LatestIsComing, loopVars
<1>12. PlainTaskIsNew'
    <2> SUFFICES ASSUME NEW i \in DOMAIN todo, todo[i] \in PlainTasks
                 PROVE  \/ \A e \in entries : e.task # todo[i]
                        \/ i = 1 /\ pc'[BotGo] = "await" /\ answer'[BotGo] # "none"
        BY <1>2 DEF PlainTaskIsNew, loopVars
    <2>1. CASE c = BotGo
        <3>1. todo # <<>> /\ cur[c] = todo[1]
            BY <1>2, <2>1 DEF AtWork
        <3>2. i # 1
            BY <3>1, SchedulerAssumption
        <3> QED
            BY <3>2 DEF PlainTaskIsNew
    <2>2. CASE c # BotGo
        BY <1>4, <2>2 DEF PlainTaskIsNew, Clients
    <2> QED
        BY <2>1, <2>2
<1> QED
    BY <1>7, <1>8, <1>9, <1>10, <1>11, <1>12

\* The update that is sent is that of the latest build.
LEMMA UpdateKeepsRegistration ==
    ASSUME SchedulerInv, RegistrationInv, NEW c \in Clients, NEW sched \in Scheds,
           SendUpdate(c, sched)
    PROVE  RegistrationInv'
<1> USE DEF RegistrationInv, SchedulerInv, SchedulerTypeOK
<1> DEFINE u == [client |-> c, task |-> cur[c], ver |-> version[cur[c]], sched |-> sched]
<1>1. /\ pc[c] = "send" /\ pc' = [pc EXCEPT ![c] = "await"]
      /\ sched = "empty" => cur[c] \in PlainTasks
      /\ UNCHANGED <<removing, answer, cur, todo, reloadable, version, outcome, loopVars>>
    BY DEF SendUpdate, Goto
<1>2. cur[c] \in Tasks
    BY <1>1, HeadTailProperties DEF AtWork, Clients, Tasks
<1>3. updating = <<>> /\ DOMAIN updating' = {1} /\ updating'[1] = u
    <2>1. u \in Update
        BY <1>2 DEF Update
    <2> QED
        BY <2>1, ChanSend DEF SendUpdate
<1>4. \A d \in Clients : d # c => pc'[d] = pc[d]
    BY <1>1
<1>5. answer[c] = "none"
    BY <1>1 DEF UpdatesAreAwaited
<1>6. TodoIsNew' /\ OutcomeIsOpen'
    BY <1>1, <1>4 DEF TodoIsNew, OutcomeIsOpen, Working
<1>7. UpdatesAreAwaited'
    BY <1>1, <1>3, <1>4, <1>5 DEF UpdatesAreAwaited
<1>8. RemovalComesFirst'
    BY <1>1, <1>4, <1>5 DEF RemovalComesFirst, Working, Removed, loopVars
<1>9. LatestIsComing'
    <2>1. \A t : AboutToSend(t) => AboutToSend(t)' \/ t = cur[c]
        BY <1>1, <1>4 DEF AboutToSend
    <2>2. \A e \in entries : \/ e.ver = version[e.task] \/ AboutToSend(e.task)
        BY <1>3 DEF LatestIsComing
    <2> QED
        BY <1>1, <1>3, <2>1, <2>2 DEF LatestIsComing, loopVars
<1>10. PlainTaskIsNew'
    BY <1>1, <1>4 DEF PlainTaskIsNew, loopVars
<1> QED
    BY <1>6, <1>7, <1>8, <1>9, <1>10

\* receiveEvent removes a task.
LEMMA ReceiveRemoveKeepsRegistration ==
    ASSUME SchedulerInv, RegistrationInv, ReceiveRemove
    PROVE  RegistrationInv'
<1> USE DEF RegistrationInv, SchedulerInv, SchedulerTypeOK
<1> DEFINE t == Head(removing)
<1>1. t \in Tasks /\ t = removing[1] /\ DOMAIN removing = {1} /\ removing' = <<>>
    BY ChanReceive DEF ReceiveRemove
<1>2. /\ schedule' = [schedule EXCEPT ![t] = NoEntry] /\ entries' = Without(t)
      /\ UNCHANGED <<updating, answer, pc, cur, todo, reloadable, version, outcome>>
    BY DEF ReceiveRemove, clientVars
<1>3. \A u \in Tasks : Removed(u) => Removed(u)'
    BY <1>1, <1>2 DEF Removed
<1>4. entries' \subseteq entries
    BY <1>2 DEF Without
<1>5. TodoIsNew' /\ OutcomeIsOpen' /\ UpdatesAreAwaited'
    BY <1>2 DEF TodoIsNew, OutcomeIsOpen, UpdatesAreAwaited, Working
<1>6. RemovalComesFirst'
    BY <1>2, <1>3 DEF RemovalComesFirst, Working, Tasks
<1>7. LatestIsComing'
    BY <1>2, <1>4 DEF LatestIsComing, AboutToSend
<1>8. PlainTaskIsNew'
    BY <1>2, <1>4 DEF PlainTaskIsNew
<1> QED
    BY <1>5, <1>6, <1>7, <1>8

\* receiveEvent schedules a task, or refuses to, and answers its client.
LEMMA ReceiveUpdateKeepsRegistration ==
    ASSUME SchedulerInv, RegistrationInv, ReceiveUpdate
    PROVE  RegistrationInv'
<1> USE DEF RegistrationInv, SchedulerInv, SchedulerTypeOK
<1> DEFINE add == Head(updating)  c == add.client  t == add.task
<1>1. add = updating[1] /\ DOMAIN updating = {1} /\ updating' = <<>>
    BY ChanReceive DEF ReceiveUpdate
<1>2. c \in Clients /\ t \in Tasks /\ add.ver \in Nat /\ add.sched \in Scheds
    BY <1>1, UpdateType
<1>3. /\ pc[c] = "await" /\ answer[c] = "none" /\ cur[c] = t
      /\ add.sched = "empty" => t \in PlainTasks
    BY <1>1 DEF UpdatesAreAwaited
<1>4. UNCHANGED <<removing, pc, cur, todo, reloadable, version, outcome>>
    BY DEF ReceiveUpdate, clientVars
<1>5. answer' = [answer EXCEPT ![c] = IF add.sched = "good" THEN "ok" ELSE "error"]
    BY <1>2 DEF ReceiveUpdate, Scheds
<1>6. \A d \in Clients : d # c => answer'[d] = answer[d]
    BY <1>5
<1>7. answer'[c] # "none" /\ (answer'[c] = "error" <=> add.sched # "good")
    BY <1>2, <1>5
<1>8. \A d \in Clients : d # c /\ pc[d] # "idle" => cur[d] # t
    BY <1>2, <1>3, OneClientPerTask
\* A plain task is registered by the bot's goroutine, and only there.
<1>9. t \in PlainTasks => c = BotGo
    BY <1>2, <1>3, SchedulerAssumption DEF AtWork, Clients
<1>10. c = BotGo => todo # <<>> /\ t = todo[1] /\ 1 \in DOMAIN todo
    BY <1>3 DEF AtWork
<1>11. add.sched = "empty" => \A e \in entries : e.task # t
    BY <1>3, <1>9, <1>10 DEF PlainTaskIsNew
<1>12. \A e \in Without(t) : e \in entries /\ e.task # t
    BY DEF Without, CronHoldsTheSchedule
<1>13. /\ \A u \in Tasks : u # t => schedule'[u] = schedule[u]
       /\ add.sched = "bad" => schedule'[t] = NoEntry
       /\ \A e \in entries' : \/ e \in entries /\ e.task # t
                              \/ e.task = t /\ e.ver = add.ver
    <2>1. CASE add.sched = "empty"
        BY <1>11, <2>1 DEF ReceiveUpdate
    <2>2. CASE add.sched = "bad"
        BY <1>2, <1>12, <2>2 DEF ReceiveUpdate
    <2>3. CASE add.sched = "good"
        BY <1>2, <1>12, <2>3 DEF ReceiveUpdate
    <2> QED
        BY <1>2, <2>1, <2>2, <2>3 DEF Scheds
<1>14. TodoIsNew' /\ OutcomeIsOpen'
    BY <1>4 DEF TodoIsNew, OutcomeIsOpen, Working
<1>15. UpdatesAreAwaited'
    BY <1>1, <1>3, <1>4, <1>6 DEF UpdatesAreAwaited
<1>16. RemovalComesFirst'
    <2>1. \A u \in Tasks : u # t => (Removed(u)' <=> Removed(u))
        BY <1>4, <1>13 DEF Removed
    <2>2. ASSUME NEW d \in Clients, Working(d)'
          PROVE  /\ pc'[d] \in {"build", "send"} => Removed(cur[d])'
                 /\ answer'[d] = "error" => Removed(cur[d])'
        <3>1. Working(d) /\ cur[d] \in Tasks /\ pc[d] # "idle" /\ cur[d] \in Props
            BY <1>4, <2>2 DEF Working, Tasks
        <3>2. CASE d = c
            <4>1. add.sched # "empty"
                BY <1>3, <3>1, <3>2, SchedulerAssumption
            <4>2. add.sched = "bad" => Removed(cur[d])'
                <5>1. cur'[d] = t
                    BY <1>3, <1>4, <3>2
                <5> QED
                    BY <1>13, <5>1 DEF Removed
            <4> QED
                BY <1>2, <1>3, <1>4, <1>7, <3>2, <4>1, <4>2 DEF Scheds
        <3>3. CASE d # c
            <4>1. cur[d] # t
                BY <1>8, <3>1, <3>3
            <4> QED
                BY <1>4, <1>6, <2>1, <3>1, <3>3, <4>1 DEF RemovalComesFirst
        <3> QED
            BY <3>2, <3>3
    <2>3. ASSUME NEW u \in Props, outcome'[u] = "failed" PROVE Removed(u)'
        <3>1. cur[c] \in Props => outcome[cur[c]] = "none"
            BY <1>2, <1>3 DEF OutcomeIsOpen, Working
        <3>2. u # t
            BY <1>3, <1>4, <2>3, <3>1
        <3> QED
            BY <1>4, <2>1, <2>3, <3>2 DEF RemovalComesFirst, Tasks
    <2> QED
        BY <2>2, <2>3 DEF RemovalComesFirst
<1>17. LatestIsComing'
    <2>1. \A u : AboutToSend(u)' <=> AboutToSend(u)
        BY <1>4 DEF AboutToSend
    <2>2. add.ver = version[t] \/ AboutToSend(t)
        BY <1>1 DEF LatestIsComing
    <2>3. ASSUME NEW e \in entries'
          PROVE  e.ver = version[e.task] \/ AboutToSend(e.task)
        <3>1. CASE e \in entries /\ e.task # t
            BY <1>1, <3>1 DEF LatestIsComing
        <3>2. CASE e.task = t /\ e.ver = add.ver
            BY <2>2, <3>2
        <3> QED
            BY <1>13, <3>1, <3>2
    <2> QED
        BY <1>1, <1>4, <2>1, <2>3 DEF LatestIsComing
<1>18. PlainTaskIsNew'
    <2> SUFFICES ASSUME NEW i \in DOMAIN todo, todo[i] \in PlainTasks
                 PROVE  \/ \A e \in entries' : e.task # todo[i]
                        \/ i = 1 /\ pc[BotGo] = "await" /\ answer'[BotGo] # "none"
        BY <1>4 DEF PlainTaskIsNew
    <2>1. CASE todo[i] = t
        BY <1>3, <1>7, <1>9, <1>10, <2>1 DEF TodoIsNew
    <2>2. CASE todo[i] # t
        <3>1. \/ \A e \in entries : e.task # todo[i]
              \/ i = 1 /\ pc[BotGo] = "await" /\ answer[BotGo] # "none"
            BY DEF PlainTaskIsNew
        <3>2. answer[BotGo] # "none" => answer'[BotGo] # "none"
            BY <1>3, <1>6 DEF Clients
        <3> QED
            BY <1>13, <2>2, <3>1, <3>2
    <2> QED
        BY <2>1, <2>2
<1> QED
    BY <1>14, <1>15, <1>16, <1>17, <1>18

LEMMA RegistrationStep ==
    SchedulerInv /\ RegistrationInv /\ [SchedulerNext]_schedulerVars => RegistrationInv'
<1> SUFFICES ASSUME SchedulerInv, RegistrationInv, [SchedulerNext]_schedulerVars
             PROVE  RegistrationInv'
    OBVIOUS
<1>1. ASSUME CancelScheduler \/ ReceiveDone \/ (\E e \in entries : Fire(e))
             \/ UNCHANGED schedulerVars
      PROVE  RegistrationInv'
    <2>1. UNCHANGED <<removing, updating, answer, pc, cur, todo, reloadable, version,
                      outcome, schedule, entries>>
        BY <1>1 DEF CancelScheduler, ReceiveDone, Fire, schedulerVars, schedulerState,
                    clientVars, loopVars
    <2>2. /\ TodoIsNew' /\ UpdatesAreAwaited' /\ OutcomeIsOpen'
          /\ RemovalComesFirst'
        BY <2>1 DEF RegistrationInv, TodoIsNew, UpdatesAreAwaited, OutcomeIsOpen,
                    RemovalComesFirst, Working, Removed
    <2>3. LatestIsComing' /\ PlainTaskIsNew'
        BY <2>1 DEF RegistrationInv, LatestIsComing, PlainTaskIsNew, AboutToSend
    <2> QED
        BY <2>2, <2>3 DEF RegistrationInv
<1>2. ASSUME RegisterTask(TRUE) PROVE RegistrationInv'
    <2>1. answer' = [answer EXCEPT ![BotGo] = "none"] /\ pc' = [pc EXCEPT ![BotGo] = "idle"]
        BY <1>2 DEF RegisterTask, RegistrationInv, UpdatesAreAwaited, SchedulerInv,
                    SchedulerTypeOK, Clients
    <2> QED
        BY <1>2, <2>1, NextKeepsRegistration DEF RegisterTask
<1>3. ASSUME NEW ok \in BOOLEAN, WatchTask(ok) PROVE RegistrationInv'
    <2>1. answer' = [answer EXCEPT ![BotGo] = "none"]
        BY <1>3 DEF WatchTask, Goto, RegistrationInv, UpdatesAreAwaited, SchedulerInv,
                    SchedulerTypeOK, Clients
    <2>2. todo # <<>> /\ cur[BotGo] = Head(todo)
        BY <1>3 DEF WatchTask, Goto, SchedulerInv, AtWork
    <2> QED
        BY <1>3, <2>1, <2>2, NextKeepsRegistration DEF WatchTask, Goto
<1>4. ASSUME NEW c \in Clients, BuildFails(c) \/ UpdateReturns(c), cur[c] \notin Props
      PROVE  RegistrationInv'
    <2>1. c = BotGo /\ UpdateReturns(c) /\ todo # <<>> /\ cur[c] = Head(todo)
        BY <1>4 DEF BuildFails, UpdateReturns, SchedulerInv, SchedulerTypeOK, AtWork,
                    Clients, BotGo, WatcherGo
    <2>2. PICK result \in {"ok", "failed"} : Finish(c, result)
        BY <2>1 DEF UpdateReturns
    <2>3. /\ todo' = Tail(todo) /\ cur' = cur /\ reloadable' = reloadable
          /\ pc[BotGo] = "await" /\ answer[BotGo] # "none"
          /\ pc' = [pc EXCEPT ![BotGo] = "idle"]
          /\ answer' = [answer EXCEPT ![BotGo] = "none"]
          /\ UNCHANGED <<removing, updating, version, loopVars>>
        BY <1>4, <2>1, <2>2 DEF UpdateReturns, Finish
    <2>4. \A t \in Props : outcome'[t] = outcome[t]
        BY <1>4, <2>2 DEF Finish, SchedulerInv, SchedulerTypeOK, Tasks
    <2> QED
        BY <2>1, <2>3, <2>4, NextKeepsRegistration
<1>5. CASE RegisterSteps
    BY <1>2, <1>3, <1>5, BeginKeepsRegistration DEF RegisterSteps
<1>6. ASSUME NEW c \in Clients, ClientSteps(c) PROVE RegistrationInv'
    BY <1>4, <1>6, RemoveKeepsRegistration, BuildKeepsRegistration,
       FinishKeepsRegistration, UpdateKeepsRegistration DEF ClientSteps
<1> QED
    BY <1>1, <1>5, <1>6, BeginKeepsRegistration, ReceiveRemoveKeepsRegistration,
       ReceiveUpdateKeepsRegistration DEF SchedulerNext, ReceiveSteps

-----------------------------------------------------------------------------
(***************************************************************************)
(* What the two invariants say about the code                              *)
(***************************************************************************)

\* Type correctness, for every order of registration: the channels of scheduler.go
\* never hold more than one event and every event has a task and a client.
THEOREM SchedulerTypeCorrect == SchedulerSpec => []SchedulerTypeOK
BY SchedulerInvariant, PTL DEF SchedulerInv

\* The map of receiveEvent and the entries of cron agree, whatever the two
\* goroutines send and in whatever order the select takes it.
THEOREM CronFollowsTheMap == SchedulerSpec => []CronHoldsTheSchedule
BY SchedulerInvariant, PTL DEF SchedulerInv

\* The second invariant, for bots whose tasks have distinct identifiers.
THEOREM RegistrationInvariant ==
    ASSUME TasksAreDistinct PROVE SchedulerSpec => []RegistrationInv
<1>1. SchedulerInit => RegistrationInv
    BY RegistrationInit
<1> QED
    BY <1>1, SchedulerInvariant, RegistrationStep, PTL DEF SchedulerSpec

\* A task whose last registration failed is not scheduled once the events about it
\* are through: the removal that reg sends before it builds the task cannot be
\* overtaken by anything that schedules the task again.
THEOREM FailedRegistrationUnschedules ==
    ASSUME TasksAreDistinct PROVE SchedulerSpec => []FailedTaskIsRemoved
<1>1. RegistrationInv => FailedTaskIsRemoved
    BY DEF RegistrationInv, RemovalComesFirst, Removed, FailedTaskIsRemoved, Quiet
<1> QED
    BY <1>1, RegistrationInvariant, PTL

\* What cron holds for a task that nobody is at work on is the latest build of it.
THEOREM CronRunsTheLatestBuild ==
    ASSUME TasksAreDistinct PROVE SchedulerSpec => []ScheduledTaskIsCurrent
<1>1. RegistrationInv => ScheduledTaskIsCurrent
    BY DEF RegistrationInv, LatestIsComing, AboutToSend, ScheduledTaskIsCurrent, Quiet
<1> QED
    BY <1>1, RegistrationInvariant, PTL

-----------------------------------------------------------------------------
(***************************************************************************)
(* What Among leaves of a sequence                                         *)
(***************************************************************************)
Places(s, T) == {i \in DOMAIN s : s[i] \in T}

\* The k-th of the places.
Place(s, T, k) == CHOOSE i \in Places(s, T) : Cardinality({j \in Places(s, T) : j <= i}) = k

LEMMA AmongIs ==
    ASSUME NEW s, NEW T
    PROVE  Among(s, T) = [k \in 1 .. Cardinality(Places(s, T)) |-> s[Place(s, T, k)]]
BY DEF Among, Places, Place

LEMMA AmongNone ==
    ASSUME NEW s, NEW T, Places(s, T) = {}
    PROVE  Among(s, T) = <<>>
<1>1. 1 .. Cardinality(Places(s, T)) = {}
    BY FS_EmptySet
<1>2. Among(s, T) = [k \in {} |-> s[Place(s, T, k)]]
    BY <1>1, AmongIs
<1> QED
    BY <1>2

LEMMA AmongSome ==
    ASSUME NEW S, NEW s \in Seq(S), NEW T, Places(s, T) # {}
    PROVE  Among(s, T) # <<>>
<1>1. IsFiniteSet(Places(s, T))
    <2>1. IsFiniteSet(1 .. Len(s)) /\ Places(s, T) \subseteq 1 .. Len(s)
        BY FS_Interval DEF Places
    <2> QED
        BY <2>1, FS_Subset
<1>2. Cardinality(Places(s, T)) \in Nat \ {0}
    BY <1>1, FS_EmptySet, FS_CardinalityType
<1>3. DOMAIN Among(s, T) = 1 .. Cardinality(Places(s, T))
    BY AmongIs
<1>4. 1 \in DOMAIN Among(s, T)
    BY <1>2, <1>3
<1> QED
    BY <1>4

LEMMA AmongOne ==
    ASSUME NEW S, NEW s \in Seq(S), NEW T, NEW i, Places(s, T) = {i}
    PROVE  Among(s, T) = <<s[i]>>
<1>1. i \in Nat
    BY DEF Places
<1>2. {j \in Places(s, T) : j <= i} = {i}
    BY <1>1
<1>3. Cardinality({i}) = 1
    BY FS_Singleton
<1>4. Place(s, T, 1) = i
    BY <1>2, <1>3 DEF Place
<1>5. 1 .. Cardinality(Places(s, T)) = {1}
    BY <1>3
<1>6. Among(s, T) = [k \in {1} |-> s[Place(s, T, k)]]
    BY <1>5, AmongIs
<1>7. Among(s, T) = [k \in {1} |-> s[i]]
    BY <1>4, <1>6
<1> QED
    BY <1>7

LEMMA AmongAll ==
    ASSUME NEW S, NEW s \in Seq(S), NEW T, \A i \in 1 .. Len(s) : s[i] \in T
    PROVE  Among(s, T) = s
<1>1. Places(s, T) = 1 .. Len(s) /\ Len(s) \in Nat
    BY DEF Places
<1>2. \A n \in Nat : Cardinality(1 .. n) = n
    <2> TAKE n \in Nat
    <2>1. Cardinality(1 .. n) = IF 1 > n THEN 0 ELSE n - 1 + 1
        BY FS_Interval
    <2> QED
        BY <2>1
<1>3. \A i \in 1 .. Len(s) : Cardinality({j \in 1 .. Len(s) : j <= i}) = i
    <2> TAKE i \in 1 .. Len(s)
    <2>1. {j \in 1 .. Len(s) : j <= i} = 1 .. i /\ i \in Nat
        BY <1>1
    <2> QED
        BY <1>2, <2>1
<1>4. \A k \in 1 .. Len(s) : Place(s, T, k) = k
    <2> TAKE k \in 1 .. Len(s)
    <2>1. \A h \in 1 .. Len(s) : Cardinality({j \in 1 .. Len(s) : j <= h}) = k <=> h = k
        BY <1>3
    <2> QED
        BY <1>1, <2>1 DEF Place
<1>5. Among(s, T) = [k \in 1 .. Len(s) |-> s[Place(s, T, k)]]
    BY <1>1, <1>2, AmongIs
<1>6. Among(s, T) = [k \in 1 .. Len(s) |-> s[k]]
    BY <1>4, <1>5
<1> QED
    BY <1>6

-----------------------------------------------------------------------------
(***************************************************************************)
(* The invariants                                                          *)
(***************************************************************************)

\* Progress through the plugins: a bot that is about to call Watch has a plugin.
NextIsPlugin ==
    \A b \in Bots : /\ next[b] >= 1
                    /\ botPc[b] = "watch" => next[b] <= Len(PluginsOf[b])

\* The subscriptions of a directory are those of bots of one BotType.
DirectoriesAreOwn ==
    \A d \in Types : \A i \in 1 .. Len(subscriptions[d]) :
        TypeOf[subscriptions[d][i].bot] = d

\* Only Unwatch makes the watcher drop subscriptions.
LeavingIsUnwatched ==
    \A d \in leaving : \E b \in Bots : TypeOf[b] = d /\ botPc[b] = "unwatched"

\* The subscriptions of a bot that called Unwatch are dropped before anything else.
UnwatchedIsLeaving ==
    loop # "stopped" => \A d \in Types : \A i \in 1 .. Len(subscriptions[d]) :
        botPc[subscriptions[d][i].bot] = "unwatched" => d \in leaving

Subscribed(b, p) ==
    \E j \in 1 .. Len(subscriptions[TypeOf[b]]) :
        subscriptions[TypeOf[b]][j] = [bot |-> b, plugin |-> p]

\* What Watch confirmed stays subscribed until a bot of the BotType calls Unwatch.
WatchedIsSubscribed ==
    \A b \in Bots : (\A o \in Bots : TypeOf[o] = TypeOf[b] => botPc[o] # "unwatched") =>
        \A i \in 1 .. Len(PluginsOf[b]) :
            PluginsOf[b][i] \in watched => Subscribed(b, PluginsOf[b][i])

WatcherInv ==
    /\ WatcherTypeOK /\ NextIsPlugin /\ DirectoriesAreOwn /\ SubscriptionsAreSound
    /\ LeavingIsUnwatched /\ UnwatchedIsLeaving /\ NoCallbackAfterUnwatch
    /\ WatchedIsSubscribed

\* The goroutine in which a task is registered: the bot's is at that task and does
\* nothing else; the watcher's is in the callback of the task.
TasksAreRegistered ==
    /\ pc[BotGo] \notin {"idle", "watch"} /\ cur[BotGo] \in Props =>
         botPc[TaskBot] = "read" /\ AtTask(TaskBot)
    /\ pc[WatcherGo] # "idle" =>
         loop = "calling" /\ cur[WatcherGo] \in Props /\ Head(calls).plugin = cur[WatcherGo]

ReloadInv == WatcherInv /\ TasksAreRegistered

-----------------------------------------------------------------------------
(***************************************************************************)
(* The steps of the watcher and of the bots. What becomes of stale is not  *)
(* important here: the composition changes it in steps of its own.         *)
(***************************************************************************)
BotPcs == {"read", "watch", "running", "unwatch", "unwatched", "panicked"}
Stales == [Plugins -> {"no", "due", "missed"}]

LEMMA SubscriptionType ==
    ASSUME WatcherTypeOK, NEW d \in Types
    PROVE  /\ subscriptions[d] \in Seq(Subscription) /\ Len(subscriptions[d]) \in Nat
           /\ DOMAIN subscriptions[d] = 1 .. Len(subscriptions[d])
           /\ \A i \in 1 .. Len(subscriptions[d]) :
                 /\ subscriptions[d][i] \in Subscription
                 /\ subscriptions[d][i].bot \in Bots
                 /\ subscriptions[d][i].plugin \in Plugins
<1>1. subscriptions[d] \in Seq(Subscription)
    BY DEF WatcherTypeOK
<1>2. \A i \in 1 .. Len(subscriptions[d]) : subscriptions[d][i] \in Subscription
    BY <1>1, ElementOfSeq
<1> QED
    BY <1>1, <1>2 DEF Subscription

LEMMA WatcherInitInv == WatcherInit => WatcherInv
<1> SUFFICES ASSUME WatcherInit PROVE WatcherInv
    OBVIOUS
<1>1. WatcherTypeOK
    <2>1. <<>> \in Seq(Subscription) /\ <<>> \in Seq(Event) /\ 0 \in 0 .. MaxEvents
        BY FileWatcherAssumption
    <2> QED
        BY <2>1 DEF WatcherInit, WatcherTypeOK
<1>2. NextIsPlugin /\ LeavingIsUnwatched /\ NoCallbackAfterUnwatch /\ WatchedIsSubscribed
    BY DEF WatcherInit, NextIsPlugin, LeavingIsUnwatched, NoCallbackAfterUnwatch,
           WatchedIsSubscribed
<1>3. \A d \in Types : subscriptions[d] = <<>> /\ Len(subscriptions[d]) = 0
    BY DEF WatcherInit
<1>4. DirectoriesAreOwn /\ UnwatchedIsLeaving
    BY <1>3 DEF DirectoriesAreOwn, UnwatchedIsLeaving
<1>5. SubscriptionsAreSound
    BY <1>3 DEF WatcherInit, SubscriptionsAreSound
<1> QED
    BY <1>1, <1>2, <1>4, <1>5 DEF WatcherInv

\* Nothing that the watcher or a bot keeps changes.
LEMMA OutsideChanges ==
    ASSUME WatcherInv, ctxDone' \in BOOLEAN, events' \in Seq(Event),
           changes' \in 0 .. MaxEvents, stale' \in Stales,
           UNCHANGED <<loop, calls, leaving, subscriptions, fsWatched, botPc, next, watched>>
    PROVE  WatcherInv'
<1>1. WatcherTypeOK'
    BY DEF WatcherInv, WatcherTypeOK, Stales
<1>2. NextIsPlugin' /\ LeavingIsUnwatched' /\ NoCallbackAfterUnwatch'
    BY DEF WatcherInv, NextIsPlugin, LeavingIsUnwatched, NoCallbackAfterUnwatch
<1>3. DirectoriesAreOwn' /\ UnwatchedIsLeaving' /\ SubscriptionsAreSound'
    BY DEF WatcherInv, DirectoriesAreOwn, UnwatchedIsLeaving, SubscriptionsAreSound
<1>4. WatchedIsSubscribed'
    BY DEF WatcherInv, WatchedIsSubscribed, Subscribed
<1> QED
    BY <1>1, <1>2, <1>3, <1>4 DEF WatcherInv

\* The goroutine of a bot goes on by itself. It gets past Unwatch without the
\* watcher only when that has stopped.
LEMMA BotGoesOn ==
    ASSUME WatcherInv, NEW b \in Bots, NEW to \in BotPcs,
           botPc' = [botPc EXCEPT ![b] = to], botPc[b] # "unwatched",
           to = "watch" => next[b] <= Len(PluginsOf[b]),
           to = "unwatched" => loop = "stopped",
           stale' \in Stales,
           UNCHANGED <<ctxDone, loop, calls, leaving, subscriptions, fsWatched, events,
                       changes, next, watched>>
    PROVE  WatcherInv'
<1>0. WatcherTypeOK /\ botPc \in [Bots -> BotPcs]
    BY DEF WatcherInv, WatcherTypeOK, BotPcs
<1>1. /\ botPc' \in [Bots -> BotPcs] /\ botPc'[b] = to
      /\ \A o \in Bots : o # b => botPc'[o] = botPc[o]
    BY <1>0
<1>2. WatcherTypeOK'
    BY <1>0, <1>1 DEF WatcherTypeOK, Stales, BotPcs
<1>3. NextIsPlugin'
    BY <1>1 DEF WatcherInv, NextIsPlugin
<1>4. \A o \in Bots : botPc[o] = "unwatched" => botPc'[o] = "unwatched"
    BY <1>1
<1>5. LeavingIsUnwatched'
    BY <1>4 DEF WatcherInv, LeavingIsUnwatched
<1>6. \A o \in Bots : loop # "stopped" /\ botPc'[o] = "unwatched" => botPc[o] = "unwatched"
    BY <1>1
<1>7. UnwatchedIsLeaving'
    <2>1. \A d \in Types : \A i \in 1 .. Len(subscriptions[d]) :
             subscriptions[d][i].bot \in Bots
        BY <1>0, SubscriptionType
    <2> QED
        BY <1>6, <2>1 DEF WatcherInv, UnwatchedIsLeaving
<1>8. NoCallbackAfterUnwatch'
    <2>1. loop = "stopped" => DOMAIN calls = {}
        BY <1>0 DEF WatcherTypeOK
    <2> QED
        BY <1>6, <2>1 DEF WatcherInv, NoCallbackAfterUnwatch
<1>9. DirectoriesAreOwn' /\ SubscriptionsAreSound'
    BY DEF WatcherInv, DirectoriesAreOwn, SubscriptionsAreSound
<1>10. WatchedIsSubscribed'
    BY <1>4 DEF WatcherInv, WatchedIsSubscribed, Subscribed
<1> QED
    BY <1>2, <1>3, <1>5, <1>7, <1>8, <1>9, <1>10 DEF WatcherInv

\* A callback returns.
LEMMA CallbackReturns ==
    ASSUME WatcherInv, loop = "calling", calls' = Tail(calls),
           loop' = IF calls' = <<>> THEN "select" ELSE "calling", stale' \in Stales,
           UNCHANGED <<ctxDone, leaving, subscriptions, fsWatched, events, changes, botPc,
                       next, watched>>
    PROVE  WatcherInv'
<1>0. WatcherTypeOK
    BY DEF WatcherInv
<1>1. calls \in Seq(Subscription) /\ calls # <<>> /\ leaving = {}
    BY <1>0 DEF WatcherTypeOK
<1>2. /\ calls' \in Seq(Subscription)
      /\ \A i \in 1 .. Len(calls') : i + 1 \in 1 .. Len(calls) /\ calls'[i] = calls[i + 1]
    BY <1>1, HeadTailProperties
<1>3. WatcherTypeOK'
    BY <1>0, <1>1, <1>2 DEF WatcherTypeOK, Stales
<1>4. NoCallbackAfterUnwatch'
    BY <1>1, <1>2 DEF WatcherInv, NoCallbackAfterUnwatch
<1>5. NextIsPlugin' /\ LeavingIsUnwatched' /\ DirectoriesAreOwn'
    BY DEF WatcherInv, NextIsPlugin, LeavingIsUnwatched, DirectoriesAreOwn
<1>6. UnwatchedIsLeaving' /\ SubscriptionsAreSound' /\ WatchedIsSubscribed'
    BY DEF WatcherInv, UnwatchedIsLeaving, SubscriptionsAreSound, WatchedIsSubscribed,
           Subscribed
<1> QED
    BY <1>3, <1>4, <1>5, <1>6 DEF WatcherInv

LEMMA WatcherEnds ==
    ASSUME WatcherInv, ContextDone
    PROVE  WatcherInv'
<1>0. /\ loop = "select" /\ loop' = "stopped" /\ fsWatched' = {}
      /\ UNCHANGED <<ctxDone, calls, leaving, subscriptions, events, changes, botPc, next,
                     watched, stale>>
    BY DEF ContextDone
<1>1. WatcherTypeOK'
    BY <1>0 DEF WatcherInv, WatcherTypeOK
<1>2. NextIsPlugin' /\ LeavingIsUnwatched' /\ DirectoriesAreOwn' /\ NoCallbackAfterUnwatch'
    BY <1>0 DEF WatcherInv, NextIsPlugin, LeavingIsUnwatched, DirectoriesAreOwn,
                NoCallbackAfterUnwatch
<1>3. UnwatchedIsLeaving' /\ SubscriptionsAreSound' /\ WatchedIsSubscribed'
    BY <1>0 DEF WatcherInv, UnwatchedIsLeaving, SubscriptionsAreSound, WatchedIsSubscribed,
                Subscribed
<1> QED
    BY <1>1, <1>2, <1>3 DEF WatcherInv

\* At most one subscription of a directory is for an identifier.
LEMMA SubscriberOfFile ==
    ASSUME WatcherTypeOK, SubscriptionsAreSound, NEW d \in Types, NEW id
    PROVE  \/ /\ SubscriptionsTo(d, id) = <<>>
              /\ \A i \in 1 .. Len(subscriptions[d]) : IdOf[subscriptions[d][i].plugin] # id
           \/ \E i \in 1 .. Len(subscriptions[d]) :
                 /\ SubscriptionsTo(d, id) = <<subscriptions[d][i]>>
                 /\ IdOf[subscriptions[d][i].plugin] = id
<1> DEFINE s == subscriptions[d]
           T == {x \in Subscription : IdOf[x.plugin] = id}
<1>1. /\ s \in Seq(Subscription) /\ DOMAIN s = 1 .. Len(s)
      /\ \A i \in 1 .. Len(s) : s[i] \in Subscription
    BY SubscriptionType
<1>2. SubscriptionsTo(d, id) = Among(s, T)
    BY DEF SubscriptionsTo
<1>3. \A i \in 1 .. Len(s) : i \in Places(s, T) <=> IdOf[s[i].plugin] = id
    BY <1>1 DEF Places
<1>4. \A i, j \in 1 .. Len(s) : IdOf[s[i].plugin] = IdOf[s[j].plugin] => i = j
    BY <1>1 DEF SubscriptionsAreSound
<1>5. Places(s, T) \subseteq 1 .. Len(s)
    BY <1>1 DEF Places
<1> HIDE DEF s, T
<1>6. CASE Places(s, T) = {}
    <2>1. Among(s, T) = <<>>
        BY <1>6, AmongNone
    <2> QED
        BY <1>2, <1>3, <1>6, <2>1 DEF s
<1>7. CASE Places(s, T) # {}
    <2>1. PICK i \in 1 .. Len(s) : i \in Places(s, T)
        BY <1>5, <1>7
    <2>2. Places(s, T) = {i} /\ IdOf[s[i].plugin] = id
        BY <1>3, <1>4, <1>5, <2>1
    <2>3. Among(s, T) = <<s[i]>>
        BY <1>1, <2>2, AmongOne
    <2> QED
        BY <1>2, <2>1, <2>2, <2>3 DEF s
<1> QED
    BY <1>6, <1>7

LEMMA EventIsReceived ==
    ASSUME WatcherInv, ReceiveEvent
    PROVE  WatcherInv'
<1>0. /\ loop = "select" /\ events # <<>> /\ events' = Tail(events)
      /\ loop' = (IF calls' = <<>> THEN "select" ELSE "calling")
      /\ UNCHANGED <<ctxDone, leaving, subscriptions, fsWatched, changes, botPc, next,
                     watched, stale>>
    BY DEF ReceiveEvent
<1>1. WatcherTypeOK /\ SubscriptionsAreSound /\ UnwatchedIsLeaving
    BY DEF WatcherInv
<1>2. PICK e \in Event : calls' = IF e.relevant THEN SubscriptionsTo(e.dir, e.id) ELSE <<>>
    <2>1. Head(events) \in Event
        BY <1>0, <1>1 DEF WatcherTypeOK
    <2> QED
        BY <2>1 DEF ReceiveEvent
<1>3. e.dir \in Types /\ leaving = {}
    BY <1>0, <1>1 DEF Event, WatcherTypeOK
<1>4. \/ calls' = <<>>
      \/ \E i \in 1 .. Len(subscriptions[e.dir]) : calls' = <<subscriptions[e.dir][i]>>
    BY <1>1, <1>2, <1>3, SubscriberOfFile
<1>5. calls' \in Seq(Subscription) /\ \A k \in 1 .. Len(calls') :
         \E i \in 1 .. Len(subscriptions[e.dir]) : calls'[k] = subscriptions[e.dir][i]
    <2>1. CASE calls' = <<>>
        BY <2>1
    <2>2. ASSUME NEW i \in 1 .. Len(subscriptions[e.dir]),
                 calls' = <<subscriptions[e.dir][i]>>
          PROVE  /\ calls' \in Seq(Subscription)
                 /\ \A k \in 1 .. Len(calls') : calls'[k] = subscriptions[e.dir][i]
        <3>1. subscriptions[e.dir][i] \in Subscription
            BY <1>1, <1>3, SubscriptionType
        <3> QED
            BY <2>2, <3>1
    <2> QED
        BY <1>4, <2>1, <2>2
<1>6. WatcherTypeOK'
    <2>1. events' \in Seq(Event)
        BY <1>0, <1>1 DEF WatcherTypeOK
    <2> QED
        BY <1>0, <1>1, <1>3, <1>5, <2>1 DEF WatcherTypeOK
<1>7. NoCallbackAfterUnwatch'
    <2>1. \A i \in 1 .. Len(subscriptions[e.dir]) :
             botPc[subscriptions[e.dir][i].bot] # "unwatched"
        BY <1>0, <1>1, <1>3 DEF UnwatchedIsLeaving
    <2>2. DOMAIN calls' = 1 .. Len(calls')
        BY <1>5
    <2>3. \A k \in DOMAIN calls' : botPc[calls'[k].bot] # "unwatched"
        BY <1>5, <2>1, <2>2
    <2> QED
        BY <1>0, <2>3 DEF NoCallbackAfterUnwatch
<1>8. NextIsPlugin' /\ LeavingIsUnwatched' /\ DirectoriesAreOwn'
    BY <1>0 DEF WatcherInv, NextIsPlugin, LeavingIsUnwatched, DirectoriesAreOwn
<1>9. UnwatchedIsLeaving' /\ SubscriptionsAreSound' /\ WatchedIsSubscribed'
    BY <1>0 DEF WatcherInv, UnwatchedIsLeaving, SubscriptionsAreSound, WatchedIsSubscribed,
                Subscribed
<1> QED
    BY <1>6, <1>7, <1>8, <1>9 DEF WatcherInv

LEMMA UnsubscribeIsReceived ==
    ASSUME WatcherInv, NEW b \in Bots, ReceiveUnsubscribe(b)
    PROVE  WatcherInv'
<1>0. /\ loop = "select" /\ loop' = "unsubscribing" /\ leaving' = {TypeOf[b]}
      /\ botPc' = [botPc EXCEPT ![b] = "unwatched"]
      /\ UNCHANGED <<ctxDone, calls, subscriptions, fsWatched, events, changes, next,
                     watched, stale>>
    BY DEF ReceiveUnsubscribe
<1>1. WatcherTypeOK /\ botPc \in [Bots -> BotPcs] /\ calls = <<>> /\ leaving = {}
    BY <1>0 DEF WatcherInv, WatcherTypeOK, BotPcs
<1>2. /\ botPc' \in [Bots -> BotPcs] /\ botPc'[b] = "unwatched"
      /\ \A o \in Bots : o # b => botPc'[o] = botPc[o]
    BY <1>0, <1>1 DEF BotPcs
<1>3. WatcherTypeOK'
    <2>1. TypeOf[b] \in Types
        BY FileWatcherAssumption
    <2> QED
        BY <1>0, <1>1, <1>2, <2>1 DEF WatcherTypeOK, BotPcs
<1>4. NextIsPlugin' /\ LeavingIsUnwatched' /\ DirectoriesAreOwn'
    BY <1>0, <1>2 DEF WatcherInv, NextIsPlugin, LeavingIsUnwatched, DirectoriesAreOwn
<1>5. UnwatchedIsLeaving'
    <2> SUFFICES ASSUME NEW d \in Types, NEW i \in 1 .. Len(subscriptions[d]),
                        botPc'[subscriptions[d][i].bot] = "unwatched"
                 PROVE  d = TypeOf[b]
        BY <1>0 DEF UnwatchedIsLeaving
    <2>1. subscriptions[d][i].bot \in Bots
        BY <1>1, SubscriptionType
    <2>2. subscriptions[d][i].bot = b
        BY <1>0, <1>1, <1>2, <2>1 DEF WatcherInv, UnwatchedIsLeaving
    <2> QED
        BY <2>2 DEF WatcherInv, DirectoriesAreOwn
<1>6. NoCallbackAfterUnwatch'
    BY <1>0, <1>1 DEF NoCallbackAfterUnwatch
<1>7. SubscriptionsAreSound'
    BY <1>0 DEF WatcherInv, SubscriptionsAreSound
<1>8. WatchedIsSubscribed'
    <2>1. \A o \in Bots : botPc[o] = "unwatched" => botPc'[o] = "unwatched"
        BY <1>2
    <2> QED
        BY <1>0, <2>1 DEF WatcherInv, WatchedIsSubscribed, Subscribed
<1> QED
    BY <1>3, <1>4, <1>5, <1>6, <1>7, <1>8 DEF WatcherInv

\* doUnsubscribe takes all the subscriptions of a directory or leaves them all.
LEMMA RemainsAllOrNothing ==
    ASSUME WatcherTypeOK, DirectoriesAreOwn, NEW d \in Types
    PROVE  Remains(d) = IF d \in leaving THEN <<>> ELSE subscriptions[d]
<1> DEFINE s == subscriptions[d]
           T == {x \in Subscription : TypeOf[x.bot] \notin leaving}
<1>1. /\ s \in Seq(Subscription) /\ DOMAIN s = 1 .. Len(s)
      /\ \A i \in 1 .. Len(s) : s[i] \in Subscription
    BY SubscriptionType
<1>2. Remains(d) = Among(s, T)
    BY DEF Remains
<1>3. \A i \in 1 .. Len(s) : s[i] \in T <=> d \notin leaving
    BY <1>1 DEF DirectoriesAreOwn
<1> HIDE DEF s, T
<1>4. CASE d \in leaving
    <2>1. Places(s, T) = {}
        BY <1>1, <1>3, <1>4 DEF Places
    <2> QED
        BY <1>2, <1>4, <2>1, AmongNone
<1>5. CASE d \notin leaving
    <2>1. Among(s, T) = s
        BY <1>1, <1>3, <1>5, AmongAll
    <2> QED
        BY <1>2, <1>5, <2>1 DEF s
<1> QED
    BY <1>4, <1>5

LEMMA UnsubscribeIsDone ==
    ASSUME WatcherInv, DoUnsubscribe
    PROVE  WatcherInv'
<1>0. /\ loop = "unsubscribing" /\ loop' = "select" /\ leaving' = {}
      /\ subscriptions' = [d \in Types |-> Remains(d)]
      /\ fsWatched' = {d \in fsWatched : Remains(d) # <<>>}
      /\ UNCHANGED <<ctxDone, calls, events, changes, botPc, next, watched, stale>>
    BY DEF DoUnsubscribe
<1>1. WatcherTypeOK /\ DirectoriesAreOwn
    BY DEF WatcherInv
<1>2. \A d \in Types :
        subscriptions'[d] = Remains(d) /\
        Remains(d) = IF d \in leaving THEN <<>> ELSE subscriptions[d]
    BY <1>0, <1>1, RemainsAllOrNothing
<1>3. ASSUME NEW d \in Types
      PROVE  \/ subscriptions'[d] = subscriptions[d]
             \/ d \in leaving /\ DOMAIN subscriptions'[d] = {} /\ 1 .. Len(subscriptions'[d]) = {}
    BY <1>2, <1>3
<1>4. WatcherTypeOK'
    <2>1. subscriptions' \in [Types -> Seq(Subscription)]
        <3>1. \A d \in Types : Remains(d) \in Seq(Subscription)
            BY <1>1, <1>2 DEF WatcherTypeOK
        <3> QED
            BY <1>0, <3>1
    <2> QED
        BY <1>0, <1>1, <2>1 DEF WatcherTypeOK
<1>5. NextIsPlugin' /\ LeavingIsUnwatched' /\ NoCallbackAfterUnwatch'
    BY <1>0 DEF WatcherInv, NextIsPlugin, LeavingIsUnwatched, NoCallbackAfterUnwatch
<1>7. DirectoriesAreOwn'
    BY <1>1, <1>3 DEF DirectoriesAreOwn
<1>8. UnwatchedIsLeaving'
    <2> SUFFICES ASSUME NEW d \in Types, NEW i \in 1 .. Len(subscriptions'[d]),
                        botPc[subscriptions'[d][i].bot] = "unwatched"
                 PROVE  FALSE
        BY <1>0 DEF UnwatchedIsLeaving
    <2>1. subscriptions'[d] # <<>>
        OBVIOUS
    <2>2. d \notin leaving /\ subscriptions'[d] = subscriptions[d]
        BY <1>2, <2>1
    <2> QED
        BY <1>0, <2>2 DEF WatcherInv, UnwatchedIsLeaving
<1>9. SubscriptionsAreSound'
    <2>1. \A d \in Types : \A i, j \in DOMAIN subscriptions'[d] :
          IdOf[subscriptions'[d][i].plugin] = IdOf[subscriptions'[d][j].plugin] => i = j
        BY <1>3 DEF WatcherInv, SubscriptionsAreSound
    <2>2. fsWatched = {d \in Types : subscriptions[d] # <<>>}
        BY <1>0 DEF WatcherInv, SubscriptionsAreSound
    <2>3. fsWatched' = {d \in Types : subscriptions'[d] # <<>>}
        BY <1>0, <1>2, <2>2
    <2> QED
        BY <2>1, <2>3 DEF SubscriptionsAreSound
<1>10. WatchedIsSubscribed'
    <2> SUFFICES ASSUME NEW b \in Bots, NEW i \in 1 .. Len(PluginsOf[b]),
                        \A o \in Bots : TypeOf[o] = TypeOf[b] => botPc[o] # "unwatched",
                        PluginsOf[b][i] \in watched
                 PROVE  Subscribed(b, PluginsOf[b][i])'
        BY <1>0 DEF WatchedIsSubscribed
    <2>1. TypeOf[b] \in Types /\ TypeOf[b] \notin leaving
        BY FileWatcherAssumption DEF WatcherInv, LeavingIsUnwatched
    <2>2. Subscribed(b, PluginsOf[b][i])
        BY DEF WatcherInv, WatchedIsSubscribed
    <2>3. subscriptions'[TypeOf[b]] = subscriptions[TypeOf[b]]
        BY <1>2, <2>1
    <2> QED
        BY <2>2, <2>3 DEF Subscribed
<1> QED
    BY <1>4, <1>5, <1>7, <1>8, <1>9, <1>10 DEF WatcherInv

\* doSubscribe keeps the map and the directories of fsnotify together.
LEMMA WatchIsAnswered ==
    ASSUME WatcherInv, NEW b \in Bots, NEW added \in BOOLEAN, Subscribe(b, added)
    PROVE  WatcherInv'
<1>0. PICK d \in Types, p \in Plugins, ok \in BOOLEAN :
        /\ d = TypeOf[b] /\ p = Plugin(b) /\ ok = Accepted(d, p, added)
        /\ loop = "select" /\ botPc[b] = "watch" /\ (added => subscriptions[d] = <<>>)
        /\ fsWatched' = (IF added THEN fsWatched \union {d} ELSE fsWatched)
        /\ subscriptions' = (IF ok THEN [subscriptions EXCEPT ![d] =
                                           Append(@, [bot |-> b, plugin |-> p])]
                                   ELSE subscriptions)
        /\ watched' = (IF ok THEN watched \union {p} ELSE watched)
        /\ botPc' = [botPc EXCEPT ![b] = "read"]
        /\ next' = [next EXCEPT ![b] = @ + 1]
        /\ UNCHANGED <<ctxDone, loop, calls, leaving, events, changes, stale>>
    <2>1. TypeOf[b] \in Types /\ Accepted(TypeOf[b], Plugin(b), added) \in BOOLEAN
        BY FileWatcherAssumption DEF Accepted
    <2>2. Plugin(b) \in Plugins
        <3>1. /\ next[b] \in Nat /\ next[b] >= 1 /\ next[b] <= Len(PluginsOf[b])
              /\ PluginsOf[b] \in Seq(Plugins)
            BY FileWatcherAssumption DEF WatcherInv, WatcherTypeOK, NextIsPlugin, Subscribe
        <3> QED
            BY <3>1, ElementOfSeq DEF Plugin
    <2> QED
        BY <2>1, <2>2 DEF Subscribe
<1>1. WatcherTypeOK /\ SubscriptionsAreSound /\ DirectoriesAreOwn
    BY DEF WatcherInv
<1>2. botPc \in [Bots -> BotPcs] /\ next \in [Bots -> Nat] /\ calls = <<>> /\ leaving = {}
    BY <1>0, <1>1 DEF WatcherTypeOK, BotPcs
<1>3. /\ botPc' \in [Bots -> BotPcs] /\ botPc'[b] = "read"
      /\ \A o \in Bots : o # b => botPc'[o] = botPc[o]
      /\ \A o \in Bots : botPc'[o] = "unwatched" <=> botPc[o] = "unwatched"
    BY <1>0, <1>2 DEF BotPcs
<1>4. /\ next' \in [Bots -> Nat] /\ next'[b] = next[b] + 1
      /\ \A o \in Bots : o # b => next'[o] = next[o]
    BY <1>0, <1>2
<1>5. NextIsPlugin'
    BY <1>2, <1>3, <1>4 DEF WatcherInv, NextIsPlugin
<1>6. LeavingIsUnwatched' /\ NoCallbackAfterUnwatch'
    BY <1>0, <1>2 DEF LeavingIsUnwatched, NoCallbackAfterUnwatch
<1>7. fsWatched = {x \in Types : subscriptions[x] # <<>>}
    BY <1>0, <1>1 DEF SubscriptionsAreSound
<1>8. ASSUME subscriptions' \in [Types -> Seq(Subscription)], watched' \subseteq Plugins
      PROVE  WatcherTypeOK'
    BY <1>0, <1>1, <1>3, <1>4, <1>8 DEF WatcherTypeOK, BotPcs
<1>9. CASE ~ok
    <2>1. ~added
        <3> SUFFICES ASSUME added PROVE FALSE
            OBVIOUS
        <3>1. subscriptions[d] = <<>> /\ 1 .. Len(subscriptions[d]) = {}
            BY <1>0
        <3>2. SubscriptionsTo(d, IdOf[p]) = <<>>
            BY <1>1, <3>1, SubscriberOfFile
        <3> QED
            BY <1>0, <1>9, <3>2 DEF Accepted
    <2>2. UNCHANGED <<subscriptions, fsWatched, watched>>
        BY <1>0, <1>9, <2>1
    <2>3. WatcherTypeOK'
        BY <1>1, <1>8, <2>2 DEF WatcherTypeOK
    <2>4. DirectoriesAreOwn' /\ SubscriptionsAreSound'
        BY <1>0, <1>1, <2>2 DEF DirectoriesAreOwn, SubscriptionsAreSound
    <2>5. UnwatchedIsLeaving'
        <3>1. \A x \in Types : \A i \in 1 .. Len(subscriptions[x]) :
                 subscriptions[x][i].bot \in Bots
            BY <1>1, SubscriptionType
        <3> QED
            BY <1>0, <1>3, <2>2, <3>1 DEF WatcherInv, UnwatchedIsLeaving
    <2>6. WatchedIsSubscribed'
        BY <1>3, <2>2 DEF WatcherInv, WatchedIsSubscribed, Subscribed
    <2> QED
        BY <1>5, <1>6, <2>3, <2>4, <2>5, <2>6 DEF WatcherInv
<1>10. CASE ok
    <2> DEFINE s == subscriptions[d]
               new == [bot |-> b, plugin |-> p]
    <2>1. /\ s \in Seq(Subscription) /\ Len(s) \in Nat /\ DOMAIN s = 1 .. Len(s)
          /\ new \in Subscription /\ new.bot = b /\ new.plugin = p
        BY <1>1, SubscriptionType DEF Subscription
    <2>2. subscriptions' = [subscriptions EXCEPT ![d] = Append(s, new)]
          /\ watched' = watched \union {p}
        BY <1>0, <1>10
    <2>3. SubscriptionsTo(d, IdOf[p]) = <<>> /\ (s = <<>> => added)
        BY <1>0, <1>10 DEF Accepted
    <2>4. \A i \in 1 .. Len(s) : IdOf[s[i].plugin] # IdOf[p]
        <3>1. \A i \in 1 .. Len(s) : SubscriptionsTo(d, IdOf[p]) # <<s[i]>>
            BY <2>3
        <3> QED
            BY <1>1, <3>1, SubscriberOfFile
    <2> HIDE DEF new
    <2>5. /\ Append(s, new) \in Seq(Subscription) /\ Len(Append(s, new)) = Len(s) + 1
          /\ \A i \in 1 .. Len(s) : Append(s, new)[i] = s[i]
          /\ Append(s, new)[Len(s) + 1] = new
          /\ Append(s, new) # <<>>
          /\ DOMAIN Append(s, new) = 1 .. Len(s) + 1
        BY <2>1
    <2>6. /\ subscriptions' \in [Types -> Seq(Subscription)]
          /\ subscriptions'[d] = Append(s, new)
          /\ \A x \in Types : x # d => subscriptions'[x] = subscriptions[x]
        BY <1>1, <2>2, <2>5 DEF WatcherTypeOK
    <2>7. \A i \in 1 .. Len(s) + 1 : i \in 1 .. Len(s) \/ i = Len(s) + 1
        BY <2>1
    <2>8. WatcherTypeOK'
        BY <1>1, <1>8, <2>2, <2>6 DEF WatcherTypeOK
    <2>9. DirectoriesAreOwn'
        <3>1. \A i \in 1 .. Len(s) + 1 : TypeOf[Append(s, new)[i].bot] = d
            BY <1>0, <1>1, <2>1, <2>5, <2>7 DEF DirectoriesAreOwn
        <3> QED
            BY <1>1, <2>5, <2>6, <3>1 DEF DirectoriesAreOwn
    <2>10. UnwatchedIsLeaving'
        <3>1. \A i \in 1 .. Len(s) + 1 : botPc'[Append(s, new)[i].bot] # "unwatched"
            <4> TAKE i \in 1 .. Len(s) + 1
            <4>1. CASE i = Len(s) + 1
                BY <1>3, <2>1, <2>5, <4>1
            <4>2. CASE i \in 1 .. Len(s)
                <5>1. s[i].bot \in Bots
                    BY <1>1, <4>2, SubscriptionType
                <5> QED
                    BY <1>0, <1>2, <1>3, <2>5, <4>2, <5>1 DEF WatcherInv, UnwatchedIsLeaving
            <4> QED
                BY <2>7, <4>1, <4>2
        <3>2. \A x \in Types : \A i \in 1 .. Len(subscriptions[x]) :
                 botPc'[subscriptions[x][i].bot] # "unwatched"
            BY <1>0, <1>1, <1>2, <1>3, SubscriptionType DEF WatcherInv, UnwatchedIsLeaving
        <3>3. \A x \in Types : \A i \in 1 .. Len(subscriptions'[x]) :
                 botPc'[subscriptions'[x][i].bot] # "unwatched"
            BY <2>5, <2>6, <3>1, <3>2
        <3> QED
            BY <3>3 DEF UnwatchedIsLeaving
    <2>11. SubscriptionsAreSound'
        <3>1. \A i, j \in 1 .. Len(s) + 1 :
                 IdOf[Append(s, new)[i].plugin] = IdOf[Append(s, new)[j].plugin] => i = j
            <4>1. \A i, j \in 1 .. Len(s) : IdOf[s[i].plugin] = IdOf[s[j].plugin] => i = j
                BY <1>1, <2>1 DEF SubscriptionsAreSound
            <4> QED
                BY <2>1, <2>4, <2>5, <2>7, <4>1
        <3>2. \A x \in Types : \A i, j \in DOMAIN subscriptions'[x] :
                 IdOf[subscriptions'[x][i].plugin] = IdOf[subscriptions'[x][j].plugin]
                    => i = j
            <4> TAKE x \in Types
            <4>1. CASE x = d
                BY <2>5, <2>6, <3>1, <4>1
            <4>2. CASE x # d
                BY <1>1, <2>6, <4>2 DEF SubscriptionsAreSound
            <4> QED
                BY <4>1, <4>2
        <3>3. fsWatched' = {x \in Types : subscriptions'[x] # <<>>}
            BY <1>0, <1>7, <2>3, <2>5, <2>6
        <3> QED
            BY <3>2, <3>3 DEF SubscriptionsAreSound
    <2>12. WatchedIsSubscribed'
        <3> SUFFICES ASSUME NEW o \in Bots, NEW i \in 1 .. Len(PluginsOf[o]),
                            \A x \in Bots : TypeOf[x] = TypeOf[o] => botPc'[x] # "unwatched",
                            PluginsOf[o][i] \in watched'
                     PROVE  Subscribed(o, PluginsOf[o][i])'
            BY DEF WatchedIsSubscribed
        <3>0. TypeOf[o] \in Types
            BY FileWatcherAssumption
        <3>1. CASE PluginsOf[o][i] \in watched
            <4>1. Subscribed(o, PluginsOf[o][i])
                BY <1>3, <3>1 DEF WatcherInv, WatchedIsSubscribed
            <4>2. PICK j \in 1 .. Len(subscriptions[TypeOf[o]]) :
                    subscriptions[TypeOf[o]][j] = [bot |-> o, plugin |-> PluginsOf[o][i]]
                BY <4>1 DEF Subscribed
            <4>3. j \in 1 .. Len(subscriptions'[TypeOf[o]])
                  /\ subscriptions'[TypeOf[o]][j] = subscriptions[TypeOf[o]][j]
                <5>1. CASE TypeOf[o] = d
                    <6>1. j \in 1 .. Len(s) /\ j \in 1 .. Len(s) + 1
                        BY <2>1, <4>2, <5>1
                    <6> QED
                        BY <2>5, <2>6, <5>1, <6>1
                <5>2. CASE TypeOf[o] # d
                    BY <2>6, <3>0, <4>2, <5>2
                <5> QED
                    BY <5>1, <5>2
            <4> QED
                BY <4>2, <4>3 DEF Subscribed
        <3>2. CASE PluginsOf[o][i] \notin watched
            <4>1. PluginsOf[o][i] = p
                BY <2>2, <3>2
            <4>2. p = PluginsOf[b][next[b]] /\ next[b] \in 1 .. Len(PluginsOf[b])
                BY <1>0, <1>2 DEF Plugin, WatcherInv, NextIsPlugin
            <4>3. o = b
                BY <4>1, <4>2, FileWatcherAssumption
            <4>4. /\ Len(s) + 1 \in 1 .. Len(subscriptions'[TypeOf[b]])
                  /\ subscriptions'[TypeOf[b]][Len(s) + 1] = [bot |-> b, plugin |-> p]
                BY <1>0, <2>1, <2>5, <2>6 DEF new
            <4> QED
                BY <4>1, <4>3, <4>4 DEF Subscribed
        <3> QED
            BY <3>1, <3>2
    <2> QED
        BY <1>5, <1>6, <2>8, <2>9, <2>10, <2>11, <2>12 DEF WatcherInv
<1> QED
    BY <1>9, <1>10

LEMMA StaleType ==
    ASSUME stale \in Stales, NEW p
    PROVE  [stale EXCEPT ![p] = "no"] \in Stales
BY DEF Stales

LEMMA WatcherStep ==
    ASSUME WatcherInv, WatcherNext
    PROVE  WatcherInv'
<1>0. /\ WatcherTypeOK /\ stale \in Stales
      /\ ctxDone \in BOOLEAN /\ events \in Seq(Event) /\ changes \in 0 .. MaxEvents
    BY DEF WatcherInv, WatcherTypeOK, Stales
<1>1. CASE CancelWatcher
    <2>1. ctxDone' = TRUE /\ UNCHANGED watcherState
        BY <1>1 DEF CancelWatcher
    <2> QED
        BY <1>0, <2>1, OutsideChanges DEF watcherState
<1>2. ASSUME NEW d \in Types, NEW id \in Ids, NEW relevant \in BOOLEAN,
             FileChanges(d, id, relevant)
      PROVE  WatcherInv'
    <2>1. changes' \in 0 .. MaxEvents
        BY <1>0, <1>2, FileWatcherAssumption DEF FileChanges
    <2>2. events' \in Seq(Event)
        <3>1. [dir |-> d, id |-> id, relevant |-> relevant] \in Event
            BY DEF Event
        <3>2. Append(events, [dir |-> d, id |-> id, relevant |-> relevant]) \in Seq(Event)
            BY <1>0, <3>1, AppendProperties
        <3> QED
            BY <1>0, <1>2, <3>2 DEF FileChanges
    <2>3. stale' \in Stales
        <3> DEFINE Mine(p) == /\ relevant /\ IdOf[p] = id
                              /\ \E b \in Bots : TypeOf[b] = d /\ Contains(PluginsOf[b], p)
        <3>1. stale' = [p \in Plugins |-> IF Mine(p) THEN IF p \in watched THEN "due" ELSE "missed"
                                                     ELSE stale[p]]
            BY <1>2 DEF FileChanges
        <3> HIDE DEF Mine
        <3> QED
            BY <1>0, <3>1 DEF Stales
    <2>4. UNCHANGED <<ctxDone, loop, calls, leaving, subscriptions, fsWatched, botPc, next,
                      watched>>
        BY <1>2 DEF FileChanges
    <2> QED
        BY <1>0, <2>1, <2>2, <2>3, <2>4, OutsideChanges
<1>3. ASSUME NEW b \in Bots, ReadConfig(b) PROVE WatcherInv'
    <2>1. /\ botPc[b] = "read" /\ next[b] <= Len(PluginsOf[b])
          /\ botPc' = [botPc EXCEPT ![b] = "watch"] /\ "watch" \in BotPcs
          /\ UNCHANGED <<ctxDone, loop, calls, leaving, subscriptions, fsWatched, events,
                         changes, next, watched>>
        BY <1>3 DEF ReadConfig, BotPcs
    <2>2. stale' \in Stales
        BY <1>0, <1>3, StaleType DEF ReadConfig
    <2> QED
        BY <2>1, <2>2, BotGoesOn
<1>4. ASSUME NEW b \in Bots,
             AllRegistered(b) \/ UnwatchPanics(b) \/ CallUnwatch(b) \/ BotPanics(b)
      PROVE  WatcherInv'
    <2>1. PICK to \in BotPcs :
            /\ botPc' = [botPc EXCEPT ![b] = to] /\ botPc[b] # "unwatched"
            /\ to # "watch" /\ (to = "unwatched" => loop = "stopped")
            /\ UNCHANGED <<ctxDone, loop, calls, leaving, subscriptions, fsWatched, events,
                           changes, next, watched, stale>>
        <3>1. {"running", "unwatch", "unwatched", "panicked"} \subseteq BotPcs
            BY DEF BotPcs
        <3> QED
            BY <1>4, <3>1 DEF AllRegistered, UnwatchPanics, CallUnwatch, BotPanics
    <2> QED
        BY <1>0, <2>1, BotGoesOn
<1>5. CASE RunCallback
    <2>1. stale' \in Stales
        BY <1>0, <1>5, StaleType DEF RunCallback
    <2> QED
        BY <1>5, <2>1, CallbackReturns DEF RunCallback
<1> QED
    BY <1>1, <1>2, <1>3, <1>4, <1>5, WatcherEnds, EventIsReceived, UnsubscribeIsDone,
       UnsubscribeIsReceived, WatchIsAnswered DEF WatcherNext, BotSteps, LoopSteps

\* The invariant of the watcher by itself.
THEOREM WatcherInvariant == WatcherSpec => []WatcherInv
<1>1. WatcherInv /\ [WatcherNext]_watcherVars => WatcherInv'
    <2>1. ASSUME WatcherInv, UNCHANGED watcherVars PROVE WatcherInv'
        <3>1. /\ ctxDone \in BOOLEAN /\ events \in Seq(Event) /\ changes \in 0 .. MaxEvents
              /\ stale \in Stales
            BY <2>1 DEF WatcherInv, WatcherTypeOK, Stales
        <3> QED
            BY <2>1, <3>1, OutsideChanges DEF watcherVars, watcherState
    <2> QED
        BY <2>1, WatcherStep
<1> QED
    BY <1>1, WatcherInitInv, PTL DEF WatcherSpec

-----------------------------------------------------------------------------
(***************************************************************************)
(* The composition: what the scheduler sees is a behaviour of Scheduler.   *)
(***************************************************************************)
LEMMA ReloadStepScheduler ==
    ASSUME [Next]_vars
    PROVE  [SchedulerNext]_schedulerVars
<1>1. CASE UNCHANGED vars
    BY <1>1 DEF vars, schedulerVars
<1>2. CASE Cancel
    BY <1>2 DEF Cancel, SchedulerNext
<1>3. ASSUME UNCHANGED ctxDone, UNCHANGED schedulerState
      PROVE  UNCHANGED schedulerVars
    BY <1>3 DEF schedulerVars
<1>4. ASSUME NEW d \in Types, NEW id \in Ids, NEW relevant \in BOOLEAN,
             Watcher(FileChanges(d, id, relevant))
      PROVE  UNCHANGED schedulerVars
    BY <1>3, <1>4 DEF Watcher, FileChanges
<1>5. ASSUME NEW b \in Bots,
             \/ Watcher(ReadConfig(b)) \/ Watcher(AllRegistered(b))
             \/ Watcher(ReceiveUnsubscribe(b)) \/ Watcher(UnwatchPanics(b))
             \/ Watcher(CallUnwatch(b)) \/ Watcher(BotPanics(b))
      PROVE  UNCHANGED schedulerVars
    BY <1>3, <1>5 DEF Watcher, ReadConfig, AllRegistered, ReceiveUnsubscribe, UnwatchPanics,
                      CallUnwatch, BotPanics
<1>6. ASSUME NEW b \in Bots, NEW added \in BOOLEAN, WatchPlugin(b, added)
      PROVE  [SchedulerNext]_schedulerVars
    <2>1. CASE AtTask(b)
        <3>1. WatchTask(Plugin(b) \in watched') /\ (Plugin(b) \in watched') \in BOOLEAN
            BY <1>6, <2>1 DEF WatchPlugin
        <3> QED
            BY <3>1 DEF SchedulerNext, RegisterSteps
    <2>2. CASE ~AtTask(b)
        BY <1>3, <1>6, <2>2 DEF WatchPlugin, Subscribe
    <2> QED
        BY <2>1, <2>2
<1>7. CASE BeginTask
    BY <1>7 DEF BeginTask, AtScheduler, SchedulerNext, RegisterSteps
<1>8. ASSUME NEW c \in Clients, TaskSteps(c) PROVE SchedulerNext
    <2>1. ClientSteps(c)
        BY <1>8 DEF TaskSteps, AtScheduler, ClientSteps
    <2> QED
        BY <2>1 DEF SchedulerNext
<1>9. CASE RunNextCallback
    <2>1. CASE Head(calls).plugin \in Props
        BY <1>9, <2>1 DEF RunNextCallback, AtScheduler, SchedulerNext
    <2>2. CASE Head(calls).plugin \notin Props
        BY <1>3, <1>9, <2>2 DEF RunNextCallback, Watcher, RunCallback
    <2> QED
        BY <2>1, <2>2
<1>10. CASE Watcher(DoUnsubscribe) \/ Watcher(ReceiveEvent) \/ Watcher(ContextDone)
    BY <1>3, <1>10 DEF Watcher, DoUnsubscribe, ReceiveEvent, ContextDone
<1>11. CASE AtScheduler(ReceiveRemove) \/ AtScheduler(ReceiveUpdate) \/ AtScheduler(ReceiveDone)
    BY <1>11 DEF AtScheduler, SchedulerNext, ReceiveSteps
<1>12. ASSUME NEW e \in entries, AtScheduler(Fire(e)) PROVE SchedulerNext
    BY <1>12 DEF AtScheduler, SchedulerNext
<1>13. BotGo \in Clients /\ WatcherGo \in Clients
    BY DEF Clients
<1> QED
    BY <1>1, <1>2, <1>4, <1>5, <1>6, <1>7, <1>8, <1>9, <1>10, <1>11, <1>12, <1>13
       DEF Next, BotGoroutine, BotRunEnds, WatcherGoroutine, ReadCommandConfig, Registered

\* The composition takes the scheduler's steps and no other ones, so that what is
\* proved of the scheduler can be cited for it.
LEMMA ReloadImplementsScheduler == Spec => SchedulerSpec
<1>1. Init => SchedulerInit
    BY DEF Init
<1>2. [Next]_vars => [SchedulerNext]_schedulerVars
    BY ReloadStepScheduler
<1> QED
    BY <1>1, <1>2, PTL DEF Spec, SchedulerSpec

-----------------------------------------------------------------------------
(***************************************************************************)
(* The composition: the watcher's invariants                               *)
(***************************************************************************)

\* Steps that leave the watcher, the bots and the tasks in progress alone.
LEMMA TasksFrame ==
    ASSUME TasksAreRegistered, UNCHANGED <<pc, cur>>,
           \/ UNCHANGED <<botPc, next>>
           \/ botPc[TaskBot] = "read" /\ AtTask(TaskBot) =>
                botPc'[TaskBot] = "read" /\ next'[TaskBot] = next[TaskBot],
           \/ UNCHANGED <<loop, calls>>
           \/ loop # "calling"
           \/ Head(calls).plugin \notin Props
    PROVE  TasksAreRegistered'
BY DEF TasksAreRegistered, AtTask, Plugin

\* Steps of the watcher that the scheduler does not see.
LEMMA WatcherKeepsTasks ==
    ASSUME ReloadInv, UNCHANGED <<pc, cur>>, WatcherNext,
           \A b \in Bots : ReadConfig(b) => ~AtTask(b),
           RunCallback => Head(calls).plugin \notin Props
    PROVE  ReloadInv'
<1>0. TasksAreRegistered /\ WatcherInv'
    BY WatcherStep DEF ReloadInv
<1>1. botPc \in [Bots -> BotPcs] /\ next \in [Bots -> Nat] /\ TaskBot \in Bots
    BY ConfigReloadAssumption DEF ReloadInv, WatcherInv, WatcherTypeOK, BotPcs
<1>2. CASE CancelWatcher \/ \E d \in Types, id \in Ids, relevant \in BOOLEAN :
                               FileChanges(d, id, relevant)
    <2>1. UNCHANGED <<botPc, next, loop, calls>>
        BY <1>2 DEF CancelWatcher, watcherState, FileChanges
    <2> QED
        BY <1>0, <2>1, TasksFrame DEF ReloadInv
<1>3. ASSUME NEW b \in Bots, BotSteps(b) \/ CallUnwatch(b) \/ BotPanics(b)
      PROVE  ReloadInv'
    <2>1. UNCHANGED <<loop, calls, next>>
        BY <1>3 DEF BotSteps, ReadConfig, AllRegistered, UnwatchPanics, CallUnwatch, BotPanics
    <2>2. botPc[TaskBot] = "read" /\ AtTask(TaskBot) => botPc'[TaskBot] = "read"
        <3> SUFFICES ASSUME botPc[TaskBot] = "read", AtTask(TaskBot)
                     PROVE  botPc'[TaskBot] = "read"
            OBVIOUS
        <3>1. \E v : botPc' = [botPc EXCEPT ![b] = v]
            BY <1>3 DEF BotSteps, ReadConfig, AllRegistered, UnwatchPanics, CallUnwatch,
                        BotPanics
        <3>2. b # TaskBot
            <4>1. next[TaskBot] <= Len(PluginsOf[TaskBot])
                BY DEF AtTask
            <4>2. ~(next[TaskBot] > Len(PluginsOf[TaskBot]))
                BY <1>1, <4>1, FileWatcherAssumption
            <4> QED
                BY <1>3, <4>2 DEF BotSteps, AllRegistered, UnwatchPanics, CallUnwatch, BotPanics
        <3> QED
            BY <1>1, <3>1, <3>2
    <2> QED
        BY <1>0, <2>1, <2>2, TasksFrame DEF ReloadInv
<1>4. CASE ContextDone \/ ReceiveEvent \/ DoUnsubscribe
    <2>1. UNCHANGED <<botPc, next>> /\ loop # "calling"
        BY <1>4 DEF ContextDone, ReceiveEvent, DoUnsubscribe
    <2> QED
        BY <1>0, <2>1, TasksFrame DEF ReloadInv
<1>5. CASE RunCallback
    <2>1. UNCHANGED <<botPc, next>>
        BY <1>5 DEF RunCallback
    <2> QED
        BY <1>0, <1>5, <2>1, TasksFrame DEF ReloadInv
<1>6. ASSUME NEW b \in Bots,
             ReceiveUnsubscribe(b) \/ \E added \in BOOLEAN : Subscribe(b, added)
      PROVE  ReloadInv'
    <2>1. loop # "calling" /\ botPc[b] # "read"
        BY <1>6 DEF ReceiveUnsubscribe, Subscribe
    <2>2. botPc[TaskBot] = "read" =>
             botPc'[TaskBot] = "read" /\ next'[TaskBot] = next[TaskBot]
        BY <1>1, <1>6, <2>1 DEF ReceiveUnsubscribe, Subscribe
    <2> QED
        BY <1>0, <2>1, <2>2, TasksFrame DEF ReloadInv
<1> QED
    BY <1>2, <1>3, <1>4, <1>5, <1>6 DEF WatcherNext, LoopSteps

LEMMA ClientGoes ==
    ASSUME SchedulerTypeOK, NEW c \in Clients, NEW to, pc' = [pc EXCEPT ![c] = to]
    PROVE  pc'[c] = to /\ \A d \in Clients : d # c => pc'[d] = pc[d]
BY DEF SchedulerTypeOK

LEMMA ClientTakes ==
    ASSUME SchedulerTypeOK, NEW c \in Clients, NEW t, cur' = [cur EXCEPT ![c] = t]
    PROVE  cur'[c] = t /\ \A d \in Clients : d # c => cur'[d] = cur[d]
BY DEF SchedulerTypeOK

LEMMA Goroutines == BotGo \in Clients /\ WatcherGo \in Clients /\ BotGo # WatcherGo
BY DEF Clients, BotGo, WatcherGo

\* The watcher's invariant does not depend on the scheduler.
LEMMA WatcherUnchanged ==
    ASSUME WatcherInv, stale' \in Stales,
           UNCHANGED <<ctxDone, loop, calls, leaving, subscriptions, fsWatched, events,
                       changes, botPc, next, watched>>
    PROVE  WatcherInv'
<1>1. ctxDone \in BOOLEAN /\ events \in Seq(Event) /\ changes \in 0 .. MaxEvents
    BY DEF WatcherInv, WatcherTypeOK
<1> QED
    BY <1>1, OutsideChanges

\* A registration goes on, in whichever goroutine.
LEMMA TaskGoesOn ==
    ASSUME ReloadInv, SchedulerTypeOK, NEW c \in Clients, NEW to,
           pc' = [pc EXCEPT ![c] = to], pc[c] \notin {"idle", "watch"},
           stale' \in Stales,
           UNCHANGED <<ctxDone, loop, calls, leaving, subscriptions, fsWatched, events,
                       changes, botPc, next, watched, cur>>
    PROVE  ReloadInv'
<1>1. WatcherInv'
    BY WatcherUnchanged DEF ReloadInv
<1>2. \A d \in Clients : pc'[d] \notin {"idle", "watch"} => pc[d] \notin {"idle", "watch"}
    BY ClientGoes
<1>3. pc'[WatcherGo] # "idle" => pc[WatcherGo] # "idle"
    BY ClientGoes, Goroutines
<1>4. TasksAreRegistered'
    BY <1>2, <1>3, Goroutines DEF ReloadInv, TasksAreRegistered, AtTask, Plugin
<1> QED
    BY <1>1, <1>4 DEF ReloadInv

\* A registration ends: the bot goes on to Watch, the watcher to the next callback.
LEMMA TaskEnds ==
    ASSUME ReloadInv, SchedulerTypeOK, NEW c \in Clients, NEW result, Finish(c, result),
           pc[c] \notin {"idle", "watch"}, RegReturns(c), stale' \in Stales,
           UNCHANGED <<ctxDone, leaving, subscriptions, fsWatched, events, changes, next,
                       watched>>
    PROVE  ReloadInv'
<1>0. WatcherInv /\ TasksAreRegistered /\ TaskBot \in Bots
    BY ConfigReloadAssumption DEF ReloadInv
<1>1. cur' = cur /\ pc' = [pc EXCEPT ![c] = IF c = BotGo /\ cur[c] \in Props THEN "watch"
                                                                             ELSE "idle"]
    BY DEF Finish
<1>2. pc'[c] \in {"watch", "idle"} /\ (c = WatcherGo => pc'[c] = "idle")
      /\ \A d \in Clients : d # c => pc'[d] = pc[d]
    BY <1>1, ClientGoes, Goroutines
<1>3. CASE c = BotGo
    <2>1. /\ botPc' = [botPc EXCEPT ![TaskBot] = IF cur[c] \in Props THEN "watch" ELSE @]
          /\ UNCHANGED <<loop, calls>>
        BY <1>3, Goroutines DEF RegReturns
    <2>2. WatcherInv'
        <3>1. CASE cur[c] \in Props
            <4>1. botPc[TaskBot] = "read" /\ next[TaskBot] <= Len(PluginsOf[TaskBot])
                BY <1>0, <1>3, <3>1 DEF TasksAreRegistered, AtTask
            <4>2. botPc' = [botPc EXCEPT ![TaskBot] = "watch"] /\ "watch" \in BotPcs
                BY <2>1, <3>1 DEF BotPcs
            <4> QED
                BY <1>0, <2>1, <4>1, <4>2, BotGoesOn
        <3>2. CASE cur[c] \notin Props
            <4>1. botPc' = botPc
                <5>1. botPc \in [Bots -> BotPcs]
                    BY <1>0 DEF WatcherInv, WatcherTypeOK, BotPcs
                <5> QED
                    BY <2>1, <3>2, <5>1
            <4> QED
                BY <1>0, <2>1, <4>1, WatcherUnchanged
        <3> QED
            BY <3>1, <3>2
    <2>3. TasksAreRegistered'
        BY <1>0, <1>1, <1>2, <1>3, <2>1, Goroutines DEF TasksAreRegistered
    <2> QED
        BY <2>2, <2>3 DEF ReloadInv
<1>4. CASE c = WatcherGo
    <2>1. /\ calls' = Tail(calls) /\ loop' = (IF calls' = <<>> THEN "select" ELSE "calling")
          /\ UNCHANGED botPc
        BY <1>4, Goroutines DEF RegReturns
    <2>2. loop = "calling"
        BY <1>0, <1>4 DEF TasksAreRegistered
    <2>3. WatcherInv'
        BY <1>0, <2>1, <2>2, CallbackReturns
    <2>4. TasksAreRegistered'
        BY <1>0, <1>1, <1>2, <1>4, <2>1, Goroutines DEF TasksAreRegistered, AtTask, Plugin
    <2> QED
        BY <2>3, <2>4 DEF ReloadInv
<1> QED
    BY <1>3, <1>4 DEF Clients

LEMMA TaskStep ==
    ASSUME ReloadInv, SchedulerTypeOK, NEW c \in Clients, TaskSteps(c)
    PROVE  ReloadInv'
<1>0. stale \in Stales
    BY DEF ReloadInv, WatcherInv, WatcherTypeOK, Stales
<1>1. CASE AtScheduler(SendRemove(c)) \/ \E sched \in Scheds : AtScheduler(SendUpdate(c, sched))
    <2>1. /\ \E to : pc' = [pc EXCEPT ![c] = to]
          /\ pc[c] \notin {"idle", "watch"} /\ UNCHANGED <<ctxDone, cur, watcherState>>
        BY <1>1 DEF AtScheduler, SendRemove, SendUpdate, Goto
    <2> QED
        BY <1>0, <2>1, TaskGoesOn DEF watcherState
<1>2. CASE BuildSucceeds(c) /\ ReadTaskConfig(c)
             /\ UNCHANGED <<loop, calls, leaving, subscriptions, fsWatched, events,
                            changes, botPc, next, watched>>
    <2>1. /\ pc' = [pc EXCEPT ![c] = "send"] /\ pc[c] \notin {"idle", "watch"}
          /\ UNCHANGED <<ctxDone, cur>>
        BY <1>2 DEF BuildSucceeds, Goto
    <2>2. stale' \in Stales
        BY <1>0, <1>2, StaleType DEF ReadTaskConfig
    <2> QED
        BY <1>2, <2>1, <2>2, TaskGoesOn
<1>3. CASE BuildFails(c) /\ ReadTaskConfig(c) /\ RegReturns(c)
             /\ UNCHANGED <<leaving, subscriptions, fsWatched, events, changes, next, watched>>
    <2>1. Finish(c, "failed") /\ pc[c] \notin {"idle", "watch"} /\ UNCHANGED ctxDone
        BY <1>3 DEF BuildFails
    <2>2. stale' \in Stales
        BY <1>0, <1>3, StaleType DEF ReadTaskConfig
    <2> QED
        BY <1>3, <2>1, <2>2, TaskEnds
<1>4. CASE UpdateReturns(c) /\ RegReturns(c)
             /\ UNCHANGED <<leaving, subscriptions, fsWatched, events, changes, next, watched,
                            stale>>
    <2>1. /\ \E result : Finish(c, result)
          /\ pc[c] \notin {"idle", "watch"} /\ UNCHANGED ctxDone
        BY <1>4 DEF UpdateReturns
    <2> QED
        BY <1>0, <1>4, <2>1, TaskEnds
<1> QED
    BY <1>1, <1>2, <1>3, <1>4 DEF TaskSteps

LEMMA ReloadStep ==
    ASSUME ReloadInv, SchedulerTypeOK, [Next]_vars
    PROVE  ReloadInv'
<1>0. stale \in Stales /\ WatcherInv /\ TasksAreRegistered
    BY DEF ReloadInv, WatcherInv, WatcherTypeOK, Stales
<1>1. ASSUME UNCHANGED <<ctxDone, pc, cur>>, UNCHANGED watcherState PROVE ReloadInv'
    <2>1. WatcherInv'
        BY <1>0, <1>1, WatcherUnchanged DEF watcherState
    <2>2. TasksAreRegistered'
        BY <1>0, <1>1, TasksFrame DEF watcherState
    <2> QED
        BY <2>1, <2>2 DEF ReloadInv
<1>2. CASE UNCHANGED vars
    BY <1>1, <1>2 DEF vars, schedulerState, clientVars
<1>3. ASSUME UNCHANGED schedulerState PROVE UNCHANGED <<pc, cur>>
    BY <1>3 DEF schedulerState, clientVars
<1>4. CASE Cancel
    <2>1. UNCHANGED <<pc, cur>> /\ CancelWatcher /\ UNCHANGED watcherState
        BY <1>3, <1>4 DEF Cancel, CancelScheduler, CancelWatcher
    <2>2. WatcherInv'
        BY <1>0, <2>1, WatcherStep DEF WatcherNext
    <2>3. TasksAreRegistered'
        BY <1>0, <2>1, TasksFrame DEF watcherState
    <2> QED
        BY <2>2, <2>3 DEF ReloadInv
<1>5. ASSUME NEW d \in Types, NEW id \in Ids, NEW relevant \in BOOLEAN,
             Watcher(FileChanges(d, id, relevant))
      PROVE  ReloadInv'
    <2>1. UNCHANGED <<pc, cur, loop, calls, botPc, next>> /\ FileChanges(d, id, relevant)
        BY <1>3, <1>5 DEF Watcher, FileChanges
    <2>2. WatcherInv'
        BY <1>0, <2>1, WatcherStep DEF WatcherNext
    <2> QED
        BY <1>0, <2>1, <2>2, TasksFrame DEF ReloadInv
<1>6. ASSUME NEW b \in Bots,
             \/ ReadCommandConfig(b) \/ Registered(b)
             \/ Watcher(ReceiveUnsubscribe(b)) \/ Watcher(UnwatchPanics(b)) \/ BotRunEnds(b)
      PROVE  ReloadInv'
    <2>1. /\ UNCHANGED schedulerState
          /\ \/ ReadConfig(b) /\ ~AtTask(b)
             \/ AllRegistered(b) \/ ReceiveUnsubscribe(b) \/ UnwatchPanics(b)
             \/ CallUnwatch(b) \/ BotPanics(b)
        BY <1>6 DEF ReadCommandConfig, Registered, BotRunEnds, Watcher
    <2>2. WatcherNext
        BY <2>1 DEF WatcherNext, BotSteps, LoopSteps
    <2>3. botPc \in [Bots -> BotPcs]
        BY <1>0 DEF WatcherInv, WatcherTypeOK, BotPcs
    <2>4. \A o \in Bots : ReadConfig(o) => o = b
        BY <2>1, <2>3 DEF ReadConfig, AllRegistered, ReceiveUnsubscribe, UnwatchPanics,
                          CallUnwatch, BotPanics
    <2>5. \A o \in Bots : ReadConfig(o) => ~AtTask(o)
        <3>1. ReadConfig(b) => botPc'[b] = "watch"
            BY <2>3 DEF ReadConfig
        <3>2. ReadConfig(b) => ~AtTask(b)
            BY <2>1, <2>3, <3>1 DEF AllRegistered, ReceiveUnsubscribe, UnwatchPanics,
                                    CallUnwatch, BotPanics
        <3> QED
            BY <2>4, <3>2
    <2>6. ~RunCallback
        <3>1. RunCallback => UNCHANGED botPc
            BY DEF RunCallback
        <3> QED
            BY <2>1, <2>3, <3>1 DEF ReadConfig, AllRegistered, ReceiveUnsubscribe,
                                    UnwatchPanics, CallUnwatch, BotPanics
    <2> QED
        BY <1>3, <2>1, <2>2, <2>5, <2>6, WatcherKeepsTasks
<1>7. ASSUME NEW b \in Bots, NEW added \in BOOLEAN, WatchPlugin(b, added)
      PROVE  ReloadInv'
    <2>1. Subscribe(b, added) /\ WatcherNext /\ loop = "select" /\ UNCHANGED <<loop, calls>>
        BY <1>7 DEF WatchPlugin, WatcherNext, LoopSteps, Subscribe
    <2>2. WatcherInv'
        BY <1>0, <2>1, WatcherStep
    <2>3. pc[WatcherGo] = "idle"
        BY <1>0, <2>1 DEF TasksAreRegistered
    <2>4. CASE AtTask(b)
        <3>1. pc' = [pc EXCEPT ![BotGo] = "idle"]
            BY <1>7, <2>4 DEF WatchPlugin, WatchTask, Goto
        <3>2. pc'[BotGo] = "idle" /\ pc'[WatcherGo] = "idle"
            BY <2>3, <3>1, ClientGoes, Goroutines
        <3>3. TasksAreRegistered'
            BY <3>2 DEF TasksAreRegistered
        <3> QED
            BY <2>2, <3>3 DEF ReloadInv
    <2>5. CASE ~AtTask(b)
        <3>1. UNCHANGED <<pc, cur>>
            BY <1>3, <1>7, <2>5 DEF WatchPlugin
        <3>2. botPc \in [Bots -> BotPcs] /\ next \in [Bots -> Nat] /\ TaskBot \in Bots
            BY <1>0, ConfigReloadAssumption DEF WatcherInv, WatcherTypeOK, BotPcs
        <3>3. botPc[TaskBot] = "read" =>
                 botPc'[TaskBot] = "read" /\ next'[TaskBot] = next[TaskBot]
            BY <2>1, <3>2 DEF Subscribe
        <3>4. TasksAreRegistered'
            BY <1>0, <2>1, <3>1, <3>3, TasksFrame
        <3> QED
            BY <2>2, <3>4 DEF ReloadInv
    <2> QED
        BY <2>4, <2>5
<1>8. CASE BeginTask
    <2>1. UNCHANGED watcherState /\ UNCHANGED ctxDone /\ botPc[TaskBot] = "read"
        BY <1>8 DEF BeginTask, AtScheduler, RegisterProps, RegisterTask
    <2>2. WatcherInv' /\ UNCHANGED <<loop, calls, botPc, next>>
        BY <1>0, <2>1, WatcherUnchanged DEF watcherState
    <2>3. CASE UNCHANGED <<pc, cur>>
        BY <1>1, <2>1, <2>3
    <2>4. ASSUME NEW to, pc' = [pc EXCEPT ![BotGo] = to],
                 NEW t, cur' = [cur EXCEPT ![BotGo] = t], t \in Props => AtTask(TaskBot)
          PROVE  ReloadInv'
        <3>0. pc'[WatcherGo] = pc[WatcherGo]
            BY <2>4, ClientGoes, Goroutines
        <3>1. cur'[BotGo] = t /\ cur'[WatcherGo] = cur[WatcherGo]
            BY <2>4, ClientTakes, Goroutines
        <3>2. AtTask(TaskBot)' <=> AtTask(TaskBot)
            BY <2>2 DEF AtTask, Plugin
        <3>3. TasksAreRegistered'
            BY <1>0, <2>1, <2>2, <2>4, <3>0, <3>1, <3>2 DEF TasksAreRegistered
        <3> QED
            BY <2>2, <3>3 DEF ReloadInv
    <2>5. CASE AtTask(TaskBot) /\ RegisterProps
        BY <2>4, <2>5 DEF RegisterProps, Goto
    <2>6. ASSUME NEW skipped \in BOOLEAN, RegisterTask(skipped) PROVE ReloadInv'
        <3>1. Head(todo) \notin Props
            BY <2>6, SchedulerAssumption DEF RegisterTask
        <3> QED
            BY <2>3, <2>4, <2>6, <3>1 DEF RegisterTask, Goto
    <2> QED
        BY <1>8, <2>5, <2>6 DEF BeginTask, AtScheduler
<1>9. CASE RunNextCallback
    <2>1. CASE Head(calls).plugin \in Props
        <3> DEFINE t == Head(calls).plugin
        <3>1. Callback(t) /\ UNCHANGED watcherState /\ loop = "calling"
            BY <1>9, <2>1 DEF RunNextCallback, AtScheduler
        <3>2. /\ pc' = [pc EXCEPT ![WatcherGo] = "remove"]
              /\ cur' = [cur EXCEPT ![WatcherGo] = t] /\ UNCHANGED ctxDone
            BY <3>1 DEF Callback, Goto
        <3>0. pc'[BotGo] = pc[BotGo]
            BY <3>2, ClientGoes, Goroutines
        <3>3. cur'[WatcherGo] = t /\ cur'[BotGo] = cur[BotGo]
            BY <3>2, ClientTakes, Goroutines
        <3>4. WatcherInv' /\ UNCHANGED <<loop, calls, botPc, next>>
            BY <1>0, <3>1, <3>2, WatcherUnchanged DEF watcherState
        <3>5. AtTask(TaskBot)' <=> AtTask(TaskBot)
            BY <3>4 DEF AtTask, Plugin
        <3>6. TasksAreRegistered'
            BY <1>0, <2>1, <3>0, <3>1, <3>3, <3>4, <3>5 DEF TasksAreRegistered
        <3> QED
            BY <3>4, <3>6 DEF ReloadInv
    <2>2. CASE Head(calls).plugin \notin Props
        <3>1. RunCallback /\ UNCHANGED <<pc, cur>>
            BY <1>3, <1>9, <2>2 DEF RunNextCallback, Watcher
        <3>2. UNCHANGED <<botPc, next>>
            BY <3>1 DEF RunCallback
        <3>3. WatcherInv'
            BY <1>0, <3>1, WatcherStep DEF WatcherNext, LoopSteps
        <3>4. TasksAreRegistered'
            BY <1>0, <2>2, <3>1, <3>2, TasksFrame
        <3> QED
            BY <3>3, <3>4 DEF ReloadInv
    <2> QED
        BY <2>1, <2>2
<1>10. CASE Watcher(DoUnsubscribe) \/ Watcher(ReceiveEvent) \/ Watcher(ContextDone)
    <2>1. DoUnsubscribe \/ ReceiveEvent \/ ContextDone
        BY <1>10 DEF Watcher
    <2>2. UNCHANGED <<pc, cur, botPc, next>> /\ loop # "calling"
        BY <1>3, <1>10 DEF Watcher, DoUnsubscribe, ReceiveEvent, ContextDone
    <2>3. WatcherInv'
        BY <1>0, <2>1, WatcherStep DEF WatcherNext, LoopSteps
    <2>4. TasksAreRegistered'
        BY <1>0, <2>2, TasksFrame
    <2> QED
        BY <2>3, <2>4 DEF ReloadInv
<1>11. CASE \/ AtScheduler(ReceiveRemove) \/ AtScheduler(ReceiveUpdate)
            \/ AtScheduler(ReceiveDone) \/ \E e \in entries : AtScheduler(Fire(e))
    <2>1. UNCHANGED <<ctxDone, pc, cur>> /\ UNCHANGED watcherState
        BY <1>11 DEF AtScheduler, ReceiveRemove, ReceiveUpdate, ReceiveDone, Fire, clientVars
    <2> QED
        BY <1>1, <2>1
<1> QED
    BY <1>2, <1>4, <1>5, <1>6, <1>7, <1>8, <1>9, <1>10, <1>11, TaskStep, Goroutines
       DEF Next, BotGoroutine, WatcherGoroutine

LEMMA ReloadInitInv == Init => ReloadInv
<1> SUFFICES ASSUME Init PROVE ReloadInv
    OBVIOUS
<1>1. WatcherInv
    BY WatcherInitInv DEF Init
<1>2. \A c \in Clients : pc[c] = "idle"
    BY DEF Init, SchedulerInit
<1> QED
    BY <1>1, <1>2, Goroutines DEF ReloadInv, TasksAreRegistered

\* The invariants of the watcher, with the scheduler at work beside it.
THEOREM ReloadInvariant == Spec => []ReloadInv
<1>1. SchedulerTypeOK /\ ReloadInv /\ [Next]_vars => ReloadInv'
    BY ReloadStep
<1> QED
    BY <1>1, ReloadInitInv, ReloadImplementsScheduler, SchedulerTypeCorrect, PTL DEF Spec

\* The types of both, which include that run calls callbacks, and drops
\* subscriptions, only between two rounds of its select.
THEOREM ReloadTypeCorrect == Spec => []TypeOK
<1>1. ReloadInv /\ SchedulerTypeOK => TypeOK
    BY DEF ReloadInv, WatcherInv, TypeOK
<1> QED
    BY <1>1, ReloadInvariant, ReloadImplementsScheduler, SchedulerTypeCorrect, PTL

\* A change is told to each subscriber once, as long as fsnotify watches the
\* directory: the map and the directories of fsnotify agree until run ends.
THEOREM SubscriptionsStaySound == Spec => []SubscriptionsAreSound
<1>1. ReloadInv => SubscriptionsAreSound
    BY DEF ReloadInv, WatcherInv
<1> QED
    BY <1>1, ReloadInvariant, PTL

\* No callback of a bot is called after its Unwatch returned, although Unwatch does
\* not wait for doUnsubscribe.
THEOREM UnwatchedBotIsNotCalled == Spec => []NoCallbackAfterUnwatch
<1>1. ReloadInv => NoCallbackAfterUnwatch
    BY DEF ReloadInv, WatcherInv
<1> QED
    BY <1>1, ReloadInvariant, PTL

\* A bot that runs keeps its subscriptions, as long as no bot of its BotType has
\* called Unwatch.
THEOREM RunningBotStaysSubscribed == Spec => []RunningBotIsSubscribed
<1>1. ReloadInv => RunningBotIsSubscribed
    <2> SUFFICES ASSUME ReloadInv, NEW b \in Bots,
                        \A o \in Bots : TypeOf[o] = TypeOf[b] => botPc[o] # "unwatched",
                        NEW i \in DOMAIN PluginsOf[b], PluginsOf[b][i] \in watched
                 PROVE  \E j \in DOMAIN subscriptions[TypeOf[b]] :
                            subscriptions[TypeOf[b]][j]
                                = [bot |-> b, plugin |-> PluginsOf[b][i]]
        BY DEF RunningBotIsSubscribed
    <2>1. TypeOf[b] \in Types /\ PluginsOf[b] \in Seq(Plugins)
        BY FileWatcherAssumption
    <2>2. i \in 1 .. Len(PluginsOf[b])
        BY <2>1
    <2>3. Subscribed(b, PluginsOf[b][i])
        BY <2>2 DEF ReloadInv, WatcherInv, WatchedIsSubscribed
    <2>4. DOMAIN subscriptions[TypeOf[b]] = 1 .. Len(subscriptions[TypeOf[b]])
        BY <2>1, SubscriptionType DEF ReloadInv, WatcherInv
    <2> QED
        BY <2>3, <2>4 DEF Subscribed
<1> QED
    BY <1>1, ReloadInvariant, PTL

\* What is proved of the scheduler holds while the watcher calls it: cron holds
\* what the map says.
THEOREM ReloadKeepsTheSchedule == Spec => []CronHoldsTheSchedule
BY ReloadImplementsScheduler, CronFollowsTheMap, PTL

\* So do the theorems that need distinct tasks: a task that could not be built again
\* is not scheduled any more, and what cron runs was built last.
THEOREM ReloadKeepsTasksCurrent ==
    ASSUME TasksAreDistinct
    PROVE  Spec => [](FailedTaskIsRemoved /\ ScheduledTaskIsCurrent)
BY ReloadImplementsScheduler, FailedRegistrationUnschedules, CronRunsTheLatestBuild, PTL
=============================================================================
