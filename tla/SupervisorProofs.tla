-------------------------- MODULE SupervisorProofs --------------------------
(***************************************************************************)
(* Proofs about Supervisor, for any number of bots, notifying goroutines   *)
(* and alerters and any bound on escalations.                              *)
(***************************************************************************)
EXTENDS Supervisor, SequenceTheorems, TLAPS

(***************************************************************************)
(* The inductive invariant. None of the three safety invariants is         *)
(* inductive: each speaks of a bot whose goroutine has ended, while what   *)
(* makes it true was done when errNotifier ran.                            *)
(***************************************************************************)

\* A bot has a status once its goroutine was started. It is finished when that
\* goroutine has ended, or one of another bot of the same BotType.
StatusFollowsBot ==
    \A b \in Bots :
        /\ status[b] = "none" <=> botPc[b] = "ready"
        /\ botPc[b] = "stopped" => status[b] = "finished"
        /\ status[b] = "finished"
               => \E x \in Bots : SameType(x, b) /\ botPc[x] = "stopped"

\* errNotifier is first handed out when Bot.Run is called.
NoCallBeforeRun ==
    \A b \in Bots : botPc[b] \in {"ready", "added"}
                       => \A c \in Callers : call[b][c] = "idle"

\* The deferred errNotifier call leaves the context done, or this very
\* goroutine is about to cancel it.
LeavingBotIsDone ==
    \A b \in Bots :
        /\ botPc[b] = "finishing" => Done(b) \/ call[b][Main] = "fatal"
        /\ Exited(b) => Done(b)

\* Whoever cancels a bot has a reason and, when it is a fatal error, alerts.
CancelHasReason ==
    \A b \in Bots :
        /\ botCtx[b] => reasons[b] # {}
        /\ "fatal" \in reasons[b] => FatalAlertStarted(b)

\* Only a canceled bot has fatal alerts.
FatalAlertFollowsCancel ==
    \A b \in Bots : FatalAlertStarted(b) => botCtx[b] /\ "fatal" \in reasons[b]

IndInv ==
    /\ TypeOK
    /\ StatusFollowsBot
    /\ NoCallBeforeRun
    /\ LeavingBotIsDone
    /\ CancelHasReason
    /\ FatalAlertFollowsCancel
    /\ OneFatalAlertPerCaller

-----------------------------------------------------------------------------
(***************************************************************************)
(* Type correctness                                                        *)
(***************************************************************************)

\* A new goroutine of alertAll is an Alert.
LEMMA NewAlertType ==
    ASSUME NEW c \in Callers, NEW f \in BOOLEAN
    PROVE  [by |-> c, fatal |-> f, next |-> 1, failed |-> FALSE] \in Alert
BY SupervisorAssumption DEF Alert

\* A turn of the loop in alertAll keeps the goroutine an Alert.
LEMMA AdvancedAlertType ==
    ASSUME NEW a \in Alert, a.next <= NumAlerters, NEW f \in BOOLEAN
    PROVE  [a EXCEPT !.next = a.next + 1, !.failed = f] \in Alert
<1>1. a.next + 1 \in 1 .. NumAlerters + 1
    BY SupervisorAssumption DEF Alert
<1> QED
    BY <1>1 DEF Alert

\* The state of the runner always has the type that TypeOK tells.
LEMMA TypeStep == TypeOK /\ [Next]_vars => TypeOK'
<1> SUFFICES ASSUME TypeOK, [Next]_vars PROVE TypeOK'
    OBVIOUS
<1> USE DEF TypeOK
<1>1. CASE CancelRunner
    BY <1>1 DEF CancelRunner
<1>2. CASE Run
    BY <1>2 DEF Run, RunPcs
<1>3. CASE RunReturns
    BY <1>3 DEF RunReturns, RunPcs
<1>4. ASSUME NEW b \in Bots, BotGoroutine(b) PROVE TypeOK'
    <2> USE DEF Goto, BotPcs
    <2>1. CASE AddBot(b)
        BY <2>1 DEF AddBot
    <2>2. CASE StartBot(b)
        BY <2>2 DEF StartBot
    <2>3. CASE BotRunReturns(b) \/ BotRunPanics(b) \/ WgDone(b)
        BY <2>3 DEF BotRunReturns, BotRunPanics, WgDone
    <2>4. CASE Unwatch(b)
        BY <2>4 DEF Unwatch
    <2>5. CASE NotifyPanic(b) \/ NotifyShutdown(b)
        <3>1. call' = call \/ call' = [call EXCEPT ![b][Main] = "fatal"]
            BY <2>5 DEF NotifyPanic, NotifyShutdown, NotifyFromDefer
        <3>2. call' \in [Bots -> [Callers -> Calls]]
            <4>1. Main \in Callers /\ "fatal" \in Calls
                BY DEF Callers, Calls
            <4>2. call[b] \in [Callers -> Calls]
                OBVIOUS
            <4>3. [call[b] EXCEPT ![Main] = "fatal"] \in [Callers -> Calls]
                BY <4>1, <4>2
            <4> QED
                BY <3>1, <4>3
        <3>3. botPc' \in [Bots -> BotPcs]
            BY ZenonT(60), <2>5 DEF NotifyPanic, NotifyShutdown, NotifyFromDefer
        <3> QED
            BY <2>5, <3>2, <3>3 DEF NotifyPanic, NotifyShutdown, NotifyFromDefer
    <2>6. CASE StopBotStatus(b)
        BY <2>6 DEF StopBotStatus
    <2> QED
        BY <1>4, <2>1, <2>2, <2>3, <2>4, <2>5, <2>6 DEF BotGoroutine
<1>5. ASSUME NEW b \in Bots, NEW c \in Callers, ErrNotifier(b, c) PROVE TypeOK'
    <2>1. ASSUME NEW kind \in Kinds, Escalate(b, c, kind) PROVE TypeOK'
        BY <2>1 DEF Escalate, Kinds, Calls
    <2>2. CASE HandleFatal(b, c)
        BY <2>2 DEF HandleFatal, StopBot, Calls, Reasons
    <2>3. ASSUME NEW stop \in BOOLEAN, NEW alert \in BOOLEAN,
                 HandleOther(b, c, stop, alert)
          PROVE  TypeOK'
        <3>1. call' \in [Bots -> [Callers -> Calls]]
            BY <2>3 DEF HandleOther, Calls
        <3>2. botCtx' \in [Bots -> BOOLEAN] /\ reasons' \in [Bots -> SUBSET Reasons]
            <4>1. \/ UNCHANGED <<botCtx, reasons>>
                  \/ /\ botCtx' = [botCtx EXCEPT ![b] = TRUE]
                     /\ reasons' = [reasons EXCEPT ![b] = @ \union {"directive"}]
                BY <2>3 DEF HandleOther, StopBot
            <4>2. reasons[b] \union {"directive"} \in SUBSET Reasons
                BY DEF Reasons
            <4> QED
                BY ZenonT(60), <4>1, <4>2
        <3> QED
            BY <2>3, <3>1, <3>2 DEF HandleOther
    <2>4. CASE SendAlert(b, c)
        <3> DEFINE a == [by |-> c, fatal |-> call[b][c] = "alertFatal",
                         next |-> 1, failed |-> FALSE]
        <3>1. a \in Alert
            BY NewAlertType
        <3>2. Append(alerts[b], a) \in Seq(Alert)
            BY <3>1
        <3>3. alerts' = [alerts EXCEPT ![b] = Append(alerts[b], a)]
            BY <2>4 DEF SendAlert
        <3>4. alerts' \in [Bots -> Seq(Alert)]
            BY <3>2, <3>3
        <3>5. call' \in [Bots -> [Callers -> Calls]]
            BY <2>4 DEF SendAlert, Calls
        <3> QED
            BY <2>4, <3>4, <3>5 DEF SendAlert
    <2> QED
        BY <1>5, <2>1, <2>2, <2>3, <2>4 DEF ErrNotifier
<1>6. ASSUME NEW b \in Bots, AlertGoroutine(b) PROVE TypeOK'
    <2> PICK i \in 1 .. Len(alerts[b]), outcome \in Outcomes :
                AlertOne(b, i, outcome)
        BY <1>6 DEF AlertGoroutine
    <2> DEFINE a == alerts[b][i]
               f == IF outcome = "sent" THEN a.failed ELSE TRUE
               n == [a EXCEPT !.next = a.next + 1, !.failed = f]
    <2>1. a \in Alert
        OBVIOUS
    <2>f. f \in BOOLEAN
        BY <2>1 DEF Alert
    <2>2. n \in Alert
        <3> HIDE DEF f
        <3> QED
            BY <2>1, <2>f, AdvancedAlertType DEF AlertOne
    <2>3. alerts' = [alerts EXCEPT ![b] = [alerts[b] EXCEPT ![i] = n]]
        BY DEF AlertOne
    <2>4. [alerts[b] EXCEPT ![i] = n] \in Seq(Alert)
        BY <2>2
    <2>5. alerts' \in [Bots -> Seq(Alert)]
        BY <2>3, <2>4
    <2> QED
        BY <2>5 DEF AlertOne
<1>7. CASE UNCHANGED vars
    BY <1>7 DEF vars
<1> QED
    BY <1>1, <1>2, <1>3, <1>4, <1>5, <1>6, <1>7 DEF Next

-----------------------------------------------------------------------------
(***************************************************************************)
(* What the steps do to the alerts                                         *)
(***************************************************************************)

\* Calling an alerter changes neither whose alert it is nor what it is about.
LEMMA AlertGoroutineFrame ==
    ASSUME TypeOK, NEW b \in Bots, AlertGoroutine(b), NEW d \in Bots
    PROVE  /\ Len(alerts'[d]) = Len(alerts[d])
           /\ \A j \in 1 .. Len(alerts[d]) :
                 /\ alerts'[d][j].by = alerts[d][j].by
                 /\ alerts'[d][j].fatal = alerts[d][j].fatal
           /\ UNCHANGED <<runPc, runnerCtx, botPc, botCtx, call, reasons, status,
                          watching, escalated>>
<1> PICK i \in 1 .. Len(alerts[b]), outcome \in Outcomes : AlertOne(b, i, outcome)
    BY DEF AlertGoroutine
<1> DEFINE a == alerts[b][i]
           n == [a EXCEPT !.next = a.next + 1,
                          !.failed = IF outcome = "sent" THEN a.failed ELSE TRUE]
<1>1. alerts' = [alerts EXCEPT ![b] = [alerts[b] EXCEPT ![i] = n]]
    BY DEF AlertOne
<1>2. a \in Alert /\ alerts[b] \in Seq(Alert) /\ alerts[d] \in Seq(Alert)
    BY DEF TypeOK
<1>3. n.by = a.by /\ n.fatal = a.fatal
    BY <1>2 DEF Alert
<1>4. b \in DOMAIN alerts /\ d \in DOMAIN alerts
    BY DEF TypeOK
<1>5. CASE d # b
    BY <1>1, <1>4, <1>5 DEF AlertOne
<1>6. CASE d = b
    <2> HIDE DEF n
    <2>1. alerts'[d] = [alerts[b] EXCEPT ![i] = n]
        BY <1>1, <1>4, <1>6
    <2>2. Len(alerts'[d]) = Len(alerts[d])
        BY <2>1, <1>2, <1>6
    <2>3. \A j \in 1 .. Len(alerts[d]) :
             alerts'[d][j] = IF j = i THEN n ELSE alerts[d][j]
        BY <2>1, <1>2, <1>6
    <2> QED
        BY <2>2, <2>3, <1>3, <1>6 DEF AlertOne
<1> QED
    BY <1>5, <1>6

\* Starting an alert adds it behind the ones that were started before.
LEMMA SendAlertFrame ==
    ASSUME TypeOK, NEW b \in Bots, NEW c \in Callers, SendAlert(b, c)
    PROVE  /\ \A d \in Bots : d # b => alerts'[d] = alerts[d]
           /\ Len(alerts'[b]) = Len(alerts[b]) + 1
           /\ \A j \in 1 .. Len(alerts[b]) : alerts'[b][j] = alerts[b][j]
           /\ alerts'[b][Len(alerts[b]) + 1].by = c
           /\ alerts'[b][Len(alerts[b]) + 1].fatal = (call[b][c] = "alertFatal")
<1> DEFINE a == [by |-> c, fatal |-> call[b][c] = "alertFatal",
                 next |-> 1, failed |-> FALSE]
<1>1. alerts' = [alerts EXCEPT ![b] = Append(alerts[b], a)]
    BY DEF SendAlert
<1>2. a.by = c /\ a.fatal = (call[b][c] = "alertFatal")
    OBVIOUS
<1>3. a \in Alert /\ alerts[b] \in Seq(Alert) /\ alerts \in [Bots -> Seq(Alert)]
    BY NewAlertType DEF TypeOK
<1> HIDE DEF a
<1> QED
    BY <1>1, <1>2, <1>3

-----------------------------------------------------------------------------
(***************************************************************************)
(* The invariant is preserved by every step                                *)
(***************************************************************************)

\* Every bot has a BotType.
LEMMA SameTypeSelf == \A b \in Bots : SameType(b, b)
BY SupervisorAssumption DEF SameType

\* Between addBot and stopBot the goroutine of a bot neither starts nor ends.
LEMMA BotPcFrame ==
    ASSUME TypeOK, NEW b \in Bots, BotGoroutine(b), ~AddBot(b), ~StopBotStatus(b)
    PROVE  /\ UNCHANGED status
           /\ \A d \in Bots : /\ botPc'[d] = "ready" <=> botPc[d] = "ready"
                              /\ botPc'[d] = "stopped" <=> botPc[d] = "stopped"
<1>1. UNCHANGED status
    BY DEF BotGoroutine, StartBot, BotRunReturns, BotRunPanics, Unwatch, NotifyPanic,
           NotifyShutdown, NotifyFromDefer, WgDone
<1>2. \E from, to \in BotPcs \ {"ready", "stopped"} : Goto(b, from, to)
    BY DEF BotPcs, BotGoroutine, StartBot, BotRunReturns, BotRunPanics, Unwatch,
           NotifyPanic, NotifyShutdown, NotifyFromDefer, WgDone
<1>3. PICK from, to \in BotPcs \ {"ready", "stopped"} :
            botPc[b] = from /\ botPc' = [botPc EXCEPT ![b] = to]
    BY <1>2 DEF Goto
<1> QED
    BY <1>1, <1>3 DEF TypeOK

\* Only AddBot and StopBotStatus write the status, the latter that of every bot
\* of the type that was added.
LEMMA StatusStep == TypeOK /\ StatusFollowsBot /\ [Next]_vars => StatusFollowsBot'
<1> SUFFICES ASSUME TypeOK, StatusFollowsBot, [Next]_vars
             PROVE  StatusFollowsBot'
    OBVIOUS
<1> USE DEF StatusFollowsBot
<1>1. CASE UNCHANGED <<status, botPc>>
    BY <1>1
<1>2. ASSUME NEW b \in Bots, BotGoroutine(b) PROVE StatusFollowsBot'
    <2>1. CASE StopBotStatus(b)
        <3>1. /\ botPc[b] = "wgdone" /\ botPc'[b] = "stopped"
              /\ \A d \in Bots : d # b => botPc'[d] = botPc[d]
              /\ \A d \in Bots : status'[d] = IF SameType(d, b) /\ status[d] = "running"
                                               THEN "finished" ELSE status[d]
            BY <2>1 DEF TypeOK, StopBotStatus, Goto
        <3>2. ASSUME NEW d \in Bots
              PROVE  /\ status'[d] = "none" <=> botPc'[d] = "ready"
                     /\ botPc'[d] = "stopped" => status'[d] = "finished"
            <4>1. CASE d # b
                BY <3>1, <4>1
            <4>2. CASE d = b
                <5>1. SameType(b, b) /\ status[b] \in {"running", "finished"}
                    BY <3>1, SameTypeSelf DEF TypeOK
                <5> QED
                    BY <3>1, <4>2, <5>1
            <4> QED
                BY <4>1, <4>2
        <3>3. ASSUME NEW d \in Bots, status'[d] = "finished"
              PROVE  \E x \in Bots : SameType(x, d) /\ botPc'[x] = "stopped"
            <4>1. CASE status[d] = "finished"
                <5> PICK x \in Bots : SameType(x, d) /\ botPc[x] = "stopped"
                    BY <4>1
                <5> QED
                    BY <3>1
            <4>2. CASE status[d] # "finished"
                <5>1. SameType(b, d)
                    BY <3>1, <3>3, <4>2 DEF SameType
                <5> QED
                    BY <3>1, <5>1
            <4> QED
                BY <4>1, <4>2
        <3> QED
            BY <3>2, <3>3
    <2>2. CASE AddBot(b)
        <3>1. /\ botPc[b] = "ready" /\ botPc'[b] = "added" /\ status'[b] = "running"
              /\ \A d \in Bots : d # b => botPc'[d] = botPc[d] /\ status'[d] = status[d]
            BY <2>2 DEF TypeOK, AddBot, Goto
        <3> QED
            BY <3>1
    <2>3. CASE ~StopBotStatus(b) /\ ~AddBot(b)
        <3>1. /\ UNCHANGED status
              /\ \A d \in Bots : /\ botPc'[d] = "ready" <=> botPc[d] = "ready"
                                 /\ botPc'[d] = "stopped" <=> botPc[d] = "stopped"
            BY <1>2, <2>3, BotPcFrame
        <3> QED
            BY <3>1
    <2> QED
        BY <2>1, <2>2, <2>3
<1>3. ASSUME NEW b \in Bots, NEW c \in Callers, ErrNotifier(b, c)
      PROVE  StatusFollowsBot'
    BY <1>3 DEF ErrNotifier, Escalate, HandleFatal, HandleOther, SendAlert
<1>4. ASSUME NEW b \in Bots, AlertGoroutine(b) PROVE StatusFollowsBot'
    BY <1>4, AlertGoroutineFrame
<1> QED
    BY <1>1, <1>2, <1>3, <1>4 DEF Next, vars, CancelRunner, Run, RunReturns

\* The value of call after an assignment to one of its places.
LEMMA CallUpdate ==
    ASSUME TypeOK, NEW b \in Bots, NEW c \in Callers, NEW v,
           call' = [call EXCEPT ![b][c] = v], NEW d \in Bots, NEW e \in Callers
    PROVE  call'[d][e] = IF d = b /\ e = c THEN v ELSE call[d][e]
BY DEF TypeOK

\* A goroutine inside errNotifier moves only itself.
LEMMA CallFrame ==
    ASSUME TypeOK, NEW b \in Bots, NEW c \in Callers, ErrNotifier(b, c)
    PROVE  /\ \A d \in Bots : d # b => call'[d] = call[d]
           /\ \A e \in Callers : e # c => call'[b][e] = call[b][e]
<1>1. ASSUME NEW kind \in Kinds, Escalate(b, c, kind)
      PROVE  call' = call \/ call' = [call EXCEPT ![b][c] = kind]
    BY <1>1 DEF Escalate
<1>2. ASSUME NEW stop \in BOOLEAN, NEW alert \in BOOLEAN,
             HandleOther(b, c, stop, alert)
      PROVE  call' = [call EXCEPT ![b][c] = IF alert THEN "alertOther" ELSE "idle"]
    BY <1>2 DEF HandleOther
<1>3. \E v : call' = call \/ call' = [call EXCEPT ![b][c] = v]
    BY <1>1, <1>2 DEF ErrNotifier, HandleFatal, SendAlert
<1> QED
    BY <1>3 DEF TypeOK

\* Nobody holds errNotifier before Bot.Run has it.
LEMMA NoCallStep == TypeOK /\ NoCallBeforeRun /\ [Next]_vars => NoCallBeforeRun'
<1> SUFFICES ASSUME TypeOK, NoCallBeforeRun, [Next]_vars
             PROVE  NoCallBeforeRun'
    OBVIOUS
<1> USE DEF NoCallBeforeRun
<1>1. CASE UNCHANGED <<call, botPc>>
    BY <1>1
<1>2. ASSUME NEW b \in Bots, BotGoroutine(b) PROVE NoCallBeforeRun'
    <2>1. CASE NotifyPanic(b) \/ NotifyShutdown(b)
        <3>1. botPc'[b] \notin {"ready", "added"}
            BY <2>1 DEF TypeOK, NotifyPanic, NotifyShutdown, NotifyFromDefer, Goto
        <3>2. \A d \in Bots : d # b => botPc'[d] = botPc[d] /\ call'[d] = call[d]
            BY <2>1 DEF TypeOK, NotifyPanic, NotifyShutdown, NotifyFromDefer, Goto
        <3> QED
            BY <3>1, <3>2
    <2>2. CASE ~(NotifyPanic(b) \/ NotifyShutdown(b))
        <3>1. call' = call
            BY <1>2, <2>2 DEF BotGoroutine, AddBot, StartBot, BotRunReturns,
                BotRunPanics, Unwatch, WgDone, StopBotStatus
        <3>2. \A d \in Bots : botPc'[d] \in {"ready", "added"}
                                => botPc[d] \in {"ready", "added"}
            BY <1>2, <2>2 DEF TypeOK, BotGoroutine, Goto, AddBot, StartBot,
                BotRunReturns, BotRunPanics, Unwatch, WgDone, StopBotStatus
        <3> QED
            BY <3>1, <3>2
    <2> QED
        BY <2>1, <2>2
<1>3. ASSUME NEW b \in Bots, NEW c \in Callers, ErrNotifier(b, c)
      PROVE  NoCallBeforeRun'
    <2>1. botPc' = botPc
        BY <1>3 DEF ErrNotifier, Escalate, HandleFatal, HandleOther, SendAlert
    <2>2. \A d \in Bots : d # b => call'[d] = call[d]
        BY <1>3, CallFrame
    <2>3. botPc[b] \notin {"ready", "added"}
        BY <1>3 DEF ErrNotifier, Escalate, MayEscalate, HandleFatal, HandleOther,
                    SendAlert
    <2> QED
        BY <2>1, <2>2, <2>3
<1>4. ASSUME NEW b \in Bots, AlertGoroutine(b) PROVE NoCallBeforeRun'
    BY <1>4, AlertGoroutineFrame
<1> QED
    BY <1>1, <1>2, <1>3, <1>4 DEF Next, vars, CancelRunner, Run, RunReturns

\* A context once done stays done.
LEMMA DoneStep ==
    ASSUME TypeOK, [Next]_vars, NEW b \in Bots, Done(b)
    PROVE  Done(b)'
<1>1. CASE UNCHANGED <<runnerCtx, botCtx>>
    BY <1>1 DEF Done
<1>2. ASSUME NEW d \in Bots, BotGoroutine(d) PROVE Done(b)'
    BY <1>2 DEF Done, BotGoroutine, AddBot, StartBot, BotRunReturns, BotRunPanics,
                Unwatch, NotifyPanic, NotifyShutdown, NotifyFromDefer, WgDone,
                StopBotStatus
<1>3. ASSUME NEW d \in Bots, NEW c \in Callers, ErrNotifier(d, c) PROVE Done(b)'
    BY <1>3 DEF TypeOK, Done, ErrNotifier, Escalate, HandleFatal, HandleOther,
                StopBot, SendAlert
<1>4. ASSUME NEW d \in Bots, AlertGoroutine(d) PROVE Done(b)'
    BY <1>4, AlertGoroutineFrame DEF Done
<1> QED
    BY <1>1, <1>2, <1>3, <1>4 DEF Next, vars, CancelRunner, Run, RunReturns, Done

\* Only the goroutine of the bot takes the bot to its exit, and it calls
\* errNotifier on the way.
LEMMA LeavingStep == TypeOK /\ LeavingBotIsDone /\ [Next]_vars => LeavingBotIsDone'
<1> SUFFICES ASSUME TypeOK, LeavingBotIsDone, [Next]_vars, NEW d \in Bots
             PROVE  /\ botPc'[d] = "finishing" => Done(d)' \/ call'[d][Main] = "fatal"
                    /\ botPc'[d] \in {"wgdone", "stopped"} => Done(d)'
    BY DEF LeavingBotIsDone, Exited
<1>1. CASE Done(d)
    BY <1>1, DoneStep
<1>2. CASE ~Done(d)
    <2>0. /\ botPc[d] = "finishing" => call[d][Main] = "fatal"
          /\ botPc[d] \notin {"wgdone", "stopped"}
        BY <1>2 DEF LeavingBotIsDone, Exited
    <2>1. CASE UNCHANGED <<call, botPc>>
        BY <2>0, <2>1
    <2>2. ASSUME NEW b \in Bots, BotGoroutine(b)
          PROVE  /\ botPc'[d] = "finishing" => call'[d][Main] = "fatal"
                 /\ botPc'[d] \notin {"wgdone", "stopped"}
        <3>1. CASE b # d
            BY <2>0, <2>2, <3>1 DEF TypeOK, BotGoroutine, Goto, AddBot, StartBot,
                BotRunReturns, BotRunPanics, Unwatch, NotifyPanic, NotifyShutdown,
                NotifyFromDefer, WgDone, StopBotStatus
        <3>2. CASE b = d /\ NotifyShutdown(b)
            BY <1>2, <3>2 DEF TypeOK, NotifyShutdown, NotifyFromDefer, Goto, Callers
        <3>3. CASE b = d /\ ~NotifyShutdown(b)
            BY <2>0, <2>2, <3>3 DEF TypeOK, BotGoroutine, Goto, AddBot, StartBot,
                BotRunReturns, BotRunPanics, Unwatch, NotifyPanic,
                NotifyFromDefer, WgDone, StopBotStatus
        <3> QED
            BY <3>1, <3>2, <3>3
    <2>3. ASSUME NEW b \in Bots, NEW c \in Callers, ErrNotifier(b, c)
          PROVE  /\ botPc' = botPc
                 /\ call[d][Main] = "fatal" => Done(d)' \/ call'[d][Main] = "fatal"
        <3>1. botPc' = botPc
            BY <2>3 DEF ErrNotifier, Escalate, HandleFatal, HandleOther, SendAlert
        <3>2. CASE b # d \/ c # Main
            <4>1. call'[d][Main] = call[d][Main]
                BY <2>3, <3>2, CallFrame DEF Callers
            <4> QED
                BY <3>1, <4>1
        <3>3. CASE b = d /\ c = Main /\ call[d][Main] = "fatal"
            <4>1. HandleFatal(b, c)
                BY <2>3, <3>3 DEF ErrNotifier, Escalate, HandleOther, SendAlert
            <4> QED
                BY <3>1, <3>3, <4>1 DEF TypeOK, HandleFatal, StopBot, Done
        <3> QED
            BY <3>1, <3>2, <3>3
    <2>4. ASSUME NEW b \in Bots, AlertGoroutine(b) PROVE UNCHANGED <<call, botPc>>
        BY <2>4, AlertGoroutineFrame
    <2> QED
        BY <2>0, <2>1, <2>2, <2>3, <2>4
        DEF Next, vars, CancelRunner, Run, RunReturns
<1> QED
    BY <1>1, <1>2

\* Cancellation, its reason and the alert about it belong together.
LEMMA CancelStep ==
    TypeOK /\ CancelHasReason /\ FatalAlertFollowsCancel /\ [Next]_vars
        => CancelHasReason' /\ FatalAlertFollowsCancel'
<1> SUFFICES ASSUME TypeOK, CancelHasReason, FatalAlertFollowsCancel, [Next]_vars,
                    NEW d \in Bots
             PROVE  /\ botCtx'[d] => reasons'[d] # {}
                    /\ "fatal" \in reasons'[d] <=> FatalAlertStarted(d)'
                    /\ FatalAlertStarted(d)' => botCtx'[d]
    BY DEF CancelHasReason, FatalAlertFollowsCancel
<1>0. /\ botCtx[d] => reasons[d] # {}
      /\ "fatal" \in reasons[d] <=> FatalAlertStarted(d)
      /\ FatalAlertStarted(d) => botCtx[d]
    BY DEF CancelHasReason, FatalAlertFollowsCancel
<1>1. CASE UNCHANGED <<botCtx, reasons, call, alerts>>
    BY <1>0, <1>1 DEF FatalAlertStarted
<1>2. ASSUME NEW b \in Bots, BotGoroutine(b)
      PROVE  UNCHANGED <<botCtx, reasons>> /\ (FatalAlertStarted(d)' <=> FatalAlertStarted(d))
    <2>1. UNCHANGED <<botCtx, reasons, alerts>>
        BY <1>2 DEF BotGoroutine, AddBot, StartBot, BotRunReturns, BotRunPanics,
            Unwatch, NotifyPanic, NotifyShutdown, NotifyFromDefer, WgDone, StopBotStatus
    <2>2. \/ call' = call
          \/ call[b][Main] = "idle" /\ call' = [call EXCEPT ![b][Main] = "fatal"]
        BY <1>2 DEF BotGoroutine, AddBot, StartBot, BotRunReturns, BotRunPanics,
            Unwatch, NotifyPanic, NotifyShutdown, NotifyFromDefer, WgDone, StopBotStatus
    <2>3. \A c \in Callers : call'[d][c] = "alertFatal" <=> call[d][c] = "alertFatal"
        <3>1. Main \in Callers
            BY DEF Callers
        <3>2. CASE call' = call
            BY <3>2
        <3>3. CASE call[b][Main] = "idle" /\ call' = [call EXCEPT ![b][Main] = "fatal"]
            <4> SUFFICES ASSUME NEW c \in Callers
                         PROVE  call'[d][c] = "alertFatal" <=> call[d][c] = "alertFatal"
                OBVIOUS
            <4>1. call'[d][c] = IF d = b /\ c = Main THEN "fatal" ELSE call[d][c]
                BY <3>1, <3>3 DEF TypeOK
            <4>2. CASE d = b /\ c = Main
                BY <3>3, <4>1, <4>2
            <4>3. CASE ~(d = b /\ c = Main)
                BY <4>1, <4>3
            <4> QED
                BY <4>2, <4>3
        <3> QED
            BY <2>2, <3>2, <3>3
    <2> QED
        BY <2>1, <2>3 DEF FatalAlertStarted
<1>3. ASSUME NEW b \in Bots, NEW c \in Callers, ErrNotifier(b, c)
      PROVE  /\ botCtx'[d] => reasons'[d] # {}
             /\ "fatal" \in reasons'[d] <=> FatalAlertStarted(d)'
             /\ FatalAlertStarted(d)' => botCtx'[d]
    <2>1. ASSUME NEW kind \in Kinds, Escalate(b, c, kind)
          PROVE  /\ UNCHANGED <<botCtx, reasons, alerts>>
                 /\ \A e \in Callers : call'[d][e] = "alertFatal"
                                           <=> call[d][e] = "alertFatal"
        <3>1. \/ call' = call
              \/ call[b][c] = "idle" /\ call' = [call EXCEPT ![b][c] = kind]
            BY <2>1 DEF Escalate
        <3>2. kind # "alertFatal"
            BY DEF Kinds
        <3> QED
            BY <2>1, <3>1, <3>2 DEF TypeOK, Escalate
    <2>2. CASE HandleFatal(b, c)
        <3>1. CASE d # b
            <4>1. botCtx'[d] = botCtx[d] /\ reasons'[d] = reasons[d]
                /\ call'[d] = call[d] /\ alerts'[d] = alerts[d]
                BY <2>2, <3>1 DEF TypeOK, HandleFatal, StopBot
            <4> QED
                BY <1>0, <4>1 DEF FatalAlertStarted
        <3>2. CASE d = b
            <4>1. botCtx'[b] /\ "fatal" \in reasons'[b]
                BY <2>2 DEF TypeOK, HandleFatal, StopBot
            <4>2. call'[b][c] = "alertFatal"
                BY <2>2 DEF TypeOK, HandleFatal
            <4> QED
                BY <3>2, <4>1, <4>2 DEF FatalAlertStarted
        <3> QED
            BY <3>1, <3>2
    <2>3. ASSUME NEW stop \in BOOLEAN, NEW alert \in BOOLEAN,
                 HandleOther(b, c, stop, alert)
          PROVE  /\ botCtx'[d] => reasons'[d] # {}
                 /\ "fatal" \in reasons'[d] <=> "fatal" \in reasons[d]
                 /\ botCtx[d] => botCtx'[d]
                 /\ alerts' = alerts
                 /\ \A e \in Callers : call'[d][e] = "alertFatal"
                                           <=> call[d][e] = "alertFatal"
        <3>1. \/ UNCHANGED <<botCtx, reasons>>
              \/ /\ botCtx' = [botCtx EXCEPT ![b] = TRUE]
                 /\ reasons' = [reasons EXCEPT ![b] = @ \union {"directive"}]
            BY <2>3 DEF HandleOther, StopBot
        <3>2. /\ botCtx'[d] => reasons'[d] # {}
              /\ "fatal" \in reasons'[d] <=> "fatal" \in reasons[d]
              /\ botCtx[d] => botCtx'[d]
            <4>1. CASE UNCHANGED <<botCtx, reasons>>
                BY <1>0, <4>1
            <4>2. CASE /\ botCtx' = [botCtx EXCEPT ![b] = TRUE]
                       /\ reasons' = [reasons EXCEPT ![b] = @ \union {"directive"}]
                <5>1. /\ botCtx'[d] = IF d = b THEN TRUE ELSE botCtx[d]
                      /\ reasons'[d] = IF d = b THEN reasons[b] \union {"directive"}
                                                ELSE reasons[d]
                    BY <4>2 DEF TypeOK
                <5> QED
                    BY <1>0, <5>1
            <4> QED
                BY <3>1, <4>1, <4>2
        <3>3. /\ call[b][c] = "other"
              /\ \/ call' = [call EXCEPT ![b][c] = "idle"]
                 \/ call' = [call EXCEPT ![b][c] = "alertOther"]
            BY <2>3 DEF HandleOther
        <3>4. \A e \in Callers : call'[d][e] = "alertFatal"
                                     <=> call[d][e] = "alertFatal"
            <4> SUFFICES ASSUME NEW e \in Callers
                         PROVE  call'[d][e] = "alertFatal" <=> call[d][e] = "alertFatal"
                OBVIOUS
            <4>1. \/ call'[d][e] = IF d = b /\ e = c THEN "idle" ELSE call[d][e]
                  \/ call'[d][e] = IF d = b /\ e = c THEN "alertOther" ELSE call[d][e]
                BY <3>3, CallUpdate
            <4> QED
                BY <3>3, <4>1
        <3> QED
            BY <2>3, <3>2, <3>4 DEF HandleOther
    <2>4. CASE SendAlert(b, c)
        <3>1. UNCHANGED <<botCtx, reasons>>
            BY <2>4 DEF SendAlert
        <3>2. FatalAlertStarted(d)' <=> FatalAlertStarted(d)
            <4>1. CASE d # b
                BY <2>4, <4>1, SendAlertFrame
                DEF FatalAlertStarted, TypeOK, SendAlert
            <4>2. CASE d = b /\ call[b][c] = "alertFatal"
                <5>1. FatalAlertStarted(d)
                    BY <4>2 DEF FatalAlertStarted
                <5>2. Len(alerts[b]) + 1 \in 1 .. Len(alerts'[b])
                    BY <2>4, SendAlertFrame DEF TypeOK
                <5>3. alerts'[b][Len(alerts[b]) + 1].fatal
                    BY <2>4, <4>2, SendAlertFrame
                <5> QED
                    BY <4>2, <5>1, <5>2, <5>3 DEF FatalAlertStarted
            <4>3. CASE d = b /\ call[b][c] # "alertFatal"
                <5>1. \A e \in Callers : call'[b][e] = "alertFatal"
                                            <=> call[b][e] = "alertFatal"
                    BY <2>4, <4>3 DEF TypeOK, SendAlert
                <5>2. ~alerts'[b][Len(alerts[b]) + 1].fatal
                    BY <2>4, <4>3, SendAlertFrame
                <5>3. /\ Len(alerts[b]) \in Nat
                      /\ Len(alerts'[b]) = Len(alerts[b]) + 1
                      /\ \A j \in 1 .. Len(alerts[b]) : alerts'[b][j] = alerts[b][j]
                    BY <2>4, SendAlertFrame DEF TypeOK
                <5>4. (\E j \in 1 .. Len(alerts'[b]) : alerts'[b][j].fatal)
                        <=> (\E j \in 1 .. Len(alerts[b]) : alerts[b][j].fatal)
                    BY SMTT(30), <5>2, <5>3
                <5> QED
                    BY <4>3, <5>1, <5>4 DEF FatalAlertStarted
            <4> QED
                BY <4>1, <4>2, <4>3
        <3> QED
            BY <1>0, <3>1, <3>2
    <2> QED
        BY <1>0, <1>3, <2>1, <2>2, <2>3, <2>4 DEF ErrNotifier, FatalAlertStarted
<1>4. ASSUME NEW b \in Bots, AlertGoroutine(b)
      PROVE  UNCHANGED <<botCtx, reasons>> /\ (FatalAlertStarted(d)' <=> FatalAlertStarted(d))
    BY <1>4, AlertGoroutineFrame DEF FatalAlertStarted
<1> QED
    BY <1>0, <1>1, <1>2, <1>3, <1>4 DEF Next, vars, CancelRunner, Run, RunReturns

\* A goroutine that already raised a fatal alert finds the context done.
LEMMA OneAlertStep ==
    TypeOK /\ FatalAlertFollowsCancel /\ OneFatalAlertPerCaller /\ [Next]_vars
        => OneFatalAlertPerCaller'
<1> SUFFICES ASSUME TypeOK, FatalAlertFollowsCancel, OneFatalAlertPerCaller,
                    [Next]_vars, NEW d \in Bots, NEW e \in Callers
             PROVE  /\ \A i, j \in FatalAlertsBy(d, e)' : i = j
                    /\ FatalAlertsBy(d, e)' # {}
                          => call'[d][e] \notin {"fatal", "alertFatal"}
    BY DEF OneFatalAlertPerCaller
<1>0. /\ \A i, j \in FatalAlertsBy(d, e) : i = j
      /\ FatalAlertsBy(d, e) # {} => call[d][e] \notin {"fatal", "alertFatal"}
      /\ FatalAlertsBy(d, e) # {} => Done(d)
    BY DEF OneFatalAlertPerCaller, FatalAlertFollowsCancel, FatalAlertStarted,
           FatalAlertsBy, Done
<1>1. CASE UNCHANGED <<call, alerts>>
    BY <1>0, <1>1 DEF FatalAlertsBy
<1>2. ASSUME NEW b \in Bots, BotGoroutine(b)
      PROVE  /\ FatalAlertsBy(d, e)' = FatalAlertsBy(d, e)
             /\ Done(d) => call'[d][e] = call[d][e]
    <2>1. alerts' = alerts
        BY <1>2 DEF BotGoroutine, AddBot, StartBot, BotRunReturns, BotRunPanics,
            Unwatch, NotifyPanic, NotifyShutdown, NotifyFromDefer, WgDone, StopBotStatus
    <2>2. \/ call' = call
          \/ ~Done(b) /\ call' = [call EXCEPT ![b][Main] = "fatal"]
        BY <1>2 DEF BotGoroutine, AddBot, StartBot, BotRunReturns, BotRunPanics,
            Unwatch, NotifyPanic, NotifyShutdown, NotifyFromDefer, WgDone, StopBotStatus
    <2>3. CASE d # b
        BY <2>1, <2>2, <2>3 DEF TypeOK, FatalAlertsBy
    <2>4. CASE d = b
        BY <2>1, <2>2, <2>4 DEF FatalAlertsBy
    <2> QED
        BY <2>3, <2>4
<1>3. ASSUME NEW b \in Bots, NEW c \in Callers, ErrNotifier(b, c), ~SendAlert(b, c)
      PROVE  /\ FatalAlertsBy(d, e)' = FatalAlertsBy(d, e)
             /\ Done(d) /\ call[d][e] \notin {"fatal", "alertFatal"}
                    => call'[d][e] \notin {"fatal", "alertFatal"}
    <2>1. alerts' = alerts
        BY <1>3 DEF ErrNotifier, Escalate, HandleFatal, HandleOther
    <2>2. CASE ~(d = b /\ e = c)
        <3>1. call'[d][e] = call[d][e]
            BY <1>3, <2>2, CallFrame
        <3> QED
            BY <2>1, <3>1 DEF FatalAlertsBy
    <2>3. CASE d = b /\ e = c
        <3>1. ASSUME NEW kind \in Kinds, Escalate(b, c, kind), Done(d) PROVE call' = call
            BY <2>3, <3>1 DEF Escalate
        <3>2. ASSUME NEW stop \in BOOLEAN, NEW alert \in BOOLEAN,
                     HandleOther(b, c, stop, alert)
              PROVE  call'[b][c] \in {"alertOther", "idle"}
            BY <3>2 DEF TypeOK, HandleOther
        <3> QED
            BY <1>3, <2>1, <2>3, <3>1, <3>2 DEF ErrNotifier, HandleFatal, FatalAlertsBy
    <2> QED
        BY <2>2, <2>3
<1>4. ASSUME NEW b \in Bots, NEW c \in Callers, SendAlert(b, c)
      PROVE  /\ \A i, j \in FatalAlertsBy(d, e)' : i = j
             /\ FatalAlertsBy(d, e)' # {} => call'[d][e] \notin {"fatal", "alertFatal"}
    <2>1. CASE d # b
        <3>1. call'[d] = call[d] /\ alerts'[d] = alerts[d]
            BY <1>4, <2>1, SendAlertFrame DEF TypeOK, SendAlert
        <3> QED
            BY <1>0, <3>1 DEF FatalAlertsBy
    <2>2. CASE d = b
        <3> DEFINE n == Len(alerts[b])
        <3>1. /\ n \in Nat
              /\ Len(alerts'[b]) = n + 1
              /\ \A j \in 1 .. n : alerts'[b][j] = alerts[b][j]
              /\ alerts'[b][n + 1].by = c
              /\ alerts'[b][n + 1].fatal = (call[b][c] = "alertFatal")
            BY <1>4, SendAlertFrame DEF TypeOK
        <3>2. \A i : i \in 1 .. (n + 1) <=> i \in 1 .. n \/ i = n + 1
            BY <3>1
        <3> HIDE DEF n
        <3>3. CASE e = c /\ call[b][c] = "alertFatal"
            <4>1. FatalAlertsBy(d, e) = {}
                BY <1>0, <2>2, <3>3
            <4>2. \A i \in FatalAlertsBy(d, e)' : i = n + 1
                BY <2>2, <3>1, <3>2, <4>1 DEF FatalAlertsBy, n
            <4>3. call'[d][e] = "idle"
                BY <1>4, <2>2, <3>3 DEF TypeOK, SendAlert
            <4> QED
                BY <4>2, <4>3
        <3>4. CASE ~(e = c /\ call[b][c] = "alertFatal")
            <4>1. FatalAlertsBy(d, e)' = FatalAlertsBy(d, e)
                <5>1. n + 1 \notin FatalAlertsBy(d, e)'
                    BY <2>2, <3>1, <3>4 DEF FatalAlertsBy
                <5>2. \A i : i \in FatalAlertsBy(d, e)'
                              <=> i \in 1 .. n /\ i \in FatalAlertsBy(d, e)'
                    BY <2>2, <3>1, <3>2, <5>1 DEF FatalAlertsBy
                <5>3. \A i \in 1 .. n : i \in FatalAlertsBy(d, e)'
                                             <=> i \in FatalAlertsBy(d, e)
                    BY <2>2, <3>1, <3>2 DEF FatalAlertsBy, n
                <5>4. \A i \in FatalAlertsBy(d, e) : i \in 1 .. n
                    BY <2>2 DEF FatalAlertsBy, n
                <5> QED
                    BY <5>2, <5>3, <5>4
            <4>2. call'[d][e] = call[d][e] \/ call'[d][e] = "idle"
                BY <1>4, <2>2 DEF TypeOK, SendAlert
            <4> QED
                BY <1>0, <4>1, <4>2
        <3> QED
            BY <3>3, <3>4
    <2> QED
        BY <2>1, <2>2
<1>5. ASSUME NEW b \in Bots, AlertGoroutine(b)
      PROVE  FatalAlertsBy(d, e)' = FatalAlertsBy(d, e) /\ call' = call
    BY <1>5, AlertGoroutineFrame DEF FatalAlertsBy
<1> QED
    BY <1>0, <1>1, <1>2, <1>3, <1>4, <1>5
    DEF Next, vars, CancelRunner, Run, RunReturns

\* The number of errors that a bot escalated does not fall.
LEMMA EscalatedStep ==
    ASSUME TypeOK, [Next]_vars, NEW b \in Bots
    PROVE  escalated'[b] \in Nat /\ (escalated[b] > 0 => escalated'[b] > 0)
<1>1. CASE UNCHANGED escalated
  BY <1>1 DEF TypeOK
<1>2. ASSUME NEW d \in Bots, NEW c \in Callers, NEW kind \in Kinds, Escalate(d, c, kind)
      PROVE  escalated'[b] \in Nat /\ (escalated[b] > 0 => escalated'[b] > 0)
  BY <1>2 DEF TypeOK, Escalate
<1>3. ASSUME NEW d \in Bots, BotGoroutine(d) \/ AlertGoroutine(d)
      PROVE  UNCHANGED escalated
  BY <1>3 DEF BotGoroutine, AddBot, StartBot, BotRunReturns, BotRunPanics, Unwatch,
              NotifyPanic, NotifyShutdown, NotifyFromDefer, WgDone, StopBotStatus,
              AlertGoroutine, AlertOne
<1>4. ASSUME NEW d \in Bots, NEW c \in Callers, ErrNotifier(d, c), ~UNCHANGED escalated
      PROVE  \E kind \in Kinds : Escalate(d, c, kind)
  BY <1>4 DEF ErrNotifier, HandleFatal, HandleOther, SendAlert
<1>5. QED
  BY <1>1, <1>2, <1>3, <1>4 DEF Next, vars, CancelRunner, Run, RunReturns

-----------------------------------------------------------------------------
(***************************************************************************)
(* The theorems                                                            *)
(***************************************************************************)

\* The invariant holds before Run is called.
LEMMA InitIndInv == Init => IndInv
<1> SUFFICES ASSUME Init PROVE IndInv
    OBVIOUS
<1>1. TypeOK
    <2>1. alerts \in [Bots -> Seq(Alert)]
        BY DEF Init
    <2>2. call \in [Bots -> [Callers -> Calls]]
        BY DEF Init, Calls
    <2> QED
        BY <2>1, <2>2 DEF Init, TypeOK, RunPcs, BotPcs
<1>2. \A b \in Bots, c \in Callers : /\ call[b][c] = "idle"
                                     /\ alerts[b] = <<>> /\ reasons[b] = {}
                                     /\ ~botCtx[b] /\ botPc[b] = "ready"
                                     /\ status[b] = "none"
    BY DEF Init
<1>3. Main \in Callers
    BY DEF Callers
<1>4. StatusFollowsBot /\ NoCallBeforeRun /\ LeavingBotIsDone
    BY <1>2, <1>3 DEF StatusFollowsBot, NoCallBeforeRun, LeavingBotIsDone, Exited
<1>5. CancelHasReason /\ FatalAlertFollowsCancel /\ OneFatalAlertPerCaller
    <2>1. \A b \in Bots : 1 .. Len(alerts[b]) = {}
        <3>1. \A b \in Bots : Len(alerts[b]) = 0
            BY DEF Init
        <3>2. 1 .. 0 = {}
            OBVIOUS
        <3> QED
            BY <3>1, <3>2, Zenon
    <2> QED
        BY <1>2, <1>3, <2>1 DEF CancelHasReason, FatalAlertFollowsCancel,
           FatalAlertStarted, OneFatalAlertPerCaller, FatalAlertsBy
<1> QED
    BY <1>1, <1>4, <1>5 DEF IndInv

\* The inductive invariant holds in every reachable state of the runner.
THEOREM InductiveInvariant == Spec => []IndInv
<1>1. IndInv /\ [Next]_vars => IndInv'
    BY TypeStep, StatusStep, NoCallStep, LeavingStep, CancelStep, OneAlertStep
    DEF IndInv
<1> QED
    BY <1>1, InitIndInv, PTL DEF Spec

\* Type correctness of the runner's state.
THEOREM TypeCorrect == Spec => []TypeOK
<1>1. IndInv => TypeOK
    BY DEF IndInv
<1> QED
    BY <1>1, InductiveInvariant, PTL

\* No interleaving of errNotifier calls loses the alert about a bot that stopped
\* without the developer or the supervising function wanting it.
THEOREM UnintentionalStopsAreAlerted == Spec => []UnintentionalStopIsAlerted
<1>1. IndInv => UnintentionalStopIsAlerted
    BY ZenonT(60) DEF IndInv, TypeOK, Reasons, UnintentionalStopIsAlerted, LeavingBotIsDone,
           CancelHasReason, Done
<1> QED
    BY <1>1, InductiveInvariant, PTL

\* A goroutine of a bot raises at most one fatal alert, a panic followed by the
\* deferred "shutdown bot" error included.
THEOREM FatalAlertsAreNotRepeated == Spec => []OneFatalAlertPerCaller
<1>1. IndInv => OneFatalAlertPerCaller
    BY DEF IndInv
<1> QED
    BY <1>1, InductiveInvariant, PTL

\* A bot is reported as finished only after one of its BotType ended canceled,
\* and always after it ended itself, however the bots are spread over BotTypes.
THEOREM FinishedTypesWereCanceled == Spec => []FinishedTypeWasCanceled
<1>1. IndInv => FinishedTypeWasCanceled
    <2> SUFFICES ASSUME StatusFollowsBot, LeavingBotIsDone, NEW b \in Bots
                 PROVE  /\ status[b] = "finished"
                              => \E x \in Bots : /\ SameType(x, b)
                                                 /\ botPc[x] = "stopped" /\ Done(x)
                        /\ botPc[b] = "stopped" => status[b] = "finished"
        BY DEF IndInv, FinishedTypeWasCanceled
    <2>1. \A x \in Bots : botPc[x] = "stopped" => Done(x)
        BY DEF LeavingBotIsDone, Exited
    <2> QED
        BY <2>1 DEF StatusFollowsBot
<1> QED
    BY <1>1, InductiveInvariant, PTL

-----------------------------------------------------------------------------
(***************************************************************************)
(* The runner implements BotLifecycle (its safety part)                    *)
(***************************************************************************)

\* What a step leaves alone it also leaves alone in BotLifecycle.
LEMMA AbstractFrame ==
    /\ UNCHANGED botPc => UNCHANGED phaseBar
    /\ UNCHANGED alerts => UNCHANGED notifiedBar
BY DEF phaseBar, notifiedBar

\* A step on the alerts of bot b is a notification or changes nothing.
LEMMA NotifyStep ==
    ASSUME IndInv, NEW b \in Bots, UNCHANGED <<runnerCtx, reasons, botPc>>,
           \A d \in Bots : d # b => alerts'[d] = alerts[d],
           notifiedBar[b] => notifiedBar'[b],
           notifiedBar'[b] => "fatal" \in reasons[b]
    PROVE  [Lifecycle!Next]_(Lifecycle!vars)
<1>1. UNCHANGED phaseBar
    BY AbstractFrame
<1>2. notifiedBar' = [notifiedBar EXCEPT ![b] = notifiedBar'[b]]
    BY ZenonT(60) DEF notifiedBar
<1>3. notifiedBar[b] \in BOOLEAN /\ notifiedBar'[b] \in BOOLEAN
    BY DEF notifiedBar
<1>4. CASE notifiedBar'[b] = notifiedBar[b]
    <2>1. UNCHANGED notifiedBar
        BY <1>2, <1>4 DEF notifiedBar
    <2> QED
        BY <1>1, <2>1 DEF Lifecycle!vars
<1>5. CASE notifiedBar'[b] # notifiedBar[b]
    <2>1. ~notifiedBar[b] /\ notifiedBar'[b] = TRUE
        BY <1>3, <1>5
    <2>2. Lifecycle!Notify(b)
        BY <1>1, <1>2, <2>1 DEF Lifecycle!Notify
    <2> QED
        BY <2>2 DEF Lifecycle!Next
<1> QED
    BY <1>4, <1>5

\* Every step of the runner is a step of BotLifecycle or invisible there.
LEMMA LifecycleStep ==
    ASSUME IndInv, [Next]_vars
    PROVE  [Lifecycle!Next]_(Lifecycle!vars)
<1> TypeOK /\ StatusFollowsBot /\ NoCallBeforeRun /\ LeavingBotIsDone
        /\ CancelHasReason /\ FatalAlertFollowsCancel
    BY DEF IndInv
<1>1. CASE UNCHANGED <<runnerCtx, botPc, reasons, alerts>>
    BY <1>1, AbstractFrame DEF Lifecycle!vars
<1>2. CASE CancelRunner
    <2>1. Lifecycle!Shutdown
        BY <1>2, AbstractFrame DEF CancelRunner, Lifecycle!Shutdown
    <2> QED
        BY <2>1 DEF Lifecycle!Next
<1>3. ASSUME NEW b \in Bots, AddBot(b) PROVE Lifecycle!Next
    <2>1. botPc[b] = "ready" /\ botPc' = [botPc EXCEPT ![b] = "added"]
        BY <1>3 DEF AddBot, Goto
    <2>2. phaseBar[b] = "ready" /\ phaseBar' = [phaseBar EXCEPT ![b] = "running"]
        BY <2>1 DEF TypeOK, phaseBar
    <2>3. Lifecycle!Start(b)
        BY <1>3, <2>2, AbstractFrame DEF AddBot, Lifecycle!Start
    <2> QED
        BY <2>3 DEF Lifecycle!Next
<1>4. ASSUME NEW b \in Bots, StopBotStatus(b) PROVE Lifecycle!Next
    <2>1. botPc[b] = "wgdone" /\ botPc' = [botPc EXCEPT ![b] = "stopped"]
        BY <1>4 DEF StopBotStatus, Goto
    <2>2. phaseBar[b] = "running" /\ phaseBar' = [phaseBar EXCEPT ![b] = "finished"]
        BY <2>1 DEF TypeOK, phaseBar
    <2>3. runnerCtx \/ reasons[b] # {}
        BY <1>4 DEF StopBotStatus, Goto, LeavingBotIsDone, Exited, Done, CancelHasReason
    <2>4. Lifecycle!Finish(b)
        BY <1>4, <2>2, <2>3, AbstractFrame DEF StopBotStatus, Lifecycle!Finish
    <2> QED
        BY <2>4 DEF Lifecycle!Next
<1>5. ASSUME NEW b \in Bots, BotGoroutine(b), ~AddBot(b), ~StopBotStatus(b)
      PROVE  UNCHANGED Lifecycle!vars
    <2>1. UNCHANGED <<runnerCtx, reasons, alerts>>
        BY <1>5 DEF BotGoroutine, StartBot, BotRunReturns, BotRunPanics, Unwatch,
            NotifyPanic, NotifyShutdown, NotifyFromDefer, WgDone
    <2>2. \A d \in Bots : /\ botPc'[d] = "ready" <=> botPc[d] = "ready"
                          /\ botPc'[d] = "stopped" <=> botPc[d] = "stopped"
        BY <1>5, BotPcFrame
    <2>3. UNCHANGED phaseBar
        BY <2>2 DEF phaseBar
    <2> QED
        BY <2>1, <2>3, AbstractFrame DEF Lifecycle!vars
<1>6. ASSUME NEW b \in Bots, NEW c \in Callers, NEW reason \in Reasons,
             call[b][c] # "idle", StopBot(b, reason),
             UNCHANGED <<runnerCtx, botPc, alerts>>
      PROVE  Lifecycle!Next
    <2>1. phaseBar[b] # "ready"
        BY <1>6 DEF TypeOK, NoCallBeforeRun, phaseBar
    <2>2. Lifecycle!Stop(b, reason)
        BY <1>6, <2>1, AbstractFrame DEF StopBot, Lifecycle!Stop
    <2> QED
        BY <2>2 DEF Lifecycle!Next, Reasons
<1>7. ASSUME NEW b \in Bots, NEW c \in Callers, ErrNotifier(b, c), ~SendAlert(b, c)
      PROVE  Lifecycle!Next \/ UNCHANGED <<runnerCtx, botPc, reasons, alerts>>
    <2>1. CASE HandleFatal(b, c)
        BY <2>1, <1>6 DEF HandleFatal, Reasons
    <2>2. ASSUME NEW stop \in BOOLEAN, NEW alert \in BOOLEAN,
                 HandleOther(b, c, stop, alert)
          PROVE  Lifecycle!Next \/ UNCHANGED <<runnerCtx, botPc, reasons, alerts>>
        BY <2>2, <1>6 DEF HandleOther, Reasons
    <2>3. ASSUME NEW kind \in Kinds, Escalate(b, c, kind)
          PROVE  UNCHANGED <<runnerCtx, botPc, reasons, alerts>>
        BY <2>3 DEF Escalate
    <2> QED
        BY <1>7, <2>1, <2>2, <2>3 DEF ErrNotifier
<1>8. ASSUME NEW b \in Bots, NEW c \in Callers, SendAlert(b, c)
      PROVE  [Lifecycle!Next]_(Lifecycle!vars)
    <2>1. notifiedBar[b] => notifiedBar'[b]
        <3>1. /\ Len(alerts[b]) \in Nat /\ Len(alerts'[b]) = Len(alerts[b]) + 1
              /\ \A j \in 1 .. Len(alerts[b]) : alerts'[b][j] = alerts[b][j]
            BY <1>8, SendAlertFrame DEF TypeOK
        <3>2. \A j \in 1 .. Len(alerts[b]) : j \in 1 .. Len(alerts'[b])
            BY <3>1
        <3> QED
            BY <3>1, <3>2 DEF notifiedBar
    <2>2. notifiedBar'[b] => FatalAlertStarted(b)'
        BY DEF notifiedBar, FatalAlertStarted
    <2>3. FatalAlertFollowsCancel' /\ reasons' = reasons
        BY <1>8, CancelStep DEF SendAlert, Next, ErrNotifier
    <2>4. notifiedBar'[b] => "fatal" \in reasons[b]
        BY <2>2, <2>3 DEF FatalAlertFollowsCancel
    <2> QED
        BY <1>8, <2>1, <2>4, SendAlertFrame, NotifyStep DEF SendAlert
<1>9. ASSUME NEW b \in Bots, AlertGoroutine(b) PROVE [Lifecycle!Next]_(Lifecycle!vars)
    <2> PICK i \in 1 .. Len(alerts[b]), outcome \in Outcomes : AlertOne(b, i, outcome)
        BY <1>9 DEF AlertGoroutine
    <2>1. \A d \in Bots : d # b => alerts'[d] = alerts[d]
        BY DEF AlertOne, TypeOK
    <2>2. \A j \in 1 .. Len(alerts[b]) : j # i => alerts'[b][j] = alerts[b][j]
        BY DEF AlertOne, TypeOK
    <2>3. alerts[b][i].next # NumAlerters + 1
        BY SupervisorAssumption DEF AlertOne, TypeOK, Alert
    <2>4. /\ Len(alerts'[b]) = Len(alerts[b])
          /\ \A j \in 1 .. Len(alerts[b]) : alerts'[b][j].fatal = alerts[b][j].fatal
          /\ UNCHANGED <<runnerCtx, reasons, botPc>>
        BY <1>9, AlertGoroutineFrame
    <2>5. notifiedBar[b] => notifiedBar'[b]
        BY <2>2, <2>3, <2>4 DEF notifiedBar
    <2>6. notifiedBar'[b] => "fatal" \in reasons[b]
        BY <2>4 DEF notifiedBar, FatalAlertFollowsCancel, FatalAlertStarted
    <2> QED
        BY <2>1, <2>4, <2>5, <2>6, NotifyStep
<1> QED
    BY <1>1, <1>2, <1>3, <1>4, <1>5, <1>7, <1>8, <1>9 DEF Next, vars, Run, RunReturns

\* Every behavior of the runner is a behavior of BotLifecycle: only Sarah ends a
\* bot, a finished bot stays finished, and nobody is told of a fatal error that
\* did not stop its bot.
THEOREM SupervisorImplementsLifecycle == Spec => Lifecycle!Spec
<1>1. Init => Lifecycle!Init
    <2> SUFFICES ASSUME Init PROVE Lifecycle!Init
        OBVIOUS
    <2>1. phaseBar = [b \in Bots |-> "ready"]
        BY DEF Init, phaseBar
    <2>2. \A b \in Bots : Len(alerts[b]) = 0
        BY DEF Init
    <2>3. 1 .. 0 = {}
        OBVIOUS
    <2>4. notifiedBar = [b \in Bots |-> FALSE]
        BY <2>2, <2>3, Zenon DEF notifiedBar
    <2> QED
        BY <2>1, <2>4 DEF Init, Lifecycle!Init
<1>2. IndInv /\ [Next]_vars => [Lifecycle!Next]_(Lifecycle!vars)
    BY LifecycleStep
<1> QED
    BY <1>1, <1>2, InductiveInvariant, PTL DEF Spec, Lifecycle!Spec
=============================================================================
