----------------------------- MODULE Supervisor -----------------------------
(***************************************************************************)
(* The runner of go-sarah (runner.go, alert.go and the calls it makes to   *)
(* status.go): one goroutine per bot, the context that Sarah cancels to    *)
(* stop a bot, the error notifier through which a bot escalates errors,    *)
(* and the goroutines that pass an error to every registered Alerter.      *)
(*                                                                         *)
(* A ConfigWatcher and a scheduler whose calls return are assumed here, as *)
(* with the default nullConfigWatcher; FileWatcher and Scheduler model the *)
(* ones that block.                                                        *)
(***************************************************************************)
EXTENDS Naturals, Sequences

CONSTANTS
    Bots,            \* the bots registered with RegisterBot
    BotTypes,        \* the BotTypes, each as the set of bots that have it
    Notifiers,       \* the goroutines of a bot, beside the one that runs Bot.Run
    NumAlerters,     \* how many Alerters are registered
    Escalating,      \* bound: the bots whose adapter escalates errors
    MaxEscalations   \* bound: errors that the adapter of one bot escalates

Main == "main"       \* the goroutine in which run calls runBot

Callers == Notifiers \union {Main}

ASSUME SupervisorAssumption ==
    /\ UNION BotTypes = Bots
    /\ \A s, t \in BotTypes : s # t => s \intersect t = {}
    /\ Main \notin Notifiers
    /\ NumAlerters \in Nat
    /\ MaxEscalations \in Nat

VARIABLES
    runPc,       \* progress of Run and of runner.run
    runnerCtx,   \* TRUE once the context given to Run is canceled
    botPc,       \* progress of the goroutine of each bot
    botCtx,      \* TRUE once the bot's own cancel function has been called
    call,        \* what each goroutine of a bot does inside errNotifier
    reasons,     \* why stopBot was called, as its log lines tell
    status,      \* the botStatus of each bot in runnerStatus
    watching,    \* the bot's subscriptions with the ConfigWatcher
    alerts,      \* per bot, the goroutines started by "go sendAlert(err)"
    escalated    \* number of errors the adapter of each bot has escalated

vars == <<runPc, runnerCtx, botPc, botCtx, call, reasons, status, watching,
          alerts, escalated>>

RunPcs  == {"idle", "failed", "running", "returned"}
BotPcs  == {"ready", "added", "running", "returned", "panicked", "exiting",
            "finishing", "wgdone", "stopped"}
Calls   == {"idle", "fatal", "other", "alertFatal", "alertOther"}
Kinds   == {"fatal", "other"}       \* a *BotNonContinuableError, or any error
Reasons == {"fatal", "directive"}   \* the latter: SupervisionDirective.StopBot

\* A goroutine that runs alerters.alertAll: who started it, whether it carries a
\* *BotNonContinuableError, the alerter it calls next, and whether alertErrs is
\* no longer empty.
Alert == [by : Callers, fatal : BOOLEAN, next : 1 .. NumAlerters + 1,
          failed : BOOLEAN]

TypeOK ==
    /\ runPc \in RunPcs
    /\ runnerCtx \in BOOLEAN
    /\ botPc \in [Bots -> BotPcs]
    /\ botCtx \in [Bots -> BOOLEAN]
    /\ call \in [Bots -> [Callers -> Calls]]
    /\ reasons \in [Bots -> SUBSET Reasons]
    /\ status \in [Bots -> {"none", "running", "finished"}]
    /\ watching \in [Bots -> {"no", "yes", "released"}]
    /\ alerts \in [Bots -> Seq(Alert)]
    /\ escalated \in [Bots -> Nat]

-----------------------------------------------------------------------------
(***************************************************************************)
(* Contexts. The bot's context is a child of the runner's, so it is done   *)
(* when either has been canceled.                                          *)
(***************************************************************************)
Done(b) == runnerCtx \/ botCtx[b]

\* Bot.BotType() is the same. RegisterBot takes several bots of one BotType.
SameType(x, b) == \E t \in BotTypes : x \in t /\ b \in t

Init ==
    /\ runPc = "idle"
    /\ runnerCtx = FALSE
    /\ botPc = [b \in Bots |-> "ready"]
    /\ botCtx = [b \in Bots |-> FALSE]
    /\ call = [b \in Bots |-> [c \in Callers |-> "idle"]]
    /\ reasons = [b \in Bots |-> {}]
    /\ status = [b \in Bots |-> "none"]
    /\ watching = [b \in Bots |-> "no"]
    /\ alerts = [b \in Bots |-> <<>>]
    /\ escalated = [b \in Bots |-> 0]

\* The developer cancels the context passed to Run.
CancelRunner ==
    /\ ~runnerCtx
    /\ runnerCtx' = TRUE
    /\ UNCHANGED <<runPc, botPc, botCtx, call, reasons, status, watching,
                   alerts, escalated>>

-----------------------------------------------------------------------------
(***************************************************************************)
(* Run and runner.run                                                      *)
(***************************************************************************)

\* Run: newRunner fails on an unknown time zone, or the bots are started.
Run ==
    /\ runPc = "idle"
    /\ runPc' \in {"failed", "running"}
    /\ UNCHANGED <<runnerCtx, botPc, botCtx, call, reasons, status, watching,
                   alerts, escalated>>

\* wg.Wait at the end of runner.run: every bot's goroutine called wg.Done.
RunReturns ==
    /\ runPc = "running"
    /\ \A b \in Bots : botPc[b] \in {"wgdone", "stopped"}
    /\ runPc' = "returned"
    /\ UNCHANGED <<runnerCtx, botPc, botCtx, call, reasons, status, watching,
                   alerts, escalated>>

-----------------------------------------------------------------------------
(***************************************************************************)
(* The goroutine of one bot                                                *)
(***************************************************************************)
Goto(b, from, to) ==
    /\ botPc[b] = from
    /\ botPc' = [botPc EXCEPT ![b] = to]

AddBot(b) ==
    /\ runPc = "running"
    /\ Goto(b, "ready", "added")
    /\ status' = [status EXCEPT ![b] = "running"]
    /\ UNCHANGED <<runPc, runnerCtx, botCtx, call, reasons, watching, alerts,
                   escalated>>

\* runBot up to the call of bot.Run. The calls to ConfigWatcher.Watch may all
\* fail, which is only logged.
StartBot(b) ==
    /\ Goto(b, "added", "running")
    /\ \E w \in {"no", "yes"} : watching' = [watching EXCEPT ![b] = w]
    /\ UNCHANGED <<runPc, runnerCtx, botCtx, call, reasons, status, alerts,
                   escalated>>

\* bot.Run returns: the adapter saw its context done, gave up or just ended.
BotRunReturns(b) ==
    /\ call[b][Main] = "idle"
    /\ Goto(b, "running", "returned")
    /\ UNCHANGED <<runPc, runnerCtx, botCtx, call, reasons, status, watching,
                   alerts, escalated>>

\* bot.Run panics; runBot recovers and does not reach unsubscribeConfigWatcher.
BotRunPanics(b) ==
    /\ call[b][Main] = "idle"
    /\ Goto(b, "running", "panicked")
    /\ UNCHANGED <<runPc, runnerCtx, botCtx, call, reasons, status, watching,
                   alerts, escalated>>

\* ConfigWatcher.Unwatch is given the BotType: what other bots of the type
\* subscribed goes too. Its errors and panics are logged by
\* unsubscribeConfigWatcher.
Unwatch(b) ==
    /\ Goto(b, "returned", "exiting")
    /\ watching' = [x \in Bots |-> IF SameType(x, b) /\ watching[x] = "yes"
                                     THEN "released" ELSE watching[x]]
    /\ UNCHANGED <<runPc, runnerCtx, botCtx, call, reasons, status, alerts,
                   escalated>>

\* Mutant of NotifyFromDefer: errNotifier does not look at botCtx.Done().
NotifyFromDeferUnchecked(b, from, to) ==
    /\ call[b][Main] = "idle"
    /\ Goto(b, from, to)
    /\ call' = [call EXCEPT ![b][Main] = "fatal"]
    /\ UNCHANGED <<runPc, runnerCtx, botCtx, reasons, status, watching, alerts,
                   escalated>>

\* errNotifier called by runBot's deferred function: the check of
\* botCtx.Done(). An error is dropped when the context is already done.
NotifyFromDefer(b, from, to) ==
    /\ call[b][Main] = "idle"
    /\ Goto(b, from, to)
    /\ call' = IF Done(b) THEN call ELSE [call EXCEPT ![b][Main] = "fatal"]
    /\ UNCHANGED <<runPc, runnerCtx, botCtx, reasons, status, watching, alerts,
                   escalated>>

NotifyPanic(b) == NotifyFromDefer(b, "panicked", "exiting")

\* Mutant of NotifyShutdown: the deferred function reports panics only.
NotifyShutdownMissing(b) ==
    /\ Goto(b, "exiting", "finishing")
    /\ call[b][Main] = "idle"
    /\ UNCHANGED <<runPc, runnerCtx, botCtx, call, reasons, status, watching,
                   alerts, escalated>>

NotifyShutdown(b) == NotifyFromDefer(b, "exiting", "finishing")

\* Mutant of WgDone: wg.Done is not deferred, and a panic skips it. The bot's
\* subscriptions are still there only after a panic.
WgDoneNotDeferred(b) ==
    /\ watching[b] # "yes"
    /\ call[b][Main] = "idle"
    /\ Goto(b, "finishing", "wgdone")
    /\ UNCHANGED <<runPc, runnerCtx, botCtx, call, reasons, status, watching,
                   alerts, escalated>>

WgDone(b) ==
    /\ call[b][Main] = "idle"
    /\ Goto(b, "finishing", "wgdone")
    /\ UNCHANGED <<runPc, runnerCtx, botCtx, call, reasons, status, watching,
                   alerts, escalated>>

\* Mutant of StopBotStatus: the comparison of the BotTypes is inverted.
StopBotStatusOfOthers(b) ==
    /\ Goto(b, "wgdone", "stopped")
    /\ status' = [x \in Bots |-> IF ~SameType(x, b) /\ status[x] = "running"
                                   THEN "finished" ELSE status[x]]
    /\ UNCHANGED <<runPc, runnerCtx, botCtx, call, reasons, watching, alerts,
                   escalated>>

\* status.stopBot closes every entry of the bot's BotType that was added by now,
\* the ones of bots of the same type that still run included.
StopBotStatus(b) ==
    /\ Goto(b, "wgdone", "stopped")
    /\ status' = [x \in Bots |-> IF SameType(x, b) /\ status[x] = "running"
                                   THEN "finished" ELSE status[x]]
    /\ UNCHANGED <<runPc, runnerCtx, botCtx, call, reasons, watching, alerts,
                   escalated>>

-----------------------------------------------------------------------------
(***************************************************************************)
(* superviseBot: errNotifier and handleError. Any goroutine that got hold  *)
(* of errNotifier may call it, also after Bot.Run returned. The check of   *)
(* the context, its cancellation and the start of the alerting goroutine   *)
(* are separate steps.                                                     *)
(***************************************************************************)
MayEscalate(b, c) ==
    /\ b \in Escalating
    /\ IF c = Main THEN botPc[b] = "running"
                   ELSE botPc[b] \notin {"ready", "added"}

Escalate(b, c, kind) ==
    /\ MayEscalate(b, c)
    /\ call[b][c] = "idle"
    /\ escalated[b] < MaxEscalations
    /\ escalated' = [escalated EXCEPT ![b] = @ + 1]
    /\ call' = IF Done(b) THEN call ELSE [call EXCEPT ![b][c] = kind]
    /\ UNCHANGED <<runPc, runnerCtx, botPc, botCtx, reasons, status, watching,
                   alerts>>

StopBot(b, reason) ==
    /\ botCtx' = [botCtx EXCEPT ![b] = TRUE]
    /\ reasons' = [reasons EXCEPT ![b] = @ \union {reason}]

\* Mutant of HandleFatal: the bot is stopped and nobody told.
HandleFatalSilently(b, c) ==
    /\ call[b][c] = "fatal"
    /\ StopBot(b, "fatal")
    /\ call' = [call EXCEPT ![b][c] = "idle"]
    /\ UNCHANGED <<runPc, runnerCtx, botPc, status, watching, alerts, escalated>>

\* case *BotNonContinuableError
HandleFatal(b, c) ==
    /\ call[b][c] = "fatal"
    /\ StopBot(b, "fatal")
    /\ call' = [call EXCEPT ![b][c] = "alertFatal"]
    /\ UNCHANGED <<runPc, runnerCtx, botPc, status, watching, alerts, escalated>>

\* default: the answer of superviseError. No supervisor, a nil directive and a
\* directive with neither field set all leave the bot alone.
HandleOther(b, c, stop, alert) ==
    /\ call[b][c] = "other"
    /\ \/ stop /\ StopBot(b, "directive")
       \/ ~stop /\ UNCHANGED <<botCtx, reasons>>
    /\ call' = [call EXCEPT ![b][c] = IF alert THEN "alertOther" ELSE "idle"]
    /\ UNCHANGED <<runPc, runnerCtx, botPc, status, watching, alerts, escalated>>

\* go sendAlert(err)
SendAlert(b, c) ==
    /\ call[b][c] \in {"alertFatal", "alertOther"}
    /\ alerts' = [alerts EXCEPT ![b] =
                    Append(@, [by |-> c, fatal |-> call[b][c] = "alertFatal",
                               next |-> 1, failed |-> FALSE])]
    /\ call' = [call EXCEPT ![b][c] = "idle"]
    /\ UNCHANGED <<runPc, runnerCtx, botPc, botCtx, reasons, status, watching,
                   escalated>>

\* What a call of Alerter.Alert may come to.
Outcomes == {"sent", "error", "panic"}

\* Mutant of AlertOne: the loop goes one past the last alerter.
AlertOnePastEnd(b, i, outcome) ==
    /\ alerts[b][i].next <= NumAlerters + 1
    /\ alerts' = [alerts EXCEPT ![b][i].next = @ + 1]
    /\ UNCHANGED <<runPc, runnerCtx, botPc, botCtx, call, reasons, status,
                   watching, escalated>>

\* Mutant of AlertOne: the first alerter that fails ends the loop.
AlertOneUntilFailure(b, i, outcome) ==
    /\ ~alerts[b][i].failed
    /\ alerts[b][i].next <= NumAlerters
    /\ alerts' = [alerts EXCEPT ![b][i].next = IF outcome = "sent" THEN @ + 1 ELSE @,
                                ![b][i].failed = outcome # "sent"]
    /\ UNCHANGED <<runPc, runnerCtx, botPc, botCtx, call, reasons, status,
                   watching, escalated>>

\* One turn of the loop of alertAll. An alerter that fails or panics does not
\* keep the ones after it from being called.
AlertOne(b, i, outcome) ==
    /\ alerts[b][i].next <= NumAlerters
    /\ alerts' = [alerts EXCEPT ![b][i].next = @ + 1,
                                ![b][i].failed = IF outcome = "sent" THEN @ ELSE TRUE]
    /\ UNCHANGED <<runPc, runnerCtx, botPc, botCtx, call, reasons, status,
                   watching, escalated>>

-----------------------------------------------------------------------------
(***************************************************************************)
(* The specification                                                       *)
(***************************************************************************)
BotGoroutine(b) ==
    \/ AddBot(b) \/ StartBot(b) \/ BotRunReturns(b) \/ BotRunPanics(b)
    \/ Unwatch(b) \/ NotifyPanic(b) \/ NotifyShutdown(b)
    \/ WgDone(b) \/ StopBotStatus(b)

ErrNotifier(b, c) ==
    \/ \E kind \in Kinds : Escalate(b, c, kind)
    \/ HandleFatal(b, c)
    \/ \E stop, alert \in BOOLEAN : HandleOther(b, c, stop, alert)
    \/ SendAlert(b, c)

AlertGoroutine(b) ==
    \E i \in 1 .. Len(alerts[b]), outcome \in Outcomes : AlertOne(b, i, outcome)

Next ==
    \/ CancelRunner
    \/ Run
    \/ RunReturns
    \/ \E b \in Bots : BotGoroutine(b)
    \/ \E b \in Bots, c \in Callers : ErrNotifier(b, c)
    \/ \E b \in Bots : AlertGoroutine(b)

\* The Go scheduler runs every goroutine that can go on. Nobody has to cancel
\* the context, no adapter has to fail, and Bot.Run has to return only once
\* its context is done: that is what the Bot interface asks of it.
HandlesError(b, c) ==
    \/ HandleFatal(b, c)
    \/ \E stop, alert \in BOOLEAN : HandleOther(b, c, stop, alert)
    \/ SendAlert(b, c)

BotProceeds(b) ==
    \/ AddBot(b) \/ StartBot(b)
    \/ Done(b) /\ BotRunReturns(b)
    \/ Unwatch(b) \/ NotifyPanic(b) \/ NotifyShutdown(b)
    \/ WgDone(b) \/ StopBotStatus(b)

Fairness ==
    /\ WF_vars(RunReturns)
    /\ \A b \in Bots : WF_vars(BotProceeds(b)) /\ WF_vars(AlertGoroutine(b))
    /\ \A b \in Bots, c \in Callers : WF_vars(HandlesError(b, c))

Spec == Init /\ [][Next]_vars

FairSpec == Spec /\ Fairness

-----------------------------------------------------------------------------
(***************************************************************************)
(* Safety                                                                  *)
(***************************************************************************)
Exited(b) == botPc[b] \in {"wgdone", "stopped"}

FatalAlertStarted(b) ==
    \/ \E i \in 1 .. Len(alerts[b]) : alerts[b][i].fatal
    \/ \E c \in Callers : call[b][c] = "alertFatal"

FatalAlertsBy(b, c) ==
    {i \in 1 .. Len(alerts[b]) : alerts[b][i].by = c /\ alerts[b][i].fatal}

\* A bot whose goroutine ended without the developer canceling the context was
\* stopped by a directive of the supervising function, or the alert about it is
\* on its way (the promise in the comment of Run): no interleaving of
\* concurrent errNotifier calls with the deferred one loses it.
UnintentionalStopIsAlerted ==
    \A b \in Bots : Exited(b) /\ ~runnerCtx
                       => "directive" \in reasons[b] \/ FatalAlertStarted(b)

\* However many errors the goroutines of a bot escalate, each of them causes at
\* most one alert about a *BotNonContinuableError: the check of botCtx.Done in
\* errNotifier drops what the same goroutine sends after it canceled the
\* context, the "shutdown bot" error that follows a panic included.
OneFatalAlertPerCaller ==
    \A b \in Bots, c \in Callers :
        /\ \A i, j \in FatalAlertsBy(b, c) : i = j
        /\ FatalAlertsBy(b, c) # {} => call[b][c] \notin {"fatal", "alertFatal"}

\* Sarah reports a bot as no longer running only after a bot of its BotType
\* ended with its context canceled, whatever made its Run return; and from then
\* on no bot whose goroutine ended is reported as running, in whatever order
\* the bots of the type are added and stopped.
FinishedTypeWasCanceled ==
    \A b \in Bots :
        /\ status[b] = "finished"
               => \E x \in Bots : /\ SameType(x, b)
                                  /\ botPc[x] = "stopped" /\ Done(x)
        /\ botPc[b] = "stopped" => status[b] = "finished"

-----------------------------------------------------------------------------
(***************************************************************************)
(* Liveness, under FairSpec                                                *)
(***************************************************************************)

\* Once Run succeeded, canceling the context ends every bot, updates its status
\* and lets runner.run return.
ShutdownCompletes ==
    runnerCtx /\ runPc = "running"
        ~> /\ runPc = "returned"
           /\ \A b \in Bots : status[b] = "finished"

-----------------------------------------------------------------------------
(***************************************************************************)
(* What the comments of the code promise and the code does not do          *)
(***************************************************************************)

\* BotStatus: "The Bot is considered running when Bot.Run is already called and
\* its process is context.Context is not yet canceled." stopBot finishes the
\* entries of all bots of a type when the first of them ends.
FinishedBotIsCanceled ==
    \A b \in Bots : status[b] = "finished" => Done(b)

\* ConfigWatcher: "Unwatch is called when Bot is stopped and subscription is no
\* longer required."
StoppedBotIsUnwatched ==
    \A b \in Bots : botPc[b] = "stopped" => watching[b] # "yes"

\* SupervisionDirective: "When all bots stop, then Sarah stops all resources."
\* The worker and the scheduler stop when the context given to Run is done.
AllStoppedStopsResources ==
    runPc = "returned" ~> runnerCtx

-----------------------------------------------------------------------------
(***************************************************************************)
(* What the supervisor promises: BotLifecycle                              *)
(***************************************************************************)
phaseBar ==
    [b \in Bots |-> CASE botPc[b] = "ready"   -> "ready"
                      [] botPc[b] = "stopped" -> "finished"
                      [] OTHER               -> "running"]

notifiedBar ==
    [b \in Bots |-> \E i \in 1 .. Len(alerts[b]) :
                        alerts[b][i].fatal /\ alerts[b][i].next = NumAlerters + 1]

Lifecycle == INSTANCE BotLifecycle
                 WITH shutdown <- runnerCtx, phase <- phaseBar,
                      stopped <- reasons, notified <- notifiedBar

\* Every bot is stopped by Sarah and by nobody else, it then does stop, and a
\* bot that stopped for a fatal error is reported to every alerter.
ImplementsLifecycle == Lifecycle!FairSpec
=============================================================================
