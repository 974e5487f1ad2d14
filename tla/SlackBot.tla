------------------------------ MODULE SlackBot ------------------------------
(***************************************************************************)
(* A bot with the Slack adapter (slack/) under the supervision of          *)
(* Supervisor. Over the RTM API (rtmapi.go) the goroutine of run connects, *)
(* supervises the connection with pings and connects again; each           *)
(* connection has a goroutine of its own that runs receivePayload and asks *)
(* for a ping through the channel tryPing when it cannot receive. With the *)
(* Events API (eventsapi.go) run starts an HTTP server and waits for its   *)
(* end. The network, the Slack client with its HTTP server and the retry   *)
(* policy are external.                                                    *)
(***************************************************************************)
EXTENDS Supervisor

CONSTANTS
    Trials,     \* config.RetryPolicy.Trial
    MaxConns,   \* bound: connections that a bot establishes
    MaxInputs   \* bound: inputs that a bot passes to enqueueInput

ASSUME SlackAssumption ==
    Trials \in Nat \ {0} /\ MaxConns \in Nat /\ MaxInputs \in Nat

Conns == 1 .. MaxConns

\* One function per variable, from the bots.
VARIABLES
    slackPc,    \* progress of run
    trials,     \* failed calls of ConnectRTM since the last success
    conn,       \* the number of the current connection
    connErr,    \* superviseConnection returned an error
    link,       \* the state of each connection
    connDone,   \* TRUE once connCancel of the connection was called
    tryPing,    \* number of signals in the channel tryPing of each connection
    receiver,   \* progress of receivePayload for each connection
    inputs,     \* number of inputs passed to enqueueInput
    server      \* the HTTP server of the Events API

slackVars == <<slackPc, trials, conn, connErr, link, connDone, tryPing, receiver,
               inputs, server>>
allVars   == <<vars, slackVars>>

SlackPcs    == {"start", "connect", "supervise", "close", "cancel", "listen", "returned"}
Links       == {"none", "up", "down", "closed"}
ReceiverPcs == {"none", "check", "receive", "handle", "signal", "ended"}

SlackTypeOK ==
    /\ TypeOK
    /\ slackPc \in [Bots -> SlackPcs]
    /\ trials \in [Bots -> 0 .. Trials]
    /\ conn \in [Bots -> 0 .. MaxConns]
    /\ connErr \in [Bots -> BOOLEAN]
    /\ link \in [Bots -> [Conns -> Links]]
    /\ connDone \in [Bots -> [Conns -> BOOLEAN]]
    /\ tryPing \in [Bots -> [Conns -> 0 .. 1]]
    /\ receiver \in [Bots -> [Conns -> ReceiverPcs]]
    /\ inputs \in [Bots -> 0 .. MaxInputs]
    /\ server \in [Bots -> {"none", "up", "failed", "closed"}]

SlackInit ==
    /\ Init
    /\ slackPc = [b \in Bots |-> "start"]
    /\ trials = [b \in Bots |-> 0]
    /\ conn = [b \in Bots |-> 0]
    /\ connErr = [b \in Bots |-> FALSE]
    /\ link = [b \in Bots |-> [c \in Conns |-> "none"]]
    /\ connDone = [b \in Bots |-> [c \in Conns |-> FALSE]]
    /\ tryPing = [b \in Bots |-> [c \in Conns |-> 0]]
    /\ receiver = [b \in Bots |-> [c \in Conns |-> "none"]]
    /\ inputs = [b \in Bots |-> 0]
    /\ server = [b \in Bots |-> "none"]

-----------------------------------------------------------------------------
(***************************************************************************)
(* Adapter.Run. NewAdapter took either an RTM or an Events API payload     *)
(* handler: run of rtmapi.go starts to connect, that of eventsapi.go has   *)
(* the client run a server.                                                *)
(***************************************************************************)
SlackGoto(b, from, to) ==
    /\ slackPc[b] = from
    /\ slackPc' = [slackPc EXCEPT ![b] = to]

RunRTM(b) ==
    /\ botPc[b] = "running"
    /\ SlackGoto(b, "start", "connect")
    /\ UNCHANGED <<vars, trials, conn, connErr, link, connDone, tryPing, receiver,
                   inputs, server>>

RunServer(b) ==
    /\ botPc[b] = "running"
    /\ SlackGoto(b, "start", "listen")
    /\ server' = [server EXCEPT ![b] = "up"]
    /\ UNCHANGED <<vars, trials, conn, connErr, link, connDone, tryPing, receiver,
                   inputs>>

RunReturnsToBot(b) ==
    /\ slackPc[b] = "returned"
    /\ BotRunReturns(b)
    /\ UNCHANGED slackVars

-----------------------------------------------------------------------------
(***************************************************************************)
(* run and connect of rtmapi.go                                            *)
(***************************************************************************)

\* Mutant of ConnectFails: run gives up without a word.
ConnectFailsSilently(b) ==
    /\ SlackGoto(b, "connect", IF trials[b] + 1 = Trials THEN "returned" ELSE "connect")
    /\ trials' = [trials EXCEPT ![b] = @ + 1]
    /\ UNCHANGED <<vars, conn, connErr, link, connDone, tryPing, receiver, inputs,
                   server>>

\* The last trial that fails makes run notify the error and return.
ConnectFails(b) ==
    /\ \/ /\ trials[b] + 1 < Trials
          /\ SlackGoto(b, "connect", "connect")
          /\ UNCHANGED vars
       \/ /\ trials[b] + 1 = Trials
          /\ SlackGoto(b, "connect", "returned")
          /\ Escalate(b, Main, "fatal")
    /\ trials' = [trials EXCEPT ![b] = @ + 1]
    /\ UNCHANGED <<conn, connErr, link, connDone, tryPing, receiver, inputs, server>>

ConnectSucceeds(b) ==
    /\ conn[b] < MaxConns
    /\ SlackGoto(b, "connect", "supervise")
    /\ conn' = [conn EXCEPT ![b] = @ + 1]
    /\ link' = [link EXCEPT ![b][conn[b] + 1] = "up"]
    /\ receiver' = [receiver EXCEPT ![b][conn[b] + 1] = "check"]
    /\ trials' = [trials EXCEPT ![b] = 0]
    /\ UNCHANGED <<vars, connErr, connDone, tryPing, inputs, server>>

\* Mutant of CloseConn: the connection is left open.
CloseConnNot(b) ==
    /\ SlackGoto(b, "close", "cancel")
    /\ UNCHANGED <<vars, trials, conn, connErr, link, connDone, tryPing, receiver,
                   inputs, server>>

CloseConn(b) ==
    /\ SlackGoto(b, "close", "cancel")
    /\ link' = [link EXCEPT ![b][conn[b]] = "closed"]
    /\ UNCHANGED <<vars, trials, conn, connErr, connDone, tryPing, receiver, inputs,
                   server>>

\* connCancel, and the decision to return or to connect again.
CancelConn(b) ==
    /\ SlackGoto(b, "cancel", IF connErr[b] THEN "connect" ELSE "returned")
    /\ connDone' = [connDone EXCEPT ![b][conn[b]] = TRUE]
    /\ UNCHANGED <<vars, trials, conn, connErr, link, tryPing, receiver, inputs,
                   server>>

\* The network loses a connection.
LinkBreaks(b, c) ==
    /\ link[b][c] = "up"
    /\ link' = [link EXCEPT ![b][c] = "down"]
    /\ UNCHANGED <<vars, slackPc, trials, conn, connErr, connDone, tryPing, receiver,
                   inputs, server>>

-----------------------------------------------------------------------------
(***************************************************************************)
(* superviseConnection: its select takes any case that is ready            *)
(***************************************************************************)

\* Mutant of ConnCtxDone: connCtx is not derived from the context of the bot.
ConnCtxDetached(b, c) == connDone[b][c]

\* connCtx is a child of the context of the bot.
ConnCtxDone(b, c) == Done(b) \/ connDone[b][c]

SuperviseDone(b) ==
    /\ SlackGoto(b, "supervise", "close")
    /\ ConnCtxDone(b, conn[b])
    /\ connErr' = [connErr EXCEPT ![b] = FALSE]
    /\ UNCHANGED <<vars, trials, conn, link, connDone, tryPing, receiver, inputs,
                   server>>

\* The ticker: nonBlockSignal on a channel with room for one signal.
Tick(b) ==
    /\ slackPc[b] = "supervise"
    /\ tryPing' = [tryPing EXCEPT ![b][conn[b]] = 1]
    /\ UNCHANGED <<vars, slackPc, trials, conn, connErr, link, connDone, receiver,
                   inputs, server>>

\* Mutant of Ping: the error of Ping is dropped.
PingUnchecked(b) ==
    /\ slackPc[b] = "supervise"
    /\ tryPing[b][conn[b]] = 1
    /\ tryPing' = [tryPing EXCEPT ![b][conn[b]] = 0]
    /\ UNCHANGED <<vars, slackPc, trials, conn, connErr, link, connDone, receiver,
                   inputs, server>>

\* A ping over a lost connection fails.
Ping(b) ==
    /\ slackPc[b] = "supervise"
    /\ tryPing[b][conn[b]] = 1
    /\ tryPing' = [tryPing EXCEPT ![b][conn[b]] = 0]
    /\ \/ /\ link[b][conn[b]] = "up"
          /\ UNCHANGED <<slackPc, connErr>>
       \/ /\ link[b][conn[b]] # "up"
          /\ slackPc' = [slackPc EXCEPT ![b] = "close"]
          /\ connErr' = [connErr EXCEPT ![b] = TRUE]
    /\ UNCHANGED <<vars, trials, conn, link, connDone, receiver, inputs, server>>

-----------------------------------------------------------------------------
(***************************************************************************)
(* receivePayload of connection c                                          *)
(***************************************************************************)
ReceiverGoto(b, c, from, to) ==
    /\ receiver[b][c] = from
    /\ receiver' = [receiver EXCEPT ![b][c] = to]
    /\ UNCHANGED <<vars, slackPc, trials, conn, connErr, link, connDone, server>>

CheckContext(b, c) ==
    /\ ReceiverGoto(b, c, "check", IF ConnCtxDone(b, c) THEN "ended" ELSE "receive")
    /\ UNCHANGED <<tryPing, inputs>>

\* Receive returns a payload, or something to skip: an empty or malformed
\* payload or one of an unexpected type.
ReceivePayload(b, c, skipped) ==
    /\ link[b][c] = "up"
    /\ ReceiverGoto(b, c, "receive", IF skipped THEN "check" ELSE "handle")
    /\ UNCHANGED <<tryPing, inputs>>

\* Any other error, which a working connection may give as well.
ReceiveFails(b, c) ==
    /\ ReceiverGoto(b, c, "receive", "signal")
    /\ UNCHANGED <<tryPing, inputs>>

\* Mutant of Signal: the send waits for room in the channel.
SignalBlocking(b, c) ==
    /\ tryPing[b][c] = 0
    /\ ReceiverGoto(b, c, "signal", "check")
    /\ tryPing' = [tryPing EXCEPT ![b][c] = 1]
    /\ UNCHANGED inputs

\* Mutant of Signal: the channel has no limit.
SignalUnbounded(b, c) ==
    /\ ReceiverGoto(b, c, "signal", "check")
    /\ tryPing' = [tryPing EXCEPT ![b][c] = @ + 1]
    /\ UNCHANGED inputs

\* nonBlockSignal
Signal(b, c) ==
    /\ ReceiverGoto(b, c, "signal", "check")
    /\ tryPing' = [tryPing EXCEPT ![b][c] = 1]
    /\ UNCHANGED inputs

\* What a payload is: an event that EventToInput converts, any other event, a
\* reply to what the bot sent, or a pong.
Payloads == {"message", "channelMessage", "otherEvent", "reply", "pong"}

ConvertsToInput(payload) == payload \in {"message", "channelMessage"}

\* An input is enqueued, as a help or abort input when it is that command, and
\* what enqueueInput says is ignored. Everything else is logged.
Handle(b, payload) ==
    \/ /\ ConvertsToInput(payload)
       /\ inputs[b] < MaxInputs
       /\ inputs' = [inputs EXCEPT ![b] = @ + 1]
    \/ ~ConvertsToInput(payload) /\ UNCHANGED inputs

\* DefaultRTMPayloadHandler
HandlePayload(b, c, payload) ==
    /\ ReceiverGoto(b, c, "handle", "check")
    /\ Handle(b, payload)
    /\ UNCHANGED tryPing

-----------------------------------------------------------------------------
(***************************************************************************)
(* run of eventsapi.go. The client's server ends with an error of its own  *)
(* or, when the context is done, with http.ErrServerClosed.                *)
(***************************************************************************)
ServerEnds(b, end) ==
    /\ server[b] = "up"
    /\ end = "closed" => Done(b)
    /\ server' = [server EXCEPT ![b] = end]
    /\ UNCHANGED <<vars, slackPc, trials, conn, connErr, link, connDone, tryPing,
                   receiver, inputs>>

\* DefaultEventsPayloadHandler runs in the server's goroutines, also after run
\* returned, as long as the server is up.
HandleEvent(b, payload) ==
    /\ server[b] = "up"
    /\ Handle(b, payload)
    /\ UNCHANGED <<vars, slackPc, trials, conn, connErr, link, connDone, tryPing,
                   receiver, server>>

\* Mutant of ListenReturns: the select has no case for the context.
ListenReturnsWithServer(b) ==
    /\ SlackGoto(b, "listen", "returned")
    /\ \/ server[b] = "closed" /\ UNCHANGED vars
       \/ server[b] = "failed" /\ Escalate(b, Main, "fatal")
    /\ UNCHANGED <<trials, conn, connErr, link, connDone, tryPing, receiver, inputs,
                   server>>

\* The select takes any case that is ready: the context, or the server's error.
ListenReturns(b) ==
    /\ SlackGoto(b, "listen", "returned")
    /\ \/ (Done(b) \/ server[b] = "closed") /\ UNCHANGED vars
       \/ server[b] = "failed" /\ Escalate(b, Main, "fatal")
    /\ UNCHANGED <<trials, conn, connErr, link, connDone, tryPing, receiver, inputs,
                   server>>

-----------------------------------------------------------------------------
(***************************************************************************)
(* The composition with Supervisor: the adapter calls errNotifier and      *)
(* returns to runBot, and every other step of it leaves the supervisor     *)
(* alone.                                                                  *)
(***************************************************************************)
SupervisorBotSteps(b) ==
    /\ \/ AddBot(b) \/ StartBot(b) \/ Unwatch(b) \/ NotifyShutdown(b)
       \/ WgDone(b) \/ StopBotStatus(b)
       \/ HandleFatal(b, Main) \/ SendAlert(b, Main)
    /\ UNCHANGED slackVars

SupervisorSteps ==
    /\ CancelRunner \/ Run
    /\ UNCHANGED slackVars

Alerts(b) == AlertGoroutine(b) /\ UNCHANGED slackVars

AllReturn == RunReturns /\ UNCHANGED slackVars

RunSteps(b) ==
    \/ RunRTM(b) \/ RunServer(b) \/ ListenReturns(b) \/ RunReturnsToBot(b)
    \/ ConnectFails(b) \/ ConnectSucceeds(b) \/ CloseConn(b) \/ CancelConn(b)

ServerSteps(b) ==
    \/ \E end \in {"failed", "closed"} : ServerEnds(b, end)
    \/ \E payload \in Payloads \ {"reply", "pong"} : HandleEvent(b, payload)

Receive(b, c) ==
    \/ \E skipped \in BOOLEAN : ReceivePayload(b, c, skipped)
    \/ ReceiveFails(b, c)

ReceiverSteps(b, c) ==
    \/ CheckContext(b, c) \/ Signal(b, c)
    \/ \E payload \in Payloads : HandlePayload(b, c, payload)

SlackNext ==
    \/ SupervisorSteps \/ AllReturn
    \/ \E b \in Bots :
         \/ SupervisorBotSteps(b) \/ Alerts(b) \/ RunSteps(b)
         \/ SuperviseDone(b) \/ Tick(b) \/ Ping(b)
         \/ ServerSteps(b)
    \/ \E b \in Bots, c \in Conns :
         LinkBreaks(b, c) \/ Receive(b, c) \/ ReceiverSteps(b, c)

SlackSpec == SlackInit /\ [][SlackNext]_allVars

\* The goroutines run when they can, the ticker ticks, and Receive returns an
\* error once the connection is lost or closed. On a working connection it may
\* wait for ever. Nothing is said of when Bot.Run returns: what Supervisor
\* assumes there is shown here.
SlackFairness ==
    /\ WF_allVars(AllReturn)
    /\ \A b \in Bots : /\ WF_allVars(SupervisorBotSteps(b) \/ RunSteps(b))
                       /\ WF_allVars(Alerts(b))
                       /\ WF_allVars(SuperviseDone(b))
                       /\ WF_allVars(Tick(b))
                       /\ WF_allVars(Ping(b))
    /\ \A b \in Bots, c \in Conns :
         WF_allVars(\/ ReceiverSteps(b, c)
                    \/ link[b][c] # "up" /\ ReceiveFails(b, c))

SlackFairSpec == SlackSpec /\ SlackFairness

-----------------------------------------------------------------------------
(***************************************************************************)
(* Properties                                                              *)
(***************************************************************************)

\* What BotLifecycle promises holds for a Slack bot without the assumption that
\* Supervisor makes about Bot.Run: wherever the adapter is when Sarah cancels
\* the bot, it comes back and the bot finishes; and when the adapter gave up,
\* every alerter is told, the ones behind an alerter that fails included.
SlackImplementsLifecycle == Lifecycle!FairSpec

\* run leaves nothing behind: when it goes for another connection or returns,
\* every connection it had is closed and its context canceled, so that Slack
\* does not send the same events over two connections.
NothingIsLeftOpen ==
    \A b \in Bots : \A c \in 1 .. conn[b] :
        c < conn[b] \/ slackPc[b] \in {"connect", "returned"}
            => link[b][c] = "closed" /\ connDone[b][c]

\* Once run gave a connection up, its receiver begins to handle no other payload
\* than the one it has in hand, while run supervises the next connection: the
\* connection is closed before its context is canceled.
NoPayloadAfterCancel ==
    [][\A b \in Bots, c \in Conns :
          connDone[b][c] /\ receiver'[b][c] = "handle" => receiver[b][c] = "handle"]_allVars

\* The adapter ends because Sarah canceled the bot or after it told Sarah why it
\* gives up: a connection lost between a ping and the check of the context, or
\* a server that cannot listen, is not left to the "shutdown bot" error.
ReturnHasReason ==
    \A b \in Bots : slackPc[b] = "returned" => Done(b) \/ escalated[b] > 0

\* "tries to reconnect when the current connection is gone": a lost connection
\* is found out and closed, although signals that do not fit into tryPing are
\* dropped.
LostConnectionIsClosed ==
    \A b \in Bots, c \in Conns : []<>(link[b][c] # "down")

\* "each connection-scoped goroutine can receive the connection closing signal
\* and eventually return": when nobody reads tryPing any more too.
ReceiversEnd ==
    \A b \in Bots, c \in Conns :
        []<>(connDone[b][c] => receiver[b][c] = "ended")

\* Once its context is done a Slack bot ends, wherever the adapter is: it does
\* what Supervisor takes for granted of a bot, and so Run returns.
CanceledSlackBotEnds ==
    /\ \A b \in Bots : []<>(Done(b) /\ botPc[b] # "ready" => botPc[b] = "stopped")
    /\ []<>~(runnerCtx /\ runPc = "running")
=============================================================================
