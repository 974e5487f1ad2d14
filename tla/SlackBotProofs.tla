--------------------------- MODULE SlackBotProofs ---------------------------
(***************************************************************************)
(* A bot with the Slack adapter is a bot as Supervisor describes it, over  *)
(* either API, and its adapter ends for a reason that Sarah knows of.      *)
(***************************************************************************)
EXTENDS SlackBot, SupervisorProofs

\* The steps of receivePayload, of superviseConnection and of the server are none
\* of the supervisor's business.
LEMMA QuietSteps ==
    ASSUME NEW b \in Bots,
           \/ SuperviseDone(b) \/ Tick(b) \/ Ping(b) \/ ServerSteps(b)
           \/ \E c \in Conns : LinkBreaks(b, c) \/ Receive(b, c) \/ ReceiverSteps(b, c)
    PROVE  UNCHANGED vars
<1>1. CASE SuperviseDone(b) \/ Tick(b) \/ Ping(b)
  BY <1>1 DEF SuperviseDone, Tick, Ping
<1>2. CASE ServerSteps(b)
  BY <1>2 DEF ServerSteps, ServerEnds, HandleEvent
<1>3. ASSUME NEW c \in Conns,
             LinkBreaks(b, c) \/ Receive(b, c) \/ ReceiverSteps(b, c)
      PROVE  UNCHANGED vars
  BY <1>3 DEF LinkBreaks, Receive, ReceivePayload, ReceiveFails, ReceiverSteps,
              CheckContext, Signal, HandlePayload, ReceiverGoto
<1>4. QED
  BY <1>1, <1>2, <1>3

\* A step of run leaves the supervisor alone, escalates the error that makes the
\* adapter give up, or returns to Bot.Run.
LEMMA RunStepIsSupervisorStep ==
    ASSUME NEW b \in Bots, RunSteps(b)
    PROVE  [Next]_vars
<1>1. CASE RunRTM(b) \/ RunServer(b) \/ ConnectSucceeds(b) \/ CloseConn(b)
           \/ CancelConn(b)
  BY <1>1 DEF RunRTM, RunServer, ConnectSucceeds, CloseConn, CancelConn
<1>2. CASE Escalate(b, Main, "fatal")
  BY <1>2 DEF Next, ErrNotifier, Callers, Kinds
<1>3. CASE RunReturnsToBot(b)
  BY <1>3 DEF RunReturnsToBot, Next, BotGoroutine
<1>4. CASE ConnectFails(b) \/ ListenReturns(b)
  BY <1>2, <1>4 DEF ConnectFails, ListenReturns
<1>5. QED
  BY <1>1, <1>3, <1>4 DEF RunSteps

\* Every step of the composition is a step of the supervisor or leaves the
\* supervisor's state alone.
LEMMA SlackStepIsSupervisorStep ==
    ASSUME SlackNext
    PROVE  [Next]_vars
<1>1. CASE SupervisorSteps \/ AllReturn \/ \E b \in Bots : Alerts(b)
  BY <1>1 DEF SupervisorSteps, AllReturn, Alerts, Next
<1>2. ASSUME NEW b \in Bots, SupervisorBotSteps(b)
      PROVE  Next
  <2>1. CASE HandleFatal(b, Main) \/ SendAlert(b, Main)
    BY <2>1 DEF Next, ErrNotifier, Callers
  <2>2. CASE \/ AddBot(b) \/ StartBot(b) \/ Unwatch(b) \/ NotifyShutdown(b)
             \/ WgDone(b) \/ StopBotStatus(b)
    BY <2>2 DEF Next, BotGoroutine
  <2>3. QED
    BY <1>2, <2>1, <2>2 DEF SupervisorBotSteps
<1>3. QED
  BY <1>1, <1>2, QuietSteps, RunStepIsSupervisorStep DEF SlackNext

\* So what holds of every behavior of the supervisor holds here.
LEMMA SlackBehavesAsBot == SlackSpec => Spec
<1>1. SlackInit => Init
  BY DEF SlackInit
<1>2. [SlackNext]_allVars => [Next]_vars
  BY SlackStepIsSupervisorStep DEF allVars
<1>3. QED
  BY <1>1, <1>2, PTL DEF SlackSpec, Spec

\* A Slack bot that ends although nobody canceled it is reported.
THEOREM SlackStopsAreAlerted == SlackSpec => []UnintentionalStopIsAlerted
BY SlackBehavesAsBot, UnintentionalStopsAreAlerted, PTL

-----------------------------------------------------------------------------
(***************************************************************************)
(* The adapter leaves nothing open and ends for a reason. Neither is       *)
(* inductive: both say what holds when run connects again or returns,      *)
(* while it comes about in the steps before.                               *)
(***************************************************************************)

\* run has a connection from the time it supervises one.
HasConnection(b) ==
    /\ slackPc[b] \in {"start", "listen"} => conn[b] = 0
    /\ slackPc[b] \in {"supervise", "close", "cancel"} => conn[b] > 0

\* Without an error superviseConnection and the server end only with the context.
EndsWithContext(b) ==
    /\ slackPc[b] \in {"close", "cancel"} /\ ~connErr[b] => Done(b)
    /\ server[b] = "closed" => Done(b)

\* A connection is canceled when it is closed, and not before run is done with it.
CanceledLast(b) ==
    /\ slackPc[b] = "cancel" => link[b][conn[b]] = "closed"
    /\ \A c \in Conns :
         \/ c > conn[b]
         \/ c = conn[b] /\ slackPc[b] \in {"supervise", "close", "cancel"}
         => ~connDone[b][c]

\* NothingIsLeftOpen and ReturnHasReason of one bot.
LeftOpenNot(b) ==
    \A c \in 1 .. conn[b] :
        c < conn[b] \/ slackPc[b] \in {"connect", "returned"}
            => link[b][c] = "closed" /\ connDone[b][c]

HasReason(b) == slackPc[b] = "returned" => Done(b) \/ escalated[b] > 0

SlackBotInv(b) ==
    HasConnection(b) /\ EndsWithContext(b) /\ CanceledLast(b) /\ LeftOpenNot(b)
        /\ HasReason(b)

SlackInv == SlackTypeOK /\ \A b \in Bots : SlackBotInv(b)

\* What the adapter knows of its bot.
adapterState(b) == <<slackPc[b], conn[b], connErr[b], link[b], connDone[b], server[b]>>

\* A step that leaves the adapter of a bot alone preserves its invariant.
LEMMA AdapterFrame ==
    ASSUME TypeOK, [Next]_vars, NEW b \in Bots, SlackBotInv(b), UNCHANGED adapterState(b)
    PROVE  SlackBotInv(b)'
<1>1. /\ slackPc'[b] = slackPc[b] /\ conn'[b] = conn[b] /\ connErr'[b] = connErr[b]
      /\ link'[b] = link[b] /\ connDone'[b] = connDone[b] /\ server'[b] = server[b]
  BY DEF adapterState
<1>2. (Done(b) => Done(b)') /\ (escalated[b] > 0 => escalated'[b] > 0)
  BY DoneStep, EscalatedStep
<1>3. QED
  BY <1>1, <1>2 DEF SlackBotInv, HasConnection, EndsWithContext, CanceledLast,
                    LeftOpenNot, HasReason

\* Who else moves leaves the adapter of a bot alone.
LEMMA OtherAdapters ==
    ASSUME SlackTypeOK, NEW b \in Bots, NEW d \in Bots, d # b,
           \/ RunSteps(d) \/ SuperviseDone(d) \/ Ping(d) \/ ServerSteps(d)
           \/ \E c \in Conns : LinkBreaks(d, c)
    PROVE  UNCHANGED adapterState(b)
<1>1. CASE RunSteps(d)
  BY <1>1 DEF SlackTypeOK, adapterState, RunSteps, RunRTM, RunServer, ListenReturns,
              RunReturnsToBot, ConnectFails, ConnectSucceeds, CloseConn, CancelConn,
              SlackGoto, slackVars
<1>2. CASE SuperviseDone(d) \/ Ping(d)
  BY <1>2 DEF SlackTypeOK, adapterState, SuperviseDone, Ping, SlackGoto
<1>3. CASE ServerSteps(d)
  BY <1>3 DEF SlackTypeOK, adapterState, ServerSteps, ServerEnds, HandleEvent
<1>4. ASSUME NEW c \in Conns, LinkBreaks(d, c)
      PROVE  UNCHANGED adapterState(b)
  BY <1>4 DEF SlackTypeOK, adapterState, LinkBreaks
<1>5. QED
  BY <1>1, <1>2, <1>3, <1>4

\* Every step preserves the types.
LEMMA SlackTypeStep ==
    ASSUME SlackTypeOK, [SlackNext]_allVars
    PROVE  SlackTypeOK'
<1>1. TypeOK'
  <2>1. [Next]_vars
    BY SlackStepIsSupervisorStep DEF allVars
  <2>2. QED
    BY <2>1, TypeStep DEF SlackTypeOK
<1>2. CASE UNCHANGED slackVars
  BY <1>1, <1>2 DEF SlackTypeOK, slackVars
<1>3. ASSUME NEW b \in Bots, RunSteps(b)
      PROVE  SlackTypeOK'
  <2> USE <1>1 DEF SlackTypeOK, SlackGoto, SlackPcs
  <2>1. CASE RunRTM(b) \/ RunServer(b)
    BY <2>1 DEF RunRTM, RunServer
  <2>2. CASE ListenReturns(b) \/ RunReturnsToBot(b)
    BY <2>2 DEF ListenReturns, RunReturnsToBot, slackVars
  <2>3. CASE ConnectFails(b)
    <3>1. trials[b] + 1 \in 0 .. Trials
      BY <2>3, SlackAssumption DEF ConnectFails
    <3>2. QED
      BY <2>3, <3>1 DEF ConnectFails
  <2>4. CASE ConnectSucceeds(b)
    <3>1. conn[b] + 1 \in 0 .. MaxConns /\ conn[b] + 1 \in Conns /\ 0 \in 0 .. Trials
      BY <2>4, SlackAssumption DEF ConnectSucceeds, Conns
    <3>2. link' \in [Bots -> [Conns -> Links]]
      BY <2>4, <3>1 DEF ConnectSucceeds, Links
    <3>3. receiver' \in [Bots -> [Conns -> ReceiverPcs]]
      BY <2>4, <3>1 DEF ConnectSucceeds, ReceiverPcs
    <3>4. QED
      BY <2>4, <3>1, <3>2, <3>3 DEF ConnectSucceeds
  <2>5. CASE CloseConn(b)
    <3>1. link' \in [Bots -> [Conns -> Links]]
      BY <2>5 DEF CloseConn, Links
    <3>2. QED
      BY <2>5, <3>1 DEF CloseConn
  <2>6. CASE CancelConn(b)
    <3>1. connDone' \in [Bots -> [Conns -> BOOLEAN]]
      BY <2>6 DEF CancelConn
    <3>2. QED
      BY <2>6, <3>1 DEF CancelConn
  <2>7. QED
    BY <1>3, <2>1, <2>2, <2>3, <2>4, <2>5, <2>6 DEF RunSteps
<1>4. ASSUME NEW b \in Bots, SuperviseDone(b) \/ Tick(b) \/ Ping(b)
      PROVE  SlackTypeOK'
  <2>1. tryPing' \in [Bots -> [Conns -> 0 .. 1]]
    <3> DEFINE Bit == 0 .. 1
    <3>1. 0 \in Bit /\ 1 \in Bit /\ tryPing \in [Bots -> [Conns -> Bit]]
      BY DEF SlackTypeOK
    <3> HIDE DEF Bit
    <3>2. tryPing' \in [Bots -> [Conns -> Bit]]
      BY <1>4, <3>1 DEF SuperviseDone, Tick, Ping
    <3>3. QED
      BY <3>2 DEF Bit
  <2>2. slackPc' \in [Bots -> SlackPcs] /\ connErr' \in [Bots -> BOOLEAN]
    BY <1>4 DEF SlackTypeOK, SlackGoto, SlackPcs, SuperviseDone, Tick, Ping
  <2>3. UNCHANGED <<trials, conn, link, connDone, receiver, inputs, server>>
    BY <1>4 DEF SuperviseDone, Tick, Ping
  <2>4. QED
    BY <1>1, <2>1, <2>2, <2>3 DEF SlackTypeOK
<1>5. ASSUME NEW b \in Bots, NEW payload \in Payloads, Handle(b, payload)
      PROVE  inputs' \in [Bots -> 0 .. MaxInputs]
  <2>1. inputs[b] < MaxInputs => inputs[b] + 1 \in 0 .. MaxInputs
    BY SlackAssumption DEF SlackTypeOK
  <2>2. QED
    BY <1>5, <2>1 DEF SlackTypeOK, Handle
<1>6. ASSUME NEW b \in Bots, ServerSteps(b)
      PROVE  SlackTypeOK'
  <2>1. ASSUME NEW end \in {"failed", "closed"}, ServerEnds(b, end)
        PROVE  SlackTypeOK'
    BY <1>1, <2>1 DEF SlackTypeOK, ServerEnds
  <2>2. ASSUME NEW payload \in Payloads, HandleEvent(b, payload)
        PROVE  SlackTypeOK'
    <3>1. inputs' \in [Bots -> 0 .. MaxInputs]
      BY <1>5, <2>2 DEF HandleEvent
    <3>2. QED
      BY <1>1, <2>2, <3>1 DEF SlackTypeOK, HandleEvent
  <2>3. QED
    BY <1>6, <2>1, <2>2 DEF ServerSteps
<1>7. ASSUME NEW b \in Bots, NEW c \in Conns, LinkBreaks(b, c)
      PROVE  SlackTypeOK'
  <2>1. link' \in [Bots -> [Conns -> Links]]
    BY <1>7 DEF SlackTypeOK, LinkBreaks, Links
  <2>2. QED
    BY <1>1, <1>7, <2>1 DEF SlackTypeOK, LinkBreaks
<1>8. ASSUME NEW b \in Bots, NEW c \in Conns, Receive(b, c) \/ ReceiverSteps(b, c)
      PROVE  SlackTypeOK'
  <2>1. /\ \E from, to \in ReceiverPcs : ReceiverGoto(b, c, from, to)
        /\ tryPing' = tryPing \/ tryPing' = [tryPing EXCEPT ![b][c] = 1]
        /\ inputs' = inputs \/ \E payload \in Payloads : Handle(b, payload)
    BY <1>8 DEF Receive, ReceivePayload, ReceiveFails, ReceiverSteps, CheckContext,
                Signal, HandlePayload, ReceiverPcs
  <2>2. receiver' \in [Bots -> [Conns -> ReceiverPcs]]
    BY <2>1 DEF SlackTypeOK, ReceiverGoto
  <2>3. tryPing' \in [Bots -> [Conns -> 0 .. 1]]
    <3> DEFINE Bit == 0 .. 1
    <3>1. 0 \in Bit /\ 1 \in Bit /\ tryPing \in [Bots -> [Conns -> Bit]]
      BY DEF SlackTypeOK
    <3> HIDE DEF Bit
    <3>2. tryPing' \in [Bots -> [Conns -> Bit]]
      BY <2>1, <3>1
    <3>3. QED
      BY <3>2 DEF Bit
  <2>4. inputs' \in [Bots -> 0 .. MaxInputs]
    BY <1>5, <2>1 DEF SlackTypeOK
  <2>5. UNCHANGED <<slackPc, trials, conn, connErr, link, connDone, server>>
    BY <2>1 DEF ReceiverGoto
  <2>6. QED
    BY <1>1, <2>2, <2>3, <2>4, <2>5 DEF SlackTypeOK
<1>9. QED
  BY <1>2, <1>3, <1>4, <1>6, <1>7, <1>8
     DEF SlackNext, SupervisorSteps, AllReturn, SupervisorBotSteps, Alerts, allVars

\* The steps of run preserve the invariant of its bot.
LEMMA OwnRunStep ==
    ASSUME SlackTypeOK, NEW b \in Bots, SlackBotInv(b), RunSteps(b)
    PROVE  SlackBotInv(b)'
<1> [Next]_vars
  BY RunStepIsSupervisorStep
<1>1. (Done(b) => Done(b)') /\ escalated'[b] \in Nat
        /\ (escalated[b] > 0 => escalated'[b] > 0)
  BY DoneStep, EscalatedStep DEF SlackTypeOK
<1>2. conn[b] \in Nat
  BY DEF SlackTypeOK
<1> USE DEF SlackBotInv, HasConnection, EndsWithContext, CanceledLast, LeftOpenNot,
            HasReason
<1>3. CASE RunRTM(b) \/ RunServer(b)
  BY <1>1, <1>2, <1>3 DEF SlackTypeOK, RunRTM, RunServer, SlackGoto
<1>4. CASE RunReturnsToBot(b)
  BY <1>1, <1>4 DEF RunReturnsToBot, slackVars
<1>5. CASE ListenReturns(b)
  <2>1. Done(b)' \/ escalated'[b] > 0
    <3>1. CASE Escalate(b, Main, "fatal")
      BY <3>1 DEF SlackTypeOK, TypeOK, Escalate
    <3>2. QED
      BY <1>1, <1>5, <3>1 DEF ListenReturns
  <2>2. QED
    BY <1>1, <1>2, <1>5, <2>1 DEF SlackTypeOK, ListenReturns, SlackGoto
<1>6. CASE ConnectFails(b)
  <2>1. slackPc'[b] = "returned" => escalated'[b] > 0
    BY <1>6 DEF SlackTypeOK, TypeOK, ConnectFails, SlackGoto, Escalate
  <2>2. slackPc'[b] \in {"connect", "returned"} /\ slackPc[b] = "connect"
    BY <1>6 DEF SlackTypeOK, ConnectFails, SlackGoto
  <2>3. UNCHANGED <<conn, connErr, link, connDone, server>>
    BY <1>6 DEF ConnectFails
  <2>4. QED
    BY <1>1, <1>2, <2>1, <2>2, <2>3
<1>7. CASE ConnectSucceeds(b)
  <2>1. /\ slackPc[b] = "connect" /\ slackPc'[b] = "supervise"
        /\ conn'[b] = conn[b] + 1 /\ conn'[b] \in Conns
        /\ \A c \in 1 .. conn[b] : link'[b][c] = link[b][c]
        /\ UNCHANGED <<connErr, connDone, server>>
    BY <1>2, <1>7, SlackAssumption DEF SlackTypeOK, ConnectSucceeds, SlackGoto, Conns
  <2>2. \A c \in 1 .. conn'[b] : c < conn'[b] => c \in 1 .. conn[b]
    BY <1>2, <2>1
  <2>3. LeftOpenNot(b)'
    BY <2>1, <2>2
  <2>4. CanceledLast(b)'
    <3>1. \A c \in Conns : c >= conn'[b] => c > conn[b]
      BY <1>2, <2>1 DEF Conns
    <3>2. \A c \in Conns : c > conn'[b] \/ c = conn'[b] => c >= conn'[b]
      BY <1>2, <2>1 DEF Conns
    <3>3. QED
      BY <2>1, <3>1, <3>2
  <2>5. HasConnection(b)' /\ EndsWithContext(b)' /\ HasReason(b)'
    BY <1>1, <1>2, <2>1
  <2>6. QED
    BY <2>3, <2>4, <2>5
<1>8. CASE CloseConn(b)
  <2>1. /\ slackPc[b] = "close" /\ slackPc'[b] = "cancel" /\ conn[b] \in Conns
        /\ link' = [link EXCEPT ![b][conn[b]] = "closed"]
        /\ UNCHANGED <<conn, connErr, connDone, server>>
    BY <1>2, <1>8 DEF SlackTypeOK, CloseConn, SlackGoto, Conns
  <2>2. /\ link'[b][conn[b]] = "closed"
        /\ \A c \in Conns : c # conn[b] => link'[b][c] = link[b][c]
    BY <2>1 DEF SlackTypeOK
  <2>3. \A c \in 1 .. conn[b] : c \in Conns
    BY <1>2, <2>1, SlackAssumption DEF Conns
  <2>4. QED
    BY <1>1, <1>2, <2>1, <2>2, <2>3
<1>9. CASE CancelConn(b)
  <2>1. /\ slackPc[b] = "cancel" /\ conn[b] \in Conns
        /\ slackPc'[b] = IF connErr[b] THEN "connect" ELSE "returned"
        /\ connDone' = [connDone EXCEPT ![b][conn[b]] = TRUE]
        /\ UNCHANGED <<conn, connErr, link, server>>
    BY <1>2, <1>9 DEF SlackTypeOK, CancelConn, SlackGoto, Conns
  <2>2. /\ connDone'[b][conn[b]] = TRUE
        /\ \A c \in Conns : c # conn[b] => connDone'[b][c] = connDone[b][c]
    BY <2>1 DEF SlackTypeOK
  <2>3. \A c \in 1 .. conn[b] : c \in Conns
    BY <1>2, <2>1, SlackAssumption DEF Conns
  <2>4. slackPc'[b] = "returned" => Done(b)'
    BY <1>1, <2>1
  <2>5. QED
    BY <1>1, <1>2, <2>1, <2>2, <2>3, <2>4
<1>10. QED
  BY <1>3, <1>4, <1>5, <1>6, <1>7, <1>8, <1>9 DEF RunSteps

\* So do the steps of superviseConnection, of the server and of the network.
LEMMA OwnQuietStep ==
    ASSUME SlackTypeOK, NEW b \in Bots, SlackBotInv(b),
           \/ SuperviseDone(b) \/ Ping(b) \/ ServerSteps(b)
           \/ \E c \in Conns : LinkBreaks(b, c)
    PROVE  SlackBotInv(b)'
<1>1. UNCHANGED vars
  BY QuietSteps
<1>2. (Done(b) <=> Done(b)') /\ escalated'[b] = escalated[b]
  BY <1>1 DEF vars, Done
<1>3. conn[b] \in Nat
  BY DEF SlackTypeOK
<1> USE DEF SlackBotInv, HasConnection, EndsWithContext, CanceledLast, LeftOpenNot,
            HasReason
<1>4. CASE SuperviseDone(b)
  <2>1. /\ slackPc[b] = "supervise" /\ slackPc'[b] = "close" /\ conn[b] \in Conns
        /\ UNCHANGED <<conn, link, connDone, server>>
    BY <1>3, <1>4 DEF SlackTypeOK, SuperviseDone, SlackGoto, Conns
  <2>2. Done(b)'
    BY <1>2, <1>4, <2>1 DEF SuperviseDone, ConnCtxDone
  <2>3. QED
    BY <1>2, <1>3, <2>1, <2>2
<1>5. CASE Ping(b)
  <2>1. /\ slackPc[b] = "supervise" /\ slackPc'[b] \in {"supervise", "close"}
        /\ slackPc'[b] = "close" => connErr'[b] = TRUE
        /\ UNCHANGED <<conn, link, connDone, server>>
    BY <1>5 DEF SlackTypeOK, Ping
  <2>2. QED
    BY <1>2, <1>3, <2>1
<1>6. CASE ServerSteps(b)
  <2>1. /\ UNCHANGED <<slackPc, conn, connErr, link, connDone>>
        /\ server'[b] = "closed" => Done(b)
    BY <1>6 DEF SlackTypeOK, ServerSteps, ServerEnds, HandleEvent
  <2>2. QED
    BY <1>2, <2>1
<1>7. ASSUME NEW c \in Conns, LinkBreaks(b, c)
      PROVE  SlackBotInv(b)'
  <2>1. /\ link[b][c] = "up"
        /\ \A d \in Conns : d # c => link'[b][d] = link[b][d]
        /\ UNCHANGED <<slackPc, conn, connErr, connDone, server>>
    BY <1>7 DEF SlackTypeOK, LinkBreaks
  <2>2. \A d \in 1 .. conn[b] : d \in Conns
    BY <1>3, SlackAssumption DEF SlackTypeOK, Conns
  <2>3. slackPc[b] = "cancel" => conn[b] \in Conns
    BY <1>3 DEF SlackTypeOK, Conns
  <2>4. QED
    BY <1>2, <1>3, <2>1, <2>2, <2>3
<1>8. QED
  BY <1>4, <1>5, <1>6, <1>7

\* The invariant is inductive.
LEMMA SlackInvStep ==
    ASSUME SlackInv, [SlackNext]_allVars
    PROVE  SlackInv'
<1>1. SlackTypeOK'
  BY SlackTypeStep DEF SlackInv
<1>2. ASSUME NEW b \in Bots PROVE SlackBotInv(b)'
  <2>1. TypeOK /\ SlackTypeOK /\ SlackBotInv(b) /\ [Next]_vars
    BY SlackStepIsSupervisorStep DEF SlackInv, SlackTypeOK, allVars
  <2>2. CASE UNCHANGED adapterState(b)
    BY <2>1, <2>2, AdapterFrame
  <2>3. ASSUME NEW d \in Bots,
               \/ RunSteps(d) \/ SuperviseDone(d) \/ Ping(d) \/ ServerSteps(d)
               \/ \E c \in Conns : LinkBreaks(d, c)
        PROVE  SlackBotInv(b)'
    <3>1. CASE d = b
      BY <2>1, <2>3, <3>1, OwnRunStep, OwnQuietStep
    <3>2. CASE d # b
      BY <2>1, <2>2, <2>3, <3>2, OtherAdapters
    <3>3. QED
      BY <3>1, <3>2
  <2>4. ASSUME NEW d \in Bots,
               \/ SupervisorBotSteps(d) \/ Alerts(d) \/ Tick(d)
               \/ \E c \in Conns : Receive(d, c) \/ ReceiverSteps(d, c)
        PROVE  UNCHANGED adapterState(b)
    BY <2>4 DEF SupervisorBotSteps, Alerts, slackVars, Tick, Receive, ReceivePayload,
                ReceiveFails, ReceiverSteps, CheckContext, Signal, HandlePayload,
                ReceiverGoto, adapterState
  <2>5. CASE SupervisorSteps \/ AllReturn \/ UNCHANGED allVars
    <3>1. UNCHANGED adapterState(b)
      BY <2>5 DEF SupervisorSteps, AllReturn, slackVars, allVars, adapterState
    <3>2. QED
      BY <2>2, <3>1
  <2>6. QED
    BY <2>2, <2>3, <2>4, <2>5 DEF SlackNext
<1>3. QED
  BY <1>1, <1>2 DEF SlackInv

\* The invariant holds before Run is called.
LEMMA SlackInitInv == SlackInit => SlackInv
<1> SUFFICES ASSUME SlackInit PROVE SlackInv
  OBVIOUS
<1>1. TypeOK
  BY InitIndInv DEF SlackInit, IndInv
<1>2. 0 \in 0 .. Trials /\ 0 \in 0 .. MaxConns /\ 0 \in 0 .. MaxInputs /\ 0 \in 0 .. 1
  BY SlackAssumption
<1>3. SlackTypeOK
  BY <1>1, <1>2 DEF SlackInit, SlackTypeOK, SlackPcs, Links, ReceiverPcs
<1>4. ASSUME NEW b \in Bots PROVE SlackBotInv(b)
  BY DEF SlackInit, SlackBotInv, HasConnection, EndsWithContext, CanceledLast,
         LeftOpenNot, HasReason
<1>5. QED
  BY <1>3, <1>4 DEF SlackInv

\* The adapter's pc, its connections, their contexts and the errors it notified
\* agree at every step of run, its receivers and the supervisor.
THEOREM SlackInductiveInvariant == SlackSpec => []SlackInv
BY SlackInitInv, SlackInvStep, PTL DEF SlackSpec

\* Type correctness of the adapter's state.
THEOREM SlackTypeCorrect == SlackSpec => []SlackTypeOK
<1>1. SlackInv => SlackTypeOK
  BY DEF SlackInv
<1>2. QED
  BY <1>1, SlackInductiveInvariant, PTL

\* However often the connection is lost, no connection is left open when run
\* connects again or returns.
THEOREM NoConnectionLeftOpen == SlackSpec => []NothingIsLeftOpen
<1>1. SlackInv => NothingIsLeftOpen
  BY DEF SlackInv, SlackBotInv, LeftOpenNot, NothingIsLeftOpen
<1>2. QED
  BY <1>1, SlackInductiveInvariant, PTL

\* The adapter does not end unless it was canceled or told Sarah the error.
THEOREM SlackReturnsForAReason == SlackSpec => []ReturnHasReason
<1>1. SlackInv => ReturnHasReason
  BY DEF SlackInv, SlackBotInv, HasReason, ReturnHasReason
<1>2. QED
  BY <1>1, SlackInductiveInvariant, PTL

\* A connection whose context run canceled has been closed before.
LEMMA CanceledIsClosed ==
    ASSUME SlackInv, NEW b \in Bots, NEW c \in Conns, connDone[b][c]
    PROVE  link[b][c] = "closed"
<1>1. /\ c \in Nat /\ c >= 1 /\ conn[b] \in Nat /\ slackPc[b] \in SlackPcs
      /\ HasConnection(b) /\ CanceledLast(b) /\ LeftOpenNot(b)
  BY SlackAssumption DEF SlackInv, SlackBotInv, SlackTypeOK, Conns
<1>2. ~(c > conn[b]) /\ ~(c = conn[b] /\ slackPc[b] \in {"supervise", "close", "cancel"})
  BY <1>1 DEF CanceledLast
<1>3. c \in 1 .. conn[b]
  BY <1>1, <1>2
<1>4. c < conn[b] \/ slackPc[b] \in {"connect", "returned"}
  BY <1>1, <1>2, <1>3 DEF HasConnection, SlackPcs
<1>5. QED
  BY <1>1, <1>3, <1>4 DEF LeftOpenNot

\* Only receivePayload hands a payload to its handler, over an open connection.
LEMMA HandleNeedsLink ==
    ASSUME SlackTypeOK, SlackNext, NEW b \in Bots, NEW c \in Conns,
           receiver'[b][c] = "handle", receiver[b][c] # "handle"
    PROVE  link[b][c] = "up"
<1>0. receiver \in [Bots -> [Conns -> ReceiverPcs]]
  BY DEF SlackTypeOK
<1>1. CASE UNCHANGED receiver
  BY <1>1
<1>2. ASSUME NEW d \in Bots, NEW e \in Conns, NEW to,
             receiver' = [receiver EXCEPT ![d][e] = to], to # "handle"
      PROVE  FALSE
  BY <1>0, <1>2
<1>3. ASSUME NEW d \in Bots, ConnectSucceeds(d)
      PROVE  FALSE
  <2>1. conn[d] + 1 \in Conns
    BY <1>3, SlackAssumption DEF ConnectSucceeds, SlackTypeOK, Conns
  <2>2. QED
    BY <1>2, <1>3, <2>1 DEF ConnectSucceeds
<1>4. ASSUME NEW d \in Bots, RunSteps(d), ~ConnectSucceeds(d)
      PROVE  UNCHANGED receiver
  BY <1>4 DEF RunSteps, RunRTM, RunServer, ListenReturns, RunReturnsToBot, ConnectFails,
              CloseConn, CancelConn, slackVars
<1>5. ASSUME NEW d \in Bots,
             \/ SupervisorBotSteps(d) \/ Alerts(d) \/ SuperviseDone(d) \/ Tick(d) \/ Ping(d)
             \/ ServerSteps(d) \/ \E e \in Conns : LinkBreaks(d, e)
      PROVE  UNCHANGED receiver
  BY <1>5 DEF SupervisorBotSteps, Alerts, SuperviseDone, Tick, Ping, ServerSteps,
              ServerEnds, HandleEvent, LinkBreaks, slackVars
<1>6. ASSUME NEW d \in Bots, NEW e \in Conns, ReceiverSteps(d, e)
      PROVE  FALSE
  <2>1. \E to \in {"ended", "receive", "check"} :
           receiver' = [receiver EXCEPT ![d][e] = to]
    BY <1>6 DEF ReceiverSteps, CheckContext, Signal, HandlePayload, ReceiverGoto
  <2>2. QED
    BY <1>2, <2>1
<1>7. ASSUME NEW d \in Bots, NEW e \in Conns, ReceiveFails(d, e)
      PROVE  FALSE
  BY <1>2, <1>7 DEF ReceiveFails, ReceiverGoto
<1>8. ASSUME NEW d \in Bots, NEW e \in Conns, NEW skipped \in BOOLEAN,
             ReceivePayload(d, e, skipped)
      PROVE  link[b][c] = "up"
  <2>1. \E to : receiver' = [receiver EXCEPT ![d][e] = to]
    BY <1>8 DEF ReceivePayload, ReceiverGoto
  <2>2. d = b /\ e = c
    BY <1>0, <2>1
  <2>3. QED
    BY <1>8, <2>2 DEF ReceivePayload
<1>9. CASE SupervisorSteps \/ AllReturn
  BY <1>1, <1>9 DEF SupervisorSteps, AllReturn, slackVars
<1>10. QED
  BY <1>1, <1>3, <1>4, <1>5, <1>6, <1>7, <1>8, <1>9 DEF SlackNext, Receive

\* While run has gone on to the next connection, the receiver of an older one
\* handles at most the payload it has in hand: it gets no other, however the
\* receivers, run and the network interleave.
THEOREM OldReceiverGetsNoPayload == SlackSpec => NoPayloadAfterCancel
<1> DEFINE A == \A b \in Bots, c \in Conns :
                  connDone[b][c] /\ receiver'[b][c] = "handle" => receiver[b][c] = "handle"
<1>1. SlackInv /\ SlackNext => A
  <2> SUFFICES ASSUME SlackInv, SlackNext, NEW b \in Bots, NEW c \in Conns,
                      connDone[b][c], receiver'[b][c] = "handle",
                      receiver[b][c] # "handle"
               PROVE  FALSE
    OBVIOUS
  <2>1. SlackTypeOK
    BY DEF SlackInv
  <2>2. link[b][c] = "up"
    BY <2>1, HandleNeedsLink
  <2>3. link[b][c] = "closed"
    BY CanceledIsClosed
  <2>4. QED
    BY <2>2, <2>3
<1>2. SlackInv /\ [SlackNext]_allVars => [A]_allVars
  BY <1>1
<1>3. QED
  BY <1>2, SlackInductiveInvariant, PTL DEF SlackSpec, NoPayloadAfterCancel
=============================================================================
