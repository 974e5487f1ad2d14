----------------------------- MODULE GitterBot ------------------------------
(***************************************************************************)
(* A bot with the adapter of gitter/adapter.go under the supervision of    *)
(* Supervisor. Adapter.Run asks Gitter for the rooms, starts a goroutine   *)
(* per room and returns; the goroutine of a room connects to its stream,   *)
(* receives messages and connects again. These goroutines do not have the  *)
(* error notifier. The service, its REST and streaming APIs are external.  *)
(***************************************************************************)
EXTENDS Supervisor

CONSTANTS
    Rooms,     \* the rooms the owner of the token belongs to
    MaxLines   \* bound: lines that Gitter sends to one room

ASSUME GitterAssumption == MaxLines \in Nat

VARIABLES
    adapter,   \* progress of Adapter.Run of each bot
    room,      \* progress of runEachRoom for each room
    lines,     \* number of lines Gitter has sent to each room
    wire,      \* the lines that the connection of the room still holds
    enqueued   \* the lines that were given to enqueueInput, in this order

roomVars == <<adapter, room, lines, wire, enqueued>>
allVars  == <<vars, roomVars>>

\* What decodePayload makes of a line: a message, ErrEmptyPayload for the newline
\* of a keep-alive, or a MalformedPayloadError.
Payloads == {"message", "empty", "malformed"}

Line == [no : 1 .. MaxLines, payload : Payloads]

GitterTypeOK ==
    /\ TypeOK
    /\ adapter \in [Bots -> {"fetch", "returned"}]
    /\ room \in [Bots -> [Rooms -> {"none", "check", "connect", "receive", "ended"}]]
    /\ lines \in [Bots -> [Rooms -> 0 .. MaxLines]]
    /\ wire \in [Bots -> [Rooms -> Seq(Line)]]
    /\ enqueued \in [Bots -> [Rooms -> Seq(1 .. MaxLines)]]
    /\ \A b \in Bots : adapter[b] = "fetch" => botPc[b] \in {"ready", "added", "running"}

GitterInit ==
    /\ Init
    /\ adapter = [b \in Bots |-> "fetch"]
    /\ room = [b \in Bots |-> [r \in Rooms |-> "none"]]
    /\ lines = [b \in Bots |-> [r \in Rooms |-> 0]]
    /\ wire = [b \in Bots |-> [r \in Rooms |-> <<>>]]
    /\ enqueued = [b \in Bots |-> [r \in Rooms |-> <<>>]]

-----------------------------------------------------------------------------
(***************************************************************************)
(* Adapter.Run                                                             *)
(***************************************************************************)

\* Requests carry the context of the bot and fail once it is done.
RequestMaySucceed(b) == ~Done(b)

FetchRooms(b) ==
    /\ botPc[b] = "running"
    /\ adapter[b] = "fetch"
    /\ RequestMaySucceed(b)
    /\ adapter' = [adapter EXCEPT ![b] = "returned"]
    /\ room' = [room EXCEPT ![b] = [r \in Rooms |-> "check"]]
    /\ UNCHANGED <<vars, lines, wire, enqueued>>

\* Mutant of FetchFails: the adapter returns without a word.
FetchFailsSilently(b) ==
    /\ botPc[b] = "running"
    /\ adapter[b] = "fetch"
    /\ adapter' = [adapter EXCEPT ![b] = "returned"]
    /\ UNCHANGED <<vars, room, lines, wire, enqueued>>

\* All trials of the retry policy failed.
FetchFails(b) ==
    /\ adapter[b] = "fetch"
    /\ Escalate(b, Main, "fatal")
    /\ adapter' = [adapter EXCEPT ![b] = "returned"]
    /\ UNCHANGED <<room, lines, wire, enqueued>>

\* Mutant of RunReturnsToBot: Adapter.Run does not wait for the rooms' list.
RunReturnsEarly(b) == BotRunReturns(b) /\ UNCHANGED roomVars

RunReturnsToBot(b) ==
    /\ adapter[b] = "returned"
    /\ BotRunReturns(b)
    /\ UNCHANGED roomVars

-----------------------------------------------------------------------------
(***************************************************************************)
(* runEachRoom                                                             *)
(***************************************************************************)
Goes(b, r, from, to) ==
    /\ room[b][r] = from
    /\ room' = [room EXCEPT ![b][r] = to]
    /\ UNCHANGED <<vars, adapter, lines, enqueued>>

RoomChecks(b, r) ==
    /\ Goes(b, r, "check", IF Done(b) THEN "ended" ELSE "connect")
    /\ UNCHANGED wire

RoomConnects(b, r) ==
    /\ RequestMaySucceed(b)
    /\ Goes(b, r, "connect", "receive")
    /\ UNCHANGED wire

\* All trials failed: the goroutine ends with a line in the log.
RoomGivesUp(b, r) == Goes(b, r, "connect", "ended") /\ UNCHANGED wire

\* Mutant of RoomDisconnects: an error of Receive is skipped as if it were a
\* malformed payload.
RoomDisconnectsNot(b, r) == Goes(b, r, "receive", "receive") /\ UNCHANGED wire

\* Receive fails: the stream broke, or its context is done. What the closed
\* connection held is gone.
RoomDisconnects(b, r) ==
    /\ Goes(b, r, "receive", "check")
    /\ wire' = [wire EXCEPT ![b][r] = <<>>]

-----------------------------------------------------------------------------
(***************************************************************************)
(* receiveMessageRecursive. Every call of Receive wraps the stream into a  *)
(* new bufio.Reader and takes one line from it; what else the buffer of    *)
(* that reader took from the stream is gone with it.                       *)
(***************************************************************************)
GitterSends(b, r, payload) ==
    /\ room[b][r] = "receive"
    /\ lines[b][r] < MaxLines
    /\ lines' = [lines EXCEPT ![b][r] = @ + 1]
    /\ wire' = [wire EXCEPT ![b][r] =
                   Append(@, [no |-> lines[b][r] + 1, payload |-> payload])]
    /\ UNCHANGED <<vars, adapter, room, enqueued>>

\* Mutant of Buffered: the line that Receive returns stays in the stream.
BufferedNot(w, n, torn) == w

\* What is left of the stream once a reader has buffered its first n lines and,
\* when torn, also the beginning of the next one, the rest of which cannot be
\* decoded any more.
Buffered(w, n, torn) ==
    LET rest == SubSeq(w, n + 1, Len(w))
    IN  IF torn THEN [rest EXCEPT ![1].payload = "malformed"] ELSE rest

\* Receive returns the first line that the new reader buffered. A message is
\* enqueued, whatever enqueueInput says; an empty or malformed line is skipped.
RoomReceives(b, r, n, torn) ==
    LET w == wire[b][r]
    IN  /\ room[b][r] = "receive"
        /\ n \in 1 .. Len(w)
        /\ torn => n < Len(w)
        /\ wire' = [wire EXCEPT ![b][r] = Buffered(w, n, torn)]
        /\ \/ /\ w[1].payload = "message"
              /\ enqueued' = [enqueued EXCEPT ![b][r] = Append(@, w[1].no)]
           \/ w[1].payload # "message" /\ UNCHANGED enqueued
        /\ UNCHANGED <<vars, adapter, room, lines>>

-----------------------------------------------------------------------------
(***************************************************************************)
(* The composition with Supervisor: Adapter.Run calls errNotifier and      *)
(* returns to runBot, and every other step of it leaves the supervisor     *)
(* alone.                                                                  *)
(***************************************************************************)
SupervisorSteps ==
    /\ \/ CancelRunner \/ Run \/ RunReturns
       \/ \E b \in Bots :
            \/ AddBot(b) \/ StartBot(b) \/ Unwatch(b) \/ NotifyShutdown(b)
            \/ WgDone(b) \/ StopBotStatus(b)
            \/ HandleFatal(b, Main) \/ SendAlert(b, Main)
            \/ AlertGoroutine(b)
    /\ UNCHANGED roomVars

AdapterSteps(b) == FetchRooms(b) \/ FetchFails(b) \/ RunReturnsToBot(b)

RoomSteps(b, r) ==
    \/ RoomChecks(b, r) \/ RoomConnects(b, r) \/ RoomGivesUp(b, r)
    \/ RoomDisconnects(b, r)

StreamSteps(b, r) ==
    \/ \E payload \in Payloads : GitterSends(b, r, payload)
    \/ \E n \in 1 .. MaxLines, torn \in BOOLEAN : RoomReceives(b, r, n, torn)

GitterNext ==
    \/ SupervisorSteps
    \/ \E b \in Bots : AdapterSteps(b)
    \/ \E b \in Bots, r \in Rooms : RoomSteps(b, r) \/ StreamSteps(b, r)

GitterSpec == GitterInit /\ [][GitterNext]_allVars

\* The goroutines of the rooms run when they can, and the stream of a room ends
\* with its context.
GitterFairSpec ==
    /\ GitterSpec
    /\ \A b \in Bots, r \in Rooms :
         WF_allVars(\/ RoomChecks(b, r) \/ RoomConnects(b, r) \/ RoomGivesUp(b, r)
                    \/ Done(b) /\ RoomDisconnects(b, r))

-----------------------------------------------------------------------------
(***************************************************************************)
(* Properties                                                              *)
(***************************************************************************)

\* Adapter.Run leaves without a word only when the goroutines of all rooms are
\* started: if it has no rooms to serve, Sarah canceled the bot or has been told
\* why, whatever becomes of the request for the rooms when the two coincide.
SilentReturnServesRooms ==
    \A b \in Bots :
        adapter[b] = "returned" => \/ Done(b)
                                  \/ escalated[b] > 0
                                  \/ \A r \in Rooms : room[b][r] # "none"

\* Once the context of a bot is done, the goroutine of every room of it ends,
\* wherever it is.
RoomsEnd ==
    \A b \in Bots, r \in Rooms :
        Done(b) ~> room[b][r] \in {"none", "ended"}

\* A room's inputs are enqueued in the order in which Gitter sent them and none
\* of them twice, over reconnections and although every call of Receive starts a
\* reader of its own on the same stream.
InputsInOrder ==
    \A b \in Bots, r \in Rooms :
        \A i, j \in 1 .. Len(enqueued[b][r]) :
            i < j => enqueued[b][r][i] < enqueued[b][r][j]

\* Receive: "reads a new incoming message and return this as RoomMessage". While
\* the connection lasts, it takes no more from the stream than the line that it
\* returns.
ReceiveTakesOneLine ==
    [][\A b \in Bots, r \in Rooms :
          room'[b][r] = room[b][r] => Len(wire'[b][r]) >= Len(wire[b][r]) - 1]_allVars

\* Adapter.Run: "New goroutines are activated for each Room to connect, and the
\* interactions run in a concurrent manner." A bot that found its rooms is not
\* stopped as one that failed.
ServedBotIsNotStopped ==
    \A b \in Bots : (\E r \in Rooms : room[b][r] # "none") => "fatal" \notin reasons[b]
=============================================================================
