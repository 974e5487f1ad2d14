-------------------------- MODULE GitterBotProofs ---------------------------
(***************************************************************************)
(* A bot with the Gitter adapter is a bot as Supervisor describes it, so   *)
(* what SupervisorProofs shows of every bot holds for it; and the inputs   *)
(* of its rooms keep their order, for any number of rooms and lines.       *)
(***************************************************************************)
EXTENDS GitterBot, SupervisorProofs

\* Every step of the composition is a step of the supervisor or leaves the
\* supervisor's state alone.
LEMMA StepIsSupervisorStep ==
    ASSUME GitterNext
    PROVE  [Next]_vars
<1>1. CASE SupervisorSteps
  <2>1. CASE CancelRunner \/ Run \/ RunReturns
    BY <2>1 DEF Next
  <2>2. ASSUME NEW b \in Bots,
               \/ AddBot(b) \/ StartBot(b) \/ Unwatch(b) \/ NotifyShutdown(b)
               \/ WgDone(b) \/ StopBotStatus(b)
        PROVE  Next
    BY <2>2 DEF Next, BotGoroutine
  <2>3. ASSUME NEW b \in Bots, HandleFatal(b, Main) \/ SendAlert(b, Main)
        PROVE  Next
    BY <2>3 DEF Next, ErrNotifier, Callers
  <2>4. ASSUME NEW b \in Bots, AlertGoroutine(b)
        PROVE  Next
    BY <2>4 DEF Next
  <2>5. QED
    BY <1>1, <2>1, <2>2, <2>3, <2>4 DEF SupervisorSteps
<1>2. ASSUME NEW b \in Bots, AdapterSteps(b)
      PROVE  [Next]_vars
  <2>1. CASE FetchRooms(b)
    BY <2>1 DEF FetchRooms
  <2>2. CASE FetchFails(b)
    BY <2>2 DEF FetchFails, Next, ErrNotifier, Callers, Kinds
  <2>3. CASE RunReturnsToBot(b)
    BY <2>3 DEF RunReturnsToBot, Next, BotGoroutine
  <2>4. QED
    BY <1>2, <2>1, <2>2, <2>3 DEF AdapterSteps
<1>3. ASSUME NEW b \in Bots, NEW r \in Rooms, RoomSteps(b, r)
      PROVE  [Next]_vars
  BY <1>3 DEF RoomSteps, RoomChecks, RoomConnects, RoomGivesUp, RoomDisconnects,
              Goes
<1>4. ASSUME NEW b \in Bots, NEW r \in Rooms, StreamSteps(b, r)
      PROVE  [Next]_vars
  BY <1>4 DEF StreamSteps, GitterSends, RoomReceives
<1>5. QED
  BY <1>1, <1>2, <1>3, <1>4 DEF GitterNext

\* So what holds of every behavior of the supervisor holds here.
LEMMA GitterBehavesAsBot == GitterSpec => Spec
<1>1. GitterInit => Init
  BY DEF GitterInit
<1>2. [GitterNext]_allVars => [Next]_vars
  BY StepIsSupervisorStep DEF allVars
<1>3. QED
  BY <1>1, <1>2, PTL DEF GitterSpec, Spec

\* A Gitter bot that ends although nobody canceled it is reported: when the rooms
\* cannot be fetched, and also when Adapter.Run just returns.
THEOREM GitterStopsAreAlerted == GitterSpec => []UnintentionalStopIsAlerted
BY GitterBehavesAsBot, UnintentionalStopsAreAlerted, PTL

-----------------------------------------------------------------------------
(***************************************************************************)
(* The stream of a room                                                    *)
(***************************************************************************)

\* Lines carry the numbers in which Gitter sent them: those on the wire come after
\* those that were enqueued, and none has a number that Gitter did not give out yet.
StreamInOrder(sent, w, e) ==
    /\ \A i, j \in 1 .. Len(e) : i < j => e[i] < e[j]
    /\ \A i, j \in 1 .. Len(w) : i < j => w[i].no < w[j].no
    /\ \A i \in 1 .. Len(e), j \in 1 .. Len(w) : e[i] < w[j].no
    /\ \A i \in 1 .. Len(e) : e[i] <= sent
    /\ \A j \in 1 .. Len(w) : w[j].no <= sent

StreamsInOrder ==
    \A b \in Bots, r \in Rooms : StreamInOrder(lines[b][r], wire[b][r], enqueued[b][r])

GitterInv == GitterTypeOK /\ StreamsInOrder

\* Assigning to one room of one bot.
LEMMA RoomUpdate ==
    ASSUME NEW V, NEW f \in [Bots -> [Rooms -> V]], NEW b \in Bots, NEW r \in Rooms,
           NEW v \in V
    PROVE  /\ [f EXCEPT ![b][r] = v] \in [Bots -> [Rooms -> V]]
           /\ [f EXCEPT ![b][r] = v][b][r] = v
           /\ \A d \in Bots, q \in Rooms :
                 d # b \/ q # r => [f EXCEPT ![b][r] = v][d][q] = f[d][q]
OBVIOUS

\* A line that Gitter sends comes last.
LEMMA SendKeepsOrder ==
    ASSUME NEW sent \in 0 .. MaxLines, sent < MaxLines, NEW w \in Seq(Line),
           NEW e \in Seq(1 .. MaxLines), NEW payload \in Payloads, StreamInOrder(sent, w, e)
    PROVE  LET line == [no |-> sent + 1, payload |-> payload]
           IN  /\ Append(w, line) \in Seq(Line) /\ sent + 1 \in 0 .. MaxLines
               /\ StreamInOrder(sent + 1, Append(w, line), e)
<1> DEFINE line == [no |-> sent + 1, payload |-> payload]  v == Append(w, line)
<1>1. line \in Line /\ line.no = sent + 1 /\ sent + 1 \in 0 .. MaxLines /\ sent \in Nat
    BY GitterAssumption DEF Line
<1>2. /\ v \in Seq(Line) /\ Len(v) = Len(w) + 1 /\ v[Len(w) + 1] = line /\ Len(w) \in Nat
      /\ \A j \in 1 .. Len(w) : v[j] = w[j]
    BY <1>1
<1>3. /\ \A j \in 1 .. Len(w) : w[j] \in Line
      /\ \A j \in 1 .. Len(e) : e[j] \in 1 .. MaxLines
    BY ElementOfSeq
<1>4. /\ \A j \in 1 .. Len(w) : w[j].no \in Nat /\ w[j].no <= sent
      /\ \A j \in 1 .. Len(e) : e[j] \in Nat /\ e[j] <= sent
    BY SMTT(30), <1>3, GitterAssumption DEF Line, StreamInOrder
<1>5. \A j \in 1 .. Len(v) : j \in 1 .. Len(w) \/ j = Len(w) + 1
    BY <1>2
<1>6. \A j \in 1 .. Len(v) : v[j].no = IF j \in 1 .. Len(w) THEN w[j].no ELSE sent + 1
    BY <1>1, <1>2, <1>5
<1>7. \A i, j \in 1 .. Len(v) : i < j => v[i].no < v[j].no
    <2> SUFFICES ASSUME NEW i \in 1 .. Len(v), NEW j \in 1 .. Len(v), i < j
                 PROVE  v[i].no < v[j].no
        OBVIOUS
    <2>1. i \in 1 .. Len(w)
        BY <1>2
    <2> QED
        BY <1>1, <1>4, <1>5, <1>6, <2>1 DEF StreamInOrder
<1>8. \A i \in 1 .. Len(e), j \in 1 .. Len(v) : e[i] < v[j].no
    BY <1>1, <1>4, <1>6 DEF StreamInOrder
<1>9. \A j \in 1 .. Len(v) : v[j].no <= sent + 1
    BY <1>1, <1>4, <1>6
<1> HIDE DEF v
<1>10. \A j \in 1 .. Len(e) : e[j] <= sent + 1
    BY <1>1, <1>4
<1>11. StreamInOrder(sent + 1, v, e)
    BY <1>7, <1>8, <1>9, <1>10 DEF StreamInOrder
<1> QED
    BY <1>1, <1>2, <1>11 DEF v

\* What a reader leaves on the stream: the lines after those it buffered, the first
\* of them perhaps torn. Their numbers are as before.
LEMMA BufferedStream ==
    ASSUME NEW w \in Seq(Line), NEW n \in 1 .. Len(w), NEW torn \in BOOLEAN,
           torn => n < Len(w)
    PROVE  /\ Buffered(w, n, torn) \in Seq(Line)
           /\ Len(Buffered(w, n, torn)) = Len(w) - n
           /\ \A j \in 1 .. Len(w) - n : Buffered(w, n, torn)[j].no = w[j + n].no
<1> DEFINE rest == SubSeq(w, n + 1, Len(w))
<1>1. /\ rest \in Seq(Line) /\ Len(rest) = Len(w) - n
      /\ \A j \in 1 .. Len(w) - n : rest[j] = w[j + n] /\ rest[j] \in Line
    <2>1. \A j \in 1 .. Len(w) - n : j + n \in 1 .. Len(w)
        OBVIOUS
    <2>2. /\ rest \in Seq(Line) /\ Len(rest) = Len(w) - n
          /\ \A j \in 1 .. Len(w) - n : rest[j] = w[n + 1 + j - 1]
        BY SubSeqProperties
    <2> QED
        BY <2>1, <2>2
<1>2. CASE ~torn
    BY <1>1, <1>2 DEF Buffered
<1>3. CASE torn
    <2> DEFINE t == [rest EXCEPT ![1].payload = "malformed"]
               first == [rest[1] EXCEPT !.payload = "malformed"]
    <2>1. 1 \in 1 .. Len(w) - n
        BY <1>3
    <2>2. rest[1] \in Line
        BY <1>1, <2>1
    <2>3. first \in Line /\ first.no = rest[1].no
        BY <2>2 DEF Line, Payloads
    <2>4. t = [rest EXCEPT ![1] = first]
        OBVIOUS
    <2> HIDE DEF rest, t, first
    <2>5. t \in Seq(Line) /\ Len(t) = Len(rest)
        BY <1>1, <2>1, <2>3, <2>4, ExceptSeq
    <2>6. \A j \in 1 .. Len(w) - n : t[j].no = rest[j].no
        BY <1>1, <2>1, <2>3, <2>4
    <2>7. Buffered(w, n, torn) = t
        BY <1>3 DEF Buffered, t, rest
    <2> QED
        BY <1>1, <2>5, <2>6, <2>7
<1> QED
    BY <1>2, <1>3

\* The line that Receive returns is the first on the wire, so it comes after all
\* that were enqueued, and before all that are left.
LEMMA ReceiveKeepsOrder ==
    ASSUME NEW sent \in 0 .. MaxLines, NEW w \in Seq(Line), NEW e \in Seq(1 .. MaxLines),
           NEW n \in 1 .. Len(w), NEW torn \in BOOLEAN, torn => n < Len(w),
           StreamInOrder(sent, w, e)
    PROVE  /\ StreamInOrder(sent, Buffered(w, n, torn), e)
           /\ Append(e, w[1].no) \in Seq(1 .. MaxLines)
           /\ StreamInOrder(sent, Buffered(w, n, torn), Append(e, w[1].no))
<1> DEFINE left == Buffered(w, n, torn)  no == w[1].no  f == Append(e, no)
<1>1. /\ left \in Seq(Line) /\ Len(left) = Len(w) - n
      /\ \A j \in 1 .. Len(left) : left[j].no = w[j + n].no
    BY ZenonT(60), BufferedStream
<1>2. 1 \in 1 .. Len(w) /\ \A j \in 1 .. Len(left) : j + n \in 1 .. Len(w) /\ 1 < j + n
    BY <1>1
<1>3. \A j \in 1 .. Len(w) : w[j].no \in 1 .. MaxLines
    <2>1. \A j \in 1 .. Len(w) : w[j] \in Line
        BY ElementOfSeq
    <2> QED
        BY <2>1 DEF Line
<1>4. \A j \in 1 .. Len(e) : e[j] \in 1 .. MaxLines
    BY ElementOfSeq
<1> HIDE DEF left
<1>5. StreamInOrder(sent, left, e)
    <2>1. \A i, j \in 1 .. Len(left) : i < j => i + n < j + n
        BY <1>1
    <2> QED
        BY <1>1, <1>2, <2>1 DEF StreamInOrder
<1>6. no \in 1 .. MaxLines /\ no <= sent
    BY <1>2, <1>3 DEF StreamInOrder
<1>7. \A j \in 1 .. Len(left) : no < left[j].no
    BY <1>1, <1>2 DEF StreamInOrder
<1>8. \A i \in 1 .. Len(e) : e[i] < no
    BY <1>2 DEF StreamInOrder
<1> HIDE DEF no
<1>9. /\ f \in Seq(1 .. MaxLines) /\ Len(f) = Len(e) + 1 /\ f[Len(e) + 1] = no
      /\ \A i \in 1 .. Len(e) : f[i] = e[i]
      /\ \A i \in 1 .. Len(f) : i \in 1 .. Len(e) \/ i = Len(e) + 1
    BY <1>6
<1> HIDE DEF f
<1>10. \A i, j \in 1 .. Len(f) : i < j => f[i] < f[j]
    <2> SUFFICES ASSUME NEW i \in 1 .. Len(f), NEW j \in 1 .. Len(f), i < j
                 PROVE  f[i] < f[j]
        OBVIOUS
    <2>1. i \in 1 .. Len(e) /\ f[i] = e[i]
        BY <1>9
    <2>2. CASE j \in 1 .. Len(e)
        BY <1>9, <2>1, <2>2 DEF StreamInOrder
    <2>3. CASE j = Len(e) + 1
        BY <1>8, <1>9, <2>1, <2>3
    <2> QED
        BY <1>9, <2>2, <2>3
<1>11. \A i \in 1 .. Len(f), j \in 1 .. Len(left) : f[i] < left[j].no
    BY <1>5, <1>7, <1>9 DEF StreamInOrder
<1>12. \A i \in 1 .. Len(f) : f[i] <= sent
    BY <1>6, <1>9 DEF StreamInOrder
<1>13. StreamInOrder(sent, left, f)
    BY <1>5, <1>10, <1>11, <1>12 DEF StreamInOrder
<1> QED
    BY <1>5, <1>9, <1>13 DEF left, f, no

-----------------------------------------------------------------------------
(***************************************************************************)
(* The invariant is inductive                                              *)
(***************************************************************************)
LEMMA GitterInitInv == GitterInit /\ TypeOK => GitterInv
<1> SUFFICES ASSUME GitterInit, TypeOK PROVE GitterInv
    OBVIOUS
<1> USE DEF GitterInit
<1>1. /\ adapter \in [Bots -> {"fetch", "returned"}]
      /\ room \in [Bots -> [Rooms -> {"none", "check", "connect", "receive", "ended"}]]
      /\ lines \in [Bots -> [Rooms -> 0 .. MaxLines]]
    BY GitterAssumption
<1>2. wire \in [Bots -> [Rooms -> Seq(Line)]]
    OBVIOUS
<1>3. enqueued \in [Bots -> [Rooms -> Seq(1 .. MaxLines)]]
    OBVIOUS
<1>4. \A b \in Bots : botPc[b] = "ready"
    BY DEF Init
<1>5. StreamsInOrder
    BY DEF StreamsInOrder, StreamInOrder
<1> QED
    BY <1>1, <1>2, <1>3, <1>4, <1>5 DEF GitterInv, GitterTypeOK

\* While Adapter.Run asks for the rooms, Bot.Run does not return.
FetchingBotRuns ==
    \A b \in Bots : adapter[b] = "fetch" => botPc[b] \in {"ready", "added", "running"}

LEMMA FetchingStep ==
    ASSUME GitterTypeOK, GitterNext
    PROVE  FetchingBotRuns' /\ adapter' \in [Bots -> {"fetch", "returned"}]
<1> USE DEF GitterTypeOK, FetchingBotRuns
<1>1. CASE SupervisorSteps
    <2>1. adapter' = adapter
        BY <1>1 DEF SupervisorSteps, roomVars
    <2>2. ASSUME NEW b \in Bots,
                 \/ AddBot(b) \/ StartBot(b) \/ Unwatch(b) \/ NotifyShutdown(b)
                 \/ WgDone(b) \/ StopBotStatus(b)
          PROVE  FetchingBotRuns'
        BY ZenonT(60), <2>1, <2>2 DEF AddBot, StartBot, Unwatch, NotifyShutdown, NotifyFromDefer,
                          WgDone, StopBotStatus, Goto, TypeOK
    <2>3. ASSUME NEW b \in Bots, HandleFatal(b, Main) \/ SendAlert(b, Main)
          PROVE  FetchingBotRuns'
        BY <2>1, <2>3 DEF HandleFatal, SendAlert
    <2>4. ASSUME NEW b \in Bots, AlertGoroutine(b) PROVE FetchingBotRuns'
        BY <2>1, <2>4, AlertGoroutineFrame
    <2>5. CASE CancelRunner \/ Run \/ RunReturns
        BY <2>1, <2>5 DEF CancelRunner, Run, RunReturns
    <2> QED
        BY <1>1, <2>1, <2>2, <2>3, <2>4, <2>5 DEF SupervisorSteps
<1>2. ASSUME NEW b \in Bots, AdapterSteps(b)
      PROVE  FetchingBotRuns' /\ adapter' \in [Bots -> {"fetch", "returned"}]
    BY <1>2 DEF AdapterSteps, FetchRooms, FetchFails, RunReturnsToBot, BotRunReturns,
                Escalate, Goto, TypeOK, vars, roomVars
<1>3. ASSUME NEW b \in Bots, NEW r \in Rooms, RoomSteps(b, r) \/ StreamSteps(b, r)
      PROVE  FetchingBotRuns' /\ adapter' \in [Bots -> {"fetch", "returned"}]
    <2>1. UNCHANGED <<adapter, botPc>>
        BY <1>3 DEF RoomSteps, RoomChecks, RoomConnects, RoomGivesUp, RoomDisconnects, Goes,
                    StreamSteps, GitterSends, RoomReceives, vars
    <2> QED
        BY <2>1
<1> QED
    BY <1>1, <1>2, <1>3 DEF GitterNext

\* Only the goroutine of a room and Gitter touch the stream of the room.
LEMMA StreamStep ==
    ASSUME GitterInv, [GitterNext]_allVars
    PROVE  /\ room' \in [Bots -> [Rooms -> {"none", "check", "connect", "receive", "ended"}]]
           /\ lines' \in [Bots -> [Rooms -> 0 .. MaxLines]]
           /\ wire' \in [Bots -> [Rooms -> Seq(Line)]]
           /\ enqueued' \in [Bots -> [Rooms -> Seq(1 .. MaxLines)]]
           /\ StreamsInOrder'
<1> USE DEF GitterInv, GitterTypeOK
<1> DEFINE Goal == /\ room' \in [Bots -> [Rooms -> {"none", "check", "connect", "receive", "ended"}]]
                   /\ lines' \in [Bots -> [Rooms -> 0 .. MaxLines]]
                   /\ wire' \in [Bots -> [Rooms -> Seq(Line)]]
                   /\ enqueued' \in [Bots -> [Rooms -> Seq(1 .. MaxLines)]]
                   /\ StreamsInOrder'
<1>1. ASSUME UNCHANGED allVars \/ SupervisorSteps \/ (\E b \in Bots : AdapterSteps(b))
      PROVE  Goal
    <2>1. UNCHANGED <<lines, wire, enqueued>>
        BY <1>1 DEF allVars, roomVars, SupervisorSteps, AdapterSteps, FetchRooms,
                    FetchFails, RunReturnsToBot
    <2>2. room' \in [Bots -> [Rooms -> {"none", "check", "connect", "receive", "ended"}]]
        BY <1>1 DEF allVars, roomVars, SupervisorSteps, AdapterSteps, FetchRooms,
                    FetchFails, RunReturnsToBot
    <2> QED
        BY <2>1, <2>2 DEF StreamsInOrder
<1>2. ASSUME NEW b \in Bots, NEW r \in Rooms, RoomSteps(b, r) PROVE Goal
    <2>1. PICK to \in {"check", "connect", "receive", "ended"} :
              room' = [room EXCEPT ![b][r] = to]
        BY <1>2 DEF RoomSteps, RoomChecks, RoomConnects, RoomGivesUp, RoomDisconnects, Goes
    <2>2. room' \in [Bots -> [Rooms -> {"none", "check", "connect", "receive", "ended"}]]
        BY <2>1
    <2>3. UNCHANGED <<lines, enqueued>>
        BY <1>2 DEF RoomSteps, RoomChecks, RoomConnects, RoomGivesUp, RoomDisconnects, Goes
    <2>4. wire' = wire \/ wire' = [wire EXCEPT ![b][r] = <<>>]
        BY <1>2 DEF RoomSteps, RoomChecks, RoomConnects, RoomGivesUp, RoomDisconnects
    <2>5. CASE wire' = wire
        BY <2>2, <2>3, <2>5 DEF StreamsInOrder
    <2>6. CASE wire' = [wire EXCEPT ![b][r] = <<>>]
        <3>1. <<>> \in Seq(Line)
            OBVIOUS
        <3>2. /\ wire' \in [Bots -> [Rooms -> Seq(Line)]]
              /\ \A d \in Bots, q \in Rooms :
                    wire'[d][q] = IF d = b /\ q = r THEN <<>> ELSE wire[d][q]
            BY <2>6, <3>1, RoomUpdate
        <3>3. \A sent, w, e : StreamInOrder(sent, w, e) => StreamInOrder(sent, <<>>, e)
            BY DEF StreamInOrder
        <3> QED
            BY SMTT(90), <2>2, <2>3, <3>2, <3>3 DEF StreamsInOrder
    <2> QED
        BY <2>4, <2>5, <2>6
<1>3. ASSUME NEW b \in Bots, NEW r \in Rooms, NEW payload \in Payloads,
             GitterSends(b, r, payload)
      PROVE  Goal
    <2> DEFINE sent == lines[b][r]
               line == [no |-> sent + 1, payload |-> payload]
    <2>1. /\ sent < MaxLines /\ lines' = [lines EXCEPT ![b][r] = sent + 1]
          /\ wire' = [wire EXCEPT ![b][r] = Append(wire[b][r], line)]
          /\ UNCHANGED <<room, enqueued>>
        BY <1>3 DEF GitterSends
    <2>2. /\ sent \in 0 .. MaxLines /\ wire[b][r] \in Seq(Line)
          /\ enqueued[b][r] \in Seq(1 .. MaxLines)
          /\ StreamInOrder(sent, wire[b][r], enqueued[b][r])
        BY DEF StreamsInOrder
    <2>3. /\ Append(wire[b][r], line) \in Seq(Line) /\ sent + 1 \in 0 .. MaxLines
          /\ StreamInOrder(sent + 1, Append(wire[b][r], line), enqueued[b][r])
        BY <2>1, <2>2, SendKeepsOrder
    <2>4. /\ lines' \in [Bots -> [Rooms -> 0 .. MaxLines]] /\ lines'[b][r] = sent + 1
          /\ \A d \in Bots, q \in Rooms : d # b \/ q # r => lines'[d][q] = lines[d][q]
        BY <2>1, <2>3, RoomUpdate
    <2>5. /\ wire' \in [Bots -> [Rooms -> Seq(Line)]]
          /\ wire'[b][r] = Append(wire[b][r], line)
          /\ \A d \in Bots, q \in Rooms : d # b \/ q # r => wire'[d][q] = wire[d][q]
        BY <2>1, <2>3, RoomUpdate
    <2>6. \A d \in Bots, q \in Rooms :
              StreamInOrder(lines'[d][q], wire'[d][q], enqueued'[d][q])
        BY SMTT(30), <2>1, <2>3, <2>4, <2>5 DEF StreamsInOrder
    <2> QED
        BY <2>1, <2>4, <2>5, <2>6 DEF StreamsInOrder
<1>4. ASSUME NEW b \in Bots, NEW r \in Rooms, NEW n \in 1 .. MaxLines, NEW torn \in BOOLEAN,
             RoomReceives(b, r, n, torn)
      PROVE  Goal
    <2> DEFINE w == wire[b][r]
               e == enqueued[b][r]
               left == Buffered(w, n, torn)
               f == Append(e, w[1].no)
    <2>1. /\ n \in 1 .. Len(w) /\ (torn => n < Len(w))
          /\ wire' = [wire EXCEPT ![b][r] = left]
          /\ \/ enqueued' = [enqueued EXCEPT ![b][r] = f]
             \/ enqueued' = enqueued
          /\ UNCHANGED <<room, lines>>
        BY <1>4 DEF RoomReceives
    <2>2. /\ w \in Seq(Line) /\ e \in Seq(1 .. MaxLines) /\ lines[b][r] \in 0 .. MaxLines
          /\ StreamInOrder(lines[b][r], w, e)
        BY DEF StreamsInOrder
    <2>3. /\ StreamInOrder(lines[b][r], left, e) /\ f \in Seq(1 .. MaxLines)
          /\ StreamInOrder(lines[b][r], left, f)
        BY <2>1, <2>2, ReceiveKeepsOrder
    <2>4. left \in Seq(Line)
        BY <2>1, <2>2, BufferedStream
    <2>5. /\ wire' \in [Bots -> [Rooms -> Seq(Line)]] /\ wire'[b][r] = left
          /\ \A d \in Bots, q \in Rooms : d # b \/ q # r => wire'[d][q] = wire[d][q]
        BY <2>1, <2>4, RoomUpdate
    <2>6. /\ enqueued' \in [Bots -> [Rooms -> Seq(1 .. MaxLines)]]
          /\ enqueued'[b][r] \in {e, f}
          /\ \A d \in Bots, q \in Rooms : d # b \/ q # r => enqueued'[d][q] = enqueued[d][q]
        <3>1. CASE enqueued' = enqueued
            BY <3>1
        <3>2. CASE enqueued' = [enqueued EXCEPT ![b][r] = f]
            <4> HIDE DEF f
            <4> QED
                BY <2>3, <3>2, RoomUpdate
        <3> QED
            BY <2>1, <3>1, <3>2
    <2> HIDE DEF f, left
    <2>7. \A d \in Bots, q \in Rooms :
              StreamInOrder(lines'[d][q], wire'[d][q], enqueued'[d][q])
        <3> TAKE d \in Bots, q \in Rooms
        <3>0. lines' = lines /\ StreamInOrder(lines[d][q], wire[d][q], enqueued[d][q])
            BY <2>1 DEF StreamsInOrder
        <3>1. CASE d = b /\ q = r
            <4>1. enqueued'[b][r] = e \/ enqueued'[b][r] = f
                BY <2>6
            <4> HIDE DEF e
            <4> QED
                BY <2>3, <2>5, <3>0, <3>1, <4>1
        <3>2. CASE d # b \/ q # r
            BY <2>5, <2>6, <3>0, <3>2
        <3> QED
            BY <3>1, <3>2
    <2> QED
        BY <2>1, <2>5, <2>6, <2>7 DEF StreamsInOrder
<1> QED
    BY <1>1, <1>2, <1>3, <1>4 DEF GitterNext, StreamSteps

LEMMA GitterInvStep == GitterInv /\ TypeOK' /\ [GitterNext]_allVars => GitterInv'
<1> SUFFICES ASSUME GitterInv, TypeOK', [GitterNext]_allVars PROVE GitterInv'
    OBVIOUS
<1>1. FetchingBotRuns' /\ adapter' \in [Bots -> {"fetch", "returned"}]
    <2>1. CASE GitterNext
        BY <2>1, FetchingStep DEF GitterInv
    <2>2. CASE UNCHANGED allVars
        BY <2>2 DEF GitterInv, GitterTypeOK, FetchingBotRuns, allVars, vars, roomVars
    <2> QED
        BY <2>1, <2>2
<1> QED
    BY <1>1, StreamStep DEF GitterInv, GitterTypeOK, FetchingBotRuns

\* The invariant holds for any number of rooms and lines.
THEOREM GitterInvariant == GitterSpec => []GitterInv
<1>1. GitterSpec => []TypeOK
    BY GitterBehavesAsBot, TypeCorrect, PTL
<1> QED
    BY <1>1, GitterInitInv, GitterInvStep, PTL DEF GitterSpec

\* Type correctness. Bot.Run of a Gitter bot does not return while Adapter.Run is
\* still asking for the rooms.
THEOREM GitterTypeCorrect == GitterSpec => []GitterTypeOK
BY GitterInvariant, PTL DEF GitterInv

\* Messages of a room are enqueued in the order in which Gitter sent them, and none
\* twice, although each call of Receive starts a reader of its own and the
\* connection may break between any two lines.
THEOREM GitterInputsInOrder == GitterSpec => []InputsInOrder
<1>1. GitterInv => InputsInOrder
    BY DEF GitterInv, StreamsInOrder, StreamInOrder, InputsInOrder
<1> QED
    BY <1>1, GitterInvariant, PTL

\* A step leaves Adapter.Run and the rooms of a bot alone, or it lets Adapter.Run
\* return with a reason; no goroutine of a room is taken back.
LEMMA AdapterStep ==
    ASSUME GitterInv, GitterNext, NEW b \in Bots
    PROVE  /\ \/ adapter'[b] = adapter[b]
              \/ escalated'[b] > 0
              \/ \A r \in Rooms : room'[b][r] # "none"
           /\ \A r \in Rooms : room[b][r] # "none" => room'[b][r] # "none"
<1> USE DEF GitterInv, GitterTypeOK
<1>1. CASE SupervisorSteps
    BY <1>1 DEF SupervisorSteps, roomVars
<1>2. ASSUME NEW d \in Bots, FetchRooms(d)
      PROVE  /\ adapter'[b] = adapter[b] \/ \A r \in Rooms : room'[b][r] # "none"
             /\ \A r \in Rooms : room[b][r] # "none" => room'[b][r] # "none"
    BY <1>2 DEF FetchRooms
<1>3. ASSUME NEW d \in Bots, FetchFails(d)
      PROVE  (adapter'[b] = adapter[b] \/ escalated'[b] > 0) /\ room' = room
    BY <1>3 DEF FetchFails, Escalate, TypeOK
<1>4. ASSUME NEW d \in Bots, RunReturnsToBot(d)
      PROVE  adapter' = adapter /\ room' = room
    BY <1>4 DEF RunReturnsToBot, roomVars
<1>5. ASSUME NEW d \in Bots, NEW q \in Rooms, RoomSteps(d, q)
      PROVE  adapter' = adapter /\ \A r \in Rooms : room[b][r] # "none" => room'[b][r] # "none"
    <2>1. adapter' = adapter
        BY <1>5 DEF RoomSteps, RoomChecks, RoomConnects, RoomGivesUp, RoomDisconnects, Goes
    <2>2. PICK to \in {"check", "connect", "receive", "ended"} :
              room' = [room EXCEPT ![d][q] = to]
        BY <1>5 DEF RoomSteps, RoomChecks, RoomConnects, RoomGivesUp, RoomDisconnects, Goes
    <2> QED
        BY <2>1, <2>2
<1>6. ASSUME NEW d \in Bots, NEW q \in Rooms, StreamSteps(d, q)
      PROVE  adapter' = adapter /\ room' = room
    BY <1>6 DEF StreamSteps, GitterSends, RoomReceives
<1> QED
    BY <1>1, <1>2, <1>3, <1>4, <1>5, <1>6 DEF GitterNext, AdapterSteps

\* Adapter.Run returns with its rooms served, with Sarah told of the error, or
\* canceled, for every set of rooms.
THEOREM GitterReturnsForAReason == GitterSpec => []SilentReturnServesRooms
<1>1. GitterInit => SilentReturnServesRooms
    BY DEF GitterInit, SilentReturnServesRooms
<1>2. GitterInv /\ SilentReturnServesRooms /\ [GitterNext]_allVars
         => SilentReturnServesRooms'
    <2> SUFFICES ASSUME GitterInv, SilentReturnServesRooms, [GitterNext]_allVars,
                        NEW b \in Bots, adapter'[b] = "returned"
                 PROVE  \/ Done(b)'
                        \/ escalated'[b] > 0
                        \/ \A r \in Rooms : room'[b][r] # "none"
        BY DEF SilentReturnServesRooms
    <2>1. TypeOK /\ [Next]_vars
        BY StepIsSupervisorStep DEF GitterInv, GitterTypeOK, allVars
    <2>2. (Done(b) => Done(b)') /\ (escalated[b] > 0 => escalated'[b] > 0)
        BY <2>1, DoneStep, EscalatedStep
    <2>3. /\ \/ adapter'[b] = adapter[b]
             \/ escalated'[b] > 0
             \/ \A r \in Rooms : room'[b][r] # "none"
          /\ \A r \in Rooms : room[b][r] # "none" => room'[b][r] # "none"
        <3>1. CASE GitterNext
            BY <3>1, AdapterStep
        <3>2. CASE UNCHANGED allVars
            BY <3>2 DEF allVars, roomVars
        <3> QED
            BY <3>1, <3>2
    <2> QED
        BY <2>2, <2>3 DEF SilentReturnServesRooms
<1> QED
    BY <1>1, <1>2, GitterInvariant, PTL DEF GitterSpec
=============================================================================
