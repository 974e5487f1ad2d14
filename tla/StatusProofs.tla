---------------------------- MODULE StatusProofs ----------------------------
(***************************************************************************)
(* Proofs about Status, for any number of bots, monitors, calls of Run and *)
(* calls of CurrentStatus.                                                 *)
(***************************************************************************)
EXTENDS Status, SequenceTheorems, TLAPS

\* Whoever goes through the list holds the read lock, so nobody adds to it.
ListIsLocked ==
    /\ \A b \in Bots :
         /\ readers[b] = IF botPc[b] = "stopping" THEN 1 ELSE 0
         /\ botPc[b] # "stopping" => seen[b] = <<>>
    /\ \A m \in Monitors :
         /\ monPc[m] = "idle" => readers[m] = 0 /\ seen[m] = <<>>
         /\ monPc[m] = "reading" => readers[m] = 1
         /\ monPc[m] = "running" => readers[m] = 2

\* Entry old, seen before, may have become entry new: the bot stopped, or nothing
\* happened. Nobody starts again and no entry is given to another bot.
MayBecome(old, new) ==
    /\ new.type = old.type
    /\ new.running => old.running

\* Of the entries that both lists have, those of t are as old as those of s, or newer.
Agree(s, t) == \A i \in 1 .. Len(s) : i <= Len(t) => MayBecome(s[i], t[i])

\* What monitors have read so far and what they got before, compared with the list
\* and with each other.
ReadingsAreOld ==
    \A m \in Monitors :
        /\ Len(seen[m]) <= Len(bots) /\ Agree(seen[m], bots)
        /\ Len(result[m].bots) <= Len(bots) /\ Agree(result[m].bots, bots)
        /\ Agree(result[m].bots, seen[m])
        /\ monPc[m] = "running" => Len(seen[m]) = Len(bots)

\* stopBot leaves no running entry of its type behind.
VisitedIsClosed ==
    \A b \in Bots :
        /\ Len(seen[b]) <= Len(bots)
        /\ \A i \in 1 .. Len(seen[b]) : bots[i].type = TypeOf[b] => ~bots[i].running

\* Every bot that was started has an entry of its type.
AddedBotIsListed ==
    \A b \in Bots : botPc[b] \in {"running", "stopping", "stopped"}
        => \E i \in 1 .. Len(bots) : bots[i].type = TypeOf[b]

Stops(type) == \E b \in Bots : TypeOf[b] = type /\ botPc[b] \in {"stopping", "stopped"}

\* An entry is closed by a bot of its type.
ClosedIsStopped == \A i \in 1 .. Len(bots) : ~bots[i].running => Stops(bots[i].type)

StatusInv ==
    /\ TypeOK
    /\ ListIsLocked
    /\ ReadingsAreOld
    /\ VisitedIsClosed
    /\ AddedBotIsListed
    /\ ClosedIsStopped
    /\ StoppedBotIsReported

-----------------------------------------------------------------------------
(***************************************************************************)
(* The list                                                                *)
(***************************************************************************)

\* Adding an entry changes none of those before it.
LEMMA AddedEntry ==
    ASSUME NEW s \in Seq(BotStatus), NEW e \in BotStatus
    PROVE  /\ Append(s, e) \in Seq(BotStatus) /\ Len(Append(s, e)) = Len(s) + 1
           /\ \A i \in 1 .. Len(s) : Append(s, e)[i] = s[i]
           /\ Append(s, e)[Len(s) + 1] = e
OBVIOUS

\* Closing an entry changes no other one, and not its type.
LEMMA ClosedEntry ==
    ASSUME NEW s \in Seq(BotStatus), NEW i \in 1 .. Len(s), NEW b \in Bots
    PROVE  LET t == [s EXCEPT ![i] = Closed(@, b)]
           IN  /\ t \in Seq(BotStatus) /\ Len(t) = Len(s)
               /\ \A j \in 1 .. Len(s) : MayBecome(s[j], t[j])
               /\ \A j \in 1 .. Len(s) : j # i => t[j] = s[j]
               /\ t[i].type = TypeOf[b] => ~t[i].running
               /\ t[i].type # TypeOf[b] => t[i] = s[i]
<1> DEFINE t == [s EXCEPT ![i] = Closed(@, b)]
<1>1. s[i] \in BotStatus /\ Closed(s[i], b) \in BotStatus
    <2>1. s[i] \in BotStatus
        OBVIOUS
    <2>2. \A e \in BotStatus : Closed(e, b) \in BotStatus
        BY DEF BotStatus, Closed
    <2> QED
        BY <2>1, <2>2
<1>2. t \in Seq(BotStatus) /\ Len(t) = Len(s) /\ t[i] = Closed(s[i], b)
      /\ \A j \in 1 .. Len(s) : j # i => t[j] = s[j]
    BY <1>1
<1>3. \A j \in 1 .. Len(s) : s[j] \in BotStatus
    OBVIOUS
<1>4. MayBecome(s[i], t[i])
    BY <1>1, <1>2 DEF MayBecome, Closed, BotStatus
<1>5. \A j \in 1 .. Len(s) : MayBecome(s[j], t[j])
    BY <1>2, <1>4 DEF MayBecome
<1>6. (t[i].type = TypeOf[b] => ~t[i].running) /\ (t[i].type # TypeOf[b] => t[i] = s[i])
    BY <1>1, <1>2 DEF Closed, BotStatus
<1> QED
    BY <1>2, <1>5, <1>6

-----------------------------------------------------------------------------
(***************************************************************************)
(* The invariant is inductive                                              *)
(***************************************************************************)
LEMMA StatusInit == Init => StatusInv
<1> SUFFICES ASSUME Init PROVE StatusInv
    OBVIOUS
<1> USE DEF Init, Readers
<1>1. TypeOK
    <2>1. bots \in Seq(BotStatus) /\ seen \in [Readers -> Seq(BotStatus)]
        OBVIOUS
    <2>2. result \in [Monitors -> [running : BOOLEAN, bots : Seq(BotStatus)]]
        OBVIOUS
    <2>3. snapshots \in [Monitors -> 0 .. MaxSnapshots] /\ readers \in [Readers -> 0 .. 2]
        BY StatusAssumption
    <2> QED
        BY <2>1, <2>2, <2>3 DEF TypeOK
<1>2. ListIsLocked
    BY DEF ListIsLocked
<1>3. ReadingsAreOld
    BY DEF ReadingsAreOld, Agree
<1>4. VisitedIsClosed /\ AddedBotIsListed /\ ClosedIsStopped /\ StoppedBotIsReported
    BY DEF VisitedIsClosed, AddedBotIsListed, ClosedIsStopped, StoppedBotIsReported
<1> QED
    BY <1>1, <1>2, <1>3, <1>4 DEF StatusInv

\* Run takes and releases the lock, and touches neither the list nor a reader.
LEMMA RunStep ==
    ASSUME StatusInv, NEW r \in Runners, RunSteps(r)
    PROVE  StatusInv'
<1>1. UNCHANGED <<bots, readers, botPc, monPc, seen, result, snapshots>>
    BY DEF RunSteps, CallRun, Start, NewRunner
<1>2. TypeOK'
    BY <1>1 DEF StatusInv, TypeOK, RunSteps, CallRun, Start, NewRunner, Lock, Unlock
<1>3. ListIsLocked' /\ ReadingsAreOld'
    BY <1>1 DEF StatusInv, ListIsLocked, ReadingsAreOld, Agree, MayBecome
<1>4. VisitedIsClosed' /\ AddedBotIsListed' /\ ClosedIsStopped' /\ StoppedBotIsReported'
    BY <1>1 DEF StatusInv, VisitedIsClosed, AddedBotIsListed, ClosedIsStopped, Stops,
                StoppedBotIsReported
<1> QED
    BY <1>2, <1>3, <1>4 DEF StatusInv

LEMMA LockAddBotStep ==
    ASSUME StatusInv, NEW b \in Bots, LockAddBot(b)
    PROVE  StatusInv'
<1>1. /\ botPc[b] = "ready" /\ botPc' = [botPc EXCEPT ![b] = "lock"]
      /\ UNCHANGED <<bots, readers, monPc, seen, result, snapshots>>
    BY DEF LockAddBot
<1>2. TypeOK'
    BY DEF StatusInv, TypeOK, LockAddBot, Lock
<1> USE DEF StatusInv, TypeOK
<1>3. ListIsLocked' /\ ReadingsAreOld'
    BY <1>1 DEF ListIsLocked, ReadingsAreOld, Agree, MayBecome
<1>4. VisitedIsClosed' /\ AddedBotIsListed' /\ ClosedIsStopped' /\ StoppedBotIsReported'
    BY <1>1 DEF VisitedIsClosed, AddedBotIsListed, ClosedIsStopped, Stops,
                StoppedBotIsReported
<1> QED
    BY <1>2, <1>3, <1>4

\* addBot has the lock to itself, so nobody is in the middle of the list.
LEMMA AddBotStep ==
    ASSUME StatusInv, NEW b \in Bots, AddBot(b)
    PROVE  StatusInv'
<1> DEFINE e == [type |-> TypeOf[b], running |-> TRUE]
<1> USE DEF StatusInv
<1>1. /\ botPc[b] = "lock" /\ botPc' = [botPc EXCEPT ![b] = "running"]
      /\ bots' = Append(bots, e) /\ writer' = NoWriter
      /\ \A q \in Readers : readers[q] = 0
      /\ UNCHANGED <<started, readers, runPc, monPc, seen, result, snapshots>>
    BY DEF AddBot, HoldsLock, Unlock
<1>2. bots \in Seq(BotStatus) /\ e \in BotStatus /\ botPc \in [Bots -> {"ready", "lock",
                                                     "running", "stopping", "stopped"}]
    BY StatusAssumption DEF TypeOK, BotStatus
<1>3. /\ bots' \in Seq(BotStatus) /\ Len(bots') = Len(bots) + 1 /\ Len(bots) \in Nat
      /\ \A i \in 1 .. Len(bots) : bots'[i] = bots[i]
      /\ bots'[Len(bots) + 1] = e
    BY <1>1, <1>2, AddedEntry
<1>4. TypeOK'
    BY <1>1, <1>3 DEF TypeOK
<1>5. ListIsLocked'
    BY <1>1, <1>2 DEF ListIsLocked
<1>6. \A p \in Readers : seen[p] = <<>>
    BY <1>1 DEF ListIsLocked, Readers, TypeOK
<1>7. \A m \in Monitors : monPc[m] # "running" /\ Len(result[m].bots) \in Nat
    BY <1>1 DEF ListIsLocked, Readers, TypeOK
<1>8. ReadingsAreOld'
    BY <1>1, <1>3, <1>6, <1>7 DEF ReadingsAreOld, Agree, Readers
<1>9. VisitedIsClosed'
    BY <1>1, <1>3, <1>6 DEF VisitedIsClosed, Readers
<1>10. AddedBotIsListed'
    <2>1. \A i \in 1 .. Len(bots) : i \in 1 .. Len(bots') /\ bots'[i].type = bots[i].type
        BY <1>3
    <2>2. Len(bots) + 1 \in 1 .. Len(bots') /\ bots'[Len(bots) + 1].type = TypeOf[b]
        BY <1>3
    <2> QED
        BY <1>1, <1>2, <2>1, <2>2 DEF AddedBotIsListed
<1>11. ClosedIsStopped'
    <2>1. \A type : Stops(type) => Stops(type)'
        BY <1>1, <1>2 DEF Stops
    <2>2. \A i \in 1 .. Len(bots') : i \in 1 .. Len(bots) \/ i = Len(bots) + 1
        BY <1>3
    <2>3. \A i \in 1 .. Len(bots') : ~bots'[i].running =>
              i \in 1 .. Len(bots) /\ bots'[i] = bots[i]
        BY <1>3, <2>2
    <2> QED
        BY <2>1, <2>3 DEF ClosedIsStopped
<1>12. StoppedBotIsReported'
    <2>1. \A i \in DOMAIN bots : i \in DOMAIN bots' /\ bots'[i] = bots[i]
        BY <1>2, <1>3
    <2> QED
        BY <1>1, <1>2, <2>1 DEF StoppedBotIsReported
<1> QED
    BY <1>4, <1>5, <1>8, <1>9, <1>10, <1>11, <1>12

\* Taking the read lock, for stopBot.
LEMMA RLockStopBotStep ==
    ASSUME StatusInv, NEW b \in Bots, RLockStopBot(b)
    PROVE  StatusInv'
<1> USE DEF StatusInv
<1>1. /\ botPc[b] = "running" /\ botPc' = [botPc EXCEPT ![b] = "stopping"]
      /\ readers' = [readers EXCEPT ![b] = @ + 1]
      /\ UNCHANGED <<started, bots, writer, runPc, monPc, seen, result, snapshots>>
    BY DEF RLockStopBot, RLock
<1>2. readers[b] = 0
    BY <1>1 DEF ListIsLocked
<1>3. readers' = [readers EXCEPT ![b] = 1] /\ readers \in [Readers -> 0 .. 2]
      /\ b \in Readers /\ readers' \in [Readers -> 0 .. 2]
    BY <1>1, <1>2 DEF TypeOK, Readers
<1>4. TypeOK'
    BY <1>1, <1>3 DEF TypeOK
<1>5. ListIsLocked'
    BY <1>1, <1>3, StatusAssumption DEF ListIsLocked, Readers, TypeOK
<1>6. ReadingsAreOld' /\ VisitedIsClosed'
    BY <1>1 DEF ReadingsAreOld, Agree, MayBecome, VisitedIsClosed
<1>7. \A type : Stops(type) => Stops(type)'
    BY <1>1 DEF Stops, TypeOK
<1>8. AddedBotIsListed' /\ ClosedIsStopped' /\ StoppedBotIsReported'
    BY <1>1, <1>7 DEF AddedBotIsListed, ClosedIsStopped, StoppedBotIsReported, TypeOK
<1> QED
    BY <1>4, <1>5, <1>6, <1>8

\* stopBot closes the next entry, if it is of its type, while others read the list.
LEMMA StopNextStep ==
    ASSUME StatusInv, NEW b \in Bots, StopNext(b)
    PROVE  StatusInv'
<1> USE DEF StatusInv
<1> DEFINE i == Len(seen[b]) + 1
<1>1. /\ botPc[b] = "stopping" /\ i <= Len(bots)
      /\ bots' = [bots EXCEPT ![i] = Closed(@, b)]
      /\ seen' = [seen EXCEPT ![b] = Append(@, bots'[i])]
      /\ UNCHANGED <<started, writer, readers, runPc, botPc, monPc, result, snapshots>>
    BY DEF StopNext
<1>2. /\ bots \in Seq(BotStatus) /\ seen \in [Readers -> Seq(BotStatus)] /\ b \in Readers
      /\ seen[b] \in Seq(BotStatus)
    BY DEF TypeOK, Readers
<1>3. i \in 1 .. Len(bots)
    BY <1>1, <1>2
<1>4. /\ bots' \in Seq(BotStatus) /\ Len(bots') = Len(bots)
      /\ \A j \in 1 .. Len(bots) : MayBecome(bots[j], bots'[j])
      /\ \A j \in 1 .. Len(bots) : j # i => bots'[j] = bots[j]
      /\ bots'[i].type = TypeOf[b] => ~bots'[i].running
      /\ bots'[i].type # TypeOf[b] => bots'[i] = bots[i]
    BY <1>1, <1>2, <1>3, ClosedEntry
<1>5. bots'[i] \in BotStatus
    BY <1>3, <1>4
<1>6. /\ seen'[b] \in Seq(BotStatus) /\ Len(seen'[b]) = i
      /\ \A p \in Readers : p # b => seen'[p] = seen[p]
    BY <1>1, <1>2, <1>5, AddedEntry
<1>7. TypeOK'
    <2>1. seen' \in [Readers -> Seq(BotStatus)]
        BY <1>1, <1>2, <1>6
    <2> QED
        BY <1>1, <1>4, <2>1 DEF TypeOK
<1>8. ListIsLocked'
    BY <1>1, <1>6, StatusAssumption DEF ListIsLocked, Readers
<1>9. ReadingsAreOld'
    <2>0. \A m \in Monitors : seen'[m] = seen[m]
        BY <1>6, StatusAssumption DEF Readers
    <2>5. result' = result /\ monPc' = monPc /\ Len(bots') = Len(bots)
        BY <1>1, <1>4
    <2> SUFFICES ASSUME NEW m \in Monitors
                 PROVE  /\ Len(seen[m]) <= Len(bots) /\ Agree(seen[m], bots')
                        /\ Len(result[m].bots) <= Len(bots) /\ Agree(result[m].bots, bots')
                        /\ Agree(result[m].bots, seen[m])
                        /\ monPc[m] = "running" => Len(seen[m]) = Len(bots)
        BY <2>0, <2>5 DEF ReadingsAreOld, Agree
    <2>1. Len(seen[m]) \in Nat /\ Len(result[m].bots) \in Nat /\ Len(bots) \in Nat
        BY <1>2 DEF TypeOK, Readers
    <2>2. \A j \in 1 .. Len(bots) : \A e : MayBecome(e, bots[j]) => MayBecome(e, bots'[j])
        BY <1>4 DEF MayBecome
    <2>3. Agree(seen[m], bots')
        BY SMTT(30), <1>4, <2>1, <2>2 DEF ReadingsAreOld, Agree
    <2>4. Agree(result[m].bots, bots')
        BY SMTT(30), <1>4, <2>1, <2>2 DEF ReadingsAreOld, Agree
    <2> QED
        BY <2>3, <2>4 DEF ReadingsAreOld
<1>10. VisitedIsClosed'
    <2> SUFFICES ASSUME NEW c \in Bots
                 PROVE  /\ Len(seen'[c]) <= Len(bots)
                        /\ \A j \in 1 .. Len(seen'[c]) :
                              bots'[j].type = TypeOf[c] => ~bots'[j].running
        BY <1>4 DEF VisitedIsClosed
    <2>1. Len(seen[c]) \in Nat /\ Len(seen[c]) <= Len(bots) /\ Len(bots) \in Nat
        BY <1>2 DEF VisitedIsClosed, Readers
    <2>2. \A j \in 1 .. Len(seen[c]) : bots'[j].type = TypeOf[c] => ~bots'[j].running
        BY <1>4, <2>1 DEF VisitedIsClosed, MayBecome
    <2>3. CASE c = b
        <3>1. \A j \in 1 .. Len(seen'[c]) : j \in 1 .. Len(seen[c]) \/ j = i
            BY <1>6, <2>1, <2>3
        <3> QED
            BY <1>1, <1>4, <1>6, <2>2, <2>3, <3>1
    <2>4. CASE c # b
        BY <1>6, <2>1, <2>2, <2>4 DEF Readers
    <2> QED
        BY <2>3, <2>4
<1>11. AddedBotIsListed'
    BY <1>1, <1>4 DEF AddedBotIsListed, MayBecome
<1>12. ClosedIsStopped'
    <2>1. Stops(TypeOf[b])
        BY <1>1 DEF Stops
    <2>2. \A type : Stops(type)' <=> Stops(type)
        BY <1>1 DEF Stops
    <2>3. ASSUME NEW j \in 1 .. Len(bots), ~bots'[j].running PROVE Stops(bots'[j].type)
        <3>1. CASE bots'[j].type = TypeOf[b]
            BY <2>1, <3>1
        <3>2. CASE bots'[j].type # TypeOf[b]
            <4>1. bots'[j] = bots[j]
                BY <1>4, <3>2
            <4> QED
                BY <2>3, <4>1 DEF ClosedIsStopped
        <3> QED
            BY <3>1, <3>2
    <2> QED
        BY <1>4, <2>2, <2>3 DEF ClosedIsStopped
<1>13. StoppedBotIsReported'
    <2>1. \A j \in DOMAIN bots : /\ j \in DOMAIN bots'
                                 /\ MayBecome(bots[j], bots'[j])
        BY <1>2, <1>4
    <2> QED
        BY <1>1, <2>1 DEF StoppedBotIsReported, MayBecome
<1> QED
    BY <1>7, <1>8, <1>9, <1>10, <1>11, <1>12, <1>13

\* stopBot is through with the whole list, and so with the entry of its bot.
LEMMA RUnlockStopBotStep ==
    ASSUME StatusInv, NEW b \in Bots, RUnlockStopBot(b)
    PROVE  StatusInv'
<1> USE DEF StatusInv
<1>1. /\ botPc[b] = "stopping" /\ Len(seen[b]) = Len(bots)
      /\ botPc' = [botPc EXCEPT ![b] = "stopped"]
      /\ readers' = [readers EXCEPT ![b] = 0] /\ seen' = [seen EXCEPT ![b] = <<>>]
      /\ UNCHANGED <<started, bots, writer, runPc, monPc, result, snapshots>>
    BY DEF RUnlockStopBot, RUnlockAll
<1>2. /\ seen \in [Readers -> Seq(BotStatus)] /\ b \in Readers
      /\ readers \in [Readers -> 0 .. 2] /\ bots \in Seq(BotStatus)
      /\ botPc \in [Bots -> {"ready", "lock", "running", "stopping", "stopped"}]
    BY DEF TypeOK, Readers
<1>3. TypeOK'
    BY <1>1, <1>2 DEF TypeOK
<1>4. ListIsLocked'
    BY <1>1, <1>2, StatusAssumption DEF ListIsLocked, Readers
<1>5. ReadingsAreOld'
    BY <1>1, <1>2, StatusAssumption DEF ReadingsAreOld, Agree, MayBecome, Readers
<1>6. VisitedIsClosed'
    <2>1. \A c \in Bots : seen'[c] = seen[c] \/ seen'[c] = <<>>
        BY <1>1, <1>2 DEF Readers
    <2>2. Len(bots) \in Nat
        BY <1>2
    <2> QED
        BY <1>1, <2>1, <2>2 DEF VisitedIsClosed
<1>7. AddedBotIsListed'
    BY <1>1, <1>2 DEF AddedBotIsListed
<1>8. ClosedIsStopped'
    <2>1. \A type : Stops(type) => Stops(type)'
        BY <1>1, <1>2 DEF Stops
    <2> QED
        BY <1>1, <2>1 DEF ClosedIsStopped
<1>9. StoppedBotIsReported'
    <2>1. PICK i \in 1 .. Len(bots) : bots[i].type = TypeOf[b]
        BY <1>1 DEF AddedBotIsListed
    <2>2. ~bots[i].running /\ i \in DOMAIN bots
        BY <1>1, <1>2, <2>1 DEF VisitedIsClosed
    <2> QED
        BY <1>1, <1>2, <2>1, <2>2 DEF StoppedBotIsReported
<1> QED
    BY <1>3, <1>4, <1>5, <1>6, <1>7, <1>8, <1>9

-----------------------------------------------------------------------------
(***************************************************************************)
(* CurrentStatus                                                           *)
(***************************************************************************)

\* Nothing of a monitor matters to the bots.
LEMMA MonitorFrame ==
    ASSUME StatusInv, UNCHANGED <<bots, botPc>>, \A b \in Bots : seen'[b] = seen[b]
    PROVE  VisitedIsClosed' /\ AddedBotIsListed' /\ ClosedIsStopped' /\ StoppedBotIsReported'
BY DEF StatusInv, VisitedIsClosed, AddedBotIsListed, ClosedIsStopped, Stops,
       StoppedBotIsReported

LEMMA RLockSnapshotStep ==
    ASSUME StatusInv, NEW m \in Monitors, RLockSnapshot(m)
    PROVE  StatusInv'
<1> USE DEF StatusInv
<1>1. /\ monPc[m] = "idle" /\ monPc' = [monPc EXCEPT ![m] = "reading"]
      /\ readers' = [readers EXCEPT ![m] = @ + 1]
      /\ snapshots[m] < MaxSnapshots /\ snapshots' = [snapshots EXCEPT ![m] = @ + 1]
      /\ UNCHANGED <<started, bots, writer, runPc, botPc, seen, result>>
    BY DEF RLockSnapshot, RLock
<1>2. readers' = [readers EXCEPT ![m] = 1] /\ m \in Readers
      /\ readers \in [Readers -> 0 .. 2] /\ readers' \in [Readers -> 0 .. 2]
    <2>1. readers[m] + 1 = 1
        BY <1>1 DEF ListIsLocked
    <2>2. readers' = [readers EXCEPT ![m] = 1]
        BY <1>1, <2>1
    <2>3. m \in Readers /\ readers \in [Readers -> 0 .. 2]
        BY DEF TypeOK, Readers
    <2> QED
        BY <2>2, <2>3
<1>3. snapshots' \in [Monitors -> 0 .. MaxSnapshots]
    BY <1>1, StatusAssumption DEF TypeOK
<1>4. TypeOK'
    BY <1>1, <1>2, <1>3 DEF TypeOK
<1>5. ListIsLocked'
    BY <1>1, <1>2, StatusAssumption DEF ListIsLocked, Readers, TypeOK
<1>6. ReadingsAreOld'
    BY <1>1 DEF ReadingsAreOld, Agree, MayBecome, TypeOK
<1> QED
    BY <1>1, <1>4, <1>5, <1>6, MonitorFrame

\* The entry that is copied is at least as new as the one returned before.
LEMMA ReadNextStep ==
    ASSUME StatusInv, NEW m \in Monitors, ReadNext(m)
    PROVE  StatusInv'
<1> USE DEF StatusInv
<1> DEFINE n == Len(seen[m])
<1>1. /\ monPc[m] = "reading" /\ n < Len(bots)
      /\ seen' = [seen EXCEPT ![m] = Append(seen[m], bots[n + 1])]
      /\ UNCHANGED <<started, bots, writer, readers, runPc, botPc, monPc, result,
                     snapshots>>
    BY DEF ReadNext
<1>2. /\ seen \in [Readers -> Seq(BotStatus)] /\ m \in Readers /\ bots \in Seq(BotStatus)
      /\ seen[m] \in Seq(BotStatus) /\ n \in Nat /\ Len(bots) \in Nat
    BY DEF TypeOK, Readers
<1>3. n + 1 \in 1 .. Len(bots) /\ bots[n + 1] \in BotStatus
    BY <1>1, <1>2
<1>4. /\ seen'[m] \in Seq(BotStatus) /\ Len(seen'[m]) = n + 1
      /\ \A i \in 1 .. n : seen'[m][i] = seen[m][i]
      /\ seen'[m][n + 1] = bots[n + 1]
      /\ \A p \in Readers : p # m => seen'[p] = seen[p]
    BY <1>1, <1>2, <1>3, AddedEntry
<1>5. TypeOK'
    <2>1. seen' \in [Readers -> Seq(BotStatus)]
        BY <1>1, <1>2, <1>4
    <2> QED
        BY <1>1, <2>1 DEF TypeOK
<1>6. ListIsLocked'
    BY <1>1, <1>4, StatusAssumption DEF ListIsLocked, Readers
<1>7. ReadingsAreOld'
    <2> SUFFICES ASSUME NEW k \in Monitors
                 PROVE  /\ Len(seen'[k]) <= Len(bots) /\ Agree(seen'[k], bots)
                        /\ Len(result[k].bots) <= Len(bots) /\ Agree(result[k].bots, bots)
                        /\ Agree(result[k].bots, seen'[k])
                        /\ monPc[k] = "running" => Len(seen'[k]) = Len(bots)
        BY <1>1 DEF ReadingsAreOld, Agree
    <2>1. CASE k # m
        BY <1>4, <2>1 DEF ReadingsAreOld, Readers
    <2>2. CASE k = m
        <3>1. \A i \in 1 .. n + 1 : i \in 1 .. n \/ i = n + 1
            BY <1>2
        <3>2. Agree(seen'[m], bots)
            BY <1>2, <1>3, <1>4, <3>1 DEF ReadingsAreOld, Agree, MayBecome
        <3>3. Agree(result[m].bots, seen'[m])
            <4> SUFFICES ASSUME NEW i \in 1 .. Len(result[m].bots), i <= n + 1
                         PROVE  MayBecome(result[m].bots[i], seen'[m][i])
                BY <1>4 DEF Agree
            <4>1. i \in 1 .. n \/ i = n + 1
                BY <1>2
            <4>2. MayBecome(result[m].bots[i], bots[i])
                BY <1>2, <1>3, <4>1 DEF ReadingsAreOld, Agree
            <4>3. i \in 1 .. n => MayBecome(result[m].bots[i], seen[m][i])
                BY <1>2 DEF ReadingsAreOld, Agree
            <4> QED
                BY <1>4, <4>1, <4>2, <4>3
        <3> QED
            BY <1>1, <1>2, <1>4, <2>2, <3>2, <3>3 DEF ReadingsAreOld
    <2> QED
        BY <2>1, <2>2
<1>8. \A b \in Bots : seen'[b] = seen[b]
    BY <1>4, StatusAssumption DEF Readers
<1> QED
    BY <1>1, <1>5, <1>6, <1>7, <1>8, MonitorFrame

LEMMA RLockRunningStep ==
    ASSUME StatusInv, NEW m \in Monitors, RLockRunning(m)
    PROVE  StatusInv'
<1> USE DEF StatusInv
<1>1. /\ monPc[m] = "reading" /\ monPc' = [monPc EXCEPT ![m] = "running"]
      /\ readers' = [readers EXCEPT ![m] = @ + 1] /\ Len(seen[m]) = Len(bots)
      /\ UNCHANGED <<started, bots, writer, runPc, botPc, seen, result, snapshots>>
    BY DEF RLockRunning, RLock
<1>2. readers' = [readers EXCEPT ![m] = 2] /\ m \in Readers
      /\ readers \in [Readers -> 0 .. 2] /\ readers' \in [Readers -> 0 .. 2]
    <2>1. readers[m] + 1 = 2
        BY <1>1 DEF ListIsLocked
    <2>2. readers' = [readers EXCEPT ![m] = 2]
        BY <1>1, <2>1
    <2>3. m \in Readers /\ readers \in [Readers -> 0 .. 2]
        BY DEF TypeOK, Readers
    <2> QED
        BY <2>2, <2>3
<1>3. TypeOK'
    BY <1>1, <1>2 DEF TypeOK
<1>4. ListIsLocked'
    BY <1>1, <1>2, StatusAssumption DEF ListIsLocked, Readers, TypeOK
<1>5. ReadingsAreOld'
    BY <1>1 DEF ReadingsAreOld, Agree, MayBecome, TypeOK
<1> QED
    BY <1>1, <1>3, <1>4, <1>5, MonitorFrame

LEMMA SnapshotReturnsStep ==
    ASSUME StatusInv, NEW m \in Monitors, SnapshotReturns(m)
    PROVE  StatusInv'
<1> USE DEF StatusInv
<1>1. /\ monPc[m] = "running" /\ monPc' = [monPc EXCEPT ![m] = "idle"]
      /\ readers' = [readers EXCEPT ![m] = 0]
      /\ result' = [result EXCEPT ![m] = [running |-> started, bots |-> seen[m]]]
      /\ seen' = [seen EXCEPT ![m] = <<>>]
      /\ UNCHANGED <<started, bots, writer, runPc, botPc, snapshots>>
    BY DEF SnapshotReturns, RUnlockAll
<1>2. /\ seen \in [Readers -> Seq(BotStatus)] /\ m \in Readers /\ bots \in Seq(BotStatus)
      /\ readers \in [Readers -> 0 .. 2] /\ seen[m] \in Seq(BotStatus)
      /\ result \in [Monitors -> [running : BOOLEAN, bots : Seq(BotStatus)]]
    BY DEF TypeOK, Readers
<1>3. TypeOK'
    <2>1. [running |-> started, bots |-> seen[m]] \in [running : BOOLEAN,
                                                       bots : Seq(BotStatus)]
        BY <1>2 DEF TypeOK
    <2>2. seen' \in [Readers -> Seq(BotStatus)] /\ readers' \in [Readers -> 0 .. 2]
        BY <1>1, <1>2
    <2>3. result' \in [Monitors -> [running : BOOLEAN, bots : Seq(BotStatus)]]
        BY <1>1, <1>2, <2>1
    <2> QED
        BY <1>1, <2>2, <2>3 DEF TypeOK
<1>4. ListIsLocked'
    BY <1>1, <1>2, StatusAssumption DEF ListIsLocked, Readers, TypeOK
<1>5. ReadingsAreOld'
    <2>1. ASSUME NEW k \in Monitors, k # m
          PROVE  seen'[k] = seen[k] /\ result'[k] = result[k] /\ monPc'[k] = monPc[k]
        BY <1>1, <1>2, <2>1 DEF Readers, TypeOK
    <2>2. result'[m].bots = seen[m] /\ seen'[m] = <<>> /\ monPc'[m] = "idle"
        BY <1>1, <1>2 DEF TypeOK
    <2>3. /\ Len(seen'[m]) <= Len(bots) /\ Agree(seen'[m], bots)
          /\ Agree(result'[m].bots, seen'[m])
        BY <1>2, <2>2 DEF Agree
    <2> QED
        BY <1>1, <2>1, <2>2, <2>3 DEF ReadingsAreOld, Agree
<1>6. \A b \in Bots : seen'[b] = seen[b]
    BY <1>1, <1>2, StatusAssumption DEF Readers
<1> QED
    BY <1>1, <1>3, <1>4, <1>5, <1>6, MonitorFrame

LEMMA StatusInvStep == StatusInv /\ [Next]_vars => StatusInv'
<1>1. ASSUME StatusInv, UNCHANGED vars PROVE StatusInv'
    <2>1. TypeOK' /\ ListIsLocked'
        BY <1>1 DEF vars, StatusInv, TypeOK, ListIsLocked
    <2>2. ReadingsAreOld'
        BY <1>1 DEF vars, StatusInv, ReadingsAreOld, Agree, MayBecome
    <2>3. VisitedIsClosed' /\ AddedBotIsListed' /\ ClosedIsStopped' /\ StoppedBotIsReported'
        BY <1>1 DEF vars, StatusInv, VisitedIsClosed, AddedBotIsListed, ClosedIsStopped,
                    Stops, StoppedBotIsReported
    <2> QED
        BY <2>1, <2>2, <2>3 DEF StatusInv
<1> QED
    BY <1>1, RunStep, LockAddBotStep, AddBotStep, RLockStopBotStep, StopNextStep,
       RUnlockStopBotStep, RLockSnapshotStep, ReadNextStep, RLockRunningStep,
       SnapshotReturnsStep DEF Next, BotSteps, SnapshotSteps

\* The invariant holds for any number of goroutines.
THEOREM StatusInvariant == Spec => []StatusInv
BY StatusInit, StatusInvStep, PTL DEF Spec

-----------------------------------------------------------------------------
(***************************************************************************)
(* What it says about CurrentStatus                                        *)
(***************************************************************************)

\* Type correctness: no goroutine holds more than the two read locks of snapshot
\* and running, and entries are added and closed only.
THEOREM StatusTypeCorrect == Spec => []TypeOK
BY StatusInvariant, PTL DEF StatusInv

\* What stopBot was called for is reported: the bot's goroutine does not leave it
\* before it found and closed an entry of its type.
THEOREM StopIsReported == Spec => []StoppedBotIsReported
BY StatusInvariant, PTL DEF StatusInv

\* A type that CurrentStatus reports as finished has a bot that stops, even if the
\* entries were read while stopBot closed them.
THEOREM FinishedIsTrue == Spec => []ReportedFinishedIsFinished
<1>1. StatusInv => ReportedFinishedIsFinished
    <2> SUFFICES ASSUME StatusInv, NEW m \in Monitors, NEW i \in DOMAIN result[m].bots,
                        ~result[m].bots[i].running
                 PROVE  Stops(result[m].bots[i].type)
        BY DEF ReportedFinishedIsFinished, Stops
    <2>1. result[m].bots \in Seq(BotStatus) /\ bots \in Seq(BotStatus)
        BY DEF StatusInv, TypeOK
    <2>2. i \in 1 .. Len(result[m].bots) /\ i \in 1 .. Len(bots)
        BY <2>1 DEF StatusInv, ReadingsAreOld
    <2>3. MayBecome(result[m].bots[i], bots[i])
        BY <2>2 DEF StatusInv, ReadingsAreOld, Agree
    <2> QED
        BY <2>2, <2>3 DEF StatusInv, ClosedIsStopped, MayBecome
<1> QED
    BY <1>1, StatusInvariant, PTL

\* Between two answers of CurrentStatus no bot disappears, changes its type or
\* comes back to life: when Running is false, the state is final.
THEOREM FinishedStaysFinished == Spec => FinishedIsFinal
<1> DEFINE Kept == \A m \in Monitors : \A i \in DOMAIN result[m].bots :
                      /\ i \in DOMAIN result'[m].bots
                      /\ result'[m].bots[i].type = result[m].bots[i].type
                      /\ result'[m].bots[i].running => result[m].bots[i].running
<1>1. StatusInv /\ [Next]_vars => [Kept]_vars
    <2> SUFFICES ASSUME StatusInv, Next, NEW m \in Monitors,
                        NEW i \in DOMAIN result[m].bots
                 PROVE  /\ i \in DOMAIN result'[m].bots
                        /\ MayBecome(result[m].bots[i], result'[m].bots[i])
        BY DEF MayBecome
    <2>1. CASE result'[m] = result[m]
        BY <2>1 DEF MayBecome
    <2>2. CASE result'[m] # result[m]
        <3>1. SnapshotReturns(m)
            BY <2>2 DEF Next, RunSteps, CallRun, Start, NewRunner, BotSteps, LockAddBot,
                        AddBot, RLockStopBot, StopNext, RUnlockStopBot, RLockSnapshot,
                        SnapshotSteps, RLockRunning, ReadNext, SnapshotReturns, StatusInv,
                        TypeOK
        <3>2. result'[m].bots = seen[m] /\ Len(seen[m]) = Len(bots)
            BY <3>1 DEF SnapshotReturns, StatusInv, TypeOK, ReadingsAreOld
        <3>3. result[m].bots \in Seq(BotStatus) /\ seen[m] \in Seq(BotStatus)
            BY DEF StatusInv, TypeOK, Readers
        <3>4. i \in 1 .. Len(result[m].bots) /\ i <= Len(seen[m]) /\ i \in DOMAIN seen[m]
            BY <3>2, <3>3 DEF StatusInv, ReadingsAreOld
        <3> QED
            BY <3>2, <3>4 DEF StatusInv, ReadingsAreOld, Agree
    <2> QED
        BY <2>1, <2>2
<1> QED
    BY <1>1, StatusInvariant, PTL DEF Spec, FinishedIsFinal

-----------------------------------------------------------------------------
(***************************************************************************)
(* Calls of Run                                                            *)
(***************************************************************************)

\* status.start let this call pass.
Passed(r) == runPc[r] \in {"starting", "failed", "started"}

\* However many goroutines call Run, status.start lets one of them pass. If newRunner
\* then fails, no bot is ever started in this process.
OneRunPasses ==
    /\ \A r, s \in Runners : Passed(r) /\ Passed(s) => r = s
    /\ (\E r \in Runners : runPc[r] = "failed") => \A b \in Bots : botPc[b] = "ready"

OneRunInv ==
    /\ \A r \in Runners : Passed(r) => started
    /\ \A r, s \in Runners : Passed(r) /\ Passed(s) => r = s
    /\ \A b \in Bots : botPc[b] # "ready" => \E r \in Runners : runPc[r] = "started"

\* Of all calls of Run, at the same time or one after the other, at most one passes
\* status.start, and bots run only if that one does not fail.
THEOREM RunPassesOnce == Spec => []OneRunPasses
<1>1. Init => OneRunInv
    BY DEF Init, OneRunInv, Passed
<1>2. StatusInv /\ OneRunInv /\ [Next]_vars => OneRunInv'
    <2> SUFFICES ASSUME TypeOK, OneRunInv, [Next]_vars PROVE OneRunInv'
        BY DEF StatusInv
    <2>t. runPc \in [Runners -> {"idle", "lock", "starting", "failed", "started", "already"}]
          /\ botPc \in [Bots -> {"ready", "lock", "running", "stopping", "stopped"}]
        BY DEF TypeOK
    <2>1. ASSUME NEW r \in Runners, CallRun(r) \/ NewRunner(r) PROVE OneRunInv'
        <3>1. PICK to \in {"lock", "failed", "started"} :
                 runPc' = [runPc EXCEPT ![r] = to] /\ (to = "lock" \/ runPc[r] = "starting")
            BY <2>1 DEF CallRun, NewRunner
        <3>2. started' = started /\ botPc' = botPc /\ runPc[r] # "started"
            BY <2>1 DEF CallRun, NewRunner
        <3>3. \A s \in Runners : Passed(s)' => Passed(s)
            BY <2>t, <3>1 DEF Passed
        <3>4. \A s \in Runners : runPc[s] = "started" => runPc'[s] = "started"
            BY <2>t, <3>1, <3>2
        <3> QED
            BY <3>2, <3>3, <3>4 DEF OneRunInv
    <2>2. ASSUME NEW r \in Runners, Start(r) PROVE OneRunInv'
        <3>1. /\ runPc' = [runPc EXCEPT ![r] = IF started THEN "already" ELSE "starting"]
              /\ started' = TRUE /\ botPc' = botPc /\ runPc[r] = "lock"
            BY <2>2 DEF Start
        <3>2. \A s \in Runners : Passed(s)' => Passed(s) \/ (s = r /\ ~started)
            BY <2>t, <3>1 DEF Passed
        <3>3. \A s \in Runners : runPc[s] = "started" => runPc'[s] = "started"
            BY <2>t, <3>1
        <3> QED
            BY <3>1, <3>2, <3>3 DEF OneRunInv
    <2>3. ASSUME NEW b \in Bots, BotSteps(b) PROVE OneRunInv'
        <3>1. /\ runPc' = runPc /\ started' = started
              /\ \/ \E r \in Runners : runPc[r] = "started"
                 \/ botPc[b] # "ready"
            BY <2>3 DEF BotSteps, LockAddBot, AddBot, RLockStopBot, StopNext, RUnlockStopBot
        <3>2. \E r \in Runners : runPc[r] = "started"
            BY <3>1 DEF OneRunInv
        <3> QED
            BY <3>1, <3>2 DEF OneRunInv, Passed
    <2>4. CASE UNCHANGED <<runPc, started, botPc>>
        BY <2>4 DEF OneRunInv, Passed
    <2> QED
        BY <2>1, <2>2, <2>3, <2>4
        DEF Next, vars, RunSteps, SnapshotSteps, RLockSnapshot, ReadNext, RLockRunning,
            SnapshotReturns
<1>3. OneRunInv => OneRunPasses
    BY DEF OneRunInv, OneRunPasses, Passed
<1> QED
    BY <1>1, <1>2, <1>3, StatusInvariant, PTL DEF Spec
=============================================================================
