------------------------------- MODULE Status -------------------------------
(***************************************************************************)
(* status.go: the process-wide runnerStatus, read by CurrentStatus and     *)
(* written by Run and by the goroutine of each bot, with the sync.RWMutex  *)
(* that guards it. The mutex is Go's: a writer that waits for the readers  *)
(* to leave already keeps new readers out.                                 *)
(***************************************************************************)
EXTENDS Naturals, Sequences

CONSTANTS
    Runners,        \* goroutines that call Run
    Bots,           \* the bots registered with RegisterBot
    Types,          \* the values of BotType
    TypeOf,         \* the BotType of each bot
    Monitors,       \* goroutines that call CurrentStatus
    MaxSnapshots,   \* bound: calls of CurrentStatus by one monitor
    NoWriter        \* nobody holds or waits for the write lock

ASSUME StatusAssumption ==
    /\ TypeOf \in [Bots -> Types]
    /\ MaxSnapshots \in Nat
    /\ NoWriter \notin Runners \union Bots
    /\ Runners \intersect Bots = {} /\ Bots \intersect Monitors = {}

VARIABLES
    started,    \* status.finished is not nil
    bots,       \* status.bots
    writer,     \* who holds the write lock or is next to get it
    readers,    \* how many read locks each goroutine holds
    runPc,      \* progress of each call of Run
    botPc,      \* progress of the goroutine of each bot
    monPc,      \* progress of each call of CurrentStatus
    seen,       \* stopBot: entries visited; snapshot: entries copied so far
    result,     \* what the last call of CurrentStatus returned
    snapshots   \* number of calls of CurrentStatus

vars == <<started, bots, writer, readers, runPc, botPc, monPc, seen, result,
          snapshots>>

Readers   == Bots \union Monitors
BotStatus == [type : Types, running : BOOLEAN]

TypeOK ==
    /\ started \in BOOLEAN
    /\ bots \in Seq(BotStatus)
    /\ writer \in Runners \union Bots \union {NoWriter}
    /\ readers \in [Readers -> 0 .. 2]
    /\ runPc \in [Runners -> {"idle", "lock", "starting", "failed", "started",
                              "already"}]
    /\ botPc \in [Bots -> {"ready", "lock", "running", "stopping", "stopped"}]
    /\ monPc \in [Monitors -> {"idle", "reading", "running"}]
    /\ seen \in [Readers -> Seq(BotStatus)]
    /\ result \in [Monitors -> [running : BOOLEAN, bots : Seq(BotStatus)]]
    /\ snapshots \in [Monitors -> 0 .. MaxSnapshots]

Init ==
    /\ started = FALSE
    /\ bots = <<>>
    /\ writer = NoWriter
    /\ readers = [p \in Readers |-> 0]
    /\ runPc = [r \in Runners |-> "idle"]
    /\ botPc = [b \in Bots |-> "ready"]
    /\ monPc = [m \in Monitors |-> "idle"]
    /\ seen = [p \in Readers |-> <<>>]
    /\ result = [m \in Monitors |-> [running |-> FALSE, bots |-> <<>>]]
    /\ snapshots = [m \in Monitors |-> 0]

-----------------------------------------------------------------------------
(***************************************************************************)
(* sync.RWMutex. Lock is two steps: from the first one on, RLock blocks.   *)
(***************************************************************************)
Lock(p) ==
    /\ writer = NoWriter
    /\ writer' = p

HoldsLock(p) ==
    /\ writer = p
    /\ \A q \in Readers : readers[q] = 0

Unlock == writer' = NoWriter

RLock(p) ==
    /\ writer = NoWriter
    /\ readers' = [readers EXCEPT ![p] = @ + 1]

\* Mutant of RUnlockAll: the lock of status.running stays.
RUnlockOne(p) == readers' = [readers EXCEPT ![p] = @ - 1]

RUnlockAll(p) == readers' = [readers EXCEPT ![p] = 0]

-----------------------------------------------------------------------------
(***************************************************************************)
(* Run                                                                     *)
(***************************************************************************)
CallRun(r) ==
    /\ runPc[r] = "idle"
    /\ Lock(r)
    /\ runPc' = [runPc EXCEPT ![r] = "lock"]
    /\ UNCHANGED <<started, bots, readers, botPc, monPc, seen, result, snapshots>>

\* status.start
Start(r) ==
    /\ runPc[r] = "lock"
    /\ HoldsLock(r)
    /\ Unlock
    /\ started' = TRUE
    /\ runPc' = [runPc EXCEPT ![r] = IF started THEN "already" ELSE "starting"]
    /\ UNCHANGED <<bots, readers, botPc, monPc, seen, result, snapshots>>

\* newRunner fails on an unknown time zone. The status is not reset.
NewRunner(r) ==
    /\ runPc[r] = "starting"
    /\ \E outcome \in {"failed", "started"} :
         runPc' = [runPc EXCEPT ![r] = outcome]
    /\ UNCHANGED <<started, bots, writer, readers, botPc, monPc, seen, result,
                   snapshots>>

-----------------------------------------------------------------------------
(***************************************************************************)
(* The goroutine that runner.run starts for each bot                       *)
(***************************************************************************)
LockAddBot(b) ==
    /\ botPc[b] = "ready"
    /\ \E r \in Runners : runPc[r] = "started"
    /\ Lock(b)
    /\ botPc' = [botPc EXCEPT ![b] = "lock"]
    /\ UNCHANGED <<started, bots, readers, runPc, monPc, seen, result, snapshots>>

\* Mutant of AddBot: the new entry comes first.
AddBotFirst(b) ==
    /\ botPc[b] = "lock"
    /\ HoldsLock(b)
    /\ Unlock
    /\ bots' = <<[type |-> TypeOf[b], running |-> TRUE]>> \o bots
    /\ botPc' = [botPc EXCEPT ![b] = "running"]
    /\ UNCHANGED <<started, readers, runPc, monPc, seen, result, snapshots>>

AddBot(b) ==
    /\ botPc[b] = "lock"
    /\ HoldsLock(b)
    /\ Unlock
    /\ bots' = Append(bots, [type |-> TypeOf[b], running |-> TRUE])
    /\ botPc' = [botPc EXCEPT ![b] = "running"]
    /\ UNCHANGED <<started, readers, runPc, monPc, seen, result, snapshots>>

\* The bot ended, for whatever reason.
RLockStopBot(b) ==
    /\ botPc[b] = "running"
    /\ RLock(b)
    /\ botPc' = [botPc EXCEPT ![b] = "stopping"]
    /\ UNCHANGED <<started, bots, writer, runPc, monPc, seen, result, snapshots>>

\* Mutant of Closed: stopBot does not compare the types.
ClosedAny(entry, b) == [entry EXCEPT !.running = FALSE]

\* botStatus.stop closes a channel; closing it again panics and is recovered.
Closed(entry, b) ==
    IF entry.type = TypeOf[b] THEN [entry EXCEPT !.running = FALSE] ELSE entry

StopNext(b) ==
    LET i == Len(seen[b]) + 1
    IN  /\ botPc[b] = "stopping"
        /\ i <= Len(bots)
        /\ bots' = [bots EXCEPT ![i] = Closed(@, b)]
        /\ seen' = [seen EXCEPT ![b] = Append(@, bots'[i])]
        /\ UNCHANGED <<started, writer, readers, runPc, botPc, monPc, result,
                       snapshots>>

\* Mutant of RUnlockStopBot: stopBot returns after the first entry.
RUnlockStopBotEarly(b) ==
    /\ botPc[b] = "stopping"
    /\ Len(seen[b]) >= 1
    /\ RUnlockAll(b)
    /\ botPc' = [botPc EXCEPT ![b] = "stopped"]
    /\ seen' = [seen EXCEPT ![b] = <<>>]
    /\ UNCHANGED <<started, bots, writer, runPc, monPc, result, snapshots>>

RUnlockStopBot(b) ==
    /\ botPc[b] = "stopping"
    /\ Len(seen[b]) = Len(bots)
    /\ RUnlockAll(b)
    /\ botPc' = [botPc EXCEPT ![b] = "stopped"]
    /\ seen' = [seen EXCEPT ![b] = <<>>]
    /\ UNCHANGED <<started, bots, writer, runPc, monPc, result, snapshots>>

-----------------------------------------------------------------------------
(***************************************************************************)
(* CurrentStatus. The read locks of stopBot and of other snapshots do not  *)
(* exclude this one: the entries are read one by one.                      *)
(***************************************************************************)
RLockSnapshot(m) ==
    /\ monPc[m] = "idle"
    /\ snapshots[m] < MaxSnapshots
    /\ RLock(m)
    /\ monPc' = [monPc EXCEPT ![m] = "reading"]
    /\ snapshots' = [snapshots EXCEPT ![m] = @ + 1]
    /\ UNCHANGED <<started, bots, writer, runPc, botPc, seen, result>>

ReadNext(m) ==
    /\ monPc[m] = "reading"
    /\ Len(seen[m]) < Len(bots)
    /\ seen' = [seen EXCEPT ![m] = Append(@, bots[Len(@) + 1])]
    /\ UNCHANGED <<started, bots, writer, readers, runPc, botPc, monPc, result,
                   snapshots>>

\* status.running takes the read lock a second time.
RLockRunning(m) ==
    /\ monPc[m] = "reading"
    /\ Len(seen[m]) = Len(bots)
    /\ RLock(m)
    /\ monPc' = [monPc EXCEPT ![m] = "running"]
    /\ UNCHANGED <<started, bots, writer, runPc, botPc, seen, result, snapshots>>

SnapshotReturns(m) ==
    /\ monPc[m] = "running"
    /\ RUnlockAll(m)
    /\ result' = [result EXCEPT ![m] = [running |-> started, bots |-> seen[m]]]
    /\ seen' = [seen EXCEPT ![m] = <<>>]
    /\ monPc' = [monPc EXCEPT ![m] = "idle"]
    /\ UNCHANGED <<started, bots, writer, runPc, botPc, snapshots>>

-----------------------------------------------------------------------------
RunSteps(r) == CallRun(r) \/ Start(r) \/ NewRunner(r)

BotSteps(b) == \/ LockAddBot(b) \/ AddBot(b)
               \/ RLockStopBot(b) \/ StopNext(b) \/ RUnlockStopBot(b)

SnapshotSteps(m) == RLockRunning(m) \/ ReadNext(m) \/ SnapshotReturns(m)

Next ==
    \/ \E r \in Runners : RunSteps(r)
    \/ \E b \in Bots : BotSteps(b)
    \/ \E m \in Monitors : RLockSnapshot(m) \/ SnapshotSteps(m)

Spec == Init /\ [][Next]_vars

\* Every goroutine that can go on does, and the mutex is fair: a blocked call
\* that can again and again be granted is granted. Nobody has to call Run or
\* CurrentStatus, and no bot has to end.
Fairness ==
    /\ \A r \in Runners : SF_vars(Start(r) \/ NewRunner(r))
    /\ \A b \in Bots : SF_vars(LockAddBot(b) \/ AddBot(b) \/ StopNext(b)
                                  \/ RUnlockStopBot(b))
    /\ \A m \in Monitors : SF_vars(SnapshotSteps(m))

FairSpec == Spec /\ Fairness

-----------------------------------------------------------------------------
(***************************************************************************)
(* Safety                                                                  *)
(***************************************************************************)

\* The mutex and the recovered double close together keep what CurrentStatus
\* returns true: a type is reported as finished only after a bot of that type
\* began to stop, also when stopBot runs in the middle of the snapshot.
ReportedFinishedIsFinished ==
    \A m \in Monitors : \A i \in DOMAIN result[m].bots :
        ~result[m].bots[i].running
            => \E b \in Bots : /\ TypeOf[b] = result[m].bots[i].type
                               /\ botPc[b] \in {"stopping", "stopped"}

\* When the goroutine of a bot is through with stopBot, an entry of its type
\* says so, also when a bot of the same type was added or stopped meanwhile.
StoppedBotIsReported ==
    \A b \in Bots : botPc[b] = "stopped"
        => \E i \in DOMAIN bots : bots[i].type = TypeOf[b] /\ ~bots[i].running

\* BotStatus.Running: "When this returns false, the state is final". Of two
\* consecutive answers of CurrentStatus the later one lists the same bots in
\* the same order, maybe more, and revives none.
FinishedIsFinal ==
    [][\A m \in Monitors : \A i \in DOMAIN result[m].bots :
          /\ i \in DOMAIN result'[m].bots
          /\ result'[m].bots[i].type = result[m].bots[i].type
          /\ result'[m].bots[i].running => result[m].bots[i].running]_vars

-----------------------------------------------------------------------------
(***************************************************************************)
(* What the comments of the code promise and the code does not do          *)
(***************************************************************************)

\* CurrentStatus: "So developers can safely run two different goroutines": one
\* that calls Run, another one that calls CurrentStatus.
CurrentStatusReturns ==
    \A m \in Monitors : monPc[m] = "reading" ~> monPc[m] = "idle"

\* Status.Running: "Sarah is considered running when Run is called and at least
\* one of its belonging Bot is actively running."
StoppedSarahIsNotRunning ==
    (\A b \in Bots : botPc[b] = "stopped") => ~started

\* ErrRunnerAlreadyRunning: "indicates that Run is already called and the
\* process is running."
AlreadyRunningMeansRunning ==
    [][\A r \in Runners : runPc'[r] = "already" /\ runPc[r] # "already"
          => \E s \in Runners : runPc[s] \in {"starting", "started"}]_vars
=============================================================================
