------------------------- MODULE RegistrationProofs -------------------------
(***************************************************************************)
(* Proofs about Registration, for any bots, builders, chains of setters    *)
(* and options, if no builder is used again after Build.                   *)
(***************************************************************************)
EXTENDS Registration, TLAPS

(***************************************************************************)
(* The strengthening                                                       *)
(***************************************************************************)

\* Build has accepted exactly the builders whose props are valid by now.
BuiltIsValid == \A b \in Builders : b \in built <=> Valid(props[b])

\* An option that came from a builder names one that Build accepted.
Known(o) == ByProps(o) => o.builder \in built /\ o.kind = PropsKind(o.builder)

StashedIsKnown == \A k \in DOMAIN stashed : Known(stashed[k])

AppliedIsKnown ==
    \A k \in DOMAIN applied :
        /\ Known(applied[k])
        /\ ByProps(applied[k]) => applied[k].botType = props[applied[k].builder].botType

NothingBeforeRun == ~running => applied = <<>>

\* A bot comes only to what is filed under its BotType.
TodoIsFiled == \A t \in BotTypes : \A k \in todo[t] : Filed(applied[k], t)

WatchedIsFiled ==
    \A t \in BotTypes : \A b \in watched[t] :
        \E k \in DOMAIN applied :
            ByProps(applied[k]) /\ applied[k].builder = b /\ applied[k].botType = t

\* The bot has come to place k of what was applied.
Registered(t, k) ==
    k \in DOMAIN applied /\ Filed(applied[k], t) /\ t \in Served(applied) /\ k \notin todo[t]

\* Props of commands come before the developer's own commands.
PropsFirst ==
    \A t \in BotTypes : \A k \in DOMAIN applied : \A j \in todo[t] :
        Registered(t, k) /\ applied[k].kind = "command" => applied[j].kind # "commandProps"

\* BotServesItsCommands place by place, before the bot is ready.
CommandIsOfTheBot ==
    \A t \in BotTypes, i \in Ids :
        commands[t][i] # Nobody =>
            \E k \in DOMAIN applied :
                applied[k] \in CommandsOf(t, i) /\ Provider(applied[k]) = commands[t][i]

RegisteredCommandIsThere ==
    \A t \in BotTypes : \A k \in DOMAIN applied :
        /\ Registered(t, k) /\ applied[k].kind \in {"command", "commandProps"}
        /\ ~NeedsRead(applied[k])
        => commands[t][IdOf(applied[k])] # Nobody

OwnCommandIsLast ==
    \A t \in BotTypes : \A k \in DOMAIN applied :
        Registered(t, k) /\ applied[k].kind = "command" =>
            \/ commands[t][applied[k].id] = "command"
            \/ commands[t][applied[k].id] \in watched[t]

\* BotRunsItsTasks in the same way.
JobIsOfTheBot ==
    \A t \in BotTypes, i \in Ids :
        jobs[t][i].by # Nobody =>
            /\ \E k \in DOMAIN applied :
                 applied[k] \in TasksOf(t, i) /\ Provider(applied[k]) = jobs[t][i].by
            /\ jobs[t][i].schedule \notin {Empty, Invalid}

RegisteredTaskRuns ==
    \A t \in BotTypes : \A k \in DOMAIN applied :
        /\ Registered(t, k) /\ applied[k].kind \in {"task", "taskProps"}
        /\ \A o \in TasksOf(t, IdOf(applied[k])) : Schedulable(o)
        => jobs[t][IdOf(applied[k])].by # Nobody

\* No removal is under way but of a task of props.
RemovalIsOfProps ==
    \A t \in BotTypes, i \in Ids :
        <<t, i>> \in removing =>
            \E k \in DOMAIN applied : ByProps(applied[k]) /\ applied[k] \in TasksOf(t, i)

PluginsInv ==
    /\ TypeOK
    /\ BuiltIsValid
    /\ StashedIsKnown
    /\ AppliedIsKnown
    /\ NothingBeforeRun
    /\ TodoIsFiled
    /\ WatchedIsFiled
    /\ PropsFirst
    /\ CommandIsOfTheBot
    /\ RegisteredCommandIsThere
    /\ OwnCommandIsLast
    /\ JobIsOfTheBot
    /\ RegisteredTaskRuns
    /\ RemovalIsOfProps

-----------------------------------------------------------------------------
(***************************************************************************)
(* What the operators come to                                              *)
(***************************************************************************)
AppliedOption == Option \union [kind : {"commandProps", "taskProps"},
                                builder : Builders, botType : BotTypes]

LEMMA KindOfProps ==
    /\ \A p \in CommandProps : IsCommand(p)
    /\ \A p \in TaskProps : ~IsCommand(p)
BY DEF CommandProps, TaskProps, IsCommand

\* What a valid chain of setters gives.
LEMMA ValidProps ==
    ASSUME NEW p \in CommandProps \union TaskProps, Valid(p)
    PROVE  /\ p.botType \in BotTypes
           /\ p.id \in Ids
           /\ ~IsCommand(p) => /\ p \in TaskProps
                               /\ p.config = Empty => p.schedule # Empty
<1>1. CASE p \in CommandProps
  BY <1>1, KindOfProps DEF Valid, ValidCommand, CommandProps
<1>2. CASE p \in TaskProps
  BY <1>2, KindOfProps DEF Valid, ValidTask, TaskProps
<1> QED
  BY <1>1, <1>2

LEMMA BuiltProps ==
    ASSUME TypeOK, BuiltIsValid, NEW b \in built
    PROVE  /\ b \in Builders
           /\ props[b].botType \in BotTypes
           /\ props[b].id \in Ids
           /\ ~IsCommand(props[b]) => /\ props[b] \in TaskProps
                                      /\ props[b].config = Empty => props[b].schedule # Empty
<1>1. b \in Builders /\ props[b] \in CommandProps \union TaskProps
  BY DEF TypeOK
<1>2. Valid(props[b])
  BY <1>1 DEF BuiltIsValid
<1> QED
  BY <1>1, <1>2, ValidProps

LEMMA OptionShape ==
    ASSUME NEW o \in AppliedOption
    PROVE  /\ o.botType \in BotTypes
           /\ o.kind \in {"bot", "command", "task", "commandProps", "taskProps"}
           /\ ByProps(o) => o.builder \in Builders
           /\ ~ByProps(o) => /\ o.id \in Ids
                             /\ o.schedule \in {Empty, Invalid, "task"}
                             /\ o.kind \in {"bot", "command", "task"}
BY DEF AppliedOption, Option, ByProps

LEMMA AppliedShape ==
    ASSUME TypeOK, NEW k \in DOMAIN applied
    PROVE  /\ applied[k] \in AppliedOption
           /\ applied[k] \in Range(applied)
<1>1. applied \in Seq(AppliedOption)
  BY DEF TypeOK, AppliedOption
<1> QED
  BY <1>1 DEF Range

LEMMA PlaceOf ==
    ASSUME NEW o \in Range(applied)
    PROVE  \E k \in DOMAIN applied : applied[k] = o
BY DEF Range

\* What is registered for an identifier, by its place.
LEMMA OfIsByPlace ==
    ASSUME NEW t, NEW i
    PROVE  /\ \A k \in DOMAIN applied :
                applied[k] \in CommandsOf(t, i) <=>
                    /\ applied[k].kind \in {"command", "commandProps"}
                    /\ applied[k].botType = t /\ IdOf(applied[k]) = i
           /\ \A k \in DOMAIN applied :
                applied[k] \in TasksOf(t, i) <=>
                    /\ applied[k].kind \in {"task", "taskProps"}
                    /\ applied[k].botType = t /\ IdOf(applied[k]) = i
           /\ \A o \in CommandsOf(t, i) : \E k \in DOMAIN applied : applied[k] = o
           /\ \A o \in TasksOf(t, i) : \E k \in DOMAIN applied : applied[k] = o
BY DEF CommandsOf, TasksOf, For, Range

\* The identifier of what was applied is one that a bot can have.
LEMMA IdIsGiven ==
    ASSUME TypeOK, BuiltIsValid, AppliedIsKnown, NEW k \in DOMAIN applied
    PROVE  IdOf(applied[k]) \in Ids
<1>1. applied[k] \in AppliedOption
  BY AppliedShape
<1>2. CASE ByProps(applied[k])
  <2>1. applied[k].builder \in built
    BY <1>2 DEF AppliedIsKnown, Known
  <2> QED
    BY <1>2, <2>1, BuiltProps DEF IdOf
<1>3. CASE ~ByProps(applied[k])
  BY <1>1, <1>3, OptionShape DEF IdOf
<1> QED
  BY <1>2, <1>3

-----------------------------------------------------------------------------
(***************************************************************************)
(* Before Run, and registration that Run does not see                      *)
(***************************************************************************)

\* As long as props that Build returned stay as they are, so does what was
\* registered with them.
LEMMA OptionsStay ==
    ASSUME AppliedIsKnown, applied' = applied, \A b \in built : props'[b] = props[b]
    PROVE  /\ \A k \in DOMAIN applied :
                /\ (IdOf(applied[k]))' = IdOf(applied[k])
                /\ (NeedsRead(applied[k]))' = NeedsRead(applied[k])
                /\ (Schedulable(applied[k]))' = Schedulable(applied[k])
           /\ \A t \in BotTypes, i \in Ids :
                /\ (CommandsOf(t, i))' = CommandsOf(t, i)
                /\ (TasksOf(t, i))' = TasksOf(t, i)
<1>1. \A o \in Range(applied) : ByProps(o) => props'[o.builder] = props[o.builder]
  BY PlaceOf DEF AppliedIsKnown, Known
<1>2. \A k \in DOMAIN applied :
        ByProps(applied[k]) => props'[applied[k].builder] = props[applied[k].builder]
  BY DEF AppliedIsKnown, Known
<1>3. \A k \in DOMAIN applied : (IdOf(applied[k]))' = IdOf(applied[k])
  BY <1>2 DEF IdOf, ByProps
<1>4. \A k \in DOMAIN applied : (NeedsRead(applied[k]))' = NeedsRead(applied[k])
  BY <1>2 DEF NeedsRead, ByProps
<1>5. \A k \in DOMAIN applied : (Schedulable(applied[k]))' = Schedulable(applied[k])
  BY DEF Schedulable, ByProps
<1>6. \A t \in BotTypes, i \in Ids : (CommandsOf(t, i))' = CommandsOf(t, i)
  BY <1>1 DEF CommandsOf, For, IdOf, Range, ByProps
<1>7. \A t \in BotTypes, i \in Ids : (TasksOf(t, i))' = TasksOf(t, i)
  BY <1>1 DEF TasksOf, For, IdOf, Range, ByProps
<1> QED
  BY <1>3, <1>4, <1>5, <1>6, <1>7

\* So does what the bots have of it.
LEMMA PluginsStay ==
    ASSUME PluginsInv, \A b \in built : props'[b] = props[b],
           UNCHANGED <<applied, running, todo, watched, commands, jobs, removing>>
    PROVE  /\ NothingBeforeRun' /\ TodoIsFiled' /\ WatchedIsFiled' /\ PropsFirst'
           /\ CommandIsOfTheBot' /\ RegisteredCommandIsThere' /\ OwnCommandIsLast'
           /\ JobIsOfTheBot' /\ RegisteredTaskRuns' /\ RemovalIsOfProps'
<1> USE DEF PluginsInv
<1>0. /\ applied' = applied /\ running' = running /\ todo' = todo /\ watched' = watched
      /\ commands' = commands /\ jobs' = jobs /\ removing' = removing
  OBVIOUS
<1>1. /\ \A k \in DOMAIN applied :
           /\ (IdOf(applied[k]))' = IdOf(applied[k])
           /\ (NeedsRead(applied[k]))' = NeedsRead(applied[k])
           /\ (Schedulable(applied[k]))' = Schedulable(applied[k])
      /\ \A t \in BotTypes, i \in Ids :
           /\ (CommandsOf(t, i))' = CommandsOf(t, i)
           /\ (TasksOf(t, i))' = TasksOf(t, i)
  BY <1>0, OptionsStay
<1>2. \A t \in BotTypes, k \in DOMAIN applied : Registered(t, k)' <=> Registered(t, k)
  BY <1>0 DEF Registered, Filed, Served, Range
<1>3. NothingBeforeRun' /\ TodoIsFiled' /\ WatchedIsFiled'
  BY <1>0 DEF NothingBeforeRun, TodoIsFiled, WatchedIsFiled, Filed, ByProps
<1>4. PropsFirst'
  BY <1>0, <1>2 DEF PropsFirst
<1>5. CommandIsOfTheBot'
  BY <1>0, <1>1 DEF CommandIsOfTheBot, Provider, ByProps
<1>6. RegisteredCommandIsThere'
  BY <1>0, <1>1, <1>2 DEF RegisteredCommandIsThere
<1>7. OwnCommandIsLast'
  BY <1>0, <1>2 DEF OwnCommandIsLast
<1>8. JobIsOfTheBot'
  BY <1>0, <1>1 DEF JobIsOfTheBot, Provider, ByProps
<1>9. RegisteredTaskRuns'
  <2> SUFFICES ASSUME NEW t \in BotTypes, NEW k \in DOMAIN applied,
                      Registered(t, k), applied[k].kind \in {"task", "taskProps"},
                      \A o \in (TasksOf(t, IdOf(applied[k])))' : Schedulable(o)'
               PROVE  jobs[t][IdOf(applied[k])].by # Nobody
    BY <1>0, <1>1, <1>2 DEF RegisteredTaskRuns
  <2>1. IdOf(applied[k]) \in Ids
    BY IdIsGiven
  <2>2. (TasksOf(t, IdOf(applied[k])))' = TasksOf(t, IdOf(applied[k]))
    BY <1>0, <1>1, <2>1 DEF TasksOf, For, IdOf
  <2>3. \A o \in TasksOf(t, IdOf(applied[k])) : Schedulable(o)
    <3> TAKE o \in TasksOf(t, IdOf(applied[k]))
    <3>1. PICK j \in DOMAIN applied : applied[j] = o
      BY OfIsByPlace
    <3>2. Schedulable(o)'
      BY <2>2
    <3> QED
      BY <1>0, <1>1, <3>1, <3>2 DEF Schedulable, ByProps
  <2> QED
    BY <2>3 DEF RegisteredTaskRuns
<1>10. RemovalIsOfProps'
  BY <1>0, <1>1 DEF RemovalIsOfProps, ByProps
<1> QED
  BY <1>3, <1>4, <1>5, <1>6, <1>7, <1>8, <1>9, <1>10

LEMMA BuildStep ==
    ASSUME PluginsInv, ~Reuse, NEW b \in Builders,
           NEW p \in CommandChains \union TaskChains, BuildProps(b, p)
    PROVE  PluginsInv'
<1> USE DEF PluginsInv
<1>1. /\ b \notin built /\ props' = [props EXCEPT ![b] = p]
      /\ built' = IF Valid(p) THEN built \union {b} ELSE built
      /\ stashed' = stashed /\ applied' = applied /\ running' = running /\ todo' = todo
      /\ watched' = watched /\ commands' = commands /\ jobs' = jobs /\ removing' = removing
  BY DEF BuildProps
<1>2. p \in CommandProps \union TaskProps
  BY RegistrationAssumption
<1>3. \A c \in built : props'[c] = props[c]
  BY <1>1 DEF TypeOK
<1>4. built \subseteq built'
  BY <1>1
<1>5. TypeOK'
  BY <1>1, <1>2 DEF TypeOK
<1>6. BuiltIsValid'
  <2> SUFFICES ASSUME NEW c \in Builders PROVE c \in built' <=> Valid(props'[c])
    BY DEF BuiltIsValid, Valid, ValidCommand, ValidTask, IsCommand
  <2>1. CASE c = b
    BY <1>1, <2>1 DEF TypeOK
  <2>2. CASE c # b
    BY <1>1, <2>2 DEF TypeOK, BuiltIsValid
  <2> QED
    BY <2>1, <2>2
<1>7. StashedIsKnown'
  BY <1>1, <1>3, <1>4 DEF StashedIsKnown, Known, PropsKind, IsCommand, ByProps
<1>8. AppliedIsKnown'
  BY <1>1, <1>3, <1>4 DEF AppliedIsKnown, Known, PropsKind, IsCommand, ByProps
<1> QED
  BY <1>1, <1>3, <1>5, <1>6, <1>7, <1>8, PluginsStay

LEMMA RegisterStep ==
    ASSUME PluginsInv, NEW o \in Option \union PropsOption, Known(o), Register(o)
    PROVE  PluginsInv'
<1> USE DEF PluginsInv
<1>1. /\ Len(stashed) < MaxOptions /\ stashed' = Append(stashed, o)
      /\ props' = props /\ built' = built /\ applied' = applied /\ running' = running
      /\ todo' = todo /\ watched' = watched /\ commands' = commands /\ jobs' = jobs
      /\ removing' = removing
  BY DEF Register
<1>2. stashed \in Seq(Option \union PropsOption) /\ MaxOptions \in Nat
  BY RegistrationAssumption DEF TypeOK
<1>3. TypeOK'
  <2>1. stashed' \in Seq(Option \union PropsOption) /\ Len(stashed') <= MaxOptions
    BY <1>1, <1>2
  <2> QED
    BY <1>1, <2>1 DEF TypeOK
<1>4. StashedIsKnown'
  <2>1. \A k \in DOMAIN stashed' :
          \/ k \in DOMAIN stashed /\ stashed'[k] = stashed[k]
          \/ stashed'[k] = o
    BY <1>1, <1>2
  <2>2. \A k \in DOMAIN stashed' : Known(stashed'[k])
    BY <2>1 DEF StashedIsKnown
  <2> QED
    BY <1>1, <2>2 DEF StashedIsKnown, Known, PropsKind
<1>5. BuiltIsValid' /\ AppliedIsKnown'
  BY <1>1 DEF BuiltIsValid, AppliedIsKnown, Known, PropsKind, Valid
<1> QED
  BY <1>1, <1>3, <1>4, <1>5, PluginsStay

LEMMA RunStep ==
    ASSUME PluginsInv, Run
    PROVE  PluginsInv'
<1> USE DEF PluginsInv
<1>1. /\ running' = TRUE /\ props' = props /\ built' = built /\ stashed' = stashed
      /\ watched' = watched /\ commands' = commands /\ jobs' = jobs /\ removing' = removing
      /\ applied' = [i \in DOMAIN stashed |-> Applied(stashed[i])]
      /\ todo' = [t \in BotTypes |-> {i \in DOMAIN applied' :
                                       Filed(applied'[i], t) /\ t \in Served(applied')}]
      /\ applied = <<>>
  BY DEF Run, NothingBeforeRun
<1>2. stashed \in Seq(Option \union PropsOption)
  BY DEF TypeOK
<1>3. DOMAIN applied' = DOMAIN stashed /\ \A k \in DOMAIN stashed : applied'[k] = Applied(stashed[k])
  BY <1>1
<1>4. \A k \in DOMAIN stashed :
        /\ Applied(stashed[k]) \in AppliedOption
        /\ Known(Applied(stashed[k]))
        /\ ByProps(Applied(stashed[k])) =>
             Applied(stashed[k]).botType = props[Applied(stashed[k]).builder].botType
  <2> TAKE k \in DOMAIN stashed
  <2>1. stashed[k] \in Option \union PropsOption /\ Known(stashed[k])
    BY <1>2 DEF StashedIsKnown
  <2>2. CASE ByProps(stashed[k])
    <3>1. stashed[k].builder \in built /\ stashed[k].kind = PropsKind(stashed[k].builder)
      BY <2>1, <2>2 DEF Known
    <3>2. stashed[k].builder \in Builders /\ props[stashed[k].builder].botType \in BotTypes
      BY <3>1, BuiltProps
    <3>3. Applied(stashed[k]) = [kind |-> stashed[k].kind, builder |-> stashed[k].builder,
                                 botType |-> props[stashed[k].builder].botType]
      BY <2>2 DEF Applied
    <3> QED
      BY <2>2, <3>1, <3>2, <3>3 DEF AppliedOption, Known, ByProps
  <2>3. CASE ~ByProps(stashed[k])
    BY <2>1, <2>3 DEF Applied, AppliedOption, PropsOption, Known, ByProps
  <2> QED
    BY <2>2, <2>3
<1>5. applied' \in Seq(AppliedOption)
  <2>1. Len(stashed) \in Nat /\ DOMAIN stashed = 1 .. Len(stashed)
    BY <1>2
  <2> QED
    BY <1>1, <1>4, <2>1
<1>6. TypeOK'
  <2>1. todo' \in [BotTypes -> SUBSET DOMAIN applied']
    BY <1>1
  <2> QED
    BY <1>1, <1>5, <2>1 DEF TypeOK, AppliedOption
<1>7. AppliedIsKnown'
  <2>1. \A k \in DOMAIN applied' :
          /\ Known(applied'[k])
          /\ ByProps(applied'[k]) => applied'[k].botType = props[applied'[k].builder].botType
    BY <1>3, <1>4
  <2> QED
    BY <1>1, <2>1 DEF AppliedIsKnown, Known, PropsKind
<1>8. BuiltIsValid' /\ StashedIsKnown' /\ NothingBeforeRun'
  BY <1>1 DEF BuiltIsValid, StashedIsKnown, NothingBeforeRun, Known, PropsKind
<1>9. \A t \in BotTypes : \A k : ~Registered(t, k)'
  BY <1>1 DEF Registered, Filed, Served, Range
<1>10. PropsFirst' /\ RegisteredCommandIsThere' /\ OwnCommandIsLast' /\ RegisteredTaskRuns'
  BY <1>9 DEF PropsFirst, RegisteredCommandIsThere, OwnCommandIsLast, RegisteredTaskRuns
<1>11. TodoIsFiled'
  BY <1>1 DEF TodoIsFiled, Filed
<1>12. /\ \A t \in BotTypes : watched[t] = {}
       /\ \A t \in BotTypes, i \in Ids : commands[t][i] = Nobody /\ jobs[t][i].by = Nobody
  BY <1>1 DEF WatchedIsFiled, CommandIsOfTheBot, JobIsOfTheBot
<1>13. WatchedIsFiled' /\ CommandIsOfTheBot' /\ JobIsOfTheBot'
  BY <1>1, <1>12 DEF WatchedIsFiled, CommandIsOfTheBot, JobIsOfTheBot
<1>14. RemovalIsOfProps'
  BY <1>1 DEF RemovalIsOfProps
<1> QED
  BY <1>6, <1>7, <1>8, <1>10, <1>11, <1>13, <1>14

-----------------------------------------------------------------------------
(***************************************************************************)
(* Registration with the bots                                              *)
(***************************************************************************)

\* The schedule and the destination that a file and the props come to.
LEMMA JobOfProps ==
    ASSUME TypeOK, BuiltIsValid, NEW b \in built, ~IsCommand(props[b]), NEW read \in Reads
    PROVE  /\ Schedule(props[b], read) \in {Empty, Invalid, "props", "config"}
           /\ Destination(props[b], read) \in {Empty, "props", "config"}
<1>1. /\ read.schedule \in {Empty, Invalid, "config"}
      /\ read.destination \in {Empty, "config"}
  <2>1. CASE read \in Configured
    BY <2>1 DEF Configured
  <2>2. CASE read = ReadError
    BY <2>2 DEF ReadError
  <2> QED
    BY <2>1, <2>2 DEF Reads
<1>2. props[b] \in TaskProps
  BY BuiltProps
<1>3. /\ props[b].schedule \in {Empty, Invalid, "props"}
      /\ props[b].destination \in {Empty, "props"}
  BY <1>2 DEF TaskProps
<1> QED
  BY <1>1, <1>3 DEF Schedule, Destination

\* reg of a builder that is filed under the BotType t: it writes what it provides,
\* removes no command, and neither it nor a removal that it leaves behind concerns
\* an identifier that no props of tasks have.
LEMMA RegKeeps ==
    ASSUME PluginsInv, NEW t \in BotTypes, NEW k \in DOMAIN applied, NEW read \in Reads,
           ByProps(applied[k]), applied[k].botType = t,
           Reg(t, applied[k].builder, read), props' = props, applied' = applied
    PROVE  LET b == applied[k].builder
           IN  /\ commands' \in [BotTypes -> [Ids -> Providers]]
               /\ jobs' \in [BotTypes -> [Ids -> Job]]
               /\ CommandIsOfTheBot' /\ JobIsOfTheBot'
               /\ \A u \in BotTypes, i \in Ids :
                    \/ commands'[u][i] = commands[u][i]
                    \/ u = t /\ commands'[u][i] = b /\ IsCommand(props[b]) /\ b # Nobody
               /\ IsCommand(props[b]) /\ props[b].config = Empty
                    => commands'[t][props[b].id] # Nobody
               /\ \A u \in BotTypes, i \in Ids :
                    (\A o \in TasksOf(u, i) : Schedulable(o)) => jobs'[u][i] = jobs[u][i]
               /\ removing' \subseteq BotTypes \X Ids /\ RemovalIsOfProps'
<1> USE DEF PluginsInv
<1>1. PICK b \in built : b = applied[k].builder /\ applied[k].kind = PropsKind(b)
  BY DEF AppliedIsKnown, Known
<1>2. PICK i \in Ids : i = props[b].id
  BY BuiltProps
<1>3. b \in Builders /\ b \in Providers /\ b # Nobody /\ Nobody \in Providers
  BY BuiltProps, RegistrationAssumption DEF Providers, Nobody
<1>4. IdOf(applied[k]) = i /\ Provider(applied[k]) = b
  BY <1>1, <1>2 DEF IdOf, Provider
<1>5. \A u \in BotTypes, j \in Ids :
        (CommandsOf(u, j))' = CommandsOf(u, j) /\ (TasksOf(u, j))' = TasksOf(u, j)
  BY OptionsStay
<1>6. /\ commands \in [BotTypes -> [Ids -> Providers]]
      /\ jobs \in [BotTypes -> [Ids -> Job]]
      /\ removing \subseteq BotTypes \X Ids
  BY DEF TypeOK
<1>7. CASE IsCommand(props[b])
  <2>1. /\ jobs' = jobs /\ removing' = removing
        /\ commands' = IF ReadFails(props[b], read) THEN commands
                       ELSE [commands EXCEPT ![t][i] = b]
    BY <1>1, <1>2, <1>7 DEF Reg, RegCommand
  <2>2. commands' \in [BotTypes -> [Ids -> Providers]] /\ jobs' \in [BotTypes -> [Ids -> Job]]
    BY <1>3, <1>6, <2>1
  <2>3. applied[k] \in CommandsOf(t, i)
    BY <1>1, <1>4, <1>7, OfIsByPlace DEF PropsKind
  <2>4. \A u \in BotTypes, j \in Ids :
          commands'[u][j] = commands[u][j] \/ (u = t /\ j = i /\ commands'[u][j] = b)
    BY <1>6, <2>1
  <2>5. CommandIsOfTheBot'
    <3>1. \A u \in BotTypes, j \in Ids :
            commands'[u][j] # Nobody =>
              \E l \in DOMAIN applied :
                applied[l] \in CommandsOf(u, j) /\ Provider(applied[l]) = commands'[u][j]
      BY <1>4, <2>3, <2>4 DEF CommandIsOfTheBot
    <3> QED
      BY <1>5, <3>1 DEF CommandIsOfTheBot, Provider, ByProps
  <2>6. JobIsOfTheBot'
    BY <1>5, <2>1 DEF JobIsOfTheBot, Provider, ByProps
  <2>7. props[b].config = Empty => commands'[t][i] # Nobody
    BY <1>3, <1>6, <2>1 DEF ReadFails
  <2>8. removing' \subseteq BotTypes \X Ids /\ RemovalIsOfProps'
    BY <1>5, <1>6, <2>1 DEF RemovalIsOfProps, ByProps
  <2> QED
    BY <1>1, <1>2, <1>3, <1>7, <2>1, <2>2, <2>4, <2>5, <2>6, <2>7, <2>8
<1>8. CASE ~IsCommand(props[b])
  <2> DEFINE job == [by |-> b, schedule |-> Schedule(props[b], read),
                     destination |-> Destination(props[b], read)]
  <2>1. /\ commands' = commands
        /\ removing' = {} \/ removing' = {<<t, i>>}
        /\ \/ jobs' = jobs
           \/ jobs' = [jobs EXCEPT ![t][i] = NoJob]
           \/ /\ Schedule(props[b], read) \notin {Empty, Invalid}
              /\ jobs' = [jobs EXCEPT ![t][i] = job]
    BY <1>1, <1>2, <1>8 DEF Reg, RegTask
  <2>2. PICK v \in Job : /\ v.by # Nobody => v.by = b /\ v.schedule \notin {Empty, Invalid}
                         /\ jobs' = jobs \/ jobs' = [jobs EXCEPT ![t][i] = v]
    <3>1. NoJob \in Job /\ NoJob.by = Nobody
      BY DEF Job, NoJob, Providers
    <3>2. job \in Job /\ job.by = b /\ job.schedule = Schedule(props[b], read)
      BY <1>3, <1>8, JobOfProps DEF Job
    <3> QED
      BY <2>1, <3>1, <3>2
  <2>3. applied[k] \in TasksOf(t, i)
    BY <1>1, <1>4, <1>8, OfIsByPlace DEF PropsKind
  <2>4. jobs' \in [BotTypes -> [Ids -> Job]]
    <3>1. [jobs EXCEPT ![t][i] = v] \in [BotTypes -> [Ids -> Job]]
      BY <1>6
    <3> QED
      BY <1>6, <2>2, <3>1
  <2>5. commands' \in [BotTypes -> [Ids -> Providers]]
    BY <1>6, <2>1
  <2>6. \A u \in BotTypes, j \in Ids :
          jobs'[u][j] = jobs[u][j] \/ (u = t /\ j = i /\ jobs'[u][j] = v)
    BY <1>6, <2>2
  <2>7. \A u \in BotTypes, j \in Ids :
          (\A o \in TasksOf(u, j) : Schedulable(o)) => jobs'[u][j] = jobs[u][j]
    BY <2>3, <2>6 DEF Schedulable
  <2>8. CommandIsOfTheBot'
    BY <1>5, <2>1 DEF CommandIsOfTheBot, Provider, ByProps
  <2>9. JobIsOfTheBot'
    <3>1. \A u \in BotTypes, j \in Ids :
            jobs'[u][j].by # Nobody =>
              /\ \E l \in DOMAIN applied :
                   applied[l] \in TasksOf(u, j) /\ Provider(applied[l]) = jobs'[u][j].by
              /\ jobs'[u][j].schedule \notin {Empty, Invalid}
      BY <1>4, <2>2, <2>3, <2>6 DEF JobIsOfTheBot
    <3> QED
      BY <1>5, <3>1 DEF JobIsOfTheBot, Provider, ByProps
  <2>10. removing' \subseteq BotTypes \X Ids
    BY <2>1
  <2>11. RemovalIsOfProps'
    <3>1. \A u \in BotTypes, j \in Ids : <<u, j>> \in removing' => u = t /\ j = i
      BY <2>1
    <3> QED
      BY <1>5, <2>3, <3>1 DEF RemovalIsOfProps, ByProps
  <2> QED
    BY <1>1, <1>2, <1>8, <2>1, <2>4, <2>5, <2>7, <2>8, <2>9, <2>10, <2>11
<1> QED
  BY <1>7, <1>8

\* Where applied stays, the bot has come to one more place at most.
LEMMA StepPlaces ==
    ASSUME TypeOK, NEW t \in BotTypes, NEW i, applied' = applied,
           todo' = [todo EXCEPT ![t] = @ \ {i}]
    PROVE  /\ \A u \in BotTypes : todo'[u] \subseteq todo[u]
           /\ \A u \in BotTypes, k \in DOMAIN applied :
                Registered(u, k)' => Registered(u, k) \/ (u = t /\ k = i)
<1>1. todo \in [BotTypes -> SUBSET DOMAIN applied]
  BY DEF TypeOK
<1>2. \A u \in BotTypes : todo'[u] = IF u = t THEN todo[u] \ {i} ELSE todo[u]
  BY <1>1
<1> QED
  BY <1>2 DEF Registered, Filed, Served, Range

\* What the steps that touch commands and jobs leave alone.
LEMMA BotStepFrame ==
    ASSUME PluginsInv, UNCHANGED <<props, built, stashed, applied, running>>,
           todo' \in [BotTypes -> SUBSET DOMAIN applied],
           \A t \in BotTypes : todo'[t] \subseteq todo[t],
           watched' \in [BotTypes -> SUBSET Builders],
           commands' \in [BotTypes -> [Ids -> Providers]],
           jobs' \in [BotTypes -> [Ids -> Job]],
           removing' \subseteq BotTypes \X Ids
    PROVE  /\ TypeOK' /\ BuiltIsValid' /\ StashedIsKnown' /\ AppliedIsKnown'
           /\ NothingBeforeRun' /\ TodoIsFiled'
<1> USE DEF PluginsInv
<1>1. /\ props' = props /\ built' = built /\ stashed' = stashed /\ applied' = applied
      /\ running' = running
  OBVIOUS
<1>2. TypeOK'
  BY <1>1 DEF TypeOK
<1>3. BuiltIsValid' /\ StashedIsKnown' /\ AppliedIsKnown' /\ NothingBeforeRun'
  BY <1>1 DEF BuiltIsValid, StashedIsKnown, AppliedIsKnown, NothingBeforeRun,
              Known, PropsKind, ByProps
<1>4. TodoIsFiled'
  BY <1>1 DEF TodoIsFiled, Filed
<1> QED
  BY <1>2, <1>3, <1>4

LEMMA BotRegistersPropsStep ==
    ASSUME PluginsInv, NEW t \in BotTypes, NEW i \in todo[t], NEW read \in Reads,
           NEW watch \in BOOLEAN, BotRegistersProps(t, i, read, watch)
    PROVE  PluginsInv'
<1> USE DEF PluginsInv
<1>1. /\ props' = props /\ built' = built /\ stashed' = stashed /\ applied' = applied
      /\ running' = running /\ todo' = [todo EXCEPT ![t] = @ \ {i}]
      /\ ByProps(applied[i]) /\ Reg(t, applied[i].builder, read)
      /\ watched' = IF watch THEN [watched EXCEPT ![t] = @ \union {applied[i].builder}]
                             ELSE watched
  BY DEF BotRegistersProps
<1>2. i \in DOMAIN applied /\ applied[i].botType = t
  BY DEF TypeOK, TodoIsFiled, Filed
<1>3. PICK b \in built : b = applied[i].builder /\ applied[i].kind = PropsKind(b)
  BY <1>1, <1>2 DEF AppliedIsKnown, Known
<1>4. /\ commands' \in [BotTypes -> [Ids -> Providers]]
      /\ jobs' \in [BotTypes -> [Ids -> Job]]
      /\ CommandIsOfTheBot' /\ JobIsOfTheBot'
      /\ \A u \in BotTypes, j \in Ids :
           \/ commands'[u][j] = commands[u][j]
           \/ u = t /\ commands'[u][j] = b /\ IsCommand(props[b]) /\ b # Nobody
      /\ IsCommand(props[b]) /\ props[b].config = Empty
           => commands'[t][props[b].id] # Nobody
      /\ \A u \in BotTypes, j \in Ids :
           (\A o \in TasksOf(u, j) : Schedulable(o)) => jobs'[u][j] = jobs[u][j]
      /\ removing' \subseteq BotTypes \X Ids /\ RemovalIsOfProps'
  BY <1>1, <1>2, <1>3, RegKeeps
<1>5. /\ \A u \in BotTypes : todo'[u] \subseteq todo[u]
      /\ \A u \in BotTypes, k \in DOMAIN applied :
           Registered(u, k)' => Registered(u, k) \/ (u = t /\ k = i)
  BY <1>1, StepPlaces
<1>6. /\ watched' \in [BotTypes -> SUBSET Builders]
      /\ \A u \in BotTypes : watched[u] \subseteq watched'[u]
      /\ \A u \in BotTypes : \A c \in watched'[u] : c \in watched[u] \/ (u = t /\ c = b)
  <2>1. watched \in [BotTypes -> SUBSET Builders] /\ b \in Builders
    BY DEF TypeOK
  <2> QED
    BY <1>1, <1>3, <2>1
<1>7. todo' \in [BotTypes -> SUBSET DOMAIN applied]
  BY <1>1 DEF TypeOK
<1>8. /\ TypeOK' /\ BuiltIsValid' /\ StashedIsKnown' /\ AppliedIsKnown'
      /\ NothingBeforeRun' /\ TodoIsFiled'
  BY <1>1, <1>4, <1>5, <1>6, <1>7, BotStepFrame
<1>9. WatchedIsFiled'
  BY <1>1, <1>2, <1>3, <1>6 DEF WatchedIsFiled, ByProps
<1>10. applied[i].kind # "command"
  BY <1>1 DEF ByProps
<1>11. PropsFirst'
  BY <1>1, <1>5, <1>10 DEF PropsFirst
<1>12. /\ \A k \in DOMAIN applied :
            /\ (IdOf(applied[k]))' = IdOf(applied[k])
            /\ (NeedsRead(applied[k]))' = NeedsRead(applied[k])
       /\ \A k \in DOMAIN applied : IdOf(applied[k]) \in Ids
       /\ IdOf(applied[i]) = props[b].id
       /\ NeedsRead(applied[i]) <=> props[b].config # Empty
  BY <1>1, <1>3, OptionsStay, IdIsGiven DEF IdOf, NeedsRead
<1>13. RegisteredCommandIsThere'
  <2> SUFFICES ASSUME NEW u \in BotTypes, NEW k \in DOMAIN applied, Registered(u, k)',
                      applied[k].kind \in {"command", "commandProps"}, ~NeedsRead(applied[k])
               PROVE  commands'[u][IdOf(applied[k])] # Nobody
    BY <1>1, <1>12 DEF RegisteredCommandIsThere
  <2>1. CASE Registered(u, k)
    BY <1>4, <1>12, <2>1 DEF RegisteredCommandIsThere
  <2>2. CASE u = t /\ k = i
    BY <1>3, <1>4, <1>12, <2>2 DEF PropsKind
  <2> QED
    BY <1>5, <2>1, <2>2
<1>14. OwnCommandIsLast'
  <2> SUFFICES ASSUME NEW u \in BotTypes, NEW k \in DOMAIN applied, Registered(u, k)',
                      applied[k].kind = "command"
               PROVE  \/ commands'[u][applied[k].id] = "command"
                      \/ commands'[u][applied[k].id] \in watched'[u]
    BY <1>1 DEF OwnCommandIsLast
  <2>1. Registered(u, k)
    BY <1>5, <1>10
  <2>2. applied[k].id \in Ids
    BY AppliedShape, OptionShape DEF ByProps
  <2>3. u = t => ~IsCommand(props[b])
    BY <1>3, <2>1 DEF PropsFirst, PropsKind
  <2>4. commands'[u][applied[k].id] = commands[u][applied[k].id]
    BY <1>4, <2>2, <2>3
  <2> QED
    BY <1>6, <2>1, <2>4 DEF OwnCommandIsLast
<1>15. RegisteredTaskRuns'
  <2> SUFFICES ASSUME NEW u \in BotTypes, NEW k \in DOMAIN applied, Registered(u, k)',
                      applied[k].kind \in {"task", "taskProps"},
                      \A o \in TasksOf(u, IdOf(applied[k])) : Schedulable(o)
               PROVE  jobs'[u][IdOf(applied[k])].by # Nobody
    BY <1>1, <1>12 DEF RegisteredTaskRuns, TasksOf, For, IdOf, Schedulable, Range
  <2>1. CASE Registered(u, k)
    BY <1>4, <1>12, <2>1 DEF RegisteredTaskRuns
  <2>2. CASE u = t /\ k = i
    <3>1. applied[i] \in TasksOf(t, IdOf(applied[i]))
      BY <1>2, <2>2, OfIsByPlace
    <3> QED
      BY <1>1, <2>2, <3>1 DEF Schedulable
  <2> QED
    BY <1>5, <2>1, <2>2
<1> QED
  BY <1>4, <1>8, <1>9, <1>11, <1>13, <1>14, <1>15

\* A Command or a ScheduledTask of the developer's own provides itself.
LEMMA BotRegistersOwnStep ==
    ASSUME PluginsInv, NEW t \in BotTypes, NEW i \in todo[t], BotRegistersOwn(t, i)
    PROVE  PluginsInv'
<1> USE DEF PluginsInv
<1>1. PICK o \in AppliedOption : o = applied[i] /\ i \in DOMAIN applied
  BY AppliedShape DEF TypeOK
<1>2. /\ props' = props /\ built' = built /\ stashed' = stashed /\ applied' = applied
      /\ running' = running /\ watched' = watched /\ todo' = [todo EXCEPT ![t] = @ \ {i}]
      /\ ~ByProps(o) /\ IsNext(i, t) /\ removing' = removing
      /\ commands' = IF o.kind = "command"
                       THEN [commands EXCEPT ![t][o.id] = "command"] ELSE commands
      /\ jobs' = IF o.kind = "task" /\ o.schedule # Empty
                   THEN [jobs EXCEPT ![t][o.id] = OwnJob(o.schedule)] ELSE jobs
  BY <1>1 DEF BotRegistersOwn
<1>3. /\ o.id \in Ids /\ o.kind \in {"command", "task"} /\ o.botType = t
      /\ o.schedule \in {Empty, Invalid, "task"}
  BY <1>1, <1>2, OptionShape DEF TodoIsFiled, Filed
<1>4. IdOf(o) = o.id /\ Provider(o) = o.kind /\ (Schedulable(o) <=> o.schedule = "task")
  BY <1>2 DEF IdOf, Provider, Schedulable
<1>5. /\ commands \in [BotTypes -> [Ids -> Providers]]
      /\ jobs \in [BotTypes -> [Ids -> Job]]
  BY DEF TypeOK
<1>6. OwnJob(o.schedule) \in Job /\ "command" \in Providers
  BY DEF OwnJob, NoJob, Job, Providers
<1>7. /\ commands' \in [BotTypes -> [Ids -> Providers]]
      /\ jobs' \in [BotTypes -> [Ids -> Job]]
  BY <1>2, <1>3, <1>5, <1>6
<1>8. /\ \A u \in BotTypes, j \in Ids :
           commands'[u][j] = IF o.kind = "command" /\ u = t /\ j = o.id
                               THEN "command" ELSE commands[u][j]
      /\ \A u \in BotTypes, j \in Ids :
           jobs'[u][j] = IF o.kind = "task" /\ o.schedule # Empty /\ u = t /\ j = o.id
                           THEN OwnJob(o.schedule) ELSE jobs[u][j]
  BY <1>2, <1>3, <1>5
<1>9. /\ \A u \in BotTypes : todo'[u] \subseteq todo[u]
      /\ \A u \in BotTypes, k \in DOMAIN applied :
           Registered(u, k)' => Registered(u, k) \/ (u = t /\ k = i)
  BY <1>2, StepPlaces
<1>10. /\ todo' \in [BotTypes -> SUBSET DOMAIN applied]
       /\ watched' \in [BotTypes -> SUBSET Builders]
       /\ removing' \subseteq BotTypes \X Ids
  BY <1>2 DEF TypeOK
<1>11. /\ TypeOK' /\ BuiltIsValid' /\ StashedIsKnown' /\ AppliedIsKnown'
       /\ NothingBeforeRun' /\ TodoIsFiled'
  BY <1>2, <1>7, <1>9, <1>10, BotStepFrame
<1>12. WatchedIsFiled'
  BY <1>2 DEF WatchedIsFiled, ByProps
<1>13. PropsFirst'
  <2> SUFFICES ASSUME NEW u \in BotTypes, NEW k \in DOMAIN applied, NEW j \in todo'[u],
                      Registered(u, k)', applied[k].kind = "command"
               PROVE  applied[j].kind # "commandProps"
    BY <1>2 DEF PropsFirst
  <2>1. CASE Registered(u, k)
    BY <1>9, <2>1 DEF PropsFirst
  <2>2. CASE u = t /\ k = i
    <3>1. j \in todo[t] \ {i}
      BY <1>2, <2>2 DEF TypeOK
    <3>2. Before(i, j)
      BY <1>2, <3>1 DEF IsNext
    <3> QED
      BY <2>2, <3>2 DEF Before, Rank
  <2> QED
    BY <1>9, <2>1, <2>2
<1>14. /\ \A u \in BotTypes, j \in Ids :
            (CommandsOf(u, j))' = CommandsOf(u, j) /\ (TasksOf(u, j))' = TasksOf(u, j)
       /\ \A k \in DOMAIN applied :
            /\ (IdOf(applied[k]))' = IdOf(applied[k])
            /\ (NeedsRead(applied[k]))' = NeedsRead(applied[k])
            /\ IdOf(applied[k]) \in Ids
  BY <1>2, OptionsStay, IdIsGiven
<1>15. /\ o.kind = "command" => applied[i] \in CommandsOf(t, o.id)
       /\ o.kind = "task" => applied[i] \in TasksOf(t, o.id)
  BY <1>1, <1>3, <1>4, OfIsByPlace
<1>16. CommandIsOfTheBot'
  <2>1. \A u \in BotTypes, j \in Ids :
          commands'[u][j] # Nobody =>
            \E l \in DOMAIN applied :
              applied[l] \in CommandsOf(u, j) /\ Provider(applied[l]) = commands'[u][j]
    BY <1>1, <1>4, <1>8, <1>15 DEF CommandIsOfTheBot
  <2> QED
    BY <1>2, <1>14, <2>1 DEF CommandIsOfTheBot, Provider, ByProps
<1>17. JobIsOfTheBot'
  <2>1. OwnJob(o.schedule).by # Nobody =>
          OwnJob(o.schedule).by = "task" /\ OwnJob(o.schedule).schedule \notin {Empty, Invalid}
    BY DEF OwnJob, NoJob, Empty, Invalid
  <2>2. \A u \in BotTypes, j \in Ids :
          jobs'[u][j].by # Nobody =>
            /\ \E l \in DOMAIN applied :
                 applied[l] \in TasksOf(u, j) /\ Provider(applied[l]) = jobs'[u][j].by
            /\ jobs'[u][j].schedule \notin {Empty, Invalid}
    BY <1>1, <1>4, <1>8, <1>15, <2>1 DEF JobIsOfTheBot
  <2> QED
    BY <1>2, <1>14, <2>2 DEF JobIsOfTheBot, Provider, ByProps
<1>18. RegisteredCommandIsThere'
  <2> SUFFICES ASSUME NEW u \in BotTypes, NEW k \in DOMAIN applied, Registered(u, k)',
                      applied[k].kind \in {"command", "commandProps"}, ~NeedsRead(applied[k])
               PROVE  commands'[u][IdOf(applied[k])] # Nobody
    BY <1>2, <1>14 DEF RegisteredCommandIsThere
  <2>1. CASE Registered(u, k)
    BY <1>8, <1>14, <2>1 DEF RegisteredCommandIsThere, Nobody
  <2>2. CASE u = t /\ k = i
    BY <1>1, <1>3, <1>4, <1>8, <2>2 DEF Nobody
  <2> QED
    BY <1>9, <2>1, <2>2
<1>19. OwnCommandIsLast'
  <2> SUFFICES ASSUME NEW u \in BotTypes, NEW k \in DOMAIN applied, Registered(u, k)',
                      applied[k].kind = "command"
               PROVE  \/ commands'[u][applied[k].id] = "command"
                      \/ commands'[u][applied[k].id] \in watched[u]
    BY <1>2 DEF OwnCommandIsLast
  <2>1. applied[k].id \in Ids
    BY AppliedShape, OptionShape DEF ByProps
  <2>2. CASE Registered(u, k)
    BY <1>8, <2>1, <2>2 DEF OwnCommandIsLast
  <2>3. CASE u = t /\ k = i
    BY <1>1, <1>3, <1>8, <2>3
  <2> QED
    BY <1>9, <2>2, <2>3
<1>20. props' = props /\ applied' = applied
  BY <1>2
<1>21. RegisteredTaskRuns'
  <2> SUFFICES ASSUME NEW u \in BotTypes, NEW k \in DOMAIN applied, Registered(u, k)',
                      applied[k].kind \in {"task", "taskProps"},
                      \A r \in TasksOf(u, IdOf(applied[k])) : Schedulable(r)
               PROVE  jobs'[u][IdOf(applied[k])].by # Nobody
    BY <1>20 DEF RegisteredTaskRuns, TasksOf, For, IdOf, Schedulable, Range
  <2>1. u = t /\ o.kind = "task" /\ o.id = IdOf(applied[k]) => OwnJob(o.schedule).by # Nobody
    BY <1>1, <1>4, <1>15 DEF OwnJob, Invalid, Nobody
  <2>2. CASE Registered(u, k)
    BY <1>8, <1>14, <2>1, <2>2 DEF RegisteredTaskRuns
  <2>3. CASE u = t /\ k = i
    <3>1. o.kind = "task" /\ o.schedule # Empty
      BY <1>1, <1>3, <1>4, <1>15, <2>3 DEF Empty
    <3> QED
      BY <1>1, <1>3, <1>4, <1>8, <2>1, <2>3, <3>1
  <2> QED
    BY <1>9, <2>2, <2>3
<1>22. RemovalIsOfProps'
  BY <1>2, <1>14 DEF RemovalIsOfProps, ByProps
<1> QED
  BY <1>11, <1>12, <1>13, <1>16, <1>17, <1>18, <1>19, <1>21, <1>22

LEMMA ReloadStep ==
    ASSUME PluginsInv, NEW t \in BotTypes, NEW b \in Builders, NEW read \in Reads,
           Reload(t, b, read)
    PROVE  PluginsInv'
<1> USE DEF PluginsInv
<1>1. /\ props' = props /\ built' = built /\ stashed' = stashed /\ applied' = applied
      /\ running' = running /\ todo' = todo /\ watched' = watched
      /\ b \in watched[t] /\ Reg(t, b, read)
  BY DEF Reload
<1>2. PICK k \in DOMAIN applied :
        ByProps(applied[k]) /\ applied[k].builder = b /\ applied[k].botType = t
  BY <1>1 DEF WatchedIsFiled
<1>3. /\ commands' \in [BotTypes -> [Ids -> Providers]]
      /\ jobs' \in [BotTypes -> [Ids -> Job]]
      /\ CommandIsOfTheBot' /\ JobIsOfTheBot'
      /\ \A u \in BotTypes, j \in Ids :
           \/ commands'[u][j] = commands[u][j]
           \/ u = t /\ commands'[u][j] = b /\ b # Nobody
      /\ \A u \in BotTypes, j \in Ids :
           (\A o \in TasksOf(u, j) : Schedulable(o)) => jobs'[u][j] = jobs[u][j]
      /\ removing' \subseteq BotTypes \X Ids /\ RemovalIsOfProps'
  BY <1>1, <1>2, RegKeeps
<1>4. /\ TypeOK' /\ BuiltIsValid' /\ StashedIsKnown' /\ AppliedIsKnown'
      /\ NothingBeforeRun' /\ TodoIsFiled'
  <2>1. /\ todo' \in [BotTypes -> SUBSET DOMAIN applied]
        /\ \A u \in BotTypes : todo'[u] \subseteq todo[u]
        /\ watched' \in [BotTypes -> SUBSET Builders]
    BY <1>1 DEF TypeOK
  <2> QED
    BY <1>1, <1>3, <2>1, BotStepFrame
<1>5. \A u \in BotTypes, l \in DOMAIN applied : Registered(u, l)' <=> Registered(u, l)
  BY <1>1 DEF Registered, Filed, Served, Range
<1>6. WatchedIsFiled' /\ PropsFirst'
  BY <1>1, <1>5 DEF WatchedIsFiled, PropsFirst, ByProps
<1>7. \A l \in DOMAIN applied :
        /\ (IdOf(applied[l]))' = IdOf(applied[l])
        /\ (NeedsRead(applied[l]))' = NeedsRead(applied[l])
        /\ IdOf(applied[l]) \in Ids
  BY <1>1, OptionsStay, IdIsGiven
<1>8. RegisteredCommandIsThere'
  BY <1>1, <1>3, <1>5, <1>7 DEF RegisteredCommandIsThere
<1>9. OwnCommandIsLast'
  <2> SUFFICES ASSUME NEW u \in BotTypes, NEW l \in DOMAIN applied, Registered(u, l),
                      applied[l].kind = "command"
               PROVE  \/ commands'[u][applied[l].id] = "command"
                      \/ commands'[u][applied[l].id] \in watched[u]
    BY <1>1, <1>5 DEF OwnCommandIsLast
  <2>1. applied[l].id \in Ids
    BY AppliedShape, OptionShape DEF ByProps
  <2> QED
    BY <1>1, <1>3, <2>1 DEF OwnCommandIsLast
<1>10. RegisteredTaskRuns'
  <2> SUFFICES ASSUME NEW u \in BotTypes, NEW l \in DOMAIN applied, Registered(u, l),
                      applied[l].kind \in {"task", "taskProps"},
                      \A o \in TasksOf(u, IdOf(applied[l])) : Schedulable(o)
               PROVE  jobs'[u][IdOf(applied[l])].by # Nobody
    BY <1>1, <1>5, <1>7 DEF RegisteredTaskRuns, TasksOf, For, IdOf, Schedulable, Range
  <2> QED
    BY <1>3, <1>7 DEF RegisteredTaskRuns
<1> QED
  BY <1>3, <1>4, <1>6, <1>8, <1>9, <1>10

\* A removal that is received late takes away a task with an identifier that some
\* props have.
LEMMA ReceiveRemovalStep ==
    ASSUME PluginsInv, NEW t \in BotTypes, NEW i \in Ids, ReceiveRemoval(t, i)
    PROVE  PluginsInv'
<1> USE DEF PluginsInv
<1>1. /\ props' = props /\ built' = built /\ stashed' = stashed /\ applied' = applied
      /\ running' = running /\ todo' = todo /\ watched' = watched /\ commands' = commands
      /\ <<t, i>> \in removing /\ removing' = removing \ {<<t, i>>}
      /\ jobs' = [jobs EXCEPT ![t][i] = NoJob]
  BY DEF ReceiveRemoval
<1>2. PICK k \in DOMAIN applied : ByProps(applied[k]) /\ applied[k] \in TasksOf(t, i)
  BY <1>1 DEF RemovalIsOfProps
<1>3. jobs \in [BotTypes -> [Ids -> Job]] /\ NoJob \in Job /\ NoJob.by = Nobody
  BY DEF TypeOK, Job, NoJob, Providers
<1>4. /\ jobs' \in [BotTypes -> [Ids -> Job]]
      /\ \A u \in BotTypes, j \in Ids :
           jobs'[u][j] = IF u = t /\ j = i THEN NoJob ELSE jobs[u][j]
  BY <1>1, <1>3
<1>5. /\ TypeOK' /\ BuiltIsValid' /\ StashedIsKnown' /\ AppliedIsKnown'
      /\ NothingBeforeRun' /\ TodoIsFiled'
  <2>1. /\ todo' \in [BotTypes -> SUBSET DOMAIN applied]
        /\ \A u \in BotTypes : todo'[u] \subseteq todo[u]
        /\ watched' \in [BotTypes -> SUBSET Builders]
        /\ commands' \in [BotTypes -> [Ids -> Providers]]
        /\ removing' \subseteq BotTypes \X Ids
    BY <1>1 DEF TypeOK
  <2> QED
    BY <1>1, <1>4, <2>1, BotStepFrame
<1>6. /\ \A u \in BotTypes, l \in DOMAIN applied : Registered(u, l)' <=> Registered(u, l)
      /\ \A l \in DOMAIN applied :
           /\ (IdOf(applied[l]))' = IdOf(applied[l])
           /\ (NeedsRead(applied[l]))' = NeedsRead(applied[l])
           /\ IdOf(applied[l]) \in Ids
      /\ \A u \in BotTypes, j \in Ids :
           (CommandsOf(u, j))' = CommandsOf(u, j) /\ (TasksOf(u, j))' = TasksOf(u, j)
  <2>1. \A u \in BotTypes, l \in DOMAIN applied : Registered(u, l)' <=> Registered(u, l)
    BY <1>1 DEF Registered, Filed, Served, Range
  <2> QED
    BY <1>1, <2>1, OptionsStay, IdIsGiven
<1>7. WatchedIsFiled' /\ PropsFirst' /\ OwnCommandIsLast'
  BY <1>1, <1>6 DEF WatchedIsFiled, PropsFirst, OwnCommandIsLast, ByProps
<1>8. CommandIsOfTheBot' /\ RegisteredCommandIsThere'
  BY <1>1, <1>6 DEF CommandIsOfTheBot, RegisteredCommandIsThere, Provider, ByProps
<1>9. JobIsOfTheBot'
  <2>1. \A u \in BotTypes, j \in Ids :
          jobs'[u][j].by # Nobody => jobs'[u][j] = jobs[u][j]
    BY <1>3, <1>4
  <2> QED
    BY <1>1, <1>6, <2>1 DEF JobIsOfTheBot, Provider, ByProps
<1>10. RegisteredTaskRuns'
  <2> SUFFICES ASSUME NEW u \in BotTypes, NEW l \in DOMAIN applied, Registered(u, l),
                      applied[l].kind \in {"task", "taskProps"},
                      \A o \in TasksOf(u, IdOf(applied[l])) : Schedulable(o)
               PROVE  jobs'[u][IdOf(applied[l])].by # Nobody
    <3>1. props' = props /\ applied' = applied
      BY <1>1
    <3> QED
      BY <1>6, <3>1 DEF RegisteredTaskRuns, TasksOf, For, IdOf, Schedulable, Range
  <2>1. ~(u = t /\ IdOf(applied[l]) = i)
    BY <1>2 DEF Schedulable
  <2> QED
    BY <1>4, <1>6, <2>1 DEF RegisteredTaskRuns
<1>11. RemovalIsOfProps'
  BY <1>1, <1>6 DEF RemovalIsOfProps, ByProps
<1> QED
  BY <1>5, <1>7, <1>8, <1>9, <1>10, <1>11

-----------------------------------------------------------------------------
(***************************************************************************)
(* The theorems                                                            *)
(***************************************************************************)
LEMMA PluginsInit ==
    ASSUME Init
    PROVE  PluginsInv
<1>1. /\ props \in [Builders -> {NewCommandProps, NewTaskProps}]
      /\ built = {} /\ stashed = <<>> /\ applied = <<>> /\ running = FALSE
      /\ todo = [t \in BotTypes |-> {}] /\ watched = [t \in BotTypes |-> {}]
      /\ commands = [t \in BotTypes |-> [i \in Ids |-> Nobody]]
      /\ jobs = [t \in BotTypes |-> [i \in Ids |-> NoJob]] /\ removing = {}
  BY DEF Init
<1>2. NewCommandProps \in CommandProps /\ ~Valid(NewCommandProps)
  BY DEF NewCommandProps, CommandProps, Configs, Funcs, Valid, ValidCommand, IsCommand
<1>3. NewTaskProps \in TaskProps /\ ~Valid(NewTaskProps)
  BY DEF NewTaskProps, TaskProps, Configs, Funcs, Valid, ValidTask, IsCommand
<1>4. TypeOK
  <2>1. props \in [Builders -> CommandProps \union TaskProps]
    BY <1>1, <1>2, <1>3
  <2>2. Len(stashed) <= MaxOptions
    BY <1>1, RegistrationAssumption
  <2>3. NoJob \in Job /\ Nobody \in Providers
    BY DEF NoJob, Job, Providers
  <2>4. /\ stashed \in Seq(Option \union PropsOption)
        /\ applied \in Seq(AppliedOption)
    BY <1>1
  <2>5. /\ commands \in [BotTypes -> [Ids -> Providers]]
        /\ jobs \in [BotTypes -> [Ids -> Job]]
    BY <1>1, <2>3
  <2>6. /\ todo \in [BotTypes -> SUBSET DOMAIN applied]
        /\ watched \in [BotTypes -> SUBSET Builders]
    BY <1>1
  <2>7. built \subseteq Builders /\ running \in BOOLEAN /\ removing \subseteq BotTypes \X Ids
    BY <1>1
  <2> QED
    BY <2>1, <2>2, <2>4, <2>5, <2>6, <2>7 DEF TypeOK, AppliedOption
<1>5. BuiltIsValid
  BY <1>1, <1>2, <1>3 DEF BuiltIsValid
<1>6. DOMAIN stashed = {} /\ DOMAIN applied = {}
  BY <1>1
<1>7. /\ StashedIsKnown /\ AppliedIsKnown /\ NothingBeforeRun /\ PropsFirst
      /\ RegisteredCommandIsThere /\ OwnCommandIsLast /\ RegisteredTaskRuns
  BY <1>1, <1>6 DEF StashedIsKnown, AppliedIsKnown, NothingBeforeRun, PropsFirst,
                    RegisteredCommandIsThere, OwnCommandIsLast, RegisteredTaskRuns
<1>8. /\ TodoIsFiled /\ WatchedIsFiled /\ CommandIsOfTheBot /\ JobIsOfTheBot
      /\ RemovalIsOfProps
  BY <1>1 DEF TodoIsFiled, WatchedIsFiled, CommandIsOfTheBot, JobIsOfTheBot, NoJob,
              RemovalIsOfProps
<1> QED
  BY <1>4, <1>5, <1>7, <1>8 DEF PluginsInv

LEMMA PluginsNext ==
    ASSUME PluginsInv, ~Reuse, [Next]_vars
    PROVE  PluginsInv'
<1>1. CASE UNCHANGED vars
  <2>1. /\ props' = props /\ built' = built /\ stashed' = stashed /\ applied' = applied
        /\ running' = running /\ todo' = todo /\ watched' = watched
        /\ commands' = commands /\ jobs' = jobs /\ removing' = removing
    BY <1>1 DEF vars
  <2>2. TypeOK' /\ BuiltIsValid' /\ StashedIsKnown' /\ AppliedIsKnown'
    BY <2>1 DEF PluginsInv, TypeOK, BuiltIsValid, StashedIsKnown, AppliedIsKnown,
                Known, PropsKind, ByProps
  <2> QED
    BY <2>1, <2>2, PluginsStay DEF PluginsInv
<1>2. ASSUME NEW b \in Builders, NEW p \in CommandChains \union TaskChains, BuildProps(b, p)
      PROVE  PluginsInv'
  BY <1>2, BuildStep
<1>3. ASSUME NEW option \in Options, Register(option)
      PROVE  PluginsInv'
  <2>1. option \in Option /\ ~ByProps(option)
    BY RegistrationAssumption DEF Option, ByProps
  <2> QED
    BY <1>3, <2>1, RegisterStep DEF Known
<1>4. ASSUME NEW b \in Builders, RegisterProps(b)
      PROVE  PluginsInv'
  <2>1. PICK o : o = [kind |-> PropsKind(b), builder |-> b]
    OBVIOUS
  <2>2. o \in PropsOption /\ Known(o)
    BY <1>4, <2>1 DEF RegisterProps, PropsOption, PropsKind, Known
  <2>3. Register(o)
    BY <1>4, <2>1 DEF RegisterProps
  <2> QED
    BY <2>2, <2>3, RegisterStep
<1>5. CASE Run
  BY <1>5, RunStep
<1>6. ASSUME NEW t \in BotTypes, NEW i \in todo[t], NEW read \in Reads, NEW watch \in BOOLEAN,
             BotRegistersProps(t, i, read, watch)
      PROVE  PluginsInv'
  BY <1>6, BotRegistersPropsStep
<1>7. ASSUME NEW t \in BotTypes, NEW i \in todo[t], BotRegistersOwn(t, i)
      PROVE  PluginsInv'
  BY <1>7, BotRegistersOwnStep
<1>8. ASSUME NEW t \in BotTypes, NEW b \in Builders, NEW read \in Reads, Reload(t, b, read)
      PROVE  PluginsInv'
  BY <1>8, ReloadStep
<1>9. ASSUME NEW t \in BotTypes, NEW i \in Ids, ReceiveRemoval(t, i)
      PROVE  PluginsInv'
  BY <1>9, ReceiveRemovalStep
<1> QED
  BY <1>1, <1>2, <1>3, <1>4, <1>5, <1>6, <1>7, <1>8, <1>9 DEF Next

\* The strengthening is an invariant of Registration if no builder is used again
\* after Build: CommandPropsBuilder.Build returns the props that the builder works
\* on, and RegistrationReuse is a behaviour in which they change after Register*.
THEOREM PluginsInvariant ==
    ASSUME ~Reuse
    PROVE  Spec => []PluginsInv
<1>1. Init => PluginsInv
  BY PluginsInit
<1>2. PluginsInv /\ [Next]_vars => PluginsInv'
  BY PluginsNext
<1> QED
  BY <1>1, <1>2, PTL DEF Spec

\* The options that newRunner applies name existing bots and identifiers, and
\* runBot comes only to places that were applied: the types are kept.
THEOREM RegistrationTypeCorrect ==
    ASSUME ~Reuse
    PROVE  Spec => []TypeOK
<1>1. PluginsInv => TypeOK
  BY DEF PluginsInv
<1> QED
  BY <1>1, PluginsInvariant, PTL

\* A bot has the commands that were registered for its BotType before Run and no
\* other ones; those that no file can spoil are there when registerCommands is
\* done, and the developer's own come last unless a changed file replaces them.
THEOREM BotHasItsCommands ==
    ASSUME ~Reuse
    PROVE  Spec => []BotServesItsCommands
<1>1. PluginsInv => BotServesItsCommands
  <2> SUFFICES ASSUME PluginsInv, NEW t \in BotTypes, NEW i \in Ids
               PROVE  /\ commands[t][i] # Nobody =>
                           \E o \in CommandsOf(t, i) : Provider(o) = commands[t][i]
                      /\ Ready(t) /\ (\E o \in CommandsOf(t, i) : ~NeedsRead(o))
                           => commands[t][i] # Nobody
                      /\ Ready(t) /\ (\E o \in CommandsOf(t, i) : ~ByProps(o))
                           => commands[t][i] = "command" \/ commands[t][i] \in watched[t]
    BY DEF BotServesItsCommands
  <2> USE DEF PluginsInv
  <2>1. commands[t][i] # Nobody => \E o \in CommandsOf(t, i) : Provider(o) = commands[t][i]
    BY DEF CommandIsOfTheBot
  <2>2. ASSUME Ready(t), NEW o \in CommandsOf(t, i)
        PROVE  \E k \in DOMAIN applied :
                 applied[k] = o /\ Registered(t, k) /\ IdOf(applied[k]) = i
                   /\ applied[k].kind \in {"command", "commandProps"}
    <3>1. PICK k \in DOMAIN applied : applied[k] = o
      BY OfIsByPlace
    <3>2. /\ applied[k].kind \in {"command", "commandProps"}
          /\ applied[k].botType = t /\ IdOf(applied[k]) = i
      BY <3>1, OfIsByPlace
    <3> QED
      BY <2>2, <3>1, <3>2 DEF Ready, Registered, Filed
  <2>3. Ready(t) /\ (\E o \in CommandsOf(t, i) : ~NeedsRead(o)) => commands[t][i] # Nobody
    BY <2>2 DEF RegisteredCommandIsThere
  <2>4. ASSUME Ready(t), NEW o \in CommandsOf(t, i), ~ByProps(o)
        PROVE  commands[t][i] = "command" \/ commands[t][i] \in watched[t]
    <3>1. PICK k \in DOMAIN applied :
            applied[k] = o /\ Registered(t, k) /\ IdOf(applied[k]) = i
              /\ applied[k].kind \in {"command", "commandProps"}
      BY <2>2, <2>4
    <3>2. applied[k].kind = "command" /\ applied[k].id = i
      BY <2>4, <3>1 DEF ByProps, IdOf
    <3> QED
      BY <3>1, <3>2 DEF OwnCommandIsLast
  <2> QED
    BY <2>1, <2>3, <2>4
<1> QED
  BY <1>1, PluginsInvariant, PTL

\* The same for tasks: what registerScheduledTasks hands to cron was registered for
\* the bot and has a schedule, and a task of the developer's own is scheduled and
\* stays so, whichever removal is received late, unless props have its identifier.
THEOREM BotHasItsTasks ==
    ASSUME ~Reuse
    PROVE  Spec => []BotRunsItsTasks
<1>1. PluginsInv => BotRunsItsTasks
  <2> SUFFICES ASSUME PluginsInv, NEW t \in BotTypes, NEW i \in Ids
               PROVE  /\ jobs[t][i].by # Nobody =>
                           /\ \E o \in TasksOf(t, i) : Provider(o) = jobs[t][i].by
                           /\ jobs[t][i].schedule \notin {Empty, Invalid}
                      /\ /\ Ready(t) /\ TasksOf(t, i) # {}
                         /\ \A o \in TasksOf(t, i) : Schedulable(o)
                         => jobs[t][i].by # Nobody
    BY DEF BotRunsItsTasks
  <2> USE DEF PluginsInv
  <2>1. jobs[t][i].by # Nobody =>
          /\ \E o \in TasksOf(t, i) : Provider(o) = jobs[t][i].by
          /\ jobs[t][i].schedule \notin {Empty, Invalid}
    BY DEF JobIsOfTheBot
  <2>2. ASSUME Ready(t), NEW o \in TasksOf(t, i), \A r \in TasksOf(t, i) : Schedulable(r)
        PROVE  jobs[t][i].by # Nobody
    <3>1. PICK k \in DOMAIN applied : applied[k] = o
      BY OfIsByPlace
    <3>2. /\ applied[k].kind \in {"task", "taskProps"}
          /\ applied[k].botType = t /\ IdOf(applied[k]) = i
      BY <3>1, OfIsByPlace
    <3>3. Registered(t, k)
      BY <2>2, <3>1, <3>2 DEF Ready, Registered, Filed
    <3> QED
      BY <2>2, <3>2, <3>3 DEF RegisteredTaskRuns
  <2> QED
    BY <2>1, <2>2
<1> QED
  BY <1>1, PluginsInvariant, PTL

\* ScheduledTaskPropsBuilder.Build refuses for their schedule the props for which
\* no configuration file could give one, and no other ones.
THEOREM BuildRefusesTheHopeless ==
    ASSUME ~Reuse
    PROVE  Spec => []ValidationIsTight
<1>1. PluginsInv => ValidationIsTight
  <2> SUFFICES ASSUME PluginsInv, NEW b \in Builders, NEW p, p = props[b], ~IsCommand(p),
                      Empty \notin {p.botType, p.id, p.func}
               PROVE  b \in built <=> \E read \in Configured : Schedule(p, read) # Empty
    BY DEF ValidationIsTight
  <2>1. b \in built <=> ValidTask(p)
    BY DEF PluginsInv, BuiltIsValid, Valid
  <2>2. ASSUME ValidTask(p) PROVE \E read \in Configured : Schedule(p, read) # Empty
    <3>1. PICK read : read = [fails |-> FALSE, schedule |-> "config", destination |-> Empty]
      OBVIOUS
    <3>2. read \in Configured /\ read.schedule # Empty
      BY <3>1 DEF Configured, Empty
    <3>3. Schedule(p, read) # Empty
      BY <2>2, <3>2 DEF Schedule, ValidTask
    <3> QED
      BY <3>2, <3>3
  <2>3. ASSUME NEW read \in Configured, Schedule(p, read) # Empty PROVE ValidTask(p)
    BY <2>3 DEF Schedule, ValidTask, Empty
  <2> QED
    BY <2>1, <2>2, <2>3
<1> QED
  BY <1>1, PluginsInvariant, PTL
=============================================================================
