---------------------------- MODULE Registration ----------------------------
(***************************************************************************)
(* How a developer's plugins come to a bot: CommandPropsBuilder            *)
(* (command.go) and ScheduledTaskPropsBuilder (task.go), the options that  *)
(* Register* stashes and newRunner applies, and the registration of        *)
(* commands and tasks with each bot by runBot (runner.go), while callbacks *)
(* of the ConfigWatcher build them again. A bot is known by its BotType,   *)
(* and the commands and the scheduled tasks are maps by identifier:        *)
(* LiveConfig and Scheduler model how they are kept. Removals of tasks     *)
(* have a channel of their own and may be late.                            *)
(***************************************************************************)
EXTENDS Naturals, Sequences, SequencesExt

CONSTANTS
    BotTypes, Ids,   \* the BotTypes and identifiers that are not empty
    CommandChains,   \* the fields that chains of setters of a CommandPropsBuilder give
    TaskChains,      \* the same for a ScheduledTaskPropsBuilder
    Builders,        \* the builders: commands' and tasks' builders are told by kind
    Options,         \* the other options that may be registered
    MaxOptions,      \* bound: options that are registered
    Reuse            \* TRUE: a builder is used again after Build

Empty   == "empty"     \* the empty string, a nil function, config or destination
Invalid == "invalid"   \* a schedule that cron does not parse

\* A config that implements neither interface, or ScheduledConfig and
\* DestinatedConfig both.
Configs == {Empty, "plain", "scheduling"}

\* How a function was given: not at all, with Func, or with ConfigurableFunc.
Funcs == {Empty, "func", "configurable"}

CommandProps == [botType : BotTypes \union {Empty}, id : Ids \union {Empty},
                 config : Configs, func : Funcs,
                 match : {Empty, "given"}, instruction : {Empty, "given"}]

TaskProps == [botType : BotTypes \union {Empty}, id : Ids \union {Empty},
              config : Configs, func : Funcs,
              schedule : {Empty, Invalid, "props"}, destination : {Empty, "props"}]

\* Func resets the config, and without either setter there is none.
SetBySetters(p) == p.func # "configurable" => p.config = Empty

\* A bot, a Command or a ScheduledTask of the developer's own, or props, by the
\* builder that they came from.
Option == [kind : {"bot", "command", "task"}, botType : BotTypes, id : Ids,
           schedule : {Empty, Invalid, "task"}]
PropsOption == [kind : {"commandProps", "taskProps"}, builder : Builders]

ByProps(o) == o.kind \in {"commandProps", "taskProps"}

ASSUME RegistrationAssumption ==
    /\ Empty \notin BotTypes \union Ids
    /\ CommandChains \subseteq CommandProps /\ TaskChains \subseteq TaskProps
    /\ \A p \in CommandChains \union TaskChains : SetBySetters(p)
    /\ Options \subseteq Option
    /\ MaxOptions \in Nat
    /\ Reuse \in BOOLEAN
    /\ Builders \intersect {"nobody", "command", "task"} = {}

VARIABLES
    props,      \* the props of each builder, to which it and Build's callers point
    built,      \* builders that returned their props
    stashed,    \* optionHolder.stashed
    applied,    \* what newRunner took from it, <<>> before Run
    running,    \* Run was called
    todo,       \* what runBot has yet to register with each bot: places in applied
    watched,    \* builders whose props have a callback with the ConfigWatcher, per type
    commands,   \* Commands.collection of each bot as a map: who provides an id
    jobs,       \* the scheduled task of each bot and id
    removing    \* the removal in the channel removingTask, which has room for one

vars == <<props, built, stashed, applied, running, todo, watched, commands, jobs,
          removing>>

\* Who provides a command or a task: an option's kind, or the builder.
Nobody == "nobody"
Providers == {Nobody, "command", "task"} \union Builders

Job == [by : Providers, schedule : {Empty, Invalid, "props", "config", "task"},
        destination : {Empty, "props", "config", "task"}]
NoJob == [by |-> Nobody, schedule |-> Empty, destination |-> Empty]

TypeOK ==
    /\ props \in [Builders -> CommandProps \union TaskProps]
    /\ built \subseteq Builders
    /\ stashed \in Seq(Option \union PropsOption) /\ Len(stashed) <= MaxOptions
    /\ applied \in Seq(Option \union [kind : {"commandProps", "taskProps"},
                                      builder : Builders, botType : BotTypes])
    /\ running \in BOOLEAN
    /\ todo \in [BotTypes -> SUBSET DOMAIN applied]
    /\ watched \in [BotTypes -> SUBSET Builders]
    /\ commands \in [BotTypes -> [Ids -> Providers]]
    /\ jobs \in [BotTypes -> [Ids -> Job]]
    /\ removing \subseteq BotTypes \X Ids

NewCommandProps == [botType |-> Empty, id |-> Empty, config |-> Empty, func |-> Empty,
                    match |-> Empty, instruction |-> Empty]
NewTaskProps    == [botType |-> Empty, id |-> Empty, config |-> Empty, func |-> Empty,
                    schedule |-> Empty, destination |-> Empty]

IsCommand(p) == "match" \in DOMAIN p

Init ==
    /\ props \in [Builders -> {NewCommandProps, NewTaskProps}]
    /\ built = {} /\ stashed = <<>> /\ applied = <<>> /\ running = FALSE
    /\ todo = [t \in BotTypes |-> {}]
    /\ watched = [t \in BotTypes |-> {}]
    /\ commands = [t \in BotTypes |-> [i \in Ids |-> Nobody]]
    /\ jobs = [t \in BotTypes |-> [i \in Ids |-> NoJob]]
    /\ removing = {}

-----------------------------------------------------------------------------
(***************************************************************************)
(* The builders                                                            *)
(***************************************************************************)

\* Build of CommandPropsBuilder
ValidCommand(p) ==
    Empty \notin {p.botType, p.id, p.instruction, p.match, p.func}

\* Mutant of ValidTask: a config is taken for one that has a schedule.
ValidTaskAnyConfig(p) ==
    /\ Empty \notin {p.botType, p.id, p.func}
    /\ p.config = Empty => p.schedule # Empty

\* Build of ScheduledTaskPropsBuilder: without a schedule in the props, the
\* config has to be able to give one.
ValidTask(p) ==
    /\ Empty \notin {p.botType, p.id, p.func}
    /\ p.config = Empty => p.schedule # Empty
    /\ p.config # Empty /\ p.config # "scheduling" => p.schedule # Empty

Valid(p) == IF IsCommand(p) THEN ValidCommand(p) ELSE ValidTask(p)

\* A chain of setters and Build, or MustBuild, which panics where Build fails.
\* Build returns the very props that the setters work on.
BuildProps(b, p) ==
    /\ b \in built => Reuse
    /\ props[b].func # Empty => p.func # Empty
    /\ IsCommand(p) <=> IsCommand(props[b])
    /\ props' = [props EXCEPT ![b] = p]
    /\ built' = IF Valid(p) THEN built \union {b} ELSE built
    /\ UNCHANGED <<stashed, applied, running, todo, watched, commands, jobs, removing>>

-----------------------------------------------------------------------------
(***************************************************************************)
(* Register* and Run                                                       *)
(***************************************************************************)
Register(option) ==
    /\ Len(stashed) < MaxOptions
    /\ stashed' = Append(stashed, option)
    /\ UNCHANGED <<props, built, applied, running, todo, watched, commands, jobs,
                   removing>>

PropsKind(b) == IF IsCommand(props[b]) THEN "commandProps" ELSE "taskProps"

RegisterProps(b) ==
    /\ b \in built
    /\ Register([kind |-> PropsKind(b), builder |-> b])

\* What the function that an option is does to the runner: props are filed under
\* the BotType that they have by now.
Applied(option) ==
    IF ByProps(option)
      THEN [kind |-> option.kind, builder |-> option.builder,
            botType |-> props[option.builder].botType]
      ELSE option

\* Mutant of Filed: the BotType is not looked at.
FiledAnywhere(o, t) == o.kind # "bot"

\* botCommandProps, botCommands, botScheduledTaskProps, botScheduledTasks
Filed(o, t) == o.kind # "bot" /\ o.botType = t

\* Mutant of Rank: commands and tasks that need no props come first.
RankPlainFirst(kind) ==
    CASE kind = "command" -> 1 [] kind = "commandProps" -> 2
      [] kind = "task" -> 3    [] kind = "taskProps" -> 4

\* registerCommands and then registerScheduledTasks go through the props first.
Rank(kind) ==
    CASE kind = "commandProps" -> 1 [] kind = "command" -> 2
      [] kind = "taskProps" -> 3    [] kind = "task" -> 4

\* runBot comes to place i before it comes to place j of what was applied.
Before(i, j) ==
    \/ Rank(applied[i].kind) < Rank(applied[j].kind)
    \/ Rank(applied[i].kind) = Rank(applied[j].kind) /\ i < j

IsNext(i, t) == i \in todo[t] /\ \A j \in todo[t] \ {i} : Before(i, j)

\* The BotTypes that a bot was registered for.
Served(options) == {o.botType : o \in {r \in Range(options) : r.kind = "bot"}}

\* newRunner applies what is stashed under the lock of the optionHolder, and run
\* starts a goroutine for each bot. What is registered later is not looked at.
Run ==
    /\ ~running
    /\ running' = TRUE
    /\ applied' = [i \in DOMAIN stashed |-> Applied(stashed[i])]
    /\ todo' = [t \in BotTypes |->
                  {i \in DOMAIN applied' : Filed(applied'[i], t) /\ t \in Served(applied')}]
    /\ UNCHANGED <<props, built, stashed, watched, commands, jobs, removing>>

-----------------------------------------------------------------------------
(***************************************************************************)
(* buildCommand and buildScheduledTask. What ConfigWatcher.Read comes to:  *)
(* an error, or a config, with the values of the props where there is no   *)
(* file, whose schedule and destination may be empty.                      *)
(***************************************************************************)
Configured == [fails : {FALSE}, schedule : {Empty, Invalid, "config"},
               destination : {Empty, "config"}]
ReadError  == [fails |-> TRUE, schedule |-> Empty, destination |-> Empty]
Reads      == Configured \union {ReadError}

\* Without a config nothing is read.
ReadFails(p, read) == p.config # Empty /\ read.fails

\* The config has priority over the props, unless it says nothing.
Schedule(p, read) ==
    IF p.config = "scheduling" /\ read.schedule # Empty THEN read.schedule ELSE p.schedule

Destination(p, read) ==
    IF p.config = "scheduling" /\ read.destination # Empty THEN read.destination
                                                           ELSE p.destination

\* reg of registerCommands: AppendCommand replaces the command with the same id.
RegCommand(t, b, read) ==
    /\ commands' = IF ReadFails(props[b], read) THEN commands
                   ELSE [commands EXCEPT ![t][props[b].id] = b]
    /\ UNCHANGED <<jobs, removing>>

\* Mutant of RegTask: a task is made where there is no schedule for it.
RegTaskUnchecked(t, b, read, late) ==
    LET p == props[b]
    IN  /\ removing = {}
        /\ removing' = IF late THEN {<<t, p.id>>} ELSE {}
        /\ jobs' = IF ReadFails(p, read) THEN jobs
                   ELSE [jobs EXCEPT ![t][p.id] =
                           [by |-> b, schedule |-> Schedule(p, read),
                            destination |-> Destination(p, read)]]
        /\ UNCHANGED commands

\* reg of registerScheduledTasks: remove, which waits only for room in the
\* channel, then buildScheduledTask, then update, which waits for its answer. The
\* scheduler receives the removal before it is done with the task, or late. An
\* update takes away what it replaces also when cron refuses the schedule.
RegTask(t, b, read, late) ==
    LET p == props[b]
        s == Schedule(p, read)
    IN  /\ removing = {}
        /\ removing' = IF late THEN {<<t, p.id>>} ELSE {}
        /\ \/ /\ ReadFails(p, read) \/ s = Empty
              /\ jobs' = IF late THEN jobs ELSE [jobs EXCEPT ![t][p.id] = NoJob]
           \/ /\ ~ReadFails(p, read) /\ s # Empty
              /\ jobs' = [jobs EXCEPT ![t][p.id] =
                            IF s = Invalid THEN NoJob
                            ELSE [by |-> b, schedule |-> s,
                                  destination |-> Destination(p, read)]]
        /\ UNCHANGED commands

\* Mutant of ReceiveRemoval: the removal takes all tasks of the bot away.
ReceiveRemovalOfBot(t, i) ==
    /\ <<t, i>> \in removing
    /\ removing' = removing \ {<<t, i>>}
    /\ jobs' = [jobs EXCEPT ![t] = [j \in Ids |-> NoJob]]
    /\ UNCHANGED <<props, built, stashed, applied, running, todo, watched, commands>>

\* receiveEvent comes to a late removal, whatever the task with that identifier
\* is by now.
ReceiveRemoval(t, i) ==
    /\ <<t, i>> \in removing
    /\ removing' = removing \ {<<t, i>>}
    /\ jobs' = [jobs EXCEPT ![t][i] = NoJob]
    /\ UNCHANGED <<props, built, stashed, applied, running, todo, watched, commands>>

Reg(t, b, read) ==
    \/ IsCommand(props[b]) /\ RegCommand(t, b, read)
    \/ ~IsCommand(props[b]) /\ \E late \in BOOLEAN : RegTask(t, b, read, late)

-----------------------------------------------------------------------------
(***************************************************************************)
(* runBot and the callbacks                                                *)
(***************************************************************************)

\* Props are built and watched; when Watch fails that is logged.
BotRegistersProps(t, i, read, watch) ==
    /\ IsNext(i, t) /\ ByProps(applied[i])
    /\ Reg(t, applied[i].builder, read)
    /\ watched' = IF watch THEN [watched EXCEPT ![t] = @ \union {applied[i].builder}]
                           ELSE watched
    /\ todo' = [todo EXCEPT ![t] = @ \ {i}]
    /\ UNCHANGED <<props, built, stashed, applied, running>>

\* scheduler.update removes what it replaces, also when cron refuses.
OwnJob(schedule) ==
    IF schedule = Invalid THEN NoJob
    ELSE [by |-> "task", schedule |-> "task", destination |-> "task"]

\* A task without a schedule is skipped.
BotRegistersOwn(t, i) ==
    LET o == applied[i]
    IN  /\ IsNext(i, t) /\ ~ByProps(o)
        /\ commands' = IF o.kind = "command"
                         THEN [commands EXCEPT ![t][o.id] = "command"] ELSE commands
        /\ jobs' = IF o.kind = "task" /\ o.schedule # Empty
                     THEN [jobs EXCEPT ![t][o.id] = OwnJob(o.schedule)] ELSE jobs
        /\ todo' = [todo EXCEPT ![t] = @ \ {i}]
        /\ UNCHANGED <<props, built, stashed, applied, running, watched, removing>>

\* The callback of the ConfigWatcher
Reload(t, b, read) ==
    /\ b \in watched[t]
    /\ Reg(t, b, read)
    /\ UNCHANGED <<props, built, stashed, applied, running, todo, watched>>

-----------------------------------------------------------------------------
Next ==
    \/ \E b \in Builders, p \in CommandChains \union TaskChains : BuildProps(b, p)
    \/ \E option \in Options : Register(option)
    \/ \E b \in Builders : RegisterProps(b)
    \/ Run
    \/ \E t \in BotTypes : \E i \in todo[t] :
         \/ \E read \in Reads, watch \in BOOLEAN : BotRegistersProps(t, i, read, watch)
         \/ BotRegistersOwn(t, i)
    \/ \E t \in BotTypes, b \in Builders, read \in Reads : Reload(t, b, read)
    \/ \E t \in BotTypes, i \in Ids : ReceiveRemoval(t, i)

Spec == Init /\ [][Next]_vars

-----------------------------------------------------------------------------
(***************************************************************************)
(* Properties. A bot is ready when runBot has gone through its plugins.    *)
(***************************************************************************)
For(kinds, t) == {o \in Range(applied) : o.kind \in kinds /\ o.botType = t}

Ready(t) == running /\ todo[t] = {} /\ t \in Served(applied)

IdOf(o)    == IF ByProps(o) THEN props[o.builder].id ELSE o.id

\* What was registered for a BotType and an identifier.
CommandsOf(t, i) == {o \in For({"command", "commandProps"}, t) : IdOf(o) = i}
TasksOf(t, i)    == {o \in For({"task", "taskProps"}, t) : IdOf(o) = i}

Provider(o)  == IF ByProps(o) THEN o.builder ELSE o.kind
NeedsRead(o) == ByProps(o) /\ props[o.builder].config # Empty

\* A task of the developer's own that cron takes.
Schedulable(o) == ~ByProps(o) /\ o.schedule = "task"

\* "On Run, each Command implementation is registered to the corresponding bot":
\* a bot has the commands that were registered for its BotType before Run, no
\* other ones and no other bot's. One that no file can spoil is there as soon as
\* the bot is ready, and a Command of the developer's own is the last one with its
\* identifier unless a changed file replaces it.
BotServesItsCommands ==
    \A t \in BotTypes, i \in Ids :
        /\ commands[t][i] # Nobody =>
             \E o \in CommandsOf(t, i) : Provider(o) = commands[t][i]
        /\ Ready(t) /\ (\E o \in CommandsOf(t, i) : ~NeedsRead(o)) => commands[t][i] # Nobody
        /\ Ready(t) /\ (\E o \in CommandsOf(t, i) : ~ByProps(o))
             => commands[t][i] = "command" \/ commands[t][i] \in watched[t]

\* Likewise for tasks. Whatever file is read and whichever removal is late,
\* nothing is handed to cron without a schedule that it takes; and a task of the
\* developer's own is scheduled as soon as the bot is ready, if no props have its
\* identifier: no removal, late or not, concerns it. A task of props may be lost
\* to its own removal (RegisteredTaskIsScheduled of Scheduler).
BotRunsItsTasks ==
    \A t \in BotTypes, i \in Ids :
        /\ jobs[t][i].by # Nobody =>
             /\ \E o \in TasksOf(t, i) : Provider(o) = jobs[t][i].by
             /\ jobs[t][i].schedule \notin {Empty, Invalid}
        /\ /\ Ready(t) /\ TasksOf(t, i) # {}
           /\ \A o \in TasksOf(t, i) : Schedulable(o)
           => jobs[t][i].by # Nobody

\* "Task Schedule can never be specified" is what Build says of the props that it
\* refuses for their schedule: it refuses those for which no file could give one,
\* and no other ones.
ValidationIsTight ==
    \A b \in Builders :
        LET p == props[b]
        IN  ~IsCommand(p) /\ Empty \notin {p.botType, p.id, p.func} =>
              (b \in built <=> \E read \in Configured : Schedule(p, read) # Empty)

-----------------------------------------------------------------------------
(***************************************************************************)
(* What the comments of the code promise and the code does not do          *)
(***************************************************************************)

\* "This configuration value is passed to the command -- fn -- as its third
\* argument", as cfg[0]: Execute passes one if there is a config. It is nil when
\* ConfigurableFunc was given nil, and Build takes that.
CommandGetsItsConfig ==
    \A t \in BotTypes, i \in Ids :
        LET b == commands[t][i]
        IN  b \in Builders /\ props[b].func = "configurable" => props[b].config # Empty

\* "Build builds a new CommandProps instance": what a builder is used for after
\* Build changes no props that were registered.
RegisteredPropsStay ==
    [][\A b \in Builders :
          (\E o \in Range(stashed) : ByProps(o) /\ o.builder = b)
            => props'[b] = props[b]]_vars

\* A ScheduledConfig's schedule: "When no execution schedule is set with ... this
\* value is taken as a default", so the one in the props comes first.
PropsScheduleComesFirst ==
    \A t \in BotTypes, i \in Ids :
        LET b == jobs[t][i].by
        IN  b \in Builders /\ props[b].schedule # Empty => jobs[t][i].schedule = "props"
=============================================================================
