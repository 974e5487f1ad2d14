--------------------------- MODULE MCRegistration ---------------------------
(***************************************************************************)
(* Instances of Registration for TLC.                                      *)
(***************************************************************************)
EXTENDS Registration, TLC

CONSTANTS t1, t2, x, y, b1, b2

AnyCommand(botType, id, config, func) ==
    [botType |-> botType, id |-> id, config |-> config, func |-> func,
     match |-> "given", instruction |-> "given"]

AnyTask(config, func, schedule) ==
    [botType |-> t1, id |-> x, config |-> config, func |-> func,
     schedule |-> schedule, destination |-> "props"]

\* With and without a config, for another bot, and without a function to match.
SomeCommands ==
    {AnyCommand(t1, x, Empty, "func"), AnyCommand(t1, x, "plain", "configurable"),
     AnyCommand(t2, x, Empty, "func"),
     [AnyCommand(t1, x, Empty, "func") EXCEPT !.match = Empty]}

\* Every combination of a config and a schedule, and a task without an identifier.
SomeTasks ==
    {AnyTask(Empty, "func", s) : s \in {Empty, Invalid, "props"}}
        \union {AnyTask(c, "configurable", s) :
                  c \in {"plain", "scheduling"}, s \in {Empty, "props"}}
        \union {[AnyTask(Empty, "func", "props") EXCEPT !.id = Empty]}

AnyOption(kind, botType, schedule) ==
    [kind |-> kind, botType |-> botType, id |-> x, schedule |-> schedule]

\* Tasks with the identifier of the props and one with another.
SomeOptions ==
    {AnyOption("bot", t1, Empty), AnyOption("bot", t2, Empty),
     AnyOption("command", t1, Empty),
     AnyOption("task", t1, "task"), AnyOption("task", t1, Invalid),
     AnyOption("task", t1, Empty), [AnyOption("task", t1, "task") EXCEPT !.id = y]}

\* A command and a configurable function without a config.
NilConfig == {AnyCommand(t1, x, Empty, "configurable")}
NoTasks   == {}
OnlyBot   == {AnyOption("bot", t1, Empty)}

\* One builder for two commands.
TwoCommands == {AnyCommand(t1, x, Empty, "func"), AnyCommand(t1, y, Empty, "func")}

BuilderSymmetry == Permutations(Builders)
=============================================================================
