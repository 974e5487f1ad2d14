----------------------------- MODULE LiveConfig -----------------------------
(***************************************************************************)
(* Live configuration of commands: buildCommand and Commands (command.go), *)
(* the per-plugin lock (locker.go) and registerCommands (runner.go). The   *)
(* goroutine of the bot builds each command and watches its file; the      *)
(* goroutine of the watcher builds a command again when its file changed;  *)
(* workers find and execute commands at the same time. A configuration has *)
(* two fields, a and b, each of which holds the version of the file it was *)
(* read from: decoding a file and executing a command take two steps.      *)
(*                                                                         *)
(* The file system, the decoder and sync.RWMutex are external.             *)
(***************************************************************************)
EXTENDS Naturals, Sequences, SequencesExt

CONSTANTS
    Plugins,      \* commands registered with RegisterCommandProps
    Shared,       \* those whose config is a pointer or a map
    Plain,        \* commands registered with RegisterCommand
    Order,        \* the order in which registerCommands goes through them
    Executors,    \* workers
    Contents,     \* what the file of each plugin may be, see Content
    MaxChanges,   \* bound: changes to files
    NoWriter      \* nobody holds or waits for the write lock

Commands == Plugins \union Plain
Content   == {"good", "bad", "missing"}
BotGo     == "bot"
WatcherGo == "watcher"
Builders  == {BotGo, WatcherGo}

ASSUME LiveConfigAssumption ==
    /\ Shared \subseteq Plugins /\ Plugins \intersect Plain = {}
    /\ Commands # {}
    /\ Order \in Seq(Commands)
    /\ Contents \in [Plugins -> SUBSET Content]
    /\ MaxChanges \in Nat
    /\ NoWriter \notin Builders

VARIABLES
    file,         \* version and content of the file of each plugin
    due,          \* plugins whose callback the watcher has to call
    missed,       \* plugins whose file changed after it was read, before Watch
    object,       \* the config in the props of each plugin
    writer,       \* per plugin, who holds the write lock or is next to get it
    readers,      \* per plugin, who holds the read lock
    collection,   \* Commands.collection
    build,        \* progress, plugin and target value of each builder
    todo,         \* commands that registerCommands has yet to register
    watched,      \* plugins for which Watch returned
    exec          \* progress, command and observation of each worker

vars == <<file, due, missed, object, writer, readers, collection, build, todo,
          watched, exec>>

Version == 0 .. MaxChanges
Config  == [a : Version, b : Version]
Command == [id : Commands, cfg : Config]
Default == [a |-> 0, b |-> 0]   \* the values in the props

\* buildCommand: what is read goes to a copy of the config, unless it is shared.
NewBuild(pc, id) == [pc |-> pc, id |-> id, cfg |-> Default, bad |-> FALSE]

TypeOK ==
    /\ file \in [Plugins -> [ver : Version, content : Content]]
    /\ due \subseteq watched /\ missed \subseteq Plugins
    /\ object \in [Plugins -> Config]
    /\ writer \in [Plugins -> Builders \union {NoWriter}]
    /\ readers \in [Plugins -> SUBSET Executors]
    /\ collection \in Seq(Command)
    /\ build \in [Builders -> [pc : {"idle", "build", "lock", "decode", "append",
                                     "watch"},
                               id : Commands, cfg : Config, bad : BOOLEAN]]
    /\ todo \in Seq(Commands)
    /\ watched \subseteq Plugins
    /\ exec \in [Executors -> [pc : {"idle", "found", "running", "done"},
                               cmd : Command, seen : Config]]
    /\ \A p \in Plugins : writer[p] # NoWriter /\ build[writer[p]].pc = "decode"
                            => readers[p] = {}

Init ==
    /\ file \in [Plugins -> [ver : {0}, content : Content]]
    /\ \A p \in Plugins : file[p].content \in Contents[p]
    /\ due = {} /\ missed = {} /\ watched = {}
    /\ object = [p \in Plugins |-> Default]
    /\ writer = [p \in Plugins |-> NoWriter]
    /\ readers = [p \in Plugins |-> {}]
    /\ collection = <<>>
    /\ build = [w \in Builders |-> NewBuild("idle", CHOOSE c \in Commands : TRUE)]
    /\ todo = Order
    /\ exec = [e \in Executors |->
                 [pc |-> "idle", seen |-> Default,
                  cmd |-> [id |-> CHOOSE c \in Commands : TRUE, cfg |-> Default]]]

-----------------------------------------------------------------------------
(***************************************************************************)
(* The file system                                                         *)
(***************************************************************************)
Building(p) == \E w \in Builders : build[w].pc # "idle" /\ build[w].id = p

FileChanges(p, content) ==
    /\ file[p].ver < MaxChanges
    /\ file' = [file EXCEPT ![p] = [ver |-> @.ver + 1, content |-> content]]
    /\ due' = IF p \in watched THEN due \union {p} ELSE due
    /\ missed' = IF p \notin watched /\ Building(p) THEN missed \union {p} ELSE missed
    /\ UNCHANGED <<object, writer, readers, collection, build, todo, watched, exec>>

-----------------------------------------------------------------------------
(***************************************************************************)
(* registerCommands                                                        *)
(***************************************************************************)

\* reg(p) in the first loop.
Register ==
    /\ build[BotGo].pc = "idle"
    /\ todo # <<>> /\ Head(todo) \in Plugins
    /\ build' = [build EXCEPT ![BotGo] = NewBuild("build", Head(todo))]
    /\ UNCHANGED <<file, due, missed, object, writer, readers, collection, todo,
                   watched, exec>>

\* The callback given to Watch.
Callback(p) ==
    /\ build[WatcherGo].pc = "idle"
    /\ p \in due
    /\ due' = due \ {p}
    /\ missed' = missed \ {p}
    /\ build' = [build EXCEPT ![WatcherGo] = NewBuild("build", p)]
    /\ UNCHANGED <<file, object, writer, readers, collection, todo, watched, exec>>

\* Watch, which FileWatcher models; here it succeeds.
Watch ==
    /\ build[BotGo].pc = "watch"
    /\ watched' = watched \union {build[BotGo].id}
    /\ todo' = Tail(todo)
    /\ build' = [build EXCEPT ![BotGo].pc = "idle"]
    /\ UNCHANGED <<file, due, missed, object, writer, readers, collection, exec>>

-----------------------------------------------------------------------------
(***************************************************************************)
(* buildCommand                                                            *)
(***************************************************************************)
Target(w) == IF build[w].id \in Shared THEN object[build[w].id] ELSE build[w].cfg

\* Mutant of Write: a shared config is copied like any other.
WriteCopy(w, value, pc, bad) ==
    /\ build' = [build EXCEPT ![w].pc = pc, ![w].bad = bad, ![w].cfg = value]
    /\ UNCHANGED object

\* The decoder writes to the config itself when it is a pointer or a map, to a
\* copy otherwise.
Write(w, value, pc, bad) ==
    IF build[w].id \in Shared
      THEN /\ object' = [object EXCEPT ![build[w].id] = value]
           /\ build' = [build EXCEPT ![w].pc = pc, ![w].bad = bad]
      ELSE /\ build' = [build EXCEPT ![w].pc = pc, ![w].bad = bad, ![w].cfg = value]
           /\ UNCHANGED object

AfterBuild(w) == IF w = BotGo THEN "watch" ELSE "idle"

Lock(w) ==
    /\ build[w].pc = "build"
    /\ writer[build[w].id] = NoWriter
    /\ writer' = [writer EXCEPT ![build[w].id] = w]
    /\ build' = [build EXCEPT ![w].pc = "lock"]
    /\ UNCHANGED <<file, due, missed, object, readers, collection, todo, watched,
                   exec>>

\* Mutant of Locked: the build does not wait for the workers.
LockedEarly(w) == writer[build[w].id] = w

Locked(w) == writer[build[w].id] = w /\ readers[build[w].id] = {}

\* Read finds no file: the command is built with the config as it is.
ReadNothing(w) ==
    LET p == build[w].id
    IN  /\ build[w].pc = "lock" /\ Locked(w)
        /\ file[p].content = "missing"
        /\ writer' = [writer EXCEPT ![p] = NoWriter]
        /\ build' = [build EXCEPT ![w].pc = "append"]
        /\ UNCHANGED <<file, due, missed, object, readers, collection, todo,
                       watched, exec>>

\* Read opens the file, whose content does not change under the decoder, and
\* decodes the first field.
DecodeFirst(w) ==
    /\ build[w].pc = "lock" /\ Locked(w)
    /\ file[build[w].id].content # "missing"
    /\ Write(w, [Target(w) EXCEPT !.a = file[build[w].id].ver], "decode",
             file[build[w].id].content = "bad")
    /\ UNCHANGED <<file, due, missed, writer, readers, collection, todo, watched,
                   exec>>

\* Mutant of DecodeSecond: the error of Read is not looked at.
DecodeSecondUnchecked(w) ==
    /\ build[w].pc = "decode"
    /\ Write(w, IF build[w].bad THEN Target(w) ELSE [Target(w) EXCEPT !.b = Target(w).a],
             "append", FALSE)
    /\ writer' = [writer EXCEPT ![build[w].id] = NoWriter]
    /\ UNCHANGED <<file, due, missed, readers, collection, todo, watched, exec>>

\* The second field, and the end of the critical section. It fails to decode
\* when the content is bad: no command is built then.
DecodeSecond(w) ==
    /\ build[w].pc = "decode"
    /\ \/ /\ ~build[w].bad
          /\ Write(w, [Target(w) EXCEPT !.b = Target(w).a], "append", FALSE)
       \/ /\ build[w].bad
          /\ build' = [build EXCEPT ![w].pc = AfterBuild(w)]
          /\ UNCHANGED object
    /\ writer' = [writer EXCEPT ![build[w].id] = NoWriter]
    /\ UNCHANGED <<file, due, missed, readers, collection, todo, watched, exec>>

-----------------------------------------------------------------------------
(***************************************************************************)
(* Commands                                                                *)
(***************************************************************************)
IndexOf(id) == SelectInSeq(collection, LAMBDA c : c.id = id)

\* Commands.Append
Appended(command) ==
    IF IndexOf(command.id) = 0
      THEN Append(collection, command)
      ELSE [collection EXCEPT ![IndexOf(command.id)] = command]

AppendCommand(w) ==
    /\ build[w].pc = "append"
    /\ collection' = Appended([id |-> build[w].id, cfg |-> build[w].cfg])
    /\ build' = [build EXCEPT ![w].pc = AfterBuild(w)]
    /\ UNCHANGED <<file, due, missed, object, writer, readers, todo, watched, exec>>

\* The second loop of registerCommands.
AppendPlain ==
    /\ build[BotGo].pc = "idle"
    /\ todo # <<>> /\ Head(todo) \in Plain
    /\ collection' = Appended([id |-> Head(todo), cfg |-> Default])
    /\ todo' = Tail(todo)
    /\ UNCHANGED <<file, due, missed, object, writer, readers, build, watched, exec>>

\* FindFirstMatched under the read lock of Commands: some command matches.
FindFirstMatched(e, i) ==
    /\ exec[e].pc \in {"idle", "done"}
    /\ exec' = [exec EXCEPT ![e].pc = "found", ![e].cmd = collection[i]]
    /\ UNCHANGED <<file, due, missed, object, writer, readers, collection, build,
                   todo, watched>>

Value(cmd) == IF cmd.id \in Shared THEN object[cmd.id] ELSE cmd.cfg

\* defaultCommand.Execute takes the read lock and the function reads a field.
BeginExecute(e) ==
    LET p == exec[e].cmd.id
    IN  /\ exec[e].pc = "found" /\ p \in Plugins
        /\ writer[p] = NoWriter
        /\ readers' = [readers EXCEPT ![p] = @ \union {e}]
        /\ exec' = [exec EXCEPT ![e].pc = "running", ![e].seen.a = Value(exec[e].cmd).a]
        /\ UNCHANGED <<file, due, missed, object, writer, collection, build, todo,
                       watched>>

\* A Command of the developer's, executed without a lock.
ExecutePlain(e) ==
    /\ exec[e].pc = "found" /\ exec[e].cmd.id \in Plain
    /\ exec' = [exec EXCEPT ![e].pc = "done", ![e].seen = Default]
    /\ UNCHANGED <<file, due, missed, object, writer, readers, collection, build,
                   todo, watched>>

\* Mutant of EndExecute: the read lock is not released.
EndExecuteLocked(e) ==
    /\ exec[e].pc = "running"
    /\ exec' = [exec EXCEPT ![e].pc = "done", ![e].seen.b = Value(exec[e].cmd).b]
    /\ UNCHANGED <<file, due, missed, object, writer, readers, collection, build,
                   todo, watched>>

EndExecute(e) ==
    /\ exec[e].pc = "running"
    /\ exec' = [exec EXCEPT ![e].pc = "done", ![e].seen.b = Value(exec[e].cmd).b]
    /\ readers' = [readers EXCEPT ![exec[e].cmd.id] = @ \ {e}]
    /\ UNCHANGED <<file, due, missed, object, writer, collection, build, todo,
                   watched>>

-----------------------------------------------------------------------------
BuildSteps(w) ==
    \/ Lock(w) \/ ReadNothing(w) \/ DecodeFirst(w) \/ DecodeSecond(w)
    \/ AppendCommand(w)

BotSteps == Register \/ Watch \/ AppendPlain

ExecuteSteps(e) == BeginExecute(e) \/ EndExecute(e) \/ ExecutePlain(e)

Next ==
    \/ \E p \in Plugins : \E content \in Contents[p] : FileChanges(p, content)
    \/ BotSteps
    \/ \E p \in Plugins : Callback(p)
    \/ \E w \in Builders : BuildSteps(w)
    \/ \E e \in Executors : ExecuteSteps(e)
    \/ \E e \in Executors : \E i \in DOMAIN collection : FindFirstMatched(e, i)

Spec == Init /\ [][Next]_vars

\* Goroutines run when they can and functions of commands return. A worker may
\* get inputs for ever.
Fairness ==
    /\ WF_vars(BotSteps)
    /\ \A p \in Plugins : WF_vars(Callback(p))
    /\ \A w \in Builders : WF_vars(BuildSteps(w))
    /\ \A e \in Executors : WF_vars(ExecuteSteps(e))

FairSpec == Spec /\ Fairness

-----------------------------------------------------------------------------
(***************************************************************************)
(* Safety                                                                  *)
(***************************************************************************)

\* A function that was executed has seen both fields of one version of the file:
\* the lock keeps rebuilding out while it runs ("The config struct may be
\* updated by ConfigWatcher at the same time").
NoTornConfig ==
    \A e \in Executors : exec[e].pc = "done" => exec[e].seen.a = exec[e].seen.b

\* When the watcher has nothing more to do for a plugin whose file is good, the
\* command that FindFirstMatched comes to first has the configuration of that
\* file, however builds and changes to the file overlapped.
QuietCommandIsCurrent ==
    \A p \in watched \ (due \union missed) :
        ~Building(p) /\ file[p].content = "good"
            => /\ IndexOf(p) # 0
               /\ Value(collection[IndexOf(p)]) = [a |-> file[p].ver, b |-> file[p].ver]

-----------------------------------------------------------------------------
(***************************************************************************)
(* Liveness, under FairSpec                                                *)
(***************************************************************************)

\* Workers that keep executing a command do not keep the watcher from building
\* it again, nor does the watcher keep a worker waiting for ever.
BuildEnds ==
    /\ \A w \in Builders : build[w].pc = "lock" ~> build[w].pc = "idle"
    /\ \A e \in Executors : exec[e].pc = "found" ~> exec[e].pc = "done"
=============================================================================
