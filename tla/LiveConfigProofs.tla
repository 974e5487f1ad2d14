-------------------------- MODULE LiveConfigProofs --------------------------
(***************************************************************************)
(* Proofs about LiveConfig, for any commands, workers and changes.         *)
(***************************************************************************)
EXTENDS LiveConfig, SequenceTheorems, WellFoundedInduction, TLAPS

-----------------------------------------------------------------------------
(***************************************************************************)
(* The invariants                                                          *)
(***************************************************************************)

\* The bot's goroutine builds the first command it has yet to register.
BotBuildsNext == build[BotGo].pc # "idle" => todo # <<>> /\ build[BotGo].id = Head(todo)

\* Who holds the lock of a plugin, and what for.
LockIsKept ==
    /\ \A w \in Builders :
         /\ build[w].pc # "idle" => build[w].id \in Plugins
         /\ build[w].pc \in {"lock", "decode"} => writer[build[w].id] = w
         /\ build[w].pc = "decode" => readers[build[w].id] = {}
    /\ build[WatcherGo].pc # "watch"
    /\ \A p \in Plugins : writer[p] # NoWriter =>
         build[writer[p]].id = p /\ build[writer[p]].pc \in {"lock", "decode"}
    /\ \A e \in Executors : exec[e].pc = "running" =>
         exec[e].cmd.id \in Plugins /\ e \in readers[exec[e].cmd.id]

LiveInv == TypeOK /\ BotBuildsNext /\ LockIsKept

Untorn(cfg)    == cfg.a = cfg.b
Decodes(w, p)  == build[w].pc = "decode" /\ build[w].id = p

\* A config is torn only while its file is decoded, by somebody who has the lock.
OnlyDecodingTears ==
    /\ \A p \in Plugins : file[p].content \in Contents[p]
    /\ \A w \in Builders :
         /\ build[w].pc = "decode" /\ build[w].id \in Shared => ~build[w].bad
         /\ build[w].pc \in {"build", "lock", "append"} => Untorn(build[w].cfg)
         /\ build[w].pc = "decode" /\ build[w].id \in Shared => Untorn(build[w].cfg)
    /\ \A p \in Shared : (\A w \in Builders : ~Decodes(w, p)) => Untorn(object[p])
    /\ \A i \in 1 .. Len(collection) : Untorn(collection[i].cfg)
    /\ \A e \in Executors : Untorn(exec[e].cmd.cfg)
    /\ \A e \in Executors : exec[e].pc = "running" => exec[e].seen.a = Value(exec[e].cmd).a
    /\ NoTornConfig

\* What the bot's goroutine has yet to register is not watched, and the watcher
\* builds what is.
OneBuilder ==
    /\ \A i, j \in 1 .. Len(todo) : todo[i] = todo[j] => i = j
    /\ \A i \in 1 .. Len(todo) : todo[i] \notin watched
    /\ build[WatcherGo].pc # "idle" => build[WatcherGo].id \in watched

Settled(p)   == p \notin due \union missed /\ file[p].content = "good"
Latest(p)    == [a |-> file[p].ver, b |-> file[p].ver]
IsCurrent(p) == IndexOf(p) # 0 /\ Value(collection[IndexOf(p)]) = Latest(p)

\* A build in which nothing has changed since the file was read has what is there.
BuildIsCurrent ==
    \A w \in Builders : Settled(build[w].id) =>
        /\ build[w].pc = "decode" => ~build[w].bad /\ Target(w).a = file[build[w].id].ver
        /\ build[w].pc = "append" => Target(w) = Latest(build[w].id)
        /\ build[w].pc = "watch"  => IsCurrent(build[w].id)

CurrentInv == OneBuilder /\ BuildIsCurrent /\ QuietCommandIsCurrent

-----------------------------------------------------------------------------
(***************************************************************************)
(* Records                                                                 *)
(***************************************************************************)
BuildPcs == {"idle", "build", "lock", "decode", "append", "watch"}
Build    == [pc : BuildPcs, id : Commands, cfg : Config, bad : BOOLEAN]
Worker   == [pc : {"idle", "found", "running", "done"}, cmd : Command, seen : Config]

LEMMA Types ==
    ASSUME TypeOK
    PROVE  build \in [Builders -> Build] /\ exec \in [Executors -> Worker]
BY DEF TypeOK, Build, BuildPcs, Worker

LEMMA Defaults ==
    /\ Default \in Config /\ Default.a = 0 /\ Default.b = 0
    /\ \A id \in Commands, pc \in BuildPcs :
         /\ NewBuild(pc, id) \in Build
         /\ NewBuild(pc, id).pc = pc /\ NewBuild(pc, id).id = id
         /\ NewBuild(pc, id).cfg = Default /\ NewBuild(pc, id).bad = FALSE
<1>1. 0 \in Version
    BY LiveConfigAssumption DEF Version
<1>2. Default \in Config /\ Default.a = 0 /\ Default.b = 0
    BY <1>1 DEF Default, Config
<1> QED
    BY <1>2 DEF NewBuild, Build

\* A builder goes on and keeps its plugin.
LEMMA BuilderGoes ==
    ASSUME build \in [Builders -> Build], NEW w \in Builders, NEW pc \in BuildPcs,
           build' = [build EXCEPT ![w].pc = pc]
    PROVE  /\ build' \in [Builders -> Build]
           /\ build'[w].pc = pc /\ build'[w].id = build[w].id
           /\ build'[w].cfg = build[w].cfg /\ build'[w].bad = build[w].bad
           /\ \A v \in Builders : v # w => build'[v] = build[v]
<1> DEFINE new == [build[w] EXCEPT !.pc = pc]
<1>1. build[w] \in Build
    OBVIOUS
<1>2. /\ new \in Build /\ new.pc = pc /\ new.id = build[w].id /\ new.cfg = build[w].cfg
      /\ new.bad = build[w].bad
    BY <1>1 DEF Build
<1>3. build' = [build EXCEPT ![w] = new]
    OBVIOUS
<1> HIDE DEF new
<1> QED
    BY <1>2, <1>3

\* A builder begins.
LEMMA BuilderBegins ==
    ASSUME build \in [Builders -> Build], NEW w \in Builders, NEW id \in Commands,
           build' = [build EXCEPT ![w] = NewBuild("build", id)]
    PROVE  /\ build' \in [Builders -> Build]
           /\ build'[w].pc = "build" /\ build'[w].id = id
           /\ build'[w].cfg = Default /\ build'[w].bad = FALSE
           /\ \A v \in Builders : v # w => build'[v] = build[v]
<1>1. "build" \in BuildPcs
    BY DEF BuildPcs
<1> QED
    BY <1>1, Defaults

\* What a builder writes goes to the shared object or to its copy.
LEMMA BuilderWrites ==
    ASSUME TypeOK, NEW w \in Builders, build[w].id \in Plugins, NEW value \in Config,
           NEW pc \in BuildPcs, NEW bad \in BOOLEAN, Write(w, value, pc, bad)
    PROVE  /\ build' \in [Builders -> Build] /\ object' \in [Plugins -> Config]
           /\ build'[w].pc = pc /\ build'[w].id = build[w].id /\ build'[w].bad = bad
           /\ \A v \in Builders : v # w => build'[v] = build[v]
           /\ \A q \in Plugins : q # build[w].id => object'[q] = object[q]
           /\ Target(w)' = value
           /\ IF build[w].id \in Shared
                THEN object'[build[w].id] = value /\ build'[w].cfg = build[w].cfg
                ELSE object' = object /\ build'[w].cfg = value
<1> DEFINE id == build[w].id
<1>0. build \in [Builders -> Build] /\ object \in [Plugins -> Config] /\ build[w] \in Build
    BY Types DEF TypeOK
<1>1. CASE id \in Shared
    <2> DEFINE new == [build[w] EXCEPT !.pc = pc, !.bad = bad]
    <2>1. /\ new \in Build /\ new.pc = pc /\ new.bad = bad /\ new.id = id
          /\ new.cfg = build[w].cfg
        BY <1>0 DEF Build
    <2>2. /\ build' = [build EXCEPT ![w] = new]
          /\ object' = [object EXCEPT ![build[w].id] = value]
        BY <1>1 DEF Write
    <2> HIDE DEF new
    <2>3. /\ build'[w] = new /\ build' \in [Builders -> Build]
          /\ \A v \in Builders : v # w => build'[v] = build[v]
        BY <1>0, <2>1, <2>2
    <2>4. /\ object' \in [Plugins -> Config] /\ object'[build[w].id] = value
          /\ \A q \in Plugins : q # build[w].id => object'[q] = object[q]
        BY <1>0, <2>2
    <2> QED
        BY <1>1, <2>1, <2>3, <2>4 DEF Target
<1>2. CASE id \notin Shared
    <2> DEFINE new == [build[w] EXCEPT !.pc = pc, !.bad = bad, !.cfg = value]
    <2>1. /\ new \in Build /\ new.pc = pc /\ new.bad = bad /\ new.id = id
          /\ new.cfg = value
        BY <1>0 DEF Build
    <2>2. build' = [build EXCEPT ![w] = new] /\ object' = object
        BY <1>2 DEF Write
    <2> HIDE DEF new
    <2>3. /\ build'[w] = new /\ build' \in [Builders -> Build]
          /\ \A v \in Builders : v # w => build'[v] = build[v]
        BY <1>0, <2>1, <2>2
    <2> QED
        BY <1>0, <1>2, <2>1, <2>2, <2>3 DEF Target
<1> QED
    BY <1>1, <1>2

LEMMA TargetType ==
    ASSUME LiveInv, NEW w \in Builders, build[w].pc # "idle"
    PROVE  /\ build[w].id \in Plugins /\ Target(w) \in Config
           /\ file[build[w].id].ver \in Version
           /\ file[build[w].id].content \in Content
<1>1. build[w].id \in Plugins
    BY DEF LiveInv, LockIsKept
<1>2. build[w] \in Build /\ object \in [Plugins -> Config]
      /\ file[build[w].id] \in [ver : Version, content : Content]
    BY <1>1, Types DEF LiveInv, TypeOK
<1> QED
    BY <1>1, <1>2 DEF Target, Build

LEMMA Fields ==
    ASSUME NEW c \in Config, NEW v \in Version
    PROVE  /\ c.a \in Version /\ c.b \in Version
           /\ [c EXCEPT !.a = v] \in Config /\ [c EXCEPT !.b = v] \in Config
           /\ [c EXCEPT !.a = v].a = v /\ [c EXCEPT !.a = v].b = c.b
           /\ [c EXCEPT !.b = v].b = v /\ [c EXCEPT !.b = v].a = c.a
BY DEF Config

-----------------------------------------------------------------------------
(***************************************************************************)
(* What the steps of a build change                                        *)
(***************************************************************************)
LEMMA DecodeFirstEffect ==
    ASSUME LiveInv, NEW w \in Builders, DecodeFirst(w)
    PROVE  LET p == build[w].id
           IN  /\ p \in Plugins /\ build[w].pc = "lock" /\ Locked(w)
               /\ build' \in [Builders -> Build] /\ object' \in [Plugins -> Config]
               /\ build'[w].pc = "decode" /\ build'[w].id = p
               /\ build'[w].bad = (file[p].content = "bad")
               /\ \A v \in Builders : v # w => build'[v] = build[v]
               /\ \A q \in Plugins : q # p => object'[q] = object[q]
               /\ Target(w)' = [Target(w) EXCEPT !.a = file[p].ver]
               /\ p \in Shared => build'[w].cfg = build[w].cfg
               /\ p \notin Shared => object' = object
               /\ UNCHANGED <<file, due, missed, writer, readers, collection, todo,
                              watched, exec>>
<1> DEFINE p == build[w].id
<1>1. /\ build[w].pc = "lock" /\ Locked(w)
      /\ Write(w, [Target(w) EXCEPT !.a = file[p].ver], "decode", file[p].content = "bad")
      /\ UNCHANGED <<file, due, missed, writer, readers, collection, todo, watched, exec>>
    BY DEF DecodeFirst
<1>2. p \in Plugins /\ [Target(w) EXCEPT !.a = file[p].ver] \in Config
    BY <1>1, TargetType, Fields
<1>3. (file[p].content = "bad") \in BOOLEAN /\ "decode" \in BuildPcs
    BY DEF BuildPcs
<1> QED
    BY ZenonT(60), <1>1, <1>2, <1>3, BuilderWrites DEF LiveInv

LEMMA DecodeSecondEffect ==
    ASSUME LiveInv, NEW w \in Builders, DecodeSecond(w)
    PROVE  LET p == build[w].id
           IN  /\ p \in Plugins /\ build[w].pc = "decode"
               /\ build' \in [Builders -> Build] /\ object' \in [Plugins -> Config]
               /\ build'[w].id = p
               /\ \A v \in Builders : v # w => build'[v] = build[v]
               /\ \A q \in Plugins : q # p => object'[q] = object[q]
               /\ \/ /\ ~build[w].bad /\ build'[w].pc = "append"
                     /\ Target(w)' = [Target(w) EXCEPT !.b = Target(w).a]
                     /\ p \in Shared => build'[w].cfg = build[w].cfg
                     /\ p \notin Shared => object' = object
                  \/ /\ build[w].bad /\ build'[w].pc = AfterBuild(w)
                     /\ object' = object
               /\ writer' = [writer EXCEPT ![p] = NoWriter]
               /\ UNCHANGED <<file, due, missed, readers, collection, todo, watched, exec>>
<1> DEFINE p == build[w].id
<1>0. /\ build[w].pc = "decode" /\ writer' = [writer EXCEPT ![p] = NoWriter]
      /\ UNCHANGED <<file, due, missed, readers, collection, todo, watched, exec>>
    BY DEF DecodeSecond
<1>1. p \in Plugins /\ Target(w) \in Config
    BY <1>0, TargetType
<1>2. CASE ~build[w].bad
    <2>1. Write(w, [Target(w) EXCEPT !.b = Target(w).a], "append", FALSE)
        BY <1>2 DEF DecodeSecond
    <2>2. [Target(w) EXCEPT !.b = Target(w).a] \in Config
        <3>1. Target(w).a \in Version
            BY <1>1 DEF Config
        <3> QED
            BY <1>1, <3>1, Fields
    <2>3. "append" \in BuildPcs /\ FALSE \in BOOLEAN
        BY DEF BuildPcs
    <2> QED
        BY <1>0, <1>1, <1>2, <2>1, <2>2, <2>3, BuilderWrites DEF LiveInv
<1>3. CASE build[w].bad
    <2>1. build' = [build EXCEPT ![w].pc = AfterBuild(w)] /\ object' = object
        BY <1>3 DEF DecodeSecond
    <2>2. AfterBuild(w) \in BuildPcs
        BY DEF AfterBuild, BuildPcs
    <2>3. build \in [Builders -> Build] /\ object \in [Plugins -> Config]
        BY Types DEF LiveInv, TypeOK
    <2> QED
        BY <1>0, <1>1, <1>3, <2>1, <2>2, <2>3, BuilderGoes
<1> QED
    BY <1>2, <1>3

-----------------------------------------------------------------------------
(***************************************************************************)
(* Commands.Append                                                         *)
(***************************************************************************)
First(s, id) == SelectInSeq(s, LAMBDA c : c.id = id)

\* i is the first place in s with a command of this identifier.
IsFirst(s, id, i) ==
    /\ i \in 1 .. Len(s) /\ s[i].id = id
    /\ \A j \in 1 .. Len(s) : s[j].id = id => i <= j

LEMMA LeastNumber ==
    ASSUME NEW T \in SUBSET Nat, T # {}
    PROVE  \E x \in T : \A y \in T : x <= y
<1>1. PICK x \in T : \A y \in T : ~ (<<y, x>> \in OpToRel(<, Nat))
    BY WFMin, NatLessThanWellFounded
<1>2. \A y \in T : ~ (y < x)
    BY <1>1 DEF OpToRel
<1> QED
    BY <1>2

\* SelectInSeq finds the first command of an identifier, if there is one.
LEMMA FirstIsFirst ==
    ASSUME NEW s \in Seq(Command), NEW id
    PROVE  \/ First(s, id) = 0 /\ \A j \in 1 .. Len(s) : s[j].id # id
           \/ IsFirst(s, id, First(s, id))
<1> DEFINE I == {i \in 1 .. Len(s) : s[i].id = id}
<1>1. First(s, id) = IF I # {} THEN Min(I) ELSE 0
    BY DEF First, SelectInSeq
<1>2. CASE I = {}
    BY <1>1, <1>2
<1>3. CASE I # {}
    <2>1. I \in SUBSET Nat
        OBVIOUS
    <2>2. \E x \in I : \A y \in I : x <= y
        <3> HIDE DEF I
        <3> QED
            BY <1>3, <2>1, LeastNumber
    <2>3. Min(I) \in I /\ \A y \in I : Min(I) <= y
        BY <2>2 DEF Min
    <2> QED
        BY <1>1, <1>3, <2>3 DEF IsFirst
<1> QED
    BY <1>2, <1>3

LEMMA FirstIsUnique ==
    ASSUME NEW s \in Seq(Command), NEW id, NEW i, IsFirst(s, id, i)
    PROVE  First(s, id) = i /\ i # 0
<1>1. IsFirst(s, id, First(s, id))
    BY FirstIsFirst DEF IsFirst
<1>2. i \in Nat /\ First(s, id) \in Nat /\ i <= First(s, id) /\ First(s, id) <= i /\ i # 0
    BY <1>1 DEF IsFirst
<1> QED
    BY <1>2

LEMMA IndexIsFirst ==
    /\ \A id : IndexOf(id) = First(collection, id)
    /\ \A id : IndexOf(id)' = First(collection', id)
BY DEF IndexOf, First, SelectInSeq

\* Append puts a command where FindFirstMatched finds it and moves no other one.
LEMMA AppendedCommand ==
    ASSUME collection \in Seq(Command), NEW c \in Command, collection' = Appended(c)
    PROVE  /\ collection' \in Seq(Command)
           /\ IndexOf(c.id)' # 0 /\ collection'[IndexOf(c.id)'] = c
           /\ \A id : id # c.id /\ IndexOf(id) # 0 =>
                 /\ IndexOf(id)' = IndexOf(id)
                 /\ collection'[IndexOf(id)] = collection[IndexOf(id)]
           /\ \A i \in 1 .. Len(collection') :
                 collection'[i] = c \/ (i \in 1 .. Len(collection)
                                           /\ collection'[i] = collection[i])
<1> DEFINE s == collection  t == Appended(c)  k == First(s, c.id)
<1>1. (k = 0 /\ \A j \in 1 .. Len(s) : s[j].id # c.id) \/ IsFirst(s, c.id, k)
    BY FirstIsFirst
<1>2. Appended(c) = IF k = 0 THEN Append(s, c) ELSE [s EXCEPT ![k] = c]
    BY IndexIsFirst DEF Appended
<1>3. CASE k = 0
    <2>1. t = Append(s, c) /\ \A j \in 1 .. Len(s) : s[j].id # c.id
        BY <1>1, <1>2, <1>3 DEF IsFirst
    <2>2. /\ t \in Seq(Command) /\ Len(t) = Len(s) + 1 /\ t[Len(s) + 1] = c
          /\ \A j \in 1 .. Len(s) : t[j] = s[j]
          /\ Len(s) \in Nat
        BY <2>1
    <2> HIDE DEF t
    <2>3. \A j \in 1 .. Len(t) : j \in 1 .. Len(s) \/ j = Len(s) + 1
        BY <2>2
    <2>4. IsFirst(t, c.id, Len(s) + 1)
        BY <2>1, <2>2, <2>3 DEF IsFirst
    <2>5. ASSUME NEW id, id # c.id, IsFirst(s, id, First(s, id))
          PROVE  IsFirst(t, id, First(s, id)) /\ t[First(s, id)] = s[First(s, id)]
        BY <2>2, <2>3, <2>5 DEF IsFirst
    <2>6. First(t, c.id) = Len(s) + 1 /\ Len(s) + 1 # 0
        BY <2>2, <2>4, FirstIsUnique
    <2>7. ASSUME NEW id, id # c.id, First(s, id) # 0
          PROVE  First(t, id) = First(s, id) /\ t[First(s, id)] = s[First(s, id)]
        BY <2>2, <2>5, <2>7, FirstIsFirst, FirstIsUnique
    <2> QED
        BY <2>2, <2>3, <2>6, <2>7, IndexIsFirst DEF t
<1>4. CASE k # 0
    <2>1. t = [s EXCEPT ![k] = c] /\ IsFirst(s, c.id, k)
        BY <1>1, <1>2, <1>4
    <2>2. /\ t \in Seq(Command) /\ Len(t) = Len(s) /\ t[k] = c
          /\ \A j \in 1 .. Len(s) : j # k => t[j] = s[j]
          /\ \A j \in 1 .. Len(s) : t[j].id = s[j].id
          /\ k \in 1 .. Len(s)
        BY <2>1, ExceptSeq DEF IsFirst
    <2> HIDE DEF t, k
    <2>3. \A id, i : IsFirst(t, id, i) <=> IsFirst(s, id, i)
        BY <2>2 DEF IsFirst
    <2>4. First(t, c.id) = k /\ k # 0
        BY ZenonT(60), <2>1, <2>2, <2>3, FirstIsUnique
    <2>5. ASSUME NEW id, id # c.id, First(s, id) # 0
          PROVE  First(t, id) = First(s, id) /\ t[First(s, id)] = s[First(s, id)]
        <3>1. IsFirst(s, id, First(s, id))
            BY <2>5, FirstIsFirst
        <3>2. First(t, id) = First(s, id)
            BY <2>2, <2>3, <3>1, FirstIsUnique
        <3>3. First(s, id) # k /\ First(s, id) \in 1 .. Len(s)
            BY <2>1, <2>5, <3>1 DEF IsFirst
        <3> QED
            BY <2>2, <3>2, <3>3
    <2> QED
        BY <2>2, <2>4, <2>5, IndexIsFirst DEF t
<1> QED
    BY <1>3, <1>4

-----------------------------------------------------------------------------
(***************************************************************************)
(* The lock                                                                *)
(***************************************************************************)
LiveTypes ==
    /\ file \in [Plugins -> [ver : Version, content : Content]]
    /\ due \subseteq watched /\ missed \subseteq Plugins /\ watched \subseteq Plugins
    /\ object \in [Plugins -> Config]
    /\ writer \in [Plugins -> Builders \union {NoWriter}]
    /\ readers \in [Plugins -> SUBSET Executors]
    /\ collection \in Seq(Command)
    /\ build \in [Builders -> Build]
    /\ todo \in Seq(Commands)
    /\ exec \in [Executors -> Worker]

\* The lock keeps workers out of a plugin whose file is decoded.
LEMMA LockedTypes ==
    /\ TypeOK => LiveTypes
    /\ TypeOK' => LiveTypes'
    /\ LiveTypes /\ LockIsKept => TypeOK
    /\ LiveTypes' /\ LockIsKept' => TypeOK'
<1>1. TypeOK => LiveTypes
    BY Types DEF TypeOK, LiveTypes
<1>4. TypeOK' => LiveTypes'
    BY DEF TypeOK, LiveTypes, Build, BuildPcs, Worker
<1>2. LiveTypes /\ LockIsKept => TypeOK
    BY DEF TypeOK, LiveTypes, LockIsKept, Build, BuildPcs, Worker
<1>3. LiveTypes' /\ LockIsKept' => TypeOK'
    BY DEF TypeOK, LiveTypes, LockIsKept, Build, BuildPcs, Worker
<1> QED
    BY <1>1, <1>2, <1>3, <1>4

LEMMA LiveInit == Init => LiveInv
<1> SUFFICES ASSUME Init PROVE LiveInv
    OBVIOUS
<1> DEFINE c0 == CHOOSE c \in Commands : TRUE
<1>1. c0 \in Commands
    BY LiveConfigAssumption
<1> HIDE DEF c0
<1>2. build = [w \in Builders |-> NewBuild("idle", c0)]
    BY DEF Init, c0
<1>3. build \in [Builders -> Build] /\ \A w \in Builders : build[w].pc = "idle"
    BY <1>1, <1>2, Defaults DEF BuildPcs
<1>4. exec = [e \in Executors |-> [pc |-> "idle", seen |-> Default,
                                  cmd |-> [id |-> c0, cfg |-> Default]]]
    BY DEF Init, c0
<1>5. exec \in [Executors -> Worker] /\ \A e \in Executors : exec[e].pc = "idle"
    BY <1>1, <1>4, Defaults DEF Worker, Command
<1>6. file \in [Plugins -> [ver : Version, content : Content]]
    BY LiveConfigAssumption DEF Init, Version
<1>7. LiveTypes
    <2>1. collection \in Seq(Command) /\ todo \in Seq(Commands)
        BY LiveConfigAssumption DEF Init
    <2> QED
        BY <1>3, <1>5, <1>6, <2>1, Defaults DEF Init, LiveTypes
<1>8. LockIsKept /\ BotBuildsNext
    BY <1>3, <1>5 DEF Init, LockIsKept, BotBuildsNext, Builders, BotGo, WatcherGo
<1> QED
    BY <1>7, <1>8, LockedTypes DEF LiveInv

\* Files change, whoever is at work.
LEMMA FileChangesLive ==
    ASSUME LiveInv, NEW p \in Plugins, NEW content \in Contents[p], FileChanges(p, content)
    PROVE  LiveInv'
<1>1. content \in Content
    BY LiveConfigAssumption
<1>2. /\ file' = [file EXCEPT ![p] = [ver |-> file[p].ver + 1, content |-> content]]
      /\ file[p].ver < MaxChanges
      /\ due' = (IF p \in watched THEN due \union {p} ELSE due)
      /\ missed' \subseteq missed \union {p}
      /\ UNCHANGED <<object, writer, readers, collection, build, todo, watched, exec>>
    BY DEF FileChanges
<1>3. LiveTypes
    BY LockedTypes DEF LiveInv
<1>4. file' \in [Plugins -> [ver : Version, content : Content]]
    <2>1. file[p].ver + 1 \in Version
        BY <1>2, <1>3, LiveConfigAssumption DEF LiveTypes, Version
    <2> QED
        BY <1>1, <1>2, <1>3, <2>1 DEF LiveTypes
<1>5. LiveTypes'
    BY <1>2, <1>3, <1>4 DEF LiveTypes
<1>6. LockIsKept' /\ BotBuildsNext'
    BY <1>2 DEF LiveInv, LockIsKept, BotBuildsNext
<1> QED
    BY <1>5, <1>6, LockedTypes DEF LiveInv

\* A build begins, and does not have the lock yet.
LEMMA BeginLive ==
    ASSUME LiveInv, Register \/ \E p \in Plugins : Callback(p)
    PROVE  LiveInv'
<1>1. PICK w \in Builders, p \in Plugins :
        /\ build[w].pc = "idle" /\ build' = [build EXCEPT ![w] = NewBuild("build", p)]
        /\ w = BotGo => todo # <<>> /\ p = Head(todo)
    <2>1. CASE Register
        BY <2>1 DEF Register, Builders
    <2>2. ASSUME NEW p \in Plugins, Callback(p)
          PROVE  /\ build[WatcherGo].pc = "idle" /\ WatcherGo \in Builders
                 /\ build' = [build EXCEPT ![WatcherGo] = NewBuild("build", p)]
                 /\ WatcherGo # BotGo
        BY <2>2 DEF Callback, Builders, BotGo, WatcherGo
    <2> QED
        BY <2>1, <2>2
<1>2. /\ due' \subseteq due /\ missed' \subseteq missed
      /\ UNCHANGED <<file, object, writer, readers, collection, todo, watched, exec>>
    BY DEF Register, Callback
<1>3. LiveTypes
    BY LockedTypes DEF LiveInv
<1>4. /\ build' \in [Builders -> Build]
      /\ build'[w].pc = "build" /\ build'[w].id = p
      /\ \A v \in Builders : v # w => build'[v] = build[v]
    BY <1>1, <1>3, BuilderBegins DEF LiveTypes, Commands
<1>5. LiveTypes'
    BY <1>2, <1>3, <1>4 DEF LiveTypes
<1>6. BotBuildsNext'
    BY <1>1, <1>2, <1>4 DEF LiveInv, BotBuildsNext, Builders
<1>7. LockIsKept'
    <2>1. \A q \in Plugins : writer[q] # NoWriter => writer[q] # w /\ writer[q] \in Builders
        <3> SUFFICES ASSUME NEW q \in Plugins, writer[q] # NoWriter
                     PROVE  writer[q] # w /\ writer[q] \in Builders
            OBVIOUS
        <3>1. writer[q] \in Builders
            BY <1>3 DEF LiveTypes
        <3>2. build[writer[q]].pc # "idle"
            BY DEF LiveInv, LockIsKept
        <3> QED
            BY <1>1, <3>1, <3>2
    <2> QED
        BY <1>1, <1>2, <1>4, <2>1 DEF LiveInv, LockIsKept, Builders
<1> QED
    BY <1>5, <1>6, <1>7, LockedTypes DEF LiveInv

\* A builder goes on outside the lock, or takes or releases that of its plugin.
LEMMA BuilderLive ==
    ASSUME LiveInv, NEW w \in Builders, build[w].pc # "idle",
           build' \in [Builders -> Build], build'[w].id = build[w].id,
           \A v \in Builders : v # w => build'[v] = build[v],
           IF build'[w].pc \in {"lock", "decode"}
             THEN /\ writer[build[w].id] \in {NoWriter, w}
                  /\ writer' = [writer EXCEPT ![build[w].id] = w]
             ELSE \/ writer' = [writer EXCEPT ![build[w].id] = NoWriter]
                     /\ writer[build[w].id] = w
                  \/ writer' = writer /\ writer[build[w].id] # w,
           build'[w].pc = "decode" => readers[build[w].id] = {},
           build'[w].pc = "watch" => w = BotGo,
           UNCHANGED <<readers, exec>>
    PROVE  LockIsKept'
<1> DEFINE p == build[w].id
<1>1. p \in Plugins
    BY DEF LiveInv, LockIsKept
<1>2. writer \in [Plugins -> Builders \union {NoWriter}]
    BY DEF LiveInv, TypeOK
<1>3. \A q \in Plugins : q # p => writer'[q] = writer[q] /\ writer[q] # w
    BY <1>1, <1>2, LiveConfigAssumption DEF LiveInv, LockIsKept
<1>4. IF build'[w].pc \in {"lock", "decode"} THEN writer'[p] = w ELSE writer'[p] # w
    BY <1>1, <1>2, LiveConfigAssumption
<1>5. ASSUME NEW v \in Builders
      PROVE  /\ build'[v].pc # "idle" => build'[v].id \in Plugins
             /\ build'[v].pc \in {"lock", "decode"} => writer'[build'[v].id] = v
             /\ build'[v].pc = "decode" => readers'[build'[v].id] = {}
    <2>1. CASE v = w
        BY <1>1, <1>4, <2>1
    <2>2. CASE v # w
        <3>1. build'[v] = build[v]
            BY <2>2
        <3>2. build[v].pc \in {"lock", "decode"} => writer'[build[v].id] = v
            <4> SUFFICES ASSUME build[v].pc \in {"lock", "decode"}
                         PROVE  writer'[build[v].id] = v
                OBVIOUS
            <4>1. writer[build[v].id] = v /\ build[v].id \in Plugins
                BY DEF LiveInv, LockIsKept
            <4>2. CASE build[v].id # p
                BY <1>3, <4>1, <4>2
            <4>3. CASE build[v].id = p
                BY <2>2, <4>1, <4>3, LiveConfigAssumption
            <4> QED
                BY <4>2, <4>3
        <3> QED
            BY <3>1, <3>2 DEF LiveInv, LockIsKept
    <2> QED
        BY <2>1, <2>2
<1>6. ASSUME NEW q \in Plugins, writer'[q] # NoWriter
      PROVE  build'[writer'[q]].id = q /\ build'[writer'[q]].pc \in {"lock", "decode"}
    <2>1. CASE q # p
        <3>1. writer'[q] = writer[q] /\ writer[q] # w /\ writer[q] \in Builders
            BY <1>2, <1>3, <1>6, <2>1
        <3> QED
            BY <1>6, <3>1 DEF LiveInv, LockIsKept
    <2>2. CASE q = p
        <3>1. CASE build'[w].pc \in {"lock", "decode"}
            BY <1>4, <2>2, <3>1
        <3>2. CASE build'[w].pc \notin {"lock", "decode"}
            <4>1. writer' = writer /\ writer[p] # w /\ writer[p] \in Builders
                BY <1>1, <1>2, <1>6, <2>2, <3>2
            <4> QED
                BY <1>6, <2>2, <4>1 DEF LiveInv, LockIsKept
        <3> QED
            BY <3>1, <3>2
    <2> QED
        BY <2>1, <2>2
<1>7. build'[WatcherGo].pc # "watch"
    BY DEF LiveInv, LockIsKept, Builders, BotGo, WatcherGo
<1> QED
    BY <1>5, <1>6, <1>7 DEF LiveInv, LockIsKept

LEMMA OutsideLock ==
    ASSUME LiveInv, NEW w \in Builders, build[w].pc \notin {"lock", "decode"},
           NEW p \in Plugins
    PROVE  writer[p] # w
BY LiveConfigAssumption DEF LiveInv, LockIsKept, Builders

LEMMA BuildLive ==
    ASSUME LiveInv, NEW w \in Builders, BuildSteps(w)
    PROVE  LiveInv'
<1> DEFINE p == build[w].id
<1>0. LiveTypes /\ LockIsKept /\ BotBuildsNext
    BY LockedTypes DEF LiveInv
<1>1. build[w].pc # "idle" /\ p \in Plugins
    BY <1>0 DEF BuildSteps, Lock, ReadNothing, DecodeFirst, DecodeSecond, AppendCommand,
                LockIsKept
\* The parts that do not depend on the step.
<1>2. UNCHANGED <<file, due, missed, todo, watched, readers, exec>>
    BY DEF BuildSteps, Lock, ReadNothing, DecodeFirst, DecodeSecond, AppendCommand
<1>3. ASSUME build' \in [Builders -> Build], object' \in [Plugins -> Config],
             collection' \in Seq(Command),
             writer' \in [Plugins -> Builders \union {NoWriter}],
             build'[w].id = p, \A v \in Builders : v # w => build'[v] = build[v],
             LockIsKept'
      PROVE  LiveInv'
    <2>1. LiveTypes'
        BY <1>0, <1>2, <1>3 DEF LiveTypes
    <2>2. BotBuildsNext'
        BY <1>0, <1>1, <1>2, <1>3 DEF BotBuildsNext, Builders
    <2> QED
        BY <1>3, <2>1, <2>2, LockedTypes DEF LiveInv
<1>4. /\ build \in [Builders -> Build] /\ object \in [Plugins -> Config]
      /\ collection \in Seq(Command) /\ writer \in [Plugins -> Builders \union {NoWriter}]
    BY <1>0 DEF LiveTypes
<1>5. CASE Lock(w)
    <2>1. /\ build' = [build EXCEPT ![w].pc = "lock"] /\ writer[p] = NoWriter
          /\ writer' = [writer EXCEPT ![p] = w] /\ UNCHANGED <<object, collection>>
        BY <1>5 DEF Lock
    <2>2. /\ build' \in [Builders -> Build] /\ build'[w].pc = "lock" /\ build'[w].id = p
          /\ \A v \in Builders : v # w => build'[v] = build[v]
        BY <1>4, <2>1, BuilderGoes DEF BuildPcs
    <2>3. LockIsKept'
        BY <1>1, <1>2, <2>1, <2>2, BuilderLive
    <2> QED
        BY <1>3, <1>4, <2>1, <2>2, <2>3
<1>6. CASE ReadNothing(w)
    <2>1. /\ build' = [build EXCEPT ![w].pc = "append"] /\ writer[p] = w
          /\ writer' = [writer EXCEPT ![p] = NoWriter] /\ UNCHANGED <<object, collection>>
        BY <1>6 DEF ReadNothing, Locked
    <2>2. /\ build' \in [Builders -> Build] /\ build'[w].pc = "append" /\ build'[w].id = p
          /\ \A v \in Builders : v # w => build'[v] = build[v]
        BY <1>4, <2>1, BuilderGoes DEF BuildPcs
    <2>3. LockIsKept'
        BY <1>1, <1>2, <2>1, <2>2, BuilderLive
    <2> QED
        BY <1>3, <1>4, <2>1, <2>2, <2>3
<1>7. CASE DecodeFirst(w)
    <2>1. /\ build' \in [Builders -> Build] /\ object' \in [Plugins -> Config]
          /\ build'[w].pc = "decode" /\ build'[w].id = p /\ Locked(w)
          /\ \A v \in Builders : v # w => build'[v] = build[v]
          /\ UNCHANGED <<writer, collection>>
        BY <1>7, DecodeFirstEffect
    <2>2. writer' = [writer EXCEPT ![p] = w] /\ writer[p] = w /\ readers[p] = {}
        BY <1>1, <1>4, <2>1 DEF Locked
    <2>3. LockIsKept'
        BY <1>1, <1>2, <2>1, <2>2, BuilderLive
    <2> QED
        BY <1>3, <1>4, <2>1, <2>3
<1>8. CASE DecodeSecond(w)
    <2>1. /\ build' \in [Builders -> Build] /\ object' \in [Plugins -> Config]
          /\ build'[w].pc \in {"append", AfterBuild(w)} /\ build'[w].id = p
          /\ \A v \in Builders : v # w => build'[v] = build[v]
          /\ writer' = [writer EXCEPT ![p] = NoWriter] /\ UNCHANGED collection
          /\ build[w].pc = "decode"
        BY <1>8, DecodeSecondEffect
    <2>2. writer[p] = w
        BY <1>0, <2>1 DEF LockIsKept
    <2>3. build'[w].pc \notin {"lock", "decode"} /\ (build'[w].pc = "watch" => w = BotGo)
        BY <2>1 DEF AfterBuild
    <2>4. LockIsKept'
        BY <1>1, <1>2, <2>1, <2>2, <2>3, BuilderLive
    <2> QED
        BY <1>3, <1>4, <2>1, <2>4
<1>9. CASE AppendCommand(w)
    <2>1. /\ build[w].pc = "append"
          /\ collection' = Appended([id |-> p, cfg |-> build[w].cfg])
          /\ build' = [build EXCEPT ![w].pc = AfterBuild(w)]
          /\ UNCHANGED <<object, writer>>
        BY <1>9 DEF AppendCommand
    <2>2. [id |-> p, cfg |-> build[w].cfg] \in Command
        BY <1>1, <1>4 DEF Command, Build, Commands
    <2>3. collection' \in Seq(Command)
        BY <1>4, <2>1, <2>2, AppendedCommand
    <2>4. AfterBuild(w) \in BuildPcs
        BY DEF AfterBuild, BuildPcs
    <2>5. /\ build' \in [Builders -> Build] /\ build'[w].pc = AfterBuild(w)
          /\ build'[w].id = p /\ \A v \in Builders : v # w => build'[v] = build[v]
        BY <1>4, <2>1, <2>4, BuilderGoes
    <2>6. build'[w].pc \notin {"lock", "decode"} /\ (build'[w].pc = "watch" => w = BotGo)
        BY <2>5 DEF AfterBuild
    <2>7. writer[p] # w
        BY <1>1, <2>1, OutsideLock
    <2>8. LockIsKept'
        BY <1>1, <1>2, <2>1, <2>5, <2>6, <2>7, BuilderLive
    <2> QED
        BY <1>3, <1>4, <2>1, <2>3, <2>5, <2>8
<1> QED
    BY <1>5, <1>6, <1>7, <1>8, <1>9 DEF BuildSteps

\* The bot's goroutine goes on to the next command.
LEMMA NextCommandLive ==
    ASSUME LiveInv, Watch \/ AppendPlain
    PROVE  LiveInv'
<1>0. LiveTypes /\ LockIsKept /\ BotBuildsNext
    BY LockedTypes DEF LiveInv
<1>1. CASE Watch
    <2>1. /\ build[BotGo].pc = "watch" /\ build' = [build EXCEPT ![BotGo].pc = "idle"]
          /\ watched' = watched \union {build[BotGo].id} /\ todo' = Tail(todo)
          /\ UNCHANGED <<file, due, missed, object, writer, readers, collection, exec>>
        BY <1>1 DEF Watch
    <2>2. BotGo \in Builders /\ build \in [Builders -> Build] /\ "idle" \in BuildPcs
        BY <1>0 DEF Builders, LiveTypes, BuildPcs
    <2>3. /\ build' \in [Builders -> Build] /\ build'[BotGo].pc = "idle"
          /\ build'[BotGo].id = build[BotGo].id
          /\ \A v \in Builders : v # BotGo => build'[v] = build[v]
        BY <2>1, <2>2, BuilderGoes
    <2>4. build[BotGo].id \in Plugins /\ todo # <<>>
        BY <1>0, <2>1, <2>2 DEF LockIsKept, BotBuildsNext
    <2>5. Tail(todo) \in Seq(Commands)
        BY <1>0, <2>4 DEF LiveTypes
    <2>6. LiveTypes'
        BY <1>0, <2>1, <2>3, <2>4, <2>5 DEF LiveTypes
    <2>7. LockIsKept'
        BY <2>1, <2>2, <2>3, <2>4, OutsideLock, BuilderLive
    <2>8. BotBuildsNext'
        BY <2>3 DEF BotBuildsNext
    <2> QED
        BY <2>6, <2>7, <2>8, LockedTypes DEF LiveInv
<1>2. CASE AppendPlain
    <2>1. /\ build[BotGo].pc = "idle" /\ todo # <<>> /\ Head(todo) \in Plain
          /\ collection' = Appended([id |-> Head(todo), cfg |-> Default])
          /\ todo' = Tail(todo)
          /\ UNCHANGED <<file, due, missed, object, writer, readers, build, watched, exec>>
        BY <1>2 DEF AppendPlain
    <2>2. [id |-> Head(todo), cfg |-> Default] \in Command
        BY <2>1, Defaults DEF Command, Commands
    <2>3. collection' \in Seq(Command)
        BY <1>0, <2>1, <2>2, AppendedCommand DEF LiveTypes
    <2>4. Tail(todo) \in Seq(Commands)
        BY <1>0, <2>1 DEF LiveTypes
    <2>5. LiveTypes'
        BY <1>0, <2>1, <2>3, <2>4 DEF LiveTypes
    <2>6. LockIsKept'
        BY <1>0, <2>1 DEF LockIsKept
    <2>7. BotBuildsNext'
        BY <2>1 DEF BotBuildsNext
    <2> QED
        BY <2>5, <2>6, <2>7, LockedTypes DEF LiveInv
<1> QED
    BY <1>1, <1>2

-----------------------------------------------------------------------------
(***************************************************************************)
(* Workers                                                                 *)
(***************************************************************************)
LEMMA ValueType ==
    ASSUME LiveTypes, NEW c \in Command
    PROVE  Value(c) \in Config
BY LiveConfigAssumption DEF Value, LiveTypes, Command

\* What a step of a worker changes.
LEMMA WorkerEffect ==
    ASSUME LiveInv, NEW e \in Executors,
           ExecuteSteps(e) \/ \E i \in DOMAIN collection : FindFirstMatched(e, i)
    PROVE  /\ exec' \in [Executors -> Worker]
           /\ \A f \in Executors : f # e => exec'[f] = exec[f]
           /\ UNCHANGED <<file, due, missed, object, writer, collection, build, todo,
                          watched>>
           /\ \/ /\ \E i \in 1 .. Len(collection) : exec'[e].cmd = collection[i]
                 /\ exec'[e].pc = "found" /\ readers' = readers /\ exec[e].pc # "running"
              \/ /\ exec[e].pc = "found" /\ exec'[e].pc = "running"
                 /\ exec'[e].cmd = exec[e].cmd
                 /\ exec[e].cmd.id \in Plugins /\ writer[exec[e].cmd.id] = NoWriter
                 /\ exec'[e].seen.a = Value(exec[e].cmd).a
                 /\ readers' = [readers EXCEPT ![exec[e].cmd.id] = @ \union {e}]
              \/ /\ exec[e].pc = "found" /\ exec'[e].pc = "done" /\ readers' = readers
                 /\ exec'[e].cmd = exec[e].cmd
                 /\ exec'[e].seen = Default
              \/ /\ exec[e].pc = "running" /\ exec'[e].pc = "done"
                 /\ exec'[e].cmd = exec[e].cmd
                 /\ exec'[e].seen.a = exec[e].seen.a
                 /\ exec'[e].seen.b = Value(exec[e].cmd).b
                 /\ readers' = [readers EXCEPT ![exec[e].cmd.id] = @ \ {e}]
<1>0. LiveTypes /\ exec \in [Executors -> Worker]
    BY LockedTypes DEF LiveInv, LiveTypes
<1>1. exec[e] \in Worker /\ exec[e].cmd \in Command /\ exec[e].seen \in Config
    BY <1>0 DEF Worker
<1>2. Value(exec[e].cmd).a \in Version /\ Value(exec[e].cmd).b \in Version
    BY <1>0, <1>1, ValueType DEF Config
<1>3. ASSUME NEW i \in DOMAIN collection, FindFirstMatched(e, i)
      PROVE  /\ exec' \in [Executors -> Worker]
             /\ \A f \in Executors : f # e => exec'[f] = exec[f]
             /\ exec'[e].cmd = collection[i] /\ i \in 1 .. Len(collection)
             /\ exec'[e].pc = "found" /\ exec[e].pc # "running" /\ readers' = readers
    <2> DEFINE new == [exec[e] EXCEPT !.pc = "found", !.cmd = collection[i]]
    <2>1. i \in 1 .. Len(collection) /\ collection[i] \in Command
        BY <1>0 DEF LiveTypes
    <2>2. new \in Worker /\ new.pc = "found" /\ new.cmd = collection[i]
        BY <1>1, <2>1 DEF Worker
    <2>3. exec' = [exec EXCEPT ![e] = new]
        BY <1>3 DEF FindFirstMatched
    <2> HIDE DEF new
    <2> QED
        BY ZenonT(60), <1>0, <1>3, <2>1, <2>2, <2>3 DEF FindFirstMatched
<1>4. ASSUME BeginExecute(e)
      PROVE  /\ exec' \in [Executors -> Worker]
             /\ \A f \in Executors : f # e => exec'[f] = exec[f]
             /\ exec'[e].pc = "running" /\ exec'[e].cmd = exec[e].cmd
             /\ exec'[e].seen.a = Value(exec[e].cmd).a
    <2> DEFINE a == Value(exec[e].cmd).a
               see == [exec[e].seen EXCEPT !.a = a]
               new == [exec[e] EXCEPT !.pc = "running", !.seen = see]
    <2>1. see \in Config /\ see.a = a
        BY <1>1, <1>2, Fields
    <2>2. exec' = [exec EXCEPT ![e] = new]
        BY <1>4 DEF BeginExecute
    <2> HIDE DEF see
    <2>3. /\ new \in Worker /\ new.pc = "running" /\ new.cmd = exec[e].cmd /\ new.seen = see
        BY <1>1, <2>1 DEF Worker
    <2> HIDE DEF new
    <2> QED
        BY <1>0, <2>1, <2>2, <2>3
<1>5. ASSUME EndExecute(e)
      PROVE  /\ exec' \in [Executors -> Worker]
             /\ \A f \in Executors : f # e => exec'[f] = exec[f]
             /\ exec'[e].pc = "done" /\ exec'[e].cmd = exec[e].cmd
             /\ exec'[e].seen.a = exec[e].seen.a
             /\ exec'[e].seen.b = Value(exec[e].cmd).b
    <2> DEFINE b == Value(exec[e].cmd).b
               see == [exec[e].seen EXCEPT !.b = b]
               new == [exec[e] EXCEPT !.pc = "done", !.seen = see]
    <2>1. see \in Config /\ see.b = b /\ see.a = exec[e].seen.a
        BY <1>1, <1>2, Fields
    <2>2. exec' = [exec EXCEPT ![e] = new]
        BY <1>5 DEF EndExecute
    <2> HIDE DEF see
    <2>3. /\ new \in Worker /\ new.pc = "done" /\ new.cmd = exec[e].cmd /\ new.seen = see
        BY <1>1, <2>1 DEF Worker
    <2> HIDE DEF new
    <2> QED
        BY <1>0, <2>1, <2>2, <2>3
<1>6. ASSUME ExecutePlain(e)
      PROVE  /\ exec' \in [Executors -> Worker]
             /\ \A f \in Executors : f # e => exec'[f] = exec[f]
             /\ exec'[e].pc = "done" /\ exec'[e].cmd = exec[e].cmd /\ exec'[e].seen = Default
    <2> DEFINE new == [exec[e] EXCEPT !.pc = "done", !.seen = Default]
    <2>1. exec' = [exec EXCEPT ![e] = new]
        BY <1>6 DEF ExecutePlain
    <2>2. new \in Worker /\ new.pc = "done" /\ new.cmd = exec[e].cmd /\ new.seen = Default
        BY <1>1, Defaults DEF Worker
    <2> HIDE DEF new
    <2> QED
        BY <1>0, <2>1, <2>2
<1>7. UNCHANGED <<file, due, missed, object, writer, collection, build, todo, watched>>
    BY DEF ExecuteSteps, BeginExecute, EndExecute, ExecutePlain, FindFirstMatched
<1>8. CASE BeginExecute(e)
    BY <1>4, <1>7, <1>8 DEF BeginExecute
<1>9. CASE EndExecute(e)
    BY <1>5, <1>7, <1>9 DEF EndExecute
<1>10. CASE ExecutePlain(e)
    BY <1>6, <1>7, <1>10 DEF ExecutePlain
<1> QED
    BY <1>3, <1>7, <1>8, <1>9, <1>10 DEF ExecuteSteps

LEMMA WorkerLive ==
    ASSUME LiveInv, NEW e \in Executors,
           ExecuteSteps(e) \/ \E i \in DOMAIN collection : FindFirstMatched(e, i)
    PROVE  LiveInv'
<1>0. LiveTypes /\ LockIsKept /\ BotBuildsNext
    BY LockedTypes DEF LiveInv
<1>1. readers \in [Plugins -> SUBSET Executors]
    BY <1>0 DEF LiveTypes
<1>2. exec[e].pc = "running" => exec[e].cmd.id \in Plugins
    BY <1>0 DEF LockIsKept
<1>3. readers' \in [Plugins -> SUBSET Executors]
    BY <1>1, <1>2, WorkerEffect
<1>4. LiveTypes'
    BY <1>0, <1>3, WorkerEffect DEF LiveTypes
<1>5. BotBuildsNext'
    BY <1>0, WorkerEffect DEF BotBuildsNext
<1>6. \A p \in Plugins : writer[p] # NoWriter => readers'[p] \subseteq readers[p]
    BY <1>1, <1>2, WorkerEffect
<1>7. \A w \in Builders : build[w].pc = "decode" =>
          /\ build[w].id \in Plugins /\ readers[build[w].id] = {}
          /\ writer[build[w].id] # NoWriter
    BY <1>0, LiveConfigAssumption DEF LockIsKept
<1>8. \A w \in Builders : build[w].pc = "decode" => readers'[build[w].id] = {}
    BY <1>6, <1>7
<1>9. ASSUME NEW f \in Executors, exec'[f].pc = "running"
      PROVE  exec'[f].cmd.id \in Plugins /\ f \in readers'[exec'[f].cmd.id]
    <2>1. CASE f = e
        BY <1>1, <1>9, <2>1, WorkerEffect
    <2>2. CASE f # e
        <3>1. exec'[f] = exec[f] /\ exec[f].cmd.id \in Plugins /\ f \in readers[exec[f].cmd.id]
            BY <1>0, <1>9, <2>2, WorkerEffect DEF LockIsKept
        <3>2. \A p \in Plugins : f \in readers[p] => f \in readers'[p]
            BY <1>1, <1>2, <2>2, WorkerEffect
        <3> QED
            BY <3>1, <3>2
    <2> QED
        BY <2>1, <2>2
<1>10. UNCHANGED <<writer, build>>
    BY WorkerEffect
<1>11. LockIsKept'
    BY <1>0, <1>8, <1>9, <1>10 DEF LockIsKept
<1> QED
    BY <1>4, <1>5, <1>11, LockedTypes DEF LiveInv

LEMMA LiveStep == LiveInv /\ [Next]_vars => LiveInv'
<1>1. ASSUME LiveInv, UNCHANGED vars PROVE LiveInv'
    <2>1. LiveTypes' /\ LockIsKept' /\ BotBuildsNext'
        BY <1>1, LockedTypes DEF vars, LiveInv, LiveTypes, LockIsKept, BotBuildsNext
    <2> QED
        BY <2>1, LockedTypes DEF LiveInv
<1> QED
    BY <1>1, FileChangesLive, BeginLive, BuildLive, NextCommandLive, WorkerLive
       DEF Next, BotSteps

\* The invariant of the lock, for any number of plugins and workers.
THEOREM LiveInvariant == Spec => []LiveInv
BY LiveInit, LiveStep, PTL DEF Spec

\* The types, and that nobody executes a command while its file is decoded.
THEOREM LiveTypeCorrect == Spec => []TypeOK
<1>1. LiveInv => TypeOK
    BY DEF LiveInv
<1> QED
    BY <1>1, LiveInvariant, PTL

-----------------------------------------------------------------------------
(***************************************************************************)
(* No execution sees half of a configuration. A file that cannot be        *)
(* decoded leaves a shared config half written, so the files of plugins    *)
(* with a shared config have to be good, or missing.                       *)
(***************************************************************************)
SharedConfigsDecode == \A p \in Shared : "bad" \notin Contents[p]

LEMMA TornInit == Init => OnlyDecodingTears
<1> SUFFICES ASSUME Init PROVE OnlyDecodingTears
    OBVIOUS
<1>1. Untorn(Default)
    BY Defaults DEF Untorn
<1>2. \A w \in Builders : build[w].pc = "idle"
    BY DEF Init, NewBuild
<1>3. \A e \in Executors : exec[e].pc = "idle" /\ exec[e].cmd.cfg = Default
    BY DEF Init
<1>4. \A p \in Shared : object[p] = Default
    BY LiveConfigAssumption DEF Init
<1>5. collection = <<>> /\ \A p \in Plugins : file[p].content \in Contents[p]
    BY DEF Init
<1> QED
    BY <1>1, <1>2, <1>3, <1>4, <1>5 DEF OnlyDecodingTears, NoTornConfig

\* A builder that neither starts nor ends decoding, and nobody else, moved.
LEMMA BuilderTears ==
    ASSUME LiveInv, OnlyDecodingTears, NEW w \in Builders,
           build[w].pc # "decode", build'[w].pc # "decode",
           \A v \in Builders : v # w => build'[v] = build[v],
           build'[w].pc \in {"build", "lock", "append"} => Untorn(build'[w].cfg),
           \A p \in Plugins : file'[p].content \in Contents[p],
           \A i \in 1 .. Len(collection') : Untorn(collection'[i].cfg),
           UNCHANGED <<object, exec>>
    PROVE  OnlyDecodingTears'
<1>1. \A p \in Shared, v \in Builders : Decodes(v, p)' <=> Decodes(v, p)
    BY DEF Decodes
<1>2. \A v \in Builders :
         /\ build'[v].pc = "decode" /\ build'[v].id \in Shared => ~build'[v].bad
         /\ build'[v].pc \in {"build", "lock", "append"} => Untorn(build'[v].cfg)
         /\ build'[v].pc = "decode" /\ build'[v].id \in Shared => Untorn(build'[v].cfg)
    BY DEF OnlyDecodingTears
<1>3. \A p \in Shared : (\A v \in Builders : ~Decodes(v, p)') => Untorn(object'[p])
    BY <1>1 DEF OnlyDecodingTears
<1>4. \A e \in Executors : /\ Untorn(exec'[e].cmd.cfg)
                           /\ exec'[e].pc = "running" => exec'[e].seen.a = Value(exec[e].cmd)'.a
    BY DEF OnlyDecodingTears, Value
<1>5. NoTornConfig'
    BY DEF OnlyDecodingTears, NoTornConfig
<1> QED
    BY <1>2, <1>3, <1>4, <1>5 DEF OnlyDecodingTears, Untorn

LEMMA BuildTears ==
    ASSUME SharedConfigsDecode, LiveInv, OnlyDecodingTears, NEW w \in Builders, BuildSteps(w)
    PROVE  OnlyDecodingTears'
<1> DEFINE p == build[w].id
<1>0. LiveTypes /\ LockIsKept
    BY LockedTypes DEF LiveInv
<1>1. build \in [Builders -> Build] /\ collection \in Seq(Command)
    BY <1>0 DEF LiveTypes
<1>2. CASE Lock(w)
    <2>1. /\ build[w].pc = "build" /\ build' = [build EXCEPT ![w].pc = "lock"]
          /\ UNCHANGED <<file, object, collection, exec>>
        BY <1>2 DEF Lock
    <2>2. /\ build'[w].pc = "lock" /\ build'[w].cfg = build[w].cfg
          /\ \A v \in Builders : v # w => build'[v] = build[v]
        BY <1>1, <2>1, BuilderGoes DEF BuildPcs
    <2>3. Untorn(build[w].cfg)
        BY <2>1 DEF OnlyDecodingTears
    <2>4. /\ \A q \in Plugins : file'[q].content \in Contents[q]
          /\ \A i \in 1 .. Len(collection') : Untorn(collection'[i].cfg)
        BY <2>1 DEF OnlyDecodingTears
    <2> QED
        BY <2>1, <2>2, <2>3, <2>4, BuilderTears
<1>3. CASE ReadNothing(w)
    <2>1. /\ build[w].pc = "lock" /\ build' = [build EXCEPT ![w].pc = "append"]
          /\ UNCHANGED <<file, object, collection, exec>>
        BY <1>3 DEF ReadNothing
    <2>2. /\ build'[w].pc = "append" /\ build'[w].cfg = build[w].cfg
          /\ \A v \in Builders : v # w => build'[v] = build[v]
        BY <1>1, <2>1, BuilderGoes DEF BuildPcs
    <2>3. Untorn(build[w].cfg)
        BY <2>1 DEF OnlyDecodingTears
    <2>4. /\ \A q \in Plugins : file'[q].content \in Contents[q]
          /\ \A i \in 1 .. Len(collection') : Untorn(collection'[i].cfg)
        BY <2>1 DEF OnlyDecodingTears
    <2> QED
        BY <2>1, <2>2, <2>3, <2>4, BuilderTears
<1>4. CASE AppendCommand(w)
    <2> DEFINE c == [id |-> p, cfg |-> build[w].cfg]
    <2>1. /\ build[w].pc = "append" /\ build' = [build EXCEPT ![w].pc = AfterBuild(w)]
          /\ collection' = Appended(c)
          /\ UNCHANGED <<file, object, exec>>
        BY <1>4 DEF AppendCommand
    <2>2. AfterBuild(w) \in BuildPcs /\ AfterBuild(w) \in {"idle", "watch"}
        BY DEF AfterBuild, BuildPcs
    <2>3. /\ build'[w].pc = AfterBuild(w)
          /\ \A v \in Builders : v # w => build'[v] = build[v]
        BY <1>1, <2>1, <2>2, BuilderGoes
    <2>4. c \in Command /\ Untorn(c.cfg)
        BY <1>1, <2>1 DEF OnlyDecodingTears, Command, Build
    <2>5. \A i \in 1 .. Len(collection') : Untorn(collection'[i].cfg)
        BY <1>1, <2>1, <2>4, AppendedCommand DEF OnlyDecodingTears
    <2>6. \A q \in Plugins : file'[q].content \in Contents[q]
        BY <2>1 DEF OnlyDecodingTears
    <2> QED
        BY <2>1, <2>2, <2>3, <2>5, <2>6, BuilderTears
\* Decoding: only the object of the plugin whose lock w holds changes, and nobody
\* executes a command of it.
<1>5. ASSUME \A q \in Plugins : q # p => object'[q] = object[q],
             p \notin Shared => object' = object,
             p \in Plugins, readers[p] = {}, UNCHANGED <<file, collection, exec>>
      PROVE  /\ \A q \in Plugins : file'[q].content \in Contents[q]
             /\ \A i \in 1 .. Len(collection') : Untorn(collection'[i].cfg)
             /\ \A e \in Executors :
                   /\ Untorn(exec'[e].cmd.cfg)
                   /\ exec'[e].pc = "running" => exec'[e].seen.a = Value(exec[e].cmd)'.a
             /\ NoTornConfig'
    <2>1. \A e \in Executors : exec[e].pc = "running" => Value(exec[e].cmd)' = Value(exec[e].cmd)
        <3> SUFFICES ASSUME NEW e \in Executors, exec[e].pc = "running"
                     PROVE  Value(exec[e].cmd)' = Value(exec[e].cmd)
            OBVIOUS
        <3>1. exec[e].cmd.id \in Plugins /\ exec[e].cmd.id # p
            BY <1>0, <1>5 DEF LockIsKept
        <3> QED
            BY <1>5, <3>1 DEF Value
    <2> QED
        BY <1>5, <2>1 DEF OnlyDecodingTears, NoTornConfig
<1>6. CASE DecodeFirst(w)
    <2>1. /\ p \in Plugins /\ build[w].pc = "lock" /\ readers[p] = {}
          /\ build'[w].pc = "decode" /\ build'[w].id = p
          /\ build'[w].bad = (file[p].content = "bad")
          /\ \A v \in Builders : v # w => build'[v] = build[v]
          /\ \A q \in Plugins : q # p => object'[q] = object[q]
          /\ p \in Shared => build'[w].cfg = build[w].cfg
          /\ p \notin Shared => object' = object
          /\ UNCHANGED <<file, collection, exec>>
        BY <1>6, DecodeFirstEffect DEF Locked
    <2>2. p \in Shared => ~build'[w].bad /\ Untorn(build'[w].cfg)
        BY <2>1 DEF OnlyDecodingTears, SharedConfigsDecode
    <2>3. \A v \in Builders :
             /\ build'[v].pc = "decode" /\ build'[v].id \in Shared => ~build'[v].bad
             /\ build'[v].pc \in {"build", "lock", "append"} => Untorn(build'[v].cfg)
             /\ build'[v].pc = "decode" /\ build'[v].id \in Shared => Untorn(build'[v].cfg)
        BY <2>1, <2>2 DEF OnlyDecodingTears
    <2>4. Decodes(w, build[w].id)'
        BY <2>1 DEF Decodes
    <2>5. \A q \in Shared : q # p /\ (\A v \in Builders : ~Decodes(v, q)')
             => Untorn(object'[q])
        <3>1. \A q \in Shared, v \in Builders : q # p => (Decodes(v, q)' <=> Decodes(v, q))
            BY <2>1 DEF Decodes
        <3> QED
            BY <2>1, <3>1, LiveConfigAssumption DEF OnlyDecodingTears
    <2>6. \A q \in Shared : (\A v \in Builders : ~Decodes(v, q)') => Untorn(object'[q])
        BY <2>1, <2>5 DEF Decodes
    <2> QED
        BY <1>5, <2>1, <2>3, <2>6 DEF OnlyDecodingTears, Untorn
<1>7. CASE DecodeSecond(w)
    <2>1. /\ p \in Plugins /\ build[w].pc = "decode"
          /\ build'[w].id = p
          /\ \A v \in Builders : v # w => build'[v] = build[v]
          /\ \A q \in Plugins : q # p => object'[q] = object[q]
          /\ \/ /\ ~build[w].bad /\ build'[w].pc = "append"
                /\ Target(w)' = [Target(w) EXCEPT !.b = Target(w).a]
                /\ p \in Shared => build'[w].cfg = build[w].cfg
                /\ p \notin Shared => object' = object
             \/ /\ build[w].bad /\ build'[w].pc = AfterBuild(w)
                /\ object' = object
          /\ UNCHANGED <<file, collection, exec>>
        BY <1>7, DecodeSecondEffect
    <2>2. Target(w)' = IF p \in Shared THEN object'[p] ELSE build'[w].cfg
        BY <2>1 DEF Target
    <2>3. ASSUME build'[w].pc = "append"
          PROVE  Untorn(build'[w].cfg) /\ (p \in Shared => Untorn(object'[p]))
        <3>1. Target(w) \in Config
            BY <2>1, TargetType
        <3>2. Target(w)' = [Target(w) EXCEPT !.b = Target(w).a]
            BY <2>1, <2>3 DEF AfterBuild
        <3>3. Untorn([Target(w) EXCEPT !.b = Target(w).a])
            BY <3>1 DEF Config, Untorn
        <3>4. p \in Shared => Untorn(object'[p]) /\ Untorn(build'[w].cfg)
            BY <2>1, <2>2, <2>3, <3>2, <3>3 DEF OnlyDecodingTears, AfterBuild
        <3>5. p \notin Shared => Untorn(build'[w].cfg)
            BY <2>2, <3>2, <3>3
        <3> QED
            BY <3>4, <3>5
    <2>4. p \in Shared => build'[w].pc = "append"
        BY <2>1 DEF OnlyDecodingTears
    <2>5. build'[w].pc \in {"append", "idle", "watch"}
        BY <2>1 DEF AfterBuild
    <2>6. \A v \in Builders :
             /\ build'[v].pc = "decode" /\ build'[v].id \in Shared => ~build'[v].bad
             /\ build'[v].pc \in {"build", "lock", "append"} => Untorn(build'[v].cfg)
             /\ build'[v].pc = "decode" /\ build'[v].id \in Shared => Untorn(build'[v].cfg)
        BY <2>1, <2>3, <2>5 DEF OnlyDecodingTears
    <2>7. \A q \in Shared : (\A v \in Builders : ~Decodes(v, q)') => Untorn(object'[q])
        <3> TAKE q \in Shared
        <3>1. CASE q = p
            BY <2>3, <2>4, <3>1
        <3>2. CASE q # p
            <4>1. \A v \in Builders : Decodes(v, q)' <=> Decodes(v, q)
                BY <2>1, <3>2 DEF Decodes
            <4> QED
                BY <2>1, <3>2, <4>1, LiveConfigAssumption DEF OnlyDecodingTears
        <3> QED
            BY <3>1, <3>2
    <2>8. readers[p] = {} /\ (p \notin Shared => object' = object)
        BY <1>0, <2>1 DEF LockIsKept
    <2> QED
        BY <1>5, <2>1, <2>6, <2>7, <2>8 DEF OnlyDecodingTears, Untorn
<1> QED
    BY <1>2, <1>3, <1>4, <1>6, <1>7 DEF BuildSteps

\* A worker has the read lock between the two fields it reads, so nobody decodes.
LEMMA WorkerTears ==
    ASSUME LiveInv, OnlyDecodingTears, NEW e \in Executors,
           ExecuteSteps(e) \/ \E i \in DOMAIN collection : FindFirstMatched(e, i)
    PROVE  OnlyDecodingTears'
<1>0. LockIsKept
    BY DEF LiveInv
<1>1. UNCHANGED <<file, object, collection, build>>
      /\ \A f \in Executors : f # e => exec'[f] = exec[f]
    BY WorkerEffect
<1>2. \A c : Value(c)' = Value(c)
    BY <1>1 DEF Value
<1>3. exec[e].pc = "running" => Untorn(Value(exec[e].cmd))
    <2> SUFFICES ASSUME exec[e].pc = "running" PROVE Untorn(Value(exec[e].cmd))
        OBVIOUS
    <2> DEFINE p == exec[e].cmd.id
    <2>1. CASE p \in Shared
        <3>1. e \in readers[p]
            BY <1>0 DEF LockIsKept
        <3>2. \A w \in Builders : ~Decodes(w, p)
            BY <1>0, <3>1 DEF LockIsKept, Decodes
        <3> QED
            BY <2>1, <3>2 DEF OnlyDecodingTears, Value
    <2>2. CASE p \notin Shared
        BY <2>2 DEF OnlyDecodingTears, Value
    <2> QED
        BY <2>1, <2>2
<1>4. Untorn(exec'[e].cmd.cfg)
    <2>1. CASE exec'[e].cmd = exec[e].cmd
        BY <2>1 DEF OnlyDecodingTears
    <2>2. CASE \E i \in 1 .. Len(collection) : exec'[e].cmd = collection[i]
        BY <2>2 DEF OnlyDecodingTears
    <2> QED
        BY <2>1, <2>2, WorkerEffect
<1>5. exec'[e].pc = "running" => exec'[e].seen.a = Value(exec'[e].cmd).a
    BY WorkerEffect
<1>6. exec'[e].pc = "done" => exec'[e].seen.a = exec'[e].seen.b
    <2>1. Default.a = Default.b
        BY Defaults
    <2>2. exec[e].pc = "running" => exec[e].seen.a = Value(exec[e].cmd).a
        BY DEF OnlyDecodingTears
    <2> QED
        BY <1>3, <2>1, <2>2, WorkerEffect DEF Untorn
<1>7. NoTornConfig'
    BY <1>1, <1>6 DEF OnlyDecodingTears, NoTornConfig
<1>8. \A f \in Executors :
         /\ Untorn(exec'[f].cmd.cfg)
         /\ exec'[f].pc = "running" => exec'[f].seen.a = Value(exec'[f].cmd).a
    BY <1>1, <1>4, <1>5 DEF OnlyDecodingTears
<1>9. /\ \A p \in Plugins : file'[p].content \in Contents[p]
      /\ \A w \in Builders :
         /\ build'[w].pc = "decode" /\ build'[w].id \in Shared => ~build'[w].bad
         /\ build'[w].pc \in {"build", "lock", "append"} => Untorn(build'[w].cfg)
         /\ build'[w].pc = "decode" /\ build'[w].id \in Shared => Untorn(build'[w].cfg)
      /\ \A p \in Shared : (\A w \in Builders : ~Decodes(w, p)') => Untorn(object'[p])
      /\ \A i \in 1 .. Len(collection') : Untorn(collection'[i].cfg)
    BY <1>1 DEF OnlyDecodingTears, Decodes
<1> QED
    BY <1>2, <1>7, <1>8, <1>9 DEF OnlyDecodingTears, Untorn

LEMMA TornStep ==
    ASSUME SharedConfigsDecode, LiveInv, OnlyDecodingTears, [Next]_vars
    PROVE  OnlyDecodingTears'
<1>0. LiveTypes
    BY LockedTypes DEF LiveInv
<1>1. build \in [Builders -> Build] /\ collection \in Seq(Command)
    BY <1>0 DEF LiveTypes
<1>2. Untorn(Default)
    BY Defaults DEF Untorn
<1>3. ASSUME UNCHANGED <<object, exec, collection, build>>,
             \A p \in Plugins : file'[p].content \in Contents[p]
      PROVE  OnlyDecodingTears'
    <2>1. \A w \in Builders, p \in Shared : Decodes(w, p)' <=> Decodes(w, p)
        BY <1>3 DEF Decodes
    <2>2. \A c : Value(c)' = Value(c)
        BY <1>3 DEF Value
    <2> QED
        BY <1>3, <2>1, <2>2 DEF OnlyDecodingTears, NoTornConfig, Untorn
<1>4. CASE UNCHANGED vars
    BY <1>3, <1>4 DEF vars, OnlyDecodingTears
<1>5. ASSUME NEW p \in Plugins, NEW content \in Contents[p], FileChanges(p, content)
      PROVE  OnlyDecodingTears'
    <2>1. \A q \in Plugins : file'[q].content \in Contents[q]
        BY <1>0, <1>5 DEF FileChanges, OnlyDecodingTears, LiveTypes
    <2> QED
        BY <1>3, <1>5, <2>1 DEF FileChanges
<1>6. ASSUME NEW w \in Builders, NEW p \in Commands, build[w].pc = "idle",
             build' = [build EXCEPT ![w] = NewBuild("build", p)],
             UNCHANGED <<file, object, collection, exec>>
      PROVE  OnlyDecodingTears'
    <2>1. /\ build'[w].pc = "build" /\ build'[w].cfg = Default
          /\ \A v \in Builders : v # w => build'[v] = build[v]
        BY <1>1, <1>6, BuilderBegins
    <2>2. /\ \A q \in Plugins : file'[q].content \in Contents[q]
          /\ \A i \in 1 .. Len(collection') : Untorn(collection'[i].cfg)
        BY <1>6 DEF OnlyDecodingTears
    <2> QED
        BY <1>2, <1>6, <2>1, <2>2, BuilderTears
<1>7. CASE Register
    BY <1>6, <1>7 DEF Register, Builders, Commands
<1>8. ASSUME NEW p \in Plugins, Callback(p) PROVE OnlyDecodingTears'
    BY <1>6, <1>8 DEF Callback, Builders, Commands
<1>9. CASE Watch
    <2>1. /\ build[BotGo].pc = "watch" /\ build' = [build EXCEPT ![BotGo].pc = "idle"]
          /\ UNCHANGED <<file, object, collection, exec>> /\ BotGo \in Builders
        BY <1>9 DEF Watch, Builders
    <2>2. /\ build'[BotGo].pc = "idle"
          /\ \A v \in Builders : v # BotGo => build'[v] = build[v]
        BY <1>1, <2>1, BuilderGoes DEF BuildPcs
    <2>3. /\ \A q \in Plugins : file'[q].content \in Contents[q]
          /\ \A i \in 1 .. Len(collection') : Untorn(collection'[i].cfg)
        BY <2>1 DEF OnlyDecodingTears
    <2> QED
        BY <2>1, <2>2, <2>3, BuilderTears
<1>10. CASE AppendPlain
    <2> DEFINE c == [id |-> Head(todo), cfg |-> Default]
    <2>1. /\ build[BotGo].pc = "idle" /\ Head(todo) \in Commands
          /\ collection' = Appended(c) /\ BotGo \in Builders
          /\ UNCHANGED <<file, object, build, exec>>
        BY <1>10 DEF AppendPlain, Builders, Commands
    <2>2. c \in Command /\ Untorn(c.cfg)
        BY <1>2, <2>1, Defaults DEF Command
    <2>3. \A i \in 1 .. Len(collection') : Untorn(collection'[i].cfg)
        BY <1>1, <2>1, <2>2, AppendedCommand DEF OnlyDecodingTears
    <2>4. \A q \in Plugins : file'[q].content \in Contents[q]
        BY <2>1 DEF OnlyDecodingTears
    <2> QED
        BY <2>1, <2>3, <2>4, BuilderTears
<1> QED
    BY <1>4, <1>5, <1>7, <1>8, <1>9, <1>10, BuildTears, WorkerTears DEF Next, BotSteps

\* A function that is executed reads both fields of its configuration from one
\* version of the file, however builds and executions overlap, if no file of a
\* shared configuration is ever undecodable.
THEOREM ConfigIsNotTorn == ASSUME SharedConfigsDecode PROVE Spec => []NoTornConfig
<1>1. LiveInv /\ OnlyDecodingTears /\ [Next]_vars => OnlyDecodingTears'
    BY TornStep
<1>2. OnlyDecodingTears => NoTornConfig
    BY DEF OnlyDecodingTears
<1> QED
    BY <1>1, <1>2, TornInit, LiveInvariant, PTL DEF Spec

-----------------------------------------------------------------------------
(***************************************************************************)
(* What is found is current. When a command is registered twice, the bot's *)
(* goroutine and the watcher's may build it at the same time and the older *)
(* build may be appended last; so commands have to be distinct.            *)
(***************************************************************************)
CommandsAreDistinct == \A i, j \in 1 .. Len(Order) : Order[i] = Order[j] => i = j

LEMMA CurrentInit ==
    ASSUME CommandsAreDistinct, Init
    PROVE  CurrentInv
<1>1. \A w \in Builders : build[w].pc = "idle"
    BY DEF Init, NewBuild
<1>2. todo = Order /\ watched = {}
    BY DEF Init
<1> QED
    BY <1>1, <1>2 DEF CurrentInv, OneBuilder, BuildIsCurrent, QuietCommandIsCurrent,
                      CommandsAreDistinct, Builders

\* The two goroutines do not build the same plugin.
LEMMA BuildersDiffer ==
    ASSUME LiveInv, OneBuilder, NEW w \in Builders, NEW v \in Builders, v # w,
           build[w].pc # "idle", build[v].pc # "idle"
    PROVE  build[v].id # build[w].id
<1>1. ASSUME build[BotGo].pc # "idle", build[WatcherGo].pc # "idle"
      PROVE  build[BotGo].id # build[WatcherGo].id
    <2>1. todo \in Seq(Commands) /\ todo # <<>> /\ build[BotGo].id = Head(todo)
        BY <1>1 DEF LiveInv, TypeOK, BotBuildsNext
    <2>2. 1 \in 1 .. Len(todo) /\ Head(todo) = todo[1]
        BY <2>1
    <2> QED
        BY <1>1, <2>1, <2>2 DEF OneBuilder
<1> QED
    BY <1>1 DEF Builders

\* A plugin that nobody touches stays current.
LEMMA CurrentFrame ==
    ASSUME LiveTypes, NEW q \in Plugins, file'[q] = file[q], object'[q] = object[q],
           IndexOf(q) # 0 => /\ IndexOf(q)' = IndexOf(q)
                             /\ collection'[IndexOf(q)] = collection[IndexOf(q)],
           IsCurrent(q)
    PROVE  IsCurrent(q)'
<1>1. IndexOf(q) # 0 /\ Value(collection[IndexOf(q)]) = Latest(q)
    BY DEF IsCurrent
<1>2. collection[IndexOf(q)].id = q
    <2>1. collection \in Seq(Command)
        BY DEF LiveTypes
    <2> QED
        BY <1>1, <2>1, FirstIsFirst, IndexIsFirst DEF IsFirst
<1>3. Latest(q)' = Latest(q)
    BY DEF Latest
<1>4. IndexOf(q)' # 0 /\ collection'[IndexOf(q)'] = collection[IndexOf(q)]
    BY <1>1
<1>5. Value(collection[IndexOf(q)])' = Value(collection[IndexOf(q)])
    BY <1>2, <1>4 DEF Value
<1> QED
    BY <1>1, <1>3, <1>4, <1>5 DEF IsCurrent

LEMMA IndexFrame ==
    ASSUME collection' = collection, NEW q
    PROVE  IndexOf(q)' = IndexOf(q)
BY IndexIsFirst

\* A builder goes on: only its own plugin has to be looked at.
LEMMA BuilderCurrent ==
    ASSUME LiveInv, LiveTypes', CurrentInv, NEW w \in Builders, build[w].pc # "idle",
           NEW p \in Plugins, p = build[w].id, build'[w].id = p,
           \A v \in Builders : v # w => build'[v] = build[v],
           \A q \in Plugins : q # p =>
                 /\ object'[q] = object[q]
                 /\ IndexOf(q) # 0 => /\ IndexOf(q)' = IndexOf(q)
                                      /\ collection'[IndexOf(q)] = collection[IndexOf(q)],
           UNCHANGED <<file, due, missed, watched, todo>>,
           Settled(p) =>
               /\ build'[w].pc = "decode" => ~build'[w].bad /\ Target(w)'.a = file[p].ver
               /\ build'[w].pc = "append" => Target(w)' = Latest(p)
               /\ build'[w].pc \in {"watch", "idle"} => IsCurrent(p)'
    PROVE  CurrentInv'
<1>0. LiveTypes /\ LockIsKept
    BY LockedTypes DEF LiveInv
<1>1. OneBuilder'
    BY DEF CurrentInv, OneBuilder, Builders
<1>2. \A q : (Settled(q)' <=> Settled(q)) /\ Latest(q)' = Latest(q)
    BY DEF Settled, Latest
<1>3. \A q \in Plugins : q # p /\ IsCurrent(q) => IsCurrent(q)'
    BY <1>0, CurrentFrame
<1>4. ASSUME NEW v \in Builders, Settled(build'[v].id)
      PROVE  /\ build'[v].pc = "decode" =>
                    ~build'[v].bad /\ Target(v)'.a = file[build'[v].id].ver
             /\ build'[v].pc = "append" => Target(v)' = Latest(build'[v].id)
             /\ build'[v].pc = "watch"  => IsCurrent(build[v].id)'
    <2>1. CASE v = w
        BY <1>4, <2>1
    <2>2. CASE v # w /\ build[v].pc # "idle"
        <3>1. build'[v] = build[v] /\ build[v].id # p /\ build[v].id \in Plugins
            BY <1>0, <2>2, BuildersDiffer DEF CurrentInv, LockIsKept
        <3>2. Target(v)' = Target(v)
            BY <3>1 DEF Target
        <3>3. build[v].pc = "watch" => IsCurrent(build[v].id)
            BY <1>4, <3>1 DEF CurrentInv, BuildIsCurrent
        <3>4. IsCurrent(build[v].id) => IsCurrent(build[v].id)'
            BY <1>3, <3>1
        <3> QED
            BY <1>4, <3>1, <3>2, <3>3, <3>4 DEF CurrentInv, BuildIsCurrent
    <2>3. CASE v # w /\ build[v].pc = "idle"
        BY <2>3
    <2> QED
        BY <2>1, <2>2, <2>3
<1>5. BuildIsCurrent'
    BY <1>2, <1>4 DEF BuildIsCurrent
<1>6. ASSUME NEW q \in watched \ (due \union missed), ~Building(q)', file[q].content = "good"
      PROVE  IsCurrent(q)'
    <2>0. q \in Plugins /\ Settled(q)
        BY <1>0, <1>6 DEF LiveTypes, Settled
    <2>1. CASE q = p
        BY <1>6, <2>0, <2>1 DEF Building
    <2>2. CASE q # p
        <3>1. ~Building(q)
            BY <1>6, <2>2 DEF Building
        <3>2. IsCurrent(q)
            BY <1>6, <3>1 DEF CurrentInv, QuietCommandIsCurrent, IsCurrent, Latest
        <3> QED
            BY <1>3, <2>0, <2>2, <3>2
    <2> QED
        BY <2>1, <2>2
<1>7. QuietCommandIsCurrent'
    BY <1>6 DEF QuietCommandIsCurrent, IsCurrent, Latest
<1> QED
    BY <1>1, <1>5, <1>7 DEF CurrentInv

\* The steps of a build.
LEMMA BuildCurrent ==
    ASSUME LiveInv, LiveInv', CurrentInv, NEW w \in Builders, BuildSteps(w)
    PROVE  CurrentInv'
<1>0. LiveTypes /\ LiveTypes' /\ LockIsKept
    BY LockedTypes DEF LiveInv
<1>1. PICK p \in Plugins : build[w].pc # "idle" /\ p = build[w].id
    BY <1>0 DEF BuildSteps, Lock, ReadNothing, DecodeFirst, DecodeSecond, AppendCommand,
                LockIsKept
<1>2. UNCHANGED <<file, due, missed, todo, watched>>
    BY DEF BuildSteps, Lock, ReadNothing, DecodeFirst, DecodeSecond, AppendCommand
<1>3. build \in [Builders -> Build] /\ collection \in Seq(Command)
    BY <1>0 DEF LiveTypes
<1>4. Settled(p) =>
        /\ build[w].pc = "decode" => ~build[w].bad /\ Target(w).a = file[p].ver
        /\ build[w].pc = "append" => Target(w) = Latest(p)
    BY <1>1 DEF CurrentInv, BuildIsCurrent
<1>5. ASSUME build'[w].id = p, \A v \in Builders : v # w => build'[v] = build[v],
             \A q \in Plugins : q # p => object'[q] = object[q],
             UNCHANGED collection,
             Settled(p) =>
               /\ build'[w].pc = "decode" => ~build'[w].bad /\ Target(w)'.a = file[p].ver
               /\ build'[w].pc = "append" => Target(w)' = Latest(p)
               /\ build'[w].pc \notin {"watch", "idle"}
      PROVE  CurrentInv'
    <2>1. \A q \in Plugins : IndexOf(q)' = IndexOf(q)
        BY <1>5, IndexFrame
    <2> QED
        BY <1>0, <1>1, <1>2, <1>5, <2>1, BuilderCurrent
<1>6. CASE Lock(w)
    <2>1. build' = [build EXCEPT ![w].pc = "lock"] /\ UNCHANGED <<object, collection>>
        BY <1>6 DEF Lock
    <2>2. /\ build'[w].pc = "lock" /\ build'[w].id = p
          /\ \A v \in Builders : v # w => build'[v] = build[v]
        BY <1>1, <1>3, <2>1, BuilderGoes DEF BuildPcs
    <2> QED
        BY <1>5, <2>1, <2>2
<1>7. CASE ReadNothing(w)
    <2>1. /\ build' = [build EXCEPT ![w].pc = "append"] /\ UNCHANGED <<object, collection>>
          /\ file[p].content = "missing"
        BY <1>1, <1>7 DEF ReadNothing
    <2>2. /\ build'[w].pc = "append" /\ build'[w].id = p
          /\ \A v \in Builders : v # w => build'[v] = build[v]
        BY <1>1, <1>3, <2>1, BuilderGoes DEF BuildPcs
    <2>3. ~Settled(p)
        BY <2>1 DEF Settled
    <2> QED
        BY <1>5, <2>1, <2>2, <2>3
<1>8. CASE DecodeFirst(w)
    <2>1. /\ build'[w].pc = "decode" /\ build'[w].id = p /\ build[w].pc = "lock"
          /\ build'[w].bad = (file[p].content = "bad")
          /\ \A v \in Builders : v # w => build'[v] = build[v]
          /\ \A q \in Plugins : q # p => object'[q] = object[q]
          /\ Target(w)' = [Target(w) EXCEPT !.a = file[p].ver]
          /\ UNCHANGED collection
        BY <1>1, <1>8, DecodeFirstEffect
    <2>2. Target(w)'.a = file[p].ver
        <3>1. Target(w) \in Config /\ file[p].ver \in Version
            BY <1>1, TargetType
        <3> QED
            BY <2>1, <3>1, Fields
    <2>3. Settled(p) => ~build'[w].bad
        BY <2>1 DEF Settled
    <2> QED
        BY <1>5, <2>1, <2>2, <2>3
<1>9. CASE DecodeSecond(w)
    <2>1. /\ build'[w].id = p /\ build[w].pc = "decode"
          /\ \A v \in Builders : v # w => build'[v] = build[v]
          /\ \A q \in Plugins : q # p => object'[q] = object[q]
          /\ ~build[w].bad => /\ build'[w].pc = "append"
                              /\ Target(w)' = [Target(w) EXCEPT !.b = Target(w).a]
          /\ UNCHANGED collection
        BY <1>1, <1>9, DecodeSecondEffect
    <2>2. ASSUME Settled(p) PROVE build'[w].pc = "append" /\ Target(w)' = Latest(p)
        <3>1. ~build[w].bad /\ Target(w).a = file[p].ver
            BY <1>4, <2>1, <2>2
        <3>2. Target(w) \in Config /\ file[p].ver \in Version
            BY <1>1, TargetType
        <3>3. [Target(w) EXCEPT !.b = Target(w).a] = Latest(p)
            BY <3>1, <3>2 DEF Config, Latest
        <3> QED
            BY <2>1, <3>1, <3>3
    <2> QED
        BY <1>5, <2>1, <2>2
<1>10. CASE AppendCommand(w)
    <2>0. PICK c \in Command : /\ c = [id |-> p, cfg |-> build[w].cfg]
                               /\ c.id = p /\ c.cfg = build[w].cfg
        <3>1. [id |-> p, cfg |-> build[w].cfg] \in Command
            BY <1>1, <1>3 DEF Command, Build, Commands
        <3> QED
            BY <3>1
    <2>1. /\ build[w].pc = "append" /\ collection' = Appended(c)
          /\ build' = [build EXCEPT ![w].pc = AfterBuild(w)] /\ UNCHANGED object
        BY <1>1, <1>10, <2>0 DEF AppendCommand
    <2>2. AfterBuild(w) \in BuildPcs /\ AfterBuild(w) \in {"watch", "idle"}
        BY DEF AfterBuild, BuildPcs
    <2>3. /\ build'[w].pc = AfterBuild(w) /\ build'[w].id = p
          /\ \A v \in Builders : v # w => build'[v] = build[v]
        BY <1>1, <1>3, <2>1, <2>2, BuilderGoes
    <2>5. /\ IndexOf(p)' # 0 /\ collection'[IndexOf(p)'] = c
          /\ \A q \in Plugins : q # p /\ IndexOf(q) # 0 =>
                 /\ IndexOf(q)' = IndexOf(q)
                 /\ collection'[IndexOf(q)] = collection[IndexOf(q)]
        BY <1>3, <2>1, <2>0, AppendedCommand
    <2>6. Value(c)' = Target(w)
        BY <1>1, <2>1, <2>0 DEF Value, Target
    <2>7. Settled(p) => IsCurrent(p)'
        <3>1. Latest(p)' = Latest(p)
            BY <1>2, <2>3 DEF Latest
        <3>2. Value(collection[IndexOf(p)])' = Value(c)'
            BY <2>3, <2>5 DEF Value
        <3> QED
            BY <1>4, <2>1, <2>5, <2>6, <3>1, <3>2 DEF IsCurrent
    <2> QED
        BY <1>0, <1>1, <1>2, <2>1, <2>2, <2>3, <2>5, <2>7, BuilderCurrent
<1> QED
    BY <1>6, <1>7, <1>8, <1>9, <1>10 DEF BuildSteps

\* A change to the file of p: the watcher has to come, or the builder of p missed it.
LEMMA FileChangesCurrent ==
    ASSUME LiveInv, CurrentInv, NEW p \in Plugins, NEW content \in Contents[p],
           FileChanges(p, content)
    PROVE  CurrentInv'
<1>0. LiveTypes /\ LockIsKept
    BY LockedTypes DEF LiveInv
<1>1. /\ due' = (IF p \in watched THEN due \union {p} ELSE due)
      /\ missed' = (IF p \notin watched /\ Building(p) THEN missed \union {p} ELSE missed)
      /\ UNCHANGED <<object, writer, readers, collection, build, todo, watched, exec>>
    BY DEF FileChanges
<1>2. \A q \in Plugins : q # p => file'[q] = file[q]
    BY <1>0 DEF FileChanges, LiveTypes
<1>3. \A q \in Plugins : q # p =>
        /\ Settled(q)' => Settled(q)
        /\ Latest(q)' = Latest(q)
    BY <1>1, <1>2 DEF Settled, Latest
<1>4. \A q \in Plugins : q # p /\ IsCurrent(q) => IsCurrent(q)'
    BY <1>0, <1>1, <1>2, IndexFrame, CurrentFrame
<1>5. Building(p) \/ p \in watched => ~Settled(p)'
    BY <1>1 DEF Settled
<1>6. ASSUME NEW w \in Builders, Settled(build[w].id)', build[w].pc # "idle"
      PROVE  /\ build'[w].pc = "decode" =>
                    ~build'[w].bad /\ Target(w)'.a = file'[build'[w].id].ver
             /\ build'[w].pc = "append" => Target(w)' = Latest(build[w].id)'
             /\ build'[w].pc = "watch"  => IsCurrent(build[w].id)'
    <2>1. PICK q \in Plugins : q = build[w].id
        BY <1>0, <1>6 DEF LockIsKept
    <2>2. build'[w] = build[w] /\ Settled(q)'
        BY <1>1, <1>6, <2>1
    <2>3. q # p
        BY <1>5, <1>6, <2>1, <2>2 DEF Building
    <2>4. Target(w)' = Target(w) /\ file'[q].ver = file[q].ver
        BY <1>1, <1>2, <2>3 DEF Target
    <2>5. Settled(q) /\ Latest(q)' = Latest(q)
        BY <1>3, <2>2, <2>3
    <2>6. /\ build[w].pc = "decode" => ~build[w].bad /\ Target(w).a = file[q].ver
          /\ build[w].pc = "append" => Target(w) = Latest(q)
          /\ build[w].pc = "watch"  => IsCurrent(q)
        BY <2>1, <2>5 DEF CurrentInv, BuildIsCurrent
    <2>7. build[w].pc = "watch" => IsCurrent(q)'
        BY <1>4, <2>3, <2>6
    <2> QED
        BY <2>1, <2>2, <2>4, <2>5, <2>6, <2>7
<1>7. BuildIsCurrent'
    BY <1>1, <1>6 DEF BuildIsCurrent
<1>8. ASSUME NEW q \in watched', Settled(q)', ~Building(q)'
      PROVE  IsCurrent(q)'
    <2>1. q # p /\ q \in Plugins /\ q \in watched
        BY <1>0, <1>1, <1>5, <1>8 DEF LiveTypes
    <2>2. Settled(q) /\ ~Building(q)
        BY <1>1, <1>3, <1>8, <2>1 DEF Building
    <2>3. IsCurrent(q)
        BY <2>1, <2>2 DEF CurrentInv, QuietCommandIsCurrent, IsCurrent, Latest, Settled
    <2> QED
        BY <1>4, <2>1, <2>3
<1>9. QuietCommandIsCurrent'
    BY <1>8 DEF QuietCommandIsCurrent, Settled, IsCurrent, Latest
<1>10. OneBuilder'
    BY <1>1 DEF CurrentInv, OneBuilder
<1> QED
    BY <1>7, <1>9, <1>10 DEF CurrentInv

\* Steps that leave files, configs and every plugin's place in the collection.
\* Whoever is looked at afterwards was looked at before, or is current.
LEMMA QuietFrame ==
    ASSUME LiveInv, CurrentInv, UNCHANGED <<file, object>>,
           \A q \in Plugins : IndexOf(q) # 0 =>
                /\ IndexOf(q)' = IndexOf(q)
                /\ collection'[IndexOf(q)] = collection[IndexOf(q)],
           \A w \in Builders : build'[w].pc \in {"decode", "append", "watch"} =>
                /\ build'[w] = build[w]
                /\ Settled(build[w].id)' => Settled(build[w].id),
           \A q \in Plugins : q \in watched' /\ Settled(q)' /\ ~Building(q)' =>
                IsCurrent(q) \/ (q \in watched /\ Settled(q) /\ ~Building(q)),
           OneBuilder', watched' \subseteq Plugins
    PROVE  CurrentInv'
<1>0. LiveTypes /\ LockIsKept
    BY LockedTypes DEF LiveInv
<1>1. \A q \in Plugins : IsCurrent(q) => IsCurrent(q)'
    BY <1>0, CurrentFrame
<1>2. \A q : Latest(q)' = Latest(q)
    BY DEF Latest
<1>3. ASSUME NEW w \in Builders, Settled(build[w].id)',
             build'[w].pc \in {"decode", "append", "watch"}
      PROVE  /\ build'[w].pc = "decode" =>
                    ~build'[w].bad /\ Target(w)'.a = file'[build'[w].id].ver
             /\ build'[w].pc = "append" => Target(w)' = Latest(build[w].id)'
             /\ build'[w].pc = "watch"  => IsCurrent(build[w].id)'
    <2>1. build'[w] = build[w] /\ Settled(build[w].id)
        BY <1>3
    <2>2. PICK q \in Plugins : q = build[w].id
        BY <1>0, <1>3, <2>1 DEF LockIsKept
    <2>3. Target(w)' = Target(w) /\ Settled(q)
        BY <2>1, <2>2 DEF Target
    <2>4. /\ build[w].pc = "decode" => ~build[w].bad /\ Target(w).a = file[q].ver
          /\ build[w].pc = "append" => Target(w) = Latest(q)
          /\ build[w].pc = "watch"  => IsCurrent(q)
        BY <2>2, <2>3 DEF CurrentInv, BuildIsCurrent
    <2>5. build[w].pc = "watch" => IsCurrent(q)'
        BY <1>1, <2>4
    <2>6. Latest(q)' = Latest(q)
        BY <1>2
    <2> QED
        BY <2>1, <2>2, <2>3, <2>4, <2>5, <2>6
<1>4. BuildIsCurrent'
    BY <1>3 DEF BuildIsCurrent
<1>5. ASSUME NEW q \in watched', Settled(q)', ~Building(q)'
      PROVE  IsCurrent(q)'
    <2>1. q \in Plugins
        OBVIOUS
    <2>2. IsCurrent(q)
        BY <1>5, <2>1 DEF CurrentInv, QuietCommandIsCurrent, IsCurrent, Latest, Settled
    <2> QED
        BY <1>1, <2>1, <2>2
<1>6. QuietCommandIsCurrent'
    BY <1>5 DEF QuietCommandIsCurrent, Settled, IsCurrent, Latest
<1> QED
    BY <1>4, <1>6 DEF CurrentInv

\* The first command that the bot's goroutine has yet to register.
LEMMA NextIsNew ==
    ASSUME LiveInv, OneBuilder, todo # <<>>
    PROVE  /\ Head(todo) \notin watched
           /\ Tail(todo) \in Seq(Commands)
           /\ \A i, j \in 1 .. Len(Tail(todo)) : Tail(todo)[i] = Tail(todo)[j] => i = j
           /\ \A i \in 1 .. Len(Tail(todo)) :
                 Tail(todo)[i] \notin watched /\ Tail(todo)[i] # Head(todo)
<1>1. todo \in Seq(Commands) /\ Len(todo) \in Nat /\ Len(todo) >= 1
    BY DEF LiveInv, TypeOK
<1>2. /\ Head(todo) = todo[1] /\ Tail(todo) \in Seq(Commands)
      /\ Len(Tail(todo)) = Len(todo) - 1
      /\ \A i \in 1 .. Len(Tail(todo)) : Tail(todo)[i] = todo[i + 1]
    BY <1>1, HeadTailProperties
<1>3. \A i \in 1 .. Len(Tail(todo)) : i + 1 \in 1 .. Len(todo) /\ i + 1 # 1
    BY <1>1, <1>2
<1>4. /\ \A i, j \in 1 .. Len(todo) : todo[i] = todo[j] => i = j
      /\ \A i \in 1 .. Len(todo) : todo[i] \notin watched
    BY DEF OneBuilder
<1>5. 1 \in 1 .. Len(todo)
    BY <1>1
<1>6. \A i, j \in 1 .. Len(Tail(todo)) : Tail(todo)[i] = Tail(todo)[j] => i = j
    <2> TAKE i, j \in 1 .. Len(Tail(todo))
    <2> HAVE Tail(todo)[i] = Tail(todo)[j]
    <2>1. i + 1 = j + 1
        BY <1>2, <1>3, <1>4
    <2> QED
        BY <2>1
<1>7. \A i \in 1 .. Len(Tail(todo)) :
         Tail(todo)[i] \notin watched /\ Tail(todo)[i] # Head(todo)
    BY <1>2, <1>3, <1>4, <1>5
<1> QED
    BY <1>2, <1>4, <1>5, <1>6, <1>7

LEMMA BeginCurrent ==
    ASSUME LiveInv, LiveInv', CurrentInv, Register \/ \E p \in Plugins : Callback(p)
    PROVE  CurrentInv'
<1>0. LiveTypes /\ LockIsKept /\ LiveTypes'
    BY LockedTypes DEF LiveInv
<1>1. PICK w \in Builders, p \in Plugins :
        /\ build[w].pc = "idle" /\ build' = [build EXCEPT ![w] = NewBuild("build", p)]
        /\ w = BotGo => p \notin watched
        /\ w = WatcherGo => p \in watched
        /\ due' = due \/ due' = due \ {p}
        /\ missed' = missed \/ missed' = missed \ {p}
        /\ UNCHANGED <<file, object, collection, todo, watched>>
    <2>1. CASE Register
        <3>1. Head(todo) \notin watched
            BY <2>1, NextIsNew DEF Register, CurrentInv
        <3>2. BotGo # WatcherGo
            BY DEF BotGo, WatcherGo
        <3> QED
            BY <2>1, <3>1, <3>2 DEF Register, Builders
    <2>2. ASSUME NEW p \in Plugins, Callback(p)
          PROVE  /\ build[WatcherGo].pc = "idle" /\ WatcherGo \in Builders
                 /\ build' = [build EXCEPT ![WatcherGo] = NewBuild("build", p)]
                 /\ WatcherGo # BotGo /\ p \in watched
                 /\ due' = due \ {p} /\ missed' = missed \ {p}
                 /\ UNCHANGED <<file, object, collection, todo, watched>>
        BY <1>0, <2>2 DEF Callback, Builders, BotGo, WatcherGo, LiveTypes
    <2> QED
        BY <2>1, <2>2
<1>2. /\ build'[w].pc = "build" /\ build'[w].id = p
      /\ \A v \in Builders : v # w => build'[v] = build[v]
    BY <1>0, <1>1, BuilderBegins DEF LiveTypes, Commands
<1>3. OneBuilder'
    BY <1>1, <1>2 DEF CurrentInv, OneBuilder, Builders
<1>4. \A q \in Plugins : IndexOf(q)' = IndexOf(q)
    BY <1>1, IndexFrame
<1>5. \A q \in Plugins : q # p => (Settled(q)' => Settled(q)) /\ (Building(q) => Building(q)')
    BY <1>1, <1>2 DEF Settled, Building
<1>6. ASSUME NEW v \in Builders, build'[v].pc \in {"decode", "append", "watch"}
      PROVE  build'[v] = build[v] /\ (Settled(build[v].id)' => Settled(build[v].id))
    <2>1. v # w /\ build'[v] = build[v]
        BY <1>2, <1>6
    <2>2. PICK q \in Plugins : q = build[v].id
        BY <1>0, <1>6, <2>1 DEF LockIsKept
    <2>3. v = BotGo => q \notin watched
        <3> HAVE v = BotGo
        <3>1. todo # <<>> /\ q = Head(todo)
            BY <1>6, <2>1, <2>2 DEF LiveInv, BotBuildsNext
        <3> QED
            BY <3>1, NextIsNew DEF CurrentInv
    <2>4. v = WatcherGo => q \in watched
        BY <1>6, <2>1, <2>2 DEF CurrentInv, OneBuilder
    <2>5. q # p
        BY <1>1, <2>1, <2>3, <2>4 DEF Builders
    <2> QED
        BY <1>5, <2>1, <2>2, <2>5
<1>7. ASSUME NEW q \in Plugins, q \in watched', Settled(q)', ~Building(q)'
      PROVE  q \in watched /\ Settled(q) /\ ~Building(q)
    <2>1. q # p
        BY <1>2, <1>7 DEF Building
    <2> QED
        BY <1>1, <1>5, <1>7, <2>1
<1>8. watched' \subseteq Plugins
    BY <1>0 DEF LiveTypes
<1> QED
    BY <1>1, <1>3, <1>4, <1>6, <1>7, <1>8, QuietFrame

\* What was built is current when Watch returns, if nothing changed meanwhile.
LEMMA WatchCurrent ==
    ASSUME LiveInv, LiveInv', CurrentInv, Watch
    PROVE  CurrentInv'
<1>0. LiveTypes /\ LockIsKept /\ LiveTypes'
    BY LockedTypes DEF LiveInv
<1>1. PICK p \in Plugins :
        /\ p = build[BotGo].id /\ build[BotGo].pc = "watch"
        /\ build' = [build EXCEPT ![BotGo].pc = "idle"]
        /\ watched' = watched \union {p} /\ todo' = Tail(todo)
        /\ UNCHANGED <<file, due, missed, object, collection>>
    <2>1. BotGo \in Builders /\ build[BotGo].pc = "watch"
        BY DEF Watch, Builders
    <2>2. build[BotGo].id \in Plugins
        BY <1>0, <2>1 DEF LockIsKept
    <2> QED
        BY <2>2 DEF Watch
<1>2. BotGo \in Builders /\ WatcherGo \in Builders /\ BotGo # WatcherGo
    BY DEF Builders, BotGo, WatcherGo
<1>3. /\ build'[BotGo].pc = "idle"
      /\ \A v \in Builders : v # BotGo => build'[v] = build[v]
    BY <1>0, <1>1, <1>2, BuilderGoes DEF LiveTypes, BuildPcs
<1>4. todo # <<>> /\ p = Head(todo)
    BY <1>1 DEF LiveInv, BotBuildsNext
<1>5. OneBuilder'
    <2>1. /\ \A i, j \in 1 .. Len(todo') : todo'[i] = todo'[j] => i = j
          /\ \A i \in 1 .. Len(todo') : todo'[i] \notin watched'
        BY <1>1, <1>4, NextIsNew DEF CurrentInv
    <2>2. build'[WatcherGo].pc # "idle" => build'[WatcherGo].id \in watched'
        BY <1>1, <1>2, <1>3 DEF CurrentInv, OneBuilder
    <2> QED
        BY <2>1, <2>2 DEF OneBuilder
<1>6. \A q \in Plugins : IndexOf(q)' = IndexOf(q) /\ (Settled(q)' <=> Settled(q))
    BY <1>1, IndexFrame DEF Settled
<1>7. \A v \in Builders : build'[v].pc \in {"decode", "append", "watch"} =>
         build'[v] = build[v] /\ (Settled(build[v].id)' => Settled(build[v].id))
    BY <1>1, <1>3 DEF Settled
<1>8. ASSUME NEW q \in Plugins, q \in watched', Settled(q)', ~Building(q)'
      PROVE  IsCurrent(q) \/ (q \in watched /\ Settled(q) /\ ~Building(q))
    <2>1. CASE q = p
        BY <1>1, <1>2, <1>6, <1>8, <2>1 DEF CurrentInv, BuildIsCurrent
    <2>2. CASE q # p
        BY <1>1, <1>3, <1>6, <1>8, <2>2 DEF Building
    <2> QED
        BY <2>1, <2>2
<1>9. watched' \subseteq Plugins
    BY <1>0 DEF LiveTypes
<1> QED
    BY <1>1, <1>5, <1>6, <1>7, <1>8, <1>9, QuietFrame

\* A plain command takes the place of no plugin.
LEMMA AppendPlainCurrent ==
    ASSUME LiveInv, LiveInv', CurrentInv, AppendPlain
    PROVE  CurrentInv'
<1>0. LiveTypes /\ LockIsKept /\ LiveTypes'
    BY LockedTypes DEF LiveInv
<1>1. PICK c \in Command :
        /\ c.id = Head(todo) /\ c.id \notin Plugins /\ todo # <<>>
        /\ collection' = Appended(c) /\ todo' = Tail(todo)
        /\ UNCHANGED <<file, due, missed, object, build, watched>>
    <2> DEFINE c == [id |-> Head(todo), cfg |-> Default]
    <2>1. Head(todo) \in Plain /\ Head(todo) \notin Plugins
        BY LiveConfigAssumption DEF AppendPlain
    <2>2. c \in Command /\ c.id = Head(todo)
        BY <2>1, Defaults DEF Command, Commands
    <2> QED
        BY <2>1, <2>2 DEF AppendPlain
<1>2. \A q \in Plugins : IndexOf(q) # 0 =>
        /\ IndexOf(q)' = IndexOf(q)
        /\ collection'[IndexOf(q)] = collection[IndexOf(q)]
    BY <1>0, <1>1, AppendedCommand DEF LiveTypes
<1>3. OneBuilder'
    <2>1. /\ \A i, j \in 1 .. Len(todo') : todo'[i] = todo'[j] => i = j
          /\ \A i \in 1 .. Len(todo') : todo'[i] \notin watched'
        BY <1>1, NextIsNew DEF CurrentInv
    <2> QED
        BY <1>1, <2>1 DEF CurrentInv, OneBuilder
<1>4. \A q : (Settled(q)' <=> Settled(q)) /\ (Building(q)' <=> Building(q))
    BY <1>1 DEF Settled, Building
<1>5. \A v \in Builders : build'[v].pc \in {"decode", "append", "watch"} =>
         build'[v] = build[v] /\ (Settled(build[v].id)' => Settled(build[v].id))
    BY <1>1 DEF Settled
<1>6. watched' \subseteq Plugins
    BY <1>0 DEF LiveTypes
<1> QED
    BY <1>1, <1>2, <1>3, <1>4, <1>5, <1>6, QuietFrame

LEMMA CurrentStep ==
    ASSUME LiveInv, LiveInv', CurrentInv, [Next]_vars
    PROVE  CurrentInv'
<1>1. ASSUME UNCHANGED <<file, due, missed, object, collection, build, todo, watched>>
      PROVE  CurrentInv'
    <2>1. \A q : /\ IndexOf(q)' = IndexOf(q) /\ (Settled(q)' <=> Settled(q))
                 /\ (Building(q)' <=> Building(q))
        BY <1>1, IndexFrame DEF Settled, Building
    <2>2. OneBuilder'
        BY <1>1 DEF CurrentInv, OneBuilder
    <2>3. watched' \subseteq Plugins
        BY <1>1 DEF LiveInv, TypeOK
    <2>4. \A v \in Builders :
             build'[v] = build[v] /\ (Settled(build[v].id)' => Settled(build[v].id))
        BY <1>1 DEF Settled
    <2> QED
        BY <1>1, <2>1, <2>2, <2>3, <2>4, QuietFrame
<1>2. CASE UNCHANGED vars
    BY <1>1, <1>2 DEF vars
<1>3. ASSUME NEW e \in Executors,
             ExecuteSteps(e) \/ \E i \in DOMAIN collection : FindFirstMatched(e, i)
      PROVE  CurrentInv'
    BY <1>1, <1>3, WorkerEffect
<1> QED
    BY <1>2, <1>3, FileChangesCurrent, BeginCurrent, WatchCurrent, AppendPlainCurrent,
       BuildCurrent DEF Next, BotSteps

\* When the watcher is done with a plugin whose file is good, the command that is
\* found first has the configuration of that file, for any number of commands,
\* workers and changes and in any order of builds, provided no command is
\* registered twice with a bot.
THEOREM QuietIsCurrent == ASSUME CommandsAreDistinct PROVE Spec => []QuietCommandIsCurrent
<1>1. LiveInv /\ LiveInv' /\ CurrentInv /\ [Next]_vars => CurrentInv'
    BY CurrentStep
<1>2. CurrentInv => QuietCommandIsCurrent
    BY DEF CurrentInv
<1> QED
    BY <1>1, <1>2, CurrentInit, LiveInvariant, PTL DEF Spec
=============================================================================
