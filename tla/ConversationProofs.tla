------------------------- MODULE ConversationProofs -------------------------
(***************************************************************************)
(* Proofs about Conversation, for any users, workers and inputs.           *)
(***************************************************************************)
EXTENDS Conversation, SequenceTheorems, FiniteSetTheorems, TLAPS

-----------------------------------------------------------------------------
(***************************************************************************)
(* The invariant                                                           *)
(***************************************************************************)
Pcs      == Running \union Over \union {"none", "queued"}
RunningNow == {i \in Inputs : pc[i] \in Running}

Types ==
    /\ stateful \in BOOLEAN
    /\ sent \in [Users -> 0 .. MaxInputs]
    /\ kind \in [Inputs -> Kinds]
    /\ queue \in Seq(Inputs) /\ Len(queue) <= QueueSize
    /\ pc \in [Inputs -> Pcs]
    /\ found \in [Inputs -> Inputs \union {NoContext}]
    /\ answer \in [Inputs -> Answers]
    /\ storage \in [Users -> Inputs \union {NoContext}]
    /\ fed \in [Inputs -> SUBSET Inputs]
    /\ expired \subseteq Inputs
    /\ replied \subseteq Inputs

\* No more inputs are handled than there are workers.
WorkersAreEnough == IsFiniteSet(RunningNow) /\ Cardinality(RunningNow) <= NumWorkers

\* A user who waits has one input in progress, the last one sent.
OneAtATime ==
    /\ \A i \in Inputs : pc[i] # "none" <=> i[2] <= sent[i[1]]
    /\ \A i \in Inputs : i[1] \in Patient /\ i[2] < sent[i[1]] => pc[i] \in Over
    /\ \A i \in replied : pc[i] = "done"

\* What Respond has not come to yet.
NotYet ==
    \A i \in Inputs :
        /\ pc[i] \in {"none", "queued", "blocked", "get"} => found[i] = NoContext
        /\ pc[i] \notin {"set", "send", "done"} => answer[i] = "nothing"

\* The storage as Respond finds it while it handles an input of a user who waits.
StorageIsTheirs ==
    \A i \in Inputs : i[1] \in Patient =>
        /\ pc[i] = "delete" => storage[i[1]] \in {found[i], NoContext}
        /\ pc[i] \in {"find", "execute", "set"} => storage[i[1]] = NoContext
        /\ pc[i] \in {"send", "done"} /\ i[2] = sent[i[1]] => storage[i[1]] \in {NoContext, i}

\* A context is there from the moment Respond has stored it until somebody takes it.
Opened(i)  == Stored(answer[i]) /\ pc[i] \in {"send", "done"}
Kept(i)    == storage[i[1]] = i \/ \E j \in Inputs : found[j] = i
ContextIsKept ==
    \A i \in Inputs : stateful /\ i[1] \in Patient /\ i \notin expired /\ Opened(i) => Kept(i)

ConversationInv ==
    Types /\ WorkersAreEnough /\ OneAtATime /\ NotYet /\ StorageIsTheirs /\ ContextIsKept

-----------------------------------------------------------------------------
LEMMA InputParts ==
    /\ \A i \in Inputs : i[1] \in Users /\ i[2] \in 1 .. MaxInputs /\ User(i) = i[1]
    /\ \A i, j \in Inputs : i[1] = j[1] /\ i[2] = j[2] => i = j
    /\ \A u \in Users, n \in 1 .. MaxInputs :
         <<u, n>> \in Inputs /\ <<u, n>>[1] = u /\ <<u, n>>[2] = n
BY DEF Inputs, User

\* The input of a user who waits that is being handled is the last one.
LEMMA HandledIsLast ==
    ASSUME Types, OneAtATime, NEW i \in Inputs, i[1] \in Patient,
           pc[i] \in Running \union {"queued"}
    PROVE  /\ i[2] = sent[i[1]]
           /\ \A j \in Inputs : j # i /\ j[1] = i[1] =>
                 pc[j] \in Over \union {"none"} /\ j[2] # sent[j[1]]
<1>1. /\ i[2] \in Nat /\ sent[i[1]] \in Nat
      /\ \A j \in Inputs : j[2] \in Nat
    BY InputParts, ConversationAssumption DEF Types
<1>2. i[2] = sent[i[1]]
    BY <1>1 DEF OneAtATime, Running, Over
<1>3. ASSUME NEW j \in Inputs, j # i, j[1] = i[1]
      PROVE  pc[j] \in Over \union {"none"} /\ j[2] # sent[j[1]]
    <2>1. j[2] # i[2]
        BY <1>3, InputParts
    <2>2. j[2] < sent[j[1]] \/ j[2] > sent[j[1]]
        BY <1>1, <1>2, <1>3, <2>1
    <2> QED
        BY <1>1, <1>2, <1>3, <2>1, <2>2 DEF OneAtATime
<1> QED
    BY <1>2, <1>3

LEMMA ConversationInit == Init => ConversationInv
<1> SUFFICES ASSUME Init PROVE ConversationInv
    OBVIOUS
<1>1. /\ stateful \in BOOLEAN /\ sent = [u \in Users |-> 0] /\ queue = <<>>
      /\ kind = [i \in Inputs |-> "text"] /\ pc = [i \in Inputs |-> "none"]
      /\ found = [i \in Inputs |-> NoContext] /\ answer = [i \in Inputs |-> "nothing"]
      /\ storage = [u \in Users |-> NoContext] /\ fed = [i \in Inputs |-> {}]
      /\ expired = {} /\ replied = {}
    BY DEF Init
<1>2. Types
    <2>1. queue \in Seq(Inputs) /\ Len(queue) <= QueueSize /\ 0 \in 0 .. MaxInputs
        BY <1>1, ConversationAssumption
    <2> QED
        BY <1>1, <2>1 DEF Types, Kinds, Pcs, Answers
<1>3. WorkersAreEnough
    <2>1. RunningNow = {}
        BY <1>1 DEF RunningNow, Running
    <2> QED
        BY <2>1, FS_EmptySet, ConversationAssumption DEF WorkersAreEnough
<1>4. OneAtATime
    <2>1. \A i \in Inputs : ~(i[2] <= sent[i[1]]) /\ ~(i[2] < sent[i[1]])
        BY <1>1, InputParts
    <2> QED
        BY <1>1, <2>1 DEF OneAtATime
<1>5. NotYet /\ StorageIsTheirs /\ ContextIsKept
    BY <1>1 DEF NotYet, StorageIsTheirs, ContextIsKept, Opened
<1> QED
    BY <1>2, <1>3, <1>4, <1>5 DEF ConversationInv

\* A step of Respond on one input: the others of the user, if the user waits, are
\* over, so only this one has to be looked at.
LEMMA RespondStep ==
    ASSUME ConversationInv, NEW i \in Inputs, pc[i] \in Running,
           NEW to \in Running \union {"done"}, to # "get", pc' = [pc EXCEPT ![i] = to],
           found' \in [Inputs -> Inputs \union {NoContext}],
           answer' \in [Inputs -> Answers],
           storage' \in [Users -> Inputs \union {NoContext}],
           fed' \in [Inputs -> SUBSET Inputs],
           UNCHANGED <<stateful, sent, kind, queue, expired>>,
           replied' = replied \/ (replied' = replied \union {i} /\ to = "done"),
           \A j \in Inputs : j # i => found'[j] = found[j] /\ answer'[j] = answer[j],
           \A u \in Users : u # i[1] => storage'[u] = storage[u],
           to \notin {"set", "send", "done"} => answer'[i] = "nothing",
           found[i] = NoContext \/ found'[i] = found[i],
           i[1] \in Patient =>
               /\ to = "delete" => storage'[i[1]] \in {found'[i], NoContext}
               /\ to \in {"find", "execute", "set"} => storage'[i[1]] = NoContext
               /\ to \in {"send", "done"} => storage'[i[1]] \in {NoContext, i}
               /\ \A k \in Inputs :
                     storage[i[1]] = k => storage'[i[1]] = k \/ found'[i] = k
               /\ stateful /\ Stored(answer'[i]) /\ to \in {"send", "done"} /\ i \notin expired
                     => storage'[i[1]] = i \/ \E j \in Inputs : found'[j] = i
    PROVE  ConversationInv'
<1>0. Types /\ WorkersAreEnough /\ OneAtATime /\ NotYet /\ StorageIsTheirs /\ ContextIsKept
    BY DEF ConversationInv
<1>1. /\ pc' \in [Inputs -> Pcs] /\ pc'[i] = to
      /\ \A j \in Inputs : j # i => pc'[j] = pc[j]
    BY <1>0 DEF Types, Pcs, Over
<1>2. Types'
    BY <1>0, <1>1 DEF Types
<1>3. WorkersAreEnough'
    <2>1. RunningNow' \subseteq RunningNow
        BY <1>1 DEF RunningNow
    <2>2. IsFiniteSet(RunningNow') /\ Cardinality(RunningNow') <= Cardinality(RunningNow)
        BY <1>0, <2>1, FS_Subset DEF WorkersAreEnough
    <2>3. Cardinality(RunningNow) \in Nat /\ Cardinality(RunningNow') \in Nat
        BY <1>0, <2>2, FS_CardinalityType DEF WorkersAreEnough
    <2> QED
        BY <1>0, <2>2, <2>3, ConversationAssumption DEF WorkersAreEnough
<1>4. OneAtATime'
    <2>1. pc[i] # "none" /\ to # "none" /\ pc[i] # "done" /\ pc[i] \notin Over
        BY DEF Running, Over
    <2>2. \A j \in Inputs : pc'[j] # "none" <=> j[2] <= sent[j[1]]
        BY <1>0, <1>1, <2>1 DEF OneAtATime
    <2>3. \A j \in Inputs : j[1] \in Patient /\ j[2] < sent[j[1]] => pc'[j] \in Over
        BY <1>0, <1>1, <2>1 DEF OneAtATime
    <2>4. \A j \in replied' : pc'[j] = "done"
        BY <1>0, <1>1, <2>1 DEF OneAtATime, Types
    <2> QED
        BY <2>2, <2>3, <2>4 DEF OneAtATime
<1>5. NotYet'
    <2>1. to \notin {"none", "queued", "blocked", "get"}
        BY DEF Running
    <2> QED
        BY <1>0, <1>1, <2>1 DEF NotYet
<1>6. StorageIsTheirs'
    <2> SUFFICES ASSUME NEW j \in Inputs, j[1] \in Patient
                 PROVE  /\ pc'[j] = "delete" => storage'[j[1]] \in {found'[j], NoContext}
                        /\ pc'[j] \in {"find", "execute", "set"} => storage'[j[1]] = NoContext
                        /\ pc'[j] \in {"send", "done"} /\ j[2] = sent[j[1]]
                              => storage'[j[1]] \in {NoContext, j}
        BY DEF StorageIsTheirs
    <2>1. CASE j = i
        BY <1>1, <2>1
    <2>2. CASE j # i /\ j[1] = i[1]
        <3>1. pc[j] \in Over \union {"none"} /\ j[2] # sent[j[1]]
            BY <1>0, <2>2, HandledIsLast
        <3> QED
            BY <1>1, <2>2, <3>1 DEF Over
    <2>3. CASE j # i /\ j[1] # i[1]
        <3>1. storage'[j[1]] = storage[j[1]] /\ found'[j] = found[j] /\ pc'[j] = pc[j]
            BY <1>1, <2>3, InputParts
        <3> QED
            BY <1>0, <3>1 DEF StorageIsTheirs
    <2> QED
        BY <2>1, <2>2, <2>3
<1>7. ContextIsKept'
    <2> SUFFICES ASSUME NEW k \in Inputs, stateful, k[1] \in Patient, k \notin expired,
                        Opened(k)'
                 PROVE  storage'[k[1]] = k \/ \E j \in Inputs : found'[j] = k
        BY DEF ContextIsKept, Kept
    <2>1. CASE k = i
        BY <1>1, <2>1 DEF Opened
    <2>2. CASE k # i
        <3>1. Opened(k)
            BY <1>1, <2>2 DEF Opened
        <3>2. storage[k[1]] = k \/ \E j \in Inputs : found[j] = k
            BY <1>0, <3>1 DEF ContextIsKept, Kept
        <3>3. ASSUME NEW j \in Inputs, found[j] = k PROVE found'[j] = k
            BY <3>3, ConversationAssumption
        <3>4. CASE storage[k[1]] = k /\ k[1] = i[1]
            BY <3>4
        <3>5. CASE storage[k[1]] = k /\ k[1] # i[1]
            BY <3>5, InputParts
        <3> QED
            BY <3>2, <3>3, <3>4, <3>5
    <2> QED
        BY <2>1, <2>2
<1> QED
    BY <1>2, <1>3, <1>4, <1>5, <1>6, <1>7 DEF ConversationInv

LEMMA AfterAnswerFacts ==
    ASSUME NEW a \in Answers
    PROVE  /\ AfterAnswer(a) \in {"set", "send", "done"}
           /\ Stored(a) => AfterAnswer(a) = "set"
<1>1. CASE HasContext(a)
    BY <1>1 DEF AfterAnswer
<1>2. CASE ~HasContext(a) /\ HasContent(a)
    BY <1>2 DEF AfterAnswer, HasContext
<1>3. CASE ~HasContext(a) /\ ~HasContent(a)
    BY <1>3 DEF AfterAnswer, HasContext
<1> QED
    BY <1>1, <1>2, <1>3

LEMMA RespondKeeps ==
    ASSUME ConversationInv, NEW i \in Inputs, Respond(i), UNCHANGED stateful
    PROVE  ConversationInv'
<1>0. Types /\ WorkersAreEnough /\ OneAtATime /\ NotYet /\ StorageIsTheirs /\ ContextIsKept
    BY DEF ConversationInv
<1>t. /\ found \in [Inputs -> Inputs \union {NoContext}] /\ answer \in [Inputs -> Answers]
      /\ storage \in [Users -> Inputs \union {NoContext}] /\ fed \in [Inputs -> SUBSET Inputs]
      /\ pc \in [Inputs -> Pcs]
    BY <1>0 DEF Types
<1>u. User(i) = i[1] /\ i[1] \in Users
    BY InputParts
<1>n. /\ pc[i] = "get" => found[i] = NoContext
      /\ pc[i] \notin {"set", "send", "done"} => answer[i] = "nothing"
    BY <1>0 DEF NotYet
<1>s. i[1] \in Patient =>
        /\ pc[i] = "delete" => storage[i[1]] \in {found[i], NoContext}
        /\ pc[i] \in {"find", "execute", "set"} => storage[i[1]] = NoContext
        /\ pc[i] = "send" => storage[i[1]] \in {NoContext, i}
    <2>1. i[1] \in Patient /\ pc[i] = "send" => i[2] = sent[i[1]]
        BY <1>0, HandledIsLast DEF Running
    <2> QED
        BY <1>0, <2>1 DEF StorageIsTheirs
<1>1. CASE GetContext(i)
    <2> DEFINE to == IF storage[i[1]] = NoContext THEN "find" ELSE "delete"
    <2>1. /\ pc[i] = "get" /\ pc' = [pc EXCEPT ![i] = to]
          /\ found' = [found EXCEPT ![i] = storage[i[1]]]
          /\ UNCHANGED <<sent, kind, queue, answer, storage, fed, expired, replied>>
        BY <1>1, <1>u DEF GetContext, Goto
    <2>2. /\ to \in Running \union {"done"} /\ to # "get" /\ pc[i] \in Running
          /\ to \notin {"set", "send", "done"}
          /\ to = "find" => storage[i[1]] = NoContext
          /\ to \in {"find", "delete"}
        BY <2>1 DEF Running
    <2>3. /\ found' \in [Inputs -> Inputs \union {NoContext}] /\ found'[i] = storage[i[1]]
          /\ \A j \in Inputs : j # i => found'[j] = found[j]
        BY <2>1, <1>t, <1>u
    <2> HIDE DEF to
    <2> QED
        BY <1>t, <1>n, <1>s, <2>1, <2>2, <2>3, RespondStep
<1>2. CASE \E a \in Answers : ExecuteCommand(i, a) \/ ExecuteContext(i, a)
    <2>1. PICK a \in Answers : ExecuteCommand(i, a) \/ ExecuteContext(i, a)
        BY <1>2
    <2>2. PICK to \in {"set", "send", "done"} : to = AfterAnswer(a)
        BY AfterAnswerFacts
    <2>3. /\ pc[i] \in {"find", "execute"} /\ pc' = [pc EXCEPT ![i] = to]
          /\ answer' = [answer EXCEPT ![i] = a]
          /\ fed' = fed \/ fed' = [fed EXCEPT ![found[i]] = @ \union {i}]
          /\ UNCHANGED <<sent, kind, queue, found, storage, expired, replied>>
        BY <2>1, <2>2 DEF ExecuteCommand, ExecuteContext, Goto
    <2>4. /\ to \in Running \union {"done"} /\ to # "get" /\ pc[i] \in Running
          /\ Stored(a) => to = "set"
          /\ to # "delete" /\ to # "find" /\ to # "execute"
        BY <2>2, <2>3, AfterAnswerFacts DEF Running
    <2>5. /\ answer' \in [Inputs -> Answers] /\ answer'[i] = a
          /\ \A j \in Inputs : j # i => answer'[j] = answer[j]
        BY <2>3, <1>t
    <2>6. fed' \in [Inputs -> SUBSET Inputs]
        BY <2>3, <1>t
    <2> QED
        BY <1>t, <1>n, <1>s, <2>3, <2>4, <2>5, <2>6, RespondStep
<1>3. CASE DeleteContext(i)
    <2>1. PICK to \in {"done", "execute"} : to = IF kind[i] = "abort" THEN "done" ELSE "execute"
        OBVIOUS
    <2>2. /\ pc[i] = "delete" /\ pc' = [pc EXCEPT ![i] = to]
          /\ storage' = [storage EXCEPT ![i[1]] = NoContext]
          /\ UNCHANGED <<sent, kind, queue, found, answer, fed, expired, replied>>
        BY <1>3, <1>u, <2>1 DEF DeleteContext, Goto
    <2>3. /\ to \in Running \union {"done"} /\ to # "get" /\ pc[i] \in Running
          /\ ~Stored(answer[i]) /\ answer[i] = "nothing"
          /\ to # "delete"
        BY <2>2, <1>n DEF Running, Stored
    <2>4. /\ storage' \in [Users -> Inputs \union {NoContext}] /\ storage'[i[1]] = NoContext
          /\ \A u \in Users : u # i[1] => storage'[u] = storage[u]
        BY <2>2, <1>t, <1>u
    <2>5. i[1] \in Patient =>
             \A k \in Inputs : storage[i[1]] = k => found'[i] = k
        BY <2>2, <1>s, ConversationAssumption
    <2> QED
        BY <1>t, <2>2, <2>3, <2>4, <2>5, RespondStep
<1>4. CASE SetContext(i)
    <2>1. PICK to \in {"send", "done"} : to = IF HasContent(answer[i]) THEN "send" ELSE "done"
        OBVIOUS
    <2>2. /\ pc[i] = "set" /\ pc' = [pc EXCEPT ![i] = to]
          /\ storage' = IF stateful /\ Stored(answer[i]) THEN [storage EXCEPT ![i[1]] = i]
                                                          ELSE storage
          /\ UNCHANGED <<sent, kind, queue, found, answer, fed, expired, replied>>
        BY <1>4, <1>u, <2>1 DEF SetContext, Goto
    <2>3. /\ to \in Running \union {"done"} /\ to # "get" /\ pc[i] \in Running
          /\ to \notin {"delete", "find", "execute", "set"}
        BY <2>2 DEF Running
    <2>4. /\ storage' \in [Users -> Inputs \union {NoContext}]
          /\ \A u \in Users : u # i[1] => storage'[u] = storage[u]
          /\ storage'[i[1]] \in {storage[i[1]], i}
          /\ stateful /\ Stored(answer[i]) => storage'[i[1]] = i
        BY <2>2, <1>t, <1>u
    <2>5. i[1] \in Patient =>
             /\ storage[i[1]] = NoContext
             /\ \A k \in Inputs : storage[i[1]] # k
        BY <2>2, <1>s, ConversationAssumption
    <2> QED
        BY <1>t, <2>2, <2>3, <2>4, <2>5, RespondStep
<1>5. CASE SendMessage(i)
    <2>1. /\ pc[i] = "send" /\ pc' = [pc EXCEPT ![i] = "done"]
          /\ replied' = replied \union {i}
          /\ UNCHANGED <<sent, kind, queue, found, answer, storage, fed, expired>>
        BY <1>5 DEF SendMessage, Goto
    <2>2. "done" \in Running \union {"done"} /\ "done" # "get" /\ pc[i] \in Running
        BY <2>1 DEF Running
    <2>3. stateful /\ i[1] \in Patient /\ Stored(answer[i]) /\ i \notin expired
             => storage[i[1]] = i \/ \E j \in Inputs : found[j] = i
        BY <1>0, <2>1 DEF ContextIsKept, Opened, Kept
    <2> QED
        BY <1>t, <1>s, <2>1, <2>2, <2>3, RespondStep
<1> QED
    BY <1>1, <1>2, <1>3, <1>4, <1>5 DEF Respond

LEMMA SendKeeps ==
    ASSUME ConversationInv, NEW u \in Users, NEW k \in Kinds, Send(u, k), UNCHANGED stateful
    PROVE  ConversationInv'
<1>0. Types /\ WorkersAreEnough /\ OneAtATime /\ NotYet /\ StorageIsTheirs /\ ContextIsKept
    BY DEF ConversationInv
<1>t. /\ sent \in [Users -> 0 .. MaxInputs] /\ sent[u] \in Nat /\ sent[u] < MaxInputs
      /\ sent[u] + 1 \in 1 .. MaxInputs
    <2>1. sent \in [Users -> 0 .. MaxInputs] /\ sent[u] \in 0 .. MaxInputs /\ sent[u] < MaxInputs
        BY <1>0 DEF Types, Send
    <2> QED
        BY <2>1, ConversationAssumption
<1>i. PICK i \in Inputs : i = <<u, sent[u] + 1>>
    BY <1>t, InputParts
<1>u. i[1] = u /\ i[2] = sent[u] + 1
    BY <1>i
<1>1. /\ MaySend(u) /\ sent' = [sent EXCEPT ![u] = @ + 1] /\ kind' = [kind EXCEPT ![i] = k]
      /\ pc[i] = "none"
      /\ UNCHANGED <<found, answer, storage, fed, expired, replied>>
    BY <1>i DEF Send, Goto
<1>2. PICK to \in {"queued", "blocked"} : pc' = [pc EXCEPT ![i] = to]
    BY <1>i DEF Send, Goto
<1>3. /\ pc' \in [Inputs -> Pcs] /\ pc'[i] = to
      /\ \A j \in Inputs : j # i => pc'[j] = pc[j]
    BY <1>0, <1>2 DEF Types, Pcs, Over
<1>4. /\ sent' \in [Users -> 0 .. MaxInputs] /\ sent'[u] = sent[u] + 1
      /\ \A v \in Users : v # u => sent'[v] = sent[v]
    BY <1>1, <1>t, ConversationAssumption
<1>5. Types'
    <2>1. queue' \in Seq(Inputs) /\ Len(queue') <= QueueSize
        <3>1. CASE Len(queue) < QueueSize
            <4>1. queue' = Append(queue, i) /\ queue \in Seq(Inputs)
                BY <1>0, <1>i, <3>1 DEF Send, Types
            <4>2. queue' \in Seq(Inputs) /\ Len(queue') = Len(queue) + 1
                BY <4>1
            <4> QED
                BY <3>1, <4>1, <4>2, LenProperties, ConversationAssumption
        <3>2. CASE ~(Len(queue) < QueueSize)
            BY <1>0, <3>2 DEF Send, Types
        <3> QED
            BY <3>1, <3>2
    <2>2. kind' \in [Inputs -> Kinds]
        BY <1>0, <1>1 DEF Types
    <2> QED
        BY <1>0, <1>1, <1>3, <1>4, <2>1, <2>2 DEF Types
<1>6. WorkersAreEnough'
    <2>1. RunningNow' = RunningNow
        BY <1>1, <1>3 DEF RunningNow, Running
    <2> QED
        BY <1>0, <2>1 DEF WorkersAreEnough
<1>7. OneAtATime'
    <2>1. \A j \in Inputs : j[1] \in Users /\ j[2] \in Nat /\ sent[j[1]] \in Nat
        BY <1>t, InputParts, ConversationAssumption
    <2>2. ASSUME NEW j \in Inputs PROVE pc'[j] # "none" <=> j[2] <= sent'[j[1]]
        <3>1. CASE j = i
            BY <1>3, <1>4, <1>u, <3>1, <1>t
        <3>2. CASE j # i /\ j[1] = u
            <4>1. j[2] # sent[u] + 1
                BY <3>2, <1>u, InputParts
            <4>2. j[2] <= sent'[u] <=> j[2] <= sent[u]
                BY <1>4, <2>1, <4>1, <3>2
            <4> QED
                BY <1>0, <1>3, <3>2, <4>2 DEF OneAtATime
        <3>3. CASE j # i /\ j[1] # u
            BY <1>0, <1>3, <1>4, <2>1, <3>3 DEF OneAtATime
        <3> QED
            BY <3>1, <3>2, <3>3
    <2>3. ASSUME NEW j \in Inputs, j[1] \in Patient, j[2] < sent'[j[1]] PROVE pc'[j] \in Over
        <3>1. CASE j[1] = u
            <4>1. j # i /\ j[2] <= sent[u]
                BY <1>4, <1>u, <2>1, <2>3, <3>1
            <4>2. CASE j[2] < sent[u]
                BY <1>0, <1>3, <2>3, <3>1, <4>1, <4>2 DEF OneAtATime
            <4>3. CASE j[2] = sent[u]
                <5>1. j = <<u, sent[u]>> /\ sent[u] > 0
                    BY <4>3, <3>1, InputParts DEF Inputs
                <5>2. j \in replied \/ pc[j] \in Over
                    BY <1>1, <2>3, <3>1, <5>1 DEF MaySend
                <5> QED
                    BY <1>0, <1>3, <4>1, <5>2 DEF OneAtATime, Over
            <4> QED
                BY <4>1, <4>2, <4>3, <2>1, <1>t
        <3>2. CASE j[1] # u
            BY <1>0, <1>3, <1>4, <1>u, <2>1, <2>3, <3>2 DEF OneAtATime
        <3> QED
            BY <3>1, <3>2
    <2>4. \A j \in replied : pc'[j] = "done"
        BY <1>0, <1>1, <1>3 DEF OneAtATime, Types
    <2> QED
        BY <1>1, <2>2, <2>3, <2>4 DEF OneAtATime
<1>8. NotYet'
    BY <1>0, <1>1, <1>3 DEF NotYet
<1>9. StorageIsTheirs'
    <2> SUFFICES ASSUME NEW j \in Inputs, j[1] \in Patient
                 PROVE  /\ pc'[j] = "delete" => storage[j[1]] \in {found[j], NoContext}
                        /\ pc'[j] \in {"find", "execute", "set"} => storage[j[1]] = NoContext
                        /\ pc'[j] \in {"send", "done"} /\ j[2] = sent'[j[1]]
                              => storage[j[1]] \in {NoContext, j}
        BY <1>1 DEF StorageIsTheirs
    <2>1. CASE j = i
        BY <1>3, <2>1
    <2>2. CASE j # i
        <3>1. pc'[j] = pc[j]
            BY <1>3, <2>2
        <3>2. j[2] = sent'[j[1]] => j[2] = sent[j[1]]
            <4>1. CASE j[1] = u
                BY <4>1, <2>2, <1>4, <1>u, InputParts
            <4>2. CASE j[1] # u
                BY <4>2, <1>4, InputParts
            <4> QED
                BY <4>1, <4>2
        <3> QED
            BY <1>0, <3>1, <3>2 DEF StorageIsTheirs
    <2> QED
        BY <2>1, <2>2
<1>10. ContextIsKept'
    <2>1. \A j \in Inputs : Opened(j)' => Opened(j)
        BY <1>1, <1>3 DEF Opened
    <2>2. \A j \in Inputs : Kept(j)' <=> Kept(j)
        BY <1>1 DEF Kept
    <2> QED
        BY <1>0, <1>1, <2>1, <2>2 DEF ContextIsKept
<1> QED
    BY <1>5, <1>6, <1>7, <1>8, <1>9, <1>10 DEF ConversationInv

LEMMA WorkKeeps ==
    ASSUME ConversationInv, Work, UNCHANGED stateful
    PROVE  ConversationInv'
<1>0. Types /\ WorkersAreEnough /\ OneAtATime /\ NotYet /\ StorageIsTheirs /\ ContextIsKept
    BY DEF ConversationInv
<1>i. PICK i \in Inputs : i = Head(queue)
    BY <1>0 DEF Work, Types
<1>1. /\ pc[i] = "queued" /\ pc' = [pc EXCEPT ![i] = "get"]
      /\ queue # <<>> /\ queue' = Tail(queue)
      /\ UNCHANGED <<sent, kind, found, answer, storage, fed, expired, replied>>
    BY <1>i DEF Work, Goto
<1>2. /\ pc' \in [Inputs -> Pcs] /\ pc'[i] = "get"
      /\ \A j \in Inputs : j # i => pc'[j] = pc[j]
    BY <1>0, <1>1 DEF Types, Pcs, Running
<1>3. Types'
    <2>1. queue' \in Seq(Inputs) /\ Len(queue') <= QueueSize
        <3>1. queue \in Seq(Inputs) /\ queue # <<>> /\ Len(queue) <= QueueSize
            BY <1>0, <1>1 DEF Types
        <3>2. Tail(queue) \in Seq(Inputs) /\ Len(Tail(queue)) = Len(queue) - 1
            BY <3>1, HeadTailProperties
        <3> QED
            BY <1>1, <3>1, <3>2, LenProperties, ConversationAssumption
    <2> QED
        BY <1>0, <1>1, <1>2, <2>1 DEF Types
<1>4. WorkersAreEnough'
    <2>1. RunningNow' = RunningNow \union {i} /\ i \notin RunningNow
        BY <1>1, <1>2 DEF RunningNow, Running
    <2>2. Cardinality(RunningNow) < NumWorkers
        BY DEF Work, RunningNow
    <2>3. /\ IsFiniteSet(RunningNow') /\ Cardinality(RunningNow') = Cardinality(RunningNow) + 1
          /\ Cardinality(RunningNow) \in Nat
        BY <1>0, <2>1, FS_AddElement, FS_CardinalityType DEF WorkersAreEnough
    <2> QED
        BY <2>2, <2>3, ConversationAssumption DEF WorkersAreEnough
<1>5. OneAtATime'
    <2>1. i[1] \in Patient => i[2] = sent[i[1]]
        BY <1>0, <1>1, HandledIsLast
    <2>2. \A j \in Inputs : pc'[j] # "none" <=> j[2] <= sent'[j[1]]
        BY <1>0, <1>1, <1>2 DEF OneAtATime
    <2>3. \A j \in Inputs : j[1] \in Patient /\ j[2] < sent'[j[1]] => pc'[j] \in Over
        BY <1>0, <1>1, <1>2 DEF OneAtATime, Over
    <2>4. \A j \in replied : pc'[j] = "done"
        BY <1>0, <1>1, <1>2 DEF OneAtATime, Types
    <2> QED
        BY <1>1, <2>2, <2>3, <2>4 DEF OneAtATime
<1>6. NotYet' /\ StorageIsTheirs'
    <2>1. NotYet'
        BY <1>0, <1>1, <1>2 DEF NotYet
    <2>2. StorageIsTheirs'
        BY <1>0, <1>1, <1>2 DEF StorageIsTheirs
    <2> QED
        BY <2>1, <2>2
<1>7. ContextIsKept'
    <2>1. \A j \in Inputs : Opened(j)' => Opened(j)
        BY <1>1, <1>2 DEF Opened
    <2>2. \A j \in Inputs : Kept(j)' <=> Kept(j)
        BY <1>1 DEF Kept
    <2> QED
        BY <1>0, <1>1, <2>1, <2>2 DEF ContextIsKept
<1> QED
    BY <1>3, <1>4, <1>5, <1>6, <1>7 DEF ConversationInv

\* A context that leaves the storage has expired.
LEMMA StorageForgets ==
    ASSUME ConversationInv,
           storage' \in [Users -> Inputs \union {NoContext}],
           expired' \subseteq Inputs, expired \subseteq expired',
           \A u \in Users : \/ storage'[u] = storage[u]
                            \/ storage'[u] = NoContext /\ storage[u] \in expired' \union {NoContext},
           UNCHANGED <<stateful, sent, kind, queue, pc, found, answer, fed, replied>>
    PROVE  ConversationInv'
<1>0. Types /\ WorkersAreEnough /\ OneAtATime /\ NotYet /\ StorageIsTheirs /\ ContextIsKept
    BY DEF ConversationInv
<1>1. Types' /\ WorkersAreEnough' /\ OneAtATime' /\ NotYet'
    BY <1>0 DEF Types, WorkersAreEnough, RunningNow, OneAtATime, NotYet
<1>2. StorageIsTheirs'
    <2>1. \A j \in Inputs : storage'[j[1]] \in {storage[j[1]], NoContext}
        BY InputParts
    <2> QED
        BY <1>0, <2>1 DEF StorageIsTheirs
<1>3. ContextIsKept'
    <2> SUFFICES ASSUME NEW k \in Inputs, stateful, k[1] \in Patient, k \notin expired',
                        Opened(k)
                 PROVE  storage'[k[1]] = k \/ \E j \in Inputs : found[j] = k
        BY DEF ContextIsKept, Kept, Opened
    <2>1. storage[k[1]] = k \/ \E j \in Inputs : found[j] = k
        BY <1>0 DEF ContextIsKept, Kept
    <2> QED
        BY <2>1, InputParts, ConversationAssumption
<1> QED
    BY <1>1, <1>2, <1>3 DEF ConversationInv

LEMMA ConversationNext == ConversationInv /\ [Next]_vars => ConversationInv'
<1> SUFFICES ASSUME ConversationInv, [Next]_vars PROVE ConversationInv'
    OBVIOUS
<1>t. /\ storage \in [Users -> Inputs \union {NoContext}] /\ expired \subseteq Inputs
    BY DEF ConversationInv, Types
<1>1. CASE UNCHANGED stateful /\ \E u \in Users, k \in Kinds : Send(u, k)
    BY <1>1, SendKeeps
<1>2. CASE UNCHANGED stateful /\ Work
    BY <1>2, WorkKeeps
<1>3. CASE UNCHANGED stateful /\ \E i \in Inputs : Respond(i)
    BY <1>3, RespondKeeps
<1>4. CASE UNCHANGED stateful /\ \E u \in Users : Expire(u)
    <2>1. PICK u \in Users : Expire(u)
        BY <1>4
    <2>2. storage' \in [Users -> Inputs \union {NoContext}]
        BY <1>t, <2>1 DEF Expire
    <2>3. expired' \subseteq Inputs /\ expired \subseteq expired'
        BY <1>t, <2>1 DEF Expire
    <2>4. \A v \in Users : \/ storage'[v] = storage[v]
                           \/ storage'[v] = NoContext /\ storage[v] \in expired' \union {NoContext}
        BY <1>t, <2>1 DEF Expire
    <2>5. UNCHANGED <<stateful, sent, kind, queue, pc, found, answer, fed, replied>>
        BY <1>4, <2>1 DEF Expire
    <2> QED
        BY <2>2, <2>3, <2>4, <2>5, StorageForgets
<1>5. CASE UNCHANGED stateful /\ Flush
    <2>2. storage' \in [Users -> Inputs \union {NoContext}]
        BY <1>5 DEF Flush
    <2>3. expired' \subseteq Inputs /\ expired \subseteq expired'
        BY <1>t, <1>5, ConversationAssumption DEF Flush
    <2>4. \A v \in Users : storage'[v] = NoContext /\ storage[v] \in expired' \union {NoContext}
        BY <1>5 DEF Flush
    <2>5. UNCHANGED <<stateful, sent, kind, queue, pc, found, answer, fed, replied>>
        BY <1>5 DEF Flush
    <2> QED
        BY <2>2, <2>3, <2>4, <2>5, StorageForgets
<1>6. CASE UNCHANGED vars
    <2>1. UNCHANGED <<stateful, sent, kind, queue, pc, found, answer, storage, fed, expired, replied>>
        BY <1>6 DEF vars
    <2> QED
        BY <1>t, <2>1, StorageForgets
<1> QED
    BY <1>1, <1>2, <1>3, <1>4, <1>5, <1>6 DEF Next

-----------------------------------------------------------------------------
(***************************************************************************)
(* The theorems                                                            *)
(***************************************************************************)

\* Every state of Spec satisfies the invariant, for any number of users, workers
\* and inputs and any size of the queue.
THEOREM ConversationInvariant == Spec => []ConversationInv
BY ConversationInit, ConversationNext, PTL DEF Spec

\* The variables keep their types; the queue never grows past its size, and no
\* more Respond calls run than there are workers.
THEOREM ConversationTypeCorrect == Spec => []TypeOK
<1>1. ConversationInv => TypeOK
    BY DEF ConversationInv, Types, WorkersAreEnough, RunningNow, Pcs, TypeOK
<1> QED
    BY <1>1, ConversationInvariant, PTL

\* A user who waits never loses a context: Respond stores it before it sends the
\* reply, and nobody else writes that user's context meanwhile.
THEOREM PatientContextIsKept == Spec => []ContextIsNotLost
<1>1. ConversationInv => ContextIsNotLost
    BY InputParts
       DEF ConversationInv, OneAtATime, ContextIsKept, Opened, Kept, ContextIsNotLost
<1> QED
    BY <1>1, ConversationInvariant, PTL

\* An AbortInput of a user who waits leaves no earlier context behind.
THEOREM AbortEndsContext == Spec => []AbortCancelsContext
<1>1. ASSUME ConversationInv PROVE AbortCancelsContext
    <2> SUFFICES ASSUME NEW u \in Patient, Aborted(u)
                 PROVE  storage[u] \in {NoContext, <<u, sent[u]>>}
        BY DEF AbortCancelsContext
    <2>1. u \in Users /\ sent[u] \in 0 .. MaxInputs /\ sent[u] > 0 /\ pc[<<u, sent[u]>>] = "done"
        BY <1>1, ConversationAssumption DEF ConversationInv, Types, Aborted
    <2>2. sent[u] \in 1 .. MaxInputs
        BY <2>1, ConversationAssumption
    <2>3. PICK i \in Inputs : i = <<u, sent[u]>> /\ i[1] = u /\ i[2] = sent[u]
        BY <2>1, <2>2, InputParts
    <2> QED
        BY <1>1, <2>1, <2>3 DEF ConversationInv, StorageIsTheirs
<1> QED
    BY <1>1, ConversationInvariant, PTL

-----------------------------------------------------------------------------
(***************************************************************************)
(* No step of a conversation is executed twice                             *)
(***************************************************************************)

\* A stored context is the user's own, and its answer is past SetContext.
StoredIsOwn ==
    \A u \in Users : storage[u] \in Inputs =>
        storage[u][1] = u /\ pc[storage[u]] \in {"send", "done"}

\* So is one that Get returned.
FoundIsOwn ==
    \A j \in Inputs : found[j] \in Inputs =>
        found[j][1] = j[1] /\ pc[found[j]] \in {"send", "done"}

\* A function is executed with the inputs that found its context.
FedIsFound == \A i \in Inputs : \A j \in fed[i] : found[j] = i

\* What a user who waits has found is gone when Respond goes on.
FoundIsTaken ==
    \A j \in Inputs : j[1] \in Patient /\ found[j] \in Inputs /\ storage[j[1]] = found[j]
                         => pc[j] = "delete"

FoundByOne ==
    \A j, k \in Inputs : j[1] \in Patient /\ found[j] \in Inputs /\ found[j] = found[k] => j = k

OnceInv == StoredIsOwn /\ FoundIsOwn /\ FedIsFound /\ FoundIsTaken /\ FoundByOne

\* ContextRunsOnce for those who wait: the function of a context is executed with
\* one of their inputs at most.
PatientContextRunsOnce ==
    \A i \in Inputs : User(i) \in Patient => \A j, k \in fed[i] : j = k

\* All steps but GetContext and SetContext: contexts only disappear.
LEMMA OnceFrame ==
    ASSUME Types, OnceInv, found' = found, FedIsFound',
           \A i \in Inputs : pc[i] \in {"send", "done"} => pc'[i] \in {"send", "done"},
           \A i \in Inputs : pc[i] = "delete" => pc'[i] = "delete" \/ storage'[i[1]] = NoContext,
           \A u \in Users : storage'[u] = storage[u] \/ storage'[u] = NoContext
    PROVE  OnceInv'
<1>1. NoContext \notin Inputs /\ \A i \in Inputs : i[1] \in Users
    BY InputParts, ConversationAssumption
<1>2. StoredIsOwn'
    BY <1>1 DEF OnceInv, StoredIsOwn
<1>3. FoundIsOwn'
    BY DEF OnceInv, FoundIsOwn
<1>4. FoundIsTaken'
    BY <1>1 DEF OnceInv, FoundIsTaken
<1>5. FoundByOne'
    BY DEF OnceInv, FoundByOne
<1> QED
    BY <1>2, <1>3, <1>4, <1>5 DEF OnceInv

\* Nobody else of a user who waits is on the way to a context that Get returns.
LEMMA GetContextOnce ==
    ASSUME ConversationInv, OnceInv, NEW i \in Inputs, GetContext(i)
    PROVE  OnceInv'
<1>1. /\ found' = [found EXCEPT ![i] = storage[i[1]]] /\ pc[i] = "get"
      /\ pc' = [pc EXCEPT ![i] = IF storage[i[1]] = NoContext THEN "find" ELSE "delete"]
      /\ storage' = storage /\ fed' = fed
    BY InputParts DEF GetContext, Goto
<1>2. Types /\ OneAtATime /\ NotYet
    BY DEF ConversationInv
<1>3. /\ NoContext \notin Inputs /\ i[1] \in Users /\ found[i] = NoContext
      /\ \A j \in Inputs : j[1] \in Users
    BY <1>1, <1>2, InputParts, ConversationAssumption DEF NotYet
<1>4. /\ \A j \in Inputs : found'[j] = IF j = i THEN storage[i[1]] ELSE found[j]
      /\ \A j \in Inputs : j # i => pc'[j] = pc[j]
      /\ storage[i[1]] # NoContext => pc'[i] = "delete"
    BY <1>1, <1>2 DEF Types
<1>5. StoredIsOwn'
    BY <1>1, <1>3, <1>4 DEF OnceInv, StoredIsOwn
<1>6. FoundIsOwn'
    <2>1. \A j \in Inputs : pc[j] \in {"send", "done"} => pc'[j] \in {"send", "done"}
        BY <1>1, <1>4
    <2> SUFFICES ASSUME NEW j \in Inputs, found'[j] \in Inputs
                 PROVE  found'[j][1] = j[1] /\ pc'[found'[j]] \in {"send", "done"}
        BY DEF FoundIsOwn
    <2>2. CASE j = i
        BY <1>3, <1>4, <2>1, <2>2 DEF OnceInv, StoredIsOwn
    <2>3. CASE j # i
        BY <1>4, <2>1, <2>3 DEF OnceInv, FoundIsOwn
    <2> QED
        BY <2>2, <2>3
<1>7. FedIsFound'
    BY <1>1, <1>2, <1>3, <1>4 DEF OnceInv, FedIsFound, Types
<1>8. FoundIsTaken'
    BY <1>1, <1>3, <1>4 DEF OnceInv, FoundIsTaken
<1>9. FoundByOne'
    <2>1. ASSUME NEW j \in Inputs, j # i, found[j] = storage[i[1]], storage[i[1]] \in Inputs,
                 i[1] \in Patient \/ j[1] \in Patient
          PROVE  FALSE
        <3>1. j[1] = i[1]
            BY <1>3, <2>1 DEF OnceInv, StoredIsOwn, FoundIsOwn
        <3>2. pc[j] = "delete"
            BY <2>1, <3>1 DEF OnceInv, FoundIsTaken
        <3>3. pc[j] \in Over \union {"none"}
            BY <1>1, <1>2, <2>1, <3>1, HandledIsLast DEF Running
        <3> QED
            BY <3>2, <3>3 DEF Over
    <2> SUFFICES ASSUME NEW j \in Inputs, NEW k \in Inputs, j[1] \in Patient,
                        found'[j] \in Inputs, found'[j] = found'[k], j # k
                 PROVE  FALSE
        BY DEF FoundByOne
    <2>2. CASE j # i /\ k # i
        BY <1>4, <2>2 DEF OnceInv, FoundByOne
    <2>3. CASE j = i
        BY <1>4, <2>1, <2>3
    <2>4. CASE k = i
        BY <1>4, <2>1, <2>4
    <2> QED
        BY <2>2, <2>3, <2>4
<1> QED
    BY <1>5, <1>6, <1>7, <1>8, <1>9 DEF OnceInv

\* Nobody has found the context that Set stores.
LEMMA SetContextOnce ==
    ASSUME ConversationInv, OnceInv, NEW i \in Inputs, SetContext(i)
    PROVE  OnceInv'
<1>1. /\ storage' = IF stateful /\ Stored(answer[i]) THEN [storage EXCEPT ![i[1]] = i]
                                                     ELSE storage
      /\ found' = found /\ fed' = fed /\ pc[i] = "set"
      /\ pc' = [pc EXCEPT ![i] = IF HasContent(answer[i]) THEN "send" ELSE "done"]
    BY InputParts DEF SetContext, Goto
<1>2. Types
    BY DEF ConversationInv
<1>3. \A j \in Inputs : j[1] \in Users
    BY InputParts
<1>4. /\ \A u \in Users : storage'[u] = storage[u] \/ (u = i[1] /\ storage'[u] = i)
      /\ \A j \in Inputs : j # i => pc'[j] = pc[j]
      /\ pc'[i] \in {"send", "done"}
    BY <1>1, <1>2 DEF Types
<1>5. StoredIsOwn'
    BY <1>4 DEF OnceInv, StoredIsOwn
<1>6. FoundIsOwn'
    BY <1>1, <1>4 DEF OnceInv, FoundIsOwn
<1>7. FedIsFound' /\ FoundByOne'
    BY <1>1 DEF OnceInv, FedIsFound, FoundByOne
<1>8. FoundIsTaken'
    <2>1. \A j \in Inputs : found[j] # i
        BY <1>1 DEF OnceInv, FoundIsOwn
    <2> QED
        BY <1>1, <1>3, <1>4, <2>1 DEF OnceInv, FoundIsTaken
<1> QED
    BY <1>5, <1>6, <1>7, <1>8 DEF OnceInv

LEMMA OnceNext == ConversationInv /\ OnceInv /\ [Next]_vars => OnceInv'
<1> SUFFICES ASSUME ConversationInv, OnceInv, [Next]_vars PROVE OnceInv'
    OBVIOUS
<1>t. Types
    BY DEF ConversationInv
<1>f. FedIsFound
    BY DEF OnceInv
<1>1. ASSUME NEW i \in Inputs, Respond(i) PROVE OnceInv'
    <2>1. CASE GetContext(i)
        BY <2>1, GetContextOnce
    <2>2. CASE SetContext(i)
        BY <2>2, SetContextOnce
    <2>3. ASSUME NEW a \in Answers, ExecuteCommand(i, a) \/ ExecuteContext(i, a)
          PROVE  OnceInv'
        <3>1. /\ pc[i] \in {"find", "execute"} /\ found' = found /\ storage' = storage
              /\ pc' = [pc EXCEPT ![i] = AfterAnswer(a)]
              /\ fed' = fed \/ fed' = [fed EXCEPT ![found[i]] = @ \union {i}]
            BY <2>3 DEF ExecuteCommand, ExecuteContext, Goto
        <3>2. FedIsFound'
            <4>1. \A x \in Inputs : \A j \in fed'[x] : j \in fed[x] \/ (x = found[i] /\ j = i)
                BY <1>t, <3>1 DEF Types
            <4> QED
                BY <1>f, <3>1, <4>1 DEF FedIsFound
        <3>3. \A j \in Inputs : j # i => pc'[j] = pc[j]
            BY <1>t, <3>1 DEF Types
        <3> QED
            BY <1>t, <3>1, <3>2, <3>3, OnceFrame
    <2>4. CASE DeleteContext(i)
        <3>1. /\ found' = found /\ fed' = fed /\ pc[i] = "delete"
              /\ storage' = [storage EXCEPT ![i[1]] = NoContext]
              /\ pc' = [pc EXCEPT ![i] = IF kind[i] = "abort" THEN "done" ELSE "execute"]
            BY <2>4, InputParts DEF DeleteContext, Goto
        <3>2. /\ storage'[i[1]] = NoContext
              /\ \A u \in Users : storage'[u] = storage[u] \/ storage'[u] = NoContext
              /\ \A j \in Inputs : j # i => pc'[j] = pc[j]
            BY <1>t, <3>1, InputParts DEF Types
        <3>3. FedIsFound'
            BY <1>f, <3>1 DEF FedIsFound
        <3> QED
            BY <1>t, <3>1, <3>2, <3>3, OnceFrame
    <2>5. CASE SendMessage(i)
        <3>1. /\ found' = found /\ fed' = fed /\ storage' = storage /\ pc[i] = "send"
              /\ pc' = [pc EXCEPT ![i] = "done"]
            BY <2>5 DEF SendMessage, Goto
        <3>2. \A j \in Inputs : pc'[j] = IF j = i THEN "done" ELSE pc[j]
            BY <1>t, <3>1 DEF Types
        <3>3. FedIsFound'
            BY <1>f, <3>1 DEF FedIsFound
        <3> QED
            BY <1>t, <3>1, <3>2, <3>3, OnceFrame
    <2> QED
        BY <1>1, <2>1, <2>2, <2>3, <2>4, <2>5 DEF Respond
<1>2. ASSUME found' = found, fed' = fed, storage' = storage,
             NEW i, NEW to, pc' = [pc EXCEPT ![i] = to], pc[i] \in {"none", "queued"}
      PROVE  OnceInv'
    <2>1. \A j \in Inputs : pc[j] \in {"delete", "send", "done"} => pc'[j] = pc[j]
        BY <1>t, <1>2 DEF Types
    <2>2. FedIsFound'
        BY <1>f, <1>2 DEF FedIsFound
    <2> QED
        BY <1>t, <1>2, <2>1, <2>2, OnceFrame
<1>3. ASSUME NEW u \in Users, NEW k \in Kinds, Send(u, k) PROVE OnceInv'
    <2>1. PICK i, to : /\ pc' = [pc EXCEPT ![i] = to] /\ pc[i] = "none"
                       /\ found' = found /\ fed' = fed /\ storage' = storage
        BY <1>3 DEF Send, Goto
    <2> QED
        BY <1>2, <2>1
<1>4. CASE Work
    <2>1. /\ pc' = [pc EXCEPT ![Head(queue)] = "get"] /\ pc[Head(queue)] = "queued"
          /\ found' = found /\ fed' = fed /\ storage' = storage
        BY <1>4 DEF Work, Goto
    <2> QED
        BY <1>2, <2>1
<1>5. ASSUME found' = found, fed' = fed, pc' = pc,
             \A u \in Users : storage'[u] = storage[u] \/ storage'[u] = NoContext
      PROVE  OnceInv'
    <2>1. FedIsFound'
        BY <1>f, <1>5 DEF FedIsFound
    <2> QED
        BY <1>t, <1>5, <2>1, OnceFrame
<1>6. ASSUME NEW u \in Users, Expire(u) PROVE OnceInv'
    BY <1>t, <1>5, <1>6 DEF Expire, Types
<1>7. CASE Flush
    BY <1>5, <1>7 DEF Flush
<1>8. CASE UNCHANGED vars
    BY <1>5, <1>8 DEF vars
<1> QED
    BY <1>1, <1>3, <1>4, <1>6, <1>7, <1>8 DEF Next

\* No two inputs of a user who waits continue the same context, although Get and
\* Delete of Respond are two steps: a step of the conversation is executed once. For
\* one who does not wait ConversationTwice is a behaviour in which it runs twice.
THEOREM PatientStepRunsOnce == Spec => []PatientContextRunsOnce
<1>1. Init => OnceInv
    <2> SUFFICES ASSUME Init PROVE OnceInv
        OBVIOUS
    <2>1. /\ found = [i \in Inputs |-> NoContext] /\ fed = [i \in Inputs |-> {}]
          /\ storage = [u \in Users |-> NoContext] /\ NoContext \notin Inputs
        BY ConversationAssumption DEF Init
    <2> QED
        BY <2>1 DEF OnceInv, StoredIsOwn, FoundIsOwn, FedIsFound, FoundIsTaken, FoundByOne
<1>2. ConversationInv /\ OnceInv => PatientContextRunsOnce
    <2> SUFFICES ASSUME ConversationInv, OnceInv, NEW i \in Inputs, i[1] \in Patient,
                        NEW j \in fed[i], NEW k \in fed[i]
                 PROVE  j = k
        BY InputParts DEF PatientContextRunsOnce
    <2>1. j \in Inputs /\ k \in Inputs /\ found[j] = i /\ found[k] = i
        BY DEF ConversationInv, Types, OnceInv, FedIsFound
    <2>2. j[1] = i[1]
        BY <2>1 DEF OnceInv, FoundIsOwn
    <2> QED
        BY <2>1, <2>2 DEF OnceInv, FoundByOne
<1> QED
    BY <1>1, <1>2, OnceNext, ConversationInvariant, PTL DEF Spec
=============================================================================
