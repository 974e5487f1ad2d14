---------------------------- MODULE Conversation ----------------------------
(***************************************************************************)
(* How an input is answered: setupInputReceiver puts it into the queue of  *)
(* the worker, and a worker runs defaultBot.Respond on it (bot.go), which  *)
(* reads, deletes and stores the user's conversational context (storage.go)*)
(* and sends the reply. Workers run several Respond calls at a time. The   *)
(* worker pool and the cache are external. A context is named after the    *)
(* input whose answer created it.                                          *)
(***************************************************************************)
EXTENDS Naturals, Sequences, FiniteSets

CONSTANTS
    Users,        \* the sender keys
    NumWorkers,   \* worker.Config.WorkerNum
    QueueSize,    \* worker.Config.QueueSize
    Patient,      \* the users who wait for the answer before they go on
    MaxInputs,    \* bound: inputs of one user
    NoContext     \* no conversational context is stored

Inputs == Users \X (1 .. MaxInputs)

ASSUME ConversationAssumption ==
    /\ NumWorkers \in Nat /\ QueueSize \in Nat /\ MaxInputs \in Nat
    /\ Patient \subseteq Users
    /\ NoContext \notin Inputs

VARIABLES
    stateful,  \* the bot was given a storage with BotWithStorage
    sent,      \* number of inputs each user has sent
    kind,      \* which Input implementation each input is
    queue,     \* the queue of the worker
    pc,        \* where the handling of each input is
    found,     \* the context that Get returned
    answer,    \* the *CommandResponse
    storage,   \* the stored context of each user
    fed,       \* the inputs each context's function was executed with
    expired,   \* contexts that expired in the cache or were flushed
    replied    \* inputs whose reply was sent

vars == <<stateful, sent, kind, queue, pc, found, answer, storage, fed, expired,
          replied>>

Kinds == {"text", "help", "abort"}

\* What a Command or a ContextualFunc returns: nothing (an error or no response,
\* both of which end Respond), or a response with or without content and with or
\* without a context. The default storage refuses a context without a Next
\* function, as in "replySerial".
Answers == {"nothing", "reply", "replyNext", "silentNext", "replySerial"}

Stored(a)     == a \in {"replyNext", "silentNext"}
HasContext(a) == Stored(a) \/ a = "replySerial"
HasContent(a) == a \in {"reply", "replyNext", "replySerial"}

Running == {"get", "find", "delete", "execute", "set", "send"}
Over    == {"blocked", "done"}

TypeOK ==
    /\ stateful \in BOOLEAN
    /\ sent \in [Users -> 0 .. MaxInputs]
    /\ kind \in [Inputs -> Kinds]
    /\ queue \in Seq(Inputs) /\ Len(queue) <= QueueSize
    /\ pc \in [Inputs -> Running \union Over \union {"none", "queued"}]
    /\ found \in [Inputs -> Inputs \union {NoContext}]
    /\ answer \in [Inputs -> Answers]
    /\ storage \in [Users -> Inputs \union {NoContext}]
    /\ fed \in [Inputs -> SUBSET Inputs]
    /\ expired \subseteq Inputs
    /\ replied \subseteq Inputs
    /\ Cardinality({i \in Inputs : pc[i] \in Running}) <= NumWorkers

Init ==
    /\ stateful \in BOOLEAN
    /\ sent = [u \in Users |-> 0]
    /\ kind = [i \in Inputs |-> "text"]
    /\ queue = <<>>
    /\ pc = [i \in Inputs |-> "none"]
    /\ found = [i \in Inputs |-> NoContext]
    /\ answer = [i \in Inputs |-> "nothing"]
    /\ storage = [u \in Users |-> NoContext]
    /\ fed = [i \in Inputs |-> {}]
    /\ expired = {}
    /\ replied = {}

Goto(i, from, to) ==
    /\ pc[i] = from
    /\ pc' = [pc EXCEPT ![i] = to]

User(i) == i[1]

-----------------------------------------------------------------------------
(***************************************************************************)
(* The user and the input receiver                                         *)
(***************************************************************************)

\* A patient user has seen the reply to the last input, or waited long enough
\* to be sure that there is none.
MaySend(u) ==
    u \in Patient /\ sent[u] > 0
        => <<u, sent[u]>> \in replied \/ pc[<<u, sent[u]>>] \in Over

\* Mutant of Send: the input is put into the queue although it is full.
SendUnbounded(u, k) ==
    LET i == <<u, sent[u] + 1>>
    IN  /\ sent[u] < MaxInputs
        /\ MaySend(u)
        /\ sent' = [sent EXCEPT ![u] = @ + 1]
        /\ kind' = [kind EXCEPT ![i] = k]
        /\ Goto(i, "none", "queued") /\ queue' = Append(queue, i)
        /\ UNCHANGED <<found, answer, storage, fed, expired, replied>>

\* A full queue does not block: the input is dropped with BlockedInputError.
Send(u, k) ==
    LET i == <<u, sent[u] + 1>>
    IN  /\ sent[u] < MaxInputs
        /\ MaySend(u)
        /\ sent' = [sent EXCEPT ![u] = @ + 1]
        /\ kind' = [kind EXCEPT ![i] = k]
        /\ IF Len(queue) < QueueSize
             THEN Goto(i, "none", "queued") /\ queue' = Append(queue, i)
             ELSE Goto(i, "none", "blocked") /\ UNCHANGED queue
        /\ UNCHANGED <<found, answer, storage, fed, expired, replied>>

\* A worker that is free takes the first input of the queue.
Work ==
    /\ queue # <<>>
    /\ Cardinality({i \in Inputs : pc[i] \in Running}) < NumWorkers
    /\ Goto(Head(queue), "queued", "get")
    /\ queue' = Tail(queue)
    /\ UNCHANGED <<sent, kind, found, answer, storage, fed, expired, replied>>

-----------------------------------------------------------------------------
(***************************************************************************)
(* defaultBot.Respond                                                      *)
(***************************************************************************)

\* Without a storage there is never a context.
GetContext(i) ==
    /\ found' = [found EXCEPT ![i] = storage[User(i)]]
    /\ Goto(i, "get", IF storage[User(i)] = NoContext THEN "find" ELSE "delete")
    /\ UNCHANGED <<sent, kind, queue, answer, storage, fed, expired, replied>>

\* Mutant of AfterAnswer: a response without content is over.
AfterAnswerWithContent(a) ==
    CASE HasContent(a) /\ HasContext(a)  -> "set"
      [] HasContent(a) /\ ~HasContext(a) -> "send"
      [] OTHER                           -> "done"

\* Where Respond goes with what the function or the command returned.
AfterAnswer(a) ==
    CASE HasContext(a)                   -> "set"
      [] ~HasContext(a) /\ HasContent(a) -> "send"
      [] OTHER                           -> "done"

\* No context: help lists the commands; every other input, an AbortInput too,
\* goes to ExecuteFirstMatched.
ExecuteCommand(i, a) ==
    /\ kind[i] = "help" => a = "reply"
    /\ Goto(i, "find", AfterAnswer(a))
    /\ answer' = [answer EXCEPT ![i] = a]
    /\ UNCHANGED <<sent, kind, queue, found, storage, fed, expired, replied>>

\* Mutant of DeleteContext: the context stays in the storage.
DeleteContextNot(i) ==
    /\ Goto(i, "delete", IF kind[i] = "abort" THEN "done" ELSE "execute")
    /\ UNCHANGED <<sent, kind, queue, found, answer, storage, fed, expired, replied>>

DeleteContext(i) ==
    /\ storage' = [storage EXCEPT ![User(i)] = NoContext]
    /\ Goto(i, "delete", IF kind[i] = "abort" THEN "done" ELSE "execute")
    /\ UNCHANGED <<sent, kind, queue, found, answer, fed, expired, replied>>

\* nextFunc(ctx, input); a HelpInput is no exception.
ExecuteContext(i, a) ==
    /\ Goto(i, "execute", AfterAnswer(a))
    /\ answer' = [answer EXCEPT ![i] = a]
    /\ fed' = [fed EXCEPT ![found[i]] = @ \union {i}]
    /\ UNCHANGED <<sent, kind, queue, found, storage, expired, replied>>

SetContext(i) ==
    /\ storage' = IF stateful /\ Stored(answer[i]) THEN [storage EXCEPT ![User(i)] = i]
                                                    ELSE storage
    /\ Goto(i, "set", IF HasContent(answer[i]) THEN "send" ELSE "done")
    /\ UNCHANGED <<sent, kind, queue, found, answer, fed, expired, replied>>

SendMessage(i) ==
    /\ Goto(i, "send", "done")
    /\ replied' = replied \union {i}
    /\ UNCHANGED <<sent, kind, queue, found, answer, storage, fed, expired>>

\* The cache drops a context that is too old.
Expire(u) ==
    /\ storage[u] # NoContext
    /\ expired' = expired \union {storage[u]}
    /\ storage' = [storage EXCEPT ![u] = NoContext]
    /\ UNCHANGED <<sent, kind, queue, pc, found, answer, fed, replied>>

\* Flush of the storage, which is the developer's to call.
Flush ==
    /\ \E u \in Users : storage[u] # NoContext
    /\ expired' = (expired \union {storage[u] : u \in Users}) \ {NoContext}
    /\ storage' = [u \in Users |-> NoContext]
    /\ UNCHANGED <<sent, kind, queue, pc, found, answer, fed, replied>>

-----------------------------------------------------------------------------
Respond(i) ==
    \/ GetContext(i)
    \/ \E a \in Answers : ExecuteCommand(i, a) \/ ExecuteContext(i, a)
    \/ DeleteContext(i) \/ SetContext(i) \/ SendMessage(i)

Next ==
    /\ \/ \E u \in Users, k \in Kinds : Send(u, k)
       \/ Work
       \/ \E i \in Inputs : Respond(i)
       \/ \E u \in Users : Expire(u)
       \/ Flush
    /\ UNCHANGED stateful

Spec == Init /\ [][Next]_vars

-----------------------------------------------------------------------------
(***************************************************************************)
(* Properties. Respond reads, deletes and stores a context in steps of its *)
(* own, so these hold for the users who wait for their answers, whatever   *)
(* the other users do.                                                     *)
(***************************************************************************)

\* "the next input of the user MUST be fed to a function declared by
\* UserContext": once the user has the reply that opened a context, the context
\* is stored, or an input found it, or it expired. Respond stores the context
\* before it sends the reply.
ContextIsNotLost ==
    \A i \in Inputs :
        /\ stateful /\ User(i) \in Patient /\ i \notin expired
        /\ Stored(answer[i]) /\ (i \in replied \/ pc[i] = "done")
        => storage[User(i)] = i \/ \E j \in Inputs : found[j] = i

\* The last input of the user was handled, and it was an AbortInput.
Aborted(u) ==
    LET last == <<u, sent[u]>>
    IN  sent[u] > 0 /\ kind[last] = "abort" /\ pc[last] = "done"

\* AbortInput: "the Bot implementation should cancel the user's current
\* conversational context". When it has been handled and the user wrote nothing
\* since, the user is in no context, or in one that the message itself opened
\* by matching a command.
AbortCancelsContext ==
    \A u \in Patient : Aborted(u) => storage[u] \in {NoContext, <<u, sent[u]>>}

-----------------------------------------------------------------------------
(***************************************************************************)
(* What the comments of the code promise and the code does not do          *)
(***************************************************************************)

\* "the next input of the user MUST be fed", not the next ones: no two inputs
\* continue the same context, so a step of a conversation is not executed twice.
ContextRunsOnce == \A i \in Inputs : Cardinality(fed[i]) <= 1

\* AbortInput for every user: the one who does not wait as well.
EveryAbortCancelsContext ==
    \A u \in Users : Aborted(u) => storage[u] \in {NoContext, <<u, sent[u]>>}

\* HelpInput: "a Bot implementation should list up registered Commands'
\* instructions and send them back to the user". One that finds a context is fed
\* to its function like any other input.
HelpListsCommands ==
    \A i \in Inputs : kind[i] = "help" /\ pc[i] = "done" => found[i] = NoContext
=============================================================================
