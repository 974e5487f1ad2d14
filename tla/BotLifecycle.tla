---------------------------- MODULE BotLifecycle ----------------------------
(***************************************************************************)
(* What Sarah promises about the life of each bot, without the goroutines  *)
(* that make it so: a bot ends only after Sarah canceled it ("The bot MUST *)
(* NOT kill itself, but Sarah does"), a canceled bot ends, a finished bot  *)
(* never comes back, and the administrators learn of every fatal error a   *)
(* bot was stopped for.                                                    *)
(***************************************************************************)
CONSTANT Bots

VARIABLES
    shutdown,   \* TRUE once the developer canceled the context of Run
    phase,      \* whether the goroutine of each bot has started and ended
    stopped,    \* for which reasons Sarah canceled each bot
    notified    \* TRUE once every Alerter got the fatal error of the bot

vars == <<shutdown, phase, stopped, notified>>

TypeOK ==
    /\ shutdown \in BOOLEAN
    /\ phase \in [Bots -> {"ready", "running", "finished"}]
    /\ stopped \in [Bots -> SUBSET {"fatal", "directive"}]
    /\ notified \in [Bots -> BOOLEAN]

Init ==
    /\ shutdown = FALSE
    /\ phase = [b \in Bots |-> "ready"]
    /\ stopped = [b \in Bots |-> {}]
    /\ notified = [b \in Bots |-> FALSE]

Shutdown ==
    /\ ~shutdown
    /\ shutdown' = TRUE
    /\ UNCHANGED <<phase, stopped, notified>>

Start(b) ==
    /\ phase[b] = "ready"
    /\ phase' = [phase EXCEPT ![b] = "running"]
    /\ UNCHANGED <<shutdown, stopped, notified>>

\* An error handled late may still stop a bot that ended with the others.
Stop(b, reason) ==
    /\ phase[b] # "ready"
    /\ stopped' = [stopped EXCEPT ![b] = @ \union {reason}]
    /\ UNCHANGED <<shutdown, phase, notified>>

Notify(b) ==
    /\ "fatal" \in stopped[b]
    /\ ~notified[b]
    /\ notified' = [notified EXCEPT ![b] = TRUE]
    /\ UNCHANGED <<shutdown, phase, stopped>>

Finish(b) ==
    /\ phase[b] = "running"
    /\ shutdown \/ stopped[b] # {}
    /\ phase' = [phase EXCEPT ![b] = "finished"]
    /\ UNCHANGED <<shutdown, stopped, notified>>

Next ==
    \/ Shutdown
    \/ \E b \in Bots :
         \/ Start(b)
         \/ \E reason \in {"fatal", "directive"} : Stop(b, reason)
         \/ Notify(b)
         \/ Finish(b)

Spec == Init /\ [][Next]_vars

FairSpec == Spec /\ \A b \in Bots : WF_vars(Notify(b)) /\ WF_vars(Finish(b))
=============================================================================
