--------------------------- MODULE MCConfigReload ---------------------------
(***************************************************************************)
(* Instances of ConfigReload for TLC.                                      *)
(***************************************************************************)
EXTENDS ConfigReload, TLC

CONSTANTS b1, b2, t1, t2, x, p1, p2, p3

\* b1 has a command and a task with the same identifier: the one that Watch takes
\* first is subscribed. b2 has a type of its own and a command.
TwoBots   == (b1 :> t1) @@ (b2 :> t2)
TwoAndOne == (b1 :> <<p1, p2>>) @@ (b2 :> <<p3>>)
OneId     == (p1 :> x) @@ (p2 :> x) @@ (p3 :> x)
OneTask   == <<p2>>

\* One bot with one task.
OneBot     == (b1 :> t1)
OnlyTask   == (b1 :> <<p2>>)
OnlyId     == (p2 :> x)
=============================================================================
