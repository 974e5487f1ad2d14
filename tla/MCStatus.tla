------------------------------ MODULE MCStatus ------------------------------
(***************************************************************************)
(* Instances of Status for TLC: three bots, two of which share a BotType.  *)
(***************************************************************************)
EXTENDS Status, TLC

CONSTANTS b1, b2, b3, t1, t2

SharedTypes == (b1 :> t1) @@ (b2 :> t1) @@ (b3 :> t2)

OwnTypes == (b1 :> t1) @@ (b2 :> t2)

RunnerSymmetry == Permutations(Runners)
=============================================================================
