---------------------------- MODULE MCScheduler -----------------------------
(***************************************************************************)
(* Instances of Scheduler for TLC: registerScheduledTasks goes through the *)
(* tasks with props and then through the plain ones.                       *)
(***************************************************************************)
EXTENDS Scheduler

CONSTANTS p1, p2, t1, t2

PropsThenTasks == <<p1, p2, t1>>
TwoTasks == <<t1, t2>>
OneProps == <<p1>>
Twice == <<p1, p1>>
=============================================================================
