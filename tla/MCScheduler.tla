---------------------------- MODULE MCScheduler ----------------------------
(***************************************************************************)
(* Instances of Scheduler for TLC.                                         *)
(***************************************************************************)
EXTENDS Scheduler

CONSTANTS c1, c2, t1, t2

\* Both threads belong to the first CPU; the second one wakes them through the
\* resume ring.
OneCpu == [t \in Threads |-> c1]
===========================================================================
