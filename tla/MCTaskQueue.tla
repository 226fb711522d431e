---------------------------- MODULE MCTaskQueue ----------------------------
(***************************************************************************)
(* Instances of the queue: TaskQueue.cfg races two processes over a task,  *)
(* TaskQueueSingle.cfg has one process and two tasks of the same logical   *)
(* work, TaskQueueLostUpdate.cfg shows what a second process does to the   *)
(* retry budget.                                                           *)
(***************************************************************************)
EXTENDS TaskQueueProps, TLC

CONSTANTS t1, t2, p1, p2

Symmetry == Permutations(Tasks) \cup Permutations(Procs)
=============================================================================
