---------------------------- MODULE MCLifecycle ----------------------------
(***************************************************************************)
(* Instances of the lifecycle.  A task asks for a slot and for one unit of *)
(* a cumulative budget, unless it is one of UnbudgetedTasks.               *)
(***************************************************************************)
EXTENDS LifecycleProps, TLC

CONSTANTS requests, slot, RequestLimit, SlotLimit, UnbudgetedTasks

Ask(n) == (requests :> n) @@ (slot :> n)
MCLimit == (requests :> RequestLimit) @@ (slot :> SlotLimit)
MCHeldBack == Ask(0)
MCDemands == {Ask(0), Ask(1)}
MCDemandOf == [t \in Tasks |-> IF t \in UnbudgetedTasks THEN Ask(0) ELSE Ask(1)]
MCLaneOf == [t \in Tasks |-> "NORMAL"]

\* Tasks are alike only where all of them are budgeted.
Symmetry == Permutations(Procs) \cup Permutations(Reservations)
=============================================================================
