----------------------------- MODULE MCBudgets -----------------------------
(***************************************************************************)
(* A soft global cumulative account with an exploration reserve, and a     *)
(* hard worker slot; demands of one slot with one or two units.            *)
(***************************************************************************)
EXTENDS Budgets, TLC

CONSTANTS requests, slot

MCLimit == (requests :> 3) @@ (slot :> 2)
MCHeldBack == (requests :> 1) @@ (slot :> 0)
MCDemands == {(requests :> 1) @@ (slot :> 1), (requests :> 2) @@ (slot :> 1),
              (requests :> 0) @@ (slot :> 1), (requests :> 0) @@ (slot :> 0)}
Symmetry == Permutations(Reservations)
=============================================================================
