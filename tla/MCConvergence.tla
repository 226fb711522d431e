--------------------------- MODULE MCConvergence ---------------------------
(***************************************************************************)
(* One branch: a hard and a soft cumulative account, the soft one with an  *)
(* exploration reserve, and a hard slot account.  A task asks for one of   *)
(* each.  Two tasks pause a NORMAL branch and three exhaust the hard       *)
(* account, so it takes a reservation that was reaped to see a NORMAL      *)
(* branch close for its low yield.                                         *)
(***************************************************************************)
EXTENDS Convergence, TLC

CONSTANTS calls, requests, slots

MCLimit == (calls :> 3) @@ (requests :> 3) @@ (slots :> 3)
MCHeldBack == (calls :> 0) @@ (requests :> 1) @@ (slots :> 0)
MCMetrics == <<requests, calls, slots>>
MCDemands == {(calls :> 1) @@ (requests :> 1) @@ (slots :> 1)}
Symmetry == Permutations(Reservations) \cup Permutations(Workers)
=============================================================================
