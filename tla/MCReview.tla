------------------------------ MODULE MCReview ------------------------------
(***************************************************************************)
(* Two runners and two operators over a task about which two gates ask.    *)
(***************************************************************************)
EXTENDS ReviewProps, TLC

CONSTANTS runner1, runner2, clerk1, clerk2

MCSignals == [t \in Tasks |-> Sigs]
Symmetry ==
  Permutations({runner1, runner2}) \cup Permutations({clerk1, clerk2}) \cup Permutations(Cases)
=============================================================================
