---------------------------- MODULE ClaimLedger ----------------------------
(***************************************************************************)
(* What the task queue promises its callers, without rows, locks, leases   *)
(* or clocks: a task has at most one claim at a time, claims are numbered  *)
(* in the order they are granted, a claim that was taken back is never     *)
(* honoured again, and a finished task stays finished.                     *)
(***************************************************************************)
EXTENDS Naturals

CONSTANT Tasks

VARIABLES
  place,   \* where each task is
  holder,  \* the claim that holds the task, 0 when none does
  granted  \* the number of claims granted for the task

vars == <<place, holder, granted>>

Places == {"absent", "waiting", "held", "review", "done"}

Init ==
  /\ place = [t \in Tasks |-> "absent"]
  /\ holder = [t \in Tasks |-> 0]
  /\ granted = [t \in Tasks |-> 0]

Move(t, from, to) ==
  /\ place[t] \in from
  /\ place' = [place EXCEPT ![t] = to]
  /\ holder' = [holder EXCEPT ![t] = 0]
  /\ UNCHANGED granted

Submit(t) == Move(t, {"absent"}, "waiting")

Grant(t) ==
  /\ place[t] = "waiting"
  /\ granted' = [granted EXCEPT ![t] = @ + 1]
  /\ holder' = [holder EXCEPT ![t] = granted[t] + 1]
  /\ place' = [place EXCEPT ![t] = "held"]

\* The holder gives the task back for a retry, or its lease ran out.
GiveBack(t) == Move(t, {"held"}, "waiting")

Park(t) == Move(t, {"waiting", "held"}, "review")

Unpark(t) == Move(t, {"review"}, "waiting")

Finish(t) == Move(t, {"waiting", "held", "review"}, "done")

Next ==
  \E t \in Tasks :
    Submit(t) \/ Grant(t) \/ GiveBack(t) \/ Park(t) \/ Unpark(t) \/ Finish(t)

Spec == Init /\ [][Next]_vars
=============================================================================
