---------------------------- MODULE ReviewProps ----------------------------
(***************************************************************************)
(* What the review commands and the gates promise between them.            *)
(***************************************************************************)
EXTENDS ReviewDesk

----------------------------------------------------------------------------
(* Safety.                                                                 *)

\* A task executes only once a human has approved everything its gates ask about, each
\* gate's signals by a case of their own, and the approval is never taken back
\* (ReviewGate.evaluate, _apply_gates, resolve).
NoUnapprovedExecution ==
  \A t \in Tasks : tasks[t].status = "RUNNING" =>
    \A s \in Signals[t] : CasesOf(t, s, "APPROVED") # {}

\* A parked task always has a case through which an operator can settle it, even if its
\* runner died between the case store and the queue (open_case before send_to_review).
ParkedHasCase ==
  \A t \in Tasks : tasks[t].status = "REVIEW" => \E c \in Cases : cases[c].task = t

\* Two operators who decide the same case at once never both succeed with different
\* verdicts: the first resolution stands (resolve).
ResolutionIsFinal ==
  [][\A c \in Cases : cases[c].state \in Verdicts => cases'[c] = cases[c]]_vars

\* A reject command that returns without an error leaves the task finished, in whatever
\* state it found it, and however the runner moved it meanwhile (reject_review_case).
RejectionSettles ==
  [][\A p \in Operators :
       /\ desk[p].at \in {"applying", "saving"} /\ desk[p].verdict = "BLOCKED"
       /\ desk'[p].at = "rest"
       => tasks'[desk[p].task].status \in Q!Terminal]_vars
=============================================================================
