----------------------------- MODULE ReviewDesk -----------------------------
(***************************************************************************)
(* Human review: the gates of recon/core/lifecycle.py and                  *)
(* recon/policy/review_gate.py that park a task behind a case, the case    *)
(* store of recon/storage/database.py (SQLiteReviewCaseStore), and the     *)
(* operator's approve and reject of recon/runtime.py, over the queue.      *)
(*                                                                         *)
(* A runner admits tasks one at a time; the review commands are processes  *)
(* of their own.  Neither an admission nor a command is a transaction:     *)
(* each reads the case and the task, decides, and writes to the case store *)
(* and then to the queue, so every await is the end of a step.             *)
(*                                                                         *)
(* Left out: scores, budgets, what the signals say, the audit rows, and    *)
(* gates that block or defer.                                              *)
(***************************************************************************)
EXTENDS Integers, FiniteSets

CONSTANTS
  Tasks, Keys, Runs, Procs, None, MaxAttempts, LeaseFor, Delays, MaxWait, MaxTime, MaxClaims,
  Runners,    \* the processes that run the frontier; the others run review commands
  Cases,      \* case identifiers (uuid4 values)
  Sigs,       \* sets of signal fingerprints a gate may ask a human about
  Signals     \* Signals[t]: what the gates ask about t, one fingerprint set per gate

ASSUME RunnersAssumption == Runners \subseteq Procs
ASSUME NoneAssumption == None \notin Tasks
ASSUME SignalsAssumption == Signals \in [Tasks -> SUBSET Sigs]

VARIABLES
  now, tasks, issued, pending, tickets,  \* the queue
  cases,  \* the review_cases table
  desk    \* per process: the admission or the command it is in

queueVars == <<tasks, issued, pending, tickets>>
vars == <<now, queueVars, cases, desk>>

Q == INSTANCE TaskQueue

Verdicts == {"APPROVED", "BLOCKED"}
NoCase == [task |-> None, sig |-> None, state |-> "ABSENT"]

\* Where a process is: between two calls, the last of which may have raised or died; in
\* an admission; or in a review command.
Resting == {"rest", "raised"}
Stages == Resting \cup {"ranked", "gates", "asking", "parking", "saving",
                        "deciding", "resolving", "applying"}

Rest == [at |-> "rest", task |-> None, passed |-> {}, sig |-> None,
         case |-> None, verdict |-> None, seen |-> None]

Operators == Procs \ Runners

Goto(p, stage) == desk' = [desk EXCEPT ![p].at = stage]
Finish(p) == desk' = [desk EXCEPT ![p] = Rest]

Raise(p) == desk' = [desk EXCEPT ![p] = [Rest EXCEPT !.at = "raised"]]

----------------------------------------------------------------------------
(* The case store: one immediate transaction each.                         *)

CasesOf(t, s, state) ==
  {c \in Cases : cases[c].task = t /\ cases[c].sig = s /\ cases[c].state = state}

\* Fault: any approval of the task will do.
ApprovedForTaskAlone(t, s) == \E c \in Cases : cases[c].task = t /\ cases[c].state = "APPROVED"

\* approved_for_task: an approval counts for exactly the fingerprints it was asked about.
ApprovedFor(t, s) == CasesOf(t, s, "APPROVED") # {}

\* open_or_get: an equivalent case that is still OPEN is used again.
OpenOrGet(t, s) ==
  \/ CasesOf(t, s, "OPEN") # {} /\ UNCHANGED cases
  \/ /\ CasesOf(t, s, "OPEN") = {}
     /\ \E c \in Cases :
          /\ cases[c] = NoCase
          /\ cases' = [cases EXCEPT ![c] = [task |-> t, sig |-> s, state |-> "OPEN"]]

----------------------------------------------------------------------------
(* Admission of one task by a runner.                                      *)

Rank(p, t) ==
  /\ desk[p].at \in Resting
  /\ Q!Claimable(t, now)
  /\ desk' = [desk EXCEPT ![p] = [Rest EXCEPT !.at = "ranked", !.task = t]]
  /\ UNCHANGED <<now, queueVars, cases>>

\* admit reads the row again: a task that is no longer runnable is a STALE result.
Admit(p) ==
  /\ desk[p].at = "ranked"
  /\ IF tasks[desk[p].task].status \in Q!Waiting THEN Goto(p, "gates") ELSE Finish(p)
  /\ UNCHANGED <<now, queueVars, cases>>

\* What the gates have not settled yet.
Unsettled(p) == Signals[desk[p].task] \ desk[p].passed

GatePasses(p, s) ==
  /\ desk[p].at = "gates" /\ s \in Unsettled(p)
  /\ ApprovedFor(desk[p].task, s)
  /\ desk' = [desk EXCEPT ![p].passed = @ \cup {s}]
  /\ UNCHANGED <<now, queueVars, cases>>

GateAsks(p, s) ==
  /\ desk[p].at = "gates" /\ s \in Unsettled(p)
  /\ ~ApprovedFor(desk[p].task, s)
  /\ desk' = [desk EXCEPT ![p].at = "asking", ![p].sig = s]
  /\ UNCHANGED <<now, queueVars, cases>>

\* Fault: the task is parked before its case exists.
ParkWithoutCase(p) ==
  /\ desk[p].at = "asking"
  /\ Goto(p, "parking")
  /\ UNCHANGED <<now, queueVars, cases>>

OpenCase(p) ==
  /\ desk[p].at = "asking"
  /\ OpenOrGet(desk[p].task, desk[p].sig)
  /\ Goto(p, "parking")
  /\ UNCHANGED <<now, queueVars>>

Park(p) ==
  /\ desk[p].at = "parking"
  /\ \/ Q!SendToReview(p, desk[p].task) /\ Goto(p, "saving")
     \/ ~Q!Active(desk[p].task) /\ Raise(p) /\ UNCHANGED <<now, queueVars>>
  /\ UNCHANGED cases

\* Every gate has let the task through: it is claimed, or somebody changed it meanwhile.
ClaimAdmitted(p) ==
  LET t == desk[p].task IN
  /\ desk[p].at = "gates" /\ Unsettled(p) = {}
  /\ \/ Q!Claim(p, t, now)
     \/ ~Q!Claimable(t, now) /\ UNCHANGED <<now, queueVars>>
  /\ Finish(p)
  /\ UNCHANGED cases

----------------------------------------------------------------------------
(* approve_review_case and reject_review_case.                             *)

\* The case and its task are read; only a parked or waiting task can be approved.
Decide(p, c, verdict) ==
  LET seen == tasks[cases[c].task].status IN
  /\ desk[p].at \in Resting
  /\ cases[c] # NoCase
  /\ verdict = "APPROVED" => seen \in Q!Waiting \cup {"REVIEW"}
  /\ desk' = [desk EXCEPT ![p] = [Rest EXCEPT !.at = "deciding", !.task = cases[c].task,
                !.case = c, !.verdict = verdict, !.seen = seen]]
  /\ UNCHANGED <<now, queueVars, cases>>

\* _resolve_review_case: a case that has this verdict already is left alone, one that has
\* the other raises.
LookUp(p) ==
  LET state == cases[desk[p].case].state IN
  /\ desk[p].at = "deciding"
  /\ \/ state = desk[p].verdict /\ Goto(p, "applying")
     \/ state = "OPEN" /\ Goto(p, "resolving")
     \/ state \in Verdicts \ {desk[p].verdict} /\ Raise(p)
  /\ UNCHANGED <<now, queueVars, cases>>

\* Fault: the state that was looked up is not checked again.
ResolveAnyway(p) ==
  /\ desk[p].at = "resolving"
  /\ cases' = [cases EXCEPT ![desk[p].case].state = desk[p].verdict]
  /\ Goto(p, "applying")
  /\ UNCHANGED <<now, queueVars>>

\* resolve: the transaction checks again that the case is OPEN.
Resolve(p) ==
  LET c == desk[p].case IN
  /\ desk[p].at = "resolving"
  /\ \/ /\ cases[c].state = "OPEN"
        /\ cases' = [cases EXCEPT ![c].state = desk[p].verdict]
        /\ Goto(p, "applying")
     \/ cases[c].state # "OPEN" /\ Raise(p) /\ UNCHANGED cases
  /\ UNCHANGED <<now, queueVars>>

\* Whether the command has anything to do to the task, as it was when it was read.
Concerns(p) == IF desk[p].verdict = "APPROVED" THEN desk[p].seen = "REVIEW"
                                               ELSE desk[p].seen \notin Q!Terminal

Apply(p) ==
  LET t == desk[p].task IN
  /\ desk[p].at = "applying"
  /\ \/ ~Concerns(p) /\ Finish(p) /\ UNCHANGED <<now, queueVars>>
     \/ /\ Concerns(p) /\ desk[p].verdict = "APPROVED"
        /\ \/ Q!ReleaseReview(p, t, 0) /\ Goto(p, "saving")
           \/ tasks[t].status # "REVIEW" /\ Raise(p) /\ UNCHANGED <<now, queueVars>>
     \/ /\ Concerns(p) /\ desk[p].verdict = "BLOCKED"
        /\ \/ Q!Close(p, t, "BLOCKED") /\ Goto(p, "saving")
           \/ ~Q!Active(t) /\ Raise(p) /\ UNCHANGED <<now, queueVars>>
  /\ UNCHANGED cases

----------------------------------------------------------------------------
(* The queue's store, the workers, and the rest of the program.            *)

IsWorkerWrite(w) == w.op \in {"heartbeat", "succeed", "fail", "recover"}

\* Fault: the answer of the store is not looked at.
SaveLost(p, w) ==
  /\ Q!SaveStale(p, w)
  /\ IF IsWorkerWrite(w) THEN UNCHANGED desk ELSE Finish(p)

SaveRefused(p, w) ==
  /\ Q!SaveStale(p, w)
  /\ IF IsWorkerWrite(w) THEN UNCHANGED desk ELSE Raise(p)

Saved(p, w) ==
  /\ Q!SaveApplied(p, w)
  /\ IF IsWorkerWrite(w) THEN UNCHANGED desk ELSE Finish(p)

\* A worker reports, or the recovery of a new run takes its task back.
Work(p) ==
  /\ \/ \E t \in Tasks, k \in 1..MaxClaims :
          Q!Succeed(p, t, k) \/ Q!FailFinal(p, t, k) \/ \E d \in Delays : Q!FailRetry(p, t, k, d)
     \/ desk[p].at \in Resting /\ \E d \in Delays : Q!Recover(p, now, d)
  /\ UNCHANGED <<cases, desk>>

Submit(p, t, k, r) ==
  /\ desk[p].at \in Resting
  /\ Q!Enqueue(t, k, r)
  /\ UNCHANGED <<cases, desk>>

Crash(p) ==
  /\ desk[p].at \notin Resting \/ tickets[p] # {}
  /\ Raise(p)
  /\ pending' = [pending EXCEPT ![p] = {}]
  /\ tickets' = [tickets EXCEPT ![p] = {}]
  /\ UNCHANGED <<now, tasks, issued, cases>>

----------------------------------------------------------------------------
Init ==
  /\ Q!Init
  /\ cases = [c \in Cases |-> NoCase]
  /\ desk = [p \in Procs |-> Rest]

Run(p) ==
  \/ \E t \in Tasks : Rank(p, t)
  \/ Admit(p)
  \/ \E s \in Sigs : GatePasses(p, s) \/ GateAsks(p, s)
  \/ OpenCase(p) \/ Park(p) \/ ClaimAdmitted(p)
  \/ Work(p)
  \/ \E t \in Tasks, k \in Keys, r \in Runs : Submit(p, t, k, r)

Command(p) ==
  \/ \E c \in Cases, v \in Verdicts : Decide(p, c, v)
  \/ LookUp(p) \/ Resolve(p) \/ Apply(p)

Next ==
  \/ \E p \in Runners : Run(p)
  \/ \E p \in Operators : Command(p)
  \/ \E p \in Procs : Crash(p) \/ (\E w \in pending[p] : (Saved(p, w) \/ SaveRefused(p, w)) /\ UNCHANGED cases)
  \/ Q!Tick /\ UNCHANGED <<cases, desk>>

Spec == Init /\ [][Next]_vars
=============================================================================
