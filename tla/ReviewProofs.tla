---------------------------- MODULE ReviewProofs ----------------------------
(***************************************************************************)
(* What the review commands and the gates promise, for any number of       *)
(* runners, operators, tasks, cases and gates.                             *)
(*                                                                         *)
(* The inductive invariant adds to the properties what a call remembers    *)
(* and what is about to be written: a gate that was passed has its         *)
(* approval, which is never taken back; only the claim, which is one       *)
(* transaction, makes a task RUNNING; a prepared REVIEW has its case; and  *)
(* a task that a reject command saw finished is still finished.            *)
(***************************************************************************)
EXTENDS ReviewProps, TLAPS

RowFields == {"status", "attempts", "available", "lease", "token"}
Commanding == {"deciding", "resolving", "applying"}
DeskFields == {"at", "task", "passed", "sig", "case", "verdict", "seen"}

ApprovedSig(t, s) ==
  \E c \in Cases : cases[c].task = t /\ cases[c].sig = s /\ cases[c].state = "APPROVED"

HasCase(t) == \E c \in Cases : cases[c].task = t

Finished(t) == tasks[t].status \in Q!Terminal

RowOK(t) ==
  /\ RowFields \subseteq DOMAIN tasks[t]
  /\ tasks[t].status = "RUNNING" => \A s \in Signals[t] : ApprovedSig(t, s)
  /\ tasks[t].status = "REVIEW" => HasCase(t)

CaseOK(c) ==
  /\ {"task", "sig", "state"} \subseteq DOMAIN cases[c]
  /\ cases[c] # NoCase => cases[c].task \in Tasks

WriteOK(w) ==
  /\ w.task \in Tasks
  /\ w.status \notin Q!Terminal
  /\ RowFields \subseteq DOMAIN w.new
  /\ w.new.status # "RUNNING"
  /\ w.new.status = "REVIEW" => HasCase(w.task)

\* The one write that an operator may have under way.
CommandWrite(p, w) ==
  /\ desk[p].at = "saving" /\ pending[p] = {w} /\ ~IsWorkerWrite(w)
  /\ desk[p].verdict = "BLOCKED" => w.task = desk[p].task /\ w.new.status = "BLOCKED"

DeskOK(p) ==
  /\ DeskFields \subseteq DOMAIN desk[p]
  /\ desk[p].at \notin Resting => desk[p].task \in Tasks
  /\ desk[p].at \in Commanding => desk[p].case \in Cases
  /\ \A s \in desk[p].passed : ApprovedSig(desk[p].task, s)
  /\ desk[p].at = "parking" => HasCase(desk[p].task)
  /\ (desk[p].at \in Commanding /\ desk[p].seen \in Q!Terminal) => Finished(desk[p].task)
  /\ \A w \in pending[p] : WriteOK(w)
  /\ p \in Operators => \A w \in pending[p] : CommandWrite(p, w)

ReviewInv ==
  /\ DOMAIN tasks = Tasks /\ DOMAIN cases = Cases
  /\ DOMAIN desk = Procs /\ DOMAIN pending = Procs
  /\ \A t \in Tasks : RowOK(t)
  /\ \A c \in Cases : CaseOK(c)
  /\ \A p \in Procs : DeskOK(p)

----------------------------------------------------------------------------
(* What any step does to the case store, and what a step of p keeps.       *)

\* A case only changes when it is opened, from nothing, or resolved, from OPEN.
CasesStep ==
  \/ UNCHANGED cases
  \/ \E c \in Cases, t \in Tasks : \E s :
       cases[c] = NoCase /\ cases' = [cases EXCEPT ![c] = [task |-> t, sig |-> s, state |-> "OPEN"]]
  \/ \E c \in Cases : \E v :
       cases[c].state = "OPEN" /\ cases' = [cases EXCEPT ![c].state = v]

\* Finished tasks stay finished, and a row becomes RUNNING or REVIEW only with its cases.
RowsStep ==
  /\ DOMAIN tasks' = Tasks
  /\ \A t \in Tasks :
       /\ RowFields \subseteq DOMAIN tasks'[t]
       /\ Finished(t) => tasks'[t].status \in Q!Terminal
       /\ tasks'[t].status = "RUNNING" =>
            tasks[t].status = "RUNNING" \/ \A s \in Signals[t] : ApprovedSig(t, s)
       /\ tasks'[t].status = "REVIEW" => tasks[t].status = "REVIEW" \/ HasCase(t)

\* Only the process that takes a step has its desk and its writes changed.
OwnStep(p) ==
  /\ DOMAIN desk' = Procs /\ DOMAIN pending' = Procs
  /\ \A q \in Procs \ {p} : desk'[q] = desk[q] /\ pending'[q] = pending[q]

\* What is approved stays approved, and what has a case keeps one.
LEMMA CasesKept ==
  ASSUME ReviewInv, CasesStep
  PROVE  /\ DOMAIN cases' = Cases
         /\ \A c \in Cases : CaseOK(c)'
         /\ \A t, s : ApprovedSig(t, s) => ApprovedSig(t, s)'
         /\ \A t \in Tasks : HasCase(t) => HasCase(t)'
         /\ \A c \in Cases : cases[c].state \in Verdicts => cases'[c] = cases[c]
  <1>1. CASE UNCHANGED cases
    BY <1>1 DEF ReviewInv, CaseOK, ApprovedSig, HasCase
  <1>2. ASSUME NEW c \in Cases, NEW t \in Tasks, NEW s, cases[c] = NoCase,
               cases' = [cases EXCEPT ![c] = [task |-> t, sig |-> s, state |-> "OPEN"]]
        PROVE  /\ DOMAIN cases' = Cases
               /\ \A d \in Cases : CaseOK(d)'
               /\ \A u, r : ApprovedSig(u, r) => ApprovedSig(u, r)'
               /\ \A u \in Tasks : HasCase(u) => HasCase(u)'
               /\ \A d \in Cases : cases[d].state \in Verdicts => cases'[d] = cases[d]
    <2>1. DOMAIN cases' = Cases /\ \A d \in Cases \ {c} : cases'[d] = cases[d]
      BY <1>2 DEF ReviewInv
    <2>2. cases'[c] = [task |-> t, sig |-> s, state |-> "OPEN"]
      BY <1>2 DEF ReviewInv
    <2>3. NoCase.state = "ABSENT" /\ NoCase.task = None
      BY DEF NoCase
    <2>4. \A d \in Cases : CaseOK(d)'
      <3> SUFFICES ASSUME NEW d \in Cases PROVE CaseOK(d)'
        OBVIOUS
      <3>1. CASE d = c
        BY <2>2, <3>1 DEF CaseOK
      <3>2. CASE d # c
        BY <2>1, <3>2 DEF CaseOK, ReviewInv
      <3> QED
        BY <3>1, <3>2
    <2>5. \A u, r : ApprovedSig(u, r) => ApprovedSig(u, r)'
      BY <2>1, <2>3, <1>2 DEF ApprovedSig
    <2>6. \A u \in Tasks : HasCase(u) => HasCase(u)'
      BY <2>1, <2>3, <1>2, NoneAssumption DEF HasCase
    <2>7. \A d \in Cases : cases[d].state \in Verdicts => cases'[d] = cases[d]
      BY <2>1, <2>3, <1>2 DEF Verdicts
    <2> QED
      BY <2>1, <2>4, <2>5, <2>6, <2>7
  <1>3. ASSUME NEW c \in Cases, NEW v, cases[c].state = "OPEN",
               cases' = [cases EXCEPT ![c].state = v]
        PROVE  /\ DOMAIN cases' = Cases
               /\ \A d \in Cases : CaseOK(d)'
               /\ \A u, r : ApprovedSig(u, r) => ApprovedSig(u, r)'
               /\ \A u \in Tasks : HasCase(u) => HasCase(u)'
               /\ \A d \in Cases : cases[d].state \in Verdicts => cases'[d] = cases[d]
    <2>1. DOMAIN cases' = Cases /\ \A d \in Cases \ {c} : cases'[d] = cases[d]
      BY <1>3 DEF ReviewInv
    <2>2. /\ DOMAIN cases'[c] = DOMAIN cases[c]
          /\ cases'[c].task = cases[c].task /\ cases'[c].sig = cases[c].sig
      BY <1>3 DEF ReviewInv, CaseOK
    <2>3. \A d \in Cases : CaseOK(d)'
      <3> SUFFICES ASSUME NEW d \in Cases PROVE CaseOK(d)'
        OBVIOUS
      <3>1. CASE d = c
        <4>1. NoCase.state = "ABSENT"
          BY DEF NoCase
        <4> QED
          BY <1>3, <2>2, <3>1, <4>1 DEF CaseOK, ReviewInv
      <3>2. CASE d # c
        BY <2>1, <3>2 DEF CaseOK, ReviewInv
      <3> QED
        BY <3>1, <3>2
    <2>4. \A u, r : ApprovedSig(u, r) => ApprovedSig(u, r)'
      BY <2>1, <1>3 DEF ApprovedSig
    <2>5. \A u \in Tasks : HasCase(u) => HasCase(u)'
      BY <2>1, <2>2 DEF HasCase
    <2>6. \A d \in Cases : cases[d].state \in Verdicts => cases'[d] = cases[d]
      BY <2>1, <1>3 DEF Verdicts
    <2> QED
      BY <2>1, <2>3, <2>4, <2>5, <2>6
  <1> QED
    BY <1>1, <1>2, <1>3 DEF CasesStep

\* A step of p keeps the invariant if it keeps it for p's own desk and writes.
LEMMA OwnStepKeeps ==
  ASSUME ReviewInv, NEW p \in Procs, CasesStep, RowsStep, OwnStep(p), DeskOK(p)'
  PROVE  ReviewInv'
  <1>1. \A t \in Tasks : RowOK(t)'
    BY CasesKept DEF ReviewInv, RowsStep, RowOK
  <1>2. ASSUME NEW q \in Procs, q # p PROVE DeskOK(q)'
    <2>1. desk'[q] = desk[q] /\ pending'[q] = pending[q] /\ DeskOK(q)
      BY <1>2 DEF OwnStep, ReviewInv
    <2>2. \A w \in pending'[q] : WriteOK(w)'
      BY <2>1, CasesKept DEF DeskOK, WriteOK
    <2>3. q \in Operators => \A w \in pending'[q] : CommandWrite(q, w)'
      BY <2>1 DEF DeskOK, CommandWrite, IsWorkerWrite
    <2>4. (/\ desk[q].at \notin Resting => desk[q].task \in Tasks
           /\ (desk[q].at \in Commanding /\ desk[q].seen \in Q!Terminal)
                => Finished(desk[q].task))'
      BY <2>1 DEF DeskOK, Finished, RowsStep, Commanding, Resting
    <2>5. (\A s \in desk[q].passed : ApprovedSig(desk[q].task, s))'
      <3>1. \A s \in desk[q].passed : ApprovedSig(desk[q].task, s)
        BY <2>1 DEF DeskOK
      <3> QED
        BY <2>1, <3>1, CasesKept DEF ApprovedSig
    <2>6. (desk[q].at = "parking" => HasCase(desk[q].task))'
      BY <2>1, CasesKept DEF DeskOK, Resting, HasCase
    <2> QED
      BY <2>1, <2>2, <2>3, <2>4, <2>5, <2>6 DEF DeskOK
  <1> QED
    BY <1>1, <1>2, CasesKept DEF ReviewInv, RowsStep, OwnStep

----------------------------------------------------------------------------
(* The steps, by what they touch.                                          *)

\* At the start there are no cases, no calls and no writes.
LEMMA InitReviewInv == Init => ReviewInv
  <1> SUFFICES ASSUME Init PROVE ReviewInv
    OBVIOUS
  <1>1. /\ tasks = [t \in Tasks |-> Q!Absent] /\ pending = [p \in Procs |-> {}]
        /\ cases = [c \in Cases |-> NoCase] /\ desk = [p \in Procs |-> Rest]
    BY DEF Init, Q!Init
  <1>2. \A t \in Tasks : RowOK(t)
    BY <1>1 DEF RowOK, RowFields, Q!Absent
  <1>3. \A c \in Cases : CaseOK(c)
    BY <1>1 DEF CaseOK, NoCase
  <1>4. \A p \in Procs : DeskOK(p)
    BY <1>1 DEF DeskOK, DeskFields, Rest, Resting, Commanding
  <1> QED
    BY <1>1, <1>2, <1>3, <1>4 DEF ReviewInv

\* What nobody touches stays as it was.
LEMMA Untouched ==
  ASSUME ReviewInv
  PROVE  /\ UNCHANGED cases => CasesStep
         /\ UNCHANGED tasks => RowsStep
         /\ UNCHANGED cases => \A w : WriteOK(w) => WriteOK(w)'
  BY DEF ReviewInv, RowOK, CasesStep, RowsStep, Finished, WriteOK, HasCase

\* A transition is prepared from a task that is not finished.
LEMMA PreparedWrite ==
  ASSUME NEW t \in Tasks, tasks[t].status \notin Q!Terminal, NEW op, NEW by, NEW lease,
         NEW new, RowFields \subseteq DOMAIN new, new.status # "RUNNING",
         new.status = "REVIEW" => HasCase(t)
  PROVE  WriteOK(Q!Write(op, t, by, lease, new))
  BY DEF WriteOK, Q!Write

\* The row of a task that leaves its state.
LEMMA LeftRow ==
  ASSUME NEW t \in Tasks, RowOK(t), NEW status, NEW time
  PROVE  /\ RowFields \subseteq DOMAIN Q!Leave(t, status)
         /\ Q!Leave(t, status).status = status
         /\ RowFields \subseteq DOMAIN Q!LeaveUntil(t, status, time)
         /\ Q!LeaveUntil(t, status, time).status = status
  BY DEF RowOK, RowFields, Q!Leave, Q!LeaveUntil

\* The read half of a transition.
LEMMA BeginStep ==
  ASSUME ReviewInv, NEW p \in Procs, NEW writes, Q!Begin(p, writes), UNCHANGED cases,
         \A w \in writes : WriteOK(w)
  PROVE  /\ CasesStep /\ RowsStep /\ UNCHANGED tasks
         /\ DOMAIN pending' = Procs /\ pending'[p] = writes
         /\ \A q \in Procs \ {p} : pending'[q] = pending[q]
         /\ \A w \in pending'[p] : WriteOK(w)'
  <1>1. UNCHANGED tasks /\ pending' = [pending EXCEPT ![p] = writes]
    BY DEF Q!Begin
  <1>2. /\ DOMAIN pending' = Procs /\ pending'[p] = writes
        /\ \A q \in Procs \ {p} : pending'[q] = pending[q]
    BY <1>1 DEF ReviewInv
  <1> QED
    BY <1>1, <1>2, Untouched

\* A step that only moves the process on.
LEMMA DeskStep ==
  ASSUME ReviewInv, NEW p \in Procs, NEW d, UNCHANGED <<tasks, pending, cases>>,
         desk' = [desk EXCEPT ![p] = d],
         DeskFields \subseteq DOMAIN d,
         d.at \notin Resting => d.task \in Tasks,
         d.at \in Commanding => d.case \in Cases,
         \A s \in d.passed : ApprovedSig(d.task, s),
         d.at = "parking" => HasCase(d.task),
         (d.at \in Commanding /\ d.seen \in Q!Terminal) => Finished(d.task),
         p \in Operators => pending[p] = {}
  PROVE  ReviewInv'
  <1>1. desk'[p] = d /\ OwnStep(p)
    BY DEF ReviewInv, OwnStep
  <1>2. \A w \in pending'[p] : WriteOK(w)'
    BY Untouched DEF ReviewInv, DeskOK
  <1>3. DeskOK(p)'
    BY <1>1, <1>2 DEF DeskOK, ApprovedSig, HasCase, Finished
  <1> QED
    BY <1>1, <1>3, Untouched, OwnStepKeeps

\* A process that is not saving has nothing under way, if it is an operator's.
LEMMA OnlySavingWrites ==
  ASSUME ReviewInv, NEW p \in Operators, desk[p].at # "saving"
  PROVE  pending[p] = {}
  BY DEF ReviewInv, DeskOK, CommandWrite, Operators

----------------------------------------------------------------------------
(* A runner's calls.                                                       *)

USE DEF Commanding, Resting

\* A runner is a process, and no command.
LEMMA RunnersAreNoOperators == \A p \in Runners : p \in Procs /\ p \notin Operators
  BY RunnersAssumption DEF Operators

\* A ranking remembers a task and no approvals.
LEMMA RankStep ==
  ASSUME ReviewInv, NEW p \in Runners, NEW t \in Tasks, Rank(p, t)
  PROVE  ReviewInv'
  <1> DEFINE d == [Rest EXCEPT !.at = "ranked", !.task = t]
  <1>1. desk' = [desk EXCEPT ![p] = d] /\ UNCHANGED <<tasks, pending, cases>>
    BY DEF Rank, queueVars
  <1>2. DeskFields \subseteq DOMAIN d /\ d.at = "ranked" /\ d.task = t /\ d.passed = {}
    BY DEF Rest, DeskFields
  <1> HIDE DEF d
  <1> QED
    BY <1>1, <1>2, DeskStep, RunnersAreNoOperators

\* The stages of an admission after which nothing has to be remembered.
LEMMA GotoStep ==
  ASSUME ReviewInv, NEW p \in Procs, UNCHANGED <<tasks, pending, cases>>,
         NEW stage, Goto(p, stage), desk[p].at \notin Resting, stage # "parking",
         stage \in Commanding => desk[p].at \in Commanding,
         p \in Operators => desk[p].at # "saving"
  PROVE  ReviewInv'
  <1> DEFINE d == [desk[p] EXCEPT !.at = stage]
  <1>1. desk' = [desk EXCEPT ![p] = d]
    BY DEF Goto
  <1>2. /\ DeskFields \subseteq DOMAIN desk[p] /\ desk[p].task \in Tasks
        /\ \A s \in desk[p].passed : ApprovedSig(desk[p].task, s)
        /\ desk[p].at \in Commanding => desk[p].case \in Cases
        /\ (desk[p].at \in Commanding /\ desk[p].seen \in Q!Terminal) => Finished(desk[p].task)
    BY DEF ReviewInv, DeskOK
  <1>3. /\ DeskFields \subseteq DOMAIN d /\ d.at = stage /\ d.task = desk[p].task
        /\ d.passed = desk[p].passed /\ d.seen = desk[p].seen /\ d.case = desk[p].case
    BY <1>2 DEF DeskFields
  <1>4. p \in Operators => pending[p] = {}
    BY OnlySavingWrites
  <1> HIDE DEF d
  <1> QED
    BY <1>1, <1>2, <1>3, <1>4, DeskStep

\* Finish and Raise forget everything.
LEMMA ForgetStep ==
  ASSUME ReviewInv, NEW p \in Procs, UNCHANGED <<tasks, pending, cases>>,
         Finish(p) \/ Raise(p), p \in Operators => desk[p].at # "saving"
  PROVE  ReviewInv'
  <1> PICK d \in {Rest, [Rest EXCEPT !.at = "raised"]} : desk' = [desk EXCEPT ![p] = d]
    BY DEF Finish, Raise
  <1>1. DeskFields \subseteq DOMAIN d /\ d.at \in Resting /\ d.passed = {}
    BY DEF Rest, DeskFields
  <1>2. p \in Operators => pending[p] = {}
    BY OnlySavingWrites
  <1> QED
    BY <1>1, <1>2, DeskStep

\* The admission starts with nothing passed.
LEMMA AdmitStep ==
  ASSUME ReviewInv, NEW p \in Runners, Admit(p)
  PROVE  ReviewInv'
  <1>1. p \in Procs /\ p \notin Operators
    BY RunnersAreNoOperators
  <1>2. desk[p].at = "ranked" /\ UNCHANGED <<tasks, pending, cases>>
    BY DEF Admit, queueVars
  <1>3. CASE Goto(p, "gates")
    BY <1>1, <1>2, <1>3, GotoStep
  <1>4. CASE Finish(p)
    BY <1>1, <1>2, <1>4, ForgetStep
  <1> QED
    BY <1>3, <1>4 DEF Admit

\* A gate is passed with its approval in the table.
LEMMA GatePassesStep ==
  ASSUME ReviewInv, NEW p \in Runners, NEW s \in Sigs, GatePasses(p, s)
  PROVE  ReviewInv'
  <1> DEFINE d == [desk[p] EXCEPT !.passed = @ \cup {s}]
  <1>1. p \in Procs /\ p \notin Operators
    BY RunnersAreNoOperators
  <1>2. /\ desk[p].at = "gates" /\ UNCHANGED <<tasks, pending, cases>>
        /\ desk' = [desk EXCEPT ![p] = d]
    BY DEF GatePasses, queueVars
  <1>3. ApprovedSig(desk[p].task, s)
    BY DEF GatePasses, ApprovedFor, CasesOf, ApprovedSig
  <1>4. /\ DeskFields \subseteq DOMAIN desk[p] /\ desk[p].task \in Tasks
        /\ \A r \in desk[p].passed : ApprovedSig(desk[p].task, r)
    BY <1>1, <1>2 DEF ReviewInv, DeskOK
  <1>5. /\ DeskFields \subseteq DOMAIN d /\ d.at = "gates" /\ d.task = desk[p].task
        /\ d.passed = desk[p].passed \cup {s}
    BY <1>2, <1>4 DEF DeskFields
  <1> HIDE DEF d
  <1>6. \A r \in d.passed : ApprovedSig(d.task, r)
    BY <1>3, <1>4, <1>5
  <1> QED
    BY <1>1, <1>2, <1>4, <1>5, <1>6, DeskStep

\* A gate that asks has no approval yet.
LEMMA GateAsksStep ==
  ASSUME ReviewInv, NEW p \in Runners, NEW s \in Sigs, GateAsks(p, s)
  PROVE  ReviewInv'
  <1> DEFINE d == [desk[p] EXCEPT !.at = "asking", !.sig = s]
  <1>1. p \in Procs /\ p \notin Operators
    BY RunnersAreNoOperators
  <1>2. /\ desk[p].at = "gates" /\ UNCHANGED <<tasks, pending, cases>>
        /\ desk' = [desk EXCEPT ![p] = d]
    BY DEF GateAsks, queueVars
  <1>3. /\ DeskFields \subseteq DOMAIN desk[p] /\ desk[p].task \in Tasks
        /\ \A r \in desk[p].passed : ApprovedSig(desk[p].task, r)
    BY <1>1, <1>2 DEF ReviewInv, DeskOK
  <1>4. /\ DeskFields \subseteq DOMAIN d /\ d.at = "asking" /\ d.task = desk[p].task
        /\ d.passed = desk[p].passed
    BY <1>2, <1>3 DEF DeskFields
  <1> HIDE DEF d
  <1> QED
    BY <1>1, <1>2, <1>3, <1>4, DeskStep

\* A process moves on after a transaction of the case store.
LEMMA CaseStoreStep ==
  ASSUME ReviewInv, NEW p \in Procs, UNCHANGED <<tasks, pending>>, CasesStep,
         NEW stage, Goto(p, stage), desk[p].at \notin Resting,
         stage = "parking" => HasCase(desk[p].task)',
         stage \in Commanding => desk[p].at \in Commanding,
         p \in Operators => desk[p].at # "saving"
  PROVE  ReviewInv'
  <1>1. /\ DeskFields \subseteq DOMAIN desk[p] /\ desk[p].task \in Tasks
        /\ \A s \in desk[p].passed : ApprovedSig(desk[p].task, s)
        /\ desk[p].at \in Commanding => desk[p].case \in Cases
        /\ (desk[p].at \in Commanding /\ desk[p].seen \in Q!Terminal) => Finished(desk[p].task)
        /\ \A w \in pending[p] : WriteOK(w)
    BY DEF ReviewInv, DeskOK
  <1>2. /\ DOMAIN desk' = Procs /\ \A q \in Procs \ {p} : desk'[q] = desk[q]
        /\ desk'[p] = [desk[p] EXCEPT !.at = stage]
    BY DEF Goto, ReviewInv
  <1>3. /\ DeskFields \subseteq DOMAIN desk'[p] /\ desk'[p].at = stage
        /\ desk'[p].task = desk[p].task /\ desk'[p].passed = desk[p].passed
        /\ desk'[p].seen = desk[p].seen /\ desk'[p].case = desk[p].case
    BY <1>1, <1>2 DEF DeskFields
  <1>4. OwnStep(p)
    BY <1>2 DEF OwnStep, ReviewInv
  <1>5. RowsStep
    BY Untouched
  <1>6. \A w \in pending'[p] : WriteOK(w)'
    BY <1>1, CasesKept DEF WriteOK
  <1>7. (\A s \in desk[p].passed : ApprovedSig(desk[p].task, s))'
    BY <1>1, <1>3, CasesKept DEF ApprovedSig
  <1>8. (desk[p].at = "parking" => HasCase(desk[p].task))'
    BY <1>3 DEF HasCase
  <1>9. p \in Operators => pending[p] = {}
    BY OnlySavingWrites
  <1>10. ((desk[p].at \in Commanding /\ desk[p].seen \in Q!Terminal) => Finished(desk[p].task))'
    BY <1>1, <1>3 DEF Finished
  <1>11. DeskOK(p)'
    BY <1>1, <1>3, <1>6, <1>7, <1>8, <1>9, <1>10 DEF DeskOK
  <1> QED
    BY <1>4, <1>5, <1>11, OwnStepKeeps

\* A case is there before its task is parked.
LEMMA OpenCaseStep ==
  ASSUME ReviewInv, NEW p \in Runners, OpenCase(p)
  PROVE  ReviewInv' /\ CasesStep
  <1>1. p \in Procs /\ p \notin Operators
    BY RunnersAreNoOperators
  <1>2. /\ desk[p].at = "asking" /\ UNCHANGED <<tasks, pending>> /\ Goto(p, "parking")
        /\ OpenOrGet(desk[p].task, desk[p].sig)
    BY DEF OpenCase, queueVars
  <1>3. desk[p].task \in Tasks
    BY <1>1, <1>2 DEF ReviewInv, DeskOK
  <1>4. CasesStep /\ HasCase(desk[p].task)'
    <2>1. CASE CasesOf(desk[p].task, desk[p].sig, "OPEN") # {} /\ UNCHANGED cases
      BY <2>1, <1>2 DEF CasesStep, CasesOf, HasCase, Goto, ReviewInv
    <2>2. ASSUME NEW c \in Cases, cases[c] = NoCase,
                 cases' = [cases EXCEPT ![c] = [task |-> desk[p].task, sig |-> desk[p].sig, state |-> "OPEN"]]
          PROVE  CasesStep /\ HasCase(desk[p].task)'
      <3>1. CasesStep
        BY <2>2, <1>3 DEF CasesStep
      <3>2. cases'[c].task = desk[p].task
        BY <2>2 DEF ReviewInv
      <3>3. desk'[p].task = desk[p].task
        BY <1>1, <1>2 DEF ReviewInv, DeskOK, DeskFields, Goto
      <3> QED
        BY <3>1, <3>2, <3>3 DEF HasCase
    <2> QED
      BY <1>2, <2>1, <2>2 DEF OpenOrGet
  <1> QED
    BY <1>1, <1>2, <1>4, CaseStoreStep

\* A control call has prepared its one write.
LEMMA SavingStep ==
  ASSUME ReviewInv, NEW p \in Procs, NEW w, WriteOK(w), Q!Begin(p, {w}), UNCHANGED cases,
         Goto(p, "saving"), desk[p].at \notin Resting,
         p \in Operators =>
           /\ ~IsWorkerWrite(w)
           /\ desk[p].verdict = "BLOCKED" => w.task = desk[p].task /\ w.new.status = "BLOCKED"
  PROVE  ReviewInv'
  <1>1. /\ DeskFields \subseteq DOMAIN desk[p] /\ desk[p].task \in Tasks
        /\ \A s \in desk[p].passed : ApprovedSig(desk[p].task, s)
    BY DEF ReviewInv, DeskOK
  <1>2. /\ DOMAIN desk' = Procs /\ \A q \in Procs \ {p} : desk'[q] = desk[q]
        /\ desk'[p] = [desk[p] EXCEPT !.at = "saving"]
    BY DEF Goto, ReviewInv
  <1>3. /\ DeskFields \subseteq DOMAIN desk'[p] /\ desk'[p].at = "saving"
        /\ desk'[p].task = desk[p].task /\ desk'[p].passed = desk[p].passed
        /\ desk'[p].verdict = desk[p].verdict
    BY <1>1, <1>2 DEF DeskFields
  <1>4. /\ CasesStep /\ RowsStep
        /\ DOMAIN pending' = Procs /\ pending'[p] = {w}
        /\ \A q \in Procs \ {p} : pending'[q] = pending[q]
        /\ \A v \in pending'[p] : WriteOK(v)'
    BY BeginStep
  <1>5. OwnStep(p)
    BY <1>2, <1>4 DEF OwnStep
  <1>6. (\A s \in desk[p].passed : ApprovedSig(desk[p].task, s))'
    BY <1>1, <1>3 DEF ApprovedSig
  <1>7. p \in Operators => \A v \in pending'[p] : CommandWrite(p, v)'
    BY <1>3, <1>4 DEF CommandWrite, IsWorkerWrite
  <1>8. DeskOK(p)'
    BY <1>1, <1>3, <1>4, <1>6, <1>7 DEF DeskOK
  <1> QED
    BY <1>4, <1>5, <1>8, OwnStepKeeps

\* A write that parks a task is prepared after its case.
LEMMA ParkStep ==
  ASSUME ReviewInv, NEW p \in Runners, Park(p)
  PROVE  ReviewInv'
  <1> DEFINE t == desk[p].task
             w == Q!Write("review", t, Q!NoToken, Q!NoLease, Q!Leave(t, "REVIEW"))
  <1>1. p \in Procs /\ p \notin Operators
    BY RunnersAreNoOperators
  <1>2. desk[p].at = "parking" /\ UNCHANGED cases
    BY DEF Park
  <1>3. t \in Tasks /\ HasCase(t) /\ RowOK(t)
    BY <1>1, <1>2 DEF ReviewInv, DeskOK
  <1>4. CASE Q!SendToReview(p, t) /\ Goto(p, "saving")
    <2>1. Q!Begin(p, {w}) /\ tasks[t].status \notin Q!Terminal
      BY <1>4 DEF Q!SendToReview, Q!Active
    <2>2. /\ RowFields \subseteq DOMAIN Q!Leave(t, "REVIEW")
          /\ Q!Leave(t, "REVIEW").status = "REVIEW"
      BY <1>3, LeftRow
    <2>3. WriteOK(w)
      <3> HIDE DEF t
      <3> QED
        BY <1>3, <2>1, <2>2, PreparedWrite
    <2> QED
      BY <1>1, <1>2, <1>4, <2>1, <2>3, SavingStep
  <1>5. CASE Raise(p) /\ UNCHANGED <<now, queueVars>>
    BY <1>1, <1>2, <1>5, ForgetStep DEF queueVars
  <1> QED
    BY <1>4, <1>5 DEF Park

\* The claim starts a task all of whose gates have been approved.
LEMMA ClaimAdmittedStep ==
  ASSUME ReviewInv, NEW p \in Runners, ClaimAdmitted(p)
  PROVE  ReviewInv'
  <1> DEFINE t == desk[p].task
  <1>1. p \in Procs /\ p \notin Operators
    BY RunnersAreNoOperators
  <1>2. desk[p].at = "gates" /\ UNCHANGED cases /\ Finish(p)
    BY DEF ClaimAdmitted
  <1>3. t \in Tasks /\ \A s \in desk[p].passed : ApprovedSig(t, s)
    BY <1>1, <1>2 DEF ReviewInv, DeskOK
  <1>4. \A s \in Signals[t] : ApprovedSig(t, s)
    BY <1>3 DEF ClaimAdmitted, Unsettled
  <1>5. CASE Q!Claim(p, t, now)
    <2>1. /\ tasks[t].status \notin Q!Terminal /\ UNCHANGED pending
          /\ DOMAIN tasks' = Tasks
          /\ \A u \in Tasks \ {t} : tasks'[u] = tasks[u]
          /\ DOMAIN tasks'[t] = DOMAIN tasks[t] /\ tasks'[t].status = "RUNNING"
      BY <1>3, <1>5
      DEF Q!Claim, Q!Claimable, Q!Waiting, Q!Terminal, ReviewInv, RowOK, RowFields
    <2>2. RowsStep
      BY <1>4, <2>1 DEF RowsStep, ReviewInv, RowOK, Finished
    <2>3. OwnStep(p) /\ desk'[p] = Rest
      BY <1>1, <1>2, <2>1 DEF OwnStep, Finish, ReviewInv
    <2>4. \A w \in pending'[p] : WriteOK(w)'
      BY <1>1, <1>2, <2>1, Untouched DEF ReviewInv, DeskOK
    <2>5. DeskOK(p)'
      BY <1>1, <2>3, <2>4 DEF DeskOK, Rest, DeskFields
    <2> QED
      BY <1>1, <1>2, <2>2, <2>3, <2>5, Untouched, OwnStepKeeps
  <1>6. CASE UNCHANGED <<now, queueVars>>
    BY <1>1, <1>2, <1>6, ForgetStep DEF queueVars
  <1> QED
    BY <1>5, <1>6 DEF ClaimAdmitted

\* A worker's report, and the recovery of expired leases.
LEMMA RunnerBegins ==
  ASSUME ReviewInv, NEW p \in Runners, NEW writes, Q!Begin(p, writes),
         \A w \in writes : WriteOK(w), UNCHANGED <<cases, desk>>
  PROVE  ReviewInv'
  <1>1. p \in Procs /\ p \notin Operators
    BY RunnersAreNoOperators
  <1>2. /\ CasesStep /\ RowsStep /\ UNCHANGED tasks
        /\ DOMAIN pending' = Procs
        /\ \A q \in Procs \ {p} : pending'[q] = pending[q]
        /\ \A w \in pending'[p] : WriteOK(w)'
    BY <1>1, BeginStep
  <1>3. OwnStep(p)
    BY <1>2 DEF OwnStep, ReviewInv
  <1>4. DeskOK(p)'
    BY <1>1, <1>2 DEF DeskOK, ReviewInv, ApprovedSig, HasCase, Finished
  <1> QED
    BY <1>1, <1>2, <1>3, <1>4, OwnStepKeeps

\* Reports of workers and recoveries leave cases alone and start nothing.
LEMMA WorkStep ==
  ASSUME ReviewInv, NEW p \in Runners, Work(p)
  PROVE  ReviewInv'
  <1>1. UNCHANGED <<cases, desk>>
    BY DEF Work
  <1>2. ASSUME NEW t \in Tasks, NEW k, NEW new, NEW op,
               Q!HeldBy(t, k), Q!Begin(p, {Q!Write(op, t, k, Q!NoLease, new)}),
               RowFields \subseteq DOMAIN new, new.status \notin {"RUNNING", "REVIEW"}
        PROVE  ReviewInv'
    <2>1. tasks[t].status \notin Q!Terminal
      BY <1>2 DEF Q!HeldBy, Q!Terminal
    <2>2. WriteOK(Q!Write(op, t, k, Q!NoLease, new))
      BY <1>2, <2>1, PreparedWrite
    <2> QED
      BY <1>1, <1>2, <2>2, RunnerBegins
  <1>3. ASSUME NEW t \in Tasks, NEW k, Q!Succeed(p, t, k) PROVE ReviewInv'
    <2>1. Q!HeldBy(t, k) /\ Q!Begin(p, {Q!Write("succeed", t, k, Q!NoLease, Q!Leave(t, "SUCCEEDED"))})
      BY <1>3 DEF Q!Succeed
    <2>2. RowOK(t)
      BY DEF ReviewInv
    <2> QED
      BY <1>2, <2>1, <2>2, LeftRow
  <1>4. ASSUME NEW t \in Tasks, NEW k, Q!FailFinal(p, t, k) PROVE ReviewInv'
    <2>1. Q!HeldBy(t, k) /\ Q!Begin(p, {Q!Write("fail", t, k, Q!NoLease, Q!Leave(t, "FAILED"))})
      BY <1>4 DEF Q!FailFinal
    <2>2. RowOK(t)
      BY DEF ReviewInv
    <2> QED
      BY <1>2, <2>1, <2>2, LeftRow
  <1>5. ASSUME NEW t \in Tasks, NEW k, NEW d, Q!FailRetry(p, t, k, d) PROVE ReviewInv'
    <2>1. /\ Q!HeldBy(t, k)
          /\ Q!Begin(p, {Q!Write("fail", t, k, Q!NoLease, Q!LeaveUntil(t, "DEFERRED", now + d))})
      BY <1>5 DEF Q!FailRetry
    <2>2. RowOK(t)
      BY DEF ReviewInv
    <2> QED
      BY <1>2, <2>1, <2>2, LeftRow
  <1>6. ASSUME NEW d, Q!Recover(p, now, d) PROVE ReviewInv'
    <2> DEFINE expired == {u \in Tasks : Q!Expired(u, now)}
               write(t) == Q!Write("recover", t, Q!NoToken, tasks[t].lease, Q!Recovered(t, now + d))
    <2>1. Q!Begin(p, {write(t) : t \in expired})
      BY <1>6 DEF Q!Recover
    <2>2. ASSUME NEW t \in expired PROVE WriteOK(write(t))
      <3>1. t \in Tasks /\ tasks[t].status \notin Q!Terminal /\ RowOK(t)
        BY DEF Q!Expired, Q!Terminal, ReviewInv
      <3>2. /\ RowFields \subseteq DOMAIN Q!Recovered(t, now + d)
            /\ Q!Recovered(t, now + d).status \notin {"RUNNING", "REVIEW"}
        BY <3>1, LeftRow DEF Q!Recovered
      <3> QED
        BY <3>1, <3>2, PreparedWrite
    <2>3. \A w \in {write(t) : t \in expired} : WriteOK(w)
      BY <2>2
    <2> HIDE DEF expired, write
    <2> QED
      BY <1>1, <2>1, <2>3, RunnerBegins
  <1> QED
    BY <1>3, <1>4, <1>5, <1>6 DEF Work

\* New work is neither running nor parked.
LEMMA SubmitStep ==
  ASSUME ReviewInv, NEW p \in Runners, NEW t \in Tasks, NEW k, NEW r, Submit(p, t, k, r)
  PROVE  ReviewInv'
  <1>1. p \in Procs
    BY RunnersAreNoOperators
  <1>2. UNCHANGED <<pending, cases, desk>>
    BY DEF Submit, Q!Enqueue
  <1>3. /\ ~Finished(t) /\ DOMAIN tasks' = Tasks
        /\ \A u \in Tasks \ {t} : tasks'[u] = tasks[u]
        /\ RowFields \subseteq DOMAIN tasks'[t] /\ tasks'[t].status = "PENDING"
    BY DEF Submit, Q!Enqueue, Q!Exists, Finished, Q!Terminal, Q!NewTask, ReviewInv, RowFields
  <1>4. RowsStep
    BY <1>3 DEF RowsStep, ReviewInv, RowOK, Finished
  <1>5. DeskOK(p) /\ OwnStep(p)
    BY <1>1, <1>2 DEF ReviewInv, OwnStep
  <1>6. desk[p].at \notin Resting => desk[p].task \in Tasks
    BY <1>5 DEF DeskOK
  <1>7. DeskOK(p)'
    BY <1>2, <1>4, <1>5, <1>6
    DEF DeskOK, RowsStep, WriteOK, CommandWrite, IsWorkerWrite, HasCase, ApprovedSig, Finished
  <1> QED
    BY <1>1, <1>2, <1>4, <1>5, <1>7, Untouched, OwnStepKeeps

----------------------------------------------------------------------------
(* An operator's commands.                                                 *)

\* A command remembers the case and the state its task was in.
LEMMA DecideStep ==
  ASSUME ReviewInv, NEW p \in Operators, NEW c \in Cases, NEW verdict, Decide(p, c, verdict)
  PROVE  ReviewInv'
  <1> DEFINE t == cases[c].task
             d == [Rest EXCEPT !.at = "deciding", !.task = t, !.case = c,
                               !.verdict = verdict, !.seen = tasks[t].status]
  <1>1. p \in Procs
    BY DEF Operators
  <1>2. /\ desk[p].at \in Resting /\ UNCHANGED <<tasks, pending, cases>>
        /\ desk' = [desk EXCEPT ![p] = d]
    BY DEF Decide, queueVars
  <1>3. t \in Tasks
    BY DEF Decide, ReviewInv, CaseOK
  <1>4. /\ DeskFields \subseteq DOMAIN d /\ d.at = "deciding" /\ d.task = t
        /\ d.passed = {} /\ d.seen = tasks[t].status /\ d.case = c
    BY DEF Rest, DeskFields
  <1>5. pending[p] = {}
    BY <1>2, OnlySavingWrites
  <1> HIDE DEF d
  <1>6. d.seen \in Q!Terminal => Finished(d.task)
    BY <1>4 DEF Finished
  <1> QED
    BY <1>1, <1>2, <1>3, <1>4, <1>5, <1>6, DeskStep

\* A look-up changes no case and no task.
LEMMA LookUpStep ==
  ASSUME ReviewInv, NEW p \in Operators, LookUp(p)
  PROVE  ReviewInv'
  <1>1. p \in Procs
    BY DEF Operators
  <1>2. desk[p].at = "deciding" /\ UNCHANGED <<tasks, pending, cases>>
    BY DEF LookUp, queueVars
  <1>3. CASE Goto(p, "applying")
    BY <1>1, <1>2, <1>3, GotoStep
  <1>4. CASE Goto(p, "resolving")
    BY <1>1, <1>2, <1>4, GotoStep
  <1>5. CASE Raise(p)
    BY <1>1, <1>2, <1>5, ForgetStep
  <1> QED
    BY <1>3, <1>4, <1>5 DEF LookUp

\* A resolution takes an open case only, so approvals stay.
LEMMA ResolveStep ==
  ASSUME ReviewInv, NEW p \in Operators, Resolve(p)
  PROVE  ReviewInv' /\ CasesStep
  <1> DEFINE c == desk[p].case
  <1>1. p \in Procs
    BY DEF Operators
  <1>2. desk[p].at = "resolving" /\ UNCHANGED <<tasks, pending>>
    BY DEF Resolve, queueVars
  <1>3. CASE /\ cases[c].state = "OPEN"
             /\ cases' = [cases EXCEPT ![c].state = desk[p].verdict]
             /\ Goto(p, "applying")
    <2>1. CasesStep
      BY <1>3, <1>1, <1>2 DEF CasesStep, ReviewInv, DeskOK
    <2> QED
      BY <1>1, <1>2, <1>3, <2>1, CaseStoreStep
  <1>4. CASE Raise(p) /\ UNCHANGED cases
    BY <1>1, <1>2, <1>4, ForgetStep DEF CasesStep
  <1> QED
    BY <1>3, <1>4 DEF Resolve

\* A command writes what it resolved, for the task it saw.
LEMMA ApplyStep ==
  ASSUME ReviewInv, NEW p \in Operators, Apply(p)
  PROVE  ReviewInv'
  <1> DEFINE t == desk[p].task
             new == [tasks[t] EXCEPT !.available = now + 0,
                                     !.status = IF 0 = 0 THEN "PENDING" ELSE "DEFERRED"]
             release == Q!Write("release", t, Q!NoToken, Q!NoLease, new)
             close == Q!Write("close", t, Q!NoToken, Q!NoLease, Q!Leave(t, "BLOCKED"))
  <1>1. p \in Procs
    BY DEF Operators
  <1>2. desk[p].at = "applying" /\ UNCHANGED cases
    BY DEF Apply
  <1>3. t \in Tasks /\ RowOK(t)
    BY <1>1, <1>2 DEF ReviewInv, DeskOK
  <1>4. CASE Finish(p) /\ UNCHANGED <<now, queueVars>>
    BY <1>1, <1>2, <1>4, ForgetStep DEF queueVars
  <1>5. CASE desk[p].verdict = "APPROVED" /\ Q!ReleaseReview(p, t, 0) /\ Goto(p, "saving")
    <2>1. Q!Begin(p, {release}) /\ tasks[t].status \notin Q!Terminal
      BY <1>5 DEF Q!ReleaseReview, Q!Terminal
    <2>2. RowFields \subseteq DOMAIN new /\ new.status = "PENDING"
      BY <1>3 DEF RowOK, RowFields
    <2>3. WriteOK(release) /\ ~IsWorkerWrite(release)
      <3>1. ~IsWorkerWrite(release)
        BY DEF IsWorkerWrite, Q!Write
      <3>2. WriteOK(release)
        <4> HIDE DEF new, t
        <4> QED
          BY <1>3, <2>1, <2>2, PreparedWrite
      <3> QED
        BY <3>1, <3>2
    <2> QED
      BY <1>1, <1>2, <1>5, <2>1, <2>3, SavingStep
  <1>6. CASE desk[p].verdict = "BLOCKED" /\ Q!Close(p, t, "BLOCKED") /\ Goto(p, "saving")
    <2>1. Q!Begin(p, {close}) /\ tasks[t].status \notin Q!Terminal
      BY <1>6 DEF Q!Close, Q!Active
    <2>2. /\ RowFields \subseteq DOMAIN Q!Leave(t, "BLOCKED")
          /\ Q!Leave(t, "BLOCKED").status = "BLOCKED"
      BY <1>3, LeftRow
    <2>3. ~IsWorkerWrite(close) /\ close.task = t /\ close.new.status = "BLOCKED"
      BY <2>2 DEF IsWorkerWrite, Q!Write
    <2>4. WriteOK(close)
      <3> HIDE DEF t
      <3> QED
        BY <1>3, <2>1, <2>2, PreparedWrite
    <2> QED
      BY <1>1, <1>2, <1>6, <2>1, <2>3, <2>4, SavingStep
  <1>7. CASE Raise(p) /\ UNCHANGED <<now, queueVars>>
    BY <1>1, <1>2, <1>7, ForgetStep DEF queueVars
  <1> QED
    BY <1>4, <1>5, <1>6, <1>7 DEF Apply

----------------------------------------------------------------------------
(* Any process: the store answers, or the process dies.                    *)

\* A process that dies loses its call and its writes.
LEMMA CrashStep ==
  ASSUME ReviewInv, NEW p \in Procs, Crash(p)
  PROVE  ReviewInv'
  <1> DEFINE d == [Rest EXCEPT !.at = "raised"]
  <1>1. UNCHANGED <<tasks, cases>>
    BY DEF Crash
  <1>2. /\ OwnStep(p) /\ pending'[p] = {} /\ desk'[p] = d
    BY DEF Crash, Raise, OwnStep, ReviewInv
  <1>3. DeskFields \subseteq DOMAIN d /\ d.at = "raised" /\ d.passed = {}
    BY DEF Rest, DeskFields
  <1>4. DeskOK(p)'
    BY <1>2, <1>3 DEF DeskOK
  <1> QED
    BY <1>1, <1>2, <1>4, Untouched, OwnStepKeeps

\* A write that the store has answered is gone; its caller goes on or forgets.
LEMMA AnsweredStep ==
  ASSUME ReviewInv, NEW p \in Procs, NEW w \in pending[p], UNCHANGED cases, RowsStep,
         pending' = [pending EXCEPT ![p] = @ \ {w}],
         IF IsWorkerWrite(w) THEN UNCHANGED desk ELSE Finish(p) \/ Raise(p)
  PROVE  ReviewInv'
  <1>1. DeskOK(p) /\ CasesStep
    BY Untouched DEF ReviewInv
  <1>2. pending'[p] = pending[p] \ {w} /\ OwnStep(p)
    BY DEF ReviewInv, OwnStep, Finish, Raise
  <1>3. \A v \in pending'[p] : WriteOK(v)'
    BY <1>1, <1>2, Untouched DEF DeskOK
  <1>4. p \in Operators => pending'[p] = {}
    BY <1>1, <1>2 DEF DeskOK, CommandWrite
  <1>5. CASE UNCHANGED desk
    <2>1. /\ (\A s \in desk[p].passed : ApprovedSig(desk[p].task, s))'
          /\ (desk[p].at = "parking" => HasCase(desk[p].task))'
          /\ ((desk[p].at \in Commanding /\ desk[p].seen \in Q!Terminal) => Finished(desk[p].task))'
      BY <1>1, <1>5 DEF DeskOK, ApprovedSig, HasCase, Finished, RowsStep
    <2>2. DeskOK(p)'
      BY <1>1, <1>3, <1>4, <1>5, <2>1 DEF DeskOK
    <2> QED
      BY <1>1, <1>2, <2>2, OwnStepKeeps
  <1>6. CASE Finish(p) \/ Raise(p)
    <2>1. PICK d \in {Rest, [Rest EXCEPT !.at = "raised"]} : desk'[p] = d
      BY <1>6 DEF Finish, Raise, ReviewInv
    <2>2. DeskFields \subseteq DOMAIN d /\ d.at \in Resting /\ d.passed = {}
      BY DEF Rest, DeskFields
    <2>3. DeskOK(p)'
      BY <1>3, <1>4, <2>1, <2>2 DEF DeskOK
    <2> QED
      BY <1>1, <1>2, <2>3, OwnStepKeeps
  <1> QED
    BY <1>5, <1>6

\* A stored write was legal when it was prepared and its task has not moved since.
LEMMA SavedStep ==
  ASSUME ReviewInv, NEW p \in Procs, NEW w \in pending[p], Saved(p, w), UNCHANGED cases
  PROVE  ReviewInv'
  <1>1. WriteOK(w)
    BY DEF ReviewInv, DeskOK
  <1>2. /\ tasks[w.task].status = w.status /\ tasks' = [tasks EXCEPT ![w.task] = w.new]
        /\ pending' = [pending EXCEPT ![p] = @ \ {w}]
    BY DEF Saved, Q!SaveApplied, Q!Applies, Q!Save
  <1>3. RowsStep
    BY <1>1, <1>2 DEF WriteOK, RowsStep, ReviewInv, RowOK, Finished
  <1> QED
    BY <1>2, <1>3, AnsweredStep DEF Saved

\* A refused write changes nothing but its call.
LEMMA SaveRefusedStep ==
  ASSUME ReviewInv, NEW p \in Procs, NEW w \in pending[p], SaveRefused(p, w), UNCHANGED cases
  PROVE  ReviewInv'
  <1>1. UNCHANGED tasks /\ pending' = [pending EXCEPT ![p] = @ \ {w}]
    BY DEF SaveRefused, Q!SaveStale, Q!Save
  <1> QED
    BY <1>1, Untouched, AnsweredStep DEF SaveRefused

\* Every step keeps the invariant and changes cases only in the ways of CasesStep.
LEMMA NextReviewInv ==
  ASSUME ReviewInv, [Next]_vars
  PROVE  ReviewInv' /\ CasesStep
  <1>1. ASSUME NEW p \in Runners, Run(p) PROVE ReviewInv' /\ CasesStep
    <2>1. ASSUME NEW t \in Tasks, Rank(p, t) PROVE ReviewInv' /\ CasesStep
      BY <2>1, RankStep DEF Rank, CasesStep
    <2>2. CASE Admit(p)
      BY <2>2, AdmitStep DEF Admit, CasesStep
    <2>3. ASSUME NEW s \in Sigs, GatePasses(p, s) PROVE ReviewInv' /\ CasesStep
      BY <2>3, GatePassesStep DEF GatePasses, CasesStep
    <2>4. ASSUME NEW s \in Sigs, GateAsks(p, s) PROVE ReviewInv' /\ CasesStep
      BY <2>4, GateAsksStep DEF GateAsks, CasesStep
    <2>5. CASE OpenCase(p)
      BY <2>5, OpenCaseStep
    <2>6. CASE Park(p)
      BY <2>6, ParkStep DEF Park, CasesStep
    <2>7. CASE ClaimAdmitted(p)
      BY <2>7, ClaimAdmittedStep DEF ClaimAdmitted, CasesStep
    <2>8. CASE Work(p)
      BY <2>8, WorkStep DEF Work, CasesStep
    <2>9. ASSUME NEW t \in Tasks, NEW k \in Keys, NEW r \in Runs, Submit(p, t, k, r)
          PROVE  ReviewInv' /\ CasesStep
      BY <2>9, SubmitStep DEF Submit, CasesStep
    <2> QED
      BY <1>1, <2>1, <2>2, <2>3, <2>4, <2>5, <2>6, <2>7, <2>8, <2>9 DEF Run
  <1>2. ASSUME NEW p \in Operators, Command(p) PROVE ReviewInv' /\ CasesStep
    <2>1. ASSUME NEW c \in Cases, NEW v \in Verdicts, Decide(p, c, v)
          PROVE  ReviewInv' /\ CasesStep
      BY <2>1, DecideStep DEF Decide, CasesStep
    <2>2. CASE LookUp(p)
      BY <2>2, LookUpStep DEF LookUp, CasesStep
    <2>3. CASE Resolve(p)
      BY <2>3, ResolveStep
    <2>4. CASE Apply(p)
      BY <2>4, ApplyStep DEF Apply, CasesStep
    <2> QED
      BY <1>2, <2>1, <2>2, <2>3, <2>4 DEF Command
  <1>3. ASSUME NEW p \in Procs, Crash(p) PROVE ReviewInv' /\ CasesStep
    BY <1>3, CrashStep DEF Crash, CasesStep
  <1>4. ASSUME NEW p \in Procs, NEW w \in pending[p], Saved(p, w) \/ SaveRefused(p, w),
               UNCHANGED cases
        PROVE  ReviewInv' /\ CasesStep
    BY <1>4, SavedStep, SaveRefusedStep DEF CasesStep
  <1>5. ASSUME UNCHANGED <<tasks, pending, cases, desk>> PROVE ReviewInv' /\ CasesStep
    BY <1>5 DEF CasesStep, ReviewInv, RowOK, CaseOK, DeskOK, WriteOK, CommandWrite,
       IsWorkerWrite, ApprovedSig, HasCase, Finished
  <1>6. CASE Q!Tick /\ UNCHANGED <<cases, desk>>
    BY <1>5, <1>6 DEF Q!Tick
  <1>7. CASE UNCHANGED vars
    BY <1>5, <1>7 DEF vars, queueVars
  <1> QED
    BY <1>1, <1>2, <1>3, <1>4, <1>6, <1>7 DEF Next

----------------------------------------------------------------------------
(* The theorems.                                                           *)

\* The invariant holds in every reachable state.
THEOREM ReviewInvariant == Spec => []ReviewInv
  BY InitReviewInv, NextReviewInv, PTL DEF Spec

\* No task executes before a human has approved everything its gates ask about, by a case
\* per gate, whatever runners and operators do meanwhile and wherever they die.
THEOREM ApprovalsProtect == Spec => []NoUnapprovedExecution
  <1>1. ReviewInv => NoUnapprovedExecution
    <2> SUFFICES ASSUME ReviewInv, NEW t \in Tasks, tasks[t].status = "RUNNING",
                        NEW s \in Signals[t]
                 PROVE  CasesOf(t, s, "APPROVED") # {}
      BY DEF NoUnapprovedExecution
    <2>1. ApprovedSig(t, s)
      BY DEF ReviewInv, RowOK
    <2> QED
      BY <2>1 DEF ApprovedSig, CasesOf
  <1> QED
    BY <1>1, ReviewInvariant, PTL

\* A parked task has a case through which an operator can settle it, although the case and
\* the task are written one after the other.
THEOREM CasesProtect == Spec => []ParkedHasCase
  <1>1. ReviewInv => ParkedHasCase
    BY DEF ReviewInv, RowOK, HasCase, ParkedHasCase
  <1> QED
    BY <1>1, ReviewInvariant, PTL

\* The first resolution of a case stands, however many operators decide it at once.
THEOREM FirstResolutionStands == Spec => ResolutionIsFinal
  <1> DEFINE Final == \A c \in Cases : cases[c].state \in Verdicts => cases'[c] = cases[c]
  <1>1. ReviewInv /\ [Next]_vars => [Final]_vars
    BY NextReviewInv, CasesKept
  <1> QED
    BY <1>1, ReviewInvariant, PTL DEF Spec, ResolutionIsFinal

\* A runner's step moves its own desk only.
LEMMA RunnersLeaveDesks ==
  ASSUME ReviewInv, NEW p \in Runners, NEW q \in Operators, Run(p)
  PROVE  desk'[q] = desk[q]
  <1>1. q # p /\ q \in DOMAIN desk
    BY RunnersAreNoOperators DEF Operators, ReviewInv
  <1> QED
    BY <1>1 DEF Run, Rank, Admit, GatePasses, GateAsks, OpenCase, Park, ClaimAdmitted, Work,
       Submit, Goto, Finish, Raise

\* A reject command that returns without an error leaves its task finished, however the
\* runners moved it since the command read it.
THEOREM RejectionsSettle == Spec => RejectionSettles
  <1> DEFINE Returns(p) == /\ desk[p].at \in {"applying", "saving"}
                           /\ desk[p].verdict = "BLOCKED"
                           /\ desk'[p].at = "rest"
             Settles == \A p \in Operators :
                          /\ desk[p].at \in {"applying", "saving"} /\ desk[p].verdict = "BLOCKED"
                          /\ desk'[p].at = "rest"
                          => tasks'[desk[p].task].status \in Q!Terminal
  <1>1. ASSUME ReviewInv, [Next]_vars, NEW p \in Operators, Returns(p)
        PROVE  tasks'[desk[p].task].status \in Q!Terminal
    <2>1. p \in Procs /\ p \in DOMAIN desk /\ desk[p].task \in Tasks /\ DeskOK(p)
      BY <1>1 DEF Operators, ReviewInv, DeskOK
    <2>2. desk'[p] # desk[p]
      BY <1>1
    <2>3. CASE Command(p)
      <3>1. Apply(p)
        BY <1>1, <2>3 DEF Command, Decide, LookUp, Resolve
      <3>2. desk[p].at = "applying" /\ "at" \in DOMAIN desk[p]
        BY <2>1, <3>1 DEF Apply, DeskOK, DeskFields
      <3>3. ~Goto(p, "saving") /\ ~Raise(p)
        BY <1>1, <2>1, <3>2 DEF Goto, Raise, Rest
      <3>4. ~Concerns(p) /\ UNCHANGED tasks
        BY <3>1, <3>3 DEF Apply, queueVars
      <3>5. desk[p].seen \in Q!Terminal
        BY <1>1, <3>4 DEF Concerns
      <3> QED
        BY <2>1, <3>2, <3>4, <3>5 DEF DeskOK, Finished
    <2>4. CASE Crash(p)
      BY <1>1, <2>1, <2>4 DEF Crash, Raise, Rest
    <2>5. ASSUME NEW w \in pending[p], Saved(p, w)
          PROVE  tasks'[desk[p].task].status \in Q!Terminal
      <3>1. w.task = desk[p].task /\ w.new.status = "BLOCKED"
        BY <1>1, <2>1 DEF DeskOK, CommandWrite
      <3>2. tasks' = [tasks EXCEPT ![w.task] = w.new] /\ DOMAIN tasks = Tasks
        BY <1>1, <2>5 DEF Saved, Q!SaveApplied, ReviewInv
      <3> QED
        BY <2>1, <3>1, <3>2 DEF Q!Terminal
    <2>6. ASSUME NEW w \in pending[p], SaveRefused(p, w) PROVE FALSE
      BY <1>1, <2>1, <2>2, <2>6 DEF SaveRefused, Raise, Rest
    <2>7. ASSUME NEW q \in Operators, q # p, Command(q) PROVE FALSE
      BY <2>1, <2>2, <2>7 DEF Command, Decide, LookUp, Resolve, Apply, Goto, Finish, Raise
    <2>8. ASSUME NEW q \in Procs, q # p,
                 Crash(q) \/ \E w \in pending[q] : Saved(q, w) \/ SaveRefused(q, w)
          PROVE  FALSE
      BY <2>1, <2>2, <2>8 DEF Crash, Saved, SaveRefused, Finish, Raise
    <2>9. CASE \/ Q!Tick /\ UNCHANGED <<cases, desk>>
               \/ UNCHANGED vars
      BY <2>2, <2>9 DEF vars
    <2> QED
      BY <1>1, <2>2, <2>3, <2>4, <2>5, <2>6, <2>7, <2>8, <2>9, RunnersLeaveDesks DEF Next
  <1>2. ReviewInv /\ [Next]_vars => [Settles]_vars
    BY <1>1
  <1> QED
    BY <1>2, ReviewInvariant, PTL DEF Spec, RejectionSettles
=============================================================================
