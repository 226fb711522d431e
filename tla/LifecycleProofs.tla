--------------------------- MODULE LifecycleProofs ---------------------------
(***************************************************************************)
(* The lifecycle uses the queue and the budgets only as they may be used:  *)
(* each of its steps is a step of the queue or none, and a step of the     *)
(* budgets or none.  What is proved of TaskQueue and of Budgets for every  *)
(* use of them therefore holds of the program that lifecycle.py is.        *)
(*                                                                         *)
(* The steps only are legal because of what the dispatcher remembers: the  *)
(* tokens of its executions were given out, and a process that is not      *)
(* waiting for the store has no write under way.                           *)
(*                                                                         *)
(* Then leases: an execution works under a lease that is still valid, and  *)
(* so no task is executed twice, if a heartbeat and a full wait for the    *)
(* write lock fit into a lease.  lifecycle.py only refuses a heartbeat     *)
(* interval that is not below the lease; the runtime's are 60 s and 300 s  *)
(* and SQLite waits for at most 5 s, so the hypothesis holds with them.    *)
(***************************************************************************)
EXTENDS LifecycleProps, TLAPS

LoopFields == {"at", "task", "res", "todo", "cause"}
ExecFields == {"task", "token", "res", "at", "beat", "ending"}

\* The stages of one admission, and those in which nothing has been admitted.
Admitting == {"gates", "reserve", "capacity", "denied", "claim", "unclaim"}
Early == {"off", "reap", "recover", "recovering", "stopped"}

LoopOK(p) ==
  /\ LoopFields \subseteq DOMAIN loop[p]
  /\ loop[p].at \in Admitting => loop[p].task \in Tasks
  /\ loop[p].res \in Reservations \cup {None}
  /\ loop[p].at = "unclaim" => loop[p].res # None
  /\ loop[p].at \in Early => execs[p] = {}

ExecOK(e) ==
  /\ ExecFields \subseteq DOMAIN e
  /\ e.task \in Tasks /\ e.token \in 1..issued[e.task]
  /\ e.res \in Reservations \cup {None}
  /\ e.at = "renewing" => e.res # None

\* The transition lock is held by whoever waits for the store.
Waits(p) ==
  loop[p].at = "saving" \/ \E e \in execs[p] : e.at \in {"beating", "saving"}

LockOK(p) ==
  pending[p] # {} => loop[p].at = "recovering" \/ (Waits(p) /\ \E w : pending[p] = {w})

Own(p) == LoopOK(p) /\ LockOK(p) /\ \A e \in execs[p] : ExecOK(e)

LifecycleInv ==
  /\ DOMAIN loop = Procs /\ DOMAIN execs = Procs
  /\ pending = [p \in Procs |-> pending[p]] /\ tickets = [p \in Procs |-> tickets[p]]
  /\ issued \in [Tasks -> Nat]
  /\ \A p \in Procs : Own(p)

QueueStep == Q!Next \/ UNCHANGED Q!vars
BudgetStep == B!Next \/ UNCHANGED <<now, budgetVars>>
Uses == QueueStep /\ BudgetStep

\* Only p's own state changes, and tokens are only ever added.
OwnStep(p) ==
  /\ DOMAIN loop' = Procs /\ DOMAIN execs' = Procs
  /\ pending' = [q \in Procs |-> pending'[q]] /\ tickets' = [q \in Procs |-> tickets'[q]]
  /\ issued' \in [Tasks -> Nat] /\ \A t \in Tasks : issued'[t] >= issued[t]
  /\ \A q \in Procs \ {p} : loop'[q] = loop[q] /\ execs'[q] = execs[q] /\ pending'[q] = pending[q]

\* A step of one process leaves what the others remember.
LEMMA OwnStepKeeps ==
  ASSUME LifecycleInv, NEW p \in Procs, OwnStep(p), Own(p)'
  PROVE  LifecycleInv'
  <1>1. ASSUME NEW q \in Procs, q # p PROVE Own(q)'
    <2>1. Own(q) /\ loop'[q] = loop[q] /\ execs'[q] = execs[q] /\ pending'[q] = pending[q]
      BY <1>1 DEF LifecycleInv, OwnStep
    <2>2. LoopOK(q)' /\ LockOK(q)'
      BY <2>1 DEF Own, LoopOK, LockOK, Waits
    <2>3. ASSUME NEW e \in execs'[q] PROVE ExecOK(e)'
      BY <2>1, <2>3 DEF Own, ExecOK, LifecycleInv, OwnStep
    <2> QED
      BY <2>2, <2>3 DEF Own
  <1> QED
    BY <1>1 DEF LifecycleInv, OwnStep

\* An execution keeps what was true of it while the queue's tokens stand still.
LEMMA ExecsKept ==
  ASSUME UNCHANGED issued
  PROVE  \A e : ExecOK(e) => ExecOK(e)'
  BY DEF ExecOK

\* What leaves the queue alone is a stutter of it.
LEMMA NoQueueStep == UNCHANGED <<now, queueVars>> => QueueStep
  BY DEF QueueStep, queueVars, Q!vars

\* What leaves the budgets alone is a stutter of them.
LEMMA NoBudgetStep == UNCHANGED <<now, budgetVars>> => BudgetStep
  BY DEF BudgetStep

\* A process that dies, or starts again, loses its writes and its tickets.
LEMMA LossStep ==
  ASSUME LifecycleInv, NEW p \in Procs, UNCHANGED <<now, tasks, issued>>,
         pending' = [pending EXCEPT ![p] = {}], tickets' = [tickets EXCEPT ![p] = {}]
  PROVE  QueueStep
  <1>1. CASE pending[p] # {} \/ tickets[p] # {}
    BY <1>1 DEF QueueStep, Q!Next, Q!Crash
  <1>2. CASE pending[p] = {} /\ tickets[p] = {}
    BY <1>2 DEF LifecycleInv, QueueStep, Q!vars
  <1> QED
    BY <1>1, <1>2

\* A write that is dropped is one whose coroutine was cancelled.
LEMMA DropStep ==
  ASSUME LifecycleInv, NEW p \in Procs, UNCHANGED <<now, tasks, issued, tickets>>,
         pending' = [pending EXCEPT ![p] = {}] \/ UNCHANGED pending
  PROVE  QueueStep
  <1>1. CASE UNCHANGED pending
    BY <1>1 DEF QueueStep, Q!vars
  <1>2. CASE pending' = [pending EXCEPT ![p] = {}] /\ pending[p] # {}
    BY <1>2 DEF QueueStep, Q!Next, Q!Abandon
  <1>3. CASE pending' = [pending EXCEPT ![p] = {}] /\ pending[p] = {}
    <2>1. pending' = pending
      BY <1>3 DEF LifecycleInv
    <2> QED
      BY <1>1, <2>1
  <1> QED
    BY <1>1, <1>2, <1>3

\* A step that replaces what belongs to p is a step of p alone.
LEMMA OwnStepOf ==
  ASSUME LifecycleInv, NEW p \in Procs, UNCHANGED issued,
         NEW l, loop' = [loop EXCEPT ![p] = l] \/ (UNCHANGED loop /\ l = loop[p]),
         NEW es, execs' = [execs EXCEPT ![p] = es],
         NEW ws, pending' = [pending EXCEPT ![p] = ws],
         tickets' = [q \in Procs |-> tickets'[q]]
  PROVE  OwnStep(p) /\ loop'[p] = l /\ execs'[p] = es /\ pending'[p] = ws
  <1>1. /\ DOMAIN loop' = Procs /\ loop'[p] = l
        /\ \A q \in Procs \ {p} : loop'[q] = loop[q]
    BY DEF LifecycleInv
  <1>2. /\ DOMAIN execs' = Procs /\ execs'[p] = es
        /\ \A q \in Procs \ {p} : execs'[q] = execs[q]
    BY DEF LifecycleInv
  <1>3. /\ pending' = [q \in Procs |-> pending'[q]] /\ pending'[p] = ws
        /\ \A q \in Procs \ {p} : pending'[q] = pending[q]
    BY DEF LifecycleInv
  <1>4. issued' \in [Tasks -> Nat] /\ \A t \in Tasks : issued'[t] >= issued[t]
    BY DEF LifecycleInv
  <1> QED
    BY <1>1, <1>2, <1>3, <1>4 DEF OwnStep

\* A step that neither touches the queue nor the locks of others.
LEMMA LocalStep ==
  ASSUME LifecycleInv, NEW p \in Procs, UNCHANGED <<issued, tickets>>,
         pending' = [pending EXCEPT ![p] = {}] \/ UNCHANGED pending,
         NEW l, loop' = [loop EXCEPT ![p] = l],
         NEW es, execs' = [execs EXCEPT ![p] = es],
         LoopOK(p)', \A e \in es : ExecOK(e),
         \/ pending'[p] = {}
         \/ /\ loop[p].at # "recovering"
            /\ l.at = "saving" \/ \E e \in es : e.at \in {"beating", "saving"}
  PROVE  LifecycleInv'
  <1>1. OwnStep(p)
    BY DEF OwnStep, LifecycleInv
  <1>2. loop'[p] = l /\ execs'[p] = es
    BY DEF LifecycleInv
  <1>3. Own(p)'
    <2>1. \A e \in execs'[p] : ExecOK(e)'
      BY <1>2, ExecsKept
    <2>2. LockOK(p)'
      BY <1>2 DEF LifecycleInv, Own, LockOK, Waits
    <2> QED
      BY <2>1, <2>2 DEF Own
  <1> QED
    BY <1>1, <1>3, OwnStepKeeps

\* The dispatcher of p goes on to l; nothing else changes.
LEMMA LoopStep ==
  ASSUME LifecycleInv, NEW p \in Procs, UNCHANGED <<issued, tickets, pending, execs>>,
         NEW l, loop' = [loop EXCEPT ![p] = l], loop[p].at \notin {"saving", "recovering"},
         LoopFields \subseteq DOMAIN l,
         l.at \in Admitting => l.task \in Tasks,
         l.res \in Reservations \cup {None},
         l.at = "unclaim" => l.res # None,
         l.at \in Early => execs[p] = {}
  PROVE  LifecycleInv'
  <1>1. Own(p) /\ loop'[p] = l
    BY DEF LifecycleInv
  <1>2. OwnStep(p)
    BY DEF OwnStep, LifecycleInv
  <1>3. LoopOK(p)'
    BY <1>1 DEF LoopOK
  <1>4. LockOK(p)'
    BY <1>1 DEF Own, LockOK, Waits
  <1>5. Own(p)'
    BY <1>1, <1>3, <1>4, ExecsKept DEF Own
  <1> QED
    BY <1>2, <1>5, OwnStepKeeps

\* The dispatcher enters a stage that remembers what the last one did.
LEMMA GotoStep ==
  ASSUME LifecycleInv, NEW p \in Procs, UNCHANGED <<issued, tickets, pending, execs>>,
         NEW stage, Goto(p, stage), loop[p].at \notin {"saving", "recovering"},
         stage \in Admitting => loop[p].at \in Admitting,
         stage = "unclaim" => loop[p].res # None,
         stage \in Early => execs[p] = {}
  PROVE  LifecycleInv'
  <1> DEFINE l == [loop[p] EXCEPT !.at = stage]
  <1>1. loop' = [loop EXCEPT ![p] = l]
    BY DEF Goto
  <1>2. LoopOK(p)
    BY DEF LifecycleInv, Own
  <1>3. /\ LoopFields \subseteq DOMAIN l /\ l.at = stage /\ l.task = loop[p].task
        /\ l.res = loop[p].res
    BY <1>2 DEF LoopOK, LoopFields
  <1> HIDE DEF l
  <1> QED
    BY <1>1, <1>2, <1>3, LoopStep DEF LoopOK

\* An admission is over.
LEMMA NextAdmissionShape ==
  ASSUME LifecycleInv, NEW p \in Procs, NextAdmission(p)
  PROVE  \E l : /\ loop' = [loop EXCEPT ![p] = l]
                /\ LoopFields \subseteq DOMAIN l /\ l.at = "idle" /\ l.res = None
  <1> DEFINE l == [loop[p] EXCEPT !.at = "idle", !.task = None, !.res = None]
  <1>1. loop' = [loop EXCEPT ![p] = l]
    BY DEF NextAdmission
  <1>2. LoopFields \subseteq DOMAIN l /\ l.at = "idle" /\ l.res = None
    BY DEF LifecycleInv, Own, LoopOK, LoopFields
  <1> QED
    BY <1>1, <1>2

\* The end of an admission forgets its reservation.
LEMMA NextAdmissionStep ==
  ASSUME LifecycleInv, NEW p \in Procs, UNCHANGED <<issued, tickets, pending, execs>>,
         NextAdmission(p), loop[p].at \notin {"saving", "recovering"}
  PROVE  LifecycleInv'
  <1>1. PICK l : /\ loop' = [loop EXCEPT ![p] = l]
                 /\ LoopFields \subseteq DOMAIN l /\ l.at = "idle" /\ l.res = None
    BY NextAdmissionShape
  <1> QED
    BY <1>1, LoopStep DEF Admitting, Early

\* The dispatcher has prepared a write and waits for the store.
LEMMA SavingStep ==
  ASSUME LifecycleInv, NEW p \in Procs, NEW w, Q!Begin(p, {w}), UNCHANGED <<tickets, execs>>,
         Goto(p, "saving")
  PROVE  LifecycleInv'
  <1>1. Own(p)
    BY DEF LifecycleInv
  <1>2. OwnStep(p) /\ pending'[p] = {w} /\ UNCHANGED issued
    BY DEF OwnStep, LifecycleInv, Q!Begin, Goto
  <1>3. loop'[p] = [loop[p] EXCEPT !.at = "saving"]
    BY DEF Goto, LifecycleInv
  <1>4. LoopFields \subseteq DOMAIN loop'[p] /\ loop'[p].at = "saving" /\ loop'[p].res = loop[p].res
    BY <1>1, <1>3 DEF Own, LoopOK, LoopFields
  <1>5. LoopOK(p)'
    BY <1>1, <1>4 DEF Own, LoopOK, Admitting, Early
  <1>6. LockOK(p)'
    BY <1>2, <1>4 DEF LockOK, Waits
  <1>7. Own(p)'
    BY <1>1, <1>2, <1>5, <1>6, ExecsKept DEF Own
  <1> QED
    BY <1>2, <1>7, OwnStepKeeps

----------------------------------------------------------------------------
(* Opening the workspace.                                                  *)

\* A process that opens the workspace is a new one to the queue.
LEMMA OpenStep ==
  ASSUME LifecycleInv, NEW p \in Procs, Open(p)
  PROVE  LifecycleInv' /\ Uses
  <1> DEFINE l == [Idle EXCEPT !.at = "reap"]
  <1>1. /\ loop[p].at \in {"off", "stopped"} /\ loop' = [loop EXCEPT ![p] = l]
        /\ tickets' = [tickets EXCEPT ![p] = {}]
        /\ UNCHANGED <<now, tasks, issued, pending, budgetVars, execs>>
    BY DEF Open
  <1>2. LoopFields \subseteq DOMAIN l /\ l.at = "reap" /\ l.res = None
    BY DEF Idle, LoopFields
  <1>3. Own(p) /\ execs[p] = {} /\ pending[p] = {}
    BY <1>1 DEF LifecycleInv, Own, LoopOK, LockOK, Waits, Early
  <1>4. OwnStep(p) /\ loop'[p] = l
    BY <1>1 DEF OwnStep, LifecycleInv
  <1> HIDE DEF l
  <1>5. Own(p)'
    BY <1>1, <1>2, <1>3, <1>4 DEF Own, LoopOK, LockOK, Admitting
  <1>6. QueueStep
    <2>1. pending' = [pending EXCEPT ![p] = {}]
      BY <1>1, <1>3 DEF LifecycleInv
    <2> QED
      BY <1>1, <2>1, LossStep
  <1> QED
    BY <1>1, <1>4, <1>5, <1>6, OwnStepKeeps, NoBudgetStep DEF Uses

\* Reaping at startup is the reaping of the budgets.
LEMMA ReapStep ==
  ASSUME LifecycleInv, NEW p \in Procs, ReapBudgets(p)
  PROVE  LifecycleInv' /\ Uses
  <1>1. /\ loop[p].at = "reap" /\ Goto(p, "recover") /\ UNCHANGED <<now, queueVars, execs>>
    BY DEF ReapBudgets
  <1>2. execs[p] = {}
    BY <1>1 DEF LifecycleInv, Own, LoopOK, Early
  <1>3. LifecycleInv'
    BY <1>1, <1>2, GotoStep DEF queueVars, Admitting
  <1>4. BudgetStep
    <2>1. PICK n \in B!Readings :
            \/ B!Overdue(n) # {} /\ B!ReapExpired(n)
            \/ UNCHANGED budgetVars
      BY DEF ReapBudgets
    <2> QED
      BY <1>1, <2>1 DEF BudgetStep, B!Next, B!Call
  <1> QED
    BY <1>1, <1>3, <1>4, NoQueueStep DEF Uses

\* Recovery at startup is the recovery of the queue.
LEMMA RecoverStep ==
  ASSUME LifecycleInv, NEW p \in Procs, RecoverTasks(p)
  PROVE  LifecycleInv' /\ Uses
  <1>1. loop[p].at = "recover" /\ UNCHANGED <<budgetVars, execs>>
    BY DEF RecoverTasks
  <1>2. execs[p] = {} /\ Own(p)
    BY <1>1 DEF LifecycleInv, Own, LoopOK, Early
  <1>3. CASE Goto(p, "idle") /\ UNCHANGED <<now, queueVars>>
    <2>1. LifecycleInv'
      BY <1>1, <1>2, <1>3, GotoStep DEF queueVars, Admitting
    <2> QED
      BY <1>1, <1>3, <2>1, NoQueueStep, NoBudgetStep DEF Uses
  <1>4. ASSUME NEW n \in Q!Readings, NEW d \in Delays, Q!Recover(p, n, d), Goto(p, "recovering")
        PROVE  LifecycleInv' /\ Uses
    <2>1. QueueStep
      BY <1>4 DEF QueueStep, Q!Next, Q!ControlCall
    <2>2. UNCHANGED <<now, issued, tickets>>
      BY <1>4 DEF Q!Recover, Q!Begin
    <2> DEFINE ws == {Q!Write("recover", t, Q!NoToken, tasks[t].lease, Q!Recovered(t, n + d)) :
                        t \in {u \in Tasks : Q!Expired(u, n)}}
    <2>a. Q!Begin(p, ws)
      BY <1>4 DEF Q!Recover
    <2> HIDE DEF ws
    <2>3. OwnStep(p)
      BY <1>1, <1>4, <2>2, <2>a DEF OwnStep, LifecycleInv, Q!Begin, Goto
    <2>4. loop'[p] = [loop[p] EXCEPT !.at = "recovering"]
      BY <1>4 DEF Goto, LifecycleInv
    <2>5. LoopFields \subseteq DOMAIN loop'[p] /\ loop'[p].at = "recovering"
          /\ loop'[p].res = loop[p].res
      BY <1>2, <2>4 DEF Own, LoopOK, LoopFields
    <2>6. Own(p)'
      BY <1>1, <1>2, <2>5 DEF Own, LoopOK, LockOK, Admitting
    <2> QED
      BY <1>1, <2>1, <2>2, <2>3, <2>6, OwnStepKeeps, NoBudgetStep DEF Uses
  <1> QED
    BY <1>3, <1>4 DEF RecoverTasks

----------------------------------------------------------------------------
(* Admission.                                                              *)

\* A batch is only chosen.
LEMMA SelectBatchStep ==
  ASSUME LifecycleInv, NEW p \in Procs, NEW batch, SelectBatch(p, batch)
  PROVE  LifecycleInv' /\ Uses
  <1> DEFINE l == [loop[p] EXCEPT !.todo = batch]
  <1>1. /\ loop[p].at = "idle" /\ loop' = [loop EXCEPT ![p] = l]
        /\ UNCHANGED <<now, queueVars, budgetVars, execs>>
    BY DEF SelectBatch
  <1>2. LoopOK(p)
    BY DEF LifecycleInv, Own
  <1>3. LoopFields \subseteq DOMAIN l /\ l.at = "idle" /\ l.res = loop[p].res
    BY <1>1, <1>2 DEF LoopOK, LoopFields
  <1> HIDE DEF l
  <1>4. LifecycleInv'
    BY <1>1, <1>2, <1>3, LoopStep DEF LoopOK, Admitting, Early, queueVars
  <1> QED
    BY <1>1, <1>4, NoQueueStep, NoBudgetStep DEF Uses

\* An admission that finds its task stale changes nothing.
LEMMA AdmitStep ==
  ASSUME LifecycleInv, NEW p \in Procs, NEW t \in Tasks, Admit(p, t)
  PROVE  LifecycleInv' /\ Uses
  <1> DEFINE runnable == tasks[t].status \in Q!Waiting
             l == [loop[p] EXCEPT !.todo = @ \ {t},
                                  !.at = IF runnable THEN "gates" ELSE "idle",
                                  !.task = IF runnable THEN t ELSE None]
  <1>1. /\ loop[p].at = "idle" /\ loop' = [loop EXCEPT ![p] = l]
        /\ UNCHANGED <<now, queueVars, budgetVars, execs>>
    BY DEF Admit
  <1>2. LoopOK(p)
    BY DEF LifecycleInv, Own
  <1>3. /\ LoopFields \subseteq DOMAIN l /\ l.res = loop[p].res
        /\ l.at = "idle" \/ (l.at = "gates" /\ l.task = t)
    <2> HIDE DEF runnable
    <2> QED BY <1>1, <1>2 DEF LoopOK, LoopFields
  <1> HIDE DEF l
  <1>4. LifecycleInv'
    BY <1>1, <1>2, <1>3, LoopStep DEF LoopOK, Admitting, Early, queueVars
  <1> QED
    BY <1>1, <1>4, NoQueueStep, NoBudgetStep DEF Uses

\* Gates that allow change nothing.
LEMMA GatesAllowStep ==
  ASSUME LifecycleInv, NEW p \in Procs, GatesAllow(p)
  PROVE  LifecycleInv' /\ Uses
  <1>1. /\ loop[p].at = "gates" /\ Goto(p, "reserve")
        /\ UNCHANGED <<now, queueVars, budgetVars, execs>>
    BY DEF GatesAllow
  <1>2. LifecycleInv'
    BY <1>1, GotoStep DEF Admitting, Early, queueVars
  <1> QED
    BY <1>1, <1>2, NoQueueStep, NoBudgetStep DEF Uses

\* The queue calls by which an admission or an operator gives a task another status.
LEMMA ControlStep ==
  ASSUME LifecycleInv, NEW p \in Procs, NEW t \in Tasks,
         \/ \E d \in Delays : Q!Defer(p, t, d)
         \/ Q!SendToReview(p, t)
         \/ Q!Close(p, t, "BLOCKED")
         \/ Q!ReleaseReview(p, t, 0),
         Goto(p, "saving"), UNCHANGED <<budgetVars, execs>>
  PROVE  LifecycleInv' /\ Uses
  <1>1. \E w : Q!Begin(p, {w}) /\ UNCHANGED tickets
    <2>1. ASSUME NEW d \in Delays, Q!Defer(p, t, d) PROVE <1>1!:
      BY <2>1 DEF Q!Defer
    <2>2. CASE Q!SendToReview(p, t)
      BY <2>2 DEF Q!SendToReview
    <2>3. CASE Q!Close(p, t, "BLOCKED")
      BY <2>3 DEF Q!Close
    <2>4. CASE Q!ReleaseReview(p, t, 0)
      BY <2>4 DEF Q!ReleaseReview
    <2> QED
      BY <2>1, <2>2, <2>3, <2>4
  <1>2. LifecycleInv'
    BY <1>1, SavingStep
  <1>3. Q!ControlCall(p)
    BY NoDelayAssumption DEF Q!ControlCall
  <1>4. QueueStep
    BY <1>3 DEF QueueStep, Q!Next
  <1>5. UNCHANGED now
    BY <1>1 DEF Q!Begin
  <1> QED
    BY <1>2, <1>4, <1>5, NoBudgetStep DEF Uses

\* A refusal defers, parks or blocks by a call of the queue.
LEMMA RefusalStep ==
  ASSUME LifecycleInv, NEW p \in Procs, GatesRefuse(p) \/ BudgetRefuses(p)
  PROVE  LifecycleInv' /\ Uses
  <1>1. loop[p].at \in {"gates", "capacity", "denied"}
    BY DEF GatesRefuse, BudgetRefuses
  <1>2. loop[p].task \in Tasks
    BY <1>1 DEF LifecycleInv, Own, LoopOK, Admitting
  <1> QED
    BY <1>2, ControlStep DEF GatesRefuse, BudgetRefuses

\* A reservation is made by the budgets, or not at all.
LEMMA ReserveStep ==
  ASSUME LifecycleInv, NEW p \in Procs, Reserve(p)
  PROVE  LifecycleInv' /\ Uses
  <1> DEFINE t == loop[p].task
             d == DemandOf[t]
  <1>1. loop[p].at = "reserve" /\ UNCHANGED <<now, queueVars, execs>>
    BY DEF Reserve
  <1>2. LoopOK(p) /\ t \in Tasks
    BY <1>1 DEF LifecycleInv, Own, LoopOK, Admitting
  <1>3. d \in Demands /\ LaneOf[t] \in B!Lanes
    BY <1>2, PlanAssumption DEF B!Lanes
  <1>4. ASSUME NEW r \in Reservations, NEW n \in B!Readings, B!Reserve(r, d, LaneOf[t], n),
               loop' = [loop EXCEPT ![p].at = "claim", ![p].res = r]
        PROVE  LifecycleInv' /\ Uses
    <2> DEFINE l == [loop[p] EXCEPT !.at = "claim", !.res = r]
    <2>1. loop' = [loop EXCEPT ![p] = l]
      BY <1>4
    <2>2. LoopFields \subseteq DOMAIN l /\ l.at = "claim" /\ l.res = r /\ l.task = t
      BY <1>2 DEF LoopOK, LoopFields
    <2> HIDE DEF l
    <2>3. LifecycleInv'
      BY <1>1, <1>2, <2>1, <2>2, LoopStep DEF Early, queueVars
    <2>4. BudgetStep
      BY <1>1, <1>3, <1>4 DEF BudgetStep, B!Next, B!Call
    <2> QED
      BY <1>1, <2>3, <2>4, NoQueueStep DEF Uses
  <1>5. ASSUME NEW stage \in {"claim", "denied", "capacity"}, Goto(p, stage), UNCHANGED budgetVars
        PROVE  LifecycleInv' /\ Uses
    <2>1. LifecycleInv'
      BY <1>1, <1>5, GotoStep DEF Admitting, Early, queueVars
    <2> QED
      BY <1>1, <1>5, <2>1, NoQueueStep, NoBudgetStep DEF Uses
  <1> QED
    BY <1>4, <1>5 DEF Reserve

\* A claim is the queue's, and its token was given out.
LEMMA ClaimStep ==
  ASSUME LifecycleInv, NEW p \in Procs, Claim(p)
  PROVE  LifecycleInv' /\ Uses
  <1> DEFINE t == loop[p].task
  <1>a. PICK f : /\ f = [task |-> t, token |-> issued'[t], res |-> loop[p].res,
                         at |-> "admitted", beat |-> now, ending |-> "none"]
                 /\ execs' = [execs EXCEPT ![p] = @ \cup {f}]
    BY DEF Claim
  <1>1. /\ loop[p].at = "claim" /\ NextAdmission(p) /\ UNCHANGED budgetVars
        /\ execs' = [execs EXCEPT ![p] = @ \cup {f}]
    BY <1>a DEF Claim
  <1>2. PICK n \in Q!Readings : Q!Claim(p, t, n)
    BY DEF Claim
  <1>3. Own(p) /\ t \in Tasks /\ loop[p].res \in Reservations \cup {None}
    BY <1>1 DEF LifecycleInv, Own, LoopOK, Admitting
  <1>4. /\ issued' = [issued EXCEPT ![t] = @ + 1] /\ UNCHANGED <<now, pending>>
        /\ tickets' = [tickets EXCEPT ![p] = @ \cup {<<t, issued'[t]>>}]
    BY <1>2 DEF Q!Claim
  <1>5. issued' \in [Tasks -> Nat] /\ issued'[t] > 0 /\ \A u \in Tasks : issued'[u] >= issued[u]
    BY <1>3, <1>4 DEF LifecycleInv
  <1>6. PICK l : /\ loop' = [loop EXCEPT ![p] = l]
                 /\ LoopFields \subseteq DOMAIN l /\ l.at = "idle" /\ l.res = None
    BY <1>1, NextAdmissionShape
  <1>7. loop'[p] = l /\ execs'[p] = execs[p] \cup {f}
    BY <1>1, <1>6 DEF LifecycleInv
  <1>8. OwnStep(p)
    <2>1. tickets' = [q \in Procs |-> tickets'[q]] /\ pending' = [q \in Procs |-> pending'[q]]
      BY <1>4 DEF LifecycleInv
    <2> QED
      BY <1>1, <1>4, <1>5, <1>6, <2>1 DEF OwnStep, LifecycleInv
  <1>9. ExecOK(f)'
    <2>1. f.task = t /\ f.token = issued'[t] /\ f.res = loop[p].res /\ f.at = "admitted"
          /\ ExecFields \subseteq DOMAIN f
      BY <1>a DEF ExecFields
    <2>2. f.token \in 1..issued'[f.task]
      BY <1>3, <1>5, <2>1
    <2> QED
      BY <1>3, <2>1, <2>2 DEF ExecOK
  <1>10. ASSUME NEW e \in execs[p] PROVE ExecOK(e)'
    BY <1>3, <1>5 DEF Own, ExecOK, LifecycleInv
  <1>11. LoopOK(p)' /\ LockOK(p)'
    BY <1>1, <1>3, <1>4, <1>6, <1>7 DEF Own, LoopOK, LockOK, Waits, Admitting, Early
  <1>12. LifecycleInv'
    <2>1. Own(p)'
      BY <1>7, <1>9, <1>10, <1>11 DEF Own
    <2> QED
      BY <1>8, <2>1, OwnStepKeeps
  <1>13. QueueStep
    BY <1>2, <1>3 DEF QueueStep, Q!Next, Q!ControlCall
  <1> QED
    BY <1>1, <1>4, <1>12, <1>13, NoBudgetStep DEF Uses

\* A refused claim leaves a reservation to release.
LEMMA ClaimFailsStep ==
  ASSUME LifecycleInv, NEW p \in Procs, ClaimFails(p)
  PROVE  LifecycleInv' /\ Uses
  <1>1. /\ loop[p].at = "claim" /\ UNCHANGED <<now, queueVars, budgetVars, execs>>
        /\ IF loop[p].res = None THEN NextAdmission(p) ELSE Goto(p, "unclaim")
    BY DEF ClaimFails
  <1>2. LifecycleInv'
    BY <1>1, NextAdmissionStep, GotoStep DEF Admitting, Early, queueVars
  <1> QED
    BY <1>1, <1>2, NoQueueStep, NoBudgetStep DEF Uses

\* That reservation is released by the budgets.
LEMMA UnclaimStep ==
  ASSUME LifecycleInv, NEW p \in Procs, Unclaim(p)
  PROVE  LifecycleInv' /\ Uses
  <1>1. /\ loop[p].at = "unclaim" /\ UNCHANGED <<now, queueVars, execs>>
        /\ NextAdmission(p) /\ B!Release(loop[p].res)
    BY DEF Unclaim
  <1>2. LifecycleInv'
    BY <1>1, NextAdmissionStep DEF queueVars
  <1>3. loop[p].res \in Reservations
    BY <1>1 DEF LifecycleInv, Own, LoopOK
  <1>4. BudgetStep
    BY <1>1, <1>3 DEF BudgetStep, B!Next, B!Call
  <1> QED
    BY <1>1, <1>2, <1>4, NoQueueStep DEF Uses

\* Executions that start keep their tickets.
LEMMA StartBatchStep ==
  ASSUME LifecycleInv, NEW p \in Procs, StartBatch(p)
  PROVE  LifecycleInv' /\ Uses
  <1> DEFINE started(e) == IF e.at = "admitted" THEN [e EXCEPT !.at = "working", !.beat = now]
                                                ELSE e
             es == {started(e) : e \in execs[p]}
  <1>1. /\ loop[p].at = "idle" /\ execs' = [execs EXCEPT ![p] = es]
        /\ UNCHANGED <<now, queueVars, budgetVars, loop>>
    BY DEF StartBatch
  <1>2. Own(p)
    BY DEF LifecycleInv
  <1>3. ASSUME NEW e \in execs[p] PROVE ExecOK(started(e))
    BY <1>2 DEF Own, ExecOK, ExecFields
  <1>4. \A e \in execs[p] : e.at \in {"beating", "saving"} => e \in es
    OBVIOUS
  <1>5. \A f \in es : ExecOK(f)
    BY <1>3
  <1> HIDE DEF es
  <1>7. LoopOK(p)'
    BY <1>1, <1>2 DEF Own, LoopOK, Early
  <1>8. OwnStep(p) /\ execs'[p] = es
    BY <1>1 DEF OwnStep, LifecycleInv, queueVars
  <1>9. LockOK(p)'
    BY <1>1, <1>2, <1>4, <1>8 DEF Own, LockOK, Waits, queueVars
  <1>10. Own(p)'
    BY <1>1, <1>5, <1>7, <1>8, <1>9, ExecsKept DEF Own, queueVars
  <1> QED
    BY <1>1, <1>8, <1>10, OwnStepKeeps, NoQueueStep, NoBudgetStep DEF Uses

----------------------------------------------------------------------------
(* How a run ends.                                                         *)

\* The executions that remain when a run ends are those that were started.
LEMMA EndRunStep ==
  ASSUME LifecycleInv, NEW p \in Procs, NEW cause, NEW remaining \in SUBSET execs[p],
         EndRun(p, cause, remaining), loop[p].at \notin Early,
         \A e \in execs[p] \ remaining : e.at \notin {"beating", "saving"}
  PROVE  LifecycleInv' /\ Uses
  <1> DEFINE l == [Idle EXCEPT !.at = "ending", !.cause = cause]
             es == {e \in remaining : e.at # "admitted"}
  <1>1. /\ loop' = [loop EXCEPT ![p] = l] /\ execs' = [execs EXCEPT ![p] = es]
        /\ pending' = IF loop[p].at = "saving" THEN [pending EXCEPT ![p] = {}] ELSE pending
        /\ UNCHANGED <<now, tasks, issued, tickets, budgetVars>>
    BY DEF EndRun
  <1>2. LoopFields \subseteq DOMAIN l /\ l.at = "ending" /\ l.res = None
    BY DEF Idle, LoopFields
  <1>3. /\ es \subseteq execs[p]
        /\ \A e \in execs[p] : e.at \in {"beating", "saving"} => e \in es
    OBVIOUS
  <1> HIDE DEF l, es
  <1>4. Own(p)
    BY DEF LifecycleInv
  <1>a. PICK ws : pending' = [pending EXCEPT ![p] = ws]
    BY <1>1 DEF LifecycleInv
  <1>b. tickets' = [q \in Procs |-> tickets'[q]]
    BY <1>1 DEF LifecycleInv
  <1>c. loop' = [loop EXCEPT ![p] = l] /\ execs' = [execs EXCEPT ![p] = es] /\ UNCHANGED issued
    BY <1>1
  <1>5. OwnStep(p) /\ loop'[p] = l /\ execs'[p] = es
    BY <1>a, <1>b, <1>c, OwnStepOf
  <1>6. LoopOK(p)'
    BY <1>2, <1>5 DEF LoopOK, Admitting, Early
  <1>7. LockOK(p)'
    <2>1. CASE pending'[p] = {}
      BY <2>1 DEF LockOK
    <2>2. CASE pending'[p] # {}
      <3>1. loop[p].at # "saving" /\ pending' = pending
        BY <1>1, <2>2 DEF LifecycleInv
      <3>2. /\ \E e \in execs[p] : e.at \in {"beating", "saving"}
            /\ \E w : pending[p] = {w}
        BY <1>4, <2>2, <3>1 DEF Own, LockOK, Waits, Early
      <3> QED
        BY <1>3, <1>5, <3>1, <3>2 DEF LockOK, Waits
    <2> QED
      BY <2>1, <2>2
  <1>8. Own(p)'
    BY <1>1, <1>3, <1>4, <1>5, <1>6, <1>7, ExecsKept DEF Own
  <1>9. QueueStep
    BY <1>1, DropStep
  <1> QED
    BY <1>1, <1>5, <1>8, <1>9, OwnStepKeeps, NoBudgetStep DEF Uses

\* An interrupt, or an admission that raises, drops tickets and prepared writes.
LEMMA InterruptStep ==
  ASSUME LifecycleInv, NEW p \in Procs, Interrupt(p) \/ AdmissionRaises(p)
  PROVE  LifecycleInv' /\ Uses
  <1>1. loop[p].at \notin Early
    BY DEF Interrupt, AdmissionRaises, Running, Early
  <1>2. \E cause : EndRun(p, cause, execs[p])
    BY DEF Interrupt, AdmissionRaises
  <1> QED
    BY <1>1, <1>2, EndRunStep

\* A run stops with nothing executing and nothing prepared.
LEMMA StopStep ==
  ASSUME LifecycleInv, NEW p \in Procs, Stop(p)
  PROVE  LifecycleInv' /\ Uses
  <1>1. /\ loop[p].at \in {"idle", "ending"} /\ execs[p] = {} /\ Goto(p, "stopped")
        /\ UNCHANGED <<now, queueVars, budgetVars, execs>>
    BY DEF Stop
  <1>2. LifecycleInv'
    BY <1>1, GotoStep DEF Admitting, queueVars
  <1> QED
    BY <1>1, <1>2, NoQueueStep, NoBudgetStep DEF Uses

\* A crash loses tickets and prepared writes, as the queue allows.
LEMMA CrashStep ==
  ASSUME LifecycleInv, NEW p \in Procs, Crash(p)
  PROVE  LifecycleInv' /\ Uses
  <1> DEFINE l == [Idle EXCEPT !.at = "off"]
  <1>1. /\ loop' = [loop EXCEPT ![p] = l] /\ execs' = [execs EXCEPT ![p] = {}]
        /\ pending' = [pending EXCEPT ![p] = {}] /\ tickets' = [tickets EXCEPT ![p] = {}]
        /\ UNCHANGED <<now, tasks, issued, budgetVars>>
    BY DEF Crash
  <1>2. LoopFields \subseteq DOMAIN l /\ l.at = "off" /\ l.res = None
    BY DEF Idle, LoopFields
  <1> HIDE DEF l
  <1>a. tickets' = [q \in Procs |-> tickets'[q]]
    BY <1>1 DEF LifecycleInv
  <1>3. OwnStep(p) /\ loop'[p] = l /\ execs'[p] = {} /\ pending'[p] = {}
    BY <1>1, <1>a, OwnStepOf
  <1>4. Own(p)'
    BY <1>2, <1>3 DEF Own, LoopOK, LockOK, Admitting
  <1> QED
    BY <1>1, <1>3, <1>4, OwnStepKeeps, LossStep, NoBudgetStep DEF Uses

----------------------------------------------------------------------------
(* Execution.                                                              *)

\* The executions of p become es; whoever waits for the store keeps waiting, or its
\* write is gone.
LEMMA ExecStep ==
  ASSUME LifecycleInv, NEW p \in Procs, UNCHANGED <<issued, loop>>,
         loop[p].at \notin Early,
         NEW es, execs' = [execs EXCEPT ![p] = es], \A f \in es : ExecOK(f),
         tickets' = [q \in Procs |-> tickets'[q]],
         NEW ws, pending' = [pending EXCEPT ![p] = ws],
         \/ ws = {}
         \/ /\ ws = pending[p]
            /\ \A f \in execs[p] : f.at \in {"beating", "saving"} => f \in es
         \/ (\E f \in es : f.at \in {"beating", "saving"}) /\ \E w : ws = {w}
  PROVE  LifecycleInv'
  <1>1. OwnStep(p) /\ execs'[p] = es /\ pending'[p] = ws
    BY OwnStepOf
  <1>2. Own(p)
    BY DEF LifecycleInv
  <1>3. LoopOK(p)'
    BY <1>2 DEF Own, LoopOK
  <1>4. LockOK(p)'
    BY <1>1, <1>2 DEF Own, LockOK, Waits
  <1>5. Own(p)'
    BY <1>1, <1>3, <1>4, ExecsKept DEF Own
  <1> QED
    BY <1>1, <1>5, OwnStepKeeps

\* A process that executes something has opened its workspace.
LEMMA ExecOfRun ==
  ASSUME LifecycleInv, NEW p \in Procs, NEW e \in execs[p]
  PROVE  loop[p].at \notin Early /\ ExecOK(e) /\ \A f \in execs[p] : ExecOK(f)
  BY DEF LifecycleInv, Own, LoopOK

\* A phase, an ending or a heartbeat leaves the ticket alone.
LEMMA ExecChanged ==
  ASSUME NEW e, ExecOK(e), NEW phase, NEW ending, NEW beat, phase = "renewing" => e.res # None
  PROVE  /\ ExecOK([e EXCEPT !.at = phase]) /\ [e EXCEPT !.at = phase].at = phase
         /\ ExecOK([e EXCEPT !.at = phase, !.beat = beat])
         /\ [e EXCEPT !.at = phase, !.beat = beat].at = phase
         /\ ExecOK([e EXCEPT !.at = phase, !.ending = ending])
         /\ [e EXCEPT !.at = phase, !.ending = ending].at = phase
  BY DEF ExecOK, ExecFields

\* One execution changes while nothing waits for it.
LEMMA AloneStep ==
  ASSUME LifecycleInv, NEW p \in Procs, NEW e \in execs[p], NEW f, ExecOK(f),
         Step(p, e, f) \/ Gone(p, e), UNCHANGED <<issued, loop, tickets>>,
         \/ pending' = [pending EXCEPT ![p] = {}]
         \/ UNCHANGED pending /\ e.at \notin {"beating", "saving"}
  PROVE  LifecycleInv'
  <1>1. PICK es : /\ execs' = [execs EXCEPT ![p] = es]
                  /\ es = execs[p] \ {e} \/ es = (execs[p] \ {e}) \cup {f}
    BY DEF Step, Gone
  <1>2. loop[p].at \notin Early /\ \A g \in es : ExecOK(g)
    BY <1>1, ExecOfRun
  <1>3. tickets' = [q \in Procs |-> tickets'[q]]
    BY DEF LifecycleInv
  <1>4. CASE pending' = [pending EXCEPT ![p] = {}]
    BY <1>1, <1>2, <1>3, <1>4, ExecStep
  <1>5. CASE UNCHANGED pending /\ e.at \notin {"beating", "saving"}
    <2>1. pending' = [pending EXCEPT ![p] = pending[p]]
      BY <1>5 DEF LifecycleInv
    <2>2. \A g \in execs[p] : g.at \in {"beating", "saving"} => g \in es
      BY <1>1, <1>5
    <2> QED
      BY <1>1, <1>2, <1>3, <2>1, <2>2, ExecStep
  <1> QED
    BY <1>4, <1>5

\* An execution has prepared a write and waits for the store.
LEMMA WritingStep ==
  ASSUME LifecycleInv, NEW p \in Procs, NEW e \in execs[p], NEW f, ExecOK(f),
         f.at \in {"beating", "saving"}, Step(p, e, f), NEW w, Q!Begin(p, {w}),
         UNCHANGED loop, tickets' = [q \in Procs |-> tickets'[q]]
  PROVE  LifecycleInv'
  <1> DEFINE es == (execs[p] \ {e}) \cup {f}
  <1>1. execs' = [execs EXCEPT ![p] = es] /\ f \in es
    BY DEF Step
  <1>2. loop[p].at \notin Early /\ \A g \in es : ExecOK(g)
    BY ExecOfRun
  <1>3. UNCHANGED issued /\ pending' = [pending EXCEPT ![p] = {w}]
    BY DEF Q!Begin
  <1> HIDE DEF es
  <1> QED
    BY <1>1, <1>2, <1>3, ExecStep

\* A heartbeat is a heartbeat of the queue.
LEMMA BeatStep ==
  ASSUME LifecycleInv, NEW p \in Procs, NEW e \in execs[p], Beat(p, e)
  PROVE  LifecycleInv' /\ Uses
  <1>1. ExecOK(e)
    BY ExecOfRun
  <1> DEFINE f == [e EXCEPT !.at = "beating"]
  <1>2. ExecOK(f) /\ f.at = "beating"
    BY <1>1, ExecChanged
  <1>3. /\ Q!Heartbeat(p, e.task, e.token) /\ Step(p, e, f) /\ UNCHANGED <<budgetVars, loop>>
    BY DEF Beat
  <1>4. \E w : Q!Begin(p, {w})
    BY <1>3 DEF Q!Heartbeat
  <1>5. UNCHANGED <<now, tickets>>
    BY <1>3 DEF Q!Heartbeat, Q!Begin
  <1>6. QueueStep
    BY <1>1, <1>3 DEF QueueStep, Q!Next, Q!WorkerCall, ExecOK
  <1> HIDE DEF f
  <1>7. LifecycleInv'
    <2>1. tickets' = [q \in Procs |-> tickets'[q]]
      BY <1>5 DEF LifecycleInv
    <2> QED
      BY <1>2, <1>3, <1>4, <2>1, WritingStep
  <1> QED
    BY <1>3, <1>5, <1>6, <1>7, NoBudgetStep DEF Uses

\* Its second half is a renewal of the budgets.
LEMMA RenewStep ==
  ASSUME LifecycleInv, NEW p \in Procs, NEW e \in execs[p], RenewBudget(p, e)
  PROVE  LifecycleInv' /\ Uses
  <1>1. ExecOK(e)
    BY ExecOfRun
  <1> DEFINE f == [e EXCEPT !.at = "working", !.beat = now]
  <1>2. ExecOK(f)
    BY <1>1, ExecChanged
  <1>3. /\ e.at = "renewing" /\ Step(p, e, f) /\ UNCHANGED <<now, queueVars, loop>>
        /\ \E n \in B!Readings : B!Renew(e.res, n)
    BY DEF RenewBudget
  <1>4. BudgetStep
    BY <1>1, <1>3 DEF BudgetStep, B!Next, B!Call, ExecOK
  <1> HIDE DEF f
  <1>5. LifecycleInv'
    BY <1>2, <1>3, AloneStep DEF queueVars
  <1> QED
    BY <1>3, <1>4, <1>5, NoQueueStep DEF Uses

\* A lost lease ends the work, by no call.
LEMMA LoseStep ==
  ASSUME LifecycleInv, NEW p \in Procs, NEW e \in execs[p], LoseLease(p, e)
  PROVE  LifecycleInv' /\ Uses
  <1> DEFINE f == [e EXCEPT !.at = "charging", !.ending = "STOPPED"]
  <1>2. ExecOK(f)
    BY ExecOfRun, ExecChanged
  <1>3. /\ e.at \in {"working", "renewing"} /\ Step(p, e, f)
        /\ UNCHANGED <<now, queueVars, budgetVars, loop>>
    BY DEF LoseLease
  <1> HIDE DEF f
  <1>5. LifecycleInv'
    BY <1>2, <1>3, AloneStep DEF queueVars
  <1> QED
    BY <1>3, <1>5, NoQueueStep, NoBudgetStep DEF Uses

\* So does the worker's own end.
LEMMA EndWorkStep ==
  ASSUME LifecycleInv, NEW p \in Procs, NEW e \in execs[p], NEW ending, EndWork(p, e, ending)
  PROVE  LifecycleInv' /\ Uses
  <1> DEFINE f == [e EXCEPT !.at = "charging", !.ending = ending]
  <1>2. ExecOK(f)
    BY ExecOfRun, ExecChanged
  <1>3. /\ e.at \in Working /\ Step(p, e, f)
        /\ pending' = IF e.at = "beating" THEN [pending EXCEPT ![p] = {}] ELSE pending
        /\ UNCHANGED <<now, tasks, issued, tickets, budgetVars, loop>>
    BY DEF EndWork
  <1> HIDE DEF f
  <1>4. LifecycleInv'
    BY <1>2, <1>3, AloneStep DEF Working
  <1>5. QueueStep
    BY <1>3, DropStep
  <1> QED
    BY <1>3, <1>4, <1>5, NoBudgetStep DEF Uses

\* A charge commits what the execution has reserved.
LEMMA ChargeStep ==
  ASSUME LifecycleInv, NEW p \in Procs, NEW e \in execs[p], Charge(p, e)
  PROVE  LifecycleInv' /\ Uses
  <1>1. ExecOK(e)
    BY ExecOfRun
  <1> DEFINE f == [e EXCEPT !.at = "finishing"]
  <1>2. ExecOK(f)
    BY <1>1, ExecChanged
  <1>3. /\ e.at = "charging" /\ Step(p, e, f) /\ UNCHANGED <<now, queueVars, loop>>
        /\ (e.res # None /\ B!Commit(e.res)) \/ UNCHANGED budgetVars
    BY DEF Charge
  <1>4. BudgetStep
    BY <1>1, <1>3 DEF BudgetStep, B!Next, B!Call, ExecOK
  <1> HIDE DEF f
  <1>5. LifecycleInv'
    BY <1>2, <1>3, AloneStep DEF queueVars
  <1> QED
    BY <1>3, <1>4, <1>5, NoQueueStep DEF Uses

\* A charge that raises ends the run.
LEMMA ChargeRaisesStep ==
  ASSUME LifecycleInv, NEW p \in Procs, NEW e \in execs[p], ChargeRaises(p, e)
  PROVE  LifecycleInv' /\ Uses
  <1>1. e.at = "charging" /\ EndRun(p, "execution", execs[p] \ {e})
    BY DEF ChargeRaises
  <1>2. \A f \in execs[p] \ (execs[p] \ {e}) : f.at \notin {"beating", "saving"}
    BY <1>1
  <1> QED
    BY <1>1, <1>2, ExecOfRun, EndRunStep

\* A report is a report with the execution's own token.
LEMMA ReportStep ==
  ASSUME LifecycleInv, NEW p \in Procs, NEW e \in execs[p], Report(p, e)
  PROVE  LifecycleInv' /\ Uses
  <1>1. ExecOK(e)
    BY ExecOfRun
  <1> DEFINE f == [e EXCEPT !.at = "saving"]
  <1>2. ExecOK(f) /\ f.at = "saving"
    BY <1>1, ExecChanged
  <1>3. Step(p, e, f) /\ UNCHANGED <<budgetVars, loop>>
    BY DEF Report
  <1>4. \/ Q!Succeed(p, e.task, e.token)
        \/ \E d \in Delays : Q!FailRetry(p, e.task, e.token, d)
        \/ Q!FailFinal(p, e.task, e.token)
    BY NoDelayAssumption DEF Report
  <1>5. QueueStep
    BY <1>1, <1>4 DEF QueueStep, Q!Next, Q!WorkerCall, ExecOK
  <1>6. (\E w : Q!Begin(p, {w})) /\ Q!Hand(p, e.task, e.token)
    BY <1>4 DEF Q!Succeed, Q!FailRetry, Q!FailFinal
  <1>7. UNCHANGED now
    BY <1>6 DEF Q!Begin
  <1> HIDE DEF f
  <1>8. LifecycleInv'
    <2>1. tickets' = [q \in Procs |-> tickets'[q]]
      BY <1>6 DEF LifecycleInv, Q!Hand
    <2> QED
      BY <1>2, <1>3, <1>6, <2>1, WritingStep
  <1> QED
    BY <1>3, <1>5, <1>7, <1>8, NoBudgetStep DEF Uses

\* An execution whose report is stale, or cut short, disappears.
LEMMA GoneStep ==
  ASSUME LifecycleInv, NEW p \in Procs, NEW e \in execs[p], ReportStale(p, e) \/ CutShort(p, e)
  PROVE  LifecycleInv' /\ Uses
  <1>1. /\ e.at \in {"charging", "finishing", "saving"} /\ Gone(p, e)
        /\ UNCHANGED <<now, tasks, issued, tickets, budgetVars, loop>>
        /\ pending' = IF e.at = "saving" THEN [pending EXCEPT ![p] = {}] ELSE pending
    BY DEF ReportStale, CutShort, queueVars
  <1>2. ExecOK(e)
    BY ExecOfRun
  <1>3. LifecycleInv'
    BY <1>1, <1>2, AloneStep
  <1>4. QueueStep
    BY <1>1, DropStep
  <1> QED
    BY <1>1, <1>3, <1>4, NoBudgetStep DEF Uses

\* Every step of an execution is a step of the queue or of the budgets.
LEMMA ExecutionStep ==
  ASSUME LifecycleInv, NEW p \in Procs, NEW e \in execs[p], Execution(p, e) \/ CutShort(p, e)
  PROVE  LifecycleInv' /\ Uses
  BY BeatStep, RenewStep, LoseStep, EndWorkStep, ChargeStep, ChargeRaisesStep, ReportStep,
     GoneStep DEF Execution

----------------------------------------------------------------------------
(* The store answers.                                                      *)

\* Whoever waits for the store has a single write there.
LEMMA SingleWrite ==
  ASSUME LifecycleInv, NEW p \in Procs, NEW w \in pending[p], loop[p].at # "recovering"
  PROVE  pending[p] \ {w} = {} /\ loop[p].at \notin Early
  <1>1. Waits(p) /\ \E v : pending[p] = {v}
    BY DEF LifecycleInv, Own, LockOK
  <1> QED
    BY <1>1 DEF LifecycleInv, Own, LoopOK, Waits, Early

\* The store's answer is a step of the queue.
LEMMA StoreStep ==
  ASSUME NEW p \in Procs, NEW w \in pending[p], Q!SaveApplied(p, w) \/ Q!SaveStale(p, w)
  PROVE  /\ QueueStep /\ UNCHANGED <<now, issued, tickets>>
         /\ pending' = [pending EXCEPT ![p] = pending[p] \ {w}]
  <1>1. UNCHANGED <<now, issued, tickets>> /\ pending' = [pending EXCEPT ![p] = pending[p] \ {w}]
    BY DEF Q!SaveApplied, Q!SaveStale, Q!Save
  <1>2. Q!Store(p)
    BY DEF Q!Store
  <1> QED
    BY <1>1, <1>2 DEF QueueStep, Q!Next

\* Recovery goes on until all its writes are answered.
LEMMA RecoveryStoresStep ==
  ASSUME LifecycleInv, NEW p \in Procs, NEW w \in pending[p], RecoveryStores(p, w)
  PROVE  LifecycleInv' /\ Uses
  <1> DEFINE stage == IF pending'[p] = {} THEN "idle" ELSE "recovering"
  <1>1. /\ loop[p].at = "recovering" /\ UNCHANGED <<budgetVars, execs>>
        /\ Q!SaveApplied(p, w) \/ Q!SaveStale(p, w)
        /\ Goto(p, stage)
    BY DEF RecoveryStores
  <1>2. /\ QueueStep /\ UNCHANGED <<now, issued, tickets>>
        /\ pending' = [pending EXCEPT ![p] = pending[p] \ {w}]
    BY <1>1, StoreStep
  <1>3. Own(p) /\ execs[p] = {}
    BY <1>1 DEF LifecycleInv, Own, LoopOK, Early
  <1>4. PICK l : loop' = [loop EXCEPT ![p] = l] /\ l = [loop[p] EXCEPT !.at = stage]
    BY <1>1 DEF Goto
  <1>5. LoopFields \subseteq DOMAIN l /\ l.at = stage /\ l.res = loop[p].res
    BY <1>3, <1>4 DEF Own, LoopOK, LoopFields
  <1>6. tickets' = [q \in Procs |-> tickets'[q]]
    BY <1>2 DEF LifecycleInv
  <1>7. OwnStep(p) /\ loop'[p] = l
    <2>1. DOMAIN loop' = Procs /\ loop'[p] = l /\ \A q \in Procs \ {p} : loop'[q] = loop[q]
      BY <1>4 DEF LifecycleInv
    <2>2. /\ pending' = [q \in Procs |-> pending'[q]]
          /\ \A q \in Procs \ {p} : pending'[q] = pending[q]
      BY <1>2 DEF LifecycleInv
    <2>3. issued' \in [Tasks -> Nat] /\ \A t \in Tasks : issued'[t] >= issued[t]
      BY <1>2 DEF LifecycleInv
    <2> QED
      BY <1>1, <1>6, <2>1, <2>2, <2>3 DEF OwnStep, LifecycleInv
  <1>8. LoopOK(p)' /\ LockOK(p)'
    BY <1>1, <1>3, <1>5, <1>7 DEF Own, LoopOK, LockOK, Admitting
  <1>9. Own(p)'
    BY <1>1, <1>3, <1>8 DEF Own
  <1> QED
    BY <1>1, <1>2, <1>7, <1>9, OwnStepKeeps, NoBudgetStep DEF Uses

\* The answer that an admission waits for.
LEMMA AnsweredStep ==
  ASSUME LifecycleInv, NEW p \in Procs, NEW w \in pending[p], Q!SaveApplied(p, w),
         loop[p].at = "saving", NextAdmission(p), UNCHANGED <<budgetVars, execs>>
  PROVE  LifecycleInv' /\ Uses
  <1>1. /\ QueueStep /\ UNCHANGED <<now, issued, tickets>>
        /\ pending' = [pending EXCEPT ![p] = pending[p] \ {w}]
    BY StoreStep
  <1>2. PICK l : /\ loop' = [loop EXCEPT ![p] = l]
                 /\ LoopFields \subseteq DOMAIN l /\ l.at = "idle" /\ l.res = None
    BY NextAdmissionShape
  <1>3. pending[p] \ {w} = {}
    BY SingleWrite
  <1>4. LoopOK(p)'
    BY <1>2 DEF LifecycleInv, LoopOK, Admitting, Early
  <1>5. LifecycleInv'
    <2>1. pending'[p] = {}
      BY <1>1, <1>3 DEF LifecycleInv
    <2>2. OwnStep(p)
      BY <1>1, <1>2 DEF OwnStep, LifecycleInv
    <2>3. Own(p)'
      BY <1>1, <1>4, <2>1, ExecsKept DEF Own, LockOK, LifecycleInv
    <2> QED
      BY <2>2, <2>3, OwnStepKeeps
  <1> QED
    BY <1>1, <1>5, NoBudgetStep DEF Uses

\* The answer that an execution waits for.
LEMMA ToldStep ==
  ASSUME LifecycleInv, NEW p \in Procs, NEW w \in pending[p],
         Q!SaveApplied(p, w) \/ Q!SaveStale(p, w), loop[p].at # "saving",
         NEW e \in execs[p], Stored(p, e) \/ Refused(p, e), UNCHANGED <<budgetVars, loop>>
  PROVE  LifecycleInv' /\ Uses
  <1>1. /\ QueueStep /\ UNCHANGED <<now, issued, tickets>>
        /\ pending' = [pending EXCEPT ![p] = pending[p] \ {w}]
    BY StoreStep
  <1>2. loop[p].at # "recovering" /\ ExecOK(e)
    BY ExecOfRun DEF Early
  <1>3. pending[p] \ {w} = {}
    BY <1>2, SingleWrite
  <1>4. \E f : ExecOK(f) /\ (Step(p, e, f) \/ Gone(p, e))
    <2>1. CASE Gone(p, e)
      BY <1>2, <2>1
    <2>2. CASE ~Gone(p, e)
      <3>1. \/ Step(p, e, [e EXCEPT !.at = "working", !.beat = now])
            \/ e.res # None /\ Step(p, e, [e EXCEPT !.at = "renewing"])
            \/ Step(p, e, [e EXCEPT !.at = "charging", !.ending = "STOPPED"])
        BY <2>2 DEF Stored, Refused
      <3>2. /\ ExecOK([e EXCEPT !.at = "working", !.beat = now])
            /\ e.res # None => ExecOK([e EXCEPT !.at = "renewing"])
            /\ ExecOK([e EXCEPT !.at = "charging", !.ending = "STOPPED"])
        BY <1>2, ExecChanged
      <3> QED
        BY <3>1, <3>2
    <2> QED
      BY <2>1, <2>2
  <1>5. LifecycleInv'
    BY <1>1, <1>3, <1>4, AloneStep
  <1> QED
    BY <1>1, <1>5, NoBudgetStep DEF Uses

\* An applied write lets its caller go on.
LEMMA SaveReturnsStep ==
  ASSUME LifecycleInv, NEW p \in Procs, NEW w \in pending[p], SaveReturns(p, w)
  PROVE  LifecycleInv' /\ Uses
  <1>1. /\ Q!SaveApplied(p, w) /\ UNCHANGED budgetVars
        /\ \/ loop[p].at = "saving" /\ NextAdmission(p) /\ UNCHANGED execs
           \/ loop[p].at # "saving" /\ (\E e \in execs[p] : Stored(p, e)) /\ UNCHANGED loop
    BY DEF SaveReturns
  <1> QED
    BY <1>1, AnsweredStep, ToldStep

\* A stale write ends the admission's run, or its execution.
LEMMA SaveRaisesStep ==
  ASSUME LifecycleInv, NEW p \in Procs, NEW w \in pending[p], SaveRaises(p, w)
  PROVE  LifecycleInv' /\ Uses
  <1>1. \/ /\ Q!SaveStale(p, w) /\ loop[p].at # "saving" /\ UNCHANGED <<budgetVars, loop>>
           /\ \E e \in execs[p] : Refused(p, e)
        \/ loop[p].at = "saving" /\ \E cause : EndRun(p, cause, execs[p])
    BY DEF SaveRaises
  <1> QED
    BY <1>1, ToldStep, EndRunStep DEF Early

----------------------------------------------------------------------------
(* The whole lifecycle.                                                    *)

\* Operators and routers enqueue and settle by calls of the queue.
LEMMA OperatorStep ==
  ASSUME LifecycleInv, NEW p \in Procs, Operator(p)
  PROVE  LifecycleInv' /\ Uses
  <1>1. ASSUME NEW t \in Tasks, NEW k \in Keys, NEW r \in Runs, Submit(p, t, k, r)
        PROVE  LifecycleInv' /\ Uses
    <2>1. Q!Enqueue(t, k, r) /\ UNCHANGED <<budgetVars, loop, execs>>
      BY <1>1 DEF Submit
    <2>2. UNCHANGED <<now, issued, pending, tickets>>
      BY <2>1 DEF Q!Enqueue
    <2>3. QueueStep
      BY <2>1 DEF QueueStep, Q!Next, Q!ControlCall
    <2>4. LifecycleInv'
      BY <2>1, <2>2 DEF LifecycleInv, Own, LoopOK, LockOK, Waits, ExecOK
    <2> QED
      BY <2>1, <2>2, <2>3, <2>4, NoBudgetStep DEF Uses
  <1>2. ASSUME NEW t \in Tasks, Resolve(p, t)
        PROVE  LifecycleInv' /\ Uses
    BY <1>2, ControlStep DEF Resolve
  <1> QED
    BY <1>1, <1>2 DEF Operator

\* The queue and the budgets have one clock.
LEMMA TickStep ==
  ASSUME LifecycleInv, Tick
  PROVE  LifecycleInv' /\ Uses
  <1>1. Q!Tick /\ UNCHANGED <<budgetVars, loop, execs>>
    BY DEF Tick
  <1>2. B!Tick /\ UNCHANGED <<issued, pending, tickets>>
    BY <1>1 DEF Q!Tick, B!Tick, budgetVars, B!budgetVars
  <1>3. QueueStep /\ BudgetStep
    BY <1>1, <1>2 DEF QueueStep, Q!Next, BudgetStep, B!Next
  <1> QED
    BY <1>1, <1>2, <1>3 DEF Uses, LifecycleInv, Own, LoopOK, LockOK, Waits, ExecOK

\* Every step of an admission is a step of the queue or of the budgets.
LEMMA AdmissionStep ==
  ASSUME LifecycleInv, NEW p \in Procs, Admission(p)
  PROVE  LifecycleInv' /\ Uses
  BY SelectBatchStep, AdmitStep, GatesAllowStep, RefusalStep, ReserveStep, ClaimStep,
     ClaimFailsStep, UnclaimStep, InterruptStep, StartBatchStep DEF Admission

\* So is every step there is.
LEMMA NextStep ==
  ASSUME LifecycleInv, Next
  PROVE  LifecycleInv' /\ Uses
  <1>1. ASSUME NEW p \in Procs, Process(p) PROVE LifecycleInv' /\ Uses
    BY <1>1, OpenStep, ReapStep, RecoverStep, AdmissionStep, ExecutionStep, RecoveryStoresStep,
       SaveReturnsStep, SaveRaisesStep, InterruptStep, StopStep, CrashStep DEF Process
  <1> QED
    BY <1>1, OperatorStep, TickStep DEF Next

\* At the start nothing has been opened.
LEMMA InitLifecycleInv == Init => LifecycleInv
  <1> SUFFICES ASSUME Init PROVE LifecycleInv
    OBVIOUS
  <1>1. /\ loop = [p \in Procs |-> [Idle EXCEPT !.at = "off"]] /\ execs = [p \in Procs |-> {}]
        /\ issued = [t \in Tasks |-> 0] /\ pending = [p \in Procs |-> {}]
        /\ tickets = [p \in Procs |-> {}]
    BY DEF Init, Q!Init
  <1>2. ASSUME NEW p \in Procs PROVE Own(p)
    BY <1>1 DEF Own, LoopOK, LockOK, LoopFields, Idle, Admitting
  <1> QED
    BY <1>1, <1>2 DEF LifecycleInv

\* Whatever admissions, executions, heartbeats, interrupts, crashes and operators do
\* (lifecycle.py), the queue and the budgets see only calls that they allow.
LEMMA UsesParts == Spec => Q!Spec /\ B!Spec
  <1>1. Init => Q!Init /\ B!Init
    BY DEF Init
  <1>2. LifecycleInv /\ [Next]_vars => LifecycleInv' /\ Uses
    <2>1. CASE UNCHANGED vars
      BY <2>1, NoQueueStep, NoBudgetStep
         DEF vars, queueVars, budgetVars, Uses, LifecycleInv, Own, LoopOK, LockOK, Waits, ExecOK
    <2> QED
      BY <2>1, NextStep
  <1>3. Uses => [Q!Next]_Q!vars /\ [B!Next]_<<now, B!budgetVars>>
    BY DEF Uses, QueueStep, BudgetStep, budgetVars, B!budgetVars
  <1> QED
    BY <1>1, <1>2, <1>3, InitLifecycleInv, PTL DEF Spec, Q!Spec, B!Spec

----------------------------------------------------------------------------
(* What a dispatcher holds, a claim or a reservation, it never mislays:    *)
(* ClaimsHaveExecutions, SucceededIsCharged and ReservationNotLeaked.      *)
(*                                                                         *)
(* The argument follows a claim from process to store: an execution is the *)
(* only one with its token, the write under way that would make a task     *)
(* SUCCEEDED is the report of an execution that is still there, and what   *)
(* that execution had reserved was settled before it reported.             *)

RowFields == {"status", "attempts", "available", "lease", "token"}

\* A write leaves a task RUNNING only if it was, for the worker it was running for.
WriteOK(w) ==
  /\ w.task \in Tasks
  /\ RowFields \subseteq DOMAIN w.new
  /\ w.new.status = "RUNNING" => w.status = "RUNNING" /\ w.new.token = w.token

\* Rows have their fields, and tickets were given out.
RowsInv ==
  /\ tasks = [t \in Tasks |-> tasks[t]]
  /\ \A t \in Tasks : RowFields \subseteq DOMAIN tasks[t]
  /\ \A p \in Procs : \A w \in pending[p] : WriteOK(w)
  /\ \A p \in Procs : \A ticket \in tickets[p] :
       \E t \in Tasks : \E k \in 1..issued[t] : ticket = <<t, k>>

BookInv ==
  /\ book = [r \in Reservations |-> book[r]]
  /\ \A r \in Reservations : {"state", "expires"} \subseteq DOMAIN book[r]

\* A reservation that an execution or an admission holds has been made.
Made(r) == r # None => book[r].state # "FREE"

\* It is settled before its execution reports, and charged before a success is reported.
Settled(e) ==
  e.at \in {"finishing", "saving"} /\ e.res # None =>
    /\ book[e.res].state # "ACTIVE"
    /\ e.ending = "SUCCEEDED" => book[e.res].state = "COMMITTED"

SameClaim(e, f) == e.task = f.task /\ e.token = f.token

\* The report of a success belongs to an execution that waits for it.
Reported(p, w) ==
  w.new.status = "SUCCEEDED" =>
    \E e \in execs[p] : /\ e.at = "saving" /\ e.ending = "SUCCEEDED"
                        /\ e.task = w.task /\ e.token = w.token

Opening(p) == loop[p].at \in {"off", "reap", "recover", "recovering"}

ClaimsKept(p) ==
  Running(p) =>
    \A ticket \in tickets[p] : Q!HeldBy(ticket[1], ticket[2]) =>
      \E e \in execs[p] : <<e.task, e.token>> = ticket

Holds(p) ==
  /\ loop[p].at \notin {"claim", "unclaim"} => loop[p].res = None
  /\ Made(loop[p].res)
  /\ Opening(p) => tickets[p] = {}
  /\ ClaimsKept(p)
  /\ \A w \in pending[p] : Reported(p, w)
  /\ \A e \in execs[p] : Made(e.res) /\ Settled(e)
                         /\ (e.at = "saving" => <<e.task, e.token>> \notin tickets[p])

Unique ==
  \A p, q \in Procs : \A e \in execs[p], f \in execs[q] : SameClaim(e, f) => p = q /\ e = f

ClaimInv == RowsInv /\ BookInv /\ Unique /\ \A p \in Procs : Holds(p)

----------------------------------------------------------------------------
(* What any step of the queue does to rows, claims and tickets.            *)

\* A claim that has been lost never comes back: tokens are given out once.
ClaimsOnlyLost ==
  \A t \in Tasks : \A k \in 1..issued[t] : Q!HeldBy(t, k)' => Q!HeldBy(t, k)

\* A running task only becomes SUCCEEDED by a write made for its claim.
SuccessIsWritten ==
  \A t \in Tasks : tasks[t].status = "RUNNING" /\ tasks'[t].status = "SUCCEEDED" =>
    \E p \in Procs : \E w \in pending[p] :
      w.task = t /\ w.token = tasks[t].token /\ w.new.status = "SUCCEEDED"

RowsStep == RowsInv' /\ ClaimsOnlyLost /\ SuccessIsWritten

\* The writes that transitions prepare keep the token of a task they leave RUNNING.
LEMMA WritesOK ==
  ASSUME RowsInv, NEW t \in Tasks, NEW op, NEW by, NEW lease, NEW status, NEW time
  PROVE  /\ status # "RUNNING" => /\ WriteOK(Q!Write(op, t, by, lease, Q!Leave(t, status)))
                                 /\ WriteOK(Q!Write(op, t, by, lease, Q!LeaveUntil(t, status, time)))
                                 /\ WriteOK(Q!Write(op, t, by, lease,
                                      [tasks[t] EXCEPT !.status = status, !.available = time]))
                                 /\ WriteOK(Q!Write(op, t, by, lease,
                                      [tasks[t] EXCEPT !.available = time, !.status = status]))
         /\ WriteOK(Q!Write(op, t, by, lease, [tasks[t] EXCEPT !.lease = time]))
  <1>1. RowFields \subseteq DOMAIN tasks[t]
    BY DEF RowsInv
  <1> QED
    BY <1>1 DEF WriteOK, RowFields, Q!Write, Q!Leave, Q!LeaveUntil

\* A step that leaves the rows alone and adds only such writes.
LEMMA RowsAlone ==
  ASSUME LifecycleInv, RowsInv, UNCHANGED <<tasks, issued>>,
         \A q \in Procs : tickets'[q] \subseteq tickets[q],
         \A q \in Procs : \A w \in pending'[q] : w \in pending[q] \/ WriteOK(w)
  PROVE  RowsStep
  <1>1. RowsInv'
    BY DEF RowsInv, WriteOK
  <1>2. ClaimsOnlyLost
    BY DEF ClaimsOnlyLost, Q!HeldBy
  <1>3. SuccessIsWritten
    BY DEF SuccessIsWritten
  <1> QED
    BY <1>1, <1>2, <1>3 DEF RowsStep

\* A transition that begins is such a step.
LEMMA RowsBegin ==
  ASSUME LifecycleInv, RowsInv, NEW p \in Procs, NEW ws, Q!Begin(p, ws),
         \A w \in ws : WriteOK(w), \A q \in Procs : tickets'[q] \subseteq tickets[q]
  PROVE  RowsStep
  <1>1. UNCHANGED <<tasks, issued>> /\ pending' = [pending EXCEPT ![p] = ws]
    BY DEF Q!Begin
  <1>2. \A q \in Procs : \A w \in pending'[q] : w \in pending[q] \/ WriteOK(w)
    BY <1>1 DEF LifecycleInv
  <1> QED
    BY <1>1, <1>2, RowsAlone

\* The calls of workers begin transitions.
LEMMA RowsWorkerCall ==
  ASSUME LifecycleInv, RowsInv, NEW p \in Procs, Q!WorkerCall(p)
  PROVE  RowsStep
  <1>0. PICK t \in Tasks : \E k \in 1..issued[t] :
          \/ Q!Heartbeat(p, t, k)
          \/ Q!Succeed(p, t, k)
          \/ \E d \in Delays : Q!FailRetry(p, t, k, d)
          \/ Q!FailFinal(p, t, k)
    BY DEF Q!WorkerCall
  <1>1. PICK k \in 1..issued[t] :
          \/ Q!Heartbeat(p, t, k)
          \/ Q!Succeed(p, t, k)
          \/ \E d \in Delays : Q!FailRetry(p, t, k, d)
          \/ Q!FailFinal(p, t, k)
    BY <1>0
  <1>2. PICK w : Q!Begin(p, {w}) /\ WriteOK(w)
    <2>1. CASE Q!Heartbeat(p, t, k)
      BY <2>1, WritesOK DEF Q!Heartbeat
    <2>2. CASE Q!Succeed(p, t, k)
      BY <2>2, WritesOK DEF Q!Succeed
    <2>3. CASE \E d \in Delays : Q!FailRetry(p, t, k, d)
      BY <2>3, WritesOK DEF Q!FailRetry
    <2>4. CASE Q!FailFinal(p, t, k)
      BY <2>4, WritesOK DEF Q!FailFinal
    <2> QED
      BY <1>1, <2>1, <2>2, <2>3, <2>4
  <1>3. \A q \in Procs : tickets'[q] \subseteq tickets[q]
    <2>1. UNCHANGED tickets \/ Q!Hand(p, t, k)
      BY <1>1 DEF Q!Heartbeat, Q!Succeed, Q!FailRetry, Q!FailFinal
    <2> QED
      BY <2>1 DEF Q!Hand, LifecycleInv
  <1> QED
    BY <1>2, <1>3, RowsBegin

\* So do those of the lifecycle and the operator, but for an enqueue and a claim.
LEMMA RowsControlCall ==
  ASSUME LifecycleInv, RowsInv, NEW p \in Procs, Q!ControlCall(p)
  PROVE  RowsStep
  <1>1. ASSUME NEW t \in Tasks, NEW k \in Keys, NEW r \in Runs, Q!Enqueue(t, k, r)
        PROVE  RowsStep
    <2>1. /\ tasks' = [tasks EXCEPT ![t] = Q!NewTask(k, r)] /\ tasks[t].status = "ABSENT"
          /\ UNCHANGED <<issued, pending, tickets>>
      BY <1>1 DEF Q!Enqueue, Q!Exists
    <2>2. RowsInv'
      BY <2>1 DEF RowsInv, RowFields, WriteOK, Q!NewTask
    <2>3. ClaimsOnlyLost /\ SuccessIsWritten
      BY <2>1 DEF RowsInv, ClaimsOnlyLost, SuccessIsWritten, Q!HeldBy, Q!NewTask
    <2> QED
      BY <2>2, <2>3 DEF RowsStep
  <1>2. ASSUME NEW t \in Tasks, NEW n \in Q!Readings, Q!Claim(p, t, n)
        PROVE  RowsStep
    <2>1. /\ tasks[t].status \in Q!Waiting /\ UNCHANGED pending
          /\ issued' = [issued EXCEPT ![t] = @ + 1]
          /\ tickets' = [tickets EXCEPT ![p] = @ \cup {<<t, issued'[t]>>}]
      BY <1>2 DEF Q!Claim, Q!Claimable
    <2>2. /\ \A u \in Tasks \ {t} : tasks'[u] = tasks[u]
          /\ tasks' = [u \in Tasks |-> tasks'[u]]
          /\ RowFields \subseteq DOMAIN tasks'[t]
          /\ tasks'[t].status = "RUNNING" /\ tasks'[t].token = issued'[t]
      BY <1>2 DEF Q!Claim, RowsInv, RowFields
    <2>3. /\ issued \in [Tasks -> Nat] /\ issued'[t] = issued[t] + 1
          /\ \A u \in Tasks : issued[u] \in Nat /\ issued'[u] \in Nat /\ issued'[u] >= issued[u]
      BY <2>1 DEF LifecycleInv
    <2>4. RowsInv'
      <3>1. \A q \in Procs : \A ticket \in tickets'[q] :
              ticket \in tickets[q] \/ ticket = <<t, issued'[t]>>
        BY <2>1 DEF LifecycleInv
      <3>2. \A q \in Procs : \A ticket \in tickets'[q] :
              \E u \in Tasks : \E k \in 1..issued'[u] : ticket = <<u, k>>
        BY <2>3, <3>1 DEF RowsInv
      <3> QED
        BY <2>1, <2>2, <3>2 DEF RowsInv, WriteOK
    <2>5. ClaimsOnlyLost
      BY <2>2, <2>3 DEF ClaimsOnlyLost, Q!HeldBy
    <2>6. SuccessIsWritten
      BY <2>2 DEF SuccessIsWritten
    <2> QED
      BY <2>4, <2>5, <2>6 DEF RowsStep
  <1>3. ASSUME NEW t \in Tasks,
               \/ \E d \in Delays : Q!Defer(p, t, d) \/ Q!ReleaseReview(p, t, d)
               \/ \E s \in {"BLOCKED", "CANCELLED"} : Q!Close(p, t, s)
               \/ Q!SendToReview(p, t)
        PROVE  RowsStep
    <2>1. PICK w : Q!Begin(p, {w}) /\ WriteOK(w)
      <3>1. ASSUME NEW d \in Delays, Q!Defer(p, t, d) PROVE \E w : Q!Begin(p, {w}) /\ WriteOK(w)
        BY <3>1, WritesOK DEF Q!Defer
      <3>2. ASSUME NEW d \in Delays, Q!ReleaseReview(p, t, d)
            PROVE  \E w : Q!Begin(p, {w}) /\ WriteOK(w)
        BY <3>2, WritesOK DEF Q!ReleaseReview
      <3>3. ASSUME NEW s \in {"BLOCKED", "CANCELLED"}, Q!Close(p, t, s)
            PROVE  \E w : Q!Begin(p, {w}) /\ WriteOK(w)
        BY <3>3, WritesOK DEF Q!Close
      <3>4. CASE Q!SendToReview(p, t)
        BY <3>4, WritesOK DEF Q!SendToReview
      <3> QED
        BY <1>3, <3>1, <3>2, <3>3, <3>4
    <2>2. UNCHANGED tickets
      BY <1>3 DEF Q!Defer, Q!ReleaseReview, Q!Close, Q!SendToReview
    <2> QED
      BY <2>1, <2>2, RowsBegin
  <1>4. ASSUME NEW n \in Q!Readings, NEW d \in Delays, Q!Recover(p, n, d)
        PROVE  RowsStep
    <2> DEFINE write(t) == Q!Write("recover", t, Q!NoToken, tasks[t].lease, Q!Recovered(t, n + d))
    <2>1. Q!Begin(p, {write(t) : t \in {u \in Tasks : Q!Expired(u, n)}}) /\ UNCHANGED tickets
      BY <1>4 DEF Q!Recover
    <2>2. ASSUME NEW t \in Tasks PROVE WriteOK(write(t))
      BY WritesOK DEF Q!Recovered
    <2> HIDE DEF write
    <2> QED
      BY <2>1, <2>2, RowsBegin
  <1> QED
    BY <1>1, <1>2, <1>3, <1>4 DEF Q!ControlCall

\* A write applies to the row it was made from.
LEMMA RowsApplied ==
  ASSUME LifecycleInv, RowsInv, NEW p \in Procs, NEW w \in pending[p], Q!SaveApplied(p, w)
  PROVE  RowsStep
  <1>1. /\ WriteOK(w) /\ tasks[w.task].status = w.status /\ tasks[w.task].token = w.token
        /\ tasks' = [tasks EXCEPT ![w.task] = w.new]
        /\ pending' = [pending EXCEPT ![p] = @ \ {w}] /\ UNCHANGED <<issued, tickets>>
    BY DEF Q!SaveApplied, Q!Applies, Q!Save, RowsInv
  <1>2. /\ w.task \in Tasks /\ tasks' = [t \in Tasks |-> tasks'[t]]
        /\ \A t \in Tasks : tasks'[t] = IF t = w.task THEN w.new ELSE tasks[t]
    BY <1>1 DEF RowsInv, WriteOK
  <1>3. RowsInv'
    <2>1. \A q \in Procs : pending'[q] \subseteq pending[q]
      BY <1>1 DEF LifecycleInv
    <2> QED
      BY <1>1, <1>2, <2>1 DEF RowsInv, WriteOK
  <1>4. ClaimsOnlyLost
    BY <1>1, <1>2 DEF ClaimsOnlyLost, WriteOK, Q!HeldBy
  <1>5. SuccessIsWritten
    BY <1>1, <1>2 DEF SuccessIsWritten
  <1> QED
    BY <1>3, <1>4, <1>5 DEF RowsStep

\* Whatever the queue does, lost claims stay lost and successes are written for claims.
LEMMA RowsKept ==
  ASSUME LifecycleInv, RowsInv, QueueStep
  PROVE  RowsStep
  <1>1. ASSUME NEW p \in Procs, Q!Store(p) PROVE RowsStep
    <2>1. PICK w \in pending[p] : Q!SaveApplied(p, w) \/ Q!SaveStale(p, w)
      BY <1>1 DEF Q!Store
    <2>2. CASE Q!SaveStale(p, w)
      <3>1. UNCHANGED <<tasks, issued, tickets>> /\ pending' = [pending EXCEPT ![p] = @ \ {w}]
        BY <2>2 DEF Q!SaveStale, Q!Save
      <3> QED
        BY <3>1, RowsAlone DEF LifecycleInv
    <2> QED
      BY <2>1, <2>2, RowsApplied
  <1>2. ASSUME NEW p \in Procs, Q!Crash(p) \/ Q!Abandon(p) PROVE RowsStep
    <2>1. /\ UNCHANGED <<tasks, issued>> /\ pending' = [pending EXCEPT ![p] = {}]
          /\ tickets' = tickets \/ tickets' = [tickets EXCEPT ![p] = {}]
      BY <1>2 DEF Q!Crash, Q!Abandon
    <2>2. \A q \in Procs : tickets'[q] \subseteq tickets[q] /\ pending'[q] \subseteq pending[q]
      BY <2>1 DEF LifecycleInv
    <2> QED
      BY <2>1, <2>2, RowsAlone
  <1>3. CASE Q!Tick \/ UNCHANGED Q!vars
    <2>1. UNCHANGED <<tasks, issued, pending, tickets>>
      BY <1>3 DEF Q!Tick, Q!vars
    <2> QED
      BY <2>1, RowsAlone
  <1> QED
    BY <1>1, <1>2, <1>3, RowsWorkerCall, RowsControlCall DEF QueueStep, Q!Next

----------------------------------------------------------------------------
(* What any step of the budgets does to reservations.                      *)

\* A settled reservation stays as it was settled, and none is unmade.
BookStep ==
  /\ BookInv'
  /\ \A r \in Reservations :
       /\ book[r].state # "FREE" => book'[r].state # "FREE"
       /\ book[r].state \notin {"FREE", "ACTIVE"} => book'[r].state = book[r].state

\* Settling touches the reservations it is given.
LEMMA SettleBook ==
  ASSUME BookInv, NEW rs, NEW state \in {"COMMITTED", "RELEASED", "EXPIRED"},
         B!Settle(rs, state), \A r \in Reservations : r \in rs => B!IsActive(r)
  PROVE  BookStep /\ \A r \in Reservations : r \in rs => book'[r].state = state
  BY DEF BookInv, BookStep, B!Settle, B!IsActive

\* Only what is free is reserved, and only what is ACTIVE is renewed or settled.
LEMMA BookKept ==
  ASSUME BookInv, BudgetStep
  PROVE  BookStep
  <1>1. CASE UNCHANGED book
    BY <1>1 DEF BookInv, BookStep
  <1>2. ASSUME NEW r \in Reservations, NEW d \in Demands, NEW lane \in B!Lanes,
               NEW n \in B!Readings, B!Reserve(r, d, lane, n)
        PROVE  BookStep
    <2>1. /\ book[r].state = "FREE"
          /\ book' = [book EXCEPT ![r] = [state |-> "ACTIVE", expires |-> n + LeaseFor,
                                          lane |-> lane, items |-> d]]
      BY <1>2 DEF B!Reserve, B!Free
    <2> QED
      BY <2>1 DEF BookInv, BookStep
  <1>3. ASSUME NEW r \in Reservations, B!Commit(r) \/ B!Release(r)
        PROVE  BookStep
    BY <1>3, SettleBook DEF B!Commit, B!Release
  <1>4. ASSUME NEW r \in Reservations, NEW n \in B!Readings, B!Renew(r, n)
        PROVE  BookStep
    BY <1>4 DEF B!Renew, BookInv, BookStep
  <1>5. ASSUME NEW n \in B!Readings, B!ReapExpired(n)
        PROVE  BookStep
    BY <1>5, SettleBook DEF B!ReapExpired, B!Overdue
  <1>6. CASE B!Tick \/ UNCHANGED budgetVars
    <2>1. UNCHANGED book
      BY <1>6 DEF B!Tick, B!budgetVars, budgetVars
    <2> QED
      BY <1>1, <2>1
  <1> QED
    BY <1>2, <1>3, <1>4, <1>5, <1>6 DEF BudgetStep, B!Next, B!Call

----------------------------------------------------------------------------
(* What a step of one process leaves to the others.                        *)

Only(p) ==
  \A q \in Procs \ {p} : /\ loop'[q] = loop[q] /\ execs'[q] = execs[q]
                         /\ pending'[q] = pending[q] /\ tickets'[q] = tickets[q]

\* What p lets go of is settled, unless p ends.
Releases(p) ==
  \A r \in Reservations : Owns(p, r) /\ ~Owns(p, r)' =>
    book'[r].state # "ACTIVE" \/ loop'[p].at \in {"off", "ending"}

ClaimsStep == ClaimInv' /\ \A p \in Procs : Releases(p)

\* What was true of claims and reservations before a step is true after it.
LEMMA Carried ==
  ASSUME LifecycleInv, ClaimInv, Uses
  PROVE  /\ RowsStep /\ BookStep
         /\ \A r \in Reservations \cup {None} : Made(r) => Made(r)'
         /\ \A e : ExecOK(e) /\ Made(e.res) /\ Settled(e) => Settled(e)'
  <1>1. RowsStep /\ BookStep
    BY RowsKept, BookKept DEF ClaimInv, Uses
  <1>2. \A r \in Reservations \cup {None} : Made(r) => Made(r)'
    BY <1>1 DEF BookStep, Made
  <1>3. \A e : ExecOK(e) /\ Made(e.res) /\ Settled(e) => Settled(e)'
    BY <1>1 DEF BookStep, Made, Settled, ExecOK
  <1> QED
    BY <1>1, <1>2, <1>3

\* A process that does not step keeps what it holds.
LEMMA OthersHold ==
  ASSUME LifecycleInv, ClaimInv, Uses, NEW p \in Procs, Only(p), NEW q \in Procs, q # p
  PROVE  Holds(q)' /\ Releases(q)
  <1>1. /\ loop'[q] = loop[q] /\ execs'[q] = execs[q]
        /\ pending'[q] = pending[q] /\ tickets'[q] = tickets[q]
    BY DEF Only
  <1>2. /\ loop[q].res \in Reservations \cup {None}
        /\ \A e \in execs[q] : ExecOK(e) /\ e.res \in Reservations \cup {None}
    BY DEF LifecycleInv, Own, LoopOK, ExecOK
  <1>3. Holds(q)
    BY DEF ClaimInv
  <1>4. Made(loop[q].res)' /\ \A e \in execs'[q] : Made(e.res)' /\ Settled(e)'
    <2>1. Made(loop[q].res)'
      BY <1>1, <1>2, <1>3, Carried DEF Holds, Made
    <2>2. ASSUME NEW e \in execs'[q] PROVE Made(e.res)' /\ Settled(e)'
      BY <1>1, <1>2, <1>3, Carried DEF Holds
    <2> QED
      BY <2>1, <2>2
  <1>5. ClaimsKept(q)'
    <2>1. ASSUME Running(q)', NEW ticket \in tickets'[q], Q!HeldBy(ticket[1], ticket[2])'
          PROVE  \E e \in execs'[q] : <<e.task, e.token>> = ticket
      <3>1. PICK t \in Tasks : \E k \in 1..issued[t] : ticket = <<t, k>>
        BY <1>1, <2>1 DEF ClaimInv, RowsInv
      <3>2. PICK k \in 1..issued[t] : ticket = <<t, k>>
        BY <3>1
      <3>3. Q!HeldBy(t, k)
        BY <2>1, <3>2, Carried DEF RowsStep, ClaimsOnlyLost
      <3> QED
        BY <1>1, <1>3, <2>1, <3>2, <3>3 DEF Holds, ClaimsKept, Running
    <2> QED
      BY <2>1 DEF ClaimsKept
  <1>6. \A w \in pending'[q] : Reported(q, w)'
    BY <1>1, <1>3 DEF Holds, Reported
  <1>7. Holds(q)'
    BY <1>1, <1>3, <1>4, <1>5, <1>6 DEF Holds, Opening
  <1> QED
    BY <1>1, <1>7 DEF Releases, Owns

\* A step of p that gives no new claim.
LEMMA MoveStep ==
  ASSUME LifecycleInv, ClaimInv, Uses, NEW p \in Procs, Only(p),
         \A f \in execs'[p] : \E e \in execs[p] : SameClaim(e, f),
         \A f, g \in execs'[p] : SameClaim(f, g) => f = g,
         Holds(p)', Releases(p)
  PROVE  ClaimsStep
  <1>1. RowsInv' /\ BookInv'
    BY Carried DEF RowsStep, BookStep
  <1>2. \A q \in Procs : Holds(q)' /\ Releases(q)
    BY OthersHold
  <1>3. Unique'
    <2>1. \A q \in Procs : \A f \in execs'[q] : \E e \in execs[q] : SameClaim(e, f)
      BY DEF Only, SameClaim
    <2>2. \A q \in Procs : \A f, g \in execs'[q] : SameClaim(f, g) => f = g
      BY DEF Only, ClaimInv, Unique
    <2>3. ASSUME NEW q \in Procs, NEW s \in Procs, NEW f \in execs'[q], NEW g \in execs'[s],
                 SameClaim(f, g)
          PROVE  q = s /\ f = g
      <3>1. PICK e \in execs[q] : SameClaim(e, f)
        BY <2>1
      <3>2. PICK d \in execs[s] : SameClaim(d, g)
        BY <2>1
      <3>3. SameClaim(e, d)
        BY <2>3, <3>1, <3>2 DEF SameClaim
      <3>4. q = s
        BY <3>3 DEF ClaimInv, Unique
      <3> QED
        BY <2>2, <2>3, <3>4
    <2> QED
      BY <2>3 DEF Unique, SameClaim
  <1> QED
    BY <1>1, <1>2, <1>3 DEF ClaimsStep, ClaimInv

----------------------------------------------------------------------------
(* The kinds of step: of a dispatcher, of an execution, of a run that ends. *)

\* A dispatcher goes on; its executions stay as they are, and no report is prepared.
LEMMA LoopMove ==
  ASSUME LifecycleInv, ClaimInv, Uses, NEW p \in Procs, Only(p), execs'[p] = execs[p],
         tickets'[p] \subseteq tickets[p],
         \A w \in pending'[p] : w \in pending[p] \/ w.new.status # "SUCCEEDED",
         loop'[p].at \notin {"claim", "unclaim"} => loop'[p].res = None,
         Made(loop[p].res)',
         \/ loop'[p].res = loop[p].res
         \/ loop[p].res = None
         \/ loop[p].res \in Reservations /\ book'[loop[p].res].state # "ACTIVE",
         Opening(p)' \/ Running(p)' => Running(p) \/ tickets'[p] = {},
         Opening(p)' => tickets'[p] = {}
  PROVE  ClaimsStep
  <1>1. Holds(p) /\ \A e \in execs[p] : ExecOK(e)
    BY DEF ClaimInv, LifecycleInv, Own
  <1>2. \A e \in execs'[p] : Made(e.res)' /\ Settled(e)'
    BY <1>1, Carried DEF Holds, ExecOK
  <1>3. ClaimsKept(p)'
    <2>1. ASSUME Running(p)', NEW ticket \in tickets'[p], Q!HeldBy(ticket[1], ticket[2])'
          PROVE  \E e \in execs'[p] : <<e.task, e.token>> = ticket
      <3>1. Running(p)
        BY <2>1
      <3>2. PICK t \in Tasks : \E k \in 1..issued[t] : ticket = <<t, k>>
        BY <2>1 DEF ClaimInv, RowsInv
      <3>3. PICK k \in 1..issued[t] : ticket = <<t, k>>
        BY <3>2
      <3>4. Q!HeldBy(t, k)
        BY <2>1, <3>3, Carried DEF RowsStep, ClaimsOnlyLost
      <3> QED
        BY <1>1, <2>1, <3>1, <3>3, <3>4 DEF Holds, ClaimsKept
    <2> QED
      BY <2>1 DEF ClaimsKept
  <1>4. \A w \in pending'[p] : Reported(p, w)'
    BY <1>1 DEF Holds, Reported
  <1>5. Holds(p)'
    BY <1>1, <1>2, <1>3, <1>4 DEF Holds, Opening, Made
  <1>6. Releases(p)
    <2>1. ASSUME NEW r \in Reservations, Owns(p, r), ~Owns(p, r)'
          PROVE  book'[r].state # "ACTIVE"
      <3>1. loop[p].res = r /\ loop'[p].res # r
        BY <2>1 DEF Owns
      <3> QED
        BY <3>1, NoReservationAssumption
    <2> QED
      BY <2>1 DEF Releases
  <1>7. \A f, g \in execs'[p] : SameClaim(f, g) => f = g
    BY DEF ClaimInv, Unique
  <1> QED
    BY <1>5, <1>6, <1>7, MoveStep DEF SameClaim

\* Executions go on while the dispatcher stays where it is, or ends its run.
LEMMA ExecsMove ==
  ASSUME LifecycleInv, ClaimInv, Uses, NEW p \in Procs, Only(p),
         NEW l, loop'[p] = l,
         \/ l = loop[p]
         \/ l.at \in {"ending", "off"} /\ l.res = None /\ (l.at = "off" => tickets'[p] = {}),
         tickets'[p] \subseteq tickets[p],
         \A f \in execs'[p] : \E e \in execs[p] : SameClaim(e, f) /\ e.res = f.res,
         \A f, g \in execs'[p] : SameClaim(f, g) => f = g,
         \A f \in execs'[p] :
           Settled(f)' /\ (f.at = "saving" => <<f.task, f.token>> \notin tickets'[p]),
         \A e \in execs[p] :
           \/ \E f \in execs'[p] : SameClaim(e, f) /\ e.res = f.res
           \/ l.at \in {"ending", "off"}
           \/ /\ e.at \in {"finishing", "saving"} /\ UNCHANGED book
              /\ <<e.task, e.token>> \notin tickets[p] \/ ~Q!HeldBy(e.task, e.token),
         \A w \in pending'[p] : Reported(p, w)'
  PROVE  ClaimsStep
  <1>1. /\ Holds(p) /\ \A e \in execs[p] : ExecOK(e)
        /\ loop[p].res \in Reservations \cup {None}
    BY DEF ClaimInv, LifecycleInv, Own, LoopOK
  <1>2. \A f \in execs'[p] : Made(f.res)'
    BY <1>1, Carried DEF Holds, ExecOK, Made
  <1>3. Made(l.res)'
    BY <1>1, Carried DEF Holds, Made
  <1>4. ClaimsKept(p)'
    <2>1. ASSUME Running(p)', NEW ticket \in tickets'[p], Q!HeldBy(ticket[1], ticket[2])'
          PROVE  \E f \in execs'[p] : <<f.task, f.token>> = ticket
      <3>1. l = loop[p] /\ Running(p) /\ l.at \notin {"ending", "off"}
        BY <2>1 DEF Running
      <3>2. PICK t \in Tasks : \E k \in 1..issued[t] : ticket = <<t, k>>
        BY <2>1 DEF ClaimInv, RowsInv
      <3>3. PICK k \in 1..issued[t] : ticket = <<t, k>>
        BY <3>2
      <3>4. Q!HeldBy(t, k)
        BY <2>1, <3>3, Carried DEF RowsStep, ClaimsOnlyLost
      <3>5. PICK e \in execs[p] : <<e.task, e.token>> = ticket
        BY <1>1, <2>1, <3>1, <3>3, <3>4 DEF Holds, ClaimsKept
      <3>6. \E f \in execs'[p] : SameClaim(e, f)
        BY <2>1, <3>1, <3>3, <3>4, <3>5
      <3> QED
        BY <3>5, <3>6 DEF SameClaim
    <2> QED
      BY <2>1 DEF ClaimsKept
  <1>5. Holds(p)'
    BY <1>1, <1>2, <1>3, <1>4 DEF Holds, Opening, Made
  <1>6. Releases(p)
    <2>1. ASSUME NEW r \in Reservations, Owns(p, r), ~Owns(p, r)', l.at \notin {"ending", "off"}
          PROVE  book'[r].state # "ACTIVE"
      <3>1. PICK e \in execs[p] : e.res = r
        BY <2>1 DEF Owns
      <3>2. e.at \in {"finishing", "saving"} /\ UNCHANGED book
        BY <2>1, <3>1 DEF Owns
      <3> QED
        BY <1>1, <3>1, <3>2, NoReservationAssumption DEF Holds, Settled
    <2> QED
      BY <2>1 DEF Releases
  <1> QED
    BY <1>5, <1>6, MoveStep

\* One execution takes a step.
LEMMA StepMove ==
  ASSUME LifecycleInv, ClaimInv, Uses, NEW p \in Procs, Only(p), UNCHANGED loop,
         NEW e \in execs[p], NEW f, execs'[p] = (execs[p] \ {e}) \cup {f},
         SameClaim(e, f), f.res = e.res, Settled(f)',
         f.at = "saving" => <<f.task, f.token>> \notin tickets'[p],
         tickets'[p] \subseteq tickets[p],
         \/ pending'[p] = {}
         \/ pending'[p] = pending[p] /\ e.at # "saving"
         \/ \A w \in pending'[p] : Reported(p, w)'
  PROVE  ClaimsStep
  <1>1. Holds(p) /\ \A g \in execs[p] : ExecOK(g)
    BY DEF ClaimInv, LifecycleInv, Own
  <1>2. \A g \in execs'[p] : \E d \in execs[p] : SameClaim(d, g) /\ d.res = g.res
    BY DEF SameClaim
  <1>3. \A g, h \in execs'[p] : SameClaim(g, h) => g = h
    BY DEF ClaimInv, Unique, SameClaim
  <1>4. \A g \in execs'[p] :
          Settled(g)' /\ (g.at = "saving" => <<g.task, g.token>> \notin tickets'[p])
    BY <1>1, Carried DEF Holds
  <1>5. \A d \in execs[p] : \E g \in execs'[p] : SameClaim(d, g) /\ d.res = g.res
    BY DEF SameClaim
  <1>6. \A w \in pending'[p] : Reported(p, w)'
    BY <1>1 DEF Holds, Reported
  <1> QED
    BY <1>2, <1>3, <1>4, <1>5, <1>6, ExecsMove

\* Some executions are over, and the run may end with them.
LEMMA LeaveMove ==
  ASSUME LifecycleInv, ClaimInv, Uses, NEW p \in Procs, Only(p),
         NEW l, loop'[p] = l,
         \/ l = loop[p]
         \/ l.at \in {"ending", "off"} /\ l.res = None /\ (l.at = "off" => tickets'[p] = {}),
         tickets'[p] \subseteq tickets[p], execs'[p] \subseteq execs[p],
         \/ l.at \in {"ending", "off"}
         \/ /\ UNCHANGED book
            /\ \A e \in execs[p] \ execs'[p] :
                 /\ e.at \in {"finishing", "saving"}
                 /\ e.at = "saving" \/ ~Q!HeldBy(e.task, e.token),
         \/ pending'[p] = {}
         \/ pending'[p] = pending[p] /\ \A e \in execs[p] \ execs'[p] : e.at # "saving"
  PROVE  ClaimsStep
  <1>1. Holds(p) /\ \A g \in execs[p] : ExecOK(g)
    BY DEF ClaimInv, LifecycleInv, Own
  <1>2. \A g \in execs'[p] : \E d \in execs[p] : SameClaim(d, g) /\ d.res = g.res
    BY DEF SameClaim
  <1>3. \A g, h \in execs'[p] : SameClaim(g, h) => g = h
    BY DEF ClaimInv, Unique
  <1>4. \A g \in execs'[p] :
          Settled(g)' /\ (g.at = "saving" => <<g.task, g.token>> \notin tickets'[p])
    BY <1>1, Carried DEF Holds
  <1>5. \A e \in execs[p] :
          \/ \E f \in execs'[p] : SameClaim(e, f) /\ e.res = f.res
          \/ l.at \in {"ending", "off"}
          \/ /\ e.at \in {"finishing", "saving"} /\ UNCHANGED book
             /\ <<e.task, e.token>> \notin tickets[p] \/ ~Q!HeldBy(e.task, e.token)
    BY <1>1 DEF SameClaim, Holds
  <1>6. \A w \in pending'[p] : Reported(p, w)'
    BY <1>1 DEF Holds, Reported
  <1> QED
    BY <1>2, <1>3, <1>4, <1>5, <1>6, ExecsMove

----------------------------------------------------------------------------
(* The steps of dispatchers.                                               *)

\* What is replaced at p alone stays as it is elsewhere.
LEMMA OnlyOf ==
  ASSUME LifecycleInv, NEW p \in Procs, NEW l, NEW es, NEW ws, NEW ts,
         loop' = [loop EXCEPT ![p] = l] \/ (UNCHANGED loop /\ l = loop[p]),
         execs' = [execs EXCEPT ![p] = es] \/ (UNCHANGED execs /\ es = execs[p]),
         pending' = [pending EXCEPT ![p] = ws] \/ (UNCHANGED pending /\ ws = pending[p]),
         tickets' = [tickets EXCEPT ![p] = ts] \/ (UNCHANGED tickets /\ ts = tickets[p])
  PROVE  Only(p) /\ loop'[p] = l /\ execs'[p] = es /\ pending'[p] = ws /\ tickets'[p] = ts
  BY DEF LifecycleInv, Only

\* Where Goto leaves a dispatcher.
LEMMA GotoShape ==
  ASSUME LifecycleInv, NEW p \in Procs, NEW stage, Goto(p, stage)
  PROVE  \E l : /\ loop' = [loop EXCEPT ![p] = l]
                /\ l.at = stage /\ l.res = loop[p].res
  <1> DEFINE l == [loop[p] EXCEPT !.at = stage]
  <1>1. loop' = [loop EXCEPT ![p] = l] /\ l.at = stage /\ l.res = loop[p].res
    BY DEF Goto, LifecycleInv, Own, LoopOK, LoopFields
  <1> QED
    BY <1>1

\* A dispatcher goes from one stage of a run, or of an opening, to the next.
LEMMA StageMove ==
  ASSUME LifecycleInv, ClaimInv, Uses, NEW p \in Procs,
         NEW l, loop' = [loop EXCEPT ![p] = l] \/ (UNCHANGED loop /\ l = loop[p]),
         UNCHANGED <<execs, tickets>>,
         NEW ws, pending' = [pending EXCEPT ![p] = ws] \/ (UNCHANGED pending /\ ws = pending[p]),
         \A w \in ws : w \in pending[p] \/ w.new.status # "SUCCEEDED",
         l.at \notin {"claim", "unclaim"} => l.res = None,
         Made(l.res)',
         \/ l.res = loop[p].res
         \/ loop[p].res = None
         \/ loop[p].res \in Reservations /\ book'[loop[p].res].state # "ACTIVE",
         Running(p) \/ Opening(p) \/ l.at = "stopped",
         l.at \notin {"off", "reap", "recover", "recovering"} \/ Opening(p)
  PROVE  ClaimsStep
  <1>1. Only(p) /\ loop'[p] = l /\ execs'[p] = execs[p] /\ pending'[p] = ws /\ tickets'[p] = tickets[p]
    BY OnlyOf
  <1>2. Holds(p)
    BY DEF ClaimInv
  <1>3. Opening(p)' \/ Running(p)' => Running(p) \/ tickets'[p] = {}
    BY <1>1, <1>2 DEF Holds, Opening, Running
  <1>4. Opening(p)' => tickets'[p] = {}
    BY <1>1, <1>2 DEF Holds, Opening
  <1>5. Made(loop[p].res)'
    BY <1>1 DEF Made
  <1> QED
    BY <1>1, <1>3, <1>4, <1>5, LoopMove

\* It does so without touching anything else of the lifecycle.
LEMMA StillMove ==
  ASSUME LifecycleInv, ClaimInv, Uses, NEW p \in Procs, Running(p),
         NEW l, loop' = [loop EXCEPT ![p] = l], UNCHANGED <<execs, tickets, pending>>,
         l.at \in {"idle", "gates"}, l.res = None, loop[p].res = None
  PROVE  ClaimsStep
  <1>1. PICK ws : ws = pending[p]
    OBVIOUS
  <1>2. Made(l.res)'
    BY DEF Made
  <1>3. l.at \notin {"off", "reap", "recover", "recovering"}
    OBVIOUS
  <1> QED
    BY <1>1, <1>2, <1>3, StageMove

\* Outside of a claim nothing is reserved, so the stage is all that changes.
LEMMA GotoMove ==
  ASSUME LifecycleInv, ClaimInv, Uses, NEW p \in Procs, NEW stage, Goto(p, stage),
         UNCHANGED <<execs, tickets>>,
         NEW ws, pending' = [pending EXCEPT ![p] = ws] \/ (UNCHANGED pending /\ ws = pending[p]),
         \A w \in ws : w \in pending[p] \/ w.new.status # "SUCCEEDED",
         loop[p].at \notin {"claim", "unclaim"},
         Running(p) \/ Opening(p) \/ stage = "stopped",
         stage \notin {"off", "reap", "recover", "recovering"} \/ Opening(p)
  PROVE  ClaimsStep
  <1>1. PICK l : /\ loop' = [loop EXCEPT ![p] = l]
                 /\ l.at = stage /\ l.res = loop[p].res
    BY GotoShape
  <1>2. l.res = None /\ Made(l.res)'
    BY <1>1 DEF ClaimInv, Holds, Made
  <1> QED
    BY <1>1, <1>2, StageMove

\* An admission is over: what it had reserved is released, or nothing was.
LEMMA NextAdmissionMove ==
  ASSUME LifecycleInv, ClaimInv, Uses, NEW p \in Procs, NextAdmission(p),
         UNCHANGED <<execs, tickets>>, Running(p),
         NEW ws, pending' = [pending EXCEPT ![p] = ws] \/ (UNCHANGED pending /\ ws = pending[p]),
         ws \subseteq pending[p],
         \/ loop[p].res = None
         \/ loop[p].res \in Reservations /\ book'[loop[p].res].state # "ACTIVE"
  PROVE  ClaimsStep
  <1>1. PICK l : loop' = [loop EXCEPT ![p] = l] /\ l.at = "idle" /\ l.res = None
    BY NextAdmissionShape
  <1>2. Made(l.res)'
    BY <1>1 DEF Made
  <1> QED
    BY <1>1, <1>2, StageMove

\* A transition has begun that will not make a task SUCCEEDED.
NoReport(p) ==
  /\ pending' = [pending EXCEPT ![p] = pending'[p]]
  /\ \A w \in pending'[p] : w.new.status # "SUCCEEDED"

\* It has, when the row it would store is in another status.
LEMMA BegunWrite ==
  ASSUME LifecycleInv, NEW p \in Procs, NEW op, NEW t, NEW by, NEW lease, NEW row,
         Q!Begin(p, {Q!Write(op, t, by, lease, row)}),
         row.status # "SUCCEEDED"
  PROVE  NoReport(p)
  <1> DEFINE w == Q!Write(op, t, by, lease, row)
  <1>1. w.new.status # "SUCCEEDED"
    BY DEF Q!Write
  <1>2. pending' = [pending EXCEPT ![p] = {w}]
    BY DEF Q!Begin
  <1> HIDE DEF w
  <1> QED
    BY <1>1, <1>2 DEF LifecycleInv, NoReport

\* No transition but a report makes a task SUCCEEDED.
LEMMA ControlWrites ==
  ASSUME LifecycleInv, RowsInv, NEW p \in Procs, NEW t \in Tasks,
         \/ \E d \in Delays : Q!Defer(p, t, d)
         \/ Q!SendToReview(p, t)
         \/ Q!Close(p, t, "BLOCKED")
         \/ Q!ReleaseReview(p, t, 0)
  PROVE  NoReport(p) /\ UNCHANGED tickets
  <1>0. RowFields \subseteq DOMAIN tasks[t]
    BY DEF RowsInv
  <1>1. ASSUME NEW d \in Delays, Q!Defer(p, t, d)
        PROVE  NoReport(p) /\ UNCHANGED tickets
    <2>1. [tasks[t] EXCEPT !.status = "DEFERRED", !.available = now + d].status # "SUCCEEDED"
      BY <1>0 DEF RowFields
    <2> QED
      BY <1>1, <2>1, BegunWrite DEF Q!Defer
  <1>2. Q!Leave(t, "REVIEW").status # "SUCCEEDED" /\ Q!Leave(t, "BLOCKED").status # "SUCCEEDED"
    BY <1>0 DEF Q!Leave, RowFields
  <1>3. CASE Q!SendToReview(p, t)
    BY <1>2, <1>3, BegunWrite DEF Q!SendToReview
  <1>4. CASE Q!Close(p, t, "BLOCKED")
    BY <1>2, <1>4, BegunWrite DEF Q!Close
  <1>5. CASE Q!ReleaseReview(p, t, 0)
    <2>1. [tasks[t] EXCEPT !.available = now + 0,
             !.status = IF 0 = 0 THEN "PENDING" ELSE "DEFERRED"].status # "SUCCEEDED"
      BY <1>0 DEF RowFields
    <2> QED
      BY <1>5, <2>1, BegunWrite DEF Q!ReleaseReview
  <1> QED
    BY <1>1, <1>3, <1>4, <1>5

\* Opening a workspace starts without tickets and prepares no report.
LEMMA OpeningMove ==
  ASSUME LifecycleInv, ClaimInv, Uses, NEW p \in Procs,
         Open(p) \/ ReapBudgets(p) \/ RecoverTasks(p)
  PROVE  ClaimsStep
  <1>1. CASE Open(p)
    <2> DEFINE l == [Idle EXCEPT !.at = "reap"]
    <2>1. /\ loop[p].at \in {"off", "stopped"} /\ loop' = [loop EXCEPT ![p] = l]
          /\ tickets' = [tickets EXCEPT ![p] = {}] /\ UNCHANGED <<pending, execs>>
      BY <1>1 DEF Open
    <2>2. l.at = "reap" /\ l.res = None
      BY DEF Idle
    <2> HIDE DEF l
    <2>3. /\ Only(p) /\ loop'[p] = l /\ execs'[p] = execs[p] /\ pending'[p] = pending[p]
          /\ tickets'[p] = {}
      BY <2>1, OnlyOf
    <2>4. loop[p].res = None
      BY <2>1 DEF ClaimInv, Holds
    <2>5. Made(loop[p].res)'
      BY <2>2, <2>3 DEF Made
    <2> QED
      BY <2>2, <2>3, <2>4, <2>5, LoopMove
  <1>2. CASE ReapBudgets(p)
    <2>1. /\ loop[p].at = "reap" /\ Goto(p, "recover") /\ UNCHANGED <<pending, tickets, execs>>
      BY <1>2 DEF ReapBudgets, queueVars
    <2> QED
      BY <2>1, GotoMove DEF Opening
  <1>3. ASSUME NEW n \in Q!Readings, NEW d \in Delays, RecoverTasks(p), Q!Recover(p, n, d),
               Goto(p, "recovering")
        PROVE  ClaimsStep
    <2> DEFINE write(t) == Q!Write("recover", t, Q!NoToken, tasks[t].lease, Q!Recovered(t, n + d))
               ws == {write(t) : t \in {u \in Tasks : Q!Expired(u, n)}}
    <2>1. pending' = [pending EXCEPT ![p] = ws] /\ UNCHANGED <<tickets, execs>>
          /\ loop[p].at = "recover"
      BY <1>3 DEF Q!Recover, Q!Begin, RecoverTasks
    <2>2. ASSUME NEW t \in Tasks PROVE write(t).new.status # "SUCCEEDED"
      <3>1. RowFields \subseteq DOMAIN tasks[t]
        BY DEF ClaimInv, RowsInv
      <3> QED
        BY <3>1 DEF Q!Write, Q!Recovered, Q!Leave, Q!LeaveUntil, RowFields
    <2>3. \A w \in ws : w.new.status # "SUCCEEDED"
      BY <2>2
    <2> HIDE DEF ws
    <2> QED
      BY <1>3, <2>1, <2>3, GotoMove DEF Opening
  <1>4. CASE RecoverTasks(p) /\ Goto(p, "idle") /\ UNCHANGED queueVars
    <2>1. loop[p].at = "recover" /\ UNCHANGED <<pending, tickets, execs>>
      BY <1>4 DEF RecoverTasks, queueVars
    <2> QED
      BY <1>4, <2>1, GotoMove DEF Opening
  <1> QED
    BY <1>1, <1>2, <1>3, <1>4 DEF RecoverTasks

\* A refusal, and an operator's decision, wait for the store.
LEMMA ControlMove ==
  ASSUME LifecycleInv, ClaimInv, Uses, NEW p \in Procs, NEW t \in Tasks,
         \/ \E d \in Delays : Q!Defer(p, t, d)
         \/ Q!SendToReview(p, t)
         \/ Q!Close(p, t, "BLOCKED")
         \/ Q!ReleaseReview(p, t, 0),
         Goto(p, "saving"), UNCHANGED execs,
         loop[p].at \in {"idle", "gates", "capacity", "denied"}
  PROVE  ClaimsStep
  <1>1. NoReport(p) /\ UNCHANGED tickets
    BY ControlWrites DEF ClaimInv
  <1>2. PICK ws : /\ pending' = [pending EXCEPT ![p] = ws] /\ UNCHANGED tickets
                  /\ \A w \in ws : w.new.status # "SUCCEEDED"
    BY <1>1 DEF NoReport
  <1>3. /\ loop[p].at \notin {"claim", "unclaim"} /\ Running(p)
        /\ "saving" \notin {"off", "reap", "recover", "recovering"}
    BY DEF Running
  <1>4. \A w \in ws : w \in pending[p] \/ w.new.status # "SUCCEEDED"
    BY <1>2
  <1> QED
    BY <1>2, <1>3, <1>4, GotoMove

\* The stages of an admission that change nothing but the dispatcher.
LEMMA AdmissionMove ==
  ASSUME LifecycleInv, ClaimInv, Uses, NEW p \in Procs,
         \/ \E batch \in SUBSET Tasks : SelectBatch(p, batch)
         \/ \E t \in Tasks : Admit(p, t)
         \/ GatesAllow(p)
         \/ GatesRefuse(p)
         \/ BudgetRefuses(p)
         \/ ClaimFails(p)
         \/ Unclaim(p)
  PROVE  ClaimsStep
  <1>0. Holds(p) /\ LoopOK(p)
    BY DEF ClaimInv, LifecycleInv, Own
  <1>1. ASSUME NEW batch, SelectBatch(p, batch) PROVE ClaimsStep
    <2>1. loop[p].at = "idle" /\ UNCHANGED <<pending, tickets, execs>>
      BY <1>1 DEF SelectBatch, queueVars
    <2>2. PICK l : loop' = [loop EXCEPT ![p] = l] /\ l = [loop[p] EXCEPT !.todo = batch]
      BY <1>1 DEF SelectBatch
    <2>3. l.at = "idle" /\ l.res = None /\ loop[p].res = None
      BY <1>0, <2>1, <2>2 DEF Holds, LoopOK, LoopFields
    <2> QED
      BY <2>1, <2>2, <2>3, StillMove DEF Running
  <1>2. ASSUME NEW t \in Tasks, Admit(p, t) PROVE ClaimsStep
    <2> DEFINE runnable == tasks[t].status \in Q!Waiting
    <2>1. loop[p].at = "idle" /\ UNCHANGED <<pending, tickets, execs>>
      BY <1>2 DEF Admit, queueVars
    <2>2. PICK l : /\ loop' = [loop EXCEPT ![p] = l]
                   /\ l = [loop[p] EXCEPT !.todo = @ \ {t},
                             !.at = IF runnable THEN "gates" ELSE "idle",
                             !.task = IF runnable THEN t ELSE None]
      BY <1>2 DEF Admit
    <2>3. l.at \in {"idle", "gates"} /\ l.res = None /\ loop[p].res = None
      BY <1>0, <2>1, <2>2 DEF Holds, LoopOK, LoopFields
    <2> QED
      BY <2>1, <2>2, <2>3, StillMove DEF Running
  <1>3. CASE GatesAllow(p)
    <2>1. loop[p].at = "gates" /\ Goto(p, "reserve") /\ UNCHANGED <<pending, tickets, execs>>
      BY <1>3 DEF GatesAllow, queueVars
    <2> QED
      BY <2>1, GotoMove DEF Running
  <1>4. CASE GatesRefuse(p) \/ BudgetRefuses(p)
    <2>1. loop[p].at \in {"gates", "capacity", "denied"} /\ Goto(p, "saving") /\ UNCHANGED execs
      BY <1>4 DEF GatesRefuse, BudgetRefuses
    <2>2. loop[p].task \in Tasks
      BY <1>0, <2>1 DEF LoopOK, Admitting
    <2> QED
      BY <1>4, <2>1, <2>2, ControlMove DEF GatesRefuse, BudgetRefuses
  <1>5. CASE ClaimFails(p)
    <2>1. loop[p].at = "claim" /\ UNCHANGED <<pending, tickets, execs>>
      BY <1>5 DEF ClaimFails, queueVars
    <2>2. CASE loop[p].res = None /\ NextAdmission(p)
      BY <2>1, <2>2, NextAdmissionMove DEF Running
    <2>3. CASE loop[p].res # None /\ Goto(p, "unclaim")
      <3>1. PICK l : /\ loop' = [loop EXCEPT ![p] = l]
                     /\ l.at = "unclaim" /\ l.res = loop[p].res
        BY <2>3, GotoShape
      <3>2. Made(l.res)'
        BY <1>0, <3>1, Carried DEF Holds, LoopOK
      <3> QED
        BY <2>1, <3>1, <3>2, StageMove DEF Running
    <2> QED
      BY <1>5, <2>2, <2>3 DEF ClaimFails
  <1>6. CASE Unclaim(p)
    <2>1. /\ loop[p].at = "unclaim" /\ UNCHANGED <<pending, tickets, execs>>
          /\ NextAdmission(p) /\ B!Release(loop[p].res)
      BY <1>6 DEF Unclaim, queueVars
    <2>2. loop[p].res \in Reservations
      BY <1>0, <2>1 DEF LoopOK
    <2>3. book'[loop[p].res].state # "ACTIVE"
      BY <2>1, <2>2, SettleBook DEF B!Release, ClaimInv
    <2> QED
      BY <2>1, <2>2, <2>3, NextAdmissionMove DEF Running
  <1> QED
    BY <1>1, <1>2, <1>3, <1>4, <1>5, <1>6

\* A reservation is made for the admission that holds it.
LEMMA ReserveMove ==
  ASSUME LifecycleInv, ClaimInv, Uses, NEW p \in Procs, Reserve(p)
  PROVE  ClaimsStep
  <1> DEFINE d == DemandOf[loop[p].task]
             lane == LaneOf[loop[p].task]
  <1>1. loop[p].at = "reserve" /\ UNCHANGED <<pending, tickets, execs>>
    BY DEF Reserve, queueVars
  <1>2. ASSUME NEW r \in Reservations, NEW n \in B!Readings, B!Reserve(r, d, lane, n),
               loop' = [loop EXCEPT ![p].at = "claim", ![p].res = r]
        PROVE  ClaimsStep
    <2>1. PICK l : loop' = [loop EXCEPT ![p] = l] /\ l = [loop[p] EXCEPT !.at = "claim", !.res = r]
      BY <1>2
    <2>2. l.at = "claim" /\ l.res = r
      BY <2>1 DEF LifecycleInv, Own, LoopOK, LoopFields
    <2>3. book'[r].state = "ACTIVE"
      BY <1>2 DEF B!Reserve, ClaimInv, BookInv
    <2>4. Made(l.res)' /\ loop[p].res = None
      BY <1>1, <2>2, <2>3 DEF Made, ClaimInv, Holds
    <2> QED
      BY <1>1, <2>1, <2>2, <2>4, StageMove DEF Running
  <1>3. CASE \E stage \in {"claim", "denied", "capacity"} : Goto(p, stage)
    BY <1>1, <1>3, GotoMove DEF Running
  <1>4. \/ \E r \in Reservations, n \in B!Readings :
             /\ B!Reserve(r, d, lane, n)
             /\ loop' = [loop EXCEPT ![p].at = "claim", ![p].res = r]
        \/ \E stage \in {"claim", "denied", "capacity"} : Goto(p, stage)
    <2> HIDE DEF d, lane
    <2> QED
      BY DEF Reserve, d, lane
  <1> QED
    BY <1>2, <1>3, <1>4

\* A claim gives its ticket to a new execution, with what was reserved for it.
LEMMA ClaimMove ==
  ASSUME LifecycleInv, LifecycleInv', ClaimInv, Uses, NEW p \in Procs, Claim(p)
  PROVE  ClaimsStep
  <1> DEFINE t == loop[p].task
             k == issued[t] + 1
  <1>1. loop[p].at = "claim" /\ NextAdmission(p) /\ UNCHANGED budgetVars
    BY DEF Claim
  <1>2. t \in Tasks
    BY <1>1 DEF LifecycleInv, Own, LoopOK, Admitting
  <1>3. PICK n \in Q!Readings : Q!Claim(p, t, n)
    BY DEF Claim
  <1>4. /\ issued[t] \in Nat /\ issued'[t] = k /\ UNCHANGED pending
        /\ tickets' = [tickets EXCEPT ![p] = @ \cup {<<t, k>>}]
    BY <1>2, <1>3 DEF Q!Claim, LifecycleInv
  <1>5. PICK f : /\ f = [task |-> t, token |-> k, res |-> loop[p].res,
                         at |-> "admitted", beat |-> now, ending |-> "none"]
                 /\ execs' = [execs EXCEPT ![p] = @ \cup {f}]
    BY <1>4 DEF Claim
  <1>6. PICK l : loop' = [loop EXCEPT ![p] = l] /\ l.at = "idle" /\ l.res = None
    BY <1>1, NextAdmissionShape
  <1>7. /\ Only(p) /\ loop'[p] = l /\ execs'[p] = execs[p] \cup {f}
        /\ pending'[p] = pending[p] /\ tickets'[p] = tickets[p] \cup {<<t, k>>}
    BY <1>4, <1>5, <1>6 DEF LifecycleInv, Only
  <1>8. f.task = t /\ f.token = k /\ f.res = loop[p].res /\ f.at = "admitted"
    BY <1>5
  <1>9. \A q \in Procs : \A e \in execs[q] : ExecOK(e) /\ ~SameClaim(e, f)
    <2>1. ASSUME NEW q \in Procs, NEW e \in execs[q] PROVE ExecOK(e) /\ ~SameClaim(e, f)
      <3>1. ExecOK(e)
        BY DEF LifecycleInv, Own
      <3> QED
        BY <1>4, <1>8, <3>1 DEF ExecOK, SameClaim
    <2> QED
      BY <2>1
  <1> HIDE DEF t, k
  <1>10. Holds(p) /\ Running(p)
    BY <1>1 DEF ClaimInv, Running
  <1>11. UNCHANGED book
    BY <1>1 DEF budgetVars
  <1>12. \A e \in execs'[p] : Made(e.res)' /\ Settled(e)'
                              /\ (e.at = "saving" => <<e.task, e.token>> \notin tickets'[p])
    <2>1. ASSUME NEW e \in execs[p]
          PROVE  Made(e.res)' /\ Settled(e)'
                 /\ (e.at = "saving" => <<e.task, e.token>> \notin tickets'[p])
      BY <1>7, <1>8, <1>9, <1>10, <1>11, <2>1 DEF Holds, Made, Settled, SameClaim
    <2>2. Made(f.res)' /\ Settled(f)' /\ f.at # "saving"
      BY <1>8, <1>10, <1>11 DEF Holds, Made, Settled
    <2> QED
      BY <1>7, <2>1, <2>2
  <1>13. ClaimsKept(p)'
    <2>1. ASSUME NEW ticket \in tickets[p], Q!HeldBy(ticket[1], ticket[2])'
          PROVE  \E e \in execs'[p] : <<e.task, e.token>> = ticket
      <3>1. PICK u \in Tasks : \E j \in 1..issued[u] : ticket = <<u, j>>
        BY <2>1 DEF ClaimInv, RowsInv
      <3>2. PICK j \in 1..issued[u] : ticket = <<u, j>>
        BY <3>1
      <3>3. Q!HeldBy(u, j)
        BY <2>1, <3>2, Carried DEF RowsStep, ClaimsOnlyLost
      <3> QED
        BY <1>7, <1>10, <2>1, <3>2, <3>3 DEF Holds, ClaimsKept
    <2>2. \E e \in execs'[p] : <<e.task, e.token>> = <<t, k>>
      BY <1>7, <1>8
    <2> QED
      BY <1>7, <2>1, <2>2 DEF ClaimsKept
  <1>14. \A w \in pending'[p] : Reported(p, w)'
    BY <1>7, <1>10 DEF Holds, Reported
  <1>15. Holds(p)'
    BY <1>6, <1>7, <1>12, <1>13, <1>14 DEF Holds, Opening, Made
  <1>16. Releases(p)
    BY <1>7, <1>8 DEF Releases, Owns
  <1>17. Unique'
    <2>1. \A q \in Procs : \A e \in execs'[q] : e \in execs[q] \/ (q = p /\ e = f)
      BY <1>7 DEF Only
    <2>2. ASSUME NEW q \in Procs, NEW r \in Procs, NEW e \in execs'[q], NEW d \in execs'[r],
                 SameClaim(e, d)
          PROVE  q = r /\ e = d
      <3>1. SameClaim(d, e)
        BY <2>2 DEF SameClaim
      <3> QED
        BY <1>9, <2>1, <2>2, <3>1 DEF ClaimInv, Unique
    <2> QED
      BY <2>2 DEF Unique, SameClaim
  <1>18. RowsInv' /\ BookInv'
    BY Carried DEF RowsStep, BookStep
  <1>19. \A q \in Procs : Holds(q)' /\ Releases(q)
    BY <1>7, <1>15, <1>16, OthersHold
  <1> QED
    BY <1>17, <1>18, <1>19 DEF ClaimsStep, ClaimInv

\* The tickets of a batch become executions.
LEMMA StartBatchMove ==
  ASSUME LifecycleInv, ClaimInv, Uses, NEW p \in Procs, StartBatch(p)
  PROVE  ClaimsStep
  <1> DEFINE started(e) == IF e.at = "admitted" THEN [e EXCEPT !.at = "working", !.beat = now]
                                                ELSE e
             es == {started(e) : e \in execs[p]}
  <1>1. execs' = [execs EXCEPT ![p] = es] /\ UNCHANGED <<loop, pending, tickets, book>>
    BY DEF StartBatch, queueVars, budgetVars
  <1>2. Holds(p) /\ \A e \in execs[p] : ExecOK(e)
    BY DEF ClaimInv, LifecycleInv, Own
  <1>3. ASSUME NEW e \in execs[p]
        PROVE  /\ SameClaim(e, started(e)) /\ started(e).res = e.res
               /\ started(e) = e \/ started(e).at = "working"
               /\ e.at = "saving" => started(e) = e
    BY <1>2 DEF ExecOK, ExecFields, SameClaim
  <1>4. Only(p) /\ execs'[p] = es /\ loop'[p] = loop[p] /\ pending'[p] = pending[p]
        /\ tickets'[p] = tickets[p]
    BY <1>1 DEF LifecycleInv, Only
  <1> HIDE DEF started
  <1>5. \A f \in execs'[p] : \E e \in execs[p] : SameClaim(e, f) /\ e.res = f.res
    BY <1>3, <1>4
  <1>6. \A f, g \in execs'[p] : SameClaim(f, g) => f = g
    <2>1. ASSUME NEW e \in execs[p], NEW d \in execs[p], SameClaim(started(e), started(d))
          PROVE  e = d
      <3>1. SameClaim(e, d)
        BY <1>3, <2>1 DEF SameClaim
      <3> QED
        BY <3>1 DEF ClaimInv, Unique
    <2> QED
      BY <1>4, <2>1
  <1>7. \A f \in execs'[p] :
          Settled(f)' /\ (f.at = "saving" => <<f.task, f.token>> \notin tickets'[p])
    <2>1. \A f \in execs'[p] : f \in execs[p] \/ f.at = "working"
      BY <1>3, <1>4
    <2> QED
      BY <1>1, <1>2, <1>4, <2>1 DEF Holds, Settled
  <1>8. \A e \in execs[p] : \E f \in execs'[p] : SameClaim(e, f) /\ e.res = f.res
    BY <1>3, <1>4
  <1>9. \A w \in pending'[p] : Reported(p, w)'
    <2>1. \A e \in execs[p] : e.at = "saving" => e \in execs'[p]
      BY <1>3, <1>4
    <2> QED
      BY <1>2, <1>4, <2>1 DEF Holds, Reported
  <1>10. PICK l : loop'[p] = l /\ l = loop[p]
    BY <1>4
  <1>11. \A e \in execs[p] :
           \/ \E f \in execs'[p] : SameClaim(e, f) /\ e.res = f.res
           \/ l.at \in {"ending", "off"}
           \/ /\ e.at \in {"finishing", "saving"} /\ UNCHANGED book
              /\ <<e.task, e.token>> \notin tickets[p] \/ ~Q!HeldBy(e.task, e.token)
    BY <1>8
  <1>12. Only(p) /\ tickets'[p] \subseteq tickets[p]
    BY <1>4
  <1> HIDE DEF es
  <1> QED
    BY <1>10, <1>11, <1>12, <1>5, <1>6, <1>7, <1>9, ExecsMove

----------------------------------------------------------------------------
(* The steps of executions, and how runs end.                              *)

\* An execution goes on before it is settled.
LEMMA WorkMove ==
  ASSUME LifecycleInv, ClaimInv, Uses, NEW p \in Procs, NEW e \in execs[p], NEW f,
         Step(p, e, f), SameClaim(e, f), f.res = e.res, f.at \notin {"finishing", "saving"},
         UNCHANGED <<loop, tickets>>,
         NEW ws, pending' = [pending EXCEPT ![p] = ws] \/ (UNCHANGED pending /\ ws = pending[p]),
         \/ ws = {}
         \/ ws = pending[p] /\ e.at # "saving"
         \/ \A w \in ws : w.new.status # "SUCCEEDED"
  PROVE  ClaimsStep
  <1>1. /\ Only(p) /\ execs'[p] = (execs[p] \ {e}) \cup {f}
        /\ pending'[p] = ws /\ tickets'[p] = tickets[p]
    BY DEF LifecycleInv, Only, Step
  <1>2. Settled(f)'
    BY DEF Settled
  <1>3. (\A w \in ws : w.new.status # "SUCCEEDED") => \A w \in pending'[p] : Reported(p, w)'
    BY <1>1 DEF Reported
  <1> QED
    BY <1>1, <1>2, <1>3, StepMove

\* Heartbeats, lost leases and the end of the work.
LEMMA WorkingMove ==
  ASSUME LifecycleInv, ClaimInv, Uses, NEW p \in Procs, NEW e \in execs[p],
         \/ Beat(p, e)
         \/ RenewBudget(p, e)
         \/ LoseLease(p, e)
         \/ \E ending \in Endings \ {"none"} : EndWork(p, e, ending)
  PROVE  ClaimsStep
  <1>0. ExecOK(e)
    BY DEF LifecycleInv, Own
  <1>1. CASE Beat(p, e)
    <2>1. PICK f : f = [e EXCEPT !.at = "beating"] /\ Step(p, e, f)
      BY <1>1 DEF Beat
    <2>2. SameClaim(e, f) /\ f.res = e.res /\ f.at = "beating"
      BY <1>0, <2>1 DEF ExecOK, ExecFields, SameClaim
    <2>3. Q!Heartbeat(p, e.task, e.token) /\ UNCHANGED <<loop, tickets>>
      BY <1>1 DEF Beat, Q!Heartbeat
    <2>4. [tasks[e.task] EXCEPT !.lease = now + LeaseFor].status # "SUCCEEDED"
      <3>1. RowFields \subseteq DOMAIN tasks[e.task] /\ tasks[e.task].status = "RUNNING"
        BY <1>0, <2>3 DEF ClaimInv, RowsInv, ExecOK, Q!Heartbeat, Q!HeldBy
      <3> QED
        BY <3>1 DEF RowFields
    <2>5. NoReport(p)
      BY <2>3, <2>4, BegunWrite DEF Q!Heartbeat
    <2>6. PICK ws : /\ pending' = [pending EXCEPT ![p] = ws]
                    /\ \A w \in ws : w.new.status # "SUCCEEDED"
      BY <2>5 DEF NoReport
    <2> QED
      BY <2>1, <2>2, <2>3, <2>6, WorkMove
  <1>2. CASE RenewBudget(p, e)
    <2>1. PICK f : f = [e EXCEPT !.at = "working", !.beat = now] /\ Step(p, e, f)
      BY <1>2 DEF RenewBudget
    <2>2. SameClaim(e, f) /\ f.res = e.res /\ f.at = "working"
      BY <1>0, <2>1 DEF ExecOK, ExecFields, SameClaim
    <2>3. e.at = "renewing" /\ UNCHANGED <<loop, tickets, pending>>
      BY <1>2 DEF RenewBudget, queueVars
    <2>4. PICK ws : ws = pending[p]
      OBVIOUS
    <2> QED
      BY <2>1, <2>2, <2>3, <2>4, WorkMove
  <1>3. CASE LoseLease(p, e)
    <2>1. PICK f : f = [e EXCEPT !.at = "charging", !.ending = "STOPPED"] /\ Step(p, e, f)
      BY <1>3 DEF LoseLease
    <2>2. SameClaim(e, f) /\ f.res = e.res /\ f.at = "charging"
      BY <1>0, <2>1 DEF ExecOK, ExecFields, SameClaim
    <2>3. e.at # "saving" /\ UNCHANGED <<loop, tickets, pending>>
      BY <1>3 DEF LoseLease, queueVars
    <2>4. PICK ws : ws = pending[p]
      OBVIOUS
    <2> QED
      BY <2>1, <2>2, <2>3, <2>4, WorkMove
  <1>4. ASSUME NEW ending, EndWork(p, e, ending) PROVE ClaimsStep
    <2>1. PICK f : f = [e EXCEPT !.at = "charging", !.ending = ending] /\ Step(p, e, f)
      BY <1>4 DEF EndWork
    <2>2. SameClaim(e, f) /\ f.res = e.res /\ f.at = "charging"
      BY <1>0, <2>1 DEF ExecOK, ExecFields, SameClaim
    <2>3. /\ e.at # "saving" /\ UNCHANGED <<loop, tickets>>
          /\ pending' = [pending EXCEPT ![p] = {}] \/ UNCHANGED pending
      BY <1>4 DEF EndWork, Working
    <2>4. PICK ws : ws = pending[p]
      OBVIOUS
    <2> QED
      BY <2>1, <2>2, <2>3, <2>4, WorkMove
  <1> QED
    BY <1>1, <1>2, <1>3, <1>4

\* A charge settles the reservation; only a stopped execution goes on without it.
LEMMA ChargeMove ==
  ASSUME LifecycleInv, ClaimInv, Uses, NEW p \in Procs, NEW e \in execs[p], Charge(p, e)
  PROVE  ClaimsStep
  <1>1. ExecOK(e) /\ e.res \in Reservations \cup {None}
    BY DEF LifecycleInv, Own, ExecOK
  <1>2. PICK f : f = [e EXCEPT !.at = "finishing"] /\ Step(p, e, f)
    BY DEF Charge
  <1>3. SameClaim(e, f) /\ f.res = e.res /\ f.at = "finishing" /\ f.ending = e.ending
    BY <1>1, <1>2 DEF ExecOK, ExecFields, SameClaim
  <1>4. e.at = "charging" /\ UNCHANGED <<loop, tickets, pending>>
    BY DEF Charge, queueVars
  <1>5. Settled(f)'
    <2>1. CASE e.res # None /\ B!IsActive(e.res)
      <3>1. book'[e.res].state = "COMMITTED"
        BY <1>1, <2>1, SettleBook DEF Charge, B!Commit, ClaimInv
      <3> QED
        BY <1>3, <3>1 DEF Settled
    <2>2. CASE ~(e.res # None /\ B!IsActive(e.res))
      <3>1. (e.res = None \/ e.ending = "STOPPED") /\ UNCHANGED book
        BY <2>2 DEF Charge, budgetVars
      <3> QED
        BY <1>3, <2>2, <3>1 DEF Settled, B!IsActive
    <2> QED
      BY <2>1, <2>2
  <1>6. /\ Only(p) /\ execs'[p] = (execs[p] \ {e}) \cup {f}
        /\ pending'[p] = pending[p] /\ tickets'[p] = tickets[p]
    BY <1>2, <1>4 DEF LifecycleInv, Only, Step
  <1> QED
    BY <1>3, <1>4, <1>5, <1>6, StepMove

\* A report hands its ticket in, and only one of a success says so.
LEMMA ReportMove ==
  ASSUME LifecycleInv, ClaimInv, Uses, NEW p \in Procs, NEW e \in execs[p], Report(p, e)
  PROVE  ClaimsStep
  <1> DEFINE t == e.task
             k == e.token
  <1>1. ExecOK(e) /\ Holds(p) /\ e.res \in Reservations \cup {None}
    BY DEF LifecycleInv, Own, ClaimInv, ExecOK
  <1>2. PICK f : f = [e EXCEPT !.at = "saving"] /\ Step(p, e, f)
    BY DEF Report
  <1>3. SameClaim(e, f) /\ f.res = e.res /\ f.at = "saving" /\ f.ending = e.ending
    BY <1>1, <1>2 DEF ExecOK, ExecFields, SameClaim
  <1>4. e.at = "finishing" /\ UNCHANGED <<loop, budgetVars>>
    BY DEF Report
  <1>5. \/ e.ending = "SUCCEEDED" /\ Q!Succeed(p, t, k)
        \/ \E d \in Delays : Q!FailRetry(p, t, k, d)
        \/ Q!FailFinal(p, t, k)
    BY NoDelayAssumption DEF Report
  <1>6. Q!Hand(p, t, k) /\ pending' = [pending EXCEPT ![p] = pending'[p]]
    <2>1. Q!Hand(p, t, k) /\ \E ws : Q!Begin(p, ws)
      BY <1>5 DEF Q!Succeed, Q!FailRetry, Q!FailFinal
    <2> QED
      BY <2>1 DEF Q!Begin, LifecycleInv
  <1>7. /\ Only(p) /\ execs'[p] = (execs[p] \ {e}) \cup {f}
        /\ tickets'[p] = tickets[p] \ {<<t, k>>}
    BY <1>2, <1>4, <1>6 DEF LifecycleInv, Only, Step, Q!Hand
  <1>8. Settled(f)'
    BY <1>1, <1>3, <1>4 DEF Holds, Settled, budgetVars
  <1>9. <<f.task, f.token>> \notin tickets'[p]
    BY <1>3, <1>7 DEF SameClaim
  <1>10. \A w \in pending'[p] : Reported(p, w)'
    <2>0. RowFields \subseteq DOMAIN tasks[t]
      BY <1>1 DEF ClaimInv, RowsInv, ExecOK
    <2>1. CASE NoReport(p)
      BY <2>1 DEF NoReport, Reported
    <2>2. CASE e.ending = "SUCCEEDED" /\ Q!Succeed(p, t, k)
      <3>1. /\ pending'[p] = {Q!Write("succeed", t, k, Q!NoLease, Q!Leave(t, "SUCCEEDED"))}
            /\ tasks[t].token = k
        BY <2>2 DEF Q!Succeed, Q!Begin, Q!HeldBy, LifecycleInv
      <3>2. \A w \in pending'[p] : w.task = t /\ w.token = k
        BY <3>1 DEF Q!Write
      <3>3. f \in execs'[p] /\ f.at = "saving" /\ f.ending = "SUCCEEDED" /\ f.task = t /\ f.token = k
        BY <1>3, <1>7, <2>2 DEF SameClaim
      <3> QED
        BY <3>2, <3>3 DEF Reported
    <2>3. ASSUME NEW d \in Delays, Q!FailRetry(p, t, k, d) PROVE NoReport(p)
      <3>1. Q!LeaveUntil(t, "DEFERRED", now + d).status # "SUCCEEDED"
        BY <2>0 DEF RowFields, Q!LeaveUntil, Q!Leave
      <3> QED
        BY <2>3, <3>1, BegunWrite DEF Q!FailRetry
    <2>4. CASE Q!FailFinal(p, t, k)
      <3>1. Q!Leave(t, "FAILED").status # "SUCCEEDED"
        BY <2>0 DEF RowFields, Q!Leave
      <3>2. NoReport(p)
        BY <2>4, <3>1, BegunWrite DEF Q!FailFinal
      <3> QED
        BY <2>1, <3>2
    <2> QED
      BY <1>5, <2>1, <2>2, <2>3, <2>4
  <1>11. tickets'[p] \subseteq tickets[p]
    BY <1>7
  <1> QED
    BY <1>3, <1>4, <1>7, <1>8, <1>9, <1>10, <1>11, StepMove

\* A run that ends keeps the executions that wait for the store.
LEMMA EndRunMove ==
  ASSUME LifecycleInv, ClaimInv, Uses, NEW p \in Procs, NEW cause, NEW remaining \in SUBSET execs[p],
         EndRun(p, cause, remaining), \A e \in execs[p] \ remaining : e.at # "saving"
  PROVE  ClaimsStep
  <1>1. PICK l : loop' = [loop EXCEPT ![p] = l] /\ l = [Idle EXCEPT !.at = "ending", !.cause = cause]
    BY DEF EndRun
  <1>2. l.at = "ending" /\ l.res = None
    BY <1>1 DEF Idle
  <1>3. PICK es : /\ execs' = [execs EXCEPT ![p] = es]
                  /\ es = {e \in remaining : e.at # "admitted"}
    BY DEF EndRun
  <1>4. /\ pending' = [pending EXCEPT ![p] = {}] \/ UNCHANGED pending
        /\ UNCHANGED <<tickets, book>>
    BY DEF EndRun, budgetVars
  <1>5. /\ Only(p) /\ loop'[p] = l /\ execs'[p] = es
        /\ pending'[p] = {} \/ pending'[p] = pending[p]
        /\ tickets'[p] \subseteq tickets[p]
    BY <1>1, <1>3, <1>4 DEF LifecycleInv, Only
  <1>6. execs'[p] \subseteq execs[p] /\ \A e \in execs[p] \ execs'[p] : e.at # "saving"
    BY <1>3, <1>5
  <1> QED
    BY <1>2, <1>5, <1>6, LeaveMove

\* Interrupts, admissions and charges that raise end a run.
LEMMA RaisingMove ==
  ASSUME LifecycleInv, ClaimInv, Uses, NEW p \in Procs,
         \/ Interrupt(p)
         \/ AdmissionRaises(p)
         \/ \E e \in execs[p] : ChargeRaises(p, e)
  PROVE  ClaimsStep
  <1>1. CASE Interrupt(p) \/ AdmissionRaises(p)
    <2>1. \E cause : EndRun(p, cause, execs[p])
      BY <1>1 DEF Interrupt, AdmissionRaises
    <2> QED
      BY <2>1, EndRunMove
  <1>2. ASSUME NEW e \in execs[p], ChargeRaises(p, e) PROVE ClaimsStep
    <2>1. e.at = "charging" /\ EndRun(p, "execution", execs[p] \ {e})
      BY <1>2 DEF ChargeRaises
    <2>2. \A f \in execs[p] \ (execs[p] \ {e}) : f.at # "saving"
      BY <2>1
    <2> QED
      BY <2>1, <2>2, EndRunMove
  <1> QED
    BY <1>1, <1>2

\* A process that dies holds nothing any more.
LEMMA CrashMove ==
  ASSUME LifecycleInv, ClaimInv, Uses, NEW p \in Procs, Crash(p)
  PROVE  ClaimsStep
  <1>1. PICK l : loop' = [loop EXCEPT ![p] = l] /\ l = [Idle EXCEPT !.at = "off"]
    BY DEF Crash
  <1>2. l.at = "off" /\ l.res = None
    BY <1>1 DEF Idle
  <1>3. /\ Only(p) /\ loop'[p] = l /\ execs'[p] = {} /\ pending'[p] = {} /\ tickets'[p] = {}
    BY <1>1 DEF LifecycleInv, Only, Crash
  <1> QED
    BY <1>2, <1>3, LeaveMove

\* A stopped run has nothing left to lose.
LEMMA StopMove ==
  ASSUME LifecycleInv, ClaimInv, Uses, NEW p \in Procs, Stop(p)
  PROVE  ClaimsStep
  <1>1. /\ loop[p].at \in {"idle", "ending"} /\ Goto(p, "stopped")
        /\ UNCHANGED <<execs, tickets, pending>>
    BY DEF Stop, queueVars
  <1>2. PICK ws : ws = pending[p]
    OBVIOUS
  <1> QED
    BY <1>1, <1>2, GotoMove

\* A stale report has no claim to lose, and one that is cut short no run.
LEMMA GoneMove ==
  ASSUME LifecycleInv, ClaimInv, Uses, NEW p \in Procs, NEW e \in execs[p],
         ReportStale(p, e) \/ CutShort(p, e)
  PROVE  ClaimsStep
  <1>1. /\ Gone(p, e) /\ UNCHANGED <<loop, tickets, book>>
        /\ \/ pending' = [pending EXCEPT ![p] = {}]
           \/ UNCHANGED pending /\ e.at # "saving"
    BY DEF ReportStale, CutShort, queueVars, budgetVars
  <1>2. /\ Only(p) /\ execs'[p] = execs[p] \ {e} /\ tickets'[p] \subseteq tickets[p]
        /\ pending'[p] = {} \/ (pending'[p] = pending[p] /\ e.at # "saving")
    BY <1>1 DEF LifecycleInv, Only, Gone
  <1>3. PICK l : loop'[p] = l /\ l = loop[p]
    BY <1>1
  <1>4. l.at = "ending" \/ (e.at = "finishing" /\ ~Q!HeldBy(e.task, e.token))
    BY <1>3 DEF ReportStale, CutShort
  <1>5. \A d \in execs[p] \ execs'[p] : d = e
    BY <1>2
  <1> QED
    BY <1>1, <1>2, <1>3, <1>4, <1>5, LeaveMove

----------------------------------------------------------------------------
(* The store answers.                                                      *)

\* Recovery goes on with its other writes.
LEMMA RecoveryMove ==
  ASSUME LifecycleInv, ClaimInv, Uses, NEW p \in Procs, NEW w \in pending[p], RecoveryStores(p, w)
  PROVE  ClaimsStep
  <1>1. PICK stage \in {"idle", "recovering"} : Goto(p, stage)
    BY DEF RecoveryStores
  <1>2. /\ loop[p].at = "recovering" /\ UNCHANGED <<execs, tickets>>
        /\ pending' = [pending EXCEPT ![p] = pending[p] \ {w}]
    BY StoreStep DEF RecoveryStores
  <1>3. PICK ws : ws = pending[p] \ {w}
    OBVIOUS
  <1>4. \A v \in ws : v \in pending[p] \/ v.new.status # "SUCCEEDED"
    BY <1>3
  <1>5. Opening(p) /\ loop[p].at \notin {"claim", "unclaim"}
    BY <1>2 DEF Opening
  <1> QED
    BY <1>1, <1>2, <1>3, <1>4, <1>5, GotoMove

\* The answer that an admission waits for.
LEMMA AnsweredMove ==
  ASSUME LifecycleInv, ClaimInv, Uses, NEW p \in Procs, NEW w \in pending[p], Q!SaveApplied(p, w),
         loop[p].at = "saving", NextAdmission(p), UNCHANGED execs
  PROVE  ClaimsStep
  <1>1. UNCHANGED tickets /\ pending' = [pending EXCEPT ![p] = pending[p] \ {w}]
    BY StoreStep
  <1>2. loop[p].res = None /\ Running(p)
    BY DEF ClaimInv, Holds, Running
  <1>3. PICK ws : ws = pending[p] \ {w}
    OBVIOUS
  <1> QED
    BY <1>1, <1>2, <1>3, NextAdmissionMove

\* The answer that an execution waits for.
LEMMA ToldMove ==
  ASSUME LifecycleInv, ClaimInv, Uses, NEW p \in Procs, NEW w \in pending[p],
         Q!SaveApplied(p, w) \/ Q!SaveStale(p, w),
         NEW e \in execs[p], Stored(p, e) \/ Refused(p, e), UNCHANGED <<budgetVars, loop>>
  PROVE  ClaimsStep
  <1>1. ExecOK(e) /\ loop[p].at # "recovering"
    BY ExecOfRun DEF Early
  <1>2. UNCHANGED <<tickets, book>> /\ pending' = [pending EXCEPT ![p] = {}]
    BY <1>1, StoreStep, SingleWrite DEF budgetVars
  <1>3. CASE e.at = "saving" /\ Gone(p, e)
    <2>1. /\ Only(p) /\ execs'[p] = execs[p] \ {e} /\ tickets'[p] \subseteq tickets[p]
          /\ pending'[p] = {}
      BY <1>2, <1>3 DEF LifecycleInv, Only, Gone
    <2>2. PICK l : loop'[p] = l /\ l = loop[p]
      OBVIOUS
    <2>3. \A d \in execs[p] \ execs'[p] : d = e
      BY <2>1
    <2> QED
      BY <1>2, <1>3, <2>1, <2>2, <2>3, LeaveMove
  <1>4. ASSUME NEW phase \in {"working", "renewing", "charging"}, NEW f, Step(p, e, f),
               \/ f = [e EXCEPT !.at = phase]
               \/ f = [e EXCEPT !.at = phase, !.beat = now]
               \/ f = [e EXCEPT !.at = phase, !.ending = "STOPPED"]
        PROVE  ClaimsStep
    <2>1. SameClaim(e, f) /\ f.res = e.res /\ f.at = phase
      BY <1>1, <1>4 DEF ExecOK, ExecFields, SameClaim
    <2>2. PICK ws : ws = {}
      OBVIOUS
    <2> QED
      BY <1>2, <1>4, <2>1, <2>2, WorkMove
  <1>5. \/ e.at = "saving" /\ Gone(p, e)
        \/ Step(p, e, [e EXCEPT !.at = "working", !.beat = now])
        \/ Step(p, e, [e EXCEPT !.at = "renewing"])
        \/ Step(p, e, [e EXCEPT !.at = "charging", !.ending = "STOPPED"])
    BY DEF Stored, Refused
  <1> QED
    BY <1>3, <1>4, <1>5

----------------------------------------------------------------------------
(* The whole lifecycle.                                                    *)

\* What leaves claims, reservations and processes alone leaves what they hold.
LEMMA NothingMoves ==
  ASSUME ClaimInv, UNCHANGED <<tasks, issued, pending, tickets, book, loop, execs>>
  PROVE  ClaimsStep
  BY DEF ClaimsStep, ClaimInv, RowsInv, WriteOK, BookInv, Unique, Holds, Made, Opening, ClaimsKept,
         Running, Reported, Settled, Releases, Owns, Q!HeldBy

\* An operator submits or settles a task.
LEMMA OperatorMove ==
  ASSUME LifecycleInv, ClaimInv, Uses, NEW p \in Procs, Operator(p)
  PROVE  ClaimsStep
  <1>1. ASSUME NEW t \in Tasks, NEW k \in Keys, NEW r \in Runs, Submit(p, t, k, r)
        PROVE  ClaimsStep
    <2>1. /\ loop[p].at = "idle" /\ UNCHANGED <<loop, execs, tickets, pending>>
      BY <1>1 DEF Submit, Q!Enqueue
    <2>2. PICK l : l = loop[p] /\ l.at = "idle" /\ l.res = None
      BY <2>1 DEF ClaimInv, Holds
    <2>3. PICK ws : ws = pending[p]
      OBVIOUS
    <2>4. Made(l.res)'
      BY <2>2 DEF Made
    <2>5. Running(p) /\ l.at \notin {"off", "reap", "recover", "recovering"}
      BY <2>1, <2>2 DEF Running
    <2> QED
      BY <2>1, <2>2, <2>3, <2>4, <2>5, StageMove
  <1>2. ASSUME NEW t \in Tasks, Resolve(p, t)
        PROVE  ClaimsStep
    BY <1>2, ControlMove DEF Resolve
  <1> QED
    BY <1>1, <1>2 DEF Operator

\* An admission, in all its stages.
LEMMA AdmittingMove ==
  ASSUME LifecycleInv, LifecycleInv', ClaimInv, Uses, NEW p \in Procs, Admission(p)
  PROVE  ClaimsStep
  BY AdmissionMove, ReserveMove, ClaimMove, StartBatchMove, RaisingMove DEF Admission

\* An execution, in all its phases.
LEMMA ExecutingMove ==
  ASSUME LifecycleInv, ClaimInv, Uses, NEW p \in Procs, NEW e \in execs[p],
         Execution(p, e) \/ CutShort(p, e)
  PROVE  ClaimsStep
  BY WorkingMove, ChargeMove, RaisingMove, ReportMove, GoneMove DEF Execution

\* Whoever waits for the store is told.
LEMMA StoringMove ==
  ASSUME LifecycleInv, ClaimInv, Uses, NEW p \in Procs, NEW w \in pending[p],
         RecoveryStores(p, w) \/ SaveReturns(p, w) \/ SaveRaises(p, w)
  PROVE  ClaimsStep
  <1>1. CASE SaveReturns(p, w)
    BY <1>1, AnsweredMove, ToldMove DEF SaveReturns
  <1>2. CASE SaveRaises(p, w)
    <2>1. CASE \E cause : EndRun(p, cause, execs[p])
      BY <2>1, EndRunMove
    <2> QED
      BY <1>2, <2>1, ToldMove DEF SaveRaises
  <1> QED
    BY <1>1, <1>2, RecoveryMove

\* Every step of the lifecycle keeps what is held, and lets go of nothing unsettled.
LEMMA ClaimsNext ==
  ASSUME LifecycleInv, LifecycleInv', Uses, ClaimInv, Next
  PROVE  ClaimsStep
  <1>1. ASSUME NEW p \in Procs, Process(p) PROVE ClaimsStep
    BY <1>1, OpeningMove, AdmittingMove, ExecutingMove, StoringMove, RaisingMove, StopMove, CrashMove
       DEF Process
  <1>2. CASE Tick
    <2>1. UNCHANGED <<tasks, issued, pending, tickets, book, loop, execs>>
      BY <1>2 DEF Tick, Q!Tick, budgetVars
    <2> QED
      BY <2>1, NothingMoves
  <1> QED
    BY <1>1, <1>2, OperatorMove DEF Next

\* At the start nothing is held.
LEMMA InitClaimInv == Init => ClaimInv
  <1> SUFFICES ASSUME Init PROVE ClaimInv
    OBVIOUS
  <1>1. /\ loop = [p \in Procs |-> [Idle EXCEPT !.at = "off"]] /\ execs = [p \in Procs |-> {}]
        /\ tasks = [t \in Tasks |-> Q!Absent] /\ pending = [p \in Procs |-> {}]
        /\ tickets = [p \in Procs |-> {}] /\ book = [r \in Reservations |-> B!Free]
    BY DEF Init, Q!Init, B!Init
  <1>2. ASSUME NEW p \in Procs PROVE Holds(p)
    BY <1>1 DEF Holds, Idle, Made, Opening, ClaimsKept, Running
  <1>3. RowsInv /\ BookInv
    BY <1>1 DEF RowsInv, RowFields, BookInv, Q!Absent, B!Free
  <1>4. Unique
    BY <1>1 DEF Unique
  <1> QED
    BY <1>2, <1>3, <1>4 DEF ClaimInv

HoldInv == LifecycleInv /\ ClaimInv

\* The inductive step of the theorems below.
LEMMA HoldStep ==
  ASSUME HoldInv, [Next]_vars
  PROVE  HoldInv' /\ RowsStep /\ \A p \in Procs : Releases(p)
  <1>1. CASE Next
    <2>1. LifecycleInv' /\ Uses
      BY <1>1, NextStep DEF HoldInv
    <2> QED
      BY <1>1, <2>1, ClaimsNext, RowsKept DEF HoldInv, ClaimsStep, ClaimInv, Uses
  <1>2. CASE UNCHANGED vars
    <2>1. UNCHANGED <<tasks, issued, pending, tickets, book, loop, execs>>
      BY <1>2 DEF vars, queueVars, budgetVars
    <2>2. LifecycleInv'
      BY <2>1 DEF HoldInv, LifecycleInv, Own, LoopOK, LockOK, Waits, ExecOK
    <2>3. RowsStep
      BY <2>1, RowsAlone DEF HoldInv, ClaimInv
    <2> QED
      BY <2>1, <2>2, <2>3, NothingMoves DEF HoldInv, ClaimsStep
  <1> QED
    BY <1>1, <1>2

\* The dispatcher of lifecycle.py always knows what it holds: rows, claims, executions
\* and reservations agree in every reachable state.
THEOREM HoldingsAgree == Spec => []HoldInv
  <1>1. Init => HoldInv
    BY InitLifecycleInv, InitClaimInv DEF HoldInv
  <1> QED
    BY <1>1, HoldStep, PTL DEF Spec

\* Lifecycle.admit and execute_claimed never forget a claim: as long as the run goes on,
\* a ticket whose task still is the claim's has its execution.
THEOREM ClaimsAreExecuted == Spec => []ClaimsHaveExecutions
  <1>1. HoldInv => ClaimsHaveExecutions
    BY DEF HoldInv, ClaimInv, Holds, ClaimsKept, ClaimsHaveExecutions
  <1> QED
    BY <1>1, HoldingsAgree, PTL

\* Every way out of admit and execute_claimed settles its reservation, unless the run
\* ends there.
THEOREM ReservationsAreSettled == Spec => ReservationNotLeaked
  <1>1. HoldInv /\ [Next]_vars =>
          [\A p \in Procs, r \in Reservations :
             Owns(p, r) /\ ~Owns(p, r)' =>
               book'[r].state # "ACTIVE" \/ loop'[p].at \in {"off", "ending"}]_vars
    BY HoldStep DEF Releases
  <1> QED
    BY <1>1, HoldingsAgree, PTL DEF Spec, ReservationNotLeaked

\* commit comes before succeed in execute_claimed, and nothing can come between them
\* that lets a success be stored without it.
THEOREM SuccessIsCharged == Spec => SucceededIsCharged
  <1>1. ASSUME HoldInv, [Next]_vars, NEW p \in Procs, NEW e \in execs[p],
               Q!HeldBy(e.task, e.token), tasks'[e.task].status = "SUCCEEDED", e.res # None
        PROVE  book[e.res].state = "COMMITTED"
    <2>1. e.task \in Tasks
      BY <1>1 DEF HoldInv, LifecycleInv, Own, ExecOK
    <2>2. PICK q \in Procs : \E w \in pending[q] :
            w.task = e.task /\ w.token = tasks[e.task].token /\ w.new.status = "SUCCEEDED"
      BY <1>1, <2>1, HoldStep DEF RowsStep, SuccessIsWritten, Q!HeldBy
    <2>3. PICK w \in pending[q] :
            w.task = e.task /\ w.token = e.token /\ w.new.status = "SUCCEEDED"
      BY <1>1, <2>2 DEF Q!HeldBy
    <2>4. PICK f \in execs[q] :
            f.at = "saving" /\ f.ending = "SUCCEEDED" /\ f.task = w.task /\ f.token = w.token
      BY <1>1, <2>3 DEF HoldInv, ClaimInv, Holds, Reported
    <2>5. e = f
      BY <1>1, <2>3, <2>4 DEF HoldInv, ClaimInv, Unique, SameClaim
    <2>6. Settled(f)
      BY <1>1, <2>4 DEF HoldInv, ClaimInv, Holds
    <2> QED
      BY <1>1, <2>4, <2>5, <2>6 DEF Settled
  <1>2. HoldInv /\ [Next]_vars =>
          [\A p \in Procs : \A e \in execs[p] :
             /\ Q!HeldBy(e.task, e.token)
             /\ tasks'[e.task].status = "SUCCEEDED"
             /\ e.res # None
             => book[e.res].state = "COMMITTED"]_vars
    BY <1>1
  <1> QED
    BY <1>2, HoldingsAgree, PTL DEF Spec, SucceededIsCharged

----------------------------------------------------------------------------
(* Leases.                                                                 *)
(*                                                                         *)
(* A lease is granted from a reading of the clock at most MaxWait old, and *)
(* renewed by a heartbeat every BeatEvery.  While heartbeats keep up, the  *)
(* queue lease and the reservation of whoever works therefore last, at     *)
(* any time, until LeaseFor - MaxWait after its last heartbeat: longer     *)
(* than the BeatEvery that may have passed since then.  Recovery and the   *)
(* reaper, which act only on what has expired, pass such a worker over.    *)
(*                                                                         *)
(* The inductive invariant says so of every execution, and of what makes   *)
(* it stay so: writes on their way to the store say what was read, one     *)
(* owner per reservation, and one caller per write.                        *)

Waiter(e) == e.at \in {"beating", "saving"}

\* The write under way is the one this execution waits for.
Asks(e, w) ==
  /\ w.task = e.task /\ w.token = e.token
  /\ w.op \in IF e.at = "beating" THEN {"heartbeat"} ELSE {"succeed", "fail"}

\* Who waits for the store waits for a write of its own.
WaitsOK(p) ==
  /\ loop[p].at = "recovering" => \A w \in pending[p] : w.op = "recover"
  /\ loop[p].at = "saving" =>
       pending[p] # {} /\ \A w \in pending[p] : w.op \in {"defer", "review", "close", "release"}
  /\ \A e \in execs[p] : Waiter(e) => pending[p] # {} /\ \A w \in pending[p] : Asks(e, w)

\* A write still says what its caller has read: an expired lease, or a lease from now on.
Fits(w) ==
  /\ w.new.lease \in Nat
  /\ w.op \in {"defer", "release"} => w.status # "RUNNING"
  /\ w.op = "recover" => w.lease \in Nat \ {Q!NoLease} /\ w.lease <= now
  /\ w.op = "heartbeat" => w.new.status = "RUNNING" /\ (calm => w.new.lease = now + LeaseFor)

\* Rows and reservations have their times.
TimesOK ==
  /\ now \in Nat
  /\ \A t \in Tasks : tasks[t].lease \in Nat
  /\ \A r \in Reservations : book[r].expires \in Nat

\* A reservation has one owner.
Sole ==
  /\ \A p, q \in Procs : loop[p].res = loop[q].res => loop[p].res = None \/ p = q
  /\ \A p, q \in Procs : \A e \in execs[q] : e.res = loop[p].res => e.res = None
  /\ \A p, q \in Procs : \A e \in execs[p], f \in execs[q] :
       e.res = f.res => e.res = None \/ (p = q /\ e = f)

\* The last heartbeat that the store has seen of an execution.
Seen(e) == IF e.at = "renewing" THEN now ELSE e.beat

\* A lease granted at time x, by a call that had waited for the store.
Granted(x) == x + LeaseFor - MaxWait

Leased(e, x) == Q!HeldBy(e.task, e.token) /\ tasks[e.task].lease >= x
Live(r, x) == B!IsActive(r) /\ book[r].expires >= x

Relies(e) ==
  e.res # None /\ (e.at \in Working \cup {"admitted"} \/ (e.at = "charging" /\ e.ending # "STOPPED"))

Punctual(e) ==
  /\ e.beat \in Nat /\ e.beat <= now /\ now <= e.beat + BeatEvery
  /\ e.at = "admitted" => e.beat = now
  /\ e.at # "saving" => Leased(e, Granted(Seen(e)))
  /\ Relies(e) => Live(e.res, Granted(e.beat))

Prompt(p) ==
  /\ loop[p].res # None => Live(loop[p].res, Granted(now))
  /\ \A e \in execs[p] : Punctual(e)

LeaseInv ==
  /\ TimesOK /\ Sole
  /\ \A p \in Procs : WaitsOK(p) /\ \A w \in pending[p] : Fits(w)
  /\ calm \in BOOLEAN
  /\ calm => \A p \in Procs : Prompt(p)

\* No execution that is not yet reporting loses its claim, or a part of its lease.
RowsKeepLeases ==
  calm' => \A q \in Procs : \A e \in execs[q] :
    e.at # "saving" => Q!HeldBy(e.task, e.token)' /\ tasks'[e.task].lease >= Granted(Seen(e))

\* A live reservation stays so, unless p releases it or has charged it.
BookKeepsLive(p) ==
  \A r \in Reservations, x \in Int :
    Live(r, x) /\ now < x /\ x <= Granted(now) =>
      \/ Live(r, x)'
      \/ loop[p].res = r /\ loop'[p].res # r
      \/ \E e \in execs[p] : e.res = r /\ e \notin execs'[p] /\ e.at = "charging"

\* What a step of p may do to leases.
Shape(p) ==
  /\ Only(p) /\ now' = now /\ (calm' => calm) /\ calm' \in BOOLEAN
  /\ TimesOK' /\ RowsKeepLeases /\ BookKeepsLive(p)
  /\ \/ loop'[p].res \in {None, loop[p].res}
     \/ /\ loop'[p].res \in Reservations /\ book[loop'[p].res].state = "FREE"
        /\ Live(loop[p].res, Granted(now))'
  /\ \A f \in execs'[p] :
       \/ \E e \in execs[p] : SameClaim(e, f) /\ e.res = f.res
       \/ f.res = loop[p].res /\ loop'[p].res = None /\ execs'[p] = execs[p] \cup {f}
  /\ WaitsOK(p)' /\ \A w \in pending'[p] : w \in pending[p] \/ Fits(w)'
  /\ calm' => \A f \in execs'[p] : f \in execs[p] \/ Punctual(f)'

\* What dispatchers and executions hold is a reservation that was made, or none.
LEMMA ExecRes ==
  ASSUME HoldInv, NEW p \in Procs
  PROVE  /\ loop[p].res \in Reservations \cup {None} /\ Made(loop[p].res)
         /\ \A e \in execs[p] : e.res \in Reservations \cup {None} /\ Made(e.res) /\ e.task \in Tasks
  BY DEF HoldInv, LifecycleInv, Own, LoopOK, ExecOK, ClaimInv, Holds

\* A step leaves every reservation with one owner: what is reserved was free, and an
\* execution takes over what its admission held.
LEMMA SoleShape ==
  ASSUME HoldInv, HoldInv', LeaseInv, NEW p \in Procs, Shape(p)
  PROVE  Sole'
  <1>1. \A q \in Procs \ {p} : loop'[q] = loop[q] /\ execs'[q] = execs[q]
    BY DEF Shape, Only
  <1> DEFINE old(r) == loop[p].res = r \/ \E e \in execs[p] : e.res = r
  <1>2. loop'[p].res = None \/ loop'[p].res = loop[p].res
        \/ (loop'[p].res # None /\ book[loop'[p].res].state = "FREE")
    BY NoReservationAssumption DEF Shape
  <1>3. \A q \in Procs : Made(loop[q].res) /\ \A e \in execs[q] : Made(e.res)
    BY ExecRes
  <1>4. \A f \in execs'[p] : f.res = None \/ old(f.res)
    BY DEF Shape
  <1>5. loop'[p].res = None \/ loop'[p].res = loop[p].res
        \/ (loop'[p].res # None /\ \A q \in Procs : loop[q].res # loop'[p].res
                                     /\ \A e \in execs[q] : e.res # loop'[p].res)
    BY <1>2, <1>3 DEF Made
  <1>6. Sole
    BY DEF LeaseInv
  <1>7. \A q, s \in Procs : loop'[q].res = loop'[s].res => loop'[q].res = None \/ q = s
    BY <1>1, <1>5, <1>6 DEF Sole
  <1>8. \A q, s \in Procs : \A e \in execs'[s] : e.res = loop'[q].res => e.res = None
    <2>1. ASSUME NEW q \in Procs, NEW s \in Procs, NEW e \in execs'[s], e.res = loop'[q].res
          PROVE  e.res = None
      <3>1. CASE s # p
        BY <1>1, <1>5, <1>6, <2>1, <3>1 DEF Sole
      <3>2. CASE s = p /\ q # p
        <4>1. loop[q].res = e.res /\ (e.res = None \/ old(e.res))
          BY <1>1, <1>4, <2>1, <3>2
        <4> QED
          BY <1>6, <3>2, <4>1 DEF Sole
      <3>3. CASE s = p /\ q = p
        <4>1. \/ \E d \in execs[p] : d.res = e.res
              \/ loop'[p].res = None
          BY <2>1, <3>3 DEF Shape
        <4> QED
          BY <1>5, <1>6, <2>1, <3>3, <4>1 DEF Sole
      <3> QED
        BY <3>1, <3>2, <3>3
    <2> QED
      BY <2>1
  <1>9. \A q, s \in Procs : \A e \in execs'[q], f \in execs'[s] :
          e.res = f.res => e.res = None \/ (q = s /\ e = f)
    <2>1. ASSUME NEW q \in Procs \ {p}, NEW s \in Procs \ {p}, NEW e \in execs'[q], NEW f \in execs'[s],
                 e.res = f.res
          PROVE  e.res = None \/ (q = s /\ e = f)
      BY <1>1, <1>6, <2>1 DEF Sole
    <2>2. ASSUME NEW q \in Procs \ {p}, NEW e \in execs'[q], NEW f \in execs'[p], e.res = f.res
          PROVE  e.res = None
      BY <1>1, <1>4, <1>6, <2>2 DEF Sole
    <2>3. ASSUME NEW e \in execs'[p], NEW f \in execs'[p], e.res = f.res, e.res # None
          PROVE  e = f
      <3> DEFINE derived(g) == \E d \in execs[p] : SameClaim(d, g) /\ d.res = g.res
                 fresh(g) == g.res = loop[p].res /\ execs'[p] = execs[p] \cup {g}
      <3>1. (derived(e) \/ fresh(e)) /\ (derived(f) \/ fresh(f))
        BY DEF Shape
      <3>2. CASE derived(e) /\ derived(f)
        <4>1. PICK d \in execs[p] : SameClaim(d, e) /\ d.res = e.res
          BY <3>2
        <4>2. PICK g \in execs[p] : SameClaim(g, f) /\ g.res = f.res
          BY <3>2
        <4>3. d = g
          BY <1>6, <2>3, <4>1, <4>2 DEF Sole
        <4>4. SameClaim(e, f)
          BY <4>1, <4>2, <4>3 DEF SameClaim
        <4> QED
          BY <4>4 DEF HoldInv, ClaimInv, Unique, SameClaim
      <3>3. CASE ~derived(e) \/ ~derived(f)
        <4>1. e.res = loop[p].res \/ f.res = loop[p].res
          BY <3>1, <3>3
        <4>2. ~derived(e) /\ ~derived(f)
          BY <1>6, <2>3, <4>1 DEF Sole
        <4>3. execs'[p] = execs[p] \cup {e} /\ e \notin execs[p] /\ f \notin execs[p]
          BY <3>1, <4>2 DEF SameClaim
        <4> QED
          BY <4>3
      <3> QED
        BY <3>2, <3>3
    <2> QED
      BY <2>1, <2>2, <2>3
  <1> QED
    BY <1>7, <1>8, <1>9 DEF Sole

\* A live reservation whose owner does not settle it.
LEMMA LiveShape ==
  ASSUME HoldInv, LeaseInv, BeatEvery + MaxWait < LeaseFor, NEW p \in Procs, Shape(p),
         NEW r \in Reservations, NEW x \in Int, Live(r, Granted(x)), now - BeatEvery <= x, x <= now,
         loop[p].res = r => loop'[p].res = r,
         \A e \in execs[p] : e.res = r => e \in execs'[p]
  PROVE  Live(r, Granted(x))'
  <1>1. now \in Nat /\ LeaseFor \in Nat /\ MaxWait \in Nat /\ BeatEvery \in Nat
    BY ClockAssumption, HeartbeatAssumption DEF LeaseInv, TimesOK
  <1>2. PICK y \in Int : y = Granted(x) /\ now < y /\ y <= Granted(now)
    BY <1>1 DEF Granted
  <1>3. Live(r, y)'
    BY <1>2 DEF Shape, BookKeepsLive
  <1> QED
    BY <1>2, <1>3 DEF Live, Granted

\* An execution that the step leaves alone stays punctual.
LEMMA PunctualShape ==
  ASSUME HoldInv, LeaseInv, BeatEvery + MaxWait < LeaseFor, NEW p \in Procs, Shape(p), calm',
         NEW q \in Procs, NEW e \in execs[q], e \in execs'[q]
  PROVE  Punctual(e)'
  <1>1. Punctual(e) /\ now' = now
    BY DEF Shape, LeaseInv, Prompt
  <1>2. /\ e.beat \in Nat /\ e.beat <= now' /\ now' <= e.beat + BeatEvery
        /\ e.at = "admitted" => e.beat = now'
    BY <1>1 DEF Punctual
  <1>3. e.at # "saving" => Leased(e, Granted(Seen(e)))'
    BY <1>1 DEF Shape, RowsKeepLeases, Leased, Granted, Seen
  <1>4. Relies(e) => Live(e.res, Granted(e.beat))'
    <2> SUFFICES ASSUME Relies(e) PROVE Live(e.res, Granted(e.beat))'
      OBVIOUS
    <2>1. e.res \in Reservations /\ Live(e.res, Granted(e.beat)) /\ e.res # None
      BY <1>1, ExecRes DEF Relies, Punctual
    <2>2. now - BeatEvery <= e.beat /\ e.beat <= now /\ e.beat \in Int
      BY <1>1, HeartbeatAssumption DEF Punctual, LeaseInv, TimesOK
    <2>3. loop[p].res # e.res
      BY <2>1 DEF LeaseInv, Sole
    <2>4. \A d \in execs[p] : d.res = e.res => d \in execs'[p]
      BY <2>1 DEF LeaseInv, Sole
    <2> QED
      BY <2>1, <2>2, <2>3, <2>4, LiveShape
  <1> QED
    BY <1>2, <1>3, <1>4 DEF Punctual, Relies

\* A step of that shape keeps the leases of everybody.
LEMMA ShapeKeeps ==
  ASSUME HoldInv, HoldInv', LeaseInv, BeatEvery + MaxWait < LeaseFor, NEW p \in Procs, Shape(p)
  PROVE  LeaseInv'
  <1>1. TimesOK' /\ Sole' /\ calm' \in BOOLEAN /\ now' = now /\ (calm' => calm)
    BY SoleShape DEF Shape
  <1>2. \A q \in Procs \ {p} : loop'[q] = loop[q] /\ execs'[q] = execs[q] /\ pending'[q] = pending[q]
    BY DEF Shape, Only
  <1>3. ASSUME NEW q \in Procs PROVE WaitsOK(q)' /\ \A w \in pending'[q] : Fits(w)'
    <2>1. \A w : Fits(w) => Fits(w)'
      BY <1>1 DEF Fits
    <2>2. CASE q = p
      BY <2>1, <2>2 DEF Shape, LeaseInv
    <2>3. CASE q # p
      <3>1. WaitsOK(q)'
        BY <1>2, <2>3 DEF WaitsOK, LeaseInv, Asks
      <3> QED
        BY <1>2, <2>1, <2>3, <3>1 DEF LeaseInv
    <2> QED
      BY <2>2, <2>3
  <1>4. ASSUME calm', NEW q \in Procs PROVE Prompt(q)'
    <2>1. \A e \in execs'[q] : Punctual(e)'
      <3>1. \A e \in execs'[q] : e \in execs[q] \/ Punctual(e)'
        BY <1>2, <1>4 DEF Shape
      <3> QED
        BY <1>4, <3>1, PunctualShape
    <2>2. loop'[q].res # None => Live(loop[q].res, Granted(now))'
      <3> SUFFICES ASSUME loop'[q].res # None PROVE Live(loop[q].res, Granted(now))'
        OBVIOUS
      <3>1. CASE loop'[q].res # loop[q].res
        BY <1>1, <1>2, <3>1 DEF Shape, Live, Granted
      <3>2. CASE loop'[q].res = loop[q].res
        <4>1. loop[q].res \in Reservations /\ Live(loop[q].res, Granted(now))
          BY <1>1, <1>4, <3>2, ExecRes DEF LeaseInv, Prompt
        <4>2. now \in Nat /\ BeatEvery \in Nat
          BY HeartbeatAssumption DEF LeaseInv, TimesOK
        <4>3. loop[p].res = loop[q].res => p = q
          BY <3>2 DEF LeaseInv, Sole
        <4>4. \A e \in execs[p] : e.res # loop[q].res
          BY <3>2 DEF LeaseInv, Sole
        <4>5. Live(loop[q].res, Granted(now))'
          <5>1. Live(loop[q].res, Granted(now)) /\ now \in Int /\ now - BeatEvery <= now
            BY <4>1, <4>2
          <5>2. PICK r \in Reservations : r = loop[q].res
            BY <4>1
          <5>3. PICK x \in Int : x = now
            BY <5>1
          <5>4. Live(r, Granted(x))'
            <6>1. Live(r, Granted(x)) /\ now - BeatEvery <= x /\ x <= now
              BY <5>1, <5>2, <5>3, <4>2
            <6>2. loop[p].res = r => loop'[p].res = r
              BY <3>2, <4>3, <5>2
            <6>3. \A e \in execs[p] : e.res = r => e \in execs'[p]
              BY <4>4, <5>2
            <6> QED
              BY <6>1, <6>2, <6>3, LiveShape
          <5> QED
            BY <1>1, <3>2, <5>2, <5>3, <5>4 DEF Live, Granted, B!IsActive
        <4> QED
          BY <3>2, <4>5
      <3> QED
        BY <3>1, <3>2
    <2> QED
      BY <2>1, <2>2 DEF Prompt
  <1> QED
    BY <1>1, <1>3, <1>4 DEF LeaseInv

----------------------------------------------------------------------------
(* The shapes that steps have.                                             *)

\* Times and intervals are numbers.
LEMMA TimeTypes ==
  ASSUME LeaseInv
  PROVE  now \in Nat /\ LeaseFor \in Nat /\ MaxWait \in Nat /\ BeatEvery \in Nat
  BY ClockAssumption, HeartbeatAssumption DEF LeaseInv, TimesOK

\* A step that touches no row and no reservation takes no lease.
LEMMA StillKeeps ==
  ASSUME LeaseInv, NEW p \in Procs, UNCHANGED <<now, tasks, book>>, calm' => calm
  PROVE  TimesOK' /\ RowsKeepLeases /\ BookKeepsLive(p)
  <1>1. TimesOK'
    BY DEF LeaseInv, TimesOK
  <1>2. RowsKeepLeases
    BY DEF LeaseInv, Prompt, Punctual, RowsKeepLeases, Leased, Q!HeldBy
  <1>3. BookKeepsLive(p)
    BY DEF BookKeepsLive, Live, B!IsActive
  <1> QED
    BY <1>1, <1>2, <1>3

\* A dispatcher takes a step; its executions stay as they are.
LEMMA LoopShape ==
  ASSUME NEW p \in Procs, Only(p), UNCHANGED <<now, calm>>, LeaseInv,
         execs'[p] = execs[p], TimesOK', RowsKeepLeases, BookKeepsLive(p),
         \/ loop'[p].res \in {None, loop[p].res}
         \/ /\ loop'[p].res \in Reservations /\ book[loop'[p].res].state = "FREE"
            /\ Live(loop[p].res, Granted(now))',
         WaitsOK(p)', \A w \in pending'[p] : w \in pending[p] \/ Fits(w)'
  PROVE  Shape(p)
  BY DEF Shape, SameClaim, LeaseInv

\* It goes from one stage to another without calling the store.
LEMMA StageShape ==
  ASSUME HoldInv, LeaseInv, NEW p \in Procs, UNCHANGED <<now, tasks, book, calm>>,
         Only(p), execs'[p] = execs[p], pending'[p] = pending[p], NEW l, loop'[p] = l,
         l.at \notin {"saving", "recovering"}, l.res \in {None, loop[p].res}
  PROVE  Shape(p)
  <1>1. WaitsOK(p)'
    BY DEF LeaseInv, WaitsOK, Asks, Waiter
  <1> QED
    BY <1>1, StillKeeps, LoopShape

\* It has asked the store for a transition.
LEMMA AskingShape ==
  ASSUME HoldInv, LeaseInv, NEW p \in Procs, UNCHANGED <<now, tasks, book, calm>>,
         Only(p), execs'[p] = execs[p], pending[p] = {},
         NEW l, loop'[p] = l, l.res = loop[p].res,
         NEW ws, pending'[p] = ws, \A w \in ws : Fits(w)',
         \/ l.at = "saving" /\ ws # {} /\ \A w \in ws : w.op \in {"defer", "review", "close", "release"}
         \/ l.at = "recovering" /\ \A w \in ws : w.op = "recover"
  PROVE  Shape(p)
  <1>1. \A e \in execs[p] : ~Waiter(e)
    BY DEF LeaseInv, WaitsOK
  <1>2. WaitsOK(p)'
    BY <1>1 DEF WaitsOK, Waiter
  <1> QED
    BY <1>2, StillKeeps, LoopShape

\* Nobody of the process waits for the store when the one that did is told.
LEMMA OneWaits ==
  ASSUME HoldInv, LeaseInv, NEW p \in Procs
  PROVE  /\ \A e, d \in execs[p] : Waiter(e) /\ Waiter(d) => e = d
         /\ loop[p].at = "saving" => \A e \in execs[p] : ~Waiter(e)
         /\ pending[p] = {} => loop[p].at # "saving" /\ \A e \in execs[p] : ~Waiter(e)
         /\ \A e \in execs[p] : loop[p].at # "recovering"
  <1>1. ASSUME NEW e \in execs[p], NEW d \in execs[p], Waiter(e), Waiter(d) PROVE e = d
    <2>1. PICK w \in pending[p] : Asks(e, w) /\ Asks(d, w)
      BY <1>1 DEF LeaseInv, WaitsOK
    <2>2. SameClaim(e, d)
      BY <2>1 DEF Asks, SameClaim
    <2> QED
      BY <2>2 DEF HoldInv, ClaimInv, Unique
  <1>2. ASSUME loop[p].at = "saving", NEW e \in execs[p], Waiter(e) PROVE FALSE
    <2>1. PICK w \in pending[p] : Asks(e, w) /\ w.op \in {"defer", "review", "close", "release"}
      BY <1>2 DEF LeaseInv, WaitsOK
    <2> QED
      BY <2>1 DEF Asks
  <1>3. pending[p] = {} => loop[p].at # "saving" /\ \A e \in execs[p] : ~Waiter(e)
    BY DEF LeaseInv, WaitsOK
  <1>4. \A e \in execs[p] : loop[p].at # "recovering"
    BY ExecOfRun DEF HoldInv, Early
  <1> QED
    BY <1>1, <1>2, <1>3, <1>4

\* An execution takes a step, or is over: e becomes es, which is one execution or none.
LEMMA ExecShape ==
  ASSUME HoldInv, LeaseInv, NEW p \in Procs, NEW e \in execs[p], NEW es,
         Only(p), UNCHANGED now, calm' => calm, calm' \in BOOLEAN, loop'[p] = loop[p],
         execs'[p] = (execs[p] \ {e}) \cup es,
         \A f \in es : SameClaim(e, f) /\ f.res = e.res,
         TimesOK', RowsKeepLeases, BookKeepsLive(p),
         \/ pending'[p] = pending[p] /\ ~Waiter(e) /\ \A f \in es : ~Waiter(f)
         \/ /\ pending[p] = {}
            /\ \E w : pending'[p] = {w} /\ Fits(w)' /\ \A f \in es : Asks(f, w)
         \/ pending'[p] = {} /\ Waiter(e) /\ \A f \in es : ~Waiter(f),
         calm' => \A f \in es : Punctual(f)'
  PROVE  Shape(p)
  <1>1. \A f \in execs'[p] : \E d \in execs[p] : SameClaim(d, f) /\ d.res = f.res
    BY DEF SameClaim
  <1>2. loop[p].at # "recovering"
    BY OneWaits
  <1>3. WaitsOK(p)'
    <2>1. CASE pending'[p] = pending[p] /\ ~Waiter(e) /\ \A f \in es : ~Waiter(f)
      <3>1. WaitsOK(p)
        BY DEF LeaseInv
      <3>2. \A f \in execs'[p] : Waiter(f) => f \in execs[p]
        BY <2>1
      <3> QED
        BY <1>2, <2>1, <3>1, <3>2 DEF WaitsOK, Waiter, Asks
    <2>2. CASE /\ pending[p] = {}
               /\ \E w : pending'[p] = {w} /\ \A f \in es : Asks(f, w)
      <3>1. PICK w : pending'[p] = {w} /\ \A f \in es : Asks(f, w)
        BY <2>2
      <3>2. loop[p].at # "saving" /\ \A d \in execs[p] : ~Waiter(d)
        BY <2>2, OneWaits
      <3>3. \A f \in execs'[p] : Waiter(f) => Asks(f, w)
        BY <3>1, <3>2
      <3> QED
        BY <1>2, <3>1, <3>2, <3>3 DEF WaitsOK, Waiter, Asks
    <2>3. CASE pending'[p] = {} /\ Waiter(e) /\ \A f \in es : ~Waiter(f)
      <3>1. loop[p].at # "saving" /\ \A d \in execs[p] : Waiter(d) => d = e
        BY <2>3, OneWaits
      <3>2. \A f \in execs'[p] : ~Waiter(f)
        BY <2>3, <3>1
      <3> QED
        BY <1>2, <2>3, <3>1, <3>2 DEF WaitsOK, Waiter
    <2> QED
      BY <2>1, <2>2, <2>3
  <1>4. \A w \in pending'[p] : w \in pending[p] \/ Fits(w)'
    OBVIOUS
  <1>5. calm' => \A f \in execs'[p] : f \in execs[p] \/ Punctual(f)'
    OBVIOUS
  <1> QED
    BY <1>1, <1>3, <1>4, <1>5 DEF Shape

\* What an execution becomes while its claim and its reservation are kept.
LEMMA PunctualNext ==
  ASSUME HoldInv, LeaseInv, NEW p \in Procs, NEW e \in execs[p], UNCHANGED now, calm', calm' => calm,
         TimesOK', RowsKeepLeases, NEW f, SameClaim(e, f), f.res = e.res, f.beat \in {e.beat, now},
         f.at # "admitted", f.at = "saving" \/ (e.at # "saving" /\ Seen(f)' <= Seen(e)),
         Relies(f) => Live(f.res, Granted(f.beat))'
  PROVE  Punctual(f)'
  <1>0. now \in Nat /\ LeaseFor \in Nat /\ MaxWait \in Nat /\ BeatEvery \in Nat
    BY TimeTypes
  <1>1. Punctual(e)
    BY DEF LeaseInv, Prompt
  <1>2. f.beat \in Nat /\ f.beat <= now' /\ now' <= f.beat + BeatEvery
    BY <1>0, <1>1 DEF Punctual
  <1>3. f.at # "saving" => Leased(f, Granted(Seen(f)))'
    <2>1. e.task \in Tasks
      BY ExecRes
    <2>2. SUFFICES ASSUME f.at # "saving" PROVE Leased(f, Granted(Seen(f)))'
      OBVIOUS
    <2>3. Q!HeldBy(e.task, e.token)' /\ tasks'[e.task].lease >= Granted(Seen(e))
      BY <2>2 DEF RowsKeepLeases
    <2>4. PICK x : x = Seen(f)' /\ x \in Int
      BY <1>0, <1>2 DEF Seen
    <2>5. PICK y : y = Seen(e) /\ y \in Int
      BY <1>0, <1>1 DEF Seen, Punctual
    <2>6. tasks'[e.task].lease \in Int
      BY <2>1 DEF TimesOK
    <2>7. tasks'[e.task].lease >= Granted(x)
      BY <1>0, <2>2, <2>3, <2>4, <2>5, <2>6 DEF Granted
    <2> QED
      BY <2>3, <2>4, <2>7 DEF Leased, SameClaim, Q!HeldBy, Granted
  <1> QED
    BY <1>2, <1>3 DEF Punctual, Relies

\* A change to a row that is not RUNNING takes no lease.
LEMMA IdleRowChanges ==
  ASSUME HoldInv, LeaseInv, NEW t \in Tasks, tasks[t].status # "RUNNING",
         \A u \in Tasks \ {t} : tasks'[u] = tasks[u], calm' => calm
  PROVE  RowsKeepLeases
  <1>1. ASSUME calm', NEW q \in Procs, NEW e \in execs[q], e.at # "saving"
        PROVE  Q!HeldBy(e.task, e.token)' /\ tasks'[e.task].lease >= Granted(Seen(e))
    <2>1. Leased(e, Granted(Seen(e)))
      BY <1>1 DEF LeaseInv, Prompt, Punctual
    <2>2. e.task \in Tasks \ {t}
      BY <2>1, ExecRes DEF Leased, Q!HeldBy
    <2> QED
      BY <2>1, <2>2 DEF Leased, Q!HeldBy
  <1> QED
    BY <1>1 DEF RowsKeepLeases

\* A write that is stored takes none either: it is a heartbeat, a report of the execution
\* that had the lease, a recovery that finds another lease than the expired one it has
\* read, or the transition of a task that is not RUNNING.
LEMMA StoredWrite ==
  ASSUME HoldInv, LeaseInv, BeatEvery + MaxWait < LeaseFor, NEW p \in Procs, NEW w \in pending[p],
         Q!SaveApplied(p, w), calm' => calm /\ (loop[p].at = "recovering" \/ ~TakesAway(w)),
         NEW q \in Procs, NEW e \in execs[q], e.at # "saving", calm'
  PROVE  /\ Q!HeldBy(e.task, e.token)' /\ tasks'[e.task].lease >= Granted(Seen(e))
         /\ Waiter(e) => tasks'[e.task].lease = now + LeaseFor \/ p # q
  <1>0. now \in Nat /\ LeaseFor \in Nat /\ MaxWait \in Nat /\ BeatEvery \in Nat
    BY TimeTypes
  <1>1. /\ Leased(e, Granted(Seen(e))) /\ e.beat \in Nat /\ e.beat <= now /\ now <= e.beat + BeatEvery
    BY DEF LeaseInv, Prompt, Punctual
  <1>2. PICK x \in Int : x = Granted(Seen(e)) /\ now < x /\ x <= now + LeaseFor
    BY <1>0, <1>1 DEF Granted, Seen
  <1>3. e.task \in Tasks
    BY ExecRes
  <1>4. /\ tasks[w.task].status = w.status /\ tasks[w.task].token = w.token
        /\ w.lease # Q!NoLease => tasks[w.task].lease = w.lease
        /\ w.task \in Tasks /\ Fits(w) /\ WriteOK(w)
        /\ \A u \in Tasks : tasks'[u] = IF u = w.task THEN w.new ELSE tasks[u]
    BY DEF Q!SaveApplied, Q!Applies, LeaseInv, HoldInv, ClaimInv, RowsInv, WriteOK
  <1>5. Waiter(e) /\ p = q => e.task = w.task /\ w.op = "heartbeat"
    BY DEF LeaseInv, WaitsOK, Asks, Waiter
  <1>6. CASE e.task # w.task
    BY <1>1, <1>3, <1>4, <1>5, <1>6 DEF Leased, Q!HeldBy
  <1>7. CASE e.task = w.task
    <2>1. w.status = "RUNNING" /\ w.token = e.token
      BY <1>1, <1>4, <1>7 DEF Leased, Q!HeldBy
    <2>2. w.op # "recover"
      BY <1>0, <1>1, <1>2, <1>4, <1>7 DEF Fits, Leased
    <2>3. loop[p].at = "saving" => w.op \notin {"defer", "review", "close", "release"}
      BY <1>4, <2>1 DEF Fits, TakesAway
    <2>4. w.op = "heartbeat"
      <3>1. loop[p].at # "recovering" /\ loop[p].at # "saving"
        BY <2>2, <2>3 DEF LeaseInv, WaitsOK
      <3>2. PICK d \in execs[p] : Waiter(d)
        BY <3>1 DEF HoldInv, LifecycleInv, Own, LockOK, Waits, Waiter
      <3>3. Asks(d, w)
        BY <3>2 DEF LeaseInv, WaitsOK
      <3>4. SameClaim(d, e)
        BY <1>7, <2>1, <3>3 DEF Asks, SameClaim
      <3>5. d = e
        BY <3>4 DEF HoldInv, ClaimInv, Unique
      <3> QED
        BY <3>2, <3>3, <3>5 DEF Asks, Waiter
    <2>5. w.new.status = "RUNNING" /\ w.new.token = w.token /\ w.new.lease = now + LeaseFor
      BY <1>4, <2>4 DEF Fits, WriteOK
    <2> QED
      BY <1>2, <1>3, <1>4, <1>7, <2>1, <2>5 DEF Q!HeldBy
  <1> QED
    BY <1>6, <1>7

\* So a write that is stored leaves rows and reservations as leases need them.
LEMMA StoredKeeps ==
  ASSUME HoldInv, LeaseInv, BeatEvery + MaxWait < LeaseFor, NEW p \in Procs, NEW w \in pending[p],
         Q!SaveApplied(p, w), calm' => calm /\ (loop[p].at = "recovering" \/ ~TakesAway(w)),
         UNCHANGED <<now, book>>
  PROVE  TimesOK' /\ RowsKeepLeases /\ BookKeepsLive(p)
  <1>1. TimesOK'
    <2>1. /\ w.task \in Tasks /\ w.new.lease \in Nat
          /\ \A u \in Tasks : tasks'[u] = IF u = w.task THEN w.new ELSE tasks[u]
      BY DEF Q!SaveApplied, LeaseInv, Fits, HoldInv, ClaimInv, RowsInv, WriteOK
    <2> QED
      BY <2>1 DEF LeaseInv, TimesOK
  <1>2. RowsKeepLeases
    BY StoredWrite DEF RowsKeepLeases
  <1>3. BookKeepsLive(p)
    BY DEF BookKeepsLive, Live, B!IsActive
  <1> QED
    BY <1>1, <1>2, <1>3

----------------------------------------------------------------------------
(* What dispatchers do.                                                    *)

\* A dispatcher enters a stage that waits for nothing.
LEMMA GotoShapeOf ==
  ASSUME HoldInv, LeaseInv, NEW p \in Procs, NEW stage, Goto(p, stage),
         stage \notin {"saving", "recovering"},
         UNCHANGED <<now, tasks, book, calm, execs, pending, tickets>>
  PROVE  Shape(p)
  <1>1. PICK l : loop' = [loop EXCEPT ![p] = l] /\ l.at = stage /\ l.res = loop[p].res
    BY GotoShape DEF HoldInv
  <1>2. Only(p) /\ loop'[p] = l /\ execs'[p] = execs[p] /\ pending'[p] = pending[p]
    BY <1>1 DEF HoldInv, LifecycleInv, Only
  <1> QED
    BY <1>1, <1>2, StageShape

\* A dispatcher is done with an admission.
LEMMA NextAdmissionShapeOf ==
  ASSUME HoldInv, LeaseInv, NEW p \in Procs, NextAdmission(p),
         UNCHANGED <<now, tasks, book, calm, execs, pending, tickets>>
  PROVE  Shape(p)
  <1>1. PICK l : loop' = [loop EXCEPT ![p] = l] /\ l.at = "idle" /\ l.res = None
    BY NextAdmissionShape DEF HoldInv
  <1>2. Only(p) /\ loop'[p] = l /\ execs'[p] = execs[p] /\ pending'[p] = pending[p]
    BY <1>1 DEF HoldInv, LifecycleInv, Only
  <1> QED
    BY <1>1, <1>2, StageShape

\* The steps of a dispatcher that neither touch the budgets nor call the store.
LEMMA DispatcherShape ==
  ASSUME HoldInv, LeaseInv, NEW p \in Procs,
         \/ Open(p)
         \/ \E batch \in SUBSET Tasks : SelectBatch(p, batch)
         \/ \E t \in Tasks : Admit(p, t)
         \/ GatesAllow(p)
         \/ ClaimFails(p)
         \/ Stop(p)
  PROVE  Shape(p)
  <1>0. LoopOK(p) /\ Holds(p)
    BY DEF HoldInv, LifecycleInv, Own, ClaimInv
  <1>1. CASE Open(p)
    <2>1. PICK l : loop' = [loop EXCEPT ![p] = l] /\ l = [Idle EXCEPT !.at = "reap"]
      BY <1>1 DEF Open
    <2>2. l.at = "reap" /\ l.res = None
      BY <2>1 DEF Idle
    <2>3. UNCHANGED <<now, tasks, book, calm>>
      BY <1>1 DEF Open, budgetVars
    <2>4. Only(p) /\ loop'[p] = l /\ execs'[p] = execs[p] /\ pending'[p] = pending[p]
      BY <1>1, <2>1 DEF Open, HoldInv, LifecycleInv, Only
    <2> QED
      BY <2>2, <2>3, <2>4, StageShape
  <1>2. ASSUME NEW l, loop' = [loop EXCEPT ![p] = l], l.at \in {"idle", "gates"}, l.res = loop[p].res,
               UNCHANGED <<now, tasks, book, calm, execs, pending, tickets>>
        PROVE  Shape(p)
    <2>1. Only(p) /\ loop'[p] = l /\ execs'[p] = execs[p] /\ pending'[p] = pending[p]
      BY <1>2 DEF HoldInv, LifecycleInv, Only
    <2> QED
      BY <1>2, <2>1, StageShape
  <1>3. ASSUME NEW batch, SelectBatch(p, batch) PROVE Shape(p)
    <2>1. PICK l : loop' = [loop EXCEPT ![p] = l] /\ l = [loop[p] EXCEPT !.todo = batch]
      BY <1>3 DEF SelectBatch
    <2>2. l.at = "idle" /\ l.res = loop[p].res
      BY <1>0, <1>3, <2>1 DEF SelectBatch, LoopOK, LoopFields
    <2>3. UNCHANGED <<now, tasks, book, calm, execs, pending, tickets>>
      BY <1>3 DEF SelectBatch, queueVars, budgetVars
    <2> QED
      BY <1>2, <2>1, <2>2, <2>3
  <1>4. ASSUME NEW t \in Tasks, Admit(p, t) PROVE Shape(p)
    <2> DEFINE runnable == tasks[t].status \in Q!Waiting
    <2>1. PICK l : /\ loop' = [loop EXCEPT ![p] = l]
                   /\ l = [loop[p] EXCEPT !.todo = @ \ {t},
                             !.at = IF runnable THEN "gates" ELSE "idle",
                             !.task = IF runnable THEN t ELSE None]
      BY <1>4 DEF Admit
    <2>2. l.at \in {"idle", "gates"} /\ l.res = loop[p].res
      BY <1>0, <2>1 DEF LoopOK, LoopFields
    <2>3. UNCHANGED <<now, tasks, book, calm, execs, pending, tickets>>
      BY <1>4 DEF Admit, queueVars, budgetVars
    <2> QED
      BY <1>2, <2>1, <2>2, <2>3
  <1>5. CASE GatesAllow(p) \/ ClaimFails(p) \/ Stop(p)
    <2>1. /\ UNCHANGED <<now, tasks, book, calm, execs, pending, tickets>>
          /\ NextAdmission(p) \/ \E stage \in {"reserve", "unclaim", "stopped"} : Goto(p, stage)
      BY <1>5 DEF GatesAllow, ClaimFails, Stop, queueVars, budgetVars
    <2> QED
      BY <2>1, GotoShapeOf, NextAdmissionShapeOf
  <1> QED
    BY <1>1, <1>3, <1>4, <1>5

\* The writes that end an attempt or move a waiting task grant no lease.
LEMMA WriteLeases ==
  ASSUME HoldInv, LeaseInv, NEW t \in Tasks, NEW op, NEW by, NEW lease, NEW status, NEW time,
         op \notin {"recover", "heartbeat"}, op \in {"defer", "release"} => tasks[t].status # "RUNNING"
  PROVE  /\ Fits(Q!Write(op, t, by, lease, Q!Leave(t, status)))
         /\ Fits(Q!Write(op, t, by, lease, Q!LeaveUntil(t, status, time)))
         /\ Fits(Q!Write(op, t, by, lease,
                         [tasks[t] EXCEPT !.status = status, !.available = time]))
         /\ Fits(Q!Write(op, t, by, lease,
                         [tasks[t] EXCEPT !.available = time, !.status = status]))
  <1>1. RowFields \subseteq DOMAIN tasks[t] /\ tasks[t].lease \in Nat
    BY DEF HoldInv, ClaimInv, RowsInv, LeaseInv, TimesOK
  <1> QED
    BY <1>1 DEF Fits, Q!Write, Q!Leave, Q!LeaveUntil, Q!NoLease, RowFields

\* A refusal or an operator's decision asks for a transition.
LEMMA ControlShape ==
  ASSUME HoldInv, LeaseInv, NEW p \in Procs, NEW t \in Tasks,
         \/ \E d \in Delays : Q!Defer(p, t, d)
         \/ Q!SendToReview(p, t)
         \/ Q!Close(p, t, "BLOCKED")
         \/ Q!ReleaseReview(p, t, 0),
         Goto(p, "saving"), UNCHANGED <<execs, calm, book>>
  PROVE  Shape(p)
  <1> DEFINE asks == \E w : /\ Q!Begin(p, {w}) /\ Fits(w) /\ UNCHANGED tickets
                            /\ w.op \in {"defer", "review", "close", "release"}
  <1>a. asks
    <2>1. ASSUME NEW d \in Delays, Q!Defer(p, t, d) PROVE asks
      <3>1. tasks[t].status # "RUNNING"
        BY <2>1 DEF Q!Defer, Q!Waiting
      <3>2. PICK w : w = Q!Write("defer", t, Q!NoToken, Q!NoLease,
                               [tasks[t] EXCEPT !.status = "DEFERRED", !.available = now + d])
        OBVIOUS
      <3>3. Fits(w) /\ w.op = "defer"
        BY <3>1, <3>2, WriteLeases DEF Q!Write
      <3> QED
        BY <2>1, <3>2, <3>3 DEF Q!Defer
    <2>2. CASE Q!SendToReview(p, t)
      <3>1. PICK w : w = Q!Write("review", t, Q!NoToken, Q!NoLease, Q!Leave(t, "REVIEW"))
        OBVIOUS
      <3>2. Fits(w) /\ w.op = "review"
        BY <3>1, WriteLeases DEF Q!Write
      <3> QED
        BY <2>2, <3>1, <3>2 DEF Q!SendToReview
    <2>3. CASE Q!Close(p, t, "BLOCKED")
      <3>1. PICK w : w = Q!Write("close", t, Q!NoToken, Q!NoLease, Q!Leave(t, "BLOCKED"))
        OBVIOUS
      <3>2. Fits(w) /\ w.op = "close"
        BY <3>1, WriteLeases DEF Q!Write
      <3> QED
        BY <2>3, <3>1, <3>2 DEF Q!Close
    <2>4. CASE Q!ReleaseReview(p, t, 0)
      <3>1. tasks[t].status # "RUNNING"
        BY <2>4 DEF Q!ReleaseReview
      <3>2. PICK w : w = Q!Write("release", t, Q!NoToken, Q!NoLease,
                               [tasks[t] EXCEPT !.available = now + 0,
                                  !.status = IF 0 = 0 THEN "PENDING" ELSE "DEFERRED"])
        OBVIOUS
      <3>3. Fits(w) /\ w.op = "release"
        BY <3>1, <3>2, WriteLeases DEF Q!Write
      <3> QED
        BY <2>4, <3>2, <3>3 DEF Q!ReleaseReview
    <2> QED
      BY <2>1, <2>2, <2>3, <2>4
  <1>1. PICK w : /\ Q!Begin(p, {w}) /\ Fits(w) /\ UNCHANGED tickets
                 /\ w.op \in {"defer", "review", "close", "release"}
    BY <1>a
  <1>2. UNCHANGED <<now, tasks>> /\ pending[p] = {} /\ pending' = [pending EXCEPT ![p] = {w}]
    BY <1>1 DEF Q!Begin
  <1>3. PICK l : loop' = [loop EXCEPT ![p] = l] /\ l.at = "saving" /\ l.res = loop[p].res
    BY GotoShape DEF HoldInv
  <1>4. PICK ws : ws = {w}
    OBVIOUS
  <1>5. Only(p) /\ loop'[p] = l /\ execs'[p] = execs[p] /\ pending'[p] = ws
    BY <1>1, <1>2, <1>3, <1>4 DEF HoldInv, LifecycleInv, Only
  <1>6. \A v \in ws : Fits(v)'
    BY <1>1, <1>2, <1>4 DEF Fits
  <1>7. ws # {} /\ \A v \in ws : v.op \in {"defer", "review", "close", "release"}
    BY <1>1, <1>4
  <1> QED
    BY <1>2, <1>3, <1>5, <1>6, <1>7, AskingShape

\* Recovery asks for what it has found expired.
LEMMA RecoverShape ==
  ASSUME HoldInv, LeaseInv, NEW p \in Procs, RecoverTasks(p)
  PROVE  Shape(p)
  <1>1. UNCHANGED <<book, execs, calm>> /\ loop[p].at = "recover"
    BY DEF RecoverTasks, budgetVars
  <1>2. CASE Goto(p, "idle") /\ UNCHANGED <<now, queueVars>>
    BY <1>1, <1>2, GotoShapeOf DEF queueVars
  <1>3. ASSUME NEW n \in Q!Readings, NEW d \in Delays, Q!Recover(p, n, d), Goto(p, "recovering")
        PROVE  Shape(p)
    <2> DEFINE write(t) == Q!Write("recover", t, Q!NoToken, tasks[t].lease, Q!Recovered(t, n + d))
    <2>1. PICK ws : ws = {write(t) : t \in {u \in Tasks : Q!Expired(u, n)}}
      OBVIOUS
    <2>2. /\ UNCHANGED <<now, tasks, tickets>> /\ pending[p] = {}
          /\ pending' = [pending EXCEPT ![p] = ws]
      BY <1>3, <2>1 DEF Q!Recover, Q!Begin
    <2>3. n \in Int /\ n <= now /\ now \in Nat
      BY TimeTypes DEF Q!Readings
    <2>4. ASSUME NEW t \in Tasks, Q!Expired(t, n) PROVE Fits(write(t)) /\ write(t).op = "recover"
      <3>1. RowFields \subseteq DOMAIN tasks[t] /\ tasks[t].lease \in Nat
        BY DEF HoldInv, ClaimInv, RowsInv, LeaseInv, TimesOK
      <3>2. tasks[t].lease # Q!NoLease /\ tasks[t].lease <= now
        BY <2>3, <2>4, <3>1 DEF Q!Expired
      <3>3. Q!Recovered(t, n + d).lease \in Nat
        BY <3>1 DEF Q!Recovered, Q!Leave, Q!LeaveUntil, Q!NoLease, RowFields
      <3> QED
        BY <3>1, <3>2, <3>3 DEF Fits, Q!Write
    <2>5. PICK l : loop' = [loop EXCEPT ![p] = l] /\ l.at = "recovering" /\ l.res = loop[p].res
      BY <1>3, GotoShape DEF HoldInv
    <2>6. Only(p) /\ loop'[p] = l /\ execs'[p] = execs[p] /\ pending'[p] = ws
      BY <1>1, <2>2, <2>5 DEF HoldInv, LifecycleInv, Only
    <2>7. \A w \in ws : Fits(w) /\ w.op = "recover"
      BY <2>1, <2>4
    <2>8. \A w \in ws : Fits(w)'
      BY <1>1, <2>2, <2>7 DEF Fits
    <2> QED
      BY <1>1, <2>2, <2>5, <2>6, <2>7, <2>8, AskingShape
  <1> QED
    BY <1>2, <1>3 DEF RecoverTasks

\* Settling takes no reservation but those it is given, and changes no time.
LEMMA SettleKeeps ==
  ASSUME HoldInv, LeaseInv, NEW rs, NEW state, B!Settle(rs, state)
  PROVE  /\ \A r \in Reservations : book'[r].expires = book[r].expires
         /\ \A r \in Reservations \ rs : book'[r].state = book[r].state
  BY DEF B!Settle, HoldInv, ClaimInv, BookInv

\* Reservations that are reaped are not live.
LEMMA ReapShape ==
  ASSUME HoldInv, LeaseInv, NEW p \in Procs, ReapBudgets(p)
  PROVE  Shape(p)
  <1>1. Goto(p, "recover") /\ UNCHANGED <<now, tasks, pending, tickets, execs, calm>>
    BY DEF ReapBudgets, queueVars
  <1>2. PICK n \in B!Readings : B!ReapExpired(n) \/ UNCHANGED book
    BY DEF ReapBudgets, budgetVars
  <1>3. CASE UNCHANGED book
    BY <1>1, <1>3, GotoShapeOf
  <1>4. CASE B!ReapExpired(n)
    <2>1. PICK rs : rs = B!Overdue(n) /\ B!Settle(rs, "EXPIRED")
      BY <1>4 DEF B!ReapExpired
    <2>2. /\ \A r \in Reservations : book'[r].expires = book[r].expires
          /\ \A r \in Reservations \ rs : book'[r].state = book[r].state
      BY <2>1, SettleKeeps
    <2>3. n \in Int /\ n <= now /\ now \in Nat /\ \A r \in Reservations : book[r].expires \in Nat
      BY TimeTypes DEF B!Readings, LeaseInv, TimesOK
    <2>4. \A r \in Reservations : r \in rs => book[r].expires <= now
      BY <2>1, <2>3 DEF B!Overdue
    <2>5. BookKeepsLive(p)
      BY <2>2, <2>3, <2>4 DEF BookKeepsLive, Live, B!IsActive
    <2>6. TimesOK'
      BY <1>1, <2>2 DEF LeaseInv, TimesOK
    <2>7. RowsKeepLeases
      BY <1>1 DEF LeaseInv, Prompt, Punctual, RowsKeepLeases, Leased, Q!HeldBy
    <2>8. PICK l : loop' = [loop EXCEPT ![p] = l] /\ l.at = "recover" /\ l.res = loop[p].res
      BY <1>1, GotoShape DEF HoldInv
    <2>9. Only(p) /\ loop'[p] = l /\ execs'[p] = execs[p] /\ pending'[p] = pending[p]
      BY <1>1, <2>8 DEF HoldInv, LifecycleInv, Only
    <2>10. WaitsOK(p)'
      BY <2>8, <2>9 DEF LeaseInv, WaitsOK, Asks, Waiter
    <2> QED
      BY <1>1, <2>5, <2>6, <2>7, <2>8, <2>9, <2>10, LoopShape
  <1> QED
    BY <1>2, <1>3, <1>4

\* A reservation is made with a reading of the clock that is at most MaxWait old.
LEMMA ReserveShape ==
  ASSUME HoldInv, LeaseInv, NEW p \in Procs, Reserve(p)
  PROVE  Shape(p)
  <1> DEFINE d == DemandOf[loop[p].task]
             lane == LaneOf[loop[p].task]
  <1>1. UNCHANGED <<now, tasks, pending, tickets, execs, calm>>
    BY DEF Reserve, queueVars
  <1>2. ASSUME NEW r \in Reservations, NEW n \in B!Readings, B!Reserve(r, d, lane, n),
               loop' = [loop EXCEPT ![p].at = "claim", ![p].res = r]
        PROVE  Shape(p)
    <2>1. PICK l : loop' = [loop EXCEPT ![p] = l] /\ l = [loop[p] EXCEPT !.at = "claim", !.res = r]
      BY <1>2
    <2>2. l.at = "claim" /\ l.res = r
      BY <2>1 DEF HoldInv, LifecycleInv, Own, LoopOK, LoopFields
    <2>3. n \in Nat /\ n <= now /\ now - n <= MaxWait
      BY TimeTypes DEF B!Readings
    <2>4. /\ book[r].state = "FREE" /\ book'[r].state = "ACTIVE" /\ book'[r].expires = n + LeaseFor
          /\ \A s \in Reservations \ {r} : book'[s] = book[s]
      BY <1>2 DEF B!Reserve, B!Free, HoldInv, ClaimInv, BookInv
    <2>5. Live(r, Granted(now))'
      BY <1>1, <2>3, <2>4, TimeTypes DEF Live, Granted, B!IsActive
    <2>6. BookKeepsLive(p)
      BY <2>4 DEF BookKeepsLive, Live, B!IsActive
    <2>7. TimesOK'
      <3>1. book'[r].expires \in Nat
        BY <2>3, <2>4, TimeTypes
      <3> QED
        BY <1>1, <2>4, <3>1 DEF LeaseInv, TimesOK
    <2>8. RowsKeepLeases
      BY <1>1 DEF LeaseInv, Prompt, Punctual, RowsKeepLeases, Leased, Q!HeldBy
    <2>9. Only(p) /\ loop'[p] = l /\ execs'[p] = execs[p] /\ pending'[p] = pending[p]
      BY <1>1, <2>1 DEF HoldInv, LifecycleInv, Only
    <2>10. WaitsOK(p)'
      BY <2>2, <2>9 DEF LeaseInv, WaitsOK, Asks, Waiter
    <2>11. Live(loop[p].res, Granted(now))'
      BY <2>2, <2>5, <2>9 DEF Live, Granted, B!IsActive
    <2> QED
      BY <1>1, <2>2, <2>4, <2>6, <2>7, <2>8, <2>9, <2>10, <2>11, LoopShape
  <1>3. ASSUME NEW stage \in {"claim", "denied", "capacity"}, Goto(p, stage), UNCHANGED book
        PROVE  Shape(p)
    BY <1>1, <1>3, GotoShapeOf
  <1>4. \/ \E r \in Reservations, n \in B!Readings :
             /\ B!Reserve(r, d, lane, n)
             /\ loop' = [loop EXCEPT ![p].at = "claim", ![p].res = r]
        \/ UNCHANGED book /\ \E stage \in {"claim", "denied", "capacity"} : Goto(p, stage)
    <2> HIDE DEF d, lane
    <2> QED
      BY DEF Reserve, d, lane, budgetVars
  <1> QED
    BY <1>2, <1>3, <1>4

\* An admission that could not claim its task releases its own reservation.
LEMMA UnclaimShape ==
  ASSUME HoldInv, LeaseInv, NEW p \in Procs, Unclaim(p)
  PROVE  Shape(p)
  <1>1. UNCHANGED <<now, tasks, pending, tickets, execs, calm>> /\ loop[p].at = "unclaim"
    BY DEF Unclaim, queueVars
  <1>2. PICK r : r = loop[p].res /\ B!Settle({r}, "RELEASED") /\ r # None
    BY <1>1 DEF Unclaim, B!Release, HoldInv, LifecycleInv, Own, LoopOK
  <1>3. /\ \A s \in Reservations : book'[s].expires = book[s].expires
        /\ \A s \in Reservations \ {r} : book'[s].state = book[s].state
    BY <1>2, SettleKeeps
  <1>4. PICK l : loop' = [loop EXCEPT ![p] = l] /\ l.at = "idle" /\ l.res = None
    BY NextAdmissionShape DEF Unclaim, HoldInv
  <1>5. Only(p) /\ loop'[p] = l /\ execs'[p] = execs[p] /\ pending'[p] = pending[p]
    BY <1>1, <1>4 DEF HoldInv, LifecycleInv, Only
  <1>6. BookKeepsLive(p)
    BY <1>2, <1>3, <1>4, <1>5 DEF BookKeepsLive, Live, B!IsActive
  <1>7. TimesOK'
    BY <1>1, <1>3 DEF LeaseInv, TimesOK
  <1>8. RowsKeepLeases
    BY <1>1 DEF LeaseInv, Prompt, Punctual, RowsKeepLeases, Leased, Q!HeldBy
  <1>9. WaitsOK(p)'
    BY <1>4, <1>5 DEF LeaseInv, WaitsOK, Asks, Waiter
  <1> QED
    BY <1>1, <1>4, <1>5, <1>6, <1>7, <1>8, <1>9, LoopShape

\* A claim grants a lease, and takes over what was reserved for it.
LEMMA ClaimShape ==
  ASSUME HoldInv, LeaseInv, BeatEvery + MaxWait < LeaseFor, NEW p \in Procs, Claim(p)
  PROVE  Shape(p)
  <1> DEFINE t == loop[p].task
  <1>1. loop[p].at = "claim" /\ UNCHANGED <<book, calm>>
    BY DEF Claim, budgetVars
  <1>2. t \in Tasks
    BY <1>1 DEF HoldInv, LifecycleInv, Own, LoopOK, Admitting
  <1>3. PICK n \in Q!Readings : Q!Claim(p, t, n)
    BY DEF Claim
  <1>4. n \in Nat /\ n <= now /\ now - n <= MaxWait
    BY TimeTypes DEF Q!Readings
  <1>5. /\ UNCHANGED <<now, pending>> /\ tasks[t].status # "RUNNING"
        /\ tickets' = [tickets EXCEPT ![p] = @ \cup {<<t, issued'[t]>>}]
    BY <1>3 DEF Q!Claim, Q!Claimable, Q!Waiting
  <1>6. PICK f : /\ f = [task |-> t, token |-> issued'[t], res |-> loop[p].res,
                         at |-> "admitted", beat |-> now, ending |-> "none"]
                 /\ execs' = [execs EXCEPT ![p] = @ \cup {f}]
    BY DEF Claim
  <1>7. PICK l : loop' = [loop EXCEPT ![p] = l] /\ l.at = "idle" /\ l.res = None
    BY NextAdmissionShape DEF Claim, HoldInv
  <1>8. /\ f.task = t /\ f.token = issued'[t] /\ f.res = loop[p].res /\ f.at = "admitted"
        /\ f.beat = now
    BY <1>6
  <1>9. /\ tasks'[t].status = "RUNNING" /\ tasks'[t].token = issued'[t]
        /\ tasks'[t].lease = n + LeaseFor /\ \A u \in Tasks \ {t} : tasks'[u] = tasks[u]
    BY <1>2, <1>3 DEF Q!Claim, HoldInv, ClaimInv, RowsInv, RowFields
  <1> HIDE DEF t
  <1>10. /\ Only(p) /\ loop'[p] = l /\ execs'[p] = execs[p] \cup {f} /\ pending'[p] = pending[p]
    BY <1>5, <1>6, <1>7 DEF HoldInv, LifecycleInv, Only
  <1>11. RowsKeepLeases
    BY <1>1, <1>2, <1>5, <1>9, IdleRowChanges
  <1>12. TimesOK'
    <2>1. tasks'[t].lease \in Nat
      BY <1>4, <1>9, TimeTypes
    <2> QED
      BY <1>1, <1>5, <1>9, <2>1 DEF LeaseInv, TimesOK
  <1>13. BookKeepsLive(p)
    BY <1>1, <1>5 DEF BookKeepsLive, Live, B!IsActive
  <1>14. calm' => Punctual(f)'
    <2> SUFFICES ASSUME calm' PROVE Punctual(f)'
      OBVIOUS
    <2>1. now \in Nat /\ LeaseFor \in Nat /\ MaxWait \in Nat /\ BeatEvery \in Nat
      BY TimeTypes
    <2>2. f.beat \in Nat /\ f.beat <= now' /\ now' <= f.beat + BeatEvery /\ f.beat = now'
      BY <1>5, <1>8, <2>1
    <2>3. Leased(f, Granted(Seen(f)))'
      BY <1>4, <1>5, <1>8, <1>9, <2>1 DEF Leased, Granted, Seen, Q!HeldBy
    <2>4. Relies(f) => Live(f.res, Granted(f.beat))'
      BY <1>1, <1>5, <1>8 DEF Relies, LeaseInv, Prompt, Live, Granted, B!IsActive
    <2> QED
      BY <2>2, <2>3, <2>4 DEF Punctual, Relies
  <1>15. WaitsOK(p)'
    BY <1>7, <1>8, <1>10 DEF LeaseInv, WaitsOK, Asks, Waiter
  <1>16. \A g \in execs'[p] :
           \/ \E e \in execs[p] : SameClaim(e, g) /\ e.res = g.res
           \/ g.res = loop[p].res /\ loop'[p].res = None /\ execs'[p] = execs[p] \cup {g}
    BY <1>7, <1>8, <1>10 DEF SameClaim
  <1>17. \A w \in pending'[p] : w \in pending[p]
    BY <1>10
  <1>18. calm' \in BOOLEAN /\ (calm' => calm) /\ now' = now /\ loop'[p].res = None
    BY <1>1, <1>5, <1>7, <1>10 DEF LeaseInv
  <1> QED
    BY <1>10, <1>11, <1>12, <1>13, <1>14, <1>15, <1>16, <1>17, <1>18 DEF Shape

\* The tickets of a batch become executions at the time of their claims.
LEMMA StartShape ==
  ASSUME HoldInv, LeaseInv, NEW p \in Procs, StartBatch(p)
  PROVE  Shape(p)
  <1> DEFINE started(e) == IF e.at = "admitted" THEN [e EXCEPT !.at = "working", !.beat = now]
                                                ELSE e
             es == {started(e) : e \in execs[p]}
  <1>1. execs' = [execs EXCEPT ![p] = es]
        /\ UNCHANGED <<now, tasks, loop, pending, tickets, book, calm>>
    BY DEF StartBatch, queueVars, budgetVars
  <1>2. \A e \in execs[p] : ExecOK(e)
    BY DEF HoldInv, LifecycleInv, Own
  <1>3. ASSUME NEW e \in execs[p]
        PROVE  /\ SameClaim(e, started(e)) /\ started(e).res = e.res
               /\ \/ started(e) = e
                  \/ started(e).at = "working" /\ started(e).beat = now /\ e.at = "admitted"
    BY <1>2 DEF ExecOK, ExecFields, SameClaim
  <1>4. Only(p) /\ execs'[p] = es /\ loop'[p] = loop[p] /\ pending'[p] = pending[p]
    BY <1>1 DEF HoldInv, LifecycleInv, Only
  <1> HIDE DEF started
  <1>5. TimesOK' /\ RowsKeepLeases /\ BookKeepsLive(p)
    BY <1>1, StillKeeps
  <1>6. WaitsOK(p)'
    <2>1. \A f \in execs'[p] : Waiter(f) => f \in execs[p]
      BY <1>3, <1>4 DEF Waiter
    <2> QED
      BY <1>4, <2>1 DEF LeaseInv, WaitsOK, Asks, Waiter
  <1>7. ASSUME calm', NEW e \in execs[p], NEW f, f = started(e), f # e PROVE Punctual(f)'
    <2>2. Punctual(e)
      BY <1>1, <1>7 DEF LeaseInv, Prompt
    <2>3. f.at = "working" /\ f.beat = now /\ e.at = "admitted" /\ SameClaim(e, f) /\ f.res = e.res
          /\ e.beat = now
      BY <1>3, <1>7, <2>2 DEF Punctual
    <2>4. Relies(f) => Live(f.res, Granted(f.beat))'
      BY <1>1, <2>2, <2>3 DEF Relies, Punctual, Live, Granted, B!IsActive
    <2>5. Seen(f)' <= Seen(e)
      BY <1>1, <2>3, TimeTypes DEF Seen
    <2> QED
      BY <1>1, <1>5, <1>7, <2>3, <2>4, <2>5, PunctualNext
  <1>8. ASSUME calm', NEW f \in execs'[p], f \notin execs[p] PROVE Punctual(f)'
    <2>1. PICK e \in execs[p] : f = started(e)
      BY <1>4
    <2> QED
      BY <1>7, <1>8, <2>1
  <1>9. \A f \in execs'[p] : \E e \in execs[p] : SameClaim(e, f) /\ e.res = f.res
    BY <1>3, <1>4
  <1>10. now' = now /\ calm' \in BOOLEAN /\ (calm' => calm) /\ loop'[p].res = loop[p].res
         /\ \A w \in pending'[p] : w \in pending[p]
    BY <1>1, <1>4 DEF LeaseInv
  <1> QED
    BY <1>4, <1>5, <1>6, <1>8, <1>9, <1>10 DEF Shape

\* A run that ends, and a process that dies, take nothing from other workers.
LEMMA EndShape ==
  ASSUME HoldInv, LeaseInv, NEW p \in Procs,
         \/ \E cause, remaining : remaining \subseteq execs[p] /\ EndRun(p, cause, remaining)
         \/ Crash(p)
  PROVE  Shape(p)
  <1> DEFINE leaves == \E l : /\ loop' = [loop EXCEPT ![p] = l]
                              /\ l.at \in {"ending", "off"} /\ l.res = None
             remains == \E es : /\ execs' = [execs EXCEPT ![p] = es] /\ es \subseteq execs[p]
                                /\ Crash(p) => es = {}
  <1>1. leaves
    <2>1. ASSUME NEW cause, loop' = [loop EXCEPT ![p] = [Idle EXCEPT !.at = "ending", !.cause = cause]]
          PROVE leaves
      <3>1. PICK l : l = [Idle EXCEPT !.at = "ending", !.cause = cause]
        OBVIOUS
      <3>2. l.at = "ending" /\ l.res = None
        BY <3>1 DEF Idle
      <3> QED
        BY <2>1, <3>1, <3>2
    <2>2. CASE Crash(p)
      <3>1. PICK l : l = [Idle EXCEPT !.at = "off"]
        OBVIOUS
      <3>2. l.at = "off" /\ l.res = None
        BY <3>1 DEF Idle
      <3> QED
        BY <2>2, <3>1, <3>2 DEF Crash
    <2> QED
      BY <2>1, <2>2 DEF EndRun
  <1>2. PICK l : /\ loop' = [loop EXCEPT ![p] = l] /\ l.at \in {"ending", "off"} /\ l.res = None
    BY <1>1
  <1>a. remains
    <2>1. CASE Crash(p)
      <3>1. PICK es : es = {}
        OBVIOUS
      <3>2. execs' = [execs EXCEPT ![p] = es] /\ es \subseteq execs[p] /\ (Crash(p) => es = {})
        BY <2>1, <3>1 DEF Crash
      <3> QED
        BY <3>2
    <2>2. ASSUME NEW cause, NEW remaining \in SUBSET execs[p], EndRun(p, cause, remaining), ~Crash(p)
          PROVE remains
      <3>1. execs' = [execs EXCEPT ![p] = {e \in remaining : e.at # "admitted"}]
        BY <2>2 DEF EndRun
      <3>2. {e \in remaining : e.at # "admitted"} \subseteq execs[p]
        BY <2>2
      <3> QED
        BY <2>2, <3>1, <3>2
    <2> HIDE DEF remains
    <2>3. \A cause : \A remaining \in SUBSET execs[p] : EndRun(p, cause, remaining) => remains
      BY <2>1, <2>2
    <2> QED
      BY <2>1, <2>3
  <1>3. PICK es : execs' = [execs EXCEPT ![p] = es] /\ es \subseteq execs[p] /\ (Crash(p) => es = {})
    BY <1>a
  <1>4. /\ UNCHANGED <<now, tasks, book, calm>>
        /\ \/ pending' = [pending EXCEPT ![p] = {}] /\ (loop[p].at = "saving" \/ Crash(p))
           \/ UNCHANGED pending
    BY DEF EndRun, Crash, budgetVars
  <1>5. /\ Only(p) /\ loop'[p] = l /\ execs'[p] = es
        /\ \/ pending'[p] = {} /\ (loop[p].at = "saving" \/ es = {})
           \/ pending'[p] = pending[p]
    BY <1>2, <1>3, <1>4 DEF EndRun, Crash, HoldInv, LifecycleInv, Only
  <1>6. WaitsOK(p)'
    <2>1. loop[p].at = "saving" => \A e \in execs[p] : ~Waiter(e)
      BY OneWaits
    <2> QED
      BY <1>2, <1>3, <1>5, <2>1 DEF LeaseInv, WaitsOK, Asks, Waiter
  <1>7. \A f \in execs'[p] : f \in execs[p]
    BY <1>3, <1>5
  <1>8. TimesOK' /\ RowsKeepLeases /\ BookKeepsLive(p)
    BY <1>4, StillKeeps
  <1>9. now' = now /\ calm' \in BOOLEAN /\ (calm' => calm) /\ loop'[p].res = None
        /\ \A w \in pending'[p] : w \in pending[p]
    BY <1>2, <1>4, <1>5 DEF LeaseInv
  <1> QED
    BY <1>5, <1>6, <1>7, <1>8, <1>9 DEF Shape, SameClaim

\* A new task is not RUNNING.
LEMMA SubmitShape ==
  ASSUME HoldInv, LeaseInv, NEW p \in Procs, NEW t \in Tasks, NEW k \in Keys, NEW r \in Runs,
         Submit(p, t, k, r)
  PROVE  Shape(p)
  <1>1. UNCHANGED <<now, book, calm, loop, execs, pending, tickets>>
    BY DEF Submit, Q!Enqueue, budgetVars
  <1>2. /\ tasks' = [tasks EXCEPT ![t] = Q!NewTask(k, r)] /\ tasks[t].status # "RUNNING"
    BY DEF Submit, Q!Enqueue, Q!Exists
  <1>3. \A u \in Tasks \ {t} : tasks'[u] = tasks[u]
    BY <1>2 DEF HoldInv, ClaimInv, RowsInv
  <1>4. tasks'[t].lease \in Nat
    BY <1>2 DEF HoldInv, ClaimInv, RowsInv, Q!NewTask, Q!NoLease
  <1>5. TimesOK'
    BY <1>1, <1>3, <1>4 DEF LeaseInv, TimesOK
  <1>6. RowsKeepLeases
    BY <1>1, <1>2, <1>3, IdleRowChanges
  <1>7. BookKeepsLive(p)
    BY <1>1 DEF BookKeepsLive, Live, B!IsActive
  <1>8. WaitsOK(p)'
    BY <1>1 DEF LeaseInv, WaitsOK, Asks, Waiter
  <1>9. Only(p)
    BY <1>1 DEF Only
  <1> QED
    BY <1>1, <1>5, <1>6, <1>7, <1>8, <1>9, LoopShape

\* A phase of an execution that keeps its claim and the time of its last heartbeat.
LEMMA PhaseShape ==
  ASSUME HoldInv, LeaseInv, NEW p \in Procs, NEW e \in execs[p], NEW f, Step(p, e, f),
         SameClaim(e, f), f.res = e.res, f.beat = e.beat, ~Waiter(f),
         f.at \in {"charging", "finishing"}, e.at \notin {"saving", "admitted"},
         UNCHANGED <<now, calm, loop>>, Only(p), TimesOK', RowsKeepLeases, BookKeepsLive(p),
         \/ pending'[p] = pending[p] /\ ~Waiter(e)
         \/ pending'[p] = {} /\ Waiter(e),
         Relies(f) => Relies(e) /\ UNCHANGED book
  PROVE  Shape(p)
  <1>1. PICK es : es = {f}
    OBVIOUS
  <1>2. execs'[p] = (execs[p] \ {e}) \cup es /\ loop'[p] = loop[p] /\ calm' \in BOOLEAN
    BY <1>1 DEF Step, HoldInv, LifecycleInv, LeaseInv
  <1>3. calm' => Punctual(f)'
    <2> SUFFICES ASSUME calm' PROVE Punctual(f)'
      OBVIOUS
    <2>1. Punctual(e)
      BY DEF LeaseInv, Prompt
    <2>2. Relies(f) => Live(f.res, Granted(f.beat))'
      BY <2>1 DEF Punctual, Live, Granted, B!IsActive
    <2>3. Seen(f)' <= Seen(e)
      BY <2>1, TimeTypes DEF Seen, Punctual
    <2> QED
      BY <2>2, <2>3, PunctualNext
  <1>4. \/ pending'[p] = pending[p] /\ ~Waiter(e) /\ \A g \in es : ~Waiter(g)
        \/ /\ pending[p] = {}
           /\ \E w : pending'[p] = {w} /\ Fits(w)' /\ \A g \in es : Asks(g, w)
        \/ pending'[p] = {} /\ Waiter(e) /\ \A g \in es : ~Waiter(g)
    BY <1>1
  <1>5. \A g \in es : SameClaim(e, g) /\ g.res = e.res
    BY <1>1
  <1>6. calm' => \A g \in es : Punctual(g)'
    BY <1>1, <1>3
  <1> QED
    BY <1>2, <1>4, <1>5, <1>6, ExecShape

\* An execution asks the store: it beats, or reports.
LEMMA CallShape ==
  ASSUME HoldInv, LeaseInv, NEW p \in Procs, NEW e \in execs[p], NEW f, Step(p, e, f),
         SameClaim(e, f), f.res = e.res, f.beat = e.beat, f.at \in {"beating", "saving"},
         e.at \in {"working", "finishing"}, f.at = "beating" => e.at = "working",
         UNCHANGED <<now, tasks, book, calm, loop>>, Only(p),
         NEW w, pending[p] = {}, pending'[p] = {w}, Fits(w), Asks(f, w)
  PROVE  Shape(p)
  <1>1. PICK es : es = {f}
    OBVIOUS
  <1>2. execs'[p] = (execs[p] \ {e}) \cup es /\ loop'[p] = loop[p] /\ calm' \in BOOLEAN
    BY <1>1 DEF Step, HoldInv, LifecycleInv, LeaseInv
  <1>3. TimesOK' /\ RowsKeepLeases /\ BookKeepsLive(p)
    BY StillKeeps
  <1>4. calm' => Punctual(f)'
    <2> SUFFICES ASSUME calm' PROVE Punctual(f)'
      OBVIOUS
    <2>1. Punctual(e)
      BY DEF LeaseInv, Prompt
    <2>2. Relies(f) => Live(f.res, Granted(f.beat))'
      BY <2>1 DEF Punctual, Relies, Working, Live, Granted, B!IsActive
    <2>3. Seen(f)' <= Seen(e)
      BY <2>1, TimeTypes DEF Seen, Punctual
    <2> QED
      BY <1>3, <2>2, <2>3, PunctualNext
  <1>5. Fits(w)'
    BY DEF Fits
  <1>6. \/ pending'[p] = pending[p] /\ ~Waiter(e) /\ \A g \in es : ~Waiter(g)
        \/ /\ pending[p] = {}
           /\ \E v : pending'[p] = {v} /\ Fits(v)' /\ \A g \in es : Asks(g, v)
        \/ pending'[p] = {} /\ Waiter(e) /\ \A g \in es : ~Waiter(g)
    BY <1>1, <1>5
  <1>7. \A g \in es : SameClaim(e, g) /\ g.res = e.res
    BY <1>1
  <1>8. calm' => \A g \in es : Punctual(g)'
    BY <1>1, <1>4
  <1> QED
    BY <1>2, <1>3, <1>6, <1>7, <1>8, ExecShape

\* An execution is over.
LEMMA OverShape ==
  ASSUME HoldInv, LeaseInv, NEW p \in Procs, NEW e \in execs[p], Gone(p, e),
         UNCHANGED <<now, loop>>, calm' => calm, calm' \in BOOLEAN,
         Only(p), TimesOK', RowsKeepLeases, BookKeepsLive(p),
         \/ pending'[p] = pending[p] /\ ~Waiter(e)
         \/ pending'[p] = {} /\ Waiter(e)
  PROVE  Shape(p)
  <1>1. PICK es : es = {}
    OBVIOUS
  <1>2. execs'[p] = (execs[p] \ {e}) \cup es /\ loop'[p] = loop[p]
    BY <1>1 DEF Gone, HoldInv, LifecycleInv
  <1>3. /\ \A f \in es : SameClaim(e, f) /\ f.res = e.res
        /\ calm' => \A f \in es : Punctual(f)'
        /\ \/ pending'[p] = pending[p] /\ ~Waiter(e) /\ \A f \in es : ~Waiter(f)
           \/ pending'[p] = {} /\ Waiter(e) /\ \A f \in es : ~Waiter(f)
    BY <1>1
  <1> QED
    BY <1>2, <1>3, ExecShape

----------------------------------------------------------------------------
(* What executions do, and what they are told.                             *)

\* A heartbeat asks for a lease from now on.
LEMMA BeatShape ==
  ASSUME HoldInv, LeaseInv, NEW p \in Procs, NEW e \in execs[p], Beat(p, e)
  PROVE  Shape(p)
  <1>0. ExecOK(e)
    BY DEF HoldInv, LifecycleInv, Own
  <1>1. PICK f : f = [e EXCEPT !.at = "beating"] /\ Step(p, e, f)
    BY DEF Beat
  <1>2. SameClaim(e, f) /\ f.res = e.res /\ f.at = "beating" /\ f.beat = e.beat
    BY <1>0, <1>1 DEF ExecOK, ExecFields, SameClaim
  <1>3. PICK w : w = Q!Write("heartbeat", e.task, e.token, Q!NoLease,
                             [tasks[e.task] EXCEPT !.lease = now + LeaseFor])
    OBVIOUS
  <1>4. /\ e.at = "working" /\ Q!Begin(p, {w}) /\ Q!HeldBy(e.task, e.token)
        /\ UNCHANGED <<tickets, book, loop, calm>>
    BY <1>3 DEF Beat, Q!Heartbeat, budgetVars
  <1>5. UNCHANGED <<now, tasks>> /\ pending[p] = {} /\ pending' = [pending EXCEPT ![p] = {w}]
    BY <1>4 DEF Q!Begin
  <1>6. Only(p) /\ pending'[p] = {w}
    BY <1>1, <1>4, <1>5 DEF HoldInv, LifecycleInv, Only, Step
  <1>7. RowFields \subseteq DOMAIN tasks[e.task]
    BY <1>0 DEF HoldInv, ClaimInv, RowsInv, ExecOK
  <1>8. /\ w.op = "heartbeat" /\ w.task = e.task /\ w.token = e.token
        /\ w.new.status = "RUNNING" /\ w.new.lease = now + LeaseFor
    BY <1>3, <1>4, <1>7 DEF Q!Write, Q!HeldBy, RowFields
  <1>9. Fits(w) /\ Asks(f, w)
    BY <1>2, <1>8, TimeTypes DEF Fits, Asks, SameClaim
  <1> QED
    BY <1>1, <1>2, <1>4, <1>5, <1>6, <1>9, CallShape

\* The reservation is renewed from now on, and the heartbeat is over.
LEMMA RenewShape ==
  ASSUME HoldInv, LeaseInv, NEW p \in Procs, NEW e \in execs[p], RenewBudget(p, e)
  PROVE  Shape(p)
  <1>0. ExecOK(e) /\ e.at = "renewing" /\ e.res \in Reservations
    BY DEF HoldInv, LifecycleInv, Own, ExecOK, RenewBudget
  <1>1. PICK f : f = [e EXCEPT !.at = "working", !.beat = now] /\ Step(p, e, f)
    BY DEF RenewBudget
  <1>2. SameClaim(e, f) /\ f.res = e.res /\ f.at = "working" /\ f.beat = now
    BY <1>0, <1>1 DEF ExecOK, ExecFields, SameClaim
  <1>3. /\ UNCHANGED <<now, tasks, pending, tickets, loop, calm>>
        /\ \E n \in B!Readings : B!Renew(e.res, n)
    BY DEF RenewBudget, queueVars
  <1>4. /\ B!IsActive(e.res)' /\ book'[e.res].expires \in Nat
        /\ book'[e.res].expires >= Granted(now)
        /\ \A r \in Reservations : book'[r].state = book[r].state
        /\ \A r \in Reservations \ {e.res} : book'[r] = book[r]
    <2>1. PICK n \in B!Readings : B!Renew(e.res, n)
      BY <1>3
    <2>2. n \in Nat /\ now - n <= MaxWait /\ now \in Nat /\ MaxWait \in Nat /\ LeaseFor \in Nat
      BY TimeTypes, ClockAssumption DEF B!Readings
    <2>3. book' = [book EXCEPT ![e.res].expires = n + LeaseFor] /\ B!IsActive(e.res)
      BY <2>1 DEF B!Renew
    <2>4. book'[e.res].expires = n + LeaseFor
      BY <1>0, <2>3 DEF B!IsActive, HoldInv, ClaimInv, BookInv
    <2>5. /\ B!IsActive(e.res)'
          /\ \A r \in Reservations : book'[r].state = book[r].state
          /\ \A r \in Reservations \ {e.res} : book'[r] = book[r]
      BY <1>0, <2>3 DEF B!IsActive, HoldInv, ClaimInv, BookInv
    <2> QED
      BY <2>2, <2>4, <2>5 DEF Granted
  <1>5. TimesOK'
    <2>1. book'[e.res].expires \in Nat
      BY <1>4
    <2> QED
      BY <1>3, <1>4, <2>1 DEF LeaseInv, TimesOK
  <1>6. RowsKeepLeases
    BY <1>3 DEF LeaseInv, Prompt, Punctual, RowsKeepLeases, Leased, Q!HeldBy
  <1>7. BookKeepsLive(p)
    BY <1>4, TimeTypes, ClockAssumption DEF BookKeepsLive, Live, Granted, B!IsActive
  <1>8. Only(p) /\ loop'[p] = loop[p] /\ pending'[p] = pending[p] /\ calm' \in BOOLEAN
    BY <1>1, <1>3 DEF HoldInv, LifecycleInv, LeaseInv, Only, Step
  <1>9. PICK es : es = {f}
    OBVIOUS
  <1>10. execs'[p] = (execs[p] \ {e}) \cup es
    BY <1>1, <1>9 DEF HoldInv, LifecycleInv, Step
  <1>11. calm' => Punctual(f)'
    <2> SUFFICES ASSUME calm' PROVE Punctual(f)'
      OBVIOUS
    <2>1. Live(f.res, Granted(f.beat))'
      BY <1>2, <1>4 DEF Live, B!IsActive
    <2>2. Seen(f)' <= Seen(e)
      BY <1>0, <1>2, <1>3, TimeTypes DEF Seen
    <2> QED
      BY <1>0, <1>2, <1>3, <1>5, <1>6, <2>1, <2>2, PunctualNext
  <1>12. /\ \A g \in es : SameClaim(e, g) /\ g.res = e.res /\ ~Waiter(g)
         /\ calm' => \A g \in es : Punctual(g)'
         /\ ~Waiter(e)
    BY <1>0, <1>2, <1>9, <1>11 DEF Waiter
  <1> QED
    BY <1>3, <1>5, <1>6, <1>7, <1>8, <1>10, <1>12, ExecShape

\* The end of the work, or a lost lease, leaves the claim as it is.
LEMMA LeaveWorkShape ==
  ASSUME HoldInv, LeaseInv, NEW p \in Procs, NEW e \in execs[p],
         LoseLease(p, e) \/ \E ending \in Endings \ {"none"} : EndWork(p, e, ending)
  PROVE  Shape(p)
  <1>0. ExecOK(e)
    BY DEF HoldInv, LifecycleInv, Own
  <1>1. \E ending : /\ Step(p, e, [e EXCEPT !.at = "charging", !.ending = ending])
                    /\ e.at \in Working
    BY DEF LoseLease, EndWork, Working
  <1>2. PICK ending, f : /\ f = [e EXCEPT !.at = "charging", !.ending = ending]
                         /\ Step(p, e, f) /\ e.at \in Working
    BY <1>1
  <1>3. SameClaim(e, f) /\ f.res = e.res /\ f.at = "charging" /\ f.beat = e.beat
    BY <1>0, <1>2 DEF ExecOK, ExecFields, SameClaim
  <1>4. /\ UNCHANGED <<now, tasks, tickets, book, calm, loop>>
        /\ \/ UNCHANGED pending /\ e.at # "beating"
           \/ pending' = [pending EXCEPT ![p] = {}] /\ e.at = "beating"
    BY DEF LoseLease, EndWork, queueVars, budgetVars
  <1>5. /\ Only(p)
        /\ \/ pending'[p] = pending[p] /\ ~Waiter(e)
           \/ pending'[p] = {} /\ Waiter(e)
    BY <1>2, <1>4 DEF HoldInv, LifecycleInv, Only, Step, Waiter, Working
  <1>6. Relies(f) => Relies(e)
    BY <1>2, <1>3 DEF Relies
  <1>7. ~Waiter(f) /\ e.at \notin {"saving", "admitted"}
    BY <1>2, <1>3 DEF Waiter, Working
  <1>8. TimesOK' /\ RowsKeepLeases /\ BookKeepsLive(p)
    BY <1>4, StillKeeps
  <1> QED
    BY <1>2, <1>3, <1>4, <1>5, <1>6, <1>7, <1>8, PhaseShape

\* A charge settles the reservation of the execution that is charged.
LEMMA ChargeShape ==
  ASSUME HoldInv, LeaseInv, NEW p \in Procs, NEW e \in execs[p], Charge(p, e)
  PROVE  Shape(p)
  <1>0. ExecOK(e) /\ e.at = "charging"
    BY DEF HoldInv, LifecycleInv, Own, Charge
  <1>1. PICK f : f = [e EXCEPT !.at = "finishing"] /\ Step(p, e, f)
    BY DEF Charge
  <1>2. SameClaim(e, f) /\ f.res = e.res /\ f.at = "finishing" /\ f.beat = e.beat
    BY <1>0, <1>1 DEF ExecOK, ExecFields, SameClaim
  <1>3. UNCHANGED <<now, tasks, pending, tickets, loop, calm>>
    BY DEF Charge, queueVars
  <1>4. Only(p) /\ pending'[p] = pending[p] /\ e \notin execs'[p]
    BY <1>0, <1>1, <1>2, <1>3 DEF HoldInv, LifecycleInv, Only, Step
  <1>5. B!Settle({e.res}, "COMMITTED") \/ UNCHANGED book
    BY DEF Charge, B!Commit, budgetVars
  <1>6. /\ \A r \in Reservations : book'[r].expires = book[r].expires
        /\ \A r \in Reservations \ {e.res} : book'[r].state = book[r].state
    BY <1>5, SettleKeeps
  <1>7. TimesOK'
    BY <1>3, <1>6 DEF LeaseInv, TimesOK
  <1>8. RowsKeepLeases
    BY <1>3 DEF LeaseInv, Prompt, Punctual, RowsKeepLeases, Leased, Q!HeldBy
  <1>9. BookKeepsLive(p)
    BY <1>0, <1>4, <1>6 DEF BookKeepsLive, Live, B!IsActive
  <1>10. ~Relies(f) /\ ~Waiter(f) /\ ~Waiter(e)
    BY <1>0, <1>2 DEF Relies, Waiter, Working
  <1> QED
    BY <1>0, <1>1, <1>2, <1>3, <1>4, <1>7, <1>8, <1>9, <1>10, PhaseShape

\* A report asks for the end of the attempt it was made for.
LEMMA ReportShape ==
  ASSUME HoldInv, LeaseInv, NEW p \in Procs, NEW e \in execs[p], Report(p, e)
  PROVE  Shape(p)
  <1> DEFINE t == e.task
             k == e.token
             asks == \E w : /\ Q!Begin(p, {w}) /\ Q!Hand(p, t, k) /\ Fits(w)
                            /\ w.op \in {"succeed", "fail"} /\ w.task = t /\ w.token = k
  <1>0. ExecOK(e) /\ t \in Tasks /\ e.at = "finishing"
    BY DEF HoldInv, LifecycleInv, Own, ExecOK, Report
  <1>1. PICK f : f = [e EXCEPT !.at = "saving"] /\ Step(p, e, f)
    BY DEF Report
  <1>2. SameClaim(e, f) /\ f.res = e.res /\ f.at = "saving" /\ f.beat = e.beat
    BY <1>0, <1>1 DEF ExecOK, ExecFields, SameClaim
  <1>3. UNCHANGED <<book, loop, calm>>
    BY DEF Report, budgetVars
  <1>4. \/ Q!Succeed(p, t, k)
        \/ \E d \in Delays : Q!FailRetry(p, t, k, d)
        \/ Q!FailFinal(p, t, k)
    BY NoDelayAssumption DEF Report
  <1>5. asks
    <2>1. CASE Q!Succeed(p, t, k)
      <3>1. PICK w : w = Q!Write("succeed", t, k, Q!NoLease, Q!Leave(t, "SUCCEEDED"))
        OBVIOUS
      <3>2. Fits(w) /\ w.op = "succeed" /\ w.task = t /\ w.token = k
        BY <1>0, <2>1, <3>1, WriteLeases DEF Q!Write, Q!Succeed, Q!HeldBy
      <3> QED
        BY <2>1, <3>1, <3>2 DEF Q!Succeed
    <2>2. ASSUME NEW d \in Delays, Q!FailRetry(p, t, k, d) PROVE asks
      <3>1. PICK w : w = Q!Write("fail", t, k, Q!NoLease, Q!LeaveUntil(t, "DEFERRED", now + d))
        OBVIOUS
      <3>2. Fits(w) /\ w.op = "fail" /\ w.task = t /\ w.token = k
        BY <1>0, <2>2, <3>1, WriteLeases DEF Q!Write, Q!FailRetry, Q!HeldBy
      <3> QED
        BY <2>2, <3>1, <3>2 DEF Q!FailRetry
    <2>3. CASE Q!FailFinal(p, t, k)
      <3>1. PICK w : w = Q!Write("fail", t, k, Q!NoLease, Q!Leave(t, "FAILED"))
        OBVIOUS
      <3>2. Fits(w) /\ w.op = "fail" /\ w.task = t /\ w.token = k
        BY <1>0, <2>3, <3>1, WriteLeases DEF Q!Write, Q!FailFinal, Q!HeldBy
      <3> QED
        BY <2>3, <3>1, <3>2 DEF Q!FailFinal
    <2> QED
      BY <1>4, <2>1, <2>2, <2>3
  <1>6. PICK w : /\ Q!Begin(p, {w}) /\ Q!Hand(p, t, k) /\ Fits(w)
                 /\ w.op \in {"succeed", "fail"} /\ w.task = t /\ w.token = k
    BY <1>5
  <1>7. UNCHANGED <<now, tasks>> /\ pending[p] = {} /\ pending' = [pending EXCEPT ![p] = {w}]
    BY <1>6 DEF Q!Begin
  <1>8. Only(p) /\ pending'[p] = {w}
    BY <1>1, <1>3, <1>6, <1>7 DEF HoldInv, LifecycleInv, Only, Step, Q!Hand
  <1>9. Asks(f, w)
    BY <1>2, <1>6 DEF Asks, SameClaim
  <1> QED
    BY <1>0, <1>1, <1>2, <1>3, <1>6, <1>7, <1>8, <1>9, CallShape

\* A stale report, and a grace that is over, end an execution.
LEMMA DroppedShape ==
  ASSUME HoldInv, LeaseInv, NEW p \in Procs, NEW e \in execs[p], ReportStale(p, e) \/ CutShort(p, e)
  PROVE  Shape(p)
  <1>1. /\ Gone(p, e) /\ UNCHANGED <<now, tasks, tickets, book, loop, calm>>
        /\ \/ UNCHANGED pending /\ ~Waiter(e)
           \/ pending' = [pending EXCEPT ![p] = {}] /\ Waiter(e)
    BY DEF ReportStale, CutShort, queueVars, budgetVars, Waiter
  <1>2. /\ Only(p) /\ calm' \in BOOLEAN
        /\ \/ pending'[p] = pending[p] /\ ~Waiter(e)
           \/ pending'[p] = {} /\ Waiter(e)
    BY <1>1 DEF HoldInv, LifecycleInv, LeaseInv, Only, Gone
  <1>3. TimesOK' /\ RowsKeepLeases /\ BookKeepsLive(p)
    BY <1>1, StillKeeps
  <1> QED
    BY <1>1, <1>2, <1>3, OverShape

\* Exceptions and interrupts end the run.
LEMMA RaisingShape ==
  ASSUME HoldInv, LeaseInv, NEW p \in Procs,
         \/ Interrupt(p)
         \/ AdmissionRaises(p)
         \/ \E e \in execs[p] : ChargeRaises(p, e)
         \/ \E w \in pending[p] : SaveRaises(p, w) /\ loop[p].at = "saving"
  PROVE  Shape(p)
  <1>1. \E cause, remaining : remaining \subseteq execs[p] /\ EndRun(p, cause, remaining)
    <2>1. \A cause : EndRun(p, cause, execs[p]) =>
            \E c, remaining : remaining \subseteq execs[p] /\ EndRun(p, c, remaining)
      OBVIOUS
    <2>2. \A cause, e : EndRun(p, cause, execs[p] \ {e}) =>
            \E c, remaining : remaining \subseteq execs[p] /\ EndRun(p, c, remaining)
      <3>1. \A e : execs[p] \ {e} \subseteq execs[p]
        OBVIOUS
      <3> QED
        BY <3>1
    <2> QED
      BY <2>1, <2>2 DEF Interrupt, AdmissionRaises, ChargeRaises, SaveRaises
  <1> QED
    BY <1>1, EndShape

\* Recovery is told of its writes one by one.
LEMMA RecoveryShape ==
  ASSUME HoldInv, LeaseInv, BeatEvery + MaxWait < LeaseFor, NEW p \in Procs, NEW w \in pending[p],
         RecoveryStores(p, w)
  PROVE  Shape(p)
  <1>1. loop[p].at = "recovering" /\ UNCHANGED <<book, execs, calm>>
    BY DEF RecoveryStores, budgetVars
  <1>2. UNCHANGED <<now, tickets>> /\ pending' = [pending EXCEPT ![p] = pending[p] \ {w}]
    BY StoreStep DEF RecoveryStores
  <1>3. TimesOK' /\ RowsKeepLeases /\ BookKeepsLive(p)
    <2>1. CASE Q!SaveApplied(p, w)
      BY <1>1, <1>2, <2>1, StoredKeeps
    <2>2. CASE Q!SaveStale(p, w)
      BY <1>1, <1>2, <2>2, StillKeeps DEF Q!SaveStale
    <2> QED
      BY <2>1, <2>2 DEF RecoveryStores
  <1>4. PICK stage : stage \in {"idle", "recovering"} /\ Goto(p, stage)
    BY DEF RecoveryStores
  <1>5. PICK l : loop' = [loop EXCEPT ![p] = l] /\ l.at = stage /\ l.res = loop[p].res
    BY <1>4, GotoShape DEF HoldInv
  <1>6. Only(p) /\ loop'[p] = l /\ execs'[p] = execs[p] /\ pending'[p] = pending[p] \ {w}
    BY <1>1, <1>2, <1>5 DEF HoldInv, LifecycleInv, Only
  <1>7. execs[p] = {} /\ \A v \in pending[p] : v.op = "recover"
    BY <1>1, OneWaits DEF LeaseInv, WaitsOK
  <1>8. WaitsOK(p)'
    BY <1>4, <1>5, <1>6, <1>7 DEF WaitsOK
  <1> QED
    BY <1>1, <1>2, <1>3, <1>5, <1>6, <1>8, LoopShape

\* The answer to a call of the dispatcher.
LEMMA AnsweredShape ==
  ASSUME HoldInv, LeaseInv, BeatEvery + MaxWait < LeaseFor, NEW p \in Procs, NEW w \in pending[p],
         SaveReturns(p, w), loop[p].at = "saving"
  PROVE  Shape(p)
  <1>1. /\ Q!SaveApplied(p, w) /\ NextAdmission(p) /\ UNCHANGED <<book, execs>>
        /\ (calm' => calm /\ ~TakesAway(w)) /\ calm' \in BOOLEAN
    BY DEF SaveReturns, budgetVars, LeaseInv
  <1>2. UNCHANGED <<now, tickets>> /\ pending' = [pending EXCEPT ![p] = pending[p] \ {w}]
    BY <1>1, StoreStep
  <1>3. pending[p] \ {w} = {}
    BY SingleWrite DEF HoldInv
  <1>4. TimesOK' /\ RowsKeepLeases /\ BookKeepsLive(p)
    BY <1>1, <1>2, StoredKeeps
  <1>5. PICK l : loop' = [loop EXCEPT ![p] = l] /\ l.at = "idle" /\ l.res = None
    BY <1>1, NextAdmissionShape DEF HoldInv
  <1>6. Only(p) /\ loop'[p] = l /\ execs'[p] = execs[p] /\ pending'[p] = {}
    BY <1>1, <1>2, <1>3, <1>5 DEF HoldInv, LifecycleInv, Only
  <1>7. \A e \in execs[p] : ~Waiter(e)
    BY OneWaits
  <1>8. WaitsOK(p)'
    BY <1>5, <1>6, <1>7 DEF WaitsOK, Waiter
  <1> QED
    BY <1>1, <1>2, <1>4, <1>5, <1>6, <1>8 DEF Shape, SameClaim

\* The answer to an execution: its report is stored, or its heartbeat is.
LEMMA ToldShape ==
  ASSUME HoldInv, LeaseInv, BeatEvery + MaxWait < LeaseFor, NEW p \in Procs, NEW w \in pending[p],
         SaveReturns(p, w), NEW e \in execs[p], Stored(p, e), UNCHANGED loop
  PROVE  Shape(p)
  <1>0. ExecOK(e) /\ loop[p].at \notin Early /\ e.task \in Tasks
    BY ExecOfRun DEF HoldInv, ExecOK
  <1>1. /\ Q!SaveApplied(p, w) /\ UNCHANGED book
        /\ (calm' => calm /\ ~TakesAway(w)) /\ calm' \in BOOLEAN
    BY DEF SaveReturns, budgetVars, LeaseInv
  <1>2. UNCHANGED <<now, tickets>> /\ pending' = [pending EXCEPT ![p] = pending[p] \ {w}]
    BY <1>1, StoreStep
  <1>3. pending[p] \ {w} = {}
    BY <1>0, SingleWrite DEF HoldInv, Early
  <1>4. TimesOK' /\ RowsKeepLeases /\ BookKeepsLive(p)
    BY <1>1, <1>2, StoredKeeps
  <1>5. Only(p) /\ pending'[p] = {} /\ Waiter(e)
    BY <1>2, <1>3 DEF HoldInv, LifecycleInv, Only, Step, Gone, Stored, Waiter
  <1>6. CASE Gone(p, e)
    BY <1>1, <1>2, <1>4, <1>5, <1>6, OverShape
  <1>7. ASSUME e.at = "beating", NEW f, Step(p, e, f), SameClaim(e, f), f.res = e.res,
               \/ f.at = "working" /\ f.beat = now /\ e.res = None
               \/ f.at = "renewing" /\ f.beat = e.beat
        PROVE  Shape(p)
    <2>1. PICK es : es = {f}
      OBVIOUS
    <2>2. execs'[p] = (execs[p] \ {e}) \cup es /\ loop'[p] = loop[p]
      BY <1>7, <2>1 DEF HoldInv, LifecycleInv, Step
    <2>3. ~Waiter(f)
      BY <1>7 DEF Waiter
    <2>4. calm' => Punctual(f)'
      <3> SUFFICES ASSUME calm' PROVE Punctual(f)'
        OBVIOUS
      <3>1. calm /\ Punctual(e)
        BY <1>1 DEF LeaseInv, Prompt
      <3>2. Q!HeldBy(e.task, e.token)' /\ tasks'[e.task].lease = now + LeaseFor
        BY <1>1, <1>5, <1>7, StoredWrite
      <3>3. f.beat \in Nat /\ f.beat <= now' /\ now' <= f.beat + BeatEvery
        BY <1>2, <1>7, <3>1, TimeTypes DEF Punctual
      <3>4. Seen(f)' = now
        BY <1>2, <1>7 DEF Seen
      <3>5. Leased(f, Granted(Seen(f)))'
        BY <1>7, <3>2, <3>4, TimeTypes DEF Leased, Granted, SameClaim, Q!HeldBy
      <3>6. Relies(f) => Live(f.res, Granted(f.beat))'
        BY <1>1, <1>7, <3>1 DEF Relies, Working, Punctual, Live, Granted, B!IsActive
      <3> QED
        BY <1>7, <3>3, <3>5, <3>6 DEF Punctual, Relies
    <2>5. /\ \A g \in es : SameClaim(e, g) /\ g.res = e.res /\ ~Waiter(g)
          /\ calm' => \A g \in es : Punctual(g)'
      BY <1>7, <2>1, <2>3, <2>4
    <2> QED
      BY <1>1, <1>2, <1>4, <1>5, <2>2, <2>5, ExecShape
  <1>8. CASE e.at = "beating"
    <2>1. CASE e.res = None
      <3>1. PICK f : f = [e EXCEPT !.at = "working", !.beat = now] /\ Step(p, e, f)
        BY <1>5, <1>8, <2>1 DEF Stored
      <3>2. SameClaim(e, f) /\ f.res = e.res /\ f.at = "working" /\ f.beat = now
        BY <1>0, <3>1 DEF ExecOK, ExecFields, SameClaim
      <3> QED
        BY <1>7, <1>8, <2>1, <3>1, <3>2
    <2>2. CASE e.res # None
      <3>1. PICK f : f = [e EXCEPT !.at = "renewing"] /\ Step(p, e, f)
        BY <1>5, <1>8, <2>2 DEF Stored
      <3>2. SameClaim(e, f) /\ f.res = e.res /\ f.at = "renewing" /\ f.beat = e.beat
        BY <1>0, <3>1 DEF ExecOK, ExecFields, SameClaim
      <3> QED
        BY <1>7, <1>8, <3>1, <3>2
    <2> QED
      BY <2>1, <2>2
  <1> QED
    BY <1>6, <1>8 DEF Stored

\* The refusal of an execution's call.
LEMMA RefusedShape ==
  ASSUME HoldInv, LeaseInv, NEW p \in Procs, NEW w \in pending[p],
         SaveRaises(p, w), loop[p].at # "saving"
  PROVE  Shape(p)
  <1>1. /\ Q!SaveStale(p, w) /\ UNCHANGED <<tasks, book, loop, calm>>
        /\ \E d \in execs[p] : Refused(p, d)
    BY DEF SaveRaises, budgetVars, Q!SaveStale
  <1>2. PICK e \in execs[p] : Refused(p, e)
    BY <1>1
  <1>3. ExecOK(e) /\ loop[p].at \notin Early
    BY ExecOfRun DEF HoldInv
  <1>4. UNCHANGED <<now, tickets>> /\ pending' = [pending EXCEPT ![p] = pending[p] \ {w}]
    BY <1>1, StoreStep
  <1>5. pending[p] \ {w} = {}
    BY <1>3, SingleWrite DEF HoldInv, Early
  <1>6. Only(p) /\ pending'[p] = {} /\ Waiter(e) /\ calm' \in BOOLEAN
    BY <1>1, <1>2, <1>4, <1>5 DEF HoldInv, LifecycleInv, LeaseInv, Only, Step, Gone, Refused, Waiter
  <1>7. TimesOK' /\ RowsKeepLeases /\ BookKeepsLive(p)
    BY <1>1, <1>4, StillKeeps
  <1>8. CASE Gone(p, e)
    BY <1>1, <1>4, <1>6, <1>7, <1>8, OverShape
  <1>9. CASE e.at = "beating" /\ Step(p, e, [e EXCEPT !.at = "charging", !.ending = "STOPPED"])
    <2>1. PICK f : f = [e EXCEPT !.at = "charging", !.ending = "STOPPED"] /\ Step(p, e, f)
      BY <1>9
    <2>2. /\ SameClaim(e, f) /\ f.res = e.res /\ f.at = "charging" /\ f.ending = "STOPPED"
          /\ f.beat = e.beat
      BY <1>3, <2>1 DEF ExecOK, ExecFields, SameClaim
    <2>3. ~Relies(f) /\ ~Waiter(f)
      BY <2>2 DEF Relies, Waiter, Working
    <2> QED
      BY <1>1, <1>4, <1>6, <1>7, <1>9, <2>1, <2>2, <2>3, PhaseShape
  <1> QED
    BY <1>2, <1>8, <1>9 DEF Refused

\* While heartbeats keep up, time only passes for executions that are not late.
LEMMA TickKeeps ==
  ASSUME HoldInv, LeaseInv, Tick
  PROVE  LeaseInv'
  <1>1. /\ now' = now + 1 /\ UNCHANGED <<tasks, pending, book, loop, execs>>
        /\ calm' \in BOOLEAN /\ (calm' => calm /\ \A p \in Procs : KeepsUp(p))
    BY DEF Tick, Q!Tick, budgetVars, LeaseInv
  <1>2. now \in Nat /\ LeaseFor \in Nat /\ MaxWait \in Nat /\ BeatEvery \in Nat
    BY TimeTypes
  <1>3. TimesOK' /\ Sole'
    BY <1>1, <1>2 DEF LeaseInv, TimesOK, Sole
  <1>4. ASSUME NEW p \in Procs, calm' PROVE pending[p] = {} /\ loop[p].res = None
    <2>1. KeepsUp(p) /\ Holds(p) /\ LockOK(p)
      BY <1>1, <1>4 DEF HoldInv, ClaimInv, LifecycleInv, Own
    <2> QED
      BY <2>1 DEF KeepsUp, Holds, LockOK, Waits
  <1>5. ASSUME NEW p \in Procs PROVE WaitsOK(p)' /\ \A w \in pending'[p] : Fits(w)'
    <2>1. WaitsOK(p)'
      BY <1>1 DEF LeaseInv, WaitsOK, Asks, Waiter
    <2>2. ASSUME NEW w \in pending[p] PROVE Fits(w)'
      <3>1. Fits(w) /\ ~calm'
        BY <1>4, <2>2 DEF LeaseInv
      <3> QED
        BY <1>1, <1>2, <3>1 DEF Fits, Q!NoLease
    <2> QED
      BY <1>1, <2>1, <2>2
  <1>6. ASSUME NEW p \in Procs, calm', NEW e \in execs[p] PROVE Punctual(e)'
    <2>1. Punctual(e) /\ e.at = "working" /\ now - e.beat < BeatEvery
      BY <1>1, <1>6 DEF LeaseInv, Prompt, KeepsUp
    <2>2. e.beat \in Nat /\ e.beat <= now' /\ now' <= e.beat + BeatEvery
      BY <1>1, <1>2, <2>1 DEF Punctual
    <2>3. Leased(e, Granted(Seen(e)))' /\ (Relies(e) => Live(e.res, Granted(e.beat))')
      BY <1>1, <2>1 DEF Punctual, Leased, Live, Granted, Seen, Q!HeldBy, B!IsActive
    <2> QED
      BY <2>1, <2>2, <2>3 DEF Punctual, Relies
  <1>7. calm' => \A p \in Procs : Prompt(p)'
    BY <1>1, <1>4, <1>6 DEF Prompt
  <1> QED
    BY <1>1, <1>3, <1>5, <1>7 DEF LeaseInv

----------------------------------------------------------------------------
(* The theorems about leases.                                              *)

\* Every step of one process has that shape.
LEMMA LeaseShape ==
  ASSUME HoldInv, LeaseInv, BeatEvery + MaxWait < LeaseFor, NEW p \in Procs, Process(p) \/ Operator(p)
  PROVE  Shape(p)
  <1>1. CASE GatesRefuse(p) \/ BudgetRefuses(p)
    <2>1. loop[p].task \in Tasks
      BY <1>1 DEF GatesRefuse, BudgetRefuses, HoldInv, LifecycleInv, Own, LoopOK, Admitting
    <2>2. PICK t \in Tasks : t = loop[p].task
      BY <2>1
    <2>3. Goto(p, "saving") /\ UNCHANGED <<execs, calm, book>>
      BY <1>1 DEF GatesRefuse, BudgetRefuses, budgetVars
    <2>4. \/ \E d \in Delays : Q!Defer(p, t, d)
          \/ Q!SendToReview(p, t)
          \/ Q!Close(p, t, "BLOCKED")
      BY <1>1, <2>2 DEF GatesRefuse, BudgetRefuses
    <2> QED
      BY <2>3, <2>4, ControlShape
  <1>2. ASSUME Admission(p) PROVE Shape(p)
    BY <1>1, <1>2, DispatcherShape, ReserveShape, ClaimShape, UnclaimShape, RaisingShape, StartShape
       DEF Admission
  <1>3. ASSUME NEW e \in execs[p], Execution(p, e) \/ CutShort(p, e) PROVE Shape(p)
    BY <1>3, BeatShape, RenewShape, LeaveWorkShape, ChargeShape, RaisingShape, ReportShape, DroppedShape
       DEF Execution
  <1>4. ASSUME NEW w \in pending[p], RecoveryStores(p, w) \/ SaveReturns(p, w) \/ SaveRaises(p, w)
        PROVE  Shape(p)
    <2>1. CASE SaveReturns(p, w)
      <3>1. CASE loop[p].at = "saving"
        BY <2>1, <3>1, AnsweredShape
      <3>2. CASE loop[p].at # "saving"
        <4>1. UNCHANGED loop /\ \E e \in execs[p] : Stored(p, e)
          BY <2>1, <3>2 DEF SaveReturns
        <4> QED
          BY <2>1, <4>1, ToldShape
      <3> QED
        BY <3>1, <3>2
    <2>2. CASE SaveRaises(p, w)
      BY <2>2, RaisingShape, RefusedShape
    <2> QED
      BY <1>4, <2>1, <2>2, RecoveryShape
  <1>5. ASSUME NEW t \in Tasks, NEW k \in Keys, NEW r \in Runs, Submit(p, t, k, r) PROVE Shape(p)
    BY <1>5, SubmitShape
  <1>6. ASSUME NEW t \in Tasks, Resolve(p, t) PROVE Shape(p)
    <2>1. Goto(p, "saving") /\ UNCHANGED <<execs, calm, book>>
      BY <1>6 DEF Resolve, budgetVars
    <2>2. Q!ReleaseReview(p, t, 0) \/ Q!Close(p, t, "BLOCKED")
      BY <1>6 DEF Resolve
    <2> QED
      BY <2>1, <2>2, ControlShape
  <1>7. CASE Operator(p)
    BY <1>5, <1>6, <1>7 DEF Operator
  <1>8. CASE Crash(p)
    BY <1>8, EndShape
  <1>9. CASE Open(p) \/ ReapBudgets(p) \/ RecoverTasks(p) \/ Interrupt(p) \/ Stop(p)
    BY <1>9, DispatcherShape, ReapShape, RecoverShape, RaisingShape
  <1> QED
    BY <1>2, <1>3, <1>4, <1>7, <1>8, <1>9 DEF Process

\* The inductive step of the theorems below.
LEMMA LeaseStep ==
  ASSUME BeatEvery + MaxWait < LeaseFor, HoldInv, HoldInv', LeaseInv, [Next]_vars
  PROVE  LeaseInv'
  <1>1. ASSUME NEW p \in Procs, Process(p) \/ Operator(p) PROVE LeaseInv'
    BY <1>1, LeaseShape, ShapeKeeps
  <1>2. CASE UNCHANGED vars
    <2>1. UNCHANGED <<now, tasks, pending, book, loop, execs, calm>>
      BY <1>2 DEF vars, queueVars, budgetVars
    <2> QED
      BY <2>1 DEF LeaseInv, TimesOK, Sole, WaitsOK, Fits, Asks, Waiter, Prompt, Punctual, Leased, Live,
                  Granted, Seen, Relies, Q!HeldBy, B!IsActive
  <1> QED
    BY <1>1, <1>2, TickKeeps DEF Next

\* At the start there is no lease.
LEMMA InitLeaseInv == Init => LeaseInv
  <1> SUFFICES ASSUME Init PROVE LeaseInv
    OBVIOUS
  <1>1. /\ loop = [p \in Procs |-> [Idle EXCEPT !.at = "off"]] /\ execs = [p \in Procs |-> {}]
        /\ tasks = [t \in Tasks |-> Q!Absent] /\ pending = [p \in Procs |-> {}]
        /\ book = [r \in Reservations |-> B!Free] /\ now = 1 /\ calm = TRUE
    BY DEF Init, Q!Init, B!Init
  <1>2. TimesOK
    BY <1>1 DEF TimesOK, Q!Absent, Q!NoLease, B!Free
  <1>3. \A p \in Procs : loop[p].at = "off" /\ loop[p].res = None
    BY <1>1 DEF Idle
  <1> QED
    BY <1>1, <1>2, <1>3 DEF LeaseInv, Sole, WaitsOK, Prompt

\* While heartbeats keep up (runtime.py: 60 s, and at most 5 s for the write lock, in a lease
\* of 300 s), whoever works has a live reservation and a lease that lasts at least until the
\* next heartbeat.
THEOREM LeasesHold == ASSUME BeatEvery + MaxWait < LeaseFor PROVE Spec => []LeaseInv
  <1>1. Spec => []HoldInv
    BY HoldingsAgree
  <1>2. HoldInv /\ HoldInv' /\ LeaseInv /\ [Next]_vars => LeaseInv'
    BY LeaseStep
  <1> QED
    BY <1>1, <1>2, InitLeaseInv, PTL DEF Spec

\* _heartbeat_loop keeps what execute_claimed works under.
THEOREM WorkersAreLeased == ASSUME BeatEvery + MaxWait < LeaseFor PROVE Spec => []WorkIsLeased
  <1>1. ASSUME HoldInv, LeaseInv PROVE WorkIsLeased
    <2> SUFFICES ASSUME calm, NEW p \in Procs, NEW e \in execs[p],
                        e.at \in Working \cup {"admitted", "charging"}
                 PROVE  /\ e.res # None /\ e.ending # "STOPPED" =>
                             B!IsActive(e.res) /\ book[e.res].expires > now
                        /\ Q!HeldBy(e.task, e.token) => tasks[e.task].lease > now
      BY DEF WorkIsLeased
    <2>1. Punctual(e) /\ e.task \in Tasks /\ e.res \in Reservations \cup {None}
      BY <1>1, ExecRes DEF LeaseInv, Prompt
    <2>2. /\ now \in Nat /\ LeaseFor \in Nat /\ MaxWait \in Nat /\ BeatEvery \in Nat
          /\ tasks[e.task].lease \in Nat /\ (e.res # None => book[e.res].expires \in Nat)
      BY <1>1, <2>1, TimeTypes DEF LeaseInv, TimesOK
    <2>3. tasks[e.task].lease > now
      <3>1. tasks[e.task].lease >= Granted(Seen(e))
        BY <2>1 DEF Punctual, Leased, Working
      <3>2. PICK x \in Int : x = Seen(e) /\ now <= x + BeatEvery
        BY <2>1, <2>2 DEF Seen, Punctual
      <3> QED
        BY <2>2, <3>1, <3>2 DEF Granted
    <2>4. ASSUME e.res # None, e.ending # "STOPPED"
          PROVE  B!IsActive(e.res) /\ book[e.res].expires > now
      <3>1. Live(e.res, Granted(e.beat))
        BY <2>1, <2>4 DEF Punctual, Relies
      <3>2. e.beat \in Nat /\ now <= e.beat + BeatEvery
        BY <2>1 DEF Punctual
      <3> QED
        BY <2>2, <2>4, <3>1, <3>2 DEF Live, Granted
    <2> QED
      BY <2>3, <2>4
  <1> QED
    BY <1>1, HoldingsAgree, LeasesHold, PTL

\* No recovery mistakes a live claim for an abandoned one.
THEOREM NoDuplicates == ASSUME BeatEvery + MaxWait < LeaseFor PROVE Spec => []NoDuplicateExecution
  <1>1. ASSUME HoldInv, LeaseInv PROVE NoDuplicateExecution
    <2>1. ASSUME calm, NEW p \in Procs, NEW q \in Procs, NEW e \in execs[p], NEW f \in execs[q],
                 e.task = f.task, e.at \in Working, f.at \in Working
          PROVE  p = q /\ e = f
      <3>1. Q!HeldBy(e.task, e.token) /\ Q!HeldBy(f.task, f.token)
        BY <1>1, <2>1 DEF LeaseInv, Prompt, Punctual, Leased, Working
      <3>2. SameClaim(e, f)
        BY <2>1, <3>1 DEF Q!HeldBy, SameClaim
      <3> QED
        BY <1>1, <3>2 DEF HoldInv, ClaimInv, Unique
    <2> QED
      BY <2>1 DEF NoDuplicateExecution
  <1> QED
    BY <1>1, HoldingsAgree, LeasesHold, PTL

----------------------------------------------------------------------------
(* The shapes of dispatchers and executions.                               *)

\* What a dispatcher is at, and what is remembered of an execution.
LoopType == [at : Stages, task : Tasks \cup {None}, res : Reservations \cup {None},
             todo : SUBSET Tasks, cause : Causes]
ExecType == [task : Tasks, token : 1..MaxClaims, res : Reservations \cup {None},
             at : Phases, beat : 1..MaxTime, ending : Endings]

\* The shapes, with the clock that is remembered and the tokens that are given out.
TypesInv ==
  /\ now \in 1..MaxTime /\ issued \in [Tasks -> 0..MaxClaims]
  /\ loop \in [Procs -> LoopType]
  /\ \A p \in Procs : execs[p] \subseteq ExecType

\* What most steps leave alone.
Frame == UNCHANGED <<now, issued>>

\* A dispatcher that enters a stage keeps its shape.
LEMMA LoopTypes ==
  ASSUME TypesInv, NEW p \in Procs
  PROVE  /\ \A stage \in Stages : Goto(p, stage) => loop' \in [Procs -> LoopType]
         /\ NextAdmission(p) => loop' \in [Procs -> LoopType]
         /\ \A l \in LoopType : loop' = [loop EXCEPT ![p] = l] => loop' \in [Procs -> LoopType]
  BY DEF TypesInv, Goto, NextAdmission, LoopType, Stages

\* So does an execution that enters a phase.
LEMMA ExecTypes ==
  ASSUME TypesInv, HoldInv, NEW p \in Procs, NEW e \in execs[p]
  PROVE  /\ \A phase \in Phases :
              /\ [e EXCEPT !.at = phase] \in ExecType
              /\ [e EXCEPT !.at = phase, !.beat = now] \in ExecType
              /\ \A ending \in Endings : [e EXCEPT !.at = phase, !.ending = ending] \in ExecType
         /\ \A f \in ExecType : Step(p, e, f) => \A q \in Procs : execs'[q] \subseteq ExecType
         /\ Gone(p, e) => \A q \in Procs : execs'[q] \subseteq ExecType
  <1>1. e \in ExecType
    BY DEF TypesInv
  <1>2. /\ \A f \in ExecType : Step(p, e, f) => \A q \in Procs : execs'[q] \subseteq ExecType
        /\ Gone(p, e) => \A q \in Procs : execs'[q] \subseteq ExecType
    BY DEF TypesInv, Step, Gone, HoldInv, LifecycleInv
  <1>3. now \in 1..MaxTime
    BY DEF TypesInv
  <1> QED
    BY <1>1, <1>2, <1>3 DEF ExecType

\* Opening the workspace, and the steps of a dispatcher between two executions.
LEMMA LoopTypesKept ==
  ASSUME TypesInv, NEW p \in Procs,
         \/ Open(p) \/ ReapBudgets(p) \/ RecoverTasks(p) \/ Stop(p)
         \/ \E batch \in SUBSET Tasks : SelectBatch(p, batch)
         \/ \E t \in Tasks : Admit(p, t)
         \/ GatesAllow(p) \/ GatesRefuse(p) \/ Reserve(p) \/ BudgetRefuses(p)
         \/ ClaimFails(p) \/ Unclaim(p)
         \/ \E w \in pending[p] : RecoveryStores(p, w)
         \/ \E t \in Tasks : Resolve(p, t)
         \/ \E t \in Tasks, k \in Keys, r \in Runs : Submit(p, t, k, r)
  PROVE  TypesInv'
  <1>0. Frame /\ UNCHANGED execs
    BY DEF Frame, Open, ReapBudgets, RecoverTasks, Stop, SelectBatch, Admit, GatesAllow, GatesRefuse,
           Reserve, BudgetRefuses, ClaimFails, Unclaim, RecoveryStores, Resolve, Submit, queueVars,
           Q!Begin, Q!Defer, Q!SendToReview, Q!Close, Q!ReleaseReview, Q!Recover, Q!Enqueue,
           Q!SaveApplied, Q!SaveStale, Q!Save
  <1>1. loop' \in [Procs -> LoopType]
    <2>0. loop[p] \in LoopType /\ loop \in [Procs -> LoopType]
      BY DEF TypesInv
    <2>1. ASSUME Open(p) PROVE loop' \in [Procs -> LoopType]
      <3>1. [Idle EXCEPT !.at = "reap"] \in LoopType
        BY DEF Idle, LoopType, Stages, Causes
      <3> QED
        BY <1>0, <2>1, <3>1, LoopTypes DEF Open
    <2>2. ASSUME NEW batch \in SUBSET Tasks, SelectBatch(p, batch) PROVE loop' \in [Procs -> LoopType]
      <3>1. [loop[p] EXCEPT !.todo = batch] \in LoopType
        BY <2>0 DEF LoopType
      <3> QED
        BY <1>0, <2>2, <3>1, LoopTypes DEF SelectBatch
    <2>3. ASSUME NEW t \in Tasks, Admit(p, t) PROVE loop' \in [Procs -> LoopType]
      <3>1. PICK l : /\ l = [loop[p] EXCEPT !.todo = @ \ {t},
                              !.at = IF tasks[t].status \in Q!Waiting THEN "gates" ELSE "idle",
                              !.task = IF tasks[t].status \in Q!Waiting THEN t ELSE None]
                     /\ loop' = [loop EXCEPT ![p] = l]
        BY <2>3 DEF Admit
      <3>2. l \in LoopType
        BY <2>0, <3>1 DEF LoopType, Stages
      <3> QED
        BY <1>0, <3>1, <3>2, LoopTypes
    <2>4. ASSUME Reserve(p) PROVE loop' \in [Procs -> LoopType]
      <3>1. ASSUME NEW r \in Reservations, loop' = [loop EXCEPT ![p].at = "claim", ![p].res = r]
            PROVE  loop' \in [Procs -> LoopType]
        BY <2>0, <3>1 DEF LoopType, Stages
      <3>2. \/ \E r \in Reservations : loop' = [loop EXCEPT ![p].at = "claim", ![p].res = r]
            \/ \E stage \in {"claim", "denied", "capacity"} : Goto(p, stage)
        BY <2>4 DEF Reserve
      <3> QED
        BY <1>0, <3>1, <3>2, LoopTypes DEF Stages
    <2>5. CASE UNCHANGED loop \/ NextAdmission(p) \/ \E stage \in Stages : Goto(p, stage)
      BY <1>0, <2>0, <2>5, LoopTypes
    <2>6. CASE \/ ReapBudgets(p) \/ RecoverTasks(p) \/ Stop(p) \/ GatesAllow(p) \/ GatesRefuse(p)
               \/ BudgetRefuses(p) \/ ClaimFails(p) \/ Unclaim(p)
               \/ \E w \in pending[p] : RecoveryStores(p, w)
               \/ \E t \in Tasks : Resolve(p, t)
               \/ \E t \in Tasks, k \in Keys, r \in Runs : Submit(p, t, k, r)
      <3>1. UNCHANGED loop \/ NextAdmission(p)
            \/ \E stage \in {"recover", "recovering", "idle", "stopped", "reserve", "saving", "unclaim"} :
                 Goto(p, stage)
        BY <2>6 DEF ReapBudgets, RecoverTasks, Stop, GatesAllow, GatesRefuse, BudgetRefuses, ClaimFails,
                    Unclaim, RecoveryStores, Resolve, Submit
      <3> QED
        BY <2>5, <3>1 DEF Stages
    <2> QED
      BY <2>1, <2>2, <2>3, <2>4, <2>6
  <1> QED
    BY <1>0, <1>1 DEF TypesInv, Frame

\* The ways in which a run ends.
LEMMA EndTypesKept ==
  ASSUME TypesInv, HoldInv, NEW p \in Procs,
         \/ \E cause \in Causes, remaining \in SUBSET execs[p] : EndRun(p, cause, remaining)
         \/ Crash(p)
  PROVE  TypesInv'
  <1>1. Frame
    BY DEF Frame, EndRun, Crash
  <1>2. \E l \in LoopType : loop' = [loop EXCEPT ![p] = l]
    <2>1. ASSUME NEW cause \in Causes
          PROVE  [Idle EXCEPT !.at = "ending", !.cause = cause] \in LoopType
      BY DEF Idle, LoopType, Stages, Causes
    <2>2. [Idle EXCEPT !.at = "off"] \in LoopType
      BY DEF Idle, LoopType, Stages, Causes
    <2> QED
      BY <2>1, <2>2 DEF EndRun, Crash
  <1>3. \A q \in Procs : execs'[q] \subseteq execs[q]
    BY DEF EndRun, Crash, HoldInv, LifecycleInv
  <1> QED
    BY <1>1, <1>2, <1>3, LoopTypes DEF TypesInv, Frame

\* The steps of an execution.
LEMMA ExecTypesKept ==
  ASSUME TypesInv, HoldInv, NEW p \in Procs, NEW e \in execs[p],
         \/ Beat(p, e) \/ RenewBudget(p, e) \/ LoseLease(p, e) \/ Charge(p, e) \/ Report(p, e)
         \/ ReportStale(p, e) \/ CutShort(p, e)
         \/ \E ending \in Endings \ {"none"} : EndWork(p, e, ending)
         \/ Stored(p, e) /\ UNCHANGED <<now, issued, loop>>
         \/ Refused(p, e) /\ UNCHANGED <<now, issued, loop>>
  PROVE  TypesInv'
  <1>1. Frame /\ UNCHANGED loop
    BY DEF Frame, Beat, RenewBudget, LoseLease, Charge, Report, ReportStale, CutShort, EndWork, queueVars,
           Q!Heartbeat, Q!Succeed, Q!FailRetry, Q!FailFinal, Q!Begin
  <1>2. \/ Gone(p, e)
        \/ \E phase \in Phases : \/ Step(p, e, [e EXCEPT !.at = phase])
                                 \/ Step(p, e, [e EXCEPT !.at = phase, !.beat = now])
                                 \/ \E ending \in Endings :
                                      Step(p, e, [e EXCEPT !.at = phase, !.ending = ending])
    BY DEF Beat, RenewBudget, LoseLease, Charge, Report, ReportStale, CutShort, EndWork, Stored, Refused,
           Phases, Endings
  <1>3. \A q \in Procs : execs'[q] \subseteq ExecType
    BY <1>2, ExecTypes
  <1> QED
    BY <1>1, <1>3 DEF TypesInv, Frame

\* A claim makes an execution with the token that it has been given.
LEMMA ClaimTypesKept ==
  ASSUME TypesInv, HoldInv, NEW p \in Procs, Claim(p)
  PROVE  TypesInv'
  <1>1. PICK t \in Tasks : t = loop[p].task
    BY DEF Claim, HoldInv, LifecycleInv, Own, LoopOK, Admitting
  <1>2. /\ now' = now /\ issued[t] < MaxClaims /\ issued' = [issued EXCEPT ![t] = @ + 1]
    BY <1>1 DEF Claim, Q!Claim
  <1>3. issued' \in [Tasks -> 0..MaxClaims] /\ issued'[t] \in 1..MaxClaims
    BY <1>2, ClaimsAssumption DEF TypesInv
  <1>4. PICK f : /\ f = [task |-> t, token |-> issued'[t], res |-> loop[p].res,
                         at |-> "admitted", beat |-> now, ending |-> "none"]
                 /\ execs' = [execs EXCEPT ![p] = @ \cup {f}]
    BY <1>1 DEF Claim
  <1>5. f \in ExecType
    BY <1>3, <1>4 DEF ExecType, TypesInv, LoopType, Phases, Endings
  <1>6. \A q \in Procs : execs'[q] \subseteq ExecType
    BY <1>4, <1>5 DEF TypesInv, HoldInv, LifecycleInv
  <1>7. loop' \in [Procs -> LoopType]
    BY LoopTypes DEF Claim
  <1> QED
    BY <1>2, <1>3, <1>6, <1>7 DEF TypesInv

\* A batch starts with a first heartbeat.
LEMMA StartTypesKept ==
  ASSUME TypesInv, HoldInv, NEW p \in Procs, StartBatch(p)
  PROVE  TypesInv'
  <1>1. UNCHANGED <<now, issued, loop>>
    BY DEF StartBatch, queueVars
  <1>2. PICK es : /\ es = {IF e.at = "admitted" THEN [e EXCEPT !.at = "working", !.beat = now] ELSE e
                             : e \in execs[p]}
                  /\ execs' = [execs EXCEPT ![p] = es]
    BY DEF StartBatch
  <1>3. \A e \in execs[p] : e \in ExecType /\ [e EXCEPT !.at = "working", !.beat = now] \in ExecType
    BY ExecTypes DEF TypesInv, Phases
  <1>4. es \subseteq ExecType
    BY <1>2, <1>3
  <1> QED
    BY <1>1, <1>2, <1>4 DEF TypesInv, HoldInv, LifecycleInv

\* The store's answers.
LEMMA AnswerTypesKept ==
  ASSUME TypesInv, HoldInv, NEW p \in Procs, NEW w \in pending[p],
         SaveReturns(p, w) \/ SaveRaises(p, w)
  PROVE  TypesInv'
  <1>1. CASE SaveReturns(p, w)
    <2>1. Frame
      BY <1>1 DEF Frame, SaveReturns, Q!SaveApplied, Q!Save
    <2>2. CASE NextAdmission(p) /\ UNCHANGED execs
      BY <2>1, <2>2, LoopTypes DEF TypesInv, Frame
    <2>3. ASSUME NEW e \in execs[p], Stored(p, e), UNCHANGED loop PROVE TypesInv'
      BY <2>1, <2>3, ExecTypesKept DEF Frame
    <2> QED
      BY <1>1, <2>2, <2>3 DEF SaveReturns
  <1>2. CASE SaveRaises(p, w)
    <2>1. CASE \E cause \in {"operator", "admission"} : EndRun(p, cause, execs[p])
      BY <2>1, EndTypesKept DEF Causes
    <2>2. ASSUME Q!SaveStale(p, w), NEW e \in execs[p], Refused(p, e), UNCHANGED loop PROVE TypesInv'
      <3>1. UNCHANGED <<now, issued, loop>>
        BY <2>2 DEF Q!SaveStale, Q!Save
      <3> QED
        BY <2>2, <3>1, ExecTypesKept
    <2> QED
      BY <1>2, <2>1, <2>2 DEF SaveRaises
  <1> QED
    BY <1>1, <1>2

\* The inductive step of the theorem below.
LEMMA TypesStep ==
  ASSUME TypesInv, HoldInv, [Next]_vars
  PROVE  TypesInv'
  <1>1. ASSUME NEW p \in Procs, Process(p) PROVE TypesInv'
    <2>1. CASE Interrupt(p) \/ AdmissionRaises(p) \/ Crash(p)
      <3>1. Crash(p) \/ \E cause \in Causes : EndRun(p, cause, execs[p])
        BY <2>1 DEF Interrupt, AdmissionRaises, Causes
      <3> QED
        BY <3>1, EndTypesKept
    <2>2. ASSUME NEW e \in execs[p], ChargeRaises(p, e) PROVE TypesInv'
      <3>1. EndRun(p, "execution", execs[p] \ {e}) /\ "execution" \in Causes
        BY <2>2 DEF ChargeRaises, Causes
      <3>2. execs[p] \ {e} \in SUBSET execs[p]
        OBVIOUS
      <3> QED
        BY <3>1, <3>2, EndTypesKept
    <2>3. ASSUME NEW e \in execs[p], Execution(p, e) \/ CutShort(p, e) PROVE TypesInv'
      BY <2>2, <2>3, ExecTypesKept DEF Execution
    <2>4. CASE Admission(p)
      BY <2>1, <2>4, LoopTypesKept, ClaimTypesKept, StartTypesKept DEF Admission
    <2>5. ASSUME NEW w \in pending[p], RecoveryStores(p, w) \/ SaveReturns(p, w) \/ SaveRaises(p, w)
          PROVE  TypesInv'
      BY <2>5, LoopTypesKept, AnswerTypesKept
    <2>6. CASE Open(p) \/ ReapBudgets(p) \/ RecoverTasks(p) \/ Stop(p)
      BY <2>6, LoopTypesKept
    <2> QED
      BY <1>1, <2>1, <2>3, <2>4, <2>5, <2>6 DEF Process
  <1>2. ASSUME NEW p \in Procs, Operator(p) PROVE TypesInv'
    BY <1>2, LoopTypesKept DEF Operator
  <1>3. CASE Tick
    BY <1>3, ClockAssumption DEF TypesInv, Tick, Q!Tick
  <1>4. CASE UNCHANGED vars
    BY <1>4 DEF TypesInv, vars, queueVars
  <1> QED
    BY <1>1, <1>2, <1>3, <1>4 DEF Next

\* Dispatchers and executions keep the shapes that lifecycle.py gives them, and an
\* execution never has a token that was not given out.
THEOREM LifecycleTypes == Spec => []LifecycleTypeOK
  <1>1. Init => TypesInv
    <2>1. [Idle EXCEPT !.at = "off"] \in LoopType
      BY DEF Idle, LoopType, Stages, Causes
    <2> QED
      BY <2>1, ClockAssumption, ClaimsAssumption DEF Init, Q!Init, TypesInv
  <1>2. TypesInv => LifecycleTypeOK
    BY DEF TypesInv, LifecycleTypeOK, LoopType, ExecType
  <1> QED
    BY <1>1, <1>2, TypesStep, HoldingsAgree, PTL DEF Spec
=============================================================================
