----------------------------- MODULE Lifecycle -----------------------------
(***************************************************************************)
(* recon/core/lifecycle.py (Lifecycle) and the dispatcher of               *)
(* recon/runtime.py that drives it, over the queue and the budgets.        *)
(*                                                                         *)
(* A process opens the workspace (reaping what has expired), then admits   *)
(* batches of tasks one at a time (gates, reservation, claim), and         *)
(* executes the claimed tasks concurrently, each under its heartbeat.      *)
(* Every await of a queue or budget operation is a step of its own, so     *)
(* that other processes run in between.  An exception that escapes an      *)
(* admission or an execution, like the operator's interrupt, ends the run: *)
(* the other executions finish or are cancelled.                           *)
(*                                                                         *)
(* Left out: the order of admission (scores), review cases, attempt        *)
(* records, the step limit, and what workers do.                           *)
(***************************************************************************)
EXTENDS Integers, FiniteSets

CONSTANTS
  Tasks, Keys, Runs, Procs, None, MaxAttempts, LeaseFor, Delays, MaxWait, MaxTime, MaxClaims,
  Reservations, Accounts, Capacity, Limit, HeldBack, Demands,
  LaneOf,       \* the budget lane of each task
  DemandOf,     \* what the planner asks of each account for it
  Gates,        \* the outcomes of the gates
  BatchSize,    \* dispatcher_batch_size
  Concurrency,  \* execution_concurrency
  BeatEvery     \* heartbeat_interval, in clock ticks

\* Lifecycle refuses a heartbeat that is not shorter than the lease.
ASSUME HeartbeatAssumption == BeatEvery \in Nat \ {0} /\ BeatEvery < LeaseFor
ASSUME ClockAssumption == LeaseFor \in Nat \ {0} /\ MaxWait \in Nat /\ MaxTime \in Nat \ {0}
ASSUME ClaimsAssumption == MaxClaims \in Nat
ASSUME DispatchAssumption == BatchSize \in Nat \ {0} /\ Concurrency \in Nat \ {0}
ASSUME PlanAssumption ==
  DemandOf \in [Tasks -> Demands] /\ LaneOf \in [Tasks -> {"NORMAL", "EXPLORATION"}]
\* A stopped execution is rescheduled, and an approved task released, without a delay.
ASSUME NoDelayAssumption == 0 \in Delays
\* reservation is None where nothing was reserved.
ASSUME NoReservationAssumption == None \notin Reservations

VARIABLES
  now, tasks, issued, pending, tickets,  \* the queue
  committed, reserved, book,             \* the budgets
  loop,   \* per process: where its dispatcher is
  execs,  \* per process: its dispatch tickets and their executions
  calm    \* whether heartbeats have kept up, and nobody has taken a running task away

queueVars == <<tasks, issued, pending, tickets>>
budgetVars == <<committed, reserved, book>>
vars == <<now, queueVars, budgetVars, loop, execs, calm>>

Q == INSTANCE TaskQueue
B == INSTANCE Budgets

\* Where a dispatcher is: not running, opening the workspace, between two
\* admissions, in one, waiting for a queue write, or ending its run.
Stages == {"off", "reap", "recover", "recovering", "idle", "gates", "reserve", "capacity",
           "denied", "claim", "unclaim", "saving", "ending", "stopped"}

\* Why a run ended.
Causes == {"none", "admission", "execution", "operator"}

\* A ticket waits for its batch; an execution works, heartbeats, and is settled.
Phases == {"admitted", "working", "beating", "renewing", "charging", "finishing", "saving"}

\* STOPPED: cancelled, or a lease was lost.
Endings == {"none", "SUCCEEDED", "RETRY", "FAILED", "STOPPED"}

Idle == [at |-> "idle", task |-> None, res |-> None, todo |-> {}, cause |-> "none"]

Working == {"working", "beating", "renewing"}

Admitted(p) == {e \in execs[p] : e.at = "admitted"}

Goto(p, stage) == loop' = [loop EXCEPT ![p].at = stage]

\* The admission in hand is over; the rest of the batch follows.
NextAdmission(p) ==
  loop' = [loop EXCEPT ![p].at = "idle", ![p].task = None, ![p].res = None]

Step(p, e, f) == execs' = [execs EXCEPT ![p] = (@ \ {e}) \cup {f}]
Gone(p, e) == execs' = [execs EXCEPT ![p] = @ \ {e}]

----------------------------------------------------------------------------
(* Opening the workspace: Lifecycle.recover_expired.                       *)

Open(p) ==
  /\ loop[p].at \in {"off", "stopped"}
  /\ loop' = [loop EXCEPT ![p] = [Idle EXCEPT !.at = "reap"]]
  /\ tickets' = [tickets EXCEPT ![p] = {}]
  /\ UNCHANGED <<now, tasks, issued, pending, budgetVars, execs, calm>>

ReapBudgets(p) ==
  /\ loop[p].at = "reap"
  /\ \E n \in B!Readings :
       \/ B!Overdue(n) # {} /\ B!ReapExpired(n)
       \/ B!Overdue(n) = {} /\ UNCHANGED budgetVars
  /\ Goto(p, "recover")
  /\ UNCHANGED <<now, queueVars, execs, calm>>

RecoverTasks(p) ==
  /\ loop[p].at = "recover"
  /\ \E n \in Q!Readings :
       \/ \E d \in Delays : Q!Recover(p, n, d) /\ Goto(p, "recovering")
       \/ ~(\E t \in Tasks : Q!Expired(t, n)) /\ Goto(p, "idle") /\ UNCHANGED <<now, queueVars>>
  /\ UNCHANGED <<budgetVars, execs, calm>>

----------------------------------------------------------------------------
(* Admission: select_batch, then admit for each task of the batch.         *)

\* Bound: no admission starts without a claim and a reservation identifier left.
Ready == {t \in Tasks : Q!Claimable(t, now) /\ issued[t] < MaxClaims
                        /\ \E r \in Reservations : book[r] = B!Free}

SelectBatch(p, batch) ==
  /\ loop[p].at = "idle" /\ loop[p].todo = {} /\ Admitted(p) = {}
  /\ batch # {} /\ batch \subseteq Ready
  /\ Cardinality(batch) <= BatchSize
  /\ Cardinality(batch) + Cardinality(execs[p]) <= Concurrency
  /\ loop' = [loop EXCEPT ![p].todo = batch]
  /\ UNCHANGED <<now, queueVars, budgetVars, execs, calm>>

\* A task that is no longer runnable is a STALE result.
Admit(p, t) ==
  /\ loop[p].at = "idle" /\ t \in loop[p].todo
  /\ loop' = [loop EXCEPT ![p].todo = @ \ {t},
                ![p].at = IF tasks[t].status \in Q!Waiting THEN "gates" ELSE "idle",
                ![p].task = IF tasks[t].status \in Q!Waiting THEN t ELSE None]
  /\ UNCHANGED <<now, queueVars, budgetVars, execs, calm>>

GatesAllow(p) ==
  /\ loop[p].at = "gates" /\ "ALLOW" \in Gates
  /\ Goto(p, "reserve")
  /\ UNCHANGED <<now, queueVars, budgetVars, execs, calm>>

GatesRefuse(p) ==
  /\ loop[p].at = "gates"
  /\ \/ "DEFER" \in Gates /\ \E d \in Delays : Q!Defer(p, loop[p].task, d)
     \/ "REVIEW" \in Gates /\ Q!SendToReview(p, loop[p].task)
     \/ "BLOCK" \in Gates /\ Q!Close(p, loop[p].task, "BLOCKED")
  /\ Goto(p, "saving")
  /\ UNCHANGED <<budgetVars, execs, calm>>

Reserve(p) ==
  LET t == loop[p].task
      d == DemandOf[t]
      refusal == IF B!Denies(d, LaneOf[t]) THEN "denied" ELSE "capacity"
  IN  /\ loop[p].at = "reserve"
      /\ \/ \E r \in Reservations, n \in B!Readings :
              /\ B!Reserve(r, d, LaneOf[t], n)
              /\ loop' = [loop EXCEPT ![p].at = "claim", ![p].res = r]
         \/ B!Unchecked(d) /\ Goto(p, "claim") /\ UNCHANGED budgetVars
         \/ ~B!Allows(d, LaneOf[t]) /\ Goto(p, refusal) /\ UNCHANGED budgetVars
      /\ UNCHANGED <<now, queueVars, execs, calm>>

\* A DEFER or DENY of the budgets leaves an explicit task state.
BudgetRefuses(p) ==
  /\ \/ loop[p].at = "capacity" /\ \E d \in Delays : Q!Defer(p, loop[p].task, d)
     \/ loop[p].at = "denied" /\ Q!Close(p, loop[p].task, "BLOCKED")
  /\ Goto(p, "saving")
  /\ UNCHANGED <<budgetVars, execs, calm>>

\* Fault: the ticket is made from the row read before the claim.
ClaimWithOldToken(p) ==
  LET t == loop[p].task IN
  /\ loop[p].at = "claim"
  /\ \E n \in Q!Readings : Q!Claim(p, t, n)
  /\ execs' = [execs EXCEPT ![p] = @ \cup {[task |-> t, token |-> tasks[t].token,
                 res |-> loop[p].res, at |-> "admitted", beat |-> now, ending |-> "none"]}]
  /\ NextAdmission(p)
  /\ UNCHANGED <<budgetVars, calm>>

Claim(p) ==
  LET t == loop[p].task IN
  /\ loop[p].at = "claim"
  /\ \E n \in Q!Readings : Q!Claim(p, t, n)
  /\ execs' = [execs EXCEPT ![p] = @ \cup {[task |-> t, token |-> issued'[t],
                 res |-> loop[p].res, at |-> "admitted", beat |-> now, ending |-> "none"]}]
  /\ NextAdmission(p)
  /\ UNCHANGED <<budgetVars, calm>>

\* Somebody else changed the task: a STALE result, once the reservation is released.
ClaimFails(p) ==
  /\ loop[p].at = "claim"
  /\ \E n \in Q!Readings : ~Q!Claimable(loop[p].task, n)
  /\ IF loop[p].res = None THEN NextAdmission(p) ELSE Goto(p, "unclaim")
  /\ UNCHANGED <<now, queueVars, budgetVars, execs, calm>>

\* Fault: the reservation of a task that could not be claimed is forgotten.
UnclaimWithoutRelease(p) ==
  /\ loop[p].at = "unclaim"
  /\ NextAdmission(p)
  /\ UNCHANGED <<now, queueVars, budgetVars, execs, calm>>

Unclaim(p) ==
  /\ loop[p].at = "unclaim"
  /\ B!Release(loop[p].res)
  /\ NextAdmission(p)
  /\ UNCHANGED <<now, queueVars, execs, calm>>

\* The whole batch is admitted: its tickets become executions.
StartBatch(p) ==
  /\ loop[p].at = "idle" /\ loop[p].todo = {} /\ Admitted(p) # {}
  /\ execs' = [execs EXCEPT ![p] = {IF e.at = "admitted"
                                    THEN [e EXCEPT !.at = "working", !.beat = now]
                                    ELSE e : e \in @}]
  /\ UNCHANGED <<now, queueVars, budgetVars, loop, calm>>

----------------------------------------------------------------------------
(* How a run ends.                                                         *)

\* An escaping exception or an interrupt: what was admitted and not started, the
\* admission in hand and its unwritten transition are dropped.
EndRun(p, cause, remaining) ==
  /\ loop' = [loop EXCEPT ![p] = [Idle EXCEPT !.at = "ending", !.cause = cause]]
  /\ execs' = [execs EXCEPT ![p] = {e \in remaining : e.at # "admitted"}]
  /\ pending' = IF loop[p].at = "saving" THEN [pending EXCEPT ![p] = {}] ELSE pending
  /\ UNCHANGED <<now, tasks, issued, tickets, budgetVars, calm>>

Running(p) == loop[p].at \notin {"off", "reap", "recover", "recovering", "ending", "stopped"}

Interrupt(p) ==
  /\ Running(p)
  /\ EndRun(p, "operator", execs[p])

\* defer, send_to_review and block raise ValueError when the row has changed since admit
\* read it; admit only expects that of claim.
AdmissionRaises(p) ==
  /\ \/ loop[p].at = "gates" /\ "DEFER" \in Gates /\ tasks[loop[p].task].status \notin Q!Waiting
     \/ loop[p].at = "gates" /\ Gates \cap {"REVIEW", "BLOCK"} # {} /\ ~Q!Active(loop[p].task)
     \/ loop[p].at = "capacity" /\ tasks[loop[p].task].status \notin Q!Waiting
     \/ loop[p].at = "denied" /\ ~Q!Active(loop[p].task)
     \/ loop[p].at = "unclaim" /\ ~B!IsActive(loop[p].res)
  /\ EndRun(p, "admission", execs[p])

Stop(p) ==
  /\ loop[p].at \in {"idle", "ending"} /\ loop[p].todo = {} /\ execs[p] = {}
  /\ Goto(p, "stopped")
  /\ UNCHANGED <<now, queueVars, budgetVars, execs, calm>>

Crash(p) ==
  /\ loop[p].at \notin {"off", "stopped"}
  /\ loop' = [loop EXCEPT ![p] = [Idle EXCEPT !.at = "off"]]
  /\ execs' = [execs EXCEPT ![p] = {}]
  /\ pending' = [pending EXCEPT ![p] = {}]
  /\ tickets' = [tickets EXCEPT ![p] = {}]
  /\ UNCHANGED <<now, tasks, issued, budgetVars, calm>>

----------------------------------------------------------------------------
(* Execution: execute_claimed, _heartbeat_loop and _supervise_execution.   *)

\* Fault: only the reservation is renewed.
BeatReservationOnly(p, e) ==
  /\ e.at = "working" /\ now - e.beat >= BeatEvery
  /\ Step(p, e, [e EXCEPT !.at = "renewing"])
  /\ UNCHANGED <<now, queueVars, budgetVars, loop, calm>>

Beat(p, e) ==
  /\ e.at = "working" /\ now - e.beat >= BeatEvery
  /\ Q!Heartbeat(p, e.task, e.token)
  /\ Step(p, e, [e EXCEPT !.at = "beating"])
  /\ UNCHANGED <<budgetVars, loop, calm>>

\* Fault: only the queue lease is renewed.
RenewNothing(p, e) ==
  /\ e.at = "renewing"
  /\ Step(p, e, [e EXCEPT !.at = "working", !.beat = now])
  /\ UNCHANGED <<now, queueVars, budgetVars, loop, calm>>

RenewBudget(p, e) ==
  /\ e.at = "renewing"
  /\ \E n \in B!Readings : B!Renew(e.res, n)
  /\ Step(p, e, [e EXCEPT !.at = "working", !.beat = now])
  /\ UNCHANGED <<now, queueVars, loop, calm>>

\* A lost lease stops the worker.
LoseLease(p, e) ==
  /\ \/ e.at = "working" /\ now - e.beat >= BeatEvery /\ ~Q!HeldBy(e.task, e.token)
     \/ e.at = "renewing" /\ ~B!IsActive(e.res)
  /\ Step(p, e, [e EXCEPT !.at = "charging", !.ending = "STOPPED"])
  /\ UNCHANGED <<now, queueVars, budgetVars, loop, calm>>

\* The worker returns, raises or is cancelled; its heartbeat is cancelled where it is.
EndWork(p, e, ending) ==
  /\ e.at \in Working
  /\ Step(p, e, [e EXCEPT !.at = "charging", !.ending = ending])
  /\ pending' = IF e.at = "beating" THEN [pending EXCEPT ![p] = {}] ELSE pending
  /\ UNCHANGED <<now, tasks, issued, tickets, budgetVars, loop, calm>>

\* Fault: an execution without a reservation waits for one.
ChargeReservedOnly(p, e) ==
  /\ e.at = "charging" /\ e.res # None
  /\ IF B!IsActive(e.res) THEN B!Commit(e.res) ELSE e.ending = "STOPPED" /\ UNCHANGED budgetVars
  /\ Step(p, e, [e EXCEPT !.at = "finishing"])
  /\ UNCHANGED <<now, queueVars, loop, calm>>

\* Fault: a failed commit is suppressed for every ending.
ChargeBestEffort(p, e) ==
  /\ e.at = "charging"
  /\ IF e.res # None /\ B!IsActive(e.res) THEN B!Commit(e.res) ELSE UNCHANGED budgetVars
  /\ Step(p, e, [e EXCEPT !.at = "finishing"])
  /\ UNCHANGED <<now, queueVars, loop, calm>>

\* What was executed is charged before it is reported; only a stopped execution is
\* reported without its reservation.
Charge(p, e) ==
  /\ e.at = "charging"
  /\ IF e.res # None /\ B!IsActive(e.res)
     THEN B!Commit(e.res)
     ELSE (e.res = None \/ e.ending = "STOPPED") /\ UNCHANGED budgetVars
  /\ Step(p, e, [e EXCEPT !.at = "finishing"])
  /\ UNCHANGED <<now, queueVars, loop, calm>>

\* Fault: the run goes on.
ChargeErrorContained(p, e) ==
  /\ e.at = "charging" /\ e.ending # "STOPPED"
  /\ e.res # None /\ ~B!IsActive(e.res)
  /\ Gone(p, e)
  /\ UNCHANGED <<now, queueVars, budgetVars, loop, calm>>

\* commit raises: the task stays as it is.
ChargeRaises(p, e) ==
  /\ e.at = "charging" /\ e.ending # "STOPPED"
  /\ e.res # None /\ ~B!IsActive(e.res)
  /\ EndRun(p, "execution", execs[p] \ {e})

Report(p, e) ==
  LET t == e.task
      k == e.token
  IN  /\ e.at = "finishing"
      /\ \/ e.ending = "SUCCEEDED" /\ Q!Succeed(p, t, k)
         \/ e.ending = "RETRY" /\ \E d \in Delays : Q!FailRetry(p, t, k, d)
         \/ e.ending = "STOPPED" /\ Q!FailRetry(p, t, k, 0)
         \/ e.ending = "FAILED" /\ Q!FailFinal(p, t, k)
         \/ /\ e.ending \in {"RETRY", "STOPPED"} /\ tasks[t].attempts >= MaxAttempts
            /\ Q!FailFinal(p, t, k)
      /\ Step(p, e, [e EXCEPT !.at = "saving"])
      /\ UNCHANGED <<budgetVars, loop, calm>>

\* The claim is no longer this execution's: a STALE result.
ReportStale(p, e) ==
  /\ e.at = "finishing" /\ ~Q!HeldBy(e.task, e.token)
  /\ Gone(p, e)
  /\ UNCHANGED <<now, queueVars, budgetVars, loop, calm>>

Execution(p, e) ==
  \/ Beat(p, e)
  \/ RenewBudget(p, e)
  \/ LoseLease(p, e)
  \/ \E ending \in Endings \ {"none"} : EndWork(p, e, ending)
  \/ Charge(p, e)
  \/ ChargeRaises(p, e)
  \/ Report(p, e)
  \/ ReportStale(p, e)

\* The grace of a run that ends is over while an execution is being settled: its
\* cancellation escapes execute_claimed, and its task stays as it is.
CutShort(p, e) ==
  /\ loop[p].at = "ending" /\ e.at \in {"charging", "finishing", "saving"}
  /\ Gone(p, e)
  /\ pending' = IF e.at = "saving" THEN [pending EXCEPT ![p] = {}] ELSE pending
  /\ UNCHANGED <<now, tasks, issued, tickets, budgetVars, loop, calm>>

----------------------------------------------------------------------------
(* The store answers the call that waits for it.                           *)

Stored(p, e) ==
  \/ e.at = "saving" /\ Gone(p, e)
  \/ /\ e.at = "beating"
     /\ Step(p, e, IF e.res = None THEN [e EXCEPT !.at = "working", !.beat = now]
                                   ELSE [e EXCEPT !.at = "renewing"])

Refused(p, e) ==
  \/ e.at = "saving" /\ Gone(p, e)
  \/ e.at = "beating" /\ Step(p, e, [e EXCEPT !.at = "charging", !.ending = "STOPPED"])

\* Recovery passes over the rows that others changed.
RecoveryStores(p, w) ==
  /\ loop[p].at = "recovering"
  /\ Q!SaveApplied(p, w) \/ Q!SaveStale(p, w)
  /\ Goto(p, IF pending'[p] = {} THEN "idle" ELSE "recovering")
  /\ UNCHANGED <<budgetVars, execs, calm>>

\* A defer, review or block that takes the task from its worker.
TakesAway(w) == w.status = "RUNNING" /\ w.op \in {"review", "close"}

SaveReturns(p, w) ==
  /\ Q!SaveApplied(p, w)
  /\ calm' = (calm /\ ~TakesAway(w))
  /\ \/ loop[p].at = "saving" /\ NextAdmission(p) /\ UNCHANGED execs
     \/ loop[p].at # "saving" /\ (\E e \in execs[p] : Stored(p, e)) /\ UNCHANGED loop
  /\ UNCHANGED budgetVars

SaveRaises(p, w) ==
  \/ /\ Q!SaveStale(p, w)
     /\ loop[p].at # "saving" /\ (\E e \in execs[p] : Refused(p, e))
     /\ UNCHANGED <<budgetVars, loop, calm>>
  \/ /\ ~Q!Applies(w)
     /\ loop[p].at = "saving"
     /\ EndRun(p, IF loop[p].task = None THEN "operator" ELSE "admission", execs[p])

----------------------------------------------------------------------------
(* The operator, and the passing of time.                                  *)

\* recon run ingests its targets; other commands approve or reject.
Submit(p, t, k, r) ==
  /\ loop[p].at = "idle"
  /\ Q!Enqueue(t, k, r)
  /\ UNCHANGED <<budgetVars, loop, execs, calm>>

Resolve(p, t) ==
  /\ loop[p].at = "idle" /\ loop[p].todo = {} /\ execs[p] = {}
  /\ \/ Q!ReleaseReview(p, t, 0)
     \/ Q!Close(p, t, "BLOCKED")
  /\ Goto(p, "saving")
  /\ UNCHANGED <<budgetVars, execs, calm>>

\* No heartbeat is late, and nobody is in the middle of an admission or a report.
KeepsUp(p) ==
  /\ loop[p].at \in {"off", "stopped", "idle", "ending"} /\ loop[p].todo = {}
  /\ \A e \in execs[p] : e.at = "working" /\ now - e.beat < BeatEvery

Tick ==
  /\ Q!Tick
  /\ calm' = (calm /\ \A p \in Procs : KeepsUp(p))
  /\ UNCHANGED <<budgetVars, loop, execs>>

----------------------------------------------------------------------------
Init ==
  /\ Q!Init
  /\ B!Init
  /\ loop = [p \in Procs |-> [Idle EXCEPT !.at = "off"]]
  /\ execs = [p \in Procs |-> {}]
  /\ calm = TRUE

Admission(p) ==
  \/ \E batch \in SUBSET Tasks : SelectBatch(p, batch)
  \/ \E t \in Tasks : Admit(p, t)
  \/ GatesAllow(p)
  \/ GatesRefuse(p)
  \/ Reserve(p)
  \/ BudgetRefuses(p)
  \/ Claim(p)
  \/ ClaimFails(p)
  \/ Unclaim(p)
  \/ AdmissionRaises(p)
  \/ StartBatch(p)

Process(p) ==
  \/ Open(p) \/ ReapBudgets(p) \/ RecoverTasks(p)
  \/ Admission(p)
  \/ \E e \in execs[p] : Execution(p, e) \/ CutShort(p, e)
  \/ \E w \in pending[p] : RecoveryStores(p, w) \/ SaveReturns(p, w) \/ SaveRaises(p, w)
  \/ Interrupt(p) \/ Stop(p) \/ Crash(p)

Operator(p) ==
  \/ \E t \in Tasks, k \in Keys, r \in Runs : Submit(p, t, k, r)
  \/ \E t \in Tasks : Resolve(p, t)

Next ==
  \/ \E p \in Procs : Process(p) \/ Operator(p)
  \/ Tick

Spec == Init /\ [][Next]_vars

\* An open process keeps going, and each of its executions gets its turn at the
\* transition lock (asyncio.Lock is first come, first served); workers end, because
\* every one of them has a timeout.
Fairness ==
  \A p \in Procs :
    /\ WF_vars(ReapBudgets(p) \/ RecoverTasks(p) \/ Admission(p))
    /\ WF_vars(\E w \in pending[p] : RecoveryStores(p, w) \/ SaveReturns(p, w) \/ SaveRaises(p, w))
    /\ \A t \in Tasks, k \in 1..MaxClaims :
         SF_vars(\E e \in execs[p] : e.task = t /\ e.token = k /\ Execution(p, e))

FairSpec == Spec /\ Fairness
=============================================================================
