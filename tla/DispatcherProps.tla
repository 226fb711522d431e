-------------------------- MODULE DispatcherProps --------------------------
(***************************************************************************)
(* What the dispatcher promises: limits, fairness between workers, and an  *)
(* end to every run with the status it deserves.                           *)
(***************************************************************************)
EXTENDS Dispatcher

\* How many executions a worker really has, whatever running_by_worker says.
RunningOf(w) == Cardinality({s \in Busy : WorkerOf[slots[s].task] = w})

InBatch(batch, w) == Cardinality({i \in DOMAIN batch : WorkerOf[batch[i]] = w})

Results == {"SUCCEEDED", "FAILED", "RETRY", "STALE"}

\* Rows, the loop's variables, slots and the run keep the shapes of runtime.py, and
\* running_by_worker counts what is in the slots.
DispatcherTypeOK ==
  /\ row \in [Tasks -> [status : Open \cup Terminal \cup {"ABSENT", "RUNNING", "REVIEW"},
                        attempts : 0..MaxAttempts, wait : Nat, cased : BOOLEAN]]
  /\ loop.at \in Stages /\ loop.steps \in Nat
  /\ loop.nap \in 0..MaxDeferredWait
  /\ slots \in [SlotIds -> {None} \cup [task : Tasks, result : Results \cup {None}]]
  /\ byWorker = [w \in Workers |-> RunningOf(w)]
  /\ patience \in 0..Patience

----------------------------------------------------------------------------
(* Safety.                                                                 *)

\* A step is one task that was claimed for execution, and a run makes at most max_steps
\* of them, however many executions end between the awaits (ARCHITECTURE.md section 7).
StepsWithinLimit == loop.steps + Len(loop.tickets) <= Limit

\* Every ticket finds a free slot (available_slots.pop(0) would raise), and no worker runs
\* more executions than worker_limits allows, though its count is kept apart from the slots.
TicketsHaveSlots ==
  /\ Len(loop.tickets) <= Cardinality(Free)
  /\ \A w \in DOMAIN WorkerLimit :
       RunningOf(w) + InBatch(loop.tickets, w) <= WorkerLimit[w]

\* A run reported SUCCEEDED left nothing to do: whatever its executions discovered and its
\* gates deferred or parked has been settled (_run_frontier).
SucceededRunIsDone == run.status = "SUCCEEDED" => Unfinished = {}

----------------------------------------------------------------------------
(* Action properties.                                                      *)

\* No more of a worker's tasks fit beside a batch.
Saturated(w, batch) ==
  w \in DOMAIN WorkerLimit /\ RunningOf(w) + InBatch(batch, w) >= WorkerLimit[w]

\* A worker that is left out of a batch though the shortlist holds more of its tasks and it
\* has capacity is at most one task behind any other (_select_ranked_batch).
BatchIsWorkerFair ==
  [][Rank =>
       LET batch == loop'.todo
           offered == Shortlist(Ready, CandidateLimit)
       IN  \A w, v \in {WorkerOf[t] : t \in offered} :
             \/ InBatch(batch, v) <= InBatch(batch, w) + 1
             \/ InBatch(batch, w) = Cardinality(Of(offered, w))
             \/ Saturated(w, batch)]_vars

\* Slow workers leave room for the others: if slots stay free after a ranking while a ready
\* task's worker has capacity, it is only because the shortlist was full (ready, admit_batch).
SlowWorkersLeaveRoom ==
  [][Rank /\ Len(loop'.todo) < Least(FreeSlots, BatchSize) =>
       \A t \in Ready :
         \/ \E i \in DOMAIN loop'.todo : loop'.todo[i] = t
         \/ Saturated(WorkerOf[t], loop'.todo)
         \/ Cardinality(Ready) > CandidateLimit]_vars

----------------------------------------------------------------------------
(* Liveness.                                                               *)

\* Every run ends, unless gates and budgets never stop deferring: a task that is due is
\* always offered again, and the loop neither spins nor waits for executions that are over.
RunEnds == (run.status = "RUNNING") ~> (run.status # "RUNNING")
=============================================================================
