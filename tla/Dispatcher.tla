----------------------------- MODULE Dispatcher -----------------------------
(***************************************************************************)
(* The loop of Runtime._run_frontier (recon/runtime.py): one dispatcher    *)
(* ranks a batch, admits it task by task, hands the tickets to execution   *)
(* slots, waits for the first executions to end, sleeps until a deferred   *)
(* task is due, and gives the run its final status.                        *)
(*                                                                         *)
(* Executions end, publish and discover tasks, and an operator settles     *)
(* reviews, between any two awaits of the loop.  What an admission and an  *)
(* execution do to the queue and to the budgets is the subject of          *)
(* Lifecycle; here only their results matter.  A deferral is a countdown   *)
(* and not a date, so that runs of any length have finitely many states.   *)
(*                                                                         *)
(* Left out: interrupts, escaping exceptions and crashes (Lifecycle),      *)
(* other runs in the same workspace, progress reports, resume_frontier;    *)
(* and idle_seen, which is TRUE whenever the loop reads it: with nothing   *)
(* executing and steps left, admission ended on IDLE or on backpressure.   *)
(***************************************************************************)
EXTENDS Scheduler, Sequences

CONSTANTS
  None,
  Seeds,            \* what initialize() enqueues
  Leftover,         \* the tasks an earlier run left deferred
  Discovers,        \* Discovers[t]: the tasks that the execution of t may enqueue
  MaxAttempts,      \* Task.max_attempts
  Delays,           \* retry and deferral delays
  Limit,            \* max_steps
  Concurrency,      \* execution_concurrency
  BatchSize,        \* dispatcher_batch_size
  CandidateLimit,   \* candidate_limit
  WorkerLimit,      \* worker_limits
  MaxDeferredWait,  \* max_deferred_wait_seconds
  MaxRuns,          \* bound on the runs
  Patience          \* bound on the deferrals and reviews of a run: gates and budgets decide

ASSUME DispatchAssumption ==
  /\ Limit \in Nat \ {0} /\ Concurrency \in Nat \ {0} /\ BatchSize \in Nat \ {0}
  /\ CandidateLimit \in Nat \ {0} /\ MaxAttempts \in Nat \ {0} /\ MaxDeferredWait \in Nat
  /\ Delays \subseteq Nat
ASSUME WorkerLimitAssumption ==
  /\ DOMAIN WorkerLimit \subseteq Workers
  /\ \A w \in DOMAIN WorkerLimit : WorkerLimit[w] \in Nat \ {0}
ASSUME PatienceAssumption == Patience \in Nat
ASSUME NoneAssumption ==
  None \notin [task : Tasks, result : {None, "SUCCEEDED", "FAILED", "RETRY", "STALE"}]
ASSUME DiscoversAssumption == Seeds \cup Leftover \subseteq Tasks /\ Discovers \in [Tasks -> SUBSET Tasks]

VARIABLES
  row,       \* the tasks table, and whether a task has a review case
  loop,      \* the local variables of the loop
  slots,     \* available_slots and active: the execution in each slot
  byWorker,  \* running_by_worker
  run,       \* the run's row and the flags that decide its status
  patience   \* what is left of Patience

vars == <<row, loop, slots, byWorker, run, patience>>

Open == {"PENDING", "DEFERRED"}
Terminal == {"SUCCEEDED", "FAILED", "BLOCKED"}
Absent == [status |-> "ABSENT", attempts |-> 0, wait |-> 0, cased |-> FALSE]

\* Where the loop is: no run, ready to rank, admitting a batch, at the wait for
\* executions, asleep until a task is due, after the loop.
Stages == {"off", "rank", "admit", "wait", "sleep", "finish"}

Start == [at |-> "rank", steps |-> 0, todo |-> <<>>, tickets |-> <<>>,
          press |-> FALSE, nap |-> 0]

SlotIds == 1..Concurrency
Free == {s \in SlotIds : slots[s] = None}
Busy == SlotIds \ Free
Executing(s) == s \in Busy /\ slots[s].result = None
Least(a, b) == IF a < b THEN a ELSE b

\* Rows that ready() and next_ready_at() see.
Runnable(t) == row[t].status \in Open /\ row[t].attempts < MaxAttempts
Ready == {t \in Tasks : Runnable(t) /\ row[t].wait = 0}

Unfinished == {t \in Tasks : row[t].status \notin Terminal \cup {"ABSENT"}}

Goto(stage) == loop' = [loop EXCEPT !.at = stage]

----------------------------------------------------------------------------
(* A run starts.                                                           *)

StartRun ==
  /\ run.status # "RUNNING" /\ run.number < MaxRuns
  /\ run' = [number |-> run.number + 1, status |-> "RUNNING", failed |-> FALSE, paused |-> FALSE]
  /\ row' = [t \in Tasks |-> IF t \in Seeds /\ row[t] = Absent
                             THEN [Absent EXCEPT !.status = "PENDING"] ELSE row[t]]
  /\ loop' = Start
  /\ slots' = [s \in SlotIds |-> None]
  /\ byWorker' = [w \in Workers |-> 0]
  /\ patience' = Patience

----------------------------------------------------------------------------
(* Ranking a batch.                                                        *)

CanAdmit == loop.steps < Limit /\ Free # {}

\* Fault: the steps that are left do not bound the batch.
SlotsLeftOnly == Cardinality(Free)

\* min(concurrency - len(active), limit - steps)
FreeSlots == Least(Cardinality(Free), Limit - loop.steps)

\* worker_capacities; a saturated worker, which is excluded, is one with capacity 0.
Capacities ==
  [w \in DOMAIN WorkerLimit |-> IF byWorker[w] > WorkerLimit[w] THEN 0
                                ELSE WorkerLimit[w] - byWorker[w]]

\* An empty batch is an IDLE result: the loop stops admitting.
Rank ==
  /\ loop.at = "rank" /\ CanAdmit
  /\ \E rank \in Rankings(Shortlist(Ready, CandidateLimit)) :
       LET batch == SelectRankedBatch(rank, Least(FreeSlots, BatchSize), Capacities) IN
       loop' = IF batch = <<>>
               THEN [loop EXCEPT !.at = "wait"]
               ELSE [loop EXCEPT !.at = "admit", !.todo = batch, !.press = FALSE]
  /\ UNCHANGED <<row, slots, byWorker, run, patience>>

----------------------------------------------------------------------------
(* Admitting it: admit_batch, one result per task.                         *)

Next1 == Head(loop.todo)
Admitting == loop.at = "admit" /\ loop.todo # <<>>
Later(rest) == [rest EXCEPT !.todo = Tail(loop.todo)]

AdmitStale ==
  /\ Admitting /\ row[Next1].status \notin Open
  /\ loop' = Later(loop)
  /\ UNCHANGED <<row, slots, byWorker, run, patience>>

AdmitTicket ==
  /\ Admitting /\ row[Next1].status \in Open
  /\ row' = [row EXCEPT ![Next1].status = "RUNNING", ![Next1].attempts = @ + 1]
  /\ loop' = Later([loop EXCEPT !.tickets = Append(@, Next1)])
  /\ UNCHANGED <<slots, byWorker, run, patience>>

\* A gate defers the task, parks it for review, or blocks it, as a denied budget does.
AdmitRefused ==
  /\ Admitting /\ row[Next1].status \in Open
  /\ \/ /\ patience > 0 /\ patience' = patience - 1
        /\ \/ \E d \in Delays : row' = [row EXCEPT ![Next1].status = "DEFERRED", ![Next1].wait = d]
           \/ row' = [row EXCEPT ![Next1].status = "REVIEW", ![Next1].cased = TRUE]
     \/ row' = [row EXCEPT ![Next1].status = "BLOCKED"] /\ UNCHANGED patience
  /\ loop' = Later(loop)
  /\ UNCHANGED <<slots, byWorker, run>>

\* Local capacity is short: backpressure.
AdmitPressed ==
  /\ Admitting /\ row[Next1].status \in Open
  /\ patience > 0 /\ patience' = patience - 1
  /\ \E d \in Delays : row' = [row EXCEPT ![Next1].status = "DEFERRED", ![Next1].wait = d]
  /\ loop' = Later([loop EXCEPT !.press = TRUE])
  /\ UNCHANGED <<slots, byWorker, run>>

\* available_slots.pop(0), once per ticket.
SlotOf(i) == CHOOSE s \in Free : Cardinality({f \in Free : f <= s}) = i

\* The results are gone through: every ticket becomes an execution and a step.
Dispatch ==
  /\ loop.at = "admit" /\ loop.todo = <<>>
  /\ slots' = [s \in SlotIds |->
       IF \E i \in DOMAIN loop.tickets : SlotOf(i) = s
       THEN [task |-> loop.tickets[CHOOSE i \in DOMAIN loop.tickets : SlotOf(i) = s], result |-> None]
       ELSE slots[s]]
  /\ byWorker' = [w \in Workers |->
       byWorker[w] + Cardinality({i \in DOMAIN loop.tickets : WorkerOf[loop.tickets[i]] = w})]
  /\ loop' = [loop EXCEPT !.at = IF loop.press THEN "wait" ELSE "rank",
                        !.steps = @ + Len(loop.tickets), !.tickets = <<>>]
  /\ UNCHANGED <<row, run, patience>>

----------------------------------------------------------------------------
(* Executions: what their results do to the frontier.                      *)

\* A worker publishes an event, and the router enqueues a task.
Discover(s, u) ==
  /\ Executing(s)
  /\ u \in Discovers[slots[s].task] /\ row[u] = Absent
  /\ row' = [row EXCEPT ![u].status = "PENDING"]
  /\ UNCHANGED <<loop, slots, byWorker, run, patience>>

Result(s, result) == slots' = [slots EXCEPT ![s].result = result]

EndExecution(s) ==
  LET t == slots[s].task IN
  /\ Executing(s)
  /\ \/ /\ row[t].status # "RUNNING" /\ Result(s, "STALE") /\ UNCHANGED row
     \/ /\ row[t].status = "RUNNING"
        /\ \/ row' = [row EXCEPT ![t].status = "SUCCEEDED"] /\ Result(s, "SUCCEEDED")
           \/ row' = [row EXCEPT ![t].status = "FAILED"] /\ Result(s, "FAILED")
           \/ /\ row[t].attempts < MaxAttempts
              /\ \E d \in Delays : row' = [row EXCEPT ![t].status = "DEFERRED", ![t].wait = d]
              /\ Result(s, "RETRY")
  /\ UNCHANGED <<loop, byWorker, run, patience>>

\* The inner loop is over: it was broken off, or its condition is false.
AtWait == loop.at = "wait" \/ (loop.at = "rank" /\ ~CanAdmit)

Done == {s \in Busy : slots[s].result # None}

\* Fault: the worker's count is forgotten.
CollectKeepingCount ==
  /\ AtWait /\ Done # {}
  /\ slots' = [s \in SlotIds |-> IF s \in Done THEN None ELSE slots[s]]
  /\ run' = [run EXCEPT !.failed = @ \/ \E s \in Done : slots[s].result = "FAILED"]
  /\ loop' = [loop EXCEPT !.at = "rank", !.press = FALSE]
  /\ UNCHANGED <<row, byWorker, patience>>

\* asyncio.wait returns every execution that has ended by then.
Collect ==
  /\ AtWait /\ Done # {}
  /\ slots' = [s \in SlotIds |-> IF s \in Done THEN None ELSE slots[s]]
  /\ byWorker' = [w \in Workers |->
       byWorker[w] - Cardinality({s \in Done : WorkerOf[slots[s].task] = w})]
  /\ run' = [run EXCEPT !.failed = @ \/ \E s \in Done : slots[s].result = "FAILED"]
  /\ loop' = [loop EXCEPT !.at = "rank", !.press = FALSE]
  /\ UNCHANGED <<row, patience>>

----------------------------------------------------------------------------
(* Nothing executes: go on, sleep, or leave the loop.                      *)

Quiet == AtWait /\ Busy = {}

\* next_ready_at: the least countdown.
DueIn(d) == (\E t \in Tasks : Runnable(t) /\ row[t].wait = d)
            /\ (\A t \in Tasks : Runnable(t) => row[t].wait >= d)

LimitReached ==
  /\ Quiet /\ loop.steps >= Limit
  /\ Goto("finish")
  /\ UNCHANGED <<row, slots, byWorker, run, patience>>

\* stopped_idle
RunDry ==
  /\ Quiet /\ loop.steps < Limit
  /\ \A t \in Tasks : ~Runnable(t)
  /\ Goto("finish")
  /\ UNCHANGED <<row, slots, byWorker, run, patience>>

\* paused_deferred
PauseDeferred ==
  /\ Quiet /\ loop.steps < Limit
  /\ \E d \in Delays : DueIn(d) /\ d > MaxDeferredWait
  /\ run' = [run EXCEPT !.paused = TRUE]
  /\ Goto("finish")
  /\ UNCHANGED <<row, slots, byWorker, patience>>

Sleep ==
  /\ Quiet /\ loop.steps < Limit
  /\ \E d \in 0..MaxDeferredWait : DueIn(d) /\ loop' = [loop EXCEPT !.at = "sleep", !.nap = d]
  /\ UNCHANGED <<row, slots, byWorker, run, patience>>

Wake ==
  /\ loop.at = "sleep" /\ loop.nap = 0
  /\ loop' = [loop EXCEPT !.at = "rank", !.press = FALSE]
  /\ UNCHANGED <<row, slots, byWorker, run, patience>>

\* Fault: a parked task does not keep a run from having succeeded.
VerdictWithoutReviews ==
  IF run.failed THEN "FAILED"
  ELSE IF run.paused \/ \E t \in Tasks : Runnable(t) THEN "PAUSED" ELSE "SUCCEEDED"

Verdict ==
  IF run.failed THEN "FAILED"
  ELSE IF run.paused \/ Unfinished # {} THEN "PAUSED" ELSE "SUCCEEDED"

FinishRun ==
  /\ loop.at = "finish"
  /\ run' = [run EXCEPT !.status = Verdict]
  /\ Goto("off")
  /\ UNCHANGED <<row, slots, byWorker, patience>>

----------------------------------------------------------------------------
(* The operator, and the passing of time.                                  *)

\* approve_review_case and reject_review_case, from other processes; a task can have more
\* than one case, so that a rejection finds it in any state.
Settle(t) ==
  /\ \/ row[t].status = "REVIEW" /\ row' = [row EXCEPT ![t].status = "PENDING"]
     \/ row[t].cased /\ t \in Unfinished /\ row' = [row EXCEPT ![t].status = "BLOCKED"]
  /\ UNCHANGED <<loop, slots, byWorker, run, patience>>

Minus1(n) == IF n = 0 THEN 0 ELSE n - 1

Tick ==
  /\ loop.nap > 0 \/ \E t \in Tasks : row[t].wait > 0
  /\ loop' = [loop EXCEPT !.nap = Minus1(@)]
  /\ row' = [t \in Tasks |-> [row[t] EXCEPT !.wait = Minus1(@)]]
  /\ UNCHANGED <<slots, byWorker, run, patience>>

----------------------------------------------------------------------------
\* An earlier run has left tasks that wait for a retry.
Left == [Absent EXCEPT !.status = "DEFERRED", !.attempts = 1, !.wait = MaxDeferredWait]

Init ==
  /\ row = [t \in Tasks |-> IF t \in Leftover THEN Left ELSE Absent]
  /\ loop = [Start EXCEPT !.at = "off"]
  /\ slots = [s \in SlotIds |-> None]
  /\ byWorker = [w \in Workers |-> 0]
  /\ run = [number |-> 0, status |-> "NONE", failed |-> FALSE, paused |-> FALSE]
  /\ patience = Patience

Loop ==
  \/ Rank
  \/ AdmitStale \/ AdmitTicket \/ AdmitRefused \/ AdmitPressed \/ Dispatch
  \/ Collect
  \/ LimitReached \/ RunDry \/ PauseDeferred \/ Sleep \/ Wake
  \/ FinishRun

Next ==
  \/ StartRun
  \/ Loop
  \/ \E s \in SlotIds : EndExecution(s) \/ \E u \in Tasks : Discover(s, u)
  \/ \E t \in Tasks : Settle(t)
  \/ Tick

Spec == Init /\ [][Next]_vars

\* The event loop keeps running the dispatcher, workers have timeouts, time passes; an
\* operator need not come.
Fairness ==
  /\ WF_vars(Loop)
  /\ \A s \in SlotIds : WF_vars(EndExecution(s))
  /\ WF_vars(Tick)

FairSpec == Spec /\ Fairness
=============================================================================
