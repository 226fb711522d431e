# Night Scout: a verification project in TLA+

Night Scout is a reconnaissance coordinator: processes share one workspace (a SQLite file), take tasks from a durable frontier, check gates and budgets, run workers against a target and feed what they find back as events that become tasks. This directory models the part of it that has to be right under concurrency, crashes and retries, checks it with TLC and proves its central claims with TLAPS.

Paths are relative to the repository. `queue.py`, `lifecycle.py` and `budgets.py` are in `recon/core/`, `database.py` in `recon/storage/`, `runtime.py` in `recon/`, `rate_limit.py` in `recon/policy/`, `convergence.py` in `recon/intelligence/`.

## 1. Inventory

| component | state | operations | interacts through |
|---|---|---|---|
| **Task queue** (`queue.py`, `SQLiteTaskStore`) | the `tasks` table: status, attempts, available_at, lease, claim token, dedupe key, run; one `asyncio.Lock` per process | enqueue, claim, heartbeat, succeed, fail, defer, block, cancel, send_to_review, release_review, recover_expired_leases | called by lifecycle, router, review commands |
| **Budgets** (`budgets.py`, `SQLiteBudgetStore`) | usage rows (committed, reserved) per bucket, class and metric; reservations with an expiry | reserve, commit, release, renew, reap_expired | called by lifecycle and its heartbeat |
| **Lifecycle** (`lifecycle.py`) | dispatch tickets; per execution a worker task and a heartbeat task | admit_batch / admit, execute_claimed, recover_expired | queue, budgets, gates, review cases, attempts |
| **Run frontier** (`runtime.py:2819`) | active executions, slots, step count, per-worker counts | the dispatch loop: rank, admit, dispatch, collect, sleep, finish; cancellation with a grace period | lifecycle, scheduler, run records |
| **Review cases** (`SQLiteReviewCaseStore`, `runtime.py:3493`) | cases OPEN / APPROVED / BLOCKED | open_or_get, approve, reject | lifecycle's gates; operator commands in other processes |
| **Rate limiter** (`rate_limit.py`, `SQLiteRateLimitStore`) | token buckets, active concurrency, leases | acquire, await_acquire, release, renew, reap_expired | called by workers inside an execution |
| **Event bus, ingest, router** (`runtime.py:1389`, `EventRepository`, `core/router.py`) | bounded publication queue, one writer; observations, assets | publish, ingest, route | workers publish; routing enqueues tasks |
| **Scheduler** (`core/scheduler.py`, `SQLiteTaskStore.ready`) | none | four fair lanes, ranking, worker-fair batches | reads the queue; called by `admit_batch` |
| **Convergence** (`convergence.py`, `SQLiteConvergenceStateStore`, `runtime.py:1199`, `runtime.py:1833`) | per branch and lane: search tier, streaks, cooldown, closed | the gate before an admission; evaluate after a worker has returned | reads the branch's accounts and yields; called by the runtime's executor and by lifecycle's gates |
| **Scope, restrictions, seeds** (`recon/policy/`) | configuration | decide | gates |
| attempt, run, branch, decision repositories | append-only rows | start / finish | lifecycle, runtime |
| intelligence, surface, workers, exporters, CLI, tooling, scripts, migrations | derived data, files | - | outside the concurrent core |

What makes each part correct, and what makes it hard:

- **Queue.** One finished execution per claim; a late worker changes nothing; a claimed task is recoverable after any crash; the retry budget bounds executions; logical work is not queued twice. Hard because all transitions but `put` and `claim` are a read and a later compare-and-set, serialised in one process but not between processes.
- **Budgets.** No limit is passed, every execution is charged once, counters never drift. Hard because commit, release and reaping race for one reservation.
- **Lifecycle.** No worker without live leases; no two workers on a task; everything claimed or reserved is given up on every path. Hard because each `await` lets other coroutines and processes in, and because every step may be the one that raises, is cancelled or is the last before a crash.
- **Rate limiter.** Limits hold over wall time whatever the order of calls; a slot is returned on every path.
- **Review.** An approval or a rejection takes effect, once, whenever it arrives.
- **Ingest.** Every new observation is routed; publication never deadlocks.
- **Convergence.** A branch that is closed gets no more work, so it must have a reason to be; a pause, a tier or a closing must not be undone. Hard because every execution reads, decides and writes with no lock from the first read to the write.
- **Dispatcher.** The loop ends when, and only when, nothing is left to do; slots and step limits hold.

The full list of hazards, each at its source line with the properties that cover it or the reason none does yet, is in `PROJECT.json`.

## 2. Modules

| module | contents |
|---|---|
| `ClaimLedger` | abstract specification: what claiming promises, without leases, clocks, stale writes or processes |
| `TaskQueue`, `TaskQueueProps` | the queue over its store; its properties, the inductive invariant, the refinement mapping to `ClaimLedger` |
| `Budgets` | the budget store and manager, and their properties |
| `Lifecycle`, `LifecycleProps` | admission, execution, heartbeat and the ends of a run, composed with instances of `TaskQueue` and `Budgets` |
| `ReviewDesk`, `ReviewProps` | gates that ask a human, review cases, the approve and reject commands, composed with an instance of `TaskQueue` |
| `Scheduler` | the fair lanes and the worker-fair batches, as operators |
| `Dispatcher`, `DispatcherProps` | the loop of a run, over `Scheduler` |
| `Ingest` | publication of events, the asset merge and the router's tasks, and their properties |
| `RateLimit` | the rate store and the workers that wait for it, and their properties |
| `Convergence` | the convergence of a branch and the executions that evaluate it, over `Budgets`, which it extends, and their properties |
| `TaskQueueProofs`, `BudgetsProofs` (with those about `Convergence`), `LifecycleProofs`, `ReviewProofs`, `DispatcherProofs`, `IngestProofs`, `RateLimitProofs` | theorems about them |
| `SumProofs` | what the sum of a function over a finite set is, for the proofs that add up reservations, slots and tokens |
| `MCTaskQueue`, `MCBudgets`, `MCLifecycle`, `MCReview`, `MCDispatcher`, `MCIngest`, `MCRateLimit`, `MCConvergence` | values of the constants for TLC |

`Convergence` extends `Budgets` and calls its own specification `BranchSpec`; `BranchKeepsBudgets` proves that it implements `Spec`, that of the budgets. `Lifecycle` and `ReviewDesk` take the queue's actions whole, through `INSTANCE`: what is proved of `TaskQueue` for any use of it holds in them, and for `Lifecycle` a lemma of its own (`UsesParts`) says so. `Dispatcher` looks at the same program from above: it keeps of an admission and of an execution only their results, and adds the loop that `Lifecycle` leaves out.

Definitions marked `Fault:` are not part of any specification. Each is a plausible mistake in the definition that follows it (a dropped guard, a missing reset), kept to confirm that the properties notice it; `PROJECT.json` pairs them.

### TaskQueue

A row of `tasks` is `tasks[t]`; claim tokens are numbered per task (`issued[t]` is the last), since uuid4 values never recur. A transition that reads and then saves is two steps. The first (`Succeed`, `FailRetry`, `Defer`, ...) reads the row, checks what the code checks and puts a write into `pending[p]`; the second, `SaveApplied` or `SaveStale`, is `SQLiteTaskStore.save`: it stores the whole prepared row if status, token and, for recovery, lease still are what was read. `Begin` is the transition lock: one transition at a time *per process*. `Enqueue` and `Claim` are single immediate transactions. `Claim` may use a clock reading up to `MaxWait` ticks old, because `utc_now()` is evaluated before the write lock is obtained. A worker may act on its ticket as long as its process lives, however late.

### Budgets

Each store call is one immediate transaction, so one action. An account is a bucket, class and metric with a limit. `CONCURRENT_TASKS` is a capacity account: it is never spent, and refusal by it alone is DEFER rather than DENY. `HeldBack` is the part of a soft limit that NORMAL work may not use.

### Lifecycle

`loop[p]` is the dispatcher of process `p`: opening the workspace (`reap`, `recover`), selecting a batch, and the stages of one `admit`. `execs[p]` holds its tickets and executions. Every await of a queue or budget call is a step of its own; queue transitions are the two steps of `TaskQueue`, and the caller waits in `saving` or `beating` for the store's answer (`SaveReturns`, `SaveRaises`). `EndRun` is an exception or an interrupt: what has been admitted and not started is dropped (`admit_batch` is a list comprehension), and the other executions finish, are cancelled, or are cut short after the grace period. `Gates` says which gate outcomes can occur in an instance. `calm` is a history variable, explained under *Timeliness*.

### ReviewDesk

`desk[p]` is the call that process `p` is in. A runner (`Rank`, `Admit`, `GatePasses`, `GateAsks`, `OpenCase`, `Park`, `ClaimAdmitted`) is `admit` with the review gates only: each gate looks for an approval of exactly the signal fingerprints it asks about, and the first without one opens a case and parks the task, in two writes to two stores. An operator (`Decide`, `LookUp`, `Resolve`, `Apply`) is `approve_review_case` or `reject_review_case` in a process of its own: it reads the case and the task, resolves the case in a transaction that checks again that it is OPEN, and then acts on the task as it *was* read. `Raise` ends a call with an exception; `Crash` ends it anywhere. `Signals[t]` is what the gates ask about `t`; what a signal says is of no consequence.

### Scheduler and Dispatcher

`Shortlist` is `ready(fair=True)`: four lanes (top, oldest, exploration, tail) whose sizes `FairLaneLimits` divides, and a filling from the top. `Rankings` are all orders of the shortlist, since a score is a floating-point sum of learned signals. `SelectRankedBatch` takes, in rounds, the best remaining task of every worker that has capacity; the code's deques become the order (round, rank of the worker's best task).

In `Dispatcher`, `loop.at` is where `_run_frontier` is: `rank` and `admit` are the inner loop, one admission result per step; `wait` is `asyncio.wait`, with the branches taken when nothing executes; `sleep` is the wait for a deferred task; `finish` gives the run its status. `slots` is `available_slots` and `active`, `byWorker` is `running_by_worker`, `run.failed` and `run.paused` the flags behind the status. Executions end, discover tasks (`Discover`) and reviews are settled (`Settle`) between any two steps. A deferral is a countdown, so that runs of any length have finitely many states. `idle_seen` is left out because it is true whenever it is read: with nothing executing and steps left, admission ended on IDLE or on backpressure. Interrupts, escaping exceptions and crashes are in `Lifecycle`.

### Ingest

`pub[x]` is what the worker execution `x` is publishing: waiting for one of the bounded slots (`queued`), for the write lock (`locking`), before the transaction that stores the observation and merges the asset (`storing`), before the router's tasks, each a transaction (`routing`), or at the events derived from it, which are published inside the outer publication with its slot (`deriving`). `Abort` is an exception or a cancellation at any of these points, with the `finally` clause (`GiveBack`); `Crash` takes every publication of the process. The execution is then retried, and its events have new identifiers, so they are observations of their own. What an attempt finds is any part of what its worker may find (`Begin`): exploration permutations draw on a durable cursor that moves on (workers/permutations.py:778), so a retry need not find what the attempt before it stored. Of what a lookup about an event may bring (`Enriched`), any part is published too, none of it when the lookup fails, which is only a warning (runtime.py:1684).

### RateLimit

A bucket has tokens, the time of its last refill and the slots in use; a lease remembers what slots it took of which buckets. Each store call is one immediate transaction; `workers[w].time` is the clock reading a call made before it asked for the write lock, and a call may wait for the lock up to `MaxWait` (SQLite's busy timeout; then it raises, which is one of the ends in `GiveUp`). A refused call is `deferred` until it waits on the `Condition` (`sleeping`); a release in between does not wake it. The Condition serves one process, so a release in another process does not either: the timeout is what remains. `AcquireCancelled` is a cancellation after the store has committed, so that nobody knows the lease. `granted` is a history of the tokens given, by the clock readings of the calls, and `late` one of the calls that committed after a later reading had become the refill time of their bucket.

### Convergence

`states[lane]` is the stored state of a lane of one branch; branches share nothing but accounts, which other work of a branch fills just as well. `evals[w]` is an execution of that branch: past the gate (`PassGate`), with its reservation (`Dispatch`), and in the evaluation after it. Between the steps of an evaluation anything may happen: the runtime reads the tier (`ReadTier`), `evaluate` reads the clock and the prior state (`ReadPrior`), the inspector reads the accounts one by one, the soft ones first (`Inspect`; `marks` are the thresholds passed so far, since the pressure of a class is that of its fullest account), `_decide` decides (`Decide`), and `put` stores, unless what is stored is newer (`Store`). `UpdateFails` is any exception on the way, which is only a warning. `Decision` has the rules of `_decide` in their order, one operator each. What the statistics say of a branch is one of `Yields`, the judgements that the thresholds tell apart: enough history, productive, low yield, low information gain. `full` is a history variable: whether a hard account of the branch was ever at its closing threshold.

## 3. Runs

| run | instance | shows |
|---|---|---|
| `queue` | 2 processes, 1 task, 2 claims, a lease of one tick, clock 1..2 | `RunningIsRecoverable`, `OnlyNewestClaimCompletes`, `RecoveryRespectsLease`, refinement of `ClaimLedger` |
| `queue_single` | 1 process, 2 tasks, 1 key, 2 runs, 3 claims, clock 1..3 | `OneTaskPerLogicalWork`, `AttemptsCountClaims`, types |
| `queue_lost_update` | 2 processes, 2 attempts, 3 claims | finding 1 |
| `budgets` | 3 reservations, 2 accounts (one cumulative, one capacity) | `WithinLimits`, `ReservedIsBacked`, `SpentIsCommitted`, `ExplorationKeepsItsShare` |
| `lifecycle` | 2 processes, 1 task, 2 claims, any delay, all gate outcomes; 1.9 million states | `WorkIsLeased`, `NoDuplicateExecution`, `ClaimsHaveExecutions`, `SucceededIsCharged`, `ReservationNotLeaked`, types |
| `lifecycle_batch` | 1 process, 2 tasks in one batch, one of them without a budget | `ClaimsAreSettled` under `FairSpec` |
| `review` | 2 runners, 2 operators, 1 task about which 2 gates ask, 2 cases; 2.4 million states | `NoUnapprovedExecution`, `ParkedHasCase`, `ResolutionIsFinal`, `RejectionSettles` |
| `dispatcher` | 4 tasks of a slow worker (limit 1) and a fast one, 2 slots, 3 steps, a shortlist of 3, one task discovered, one left by an earlier run | `StepsWithinLimit`, `TicketsHaveSlots`, `SucceededRunIsDone`, `BatchIsWorkerFair`, `SlowWorkersLeaveRoom`, `RunEnds` under `FairSpec`, types |
| `ingest` | a crawler and a scanner in one process, whose attempts may find a technology and a vulnerability; a token projected from the technology, a lookup that may bring the same vulnerability; 1 slot, 2 attempts; 235 thousand states | `AssetSummarisesObservations`, `SuccessIsRouted`, `PublicationsEnd` under `FairSpec`, types and counts |
| `rate_limit` | 3 workers in 2 processes, a paced and a capped bucket, leases of 2 ticks, clock 1..4, a wait of one tick for the write lock | `RateWithinLateCalls`, `HoldersWithinSlots`, `ActiveIsLeased`, `HoldersCanRelease` |
| `rate_limit_stale_clock` | the same, `RateRespected` | finding 2 |
| `convergence` | 2 executions at a time, 3 reservations, both lanes of a branch, a soft, a hard and a slot account, tiers LARGE and EXHAUSTIVE, clock 1..2; 3.0 million states | `ClosedForAReason`, `UndisturbedEvaluationsFollow` |

**Bounds.** `MaxTime` bounds the clock, `MaxClaims` the claims of a task, `Reservations` the reservations ever made, `MaxRuns` the runs and `Patience` the deferrals and reviews of a dispatcher. One task and two processes suffice for races on a row: rows do not interact except through dedupe keys (two tasks in `queue_single`), budgets (two reservations in flight) and the transition lock (two executions in `lifecycle_batch`). Two claims of a task are what a stale worker needs; the clock always runs past the end of a lease, so that it can expire, be recovered and be claimed again. In `review`, two operators can disagree about one case and two runners can park one task twice; two gates make one approval not enough. In `dispatcher`, the slow worker's second task saturates it, three steps are fewer than the four tasks and more than the slots, and the delays are one that is waited for (0) and one that is longer than `MaxDeferredWait` (2). In `ingest`, one slot is the capacity at which a derived event could wait for itself, and two sighting times and two scope states of one vulnerability in either order exercise the merge; with two attempts, what a first attempt stored before it died is found again by the second, or not. In `rate_limit` a burst and a rate of 1 make every second token an excess, nuclei takes all slots so that any other holder is one, one tick of waiting makes a call late, and the clock runs a tick past a whole lease. In `convergence`, three executions are what it takes to advance, to pause and to close; two tasks use up what a NORMAL lane may use and three exhaust the hard account, so that a lane that closes for its yield does so beside reservations that were reaped; two times make a put late and a cooldown end. Deadlock is not checked where reservations, claims or the clock run out. Symmetry is used on process, reservation, case and lease identifiers, never in a run with a liveness property.

**Timeliness.** `WorkIsLeased` and `NoDuplicateExecution` are false when a process may stall longer than its lease while its worker still runs: no lease scheme can prevent that without fencing the target. They are also false when a stale admission, or an operator who rejects, takes a RUNNING task from under its worker: `send_to_review` and `block` accept RUNNING tasks, and the worker learns of it at its next heartbeat. `calm` remembers whether any of this has happened: it becomes FALSE when a tick passes while a heartbeat is overdue or a process is in the middle of an admission or a report, and when such a write is stored. The two invariants are stated for calm behaviours, and proved for every instance in which a heartbeat interval and a wait for the write lock fit into a lease (`WorkersAreLeased`, `NoDuplicates`); everything else in the same run is checked for all. `OnlyNewestClaimCompletes` needs no timing at all, and neither do the properties of `review`.

`RateLimit` needs no such assumption: its properties speak of work that has not outlived its lease, and workers may stall past theirs. They do (a lease is never renewed), and then `ReleaseRaises` turns finished work into a failed task.

**Slow workers.** `SlowWorkersLeaveRoom` has an exception that the code has too: the shortlist is cut to `candidate_limit` before saturated workers are excluded, so when it is full of a slow worker's tasks, slots may stay free while another worker's task is ready.

**Fairness.**

- `Lifecycle!FairSpec`: weak fairness for a process's own opening and admission steps and for the store's answers, and strong fairness for the steps of each execution: they compete for the transition lock, which is an `asyncio.Lock` and serves its waiters in order. Workers end because every worker has a timeout. Nothing is assumed of the operator, of crashes, or of the clock.
- `Dispatcher!FairSpec`: the event loop keeps running the dispatcher, executions end (workers have timeouts), time passes. The operator need not come: a run with parked tasks ends PAUSED.
- `Ingest!FairSpec`: weak fairness for each execution, strong fairness for taking a slot and the write lock, since `asyncio.Semaphore` and `asyncio.Lock` serve their waiters in order.

## 4. Findings

1. **Lost update of the attempt counter** (`queue_lost_update`). `save` compares status and token and stores the whole row it was given, `attempts` included. One process reads a waiting task to defer it; meanwhile another claims it, it is parked for review and released, and so is waiting without a token again. The stale row passes the comparison and puts the old counter back. The task is then executed more than `max_attempts` times. With one process it cannot happen (theorem `SingleProcessBudget`).
2. **Refill time set back** (`rate_limit_stale_clock`). Calls read the clock before they have the write lock, and each grant stores its reading as `last_refill_at` of all its buckets. A late call, even one that takes no token (as nuclei's), moves that time back, and the next call refills the interval again: two tokens at one instant from a bucket with a burst of one. The excess is bounded: each such call adds what the rate gives in the time a call may wait, and nothing else does (`rate_limit`, theorem `RateKept`).

Behaviours that the models have, that a reader of the code should know of, and that contradict nothing it says:

- Only `claim`'s refusal becomes the outcome STALE; the same race met by `defer`, `send_to_review` or `block` is a `ValueError` that ends the run (`AdmissionRaises`).
- Recovery runs once, at startup, and skips leases that have not expired by then: after a restart within a lease the task stays RUNNING for the whole run.
- Cancelled while it admits a later task of a batch, `admit_batch` drops the tickets it has collected (`EndRun`; lifecycle.py:434): their tasks stay RUNNING until their leases have expired, although docs/ARCHITECTURE.md:338 says that on an operator's cancellation claimed tasks are "finalized or returned to a retryable durable state".
- Overlapping evaluations of one branch undo each other. The one that is stored last wins if its clock reading is not older, so one that read a branch before another closed it reopens it, and one that was handed an older tier takes the newer one back (`Synchronized`: the tier the runtime read wins). `UndisturbedEvaluationsFollow` therefore speaks of evaluations that nothing was stored beside. While the account stays full, a branch closed for it is closed again by the next evaluation; one closed for its yield only if its yield stays low.
- The inspector counts what is reserved, slots included, as pressure: with a branch limit on CONCURRENT_TASKS, a branch whose slots are all busy is CLOSED, and nothing opens it, although budgets.py:9 calls such limits temporary. The same holds for a cumulative account that is full only of reservations.
- A soft cumulative account that is used up makes `reserve` DENY (budgets.py:3) and convergence pause; convergence.py:1165 and configs/pipeline.example.yaml:130 speak of deferring.
- What only a failed attempt found is stored, and no later attempt of its task routes it: a crash between the store and the router (runtime.py:1526, 1548) is made good by a retry only for what the retry finds again, which of exploration permutations it does not. `SuccessIsRouted` therefore speaks of the last attempt.
- A task that is parked while it runs its last attempt is released PENDING with no attempt left. `ready` never returns it and `_run_frontier` counts it as unfinished, so runs end PAUSED until it is rejected.

## 5. Proofs

From the assumptions on the constants only (`MaxAttempts` and `LeaseFor` positive, delays and bounds natural numbers, `Limit` a function to the naturals, finitely many tasks in `Scheduler`, executions in `Ingest` and workers and leases in `RateLimit`, `None` not one of the values it stands beside, ...), and from one hypothesis on time that is named where it is needed (`BeatEvery + MaxWait < LeaseFor`, in two theorems), for any sets of tasks, keys, runs, processes, reservations, accounts, cases, executions and assets:

- `QueueInvariant`: `IInv == TypeOK /\ RunningIsRecoverable /\ WritesOK`. The state predicates are not inductive alone, because a prepared write is applied later: `WritesOK` says of each that it is a legal move for its operation, that the row it carries is consistent, and that key and run are unchanged. `QueueTypeOK` and `QueueRecoverable` follow.
- `QueueFencing`, `QueueRecovery`: a write that takes effect was applied by `SaveApplied`, so its guard held; for a report the token written down is the ticket's, and by `RunningIsRecoverable` the row's token is the newest.
- `QueueImplementsLedger`: each write maps to one move of the ledger or to a stutter.
- `QueueDedupe`: from `IInv`, because writes never change keys or runs and never reopen a finished task.
- `SingleProcessBudget`: with one process, prepared writes are up to date or already stale (`WritesUpToDate`), so attempts equal claims.
- `BudgetLimits`, `BudgetWithinLimits`: reservations are only made within limits, and settling moves amounts from reserved to committed or drops them; the guard of `GiveBack` keeps counters natural.
- `SumProofs`: the community modules define a sum by recursion over the subsets of a set. A recursion over subsets has one solution and a finite set has a least counterexample under inclusion (`SmallestSubset`), which is an induction that the provers can follow; from it, what a sum becomes when an element is added or one of its values changes.
- `BudgetBook`: of every account, `reserved` is the sum over the active reservations and `committed` the sum over the committed ones (`Backed`), and NORMAL reservations of both kinds fit beside what is held back for exploration. Each store call moves one reservation from one sum to another; reaping moves a set of them. `ReservedBacked`, `SpentBacked` and `ExplorationReserveKept` follow, and `NoUnderflow`: the guard of `GiveBack`, which stands for an exception of the store, never refuses.
- `BranchKeepsBudgets`: every step of `Convergence` is a step of the budgets or none, because whoever runs holds an active reservation (`RunsReserved`).
- `UsesParts`, a lemma: every step of `Lifecycle` is a step of the queue or a stutter, and a step of the budgets or a stutter. Its steps are legal only because of what a dispatcher remembers, so the invariant `LifecycleInv` says of each process that its executions' tokens were given out (`ExecOK`), that a reservation is known where it is used (`LoopOK`), and that a prepared write has somebody waiting for it (`LockOK`). With it, the theorems about the queue and the budgets are theorems about the composition.
- `ClaimsAreExecuted`, `ReservationsAreSettled`, `SuccessIsCharged`, from `HoldingsAgree`. The three speak of what a process remembers and what the store says, which only agree through the steps between. `ClaimInv` follows a claim on that way: an execution is the only one with its token (`Unique`), a write leaves a task RUNNING only for the worker it was running for (`WriteOK`), so a ticket that is held has its execution (`ClaimsKept`); a write that makes a task SUCCEEDED is the report of an execution that still waits for it (`Reported`); and by then what that execution had reserved is settled, and committed if it succeeded (`Settled`). It needs that `None`, for no reservation, is not a reservation.
- `WorkersAreLeased`, `NoDuplicates`, from `LeasesHold`, under the hypothesis `BeatEvery + MaxWait < LeaseFor`. A lease is granted from a clock reading that may be `MaxWait` old, so while behaviour is calm it lasts until `LeaseFor - MaxWait` after the last heartbeat (`Punctual`); no more than `BeatEvery` has passed since, so it is valid now, and recovery and the reaper, which take what has expired, pass it over. `LeaseInv` adds what keeps that true through the steps between: a write under way still says what its caller read (`Fits`), a caller that waits has exactly one write (`WaitsOK`), and a reservation has one owner (`Sole`). Two executions of one task would both have its newest token (`Unique` of `ClaimInv`). The hypothesis holds of the program: leases are 300 s and heartbeats 60 s apart (runtime.py:426), SQLite waits for the write lock for 5 s (database.py:129), and by default the interval is a third of the lease (lifecycle.py:350). The constructor itself refuses only an interval that is not below the lease (lifecycle.py:355), which would not be enough.
- `LifecycleTypes`: `LifecycleTypeOK` on every path, with the tokens and clock readings that are remembered in their bounds (`TypesInv`).
- `ApprovalsProtect`, `CasesProtect`, `FirstResolutionStands`, `RejectionsSettle`, from `ReviewInvariant`. What a call has read is used later, so `ReviewInv` says that it is still so: a gate that was passed has its approval (`DeskOK`), only the claim, which is one transaction, makes a task RUNNING, and never a prepared write (`WriteOK`), a task that is about to be parked has its case, and a task that a reject command saw finished is still finished.
- `RunStaysWithinLimit`: a batch is no longer than was asked for (`BatchIsBounded`), since rounds and best ranks order the tasks strictly (`RoundsOrder`) and a member of a finite order is known by the number of its predecessors; what is dispatched, admitted and chosen together fits the limit (`BatchFits`).
- `DispatcherTypes` and `TicketsFit`, from `FrontierKeepsOrder`. A slot and a worker's capacity are checked when a batch is ranked and used when its tickets are dispatched, with an admission of every task and any number of ends of executions between. `FrontierInv` therefore bounds the tickets *and* what is still to be admitted by the free slots and by each worker's limit, says that the tasks to be admitted differ and have an attempt left, and that slots, rows and `running_by_worker` agree about who executes.
- `WorkersTakeTurns`, `RoomIsLeft`: about the moment of ranking, for any ranking. How many of a worker's tasks a batch has is the number of its rounds, and the batch is downward closed in the order by rounds: so no worker can be two rounds ahead of one that has a task left, and a batch that stays short has taken everything the capacities allow. The shortlist loses no ready task as long as it is long enough.
- `SuccessIsDone`: outside the loop nothing executes (`StatusInv`), so nothing is left that could add work after the final status was decided.
- `AssetsSummarise`: an asset's row is the most restrictive and widest of its observations, whatever their order, since the merge is a maximum and a union of intervals (`TablesInv`).
- `SuccessRouted`: `PubInv` speaks of the attempt in hand. What it has begun to publish is stored or about to be; what it has stored is routed but for the routes in hand; and what is derived from it is stored, about to be, or still to be published. A new attempt has stored nothing yet (`SameAttempt`), since attempts only grow.
- `IngestTypes`: each process's `depth` is the number of its publications in flight, and its slots and its publications with a slot add up to the capacity (`Counted`): when one publication moves, a count changes by at most one (`OneMoves`), and a crash takes all of them at once.
- `InspectorAgrees`: the inspector computes its own limits from the profile; for every account of a branch its pressure is at 100 percent exactly when `Budgets` refuses every further demand. It rests on `ReserveAssumption`, that the exploration reserve is taken from soft limits only.
- `ClosedOnlyForAReason`, `UndisturbedFollow`, from `ConvergenceInvariant`. Since evaluations overlap, the stored states say nothing of what an evaluation holds, so `EvalOK` follows each by itself: what it read had its reason to be closed, what it decided has one and follows what it read. Every rule of `_decide` is shown to move a state on (`CloseMoves`, `PauseMoves`, ..., `DecisionMoves`), for any thresholds and any yields.
- `RateLeases`, `LiveLeasesKept`: `HoldersCanRelease` is not inductive, since a release could free a lease that another worker holds. `LeaseInv` adds that a lease has one holder and is not FREE while held, so a grant never takes a held one; reaping takes what has run out at its own clock reading, which is never ahead of the clock. `Shapes` types only what the argument uses: wait times are maxima over sets, about which the available provers know nothing without induction.
- `ActiveLeased`, `HoldersBounded`, from `RateSlots`: a bucket's `active` is the sum over its active leases, which its grants keep within the maximum, and a worker's lease holds what the worker asked for; a worker whose lease has not run out has an active lease that no other has, so the holders' slots are a part of that sum. For any `MaxWait`.
- `RateKept`, for any `MaxWait`. The invariant (`Allowance`) is that of a token bucket, counted to the last refill: from any time on, what has been given and what is left is no more than the burst, what was refilled since, and a wait for each late call. A late call sets the refill time back by no more than its wait, and pays for that by being counted (`Within`); only when it sets it back beyond the beginning of the stretch may the count fall short, and then nothing was given since. With no wait there are no late calls, and the bound is the limit itself.

Only model-checked:

- liveness (`ClaimsAreSettled`, `RunEnds`, `PublicationsEnd`), which is out of the provers' reach;
- what the findings are about: `queue_lost_update` and `rate_limit_stale_clock` each refute a property on a small instance; `SingleProcessBudget` says under which condition it holds, `RateKept` by how much it can fail.

The hypothesis on time holds in the instance that TLC checks (`lifecycle` has a lease of two ticks, a heartbeat every tick and no wait), so the theorems under it are not empty.

## 6. Not modelled

About 5,000 lines of the source are stood for by a definition, of some 75,000. The models cover what is concurrent, durable and stateful in Night Scout: the queue, budgets, lifecycle, dispatcher, review, event bus, rate limiter and convergence. Most of the rest has no state to check and nothing that interleaves:

- **Workers** (`workers/`, by far the largest part): command lines, HTTP clients and parsers of tool output. For the coordinator a worker is something that publishes, ends, raises or is cancelled.
- **Intelligence** (`intelligence/`, but for convergence): yield statistics, scoring, vocabularies, pattern and wordlist generation over text, with floating-point weights. Their results enter as arbitrary rankings and yields.
- **Scope, restrictions, seeds** (`policy/`): pure decisions on strings and addresses; a gate's outcome is a choice.
- **Attempt, run, branch and decision repositories**: rows written beside the transitions and read by reports; no transition depends on one.
- **Storage schema, snapshots, provenance, surface graph**: derived data behind the event writer, recomputed from stored events.
- **Exporters, CLI, tooling, migrations, scripts**: input, output and installation.

Within the modelled parts: `run_once` (which the runtime does not call), `resume_frontier`'s identity checks, progress reports, `renew` of rate leases (which nothing calls), native rate flags of tools, branch multipliers of budgets and of convergence (their limits would change with the yields; with the multiplier at 1 they are those of the profile), `target_key` and `evaluations` of a convergence state, priorities beyond their order, payloads, timestamps determined by the status, error texts and float rounding.

What could come next: the feedback of productivity into a branch's soft limits, which makes limits a part of the state; the leases of rate limits and of the queue under one clock; and `Dispatcher` as a refinement of the admission part of `Lifecycle`.
