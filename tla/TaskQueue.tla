----------------------------- MODULE TaskQueue -----------------------------
(***************************************************************************)
(* The durable task frontier of recon/core/queue.py (TaskQueue) over       *)
(* recon/storage/database.py (SQLiteTaskStore).                            *)
(*                                                                         *)
(* Several processes open the same workspace: runs, and the operator's     *)
(* review commands.  Every transition but put and claim is a read of the   *)
(* row followed by a compare-and-set of the whole row, under a lock that   *)
(* only serialises the transitions of one process.  A transition is two    *)
(* steps here: one that reads the row and prepares the write, and Save,    *)
(* which applies it if the row still has the status, token and (for        *)
(* recovery) lease that were read.                                         *)
(*                                                                         *)
(* Left out: priorities and payload columns, started_at / finished_at      *)
(* (determined by the status), last_error, created_at / updated_at.        *)
(***************************************************************************)
EXTENDS Integers, FiniteSets

CONSTANTS
  Tasks,        \* task identifiers (uuid4 values)
  Keys,         \* dedupe keys: worker:action:logical input
  Runs,         \* run identifiers
  Procs,        \* processes with their own TaskQueue object
  None,         \* no key, no run
  MaxAttempts,  \* Task.max_attempts
  LeaseFor,     \* lease_for, in clock ticks
  Delays,       \* retry and deferral delays, in clock ticks
  MaxWait,      \* how long a call may wait for the write lock after it read the clock
  MaxTime,      \* bound on the clock
  MaxClaims     \* bound on the claims of a task: lost updates make them unlimited

ASSUME MaxAttemptsAssumption == MaxAttempts \in Nat \ {0}
ASSUME LeaseForAssumption == LeaseFor \in Nat \ {0}
ASSUME DelaysAssumption == Delays \subseteq Nat
ASSUME MaxWaitAssumption == MaxWait \in Nat
ASSUME MaxTimeAssumption == MaxTime \in Nat
ASSUME MaxClaimsAssumption == MaxClaims \in Nat

VARIABLES
  now,      \* the wall clock
  tasks,    \* the rows of the tasks table
  issued,   \* how many claim tokens each task has been given (uuid4: never reused)
  pending,  \* per process: the compare-and-set writes prepared and not yet executed
  tickets   \* per process: the <<task, token>> its workers hold

vars == <<now, tasks, issued, pending, tickets>>

NoToken == 0
NoLease == 0

Terminal == {"SUCCEEDED", "FAILED", "CANCELLED", "BLOCKED"}
Waiting == {"PENDING", "DEFERRED"}
Statuses == Waiting \cup Terminal \cup {"RUNNING", "REVIEW"}

Absent == [status |-> "ABSENT", attempts |-> 0, available |-> 0,
           lease |-> NoLease, token |-> NoToken, key |-> None, run |-> None]

Exists(t) == tasks[t].status # "ABSENT"
Active(t) == Exists(t) /\ tasks[t].status \notin Terminal

\* The clock readings a call may be using when it gets the write lock.
Readings == {n \in 1..now : now - n <= MaxWait}

----------------------------------------------------------------------------
(* put and claim: one immediate transaction each.                          *)

\* Fault: finished tasks of the same run are forgotten.
DuplicateActiveOnly(t, k, r) ==
  Exists(t) /\ tasks[t].key = k /\ tasks[t].status \notin Terminal

\* The row that makes put return False: same key, and not finished or of this run.
Duplicate(t, k, r) ==
  /\ Exists(t)
  /\ tasks[t].key = k
  /\ tasks[t].status \notin Terminal \/ tasks[t].run = r

NewTask(k, r) == [status |-> "PENDING", attempts |-> 0, available |-> now,
                  lease |-> NoLease, token |-> NoToken, key |-> k, run |-> r]

Enqueue(t, k, r) ==
  /\ ~Exists(t)
  /\ ~\E u \in Tasks : Duplicate(u, k, r)
  /\ tasks' = [tasks EXCEPT ![t] = NewTask(k, r)]
  /\ UNCHANGED <<now, issued, pending, tickets>>

\* Fault: the retry budget is not looked at.
ClaimableAnyAttempts(t, n) ==
  tasks[t].status \in Waiting /\ tasks[t].available <= n

Claimable(t, n) ==
  /\ tasks[t].status \in Waiting
  /\ tasks[t].available <= n
  /\ tasks[t].attempts < MaxAttempts

Claim(p, t, n) ==
  /\ Claimable(t, n)
  /\ issued[t] < MaxClaims
  /\ issued' = [issued EXCEPT ![t] = @ + 1]
  /\ tasks' = [tasks EXCEPT ![t].status = "RUNNING",
                            ![t].attempts = @ + 1,
                            ![t].lease = n + LeaseFor,
                            ![t].token = issued'[t]]
  /\ tickets' = [tickets EXCEPT ![p] = @ \cup {<<t, issued'[t]>>}]
  /\ UNCHANGED <<now, pending>>

----------------------------------------------------------------------------
(* The read half of each transition.  A write carries what save expects of *)
(* the row, the row it would store, and the ticket it is made with.        *)

Write(op, t, by, lease, new) ==
  [op |-> op, task |-> t, by |-> by, status |-> tasks[t].status,
   token |-> tasks[t].token, lease |-> lease, new |-> new]

\* Fault: the claim token outlives the claim.
LeaveKeepingToken(t, status) ==
  [tasks[t] EXCEPT !.status = status, !.lease = NoLease]

\* The row a transition stores when it takes a task out of RUNNING or closes it.
Leave(t, status) ==
  [tasks[t] EXCEPT !.status = status, !.lease = NoLease, !.token = NoToken]

LeaveUntil(t, status, time) == [Leave(t, status) EXCEPT !.available = time]

\* Fault: no transition lock.
BeginUnlocked(p, writes) ==
  /\ pending' = [pending EXCEPT ![p] = @ \cup writes]
  /\ UNCHANGED <<now, tasks, issued>>

Begin(p, writes) ==
  /\ pending[p] = {}
  /\ pending' = [pending EXCEPT ![p] = writes]
  /\ UNCHANGED <<now, tasks, issued>>

\* Fault: any running attempt will do.
HeldByAnyToken(t, k) == tasks[t].status = "RUNNING"

\* _require_running and _require_claim_token on the row just read.
HeldBy(t, k) == tasks[t].status = "RUNNING" /\ tasks[t].token = k

Heartbeat(p, t, k) ==
  /\ <<t, k>> \in tickets[p]
  /\ HeldBy(t, k)
  /\ Begin(p, {Write("heartbeat", t, k, NoLease,
                     [tasks[t] EXCEPT !.lease = now + LeaseFor])})
  /\ UNCHANGED tickets

\* A worker finishes its ticket once: the call, whatever its answer, is its last.
Hand(p, t, k) ==
  /\ <<t, k>> \in tickets[p]
  /\ tickets' = [tickets EXCEPT ![p] = @ \ {<<t, k>>}]

Succeed(p, t, k) ==
  /\ Hand(p, t, k)
  /\ HeldBy(t, k)
  /\ Begin(p, {Write("succeed", t, k, NoLease, Leave(t, "SUCCEEDED"))})

\* A retry waits for its delay; without a delay or with no attempt left the task fails.
FailRetry(p, t, k, d) ==
  /\ Hand(p, t, k)
  /\ HeldBy(t, k)
  /\ tasks[t].attempts < MaxAttempts
  /\ Begin(p, {Write("fail", t, k, NoLease, LeaveUntil(t, "DEFERRED", now + d))})

FailFinal(p, t, k) ==
  /\ Hand(p, t, k)
  /\ HeldBy(t, k)
  /\ Begin(p, {Write("fail", t, k, NoLease, Leave(t, "FAILED"))})

Defer(p, t, d) ==
  /\ tasks[t].status \in Waiting
  /\ Begin(p, {Write("defer", t, NoToken, NoLease,
                     [tasks[t] EXCEPT !.status = "DEFERRED", !.available = now + d])})
  /\ UNCHANGED tickets

\* block and cancel: _finish with require_running = False.
Close(p, t, status) ==
  /\ Active(t)
  /\ Begin(p, {Write("close", t, NoToken, NoLease, Leave(t, status))})
  /\ UNCHANGED tickets

SendToReview(p, t) ==
  /\ Active(t)
  /\ Begin(p, {Write("review", t, NoToken, NoLease, Leave(t, "REVIEW"))})
  /\ UNCHANGED tickets

ReleaseReview(p, t, d) ==
  /\ tasks[t].status = "REVIEW"
  /\ Begin(p, {Write("release", t, NoToken, NoLease,
                     [tasks[t] EXCEPT !.available = now + d,
                        !.status = IF d = 0 THEN "PENDING" ELSE "DEFERRED"])})
  /\ UNCHANGED tickets

Expired(t, n) ==
  /\ tasks[t].status = "RUNNING"
  /\ tasks[t].lease # NoLease
  /\ tasks[t].lease <= n

Recovered(t, time) ==
  IF tasks[t].attempts < MaxAttempts THEN LeaveUntil(t, "DEFERRED", time)
                                     ELSE Leave(t, "FAILED")

\* One snapshot of all rows, then one guarded write per expired lease.
Recover(p, n, d) ==
  /\ \E t \in Tasks : Expired(t, n)
  /\ Begin(p, {Write("recover", t, NoToken, tasks[t].lease, Recovered(t, n + d)) :
                 t \in {u \in Tasks : Expired(u, n)}})
  /\ UNCHANGED tickets

----------------------------------------------------------------------------
(* The write half: SQLiteTaskStore.save.                                   *)

\* Fault: the exact lease that was read is not part of the condition.
AppliesIgnoringLease(w) ==
  tasks[w.task].status = w.status /\ tasks[w.task].token = w.token

\* Fault: an UPDATE by task_id alone.
AppliesAlways(w) == Exists(w.task)

Applies(w) ==
  /\ tasks[w.task].status = w.status
  /\ tasks[w.task].token = w.token
  /\ w.lease # NoLease => tasks[w.task].lease = w.lease

Save(p, w) ==
  /\ pending' = [pending EXCEPT ![p] = @ \ {w}]
  /\ UNCHANGED <<now, issued, tickets>>

SaveApplied(p, w) ==
  /\ Applies(w)
  /\ tasks' = [tasks EXCEPT ![w.task] = w.new]
  /\ Save(p, w)

\* ValueError: the caller is told, the row is not touched.
SaveStale(p, w) ==
  /\ ~Applies(w)
  /\ UNCHANGED tasks
  /\ Save(p, w)

\* The process dies: its prepared writes and its workers' tickets are gone.
Crash(p) ==
  /\ pending[p] # {} \/ tickets[p] # {}
  /\ pending' = [pending EXCEPT ![p] = {}]
  /\ tickets' = [tickets EXCEPT ![p] = {}]
  /\ UNCHANGED <<now, tasks, issued>>

\* The coroutine is cancelled before its write: a heartbeat whose execution ended.
Abandon(p) ==
  /\ pending[p] # {}
  /\ pending' = [pending EXCEPT ![p] = {}]
  /\ UNCHANGED <<now, tasks, issued, tickets>>

Tick ==
  /\ now < MaxTime
  /\ now' = now + 1
  /\ UNCHANGED <<tasks, issued, pending, tickets>>

----------------------------------------------------------------------------
Init ==
  /\ now = 1
  /\ tasks = [t \in Tasks |-> Absent]
  /\ issued = [t \in Tasks |-> 0]
  /\ pending = [p \in Procs |-> {}]
  /\ tickets = [p \in Procs |-> {}]

\* A worker's call with a ticket it holds.
WorkerCall(p) ==
  \E t \in Tasks : \E k \in 1..issued[t] :
    \/ Heartbeat(p, t, k)
    \/ Succeed(p, t, k)
    \/ \E d \in Delays : FailRetry(p, t, k, d)
    \/ FailFinal(p, t, k)

\* A call of the lifecycle, the operator or the recovery at startup.
ControlCall(p) ==
  \/ \E t \in Tasks, k \in Keys, r \in Runs : Enqueue(t, k, r)
  \/ \E t \in Tasks, n \in Readings : Claim(p, t, n)
  \/ \E t \in Tasks, d \in Delays : Defer(p, t, d)
  \/ \E t \in Tasks, s \in {"BLOCKED", "CANCELLED"} : Close(p, t, s)
  \/ \E t \in Tasks : SendToReview(p, t)
  \/ \E t \in Tasks, d \in Delays : ReleaseReview(p, t, d)
  \/ \E n \in Readings, d \in Delays : Recover(p, n, d)

Store(p) == \E w \in pending[p] : SaveApplied(p, w) \/ SaveStale(p, w)

Next ==
  \/ \E p \in Procs : WorkerCall(p) \/ ControlCall(p) \/ Store(p) \/ Crash(p) \/ Abandon(p)
  \/ Tick

Spec == Init /\ [][Next]_vars
=============================================================================
