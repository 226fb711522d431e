--------------------------- MODULE TaskQueueProps ---------------------------
(***************************************************************************)
(* What is checked and proved of TaskQueue.                                *)
(***************************************************************************)
EXTENDS TaskQueue

Tokens == Nat
Row == [status : Statuses \cup {"ABSENT"}, attempts : 0..MaxAttempts,
        available : Nat, lease : Nat, token : Tokens,
        key : Keys \cup {None}, run : Runs \cup {None}]

Ops == {"heartbeat", "succeed", "fail", "defer", "close", "review", "release",
        "recover"}

Writes == [op : Ops, task : Tasks, by : Tokens, status : Statuses,
           token : Tokens, lease : Nat, new : Row]

\* The shape of the state; Task's attempts never exceed max_attempts (queue.py:175).
TypeOK ==
  /\ now \in Nat
  /\ tasks \in [Tasks -> Row]
  /\ issued \in [Tasks -> Nat]
  /\ pending \in [Procs -> SUBSET Writes]
  /\ tickets \in [Procs -> SUBSET (Tasks \X Tokens)]

----------------------------------------------------------------------------
(* Safety.                                                                 *)

\* A task is RUNNING exactly while it has a claim token and a lease: a RUNNING row
\* without a lease is skipped by recover_expired_leases for ever (queue.py:788),
\* and its token is the newest one given out for it.
RunningIsRecoverable ==
  \A t \in Tasks :
    IF tasks[t].status = "RUNNING"
    THEN tasks[t].lease # NoLease /\ tasks[t].token = issued[t] /\ issued[t] # 0
    ELSE tasks[t].lease = NoLease /\ tasks[t].token = NoToken

\* No two unfinished tasks share a dedupe key, and no run schedules the same logical
\* work twice, whatever the order in which tasks finish and are put again.
OneTaskPerLogicalWork ==
  \A t, u \in Tasks :
    t # u /\ Exists(t) /\ Exists(u) /\ tasks[t].key = tasks[u].key =>
      /\ ~(Active(t) /\ Active(u))
      /\ tasks[t].run # tasks[u].run

\* Every claim costs one attempt, so max_attempts bounds the executions of a task:
\* no write puts an older attempt count back (holds with one process, see README).
AttemptsCountClaims == \A t \in Tasks : tasks[t].attempts = issued[t]

\* "task has exhausted its retry budget" (database.py:624): no task is executed more
\* than max_attempts times.
ClaimsWithinBudget == \A t \in Tasks : issued[t] <= MaxAttempts

----------------------------------------------------------------------------
(* The inductive invariant: what a prepared write knows.                   *)

\* Where each transition may take a task from and to.
MayWrite ==
  [heartbeat |-> [from |-> {"RUNNING"}, to |-> {"RUNNING"}],
   succeed   |-> [from |-> {"RUNNING"}, to |-> {"SUCCEEDED"}],
   fail      |-> [from |-> {"RUNNING"}, to |-> {"DEFERRED", "FAILED"}],
   recover   |-> [from |-> {"RUNNING"}, to |-> {"DEFERRED", "FAILED"}],
   defer     |-> [from |-> Waiting, to |-> {"DEFERRED"}],
   release   |-> [from |-> {"REVIEW"}, to |-> Waiting],
   review    |-> [from |-> Statuses \ Terminal, to |-> {"REVIEW"}],
   close     |-> [from |-> Statuses \ Terminal, to |-> {"BLOCKED", "CANCELLED"}]]

\* A row is RUNNING exactly while it has a token and a lease.
Consistent(row) ==
  IF row.status = "RUNNING" THEN row.lease # NoLease /\ row.token # NoToken
                            ELSE row.lease = NoLease /\ row.token = NoToken

Legal(w) ==
  /\ w.status \in MayWrite[w.op].from
  /\ w.new.status \in MayWrite[w.op].to
  /\ w.token # NoToken <=> w.status = "RUNNING"
  /\ Consistent(w.new)
  /\ w.op = "heartbeat" => w.new.token = w.token
  /\ w.op \in {"heartbeat", "succeed", "fail"} => w.by = w.token
  /\ w.op = "recover" => w.lease # NoLease

WriteOK(w) ==
  /\ Legal(w)
  /\ w.op = "recover" => w.lease <= now
  /\ Exists(w.task)
  /\ w.new.key = tasks[w.task].key
  /\ w.new.run = tasks[w.task].run

WritesOK == \A p \in Procs : \A w \in pending[p] : WriteOK(w)

IInv == TypeOK /\ RunningIsRecoverable /\ WritesOK

\* With one process the lock keeps every prepared write up to date, except that the
\* task may be claimed meanwhile, which makes the write stale.
WritesUpToDate ==
  \A p \in Procs : \A w \in pending[p] :
    /\ \/ /\ tasks[w.task].status = w.status
          /\ w.new.attempts = tasks[w.task].attempts
       \/ w.status \in Waiting /\ tasks[w.task].status = "RUNNING"
    /\ \A v \in pending[p] : v.task = w.task => v = w

----------------------------------------------------------------------------
(* Action properties.  The write executed by a step is the one that leaves *)
(* pending while its task's row changes.                                   *)

Executed(p, w) == w \in pending[p] /\ w \notin pending'[p]

Effective(p, w) == Executed(p, w) /\ tasks'[w.task] # tasks[w.task]

\* A completion or heartbeat that takes effect comes from the worker of the newest
\* claim: one whose lease expired and whose task was claimed again changes nothing.
OnlyNewestClaimCompletes ==
  [][\A p \in Procs : \A w \in pending[p] :
       Effective(p, w) /\ w.op \in {"heartbeat", "succeed", "fail"} =>
         w.by = issued[w.task]]_vars

\* recover_expired_leases takes a task from its worker only if the lease stored when
\* the write happens, not only the one it read, has run out.
RecoveryRespectsLease ==
  [][\A p \in Procs : \A w \in pending[p] :
       Effective(p, w) /\ w.op = "recover" => tasks[w.task].lease <= now]_vars

----------------------------------------------------------------------------
(* The queue implements the claim ledger.                                  *)

PlaceOf(row) ==
  CASE row.status = "ABSENT" -> "absent"
    [] row.status \in Waiting -> "waiting"
    [] row.status = "RUNNING" -> "held"
    [] row.status = "REVIEW" -> "review"
    [] OTHER -> "done"

Ledger == INSTANCE ClaimLedger WITH
  place <- [t \in Tasks |-> PlaceOf(tasks[t])],
  holder <- [t \in Tasks |-> tasks[t].token],
  granted <- issued

\* Every run of the queue, with its races, stale writes, crashes and recoveries, is a
\* run of the claim ledger: one claim at a time, none honoured twice, ends are final.
ImplementsLedger == Ledger!Spec
=============================================================================
