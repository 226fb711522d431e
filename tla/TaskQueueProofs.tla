-------------------------- MODULE TaskQueueProofs --------------------------
(***************************************************************************)
(* Theorems about the task queue, for any tasks, processes, delays and     *)
(* bounds.  All rest on the inductive invariant IInv, which says what a    *)
(* prepared write still knows about the row when it is executed.           *)
(***************************************************************************)
EXTENDS TaskQueueProps, TLAPS

USE DEF NoToken, NoLease

\* The empty workspace satisfies the inductive invariant.
LEMMA InitIInv == Init => IInv
  <1> SUFFICES ASSUME Init PROVE IInv
    OBVIOUS
  <1>1. Absent \in Row
    BY MaxAttemptsAssumption DEF Absent, Row, Tokens
  <1>2. TypeOK
    BY <1>1 DEF Init, TypeOK, Tokens
  <1>3. RunningIsRecoverable
    BY DEF Init, RunningIsRecoverable, Absent
  <1>4. WritesOK
    BY DEF Init, WritesOK
  <1> QED
    BY <1>2, <1>3, <1>4 DEF IInv

\* The read half of a transition keeps the invariant when its writes are well formed.
LEMMA BeginStep ==
  ASSUME IInv, NEW p \in Procs, NEW writes,
         Begin(p, writes),
         \A w \in writes : w \in Writes /\ WriteOK(w),
         tickets' \in [Procs -> SUBSET (Tasks \X Tokens)]
  PROVE  IInv'
  <1>1. /\ pending' = [pending EXCEPT ![p] = writes]
        /\ UNCHANGED <<now, tasks, issued>>
    BY DEF Begin
  <1>2. writes \in SUBSET Writes
    OBVIOUS
  <1>3. TypeOK'
    BY <1>1, <1>2 DEF IInv, TypeOK
  <1>4. RunningIsRecoverable'
    BY <1>1 DEF IInv, RunningIsRecoverable
  <1>5. WritesOK'
    <2> SUFFICES ASSUME NEW q \in Procs, NEW w \in pending'[q] PROVE WriteOK(w)'
      BY DEF WritesOK
    <2>1. WriteOK(w)
      BY <1>1 DEF IInv, TypeOK, WritesOK
    <2> QED
      BY <1>1, <2>1 DEF WriteOK, Exists, Legal
  <1> QED
    BY <1>3, <1>4, <1>5 DEF IInv

\* A row that exists and its prepared successor make a member of Writes.
LEMMA WriteType ==
  ASSUME TypeOK, NEW t \in Tasks, Exists(t), NEW op \in Ops, NEW by \in Nat,
         NEW lease \in Nat, NEW new \in Row
  PROVE  Write(op, t, by, lease, new) \in Writes
  BY DEF Write, Writes, TypeOK, Row, Exists, Tokens

\* Taking a task out of RUNNING, or closing it, keeps its key, run and attempts.
LEMMA LeaveType ==
  ASSUME TypeOK, NEW t \in Tasks, NEW status \in Statuses
  PROVE  /\ Leave(t, status) \in Row
         /\ Leave(t, status).status = status
         /\ Leave(t, status).token = NoToken
         /\ Leave(t, status).lease = NoLease
         /\ Leave(t, status).attempts = tasks[t].attempts
         /\ Leave(t, status).key = tasks[t].key
         /\ Leave(t, status).run = tasks[t].run
  BY DEF Leave, TypeOK, Row, Tokens

\* The same for a task that will wait for a time.
LEMMA LeaveUntilType ==
  ASSUME TypeOK, NEW t \in Tasks, NEW status \in Statuses, NEW time \in Nat
  PROVE  /\ LeaveUntil(t, status, time) \in Row
         /\ LeaveUntil(t, status, time).status = status
         /\ LeaveUntil(t, status, time).token = NoToken
         /\ LeaveUntil(t, status, time).lease = NoLease
         /\ LeaveUntil(t, status, time).attempts = tasks[t].attempts
         /\ LeaveUntil(t, status, time).key = tasks[t].key
         /\ LeaveUntil(t, status, time).run = tasks[t].run
  BY LeaveType DEF LeaveUntil, Row

\* A worker's calls prepare well formed writes.
LEMMA WorkerStep ==
  ASSUME IInv, NEW p \in Procs, WorkerCall(p)
  PROVE  IInv'
  <1> USE DEF IInv
  <1> PICK t \in Tasks : \E k \in 1..issued[t] :
         \/ Heartbeat(p, t, k)
         \/ Succeed(p, t, k)
         \/ \E d \in Delays : FailRetry(p, t, k, d)
         \/ FailFinal(p, t, k)
    BY DEF WorkerCall
  <1> PICK k \in 1..issued[t] :
         \/ Heartbeat(p, t, k)
         \/ Succeed(p, t, k)
         \/ \E d \in Delays : FailRetry(p, t, k, d)
         \/ FailFinal(p, t, k)
    OBVIOUS
  <1>k. k \in Nat /\ k # NoToken
    BY DEF TypeOK
  <1>t. Hand(p, t, k) => tickets' \in [Procs -> SUBSET (Tasks \X Tokens)]
    BY DEF Hand, TypeOK
  <1>h. HeldBy(t, k) => Exists(t)
    BY DEF HeldBy, Exists
  <1>1. CASE Heartbeat(p, t, k)
    <2> DEFINE new == [tasks[t] EXCEPT !.lease = now + LeaseFor]
    <2> DEFINE w == Write("heartbeat", t, k, NoLease, new)
    <2>1. HeldBy(t, k) /\ Begin(p, {w}) /\ UNCHANGED tickets
      BY <1>1 DEF Heartbeat
    <2>2. new \in Row /\ new.status = "RUNNING" /\ new.token = k /\ new.lease # NoLease
          /\ new.key = tasks[t].key /\ new.run = tasks[t].run
      BY <2>1, LeaseForAssumption DEF TypeOK, Row, HeldBy
    <2>3. w \in Writes
      BY <2>1, <2>2, <1>k, <1>h, WriteType DEF Ops
    <2>4. WriteOK(w)
      <3> HIDE DEF new
      <3>1. /\ w.op = "heartbeat" /\ w.task = t /\ w.by = k /\ w.lease = NoLease
            /\ w.new = new /\ w.status = "RUNNING" /\ w.token = k
        BY <2>1 DEF Write, HeldBy
      <3> HIDE DEF w
      <3>2. Legal(w)
        BY <2>2, <3>1, <1>k DEF Legal, MayWrite, Consistent
      <3> QED
        BY <2>1, <2>2, <3>1, <3>2, <1>h DEF WriteOK
    <2> QED
      BY <2>1, <2>3, <2>4, BeginStep DEF TypeOK
  <1>2. CASE Succeed(p, t, k)
    <2> DEFINE w == Write("succeed", t, k, NoLease, Leave(t, "SUCCEEDED"))
    <2>1. HeldBy(t, k) /\ Begin(p, {w}) /\ Hand(p, t, k)
      BY <1>2 DEF Succeed
    <2>2. w \in Writes
      BY <2>1, <1>k, <1>h, WriteType, LeaveType DEF Ops, Statuses, Terminal
    <2>3. WriteOK(w)
      BY <2>1, <1>k, <1>h, LeaveType
      DEF WriteOK, Legal, Write, HeldBy, MayWrite, Consistent, Exists, Statuses, Terminal
    <2> QED
      BY <2>1, <2>2, <2>3, <1>t, BeginStep
  <1>3. CASE FailFinal(p, t, k)
    <2> DEFINE w == Write("fail", t, k, NoLease, Leave(t, "FAILED"))
    <2>1. HeldBy(t, k) /\ Begin(p, {w}) /\ Hand(p, t, k)
      BY <1>3 DEF FailFinal
    <2>2. w \in Writes
      BY <2>1, <1>k, <1>h, WriteType, LeaveType DEF Ops, Statuses, Terminal
    <2>3. WriteOK(w)
      BY <2>1, <1>k, <1>h, LeaveType
      DEF WriteOK, Legal, Write, HeldBy, MayWrite, Consistent, Exists, Statuses, Terminal
    <2> QED
      BY <2>1, <2>2, <2>3, <1>t, BeginStep
  <1>4. ASSUME NEW d \in Delays, FailRetry(p, t, k, d) PROVE IInv'
    <2> DEFINE new == LeaveUntil(t, "DEFERRED", now + d)
    <2> DEFINE w == Write("fail", t, k, NoLease, new)
    <2>1. HeldBy(t, k) /\ Begin(p, {w}) /\ Hand(p, t, k)
      BY <1>4 DEF FailRetry
    <2>d. now + d \in Nat
      BY DelaysAssumption DEF TypeOK
    <2>2. w \in Writes
      BY <2>1, <2>d, <1>k, <1>h, WriteType, LeaveUntilType DEF Ops, Statuses, Waiting
    <2>3. WriteOK(w)
      BY <2>1, <2>d, <1>k, <1>h, LeaveUntilType
      DEF WriteOK, Legal, Write, HeldBy, MayWrite, Consistent, Exists, Statuses, Waiting
    <2> QED
      BY <2>1, <2>2, <2>3, <1>t, BeginStep
  <1> QED
    BY <1>1, <1>2, <1>3, <1>4

\* A new task leaves the prepared writes well formed: none is about an absent task.
LEMMA EnqueueStep ==
  ASSUME IInv, NEW t \in Tasks, NEW k \in Keys, NEW r \in Runs, Enqueue(t, k, r)
  PROVE  IInv'
  <1> DEFINE row == NewTask(k, r)
  <1>1. /\ tasks' = [tasks EXCEPT ![t] = row]
        /\ UNCHANGED <<now, issued, pending, tickets>>
        /\ ~Exists(t)
    BY DEF Enqueue
  <1>2. row \in Row /\ row.status = "PENDING" /\ row.lease = NoLease /\ row.token = NoToken
    <2>1. now \in Nat /\ 0 \in 0..MaxAttempts
      BY MaxAttemptsAssumption DEF IInv, TypeOK
    <2> QED
      BY <2>1 DEF NewTask, Row, Tokens, Statuses, Waiting
  <1> HIDE DEF row
  <1>3. TypeOK'
    BY <1>1, <1>2 DEF IInv, TypeOK
  <1>4. RunningIsRecoverable'
    BY <1>1, <1>2 DEF IInv, RunningIsRecoverable, TypeOK
  <1>5. WritesOK'
    <2> SUFFICES ASSUME NEW q \in Procs, NEW w \in pending[q] PROVE WriteOK(w)'
      BY <1>1 DEF WritesOK
    <2>1. WriteOK(w) /\ w.task \in Tasks
      BY DEF IInv, TypeOK, WritesOK, Writes
    <2>2. w.task # t
      BY <1>1, <2>1 DEF WriteOK
    <2> QED
      BY <1>1, <2>1, <2>2 DEF WriteOK, Exists, Legal, IInv, TypeOK
  <1> QED
    BY <1>3, <1>4, <1>5 DEF IInv

\* A claim keeps the invariant: the new token is the newest one.
LEMMA ClaimStep ==
  ASSUME IInv, NEW p \in Procs, NEW t \in Tasks, NEW n \in Readings, Claim(p, t, n)
  PROVE  IInv'
  <1> DEFINE row == [tasks[t] EXCEPT !.status = "RUNNING", !.attempts = tasks[t].attempts + 1,
                                     !.lease = n + LeaseFor, !.token = issued[t] + 1]
  <1>0. n \in Nat /\ issued[t] \in Nat
    BY DEF Readings, IInv, TypeOK
  <1>1. /\ tasks' = [tasks EXCEPT ![t] = row]
        /\ issued' = [issued EXCEPT ![t] = @ + 1]
        /\ tickets' = [tickets EXCEPT ![p] = @ \cup {<<t, issued[t] + 1>>}]
        /\ UNCHANGED <<now, pending>>
        /\ tasks[t].status \in Waiting
        /\ tasks[t].attempts < MaxAttempts
    BY DEF Claim, Claimable, IInv, TypeOK, Row
  <1>2. /\ row \in Row /\ row.status = "RUNNING"
        /\ row.lease # NoLease /\ row.token = issued[t] + 1
        /\ row.key = tasks[t].key /\ row.run = tasks[t].run
    <2>1. tasks[t] \in Row
      BY DEF IInv, TypeOK
    <2>2. /\ tasks[t].attempts + 1 \in 0..MaxAttempts
          /\ n + LeaseFor \in Nat /\ n + LeaseFor # NoLease
      BY <1>0, <1>1, <2>1, LeaseForAssumption, MaxAttemptsAssumption DEF Row
    <2>3. issued[t] + 1 \in Nat /\ "RUNNING" \in Statuses
      BY <1>0 DEF Statuses
    <2> QED
      BY <2>1, <2>2, <2>3 DEF Row, Tokens
  <1> HIDE DEF row
  <1>3. TypeOK'
    BY <1>0, <1>1, <1>2 DEF IInv, TypeOK, Tokens
  <1>4. RunningIsRecoverable'
    BY <1>0, <1>1, <1>2 DEF IInv, RunningIsRecoverable, TypeOK
  <1>5. WritesOK'
    <2> SUFFICES ASSUME NEW q \in Procs, NEW w \in pending[q] PROVE WriteOK(w)'
      BY <1>1 DEF WritesOK
    <2>1. WriteOK(w) /\ w.task \in Tasks
      BY DEF IInv, TypeOK, WritesOK, Writes
    <2>2. /\ tasks'[w.task].key = tasks[w.task].key
          /\ tasks'[w.task].run = tasks[w.task].run
          /\ Exists(w.task)'
      BY <1>1, <1>2, <2>1 DEF WriteOK, IInv, TypeOK, Exists
    <2> QED
      BY <1>1, <2>1, <2>2 DEF WriteOK, Legal
  <1> QED
    BY <1>3, <1>4, <1>5 DEF IInv

\* An unfinished task is in a state from which it may be closed or parked.
LEMMA ActiveStatus ==
  ASSUME TypeOK, NEW t \in Tasks, Active(t)
  PROVE  tasks[t].status \in Statuses \ Terminal /\ Exists(t)
  BY DEF TypeOK, Row, Active, Exists

\* The calls that park, close, defer, release and recover prepare well formed writes.
LEMMA ControlStep ==
  ASSUME IInv, NEW p \in Procs, ControlCall(p)
  PROVE  IInv'
  <1>i. TypeOK
    BY DEF IInv
  <1>c. \A t \in Tasks : Consistent(tasks[t])
    BY DEF IInv, RunningIsRecoverable, Consistent
  <1>1. ASSUME NEW t \in Tasks, NEW k \in Keys, NEW r \in Runs, Enqueue(t, k, r)
        PROVE  IInv'
    BY <1>1, EnqueueStep
  <1>2. ASSUME NEW t \in Tasks, NEW n \in Readings, Claim(p, t, n)
        PROVE  IInv'
    BY <1>2, ClaimStep
  <1>3. ASSUME NEW t \in Tasks, NEW d \in Delays, Defer(p, t, d)
        PROVE  IInv'
    <2> DEFINE new == [tasks[t] EXCEPT !.status = "DEFERRED", !.available = now + d]
    <2> DEFINE w == Write("defer", t, NoToken, NoLease, new)
    <2>1. tasks[t].status \in Waiting /\ Begin(p, {w}) /\ UNCHANGED tickets
      BY <1>3 DEF Defer
    <2>2. /\ new \in Row /\ new.status = "DEFERRED" /\ Consistent(new)
          /\ new.key = tasks[t].key /\ new.run = tasks[t].run
      <3>1. tasks[t] \in Row /\ now + d \in Nat
        BY <1>i, DelaysAssumption DEF TypeOK
      <3>2. tasks[t].lease = NoLease /\ tasks[t].token = NoToken
        BY <1>c, <2>1 DEF Waiting, Consistent
      <3> QED
        BY <3>1, <3>2 DEF Row, Statuses, Waiting, Consistent
    <2>3. Exists(t) /\ (tasks[t].token # NoToken <=> tasks[t].status = "RUNNING")
      BY <1>c, <2>1 DEF Exists, Waiting, Consistent
    <2>4. w \in Writes
      BY <1>i, <2>2, <2>3, WriteType DEF Ops
    <2>5. WriteOK(w)
      <3> HIDE DEF new
      <3> QED BY <2>1, <2>2, <2>3 DEF WriteOK, Legal, Write, MayWrite
    <2> QED
      BY <1>i, <2>1, <2>4, <2>5, BeginStep DEF TypeOK
  <1>4. ASSUME NEW t \in Tasks, NEW s \in {"BLOCKED", "CANCELLED"}, Close(p, t, s)
        PROVE  IInv'
    <2> DEFINE w == Write("close", t, NoToken, NoLease, Leave(t, s))
    <2>1. Active(t) /\ Begin(p, {w}) /\ UNCHANGED tickets
      BY <1>4 DEF Close
    <2>2. s \in Statuses /\ s # "RUNNING"
      BY DEF Statuses, Terminal
    <2>3. w \in Writes
      BY <1>i, <2>1, <2>2, WriteType, LeaveType, ActiveStatus DEF Ops
    <2>4. WriteOK(w)
      BY <1>i, <1>c, <2>1, <2>2, LeaveType, ActiveStatus
      DEF WriteOK, Legal, Write, MayWrite, Consistent
    <2> QED
      BY <1>i, <2>1, <2>3, <2>4, BeginStep DEF TypeOK
  <1>5. ASSUME NEW t \in Tasks, SendToReview(p, t)
        PROVE  IInv'
    <2> DEFINE w == Write("review", t, NoToken, NoLease, Leave(t, "REVIEW"))
    <2>1. Active(t) /\ Begin(p, {w}) /\ UNCHANGED tickets
      BY <1>5 DEF SendToReview
    <2>2. "REVIEW" \in Statuses
      BY DEF Statuses
    <2>3. w \in Writes
      BY <1>i, <2>1, <2>2, WriteType, LeaveType, ActiveStatus DEF Ops
    <2>4. WriteOK(w)
      BY <1>i, <1>c, <2>1, <2>2, LeaveType, ActiveStatus
      DEF WriteOK, Legal, Write, MayWrite, Consistent
    <2> QED
      BY <1>i, <2>1, <2>3, <2>4, BeginStep DEF TypeOK
  <1>6. ASSUME NEW t \in Tasks, NEW d \in Delays, ReleaseReview(p, t, d)
        PROVE  IInv'
    <2> DEFINE new == [tasks[t] EXCEPT !.available = now + d,
                         !.status = IF d = 0 THEN "PENDING" ELSE "DEFERRED"]
    <2> DEFINE w == Write("release", t, NoToken, NoLease, new)
    <2>1. tasks[t].status = "REVIEW" /\ Begin(p, {w}) /\ UNCHANGED tickets
      BY <1>6 DEF ReleaseReview
    <2>2. /\ new \in Row /\ new.status \in Waiting /\ Consistent(new)
          /\ new.key = tasks[t].key /\ new.run = tasks[t].run
      <3>1. tasks[t] \in Row /\ now + d \in Nat
        BY <1>i, DelaysAssumption DEF TypeOK
      <3>2. tasks[t].lease = NoLease /\ tasks[t].token = NoToken
        BY <1>c, <2>1 DEF Consistent
      <3> QED
        BY <3>1, <3>2 DEF Row, Statuses, Waiting, Consistent
    <2>3. Exists(t) /\ tasks[t].token = NoToken
      BY <1>c, <2>1 DEF Exists, Consistent
    <2>4. w \in Writes
      BY <1>i, <2>2, <2>3, WriteType DEF Ops
    <2>5. WriteOK(w)
      <3> HIDE DEF new
      <3> QED BY <2>1, <2>2, <2>3 DEF WriteOK, Legal, Write, MayWrite
    <2> QED
      BY <1>i, <2>1, <2>4, <2>5, BeginStep DEF TypeOK
  <1>7. ASSUME NEW n \in Readings, NEW d \in Delays, Recover(p, n, d)
        PROVE  IInv'
    <2> DEFINE w(t) == Write("recover", t, NoToken, tasks[t].lease, Recovered(t, n + d))
    <2> DEFINE writes == {w(t) : t \in {u \in Tasks : Expired(u, n)}}
    <2>1. Begin(p, writes) /\ UNCHANGED tickets
      BY <1>7 DEF Recover
    <2>2. ASSUME NEW t \in Tasks, Expired(t, n)
          PROVE  w(t) \in Writes /\ WriteOK(w(t))
      <3>1. n + d \in Nat /\ n <= now
        BY <1>i, DelaysAssumption DEF Readings, TypeOK
      <3>2. /\ tasks[t].status = "RUNNING" /\ tasks[t].lease # NoLease
            /\ tasks[t].lease <= now /\ tasks[t].lease \in Nat
            /\ tasks[t].token # NoToken /\ Exists(t)
        BY <1>i, <1>c, <2>2, <3>1 DEF Expired, TypeOK, Row, Exists, Consistent, Readings
      <3>3. /\ Recovered(t, n + d) \in Row
            /\ Recovered(t, n + d).status \in {"DEFERRED", "FAILED"}
            /\ Consistent(Recovered(t, n + d))
            /\ Recovered(t, n + d).key = tasks[t].key
            /\ Recovered(t, n + d).run = tasks[t].run
        BY <1>i, <3>1, LeaveType, LeaveUntilType
        DEF Recovered, Statuses, Terminal, Waiting, Consistent
      <3>4. w(t) \in Writes
        BY <1>i, <3>2, <3>3, WriteType DEF Ops
      <3>5. WriteOK(w(t))
        BY <3>2, <3>3 DEF WriteOK, Legal, Write, MayWrite
      <3> QED
        BY <3>4, <3>5
    <2> QED
      BY <1>i, <2>1, <2>2, BeginStep DEF TypeOK
  <1> QED
    BY <1>1, <1>2, <1>3, <1>4, <1>5, <1>6, <1>7 DEF ControlCall

\* Executing a prepared write keeps the invariant: the row still has the token and the
\* status the write was prepared from.
LEMMA SaveAppliedStep ==
  ASSUME IInv, NEW p \in Procs, NEW w \in pending[p], SaveApplied(p, w)
  PROVE  IInv'
  <1>1. /\ tasks' = [tasks EXCEPT ![w.task] = w.new]
        /\ pending' = [pending EXCEPT ![p] = @ \ {w}]
        /\ UNCHANGED <<now, issued, tickets>>
        /\ tasks[w.task].status = w.status
        /\ tasks[w.task].token = w.token
    BY DEF SaveApplied, Save, Applies
  <1>2. WriteOK(w) /\ w \in Writes /\ w.task \in Tasks /\ w.new \in Row
    BY DEF IInv, TypeOK, WritesOK, Writes
  <1>3. TypeOK'
    BY <1>1, <1>2 DEF IInv, TypeOK
  <1>4. w.new.status # "ABSENT"
    BY <1>2 DEF WriteOK, Legal, Writes, Ops, MayWrite, Statuses, Waiting, Terminal
  <1>5. w.new.status = "RUNNING" => w.op = "heartbeat"
    BY <1>2 DEF WriteOK, Legal, Writes, Ops, MayWrite, Statuses, Waiting, Terminal
  <1>6. RunningIsRecoverable'
    <2> SUFFICES ASSUME NEW t \in Tasks
        PROVE IF tasks'[t].status = "RUNNING"
              THEN tasks'[t].lease # NoLease /\ tasks'[t].token = issued[t] /\ issued[t] # 0
              ELSE tasks'[t].lease = NoLease /\ tasks'[t].token = NoToken
      BY <1>1 DEF RunningIsRecoverable
    <2>1. CASE t # w.task
      BY <1>1, <2>1 DEF IInv, RunningIsRecoverable, TypeOK
    <2>2. CASE t = w.task
      <3>1. tasks'[t] = w.new /\ Consistent(w.new)
        BY <1>1, <1>2, <2>2 DEF IInv, TypeOK, WriteOK, Legal
      <3>2. CASE w.new.status = "RUNNING"
        <4>1. w.status = "RUNNING" /\ w.new.token = w.token
          BY <1>2, <1>5, <3>2 DEF WriteOK, Legal, MayWrite
        <4> QED
          BY <1>1, <2>2, <3>1, <3>2, <4>1 DEF IInv, RunningIsRecoverable, Consistent
      <3> QED
        BY <3>1, <3>2 DEF Consistent
    <2> QED
      BY <2>1, <2>2
  <1>7. WritesOK'
    <2> SUFFICES ASSUME NEW q \in Procs, NEW v \in pending[q] PROVE WriteOK(v)'
      BY <1>1 DEF WritesOK, IInv, TypeOK
    <2>1. WriteOK(v) /\ v.task \in Tasks
      BY DEF IInv, TypeOK, WritesOK, Writes
    <2>2. /\ Exists(v.task)'
          /\ tasks'[v.task].key = tasks[v.task].key
          /\ tasks'[v.task].run = tasks[v.task].run
      BY <1>1, <1>2, <1>4, <2>1 DEF WriteOK, Exists, IInv, TypeOK
    <2> QED
      BY <1>1, <2>1, <2>2 DEF WriteOK, Legal
  <1> QED
    BY <1>3, <1>6, <1>7 DEF IInv

\* Steps that leave the rows alone and only drop writes or tickets, or pass time.
LEMMA DropStep ==
  ASSUME IInv, UNCHANGED <<tasks, issued>>, now' \in Nat, now <= now',
         pending' \in [Procs -> SUBSET Writes],
         \A p \in Procs : pending'[p] \subseteq pending[p],
         tickets' \in [Procs -> SUBSET (Tasks \X Tokens)]
  PROVE  IInv'
  <1>1. TypeOK'
    BY DEF IInv, TypeOK
  <1>2. RunningIsRecoverable'
    BY DEF IInv, RunningIsRecoverable
  <1>3. WritesOK'
    <2> SUFFICES ASSUME NEW q \in Procs, NEW w \in pending'[q] PROVE WriteOK(w)'
      BY DEF WritesOK
    <2>1. WriteOK(w) /\ w \in Writes
      BY DEF IInv, TypeOK, WritesOK
    <2> QED
      BY <2>1 DEF WriteOK, Exists, Legal, Writes, IInv, TypeOK
  <1> QED
    BY <1>1, <1>2, <1>3 DEF IInv

\* Every step keeps the inductive invariant.
LEMMA NextIInv == IInv /\ [Next]_vars => IInv'
  <1> SUFFICES ASSUME IInv, [Next]_vars PROVE IInv'
    OBVIOUS
  <1>1. ASSUME NEW p \in Procs, WorkerCall(p) PROVE IInv'
    BY <1>1, WorkerStep
  <1>2. ASSUME NEW p \in Procs, ControlCall(p) PROVE IInv'
    BY <1>2, ControlStep
  <1>3. ASSUME NEW p \in Procs, NEW w \in pending[p], SaveApplied(p, w) PROVE IInv'
    BY <1>3, SaveAppliedStep
  <1>4. ASSUME NEW p \in Procs, NEW w \in pending[p], SaveStale(p, w) PROVE IInv'
    BY <1>4, DropStep DEF SaveStale, Save, IInv, TypeOK
  <1>5. ASSUME NEW p \in Procs, Crash(p) PROVE IInv'
    BY <1>5, DropStep DEF Crash, IInv, TypeOK
  <1>6. ASSUME NEW p \in Procs, Abandon(p) PROVE IInv'
    BY <1>6, DropStep DEF Abandon, IInv, TypeOK
  <1>7. CASE Tick
    BY <1>7, DropStep DEF Tick, IInv, TypeOK
  <1>8. CASE UNCHANGED vars
    BY <1>8, DropStep DEF vars, IInv, TypeOK
  <1> QED
    BY <1>1, <1>2, <1>3, <1>4, <1>5, <1>6, <1>7, <1>8 DEF Next, Store

\* The state always has its type, and what prepared writes know stays true.
THEOREM QueueInvariant == Spec => []IInv
  BY InitIInv, NextIInv, PTL DEF Spec

\* Type correctness of the queue; in particular attempts never exceed max_attempts.
THEOREM QueueTypeOK == Spec => []TypeOK
  BY QueueInvariant, PTL DEF IInv

\* A RUNNING row always has a lease for recovery to find and the newest token.
THEOREM QueueRecoverable == Spec => []RunningIsRecoverable
  BY QueueInvariant, PTL DEF IInv

----------------------------------------------------------------------------
(* Which steps change rows.                                                *)

\* The calls of a worker, and all control calls but put and claim, only prepare writes.
LEMMA CallsOnlyPrepare ==
  ASSUME NEW p \in Procs
  PROVE  /\ WorkerCall(p) => UNCHANGED <<tasks, issued>>
         /\ ControlCall(p) =>
              \/ UNCHANGED <<tasks, issued>>
              \/ \E t \in Tasks, k \in Keys, r \in Runs : Enqueue(t, k, r)
              \/ \E t \in Tasks, n \in Readings : Claim(p, t, n)
  BY DEF WorkerCall, ControlCall, Heartbeat, Succeed, FailRetry, FailFinal, Defer,
         Close, SendToReview, ReleaseReview, Recover, Begin

\* A row changes by put, by claim, or by a prepared write that is still applicable.
LEMMA RowChanges ==
  ASSUME [Next]_vars
  PROVE  \/ UNCHANGED <<tasks, issued>>
         \/ \E t \in Tasks, k \in Keys, r \in Runs : Enqueue(t, k, r)
         \/ \E p \in Procs, t \in Tasks, n \in Readings : Claim(p, t, n)
         \/ \E p \in Procs : \E w \in pending[p] : SaveApplied(p, w)
  <1>1. CASE Tick \/ UNCHANGED vars
    BY <1>1 DEF Tick, vars
  <1>2. ASSUME NEW p \in Procs, WorkerCall(p) \/ ControlCall(p)
        PROVE  \/ UNCHANGED <<tasks, issued>>
               \/ \E t \in Tasks, k \in Keys, r \in Runs : Enqueue(t, k, r)
               \/ \E t \in Tasks, n \in Readings : Claim(p, t, n)
    BY <1>2, CallsOnlyPrepare
  <1>3. ASSUME NEW p \in Procs, Store(p)
        PROVE  \/ UNCHANGED <<tasks, issued>>
               \/ \E w \in pending[p] : SaveApplied(p, w)
    BY <1>3 DEF Store, SaveStale, Save
  <1>4. ASSUME NEW p \in Procs, Crash(p) \/ Abandon(p) PROVE UNCHANGED <<tasks, issued>>
    BY <1>4 DEF Crash, Abandon
  <1> QED
    BY <1>1, <1>2, <1>3, <1>4 DEF Next

\* A prepared write that changes its row does so by its own compare-and-set.
LEMMA EffectiveIsApplied ==
  ASSUME IInv, [Next]_vars, NEW p \in Procs, NEW w \in pending[p], Effective(p, w)
  PROVE  SaveApplied(p, w)
  <1>1. /\ ~UNCHANGED tasks
        /\ pending'[p] # pending[p]
    BY DEF Effective, Executed
  <1>2. ~\E t \in Tasks, k \in Keys, r \in Runs : Enqueue(t, k, r)
    BY <1>1 DEF Enqueue
  <1>3. ~\E q \in Procs, t \in Tasks, n \in Readings : Claim(q, t, n)
    BY <1>1 DEF Claim
  <1>4. PICK q \in Procs : \E v \in pending[q] : SaveApplied(q, v)
    BY <1>1, <1>2, <1>3, RowChanges
  <1>5. PICK v \in pending[q] : SaveApplied(q, v)
    BY <1>4
  <1>6. pending' = [pending EXCEPT ![q] = @ \ {v}] /\ pending \in [Procs -> SUBSET Writes]
    BY <1>5 DEF SaveApplied, Save, IInv, TypeOK
  <1>7. q = p /\ v = w
    BY <1>6 DEF Effective, Executed
  <1> QED
    BY <1>5, <1>7

\* Fencing: a completion or heartbeat that takes effect is the newest claim's.
THEOREM QueueFencing == Spec => OnlyNewestClaimCompletes
  <1>1. ASSUME IInv, [Next]_vars, NEW p \in Procs, NEW w \in pending[p],
               Effective(p, w), w.op \in {"heartbeat", "succeed", "fail"}
        PROVE  w.by = issued[w.task]
    <2>1. SaveApplied(p, w)
      BY <1>1, EffectiveIsApplied
    <2>2. tasks[w.task].status = w.status /\ tasks[w.task].token = w.token
      BY <2>1 DEF SaveApplied, Applies
    <2>3. WriteOK(w) /\ w.task \in Tasks
      BY <1>1 DEF IInv, TypeOK, WritesOK, Writes
    <2>4. w.status = "RUNNING" /\ w.by = w.token
      BY <1>1, <2>3 DEF WriteOK, Legal, MayWrite
    <2> QED
      BY <1>1, <2>2, <2>3, <2>4 DEF IInv, RunningIsRecoverable
  <1>2. IInv /\ [Next]_vars =>
          [\A p \in Procs : \A w \in pending[p] :
             Effective(p, w) /\ w.op \in {"heartbeat", "succeed", "fail"} =>
               w.by = issued[w.task]]_vars
    BY <1>1
  <1> QED
    BY <1>2, QueueInvariant, PTL DEF Spec, OnlyNewestClaimCompletes

\* Recovery takes a task only when the lease stored at that moment has run out.
THEOREM QueueRecovery == Spec => RecoveryRespectsLease
  <1>1. ASSUME IInv, [Next]_vars, NEW p \in Procs, NEW w \in pending[p],
               Effective(p, w), w.op = "recover"
        PROVE  tasks[w.task].lease <= now
    <2>1. SaveApplied(p, w)
      BY <1>1, EffectiveIsApplied
    <2>2. WriteOK(w)
      BY <1>1 DEF IInv, WritesOK
    <2> QED
      BY <1>1, <2>1, <2>2 DEF SaveApplied, Applies, WriteOK, Legal
  <1>2. IInv /\ [Next]_vars =>
          [\A p \in Procs : \A w \in pending[p] :
             Effective(p, w) /\ w.op = "recover" => tasks[w.task].lease <= now]_vars
    BY <1>1
  <1> QED
    BY <1>2, QueueInvariant, PTL DEF Spec, RecoveryRespectsLease

----------------------------------------------------------------------------
(* Refinement of the claim ledger.                                         *)

\* Replacing the row of one task moves that task alone in the ledger.
LEMMA LedgerMove ==
  ASSUME TypeOK, NEW t \in Tasks, NEW row,
         tasks' = [tasks EXCEPT ![t] = row], issued' = issued,
         row.token = NoToken, NEW from, PlaceOf(tasks[t]) \in from
  PROVE  Ledger!Move(t, from, PlaceOf(row))
  <1>1. \A u \in Tasks : tasks'[u] = IF u = t THEN row ELSE tasks[u]
    BY DEF TypeOK
  <1>2. [u \in Tasks |-> PlaceOf(tasks'[u])]
          = [[u \in Tasks |-> PlaceOf(tasks[u])] EXCEPT ![t] = PlaceOf(row)]
    <2>1. \A u \in Tasks : PlaceOf(tasks'[u]) = IF u = t THEN PlaceOf(row) ELSE PlaceOf(tasks[u])
      BY <1>1
    <2> QED
      BY <2>1, Zenon
  <1>3. [u \in Tasks |-> tasks'[u].token] = [[u \in Tasks |-> tasks[u].token] EXCEPT ![t] = 0]
    <2>1. \A u \in Tasks : tasks'[u].token = IF u = t THEN 0 ELSE tasks[u].token
      BY <1>1
    <2> QED
      BY <2>1, Zenon
  <1> QED
    BY <1>2, <1>3 DEF Ledger!Move

\* An executed write is a move of its task in the ledger, or no move at all.
LEMMA SaveRefines ==
  ASSUME IInv, NEW p \in Procs, NEW w \in pending[p], SaveApplied(p, w)
  PROVE  [Ledger!Next]_(Ledger!vars)
  <1> DEFINE t == w.task
  <1>1. /\ tasks' = [tasks EXCEPT ![t] = w.new]
        /\ issued' = issued
        /\ tasks[t].status = w.status
        /\ tasks[t].token = w.token
    BY DEF SaveApplied, Save, Applies
  <1>2. WriteOK(w) /\ w \in Writes /\ t \in Tasks /\ TypeOK
    BY DEF IInv, TypeOK, WritesOK, Writes
  <1>3. tasks'[t] = w.new /\ \A u \in Tasks : u # t => tasks'[u] = tasks[u]
    BY <1>1, <1>2 DEF TypeOK
  <1>4. w.new.status # "RUNNING" => w.new.token = NoToken
    BY <1>2 DEF WriteOK, Legal, Consistent
  <1>5. CASE w.op \in {"heartbeat", "defer"}
    <2>1. PlaceOf(w.new) = PlaceOf(tasks[t]) /\ tasks'[t].token = tasks[t].token
      <3>1. CASE w.op = "heartbeat"
        BY <1>1, <1>2, <1>3, <3>1 DEF PlaceOf, WriteOK, Legal, MayWrite, Waiting
      <3>2. CASE w.op = "defer"
        BY <1>1, <1>2, <1>3, <1>4, <3>2
        DEF PlaceOf, WriteOK, Legal, MayWrite, Waiting
      <3> QED
        BY <1>5, <3>1, <3>2
    <2>2. \A u \in Tasks : PlaceOf(tasks'[u]) = PlaceOf(tasks[u]) /\ tasks'[u].token = tasks[u].token
      BY <1>3, <2>1 DEF PlaceOf
    <2> QED
      BY <1>1, <2>2 DEF Ledger!vars
  <1>6. CASE w.op = "succeed"
    <2>1. PlaceOf(tasks[t]) = "held" /\ PlaceOf(w.new) = "done" /\ w.new.token = NoToken
      BY <1>1, <1>2, <1>3, <1>4, <1>6 DEF PlaceOf, WriteOK, Legal, MayWrite, Waiting
    <2>2. Ledger!Finish(t)
      BY <1>1, <1>2, <2>1, LedgerMove DEF Ledger!Finish
    <2> QED
      BY <1>2, <2>2 DEF Ledger!Next
  <1>7. CASE w.op \in {"fail", "recover"}
    <2>1. /\ PlaceOf(tasks[t]) = "held" /\ PlaceOf(w.new) \in {"waiting", "done"}
          /\ w.new.token = NoToken
      BY <1>1, <1>2, <1>3, <1>4, <1>7 DEF PlaceOf, WriteOK, Legal, MayWrite, Waiting
    <2>2. CASE PlaceOf(w.new) = "done"
      <3>1. Ledger!Finish(t)
        BY <1>1, <1>2, <2>1, <2>2, LedgerMove DEF Ledger!Finish
      <3> QED
        BY <1>2, <3>1 DEF Ledger!Next
    <2>3. CASE PlaceOf(w.new) = "waiting"
      <3>1. Ledger!GiveBack(t)
        BY <1>1, <1>2, <2>1, <2>3, LedgerMove DEF Ledger!GiveBack
      <3> QED
        BY <1>2, <3>1 DEF Ledger!Next
    <2> QED
      BY <2>1, <2>2, <2>3
  <1>8. CASE w.op = "release"
    <2>1. PlaceOf(tasks[t]) = "review" /\ PlaceOf(w.new) = "waiting" /\ w.new.token = NoToken
      BY <1>1, <1>2, <1>3, <1>4, <1>8 DEF PlaceOf, WriteOK, Legal, MayWrite, Waiting
    <2>2. Ledger!Unpark(t)
      BY <1>1, <1>2, <2>1, LedgerMove DEF Ledger!Unpark
    <2> QED
      BY <1>2, <2>2 DEF Ledger!Next
  <1>9. CASE w.op \in {"review", "close"}
    <2>1. PlaceOf(tasks[t]) \in {"waiting", "held", "review"}
      BY <1>1, <1>2, <1>9
      DEF PlaceOf, WriteOK, Legal, MayWrite, Waiting, Statuses, Terminal
    <2>2. CASE w.op = "close"
      <3>1. PlaceOf(w.new) = "done" /\ w.new.token = NoToken
        BY <1>2, <1>3, <1>4, <2>2 DEF PlaceOf, WriteOK, Legal, MayWrite, Waiting
      <3>2. Ledger!Finish(t)
        BY <1>1, <1>2, <2>1, <3>1, LedgerMove DEF Ledger!Finish
      <3> QED
        BY <1>2, <3>2 DEF Ledger!Next
    <2>3. CASE w.op = "review"
      <3>1. PlaceOf(w.new) = "review" /\ w.new.token = NoToken
        BY <1>2, <1>3, <1>4, <2>3 DEF PlaceOf, WriteOK, Legal, MayWrite, Waiting
      <3>2. CASE PlaceOf(tasks[t]) # "review"
        <4>0. PlaceOf(tasks[t]) \in {"waiting", "held"}
          BY <2>1, <3>2
        <4>1. Ledger!Park(t)
          BY <1>1, <1>2, <4>0, <3>1, LedgerMove DEF Ledger!Park
        <4> QED
          BY <1>2, <4>1 DEF Ledger!Next
      <3>3. CASE PlaceOf(tasks[t]) = "review"
        <4>1. tasks[t].status = "REVIEW"
          BY <2>3, <3>3, <1>1, <1>2 DEF PlaceOf
        <4>2. tasks[t].token = NoToken
          BY <1>2, <4>1 DEF IInv, RunningIsRecoverable
        <4>3. \A u \in Tasks : PlaceOf(tasks'[u]) = PlaceOf(tasks[u]) /\ tasks'[u].token = tasks[u].token
          BY <1>3, <3>1, <3>3, <4>2 DEF PlaceOf
        <4> QED
          BY <1>1, <4>3 DEF Ledger!vars
      <3> QED
        BY <3>2, <3>3
    <2> QED
      BY <1>9, <2>2, <2>3
  <1> QED
    BY <1>2, <1>5, <1>6, <1>7, <1>8, <1>9 DEF Writes, Ops

\* The queue, with its races, crashes and recoveries, implements the claim ledger.
THEOREM QueueImplementsLedger == Spec => ImplementsLedger
  <1>1. Init => Ledger!Init
    <2>1. PlaceOf(Absent) = "absent" /\ Absent.token = 0
      <3>1. Absent.status = "ABSENT" /\ Absent.token = 0
        BY DEF Absent
      <3> QED
        BY <3>1 DEF PlaceOf, Waiting
    <2>2. Init => /\ \A t \in Tasks : tasks[t] = Absent
                  /\ issued = [u \in Tasks |-> 0]
      BY DEF Init
    <2>3. Init => [t \in Tasks |-> PlaceOf(tasks[t])] = [t \in Tasks |-> "absent"]
      <3>1. Init => \A t \in Tasks : PlaceOf(tasks[t]) = "absent"
        BY <2>1, <2>2
      <3> QED
        BY <3>1, Zenon
    <2>4. Init => [t \in Tasks |-> tasks[t].token] = [t \in Tasks |-> 0]
      <3>1. Init => \A t \in Tasks : tasks[t].token = 0
        BY <2>1, <2>2
      <3> QED
        BY <3>1, Zenon
    <2> QED
      BY <2>3, <2>4 DEF Init, Ledger!Init
  <1>2. ASSUME IInv, [Next]_vars PROVE [Ledger!Next]_(Ledger!vars)
    <2>0. TypeOK
      BY <1>2 DEF IInv
    <2>1. CASE UNCHANGED <<tasks, issued>>
      BY <2>1 DEF Ledger!vars, PlaceOf
    <2>2. ASSUME NEW t \in Tasks, NEW k \in Keys, NEW r \in Runs, Enqueue(t, k, r)
          PROVE  Ledger!Next
      <3>1. /\ tasks' = [tasks EXCEPT ![t] = NewTask(k, r)] /\ issued' = issued
            /\ ~Exists(t)
        BY <2>2 DEF Enqueue
      <3>2. NewTask(k, r).token = NoToken /\ NewTask(k, r).status = "PENDING"
        BY DEF NewTask
      <3>3. PlaceOf(tasks[t]) = "absent" /\ PlaceOf(NewTask(k, r)) = "waiting"
        BY <2>0, <3>1, <3>2 DEF PlaceOf, Exists, Waiting, TypeOK
      <3> QED
        <4>1. Ledger!Submit(t)
          BY <2>0, <3>1, <3>2, <3>3, LedgerMove DEF Ledger!Submit
        <4> QED
          BY <4>1 DEF Ledger!Next
    <2>3. ASSUME NEW p \in Procs, NEW t \in Tasks, NEW n \in Readings, Claim(p, t, n)
          PROVE  Ledger!Next
      <3>1. /\ tasks[t].status \in Waiting
            /\ issued' = [issued EXCEPT ![t] = @ + 1]
            /\ tasks'[t].status = "RUNNING" /\ tasks'[t].token = issued[t] + 1
            /\ \A u \in Tasks : u # t => tasks'[u] = tasks[u]
        BY <2>0, <2>3 DEF Claim, Claimable, TypeOK, Row
      <3>2. PlaceOf(tasks[t]) = "waiting" /\ PlaceOf(tasks'[t]) = "held"
        BY <3>1 DEF PlaceOf, Waiting
      <3>3. [u \in Tasks |-> PlaceOf(tasks'[u])] = [[u \in Tasks |-> PlaceOf(tasks[u])] EXCEPT ![t] = "held"]
        <4>1. \A u \in Tasks : PlaceOf(tasks'[u]) = IF u = t THEN "held" ELSE PlaceOf(tasks[u])
          BY <3>1, <3>2 DEF PlaceOf
        <4> QED
          BY <4>1
      <3>4. [u \in Tasks |-> tasks'[u].token]
              = [[u \in Tasks |-> tasks[u].token] EXCEPT ![t] = issued[t] + 1]
        <4>1. \A u \in Tasks : tasks'[u].token = IF u = t THEN issued[t] + 1 ELSE tasks[u].token
          BY <3>1
        <4> QED
          BY <4>1, Zenon
      <3> QED
        BY <3>1, <3>2, <3>3, <3>4 DEF Ledger!Next, Ledger!Grant
    <2>4. ASSUME NEW p \in Procs, NEW w \in pending[p], SaveApplied(p, w)
          PROVE  [Ledger!Next]_(Ledger!vars)
      BY <1>2, <2>4, SaveRefines
    <2> QED
      BY <1>2, <2>1, <2>2, <2>3, <2>4, RowChanges
  <1> QED
    BY <1>1, <1>2, QueueInvariant, PTL DEF Spec, ImplementsLedger, Ledger!Spec

----------------------------------------------------------------------------
(* Deduplication and the retry budget.                                     *)

\* put checks for duplicates once; no later transition revives a task or renames it,
\* so two unfinished tasks never share a key and a run never repeats its work.
THEOREM QueueDedupe == Spec => []OneTaskPerLogicalWork
  <1>1. Init => OneTaskPerLogicalWork
    BY DEF Init, OneTaskPerLogicalWork, Exists, Absent
  <1>2. ASSUME IInv, OneTaskPerLogicalWork, [Next]_vars PROVE OneTaskPerLogicalWork'
    <2>0. TypeOK
      BY <1>2 DEF IInv
    <2>1. CASE UNCHANGED <<tasks, issued>>
      BY <1>2, <2>1 DEF OneTaskPerLogicalWork, Exists, Active
    <2>2. ASSUME NEW t \in Tasks, NEW k \in Keys, NEW r \in Runs, Enqueue(t, k, r)
          PROVE  OneTaskPerLogicalWork'
      <3>1. /\ \A u \in Tasks : tasks'[u] = IF u = t THEN NewTask(k, r) ELSE tasks[u]
            /\ \A u \in Tasks : ~Duplicate(u, k, r)
        BY <2>0, <2>2 DEF Enqueue, TypeOK
      <3>2. /\ NewTask(k, r).key = k /\ NewTask(k, r).run = r
            /\ NewTask(k, r).status = "PENDING"
        BY DEF NewTask
      <3> QED
        BY <1>2, <3>1, <3>2 DEF OneTaskPerLogicalWork, Exists, Active, Duplicate
    <2>3. ASSUME NEW t \in Tasks,
                 Active(t),
                 \A u \in Tasks : u # t => tasks'[u] = tasks[u],
                 Exists(t)', tasks'[t].key = tasks[t].key, tasks'[t].run = tasks[t].run
          PROVE  OneTaskPerLogicalWork'
      BY <1>2, <2>3 DEF OneTaskPerLogicalWork, Exists, Active
    <2>4. ASSUME NEW p \in Procs, NEW t \in Tasks, NEW n \in Readings, Claim(p, t, n)
          PROVE  OneTaskPerLogicalWork'
      <3>1. /\ Active(t) /\ Exists(t)'
            /\ \A u \in Tasks : u # t => tasks'[u] = tasks[u]
            /\ tasks'[t].key = tasks[t].key /\ tasks'[t].run = tasks[t].run
        BY <2>0, <2>4
        DEF Claim, Claimable, Active, Exists, Waiting, Terminal, TypeOK, Row
      <3> QED
        BY <2>3, <3>1
    <2>5. ASSUME NEW p \in Procs, NEW w \in pending[p], SaveApplied(p, w)
          PROVE  OneTaskPerLogicalWork'
      <3>1. /\ tasks' = [tasks EXCEPT ![w.task] = w.new]
            /\ tasks[w.task].status = w.status
        BY <2>5 DEF SaveApplied, Applies
      <3>2. WriteOK(w) /\ w \in Writes /\ w.task \in Tasks
        BY <1>2 DEF IInv, TypeOK, WritesOK, Writes
      <3>3. w.status \notin Terminal /\ w.new.status # "ABSENT"
        BY <3>2 DEF WriteOK, Legal, Writes, Ops, MayWrite, Statuses, Waiting, Terminal
      <3>4. /\ Active(w.task) /\ Exists(w.task)'
            /\ \A u \in Tasks : u # w.task => tasks'[u] = tasks[u]
            /\ tasks'[w.task].key = tasks[w.task].key
            /\ tasks'[w.task].run = tasks[w.task].run
        BY <2>0, <3>1, <3>2, <3>3 DEF WriteOK, Active, Exists, TypeOK
      <3> QED
        BY <2>3, <3>2, <3>4
    <2> QED
      BY <1>2, <2>1, <2>2, <2>4, <2>5, RowChanges
  <1> QED
    BY <1>1, <1>2, QueueInvariant, PTL DEF Spec

\* In a single process the transition lock keeps prepared writes up to date, so every
\* claim is counted in the attempts and max_attempts bounds the executions.
THEOREM SingleProcessBudget ==
  ASSUME \A p, q \in Procs : p = q
  PROVE  Spec => []AttemptsCountClaims
  <1> DEFINE Fresh == \A t \in Tasks : ~Exists(t) => tasks[t].attempts = 0
  <1> DEFINE SInv == AttemptsCountClaims /\ WritesUpToDate /\ Fresh
  <1>1. Init => SInv
    BY DEF Init, AttemptsCountClaims, WritesUpToDate, Absent, Exists
  <1>2. ASSUME IInv, SInv, IInv', [Next]_vars PROVE SInv'
    <2>0. TypeOK
      BY <1>2 DEF IInv
    <2>1. ASSUME UNCHANGED <<tasks, issued>>, \A p \in Procs : pending'[p] \subseteq pending[p]
          PROVE  SInv'
      BY <1>2, <2>1 DEF AttemptsCountClaims, WritesUpToDate, Exists
    <2>2. ASSUME NEW p \in Procs, NEW t \in Tasks, NEW new,
                 NEW op, NEW by, NEW lease, new.attempts = tasks[t].attempts,
                 Begin(p, {Write(op, t, by, lease, new)})
          PROVE  SInv'
      <3> DEFINE w == Write(op, t, by, lease, new)
      <3>1. w.task = t /\ w.status = tasks[t].status /\ w.new = new
        BY DEF Write
      <3> HIDE DEF w
      <3>2. /\ UNCHANGED <<tasks, issued>>
            /\ \A q \in Procs : pending'[q] = {w}
        BY <2>0, <2>2 DEF Begin, TypeOK, w
      <3> QED
        BY <1>2, <2>2, <3>1, <3>2 DEF AttemptsCountClaims, WritesUpToDate, Exists
    <2>3. ASSUME NEW p \in Procs, WorkerCall(p) PROVE SInv'
      <3> PICK t \in Tasks : \E k \in 1..issued[t] :
             \/ Heartbeat(p, t, k)
             \/ Succeed(p, t, k)
             \/ \E d \in Delays : FailRetry(p, t, k, d)
             \/ FailFinal(p, t, k)
        BY <2>3 DEF WorkerCall
      <3>1. [tasks[t] EXCEPT !.lease = now + LeaseFor].attempts = tasks[t].attempts
        BY <2>0 DEF TypeOK, Row
      <3>2. \A s \in Statuses : Leave(t, s).attempts = tasks[t].attempts
        BY <2>0, LeaveType
      <3>3. \A s \in Statuses, d \in Delays :
              LeaveUntil(t, s, now + d).attempts = tasks[t].attempts
        BY <2>0, LeaveUntilType, DelaysAssumption DEF TypeOK
      <3>4. {"SUCCEEDED", "FAILED", "DEFERRED"} \subseteq Statuses
        BY DEF Statuses, Terminal, Waiting
      <3>5. ASSUME NEW k \in 1..issued[t], Heartbeat(p, t, k) PROVE SInv'
        BY <2>2, <3>1, <3>5 DEF Heartbeat
      <3>6. ASSUME NEW k \in 1..issued[t], Succeed(p, t, k) PROVE SInv'
        BY <2>2, <3>2, <3>4, <3>6 DEF Succeed
      <3>7. ASSUME NEW k \in 1..issued[t], FailFinal(p, t, k) PROVE SInv'
        BY <2>2, <3>2, <3>4, <3>7 DEF FailFinal
      <3>8. ASSUME NEW k \in 1..issued[t], NEW d \in Delays, FailRetry(p, t, k, d) PROVE SInv'
        BY <2>2, <3>3, <3>4, <3>8 DEF FailRetry
      <3> QED
        BY <3>5, <3>6, <3>7, <3>8
    <2>4. ASSUME NEW t \in Tasks, NEW k \in Keys, NEW r \in Runs, Enqueue(t, k, r)
          PROVE  SInv'
      <3>1. /\ \A u \in Tasks : tasks'[u] = IF u = t THEN NewTask(k, r) ELSE tasks[u]
            /\ UNCHANGED <<issued, pending>> /\ ~Exists(t)
        BY <2>0, <2>4 DEF Enqueue, TypeOK
      <3>2. issued[t] = 0 /\ NewTask(k, r).attempts = 0 /\ NewTask(k, r).status = "PENDING"
        BY <1>2, <3>1 DEF AttemptsCountClaims, NewTask
      <3>3. \A p \in Procs : \A w \in pending[p] : w.task \in Tasks /\ w.task # t
        BY <1>2, <2>0, <3>1 DEF IInv, WritesOK, WriteOK, TypeOK, Writes
      <3> QED
        BY <1>2, <3>1, <3>2, <3>3 DEF AttemptsCountClaims, WritesUpToDate, Exists
    <2>5. ASSUME NEW p \in Procs, NEW t \in Tasks, NEW n \in Readings, Claim(p, t, n)
          PROVE  SInv'
      <3>1. /\ \A u \in Tasks : u # t => tasks'[u] = tasks[u] /\ issued'[u] = issued[u]
            /\ issued'[t] = issued[t] + 1 /\ tasks'[t].attempts = tasks[t].attempts + 1
            /\ tasks'[t].status = "RUNNING" /\ tasks[t].status \in Waiting
            /\ UNCHANGED pending
        BY <2>0, <2>5 DEF Claim, Claimable, TypeOK, Row
      <3>2. \A q \in Procs : \A w \in pending[q] : w.task \in Tasks
        BY <2>0 DEF TypeOK, Writes
      <3>3. "RUNNING" \notin Waiting
        BY DEF Waiting
      <3> QED
        BY <1>2, <3>1, <3>2, <3>3 DEF AttemptsCountClaims, WritesUpToDate, Exists
    <2>6. ASSUME NEW p \in Procs, NEW n \in Readings, NEW d \in Delays, Recover(p, n, d)
          PROVE  SInv'
      <3> DEFINE w(t) == Write("recover", t, NoToken, tasks[t].lease, Recovered(t, n + d))
      <3>1. /\ UNCHANGED <<tasks, issued>>
            /\ \A q \in Procs : pending'[q] = {w(t) : t \in {u \in Tasks : Expired(u, n)}}
        BY <2>0, <2>6 DEF Recover, Begin, TypeOK
      <3>2. \A t \in Tasks : /\ w(t).task = t /\ w(t).status = tasks[t].status
                             /\ w(t).new = Recovered(t, n + d)
        BY DEF Write
      <3>3. n + d \in Nat /\ {"DEFERRED", "FAILED"} \subseteq Statuses
        BY <2>0, DelaysAssumption DEF Readings, TypeOK, Statuses, Terminal, Waiting
      <3>4. \A t \in Tasks : Recovered(t, n + d).attempts = tasks[t].attempts
        BY <2>0, <3>3, LeaveType, LeaveUntilType DEF Recovered
      <3> HIDE DEF w
      <3>5. WritesUpToDate'
        BY <3>1, <3>2, <3>4 DEF WritesUpToDate
      <3> QED
        BY <1>2, <3>1, <3>5 DEF AttemptsCountClaims, Exists
    <2>7. ASSUME NEW p \in Procs, ControlCall(p) PROVE SInv'
      <3>1. ASSUME NEW t \in Tasks, NEW d \in Delays, Defer(p, t, d) PROVE SInv'
        <4>1. [tasks[t] EXCEPT !.status = "DEFERRED", !.available = now + d].attempts
                = tasks[t].attempts
          BY <2>0 DEF TypeOK, Row
        <4> QED
          BY <2>2, <3>1, <4>1 DEF Defer
      <3>2. ASSUME NEW t \in Tasks, NEW s \in {"BLOCKED", "CANCELLED"}, Close(p, t, s)
            PROVE  SInv'
        <4>1. s \in Statuses
          BY DEF Statuses, Terminal
        <4>2. Leave(t, s).attempts = tasks[t].attempts
          BY <2>0, <4>1, LeaveType
        <4> QED
          BY <2>2, <3>2, <4>2 DEF Close
      <3>3. ASSUME NEW t \in Tasks, SendToReview(p, t) PROVE SInv'
        <4>1. Leave(t, "REVIEW").attempts = tasks[t].attempts
          BY <2>0, LeaveType DEF Statuses
        <4> QED
          BY <2>2, <3>3, <4>1 DEF SendToReview
      <3>4. ASSUME NEW t \in Tasks, NEW d \in Delays, ReleaseReview(p, t, d) PROVE SInv'
        <4>1. [tasks[t] EXCEPT !.available = now + d,
                 !.status = IF d = 0 THEN "PENDING" ELSE "DEFERRED"].attempts
                = tasks[t].attempts
          BY <2>0 DEF TypeOK, Row
        <4> QED
          BY <2>2, <3>4, <4>1 DEF ReleaseReview
      <3> QED
        BY <2>4, <2>5, <2>6, <2>7, <3>1, <3>2, <3>3, <3>4 DEF ControlCall
    <2>8. ASSUME NEW p \in Procs, NEW w \in pending[p], SaveApplied(p, w) PROVE SInv'
      <3>1. /\ tasks' = [tasks EXCEPT ![w.task] = w.new]
            /\ pending' = [pending EXCEPT ![p] = @ \ {w}]
            /\ UNCHANGED issued
            /\ tasks[w.task].status = w.status
        BY <2>8 DEF SaveApplied, Save, Applies
      <3>2. WriteOK(w) /\ w \in Writes /\ w.task \in Tasks
        BY <1>2 DEF IInv, TypeOK, WritesOK, Writes
      <3>3. w.status # "RUNNING" \/ w.status \notin Waiting
        BY DEF Waiting
      <3>4. w.new.attempts = tasks[w.task].attempts
        BY <1>2, <3>1, <3>3 DEF WritesUpToDate
      <3>5. \A q \in Procs : q = p
        OBVIOUS
      <3>6. \A v \in pending'[p] : v \in pending[p] /\ v.task # w.task /\ v.task \in Tasks
        BY <1>2, <2>0, <3>1 DEF WritesUpToDate, TypeOK, Writes
      <3>7. \A u \in Tasks : tasks'[u] = IF u = w.task THEN w.new ELSE tasks[u]
        BY <2>0, <3>1 DEF TypeOK
      <3>8. WritesUpToDate'
        BY <1>2, <3>5, <3>6, <3>7 DEF WritesUpToDate
      <3>9. w.new.status # "ABSENT"
        BY <3>2 DEF WriteOK, Legal, Writes, Ops, MayWrite, Statuses, Waiting, Terminal
      <3>10. AttemptsCountClaims' /\ Fresh'
        BY <1>2, <3>1, <3>2, <3>4, <3>7, <3>9 DEF AttemptsCountClaims, Exists
      <3> QED
        BY <3>8, <3>10
    <2>9. ASSUME NEW p \in Procs, NEW w \in pending[p], SaveStale(p, w) PROVE SInv'
      BY <2>0, <2>1, <2>9 DEF SaveStale, Save, TypeOK
    <2>10. ASSUME NEW p \in Procs, Crash(p) \/ Abandon(p) PROVE SInv'
      BY <2>0, <2>1, <2>10 DEF Crash, Abandon, TypeOK
    <2>11. CASE Tick \/ UNCHANGED vars
      BY <2>1, <2>11 DEF Tick, vars
    <2> HIDE DEF SInv
    <2> QED
      BY <1>2, <2>3, <2>7, <2>8, <2>9, <2>10, <2>11 DEF Next, Store
  <1>3. SInv => AttemptsCountClaims
    OBVIOUS
  <1> HIDE DEF SInv
  <1> QED
    BY <1>1, <1>2, <1>3, QueueInvariant, PTL DEF Spec
=============================================================================
