----------------------------- MODULE RateLimit -----------------------------
(***************************************************************************)
(* recon/policy/rate_limit.py (RateLimiter) over SQLiteRateLimitStore of   *)
(* recon/storage/database.py: token buckets and concurrency slots shared   *)
(* by the workers of every process of a workspace.                         *)
(*                                                                         *)
(* A worker asks for all its buckets at once, waits while they cannot give *)
(* it, works with a lease and releases it.  Store calls are one immediate  *)
(* transaction each.  The wait is woken by its timeout or by a release in  *)
(* the same process; the Condition that carries it is not held between the *)
(* store's answer and the wait.                                            *)
(*                                                                         *)
(* Left out: the matching of rules (a worker without one is refused),      *)
(* fractional tokens, native tool flags, and renew, which nothing calls.   *)
(***************************************************************************)
EXTENDS Integers, FiniteSets, Functions, FiniteSetsExt

CONSTANTS
  Workers,         \* the calls of await_acquire that may be in progress
  Procs,           \* processes with their own RateLimiter
  ProcOf,          \* the process of each worker
  Buckets,         \* <<rule, resource>>
  BucketsOf,       \* the buckets whose rules match each worker
  Requests,        \* tokens a worker asks for
  Slots,           \* concurrency it asks for
  Paced,           \* buckets with requests_per_second
  Rate,            \* their tokens per clock tick
  Burst,           \* and burst
  Capped,          \* buckets with max_concurrency
  MaxConcurrency,  \* their slots
  Leases,          \* lease identifiers (uuid4 values)
  None,            \* no lease
  LeaseFor,        \* rate_lease_seconds, in clock ticks
  MaxWait,         \* how long a call may wait for the write lock after it read the clock
                   \* (busy_timeout; then it raises)
  MaxTime          \* bound on the clock

ASSUME BucketAssumption ==
  /\ Paced \subseteq Buckets /\ Capped \subseteq Buckets
  /\ Rate \in [Buckets -> Nat \ {0}] /\ Burst \in [Buckets -> Nat \ {0}]
  /\ MaxConcurrency \in [Buckets -> Nat \ {0}]

\* try_acquire refuses a demand above the burst outright.
ASSUME WorkerAssumption ==
  /\ ProcOf \in [Workers -> Procs]
  /\ BucketsOf \in [Workers -> SUBSET Buckets]
  /\ Requests \in [Workers -> Nat] /\ Slots \in [Workers -> Nat]
  /\ \A w \in Workers : \A b \in BucketsOf[w] \cap Paced : Requests[w] <= Burst[b]

\* Only finitely many calls are in progress, of finitely many leases.
ASSUME FiniteAssumption == IsFiniteSet(Workers) /\ IsFiniteSet(Leases)

ASSUME RateTimeAssumption ==
  LeaseFor \in Nat \ {0} /\ MaxWait \in Nat /\ MaxTime \in Nat \ {0}

VARIABLES
  now,      \* the wall clock
  buckets,  \* the rows of rate_buckets
  leases,   \* the rows of rate_leases with their items
  up,       \* per process: whether it runs
  workers,  \* per worker: where it is, its lease, and the time its call read or its wait ends
  granted,  \* history: per paced bucket, the tokens granted at each clock reading
  late      \* history: and the calls that committed at each time with a reading from
            \* before the bucket's last refill

history == <<granted, late>>
vars == <<now, buckets, leases, up, workers, history>>

Places == {"idle", "asking", "deferred", "sleeping", "holding", "notifying"}
States == {"FREE", "ACTIVE", "RELEASED", "EXPIRED"}

Nothing == [b \in Buckets |-> 0]
Free == [state |-> "FREE", expires |-> 0, slots |-> Nothing]
Idle == [at |-> "idle", lease |-> None, time |-> 0]
NoCalls == [b \in Paced |-> [s \in 1..MaxTime |-> 0]]

IsActive(l) == leases[l].state = "ACTIVE"

Recent(n) == now - n <= MaxWait

\* acquire reads the clock and calls the store.
Calling == [at |-> "asking", lease |-> None, time |-> now]

----------------------------------------------------------------------------
(* try_acquire.                                                            *)

\* Fault: tokens accumulate without a bound.
LevelWithoutBurst(b, n) ==
  buckets[b].tokens + Rate[b] * Max({n - buckets[b].refilled, 0})

\* The tokens of a bucket at time n; a call with an older reading refills nothing.
Level(b, n) ==
  Min({Burst[b], buckets[b].tokens + Rate[b] * Max({n - buckets[b].refilled, 0})})

Short(w, n) == {b \in BucketsOf[w] \cap Paced : Level(b, n) < Requests[w]}

\* Fault: the size of the demand is not counted.
FullBeforeAdding(w) ==
  {b \in BucketsOf[w] \cap Capped : Slots[w] > 0 /\ buckets[b].active >= MaxConcurrency[b]}

Full(w) ==
  {b \in BucketsOf[w] \cap Capped :
     Slots[w] > 0 /\ buckets[b].active + Slots[w] > MaxConcurrency[b]}

\* What a worker's lease holds.
SlotsOf(w) == [b \in Buckets |-> IF b \in BucketsOf[w] \cap Capped THEN Slots[w] ELSE 0]

\* Every bucket is charged, or none: the row takes the call's clock reading.
Charged(b, w, n) ==
  IF b \notin BucketsOf[w] THEN buckets[b]
  ELSE [tokens   |-> IF b \in Paced THEN Level(b, n) - Requests[w] ELSE buckets[b].tokens,
        refilled |-> n,
        active   |-> buckets[b].active + SlotsOf(w)[b]]

Grant(w, l, n) ==
  /\ Short(w, n) = {} /\ Full(w) = {}
  /\ buckets' = [b \in Buckets |-> Charged(b, w, n)]
  /\ granted' = [b \in Paced |->
                   IF b \in BucketsOf[w] THEN [granted[b] EXCEPT ![n] = @ + Requests[w]]
                                         ELSE granted[b]]
  /\ late' = [b \in Paced |->
                IF b \in BucketsOf[w] /\ n < buckets[b].refilled
                THEN [late[b] EXCEPT ![now] = @ + 1] ELSE late[b]]
  /\ IF SlotsOf(w) = Nothing
     THEN l = None /\ UNCHANGED leases
     ELSE /\ l # None /\ leases[l] = Free
          /\ leases' = [leases EXCEPT ![l] = [state |-> "ACTIVE", expires |-> n + LeaseFor,
                                              slots |-> SlotsOf(w)]]

\* How long the store tells a refused worker to wait: until the tokens are back, or until
\* the first lease on a full bucket runs out, which it may already have.
TokenRetry(b, w, n) == (Requests[w] - Level(b, n) + Rate[b] - 1) \div Rate[b]

SlotRetry(b, n) ==
  LET ends == {leases[l].expires : l \in {m \in Leases : IsActive(m) /\ leases[m].slots[b] > 0}}
  IN  IF ends = {} THEN 0 ELSE Max({Min(ends) - n, 0})

RetryAfter(w, n) ==
  Max({TokenRetry(b, w, n) : b \in Short(w, n)} \cup {SlotRetry(b, n) : b \in Full(w)})

----------------------------------------------------------------------------
(* await_acquire.                                                          *)

\* Bound: as many lease identifiers as workers that may still take one.
Ask(w) ==
  /\ up[ProcOf[w]] /\ workers[w].at = "idle"
  /\ Cardinality({l \in Leases : leases[l] = Free})
       > Cardinality({v \in Workers : workers[v].at \in {"asking", "deferred", "sleeping"}})
  /\ workers' = [workers EXCEPT ![w] = Calling]
  /\ UNCHANGED <<now, buckets, leases, up, history>>

Acquire(w) ==
  /\ workers[w].at = "asking" /\ Recent(workers[w].time)
  /\ \E l \in Leases \cup {None} :
       /\ Grant(w, l, workers[w].time)
       /\ workers' = [workers EXCEPT ![w] = [at |-> "holding", lease |-> l, time |-> 0]]
  /\ UNCHANGED <<now, up>>

\* The worker is cancelled while the store commits: nobody knows of the lease.
AcquireCancelled(w) ==
  /\ workers[w].at = "asking" /\ Recent(workers[w].time)
  /\ \E l \in Leases \cup {None} : Grant(w, l, workers[w].time)
  /\ workers' = [workers EXCEPT ![w] = Idle]
  /\ UNCHANGED <<now, up>>

\* Fault: the buckets that could give have given.
DeferHalfCharged(w) ==
  /\ workers[w].at = "asking" /\ Recent(workers[w].time)
  /\ LET n == workers[w].time
     IN  /\ Short(w, n) \cup Full(w) # {}
         /\ buckets' = [b \in Buckets |-> IF b \in Short(w, n) \cup Full(w)
                                          THEN buckets[b] ELSE Charged(b, w, n)]
         /\ workers' = [workers EXCEPT ![w] = [at |-> "deferred", lease |-> None,
                                              time |-> now + RetryAfter(w, n)]]
  /\ UNCHANGED <<now, leases, up, history>>

Defer(w) ==
  /\ workers[w].at = "asking" /\ Recent(workers[w].time)
  /\ LET n == workers[w].time
     IN  /\ Short(w, n) \cup Full(w) # {}
         /\ workers' = [workers EXCEPT ![w] = [at |-> "deferred", lease |-> None,
                                              time |-> now + RetryAfter(w, n)]]
  /\ UNCHANGED <<now, buckets, leases, up, history>>

\* Only from here on does a notification reach the worker.
Sleep(w) ==
  /\ workers[w].at = "deferred"
  /\ workers' = [workers EXCEPT ![w].at = "sleeping"]
  /\ UNCHANGED <<now, buckets, leases, up, history>>

TimeOut(w) ==
  /\ workers[w].at = "sleeping" /\ workers[w].time <= now
  /\ workers' = [workers EXCEPT ![w] = Calling]
  /\ UNCHANGED <<now, buckets, leases, up, history>>

\* A worker is cancelled while it waits, or at its release, or its call could not get the
\* write lock: a lease it holds stays.
GiveUp(w) ==
  /\ workers[w].at # "idle"
  /\ workers' = [workers EXCEPT ![w] = Idle]
  /\ UNCHANGED <<now, buckets, leases, up, history>>

----------------------------------------------------------------------------
(* release and reap_expired.                                               *)

\* What a set of leases holds of a bucket.
Held(ls, b) == SumFunctionOnSet([l \in Leases |-> leases[l].slots[b]], ls)

\* An underflow raises, and the transaction rolls back.
FreeSlots(ls, state) ==
  /\ \A b \in Buckets : Held(ls, b) <= buckets[b].active
  /\ buckets' = [b \in Buckets |-> [buckets[b] EXCEPT !.active = @ - Held(ls, b)]]
  /\ leases' = [l \in Leases |-> IF l \in ls THEN [leases[l] EXCEPT !.state = state]
                                             ELSE leases[l]]

\* The work is over, whatever its end: the worker's finally releases its lease.
Release(w) ==
  /\ workers[w].at = "holding" /\ workers[w].lease # None
  /\ IsActive(workers[w].lease)
  /\ FreeSlots({workers[w].lease}, "RELEASED")
  /\ workers' = [workers EXCEPT ![w] = [Idle EXCEPT !.at = "notifying"]]
  /\ UNCHANGED <<now, up, history>>

\* A lease that was reaped meanwhile cannot be released: the worker raises.
ReleaseRaises(w) ==
  /\ workers[w].at = "holding" /\ workers[w].lease # None
  /\ ~IsActive(workers[w].lease)
  /\ workers' = [workers EXCEPT ![w] = Idle]
  /\ UNCHANGED <<now, buckets, leases, up, history>>

NothingToRelease(w) ==
  /\ workers[w].at = "holding" /\ workers[w].lease = None
  /\ workers' = [workers EXCEPT ![w] = Idle]
  /\ UNCHANGED <<now, buckets, leases, up, history>>

\* notify_all wakes the waiters of this process.
Notify(w) ==
  /\ workers[w].at = "notifying"
  /\ workers' = [v \in Workers |->
                   IF v = w THEN Idle
                   ELSE IF ProcOf[v] = ProcOf[w] /\ workers[v].at = "sleeping"
                        THEN Calling
                        ELSE workers[v]]
  /\ UNCHANGED <<now, buckets, leases, up, history>>

\* Fault: startup takes every lease it finds for a dead worker's.
EveryActive(n) == {l \in Leases : IsActive(l)}

Overdue(n) == {l \in Leases : IsActive(l) /\ leases[l].expires <= n}

\* reap_expired runs once, when a process opens the workspace.
Open(p) ==
  /\ ~up[p]
  /\ \E n \in {m \in 1..now : Recent(m)} : FreeSlots(Overdue(n), "EXPIRED")
  /\ up' = [up EXCEPT ![p] = TRUE]
  /\ UNCHANGED <<now, workers, history>>

Crash(p) ==
  /\ up[p]
  /\ up' = [up EXCEPT ![p] = FALSE]
  /\ workers' = [w \in Workers |-> IF ProcOf[w] = p THEN Idle ELSE workers[w]]
  /\ UNCHANGED <<now, buckets, leases, history>>

----------------------------------------------------------------------------
Tick ==
  /\ now < MaxTime
  /\ now' = now + 1
  /\ UNCHANGED <<buckets, leases, up, workers, history>>

\* A missing row is one with a full burst, if its rule has one, and no slot taken.
Init ==
  /\ now = 1
  /\ buckets = [b \in Buckets |-> [tokens |-> IF b \in Paced THEN Burst[b] ELSE 0,
                                refilled |-> 1, active |-> 0]]
  /\ leases = [l \in Leases |-> Free]
  /\ up = [p \in Procs |-> FALSE]
  /\ workers = [w \in Workers |-> Idle]
  /\ granted = NoCalls /\ late = NoCalls

Work(w) ==
  \/ Ask(w) \/ Acquire(w) \/ AcquireCancelled(w) \/ Defer(w) \/ Sleep(w) \/ TimeOut(w)
  \/ GiveUp(w) \/ Release(w) \/ ReleaseRaises(w) \/ NothingToRelease(w) \/ Notify(w)

Next ==
  \/ \E w \in Workers : Work(w)
  \/ \E p \in Procs : Open(p) \/ Crash(p)
  \/ Tick

Spec == Init /\ [][Next]_vars

----------------------------------------------------------------------------
(* Properties.                                                             *)

Since(h, s) == SumFunctionOnSet(h, s..now)

\* In every stretch of time a paced bucket gives at most its burst and what it refills
\* meanwhile, however many workers of however many processes draw on it.  Each grant
\* counts at its call's own clock reading: that it is late to commit is no excess.
RateRespected ==
  \A b \in Paced : \A s \in 1..now : Since(granted[b], s) <= Burst[b] + Rate[b] * (now - s)

\* A call that commits after a later reading (try_acquire stores its own as the refill time)
\* lets a bucket refill again what it was late, and that is all the excess there is: in
\* every stretch of time, a wait for the write lock for each such call.
RateWithinLateCalls ==
  \A b \in Paced : \A s \in 1..now :
    Since(granted[b], s) <= Burst[b] + Rate[b] * (now - s + MaxWait * Since(late[b], s))

\* The work of a worker is covered while its lease has not run out.
Covered(w) ==
  /\ workers[w].at = "holding" /\ workers[w].lease # None
  /\ leases[workers[w].lease].expires > now

\* Work that has not outlived its lease never takes more of a bucket than its slots,
\* across crashes, reaping and cancelled acquisitions.
HoldersWithinSlots ==
  \A b \in Capped :
    SumFunctionOnSet([w \in Workers |-> SlotsOf(w)[b]], {w \in Workers : Covered(w)})
      <= MaxConcurrency[b]

\* The counter of a bucket is what ACTIVE leases hold of it: a refused worker takes
\* nothing, and no slot is given back twice or lost without its lease.
ActiveIsLeased ==
  \A b \in Buckets : buckets[b].active = Held({l \in Leases : IsActive(l)}, b)

\* A worker that ends before its lease does finds it ACTIVE, so that its release does not
\* turn finished work into a failed task: no other process's startup reaps a lease in use.
HoldersCanRelease == \A w \in Workers : Covered(w) => IsActive(workers[w].lease)
=============================================================================
