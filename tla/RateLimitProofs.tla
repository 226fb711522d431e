-------------------------- MODULE RateLimitProofs --------------------------
(***************************************************************************)
(* The rate limiter, for any workers, processes, buckets and leases: that  *)
(* a live lease is never taken from its worker, that slots add up, and     *)
(* what a wait for the write lock can add to the rate.                     *)
(***************************************************************************)
EXTENDS RateLimit, SumProofs

\* What the argument needs of the types: wait times are maxima over sets, of which only
\* the clock readings of calls matter here.
Shapes ==
  /\ now \in Nat
  /\ leases \in [Leases -> [state : States, expires : Nat, slots : [Buckets -> Nat]]]
  /\ workers = [w \in Workers |-> workers[w]]
  /\ \A w \in Workers : workers[w] = [at    |-> workers[w].at,
                                      lease |-> workers[w].lease,
                                      time  |-> workers[w].time]
  /\ \A w \in Workers : workers[w].at = "asking" => workers[w].time \in Nat

Holds(w, l) == workers[w].at = "holding" /\ workers[w].lease = l

\* A lease that a worker holds is ACTIVE until it has run out, and nobody else's.
LeasesHeld ==
  /\ \A w \in Workers, l \in Leases :
       l # None /\ Holds(w, l) =>
         leases[l].state # "FREE" /\ (IsActive(l) \/ leases[l].expires <= now)
  /\ \A v, w \in Workers, l \in Leases : l # None /\ Holds(v, l) /\ Holds(w, l) => v = w

\* Who holds a lease holds one of the leases there are.
LeasesKnown ==
  \A w \in Workers : workers[w].at = "holding" => workers[w].lease \in Leases \cup {None}

LeaseInv == Shapes /\ LeasesHeld /\ LeasesKnown

----------------------------------------------------------------------------
\* A lease is granted for natural numbers of slots.
LEMMA SlotsNat ==
  ASSUME NEW w \in Workers
  PROVE  SlotsOf(w) \in [Buckets -> Nat]
BY WorkerAssumption DEF SlotsOf

\* A step in which no worker starts to hold and no lease changes keeps the invariant.
LEMMA NobodyAcquires ==
  ASSUME LeaseInv, now' = now, leases' = leases,
         Shapes',
         \A w \in Workers : workers'[w].at = "holding" =>
           workers[w].at = "holding" /\ workers'[w].lease = workers[w].lease
  PROVE  LeaseInv'
BY DEF LeaseInv, LeasesHeld, LeasesKnown, Holds, IsActive

\* The same, for a step of one worker.
LEMMA OneWorkerStops ==
  ASSUME LeaseInv, now' = now, leases' = leases,
         NEW w \in Workers, NEW a \in Places \ {"holding"}, NEW l, NEW t,
         a = "asking" => t \in Nat,
         workers' = [workers EXCEPT ![w] = [at |-> a, lease |-> l, time |-> t]]
  PROVE  LeaseInv'
<1>1. Shapes'
  BY DEF LeaseInv, Shapes, Places
<1>2. \A v \in Workers : workers'[v].at = "holding" =>
        workers[v].at = "holding" /\ workers'[v].lease = workers[v].lease
  BY DEF LeaseInv, Shapes, Places
<1> QED
  BY <1>1, <1>2, NobodyAcquires

\* A grant takes a lease that nobody has held, and gives it time.
LEMMA GrantsFreshLease ==
  ASSUME LeaseInv, now' = now,
         NEW w \in Workers, workers[w].at = "asking",
         NEW l \in Leases \cup {None}, Grant(w, l, workers[w].time),
         \/ workers' = [workers EXCEPT ![w] = [at |-> "holding", lease |-> l, time |-> 0]]
         \/ workers' = [workers EXCEPT ![w] = Idle]
  PROVE  LeaseInv'
<1>1. Shapes'
  <2>1. workers[w].time + LeaseFor \in Nat
    BY RateTimeAssumption DEF LeaseInv, Shapes
  <2>2. [state |-> "ACTIVE", expires |-> workers[w].time + LeaseFor, slots |-> SlotsOf(w)]
          \in [state : States, expires : Nat, slots : [Buckets -> Nat]]
    BY <2>1, SlotsNat DEF States
  <2>3. \/ leases' = leases
        \/ leases' = [leases EXCEPT ![l] = [state |-> "ACTIVE",
                                            expires |-> workers[w].time + LeaseFor,
                                            slots |-> SlotsOf(w)]]
    BY DEF Grant
  <2>4. leases' \in [Leases -> [state : States, expires : Nat, slots : [Buckets -> Nat]]]
    BY <2>2, <2>3 DEF LeaseInv, Shapes
  <2>5. PICK a, k : /\ a # "asking"
                    /\ workers' = [workers EXCEPT ![w] = [at |-> a, lease |-> k, time |-> 0]]
    BY DEF Idle
  <2>6. \A v \in Workers :
          workers'[v] = IF v = w THEN [at |-> a, lease |-> k, time |-> 0] ELSE workers[v]
    BY <2>5 DEF LeaseInv, Shapes
  <2> QED
    BY <2>4, <2>5, <2>6 DEF LeaseInv, Shapes
<1>2. CASE l = None \/ SlotsOf(w) = Nothing
  <2>1. l = None /\ leases' = leases
    BY <1>2 DEF Grant
  <2>2. \A v \in Workers, m \in Leases : m # None /\ Holds(v, m)' => Holds(v, m)
    BY <2>1 DEF LeaseInv, Shapes, Holds, Idle
  <2>3. LeasesKnown'
    BY <2>1 DEF LeaseInv, Shapes, LeasesKnown, Idle
  <2> QED
    BY <1>1, <2>1, <2>2, <2>3 DEF LeaseInv, LeasesHeld, IsActive
<1>3. CASE l \in Leases /\ l # None /\ SlotsOf(w) # Nothing
  <2>1. /\ leases[l].state = "FREE"
        /\ leases' = [leases EXCEPT ![l] = [state |-> "ACTIVE",
                                            expires |-> workers[w].time + LeaseFor,
                                            slots |-> SlotsOf(w)]]
    BY <1>3 DEF Grant, Free
  <2>2. \A v \in Workers : ~Holds(v, l)
    BY <1>3, <2>1 DEF LeaseInv, LeasesHeld
  <2>3. \A v \in Workers, m \in Leases : m # None /\ Holds(v, m)' =>
          (v = w /\ m = l) \/ (m # l /\ Holds(v, m))
    BY <2>2 DEF LeaseInv, Shapes, Holds, Idle
  <2>4. \A m \in Leases : m # l => leases'[m] = leases[m]
    BY <2>1 DEF LeaseInv, Shapes
  <2>5. leases'[l].state = "ACTIVE"
    BY <1>3, <2>1 DEF LeaseInv, Shapes
  <2>6. LeasesHeld'
    BY <2>3, <2>4, <2>5, <1>3 DEF LeaseInv, LeasesHeld, IsActive
  <2>7. LeasesKnown'
    BY DEF LeaseInv, Shapes, LeasesKnown, Idle
  <2> QED
    BY <1>1, <2>6, <2>7 DEF LeaseInv
<1> QED
  BY <1>2, <1>3

\* Leases are only given back by their holder, who stops holding, or when they have run out.
LEMMA FreedLeases ==
  ASSUME LeaseInv, now' = now,
         NEW ls \in SUBSET Leases, NEW state \in States \ {"FREE"}, FreeSlots(ls, state),
         Shapes',
         \A w \in Workers, l \in Leases :
           l # None /\ Holds(w, l)' =>
             Holds(w, l) /\ (l \in ls => leases[l].expires <= now),
         LeasesKnown'
  PROVE  LeaseInv'
<1>1. \A l \in Leases : leases'[l].expires = leases[l].expires
                     /\ leases'[l].state = IF l \in ls THEN state ELSE leases[l].state
  BY DEF FreeSlots, LeaseInv, Shapes
<1>2. LeasesHeld'
  BY <1>1 DEF LeaseInv, LeasesHeld, IsActive
<1> QED
  BY <1>2 DEF LeaseInv

\* What freeing does to the shape of the leases.
LEMMA FreedShape ==
  ASSUME Shapes, NEW ls \in SUBSET Leases, NEW state \in States, FreeSlots(ls, state)
  PROVE  leases' \in [Leases -> [state : States, expires : Nat, slots : [Buckets -> Nat]]]
<1>1. \A l \in Leases : [leases[l] EXCEPT !.state = state]
                          \in [state : States, expires : Nat, slots : [Buckets -> Nat]]
  BY DEF Shapes
<1> QED
  BY <1>1 DEF FreeSlots, Shapes

----------------------------------------------------------------------------
\* At the start nobody holds a lease.
LEMMA InitLease == Init => LeaseInv
<1> SUFFICES ASSUME Init PROVE LeaseInv
  OBVIOUS
<1>1. Free \in [state : States, expires : Nat, slots : [Buckets -> Nat]]
  BY DEF Free, States, Nothing
<1>2. \A w \in Workers : workers[w] = Idle
  BY DEF Init
<1>3. Shapes
  BY <1>1, <1>2 DEF Init, Shapes, Idle
<1> QED
  BY <1>2, <1>3 DEF LeaseInv, LeasesHeld, LeasesKnown, Holds, Idle

\* No step of workers, reapers, crashes or time takes a live lease away.
LEMMA StepLease == LeaseInv /\ [Next]_vars => LeaseInv'
<1> SUFFICES ASSUME LeaseInv, [Next]_vars PROVE LeaseInv'
  OBVIOUS
<1>n. now \in Nat
  BY DEF LeaseInv, Shapes
<1>1. ASSUME NEW w \in Workers, Ask(w) \/ TimeOut(w) PROVE LeaseInv'
  <2>1. workers' = [workers EXCEPT ![w] = [at |-> "asking", lease |-> None, time |-> now]]
    BY <1>1 DEF Ask, TimeOut, Calling
  <2> QED
    BY <1>1, <1>n, <2>1, OneWorkerStops DEF Ask, TimeOut, Places
<1>2. ASSUME NEW w \in Workers, Acquire(w) PROVE LeaseInv'
  BY <1>2, GrantsFreshLease DEF Acquire
<1>3. ASSUME NEW w \in Workers, AcquireCancelled(w) PROVE LeaseInv'
  BY <1>3, GrantsFreshLease DEF AcquireCancelled
<1>4. ASSUME NEW w \in Workers, Defer(w) PROVE LeaseInv'
  <2>1. PICK t : workers' = [workers EXCEPT ![w] = [at |-> "deferred", lease |-> None,
                                                    time |-> t]]
    BY <1>4 DEF Defer
  <2>2. leases' = leases /\ now' = now
    BY <1>4 DEF Defer
  <2>3. "deferred" \in Places \ {"holding"} /\ "deferred" # "asking"
    BY DEF Places
  <2> QED
    BY <2>1, <2>2, <2>3, OneWorkerStops
<1>s. ASSUME NEW w \in Workers, Sleep(w) PROVE LeaseInv'
  <2>1. workers'[w].at = "sleeping" /\ \A v \in Workers \ {w} : workers'[v] = workers[v]
    BY <1>s DEF Sleep, LeaseInv, Shapes
  <2>2. Shapes'
    BY <1>s, <2>1 DEF Sleep, LeaseInv, Shapes
  <2> QED
    BY <1>s, <2>1, <2>2, NobodyAcquires DEF Sleep
<1>5. ASSUME NEW w \in Workers, GiveUp(w) \/ ReleaseRaises(w) \/ NothingToRelease(w)
      PROVE  LeaseInv'
  BY <1>5, OneWorkerStops DEF GiveUp, ReleaseRaises, NothingToRelease, Idle, Places
<1>6. ASSUME NEW w \in Workers, Release(w) PROVE LeaseInv'
  <2> DEFINE l == workers[w].lease
  <2>1. l \in Leases /\ l # None /\ Holds(w, l) /\ FreeSlots({l}, "RELEASED")
    BY <1>6 DEF Release, LeaseInv, LeasesKnown, Holds
  <2>2. workers' = [workers EXCEPT ![w] = [at |-> "notifying", lease |-> None, time |-> 0]]
    <3>1. [Idle EXCEPT !.at = "notifying"] = [at |-> "notifying", lease |-> None, time |-> 0]
      BY DEF Idle
    <3> QED
      BY <1>6, <3>1 DEF Release
  <2>3. Shapes'
    BY <1>6, <2>1, <2>2, FreedShape DEF Release, LeaseInv, Shapes, States
  <2>4. \A v \in Workers, m \in Leases : m # None /\ Holds(v, m)' => Holds(v, m) /\ m # l
    BY <2>1, <2>2 DEF LeaseInv, LeasesHeld, Shapes, Holds
  <2>5. LeasesKnown'
    BY <2>2 DEF LeaseInv, LeasesKnown, Shapes
  <2> HIDE DEF l
  <2> QED
    BY <1>6, <2>1, <2>3, <2>4, <2>5, FreedLeases DEF Release, States
<1>7. ASSUME NEW w \in Workers, Notify(w) PROVE LeaseInv'
  <2>1. workers' = [v \in Workers |->
                      IF v = w THEN Idle
                      ELSE IF ProcOf[v] = ProcOf[w] /\ workers[v].at = "sleeping"
                           THEN [at |-> "asking", lease |-> None, time |-> now]
                           ELSE workers[v]]
    BY <1>7 DEF Notify, Calling
  <2>2. Shapes'
    BY <1>7, <2>1 DEF Notify, LeaseInv, Shapes, Idle
  <2> QED
    BY <1>7, <2>1, <2>2, NobodyAcquires DEF Notify, Idle
<1>8. ASSUME NEW p \in Procs, Open(p) PROVE LeaseInv'
  <2>1. PICK n \in {m \in 1..now : Recent(m)} : FreeSlots(Overdue(n), "EXPIRED")
    BY <1>8 DEF Open
  <2>2. Overdue(n) \in SUBSET Leases /\ \A l \in Overdue(n) : leases[l].expires <= now
    BY <1>n, <2>1 DEF Overdue, LeaseInv, Shapes
  <2>3. Shapes'
    BY <1>8, <2>1, <2>2, FreedShape DEF Open, LeaseInv, Shapes, States
  <2>4. LeasesKnown'
    BY <1>8 DEF Open, LeaseInv, LeasesKnown
  <2> QED
    BY <1>8, <2>1, <2>2, <2>3, <2>4, FreedLeases DEF Open, States, Holds
<1>9. ASSUME NEW p \in Procs, Crash(p) PROVE LeaseInv'
  <2>1. Shapes'
    BY <1>9 DEF Crash, LeaseInv, Shapes, Idle
  <2> QED
    BY <1>9, <2>1, NobodyAcquires DEF Crash, Idle
<1>10. CASE Tick
  BY <1>10, <1>n DEF Tick, LeaseInv, Shapes, LeasesHeld, LeasesKnown, Holds, IsActive
<1>11. CASE UNCHANGED vars
  BY <1>11 DEF vars, LeaseInv, Shapes, LeasesHeld, LeasesKnown, Holds, IsActive
<1> QED
  BY <1>1, <1>2, <1>3, <1>4, <1>s, <1>5, <1>6, <1>7, <1>8, <1>9, <1>10, <1>11 DEF Next, Work

\* The inductive invariant: a lease has one holder, and is ACTIVE until it has run out.
THEOREM RateLeases == Spec => []LeaseInv
<1>1. Init => LeaseInv
  BY InitLease
<1>2. LeaseInv /\ [Next]_vars => LeaseInv'
  BY StepLease
<1> QED
  BY <1>1, <1>2, PTL DEF Spec

\* Whatever is granted, released, cancelled or reaped, and however many processes open the
\* workspace: a worker whose lease has not run out finds it ACTIVE when it releases it.
THEOREM LiveLeasesKept == Spec => []HoldersCanRelease
<1>1. LeaseInv => HoldersCanRelease
  BY DEF LeaseInv, Shapes, LeasesHeld, LeasesKnown, Holds, IsActive, HoldersCanRelease, Covered
<1> QED
  BY <1>1, RateLeases, PTL

----------------------------------------------------------------------------
(* The slots.  A counter is a sum over the ACTIVE leases: a grant adds one *)
(* to the set, giving back takes some out.                                 *)

LeaseRows == [Leases -> [state : States, expires : Nat, slots : [Buckets -> Nat]]]

Act(lm) == {l \in Leases : lm[l].state = "ACTIVE"}

\* Held, of any rows of leases.
HeldBy(lm, ls, b) == SumFunctionOnSet([l \in Leases |-> lm[l].slots[b]], ls)

\* A set of leases holds a natural number of slots, and its parts share them.
LEMMA HeldParts ==
  ASSUME NEW lm \in LeaseRows, NEW b \in Buckets,
         NEW ls \in SUBSET Leases, NEW ks \in SUBSET ls
  PROVE  /\ HeldBy(lm, ls, b) \in Nat /\ HeldBy(lm, ks, b) \in Nat
         /\ HeldBy(lm, ls \ ks, b) = HeldBy(lm, ls, b) - HeldBy(lm, ks, b)
<1> DEFINE f == [l \in Leases |-> lm[l].slots[b]]
<1>1. \A l \in Leases : f[l] \in Nat
  BY DEF LeaseRows
<1>2. IsFiniteSet(ls) /\ IsFiniteSet(ks) /\ IsFiniteSet(ls \ ks)
  BY FiniteAssumption, FS_Subset
<1> HIDE DEF f
<1>3. /\ SumFunctionOnSet(f, ls) \in Nat /\ SumFunctionOnSet(f, ks) \in Nat
      /\ SumFunctionOnSet(f, ls \ ks) \in Nat
  BY <1>1, <1>2, SumNat
<1>4. SumFunctionOnSet(f, ls) = SumFunctionOnSet(f, ks) + SumFunctionOnSet(f, ls \ ks)
  BY <1>1, <1>2, SumSplit
<1> QED
  BY <1>3, <1>4 DEF f, HeldBy

\* A lease that was FREE adds its slots to what the ACTIVE ones hold.
LEMMA HeldGrows ==
  ASSUME NEW lm \in LeaseRows, NEW lm2 \in LeaseRows, NEW b \in Buckets,
         NEW k \in Leases, lm[k].state # "ACTIVE", lm2[k].state = "ACTIVE",
         \A l \in Leases \ {k} : lm2[l] = lm[l]
  PROVE  HeldBy(lm2, Act(lm2), b) = HeldBy(lm, Act(lm), b) + lm2[k].slots[b]
<1> DEFINE f == [l \in Leases |-> lm[l].slots[b]]
           f2 == [l \in Leases |-> lm2[l].slots[b]]
<1>1. Act(lm2) = Act(lm) \cup {k} /\ k \notin Act(lm) /\ Act(lm) \in SUBSET Leases
  BY DEF Act
<1>2. \A l \in Leases : f[l] \in Nat /\ f2[l] \in Nat
  BY DEF LeaseRows
<1>3. \A l \in Act(lm) : f2[l] = f[l]
  BY DEF Act
<1>4. f2[k] = lm2[k].slots[b]
  OBVIOUS
<1>5. IsFiniteSet(Act(lm))
  BY <1>1, FiniteAssumption, FS_Subset
<1> HIDE DEF f, f2
<1>6. SumFunctionOnSet(f2, Act(lm) \cup {k}) = SumFunctionOnSet(f2, Act(lm)) + f2[k]
  BY <1>1, <1>2, <1>5, SumAdd
<1>7. SumFunctionOnSet(f2, Act(lm)) = SumFunctionOnSet(f, Act(lm))
  BY <1>1, <1>2, <1>3, <1>5, SumSame
<1> QED
  BY <1>1, <1>4, <1>6, <1>7 DEF f, f2, HeldBy

\* Rows that differ in nothing but states hold the same.
LEMMA HeldSame ==
  ASSUME NEW lm \in LeaseRows, NEW lm2 \in LeaseRows, NEW b \in Buckets,
         NEW ls, \A l \in Leases : lm2[l].slots = lm[l].slots
  PROVE  HeldBy(lm2, ls, b) = HeldBy(lm, ls, b)
<1>1. [l \in Leases |-> lm2[l].slots[b]] = [l \in Leases |-> lm[l].slots[b]]
  OBVIOUS
<1> QED
  BY <1>1 DEF HeldBy

\* The rows of the buckets, as far as their slots go.
BucketRows ==
  /\ buckets = [b \in Buckets |-> buckets[b]]
  /\ \A b \in Buckets : /\ buckets[b] = [tokens   |-> buckets[b].tokens,
                                         refilled |-> buckets[b].refilled,
                                         active   |-> buckets[b].active]
                        /\ buckets[b].active \in Nat

\* A counter is what ACTIVE leases hold, and no more than there are slots.
Counted == \A b \in Buckets : buckets[b].active = HeldBy(leases, Act(leases), b)
Capacity == \A b \in Capped : buckets[b].active <= MaxConcurrency[b]

\* A lease holds what its worker asked for.
HoldsItsOwn ==
  \A w \in Workers, l \in Leases : l # None /\ Holds(w, l) => leases[l].slots = SlotsOf(w)

SlotInv == BucketRows /\ Counted /\ Capacity /\ HoldsItsOwn

----------------------------------------------------------------------------
\* A step of workers that changes no row, and lets nobody start to hold, keeps it.
LEMMA SlotsUntouched ==
  ASSUME SlotInv, buckets' = buckets, leases' = leases,
         \A w \in Workers, l \in Leases : l # None /\ Holds(w, l)' => Holds(w, l)
  PROVE  SlotInv'
BY DEF SlotInv, BucketRows, Counted, Capacity, HoldsItsOwn, Holds, HeldBy, Act, SlotsOf

\* The counters after a grant.
LEMMA GrantCharges ==
  ASSUME SlotInv, NEW w \in Workers, NEW n, NEW l, Grant(w, l, n)
  PROVE  /\ BucketRows' /\ Capacity'
         /\ \A b \in Buckets : buckets'[b].active = buckets[b].active + SlotsOf(w)[b]
<1>1. buckets' = [b \in Buckets |-> Charged(b, w, n)]
  BY DEF Grant
<1>2. ASSUME NEW b \in Buckets
      PROVE  /\ buckets'[b] = [tokens   |-> buckets'[b].tokens,
                               refilled |-> buckets'[b].refilled,
                               active   |-> buckets'[b].active]
             /\ buckets'[b].active = buckets[b].active + SlotsOf(w)[b]
             /\ buckets'[b].active \in Nat
  <2>1. SlotsOf(w)[b] \in Nat /\ buckets[b].active \in Nat
    BY SlotsNat DEF SlotInv, BucketRows
  <2>2. CASE b \notin BucketsOf[w]
    <3>1. SlotsOf(w)[b] = 0 /\ buckets'[b] = buckets[b]
      BY <1>1, <2>2 DEF SlotsOf, Charged
    <3> QED
      BY <2>1, <3>1 DEF SlotInv, BucketRows
  <2>3. CASE b \in BucketsOf[w]
    <3>1. PICK t : buckets'[b] = [tokens |-> t, refilled |-> n,
                                  active |-> buckets[b].active + SlotsOf(w)[b]]
      BY <1>1, <2>3 DEF Charged
    <3> QED
      BY <2>1, <3>1
  <2> QED
    BY <2>2, <2>3
<1>3. BucketRows'
  BY <1>1, <1>2 DEF BucketRows
<1>4. Capacity'
  <2> SUFFICES ASSUME NEW b \in Capped PROVE buckets'[b].active <= MaxConcurrency[b]
    BY DEF Capacity
  <2>1. b \in Buckets /\ buckets[b].active \in Nat /\ Slots[w] \in Nat
    BY BucketAssumption, WorkerAssumption DEF SlotInv, BucketRows
  <2>2. b \notin Full(w) /\ buckets[b].active <= MaxConcurrency[b]
    BY DEF Grant, SlotInv, Capacity
  <2>3. MaxConcurrency[b] \in Nat
    BY <2>1, BucketAssumption
  <2>4. PICK s \in Nat : s = SlotsOf(w)[b]
    BY <2>1, SlotsNat
  <2>5. s = 0 \/ buckets[b].active + s <= MaxConcurrency[b]
    <3>1. CASE b \in BucketsOf[w]
      <4>1. s = Slots[w]
        BY <2>1, <2>4, <3>1 DEF SlotsOf
      <4>2. ~(Slots[w] > 0 /\ buckets[b].active + Slots[w] > MaxConcurrency[b])
        BY <2>2, <3>1 DEF Full
      <4> QED
        BY <2>1, <2>3, <4>1, <4>2
    <3>2. CASE b \notin BucketsOf[w]
      BY <2>1, <2>4, <3>2 DEF SlotsOf
    <3> QED
      BY <3>1, <3>2
  <2>6. buckets'[b].active = buckets[b].active + s
    BY <1>2, <2>1, <2>4
  <2> QED
    BY <2>1, <2>2, <2>3, <2>5, <2>6
<1> QED
  BY <1>2, <1>3, <1>4

\* A grant counts the slots of its lease, and one that takes no lease takes no slot.
LEMMA GrantCounts ==
  ASSUME LeaseInv, LeaseInv', SlotInv,
         NEW w \in Workers, NEW l \in Leases \cup {None}, NEW n, Grant(w, l, n),
         \/ workers' = [workers EXCEPT ![w] = [at |-> "holding", lease |-> l, time |-> 0]]
         \/ workers' = [workers EXCEPT ![w] = Idle]
  PROVE  SlotInv'
<1>1. BucketRows' /\ Capacity'
      /\ \A b \in Buckets : buckets'[b].active = buckets[b].active + SlotsOf(w)[b]
  BY GrantCharges
<1>2. \A b \in Buckets : buckets[b].active \in Nat /\ SlotsOf(w)[b] \in Nat
  BY SlotsNat DEF SlotInv, BucketRows
<1>3. leases \in LeaseRows /\ leases' \in LeaseRows
  BY DEF LeaseInv, Shapes, LeaseRows
<1>4. \A v \in Workers, m \in Leases : m # None /\ Holds(v, m)' =>
        (v = w /\ m = l) \/ Holds(v, m)
  BY DEF LeaseInv, Shapes, Holds, Idle
<1>5. CASE SlotsOf(w) = Nothing
  <2>1. l = None /\ leases' = leases
    BY <1>5 DEF Grant
  <2>2. \A b \in Buckets : SlotsOf(w)[b] = 0
    BY <1>5 DEF Nothing
  <2>3. Counted'
    BY <1>1, <1>2, <2>1, <2>2 DEF SlotInv, Counted
  <2>4. HoldsItsOwn'
    BY <1>4, <2>1 DEF SlotInv, HoldsItsOwn, SlotsOf
  <2> QED
    BY <1>1, <2>3, <2>4 DEF SlotInv
<1>6. CASE SlotsOf(w) # Nothing
  <2>1. /\ l \in Leases /\ l # None /\ leases[l].state = "FREE"
        /\ leases' = [leases EXCEPT ![l] = [state |-> "ACTIVE", expires |-> n + LeaseFor,
                                            slots |-> SlotsOf(w)]]
    BY <1>6 DEF Grant, Free
  <2>2. /\ leases'[l].state = "ACTIVE" /\ leases'[l].slots = SlotsOf(w)
        /\ \A m \in Leases \ {l} : leases'[m] = leases[m]
    BY <2>1, <1>3 DEF LeaseRows
  <2>3. Counted'
    <3> SUFFICES ASSUME NEW b \in Buckets
                 PROVE  buckets'[b].active = HeldBy(leases', Act(leases'), b)
      BY DEF Counted, HeldBy, Act
    <3>1. HeldBy(leases', Act(leases'), b)
            = HeldBy(leases, Act(leases), b) + leases'[l].slots[b]
      <4>1. leases[l].state # "ACTIVE"
        BY <2>1
      <4>2. PICK lm2 \in LeaseRows : lm2 = leases'
        BY <1>3
      <4>3. lm2[l].state = "ACTIVE" /\ \A m \in Leases \ {l} : lm2[m] = leases[m]
        BY <2>2, <4>2
      <4>4. HeldBy(lm2, Act(lm2), b) = HeldBy(leases, Act(leases), b) + lm2[l].slots[b]
        BY <1>3, <2>1, <4>1, <4>3, HeldGrows
      <4> QED
        BY <4>2, <4>4
    <3>2. buckets[b].active = HeldBy(leases, Act(leases), b)
      BY DEF SlotInv, Counted
    <3> QED
      BY <1>1, <2>2, <3>1, <3>2
  <2>4. \A v \in Workers : ~Holds(v, l)
    BY <2>1 DEF LeaseInv, LeasesHeld
  <2>5. HoldsItsOwn'
    BY <1>4, <2>2, <2>4 DEF SlotInv, HoldsItsOwn, SlotsOf
  <2> QED
    BY <1>1, <2>3, <2>5 DEF SlotInv
<1> QED
  BY <1>5, <1>6

\* Slots are given back with the ACTIVE leases that held them.
LEMMA FreedCounts ==
  ASSUME LeaseInv, LeaseInv', SlotInv,
         NEW ls \in SUBSET Act(leases), NEW state \in States \ {"ACTIVE"}, FreeSlots(ls, state),
         \A w \in Workers, l \in Leases : l # None /\ Holds(w, l)' => Holds(w, l)
  PROVE  SlotInv'
<1>1. leases \in LeaseRows /\ leases' \in LeaseRows /\ Act(leases) \in SUBSET Leases
  BY DEF LeaseInv, Shapes, LeaseRows, Act
<1>2. \A l \in Leases : /\ leases'[l].slots = leases[l].slots
                        /\ leases'[l].state = IF l \in ls THEN state ELSE leases[l].state
  BY <1>1 DEF FreeSlots, LeaseRows
<1>3. Act(leases') = Act(leases) \ ls
  BY <1>2 DEF Act
<1>4. ASSUME NEW b \in Buckets
      PROVE  /\ buckets'[b] = [buckets[b] EXCEPT !.active = @ - HeldBy(leases, ls, b)]
             /\ HeldBy(leases, ls, b) <= buckets[b].active
  BY DEF FreeSlots, Held, HeldBy
<1>5. ASSUME NEW b \in Buckets
      PROVE  /\ HeldBy(leases, ls, b) \in Nat
             /\ HeldBy(leases', Act(leases'), b)
                  = HeldBy(leases, Act(leases), b) - HeldBy(leases, ls, b)
  <2>1. /\ HeldBy(leases, ls, b) \in Nat
        /\ HeldBy(leases, Act(leases) \ ls, b)
             = HeldBy(leases, Act(leases), b) - HeldBy(leases, ls, b)
    BY <1>1, HeldParts
  <2>2. HeldBy(leases', Act(leases'), b) = HeldBy(leases, Act(leases'), b)
    BY <1>1, <1>2, HeldSame
  <2> QED
    BY <1>3, <2>1, <2>2
<1>6. \A b \in Buckets :
        /\ buckets'[b] = [tokens   |-> buckets[b].tokens,
                          refilled |-> buckets[b].refilled,
                          active   |-> buckets[b].active - HeldBy(leases, ls, b)]
        /\ buckets'[b].active = buckets[b].active - HeldBy(leases, ls, b)
        /\ buckets'[b].active \in Nat /\ buckets'[b].active <= buckets[b].active
  <2> TAKE b \in Buckets
  <2>1. buckets[b] = [tokens   |-> buckets[b].tokens,
                      refilled |-> buckets[b].refilled,
                      active   |-> buckets[b].active] /\ buckets[b].active \in Nat
    BY DEF SlotInv, BucketRows
  <2>2. PICK h \in Nat : h = HeldBy(leases, ls, b) /\ h <= buckets[b].active
    BY <1>4, <1>5
  <2>3. buckets'[b] = [tokens   |-> buckets[b].tokens,
                       refilled |-> buckets[b].refilled,
                       active   |-> buckets[b].active - h]
    BY <1>4, <2>1, <2>2
  <2> QED
    BY <2>1, <2>2, <2>3
<1>7. buckets' = [b \in Buckets |-> buckets'[b]]
  BY DEF FreeSlots
<1>8. BucketRows'
  BY <1>6, <1>7 DEF BucketRows
<1>9. Counted'
  <2> SUFFICES ASSUME NEW b \in Buckets
               PROVE  buckets'[b].active = HeldBy(leases', Act(leases'), b)
    BY DEF Counted, HeldBy, Act
  <2> QED
    <3>1. buckets[b].active = HeldBy(leases, Act(leases), b)
      BY DEF SlotInv, Counted
    <3>2. buckets'[b].active = buckets[b].active - HeldBy(leases, ls, b)
      BY <1>6
    <3> QED
      BY <1>5, <3>1, <3>2
<1>10. Capacity'
  <2> SUFFICES ASSUME NEW b \in Capped PROVE buckets'[b].active <= MaxConcurrency[b]
    BY DEF Capacity
  <2>1. b \in Buckets /\ MaxConcurrency[b] \in Nat /\ buckets[b].active <= MaxConcurrency[b]
    BY BucketAssumption DEF SlotInv, Capacity
  <2> QED
    <3>1. /\ buckets[b].active \in Nat /\ buckets'[b].active \in Nat
          /\ buckets'[b].active <= buckets[b].active
      BY <1>6, <2>1 DEF SlotInv, BucketRows
    <3> QED
      BY <2>1, <3>1
<1>11. HoldsItsOwn'
  BY <1>2 DEF SlotInv, HoldsItsOwn, SlotsOf
<1> QED
  BY <1>8, <1>9, <1>10, <1>11 DEF SlotInv

\* At the start no slot is taken.
LEMMA InitSlots == Init => SlotInv
<1> SUFFICES ASSUME Init PROVE SlotInv
  OBVIOUS
<1>1. Act(leases) = {}
  BY DEF Init, Act, Free
<1>2. Counted
  BY <1>1, SumEmpty DEF Init, Counted, HeldBy
<1>3. BucketRows /\ HoldsItsOwn
  BY DEF Init, BucketRows, HoldsItsOwn, Holds, Idle
<1>4. Capacity
  BY BucketAssumption DEF Init, Capacity
<1> QED
  BY <1>2, <1>3, <1>4 DEF SlotInv

\* No step loses a slot or gives one twice.
LEMMA StepSlots == LeaseInv /\ LeaseInv' /\ SlotInv /\ [Next]_vars => SlotInv'
<1> SUFFICES ASSUME LeaseInv, LeaseInv', SlotInv, [Next]_vars PROVE SlotInv'
  OBVIOUS
<1>1. ASSUME NEW w \in Workers,
             \/ Ask(w) \/ Defer(w) \/ Sleep(w) \/ TimeOut(w)
             \/ GiveUp(w) \/ ReleaseRaises(w) \/ NothingToRelease(w)
      PROVE  SlotInv'
  <2>1. buckets' = buckets /\ leases' = leases
    BY <1>1 DEF Ask, Defer, Sleep, TimeOut, GiveUp, ReleaseRaises, NothingToRelease
  <2>2. \A v \in Workers : workers'[v].at = "holding" => workers'[v] = workers[v]
    BY <1>1 DEF Ask, Defer, Sleep, TimeOut, GiveUp, ReleaseRaises, NothingToRelease,
                Idle, Calling, LeaseInv, Shapes
  <2> QED
    BY <2>1, <2>2, SlotsUntouched DEF Holds
<1>2. ASSUME NEW w \in Workers, Acquire(w) PROVE SlotInv'
  BY <1>2, GrantCounts DEF Acquire
<1>3. ASSUME NEW w \in Workers, AcquireCancelled(w) PROVE SlotInv'
  BY <1>3, GrantCounts DEF AcquireCancelled
<1>4. ASSUME NEW w \in Workers, Release(w) PROVE SlotInv'
  <2> DEFINE l == workers[w].lease
  <2>1. FreeSlots({l}, "RELEASED") /\ {l} \in SUBSET Act(leases)
    BY <1>4 DEF Release, LeaseInv, LeasesKnown, IsActive, Act
  <2>2. \A v \in Workers, m \in Leases : m # None /\ Holds(v, m)' => Holds(v, m)
    BY <1>4 DEF Release, LeaseInv, Shapes, Holds, Idle
  <2> HIDE DEF l
  <2> QED
    BY <2>1, <2>2, FreedCounts DEF States
<1>5. ASSUME NEW w \in Workers, Notify(w) PROVE SlotInv'
  BY <1>5, SlotsUntouched DEF Notify, Holds, Idle, Calling
<1>6. ASSUME NEW p \in Procs, Open(p) PROVE SlotInv'
  <2>1. PICK n : FreeSlots(Overdue(n), "EXPIRED")
    BY <1>6 DEF Open
  <2>2. Overdue(n) \in SUBSET Act(leases)
    BY DEF Overdue, IsActive, Act
  <2> QED
    BY <1>6, <2>1, <2>2, FreedCounts DEF Open, States, Holds
<1>7. ASSUME NEW p \in Procs, Crash(p) PROVE SlotInv'
  BY <1>7, SlotsUntouched DEF Crash, Holds, Idle
<1>8. CASE Tick
  BY <1>8, SlotsUntouched DEF Tick, Holds
<1>9. CASE UNCHANGED vars
  BY <1>9, SlotsUntouched DEF vars, Holds
<1> QED
  BY <1>1, <1>2, <1>3, <1>4, <1>5, <1>6, <1>7, <1>8, <1>9 DEF Next, Work

\* The inductive invariant: counters are sums over the ACTIVE leases and stay within their
\* caps, and a lease holds what its worker asked for.
THEOREM RateSlots == Spec => [](LeaseInv /\ SlotInv)
<1>1. Init => LeaseInv /\ SlotInv
  BY InitLease, InitSlots
<1>2. (LeaseInv /\ SlotInv) /\ [Next]_vars => (LeaseInv /\ SlotInv)'
  BY StepLease, StepSlots
<1> QED
  BY <1>1, <1>2, PTL DEF Spec

\* try_acquire, release and reap_expired keep each counter equal to what ACTIVE leases hold.
THEOREM ActiveLeased == Spec => []ActiveIsLeased
<1>1. SlotInv => ActiveIsLeased
  BY DEF SlotInv, Counted, HeldBy, Act, ActiveIsLeased, Held, IsActive
<1> QED
  BY <1>1, RateSlots, PTL

\* However the calls of all processes interleave, the workers whose leases have not run out
\* take no more of a bucket than its slots.
THEOREM HoldersBounded == Spec => []HoldersWithinSlots
<1>1. ASSUME LeaseInv, SlotInv, NEW b \in Capped
      PROVE  SumFunctionOnSet([w \in Workers |-> SlotsOf(w)[b]], {w \in Workers : Covered(w)})
               <= MaxConcurrency[b]
  <2> DEFINE S == {w \in Workers : Covered(w)}
             f == [w \in Workers |-> SlotsOf(w)[b]]
             h == [l \in Leases |-> leases[l].slots[b]]
             m == [w \in Workers |-> workers[w].lease]
  <2>0. b \in Buckets /\ leases \in LeaseRows
    BY <1>1, BucketAssumption DEF LeaseInv, Shapes, LeaseRows
  <2>1. S \in SUBSET Workers /\ IsFiniteSet(S) /\ IsFiniteSet(Act(leases))
    BY FiniteAssumption, FS_Subset DEF Act
  <2>2. \A w \in S : m[w] \in Act(leases) /\ m[w] # None /\ Holds(w, m[w])
    BY <1>1 DEF LeaseInv, Shapes, LeasesKnown, LeasesHeld, Covered, Holds, Act, IsActive
  <2>3. \A w \in S : f[w] \in Nat /\ h[m[w]] = f[w]
    <3> TAKE w \in S
    <3>1. w \in Workers /\ m[w] \in Leases
      BY <2>2 DEF Act
    <3>2. leases[m[w]].slots = SlotsOf(w)
      BY <1>1, <2>2, <3>1 DEF SlotInv, HoldsItsOwn
    <3> QED
      BY <2>0, <3>1, <3>2, SlotsNat
  <2>4. \A v, w \in S : m[v] = m[w] => v = w
    <3>1. \A v, w \in Workers, l \in Leases : l # None /\ Holds(v, l) /\ Holds(w, l) => v = w
      BY <1>1 DEF LeaseInv, LeasesHeld
    <3> QED
      BY <2>1, <2>2, <3>1 DEF Act
  <2>5. \A l \in Act(leases) : h[l] \in Nat
    BY <2>0 DEF LeaseRows, Act
  <2>6. HeldBy(leases, Act(leases), b) = SumFunctionOnSet(h, Act(leases))
    BY DEF HeldBy
  <2> HIDE DEF S, f, h, m
  <2> DEFINE Im == {m[w] : w \in S}
  <2>7. SumFunctionOnSet(h, Im) = SumFunctionOnSet(f, S)
    BY <2>1, <2>3, <2>4, SumRenamed
  <2>8. Im \in SUBSET Act(leases)
    BY <2>2
  <2> HIDE DEF Im
  <2>9. SumFunctionOnSet(h, Im) <= SumFunctionOnSet(h, Act(leases))
    BY <2>1, <2>5, <2>8, SumPart
  <2>10. SumFunctionOnSet(h, Act(leases)) <= MaxConcurrency[b]
    BY <1>1, <2>0, <2>6 DEF SlotInv, Counted, Capacity
  <2>11. SumFunctionOnSet(f, S) <= MaxConcurrency[b]
    <3>1. SumFunctionOnSet(f, S) \in Nat /\ SumFunctionOnSet(h, Act(leases)) \in Nat
      BY <2>1, <2>3, <2>5, SumNat
    <3>2. MaxConcurrency[b] \in Nat
      BY <2>0, BucketAssumption
    <3> QED
      BY <2>7, <2>9, <2>10, <3>1, <3>2
  <2> QED
    BY <2>11 DEF f, S
<1>2. LeaseInv /\ SlotInv => HoldersWithinSlots
  BY <1>1 DEF HoldersWithinSlots
<1> QED
  BY <1>2, RateSlots, PTL

----------------------------------------------------------------------------
(* The rate, of calls that may wait for the write lock between reading the *)
(* clock and committing.  A call that commits after a later reading sets   *)
(* the refill time back by no more than its wait.  So a bucket's tokens    *)
(* are what is left of an allowance: what it gave since any time s, and    *)
(* its tokens, are no more than the burst, the rate from s to its refill   *)
(* time, and a wait for every late call since s.  Only if the refill time  *)
(* went back beyond s, the bucket need not have given anything since.      *)

Given(gb, s, n) == SumFunctionOnSet(gb, s..n)

Histories == [Paced -> [1..MaxTime -> Nat]]

TokenRows ==
  /\ now \in 1..MaxTime
  /\ buckets = [b \in Buckets |-> buckets[b]]
  /\ \A b \in Buckets : /\ buckets[b] = [tokens   |-> buckets[b].tokens,
                                         refilled |-> buckets[b].refilled,
                                         active   |-> buckets[b].active]
                        /\ buckets[b].refilled \in 1..now
  /\ \A b \in Paced : buckets[b].tokens \in 0..Burst[b]
  /\ granted \in Histories /\ late \in Histories
  /\ \A b \in Paced : \A i \in 1..MaxTime : i > now => granted[b][i] = 0 /\ late[b][i] = 0
  /\ workers = [w \in Workers |-> workers[w]]
  /\ \A w \in Workers : workers[w] = [at    |-> workers[w].at,
                                      lease |-> workers[w].lease,
                                      time  |-> workers[w].time]
  /\ \A w \in Workers : workers[w].at = "asking" => workers[w].time \in 1..now

\* What a bucket gave and has left since s, refilled at time r, with so many late calls.
Within(rate, burst, given, calls, tokens, r, s) ==
  \/ given + tokens <= burst + rate * (r - s + MaxWait * calls)
  \/ given = 0 /\ r <= s

Allowance(b, gb, lb, tokens, r, n) ==
  \A s \in 1..n : Within(Rate[b], Burst[b], Given(gb, s, n), Given(lb, s, n), tokens, r, s)

TokenInv ==
  /\ TokenRows
  /\ \A b \in Paced :
       Allowance(b, granted[b], late[b], buckets[b].tokens, buckets[b].refilled, now)

\* A stretch of the history is finite, and its sum a natural number.
LEMMA GivenNat ==
  ASSUME NEW gb \in [1..MaxTime -> Nat], NEW n \in 1..MaxTime, NEW s \in 1..n
  PROVE  IsFiniteSet(s..n) /\ (\A i \in s..n : gb[i] \in Nat) /\ Given(gb, s, n) \in Nat
<1>1. n \in Int /\ s \in Int /\ s..n \in SUBSET (1..MaxTime)
  BY RateTimeAssumption
<1>2. IsFiniteSet(s..n)
  BY <1>1, FS_Interval
<1>3. \A i \in s..n : gb[i] \in Nat
  BY <1>1
<1> QED
  BY <1>2, <1>3, SumNat DEF Given

\* A grant of k at an instant m adds k to the stretches with m in them, and to no other.
LEMMA GivenGrows ==
  ASSUME NEW gb \in [1..MaxTime -> Nat], NEW n \in 1..MaxTime, NEW s \in 1..n, NEW m \in 1..n,
         NEW k \in Nat, NEW g2, g2 = [gb EXCEPT ![m] = @ + k]
  PROVE  /\ s <= m => Given(g2, s, n) = Given(gb, s, n) + k
         /\ ~(s <= m) => Given(g2, s, n) = Given(gb, s, n)
<1>0. m \in 1..MaxTime /\ s..n \in SUBSET (1..MaxTime)
  BY RateTimeAssumption
<1>1. g2 \in [1..MaxTime -> Nat] /\ g2[m] = gb[m] + k /\ gb[m] \in Nat
      /\ \A i \in 1..MaxTime : i # m => g2[i] = gb[i]
  BY <1>0
<1>2. IsFiniteSet(s..n) /\ \A i \in s..n : gb[i] \in Nat /\ g2[i] \in Nat /\ (i # m => g2[i] = gb[i])
  <2>1. IsFiniteSet(s..n)
    BY GivenNat
  <2>2. \A i \in 1..MaxTime : gb[i] \in Nat /\ g2[i] \in Nat
    BY <1>1
  <2> QED
    BY <1>0, <1>1, <2>1, <2>2
<1>3. CASE s <= m
  <2>1. PICK f, h, S, e : f = gb /\ h = g2 /\ S = s..n /\ e = m /\ e \in S
    BY <1>3
  <2>2. PICK j \in Nat : j = k
    OBVIOUS
  <2>3. /\ e \in S /\ IsFiniteSet(S) /\ (\A x \in S : f[x] \in Nat) /\ h[e] = f[e] + j
        /\ \A x \in S : x # e => h[x] = f[x]
    BY <1>1, <1>2, <2>1, <2>2
  <2>4. SumFunctionOnSet(h, S) = SumFunctionOnSet(f, S) + j
    BY <2>3, SumRaised
  <2>5. SumFunctionOnSet(g2, s..n) = SumFunctionOnSet(gb, s..n) + k
    BY <2>1, <2>2, <2>4
  <2>6. Given(g2, s, n) = Given(gb, s, n) + k
    BY <2>5 DEF Given
  <2> QED
    BY <1>3, <2>6
<1>4. CASE ~(s <= m)
  <2>1. \A i \in s..n : i # m
    BY <1>4
  <2>2. SumFunctionOnSet(g2, s..n) = SumFunctionOnSet(gb, s..n)
    BY <1>2, <2>1, SumSame
  <2>3. Given(gb, s, n) \in Nat
    BY GivenNat
  <2>4. Given(g2, s, n) = Given(gb, s, n)
    BY <2>2 DEF Given
  <2> QED
    BY <1>4, <2>3, <2>4
<1> QED
  BY <1>3, <1>4

\* An instant at which nothing was given changes no sum.
LEMMA GivenLater ==
  ASSUME NEW gb \in [1..MaxTime -> Nat], NEW n \in 1..MaxTime, n + 1 \in 1..MaxTime,
         gb[n + 1] = 0, NEW s \in 1..n
  PROVE  Given(gb, s, n + 1) = Given(gb, s, n)
<1>1. IsFiniteSet(s..n) /\ (\A i \in s..n : gb[i] \in Nat) /\ Given(gb, s, n) \in Nat
  BY GivenNat
<1>2. s..(n + 1) = (s..n) \cup {n + 1} /\ (n + 1) \notin s..n /\ gb[n + 1] \in Nat
  BY RateTimeAssumption
<1>3. SumFunctionOnSet(gb, (s..n) \cup {n + 1}) = SumFunctionOnSet(gb, s..n) + gb[n + 1]
  BY <1>1, <1>2, SumAdd
<1>4. Given(gb, s, n + 1) = Given(gb, s, n) + gb[n + 1]
  BY <1>2, <1>3 DEF Given
<1> HIDE DEF Given
<1> QED
  BY <1>1, <1>4

\* Nor does a stretch in which nothing was given.
LEMMA GivenNothing ==
  ASSUME NEW gb \in [1..MaxTime -> Nat], NEW n \in 1..MaxTime, NEW s \in 1..n,
         \A i \in s..n : gb[i] = 0
  PROVE  Given(gb, s, n) = 0
BY GivenNat, SumZero DEF Given

\* The tokens of a bucket at a time before or after its last refill.
LEMMA LevelBounds ==
  ASSUME NEW b \in Paced, NEW n \in Nat, buckets[b].refilled \in Nat,
         buckets[b].tokens \in 0..Burst[b]
  PROVE  /\ Level(b, n) \in 0..Burst[b]
         /\ n >= buckets[b].refilled =>
              Level(b, n) <= buckets[b].tokens + Rate[b] * (n - buckets[b].refilled)
         /\ n < buckets[b].refilled => Level(b, n) <= buckets[b].tokens
<1>1. b \in Buckets /\ Rate[b] \in Nat /\ Burst[b] \in Nat
  BY BucketAssumption
<1>2. PICK d \in Nat : d = IF n >= buckets[b].refilled THEN n - buckets[b].refilled ELSE 0
  OBVIOUS
<1>3. Max({n - buckets[b].refilled, 0}) = d
  <2>1. /\ d \in {n - buckets[b].refilled, 0}
        /\ \A z \in {n - buckets[b].refilled, 0} : d >= z
    BY <1>2
  <2>2. \A x \in {n - buckets[b].refilled, 0} :
          (\A z \in {n - buckets[b].refilled, 0} : x >= z) => x = d
    BY <1>2, <2>1
  <2>3. /\ Max({n - buckets[b].refilled, 0}) \in {n - buckets[b].refilled, 0}
        /\ \A z \in {n - buckets[b].refilled, 0} : Max({n - buckets[b].refilled, 0}) >= z
    BY <2>1 DEF Max
  <2> QED
    BY <2>2, <2>3
<1>4. PICK x \in Nat : x = buckets[b].tokens + Rate[b] * d
  <2>1. Rate[b] * d \in Nat
    BY <1>1
  <2> QED
    BY <2>1, <1>1
<1>5. Min({Burst[b], x}) \in Nat /\ Min({Burst[b], x}) <= Burst[b] /\ Min({Burst[b], x}) <= x
  <2>1. \E y \in {Burst[b], x} : \A z \in {Burst[b], x} : y <= z
    BY <1>1, <1>4
  <2>2. Min({Burst[b], x}) \in {Burst[b], x} /\ \A z \in {Burst[b], x} : Min({Burst[b], x}) <= z
    BY <2>1 DEF Min
  <2> QED
    BY <1>1, <1>4, <2>2
<1>6. Level(b, n) = Min({Burst[b], x})
  BY <1>3, <1>4 DEF Level
<1>7. PICK v \in 0..Burst[b] : v = Level(b, n) /\ v <= x
  BY <1>1, <1>5, <1>6
<1>8. n >= buckets[b].refilled => x = buckets[b].tokens + Rate[b] * (n - buckets[b].refilled)
  BY <1>2, <1>4
<1>9. n < buckets[b].refilled => x = buckets[b].tokens
  <2>1. Rate[b] * 0 = 0
    BY <1>1
  <2> QED
    BY <1>1, <1>2, <1>4, <2>1
<1> QED
  BY <1>7, <1>8, <1>9

----------------------------------------------------------------------------
(* Of a call that reads time m, for k tokens of the v that there are.      *)

\* On time, it refills; what it takes it took from what there was.
LEMMA TimelyCall ==
  ASSUME NEW rate \in Nat, NEW burst \in Nat, NEW given \in Nat, NEW calls \in Nat,
         NEW tok \in Nat, NEW r \in Nat, NEW s \in Nat,
         Within(rate, burst, given, calls, tok, r, s),
         NEW m \in Nat, NEW v \in Nat, NEW k \in Nat, k <= v, v <= burst,
         m >= r, v <= tok + rate * (m - r)
  PROVE  Within(rate, burst, given + (IF s <= m THEN k ELSE 0), calls, v - k, m, s)
<1>0. MaxWait \in Nat
  BY RateTimeAssumption
<1>1. PICK x \in Int, d \in Nat : x = r - s + MaxWait * calls /\ d = m - r
  BY <1>0
<1>2. m - s + MaxWait * calls = x + d
  BY <1>0, <1>1
<1>3. rate * (x + d) = rate * x + rate * d
  BY <1>1
<1>4. PICK rx \in Int, rd \in Nat : rx = rate * x /\ rd = rate * d
  BY <1>1
<1>5. CASE given + tok <= burst + rate * (r - s + MaxWait * calls)
  <2>1. given + tok <= burst + rx /\ v <= tok + rd
    BY <1>1, <1>4, <1>5
  <2>2. given + v <= burst + (rx + rd)
    BY <2>1
  <2>3. given + (IF s <= m THEN k ELSE 0) + (v - k) <= burst + (rx + rd)
    BY <2>2
  <2> QED
    BY <1>2, <1>3, <1>4, <2>3 DEF Within
<1>6. CASE given = 0 /\ r <= s
  <2>1. CASE s <= m
    <3>1. m - s + MaxWait * calls \in Nat
      <4>1. MaxWait * calls \in Nat
        BY <1>0
      <4> QED
        BY <2>1, <4>1
    <3>2. PICK y \in Nat : y = m - s + MaxWait * calls
      BY <3>1
    <3>3. PICK z \in Nat : z = rate * y
      OBVIOUS
    <3>4. given + k + (v - k) <= burst + z
      BY <1>6
    <3> QED
      BY <2>1, <3>2, <3>3, <3>4 DEF Within
  <2>2. CASE ~(s <= m)
    BY <1>6, <2>2 DEF Within
  <2> QED
    BY <2>1, <2>2
<1> QED
  BY <1>5, <1>6 DEF Within

\* Late, it refills nothing and sets the refill time back, by its wait at most.
LEMMA LateCall ==
  ASSUME NEW rate \in Nat, NEW burst \in Nat, NEW given \in Nat, NEW calls \in Nat,
         NEW tok \in Nat, NEW r \in Nat, NEW s \in Nat,
         Within(rate, burst, given, calls, tok, r, s),
         NEW m \in Nat, NEW v \in Nat, NEW k \in Nat, k <= v, v <= tok,
         m < r, r - m <= MaxWait
  PROVE  Within(rate, burst, given + (IF s <= m THEN k ELSE 0), calls + 1, v - k, m, s)
<1>0. MaxWait \in Nat
  BY RateTimeAssumption
<1>1. PICK x \in Int, d \in Nat : x = r - s + MaxWait * calls /\ d = MaxWait - (r - m)
  BY <1>0
<1>2. m - s + MaxWait * (calls + 1) = x + d
  <2>1. MaxWait * (calls + 1) = MaxWait * calls + MaxWait
    BY <1>0
  <2>2. PICK y \in Nat : y = MaxWait * calls
    BY <1>0
  <2> QED
    BY <1>0, <1>1, <2>1, <2>2
<1>3. rate * (x + d) = rate * x + rate * d
  BY <1>1
<1>4. PICK rx \in Int, rd \in Nat : rx = rate * x /\ rd = rate * d
  BY <1>1
<1>5. CASE given + tok <= burst + rate * (r - s + MaxWait * calls)
  <2>1. given + tok <= burst + rx
    BY <1>1, <1>4, <1>5
  <2>2. given + (IF s <= m THEN k ELSE 0) + (v - k) <= burst + (rx + rd)
    BY <2>1
  <2> QED
    BY <1>2, <1>3, <1>4, <2>2 DEF Within
<1>6. CASE given = 0 /\ r <= s
  BY <1>6 DEF Within
<1> QED
  BY <1>5, <1>6 DEF Within

\* Whatever was left, no more than the allowance until n can have been given by then.
LEMMA AllowanceBounds ==
  ASSUME NEW rate \in Nat, NEW burst \in Nat, NEW given \in Nat, NEW calls \in Nat,
         NEW tok \in Nat, NEW n \in Nat, NEW r \in 1..n, NEW s \in 1..n,
         Within(rate, burst, given, calls, tok, r, s)
  PROVE  given <= burst + rate * (n - s + MaxWait * calls)
<1>1. r \in Nat /\ s \in Nat /\ n >= r /\ s <= n /\ MaxWait \in Nat
  BY RateTimeAssumption
<1>2. PICK d \in Nat : d = n - r
  BY <1>1
<1>3. rate * d \in Nat
  OBVIOUS
<1>4. 0 <= tok + rate * (n - r)
  BY <1>2, <1>3
<1>5. PICK k \in Nat : k = 0
  OBVIOUS
<1>6. Within(rate, burst, given + (IF s <= n THEN k ELSE 0), calls, k - k, n, s)
  <2>1. k <= k /\ k <= burst /\ k <= tok + rate * (n - r)
    BY <1>4, <1>5
  <2> QED
    BY <1>1, <2>1, TimelyCall
<1>7. PICK x \in Nat : x = n - s + MaxWait * calls
  <2>1. MaxWait * calls \in Nat
    BY <1>1
  <2> QED
    BY <1>1, <2>1
<1>8. PICK z \in Nat : z = rate * (n - s + MaxWait * calls)
  <2>1. rate * x \in Nat
    OBVIOUS
  <2> QED
    BY <1>7, <2>1
<1>9. given + (IF s <= n THEN k ELSE 0) = given /\ k - k = 0
  BY <1>5
<1>10. given <= burst + rate * (n - s + MaxWait * calls) \/ given = 0
  <2>1. Within(rate, burst, given, calls, 0, n, s)
    BY <1>6, <1>9
  <2> QED
    BY <2>1, <1>8 DEF Within
<1> QED
  BY <1>8, <1>10

----------------------------------------------------------------------------
\* A step that gives no token keeps the allowance of every bucket.
LEMMA NothingGiven ==
  ASSUME TokenInv, now' = now, granted' = granted, late' = late,
         \A b \in Buckets : /\ buckets'[b] = [tokens   |-> buckets[b].tokens,
                                              refilled |-> buckets[b].refilled,
                                              active   |-> buckets'[b].active],
         buckets' = [b \in Buckets |-> buckets'[b]],
         workers' = [w \in Workers |-> workers'[w]],
         \A w \in Workers : workers'[w] = [at    |-> workers'[w].at,
                                           lease |-> workers'[w].lease,
                                           time  |-> workers'[w].time],
         \A w \in Workers : workers'[w].at = "asking" =>
           workers'[w].time = now \/ (workers[w].at = "asking" /\ workers'[w] = workers[w])
  PROVE  TokenInv'
<1>1. \A b \in Buckets : /\ buckets'[b].tokens = buckets[b].tokens
                         /\ buckets'[b].refilled = buckets[b].refilled
  OBVIOUS
<1>2. Paced \in SUBSET Buckets
  BY BucketAssumption
<1>3. now \in 1..now
  BY RateTimeAssumption DEF TokenInv, TokenRows
<1>4. TokenRows'
  BY <1>1, <1>2, <1>3 DEF TokenInv, TokenRows, Histories
<1>5. \A b \in Paced :
        Allowance(b, granted[b], late[b], buckets'[b].tokens, buckets'[b].refilled, now)
  BY <1>1, <1>2 DEF TokenInv
<1> QED
  BY <1>4, <1>5 DEF TokenInv, Allowance, Within

\* A call gives no more than its own reading of the clock and its wait allow, whenever it
\* commits.
LEMMA GrantGives ==
  ASSUME TokenInv, now' = now, NEW w \in Workers, NEW l, NEW m \in 1..now, Recent(m),
         Grant(w, l, m),
         workers' = [v \in Workers |-> workers'[v]],
         \A v \in Workers : workers'[v] = [at    |-> workers'[v].at,
                                           lease |-> workers'[v].lease,
                                           time  |-> workers'[v].time],
         \A v \in Workers : workers'[v].at = "asking" =>
           workers[v].at = "asking" /\ workers'[v] = workers[v]
  PROVE  TokenInv'
<1>1. /\ Paced \in SUBSET Buckets /\ Requests[w] \in Nat /\ MaxWait \in Nat
      /\ now \in 1..MaxTime /\ now \in Nat /\ now \in 1..now
      /\ m \in Nat /\ m \in 1..MaxTime /\ m <= now /\ now - m <= MaxWait
      /\ \A b \in Paced : Rate[b] \in Nat /\ Burst[b] \in Nat
  <2>1. now \in 1..MaxTime /\ MaxTime \in Nat /\ MaxWait \in Nat
    BY RateTimeAssumption DEF TokenInv, TokenRows
  <2> QED
    BY <2>1, BucketAssumption, WorkerAssumption DEF Recent
<1>2. /\ buckets' = [b \in Buckets |-> Charged(b, w, m)]
      /\ granted' = [b \in Paced |->
                       IF b \in BucketsOf[w] THEN [granted[b] EXCEPT ![m] = @ + Requests[w]]
                                             ELSE granted[b]]
      /\ late' = [b \in Paced |->
                    IF b \in BucketsOf[w] /\ m < buckets[b].refilled
                    THEN [late[b] EXCEPT ![now] = @ + 1] ELSE late[b]]
  BY DEF Grant
<1>3. ASSUME NEW b \in Paced
      PROVE  /\ buckets[b].refilled \in 1..now /\ buckets[b].tokens \in 0..Burst[b]
             /\ Level(b, m) \in 0..Burst[b]
             /\ m >= buckets[b].refilled =>
                  Level(b, m) <= buckets[b].tokens + Rate[b] * (m - buckets[b].refilled)
             /\ m < buckets[b].refilled => Level(b, m) <= buckets[b].tokens
             /\ b \in BucketsOf[w] => Requests[w] <= Level(b, m)
  <2>1. buckets[b].refilled \in 1..now /\ buckets[b].tokens \in 0..Burst[b]
    BY <1>1 DEF TokenInv, TokenRows
  <2>2. buckets[b].refilled \in Nat
    BY <1>1, <2>1
  <2>3. /\ Level(b, m) \in 0..Burst[b]
        /\ m >= buckets[b].refilled =>
             Level(b, m) <= buckets[b].tokens + Rate[b] * (m - buckets[b].refilled)
        /\ m < buckets[b].refilled => Level(b, m) <= buckets[b].tokens
    BY <1>1, <2>1, <2>2, LevelBounds
  <2>4. b \in BucketsOf[w] => ~(Level(b, m) < Requests[w])
    BY DEF Grant, Short
  <2>5. PICK v \in Nat : v = Level(b, m)
    BY <1>1, <2>3
  <2> QED
    BY <1>1, <2>1, <2>3, <2>4, <2>5
<1>4. ASSUME NEW b \in Paced
      PROVE  /\ granted'[b] \in [1..MaxTime -> Nat] /\ late'[b] \in [1..MaxTime -> Nat]
             /\ \A i \in 1..MaxTime : i > now => granted'[b][i] = 0 /\ late'[b][i] = 0
  <2>1. /\ granted[b] \in [1..MaxTime -> Nat] /\ late[b] \in [1..MaxTime -> Nat]
        /\ \A i \in 1..MaxTime : i > now => granted[b][i] = 0 /\ late[b][i] = 0
    BY DEF TokenInv, TokenRows, Histories
  <2>2. granted[b][m] + Requests[w] \in Nat /\ late[b][now] + 1 \in Nat
    <3>1. granted[b][m] \in Nat /\ late[b][now] \in Nat
      BY <1>1, <2>1
    <3> QED
      BY <1>1, <3>1
  <2>3. \A i \in 1..MaxTime : i > now => i # m /\ i # now
    BY <1>1
  <2>4. /\ [granted[b] EXCEPT ![m] = @ + Requests[w]] \in [1..MaxTime -> Nat]
        /\ \A i \in 1..MaxTime : i > now => [granted[b] EXCEPT ![m] = @ + Requests[w]][i] = 0
    BY <1>1, <2>1, <2>2, <2>3
  <2>5. /\ [late[b] EXCEPT ![now] = @ + 1] \in [1..MaxTime -> Nat]
        /\ \A i \in 1..MaxTime : i > now => [late[b] EXCEPT ![now] = @ + 1][i] = 0
    BY <1>1, <2>1, <2>2, <2>3
  <2> QED
    BY <1>2, <2>1, <2>4, <2>5
<1>5. \A b \in Buckets :
        IF b \in BucketsOf[w]
        THEN /\ buckets'[b] = [tokens   |-> buckets'[b].tokens, refilled |-> m,
                               active   |-> buckets'[b].active]
             /\ b \in Paced => buckets'[b].tokens = Level(b, m) - Requests[w]
        ELSE buckets'[b] = buckets[b]
  BY <1>2 DEF Charged
<1>6. TokenRows'
  <2>1. \A b \in Buckets :
          /\ buckets'[b] = [tokens   |-> buckets'[b].tokens,
                            refilled |-> buckets'[b].refilled,
                            active   |-> buckets'[b].active]
          /\ buckets'[b].refilled \in 1..now
    <3> TAKE b \in Buckets
    <3>1. CASE b \in BucketsOf[w]
      <4>1. PICK x, y : buckets'[b] = [tokens |-> x, refilled |-> m, active |-> y]
        BY <1>5, <3>1
      <4> QED
        BY <1>1, <4>1
    <3>2. CASE b \notin BucketsOf[w]
      BY <1>5, <3>2 DEF TokenInv, TokenRows
    <3> QED
      BY <3>1, <3>2
  <2>2. ASSUME NEW b \in Paced PROVE buckets'[b].tokens \in 0..Burst[b]
    <3>1. CASE b \in BucketsOf[w]
      <4>1. buckets'[b].tokens = Level(b, m) - Requests[w]
        BY <1>1, <1>5, <3>1
      <4>2. PICK v \in 0..Burst[b] : v = Level(b, m) /\ Requests[w] <= v
        BY <1>3, <3>1
      <4> QED
        BY <1>1, <4>1, <4>2
    <3>2. CASE b \notin BucketsOf[w]
      BY <1>1, <1>5, <3>2 DEF TokenInv, TokenRows
    <3> QED
      BY <3>1, <3>2
  <2>3. granted' \in Histories /\ late' \in Histories
    BY <1>2, <1>4 DEF Histories
  <2>4. buckets' = [b \in Buckets |-> buckets'[b]]
    BY <1>2
  <2>5. \A v \in Workers : workers'[v].at = "asking" => workers'[v].time \in 1..now
    BY DEF TokenInv, TokenRows
  <2> QED
    BY <1>1, <1>4, <2>1, <2>2, <2>3, <2>4, <2>5 DEF TokenRows
<1>7. ASSUME NEW b \in Paced
      PROVE  Allowance(b, granted'[b], late'[b], buckets'[b].tokens, buckets'[b].refilled, now)
  <2>1. /\ b \in Buckets /\ granted[b] \in [1..MaxTime -> Nat] /\ late[b] \in [1..MaxTime -> Nat]
        /\ Rate[b] \in Nat /\ Burst[b] \in Nat
        /\ Allowance(b, granted[b], late[b], buckets[b].tokens, buckets[b].refilled, now)
    BY <1>1 DEF TokenInv, TokenRows, Histories
  <2>2. CASE b \notin BucketsOf[w]
    <3>1. buckets'[b] = buckets[b] /\ granted'[b] = granted[b] /\ late'[b] = late[b]
      BY <1>2, <1>5, <2>1, <2>2
    <3> QED
      BY <2>1, <3>1
  <2>3. CASE b \in BucketsOf[w]
    <3> SUFFICES ASSUME NEW s \in 1..now
                 PROVE  Within(Rate[b], Burst[b], Given(granted'[b], s, now),
                               Given(late'[b], s, now), buckets'[b].tokens,
                               buckets'[b].refilled, s)
      BY DEF Allowance
    <3>1. /\ granted'[b] = [granted[b] EXCEPT ![m] = @ + Requests[w]]
          /\ buckets'[b].refilled = m /\ buckets'[b].tokens = Level(b, m) - Requests[w]
      <4>1. PICK x, y : buckets'[b] = [tokens |-> x, refilled |-> m, active |-> y]
        BY <1>5, <2>1, <2>3
      <4> QED
        BY <1>2, <1>5, <2>1, <2>3, <4>1
    <3>2. PICK r \in Nat, tok \in Nat, v \in Nat, k \in Nat :
            /\ r = buckets[b].refilled /\ tok = buckets[b].tokens /\ v = Level(b, m)
            /\ k = Requests[w] /\ k <= v /\ v <= Burst[b] /\ r <= now
            /\ m >= r => v <= tok + Rate[b] * (m - r)
            /\ m < r => v <= tok
      BY <1>1, <1>3, <2>1, <2>3
    <3>3. PICK a \in Nat, c \in Nat : a = Given(granted[b], s, now) /\ c = Given(late[b], s, now)
      BY <1>1, <2>1, GivenNat
    <3>4. Within(Rate[b], Burst[b], a, c, tok, r, s) /\ s \in Nat
      BY <1>1, <2>1, <3>2, <3>3 DEF Allowance
    <3>5. Given(granted'[b], s, now) = a + IF s <= m THEN k ELSE 0
      <4>1. PICK gb \in [1..MaxTime -> Nat] : gb = granted[b]
        BY <2>1
      <4>2. PICK g2 : g2 = granted'[b]
        OBVIOUS
      <4>3. g2 = [gb EXCEPT ![m] = @ + k]
        BY <3>1, <3>2, <4>1, <4>2
      <4>4. m \in 1..now /\ now \in 1..MaxTime
        BY <1>1
      <4>5. /\ s <= m => Given(g2, s, now) = Given(gb, s, now) + k
            /\ ~(s <= m) => Given(g2, s, now) = Given(gb, s, now)
        BY <3>2, <4>1, <4>2, <4>3, <4>4, GivenGrows, SMTT(30)
      <4> QED
        BY <3>3, <4>1, <4>2, <4>5
    <3>6. CASE m >= r
      <4>1. late'[b] = late[b]
        BY <1>1, <1>2, <3>2, <3>6
      <4>2. Within(Rate[b], Burst[b], a + (IF s <= m THEN k ELSE 0), c, v - k, m, s)
        BY <1>1, <2>1, <3>2, <3>4, <3>6, TimelyCall
      <4> QED
        BY <3>1, <3>2, <3>3, <3>5, <4>1, <4>2
    <3>7. CASE m < r
      <4>1. late'[b] = [late[b] EXCEPT ![now] = @ + 1]
        BY <1>2, <2>3, <3>2, <3>7
      <4>2. Given(late'[b], s, now) = c + 1
        <5>1. PICK lb \in [1..MaxTime -> Nat] : lb = late[b]
          BY <2>1
        <5>2. PICK l2 : l2 = late'[b]
          OBVIOUS
        <5>3. now \in 1..now /\ now \in 1..MaxTime /\ s <= now
          BY <1>1
        <5>4. ASSUME NEW one \in Nat, l2 = [lb EXCEPT ![now] = @ + one]
              PROVE  Given(l2, s, now) = Given(lb, s, now) + one
          BY <5>1, <5>3, <5>4, GivenGrows
        <5> QED
          BY <3>3, <4>1, <5>1, <5>2, <5>4
      <4>3. r - m <= MaxWait
        BY <1>1, <3>2
      <4>4. Within(Rate[b], Burst[b], a + (IF s <= m THEN k ELSE 0), c + 1, v - k, m, s)
        BY <1>1, <2>1, <3>2, <3>4, <3>7, <4>3, LateCall
      <4> QED
        BY <3>1, <3>2, <3>5, <4>2, <4>4
    <3> QED
      BY <1>1, <3>2, <3>6, <3>7
  <2> QED
    BY <2>2, <2>3
<1> QED
  BY <1>6, <1>7 DEF TokenInv, Allowance, Within

\* Time alone gives nothing.
LEMMA TimeGives ==
  ASSUME TokenInv, Tick
  PROVE  TokenInv'
<1>1. /\ now \in 1..MaxTime /\ now + 1 \in 1..MaxTime /\ now' = now + 1 /\ now \in Nat
      /\ Paced \in SUBSET Buckets /\ UNCHANGED <<buckets, workers, granted, late>>
  BY BucketAssumption, RateTimeAssumption DEF TokenInv, TokenRows, Tick, history
<1>2. 1..now \in SUBSET (1..(now + 1)) /\ \A i \in 1..MaxTime : i > now + 1 => i > now
  BY <1>1
<1>3. TokenRows'
  BY <1>1, <1>2 DEF TokenInv, TokenRows, Histories
<1>4. ASSUME NEW b \in Paced, NEW s \in 1..(now + 1)
      PROVE  Within(Rate[b], Burst[b], Given(granted[b], s, now + 1), Given(late[b], s, now + 1),
                    buckets[b].tokens, buckets[b].refilled, s)
  <2>1. /\ b \in Buckets /\ granted[b] \in [1..MaxTime -> Nat] /\ late[b] \in [1..MaxTime -> Nat]
        /\ Allowance(b, granted[b], late[b], buckets[b].tokens, buckets[b].refilled, now)
        /\ granted[b][now + 1] = 0 /\ late[b][now + 1] = 0
        /\ buckets[b].refilled \in 1..now
    <3>1. TokenRows /\ now + 1 > now
      BY <1>1 DEF TokenInv
    <3>2. granted[b][now + 1] = 0 /\ late[b][now + 1] = 0
      BY <1>1, <3>1 DEF TokenRows
    <3>3. b \in Buckets /\ granted[b] \in [1..MaxTime -> Nat] /\ late[b] \in [1..MaxTime -> Nat]
      BY <1>1, <3>1 DEF TokenRows, Histories
    <3>4. buckets[b].refilled \in 1..now
      BY <3>1, <3>3 DEF TokenRows
    <3> QED
      BY <3>2, <3>3, <3>4 DEF TokenInv
  <2>2. CASE s \in 1..now
    <3>1. /\ Given(granted[b], s, now + 1) = Given(granted[b], s, now)
          /\ Given(late[b], s, now + 1) = Given(late[b], s, now)
      BY <1>1, <2>1, <2>2, GivenLater
    <3> QED
      BY <2>1, <2>2, <3>1 DEF Allowance
  <2>3. CASE s \notin 1..now
    <3>1. s = now + 1 /\ \A i \in s..(now + 1) : granted[b][i] = 0
      BY <1>1, <2>1, <2>3
    <3>2. Given(granted[b], s, now + 1) = 0
      BY <1>1, <2>1, <3>1, GivenNothing
    <3> QED
      BY <1>1, <2>1, <3>1, <3>2 DEF Within
  <2> QED
    BY <2>2, <2>3
<1> QED
  BY <1>1, <1>3, <1>4 DEF TokenInv, Allowance, Within

\* At the start every bucket is full and has given nothing.
LEMMA InitTokens == Init => TokenInv
<1> SUFFICES ASSUME Init PROVE TokenInv
  OBVIOUS
<1>1. /\ Paced \in SUBSET Buckets /\ now = 1 /\ 1 \in 1..MaxTime /\ MaxWait \in Nat
      /\ \A b \in Paced : Rate[b] \in Nat /\ Burst[b] \in Nat
  BY BucketAssumption, RateTimeAssumption DEF Init
<1>2. TokenRows
  BY <1>1 DEF Init, TokenRows, Histories, NoCalls, Idle
<1>3. ASSUME NEW b \in Paced, NEW s \in 1..1
      PROVE  Within(Rate[b], Burst[b], Given(granted[b], s, 1), Given(late[b], s, 1),
                    buckets[b].tokens, buckets[b].refilled, s)
  <2>1. /\ b \in Buckets /\ granted[b] \in [1..MaxTime -> Nat]
        /\ \A i \in 1..MaxTime : granted[b][i] = 0
        /\ buckets[b].refilled = 1
    BY <1>1 DEF Init, NoCalls
  <2>2. s = 1 /\ s..1 \in SUBSET (1..MaxTime)
    BY <1>1
  <2>3. Given(granted[b], s, 1) = 0
    BY <1>1, <2>1, <2>2, GivenNothing
  <2> QED
    BY <2>1, <2>2, <2>3 DEF Within
<1> QED
  BY <1>1, <1>2, <1>3 DEF TokenInv, Allowance

\* Giving slots back gives no token.
LEMMA FreedTokens ==
  ASSUME TokenInv, NEW ls, NEW state, FreeSlots(ls, state)
  PROVE  /\ buckets' = [b \in Buckets |-> buckets'[b]]
         /\ \A b \in Buckets : buckets'[b] = [tokens   |-> buckets[b].tokens,
                                              refilled |-> buckets[b].refilled,
                                              active   |-> buckets'[b].active]
<1>1. \A b \in Buckets : buckets'[b] = [buckets[b] EXCEPT !.active = @ - Held(ls, b)]
  BY DEF FreeSlots
<1>2. \A b \in Buckets :
        buckets'[b] = [tokens   |-> buckets[b].tokens,
                       refilled |-> buckets[b].refilled,
                       active   |-> buckets[b].active - Held(ls, b)]
  BY <1>1 DEF TokenInv, TokenRows
<1> QED
  BY <1>2 DEF FreeSlots

\* What a step of one worker does to the shape of them all.
LEMMA OneWorkerMoves ==
  ASSUME TokenInv, NEW w \in Workers, NEW a, NEW l, NEW t, a = "asking" => t = now,
         workers' = [workers EXCEPT ![w] = [at |-> a, lease |-> l, time |-> t]]
  PROVE  /\ workers' = [v \in Workers |-> workers'[v]]
         /\ \A v \in Workers : workers'[v] = [at    |-> workers'[v].at,
                                              lease |-> workers'[v].lease,
                                              time  |-> workers'[v].time]
         /\ \A v \in Workers : workers'[v].at = "asking" =>
              workers'[v].time = now \/ (workers[v].at = "asking" /\ workers'[v] = workers[v])
BY DEF TokenInv, TokenRows

\* Such a step gives no token if it leaves the buckets alone.
LEMMA OneWorkerGivesNothing ==
  ASSUME TokenInv, now' = now, granted' = granted, late' = late, buckets' = buckets,
         NEW w \in Workers, NEW a, NEW l, NEW t, a = "asking" => t = now,
         workers' = [workers EXCEPT ![w] = [at |-> a, lease |-> l, time |-> t]]
  PROVE  TokenInv'
<1>1. /\ buckets' = [b \in Buckets |-> buckets'[b]]
      /\ \A b \in Buckets : buckets'[b] = [tokens   |-> buckets[b].tokens,
                                           refilled |-> buckets[b].refilled,
                                           active   |-> buckets'[b].active]
  BY DEF TokenInv, TokenRows
<1>2. /\ workers' = [v \in Workers |-> workers'[v]]
      /\ \A v \in Workers : workers'[v] = [at    |-> workers'[v].at,
                                           lease |-> workers'[v].lease,
                                           time  |-> workers'[v].time]
      /\ \A v \in Workers : workers'[v].at = "asking" =>
           workers'[v].time = now \/ (workers[v].at = "asking" /\ workers'[v] = workers[v])
  BY OneWorkerMoves
<1> QED
  BY <1>1, <1>2, NothingGiven

\* No step gives more than the allowance.
LEMMA StepTokens == TokenInv /\ [Next]_vars => TokenInv'
<1> SUFFICES ASSUME TokenInv, [Next]_vars PROVE TokenInv'
  OBVIOUS
<1>n. now \in Nat /\ now \in 1..now
  BY RateTimeAssumption DEF TokenInv, TokenRows
<1>r. /\ buckets = [b \in Buckets |-> buckets[b]]
      /\ \A b \in Buckets : buckets[b] = [tokens   |-> buckets[b].tokens,
                                          refilled |-> buckets[b].refilled,
                                          active   |-> buckets[b].active]
  BY DEF TokenInv, TokenRows
<1>w. /\ workers = [w \in Workers |-> workers[w]]
      /\ \A w \in Workers : workers[w] = [at    |-> workers[w].at,
                                          lease |-> workers[w].lease,
                                          time  |-> workers[w].time]
  BY DEF TokenInv, TokenRows
<1>2. ASSUME NEW w \in Workers, Ask(w) \/ TimeOut(w) PROVE TokenInv'
  <2>1. workers' = [workers EXCEPT ![w] = [at |-> "asking", lease |-> None, time |-> now]]
    BY <1>2 DEF Ask, TimeOut, Calling
  <2>2. now' = now /\ granted' = granted /\ late' = late /\ buckets' = buckets
    BY <1>2 DEF Ask, TimeOut, history
  <2> QED
    BY <2>1, <2>2, OneWorkerGivesNothing
<1>3. ASSUME NEW w \in Workers, Acquire(w) \/ AcquireCancelled(w) PROVE TokenInv'
  <2>1. PICK l : Grant(w, l, workers[w].time)
    BY <1>3 DEF Acquire, AcquireCancelled
  <2>2. workers[w].time \in 1..now /\ Recent(workers[w].time)
    BY <1>3 DEF Acquire, AcquireCancelled, TokenInv, TokenRows
  <2>3. PICK a, k : a # "asking"
                /\ workers' = [workers EXCEPT ![w] = [at |-> a, lease |-> k, time |-> 0]]
    BY <1>3 DEF Acquire, AcquireCancelled, Idle
  <2>4. now' = now
    BY <1>3 DEF Acquire, AcquireCancelled
  <2>5. /\ workers' = [v \in Workers |-> workers'[v]]
        /\ \A v \in Workers : workers'[v] = [at    |-> workers'[v].at,
                                             lease |-> workers'[v].lease,
                                             time  |-> workers'[v].time]
    BY <2>3, OneWorkerMoves
  <2>6. \A v \in Workers : workers'[v].at = "asking" =>
          workers[v].at = "asking" /\ workers'[v] = workers[v]
    BY <1>w, <2>3
  <2> QED
    BY <2>1, <2>2, <2>4, <2>5, <2>6, GrantGives
<1>4. ASSUME NEW w \in Workers,
             Defer(w) \/ GiveUp(w) \/ ReleaseRaises(w) \/ NothingToRelease(w)
      PROVE  TokenInv'
  <2>1. PICK a, l, t : a # "asking"
          /\ workers' = [workers EXCEPT ![w] = [at |-> a, lease |-> l, time |-> t]]
    BY <1>4 DEF Defer, GiveUp, ReleaseRaises, NothingToRelease, Idle
  <2>2. now' = now /\ granted' = granted /\ late' = late /\ buckets' = buckets
    BY <1>4 DEF Defer, GiveUp, ReleaseRaises, NothingToRelease, history
  <2> QED
    BY <2>1, <2>2, OneWorkerGivesNothing
<1>5. ASSUME NEW w \in Workers, Sleep(w) PROVE TokenInv'
  <2>1. workers' = [workers EXCEPT ![w] = [at    |-> "sleeping", lease |-> workers[w].lease,
                                           time  |-> workers[w].time]]
    <3>1. workers' = [workers EXCEPT ![w] = [workers[w] EXCEPT !.at = "sleeping"]]
      BY <1>5 DEF Sleep
    <3>2. [workers[w] EXCEPT !.at = "sleeping"]
            = [at |-> "sleeping", lease |-> workers[w].lease, time |-> workers[w].time]
      BY <1>w
    <3> QED
      BY <3>1, <3>2
  <2>2. now' = now /\ granted' = granted /\ late' = late /\ buckets' = buckets
    BY <1>5 DEF Sleep, history
  <2> QED
    BY <2>1, <2>2, OneWorkerGivesNothing
<1>6. ASSUME NEW w \in Workers, Release(w) PROVE TokenInv'
  <2>1. FreeSlots({workers[w].lease}, "RELEASED") /\ now' = now /\ granted' = granted /\ late' = late
    BY <1>6 DEF Release, history
  <2>2. workers' = [workers EXCEPT ![w] = [at |-> "notifying", lease |-> None, time |-> 0]]
    <3>1. [Idle EXCEPT !.at = "notifying"] = [at |-> "notifying", lease |-> None, time |-> 0]
      BY DEF Idle
    <3> QED
      BY <1>6, <3>1 DEF Release
  <2> QED
    <3>1. /\ workers' = [v \in Workers |-> workers'[v]]
          /\ \A v \in Workers : workers'[v] = [at    |-> workers'[v].at,
                                               lease |-> workers'[v].lease,
                                               time  |-> workers'[v].time]
          /\ \A v \in Workers : workers'[v].at = "asking" =>
               workers'[v].time = now \/ (workers[v].at = "asking" /\ workers'[v] = workers[v])
      BY <2>2, OneWorkerMoves
    <3>2. /\ buckets' = [b \in Buckets |-> buckets'[b]]
          /\ \A b \in Buckets : buckets'[b] = [tokens   |-> buckets[b].tokens,
                                               refilled |-> buckets[b].refilled,
                                               active   |-> buckets'[b].active]
      BY <2>1, FreedTokens
    <3> QED
      BY <2>1, <3>1, <3>2, NothingGiven
<1>7. ASSUME NEW w \in Workers, Notify(w) PROVE TokenInv'
  <2>1. now' = now /\ granted' = granted /\ late' = late /\ buckets' = buckets
    BY <1>7 DEF Notify, history
  <2>2. workers' = [v \in Workers |->
                      IF v = w THEN [at |-> "idle", lease |-> None, time |-> 0]
                      ELSE IF ProcOf[v] = ProcOf[w] /\ workers[v].at = "sleeping"
                           THEN [at |-> "asking", lease |-> None, time |-> now]
                           ELSE workers[v]]
    BY <1>7 DEF Notify, Calling, Idle
  <2> QED
    BY <1>r, <1>w, <2>1, <2>2, NothingGiven
<1>8. ASSUME NEW p \in Procs, Open(p) PROVE TokenInv'
  <2>1. PICK n : FreeSlots(Overdue(n), "EXPIRED")
    BY <1>8 DEF Open
  <2>2. now' = now /\ granted' = granted /\ late' = late /\ workers' = workers
    BY <1>8 DEF Open, history
  <2> QED
    BY <1>w, <2>1, <2>2, FreedTokens, NothingGiven
<1>9. ASSUME NEW p \in Procs, Crash(p) PROVE TokenInv'
  <2>1. now' = now /\ granted' = granted /\ late' = late /\ buckets' = buckets
    BY <1>9 DEF Crash, history
  <2>2. workers' = [w \in Workers |->
                      IF ProcOf[w] = p THEN [at |-> "idle", lease |-> None, time |-> 0]
                                       ELSE workers[w]]
    BY <1>9 DEF Crash, Idle
  <2> QED
    BY <1>r, <1>w, <2>1, <2>2, NothingGiven
<1>10. CASE Tick
  BY <1>10, TimeGives
<1>11. CASE UNCHANGED vars
  BY <1>11, <1>r, <1>w, NothingGiven DEF vars, history
<1> QED
  BY <1>2, <1>3, <1>4, <1>5, <1>6, <1>7, <1>8, <1>9, <1>10, <1>11 DEF Next, Work

\* Whatever the wait for the write lock (at most MaxWait), a bucket gives in every stretch of
\* time at most its burst, what the rate adds, and for every call that committed after a
\* later reading what the rate adds in one such wait: of any workers and processes.
THEOREM RateKept == Spec => []RateWithinLateCalls
<1>1. Init => TokenInv
  BY InitTokens
<1>2. TokenInv /\ [Next]_vars => TokenInv'
  BY StepTokens
<1>3. TokenInv => RateWithinLateCalls
  <2> SUFFICES ASSUME TokenInv, NEW b \in Paced, NEW s \in 1..now
               PROVE  Given(granted[b], s, now)
                        <= Burst[b] + Rate[b] * (now - s + MaxWait * Given(late[b], s, now))
    BY DEF RateWithinLateCalls, Since, Given
  <2>1. /\ granted[b] \in [1..MaxTime -> Nat] /\ late[b] \in [1..MaxTime -> Nat]
        /\ now \in 1..MaxTime /\ now \in Nat /\ MaxWait \in Nat
        /\ Rate[b] \in Nat /\ Burst[b] \in Nat
        /\ Allowance(b, granted[b], late[b], buckets[b].tokens, buckets[b].refilled, now)
    <3>1. b \in Buckets /\ Rate[b] \in Nat /\ Burst[b] \in Nat /\ MaxWait \in Nat
      BY BucketAssumption, RateTimeAssumption
    <3>2. TokenRows /\ Allowance(b, granted[b], late[b], buckets[b].tokens, buckets[b].refilled, now)
      BY DEF TokenInv
    <3>3. now \in 1..MaxTime /\ now \in Nat
      BY <3>2, RateTimeAssumption DEF TokenRows
    <3> QED
      BY <3>1, <3>2, <3>3 DEF TokenRows, Histories
  <2>2. PICK r \in 1..now, tok \in Nat :
          r = buckets[b].refilled /\ tok = buckets[b].tokens
    <3>1. b \in Buckets
      BY BucketAssumption
    <3>2. buckets[b].refilled \in 1..now /\ buckets[b].tokens \in 0..Burst[b]
      BY <3>1 DEF TokenInv, TokenRows
    <3> QED
      BY <2>1, <3>2
  <2>3. PICK a \in Nat, c \in Nat : a = Given(granted[b], s, now) /\ c = Given(late[b], s, now)
    BY <2>1, GivenNat
  <2>4. Within(Rate[b], Burst[b], a, c, tok, r, s)
    BY <2>1, <2>2, <2>3 DEF Allowance
  <2>5. a <= Burst[b] + Rate[b] * (now - s + MaxWait * c)
    BY <2>1, <2>2, <2>4, AllowanceBounds
  <2> QED
    BY <2>3, <2>5
<1> QED
  BY <1>1, <1>2, <1>3, PTL DEF Spec
=============================================================================
