-------------------------- MODULE DispatcherProofs --------------------------
(***************************************************************************)
(* That a run keeps its step limit and deserves its final status, for any  *)
(* tasks, workers, rankings and limits.                                    *)
(*                                                                         *)
(* The limit holds because a batch is never longer than was asked for,     *)
(* which is a fact about counting predecessors in an order: the first part *)
(* of the module.  The status holds because nothing executes any more when *)
(* it is decided, and nobody but an execution or a new run adds work.      *)
(*                                                                         *)
(* Last, slots and workers: a batch fits the free slots and what is left   *)
(* of its workers' limits when it is ranked, and until it is dispatched    *)
(* nothing but the loop takes a slot.  That a ranking gives workers their  *)
(* turns, and leaves nothing out for no reason, is again counting.         *)
(***************************************************************************)
EXTENDS DispatcherProps, FiniteSetTheorems, FunctionTheorems, TLAPS

\* pred[t] is what comes before t in a strict total order of S.
Orders(pred, S) ==
  /\ \A t \in S : pred[t] \subseteq S \ {t}
  /\ \A t, u \in S : t \in pred[u] => pred[t] \subseteq pred[u]
  /\ \A t, u \in S : t # u => t \in pred[u] \/ u \in pred[t]

\* A member of a finite order is known by the number of its predecessors.
LEMMA PlacesDiffer ==
  ASSUME NEW S, IsFiniteSet(S), NEW pred, Orders(pred, S),
         NEW t \in S, NEW u \in S, t # u
  PROVE  /\ Cardinality(pred[t]) \in Nat /\ Cardinality(pred[t]) < Cardinality(S)
         /\ Cardinality(pred[t]) # Cardinality(pred[u])
<1>1. \A v \in S : /\ IsFiniteSet(pred[v]) /\ Cardinality(pred[v]) \in Nat
                   /\ Cardinality(pred[v]) < Cardinality(S)
  <2> SUFFICES ASSUME NEW v \in S
               PROVE  /\ IsFiniteSet(pred[v]) /\ Cardinality(pred[v]) \in Nat
                      /\ Cardinality(pred[v]) < Cardinality(S)
    OBVIOUS
  <2>1. pred[v] \in SUBSET S /\ v \notin pred[v]
    BY DEF Orders
  <2>2. IsFiniteSet(pred[v]) /\ Cardinality(pred[v]) <= Cardinality(S)
        /\ (Cardinality(S) = Cardinality(pred[v]) => S = pred[v])
    BY <2>1, FS_Subset
  <2>3. Cardinality(pred[v]) \in Nat /\ Cardinality(S) \in Nat
    BY <2>2, FS_CardinalityType
  <2> QED
    BY <2>1, <2>2, <2>3
<1>2. \A v, w \in S : v \in pred[w] => Cardinality(pred[v]) # Cardinality(pred[w])
  <2> SUFFICES ASSUME NEW v \in S, NEW w \in S, v \in pred[w],
                      Cardinality(pred[v]) = Cardinality(pred[w])
               PROVE  FALSE
    OBVIOUS
  <2>1. pred[v] \in SUBSET pred[w] /\ v \notin pred[v]
    BY DEF Orders
  <2>2. pred[v] = pred[w]
    BY <1>1, <2>1, FS_Subset
  <2> QED
    BY <2>1, <2>2
<1> QED
  BY <1>1, <1>2 DEF Orders

\* The first n of a finite order are at most n.
LEMMA FirstAreFew ==
  ASSUME NEW S, IsFiniteSet(S), NEW pred, Orders(pred, S), NEW n \in Nat
  PROVE  LET first == {t \in S : Cardinality(pred[t]) < n}
         IN  IsFiniteSet(first) /\ Cardinality(first) \in Nat /\ Cardinality(first) <= n
<1> DEFINE first == {t \in S : Cardinality(pred[t]) < n}
           place == [t \in first |-> Cardinality(pred[t])]
<1>1. \A t \in first : place[t] \in 0..(n - 1)
  <2> SUFFICES ASSUME NEW t \in first
               PROVE  Cardinality(pred[t]) \in 0..(n - 1)
    OBVIOUS
  <2>1. pred[t] \in SUBSET S
    BY DEF Orders
  <2>2. Cardinality(pred[t]) \in Nat
    BY <2>1, FS_Subset, FS_CardinalityType
  <2> QED
    BY <2>2
<1>2. \A t, u \in first : place[t] = place[u] => t = u
  BY PlacesDiffer
<1>3. place \in [first -> 0..(n - 1)]
  BY <1>1
<1> HIDE DEF place
<1>4. place \in Injection(first, 0..(n - 1))
  BY <1>2, <1>3, Fun_IsInj
<1>5. IsFiniteSet(0..(n - 1)) /\ Cardinality(0..(n - 1)) = n
  BY FS_Interval
<1>6. IsFiniteSet(first) /\ Cardinality(first) <= Cardinality(0..(n - 1))
  BY <1>4, <1>5, FS_Injection
<1> QED
  BY <1>5, <1>6, FS_CardinalityType

\* A finite order has a member with any number of predecessors that is below its size.
LEMMA EveryPlaceIsTaken ==
  ASSUME NEW S, IsFiniteSet(S), NEW pred, Orders(pred, S),
         NEW i \in 0..(Cardinality(S) - 1)
  PROVE  \E t \in S : Cardinality(pred[t]) = i
<1> DEFINE place == [t \in S |-> Cardinality(pred[t])]
           N == Cardinality(S)
<1>1. N \in Nat
  BY FS_CardinalityType
<1>2. \A t \in S : place[t] \in 0..(N - 1)
  <2> SUFFICES ASSUME NEW t \in S
               PROVE  Cardinality(pred[t]) \in 0..(N - 1)
    OBVIOUS
  <2>1. pred[t] \in SUBSET S /\ pred[t] # S
    BY DEF Orders
  <2>2. IsFiniteSet(pred[t]) /\ Cardinality(pred[t]) <= N /\ Cardinality(pred[t]) # N
    BY <2>1, FS_Subset
  <2>3. Cardinality(pred[t]) \in Nat
    BY <2>2, FS_CardinalityType
  <2> QED
    BY <1>1, <2>2, <2>3
<1>3. \A t, u \in S : place[t] = place[u] => t = u
  BY PlacesDiffer
<1>4. place \in [S -> 0..(N - 1)]
  BY <1>2
<1> HIDE DEF place
<1>5. place \in Injection(S, 0..(N - 1))
  BY <1>3, <1>4, Fun_IsInj
<1>6. IsFiniteSet(0..(N - 1)) /\ Cardinality(0..(N - 1)) = N
  BY <1>1, FS_Interval
<1>7. place \in Surjection(S, 0..(N - 1))
  BY <1>5, <1>6, FS_Injection
<1>8. PICK t \in S : place[t] = i
  BY <1>7 DEF Surjection
<1> QED
  BY <1>8 DEF place

\* A place in a finite order is a number below its size.
LEMMA PlaceBelow ==
  ASSUME NEW S, IsFiniteSet(S), NEW pred, Orders(pred, S), NEW t \in S
  PROVE  Cardinality(pred[t]) \in Nat /\ Cardinality(pred[t]) < Cardinality(S)
<1>1. pred[t] \in SUBSET S /\ t \notin pred[t]
  BY DEF Orders
<1>2. IsFiniteSet(pred[t]) /\ Cardinality(pred[t]) <= Cardinality(S)
      /\ (Cardinality(S) = Cardinality(pred[t]) => S = pred[t])
  BY <1>1, FS_Subset
<1>3. Cardinality(pred[t]) \in Nat /\ Cardinality(S) \in Nat
  BY <1>2, FS_CardinalityType
<1> QED
  BY <1>1, <1>2, <1>3

\* The first n of a finite order are a prefix of it, and all of it unless there are n.
LEMMA FirstAreAPrefix ==
  ASSUME NEW S, IsFiniteSet(S), NEW pred, Orders(pred, S), NEW n \in Nat
  PROVE  LET first == {t \in S : Cardinality(pred[t]) < n}
         IN  /\ \A t \in first : pred[t] \subseteq first
             /\ Cardinality(first) < n => first = S
<1> DEFINE first == {t \in S : Cardinality(pred[t]) < n}
           place == [t \in first |-> Cardinality(pred[t])]
<1>1. ASSUME NEW t \in S
      PROVE  IsFiniteSet(pred[t]) /\ Cardinality(pred[t]) \in Nat
  BY FS_Subset, FS_CardinalityType DEF Orders
<1>2. ASSUME NEW t \in first, NEW u \in pred[t]
      PROVE  u \in first
  <2>1. u \in S /\ pred[u] \in SUBSET pred[t]
    BY DEF Orders
  <2>2. Cardinality(pred[u]) <= Cardinality(pred[t])
    BY <1>1, <2>1, FS_Subset
  <2> QED
    BY <1>1, <2>1, <2>2
<1>3. ASSUME NEW t \in S, t \notin first
      PROVE  Cardinality(first) >= n
  <2>1. Cardinality(S) \in Nat /\ Cardinality(S) > n
    BY <1>1, <1>3, PlaceBelow, FS_CardinalityType
  <2>2. \A i \in 0..(n - 1) : \E u \in S : Cardinality(pred[u]) = i
    <3>1. \A i \in 0..(n - 1) : i \in 0..(Cardinality(S) - 1)
      BY <2>1
    <3> QED
      BY <3>1, EveryPlaceIsTaken
  <2>3. place \in [first -> 0..(n - 1)]
    BY <1>1
  <2>4. \A i \in 0..(n - 1) : \E u \in first : place[u] = i
    BY <2>2
  <2> HIDE DEF place
  <2>5. place \in Surjection(first, 0..(n - 1))
    BY <2>3, <2>4, Fun_IsSurj
  <2>6. IsFiniteSet(first)
    BY FS_Subset
  <2> HIDE DEF first
  <2> QED
    BY <2>5, <2>6, FS_Surjection, FS_Interval
<1> HIDE DEF first
<1>4. first \in SUBSET S /\ Cardinality(first) \in Nat
  BY FS_Subset, FS_CardinalityType DEF first
<1> QED
  BY <1>2, <1>3, <1>4 DEF first

\* s has the members of an ordered S in their places.
LaysOut(s, pred, S) ==
  /\ DOMAIN s = 1..Cardinality(S)
  /\ \A i \in DOMAIN s : s[i] \in S /\ Cardinality(pred[s[i]]) = i - 1

\* Such a sequence lists every member, each once.
LEMMA LaidOut ==
  ASSUME NEW S, IsFiniteSet(S), NEW pred, Orders(pred, S), NEW s, LaysOut(s, pred, S)
  PROVE  /\ \A i, j \in DOMAIN s : s[i] = s[j] => i = j
         /\ \A t \in S : \E i \in DOMAIN s : s[i] = t
<1> USE DEF LaysOut
<1>1. Cardinality(S) \in Nat
  BY FS_CardinalityType
<1>2. ASSUME NEW i \in 1..Cardinality(S), NEW j \in 1..Cardinality(S), s[i] = s[j]
      PROVE  i = j
  <2>1. i - 1 = j - 1
    BY <1>2
  <2> QED
    BY <1>1, <2>1
<1>3. ASSUME NEW t \in S
      PROVE  \E i \in 1..Cardinality(S) : s[i] = t
  <2> DEFINE i == Cardinality(pred[t]) + 1
  <2>1. i \in 1..Cardinality(S) /\ i - 1 = Cardinality(pred[t])
    BY <1>1, PlaceBelow
  <2>2. s[i] \in S /\ Cardinality(pred[s[i]]) = Cardinality(pred[t])
    BY <2>1
  <2>3. s[i] = t
    <3> HIDE DEF i
    <3> QED
      BY <2>2, PlacesDiffer
  <2> QED
    BY <2>1, <2>3
<1> QED
  BY <1>2, <1>3

----------------------------------------------------------------------------
(* select_batch.                                                           *)

\* Of a worker's ranked tasks one is the best.
LEMMA BestExists ==
  ASSUME NEW S \in SUBSET Tasks, NEW rank \in Rankings(S), NEW t \in S
  PROVE  LET b == BestOf(rank, WorkerOf[t])
         IN  b \in S /\ WorkerOf[b] = WorkerOf[t]
<1> DEFINE T == Of(S, WorkerOf[t])
           pred == [u \in T |-> {v \in T : rank[v] < rank[u]}]
<1>1. rank \in [S -> Int] /\ DOMAIN rank = S /\ \A u, v \in S : u # v => rank[u] # rank[v]
  BY DEF Rankings
<1>2. T \in SUBSET S /\ t \in T /\ \A u \in T : WorkerOf[u] = WorkerOf[t]
  BY DEF Of
<1>3. IsFiniteSet(T)
  BY <1>2, TasksFinite, FS_Subset
<1>4. Orders(pred, T)
  BY <1>1, <1>2 DEF Orders
<1>5. 0 \in 0..(Cardinality(T) - 1)
  <2>1. Cardinality(T) \in Nat /\ Cardinality(T) # 0
    BY <1>2, <1>3, FS_CardinalityType, FS_EmptySet
  <2> QED
    BY <2>1
<1> HIDE DEF T
<1>6. \E b \in T : Cardinality(pred[b]) = 0
  <2> HIDE DEF pred
  <2> QED
    BY <1>3, <1>4, <1>5, EveryPlaceIsTaken
<1>7. PICK b \in T : Cardinality(pred[b]) = 0
  BY <1>6
<1>8. pred[b] = {}
  <2>1. pred[b] \in SUBSET T
    OBVIOUS
  <2> HIDE DEF pred
  <2>2. IsFiniteSet(pred[b])
    BY <1>3, <2>1, FS_Subset
  <2> QED
    BY <1>7, <2>2, FS_EmptySet
<1>9. \E c \in T : \A u \in T : rank[c] <= rank[u]
  BY <1>1, <1>2, <1>8
<1>10. BestOf(rank, WorkerOf[t]) \in T
  BY <1>1, <1>9 DEF BestOf, T
<1> QED
  BY <1>2, <1>10

\* A round is a number, and two tasks of one worker have different rounds.
LEMMA RoundsDiffer ==
  ASSUME NEW S \in SUBSET Tasks, NEW rank \in Rankings(S), NEW t \in S
  PROVE  /\ Round(rank, t) \in Nat
         /\ \A u \in S : u # t /\ WorkerOf[u] = WorkerOf[t] => Round(rank, u) # Round(rank, t)
<1> DEFINE upTo(u) == {v \in Of(DOMAIN rank, WorkerOf[u]) : rank[v] <= rank[u]}
<1>1. rank \in [S -> Int] /\ DOMAIN rank = S /\ \A u, v \in S : u # v => rank[u] # rank[v]
  BY DEF Rankings
<1>2. \A u \in S : /\ upTo(u) \in SUBSET S /\ IsFiniteSet(upTo(u))
                   /\ u \in upTo(u) /\ Cardinality(upTo(u)) \in Nat
  <2> SUFFICES ASSUME NEW u \in S
               PROVE  /\ upTo(u) \in SUBSET S /\ IsFiniteSet(upTo(u))
                      /\ u \in upTo(u) /\ Cardinality(upTo(u)) \in Nat
    OBVIOUS
  <2>1. upTo(u) \in SUBSET S /\ u \in upTo(u)
    BY <1>1 DEF Of
  <2> HIDE DEF upTo
  <2> QED
    BY <2>1, TasksFinite, FS_Subset, FS_CardinalityType
<1>3. \A u, v \in S : WorkerOf[u] = WorkerOf[v] /\ rank[u] < rank[v] =>
        Cardinality(upTo(u)) # Cardinality(upTo(v))
  <2> SUFFICES ASSUME NEW u \in S, NEW v \in S, WorkerOf[u] = WorkerOf[v], rank[u] < rank[v]
               PROVE  Cardinality(upTo(u)) # Cardinality(upTo(v))
    OBVIOUS
  <2>1. upTo(u) \in SUBSET upTo(v) /\ v \notin upTo(u)
    BY <1>1 DEF Of
  <2>2. IsFiniteSet(upTo(v)) /\ v \in upTo(v)
    BY <1>2
  <2> HIDE DEF upTo
  <2> QED
    BY <2>1, <2>2, FS_Subset
<1> USE DEF Round
<1>4. Round(rank, t) \in Nat
  BY <1>2
<1>5. ASSUME NEW u \in S, u # t, WorkerOf[u] = WorkerOf[t]
      PROVE  Round(rank, u) # Round(rank, t)
  <2>1. rank[u] < rank[t] \/ rank[t] < rank[u]
    BY <1>1, <1>5
  <2> HIDE DEF upTo
  <2> QED
    BY <1>3, <1>5, <2>1 DEF upTo
<1> QED
  BY <1>4, <1>5

\* Rounds, and in a round the best tasks of the workers, order any of the ranked tasks.
LEMMA RoundsOrder ==
  ASSUME NEW S \in SUBSET Tasks, NEW rank \in Rankings(S), NEW open \in SUBSET S
  PROVE  Orders([t \in open |-> {u \in open : TakenBefore(rank, u, t)}], open)
<1> DEFINE best(t) == rank[BestOf(rank, WorkerOf[t])]
<1>1. rank \in [S -> Int] /\ \A u, v \in S : u # v => rank[u] # rank[v]
  BY DEF Rankings
<1>2. \A t \in S : Round(rank, t) \in Nat /\ best(t) \in Int
  BY <1>1, BestExists, RoundsDiffer
<1>3. \A t, u \in S : best(t) = best(u) => WorkerOf[t] = WorkerOf[u]
  BY <1>1, BestExists
<1>4. \A t, u \in S : t # u => Round(rank, t) # Round(rank, u) \/ best(t) # best(u)
  BY <1>3, RoundsDiffer
<1>5. \A t, u \in S : TakenBefore(rank, t, u) <=>
        \/ Round(rank, t) < Round(rank, u)
        \/ Round(rank, t) = Round(rank, u) /\ best(t) < best(u)
  BY DEF TakenBefore
<1> HIDE DEF best
<1>6. \A t \in S : ~TakenBefore(rank, t, t)
  BY <1>2, <1>5
<1>7. \A t, u, v \in S : TakenBefore(rank, t, u) /\ TakenBefore(rank, u, v) => TakenBefore(rank, t, v)
  BY <1>2, <1>5
<1>8. \A t, u \in S : t # u => TakenBefore(rank, t, u) \/ TakenBefore(rank, u, t)
  BY <1>2, <1>4, <1>5
<1> QED
  BY <1>6, <1>7, <1>8 DEF Orders

\* The tasks that have their turn while their worker has capacity, and the first of them.
OpenTo(rank, capacity) ==
  {t \in DOMAIN rank : WorkerOf[t] \in DOMAIN capacity => Round(rank, t) <= capacity[WorkerOf[t]]}

Chosen(rank, limit, capacity) ==
  {t \in OpenTo(rank, capacity) :
     Cardinality({u \in OpenTo(rank, capacity) : TakenBefore(rank, u, t)}) < limit}

\* A batch lists the chosen tasks, each once; they are the first of the open ones, and all
\* of them if the batch is shorter than was asked for.
LEMMA BatchIsChosen ==
  ASSUME NEW S \in SUBSET Tasks, NEW rank \in Rankings(S), NEW limit \in Nat, NEW capacity
  PROVE  LET open == OpenTo(rank, capacity)
             first == Chosen(rank, limit, capacity)
             batch == SelectRankedBatch(rank, limit, capacity)
         IN  /\ batch \in Seq(first) /\ Len(batch) = Cardinality(first) /\ Len(batch) <= limit
             /\ \A i, j \in DOMAIN batch : batch[i] = batch[j] => i = j
             /\ \A t \in first : \E i \in DOMAIN batch : batch[i] = t
             /\ \A t \in first, u \in open : TakenBefore(rank, u, t) => u \in first
             /\ Len(batch) < limit => first = open
             /\ first \subseteq open /\ open \subseteq S
<1> DEFINE open == OpenTo(rank, capacity)
           first == Chosen(rank, limit, capacity)
           before == [t \in open |-> {u \in open : TakenBefore(rank, u, t)}]
           earlier == [t \in first |-> {u \in first : TakenBefore(rank, u, t)}]
           nth(i) == CHOOSE t \in first : Cardinality({u \in first : TakenBefore(rank, u, t)}) = i - 1
           batch == [i \in 1..Cardinality(first) |-> nth(i)]
<1>1. DOMAIN rank = S
  BY DEF Rankings
<1>2. open \in SUBSET S /\ first \in SUBSET open
  BY <1>1 DEF OpenTo, Chosen
<1>3. IsFiniteSet(open) /\ IsFiniteSet(first)
  BY <1>2, TasksFinite, FS_Subset
<1>4. Orders(before, open) /\ Orders(earlier, first)
  BY <1>2, RoundsOrder
<1>5. first = {t \in open : Cardinality(before[t]) < limit}
  BY DEF Chosen
<1>6. SelectRankedBatch(rank, limit, capacity) = batch
  <2>1. first = FirstOf(open, limit, LAMBDA t, u : TakenBefore(rank, t, u))
    BY DEF FirstOf, Chosen
  <2>2. batch = InOrder(first, LAMBDA t, u : TakenBefore(rank, t, u))
    BY DEF InOrder
  <2> QED
    BY <2>1, <2>2 DEF SelectRankedBatch, OpenTo
<1>13. \A t \in first : earlier[t] = {u \in first : TakenBefore(rank, u, t)}
  OBVIOUS
<1>7. \A t \in first, u \in open : TakenBefore(rank, u, t) <=> u \in before[t]
  BY <1>2
<1> HIDE DEF open, first, before, earlier
<1>8. IsFiniteSet(first) /\ Cardinality(first) \in Nat /\ Cardinality(first) <= limit
  BY <1>3, <1>4, <1>5, FirstAreFew
<1>9. (\A t \in first : before[t] \subseteq first) /\ (Cardinality(first) < limit => first = open)
  BY <1>3, <1>4, <1>5, FirstAreAPrefix
<1>10. \A i \in 1..Cardinality(first) : nth(i) \in first /\ Cardinality(earlier[nth(i)]) = i - 1
  <2> SUFFICES ASSUME NEW i \in 1..Cardinality(first)
               PROVE  nth(i) \in first /\ Cardinality(earlier[nth(i)]) = i - 1
    OBVIOUS
  <2>1. i - 1 \in 0..(Cardinality(first) - 1)
    BY <1>8
  <2>2. \E t \in first : Cardinality(earlier[t]) = i - 1
    BY <1>3, <1>4, <2>1, EveryPlaceIsTaken
  <2>3. \E t \in first : Cardinality({u \in first : TakenBefore(rank, u, t)}) = i - 1
    BY <1>13, <2>2
  <2>4. nth(i) \in first /\ Cardinality({u \in first : TakenBefore(rank, u, nth(i))}) = i - 1
    BY <2>3, Zenon
  <2> QED
    BY <1>13, <2>4
<1> HIDE DEF nth
<1>11. batch \in Seq(first) /\ Len(batch) = Cardinality(first) /\ DOMAIN batch = 1..Cardinality(first)
  BY <1>8, <1>10
<1>12. /\ \A i, j \in DOMAIN batch : batch[i] = batch[j] => i = j
       /\ \A t \in first : \E i \in DOMAIN batch : batch[i] = t
  <2>1. LaysOut(batch, earlier, first)
    BY <1>10 DEF LaysOut
  <2> HIDE DEF batch
  <2> QED
    BY <1>3, <1>4, <2>1, LaidOut
<1> HIDE DEF batch
<1> QED
  BY <1>2, <1>6, <1>7, <1>8, <1>9, <1>11, <1>12 DEF open, first

\* A batch is a sequence of at most limit of the ranked tasks.
LEMMA BatchIsBounded ==
  ASSUME NEW S \in SUBSET Tasks, NEW rank \in Rankings(S), NEW limit \in Nat, NEW capacity
  PROVE  LET batch == SelectRankedBatch(rank, limit, capacity)
         IN  batch \in Seq(Tasks) /\ Len(batch) <= limit
<1> DEFINE batch == SelectRankedBatch(rank, limit, capacity)
           first == Chosen(rank, limit, capacity)
<1>1. batch \in Seq(first) /\ Len(batch) <= limit /\ first \subseteq Tasks
  BY BatchIsChosen
<1> HIDE DEF batch, first
<1>2. batch \in Seq(Tasks)
  BY <1>1
<1> QED
  BY <1>1, <1>2 DEF batch

\* A shortlist offers ready tasks only.
LEMMA ShortlistOffersReady ==
  ASSUME NEW ready, NEW limit
  PROVE  Shortlist(ready, limit) \subseteq ready
BY DEF Shortlist, FairLaneLimits, FirstOf

----------------------------------------------------------------------------
(* The loop.                                                               *)

LoopType ==
  loop \in [at : Stages, steps : Nat, todo : Seq(Tasks), tickets : Seq(Tasks),
            press : BOOLEAN, nap : Nat]

\* What has been dispatched, admitted and chosen fits the limit together.
BatchFits ==
  /\ loop.steps + Len(loop.tickets) + Len(loop.todo) <= Limit
  /\ loop.at # "admit" => loop.tickets = <<>> /\ loop.todo = <<>>

LoopInv == LoopType /\ BatchFits

\* The limits that count are natural numbers.
LEMMA LimitNat ==
  /\ Limit \in Nat /\ BatchSize \in Nat /\ Concurrency \in Nat /\ MaxDeferredWait \in Nat
  /\ 0 < Limit
BY DispatchAssumption

\* Nothing is chosen and nothing admitted.
LEMMA NothingYet ==
  <<>> \in Seq(Tasks) /\ Len(<<>>) = 0
OBVIOUS

\* A task that is chosen no more leaves room for a ticket.
LEMMA OneMoreOneLess ==
  ASSUME NEW a \in Nat, NEW b \in Nat, NEW c \in Nat, a + b + c <= Limit
  PROVE  a + (b + 1) + (c - 1) <= Limit /\ a + b + (c - 1) <= Limit
BY LimitNat

\* The loop may go anywhere with what fits.
LEMMA FitsAnywhere ==
  ASSUME NEW a \in Stages, NEW n \in Nat, NEW todo \in Seq(Tasks), NEW tickets \in Seq(Tasks),
         NEW press \in BOOLEAN, NEW nap \in Nat,
         n + Len(tickets) + Len(todo) <= Limit,
         a # "admit" => tickets = <<>> /\ todo = <<>>,
         loop' = [at |-> a, steps |-> n, todo |-> todo, tickets |-> tickets,
                  press |-> press, nap |-> nap]
  PROVE  LoopInv'
<1>1. LoopType'
  BY DEF LoopType
<1>2. BatchFits'
  BY DEF BatchFits
<1> QED
  BY <1>1, <1>2 DEF LoopInv

\* The loop's variables are those of the record, and no more.
LEMMA LoopIsRecord ==
  ASSUME LoopType
  PROVE  /\ loop = [at |-> loop.at, steps |-> loop.steps, todo |-> loop.todo,
                    tickets |-> loop.tickets, press |-> loop.press, nap |-> loop.nap]
         /\ loop.at \in Stages /\ loop.steps \in Nat /\ loop.todo \in Seq(Tasks)
         /\ loop.tickets \in Seq(Tasks) /\ loop.press \in BOOLEAN /\ loop.nap \in Nat
BY DEF LoopType

\* A new run has everything before it.
LEMMA StartFits ==
  ASSUME loop' = Start \/ loop' = [Start EXCEPT !.at = "off"]
  PROVE  LoopInv'
<1> DEFINE s == <<>>
<1>1. s \in Seq(Tasks) /\ Len(s) = 0
  BY NothingYet
<1>2. \E a \in Stages : loop' = [at |-> a, steps |-> 0, todo |-> s, tickets |-> s,
                                press |-> FALSE, nap |-> 0] /\ a # "admit"
  BY DEF Start, Stages
<1>3. s = <<>>
  OBVIOUS
<1> HIDE DEF s
<1> QED
  BY <1>1, <1>2, <1>3, LimitNat DEF LoopInv, LoopType, BatchFits

\* A ranking asks for no more tasks than there are steps left.
LEMMA RankFits == LoopInv /\ Rank => LoopInv'
<1> SUFFICES ASSUME LoopInv, Rank
             PROVE  LoopInv'
  OBVIOUS
<1> DEFINE S == Shortlist(Ready, CandidateLimit)
           size == Least(FreeSlots, BatchSize)
<1>1. S \in SUBSET Tasks
  BY ShortlistOffersReady DEF Ready
<1>2. size \in Nat /\ size <= Limit - loop.steps
  <2>1. Free \in SUBSET (1..Concurrency)
    BY DEF Free, SlotIds
  <2>2. Cardinality(Free) \in Nat
    <3>1. IsFiniteSet(1..Concurrency)
      BY LimitNat, FS_Interval
    <3> QED
      BY <2>1, <3>1, FS_Subset, FS_CardinalityType
  <2> QED
    BY <2>2, LimitNat DEF FreeSlots, Least, Rank, CanAdmit, LoopInv, LoopType
<1>3. PICK rank \in Rankings(S) :
        LET batch == SelectRankedBatch(rank, size, Capacities)
        IN  loop' = IF batch = <<>> THEN [loop EXCEPT !.at = "wait"]
                    ELSE [loop EXCEPT !.at = "admit", !.todo = batch, !.press = FALSE]
  BY DEF Rank
<1> DEFINE batch == SelectRankedBatch(rank, size, Capacities)
<1>4. batch \in Seq(Tasks) /\ Len(batch) <= size
  <2> HIDE DEF S, size
  <2> QED
    BY <1>1, <1>2, BatchIsBounded
<1>5. loop.at = "rank" /\ loop.tickets = <<>> /\ loop.todo = <<>>
  BY DEF Rank, LoopInv, BatchFits
<1> HIDE DEF size
<1>6. CASE batch = <<>>
  <2>1. loop' = [at |-> "wait", steps |-> loop.steps, todo |-> loop.todo, tickets |-> loop.tickets,
                 press |-> loop.press, nap |-> loop.nap]
    BY <1>3, <1>6, LoopIsRecord DEF LoopInv
  <2>2. "wait" \in Stages
    BY DEF Stages
  <2> HIDE DEF batch
  <2> QED
    BY <1>5, <2>1, <2>2, LoopIsRecord, FitsAnywhere DEF LoopInv, BatchFits
<1>7. CASE batch # <<>>
  <2>1. loop' = [at |-> "admit", steps |-> loop.steps, todo |-> batch, tickets |-> loop.tickets,
                 press |-> FALSE, nap |-> loop.nap]
    BY <1>3, <1>7, LoopIsRecord DEF LoopInv
  <2> HIDE DEF batch
  <2>2. "admit" \in Stages /\ Len(loop.tickets) = 0 /\ Len(batch) \in Nat
    BY <1>4, <1>5, NothingYet DEF Stages
  <2>3. loop.steps + Len(loop.tickets) + Len(batch) <= Limit
    BY <1>2, <1>4, <2>2, LimitNat, LoopIsRecord DEF LoopInv
  <2> QED
    BY <1>4, <2>1, <2>2, <2>3, LoopIsRecord, FitsAnywhere DEF LoopInv
<1> QED
  BY <1>6, <1>7

\* An admission turns a chosen task into a ticket or into nothing.
LEMMA AdmitFits ==
  LoopInv /\ (AdmitStale \/ AdmitTicket \/ AdmitRefused \/ AdmitPressed) => LoopInv'
<1> SUFFICES ASSUME LoopInv, Admitting,
                    \/ loop' = Later(loop)
                    \/ loop' = Later([loop EXCEPT !.tickets = Append(@, Next1)])
                    \/ loop' = Later([loop EXCEPT !.press = TRUE])
             PROVE  LoopInv'
  BY DEF AdmitStale, AdmitTicket, AdmitRefused, AdmitPressed
<1>1. loop.todo \in Seq(Tasks) /\ loop.todo # <<>> /\ loop.tickets \in Seq(Tasks)
  BY DEF LoopInv, LoopType, Admitting
<1>2. /\ Next1 \in Tasks
      /\ Tail(loop.todo) \in Seq(Tasks) /\ Len(Tail(loop.todo)) = Len(loop.todo) - 1
      /\ Append(loop.tickets, Next1) \in Seq(Tasks)
      /\ Len(Append(loop.tickets, Next1)) = Len(loop.tickets) + 1
  BY <1>1 DEF Next1
<1>3. Len(loop.todo) \in Nat /\ Len(loop.tickets) \in Nat
  BY <1>1
<1> QED
  <2>1. \E tickets \in {loop.tickets, Append(loop.tickets, Next1)}, press \in BOOLEAN :
          loop' = [at |-> loop.at, steps |-> loop.steps, todo |-> Tail(loop.todo),
                   tickets |-> tickets, press |-> press, nap |-> loop.nap]
    BY LoopIsRecord DEF LoopInv, Later
  <2>2. \A tickets \in {loop.tickets, Append(loop.tickets, Next1)} :
          tickets \in Seq(Tasks) /\ loop.steps + Len(tickets) + Len(Tail(loop.todo)) <= Limit
    <3>1. loop.steps + Len(loop.tickets) + Len(loop.todo) <= Limit /\ loop.steps \in Nat
      BY LoopIsRecord DEF LoopInv, BatchFits
    <3> DEFINE more == Append(loop.tickets, Next1)
               rest == Tail(loop.todo)
    <3>2. more \in Seq(Tasks) /\ Len(more) = Len(loop.tickets) + 1 /\ Len(rest) = Len(loop.todo) - 1
      BY <1>2
    <3> HIDE DEF more, rest
    <3>3. loop.steps + Len(more) + Len(rest) <= Limit /\ loop.steps + Len(loop.tickets) + Len(rest) <= Limit
      BY <1>3, <3>1, <3>2, OneMoreOneLess
    <3> QED
      BY <1>1, <3>2, <3>3 DEF more, rest
  <2>3. loop.at = "admit"
    BY DEF Admitting
  <2> QED
    BY <1>2, <2>1, <2>2, <2>3, LoopIsRecord, FitsAnywhere DEF LoopInv

\* A dispatch turns tickets into steps.
LEMMA DispatchFits == LoopInv /\ Dispatch => LoopInv'
<1> SUFFICES ASSUME LoopInv, Dispatch
             PROVE  LoopInv'
  OBVIOUS
<1>1. Len(loop.tickets) \in Nat /\ loop.todo = <<>>
  BY DEF LoopInv, LoopType, Dispatch
<1> QED
  <2>1. \E a \in {"wait", "rank"} :
          loop' = [at |-> a, steps |-> loop.steps + Len(loop.tickets), todo |-> loop.todo,
                   tickets |-> <<>>, press |-> loop.press, nap |-> loop.nap]
    BY LoopIsRecord DEF LoopInv, Dispatch
  <2>2. loop.steps + Len(loop.tickets) \in Nat
        /\ loop.steps + Len(loop.tickets) + Len(<<>>) + Len(loop.todo) <= Limit
    BY <1>1, NothingYet, LimitNat, LoopIsRecord DEF LoopInv, BatchFits
  <2>3. {"wait", "rank"} \subseteq Stages /\ "admit" \notin {"wait", "rank"}
    BY DEF Stages
  <2> QED
    BY <1>1, <2>1, <2>2, <2>3, NothingYet, LoopIsRecord, FitsAnywhere DEF LoopInv

\* The other steps of the loop only move it, and time only shortens its sleep.
LEMMA OtherStepsFit ==
  /\ LoopInv /\ (Collect \/ LimitReached \/ RunDry \/ PauseDeferred \/ Sleep \/ Wake
                 \/ FinishRun \/ Tick) => LoopInv'
  /\ LoopInv /\ UNCHANGED loop => LoopInv'
<1>1. LoopInv /\ UNCHANGED loop => LoopInv'
  BY DEF LoopInv, LoopType, BatchFits
<1>2. LoopInv /\ Collect => LoopInv'
  BY DEF LoopInv, LoopType, BatchFits, Collect, AtWait, Stages
<1>3. LoopInv /\ (LimitReached \/ RunDry \/ PauseDeferred) => LoopInv'
  BY DEF LoopInv, LoopType, BatchFits, LimitReached, RunDry, PauseDeferred, Goto, Quiet, AtWait, Stages
<1>4. LoopInv /\ Sleep => LoopInv'
  <2> SUFFICES ASSUME LoopInv, Sleep
               PROVE  LoopInv'
    OBVIOUS
  <2>1. PICK d \in 0..MaxDeferredWait : loop' = [loop EXCEPT !.at = "sleep", !.nap = d]
    BY DEF Sleep
  <2>2. d \in Nat /\ loop.at # "admit" /\ "sleep" \in Stages
    BY LimitNat DEF Sleep, Quiet, AtWait, Stages
  <2>3. loop' = [at |-> "sleep", steps |-> loop.steps, todo |-> loop.todo, tickets |-> loop.tickets,
                 press |-> loop.press, nap |-> d]
    BY <2>1, LoopIsRecord DEF LoopInv
  <2> QED
    BY <2>2, <2>3, LoopIsRecord, FitsAnywhere DEF LoopInv, BatchFits
<1>5. LoopInv /\ (Wake \/ FinishRun) => LoopInv'
  BY DEF LoopInv, LoopType, BatchFits, Wake, FinishRun, Goto, Stages
<1>6. LoopInv /\ Tick => LoopInv'
  BY DEF LoopInv, LoopType, BatchFits, Tick, Minus1, Stages
<1> QED
  BY <1>1, <1>2, <1>3, <1>4, <1>5, <1>6

\* Every step keeps what a run has claimed within its limit.
LEMMA NextFits == LoopInv /\ [Next]_vars => LoopInv'
<1> SUFFICES ASSUME LoopInv, [Next]_vars
             PROVE  LoopInv'
  OBVIOUS
<1>1. CASE StartRun
  BY <1>1, StartFits DEF StartRun
<1>2. CASE Loop
  BY <1>2, RankFits, AdmitFits, DispatchFits, OtherStepsFit DEF Loop
<1>3. CASE \E s \in SlotIds : EndExecution(s) \/ \E u \in Tasks : Discover(s, u)
  BY <1>3, OtherStepsFit DEF EndExecution, Discover
<1>4. CASE \E t \in Tasks : Settle(t)
  BY <1>4, OtherStepsFit DEF Settle
<1>5. CASE Tick
  BY <1>5, OtherStepsFit
<1>6. CASE UNCHANGED vars
  BY <1>6, OtherStepsFit DEF vars
<1> QED
  BY <1>1, <1>2, <1>3, <1>4, <1>5, <1>6 DEF Next

\* At the start there is no run and nothing chosen.
LEMMA InitFits == Init => LoopInv
<1>1. Init => loop = [at |-> "off", steps |-> 0, todo |-> <<>>, tickets |-> <<>>,
                      press |-> FALSE, nap |-> 0]
  BY DEF Init, Start
<1>2. Init => LoopType
  <2> DEFINE s == <<>>
             l == [at |-> "off", steps |-> 0, todo |-> s, tickets |-> s,
                   press |-> FALSE, nap |-> 0]
  <2>1. s \in Seq(Tasks) /\ "off" \in Stages
    BY NothingYet DEF Stages
  <2>2. Init => loop = l
    BY <1>1
  <2> HIDE DEF s
  <2>3. l \in [at : Stages, steps : Nat, todo : Seq(Tasks), tickets : Seq(Tasks),
               press : BOOLEAN, nap : Nat]
    BY <2>1
  <2> HIDE DEF l
  <2> QED
    BY <2>2, <2>3 DEF LoopType
<1>3. Init => BatchFits
  BY <1>1, NothingYet, LimitNat DEF BatchFits
<1> QED
  BY <1>2, <1>3 DEF LoopInv

\* However batches, executions and time interleave, a run never claims more than max_steps
\* tasks (_run_frontier).
THEOREM RunStaysWithinLimit == Spec => []StepsWithinLimit
<1>1. LoopInv => StepsWithinLimit
  BY LimitNat DEF LoopInv, LoopType, BatchFits, StepsWithinLimit
<1> QED
  BY <1>1, InitFits, NextFits, PTL DEF Spec

----------------------------------------------------------------------------
(* The final status.                                                       *)

\* Rows and the run have a status, whatever else they have.
HaveStatus ==
  /\ \A t \in Tasks : t \in DOMAIN row /\ "status" \in DOMAIN row[t]
  /\ "status" \in DOMAIN run

\* Outside the loop nothing executes, so nothing is left that could undo a final status.
StatusInv ==
  /\ LoopInv /\ HaveStatus
  /\ loop.at \in {"finish", "off"} => Busy = {}
  /\ run.status = "SUCCEEDED" => loop.at = "off" /\ Unfinished = {}

\* Steps of the loop that leave the run's row alone, and do not lead out of the loop.
LEMMA InsideLoop ==
  ASSUME StatusInv, LoopInv', HaveStatus',
         loop.at # "off", loop'.at \notin {"finish", "off"}, run'.status = run.status
  PROVE  StatusInv'
BY DEF StatusInv

\* Every step leaves the rows and the run a status.
LEMMA StatusStays == HaveStatus /\ [Next]_vars => HaveStatus'
<1> SUFFICES ASSUME HaveStatus, [Next]_vars
             PROVE  HaveStatus'
  OBVIOUS
<1>1. CASE StartRun
  BY <1>1 DEF StartRun, HaveStatus, Absent
<1>2. CASE Rank \/ AdmitStale \/ Dispatch \/ LimitReached \/ RunDry \/ Sleep \/ Wake
  BY <1>2 DEF Rank, AdmitStale, Dispatch, LimitReached, RunDry, Sleep, Wake, HaveStatus
<1>3. CASE AdmitTicket
  BY <1>3 DEF AdmitTicket, HaveStatus
<1>4. CASE AdmitRefused
  BY <1>4 DEF AdmitRefused, HaveStatus
<1>5. CASE AdmitPressed
  BY <1>5 DEF AdmitPressed, HaveStatus
<1>6. CASE Collect \/ PauseDeferred \/ FinishRun
  BY <1>6 DEF Collect, PauseDeferred, FinishRun, HaveStatus
<1>7. ASSUME NEW s \in SlotIds, EndExecution(s)
      PROVE  HaveStatus'
  BY <1>7 DEF EndExecution, HaveStatus
<1>8. ASSUME NEW s \in SlotIds, NEW u \in Tasks, Discover(s, u)
      PROVE  HaveStatus'
  BY <1>8 DEF Discover, HaveStatus
<1>9. ASSUME NEW t \in Tasks, Settle(t)
      PROVE  HaveStatus'
  BY <1>9 DEF Settle, HaveStatus
<1>10. CASE Tick
  BY <1>10 DEF Tick, HaveStatus
<1>11. CASE UNCHANGED vars
  BY <1>11 DEF vars, HaveStatus
<1> QED
  BY <1>1, <1>2, <1>3, <1>4, <1>5, <1>6, <1>7, <1>8, <1>9, <1>10, <1>11 DEF Next, Loop

\* A step of the loop keeps a final status deserved.
LEMMA LoopDeserves ==
  ASSUME StatusInv, LoopInv', HaveStatus', Loop
  PROVE  StatusInv'
<1> USE DEF StatusInv, LoopInv, LoopType
<1>1. CASE Rank \/ AdmitStale \/ AdmitTicket \/ AdmitRefused \/ AdmitPressed \/ Dispatch
  BY <1>1, InsideLoop DEF Rank, AdmitStale, AdmitTicket, AdmitRefused, AdmitPressed, Dispatch,
    Admitting, Later
<1>2. CASE Collect
  BY <1>2, InsideLoop DEF Collect, AtWait, HaveStatus
<1>3. CASE Sleep \/ Wake
  BY <1>3, InsideLoop DEF Sleep, Wake, Quiet, AtWait
<1>4. CASE LimitReached \/ RunDry
  BY <1>4 DEF LimitReached, RunDry, Quiet, AtWait, Goto, Busy, Free
<1>5. CASE PauseDeferred
  BY <1>5 DEF PauseDeferred, Quiet, AtWait, Goto, Busy, Free, HaveStatus
<1>6. CASE FinishRun
  BY <1>6 DEF FinishRun, Goto, Busy, Free, Unfinished, Verdict, HaveStatus
<1> QED
  BY <1>1, <1>2, <1>3, <1>4, <1>5, <1>6 DEF Loop

\* So does every step of executions, operators and time, and a new run.
LEMMA NextDeserves == StatusInv /\ [Next]_vars => StatusInv'
<1> SUFFICES ASSUME StatusInv, [Next]_vars
             PROVE  StatusInv'
  OBVIOUS
<1>1. LoopInv' /\ HaveStatus'
  BY NextFits, StatusStays DEF StatusInv
<1>2. CASE StartRun
  BY <1>1, <1>2 DEF StartRun, StatusInv, Start
<1>3. CASE Loop
  BY <1>1, <1>3, LoopDeserves
<1>4. ASSUME NEW s \in SlotIds, EndExecution(s) \/ \E u \in Tasks : Discover(s, u)
      PROVE  StatusInv'
  <2>1. Busy # {} /\ loop' = loop /\ run' = run
    BY <1>4 DEF EndExecution, Discover, Executing
  <2> QED
    BY <1>1, <2>1 DEF StatusInv
<1>5. ASSUME NEW t \in Tasks, Settle(t)
      PROVE  StatusInv'
  <2>1. t \in Unfinished
    BY <1>5 DEF Settle, Unfinished, Terminal
  <2> QED
    BY <1>1, <1>5, <2>1 DEF StatusInv, Settle, Busy, Free
<1>6. CASE Tick
  <2>1. loop'.at = loop.at
    BY <1>6 DEF Tick, StatusInv, LoopInv, LoopType
  <2>2. Unfinished' = Unfinished
    BY <1>6 DEF Tick, StatusInv, HaveStatus, Unfinished
  <2> QED
    BY <1>1, <1>6, <2>1, <2>2 DEF Tick, StatusInv, Busy, Free
<1>7. CASE UNCHANGED vars
  BY <1>1, <1>7 DEF vars, StatusInv, Busy, Free, Unfinished
<1> QED
  BY <1>2, <1>3, <1>4, <1>5, <1>6, <1>7 DEF Next

\* A run that is reported SUCCEEDED has left nothing to do, and until the next run starts
\* nothing comes up (_run_frontier).
THEOREM SuccessIsDone == Spec => []SucceededRunIsDone
<1>1. Init => StatusInv
  <2> SUFFICES ASSUME Init
               PROVE  StatusInv
    OBVIOUS
  <2>1. LoopInv
    BY InitFits
  <2>2. HaveStatus
    BY DEF Init, HaveStatus, Absent, Left
  <2>3. Busy = {} /\ run.status = "NONE"
    BY DEF Init, Busy, Free
  <2> QED
    BY <2>1, <2>2, <2>3 DEF StatusInv
<1>2. StatusInv => SucceededRunIsDone
  BY DEF StatusInv, SucceededRunIsDone
<1> QED
  BY <1>1, <1>2, NextDeserves, PTL DEF Spec

----------------------------------------------------------------------------
(* Turns: what a batch has of each worker.                                 *)

\* The rounds of a worker's tasks are the numbers up to how many they are.
LEMMA RoundsAreNumbered ==
  ASSUME NEW S \in SUBSET Tasks, NEW rank \in Rankings(S), NEW w
  PROVE  /\ IsFiniteSet(Of(S, w)) /\ Cardinality(Of(S, w)) \in Nat
         /\ \A t \in Of(S, w) : Round(rank, t) \in 1..Cardinality(Of(S, w))
         /\ \A n \in 1..Cardinality(Of(S, w)) : \E t \in Of(S, w) : Round(rank, t) = n
         /\ \A t, u \in Of(S, w) : Round(rank, t) = Round(rank, u) => t = u
<1> DEFINE T == Of(S, w)
           pred == [t \in T |-> {u \in T : rank[u] < rank[t]}]
           N == Cardinality(T)
<1>1. rank \in [S -> Int] /\ DOMAIN rank = S /\ \A u, v \in S : u # v => rank[u] # rank[v]
  BY DEF Rankings
<1>2. T \in SUBSET S /\ \A t \in T : WorkerOf[t] = w
  BY DEF Of
<1>3. IsFiniteSet(T) /\ N \in Nat
  BY <1>2, TasksFinite, FS_Subset, FS_CardinalityType
<1>4. Orders(pred, T)
  BY <1>1, <1>2 DEF Orders
<1>5. ASSUME NEW t \in T
      PROVE  Round(rank, t) = Cardinality(pred[t]) + 1
  <2> DEFINE upTo == {u \in Of(DOMAIN rank, WorkerOf[t]) : rank[u] <= rank[t]}
  <2>1. upTo = pred[t] \cup {t} /\ t \notin pred[t] /\ pred[t] \in SUBSET T
    BY <1>1, <1>2 DEF Of
  <2>2. Round(rank, t) = Cardinality(upTo)
    BY DEF Round
  <2> HIDE DEF upTo, pred, T
  <2>3. IsFiniteSet(pred[t])
    BY <1>3, <2>1, FS_Subset
  <2> QED
    BY <2>1, <2>2, <2>3, FS_AddElement
<1> HIDE DEF pred, T, N
<1>6. \A t \in T : Cardinality(pred[t]) \in Nat /\ Cardinality(pred[t]) < N
  BY <1>3, <1>4, PlaceBelow DEF N
<1>7. \A t \in T : Round(rank, t) \in 1..N
  BY <1>3, <1>5, <1>6
<1>8. ASSUME NEW n \in 1..N
      PROVE  \E t \in T : Round(rank, t) = n
  <2>1. n - 1 \in 0..(Cardinality(T) - 1)
    BY <1>3 DEF N
  <2>2. \E t \in T : Cardinality(pred[t]) = n - 1
    BY <1>3, <1>4, <2>1, EveryPlaceIsTaken
  <2> QED
    BY <1>5, <2>2
<1>9. ASSUME NEW t \in T, NEW u \in T, Round(rank, t) = Round(rank, u)
      PROVE  t = u
  <2>1. Cardinality(pred[t]) = Cardinality(pred[u])
    BY <1>5, <1>6, <1>9
  <2> QED
    BY <1>3, <1>4, <2>1, PlacesDiffer
<1> QED
  BY <1>3, <1>7, <1>8, <1>9 DEF T, N

\* Tasks of one worker with their turn in the first n rounds are at most n, and at least n
\* if they are all of those, and there are that many.
LEMMA RoundsCount ==
  ASSUME NEW S \in SUBSET Tasks, NEW rank \in Rankings(S), NEW w, NEW A \in SUBSET Of(S, w), NEW n \in Nat
  PROVE  /\ IsFiniteSet(A) /\ Cardinality(A) \in Nat
         /\ (\A t \in A : Round(rank, t) <= n) => Cardinality(A) <= n
         /\ n <= Cardinality(Of(S, w)) /\ (\A t \in Of(S, w) : Round(rank, t) <= n => t \in A) =>
              Cardinality(A) >= n
<1> DEFINE T == Of(S, w)
           B == {t \in A : Round(rank, t) <= n}
           round == [t \in B |-> Round(rank, t)]
<1>1. /\ IsFiniteSet(T) /\ Cardinality(T) \in Nat
      /\ \A t \in T : Round(rank, t) \in 1..Cardinality(T)
      /\ \A k \in 1..Cardinality(T) : \E t \in T : Round(rank, t) = k
      /\ \A t, u \in T : Round(rank, t) = Round(rank, u) => t = u
  BY RoundsAreNumbered
<1>2. A \in SUBSET T /\ B \in SUBSET A
  OBVIOUS
<1> HIDE DEF T
<1>3. IsFiniteSet(A) /\ Cardinality(A) \in Nat /\ IsFiniteSet(B) /\ Cardinality(B) <= Cardinality(A)
      /\ Cardinality(B) \in Nat
  <2> HIDE DEF B
  <2> QED
    BY <1>1, <1>2, FS_Subset, FS_CardinalityType
<1>4. round \in [B -> 1..n]
  BY <1>1, <1>2
<1>5. \A t, u \in B : round[t] = round[u] => t = u
  BY <1>1, <1>2
<1>6. IsFiniteSet(1..n) /\ Cardinality(1..n) = n
  BY FS_Interval
<1>7. ASSUME \A t \in A : Round(rank, t) <= n
      PROVE  Cardinality(A) <= n
  <2>1. B = A
    BY <1>7
  <2> HIDE DEF round, B
  <2>2. round \in Injection(B, 1..n)
    BY <1>4, <1>5, Fun_IsInj
  <2>3. Cardinality(B) <= Cardinality(1..n)
    BY <1>6, <2>2, FS_Injection
  <2> QED
    BY <1>6, <2>1, <2>3
<1>8. ASSUME n <= Cardinality(T), \A t \in T : Round(rank, t) <= n => t \in A
      PROVE  Cardinality(A) >= n
  <2>1. \A k \in 1..n : \E t \in B : round[t] = k
    <3> SUFFICES ASSUME NEW k \in 1..n
                 PROVE  \E t \in B : Round(rank, t) = k
      OBVIOUS
    <3>1. k \in 1..Cardinality(T)
      BY <1>1, <1>8
    <3>2. PICK t \in T : Round(rank, t) = k
      BY <1>1, <3>1
    <3> QED
      BY <1>8, <3>2
  <2> HIDE DEF round, B
  <2>2. round \in Surjection(B, 1..n)
    BY <1>4, <2>1, Fun_IsSurj
  <2>3. Cardinality(1..n) <= Cardinality(B)
    BY <1>3, <2>2, FS_Surjection
  <2> QED
    BY <1>3, <1>6, <2>3
<1> QED
  BY <1>3, <1>7, <1>8 DEF T

\* What is chosen of a worker's tasks is within its capacity.
LEMMA WithinCapacity ==
  ASSUME NEW S \in SUBSET Tasks, NEW rank \in Rankings(S), NEW limit \in Nat, NEW capacity,
         NEW w \in DOMAIN capacity, capacity[w] \in Nat
  PROVE  Cardinality(Of(Chosen(rank, limit, capacity), w)) <= capacity[w]
<1> DEFINE A == Of(Chosen(rank, limit, capacity), w)
<1>1. DOMAIN rank = S
  BY DEF Rankings
<1>2. A \in SUBSET Of(S, w) /\ \A t \in A : Round(rank, t) <= capacity[w]
  BY <1>1 DEF Of, Chosen, OpenTo
<1> HIDE DEF A
<1> QED
  BY <1>2, RoundsCount DEF A

\* If more of w's tasks could have been chosen, no other worker has more than one task more.
LEMMA TurnsAreFair ==
  ASSUME NEW S \in SUBSET Tasks, NEW rank \in Rankings(S), NEW limit \in Nat, NEW capacity,
         \A x \in DOMAIN capacity : capacity[x] \in Nat, NEW w, NEW v,
         LET mine == Cardinality(Of(Chosen(rank, limit, capacity), w))
         IN  /\ mine # Cardinality(Of(S, w))
             /\ w \in DOMAIN capacity => mine < capacity[w]
  PROVE  Cardinality(Of(Chosen(rank, limit, capacity), v)) <=
           Cardinality(Of(Chosen(rank, limit, capacity), w)) + 1
<1> DEFINE first == Chosen(rank, limit, capacity)
           open == OpenTo(rank, capacity)
           A == Of(first, w)
           B == Of(first, v)
           k == Cardinality(A)
<1>1. /\ \A t \in first, u \in open : TakenBefore(rank, u, t) => u \in first
      /\ first \subseteq open /\ open \subseteq S
  BY BatchIsChosen
<1>2. A \in SUBSET Of(S, w) /\ B \in SUBSET Of(S, v)
  BY <1>1 DEF Of
<1>3. IsFiniteSet(Of(S, w)) /\ Cardinality(Of(S, w)) \in Nat
  BY RoundsAreNumbered
<1>4. k \in Nat /\ k < Cardinality(Of(S, w)) /\ (w \in DOMAIN capacity => k + 1 <= capacity[w])
  <2>1. k \in Nat /\ k <= Cardinality(Of(S, w))
    <3> HIDE DEF A
    <3> QED
      BY <1>2, <1>3, FS_Subset, FS_CardinalityType
  <2>2. k # Cardinality(Of(S, w)) /\ (w \in DOMAIN capacity => k < capacity[w])
    OBVIOUS
  <2> HIDE DEF k
  <2> QED
    BY <1>3, <2>1, <2>2
<1>5. DOMAIN rank = S
  BY DEF Rankings
<1>6. \A t \in S : Round(rank, t) \in Nat
  BY RoundsDiffer
<1>7. PICK u \in Of(S, w) : Round(rank, u) = k + 1
  <2> HIDE DEF k
  <2>1. k + 1 \in 1..Cardinality(Of(S, w))
    BY <1>3, <1>4
  <2> QED
    BY <2>1, RoundsAreNumbered
<1>8. \A t \in Of(S, w) : Round(rank, t) <= k + 1 => t \in open
  <2> HIDE DEF k
  <2> QED
    BY <1>4, <1>5, <1>6 DEF Of, OpenTo
<1>9. u \notin first
  <2> SUFFICES ASSUME u \in first
               PROVE  FALSE
    OBVIOUS
  <2>1. ASSUME NEW t \in Of(S, w), Round(rank, t) <= k + 1
        PROVE  t \in A
    <3>1. t = u \/ TakenBefore(rank, t, u)
      <4>1. t \in S /\ u \in S /\ Round(rank, t) \in Nat
        BY <1>6 DEF Of
      <4>2. t # u => Round(rank, t) # Round(rank, u)
        BY RoundsAreNumbered
      <4> HIDE DEF k
      <4> QED
        BY <1>4, <1>7, <2>1, <4>1, <4>2 DEF TakenBefore
    <3>2. t \in first
      BY <1>1, <1>8, <2>1, <3>1
    <3> QED
      BY <3>2 DEF Of
  <2>2. k + 1 \in Nat /\ k + 1 <= Cardinality(Of(S, w))
    <3> HIDE DEF k
    <3> QED
      BY <1>3, <1>4
  <2>3. Cardinality(A) >= k + 1
    <3> HIDE DEF A, k
    <3> QED
      BY <1>2, <2>1, <2>2, RoundsCount
  <2> HIDE DEF A
  <2> QED
    BY <1>4, <2>3
<1>10. ASSUME NEW t \in B
       PROVE  Round(rank, t) <= k + 1
  <2> SUFFICES ASSUME ~(Round(rank, t) <= k + 1)
               PROVE  FALSE
    OBVIOUS
  <2>1. t \in first /\ t \in S
    BY <1>1 DEF Of
  <2>2. Round(rank, u) < Round(rank, t)
    <3> HIDE DEF k
    <3> QED
      BY <1>4, <1>6, <1>7, <2>1
  <2>3. u \in open
    <3> HIDE DEF k
    <3> QED
      BY <1>4, <1>7, <1>8
  <2> QED
    BY <1>1, <1>9, <2>1, <2>2, <2>3 DEF TakenBefore
<1> HIDE DEF B, k, A
<1>11. Cardinality(B) <= k + 1
  <2>1. k + 1 \in Nat /\ B \in SUBSET Of(S, v)
    BY <1>2, <1>4
  <2>2. \A t \in B : Round(rank, t) <= k + 1
    BY <1>10
  <2> QED
    BY <2>1, <2>2, RoundsCount
<1> QED
  BY <1>11 DEF B, k, A

\* If fewer are chosen than were asked for, a worker whose task is left has no capacity left.
LEMMA LeftForCapacity ==
  ASSUME NEW S \in SUBSET Tasks, NEW rank \in Rankings(S), NEW limit \in Nat, NEW capacity,
         \A x \in DOMAIN capacity : capacity[x] \in Nat,
         Len(SelectRankedBatch(rank, limit, capacity)) < limit,
         NEW t \in S, t \notin Chosen(rank, limit, capacity)
  PROVE  /\ WorkerOf[t] \in DOMAIN capacity
         /\ Cardinality(Of(Chosen(rank, limit, capacity), WorkerOf[t])) >= capacity[WorkerOf[t]]
<1> DEFINE first == Chosen(rank, limit, capacity)
           w == WorkerOf[t]
           A == Of(first, w)
<1>1. first = OpenTo(rank, capacity) /\ first \subseteq S
  BY BatchIsChosen
<1>2. DOMAIN rank = S
  BY DEF Rankings
<1>3. w \in DOMAIN capacity /\ ~(Round(rank, t) <= capacity[w])
  BY <1>1, <1>2 DEF OpenTo
<1>4. t \in Of(S, w)
  BY DEF Of
<1>5. capacity[w] \in Nat /\ capacity[w] <= Cardinality(Of(S, w))
  BY <1>3, <1>4, RoundsAreNumbered
<1>6. A \in SUBSET Of(S, w) /\ \A x \in Of(S, w) : Round(rank, x) <= capacity[w] => x \in A
  BY <1>1, <1>2 DEF Of, OpenTo
<1> HIDE DEF A, w, first
<1>7. Cardinality(A) >= capacity[w]
  BY <1>5, <1>6, RoundsCount
<1> QED
  BY <1>3, <1>7 DEF A, w, first

\* How many tasks of a worker a batch has.
LEMMA BatchCount ==
  ASSUME NEW S \in SUBSET Tasks, NEW rank \in Rankings(S), NEW limit \in Nat, NEW capacity, NEW w
  PROVE  InBatch(SelectRankedBatch(rank, limit, capacity), w)
           = Cardinality(Of(Chosen(rank, limit, capacity), w))
<1> DEFINE first == Chosen(rank, limit, capacity)
           batch == SelectRankedBatch(rank, limit, capacity)
           I == {i \in DOMAIN batch : WorkerOf[batch[i]] = w}
           T == Of(first, w)
           task == [i \in I |-> batch[i]]
<1>1. /\ batch \in Seq(first) /\ first \subseteq S
      /\ \A i, j \in DOMAIN batch : batch[i] = batch[j] => i = j
      /\ \A t \in first : \E i \in DOMAIN batch : batch[i] = t
  BY BatchIsChosen
<1> HIDE DEF batch, first
<1>2. \A i \in DOMAIN batch : batch[i] \in first
  BY <1>1
<1>3. task \in [I -> T]
  BY <1>2 DEF Of
<1>4. \A i, j \in I : task[i] = task[j] => i = j
  BY <1>1
<1>5. \A t \in T : \E i \in I : task[i] = t
  BY <1>1 DEF Of
<1>6. IsFiniteSet(T)
  BY <1>1, TasksFinite, FS_Subset DEF Of
<1>7. InBatch(batch, w) = Cardinality(I)
  BY DEF InBatch
<1> HIDE DEF task, I, T
<1>8. task \in Injection(I, T) /\ task \in Surjection(I, T)
  BY <1>3, <1>4, <1>5, Fun_IsInj, Fun_IsSurj
<1>9. Cardinality(I) = Cardinality(T)
  BY <1>6, <1>8, FS_Injection
<1> QED
  BY <1>7, <1>9 DEF batch, T, first

\* A batch that gets one more task.
LEMMA CountOneMore ==
  ASSUME NEW s \in Seq(Tasks), NEW w
  PROVE  /\ InBatch(s, w) \in Nat
         /\ \A t \in Tasks : InBatch(Append(s, t), w) = InBatch(s, w) + (IF WorkerOf[t] = w THEN 1 ELSE 0)
<1> DEFINE I == {i \in DOMAIN s : WorkerOf[s[i]] = w}
<1>1. InBatch(s, w) = Cardinality(I)
  BY DEF InBatch
<1>2. Len(s) \in Nat /\ DOMAIN s = 1..Len(s) /\ I \in SUBSET (1..Len(s))
  OBVIOUS
<1>3. IsFiniteSet(I) /\ Cardinality(I) \in Nat
  <2>1. IsFiniteSet(1..Len(s))
    BY <1>2, FS_Interval
  <2> QED
    BY <1>2, <2>1, FS_Subset, FS_CardinalityType
<1>4. ASSUME NEW t \in Tasks
      PROVE  InBatch(Append(s, t), w) = Cardinality(I) + (IF WorkerOf[t] = w THEN 1 ELSE 0)
  <2> DEFINE more == Append(s, t)
             J == {i \in DOMAIN more : WorkerOf[more[i]] = w}
  <2>1. InBatch(more, w) = Cardinality(J)
    BY DEF InBatch
  <2>2. /\ DOMAIN more = 1..(Len(s) + 1) /\ more[Len(s) + 1] = t
        /\ \A i \in DOMAIN s : more[i] = s[i]
    OBVIOUS
  <2> HIDE DEF more
  <2>3. J = IF WorkerOf[t] = w THEN I \cup {Len(s) + 1} ELSE I
    BY <1>2, <2>2
  <2>4. Len(s) + 1 \notin I
    BY <1>2
  <2> HIDE DEF I, J
  <2>5. Cardinality(J) = Cardinality(I) + (IF WorkerOf[t] = w THEN 1 ELSE 0)
    <3>1. Cardinality(I \cup {Len(s) + 1}) = Cardinality(I) + 1
      BY <1>3, <2>4, FS_AddElement
    <3> QED
      BY <1>3, <2>3, <3>1
  <2> QED
    BY <2>1, <2>5 DEF more
<1> QED
  BY <1>1, <1>3, <1>4

\* Without its first task, it has one less of that task's worker.
LEMMA CountOneLess ==
  ASSUME NEW s \in Seq(Tasks), s # <<>>, NEW w
  PROVE  InBatch(s, w) = InBatch(Tail(s), w) + (IF WorkerOf[Head(s)] = w THEN 1 ELSE 0)
<1> DEFINE I == {i \in DOMAIN s : WorkerOf[s[i]] = w}
           J == {i \in 1..(Len(s) - 1) : WorkerOf[s[i + 1]] = w}
           later == [i \in J |-> i + 1]
<1>1. Len(s) \in Nat \ {0} /\ DOMAIN s = 1..Len(s) /\ Head(s) = s[1] /\ I \in SUBSET (1..Len(s))
  OBVIOUS
<1>2. InBatch(s, w) = Cardinality(I)
  BY DEF InBatch
<1>3. InBatch(Tail(s), w) = Cardinality(J)
  <2>1. DOMAIN Tail(s) = 1..(Len(s) - 1) /\ \A i \in 1..(Len(s) - 1) : Tail(s)[i] = s[i + 1]
    BY <1>1
  <2>2. J = {i \in DOMAIN Tail(s) : WorkerOf[Tail(s)[i]] = w}
    BY <2>1
  <2> QED
    BY <2>2 DEF InBatch
<1>4. IsFiniteSet(I)
  <2>1. IsFiniteSet(1..Len(s))
    BY <1>1, FS_Interval
  <2> QED
    BY <1>1, <2>1, FS_Subset
<1>5. IsFiniteSet(I \ {1}) /\ Cardinality(I \ {1}) = IF 1 \in I THEN Cardinality(I) - 1 ELSE Cardinality(I)
  BY <1>4, FS_RemoveElement
<1>6. Cardinality(J) = Cardinality(I \ {1})
  <2>1. later \in [J -> I \ {1}]
    BY <1>1
  <2>2. \A i, j \in J : later[i] = later[j] => i = j
    BY <1>1
  <2>3. \A k \in I \ {1} : \E i \in J : later[i] = k
    <3> SUFFICES ASSUME NEW k \in I \ {1}
                 PROVE  \E i \in J : i + 1 = k
      OBVIOUS
    <3>1. k - 1 \in J /\ (k - 1) + 1 = k
      BY <1>1
    <3> QED
      BY <3>1
  <2> HIDE DEF later, J, I
  <2>4. later \in Injection(J, I \ {1}) /\ later \in Surjection(J, I \ {1})
    BY <2>1, <2>2, <2>3, Fun_IsInj, Fun_IsSurj
  <2> QED
    BY <1>5, <2>4, FS_Injection
<1>7. 1 \in I <=> WorkerOf[Head(s)] = w
  BY <1>1
<1>8. Cardinality(I) \in Nat
  BY <1>4, FS_CardinalityType
<1> HIDE DEF I, J
<1> QED
  BY <1>2, <1>3, <1>5, <1>6, <1>7, <1>8

\* An empty batch has none.
LEMMA CountNone == \A w : InBatch(<<>>, w) = 0
<1>1. \A w : {i \in DOMAIN <<>> : WorkerOf[<<>>[i]] = w} = {}
  OBVIOUS
<1> QED
  BY <1>1, FS_EmptySet DEF InBatch

\* With room for everything, the most urgent tasks are all of them.
LEMMA AllAreUrgent ==
  ASSUME NEW S \in SUBSET Tasks, NEW n \in Int, Cardinality(S) <= n
  PROVE  FirstOf(S, n, MoreUrgent) = S
<1> DEFINE pred == [t \in S |-> {u \in S : MoreUrgent(u, t)}]
<1>1. IsFiniteSet(S) /\ Cardinality(S) \in Nat
  BY TasksFinite, FS_Subset, FS_CardinalityType
<1>2. Orders(pred, S)
  BY OrdersAssumption DEF Orders, MoreUrgent
<1>3. \A t \in S : pred[t] = {u \in S : MoreUrgent(u, t)}
  OBVIOUS
<1> HIDE DEF pred
<1>4. \A t \in S : Cardinality(pred[t]) \in Nat /\ Cardinality(pred[t]) < Cardinality(S)
  BY <1>1, <1>2, PlaceBelow
<1>5. ASSUME NEW t \in S
      PROVE  Cardinality({u \in S : MoreUrgent(u, t)}) < n
  <2>1. Cardinality(pred[t]) < n
    BY <1>1, <1>4
  <2>2. pred[t] = {u \in S : MoreUrgent(u, t)}
    BY <1>3
  <2> QED
    BY <2>1, <2>2
<1> QED
  BY <1>5 DEF FirstOf

\* A shortlist that is long enough offers every ready task.
LEMMA ShortlistOffersAll ==
  ASSUME NEW ready \in SUBSET Tasks, NEW limit \in Nat, Cardinality(ready) <= limit
  PROVE  Shortlist(ready, limit) = ready
<1> DEFINE n == FairLaneLimits(limit)
           lanes == FirstOf(ready, n.top, MoreUrgent)
                      \cup FirstOf(ready, n.oldest, Older)
                      \cup FirstOf(ready \cap Exploring, n.exploration, Older)
                      \cup FirstOf(ready, n.tail, LessUrgent)
           rest == FirstOf(ready, limit, MoreUrgent) \ lanes
<1>1. lanes \subseteq ready
  BY DEF FirstOf
<1>2. Shortlist(ready, limit) = lanes \cup FirstOf(rest, limit - Cardinality(lanes), MoreUrgent)
  BY DEF Shortlist
<1> HIDE DEF lanes
<1>3. rest = ready \ lanes
  BY AllAreUrgent
<1>4. IsFiniteSet(ready) /\ IsFiniteSet(lanes) /\ Cardinality(lanes) \in Nat /\ Cardinality(ready) \in Nat
  BY <1>1, TasksFinite, FS_Subset, FS_CardinalityType
<1>5. Cardinality(rest) = Cardinality(ready) - Cardinality(lanes)
  <2>1. ready \cap lanes = lanes
    BY <1>1
  <2> QED
    BY <1>3, <1>4, <2>1, FS_Difference
<1> HIDE DEF rest
<1>6. FirstOf(rest, limit - Cardinality(lanes), MoreUrgent) = rest
  BY <1>3, <1>4, <1>5, AllAreUrgent
<1> QED
  BY <1>1, <1>2, <1>3, <1>6

----------------------------------------------------------------------------
(* Slots and counts.                                                       *)

Execution == [task : Tasks, result : Results \cup {None}]

\* A slot is free or has an execution, and a worker's count is how many it has.
SlotsInv ==
  /\ slots \in [SlotIds -> {None} \cup Execution]
  /\ byWorker = [w \in Workers |-> RunningOf(w)]

\* The executions of a worker among some slots.
Run(S, w) == {s \in S : WorkerOf[slots[s].task] = w}

\* There are finitely many slots.
LEMMA SlotsFinite ==
  /\ IsFiniteSet(SlotIds)
  /\ \A S \in SUBSET SlotIds : IsFiniteSet(S) /\ Cardinality(S) \in Nat
  /\ Free \subseteq SlotIds /\ Busy \subseteq SlotIds /\ Done \subseteq Busy
<1>1. IsFiniteSet(SlotIds)
  BY LimitNat, FS_Interval DEF SlotIds
<1> QED
  BY <1>1, FS_Subset, FS_CardinalityType DEF Free, Busy, Done

\* So a worker has a number of executions.
LEMMA RunningIsNumber == \A w : RunningOf(w) \in Nat /\ RunningOf(w) = Cardinality(Run(Busy, w))
<1>1. \A w : Run(Busy, w) \in SUBSET SlotIds
  BY SlotsFinite DEF Run
<1> QED
  BY <1>1, SlotsFinite DEF RunningOf, Run

\* None is no execution.
LEMMA NoneIsNoExecution == None \notin Execution
BY NoneAssumption DEF Execution, Results

\* The i-th free slot.
LEMMA FreeInOrder ==
  ASSUME NEW i \in 1..Cardinality(Free)
  PROVE  SlotOf(i) \in Free /\ Cardinality({f \in Free : f <= SlotOf(i)}) = i
<1> DEFINE pred == [s \in Free |-> {f \in Free : f < s}]
<1>1. IsFiniteSet(Free) /\ Cardinality(Free) \in Nat /\ \A s \in Free : s \in Int
  BY SlotsFinite DEF SlotIds
<1>2. Orders(pred, Free)
  BY <1>1 DEF Orders
<1>3. i - 1 \in 0..(Cardinality(Free) - 1)
  BY <1>1
<1>4. \E s \in Free : Cardinality(pred[s]) = i - 1
  <2> HIDE DEF pred
  <2> QED
    BY <1>1, <1>2, <1>3, EveryPlaceIsTaken
<1>5. PICK s \in Free : Cardinality(pred[s]) = i - 1
  BY <1>4
<1> DEFINE upTo == {f \in Free : f <= s}
<1>6. upTo = pred[s] \cup {s} /\ s \notin pred[s] /\ pred[s] \in SUBSET Free
  BY <1>1
<1>7. Cardinality(upTo) = i
  <2> HIDE DEF pred, upTo
  <2>1. IsFiniteSet(pred[s])
    BY <1>1, <1>6, FS_Subset
  <2>2. Cardinality(pred[s] \cup {s}) = Cardinality(pred[s]) + 1
    BY <1>6, <2>1, FS_AddElement
  <2> QED
    BY <1>1, <1>5, <1>6, <2>2
<1> HIDE DEF pred
<1>8. \E x \in Free : Cardinality({f \in Free : f <= x}) = i
  BY <1>7
<1> QED
  BY <1>8, Zenon DEF SlotOf

\* Every ticket gets a free slot of its own, if there are enough.
LEMMA DispatchFillsSlots ==
  ASSUME SlotsInv, LoopInv, Dispatch, Len(loop.tickets) <= Cardinality(Free)
  PROVE  /\ SlotsInv'
         /\ \A w \in Workers : RunningOf(w)' = RunningOf(w) + InBatch(loop.tickets, w)
<1> DEFINE tickets == loop.tickets
           I == DOMAIN tickets
           slot(i) == SlotOf(i)
<1>1. tickets \in Seq(Tasks) /\ I = 1..Len(tickets) /\ Len(tickets) \in Nat /\ Cardinality(Free) \in Nat
  BY SlotsFinite DEF LoopInv, LoopType
<1>2. \A i \in I : i \in 1..Cardinality(Free)
  BY <1>1
<1>3. \A i \in I : slot(i) \in Free
  BY <1>2, FreeInOrder
<1>4. \A i, j \in I : slot(i) = slot(j) => i = j
  BY <1>2, FreeInOrder
<1>5. slots' = [s \in SlotIds |->
                  IF \E i \in I : slot(i) = s
                  THEN [task |-> tickets[CHOOSE i \in I : slot(i) = s], result |-> None]
                  ELSE slots[s]]
  BY DEF Dispatch
<1>6. byWorker' = [w \in Workers |-> byWorker[w] + InBatch(tickets, w)]
  BY DEF Dispatch, InBatch
<1>7. Free \subseteq SlotIds
  BY SlotsFinite
<1> HIDE DEF slot, tickets
<1>8. ASSUME NEW i \in I
      PROVE  slots'[slot(i)] = [task |-> tickets[i], result |-> None]
  <2>1. (CHOOSE j \in I : slot(j) = slot(i)) = i
    BY <1>4
  <2>2. slot(i) \in SlotIds
    BY <1>3, <1>7
  <2> HIDE DEF I
  <2> QED
    BY <1>5, <2>1, <2>2
<1>9. \A s \in SlotIds : (\A i \in I : slot(i) # s) => slots'[s] = slots[s]
  BY <1>5
<1>10. \A i \in I : tickets[i] \in Tasks
  BY <1>1
<1> HIDE DEF I
<1>11. \A i \in I : [task |-> tickets[i], result |-> None] \in Execution
  BY <1>10 DEF Execution
<1>12. slots' \in [SlotIds -> {None} \cup Execution]
  <2>1. slots' = [s \in SlotIds |-> slots'[s]]
    BY <1>5
  <2>2. \A s \in SlotIds : slots'[s] \in {None} \cup Execution
    BY <1>8, <1>9, <1>11 DEF SlotsInv
  <2> QED
    BY <2>1, <2>2
<1> DEFINE new == {slot(i) : i \in I}
<1>13. Free' = Free \ new
  <2>1. \A s \in SlotIds : slots'[s] = None <=> s \in Free /\ s \notin new
    BY <1>3, <1>8, <1>9, <1>11, NoneIsNoExecution DEF Free
  <2> QED
    BY <2>1, <1>7 DEF Free
<1>14. Busy' = Busy \cup new
  BY <1>3, <1>7, <1>13 DEF Busy
<1>15. ASSUME NEW w \in Workers
       PROVE  RunningOf(w)' = RunningOf(w) + InBatch(tickets, w)
  <2> DEFINE J == {i \in I : WorkerOf[tickets[i]] = w}
             mine == {slot(i) : i \in J}
             old == Run(Busy, w)
             place == [i \in J |-> slot(i)]
  <2>1. {s \in Busy' : WorkerOf[slots'[s].task] = w} = old \cup mine
    <3>1. \A s \in Busy : slots'[s] = slots[s]
      BY <1>3, <1>9, SlotsFinite DEF Busy
    <3>2. ASSUME NEW i \in I
          PROVE  slots'[slot(i)].task = tickets[i]
      <4>1. slots'[slot(i)] = [task |-> tickets[i], result |-> None]
        BY <1>8
      <4> QED
        BY <4>1
    <3> QED
      BY <1>14, <3>1, <3>2 DEF Run
  <2>2. old \cap mine = {}
    BY <1>3 DEF Run, Busy
  <2>3. old \in SUBSET SlotIds /\ mine \in SUBSET SlotIds
    BY <1>3, <1>7, SlotsFinite DEF Run
  <2>4. IsFiniteSet(old) /\ IsFiniteSet(mine) /\ Cardinality(old) \in Nat /\ Cardinality(mine) \in Nat
    <3> HIDE DEF old, mine
    <3> QED
      BY <2>3, SlotsFinite
  <2>5. Cardinality(J) = Cardinality(mine)
    <3>1. place \in [J -> mine] /\ (\A i, j \in J : place[i] = place[j] => i = j)
          /\ \A s \in mine : \E i \in J : place[i] = s
      BY <1>4
    <3> HIDE DEF J, mine, place
    <3>2. place \in Injection(J, mine) /\ place \in Surjection(J, mine)
      BY <3>1, Fun_IsInj, Fun_IsSurj
    <3> QED
      BY <2>4, <3>2, FS_Injection
  <2>6. InBatch(tickets, w) = Cardinality(J)
    BY DEF InBatch, I
  <2>7. RunningOf(w)' = Cardinality(old \cup mine)
    BY <2>1 DEF RunningOf
  <2>8. RunningOf(w) = Cardinality(old)
    BY RunningIsNumber
  <2>9. Cardinality({}) = 0
    BY FS_EmptySet
  <2> HIDE DEF old, mine, J
  <2>10. Cardinality(old \cup mine) = Cardinality(old) + Cardinality(mine)
    <3>1. Cardinality(old \cup mine) = Cardinality(old) + Cardinality(mine) - Cardinality(old \cap mine)
      BY <2>4, FS_Union
    <3>2. Cardinality(old \cap mine) = 0
      BY <2>2, <2>9, Zenon
    <3> QED
      BY <2>4, <3>1, <3>2
  <2> QED
    BY <2>5, <2>6, <2>7, <2>8, <2>10
<1>16. byWorker' = [w \in Workers |-> RunningOf(w)']
  BY <1>6, <1>15 DEF SlotsInv
<1> QED
  BY <1>12, <1>15, <1>16 DEF SlotsInv, tickets

\* A collection takes the executions that have ended out of slots and counts.
LEMMA CollectEmptiesSlots ==
  ASSUME SlotsInv, Collect
  PROVE  /\ SlotsInv'
         /\ \A w \in Workers : RunningOf(w)' <= RunningOf(w)
<1>1. /\ slots' = [s \in SlotIds |-> IF s \in Done THEN None ELSE slots[s]]
      /\ byWorker' = [w \in Workers |-> byWorker[w] - Cardinality(Run(Done, w))]
  BY DEF Collect, Run
<1>2. slots' \in [SlotIds -> {None} \cup Execution]
  BY <1>1 DEF SlotsInv
<1>3. Busy' = Busy \ Done
  BY <1>1, SlotsFinite DEF Busy, Free
<1>4. ASSUME NEW w \in Workers
      PROVE  /\ RunningOf(w)' = RunningOf(w) - Cardinality(Run(Done, w))
             /\ RunningOf(w)' <= RunningOf(w)
  <2> DEFINE old == Run(Busy, w)
             gone == Run(Done, w)
  <2>1. {s \in Busy' : WorkerOf[slots'[s].task] = w} = old \ gone
    BY <1>1, <1>3, SlotsFinite DEF Run
  <2>2. gone \subseteq old /\ old \cap gone = gone /\ old \in SUBSET SlotIds /\ gone \in SUBSET SlotIds
    BY SlotsFinite DEF Run
  <2>3. IsFiniteSet(old) /\ Cardinality(old) \in Nat /\ Cardinality(gone) \in Nat
    <3> HIDE DEF old, gone
    <3> QED
      BY <2>2, SlotsFinite
  <2>4. RunningOf(w)' = Cardinality(old \ gone)
    BY <2>1 DEF RunningOf
  <2>5. RunningOf(w) = Cardinality(old)
    BY RunningIsNumber
  <2> HIDE DEF old, gone
  <2>6. Cardinality(old \ gone) = Cardinality(old) - Cardinality(gone)
    BY <2>2, <2>3, FS_Difference
  <2>7. RunningOf(w)' = RunningOf(w) - Cardinality(gone) /\ RunningOf(w)' <= RunningOf(w)
    BY <2>3, <2>4, <2>5, <2>6
  <2> QED
    BY <2>7 DEF gone
<1>5. byWorker' = [w \in Workers |-> RunningOf(w)']
  BY <1>1, <1>4 DEF SlotsInv
<1> QED
  BY <1>2, <1>4, <1>5 DEF SlotsInv

\* The end of an execution leaves its slot taken.
LEMMA EndKeepsSlot ==
  ASSUME SlotsInv, NEW s \in SlotIds, EndExecution(s)
  PROVE  SlotsInv' /\ Free' = Free /\ \A w : RunningOf(w)' = RunningOf(w)
<1>1. PICK result \in Results : slots' = [slots EXCEPT ![s].result = result]
  BY DEF EndExecution, Result, Results
<1>2. s \in Busy /\ slots[s] \in Execution
  BY DEF EndExecution, Executing, Busy, Free, SlotsInv
<1>3. [slots[s] EXCEPT !.result = result] \in Execution /\ [slots[s] EXCEPT !.result = result].task = slots[s].task
  BY <1>2 DEF Execution
<1>4. slots' \in [SlotIds -> {None} \cup Execution]
  BY <1>1, <1>3 DEF SlotsInv
<1>5. Free' = Free
  BY <1>1, <1>2, <1>3, NoneIsNoExecution DEF SlotsInv, Free, Busy
<1>6. \A x \in SlotIds : x \in Busy => slots'[x].task = slots[x].task
  BY <1>1, <1>3 DEF SlotsInv
<1>7. Busy' = Busy /\ Busy \subseteq SlotIds
  BY <1>5 DEF Busy
<1>8. ASSUME NEW w
      PROVE  RunningOf(w)' = RunningOf(w)
  <2>1. {x \in Busy' : WorkerOf[slots'[x].task] = w} = {x \in Busy : WorkerOf[slots[x].task] = w}
    BY <1>6, <1>7
  <2> QED
    BY <2>1 DEF RunningOf
<1>9. byWorker' = byWorker
  BY DEF EndExecution
<1> QED
  BY <1>4, <1>5, <1>8, <1>9 DEF SlotsInv

\* With nothing in the slots nobody has executions.
LEMMA EmptySlots ==
  ASSUME slots = [s \in SlotIds |-> None]
  PROVE  Free = SlotIds /\ \A w : RunningOf(w) = 0
<1>1. Free = SlotIds /\ Busy = {}
  BY DEF Free, Busy
<1>2. \A w : {s \in Busy : WorkerOf[slots[s].task] = w} = {}
  BY <1>1
<1> QED
  BY <1>1, <1>2, FS_EmptySet DEF RunningOf

----------------------------------------------------------------------------
(* Rows.                                                                   *)

RowType == [status : Open \cup Terminal \cup {"ABSENT", "RUNNING", "REVIEW"},
            attempts : 0..MaxAttempts, wait : Nat, cased : BOOLEAN]

RowsInv == row \in [Tasks -> RowType] /\ patience \in 0..Patience

\* The chosen tasks differ, have an attempt left, and with the tickets fit the free slots
\* and their workers' limits.
BatchInv ==
  /\ Len(loop.tickets) + Len(loop.todo) <= Cardinality(Free)
  /\ \A w \in DOMAIN WorkerLimit :
       RunningOf(w) + InBatch(loop.tickets, w) + InBatch(loop.todo, w) <= WorkerLimit[w]
  /\ \A i, j \in DOMAIN loop.todo : loop.todo[i] = loop.todo[j] => i = j
  /\ \A i \in DOMAIN loop.todo : row[loop.todo[i]].attempts < MaxAttempts

FrontierInv == LoopInv /\ SlotsInv /\ RowsInv /\ BatchInv /\ loop.nap \in 0..MaxDeferredWait

\* What may be written into a row.
LEMMA RowWrites ==
  ASSUME NEW r \in RowType
  PROVE  /\ \A s \in Open \cup Terminal \cup {"RUNNING", "REVIEW"} : [r EXCEPT !.status = s] \in RowType
         /\ \A d \in Delays : [r EXCEPT !.status = "DEFERRED", !.wait = d] \in RowType
         /\ [r EXCEPT !.status = "REVIEW", !.cased = TRUE] \in RowType
         /\ [r EXCEPT !.wait = Minus1(@)] \in RowType
         /\ r.attempts < MaxAttempts => [r EXCEPT !.status = "RUNNING", !.attempts = @ + 1] \in RowType
<1> DEFINE Statuses == Open \cup Terminal \cup {"ABSENT", "RUNNING", "REVIEW"}
<1>1. "DEFERRED" \in Statuses /\ "REVIEW" \in Statuses /\ "RUNNING" \in Statuses
      /\ Open \cup Terminal \cup {"RUNNING", "REVIEW"} \subseteq Statuses
  BY DEF Open
<1>2. Delays \subseteq Nat /\ MaxAttempts \in Nat
  BY DispatchAssumption
<1>3. RowType = [status : Statuses, attempts : 0..MaxAttempts, wait : Nat, cased : BOOLEAN]
  BY DEF RowType
<1> HIDE DEF Statuses
<1>4. r.wait \in Nat => Minus1(r.wait) \in Nat
  BY DEF Minus1
<1>5. /\ \A s \in Open \cup Terminal \cup {"RUNNING", "REVIEW"} : [r EXCEPT !.status = s] \in RowType
      /\ \A d \in Delays : [r EXCEPT !.status = "DEFERRED", !.wait = d] \in RowType
      /\ [r EXCEPT !.status = "REVIEW", !.cased = TRUE] \in RowType
  BY <1>1, <1>2, <1>3
<1>6. [r EXCEPT !.wait = Minus1(@)] \in RowType
  BY <1>3, <1>4
<1>7. r.attempts < MaxAttempts => [r EXCEPT !.status = "RUNNING", !.attempts = @ + 1] \in RowType
  <2> SUFFICES ASSUME r.attempts < MaxAttempts
               PROVE  [r EXCEPT !.status = "RUNNING", !.attempts = @ + 1] \in RowType
    OBVIOUS
  <2>1. r.attempts + 1 \in 0..MaxAttempts
    BY <1>2, <1>3
  <2> QED
    BY <1>1, <1>3, <2>1
<1> QED
  BY <1>5, <1>6, <1>7

\* No step but an admission counts an attempt.
AttemptsKept == \A t \in Tasks : row'[t].attempts = row[t].attempts

\* A step that writes one row.
LEMMA OneRowWritten ==
  ASSUME RowsInv, NEW t \in Tasks, NEW new \in RowType, row' = [row EXCEPT ![t] = new]
  PROVE  /\ row' \in [Tasks -> RowType]
         /\ new.attempts = row[t].attempts => AttemptsKept
BY DEF RowsInv, AttemptsKept

\* The steps of executions, the operator and time.
LEMMA OthersWriteRows ==
  ASSUME RowsInv, SlotsInv,
         \/ \E s \in SlotIds : EndExecution(s) \/ \E u \in Tasks : Discover(s, u)
         \/ \E t \in Tasks : Settle(t)
         \/ Tick
  PROVE  RowsInv' /\ AttemptsKept
<1>0. patience' = patience
  BY DEF EndExecution, Discover, Settle, Tick
<1>1. ASSUME NEW t \in Tasks,
             \/ \E s \in Open \cup Terminal \cup {"RUNNING", "REVIEW"} :
                  row' = [row EXCEPT ![t].status = s]
             \/ \E d \in Delays : row' = [row EXCEPT ![t].status = "DEFERRED", ![t].wait = d]
             \/ UNCHANGED row
      PROVE  RowsInv' /\ AttemptsKept
  <2>0. row[t] \in RowType
    BY DEF RowsInv
  <2>1. CASE \E s \in Open \cup Terminal \cup {"RUNNING", "REVIEW"} : row' = [row EXCEPT ![t].status = s]
    <3>1. PICK s \in Open \cup Terminal \cup {"RUNNING", "REVIEW"} : row' = [row EXCEPT ![t].status = s]
      BY <2>1
    <3> DEFINE new == [row[t] EXCEPT !.status = s]
    <3>2. new \in RowType /\ row' = [row EXCEPT ![t] = new]
      BY <2>0, <3>1, RowWrites
    <3>3. new.attempts = row[t].attempts
      BY <2>0 DEF RowType
    <3> HIDE DEF new
    <3> QED
      BY <1>0, <3>2, <3>3, OneRowWritten DEF RowsInv
  <2>2. CASE \E d \in Delays : row' = [row EXCEPT ![t].status = "DEFERRED", ![t].wait = d]
    <3>1. PICK d \in Delays : row' = [row EXCEPT ![t].status = "DEFERRED", ![t].wait = d]
      BY <2>2
    <3> DEFINE new == [row[t] EXCEPT !.status = "DEFERRED", !.wait = d]
    <3>2. new \in RowType
      BY <2>0, RowWrites
    <3>3. row' = [row EXCEPT ![t] = new]
      BY <3>1 DEF RowsInv
    <3>4. new.attempts = row[t].attempts
      BY <2>0 DEF RowType
    <3> HIDE DEF new
    <3> QED
      BY <1>0, <3>2, <3>3, <3>4, OneRowWritten DEF RowsInv
  <2>3. CASE UNCHANGED row
    BY <1>0, <2>3 DEF RowsInv, AttemptsKept
  <2> QED
    BY <1>1, <2>1, <2>2, <2>3
<1>2. ASSUME NEW s \in SlotIds, EndExecution(s)
      PROVE  RowsInv' /\ AttemptsKept
  <2>1. slots[s].task \in Tasks
    BY <1>2 DEF EndExecution, Executing, Busy, Free, SlotsInv, Execution
  <2>2. \/ UNCHANGED row
        \/ row' = [row EXCEPT ![slots[s].task].status = "SUCCEEDED"]
        \/ row' = [row EXCEPT ![slots[s].task].status = "FAILED"]
        \/ \E d \in Delays : row' = [row EXCEPT ![slots[s].task].status = "DEFERRED",
                                                ![slots[s].task].wait = d]
    BY <1>2 DEF EndExecution
  <2> QED
    BY <1>1, <2>1, <2>2 DEF Terminal
<1>3. ASSUME NEW s \in SlotIds, NEW u \in Tasks, Discover(s, u)
      PROVE  RowsInv' /\ AttemptsKept
  BY <1>1, <1>3 DEF Discover, Open
<1>4. ASSUME NEW t \in Tasks, Settle(t)
      PROVE  RowsInv' /\ AttemptsKept
  BY <1>1, <1>4 DEF Settle, Open, Terminal
<1>5. CASE Tick
  <2>1. row' = [t \in Tasks |-> [row[t] EXCEPT !.wait = Minus1(@)]]
    BY <1>5 DEF Tick
  <2>2. \A t \in Tasks : [row[t] EXCEPT !.wait = Minus1(@)] \in RowType
                         /\ [row[t] EXCEPT !.wait = Minus1(@)].attempts = row[t].attempts
    <3>1. \A t \in Tasks : row[t] \in RowType
      BY DEF RowsInv
    <3> QED
      BY <3>1, RowWrites DEF RowType
  <2> QED
    BY <1>0, <2>1, <2>2 DEF RowsInv, AttemptsKept
<1> QED
  BY <1>2, <1>3, <1>4, <1>5

\* A batch is carried through a step that touches neither it nor slots and attempts.
LEMMA BatchCarried ==
  ASSUME LoopInv, BatchInv, loop'.todo = loop.todo, loop'.tickets = loop.tickets, Free' = Free,
         \A w : RunningOf(w)' = RunningOf(w), AttemptsKept
  PROVE  BatchInv'
<1>1. \A i \in DOMAIN loop.todo : loop.todo[i] \in Tasks
  BY DEF LoopInv, LoopType
<1> QED
  BY <1>1 DEF BatchInv, InBatch, AttemptsKept

\* With nothing chosen it is enough that slots and limits are respected.
LEMMA NoBatch ==
  ASSUME loop.todo = <<>>, loop.tickets = <<>>,
         \A w \in DOMAIN WorkerLimit : RunningOf(w) <= WorkerLimit[w]
  PROVE  BatchInv
<1>1. Cardinality(Free) \in Nat /\ Len(<<>>) = 0 /\ DOMAIN <<>> = {}
  BY SlotsFinite
<1>2. \A w \in DOMAIN WorkerLimit : RunningOf(w) + 0 + 0 <= WorkerLimit[w]
  BY RunningIsNumber, WorkerLimitAssumption
<1> QED
  BY <1>1, <1>2, CountNone DEF BatchInv

\* Nobody runs more than the limit, so the capacity of a worker is what is left of it.
LEMMA CapacityIsLeft ==
  ASSUME FrontierInv
  PROVE  /\ DOMAIN Capacities = DOMAIN WorkerLimit
         /\ \A w \in DOMAIN WorkerLimit :
              /\ RunningOf(w) \in Nat /\ RunningOf(w) <= WorkerLimit[w] /\ WorkerLimit[w] \in Nat
              /\ Capacities[w] \in Nat /\ Capacities[w] = WorkerLimit[w] - RunningOf(w)
<1>1. DOMAIN Capacities = DOMAIN WorkerLimit
  BY DEF Capacities
<1>2. ASSUME NEW w \in DOMAIN WorkerLimit
      PROVE  RunningOf(w) \in Nat /\ RunningOf(w) <= WorkerLimit[w] /\ WorkerLimit[w] \in Nat
  <2>1. loop.tickets \in Seq(Tasks) /\ loop.todo \in Seq(Tasks)
    BY DEF FrontierInv, LoopInv, LoopType
  <2>2. InBatch(loop.tickets, w) \in Nat /\ InBatch(loop.todo, w) \in Nat
    BY <2>1, CountOneMore
  <2>3. RunningOf(w) + InBatch(loop.tickets, w) + InBatch(loop.todo, w) <= WorkerLimit[w]
    BY DEF FrontierInv, BatchInv
  <2> QED
    BY <2>2, <2>3, RunningIsNumber, WorkerLimitAssumption
<1>3. ASSUME NEW w \in DOMAIN WorkerLimit
      PROVE  Capacities[w] \in Nat /\ Capacities[w] = WorkerLimit[w] - RunningOf(w)
  <2>1. byWorker[w] = RunningOf(w)
    BY WorkerLimitAssumption DEF FrontierInv, SlotsInv
  <2>2. Capacities[w] = IF byWorker[w] > WorkerLimit[w] THEN 0 ELSE WorkerLimit[w] - byWorker[w]
    BY DEF Capacities
  <2> QED
    BY <1>2, <2>1, <2>2
<1> QED
  BY <1>1, <1>2, <1>3

\* What a ranking asks for, and what it leaves.
LEMMA RankChooses ==
  ASSUME FrontierInv, Rank
  PROVE  LET S == Shortlist(Ready, CandidateLimit)
             size == Least(FreeSlots, BatchSize)
         IN  /\ S \in SUBSET Tasks /\ S \subseteq Ready
             /\ size \in Nat /\ size <= Cardinality(Free)
             /\ \E rank \in Rankings(S) : loop'.todo = SelectRankedBatch(rank, size, Capacities)
             /\ loop.tickets = <<>> /\ loop.todo = <<>> /\ loop'.tickets = <<>> /\ loop'.nap = loop.nap
<1> DEFINE S == Shortlist(Ready, CandidateLimit)
           size == Least(FreeSlots, BatchSize)
<1>1. S \in SUBSET Tasks /\ S \subseteq Ready
  BY ShortlistOffersReady DEF Ready
<1>2. size \in Nat /\ size <= Cardinality(Free)
  <2>1. Cardinality(Free) \in Nat /\ loop.steps \in Nat
    BY SlotsFinite DEF FrontierInv, LoopInv, LoopType
  <2> QED
    BY <2>1, LimitNat DEF FreeSlots, Least, Rank, CanAdmit
<1>3. loop.tickets = <<>> /\ loop.todo = <<>>
  BY DEF Rank, FrontierInv, LoopInv, BatchFits
<1>4. PICK rank \in Rankings(S) :
        LET batch == SelectRankedBatch(rank, size, Capacities)
        IN  loop' = IF batch = <<>> THEN [loop EXCEPT !.at = "wait"]
                    ELSE [loop EXCEPT !.at = "admit", !.todo = batch, !.press = FALSE]
  BY DEF Rank
<1> HIDE DEF size, S
<1> DEFINE batch == SelectRankedBatch(rank, size, Capacities)
<1>5. loop'.todo = batch /\ loop'.tickets = loop.tickets /\ loop'.nap = loop.nap
  <2>1. loop' = IF batch = <<>> THEN [loop EXCEPT !.at = "wait"]
                ELSE [loop EXCEPT !.at = "admit", !.todo = batch, !.press = FALSE]
    BY <1>4
  <2> HIDE DEF batch
  <2> QED
    BY <1>3, <2>1 DEF FrontierInv, LoopInv, LoopType
<1> QED
  BY <1>1, <1>2, <1>3, <1>5 DEF size, S

\* A batch that was just chosen fits the slots and the limits.
LEMMA RankKeepsBatch ==
  ASSUME FrontierInv, Rank
  PROVE  BatchInv'
<1> DEFINE S == Shortlist(Ready, CandidateLimit)
           size == Least(FreeSlots, BatchSize)
<1>1. /\ S \in SUBSET Tasks /\ S \subseteq Ready /\ size \in Nat /\ size <= Cardinality(Free)
      /\ loop'.tickets = <<>>
  BY RankChooses
<1>2. PICK rank \in Rankings(S) : loop'.todo = SelectRankedBatch(rank, size, Capacities)
  BY RankChooses
<1> HIDE DEF S, size
<1> DEFINE batch == SelectRankedBatch(rank, size, Capacities)
           first == Chosen(rank, size, Capacities)
<1>3. /\ batch \in Seq(first) /\ Len(batch) <= size /\ first \subseteq S
      /\ \A i, j \in DOMAIN batch : batch[i] = batch[j] => i = j
  BY <1>1, BatchIsChosen
<1>4. \A w \in DOMAIN WorkerLimit : InBatch(batch, w) <= Capacities[w]
  <2> SUFFICES ASSUME NEW w \in DOMAIN WorkerLimit
               PROVE  InBatch(batch, w) <= Capacities[w]
    OBVIOUS
  <2>1. w \in DOMAIN Capacities /\ Capacities[w] \in Nat
    BY CapacityIsLeft
  <2>2. Cardinality(Of(first, w)) <= Capacities[w]
    BY <1>1, <2>1, WithinCapacity
  <2>3. InBatch(batch, w) = Cardinality(Of(first, w))
    BY <1>1, BatchCount
  <2> HIDE DEF batch, first
  <2> QED
    BY <2>2, <2>3
<1>5. \A w : InBatch(batch, w) \in Nat
  <2> HIDE DEF batch, first
  <2>1. batch \in Seq(Tasks)
    BY <1>1, <1>3
  <2> QED
    BY <2>1, CountOneMore
<1>6. UNCHANGED <<row, slots>> /\ Free' = Free /\ \A w : RunningOf(w)' = RunningOf(w)
  BY DEF Rank, Free, RunningOf, Busy
<1>7. \A i \in DOMAIN batch : row[batch[i]].attempts < MaxAttempts
  <2> HIDE DEF batch, first
  <2> QED
    BY <1>1, <1>3 DEF Ready, Runnable
<1> HIDE DEF batch, first
<1>8. loop'.todo = batch
  BY <1>2 DEF batch
<1>9. 0 + Len(batch) <= Cardinality(Free)
  BY <1>1, <1>3, SlotsFinite
<1>10. \A w \in DOMAIN WorkerLimit : RunningOf(w) + 0 + InBatch(batch, w) <= WorkerLimit[w]
  BY <1>4, <1>5, CapacityIsLeft
<1> QED
  BY <1>1, <1>3, <1>6, <1>7, <1>8, <1>9, <1>10, CountNone, NothingYet DEF BatchInv

\* An admission takes a task out of the batch, and leaves its slot and its place in the
\* limit to the ticket.
LEMMA AdmitKeepsBatch ==
  ASSUME FrontierInv, Admitting, UNCHANGED slots,
         \A t \in Tasks : t # Next1 => row'[t].attempts = row[t].attempts,
         loop'.todo = Tail(loop.todo), loop'.tickets \in {loop.tickets, Append(loop.tickets, Next1)}
  PROVE  BatchInv'
<1> DEFINE todo == loop.todo
           tickets == loop.tickets
           rest == Tail(todo)
<1>1. todo \in Seq(Tasks) /\ todo # <<>> /\ tickets \in Seq(Tasks) /\ Next1 = Head(todo)
  BY DEF FrontierInv, LoopInv, LoopType, Admitting, Next1
<1>2. /\ Len(todo) \in Nat \ {0} /\ Len(tickets) \in Nat /\ Cardinality(Free) \in Nat
      /\ Len(tickets) + Len(todo) <= Cardinality(Free)
      /\ \A i, j \in DOMAIN todo : todo[i] = todo[j] => i = j
      /\ \A i \in DOMAIN todo : row[todo[i]].attempts < MaxAttempts
      /\ \A w \in DOMAIN WorkerLimit :
           RunningOf(w) + InBatch(tickets, w) + InBatch(todo, w) <= WorkerLimit[w]
  <2>1. Len(todo) \in Nat \ {0} /\ Len(tickets) \in Nat
    BY <1>1
  <2>2. Cardinality(Free) \in Nat
    BY SlotsFinite
  <2> QED
    BY <2>1, <2>2 DEF FrontierInv, BatchInv
<1> HIDE DEF todo, tickets
<1>3. /\ rest \in Seq(Tasks) /\ Len(rest) = Len(todo) - 1 /\ DOMAIN rest = 1..(Len(todo) - 1)
      /\ \A i \in DOMAIN rest : i + 1 \in DOMAIN todo /\ rest[i] = todo[i + 1] /\ rest[i] # Next1
                                /\ rest[i] \in Tasks
      /\ Next1 \in Tasks
  BY <1>1, <1>2
<1>4. \A i, j \in DOMAIN rest : rest[i] = rest[j] => i = j
  BY <1>2, <1>3
<1>5. \A i \in DOMAIN rest : row'[rest[i]].attempts < MaxAttempts
  BY <1>2, <1>3
<1>6. Len(loop'.tickets) \in {Len(tickets), Len(tickets) + 1}
  BY <1>1, <1>3 DEF tickets
<1>7. Free' = Free /\ \A w : RunningOf(w)' = RunningOf(w)
  BY DEF Free, RunningOf, Busy
<1>8. ASSUME NEW w \in DOMAIN WorkerLimit
      PROVE  RunningOf(w)' + InBatch(loop'.tickets, w) + InBatch(rest, w) <= WorkerLimit[w]
  <2> DEFINE one == IF WorkerOf[Next1] = w THEN 1 ELSE 0
  <2>1. InBatch(todo, w) = InBatch(rest, w) + one
    BY <1>1, CountOneLess
  <2>2. InBatch(Append(tickets, Next1), w) = InBatch(tickets, w) + one
    BY <1>1, <1>3, CountOneMore
  <2>3. InBatch(tickets, w) \in Nat /\ InBatch(rest, w) \in Nat /\ RunningOf(w) \in Nat /\ one \in Nat
    BY <1>1, <1>3, CountOneMore, RunningIsNumber
  <2>4. InBatch(loop'.tickets, w) \in {InBatch(tickets, w), InBatch(tickets, w) + one}
    BY <2>2 DEF tickets
  <2> HIDE DEF one, rest
  <2>5. WorkerLimit[w] \in Nat /\ RunningOf(w)' = RunningOf(w)
    BY <1>7, WorkerLimitAssumption
  <2> QED
    BY <1>2, <2>1, <2>3, <2>4, <2>5
<1>9. Len(loop'.tickets) + Len(rest) <= Cardinality(Free)
  <2> HIDE DEF rest
  <2> QED
    BY <1>2, <1>3, <1>6
<1>10. loop'.todo = rest
  BY DEF todo
<1> HIDE DEF rest
<1> QED
  BY <1>4, <1>5, <1>7, <1>8, <1>9, <1>10 DEF BatchInv

\* What an admission writes into the row of its task.
LEMMA AdmitWritesRow ==
  ASSUME FrontierInv, AdmitStale \/ AdmitTicket \/ AdmitRefused \/ AdmitPressed
  PROVE  /\ RowsInv' /\ UNCHANGED <<slots, byWorker>> /\ Admitting
         /\ \A t \in Tasks : t # Next1 => row'[t].attempts = row[t].attempts
         /\ loop'.todo = Tail(loop.todo) /\ loop'.nap = loop.nap
         /\ loop'.tickets \in {loop.tickets, Append(loop.tickets, Next1)}
<1>1. /\ Admitting /\ UNCHANGED <<slots, byWorker>>
      /\ \/ loop' = Later(loop)
         \/ loop' = Later([loop EXCEPT !.tickets = Append(@, Next1)])
         \/ loop' = Later([loop EXCEPT !.press = TRUE])
  BY DEF AdmitStale, AdmitTicket, AdmitRefused, AdmitPressed
<1>2. /\ loop'.todo = Tail(loop.todo) /\ loop'.nap = loop.nap
      /\ loop'.tickets \in {loop.tickets, Append(loop.tickets, Next1)}
  BY <1>1 DEF Later, FrontierInv, LoopInv, LoopType
<1>3. Next1 \in Tasks /\ row[Next1].attempts < MaxAttempts
  <2>1. loop.todo \in Seq(Tasks) /\ loop.todo # <<>>
    BY <1>1 DEF Admitting, FrontierInv, LoopInv, LoopType
  <2>2. 1 \in DOMAIN loop.todo /\ loop.todo[1] = Next1 /\ loop.todo[1] \in Tasks
    BY <2>1 DEF Next1
  <2> QED
    BY <2>2 DEF FrontierInv, BatchInv
<1>4. RowsInv /\ row[Next1] \in RowType /\ patience \in 0..Patience
  BY <1>3 DEF FrontierInv, RowsInv
<1>5. patience' \in 0..Patience
  BY <1>4, PatienceAssumption DEF AdmitStale, AdmitTicket, AdmitRefused, AdmitPressed
<1> DEFINE Ok == row' \in [Tasks -> RowType]
                 /\ \A t \in Tasks : t # Next1 => row'[t].attempts = row[t].attempts
<1>6. ASSUME NEW new \in RowType, row' = [row EXCEPT ![Next1] = new]
      PROVE  Ok
  BY <1>3, <1>4, <1>6 DEF RowsInv
<1>7. ASSUME AdmitStale
      PROVE  Ok
  BY <1>4, <1>7 DEF AdmitStale, RowsInv
<1>8. ASSUME AdmitTicket
      PROVE  Ok
  <2> DEFINE new == [row[Next1] EXCEPT !.status = "RUNNING", !.attempts = @ + 1]
  <2>1. new \in RowType
    BY <1>3, <1>4, RowWrites
  <2>2. row' = [row EXCEPT ![Next1] = new]
    BY <1>3, <1>4, <1>8 DEF AdmitTicket, RowsInv
  <2> HIDE DEF new, Ok
  <2> QED
    BY <1>6, <2>1, <2>2
<1>9. ASSUME NEW d \in Delays, row' = [row EXCEPT ![Next1].status = "DEFERRED", ![Next1].wait = d]
      PROVE  Ok
  <2> DEFINE new == [row[Next1] EXCEPT !.status = "DEFERRED", !.wait = d]
  <2>1. new \in RowType
    BY <1>4, RowWrites
  <2>2. row' = [row EXCEPT ![Next1] = new]
    BY <1>3, <1>4, <1>9 DEF RowsInv
  <2> HIDE DEF new, Ok
  <2> QED
    BY <1>6, <2>1, <2>2
<1>10. ASSUME row' = [row EXCEPT ![Next1].status = "REVIEW", ![Next1].cased = TRUE]
       PROVE  Ok
  <2> DEFINE new == [row[Next1] EXCEPT !.status = "REVIEW", !.cased = TRUE]
  <2>1. new \in RowType
    BY <1>4, RowWrites
  <2>2. row' = [row EXCEPT ![Next1] = new]
    BY <1>3, <1>4, <1>10 DEF RowsInv
  <2> HIDE DEF new, Ok
  <2> QED
    BY <1>6, <2>1, <2>2
<1>11. ASSUME row' = [row EXCEPT ![Next1].status = "BLOCKED"]
       PROVE  Ok
  <2> DEFINE new == [row[Next1] EXCEPT !.status = "BLOCKED"]
  <2>1. new \in RowType
    BY <1>4, RowWrites DEF Terminal
  <2>2. row' = [row EXCEPT ![Next1] = new]
    BY <1>11
  <2> HIDE DEF new, Ok
  <2> QED
    BY <1>6, <2>1, <2>2
<1>12. Ok
  <2> HIDE DEF Ok
  <2>1. CASE AdmitRefused
    <3>1. \/ \E d \in Delays : row' = [row EXCEPT ![Next1].status = "DEFERRED", ![Next1].wait = d]
          \/ row' = [row EXCEPT ![Next1].status = "REVIEW", ![Next1].cased = TRUE]
          \/ row' = [row EXCEPT ![Next1].status = "BLOCKED"]
      BY <2>1 DEF AdmitRefused
    <3> QED
      BY <1>9, <1>10, <1>11, <3>1
  <2>2. CASE AdmitPressed
    BY <1>9, <2>2 DEF AdmitPressed
  <2> QED
    BY <1>7, <1>8, <2>1, <2>2
<1> QED
  BY <1>1, <1>2, <1>5, <1>12 DEF RowsInv

\* The same after a step.
LEMMA RunningIsNumberNext == \A w : RunningOf(w)' \in Nat
<1>1. \A w : {s \in Busy' : WorkerOf[slots'[s].task] = w} \in SUBSET SlotIds
  BY DEF Busy
<1> QED
  BY <1>1, SlotsFinite DEF RunningOf

\* After a dispatch and after a collection nothing is chosen.
LEMMA NoBatchNext ==
  ASSUME loop'.todo = <<>>, loop'.tickets = <<>>,
         \A w \in DOMAIN WorkerLimit : RunningOf(w)' <= WorkerLimit[w]
  PROVE  BatchInv'
<1>1. Cardinality(Free') \in Nat /\ Len(<<>>) = 0 /\ DOMAIN <<>> = {}
  <2>1. Free' \in SUBSET SlotIds
    BY DEF Free
  <2> QED
    BY <2>1, SlotsFinite
<1>2. \A w \in DOMAIN WorkerLimit : RunningOf(w)' + 0 + 0 <= WorkerLimit[w]
  BY RunningIsNumberNext, WorkerLimitAssumption
<1> QED
  BY <1>1, <1>2, CountNone DEF BatchInv

\* A new run starts with nothing chosen and nothing in the slots.
LEMMA StartKeeps == FrontierInv /\ StartRun => FrontierInv'
<1> SUFFICES ASSUME FrontierInv, StartRun
             PROVE  FrontierInv'
  OBVIOUS
<1>1. slots' = [s \in SlotIds |-> None] /\ byWorker' = [w \in Workers |-> 0] /\ patience' = Patience
      /\ loop' = Start
  BY DEF StartRun
<1>2. Free' = SlotIds /\ \A w : RunningOf(w)' = 0
  <2>1. Free' = SlotIds /\ Busy' = {}
    BY <1>1 DEF Free, Busy
  <2>2. \A w : {s \in Busy' : WorkerOf[slots'[s].task] = w} = {}
    BY <2>1
  <2> QED
    BY <2>1, <2>2, FS_EmptySet DEF RunningOf
<1>3. SlotsInv'
  BY <1>1, <1>2 DEF SlotsInv
<1>4. RowsInv'
  <2>1. [Absent EXCEPT !.status = "PENDING"] \in RowType
    <3>1. Absent \in RowType
      BY DispatchAssumption DEF Absent, RowType
    <3> QED
      BY <3>1, RowWrites DEF Open
  <2>2. row' = [t \in Tasks |-> IF t \in Seeds /\ row[t] = Absent
                                THEN [Absent EXCEPT !.status = "PENDING"] ELSE row[t]]
    BY DEF StartRun
  <2> QED
    BY <1>1, <2>1, <2>2, PatienceAssumption DEF FrontierInv, RowsInv
<1>5. loop'.todo = <<>> /\ loop'.tickets = <<>> /\ loop'.nap = 0
  BY <1>1 DEF Start
<1>6. BatchInv'
  <2>1. DOMAIN <<>> = {} /\ Len(<<>>) = 0 /\ Cardinality(SlotIds) \in Nat
    BY SlotsFinite
  <2> QED
    BY <1>2, <1>5, <2>1, CountNone, WorkerLimitAssumption DEF BatchInv
<1> QED
  BY <1>1, <1>3, <1>4, <1>5, <1>6, StartFits, LimitNat DEF FrontierInv

\* The steps of the loop.
LEMMA LoopKeeps == FrontierInv /\ Loop => FrontierInv'
<1> SUFFICES ASSUME FrontierInv, Loop
             PROVE  FrontierInv'
  OBVIOUS
<1>1. LoopInv'
  BY NextFits DEF Next, FrontierInv
<1>2. ASSUME UNCHANGED <<slots, byWorker>>
      PROVE  SlotsInv' /\ Free' = Free /\ \A w : RunningOf(w)' = RunningOf(w)
  BY <1>2 DEF SlotsInv, Free, Busy, RunningOf, FrontierInv
<1>3. ASSUME UNCHANGED <<row, patience>>
      PROVE  RowsInv' /\ AttemptsKept
  BY <1>3 DEF RowsInv, AttemptsKept, FrontierInv
<1>4. CASE Rank
  <2>1. UNCHANGED <<slots, byWorker, row, patience>>
    BY <1>4 DEF Rank
  <2>2. loop'.nap \in 0..MaxDeferredWait
    BY <1>4, RankChooses DEF FrontierInv
  <2> QED
    BY <1>1, <1>2, <1>3, <1>4, <2>1, <2>2, RankKeepsBatch DEF FrontierInv
<1>5. CASE AdmitStale \/ AdmitTicket \/ AdmitRefused \/ AdmitPressed
  <2>1. BatchInv'
    BY <1>5, AdmitWritesRow, AdmitKeepsBatch
  <2> QED
    BY <1>1, <1>2, <1>5, <2>1, AdmitWritesRow DEF FrontierInv
<1>6. CASE Dispatch
  <2>1. Len(loop.tickets) <= Cardinality(Free)
    BY <1>6, NothingYet, SlotsFinite DEF FrontierInv, BatchInv, Dispatch, LoopInv, LoopType
  <2>2. SlotsInv' /\ \A w \in Workers : RunningOf(w)' = RunningOf(w) + InBatch(loop.tickets, w)
    BY <1>6, <2>1, DispatchFillsSlots DEF FrontierInv
  <2>3. loop'.todo = <<>> /\ loop'.tickets = <<>> /\ loop'.nap = loop.nap /\ loop.todo = <<>>
    BY <1>6 DEF Dispatch, FrontierInv, LoopInv, LoopType
  <2>4. \A w \in DOMAIN WorkerLimit : RunningOf(w)' <= WorkerLimit[w]
    <3> SUFFICES ASSUME NEW w \in DOMAIN WorkerLimit
                 PROVE  RunningOf(w)' <= WorkerLimit[w]
      OBVIOUS
    <3>1. RunningOf(w) + InBatch(loop.tickets, w) + InBatch(loop.todo, w) <= WorkerLimit[w]
      BY DEF FrontierInv, BatchInv
    <3>2. RunningOf(w) \in Nat /\ InBatch(loop.tickets, w) \in Nat /\ InBatch(loop.todo, w) = 0
      BY <2>3, RunningIsNumber, CountOneMore, CountNone DEF FrontierInv, LoopInv, LoopType
    <3> QED
      BY <2>2, <3>1, <3>2, WorkerLimitAssumption
  <2>5. BatchInv'
    BY <2>3, <2>4, NoBatchNext
  <2> QED
    BY <1>1, <1>3, <1>6, <2>2, <2>3, <2>5 DEF FrontierInv, Dispatch
<1>7. CASE Collect
  <2>1. SlotsInv' /\ \A w \in Workers : RunningOf(w)' <= RunningOf(w)
    BY <1>7, CollectEmptiesSlots DEF FrontierInv
  <2>2. loop'.todo = <<>> /\ loop'.tickets = <<>> /\ loop'.nap = loop.nap
    BY <1>7 DEF Collect, AtWait, FrontierInv, LoopInv, LoopType, BatchFits
  <2>3. \A w \in DOMAIN WorkerLimit : RunningOf(w)' <= WorkerLimit[w]
    <3> SUFFICES ASSUME NEW w \in DOMAIN WorkerLimit
                 PROVE  RunningOf(w)' <= WorkerLimit[w]
      OBVIOUS
    <3>1. w \in Workers /\ RunningOf(w)' \in Nat
      BY RunningIsNumber, RunningIsNumberNext, WorkerLimitAssumption
    <3> QED
      BY <2>1, <3>1, CapacityIsLeft
  <2>4. BatchInv'
    BY <2>2, <2>3, NoBatchNext
  <2> QED
    BY <1>1, <1>3, <1>7, <2>1, <2>2, <2>4 DEF FrontierInv, Collect, RowsInv
<1>8. ASSUME UNCHANGED <<slots, byWorker, row, patience>>, loop'.todo = loop.todo,
             loop'.tickets = loop.tickets, loop'.nap \in 0..MaxDeferredWait
      PROVE  FrontierInv'
  <2>1. BatchInv'
    BY <1>2, <1>3, <1>8, BatchCarried DEF FrontierInv
  <2> QED
    BY <1>1, <1>2, <1>3, <1>8, <2>1 DEF FrontierInv
<1>9. CASE LimitReached \/ RunDry \/ PauseDeferred \/ Wake \/ FinishRun
  BY <1>8, <1>9 DEF LimitReached, RunDry, PauseDeferred, Wake, FinishRun, Goto, FrontierInv, LoopInv, LoopType
<1>10. CASE Sleep
  BY <1>8, <1>10 DEF Sleep, FrontierInv, LoopInv, LoopType
<1> QED
  BY <1>4, <1>5, <1>6, <1>7, <1>9, <1>10 DEF Loop

\* Every step keeps slots, counts, rows and the batch in order.
LEMMA NextKeeps == FrontierInv /\ [Next]_vars => FrontierInv'
<1> SUFFICES ASSUME FrontierInv, [Next]_vars
             PROVE  FrontierInv'
  OBVIOUS
<1>1. LoopInv'
  BY NextFits DEF FrontierInv
<1>2. ASSUME UNCHANGED <<slots, byWorker>>
      PROVE  SlotsInv' /\ Free' = Free /\ \A w : RunningOf(w)' = RunningOf(w)
  BY <1>2 DEF SlotsInv, Free, Busy, RunningOf, FrontierInv
<1>3. CASE StartRun
  BY <1>3, StartKeeps
<1>4. CASE Loop
  BY <1>4, LoopKeeps
<1>5. ASSUME NEW s \in SlotIds, EndExecution(s) \/ \E u \in Tasks : Discover(s, u)
      PROVE  FrontierInv'
  <2>1. RowsInv' /\ AttemptsKept
    BY <1>5, OthersWriteRows DEF FrontierInv
  <2>2. SlotsInv' /\ Free' = Free /\ \A w : RunningOf(w)' = RunningOf(w)
    <3>1. CASE EndExecution(s)
      BY <3>1, EndKeepsSlot DEF FrontierInv
    <3>2. CASE \E u \in Tasks : Discover(s, u)
      BY <1>2, <3>2 DEF Discover
    <3> QED
      BY <1>5, <3>1, <3>2
  <2>3. loop' = loop
    BY <1>5 DEF EndExecution, Discover
  <2>4. BatchInv'
    BY <2>1, <2>2, <2>3, BatchCarried DEF FrontierInv
  <2> QED
    BY <1>1, <2>1, <2>2, <2>3, <2>4 DEF FrontierInv
<1>6. CASE (\E t \in Tasks : Settle(t)) \/ Tick
  <2>1. RowsInv' /\ AttemptsKept
    BY <1>6, OthersWriteRows DEF FrontierInv
  <2>2. SlotsInv' /\ Free' = Free /\ \A w : RunningOf(w)' = RunningOf(w)
    BY <1>2, <1>6 DEF Settle, Tick
  <2>3. /\ loop'.todo = loop.todo /\ loop'.tickets = loop.tickets
        /\ loop'.nap \in {loop.nap, Minus1(loop.nap)}
    BY <1>6 DEF Settle, Tick, FrontierInv, LoopInv, LoopType
  <2>4. loop'.nap \in 0..MaxDeferredWait
    BY <2>3, LimitNat DEF Minus1, FrontierInv
  <2>5. BatchInv'
    BY <2>1, <2>2, <2>3, BatchCarried DEF FrontierInv
  <2> QED
    BY <1>1, <2>1, <2>2, <2>4, <2>5 DEF FrontierInv
<1>7. CASE UNCHANGED vars
  <2>1. AttemptsKept /\ RowsInv' /\ loop' = loop
    BY <1>7 DEF vars, AttemptsKept, RowsInv, FrontierInv
  <2>2. SlotsInv' /\ Free' = Free /\ \A w : RunningOf(w)' = RunningOf(w)
    BY <1>2, <1>7 DEF vars
  <2>3. BatchInv'
    BY <2>1, <2>2, BatchCarried DEF FrontierInv
  <2> QED
    BY <1>1, <2>1, <2>2, <2>3 DEF FrontierInv
<1> QED
  BY <1>3, <1>4, <1>5, <1>6, <1>7 DEF Next

\* It holds before the first run.
LEMMA InitKeeps == Init => FrontierInv
<1> SUFFICES ASSUME Init
             PROVE  FrontierInv
  OBVIOUS
<1>1. LoopInv
  BY InitFits
<1>2. slots = [s \in SlotIds |-> None]
  BY DEF Init
<1>3. SlotsInv /\ \A w : RunningOf(w) = 0
  BY <1>2, EmptySlots DEF Init, SlotsInv
<1>4. RowsInv
  <2>1. Absent \in RowType /\ Left \in RowType
    <3>1. Absent \in RowType
      BY DispatchAssumption DEF Absent, RowType
    <3>2. 1 \in 0..MaxAttempts /\ MaxDeferredWait \in Nat /\ "DEFERRED" \in Open
      BY DispatchAssumption DEF Open
    <3> QED
      BY <3>1, <3>2 DEF Left, RowType
  <2> QED
    BY <2>1, PatienceAssumption DEF Init, RowsInv
<1>5. loop.todo = <<>> /\ loop.tickets = <<>> /\ loop.nap = 0
  BY DEF Init, Start
<1>6. BatchInv
  BY <1>3, <1>5, NoBatch, WorkerLimitAssumption
<1> QED
  BY <1>1, <1>3, <1>4, <1>5, <1>6, LimitNat DEF FrontierInv

\* The invariant of the loop, its slots and its batch.
THEOREM FrontierKeepsOrder == Spec => []FrontierInv
BY InitKeeps, NextKeeps, PTL DEF Spec

\* Rows, the loop's variables and slots keep the shapes of runtime.py, and running_by_worker
\* counts what is in the slots, however executions end between the awaits.
THEOREM DispatcherTypes == Spec => []DispatcherTypeOK
<1>1. FrontierInv => DispatcherTypeOK
  BY DEF FrontierInv, SlotsInv, RowsInv, RowType, LoopInv, LoopType, Execution, DispatcherTypeOK
<1> QED
  BY <1>1, FrontierKeepsOrder, PTL

\* Every ticket finds a free slot, and no worker runs more than worker_limits allows:
\* available_slots.pop(0) never raises (_run_frontier).
THEOREM TicketsFit == Spec => []TicketsHaveSlots
<1>1. ASSUME FrontierInv
      PROVE  TicketsHaveSlots
  <2>1. loop.tickets \in Seq(Tasks) /\ loop.todo \in Seq(Tasks)
    BY <1>1 DEF FrontierInv, LoopInv, LoopType
  <2>2. Len(loop.tickets) <= Cardinality(Free)
    <3>1. Len(loop.tickets) \in Nat /\ Len(loop.todo) \in Nat /\ Cardinality(Free) \in Nat
      BY <2>1, SlotsFinite
    <3>2. Len(loop.tickets) + Len(loop.todo) <= Cardinality(Free)
      BY <1>1 DEF FrontierInv, BatchInv
    <3>3. \A a, b, c \in Nat : a + b <= c => a <= c
      OBVIOUS
    <3> QED
      BY <3>1, <3>2, <3>3, Zenon
  <2>3. ASSUME NEW w \in DOMAIN WorkerLimit
        PROVE  RunningOf(w) + InBatch(loop.tickets, w) <= WorkerLimit[w]
    <3>1. InBatch(loop.tickets, w) \in Nat /\ InBatch(loop.todo, w) \in Nat
          /\ RunningOf(w) \in Nat /\ WorkerLimit[w] \in Nat
      BY <2>1, CountOneMore, RunningIsNumber, WorkerLimitAssumption
    <3>2. RunningOf(w) + InBatch(loop.tickets, w) + InBatch(loop.todo, w) <= WorkerLimit[w]
      BY <1>1 DEF FrontierInv, BatchInv
    <3> QED
      BY <3>1, <3>2
  <2> QED
    BY <2>2, <2>3 DEF TicketsHaveSlots
<1> QED
  BY <1>1, FrontierKeepsOrder, PTL

----------------------------------------------------------------------------
(* Rankings are fair.                                                      *)

\* For any ranking, no worker whose tasks are left out though it has capacity is more than
\* one task behind another (_select_ranked_batch).
THEOREM WorkersTakeTurns == Spec => BatchIsWorkerFair
<1> DEFINE Fair ==
      Rank =>
        LET batch == loop'.todo
            offered == Shortlist(Ready, CandidateLimit)
        IN  \A w, v \in {WorkerOf[t] : t \in offered} :
              \/ InBatch(batch, v) <= InBatch(batch, w) + 1
              \/ InBatch(batch, w) = Cardinality(Of(offered, w))
              \/ Saturated(w, batch)
<1>1. ASSUME FrontierInv, Rank
      PROVE  Fair
  <2> DEFINE S == Shortlist(Ready, CandidateLimit)
             size == Least(FreeSlots, BatchSize)
  <2>1. S \in SUBSET Tasks /\ size \in Nat
    BY <1>1, RankChooses
  <2>2. PICK rank \in Rankings(S) : loop'.todo = SelectRankedBatch(rank, size, Capacities)
    BY <1>1, RankChooses
  <2> HIDE DEF size
  <2> DEFINE mine(w) == Cardinality(Of(Chosen(rank, size, Capacities), w))
  <2>3. \A w : InBatch(loop'.todo, w) = mine(w)
    <3> HIDE DEF S
    <3> QED
      BY <2>1, <2>2, BatchCount
  <2>4. ASSUME NEW w, NEW v, mine(w) # Cardinality(Of(S, w)), ~Saturated(w, loop'.todo)
        PROVE  mine(v) <= mine(w) + 1
    <3>1. ASSUME w \in DOMAIN Capacities
          PROVE  mine(w) < Capacities[w]
      <4>1. w \in DOMAIN WorkerLimit
        BY <1>1, <3>1, CapacityIsLeft
      <4>2. ~(RunningOf(w) + mine(w) >= WorkerLimit[w])
        BY <2>3, <2>4, <4>1 DEF Saturated
      <4>3. mine(w) \in Nat
        <5>1. Of(Chosen(rank, size, Capacities), w) \in SUBSET Of(S, w)
          <6> HIDE DEF S
          <6>1. Chosen(rank, size, Capacities) \subseteq S
            BY <2>1, BatchIsChosen
          <6> QED
            BY <6>1 DEF Of
        <5>2. 0 \in Nat
          OBVIOUS
        <5> HIDE DEF S
        <5> QED
          BY <2>1, <5>1, <5>2, RoundsCount
      <4> HIDE DEF mine
      <4> QED
        BY <1>1, <4>1, <4>2, <4>3, CapacityIsLeft
    <3>2. \A x \in DOMAIN Capacities : Capacities[x] \in Nat
      BY <1>1, CapacityIsLeft
    <3> HIDE DEF S
    <3> QED
      BY <2>1, <2>4, <3>1, <3>2, TurnsAreFair
  <2> HIDE DEF mine
  <2> QED
    BY <2>3, <2>4
<1>2. FrontierInv /\ [Next]_vars => [Fair]_vars
  BY <1>1
<1> QED
  BY <1>2, FrontierKeepsOrder, PTL DEF Spec, BatchIsWorkerFair

\* If a ranking leaves slots free, every ready task that it leaves out has a saturated
\* worker, or the shortlist was full (ready, admit_batch).
THEOREM RoomIsLeft == Spec => SlowWorkersLeaveRoom
<1> DEFINE Room ==
      Rank /\ Len(loop'.todo) < Least(FreeSlots, BatchSize) =>
        \A t \in Ready :
          \/ \E i \in DOMAIN loop'.todo : loop'.todo[i] = t
          \/ Saturated(WorkerOf[t], loop'.todo)
          \/ Cardinality(Ready) > CandidateLimit
<1>1. ASSUME FrontierInv, Rank, Len(loop'.todo) < Least(FreeSlots, BatchSize), NEW t \in Ready,
             ~(Cardinality(Ready) > CandidateLimit), ~\E i \in DOMAIN loop'.todo : loop'.todo[i] = t
      PROVE  Saturated(WorkerOf[t], loop'.todo)
  <2> DEFINE S == Shortlist(Ready, CandidateLimit)
             size == Least(FreeSlots, BatchSize)
             w == WorkerOf[t]
  <2>1. S \in SUBSET Tasks /\ size \in Nat /\ Len(loop'.todo) < size
    BY <1>1, RankChooses
  <2>2. PICK rank \in Rankings(S) : loop'.todo = SelectRankedBatch(rank, size, Capacities)
    BY <1>1, RankChooses
  <2>3. S = Ready
    <3>1. Ready \in SUBSET Tasks
      BY DEF Ready
    <3>2. Cardinality(Ready) \in Nat /\ CandidateLimit \in Nat
      BY <3>1, TasksFinite, FS_Subset, FS_CardinalityType, DispatchAssumption
    <3> QED
      BY <1>1, <3>1, <3>2, ShortlistOffersAll
  <2> HIDE DEF S, size
  <2>4. t \in S /\ t \notin Chosen(rank, size, Capacities)
    <3>1. \A u \in Chosen(rank, size, Capacities) : \E i \in DOMAIN loop'.todo : loop'.todo[i] = u
      BY <2>1, <2>2, BatchIsChosen
    <3> QED
      BY <1>1, <2>3, <3>1
  <2>5. DOMAIN Capacities = DOMAIN WorkerLimit
        /\ \A x \in DOMAIN Capacities : Capacities[x] \in Nat
    BY <1>1, CapacityIsLeft
  <2> DEFINE mine == Cardinality(Of(Chosen(rank, size, Capacities), w))
  <2>6. w \in DOMAIN Capacities /\ mine >= Capacities[w]
    BY <2>1, <2>2, <2>4, <2>5, LeftForCapacity
  <2>7. InBatch(loop'.todo, w) = mine
    BY <2>1, <2>2, BatchCount
  <2>8. mine \in Nat
    <3>1. Of(Chosen(rank, size, Capacities), w) \in SUBSET Of(S, w)
      <4>1. Chosen(rank, size, Capacities) \subseteq S
        BY <2>1, BatchIsChosen
      <4> QED
        BY <4>1 DEF Of
    <3>2. 0 \in Nat
      OBVIOUS
    <3> QED
      BY <2>1, <3>1, <3>2, RoundsCount
  <2> HIDE DEF mine, w
  <2>9. RunningOf(w) + mine >= WorkerLimit[w]
    BY <1>1, <2>5, <2>6, <2>8, CapacityIsLeft
  <2> QED
    BY <2>5, <2>6, <2>7, <2>9 DEF Saturated, w
<1>2. FrontierInv /\ [Next]_vars => [Room]_vars
  BY <1>1
<1> QED
  BY <1>2, FrontierKeepsOrder, PTL DEF Spec, SlowWorkersLeaveRoom
=============================================================================
