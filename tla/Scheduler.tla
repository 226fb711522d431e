----------------------------- MODULE Scheduler -----------------------------
(***************************************************************************)
(* Which ready tasks a dispatcher is offered: the fair lanes of ready()    *)
(* (recon/core/queue.py, recon/storage/database.py) and the worker-fair    *)
(* rounds of recon/core/scheduler.py (select_batch).                       *)
(*                                                                         *)
(* Scores are floating-point sums of learned signals: here a ranking is    *)
(* any order of the shortlist.                                             *)
(***************************************************************************)
EXTENDS Integers, FiniteSets

CONSTANTS
  Tasks,
  Workers,
  WorkerOf,   \* the worker of each task
  Priority,   \* route priorities; distinct, so that later sort keys never decide
  Created,    \* creation times, in the order of (created_at, task_id)
  Exploring   \* the tasks whose action, rule or reason says "exploration"

ASSUME TasksFinite == IsFiniteSet(Tasks)
ASSUME WorkerOfAssumption == WorkerOf \in [Tasks -> Workers]
ASSUME OrdersAssumption ==
  /\ Priority \in [Tasks -> Int] /\ Created \in [Tasks -> Int]
  /\ \A t, u \in Tasks : t # u => Priority[t] # Priority[u] /\ Created[t] # Created[u]

\* The first n members of S, a set ordered by Before.
FirstOf(S, n, Before(_, _)) == {t \in S : Cardinality({u \in S : Before(u, t)}) < n}

\* S as a sequence in that order.
InOrder(S, Before(_, _)) ==
  [i \in 1..Cardinality(S) |->
     CHOOSE t \in S : Cardinality({u \in S : Before(u, t)}) = i - 1]

MoreUrgent(t, u) == Priority[t] > Priority[u]
LessUrgent(t, u) == Priority[t] < Priority[u]
Older(t, u) == Created[t] < Created[u]

----------------------------------------------------------------------------
(* ready(fair=True).                                                       *)

\* How a shortlist of limit tasks is divided among the lanes.
FairLaneLimits(limit) ==
  LET top == IF limit \div 2 > 1 THEN limit \div 2 ELSE 1
      oldest == (limit - top) \div 2
      exploration == (limit - top - oldest) \div 2
  IN  [top |-> top, oldest |-> oldest, exploration |-> exploration,
       tail |-> limit - top - oldest - exploration]

\* The four lanes; what they leave of the limit is filled from the top.
Shortlist(ready, limit) ==
  LET n == FairLaneLimits(limit)
      lanes == FirstOf(ready, n.top, MoreUrgent)
                 \cup FirstOf(ready, n.oldest, Older)
                 \cup FirstOf(ready \cap Exploring, n.exploration, Older)
                 \cup FirstOf(ready, n.tail, LessUrgent)
      rest == FirstOf(ready, limit, MoreUrgent) \ lanes
  IN  lanes \cup FirstOf(rest, limit - Cardinality(lanes), MoreUrgent)

----------------------------------------------------------------------------
(* select_batch.                                                           *)

Rankings(S) == {r \in [S -> 1..Cardinality(S)] : \A t, u \in S : t # u => r[t] # r[u]}

Of(S, w) == {t \in S : WorkerOf[t] = w}

\* In which round a ranked task has its worker's turn.
Round(rank, t) ==
  Cardinality({u \in Of(DOMAIN rank, WorkerOf[t]) : rank[u] <= rank[t]})

\* Workers take their turns in the order of their best tasks.
BestOf(rank, w) == CHOOSE b \in Of(DOMAIN rank, w) : \A t \in Of(DOMAIN rank, w) : rank[b] <= rank[t]

TakenBefore(rank, t, u) ==
  \/ Round(rank, t) < Round(rank, u)
  \/ /\ Round(rank, t) = Round(rank, u)
     /\ rank[BestOf(rank, WorkerOf[t])] < rank[BestOf(rank, WorkerOf[u])]

\* Fault: the best ranked tasks are taken, whoever's they are.
SelectBestRanked(rank, limit, capacity) ==
  LET open == {t \in DOMAIN rank : WorkerOf[t] \in DOMAIN capacity =>
                                     Round(rank, t) <= capacity[WorkerOf[t]]}
  IN  InOrder(FirstOf(open, limit, LAMBDA t, u : rank[t] < rank[u]),
              LAMBDA t, u : rank[t] < rank[u])

\* Fault: a worker's free capacity is only compared with none.
SelectUnlessSaturated(rank, limit, capacity) ==
  LET open == {t \in DOMAIN rank : WorkerOf[t] \in DOMAIN capacity => capacity[WorkerOf[t]] > 0}
  IN  InOrder(FirstOf(open, limit, LAMBDA t, u : TakenBefore(rank, t, u)),
              LAMBDA t, u : TakenBefore(rank, t, u))

\* Rounds of one task per worker with capacity left, until the limit is reached.
SelectRankedBatch(rank, limit, capacity) ==
  LET open == {t \in DOMAIN rank : WorkerOf[t] \in DOMAIN capacity =>
                                     Round(rank, t) <= capacity[WorkerOf[t]]}
  IN  InOrder(FirstOf(open, limit, LAMBDA t, u : TakenBefore(rank, t, u)),
              LAMBDA t, u : TakenBefore(rank, t, u))
=============================================================================
