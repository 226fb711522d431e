------------------------------ MODULE Budgets ------------------------------
(***************************************************************************)
(* Budget reservations: recon/core/budgets.py (BudgetManager) over         *)
(* SQLiteBudgetStore of recon/storage/database.py.                         *)
(*                                                                         *)
(* An account is a bucket (global, worker, branch or resource) with its    *)
(* class (HARD or SOFT) and metric.  Every store call is one immediate     *)
(* transaction, so one action.  Amounts are integers: the code's floats    *)
(* with a tolerance of 1e-9 are not modelled.  branch_soft_multiplier is   *)
(* fixed at 1, and refusal by branch depth, which touches nothing, is left *)
(* to the caller.                                                          *)
(***************************************************************************)
EXTENDS Integers, FiniteSets, Functions

CONSTANTS
  Reservations,  \* reservation identifiers (uuid4 values)
  Accounts,      \* <<bucket, class, metric>> with a configured limit
  Capacity,      \* those whose metric is_capacity (CONCURRENT_TASKS)
  Limit,         \* the configured limit of each account
  HeldBack,      \* of which a NORMAL task may not use (exploration_reserve_fraction)
  Demands,       \* what tasks ask of each account; 0 is no item
  LeaseFor,      \* the reservation's lease, in clock ticks
  MaxWait,       \* how long a call may wait for the write lock after it read the clock
  MaxTime        \* bound on the clock

ASSUME CapacityAssumption == Capacity \subseteq Accounts
ASSUME LimitAssumption == Limit \in [Accounts -> Nat]
ASSUME HeldBackAssumption ==
  HeldBack \in [Accounts -> Nat] /\ \A a \in Accounts : HeldBack[a] <= Limit[a]
ASSUME DemandsAssumption == Demands \subseteq [Accounts -> Nat]
ASSUME BudgetTimeAssumption == LeaseFor \in Nat \ {0} /\ MaxWait \in Nat /\ MaxTime \in Nat

VARIABLES
  now,        \* the wall clock
  committed,  \* per account: spent for good
  reserved,   \* per account: held by ACTIVE reservations
  book        \* the reservations

budgetVars == <<committed, reserved, book>>

Lanes == {"NORMAL", "EXPLORATION"}
States == {"FREE", "ACTIVE", "COMMITTED", "RELEASED", "EXPIRED"}

NoItems == [a \in Accounts |-> 0]
Free == [state |-> "FREE", expires |-> 0, lane |-> "NORMAL", items |-> NoItems]

IsActive(r) == book[r].state = "ACTIVE"

Readings == {n \in 1..now : now - n <= MaxWait}

----------------------------------------------------------------------------
(* reserve.                                                                *)

EffectiveLimit(a, lane) ==
  IF lane = "NORMAL" THEN Limit[a] - HeldBack[a] ELSE Limit[a]

\* Fault: running work is not counted, only what is already spent.
ViolatedCommittedOnly(d, lane) ==
  {a \in Accounts : d[a] > 0 /\ committed[a] + d[a] > EffectiveLimit(a, lane)}

\* Fault: the exploration reserve is open to every lane.
ViolatedAnyLane(d, lane) ==
  {a \in Accounts : d[a] > 0 /\ committed[a] + reserved[a] + d[a] > Limit[a]}

Violated(d, lane) ==
  {a \in Accounts : d[a] > 0 /\ committed[a] + reserved[a] + d[a] > EffectiveLimit(a, lane)}

Allows(d, lane) == Violated(d, lane) = {}

\* Only a cumulative account refuses for good; a busy one asks to come back later.
Denies(d, lane) == Violated(d, lane) \ Capacity # {}

Defers(d, lane) == ~Allows(d, lane) /\ ~Denies(d, lane)

\* A task without limits to check runs without a reservation.
Unchecked(d) == \A a \in Accounts : d[a] = 0

Reserve(r, d, lane, n) ==
  /\ book[r] = Free
  /\ ~Unchecked(d)
  /\ Allows(d, lane)
  /\ book' = [book EXCEPT ![r] = [state |-> "ACTIVE", expires |-> n + LeaseFor,
                                  lane |-> lane, items |-> d]]
  /\ reserved' = [a \in Accounts |-> reserved[a] + d[a]]
  /\ UNCHANGED committed

----------------------------------------------------------------------------
(* commit, release, renew and reap_expired.                                *)

\* What a set of reservations holds of each account.
Held(rs) == [a \in Accounts |-> SumFunctionOnSet([r \in Reservations |-> book[r].items[a]], rs)]

\* _release_budget_usage raises, and its transaction rolls back, on underflow.
GiveBack(amounts) ==
  /\ \A a \in Accounts : amounts[a] \in 0..reserved[a]
  /\ reserved' = [a \in Accounts |-> reserved[a] - amounts[a]]

Settle(rs, state) ==
  book' = [r \in Reservations |-> IF r \in rs THEN [book[r] EXCEPT !.state = state]
                                             ELSE book[r]]

\* Fault: a slot that was used stays used.
SpendCapacityToo(amounts) ==
  committed' = [a \in Accounts |-> committed[a] + amounts[a]]

Spend(amounts) ==
  committed' = [a \in Accounts |->
                  committed[a] + IF a \in Capacity THEN 0 ELSE amounts[a]]

Commit(r) ==
  /\ IsActive(r)
  /\ GiveBack(book[r].items)
  /\ Spend(book[r].items)
  /\ Settle({r}, "COMMITTED")

Release(r) ==
  /\ IsActive(r)
  /\ GiveBack(book[r].items)
  /\ Settle({r}, "RELEASED")
  /\ UNCHANGED committed

\* A reservation past its time can still be renewed until it is reaped.
Renew(r, n) ==
  /\ IsActive(r)
  /\ book' = [book EXCEPT ![r].expires = n + LeaseFor]
  /\ UNCHANGED <<committed, reserved>>

\* Fault: whatever is past its time is reaped, finished or not.
OverdueInAnyState(n) == {r \in Reservations : book[r] # Free /\ book[r].expires <= n}

Overdue(n) == {r \in Reservations : IsActive(r) /\ book[r].expires <= n}

ReapExpired(n) ==
  /\ GiveBack(Held(Overdue(n)))
  /\ Settle(Overdue(n), "EXPIRED")
  /\ UNCHANGED committed

----------------------------------------------------------------------------
Init ==
  /\ now = 1
  /\ committed = NoItems
  /\ reserved = NoItems
  /\ book = [r \in Reservations |-> Free]

Tick ==
  /\ now < MaxTime
  /\ now' = now + 1
  /\ UNCHANGED budgetVars

Call ==
  \/ \E r \in Reservations, d \in Demands, lane \in Lanes, n \in Readings :
       Reserve(r, d, lane, n)
  \/ \E r \in Reservations :
       Commit(r) \/ Release(r) \/ \E n \in Readings : Renew(r, n)
  \/ \E n \in Readings : Overdue(n) # {} /\ ReapExpired(n)

Next == (Call /\ UNCHANGED now) \/ Tick

Spec == Init /\ [][Next]_<<now, budgetVars>>

----------------------------------------------------------------------------
(* Properties.                                                             *)

BudgetTypeOK ==
  /\ now \in Nat
  /\ committed \in [Accounts -> Nat]
  /\ reserved \in [Accounts -> Nat]
  /\ book \in [Reservations -> [state : States, expires : Nat, lane : Lanes,
                                items : [Accounts -> Nat]]]

\* No order of reservations, commits and expiries takes an account past its limit.
WithinLimits == \A a \in Accounts : committed[a] + reserved[a] <= Limit[a]

\* The counter a call trusts is exactly what unfinished reservations hold: nothing is
\* given back twice, and a reservation can always be settled without an underflow.
ReservedIsBacked == reserved = Held({r \in Reservations : IsActive(r)})

\* Cumulative spending is exactly the committed reservations: an execution is charged
\* once, whatever races to settle it; a slot is never spent.
SpentIsCommitted ==
  \A a \in Accounts :
    committed[a] = IF a \in Capacity THEN 0
                   ELSE Held({r \in Reservations : book[r].state = "COMMITTED"})[a]

\* What NORMAL tasks hold and have spent leaves the exploration reserve alone.
ExplorationKeepsItsShare ==
  \A a \in Accounts :
    LET normal == {r \in Reservations : book[r].lane = "NORMAL" /\ IsActive(r)}
        spent == {r \in Reservations : book[r].lane = "NORMAL" /\ book[r].state = "COMMITTED"}
    IN  Held(normal)[a] + (IF a \in Capacity THEN 0 ELSE Held(spent)[a])
          <= Limit[a] - HeldBack[a]
=============================================================================
