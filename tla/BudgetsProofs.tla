--------------------------- MODULE BudgetsProofs ---------------------------
(***************************************************************************)
(* The budgets and the convergence of a branch over them, whatever the     *)
(* accounts, demands, reservations, workers and thresholds.                *)
(*                                                                         *)
(* First the budgets.  The limit is inductive without a fact about sums:   *)
(* whatever is given back lies between 0 and what is reserved              *)
(* (_release_budget_usage raises otherwise), and a commit moves no more to *)
(* committed than it gives back.  That the counters are what the           *)
(* reservations hold, and that none of this ever raises, takes the sums    *)
(* over the reservations of each state and lane.                           *)
(*                                                                         *)
(* Then the branch: a closed lane has a reason to be, and an evaluation    *)
(* that nothing was stored beside moves its lane on.  Evaluations overlap, *)
(* so what is stored says little of what an evaluation read.  The          *)
(* invariant follows each evaluation by itself: what it read had its       *)
(* reason to be closed, and what it decided has one and follows what it    *)
(* read.  That an account was exhausted stays true, as history, when the   *)
(* account is given room again.                                            *)
(***************************************************************************)
EXTENDS Convergence, SumProofs

Reservation == [state : States, expires : Nat, lane : Lanes, items : [Accounts -> Nat]]

LimitInv == BudgetTypeOK /\ WithinLimits

\* Giving back what GiveBack accepts leaves the counters natural and no larger.
LEMMA GiveBackIsSafe ==
  ASSUME reserved \in [Accounts -> Nat], NEW amounts, GiveBack(amounts)
  PROVE  /\ reserved' \in [Accounts -> Nat]
         /\ \A a \in Accounts : /\ amounts[a] \in Nat
                                /\ reserved'[a] + amounts[a] = reserved[a]
  BY DEF GiveBack

\* A settled reservation is still one.
LEMMA SettleKeepsType ==
  ASSUME book \in [Reservations -> Reservation], NEW rs, NEW state \in States, Settle(rs, state)
  PROVE  book' \in [Reservations -> Reservation]
<1>1. \A r \in Reservations : [book[r] EXCEPT !.state = state] \in Reservation
  BY DEF Reservation
<1> QED BY <1>1 DEF Settle

\* An empty store keeps every limit.
LEMMA InitLimit == Init => LimitInv
<1> SUFFICES ASSUME Init PROVE LimitInv
  OBVIOUS
<1>1. NoItems \in [Accounts -> Nat]
  BY DEF NoItems
<1>2. Free \in Reservation
  BY <1>1 DEF Free, Reservation, States, Lanes
<1>3. BudgetTypeOK
  BY <1>1, <1>2 DEF Init, BudgetTypeOK, Reservation
<1>4. WithinLimits
  BY LimitAssumption DEF Init, WithinLimits, NoItems
<1> QED BY <1>3, <1>4 DEF LimitInv

\* Every store call, and time, keeps them.
LEMMA StepLimit == LimitInv /\ [Next]_<<now, budgetVars>> => LimitInv'
<1> SUFFICES ASSUME LimitInv, [Next]_<<now, budgetVars>> PROVE LimitInv'
  OBVIOUS
<1> USE LimitAssumption
<1>t. /\ now \in Nat
      /\ committed \in [Accounts -> Nat]
      /\ reserved \in [Accounts -> Nat]
      /\ book \in [Reservations -> Reservation]
      /\ \A a \in Accounts : committed[a] + reserved[a] <= Limit[a]
  BY DEF LimitInv, BudgetTypeOK, WithinLimits, Reservation
<1>f. ASSUME now' \in Nat, committed' \in [Accounts -> Nat], reserved' \in [Accounts -> Nat],
             book' \in [Reservations -> Reservation],
             \A a \in Accounts : committed'[a] + reserved'[a] <= Limit[a]
      PROVE  LimitInv'
  BY <1>f DEF LimitInv, BudgetTypeOK, WithinLimits, Reservation
<1>1. ASSUME NEW r \in Reservations, NEW d \in Demands, NEW lane \in Lanes, NEW n \in Readings,
             Reserve(r, d, lane, n), UNCHANGED now
      PROVE  LimitInv'
  <2>1. d \in [Accounts -> Nat]
    BY DemandsAssumption
  <2>2. [state |-> "ACTIVE", expires |-> n + LeaseFor, lane |-> lane, items |-> d] \in Reservation
    BY <2>1, <1>t, BudgetTimeAssumption DEF Readings, Reservation, States
  <2>3. book' \in [Reservations -> Reservation]
    BY <1>1, <1>t, <2>2 DEF Reserve
  <2>4. reserved' \in [Accounts -> Nat]
    BY <1>1, <1>t, <2>1 DEF Reserve
  <2>5. \A a \in Accounts : EffectiveLimit(a, lane) <= Limit[a] /\ EffectiveLimit(a, lane) \in Int
    BY HeldBackAssumption DEF EffectiveLimit
  <2>6. ASSUME NEW a \in Accounts PROVE committed'[a] + reserved'[a] <= Limit[a]
    <3>1. CASE d[a] = 0
      BY <3>1, <1>1, <1>t DEF Reserve
    <3>2. CASE d[a] > 0
      <4>1. ~(committed[a] + reserved[a] + d[a] > EffectiveLimit(a, lane))
        BY <3>2, <1>1 DEF Reserve, Allows, Violated
      <4> QED BY <4>1, <2>1, <2>5, <1>1, <1>t DEF Reserve
    <3> QED BY <3>1, <3>2, <2>1
  <2> QED BY <2>3, <2>4, <2>6, <1>1, <1>t, <1>f DEF Reserve
<1>2. ASSUME NEW r \in Reservations, Commit(r), UNCHANGED now
      PROVE  LimitInv'
  <2>1. book' \in [Reservations -> Reservation]
    BY <1>2, <1>t, SettleKeepsType DEF Commit, States
  <2>2. /\ reserved' \in [Accounts -> Nat]
        /\ \A a \in Accounts : /\ book[r].items[a] \in Nat
                               /\ reserved'[a] + book[r].items[a] = reserved[a]
    BY <1>2, <1>t, GiveBackIsSafe DEF Commit
  <2>3. /\ committed' \in [Accounts -> Nat]
        /\ \A a \in Accounts : committed'[a] <= committed[a] + book[r].items[a]
    BY <1>2, <1>t, <2>2 DEF Commit, Spend
  <2> QED BY <2>1, <2>2, <2>3, <1>2, <1>t, <1>f
<1>3. ASSUME NEW rs, NEW state \in States, NEW amounts, GiveBack(amounts), Settle(rs, state),
             UNCHANGED <<now, committed>>
      PROVE  LimitInv'
  <2>1. book' \in [Reservations -> Reservation]
    BY <1>3, <1>t, SettleKeepsType
  <2>2. /\ reserved' \in [Accounts -> Nat]
        /\ \A a \in Accounts : amounts[a] \in Nat /\ reserved'[a] + amounts[a] = reserved[a]
    BY <1>3, <1>t, GiveBackIsSafe
  <2> QED BY <2>1, <2>2, <1>3, <1>t, <1>f
<1>4. ASSUME NEW r \in Reservations, Release(r), UNCHANGED now
      PROVE  LimitInv'
  BY <1>3, <1>4 DEF Release, States
<1>5. ASSUME NEW r \in Reservations, NEW n \in Readings, Renew(r, n), UNCHANGED now
      PROVE  LimitInv'
  <2>1. ASSUME NEW b \in Reservation, NEW e \in Nat
        PROVE  [b EXCEPT !.expires = e] \in Reservation
    BY DEF Reservation
  <2>2. n + LeaseFor \in Nat /\ book[r] \in Reservation
    BY <1>t, BudgetTimeAssumption DEF Readings
  <2>3. [book[r] EXCEPT !.expires = n + LeaseFor] \in Reservation
    BY <2>1, <2>2
  <2>4. book' \in [Reservations -> Reservation]
    BY <2>3, <1>5, <1>t DEF Renew
  <2> QED BY <2>4, <1>5, <1>t, <1>f DEF Renew
<1>6. ASSUME NEW n \in Readings, ReapExpired(n), UNCHANGED now
      PROVE  LimitInv'
  BY <1>3, <1>6 DEF ReapExpired, States
<1>7. CASE Tick
  BY <1>7, <1>t, <1>f DEF Tick, budgetVars
<1>8. CASE UNCHANGED <<now, budgetVars>>
  BY <1>8, <1>t, <1>f DEF budgetVars
<1> QED BY <1>1, <1>2, <1>4, <1>5, <1>6, <1>7, <1>8 DEF Next, Call

\* The budgets keep their types, and no order of reservations, commits, releases,
\* renewals and reaps takes an account past its limit (try_reserve, _finalize, reap_expired).
THEOREM BudgetLimits == Spec => []LimitInv
  BY InitLimit, StepLimit, PTL DEF Spec

\* Committed and reserved amounts of an account never exceed its configured limit.
THEOREM BudgetWithinLimits == Spec => []WithinLimits
  BY BudgetLimits, PTL DEF LimitInv

----------------------------------------------------------------------------
(* What the reservations hold.  The sums are over the reservations of a    *)
(* state, of which there are finitely many at any time.                    *)

Items(bk, a) == [r \in Reservations |-> bk[r].items[a]]
Total(bk, rs, a) == SumFunctionOnSet(Items(bk, a), rs)

InState(bk, state) == {r \in Reservations : bk[r].state = state}
NormalIn(bk, state) == {r \in Reservations : bk[r].lane = "NORMAL" /\ bk[r].state = state}

Spent(bk, rs, a) == IF a \in Capacity THEN 0 ELSE Total(bk, rs, a)

BookOK(bk) ==
  /\ bk \in [Reservations -> Reservation]
  /\ IsFiniteSet({r \in Reservations : bk[r].state # "FREE"})

\* What the counters of an account say of the book.
Backed(bk, res, com, a) ==
  /\ res = Total(bk, InState(bk, "ACTIVE"), a)
  /\ com = Spent(bk, InState(bk, "COMMITTED"), a)
  /\ Total(bk, NormalIn(bk, "ACTIVE"), a) + Spent(bk, NormalIn(bk, "COMMITTED"), a)
       <= Limit[a] - HeldBack[a]

BookInv ==
  /\ LimitInv
  /\ BookOK(book)
  /\ \A a \in Accounts : Backed(book, reserved[a], committed[a], a)

\* The reservations of a state are finitely many, and each holds natural amounts.
LEMMA BookSums ==
  ASSUME NEW bk, BookOK(bk), NEW a \in Accounts, NEW rs \in SUBSET Reservations,
         \A r \in rs : bk[r].state # "FREE"
  PROVE  /\ IsFiniteSet(rs)
         /\ \A r \in rs : Items(bk, a)[r] \in Nat
         /\ Total(bk, rs, a) \in Nat
<1>1. rs \subseteq {r \in Reservations : bk[r].state # "FREE"}
  OBVIOUS
<1>2. IsFiniteSet(rs)
  BY <1>1, FS_Subset DEF BookOK
<1>3. \A r \in Reservations : Items(bk, a)[r] \in Nat
  BY DEF BookOK, Items, Reservation
<1> QED
  BY <1>2, <1>3, SumNat DEF Total

\* A new reservation adds what it holds, and changes no other sum.
LEMMA ReserveSums ==
  ASSUME NEW bk, BookOK(bk), NEW r \in Reservations, bk[r] = Free,
         NEW e \in Reservation, e.state = "ACTIVE", NEW a \in Accounts,
         NEW bk2, bk2 = [bk EXCEPT ![r] = e]
  PROVE  /\ BookOK(bk2)
         /\ Total(bk2, InState(bk2, "ACTIVE"), a)
              = Total(bk, InState(bk, "ACTIVE"), a) + e.items[a]
         /\ Total(bk2, InState(bk2, "COMMITTED"), a) = Total(bk, InState(bk, "COMMITTED"), a)
         /\ Total(bk2, NormalIn(bk2, "COMMITTED"), a) = Total(bk, NormalIn(bk, "COMMITTED"), a)
         /\ Total(bk2, NormalIn(bk2, "ACTIVE"), a)
              = Total(bk, NormalIn(bk, "ACTIVE"), a)
                  + IF e.lane = "NORMAL" THEN e.items[a] ELSE 0
<1>1. /\ bk2 \in [Reservations -> Reservation] /\ bk2[r] = e
      /\ \A q \in Reservations : q # r => bk2[q] = bk[q]
      /\ bk[r].state = "FREE"
  BY DEF BookOK, Free
<1>2. {q \in Reservations : bk2[q].state # "FREE"}
        = {q \in Reservations : bk[q].state # "FREE"} \cup {r}
  BY <1>1
<1>3. IsFiniteSet({q \in Reservations : bk2[q].state # "FREE"})
  BY <1>2, FS_AddElement DEF BookOK
<1>4. BookOK(bk2)
  BY <1>1, <1>3 DEF BookOK
<1>5. ASSUME NEW rs \in SUBSET Reservations, \A q \in rs : bk[q].state # "FREE"
      PROVE  /\ Total(bk2, rs, a) = Total(bk, rs, a)
             /\ Total(bk2, rs \cup {r}, a) = Total(bk, rs, a) + e.items[a]
  <2>1. IsFiniteSet(rs) /\ \A q \in rs : Items(bk, a)[q] \in Nat
    BY <1>5, BookSums
  <2>2. r \notin rs /\ \A q \in rs : Items(bk2, a)[q] = Items(bk, a)[q]
    BY <1>1, <1>5 DEF Items
  <2>3. Total(bk2, rs, a) = Total(bk, rs, a)
    BY <2>1, <2>2, SumSame DEF Total
  <2>4. Items(bk2, a)[r] = e.items[a] /\ e.items[a] \in Nat
    BY <1>1 DEF Items, Reservation
  <2>5. (\A q \in rs : Items(bk2, a)[q] \in Nat) /\ Items(bk2, a)[r] \in Nat
    BY <2>1, <2>2, <2>4
  <2>6. SumFunctionOnSet(Items(bk2, a), rs \cup {r})
          = SumFunctionOnSet(Items(bk2, a), rs) + Items(bk2, a)[r]
    BY <2>1, <2>2, <2>5, SumAdd
  <2> QED
    BY <2>3, <2>4, <2>6 DEF Total
<1>6. /\ InState(bk2, "ACTIVE") = InState(bk, "ACTIVE") \cup {r}
      /\ InState(bk2, "COMMITTED") = InState(bk, "COMMITTED")
      /\ NormalIn(bk2, "COMMITTED") = NormalIn(bk, "COMMITTED")
      /\ NormalIn(bk2, "ACTIVE")
           = IF e.lane = "NORMAL" THEN NormalIn(bk, "ACTIVE") \cup {r} ELSE NormalIn(bk, "ACTIVE")
  BY <1>1 DEF InState, NormalIn
<1>7. \A s \in {"ACTIVE", "COMMITTED"} :
        /\ InState(bk, s) \in SUBSET Reservations /\ NormalIn(bk, s) \in SUBSET Reservations
        /\ \A q \in InState(bk, s) \cup NormalIn(bk, s) : bk[q].state # "FREE"
  BY DEF InState, NormalIn
<1>8. Total(bk, NormalIn(bk, "ACTIVE"), a) \in Nat
  BY <1>7, BookSums
<1>9. Total(bk2, InState(bk2, "ACTIVE"), a) = Total(bk, InState(bk, "ACTIVE"), a) + e.items[a]
  BY <1>5, <1>6, <1>7
<1>10. /\ Total(bk2, InState(bk2, "COMMITTED"), a) = Total(bk, InState(bk, "COMMITTED"), a)
       /\ Total(bk2, NormalIn(bk2, "COMMITTED"), a) = Total(bk, NormalIn(bk, "COMMITTED"), a)
  BY <1>5, <1>6, <1>7
<1>11. Total(bk2, NormalIn(bk2, "ACTIVE"), a)
         = Total(bk, NormalIn(bk, "ACTIVE"), a) + IF e.lane = "NORMAL" THEN e.items[a] ELSE 0
  <2>1. CASE e.lane = "NORMAL"
    BY <2>1, <1>5, <1>6, <1>7
  <2>2. CASE e.lane # "NORMAL"
    <3>1. Total(bk2, NormalIn(bk2, "ACTIVE"), a) = Total(bk, NormalIn(bk, "ACTIVE"), a)
      BY <2>2, <1>5, <1>6, <1>7
    <3> QED
      BY <2>2, <3>1, <1>8
  <2> QED
    BY <2>1, <2>2
<1> QED
  BY <1>4, <1>9, <1>10, <1>11

\* Settling reservations in progress changes no amount; they leave the sum over those in
\* progress, and join the spent ones if they are committed.
LEMMA SettleSums ==
  ASSUME NEW bk, BookOK(bk), NEW rs \in SUBSET InState(bk, "ACTIVE"),
         NEW state \in States \ {"FREE", "ACTIVE"}, NEW a \in Accounts,
         NEW bk2, bk2 = [r \in Reservations |->
                           IF r \in rs THEN [bk[r] EXCEPT !.state = state] ELSE bk[r]]
  PROVE  /\ BookOK(bk2)
         /\ Total(bk2, InState(bk2, "ACTIVE"), a) + Total(bk, rs, a)
              = Total(bk, InState(bk, "ACTIVE"), a)
         /\ Total(bk2, NormalIn(bk2, "ACTIVE"), a) + Total(bk, rs \cap NormalIn(bk, "ACTIVE"), a)
              = Total(bk, NormalIn(bk, "ACTIVE"), a)
         /\ Total(bk2, InState(bk2, "COMMITTED"), a)
              = Total(bk, InState(bk, "COMMITTED"), a)
                  + IF state = "COMMITTED" THEN Total(bk, rs, a) ELSE 0
         /\ Total(bk2, NormalIn(bk2, "COMMITTED"), a)
              = Total(bk, NormalIn(bk, "COMMITTED"), a)
                  + IF state = "COMMITTED" THEN Total(bk, rs \cap NormalIn(bk, "ACTIVE"), a) ELSE 0
<1>1. \A r \in Reservations : bk[r] \in Reservation
  BY DEF BookOK
<1>2. \A r \in Reservations :
        /\ bk2[r] \in Reservation
        /\ bk2[r].state = IF r \in rs THEN state ELSE bk[r].state
        /\ bk2[r].lane = bk[r].lane /\ bk2[r].items = bk[r].items
  BY <1>1 DEF Reservation
<1>3. \A r \in rs : r \in Reservations /\ bk[r].state = "ACTIVE"
  BY DEF InState
<1>4. {q \in Reservations : bk2[q].state # "FREE"} = {q \in Reservations : bk[q].state # "FREE"}
  BY <1>2, <1>3
<1>5. BookOK(bk2)
  BY <1>2, <1>4 DEF BookOK
<1>6. Items(bk2, a) = Items(bk, a)
  BY <1>2 DEF Items
<1>7. \A qs : Total(bk2, qs, a) = Total(bk, qs, a)
  BY <1>6 DEF Total
<1>8. /\ InState(bk2, "ACTIVE") = InState(bk, "ACTIVE") \ rs
      /\ NormalIn(bk2, "ACTIVE") = NormalIn(bk, "ACTIVE") \ (rs \cap NormalIn(bk, "ACTIVE"))
  BY <1>2, <1>3 DEF InState, NormalIn
<1>9. /\ InState(bk2, "COMMITTED")
           = IF state = "COMMITTED" THEN InState(bk, "COMMITTED") \cup rs
                                    ELSE InState(bk, "COMMITTED")
      /\ NormalIn(bk2, "COMMITTED")
           = IF state = "COMMITTED" THEN NormalIn(bk, "COMMITTED") \cup (rs \cap NormalIn(bk, "ACTIVE"))
                                    ELSE NormalIn(bk, "COMMITTED")
  BY <1>2, <1>3 DEF InState, NormalIn
<1>10. ASSUME NEW big \in SUBSET Reservations, \A q \in big : bk[q].state # "FREE",
              NEW part \in SUBSET big
       PROVE  /\ Total(bk, big, a) = Total(bk, part, a) + Total(bk, big \ part, a)
              /\ Total(bk, part, a) \in Nat /\ Total(bk, big \ part, a) \in Nat
  <2>1. IsFiniteSet(big) /\ \A r \in big : Items(bk, a)[r] \in Nat
    BY <1>10, BookSums
  <2>2. /\ \A r \in part : r \in Reservations /\ bk[r].state # "FREE"
        /\ \A r \in big \ part : r \in Reservations /\ bk[r].state # "FREE"
    BY <1>10
  <2>3. Total(bk, part, a) \in Nat /\ Total(bk, big \ part, a) \in Nat
    BY <2>2, BookSums
  <2> QED
    BY <2>1, <2>3, SumSplit DEF Total
<1>11. /\ \A q \in InState(bk, "ACTIVE") \cup InState(bk, "COMMITTED") :
            q \in Reservations /\ bk[q].state # "FREE"
       /\ NormalIn(bk, "ACTIVE") \subseteq InState(bk, "ACTIVE")
       /\ NormalIn(bk, "COMMITTED") \subseteq InState(bk, "COMMITTED")
       /\ InState(bk, "ACTIVE") \cap InState(bk, "COMMITTED") = {}
  BY DEF InState, NormalIn
<1> DEFINE nrs == rs \cap NormalIn(bk, "ACTIVE")
<1>12. /\ Total(bk, InState(bk, "ACTIVE"), a)
            = Total(bk, rs, a) + Total(bk, InState(bk, "ACTIVE") \ rs, a)
       /\ Total(bk, rs, a) \in Nat /\ Total(bk, InState(bk, "ACTIVE") \ rs, a) \in Nat
  BY <1>10, <1>11
<1>13. /\ Total(bk, NormalIn(bk, "ACTIVE"), a)
            = Total(bk, nrs, a) + Total(bk, NormalIn(bk, "ACTIVE") \ nrs, a)
       /\ Total(bk, nrs, a) \in Nat /\ Total(bk, NormalIn(bk, "ACTIVE") \ nrs, a) \in Nat
  BY <1>10, <1>11
<1>14. /\ Total(bk, InState(bk, "COMMITTED") \cup rs, a)
            = Total(bk, InState(bk, "COMMITTED"), a) + Total(bk, rs, a)
       /\ Total(bk, InState(bk, "COMMITTED"), a) \in Nat
  <2> DEFINE com == InState(bk, "COMMITTED")
             big == com \cup rs
  <2>1. big \in SUBSET Reservations /\ \A q \in big : bk[q].state # "FREE"
    BY <1>11
  <2>2. com \in SUBSET big /\ big \ com = rs
    BY <1>11
  <2> HIDE DEF com, big
  <2>3. Total(bk, big, a) = Total(bk, com, a) + Total(bk, rs, a) /\ Total(bk, com, a) \in Nat
    BY <2>1, <2>2, <1>10
  <2> QED
    BY <2>3 DEF com, big
<1>15. /\ Total(bk, NormalIn(bk, "COMMITTED") \cup nrs, a)
            = Total(bk, NormalIn(bk, "COMMITTED"), a) + Total(bk, nrs, a)
       /\ Total(bk, NormalIn(bk, "COMMITTED"), a) \in Nat
  <2> DEFINE com == NormalIn(bk, "COMMITTED")
             big == com \cup nrs
  <2>1. big \in SUBSET Reservations /\ \A q \in big : bk[q].state # "FREE"
    BY <1>11
  <2>2. com \in SUBSET big /\ big \ com = nrs
    BY <1>11
  <2> HIDE DEF com, big, nrs
  <2>3. Total(bk, big, a) = Total(bk, com, a) + Total(bk, nrs, a) /\ Total(bk, com, a) \in Nat
    BY <2>1, <2>2, <1>10
  <2> QED
    BY <2>3 DEF com, big
<1> HIDE DEF nrs
<1>16. /\ Total(bk2, InState(bk2, "ACTIVE"), a) + Total(bk, rs, a)
            = Total(bk, InState(bk, "ACTIVE"), a)
       /\ Total(bk2, NormalIn(bk2, "ACTIVE"), a) + Total(bk, nrs, a)
            = Total(bk, NormalIn(bk, "ACTIVE"), a)
  <2>1. /\ InState(bk2, "ACTIVE") = InState(bk, "ACTIVE") \ rs
        /\ NormalIn(bk2, "ACTIVE") = NormalIn(bk, "ACTIVE") \ nrs
    BY <1>8 DEF nrs
  <2>2. /\ Total(bk2, InState(bk2, "ACTIVE"), a) = Total(bk, InState(bk, "ACTIVE") \ rs, a)
        /\ Total(bk2, NormalIn(bk2, "ACTIVE"), a) = Total(bk, NormalIn(bk, "ACTIVE") \ nrs, a)
    BY <2>1, <1>7
  <2> QED
    BY <2>2, <1>12, <1>13
<1>17. /\ Total(bk2, InState(bk2, "COMMITTED"), a)
            = Total(bk, InState(bk, "COMMITTED"), a)
                + IF state = "COMMITTED" THEN Total(bk, rs, a) ELSE 0
       /\ Total(bk2, NormalIn(bk2, "COMMITTED"), a)
            = Total(bk, NormalIn(bk, "COMMITTED"), a)
                + IF state = "COMMITTED" THEN Total(bk, nrs, a) ELSE 0
  <2>1. CASE state = "COMMITTED"
    <3>1. /\ InState(bk2, "COMMITTED") = InState(bk, "COMMITTED") \cup rs
          /\ NormalIn(bk2, "COMMITTED") = NormalIn(bk, "COMMITTED") \cup nrs
      BY <2>1, <1>9 DEF nrs
    <3> QED
      BY <2>1, <3>1, <1>7, <1>14, <1>15
  <2>2. CASE state # "COMMITTED"
    <3>1. /\ InState(bk2, "COMMITTED") = InState(bk, "COMMITTED")
          /\ NormalIn(bk2, "COMMITTED") = NormalIn(bk, "COMMITTED")
      BY <2>2, <1>9
    <3>2. /\ Total(bk2, InState(bk2, "COMMITTED"), a) = Total(bk, InState(bk, "COMMITTED"), a)
          /\ Total(bk2, NormalIn(bk2, "COMMITTED"), a) = Total(bk, NormalIn(bk, "COMMITTED"), a)
      BY <3>1, <1>7
    <3> QED
      BY <2>2, <3>2, <1>14, <1>15
  <2> QED
    BY <2>1, <2>2
<1> QED
  BY <1>5, <1>16, <1>17 DEF nrs

\* What a set of reservations holds of an account, in the model's own words.
LEMMA HeldIsTotal ==
  ASSUME NEW rs, NEW a \in Accounts
  PROVE  Held(rs)[a] = Total(book, rs, a)
BY DEF Held, Total, Items

\* A new reservation for what its lane may still use keeps the accounts backed.
LEMMA ReserveBacked ==
  ASSUME NEW bk, BookOK(bk), NEW r \in Reservations, bk[r] = Free,
         NEW e \in Reservation, e.state = "ACTIVE", NEW a \in Accounts,
         NEW res, NEW com, Backed(bk, res, com, a),
         e.items[a] > 0 => com + res + e.items[a] <= EffectiveLimit(a, e.lane)
  PROVE  Backed([bk EXCEPT ![r] = e], res + e.items[a], com, a)
<1> DEFINE bk2 == [bk EXCEPT ![r] = e]
<1>1. PICK d \in Nat : d = e.items[a]
  BY DEF Reservation
<1>2. /\ InState(bk, "ACTIVE") \in SUBSET Reservations
      /\ InState(bk, "COMMITTED") \in SUBSET Reservations
      /\ NormalIn(bk, "ACTIVE") \in SUBSET InState(bk, "ACTIVE")
      /\ NormalIn(bk, "COMMITTED") \in SUBSET InState(bk, "COMMITTED")
      /\ \A q \in InState(bk, "ACTIVE") \cup InState(bk, "COMMITTED") : bk[q].state # "FREE"
  BY DEF InState, NormalIn
<1>3. PICK act \in Nat : act = Total(bk, InState(bk, "ACTIVE"), a)
  BY <1>2, BookSums
<1>4. PICK spent \in Nat : spent = Total(bk, InState(bk, "COMMITTED"), a)
  BY <1>2, BookSums
<1>5. PICK nact \in Nat : nact = Total(bk, NormalIn(bk, "ACTIVE"), a) /\ nact <= act
  <2>1. IsFiniteSet(InState(bk, "ACTIVE")) /\ \A q \in InState(bk, "ACTIVE") : Items(bk, a)[q] \in Nat
    BY <1>2, BookSums
  <2>2. Total(bk, NormalIn(bk, "ACTIVE"), a) <= act
    BY <1>2, <1>3, <2>1, SumPart DEF Total
  <2>3. Total(bk, NormalIn(bk, "ACTIVE"), a) \in Nat
    BY <1>2, BookSums
  <2> QED
    BY <2>2, <2>3
<1>6. PICK nspent \in Nat : nspent = Total(bk, NormalIn(bk, "COMMITTED"), a) /\ nspent <= spent
  <2>1. IsFiniteSet(InState(bk, "COMMITTED"))
        /\ \A q \in InState(bk, "COMMITTED") : Items(bk, a)[q] \in Nat
    BY <1>2, BookSums
  <2>2. Total(bk, NormalIn(bk, "COMMITTED"), a) <= spent
    BY <1>2, <1>4, <2>1, SumPart DEF Total
  <2>3. Total(bk, NormalIn(bk, "COMMITTED"), a) \in Nat
    BY <1>2, BookSums
  <2> QED
    BY <2>2, <2>3
<1>7. /\ Total(bk2, InState(bk2, "ACTIVE"), a) = act + d
      /\ Total(bk2, InState(bk2, "COMMITTED"), a) = spent
      /\ Total(bk2, NormalIn(bk2, "COMMITTED"), a) = nspent
      /\ Total(bk2, NormalIn(bk2, "ACTIVE"), a) = nact + IF e.lane = "NORMAL" THEN d ELSE 0
  BY <1>1, <1>3, <1>4, <1>5, <1>6, ReserveSums
<1>8. /\ res = act
      /\ com = IF a \in Capacity THEN 0 ELSE spent
      /\ nact + (IF a \in Capacity THEN 0 ELSE nspent) <= Limit[a] - HeldBack[a]
  BY <1>3, <1>4, <1>5, <1>6 DEF Backed, Spent
<1>9. Limit[a] \in Nat /\ HeldBack[a] \in Nat
  BY LimitAssumption, HeldBackAssumption
<1>10. nact + (IF e.lane = "NORMAL" THEN d ELSE 0) + (IF a \in Capacity THEN 0 ELSE nspent)
         <= Limit[a] - HeldBack[a]
  <2>1. CASE e.lane = "NORMAL" /\ d > 0
    <3>1. com + res + d <= Limit[a] - HeldBack[a]
      BY <1>1, <2>1 DEF EffectiveLimit
    <3> QED
      BY <2>1, <3>1, <1>5, <1>6, <1>8, <1>9
  <2>2. CASE ~(e.lane = "NORMAL" /\ d > 0)
    BY <2>2, <1>8, <1>9
  <2> QED
    BY <2>1, <2>2
<1> HIDE DEF bk2
<1>11. Backed(bk2, res + d, com, a)
  BY <1>7, <1>8, <1>9, <1>10 DEF Backed, Spent
<1> QED
  BY <1>1, <1>11 DEF bk2

\* So does giving back what settled reservations held, and charging it if they are committed.
LEMMA SettleBacked ==
  ASSUME NEW bk, BookOK(bk), NEW rs \in SUBSET InState(bk, "ACTIVE"),
         NEW state \in States \ {"FREE", "ACTIVE"}, NEW a \in Accounts,
         NEW bk2, bk2 = [r \in Reservations |->
                           IF r \in rs THEN [bk[r] EXCEPT !.state = state] ELSE bk[r]],
         NEW res, NEW com, Backed(bk, res, com, a)
  PROVE  Backed(bk2, res - Total(bk, rs, a),
                com + (IF state = "COMMITTED" /\ a \notin Capacity THEN Total(bk, rs, a) ELSE 0), a)
<1>1. /\ InState(bk, "ACTIVE") \in SUBSET Reservations
      /\ InState(bk, "COMMITTED") \in SUBSET Reservations
      /\ NormalIn(bk, "ACTIVE") \in SUBSET InState(bk, "ACTIVE")
      /\ NormalIn(bk, "COMMITTED") \in SUBSET InState(bk, "COMMITTED")
      /\ \A q \in InState(bk, "ACTIVE") \cup InState(bk, "COMMITTED") : bk[q].state # "FREE"
  BY DEF InState, NormalIn
<1>2. PICK act2 \in Nat : act2 = Total(bk2, InState(bk2, "ACTIVE"), a)
  <2>1. BookOK(bk2)
    BY SettleSums
  <2>2. InState(bk2, "ACTIVE") \in SUBSET Reservations
        /\ \A q \in InState(bk2, "ACTIVE") : bk2[q].state # "FREE"
    BY DEF InState
  <2> QED
    BY <2>1, <2>2, BookSums
<1>3. PICK nact2 \in Nat : nact2 = Total(bk2, NormalIn(bk2, "ACTIVE"), a)
  <2>1. BookOK(bk2)
    BY SettleSums
  <2>2. NormalIn(bk2, "ACTIVE") \in SUBSET Reservations
        /\ \A q \in NormalIn(bk2, "ACTIVE") : bk2[q].state # "FREE"
    BY DEF NormalIn
  <2> QED
    BY <2>1, <2>2, BookSums
<1>4. PICK t \in Nat : t = Total(bk, rs, a)
  BY <1>1, BookSums
<1> DEFINE nrs == rs \cap NormalIn(bk, "ACTIVE")
<1>5. PICK nt \in Nat : nt = Total(bk, nrs, a)
  BY <1>1, BookSums
<1>6. PICK spent \in Nat : spent = Total(bk, InState(bk, "COMMITTED"), a)
  BY <1>1, BookSums
<1>7. PICK nspent \in Nat : nspent = Total(bk, NormalIn(bk, "COMMITTED"), a)
  BY <1>1, BookSums
<1>8. /\ act2 + t = Total(bk, InState(bk, "ACTIVE"), a)
      /\ nact2 + nt = Total(bk, NormalIn(bk, "ACTIVE"), a)
      /\ Total(bk2, InState(bk2, "COMMITTED"), a) = spent + IF state = "COMMITTED" THEN t ELSE 0
      /\ Total(bk2, NormalIn(bk2, "COMMITTED"), a) = nspent + IF state = "COMMITTED" THEN nt ELSE 0
  BY <1>2, <1>3, <1>4, <1>5, <1>6, <1>7, SettleSums
<1>9. /\ res = act2 + t
      /\ com = IF a \in Capacity THEN 0 ELSE spent
      /\ nact2 + nt + (IF a \in Capacity THEN 0 ELSE nspent) <= Limit[a] - HeldBack[a]
  BY <1>6, <1>7, <1>8 DEF Backed, Spent
<1>10. Limit[a] \in Nat /\ HeldBack[a] \in Nat
  BY LimitAssumption, HeldBackAssumption
<1>11. res - t = act2
  BY <1>9
<1>12. com + (IF state = "COMMITTED" /\ a \notin Capacity THEN t ELSE 0)
         = IF a \in Capacity THEN 0 ELSE spent + IF state = "COMMITTED" THEN t ELSE 0
  BY <1>9
<1>13. nact2 + (IF a \in Capacity THEN 0 ELSE nspent + IF state = "COMMITTED" THEN nt ELSE 0)
         <= Limit[a] - HeldBack[a]
  BY <1>9, <1>10
<1> HIDE DEF nrs
<1> QED
  BY <1>2, <1>3, <1>4, <1>8, <1>11, <1>12, <1>13 DEF Backed, Spent

\* An empty book backs empty counters.
LEMMA InitBook == Init => BookInv
<1> SUFFICES ASSUME Init PROVE BookInv
  OBVIOUS
<1>1. LimitInv
  BY InitLimit
<1>2. book \in [Reservations -> Reservation]
  BY <1>1 DEF LimitInv, BudgetTypeOK, Reservation
<1>3. \A r \in Reservations : book[r].state = "FREE"
  BY DEF Init, Free
<1>4. {r \in Reservations : book[r].state # "FREE"} = {}
  BY <1>3
<1>5. BookOK(book)
  BY <1>2, <1>4, FS_EmptySet DEF BookOK
<1>6. \A state \in {"ACTIVE", "COMMITTED"} :
        InState(book, state) = {} /\ NormalIn(book, state) = {}
  BY <1>3 DEF InState, NormalIn
<1>7. \A a \in Accounts : Total(book, {}, a) = 0
  BY SumEmpty DEF Total
<1>8. \A a \in Accounts : /\ reserved[a] = 0 /\ committed[a] = 0
                          /\ Limit[a] \in Nat /\ HeldBack[a] \in Nat /\ HeldBack[a] <= Limit[a]
  BY LimitAssumption, HeldBackAssumption DEF Init, NoItems
<1>9. \A a \in Accounts : Backed(book, reserved[a], committed[a], a)
  <2>1. /\ InState(book, "ACTIVE") = {} /\ NormalIn(book, "ACTIVE") = {}
        /\ InState(book, "COMMITTED") = {} /\ NormalIn(book, "COMMITTED") = {}
    BY <1>6
  <2>2. ASSUME NEW a \in Accounts PROVE Backed(book, reserved[a], committed[a], a)
    <3>1. Total(book, {}, a) = 0 /\ Spent(book, {}, a) = 0
      BY <1>7 DEF Spent
    <3>2. 0 + 0 <= Limit[a] - HeldBack[a]
      BY <1>8
    <3> QED
      BY <2>1, <3>1, <3>2, <1>8 DEF Backed
  <2> QED
    BY <2>2
<1> QED
  BY <1>1, <1>5, <1>9 DEF BookInv

\* Settling reservations in progress, and giving back what they hold, keeps the book.
LEMMA SettleBook ==
  ASSUME BookInv, LimitInv', NEW rs \in SUBSET {r \in Reservations : IsActive(r)},
         NEW state \in States \ {"FREE", "ACTIVE"}, Settle(rs, state),
         \A a \in Accounts : reserved'[a] = reserved[a] - Total(book, rs, a),
         \A a \in Accounts :
           committed'[a] = committed[a] + IF state = "COMMITTED" /\ a \notin Capacity
                                          THEN Total(book, rs, a) ELSE 0
  PROVE  BookInv'
<1>1. rs \in SUBSET InState(book, "ACTIVE")
  BY DEF InState, IsActive
<1>2. book' = [r \in Reservations |->
                 IF r \in rs THEN [book[r] EXCEPT !.state = state] ELSE book[r]]
  BY DEF Settle
<1>3. BookOK(book) /\ \A a \in Accounts : Backed(book, reserved[a], committed[a], a)
  BY DEF BookInv
<1>4. ASSUME NEW a \in Accounts PROVE Backed(book', reserved'[a], committed'[a], a)
  <2> DEFINE res == reserved[a] - Total(book, rs, a)
             com == committed[a] + IF state = "COMMITTED" /\ a \notin Capacity
                                   THEN Total(book, rs, a) ELSE 0
  <2>1. Backed(book', res, com, a)
    BY <1>1, <1>2, <1>3, SettleBacked
  <2>2. reserved'[a] = res /\ committed'[a] = com
    OBVIOUS
  <2> HIDE DEF res, com
  <2> QED
    BY <2>1, <2>2
<1>5. BookOK(book')
  <2>1. \A r \in Reservations : book'[r].state = "FREE" <=> book[r].state = "FREE"
    BY <1>1, <1>2, <1>3 DEF BookOK, Reservation, InState
  <2>2. {q \in Reservations : book'[q].state # "FREE"}
          = {q \in Reservations : book[q].state # "FREE"}
    BY <2>1
  <2>3. book' \in [Reservations -> Reservation]
    BY DEF LimitInv, BudgetTypeOK, Reservation
  <2> QED
    BY <1>3, <2>2, <2>3 DEF BookOK
<1> QED
  BY <1>4, <1>5 DEF BookInv

\* Every store call, and time, keeps the book.
LEMMA StepBook == BookInv /\ [Next]_<<now, budgetVars>> => BookInv'
<1> SUFFICES ASSUME BookInv, [Next]_<<now, budgetVars>> PROVE BookInv'
  OBVIOUS
<1>l. LimitInv'
  BY StepLimit DEF BookInv
<1>t. /\ reserved \in [Accounts -> Nat] /\ committed \in [Accounts -> Nat]
      /\ BookOK(book)
      /\ \A a \in Accounts : Backed(book, reserved[a], committed[a], a)
  BY DEF BookInv, LimitInv, BudgetTypeOK
<1>1. ASSUME NEW r \in Reservations, NEW d \in Demands, NEW lane \in Lanes, NEW n \in Readings,
             Reserve(r, d, lane, n), UNCHANGED now
      PROVE  BookInv'
  <2> DEFINE e == [state |-> "ACTIVE", expires |-> n + LeaseFor, lane |-> lane, items |-> d]
  <2>1. e \in Reservation /\ d \in [Accounts -> Nat]
    BY DemandsAssumption, BudgetTimeAssumption DEF Readings, Reservation, States,
       BookInv, LimitInv, BudgetTypeOK
  <2>2. e.state = "ACTIVE" /\ e.items = d /\ e.lane = lane
    OBVIOUS
  <2>3. book[r] = Free /\ book' = [book EXCEPT ![r] = e] /\ committed' = committed
    BY <1>1 DEF Reserve
  <2> HIDE DEF e
  <2>4. ASSUME NEW a \in Accounts PROVE Backed(book', reserved'[a], committed'[a], a)
    <3>1. e.items[a] > 0 => committed[a] + reserved[a] + e.items[a] <= EffectiveLimit(a, e.lane)
      <4>1. EffectiveLimit(a, lane) \in Int
        BY LimitAssumption, HeldBackAssumption DEF EffectiveLimit
      <4>2. d[a] > 0 => ~(committed[a] + reserved[a] + d[a] > EffectiveLimit(a, lane))
        BY <1>1 DEF Reserve, Allows, Violated
      <4> QED
        BY <4>1, <4>2, <1>t, <2>1, <2>2
    <3>2. Backed([book EXCEPT ![r] = e], reserved[a] + e.items[a], committed[a], a)
      BY <3>1, <1>t, <2>1, <2>2, <2>3, ReserveBacked
    <3>3. reserved'[a] = reserved[a] + e.items[a]
      BY <1>1, <2>2 DEF Reserve
    <3> QED
      BY <2>3, <3>2, <3>3
  <2>5. BookOK(book')
    <3>1. /\ book' \in [Reservations -> Reservation]
          /\ {q \in Reservations : book'[q].state # "FREE"}
               = {q \in Reservations : book[q].state # "FREE"} \cup {r}
      BY <1>t, <2>1, <2>2, <2>3 DEF BookOK
    <3> QED
      BY <3>1, <1>t, FS_AddElement DEF BookOK
  <2> QED
    BY <1>l, <2>4, <2>5 DEF BookInv
<1>2. ASSUME NEW r \in Reservations, IsActive(r)
      PROVE  /\ {r} \in SUBSET {q \in Reservations : IsActive(q)}
             /\ \A a \in Accounts : Total(book, {r}, a) = book[r].items[a]
                                    /\ book[r].items[a] \in Nat
  <2>1. ASSUME NEW a \in Accounts
        PROVE  Total(book, {r}, a) = book[r].items[a] /\ book[r].items[a] \in Nat
    <3>1. Items(book, a)[r] = book[r].items[a] /\ Items(book, a)[r] \in Nat
      BY <1>t DEF Items, BookOK, Reservation
    <3>2. IsFiniteSet({}) /\ {} \cup {r} = {r}
      BY FS_EmptySet
    <3>3. SumFunctionOnSet(Items(book, a), {} \cup {r})
            = SumFunctionOnSet(Items(book, a), {}) + Items(book, a)[r]
      BY <3>1, <3>2, SumAdd
    <3> QED
      BY <3>1, <3>2, <3>3, SumEmpty DEF Total
  <2> QED
    BY <1>2, <2>1
<1>3. ASSUME NEW r \in Reservations, Commit(r)
      PROVE  BookInv'
  <2>1. IsActive(r) /\ Settle({r}, "COMMITTED")
    BY <1>3 DEF Commit
  <2>2. \A a \in Accounts : reserved'[a] = reserved[a] - Total(book, {r}, a)
    BY <1>2, <1>3, <2>1 DEF Commit, GiveBack
  <2>3. \A a \in Accounts :
          committed'[a] = committed[a] + IF "COMMITTED" = "COMMITTED" /\ a \notin Capacity
                                         THEN Total(book, {r}, a) ELSE 0
    BY <1>2, <1>3, <2>1 DEF Commit, Spend
  <2> QED
    BY <1>l, <1>2, <2>1, <2>2, <2>3, SettleBook DEF States
<1>4. ASSUME NEW r \in Reservations, Release(r)
      PROVE  BookInv'
  <2>1. IsActive(r) /\ Settle({r}, "RELEASED") /\ committed' = committed
    BY <1>4 DEF Release
  <2>2. \A a \in Accounts : reserved'[a] = reserved[a] - Total(book, {r}, a)
    BY <1>2, <1>4, <2>1 DEF Release, GiveBack
  <2>3. \A a \in Accounts :
          committed'[a] = committed[a] + IF "RELEASED" = "COMMITTED" /\ a \notin Capacity
                                         THEN Total(book, {r}, a) ELSE 0
    BY <1>t, <2>1
  <2> QED
    BY <1>l, <1>2, <2>1, <2>2, <2>3, SettleBook DEF States
<1>5. ASSUME NEW r \in Reservations, NEW n \in Readings, Renew(r, n)
      PROVE  BookInv'
  <2>1. /\ book' \in [Reservations -> Reservation]
        /\ \A q \in Reservations : /\ book'[q].state = book[q].state
                                   /\ book'[q].lane = book[q].lane
                                   /\ book'[q].items = book[q].items
        /\ reserved' = reserved /\ committed' = committed
    BY <1>5, <1>l, <1>t DEF Renew, BookOK, LimitInv, BudgetTypeOK, Reservation
  <2>2. /\ \A s : InState(book', s) = InState(book, s) /\ NormalIn(book', s) = NormalIn(book, s)
        /\ {q \in Reservations : book'[q].state # "FREE"}
             = {q \in Reservations : book[q].state # "FREE"}
    BY <2>1 DEF InState, NormalIn
  <2>3. \A a \in Accounts : Items(book', a) = Items(book, a)
    BY <2>1 DEF Items
  <2>4. \A a \in Accounts : Backed(book', reserved'[a], committed'[a], a)
    BY <1>t, <2>1, <2>2, <2>3 DEF Backed, Spent, Total
  <2> QED
    BY <1>l, <1>t, <2>1, <2>2, <2>4 DEF BookInv, BookOK
<1>6. ASSUME NEW n \in Readings, ReapExpired(n)
      PROVE  BookInv'
  <2>1. /\ Overdue(n) \in SUBSET {r \in Reservations : IsActive(r)}
        /\ Settle(Overdue(n), "EXPIRED") /\ committed' = committed
    BY <1>6 DEF ReapExpired, Overdue
  <2>2. \A a \in Accounts : reserved'[a] = reserved[a] - Total(book, Overdue(n), a)
    BY <1>6, HeldIsTotal DEF ReapExpired, GiveBack
  <2>3. \A a \in Accounts :
          committed'[a] = committed[a] + IF "EXPIRED" = "COMMITTED" /\ a \notin Capacity
                                         THEN Total(book, Overdue(n), a) ELSE 0
    BY <1>t, <2>1
  <2> QED
    BY <1>l, <2>1, <2>2, <2>3, SettleBook DEF States
<1>7. CASE UNCHANGED budgetVars
  BY <1>7, <1>l DEF BookInv, budgetVars
<1> QED
  BY <1>1, <1>3, <1>4, <1>5, <1>6, <1>7 DEF Next, Call, Tick

\* The inductive invariant of the book: at any time, of every account, what the counters
\* say is what the reservations hold, by state and lane.
THEOREM BudgetBook == Spec => []BookInv
  BY InitBook, StepBook, PTL DEF Spec

\* What is reserved of an account is exactly what its unfinished reservations hold: no
\* sequence of commits, releases, renewals and reaps gives anything back twice.
THEOREM ReservedBacked == Spec => []ReservedIsBacked
<1>1. BookInv => ReservedIsBacked
  <2> SUFFICES ASSUME BookInv PROVE ReservedIsBacked
    OBVIOUS
  <2>1. reserved \in [Accounts -> Nat]
    BY DEF BookInv, LimitInv, BudgetTypeOK
  <2>2. \A a \in Accounts : reserved[a] = Total(book, InState(book, "ACTIVE"), a)
    BY DEF BookInv, Backed
  <2>3. {r \in Reservations : IsActive(r)} = InState(book, "ACTIVE")
    BY DEF IsActive, InState
  <2>4. Held(InState(book, "ACTIVE")) = [a \in Accounts |-> Total(book, InState(book, "ACTIVE"), a)]
    BY DEF Held, Total, Items
  <2> QED
    BY <2>1, <2>2, <2>3, <2>4 DEF ReservedIsBacked
<1> QED
  BY <1>1, BudgetBook, PTL

\* What is committed to a cumulative account is exactly what the committed reservations
\* asked of it, each charged once; a slot is never spent.
THEOREM SpentBacked == Spec => []SpentIsCommitted
<1>1. BookInv => SpentIsCommitted
  <2> SUFFICES ASSUME BookInv, NEW a \in Accounts
               PROVE  committed[a] = IF a \in Capacity THEN 0
                                     ELSE Held({r \in Reservations : book[r].state = "COMMITTED"})[a]
    BY DEF SpentIsCommitted
  <2>1. committed[a] = Spent(book, InState(book, "COMMITTED"), a)
    BY DEF BookInv, Backed
  <2> QED
    BY <2>1, HeldIsTotal DEF Spent, InState
<1> QED
  BY <1>1, BudgetBook, PTL

\* What NORMAL tasks hold and have spent never reaches into the exploration reserve.
THEOREM ExplorationReserveKept == Spec => []ExplorationKeepsItsShare
<1>1. BookInv => ExplorationKeepsItsShare
  <2> SUFFICES ASSUME BookInv, NEW a \in Accounts
               PROVE  LET normal == {r \in Reservations : book[r].lane = "NORMAL" /\ IsActive(r)}
                          spent == {r \in Reservations :
                                      book[r].lane = "NORMAL" /\ book[r].state = "COMMITTED"}
                      IN  Held(normal)[a] + (IF a \in Capacity THEN 0 ELSE Held(spent)[a])
                            <= Limit[a] - HeldBack[a]
    BY DEF ExplorationKeepsItsShare
  <2>1. Total(book, NormalIn(book, "ACTIVE"), a) + Spent(book, NormalIn(book, "COMMITTED"), a)
          <= Limit[a] - HeldBack[a]
    BY DEF BookInv, Backed
  <2>2. NormalIn(book, "ACTIVE") = {r \in Reservations : book[r].lane = "NORMAL" /\ IsActive(r)}
    BY DEF NormalIn, IsActive
  <2> QED
    BY <2>1, <2>2, HeldIsTotal DEF Spent, NormalIn
<1> QED
  BY <1>1, BudgetBook, PTL

\* Of every account at least as much is reserved as any set of active reservations holds.
SettlesWithoutUnderflow ==
  \A rs \in SUBSET {r \in Reservations : IsActive(r)} :
    \A a \in Accounts : Held(rs)[a] \in 0..reserved[a]

\* A reservation in progress can always be settled, and what is overdue always reaped: the
\* underflow for which _release_budget_usage would raise is never there.
THEOREM NoUnderflow == Spec => []SettlesWithoutUnderflow
<1>1. BookInv => SettlesWithoutUnderflow
  <2> SUFFICES ASSUME BookInv, NEW rs \in SUBSET {r \in Reservations : IsActive(r)},
                      NEW a \in Accounts
               PROVE  Held(rs)[a] \in 0..reserved[a]
    BY DEF SettlesWithoutUnderflow
  <2>1. /\ BookOK(book) /\ reserved[a] = Total(book, InState(book, "ACTIVE"), a)
        /\ reserved[a] \in Nat
    BY DEF BookInv, Backed, LimitInv, BudgetTypeOK
  <2>2. /\ rs \in SUBSET InState(book, "ACTIVE")
        /\ InState(book, "ACTIVE") \in SUBSET Reservations
        /\ \A r \in InState(book, "ACTIVE") : book[r].state # "FREE"
    BY DEF InState, IsActive
  <2>3. /\ IsFiniteSet(InState(book, "ACTIVE"))
        /\ \A r \in InState(book, "ACTIVE") : Items(book, a)[r] \in Nat
    BY <2>1, <2>2, BookSums
  <2>4. Total(book, rs, a) <= Total(book, InState(book, "ACTIVE"), a)
    BY <2>2, <2>3, SumPart DEF Total
  <2>5. Total(book, rs, a) \in Nat
    BY <2>1, <2>2, BookSums
  <2> QED
    BY <2>1, <2>4, <2>5, HeldIsTotal
<1> QED
  BY <1>1, BudgetBook, PTL

----------------------------------------------------------------------------
(* The branch.                                                             *)

StateFields == {"tier", "low", "productive", "cooldowns", "until", "closed", "at"}
EvalFields == {"at", "lane", "res", "tier", "time", "prior", "read", "marks", "after"}

StateOK(s) ==
  /\ StateFields \subseteq DOMAIN s
  /\ s.at \in Int /\ s.closed \in BOOLEAN

\* Why a state of this lane may be closed: f is whether an account was exhausted.
Justified(lane, s, f) ==
  s.closed => \/ f
              \/ lane = "NORMAL" /\ s.tier = Exhaustive /\ s.low >= CloseStreak

EvalOK(e, f) ==
  /\ EvalFields \subseteq DOMAIN e
  /\ e.lane \in Lanes /\ e.time \in Int
  /\ "close" \in e.marks => f
  /\ e.at \in {"deciding", "storing"} /\ e.prior # None =>
       StateOK(e.prior) /\ Justified(e.lane, e.prior, f)
  /\ e.at = "storing" =>
       /\ StateOK(e.after) /\ Justified(e.lane, e.after, f)
       /\ e.prior # None /\ e.tier = e.prior.tier => Follows(e.prior, e.after, e.time)

StatesOK ==
  /\ states = [lane \in Lanes |-> states[lane]]
  /\ \A lane \in Lanes :
       states[lane] # None => StateOK(states[lane]) /\ Justified(lane, states[lane], full)

EvalsOK ==
  /\ evals = [w \in Workers |-> evals[w]]
  /\ \A w \in Workers : EvalOK(evals[w], full)

ConvergenceInv ==
  /\ now \in Int
  /\ full \in BOOLEAN /\ (HardExhausted => full)
  /\ StatesOK
  /\ EvalsOK

----------------------------------------------------------------------------
(* The inspector.                                                          *)

\* The budget inspector and the budget manager agree: the pressure of an account is at
\* 100 percent exactly when the manager refuses every further demand on it.
THEOREM InspectorAgrees ==
  ASSUME NEW a \in Soft \cup Hard, NEW lane \in Lanes,
         committed \in [Accounts -> Nat], reserved \in [Accounts -> Nat],
         Limit \in [Accounts -> Nat], HeldBack \in [Accounts -> Nat]
  PROVE  Uses(a, lane, 100) <=>
           \A d \in [Accounts -> Nat] : d[a] > 0 => a \in Violated(d, lane)
<1>1. /\ a \in Accounts /\ committed[a] \in Nat /\ reserved[a] \in Nat
      /\ Limit[a] \in Nat /\ HeldBack[a] \in Nat
  BY BranchAssumption
<1>2. Allowance(a, lane) = EffectiveLimit(a, lane)
  BY <1>1, BranchAssumption, ReserveAssumption DEF Allowance, EffectiveLimit, Lanes
<1>3. EffectiveLimit(a, lane) \in Int
  BY <1>1 DEF EffectiveLimit
<1> DEFINE limit == EffectiveLimit(a, lane)
           used == committed[a] + reserved[a]
<1>4. Uses(a, lane, 100) <=> used >= limit
  BY <1>1, <1>2, <1>3 DEF Uses
<1>5. ASSUME used >= limit, NEW d \in [Accounts -> Nat], d[a] > 0
      PROVE  a \in Violated(d, lane)
  <2>1. d[a] \in Nat
    BY <1>1
  <2>2. committed[a] + reserved[a] + d[a] > EffectiveLimit(a, lane)
    BY <1>1, <1>3, <1>5, <2>1
  <2> QED
    BY <1>1, <1>5, <2>2 DEF Violated
<1>6. ASSUME \A d \in [Accounts -> Nat] : d[a] > 0 => a \in Violated(d, lane)
      PROVE  used >= limit
  <2> DEFINE one == [b \in Accounts |-> 1]
  <2>1. one \in [Accounts -> Nat] /\ one[a] = 1
    BY <1>1
  <2>2. a \in Violated(one, lane)
    BY <1>6, <2>1
  <2>3. committed[a] + reserved[a] + one[a] > EffectiveLimit(a, lane)
    BY <2>2 DEF Violated
  <2> QED
    BY <1>1, <1>3, <2>1, <2>3
<1> QED
  BY <1>4, <1>5, <1>6

\* An account that is read as closing its branch is exhausted at that moment.
LEMMA PassedIsExhausted ==
  ASSUME NEW a, NEW lane, "close" \in Passed(a, lane)
  PROVE  HardExhausted
<1>1. a \in Hard /\ Uses(a, lane, CloseAt)
  BY DEF Passed
<1>2. a \notin Soft
  BY <1>1, BranchAssumption
<1>3. Uses(a, "NORMAL", CloseAt)
  BY <1>1, <1>2 DEF Uses, Allowance
<1> QED
  BY <1>1, <1>3 DEF HardExhausted

----------------------------------------------------------------------------
(* The rules: each makes of a state one that follows it, with a reason.    *)

\* What the rules promise of the state they make of s, but for its time.
Moves(s, t, lane, n) ==
  /\ StateOK(t)
  /\ Follows(s, t, n)
  /\ Justified(lane, s, full) => Justified(lane, t, full)

\* A branch closes for a reason, and forgets its cooldown only then.
LEMMA CloseMoves ==
  ASSUME NEW s, NEW lane, NEW n, StateOK(s), full
  PROVE  Moves(s, Close(s), lane, n)
BY DEF Moves, StateOK, StateFields, Follows, Justified, Close, Cools

\* A branch pauses only when it does not cool already.
LEMMA PauseMoves ==
  ASSUME NEW s, NEW y, NEW lane, NEW n, StateOK(s), ~s.closed, ~Cools(s, n)
  PROVE  Moves(s, Pause(Counted(s, y), n), lane, n)
<1> DEFINE c == Counted(s, y)
<1>1. /\ StateFields \subseteq DOMAIN c /\ c.closed = s.closed /\ c.at = s.at
      /\ c.tier = s.tier /\ c.cooldowns = s.cooldowns
  BY DEF Counted, StateOK, StateFields
<1> HIDE DEF c
<1>2. /\ StateFields \subseteq DOMAIN Pause(c, n)
      /\ Pause(c, n).closed = s.closed /\ Pause(c, n).at = s.at
      /\ Pause(c, n).tier = s.tier /\ Pause(c, n).cooldowns = s.cooldowns + 1
  BY <1>1 DEF Pause, StateFields
<1> QED
  BY <1>2 DEF Moves, StateOK, Follows, Justified, c

\* So does the sparse, the advancing and the continuing branch.
LEMMA OpenMoves ==
  ASSUME NEW s, NEW y, NEW lane, NEW n, StateOK(s), ~s.closed, ~Cools(s, n)
  PROVE  /\ Moves(s, Sparse(s), lane, n)
         /\ Moves(s, Advance(s), lane, n)
         /\ Moves(s, [Counted(s, y) EXCEPT !.until = None], lane, n)
<1>1. Moves(s, Sparse(s), lane, n)
  BY DEF Moves, StateOK, StateFields, Follows, Justified, Sparse
<1>2. Moves(s, Advance(s), lane, n)
  BY DEF Moves, StateOK, StateFields, Follows, Justified, Advance
<1>3. Moves(s, [Counted(s, y) EXCEPT !.until = None], lane, n)
  BY DEF Moves, StateOK, StateFields, Follows, Justified, Counted
<1> QED
  BY <1>1, <1>2, <1>3
\* A branch of little yield closes with its streak as the reason, or pauses.
LEMMA LowYieldMoves ==
  ASSUME NEW s, NEW y, NEW lane \in Lanes, NEW n, StateOK(s), ~s.closed, ~Cools(s, n)
  PROVE  Moves(s, LowYield(s, y, lane, n), lane, n)
<1> DEFINE c == [Counted(s, y) EXCEPT !.productive = 0]
<1>1. /\ StateFields \subseteq DOMAIN c /\ c.closed = s.closed /\ c.at = s.at
      /\ c.tier = s.tier /\ c.cooldowns = s.cooldowns /\ c.low = Longer(s.low, y.low)
  BY DEF Counted, StateOK, StateFields
<1>2. LowYield(s, y, lane, n) = IF Converges(s, y, lane) THEN Close(c) ELSE Pause(c, n)
  BY DEF LowYield
<1> HIDE DEF c
<1>3. CASE Converges(s, y, lane)
  <2>1. /\ StateFields \subseteq DOMAIN Close(c)
        /\ Close(c).closed = TRUE /\ Close(c).at = s.at /\ Close(c).tier = s.tier
        /\ Close(c).cooldowns = s.cooldowns /\ Close(c).low = Longer(s.low, y.low)
    BY <1>1 DEF Close, StateFields
  <2>2. lane = "NORMAL" /\ s.tier = Exhaustive /\ Longer(s.low, y.low) >= CloseStreak
    BY <1>3 DEF Converges, Lanes
  <2>3. Moves(s, Close(c), lane, n)
    BY <2>1, <2>2 DEF Moves, StateOK, Follows, Justified
  <2> QED
    BY <1>2, <1>3, <2>3
<1>4. CASE ~Converges(s, y, lane)
  <2>1. /\ StateFields \subseteq DOMAIN Pause(c, n)
        /\ Pause(c, n).closed = s.closed /\ Pause(c, n).at = s.at
        /\ Pause(c, n).tier = s.tier /\ Pause(c, n).cooldowns = s.cooldowns + 1
    BY <1>1 DEF Pause, StateFields
  <2> QED
    BY <1>2, <1>4, <2>1 DEF Moves, StateOK, Follows, Justified
<1> QED
  BY <1>3, <1>4

\* Every decision moves the state that was read on, with a reason.
LEMMA DecisionMoves ==
  ASSUME NEW s, NEW y, NEW lane \in Lanes, NEW marks, NEW n, StateOK(s),
         "close" \in marks => full
  PROVE  Moves(s, Decision(s, y, lane, marks, n), lane, n)
<1>1. Moves(s, s, lane, n)
  BY DEF Moves, StateOK, Follows
<1>2. CASE s.closed
  BY <1>1, <1>2 DEF Decision
<1>3. CASE ~s.closed /\ "close" \in marks
  BY <1>3, CloseMoves DEF Decision
<1>4. CASE ~s.closed /\ "close" \notin marks /\ Cools(s, n)
  BY <1>1, <1>4 DEF Decision
<1>5. CASE ~s.closed /\ "close" \notin marks /\ ~Cools(s, n)
  <2>1. /\ Moves(s, Pause(Counted(s, y), n), lane, n)
        /\ Moves(s, Sparse(s), lane, n)
        /\ Moves(s, Advance(s), lane, n)
        /\ Moves(s, LowYield(s, y, lane, n), lane, n)
        /\ Moves(s, [Counted(s, y) EXCEPT !.until = None], lane, n)
    BY <1>5, PauseMoves, OpenMoves, LowYieldMoves
  <2> QED
    BY <1>5, <2>1 DEF Decision
<1> QED
  BY <1>2, <1>3, <1>4, <1>5

\* An evaluation that read the tier it was given decides what follows its state.
LEMMA EvaluationMoves ==
  ASSUME NEW e, NEW y, EvalOK(e, full), e.at = "deciding", NEW after,
         after = [Decision(Synchronized(e), y, e.lane, e.marks, e.time) EXCEPT !.at = e.time]
  PROVE  /\ StateOK(after) /\ Justified(e.lane, after, full) /\ after.at = e.time
         /\ e.prior # None /\ e.tier = e.prior.tier => Follows(e.prior, after, e.time)
<1> DEFINE s == Synchronized(e)
           t == Decision(s, y, e.lane, e.marks, e.time)
<1>1. StateOK(s) /\ Justified(e.lane, s, full)
  <2>1. CASE e.prior = None
    BY <2>1 DEF Synchronized, Fresh, StateOK, StateFields, Justified
  <2>2. CASE e.prior # None /\ e.prior.closed
    BY <2>2 DEF Synchronized, EvalOK
  <2>3. CASE e.prior # None /\ ~e.prior.closed
    BY <2>3 DEF Synchronized, EvalOK, StateOK, StateFields, Justified
  <2> QED
    BY <2>1, <2>2, <2>3
<1>2. ASSUME e.prior # None, e.tier = e.prior.tier
      PROVE  /\ s.tier = e.prior.tier /\ s.cooldowns = e.prior.cooldowns
             /\ s.closed = e.prior.closed /\ s.until = e.prior.until
  BY <1>2 DEF Synchronized, EvalOK, StateOK, StateFields
<1> HIDE DEF s
<1>3. e.lane \in Lanes /\ e.time \in Int /\ ("close" \in e.marks => full)
  BY DEF EvalOK
<1>4. Moves(s, t, e.lane, e.time)
  BY <1>1, <1>3, DecisionMoves
<1> HIDE DEF t
<1>5. after = [t EXCEPT !.at = e.time]
  BY DEF t, s
<1>6. /\ StateFields \subseteq DOMAIN after /\ after.at = e.time
      /\ after.tier = t.tier /\ after.cooldowns = t.cooldowns /\ after.low = t.low
      /\ after.until = t.until /\ after.closed = t.closed
  BY <1>4, <1>5 DEF Moves, StateOK, StateFields
<1>7. StateOK(after) /\ Justified(e.lane, after, full)
  BY <1>1, <1>3, <1>4, <1>6 DEF Moves, StateOK, Justified
<1>8. ASSUME e.prior # None, e.tier = e.prior.tier
      PROVE  Follows(e.prior, after, e.time)
  BY <1>2, <1>4, <1>6, <1>8 DEF Moves, Follows, Cools
<1> QED
  BY <1>6, <1>7, <1>8
----------------------------------------------------------------------------
(* The steps.                                                              *)

\* A reason to be closed is not lost.
LEMMA ReasonsKept ==
  ASSUME NEW f, NEW g, f => g
  PROVE  /\ \A lane, s : Justified(lane, s, f) => Justified(lane, s, g)
         /\ \A e : EvalOK(e, f) => EvalOK(e, g)
<1>1. ASSUME NEW lane, NEW s, Justified(lane, s, f)
      PROVE  Justified(lane, s, g)
  BY <1>1 DEF Justified
<1>2. ASSUME NEW e, EvalOK(e, f)
      PROVE  EvalOK(e, g)
  BY <1>1, <1>2 DEF EvalOK
<1> QED
  BY <1>1, <1>2

\* A step that leaves the stored states alone keeps them well.
LEMMA StatesKept ==
  ASSUME StatesOK, full => full', UNCHANGED states
  PROVE  StatesOK'
<1>1. \A lane, s : Justified(lane, s, full) => Justified(lane, s, full')
  BY ReasonsKept
<1> QED
  BY <1>1 DEF StatesOK

\* An evaluation that rests, or waits to read or to be charged, has read nothing.
LEMMA IdleEvaluation ==
  ASSUME NEW e, NEW f, EvalFields \subseteq DOMAIN e, e.lane \in Lanes, e.time \in Int,
         e.at \notin {"deciding", "storing"}, "close" \in e.marks => f
  PROVE  EvalOK(e, f)
BY DEF EvalOK

\* Each action of a worker keeps the evaluations well.
LEMMA WorkerKeepsEvals ==
  ASSUME ConvergenceInv, full => full', NEW w \in Workers, Execution(w)
  PROVE  EvalsOK'
<1> DEFINE old == evals[w]
<1>a. now \in Int /\ (HardExhausted => full) /\ StatesOK
  BY DEF ConvergenceInv
<1>b. EvalOK(old, full)
  BY DEF ConvergenceInv, EvalsOK
<1>1. EvalsOK
  BY DEF ConvergenceInv
<1>2. /\ EvalFields \subseteq DOMAIN old /\ old.lane \in Lanes /\ old.time \in Int
      /\ EvalFields \subseteq DOMAIN Resting /\ Resting.lane \in Lanes
      /\ Resting.time \in Int /\ Resting.at = "free" /\ Resting.marks = {}
      /\ "close" \in old.marks => full'
  BY <1>b DEF EvalOK, Resting, EvalFields, Lanes
<1>3. EvalOK(Resting, full')
  BY <1>2, IdleEvaluation
<1>one. \A e : evals' = [evals EXCEPT ![w] = e] /\ EvalOK(e, full') => EvalsOK'
  <2> SUFFICES ASSUME NEW e, evals' = [evals EXCEPT ![w] = e], EvalOK(e, full')
               PROVE  EvalsOK'
    OBVIOUS
  <2>1. ASSUME NEW v \in Workers
        PROVE  EvalOK(evals[v], full)'
    <3>1. EvalOK(evals[v], full) => EvalOK(evals[v], full')
      BY ReasonsKept
    <3>2. evals'[v] = IF v = w THEN e ELSE evals[v]
      BY <1>1 DEF EvalsOK
    <3>3. EvalOK(evals'[v], full')
      BY <1>1, <3>1, <3>2 DEF EvalsOK
    <3> QED
      BY <3>3
  <2>2. evals' = [v \in Workers |-> evals'[v]]
    BY <1>1 DEF EvalsOK
  <2> QED
    BY <2>1, <2>2 DEF EvalsOK
<1>4. ASSUME evals' = [evals EXCEPT ![w] = Resting]
      PROVE  EvalsOK'
  BY <1>1, <1>3, <1>4, <1>one
<1>5. ASSUME Evaluated(w)
      PROVE  EvalsOK'
  <2> DEFINE e == [Resting EXCEPT !.at = "charging", !.lane = old.lane, !.res = old.res]
  <2>1. EvalFields \subseteq DOMAIN e /\ e.lane = old.lane /\ e.time = 0 /\ e.at = "charging"
        /\ e.marks = {}
    BY DEF Resting, EvalFields
  <2>2. evals' = [evals EXCEPT ![w] = e]
    BY <1>5 DEF Evaluated
  <2> HIDE DEF e
  <2>3. EvalOK(e, full')
    BY <1>2, <2>1, IdleEvaluation
  <2> QED
    BY <1>1, <2>2, <2>3, <1>one
<1>6. ASSUME NEW lane \in Lanes, PassGate(w, lane)
      PROVE  EvalsOK'
  <2> DEFINE e == [Resting EXCEPT !.at = "admitted", !.lane = lane]
  <2>1. EvalFields \subseteq DOMAIN e /\ e.lane = lane /\ e.time = 0 /\ e.at = "admitted"
        /\ e.marks = {}
    BY DEF Resting, EvalFields
  <2>2. evals' = [evals EXCEPT ![w] = e]
    BY <1>6 DEF PassGate
  <2> HIDE DEF e
  <2>3. EvalOK(e, full')
    BY <2>1, IdleEvaluation
  <2> QED
    BY <1>1, <2>2, <2>3, <1>one
<1>7. CASE Dispatch(w)
  <2>1. PICK r \in Reservations :
          evals' = [evals EXCEPT ![w].at = "working", ![w].res = r]
    BY <1>7 DEF Dispatch
  <2> DEFINE e == [old EXCEPT !.at = "working", !.res = r]
  <2>2. EvalFields \subseteq DOMAIN e /\ e.lane = old.lane /\ e.time = old.time
        /\ e.at = "working" /\ e.marks = old.marks
    BY <1>2 DEF EvalFields
  <2>3. evals' = [evals EXCEPT ![w] = e]
    BY <1>1, <2>1 DEF EvalsOK
  <2> HIDE DEF e
  <2>4. EvalOK(e, full')
    BY <1>2, <2>2, IdleEvaluation
  <2> QED
    BY <1>1, <2>3, <2>4, <1>one
<1>8. CASE ReadTier(w)
  <2> DEFINE tier == IF states[old.lane] = None THEN InitialTier ELSE states[old.lane].tier
             e == [old EXCEPT !.at = "reading", !.time = now, !.tier = tier]
  <2>1. EvalFields \subseteq DOMAIN e /\ e.lane = old.lane /\ e.time = now
        /\ e.at = "reading" /\ e.marks = old.marks
    BY <1>2 DEF EvalFields
  <2>2. evals' = [evals EXCEPT ![w] = e]
    BY <1>1, <1>8 DEF EvalsOK, ReadTier
  <2> HIDE DEF e
  <2>3. EvalOK(e, full')
    BY <1>a, <1>2, <2>1, IdleEvaluation
  <2> QED
    BY <1>1, <2>2, <2>3, <1>one
<1>9. CASE ReadPrior(w)
  <2>0. PICK n \in old.time..now :
          evals' = [evals EXCEPT ![w].at = "deciding", ![w].time = n,
                                 ![w].prior = states[old.lane]]
    BY <1>9 DEF ReadPrior
  <2> DEFINE e == [old EXCEPT !.at = "deciding", !.time = n, !.prior = states[old.lane]]
  <2>1. EvalFields \subseteq DOMAIN e /\ e.lane = old.lane /\ e.time \in Int
        /\ e.at = "deciding" /\ e.prior = states[old.lane] /\ e.marks = old.marks
    BY <1>a, <1>2, <2>0 DEF EvalFields
  <2>2. evals' = [evals EXCEPT ![w] = e]
    BY <1>1, <2>0 DEF EvalsOK
  <2> HIDE DEF e
  <2>3. e.prior # None => StateOK(e.prior) /\ Justified(e.lane, e.prior, full)
    BY <1>a, <1>2, <2>1 DEF StatesOK
  <2>4. EvalOK(e, full)
    BY <1>b, <1>2, <2>1, <2>3 DEF EvalOK
  <2>5. EvalOK(e, full')
    BY <2>4, ReasonsKept
  <2> QED
    BY <1>1, <2>2, <2>5, <1>one
<1>10. CASE Decide(w)
  <2>1. PICK y \in Yields :
          evals' = [evals EXCEPT ![w].at = "storing", ![w].read = 0, ![w].marks = {},
            ![w].after = [Decision(Synchronized(old), y, old.lane, old.marks, old.time)
                            EXCEPT !.at = old.time]]
    BY <1>10 DEF Decide
  <2> DEFINE after == [Decision(Synchronized(old), y, old.lane, old.marks, old.time)
                         EXCEPT !.at = old.time]
             e == [old EXCEPT !.at = "storing", !.read = 0, !.marks = {}, !.after = after]
  <2>2. old.at = "deciding"
    BY <1>10 DEF Decide
  <2>3. /\ StateOK(after) /\ Justified(old.lane, after, full) /\ after.at = old.time
        /\ old.prior # None /\ old.tier = old.prior.tier
             => Follows(old.prior, after, old.time)
    BY <1>a, <1>b, <2>2, EvaluationMoves
  <2>4. evals' = [evals EXCEPT ![w] = e]
    BY <1>1, <2>1 DEF EvalsOK
  <2> HIDE DEF after
  <2>5. EvalFields \subseteq DOMAIN e /\ e.lane = old.lane /\ e.time = old.time
        /\ e.at = "storing" /\ e.prior = old.prior /\ e.tier = old.tier /\ e.after = after
        /\ e.marks = {}
    BY <1>2 DEF EvalFields
  <2> HIDE DEF e
  <2>6. e.prior # None => StateOK(e.prior) /\ Justified(e.lane, e.prior, full)
    BY <1>b, <2>2, <2>5 DEF EvalOK
  <2>7. EvalOK(e, full)
    BY <1>2, <2>3, <2>5, <2>6 DEF EvalOK
  <2>8. EvalOK(e, full')
    BY <2>7, ReasonsKept
  <2> QED
    BY <1>1, <2>4, <2>8, <1>one
<1>11. CASE Refuse(w) \/ Unclaim(w) \/ Charge(w) \/ Crash(w)
  BY <1>4, <1>11 DEF Refuse, Unclaim, Charge, Crash
<1>12. CASE Beat(w)
  <2>1. evals' = [evals EXCEPT ![w] = old]
    BY <1>1, <1>12 DEF Beat, EvalsOK
  <2>2. EvalOK(old, full')
    BY <1>b, ReasonsKept
  <2> QED
    BY <2>1, <2>2, <1>one
<1>13. CASE Raise(w) \/ Store(w) \/ UpdateFails(w)
  BY <1>5, <1>13 DEF Raise, Store, UpdateFails
<1>14. CASE Inspect(w)
  <2> DEFINE passed == Passed(Metrics[old.read + 1], old.lane)
             e == [old EXCEPT !.read = @ + 1, !.marks = @ \cup passed]
  <2>1. evals' = [evals EXCEPT ![w] = e]
    BY <1>1, <1>2, <1>14 DEF EvalsOK, Inspect, EvalFields
  <2>2. "close" \in passed => full
    BY <1>a, PassedIsExhausted
  <2> HIDE DEF passed
  <2>3. EvalFields \subseteq DOMAIN e /\ e.at = old.at /\ e.lane = old.lane
        /\ e.time = old.time /\ e.prior = old.prior /\ e.tier = old.tier
        /\ e.after = old.after /\ e.marks = old.marks \cup passed
    BY <1>2 DEF EvalFields
  <2> HIDE DEF e
  <2>4. EvalOK(e, full)
    BY <1>b, <2>2, <2>3 DEF EvalOK
  <2>5. EvalOK(e, full')
    BY <2>4, ReasonsKept
  <2> QED
    BY <1>1, <2>1, <2>5, <1>one
<1> QED
  BY <1>6, <1>7, <1>8, <1>9, <1>10, <1>11, <1>12, <1>13, <1>14 DEF Execution,
    Evaluation

\* Only a put changes what is stored, and it stores what an evaluation decided.
LEMMA WorkerKeepsStates ==
  ASSUME ConvergenceInv, full => full', NEW w \in Workers, Execution(w)
  PROVE  StatesOK'
<1>1. StatesOK
  BY DEF ConvergenceInv
<1>2. CASE Store(w)
  <2> DEFINE lane == evals[w].lane
             after == evals[w].after
  <2>1. lane \in Lanes /\ StateOK(after) /\ Justified(lane, after, full)
    BY <1>2 DEF ConvergenceInv, EvalsOK, EvalOK, Store
  <2>2. Justified(lane, after, full')
    BY <2>1, ReasonsKept
  <2>3. \/ UNCHANGED states
        \/ states' = [states EXCEPT ![lane] = after]
    BY <1>2 DEF Store, Put
  <2> HIDE DEF lane, after
  <2>4. CASE states' = [states EXCEPT ![lane] = after]
    <3>1. ASSUME NEW l \in Lanes, states'[l] # None
          PROVE  StateOK(states'[l]) /\ Justified(l, states'[l], full')
      <4>1. CASE l = lane
        BY <1>1, <2>1, <2>2, <2>4, <4>1 DEF StatesOK
      <4>2. CASE l # lane
        <5>1. states'[l] = states[l]
          BY <1>1, <2>4, <4>2 DEF StatesOK
        <5>2. StateOK(states[l]) /\ Justified(l, states[l], full)
          BY <1>1, <3>1, <5>1 DEF StatesOK
        <5>3. Justified(l, states[l], full')
          BY <5>2, ReasonsKept
        <5> QED
          BY <5>1, <5>2, <5>3
      <4> QED
        BY <4>1, <4>2
    <3>2. states' = [l \in Lanes |-> states'[l]]
      BY <1>1, <2>4 DEF StatesOK
    <3> QED
      BY <3>1, <3>2 DEF StatesOK
  <2> QED
    BY <1>1, <2>3, <2>4, StatesKept
<1>3. CASE ~Store(w)
  <2>1. UNCHANGED states
    BY <1>3 DEF Execution, Evaluation, PassGate, Dispatch, Refuse, Unclaim, Beat, Raise, ReadTier,
      ReadPrior, Inspect, Decide, UpdateFails, Charge, Crash
  <2> QED
    BY <1>1, <2>1, StatesKept
<1> QED
  BY <1>2, <1>3

\* A branch starts without a state, and nobody evaluates it.
LEMMA InitInv == BranchInit => ConvergenceInv
<1> SUFFICES ASSUME BranchInit
             PROVE  ConvergenceInv
  OBVIOUS
<1>1. now \in Int /\ full \in BOOLEAN /\ (HardExhausted => full)
  BY DEF BranchInit, Init, HardExhausted
<1>2. StatesOK
  BY DEF BranchInit, StatesOK
<1>3. EvalsOK
  <2>1. EvalFields \subseteq DOMAIN Resting /\ Resting.lane \in Lanes
        /\ Resting.time \in Int /\ Resting.at = "free" /\ Resting.marks = {}
    BY DEF Resting, EvalFields, Lanes
  <2>2. EvalOK(Resting, full)
    BY <2>1, IdleEvaluation
  <2> QED
    BY <2>2 DEF BranchInit, EvalsOK
<1> QED
  BY <1>1, <1>2, <1>3 DEF ConvergenceInv

\* Every step of a branch, its executions or its accounts keeps the invariant.
LEMMA NextInv == ConvergenceInv /\ [BranchNext]_vars => ConvergenceInv'
<1> SUFFICES ASSUME ConvergenceInv, [BranchNext]_vars
             PROVE  ConvergenceInv'
  OBVIOUS
<1>1. CASE BranchNext
  <2>1. full' \in BOOLEAN /\ (full => full') /\ (HardExhausted' => full')
    BY <1>1 DEF BranchNext
  <2>2. now' \in Int /\ StatesOK' /\ EvalsOK'
    <3>1. ASSUME NEW w \in Workers, Execution(w)
          PROVE  now' \in Int /\ StatesOK' /\ EvalsOK'
      <4>1. UNCHANGED now
        BY <3>1 DEF Execution, Evaluation, PassGate, Dispatch, Refuse, Unclaim, Beat, Raise,
          ReadTier, ReadPrior, Inspect, Decide, Store, UpdateFails, Charge, Crash
      <4> QED
        BY <2>1, <3>1, <4>1, WorkerKeepsEvals, WorkerKeepsStates DEF ConvergenceInv
    <3>2. CASE Reap \/ BranchTick
      <4>1. now' \in Int /\ UNCHANGED <<states, evals>>
        BY <3>2 DEF Reap, BranchTick, Tick, ConvergenceInv
      <4>2. StatesOK'
        BY <2>1, <4>1, StatesKept DEF ConvergenceInv
      <4>3. \A e : EvalOK(e, full) => EvalOK(e, full')
        BY <2>1, ReasonsKept
      <4>4. EvalsOK'
        BY <4>1, <4>3 DEF ConvergenceInv, EvalsOK
      <4> QED
        BY <4>1, <4>2, <4>4
    <3> QED
      BY <1>1, <3>1, <3>2 DEF BranchNext
  <2> QED
    BY <2>1, <2>2 DEF ConvergenceInv
<1>2. CASE UNCHANGED vars
  BY <1>2 DEF vars, budgetVars, ConvergenceInv, StatesOK, EvalsOK, HardExhausted,
    Uses, Allowance
<1> QED
  BY <1>1, <1>2

----------------------------------------------------------------------------
(* The theorems.                                                           *)

\* The inductive invariant: stored states and evaluations under way have a reason to be
\* closed, and what an evaluation decided follows what it read.
THEOREM ConvergenceInvariant == BranchSpec => []ConvergenceInv
<1> QED
  BY InitInv, NextInv, PTL DEF BranchSpec

\* A branch is only closed because a hard account of it was exhausted, or, in the NORMAL
\* lane, after its last tier has yielded little again and again.
THEOREM ClosedOnlyForAReason == BranchSpec => []ClosedForAReason
<1>1. ConvergenceInv => ClosedForAReason
  BY DEF ConvergenceInv, StatesOK, Justified, ClosedForAReason
<1> QED
  BY <1>1, ConvergenceInvariant, PTL

\* An evaluation that nothing was stored beside never reopens its branch, takes back a
\* tier or ends a cooldown, and nothing older replaces what is stored.
THEOREM UndisturbedFollow == BranchSpec => UndisturbedEvaluationsFollow
<1> DEFINE
    Following ==
      \A w \in Workers :
        evals[w].at = "storing" /\ evals'[w].at = "charging" =>
          LET s == states[evals[w].lane]
              t == states'[evals[w].lane]
          IN  /\ s # None => t.at >= s.at
              /\ Undisturbed(w) => Follows(s, t, evals[w].time)
<1>1. ASSUME ConvergenceInv, [BranchNext]_vars
      PROVE  [Following]_vars
  <2> SUFFICES ASSUME BranchNext, NEW w \in Workers,
                      evals[w].at = "storing", evals'[w].at = "charging"
               PROVE  LET s == states[evals[w].lane]
                          t == states'[evals[w].lane]
                      IN  /\ s # None => t.at >= s.at
                          /\ Undisturbed(w) => Follows(s, t, evals[w].time)
    BY <1>1
  <2> DEFINE e == evals[w]
             s == states[e.lane]
             t == states'[e.lane]
  <2>1. /\ e.lane \in Lanes /\ StateOK(e.after)
        /\ e.prior # None /\ e.tier = e.prior.tier => Follows(e.prior, e.after, e.time)
    BY <1>1 DEF ConvergenceInv, EvalsOK, EvalOK
  <2>2. s # None => s.at \in Int
    BY <1>1, <2>1 DEF ConvergenceInv, StatesOK, StateOK
  <2>3. Store(w) \/ UpdateFails(w)
    <3>1. PICK v \in Workers : Execution(v)
      BY DEF BranchNext, Reap, BranchTick
    <3>2. v = w
      <4>1. ASSUME v # w
            PROVE  evals'[w] = evals[w]
        BY <1>1, <3>1, <4>1 DEF ConvergenceInv, EvalsOK, Execution, Evaluation, Evaluated,
          PassGate, Dispatch, Refuse, Unclaim, Beat, Raise, ReadTier, ReadPrior, Inspect, Decide,
          Store, UpdateFails, Charge, Crash
      <4> QED
        BY <4>1
    <3>3. ~Crash(w)
      BY <1>1 DEF Crash, Resting, ConvergenceInv, EvalsOK
    <3>4. ~Decide(w) /\ ~Beat(w) /\ ~Inspect(w)
      BY DEF Decide, Beat, Inspect
    <3> QED
      BY <3>1, <3>2, <3>3, <3>4 DEF Execution, Evaluation, PassGate, Dispatch, Refuse,
        Unclaim, Raise, ReadTier, ReadPrior, Charge
  <2>4. CASE UNCHANGED states
    BY <2>2, <2>4 DEF Follows
  <2>5. CASE states' = [states EXCEPT ![e.lane] = e.after] /\ ~(s # None /\ e.after.at < s.at)
    <3>1. t = e.after
      BY <1>1, <2>1, <2>5 DEF ConvergenceInv, StatesOK
    <3>2. s # None => t.at >= s.at
      BY <2>1, <2>2, <2>5, <3>1 DEF StateOK
    <3>3. Undisturbed(w) => Follows(s, t, e.time)
      BY <2>1, <3>1 DEF Undisturbed
    <3> QED
      BY <3>2, <3>3
  <2> QED
    BY <2>3, <2>4, <2>5 DEF Store, Put, UpdateFails
<1> QED
  BY <1>1, ConvergenceInvariant, PTL DEF BranchSpec, UndisturbedEvaluationsFollow

----------------------------------------------------------------------------
(* The branch and its budgets together.                                    *)

Running == {"working", "reading", "deciding", "storing", "charging"}

\* Who runs has a reservation, if perhaps not one that is still ACTIVE.
HoldsReservation(e) == e.at \in Running => e.res \in Reservations
RunsReserved == \A w \in Workers : HoldsReservation(evals[w])

\* No step of an evaluation changes the reservation it runs on.
LEMMA StepReserved == ConvergenceInv /\ RunsReserved /\ [BranchNext]_vars => RunsReserved'
<1> SUFFICES ASSUME ConvergenceInv, RunsReserved, [BranchNext]_vars PROVE RunsReserved'
  OBVIOUS
<1>1. \A w \in Workers : EvalFields \subseteq DOMAIN evals[w] /\ HoldsReservation(evals[w])
  BY DEF ConvergenceInv, EvalsOK, EvalOK, RunsReserved
<1>2. evals = [w \in Workers |-> evals[w]]
  BY DEF ConvergenceInv, EvalsOK
<1>3. HoldsReservation(Resting)
  BY DEF HoldsReservation, Resting, Running
<1>4. ASSUME NEW w \in Workers, NEW e, HoldsReservation(e), evals' = [evals EXCEPT ![w] = e]
      PROVE  RunsReserved'
  BY <1>1, <1>2, <1>4 DEF RunsReserved
<1>5. ASSUME NEW w \in Workers, Execution(w) PROVE RunsReserved'
  <2> DEFINE e == evals[w]
  <2>1. EvalFields \subseteq DOMAIN e /\ HoldsReservation(e)
    BY <1>1
  <2>2. ASSUME NEW lane \in Lanes, PassGate(w, lane) PROVE RunsReserved'
    <3>1. HoldsReservation([Resting EXCEPT !.at = "admitted", !.lane = lane])
      BY DEF HoldsReservation, Resting, Running
    <3> QED
      BY <1>4, <2>2, <3>1 DEF PassGate
  <2>3. CASE Dispatch(w)
    <3>1. PICK r \in Reservations : evals' = [evals EXCEPT ![w].at = "working", ![w].res = r]
      BY <2>3 DEF Dispatch
    <3>2. \A v \in Workers : v # w => evals'[v] = evals[v]
      BY <1>2, <3>1
    <3>3. evals'[w].res = r
      BY <1>2, <2>1, <3>1 DEF EvalFields
    <3> QED
      BY <1>1, <3>2, <3>3 DEF RunsReserved, HoldsReservation
  <2>4. CASE Refuse(w) \/ Unclaim(w) \/ Charge(w) \/ Crash(w)
    BY <1>3, <1>4, <2>4 DEF Refuse, Unclaim, Charge, Crash
  <2>5. CASE Beat(w)
    BY <2>5 DEF Beat, RunsReserved
  <2>6. ASSUME Evaluated(w), e.at \in Running PROVE RunsReserved'
    <3> DEFINE n == [Resting EXCEPT !.at = "charging", !.lane = e.lane, !.res = e.res]
    <3>1. HoldsReservation(n)
      BY <2>1, <2>6 DEF HoldsReservation, Resting
    <3> HIDE DEF n
    <3>2. evals' = [evals EXCEPT ![w] = n]
      BY <2>6 DEF Evaluated, n
    <3> QED
      BY <1>4, <3>1, <3>2
  <2>7. CASE Raise(w) \/ Store(w) \/ UpdateFails(w)
    BY <2>6, <2>7 DEF Raise, Store, UpdateFails, Running
  <2>8. ASSUME e.at \in Running, evals' = [v \in Workers |-> evals'[v]],
               evals'[w].res = e.res, \A v \in Workers : v # w => evals'[v] = evals[v]
        PROVE  RunsReserved'
    BY <1>1, <2>8 DEF RunsReserved, HoldsReservation
  <2>9. CASE ReadTier(w)
    BY <1>2, <2>1, <2>8, <2>9 DEF ReadTier, Running, EvalFields
  <2>10. CASE ReadPrior(w)
    BY <1>2, <2>1, <2>8, <2>10 DEF ReadPrior, Running, EvalFields
  <2>11. CASE Decide(w)
    <3>1. PICK y :
            evals' = [evals EXCEPT ![w].at = "storing", ![w].read = 0, ![w].marks = {},
              ![w].after = [Decision(Synchronized(e), y, e.lane, e.marks, e.time)
                              EXCEPT !.at = e.time]]
      BY <2>11 DEF Decide
    <3>2. PICK t : evals' = [evals EXCEPT ![w].at = "storing", ![w].read = 0,
                                          ![w].marks = {}, ![w].after = t]
      BY <3>1
    <3> QED
      BY <1>2, <2>1, <2>8, <2>11, <3>2 DEF Decide, Running, EvalFields
  <2>12. CASE Inspect(w)
    BY <1>2, <2>1, <2>8, <2>12 DEF Inspect, Running, EvalFields
  <2> QED
    BY <1>5, <2>2, <2>3, <2>4, <2>5, <2>7, <2>9, <2>10, <2>11, <2>12 DEF Execution, Evaluation
<1>6. CASE UNCHANGED evals
  BY <1>6 DEF RunsReserved
<1> QED
  BY <1>5, <1>6 DEF BranchNext, Reap, BranchTick, vars

\* Executions that overlap in any way use the budgets as the budget manager offers them, so
\* that all that is proved of the budgets holds while a branch is worked on.
THEOREM BranchKeepsBudgets == BranchSpec => Spec
<1>1. BranchInit => RunsReserved /\ Init
  BY DEF BranchInit, RunsReserved, HoldsReservation, Resting, Running
<1>2. ConvergenceInv /\ RunsReserved /\ [BranchNext]_vars => [Next]_<<now, budgetVars>>
  <2> SUFFICES ASSUME ConvergenceInv, RunsReserved, [BranchNext]_vars
               PROVE  [Next]_<<now, budgetVars>>
    OBVIOUS
  <2>1. ASSUME NEW w \in Workers, Execution(w) PROVE [Next]_<<now, budgetVars>>
    <3>1. /\ evals[w].lane \in Lanes
          /\ evals[w].at \in Running => evals[w].res \in Reservations
      BY DEF ConvergenceInv, EvalsOK, EvalOK, RunsReserved, HoldsReservation
    <3>2. CASE Dispatch(w)
      BY <3>1, <3>2 DEF Dispatch, Next, Call
    <3>3. CASE Unclaim(w)
      BY <3>1, <3>3 DEF Unclaim, Next, Call, Running
    <3>4. CASE Beat(w)
      BY <3>1, <3>4 DEF Beat, Next, Call, Running
    <3>5. CASE Charge(w)
      BY <3>1, <3>5 DEF Charge, Next, Call, Running
    <3>6. CASE \/ \E lane \in Lanes : PassGate(w, lane)
               \/ Refuse(w) \/ Raise(w) \/ Evaluation(w) \/ Crash(w)
      <4>1. UNCHANGED <<now, budgetVars>>
        BY <3>6 DEF PassGate, Refuse, Raise, Evaluation, ReadTier, ReadPrior, Inspect, Decide,
           Store, UpdateFails, Crash
      <4> QED
        BY <4>1
    <3> QED
      BY <2>1, <3>2, <3>3, <3>4, <3>5, <3>6 DEF Execution
  <2>2. CASE Reap
    BY <2>2 DEF Reap, Next, Call
  <2>3. CASE BranchTick
    BY <2>3 DEF BranchTick, Next
  <2>4. CASE UNCHANGED vars
    BY <2>4 DEF vars
  <2> QED
    BY <2>1, <2>2, <2>3, <2>4 DEF BranchNext
<1> QED
  BY <1>1, <1>2, StepReserved, ConvergenceInvariant, PTL DEF BranchSpec, Spec
=============================================================================
