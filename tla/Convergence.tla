---------------------------- MODULE Convergence ----------------------------
(***************************************************************************)
(* recon/intelligence/convergence.py (ConvergenceController) over          *)
(* SQLiteConvergenceStateStore, and the tasks of one branch that the       *)
(* runtime dispatches and evaluates it after.                              *)
(*                                                                         *)
(* A lane of the branch has a stored state: its search tier, its streaks   *)
(* of productive and of low-yield evaluations, its cooldown, whether it is *)
(* closed.  Every task that ends reads the state, reads what the branch    *)
(* has yielded and spent, decides, and stores what it decided; executions  *)
(* of all processes do this at the same time, with no lock from the first  *)
(* read to the write.                                                      *)
(*                                                                         *)
(* What a branch yields is any of the judgements the thresholds tell       *)
(* apart.  Branches share nothing here, so there is one.  The soft         *)
(* multiplier is 1 (productive_soft_multiplier_max), as in Budgets, and    *)
(* the configuration does not change while the state is kept.              *)
(***************************************************************************)
EXTENDS Budgets, Sequences

CONSTANTS
  Workers,       \* executions that may run at the same time, in any process
  None,
  Soft, Hard,    \* the branch's accounts of each class
  Metrics,       \* all of them, in the order in which the inspector reads them
  InitialTier, MaximumTier,  \* exploration.initial_tier, .maximum_tier: ranks from 1
  AdvanceStreak, CooldownStreak, CloseStreak,
  CooldownBase, CooldownMax, \* cooldown_base_seconds, _max_seconds, in clock ticks
  CloseAt, PauseAt, AdvanceBelow  \* pressure thresholds, in percent

\* The rank of SearchTier.EXHAUSTIVE.
Exhaustive == 5

ASSUME BranchAssumption ==
  Soft \subseteq Accounts /\ Hard \subseteq Accounts /\ Soft \cap Hard = {}
ASSUME MetricsAssumption ==
  /\ Metrics \in Seq(Soft \cup Hard)
  /\ \A a \in Soft \cup Hard : \E i \in DOMAIN Metrics : Metrics[i] = a
\* The exploration reserve is a fraction of the soft limits.
ASSUME ReserveAssumption == \A a \in Hard : HeldBack[a] = 0
\* The runtime refuses an initial tier above the maximum.
ASSUME TierAssumption ==
  InitialTier \in 1..Exhaustive /\ MaximumTier \in InitialTier..Exhaustive
ASSUME StreakAssumption ==
  /\ AdvanceStreak \in Nat \ {0} /\ CooldownStreak \in Nat \ {0}
  /\ CloseStreak \in Nat /\ CloseStreak >= CooldownStreak
ASSUME CooldownAssumption ==
  CooldownBase \in Nat \ {0} /\ CooldownMax \in Nat /\ CooldownMax >= CooldownBase
ASSUME ThresholdAssumption ==
  CloseAt \in Nat \ {0} /\ PauseAt \in Nat \ {0} /\ AdvanceBelow \in Nat \ {0}

VARIABLES
  states,  \* the stored state of each lane, or None
  evals,   \* per worker: its task, and where the evaluation after it is
  full     \* history: whether a hard account of the branch was ever exhausted

vars == <<now, budgetVars, states, evals, full>>

Resting == [at |-> "free", lane |-> "NORMAL", res |-> None, tier |-> 0, time |-> 0,
            prior |-> None, read |-> 0, marks |-> {}, after |-> None]

\* The evaluation is over, one way or another.
Evaluated(w) ==
  evals' = [evals EXCEPT ![w] = [Resting EXCEPT !.at = "charging", !.lane = evals[w].lane,
                                                !.res = evals[w].res]]

----------------------------------------------------------------------------
(* What the branch has spent: BranchBudgetInspector.                       *)

Allowance(a, lane) ==
  IF a \in Soft /\ lane = "NORMAL" THEN Limit[a] - HeldBack[a] ELSE Limit[a]

\* An account without room counts as used up.
Uses(a, lane, percent) ==
  IF Allowance(a, lane) <= 0 THEN 100 >= percent
  ELSE 100 * (committed[a] + reserved[a]) >= percent * Allowance(a, lane)

HardExhausted == \E a \in Hard : Uses(a, "NORMAL", CloseAt)

\* Fault: an account closes the branch whatever its class.
PassedInAnyClass(a, lane) ==
  {m \in {"close", "pause", "advance"} :
     CASE m = "close"   -> Uses(a, lane, CloseAt)
       [] m = "pause"   -> a \in Soft /\ Uses(a, lane, PauseAt)
       [] m = "advance" -> a \in Soft /\ Uses(a, lane, AdvanceBelow)}

\* The thresholds that an account has passed.  The pressure of a class is that of its
\* account that is used most.
Passed(a, lane) ==
  {m \in {"close", "pause", "advance"} :
     CASE m = "close"   -> a \in Hard /\ Uses(a, lane, CloseAt)
       [] m = "pause"   -> a \in Soft /\ Uses(a, lane, PauseAt)
       [] m = "advance" -> a \in Soft /\ Uses(a, lane, AdvanceBelow)}

----------------------------------------------------------------------------
(* What the branch yields: branch_trend and estimate against the           *)
(* thresholds.  "settled" is an information gain that is low.              *)

Yields ==
  {y \in [ready : BOOLEAN, productive : BOOLEAN, low : BOOLEAN, settled : BOOLEAN] :
     y.productive \/ y.low => y.ready}

----------------------------------------------------------------------------
(* The decision: _decide, in the order of its rules.  s is the state that  *)
(* was read, y what the branch yields, marks the thresholds that were      *)
(* passed when its accounts were read, n when the evaluation began.        *)

Fresh(tier) ==
  [tier |-> tier, low |-> 0, productive |-> 0, cooldowns |-> 0, until |-> None,
   closed |-> FALSE, at |-> 0]

Longer(streak, y) == IF y THEN streak + 1 ELSE 0

Duration(k) ==
  LET doubled == CooldownBase * 2 ^ (IF k > 21 THEN 20 ELSE k - 1)
  IN  IF doubled > CooldownMax THEN CooldownMax ELSE doubled

Cools(s, n) == s.until # None /\ n < s.until

Counted(s, y) ==
  [s EXCEPT !.low = Longer(@, y.low), !.productive = Longer(@, y.productive)]

Pause(s, n) ==
  [s EXCEPT !.cooldowns = @ + 1, !.until = n + Duration(s.cooldowns + 1)]

Close(s) == [s EXCEPT !.closed = TRUE, !.until = None]

Sparse(s) == [s EXCEPT !.low = 0, !.productive = 0, !.until = None]

Advances(s, y, marks) ==
  /\ y.productive /\ Longer(s.productive, y.productive) >= AdvanceStreak
  /\ s.tier < MaximumTier
  /\ "advance" \notin marks

Advance(s) ==
  [s EXCEPT !.tier = @ + 1, !.low = 0, !.productive = 0, !.until = None]

Stagnates(s, y) == y.low /\ Longer(s.low, y.low) >= CooldownStreak

Converges(s, y, lane) ==
  /\ lane # "EXPLORATION"
  /\ s.tier = Exhaustive
  /\ Longer(s.low, y.low) >= CloseStreak
  /\ y.settled

LowYield(s, y, lane, n) ==
  LET counted == [Counted(s, y) EXCEPT !.productive = 0]
  IN  IF Converges(s, y, lane) THEN Close(counted) ELSE Pause(counted, n)

\* Fault: a branch without recent history goes on, cooling or not.
DecisionSparseFirst(s, y, lane, marks, n) ==
  IF s.closed THEN s
  ELSE IF "close" \in marks THEN Close(s)
  ELSE IF ~y.ready THEN Sparse(s)
  ELSE IF Cools(s, n) THEN s
  ELSE IF "pause" \in marks THEN Pause(Counted(s, y), n)
  ELSE IF Advances(s, y, marks) THEN Advance(s)
  ELSE IF Stagnates(s, y) THEN LowYield(s, y, lane, n)
  ELSE [Counted(s, y) EXCEPT !.until = None]

Decision(s, y, lane, marks, n) ==
  IF s.closed THEN s
  ELSE IF "close" \in marks THEN Close(s)
  ELSE IF Cools(s, n) THEN s
  ELSE IF "pause" \in marks THEN Pause(Counted(s, y), n)
  ELSE IF ~y.ready THEN Sparse(s)
  ELSE IF Advances(s, y, marks) THEN Advance(s)
  ELSE IF Stagnates(s, y) THEN LowYield(s, y, lane, n)
  ELSE [Counted(s, y) EXCEPT !.until = None]

----------------------------------------------------------------------------
(* Dispatch: RuntimeConvergenceGate, then the reservation and the claim.   *)

Eligible(lane) ==
  states[lane] # None => ~states[lane].closed /\ ~Cools(states[lane], now)

PassGate(w, lane) ==
  /\ evals[w].at = "free"
  /\ Eligible(lane)
  /\ evals' = [evals EXCEPT ![w] = [Resting EXCEPT !.at = "admitted", !.lane = lane]]
  /\ UNCHANGED <<now, budgetVars, states>>

Dispatch(w) ==
  /\ evals[w].at = "admitted"
  /\ \E r \in Reservations, d \in Demands, n \in Readings :
       /\ Reserve(r, d, evals[w].lane, n)
       /\ evals' = [evals EXCEPT ![w].at = "working", ![w].res = r]
  /\ UNCHANGED <<now, states>>

\* Another gate or a budget refuses.
Refuse(w) ==
  /\ evals[w].at = "admitted"
  /\ evals' = [evals EXCEPT ![w] = Resting]
  /\ UNCHANGED <<now, budgetVars, states>>

\* The claim fails: the reservation is released before anything runs.
Unclaim(w) ==
  /\ evals[w].at = "working"
  /\ Release(evals[w].res)
  /\ evals' = [evals EXCEPT ![w] = Resting]
  /\ UNCHANGED <<now, states>>

\* The heartbeat goes on until the evaluation has ended.
Beat(w) ==
  /\ evals[w].at \in {"working", "reading", "deciding", "storing"}
  /\ \E n \in Readings : Renew(evals[w].res, n)
  /\ UNCHANGED <<now, states, evals>>

----------------------------------------------------------------------------
(* After the worker: _update_convergence and ConvergenceController.        *)

\* A worker that raises is not evaluated.
Raise(w) ==
  /\ evals[w].at = "working"
  /\ Evaluated(w)
  /\ UNCHANGED <<now, budgetVars, states>>

\* The runtime reads the tier it takes to be the current one.
ReadTier(w) ==
  LET s == states[evals[w].lane] IN
  /\ evals[w].at = "working"
  /\ evals' = [evals EXCEPT ![w].at = "reading", ![w].time = now,
                 ![w].tier = IF s = None THEN InitialTier ELSE s.tier]
  /\ UNCHANGED <<now, budgetVars, states>>

\* The evaluation takes its time between the two reads.
ReadPrior(w) ==
  /\ evals[w].at = "reading"
  /\ \E n \in evals[w].time..now :
       evals' = [evals EXCEPT ![w].at = "deciding", ![w].time = n,
                              ![w].prior = states[evals[w].lane]]
  /\ UNCHANGED <<now, budgetVars, states>>

\* The tier that was handed in wins over the one that was read later.
Synchronized(e) ==
  IF e.prior = None THEN Fresh(e.tier)
  ELSE IF e.prior.closed THEN e.prior
  ELSE [e.prior EXCEPT !.tier = e.tier]

\* The accounts are read one by one, while other executions change them.
Inspect(w) ==
  LET e == evals[w] IN
  /\ e.at = "deciding" /\ e.read < Len(Metrics)
  /\ evals' = [evals EXCEPT ![w].read = @ + 1,
                            ![w].marks = @ \cup Passed(Metrics[e.read + 1], e.lane)]
  /\ UNCHANGED <<now, budgetVars, states>>

Decide(w) ==
  LET e == evals[w] IN
  /\ e.at = "deciding" /\ e.read = Len(Metrics)
  /\ \E y \in Yields :
       evals' = [evals EXCEPT ![w].at = "storing", ![w].read = 0, ![w].marks = {},
         ![w].after = [Decision(Synchronized(e), y, e.lane, e.marks, e.time)
                         EXCEPT !.at = e.time]]
  /\ UNCHANGED <<now, budgetVars, states>>

\* An evaluation older than the one that is stored is dropped.
Put(lane, after) ==
  states' = IF states[lane] # None /\ after.at < states[lane].at THEN states
            ELSE [states EXCEPT ![lane] = after]

Store(w) ==
  /\ evals[w].at = "storing"
  /\ Put(evals[w].lane, evals[w].after)
  /\ Evaluated(w)
  /\ UNCHANGED <<now, budgetVars>>

\* An exception is a warning: the task itself goes on.
UpdateFails(w) ==
  /\ evals[w].at \in {"reading", "deciding", "storing"}
  /\ Evaluated(w)
  /\ UNCHANGED <<now, budgetVars, states>>

\* The execution is charged; if its reservation is gone, its run ends.
Charge(w) ==
  /\ evals[w].at = "charging"
  /\ \/ Commit(evals[w].res)
     \/ ~IsActive(evals[w].res) /\ UNCHANGED budgetVars
  /\ evals' = [evals EXCEPT ![w] = Resting]
  /\ UNCHANGED <<now, states>>

\* The process dies; a later one reaps the reservation.
Crash(w) ==
  /\ evals[w].at \notin {"free", "admitted"}
  /\ evals' = [evals EXCEPT ![w] = Resting]
  /\ UNCHANGED <<now, budgetVars, states>>

Reap ==
  /\ \E n \in Readings : Overdue(n) # {} /\ ReapExpired(n)
  /\ UNCHANGED <<now, states, evals>>

BranchTick ==
  /\ Tick
  /\ UNCHANGED <<states, evals>>

----------------------------------------------------------------------------
BranchInit ==
  /\ Init
  /\ states = [lane \in Lanes |-> None]
  /\ evals = [w \in Workers |-> Resting]
  /\ full = HardExhausted

Evaluation(w) ==
  ReadTier(w) \/ ReadPrior(w) \/ Inspect(w) \/ Decide(w) \/ Store(w) \/ UpdateFails(w)

Execution(w) ==
  \/ \E lane \in Lanes : PassGate(w, lane)
  \/ Dispatch(w) \/ Refuse(w) \/ Unclaim(w) \/ Beat(w)
  \/ Raise(w) \/ Evaluation(w) \/ Charge(w) \/ Crash(w)

BranchNext ==
  /\ (\E w \in Workers : Execution(w)) \/ Reap \/ BranchTick
  /\ full' = (full \/ HardExhausted')

BranchSpec == BranchInit /\ [][BranchNext]_vars

----------------------------------------------------------------------------
(* Properties.                                                             *)

\* "A branch is automatically CLOSED only when" a hard account of it was exhausted, or a
\* NORMAL branch has reached the last tier and yielded little again and again; low yield
\* alone never closes an exploration branch, whatever its evaluations overlap with.
ClosedForAReason ==
  \A lane \in Lanes :
    states[lane] # None /\ states[lane].closed =>
      \/ full
      \/ /\ lane = "NORMAL"
         /\ states[lane].tier = Exhaustive
         /\ states[lane].low >= CloseStreak

\* Nothing was stored between the reads of an evaluation and its write.
Undisturbed(w) ==
  /\ evals[w].prior # None
  /\ evals[w].prior = states[evals[w].lane]
  /\ evals[w].tier = evals[w].prior.tier

\* What an evaluation may make of a state: one tier more at most, closed for good, no
\* cooldown forgotten, and none in force cut short unless the branch closes.
Follows(s, t, n) ==
  /\ t.tier \in {s.tier, s.tier + 1}
  /\ t.cooldowns \in {s.cooldowns, s.cooldowns + 1}
  /\ s.closed => t.closed
  /\ Cools(s, n) => t.until = s.until \/ t.closed

\* Only evaluations that overlap undo each other.  One that nothing was stored beside,
\* however late it is, moves its branch on: it never reopens it, takes back a tier or
\* ends a cooldown, and what is stored is never older than it was.
UndisturbedEvaluationsFollow ==
  [][\A w \in Workers :
       evals[w].at = "storing" /\ evals'[w].at = "charging" =>
         LET s == states[evals[w].lane]
             t == states'[evals[w].lane]
         IN  /\ s # None => t.at >= s.at
             /\ Undisturbed(w) => Follows(s, t, evals[w].time)]_vars
=============================================================================
