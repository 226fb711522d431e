--------------------------- MODULE LifecycleProps ---------------------------
(***************************************************************************)
(* What the lifecycle promises about tasks, claims and reservations.       *)
(***************************************************************************)
EXTENDS Lifecycle

\* The dispatchers and executions keep the shapes lifecycle.py gives them.
LifecycleTypeOK ==
  /\ loop \in [Procs -> [at : Stages, task : Tasks \cup {None}, res : Reservations \cup {None},
                         todo : SUBSET Tasks, cause : Causes]]
  /\ \A p \in Procs : execs[p] \subseteq
       [task : Tasks, token : 1..MaxClaims, res : Reservations \cup {None},
        at : Phases, beat : 1..MaxTime, ending : Endings]

----------------------------------------------------------------------------
(* Safety.                                                                 *)

\* While heartbeats keep up, a worker never works without a live reservation, and as
\* long as its claim is the task's, never past the lease: nobody's recovery can hand the
\* task to a second worker or reap what the first is using (_heartbeat_loop).
WorkIsLeased ==
  calm => \A p \in Procs : \A e \in execs[p] :
    e.at \in Working \cup {"admitted", "charging"} =>
      /\ e.res # None /\ e.ending # "STOPPED" =>
           B!IsActive(e.res) /\ book[e.res].expires > now
      /\ Q!HeldBy(e.task, e.token) => tasks[e.task].lease > now

\* While heartbeats keep up, and unless somebody takes the task away for review, two
\* workers never execute the same task, whichever processes they run in: no recovery
\* mistakes a live claim for an abandoned one.
NoDuplicateExecution ==
  calm => \A p, q \in Procs : \A e \in execs[p], f \in execs[q] :
    /\ e.task = f.task
    /\ e.at \in Working /\ f.at \in Working
    => p = q /\ e = f

\* A run that goes on has an execution for every claim it holds: a ticket is only ever
\* dropped, with its task RUNNING, by a run that ends.
ClaimsHaveExecutions ==
  \A p \in Procs : Running(p) =>
    \A ticket \in tickets[p] : Q!HeldBy(ticket[1], ticket[2]) =>
      \E e \in execs[p] : <<e.task, e.token>> = ticket

Owns(p, r) == loop[p].res = r \/ \E e \in execs[p] : e.res = r

\* A running process never lets go of an ACTIVE reservation: the STALE result of admit
\* and every ending of execute_claimed have settled it, and only a run that ends or a
\* process that dies leaves one for the reaper.
ReservationNotLeaked ==
  [][\A p \in Procs, r \in Reservations :
       Owns(p, r) /\ ~Owns(p, r)' =>
         book'[r].state # "ACTIVE" \/ loop'[p].at \in {"off", "ending"}]_vars

\* A task is only reported SUCCEEDED once its reservation is charged: whatever reaped
\* the reservation meanwhile, the report does not go through without the commit.
SucceededIsCharged ==
  [][\A p \in Procs : \A e \in execs[p] :
       /\ Q!HeldBy(e.task, e.token)
       /\ tasks'[e.task].status = "SUCCEEDED"
       /\ e.res # None
       => book[e.res].state = "COMMITTED"]_vars

----------------------------------------------------------------------------
(* Liveness.                                                               *)

\* Every claim a process holds is given up in the end, reported or stale, unless its run
\* ends first: heartbeats, reports and admissions that compete for the transition lock
\* do not wait for each other for ever.
ClaimsAreSettled ==
  \A p \in Procs, t \in Tasks, k \in 1..MaxClaims :
    <<t, k>> \in tickets[p] /\ Q!HeldBy(t, k) ~> ~Q!HeldBy(t, k) \/ ~Running(p)
=============================================================================
