------------------------------- MODULE Ingest -------------------------------
(***************************************************************************)
(* Publication of events: RuntimeEventBus of recon/runtime.py over the     *)
(* event store of recon/storage/database.py, the router and the queue.     *)
(*                                                                         *)
(* The worker executions of a process publish into a bounded queue (a      *)
(* semaphore) drained under one write lock; the store merges each          *)
(* observation into its asset in one transaction, and the router's tasks   *)
(* are enqueued by transactions of their own.  Events derived from an      *)
(* event are published from within its publication.  Executions fail, are  *)
(* cancelled or die with their process between any two awaits, and are     *)
(* retried with events of new identifiers.  An exception of publish ends   *)
(* the execution that called it.  A retry need not find what the attempt   *)
(* before it found: exploration permutations draw on a cursor that moves   *)
(* on, and enrichment depends on a lookup that may fail without failing    *)
(* the publication.                                                        *)
(*                                                                         *)
(* Left out: what events say beyond scope and times, the event log,        *)
(* provenance, snapshots and scores written along with them, branches, and *)
(* the answer to an identifier that is known already (no publisher uses    *)
(* one twice).                                                             *)
(***************************************************************************)
EXTENDS Integers, FiniteSets

CONSTANTS
  Execs,        \* worker executions: the tasks whose workers publish
  Procs,
  ProcOf,       \* the process of each
  Assets,       \* identity keys
  ScopeOf,      \* ScopeOf[x][a]: the scope state x finds for a, for the assets it may publish
  Derived,      \* Derived[a]: the vocabulary projected from an event about a
  Enriched,     \* Enriched[a]: the assets that a lookup about a may bring
  Keys,
  Routes,       \* Routes[a]: dedupe keys of the tasks that rules make of an event about a
  Seen,         \* the times at which workers make observations
  Capacity,     \* event_queue_capacity
  MaxAttempts,
  None

ASSUME CapacityAssumption == Capacity \in Nat \ {0}
ASSUME ExecsAssumption == IsFiniteSet(Execs)
ASSUME IngestAssumption ==
  /\ ProcOf \in [Execs -> Procs] /\ Seen \subseteq Nat /\ MaxAttempts \in Nat \ {0}
  /\ Derived \in [Assets -> SUBSET Assets] /\ Enriched \in [Assets -> SUBSET Assets]
  /\ Routes \in [Assets -> SUBSET Keys]

Precedence == [UNKNOWN |-> 0, IN_SCOPE |-> 1, PASSIVE_ONLY |-> 2, AMBIGUOUS |-> 3, OUT_OF_SCOPE |-> 4]
ScopeStates == DOMAIN Precedence

ASSUME ScopeAssumption ==
  \A x \in Execs : \A a \in DOMAIN ScopeOf[x] : a \in Assets /\ ScopeOf[x][a] \in ScopeStates
ASSUME NoneAssumption == None \notin [scope : ScopeStates, first : Seen, last : Seen]

VARIABLES
  pub,           \* per execution: where its publication is
  slots, lock,   \* per process: _queue_slots and _write_lock
  depth,         \* per process: _event_queue_depth
  observations,  \* the event_observations table
  assets,        \* the assets table
  frontier       \* the dedupe keys of the tasks of this run

bus == <<slots, lock, depth>>
tables == <<observations, assets, frontier>>
vars == <<pub, bus, tables>>

\* Between two publications; waiting for a slot, for the write lock; at the two writes; at
\* what is derived.
Stages == {"off", "ready", "queued", "locking", "storing", "routing", "deriving", "done"}
InFlight == {"queued", "locking", "storing", "routing", "deriving"}

Off == [at |-> "off", attempts |-> 0, found |-> {}, todo |-> {}, event |-> None,
        derived |-> {}, routes |-> {}]

Emits(x) == DOMAIN ScopeOf[x]

----------------------------------------------------------------------------
(* An execution.                                                           *)

\* What an attempt finds, another may miss.
Begin(x) ==
  /\ pub[x].at = "off" /\ pub[x].attempts < MaxAttempts
  /\ \E found \in SUBSET Emits(x) :
       pub' = [pub EXCEPT ![x] = [Off EXCEPT !.at = "ready", !.found = found, !.todo = found,
                                    !.attempts = pub[x].attempts + 1]]
  /\ UNCHANGED <<bus, tables>>

Finish(x) ==
  /\ pub[x].at = "ready" /\ pub[x].todo = {}
  /\ pub' = [pub EXCEPT ![x].at = "done"]
  /\ UNCHANGED <<bus, tables>>

----------------------------------------------------------------------------
(* publish.                                                                *)

Publish(x, a) ==
  /\ pub[x].at = "ready" /\ a \in pub[x].todo
  /\ pub' = [pub EXCEPT ![x].at = "queued", ![x].event = a, ![x].todo = @ \ {a}]
  /\ depth' = [depth EXCEPT ![ProcOf[x]] = @ + 1]
  /\ UNCHANGED <<slots, lock, tables>>

TakeSlot(x) ==
  /\ pub[x].at = "queued" /\ slots[ProcOf[x]] > 0
  /\ slots' = [slots EXCEPT ![ProcOf[x]] = @ - 1]
  /\ pub' = [pub EXCEPT ![x].at = "locking"]
  /\ UNCHANGED <<lock, depth, tables>>

TakeLock(x) ==
  /\ pub[x].at = "locking" /\ lock[ProcOf[x]] = None
  /\ lock' = [lock EXCEPT ![ProcOf[x]] = x]
  /\ pub' = [pub EXCEPT ![x].at = "storing"]
  /\ UNCHANGED <<slots, depth, tables>>

\* A derived event's scope is evaluated like any other's; here it is unknown.
Scope(x, a) == IF a \in Emits(x) THEN ScopeOf[x][a] ELSE "UNKNOWN"

NewAsset(o) == [scope |-> o.scope, first |-> o.seen, last |-> o.seen]

\* Fault: the last classification wins.
MergedLast(row, o) ==
  [scope |-> o.scope,
   first |-> IF o.seen < row.first THEN o.seen ELSE row.first,
   last |-> IF o.seen > row.last THEN o.seen ELSE row.last]

\* _merge_asset and _merge_scope_state
Merged(row, o) ==
  [scope |-> IF Precedence[o.scope] > Precedence[row.scope] THEN o.scope ELSE row.scope,
   first |-> IF o.seen < row.first THEN o.seen ELSE row.first,
   last |-> IF o.seen > row.last THEN o.seen ELSE row.last]

\* Fault: only a new asset is routed.
RoutedIfNewAsset(a) == IF assets[a] = None THEN Routes[a] ELSE {}

\* A new observation is routed, whether or not its asset was known.
Routed(a) == Routes[a]

\* ingest: one immediate transaction.
Store(x) ==
  LET a == pub[x].event IN
  /\ pub[x].at = "storing"
  /\ \E seen \in Seen :
       LET o == [by |-> x, attempt |-> pub[x].attempts, asset |-> a, scope |-> Scope(x, a),
                 seen |-> seen] IN
       /\ observations' = observations \cup {o}
       /\ assets' = [assets EXCEPT ![a] = IF @ = None THEN NewAsset(o) ELSE Merged(@, o)]
  /\ pub' = [pub EXCEPT ![x].at = "routing", ![x].routes = Routed(a)]
  /\ UNCHANGED <<bus, frontier>>

\* enqueue_many: one transaction per task, and put refuses a key this run has.
Enqueue(x, k) ==
  /\ pub[x].at = "routing" /\ k \in pub[x].routes
  /\ frontier' = frontier \cup {k}
  /\ pub' = [pub EXCEPT ![x].routes = @ \ {k}]
  /\ UNCHANGED <<bus, observations, assets>>

\* The write lock is released before derived events are published, and those derived from
\* them.  A failed lookup is a warning, and brings nothing.
Unlock(x) ==
  /\ pub[x].at = "routing" /\ pub[x].routes = {}
  /\ lock' = [lock EXCEPT ![ProcOf[x]] = None]
  /\ \E looked \in SUBSET Enriched[pub[x].event] :
       pub' = [pub EXCEPT ![x].at = "deriving",
                          ![x].derived = @ \cup Derived[pub[x].event] \cup looked]
  /\ UNCHANGED <<slots, depth, tables>>

\* Fault: a derived event waits for a slot of its own.
PublishDerivedQueued(x, a) ==
  /\ pub[x].at = "deriving" /\ a \in pub[x].derived
  /\ pub' = [pub EXCEPT ![x].at = "queued", ![x].event = a, ![x].derived = @ \ {a}]
  /\ UNCHANGED <<bus, tables>>

\* publish at depth 1: the slot of the outer publication is enough.
PublishDerived(x, a) ==
  /\ pub[x].at = "deriving" /\ a \in pub[x].derived
  /\ pub' = [pub EXCEPT ![x].at = "locking", ![x].event = a, ![x].derived = @ \ {a}]
  /\ UNCHANGED <<bus, tables>>

Leave(x, at) ==
  pub' = [pub EXCEPT ![x].at = at, ![x].event = None, ![x].derived = {}, ![x].routes = {},
                     ![x].found = IF at = "off" THEN {} ELSE @,
                     ![x].todo = IF at = "off" THEN {} ELSE @]

\* The finally clause: the slot and the place in the queue are given back.
GiveBack(x) ==
  /\ slots' = [slots EXCEPT ![ProcOf[x]] = IF pub[x].at = "queued" THEN @ ELSE @ + 1]
  /\ depth' = [depth EXCEPT ![ProcOf[x]] = @ - 1]

Published(x) ==
  /\ pub[x].at = "deriving" /\ pub[x].derived = {}
  /\ GiveBack(x)
  /\ Leave(x, "ready")
  /\ UNCHANGED <<lock, tables>>

Unlocked(x) == [lock EXCEPT ![ProcOf[x]] = IF @ = x THEN None ELSE @]

\* Fault: an exception leaves the publication without its finally clause.
AbortLeakingSlot(x) ==
  /\ pub[x].at \in InFlight
  /\ lock' = Unlocked(x)
  /\ Leave(x, "off")
  /\ depth' = [depth EXCEPT ![ProcOf[x]] = @ - 1]
  /\ UNCHANGED <<slots, tables>>

\* A transaction fails or the worker is cancelled: what is written stays, what is not is
\* lost, and the execution is retried.
Abort(x) ==
  /\ pub[x].at \in InFlight
  /\ lock' = Unlocked(x)
  /\ Leave(x, "off")
  /\ GiveBack(x)
  /\ UNCHANGED tables

Crash(p) ==
  /\ \E x \in Execs : ProcOf[x] = p /\ pub[x].at \in InFlight
  /\ pub' = [x \in Execs |-> IF ProcOf[x] = p /\ pub[x].at # "done"
                             THEN [Off EXCEPT !.attempts = pub[x].attempts] ELSE pub[x]]
  /\ slots' = [slots EXCEPT ![p] = Capacity]
  /\ lock' = [lock EXCEPT ![p] = None]
  /\ depth' = [depth EXCEPT ![p] = 0]
  /\ UNCHANGED tables

----------------------------------------------------------------------------
Init ==
  /\ pub = [x \in Execs |-> Off]
  /\ slots = [p \in Procs |-> Capacity]
  /\ lock = [p \in Procs |-> None]
  /\ depth = [p \in Procs |-> 0]
  /\ observations = {}
  /\ assets = [a \in Assets |-> None]
  /\ frontier = {}

Step(x) ==
  \/ Begin(x) \/ Finish(x)
  \/ \E a \in Assets : Publish(x, a) \/ PublishDerived(x, a)
  \/ TakeSlot(x) \/ TakeLock(x) \/ Store(x) \/ Unlock(x) \/ Published(x)
  \/ \E k \in Keys : Enqueue(x, k)

Next ==
  \/ \E x \in Execs : Step(x) \/ Abort(x)
  \/ \E p \in Procs : Crash(p)

Spec == Init /\ [][Next]_vars

\* Executions keep running, and asyncio serves semaphores and locks in order.
Fairness == \A x \in Execs : WF_vars(Step(x)) /\ SF_vars(TakeSlot(x)) /\ SF_vars(TakeLock(x))

FairSpec == Spec /\ Fairness

----------------------------------------------------------------------------
(* Properties.                                                             *)

Observation == [by : Execs, attempt : 1..MaxAttempts, asset : Assets, scope : ScopeStates, seen : Seen]
Row == [scope : ScopeStates, first : Seen, last : Seen]

\* The bus and the tables keep their shapes; each process counts its publications, and its
\* slots are held by those that were given one, whatever failed or was cancelled.
IngestTypeOK ==
  /\ pub \in [Execs -> [at : Stages, attempts : 0..MaxAttempts, found : SUBSET Assets,
                        todo : SUBSET Assets, event : Assets \cup {None},
                        derived : SUBSET Assets, routes : SUBSET Keys]]
  /\ observations \subseteq Observation
  /\ assets \in [Assets -> Row \cup {None}]
  /\ frontier \subseteq Keys
  /\ \A p \in Procs :
       /\ depth[p] = Cardinality({x \in Execs : ProcOf[x] = p /\ pub[x].at \in InFlight})
       /\ slots[p] + Cardinality({x \in Execs : ProcOf[x] = p /\ pub[x].at \in InFlight \ {"queued"}})
            = Capacity

\* An asset is what its observations make it, in whatever order and by whatever process
\* they were stored: the most restrictive scope, and the widest interval (_merge_asset).
AssetSummarisesObservations ==
  \A a \in Assets :
    LET of == {o \in observations : o.asset = a} IN
    IF of = {} THEN assets[a] = None
    ELSE /\ \E o \in of : o.scope = assets[a].scope
         /\ \A o \in of : Precedence[o.scope] <= Precedence[assets[a].scope]
         /\ (\E o \in of : o.seen = assets[a].first) /\ (\E o \in of : o.seen = assets[a].last)
         /\ \A o \in of : o.seen \in assets[a].first..assets[a].last

\* The assets about which the attempt of x that is under way, or was the last, has stored
\* observations.
Stored(x) == {o.asset : o \in {q \in observations : q.by = x /\ q.attempt = pub[x].attempts}}

\* When an execution succeeds, its last attempt has stored all that it found and the
\* vocabulary of all that it stored, and all of this has become tasks, though an earlier
\* attempt of it, or of another, may have stored the same and died before the router
\* (publish).  What only an earlier attempt found is not promised a task.
SuccessIsRouted ==
  \A x \in Execs : pub[x].at = "done" =>
    /\ pub[x].found \subseteq Stored(x)
    /\ \A a \in Stored(x) : Derived[a] \subseteq Stored(x) /\ Routes[a] \subseteq frontier

\* Every publication ends: derived events never wait for the slot of the publication they
\* are part of, and no failure keeps a slot or the lock.
PublicationsEnd ==
  \A x \in Execs : (pub[x].at \in InFlight) ~> (pub[x].at \notin InFlight)
=============================================================================
