---------------------------- MODULE IngestProofs ----------------------------
(***************************************************************************)
(* An asset is what its observations make it, and an execution that        *)
(* succeeds has had everything it published routed, for any processes,     *)
(* executions, assets, rules and capacity.                                 *)
(*                                                                         *)
(* The second needs an invariant of the attempt in hand: what it has begun *)
(* to publish is stored or about to be, what is stored is routed but for   *)
(* the routes in hand, and what is derived from it is stored, about to be, *)
(* or still to be published.  Last, the bus: each process counts what it   *)
(* has in flight, and every slot that is taken belongs to a publication.   *)
(***************************************************************************)
EXTENDS Ingest, FiniteSetTheorems, TLAPS

----------------------------------------------------------------------------
(* Assets and observations.                                                *)

Of(a) == {o \in observations : o.asset = a}

\* Rows and observations have values that can be compared.
TablesShape ==
  /\ DOMAIN assets = Assets
  /\ \A a \in Assets : assets[a] = None \/ assets[a] \in Row
  /\ \A o \in observations : o.scope \in ScopeStates /\ o.seen \in Seen

Summarised(a) ==
  IF Of(a) = {} THEN assets[a] = None
  ELSE /\ assets[a] # None
       /\ \E o \in Of(a) : o.scope = assets[a].scope
       /\ \A o \in Of(a) : Precedence[o.scope] <= Precedence[assets[a].scope]
       /\ (\E o \in Of(a) : o.seen = assets[a].first) /\ (\E o \in Of(a) : o.seen = assets[a].last)
       /\ \A o \in Of(a) : o.seen \in assets[a].first..assets[a].last

TablesInv == TablesShape /\ \A a \in Assets : Summarised(a)

\* Scope states are compared by numbers.
LEMMA PrecedenceIsNumber == \A s \in ScopeStates : Precedence[s] \in Nat
  BY DEF ScopeStates, Precedence

\* What the store does with an observation of an asset without a row, and with one.
LEMMA FirstObservation ==
  ASSUME NEW o, o.scope \in ScopeStates, o.seen \in Seen
  PROVE  NewAsset(o) \in Row /\ NewAsset(o) # None
  BY NoneAssumption DEF NewAsset, Row

\* Merging an observation into a row gives a row.
LEMMA LaterObservation ==
  ASSUME NEW o, o.scope \in ScopeStates, o.seen \in Seen, NEW row \in Row
  PROVE  Merged(row, o) \in Row /\ Merged(row, o) # None
  BY NoneAssumption DEF Merged, Row

\* The merge keeps the most restrictive scope and the widest interval.
LEMMA StoreKeepsSummary ==
  ASSUME TablesInv, NEW o, o.scope \in ScopeStates, o.seen \in Seen,
         observations' = observations \cup {o},
         assets' = [assets EXCEPT ![o.asset] = IF @ = None THEN NewAsset(o) ELSE Merged(@, o)]
  PROVE  TablesInv'
  <1>1. DOMAIN assets' = Assets /\ \A a \in Assets : a # o.asset => assets'[a] = assets[a]
    BY DEF TablesInv, TablesShape
  <1>2. TablesShape'
    BY <1>1, FirstObservation, LaterObservation DEF TablesInv, TablesShape
  <1>3. ASSUME NEW a \in Assets PROVE Summarised(a)'
    <2>1. CASE a # o.asset
      <3>1. Of(a)' = Of(a)
        BY <2>1 DEF Of
      <3> QED
        BY <1>1, <2>1, <3>1 DEF TablesInv, Summarised
    <2>2. CASE a = o.asset
      <3>1. Of(a)' = Of(a) \cup {o}
        BY <2>2 DEF Of
      <3>2. CASE assets[a] = None
        <4>1. Of(a) = {} /\ assets'[a] = NewAsset(o) /\ assets'[a] # None
          BY <2>2, <3>2, FirstObservation DEF TablesInv, TablesShape, Summarised
        <4>2. Of(a)' = {o}
          BY <3>1, <4>1
        <4>3. Precedence[o.scope] \in Nat /\ o.seen \in Nat
          BY PrecedenceIsNumber, IngestAssumption
        <4> QED
          BY <4>1, <4>2, <4>3 DEF Summarised, NewAsset
      <3>3. CASE assets[a] # None
        <4> DEFINE row == assets[a]
                   new == Merged(row, o)
        <4>1. /\ row \in Row /\ Of(a) # {} /\ assets'[a] = new /\ new \in Row /\ new # None
          BY <2>2, <3>3, LaterObservation DEF TablesInv, TablesShape, Summarised
        <4>2. /\ \E q \in Of(a) : q.scope = row.scope
              /\ \A q \in Of(a) : Precedence[q.scope] <= Precedence[row.scope]
              /\ \E q \in Of(a) : q.seen = row.first
              /\ \E q \in Of(a) : q.seen = row.last
              /\ \A q \in Of(a) : q.seen \in row.first..row.last
          BY <4>1 DEF TablesInv, Summarised
        <4>3. \A q \in Of(a) \cup {o} : q.seen \in Nat /\ q.scope \in ScopeStates
                                          /\ Precedence[q.scope] \in Nat
          BY PrecedenceIsNumber, IngestAssumption DEF Of, TablesInv, TablesShape
        <4>4. /\ row.first \in Nat /\ row.last \in Nat /\ row.scope \in ScopeStates
              /\ Precedence[row.scope] \in Nat
          BY <4>1, PrecedenceIsNumber, IngestAssumption DEF Row
        <4>5. /\ new.scope = IF Precedence[o.scope] > Precedence[row.scope]
                             THEN o.scope ELSE row.scope
              /\ new.first = IF o.seen < row.first THEN o.seen ELSE row.first
              /\ new.last = IF o.seen > row.last THEN o.seen ELSE row.last
          BY DEF Merged
        <4> HIDE DEF new, row
        <4>6. /\ \E q \in Of(a) \cup {o} : q.scope = new.scope
              /\ \A q \in Of(a) \cup {o} : Precedence[q.scope] <= Precedence[new.scope]
          BY <4>2, <4>3, <4>4, <4>5
        <4>7. /\ \E q \in Of(a) \cup {o} : q.seen = new.first
              /\ \E q \in Of(a) \cup {o} : q.seen = new.last
              /\ \A q \in Of(a) \cup {o} : q.seen \in new.first..new.last
          BY <4>2, <4>3, <4>4, <4>5
        <4> QED
          BY <3>1, <4>1, <4>6, <4>7 DEF Summarised
      <3> QED
        BY <3>2, <3>3
    <2> QED
      BY <2>1, <2>2
  <1> QED
    BY <1>2, <1>3 DEF TablesInv

\* Nothing but the store's transaction changes observations or assets.
LEMMA NextTablesInv ==
  ASSUME TablesInv, [Next]_vars
  PROVE  TablesInv'
  <1>1. ASSUME UNCHANGED <<observations, assets>> PROVE TablesInv'
    BY <1>1 DEF TablesInv, TablesShape, Summarised, Of
  <1>2. ASSUME NEW x \in Execs, Store(x) PROVE TablesInv'
    <2>1. PICK seen \in Seen :
            LET o == [by |-> x, attempt |-> pub[x].attempts, asset |-> pub[x].event,
                      scope |-> Scope(x, pub[x].event), seen |-> seen]
            IN  /\ observations' = observations \cup {o}
                /\ assets' = [assets EXCEPT ![pub[x].event] =
                                IF @ = None THEN NewAsset(o) ELSE Merged(@, o)]
      BY <1>2 DEF Store
    <2>2. Scope(x, pub[x].event) \in ScopeStates
      BY ScopeAssumption DEF Scope, Emits, ScopeStates, Precedence
    <2> QED
      BY <2>1, <2>2, StoreKeepsSummary
  <1>3. ASSUME NEW x \in Execs, Step(x), ~Store(x) PROVE UNCHANGED <<observations, assets>>
    BY <1>3 DEF Step, Begin, Finish, Publish, PublishDerived, TakeSlot, TakeLock, Unlock,
       Published, Enqueue, tables
  <1>4. ASSUME NEW x \in Execs, Abort(x) PROVE UNCHANGED <<observations, assets>>
    BY <1>4 DEF Abort, tables
  <1>5. ASSUME NEW p \in Procs, Crash(p) PROVE UNCHANGED <<observations, assets>>
    BY <1>5 DEF Crash, tables
  <1>6. CASE UNCHANGED vars
    BY <1>1, <1>6 DEF vars, tables
  <1> QED
    BY <1>1, <1>2, <1>3, <1>4, <1>5, <1>6 DEF Next

\* An asset is what its observations make it, whatever order and processes they come from.
THEOREM AssetsSummarise == Spec => []AssetSummarisesObservations
  <1>1. Init => TablesInv
    BY DEF Init, TablesInv, TablesShape, Summarised, Of
  <1>2. TablesInv => AssetSummarisesObservations
    BY DEF TablesInv, Summarised, AssetSummarisesObservations, Of
  <1> QED
    BY <1>1, <1>2, NextTablesInv, PTL DEF Spec

----------------------------------------------------------------------------
(* Publications.                                                           *)

PubFields == {"at", "attempts", "found", "todo", "event", "derived", "routes"}

\* The event in hand has not been stored yet.
Unstored == {"queued", "locking", "storing"}

\* An asset is stored by this attempt, or about to be.
StoredSoon(x, a) == a \in Stored(x) \/ (pub[x].at \in Unstored /\ pub[x].event = a)

PubOK(x) ==
  /\ PubFields \subseteq DOMAIN pub[x] /\ pub[x].attempts \in Nat
  /\ \A o \in observations : o.by = x => o.attempt \in Nat /\ o.attempt <= pub[x].attempts
  /\ pub[x].at # "off" =>
       /\ \A a \in pub[x].found \ pub[x].todo : StoredSoon(x, a)
       /\ \A a \in Stored(x) : \A k \in Routes[a] :
            k \in frontier \/ (pub[x].at = "routing" /\ k \in pub[x].routes)
       /\ \A a \in Stored(x) : \A b \in Derived[a] :
            StoredSoon(x, b) \/ b \in pub[x].derived \/ (pub[x].at = "routing" /\ pub[x].event = a)
  /\ pub[x].at \in {"ready", "done"} => pub[x].derived = {}
  /\ pub[x].at = "done" => pub[x].todo = {}

PubInv == DOMAIN pub = Execs /\ \A x \in Execs : PubOK(x)

\* A step of x keeps the invariant if it keeps it for x: the frontier only grows, and x
\* stores nothing in the name of another.
LEMMA OwnPublication ==
  ASSUME PubInv, NEW x \in Execs, NEW new, pub' = [pub EXCEPT ![x] = new],
         frontier \subseteq frontier', observations \subseteq observations',
         \A o \in observations' : o.by # x => o \in observations, PubOK(x)'
  PROVE  PubInv'
  <1>1. DOMAIN pub' = Execs /\ \A y \in Execs : y # x => pub'[y] = pub[y]
    BY DEF PubInv
  <1>2. ASSUME NEW y \in Execs, y # x PROVE PubOK(y)'
    <2>1. pub'[y] = pub[y] /\ PubOK(y)
      BY <1>1, <1>2 DEF PubInv
    <2>2. Stored(y)' = Stored(y)
      BY <1>2, <2>1 DEF Stored
    <2>3. \A o \in observations' : o.by = y => o \in observations
      BY <1>2
    <2> QED
      BY <2>1, <2>2, <2>3 DEF PubOK, StoredSoon
  <1> QED
    BY <1>1, <1>2 DEF PubInv

\* A step of x that stores nothing and leaves its attempt what it was.
LEMMA SameAttempt ==
  ASSUME PubInv, NEW x \in Execs, pub'[x].attempts = pub[x].attempts, UNCHANGED observations
  PROVE  /\ Stored(x)' = Stored(x) /\ pub'[x].attempts \in Nat
         /\ \A o \in observations' : o.by = x => o.attempt \in Nat /\ o.attempt <= pub'[x].attempts
  BY DEF PubInv, PubOK, Stored

\* Attempts that are over, or about to start: a new one has stored nothing.
LEMMA BeginFinish ==
  ASSUME PubInv, NEW x \in Execs, Begin(x) \/ Finish(x)
  PROVE  PubInv'
  <1>1. PubOK(x) /\ UNCHANGED <<frontier, observations>>
    BY DEF PubInv, Begin, Finish, tables
  <1>2. CASE Begin(x)
    <2>1. PICK found : pub' = [pub EXCEPT ![x] = [Off EXCEPT !.at = "ready", !.found = found,
                                 !.todo = found, !.attempts = pub[x].attempts + 1]]
      BY <1>2 DEF Begin
    <2> DEFINE new == [Off EXCEPT !.at = "ready", !.found = found, !.todo = found,
                                  !.attempts = pub[x].attempts + 1]
    <2>2. pub' = [pub EXCEPT ![x] = new] /\ pub'[x] = new
      BY <2>1 DEF PubInv
    <2>3. /\ PubFields \subseteq DOMAIN new /\ new.at = "ready" /\ new.todo = new.found
          /\ new.derived = {} /\ new.attempts = pub[x].attempts + 1
      BY DEF Off, PubFields
    <2> HIDE DEF new
    <2>4. /\ pub'[x].attempts \in Nat
          /\ \A o \in observations' : o.by = x => /\ o.attempt \in Nat
                                                  /\ o.attempt <= pub'[x].attempts
                                                  /\ o.attempt # pub'[x].attempts
      BY <1>1, <2>2, <2>3 DEF PubOK
    <2>5. Stored(x)' = {}
      BY <2>4 DEF Stored
    <2>6. PubOK(x)'
      BY <2>2, <2>3, <2>4, <2>5 DEF PubOK
    <2> QED
      BY <1>1, <2>2, <2>6, OwnPublication
  <1>3. CASE Finish(x)
    <2> DEFINE new == [pub[x] EXCEPT !.at = "done"]
    <2>1. pub' = [pub EXCEPT ![x] = new] /\ pub'[x] = new
      BY <1>3 DEF Finish, PubInv
    <2>2. /\ PubFields \subseteq DOMAIN new /\ new.at = "done" /\ new.todo = {}
          /\ new.derived = {} /\ new.found = pub[x].found /\ new.attempts = pub[x].attempts
          /\ pub[x].at = "ready" /\ pub[x].todo = {} /\ pub[x].derived = {}
      BY <1>1, <1>3 DEF Finish, PubFields, PubOK
    <2> HIDE DEF new
    <2>3. PubOK(x)'
      BY <1>1, <2>1, <2>2, SameAttempt DEF PubOK, StoredSoon, Unstored
    <2> QED
      BY <1>1, <2>1, <2>3, OwnPublication
  <1> QED
    BY <1>2, <1>3

\* An event, or one derived from it, is taken up.
LEMMA PublishStep ==
  ASSUME PubInv, NEW x \in Execs, NEW a, Publish(x, a) \/ PublishDerived(x, a)
  PROVE  PubInv'
  <1>1. PubOK(x) /\ UNCHANGED <<frontier, observations>>
    BY DEF PubInv, Publish, PublishDerived, tables
  <1>2. CASE Publish(x, a)
    <2> DEFINE new == [pub[x] EXCEPT !.at = "queued", !.event = a, !.todo = @ \ {a}]
    <2>1. pub' = [pub EXCEPT ![x] = new] /\ pub'[x] = new
      BY <1>2 DEF Publish, PubInv
    <2>2. /\ PubFields \subseteq DOMAIN new /\ new.at = "queued" /\ new.event = a
          /\ new.todo = pub[x].todo \ {a} /\ new.found = pub[x].found
          /\ new.derived = pub[x].derived /\ new.attempts = pub[x].attempts
          /\ pub[x].at = "ready"
      BY <1>1, <1>2 DEF Publish, PubFields, PubOK
    <2> HIDE DEF new
    <2>3. PubOK(x)'
      BY <1>1, <2>1, <2>2, SameAttempt DEF PubOK, StoredSoon, Unstored
    <2> QED
      BY <1>1, <2>1, <2>3, OwnPublication
  <1>3. CASE PublishDerived(x, a)
    <2> DEFINE new == [pub[x] EXCEPT !.at = "locking", !.event = a, !.derived = @ \ {a}]
    <2>1. pub' = [pub EXCEPT ![x] = new] /\ pub'[x] = new
      BY <1>3 DEF PublishDerived, PubInv
    <2>2. /\ PubFields \subseteq DOMAIN new /\ new.at = "locking" /\ new.event = a
          /\ new.todo = pub[x].todo /\ new.found = pub[x].found
          /\ new.derived = pub[x].derived \ {a} /\ new.attempts = pub[x].attempts
          /\ pub[x].at = "deriving"
      BY <1>1, <1>3 DEF PublishDerived, PubFields, PubOK
    <2> HIDE DEF new
    <2>3. PubOK(x)'
      BY <1>1, <2>1, <2>2, SameAttempt DEF PubOK, StoredSoon, Unstored
    <2> QED
      BY <1>1, <2>1, <2>3, OwnPublication
  <1> QED
    BY <1>2, <1>3

\* A publication gets its slot and the lock, is unlocked, and ends.
LEMMA MoveOnStep ==
  ASSUME PubInv, NEW x \in Execs, TakeSlot(x) \/ TakeLock(x) \/ Unlock(x) \/ Published(x)
  PROVE  PubInv'
  <1>1. PubOK(x) /\ UNCHANGED <<frontier, observations>>
    BY DEF PubInv, TakeSlot, TakeLock, Unlock, Published, tables
  <1>2. CASE TakeSlot(x) \/ TakeLock(x)
    <2>1. PICK at \in {"locking", "storing"} : pub' = [pub EXCEPT ![x].at = at]
      BY <1>2 DEF TakeSlot, TakeLock
    <2> DEFINE new == [pub[x] EXCEPT !.at = at]
    <2>2. pub' = [pub EXCEPT ![x] = new] /\ pub'[x] = new
      BY <2>1 DEF PubInv
    <2>3. /\ PubFields \subseteq DOMAIN new /\ new.at \in Unstored /\ new.event = pub[x].event
          /\ new.todo = pub[x].todo /\ new.found = pub[x].found
          /\ new.derived = pub[x].derived /\ new.attempts = pub[x].attempts
          /\ pub[x].at \in Unstored
      BY <1>1, <1>2 DEF TakeSlot, TakeLock, PubFields, PubOK, Unstored
    <2> HIDE DEF new
    <2>4. PubOK(x)'
      BY <1>1, <2>2, <2>3, SameAttempt DEF PubOK, StoredSoon, Unstored
    <2> QED
      BY <1>1, <2>2, <2>4, OwnPublication
  <1>3. CASE Unlock(x)
    <2>1. PICK looked :
            pub' = [pub EXCEPT ![x].at = "deriving",
                               ![x].derived = @ \cup Derived[pub[x].event] \cup looked]
      BY <1>3 DEF Unlock
    <2> DEFINE new == [pub[x] EXCEPT !.at = "deriving",
                                     !.derived = @ \cup Derived[pub[x].event] \cup looked]
    <2>2. pub' = [pub EXCEPT ![x] = new] /\ pub'[x] = new
      BY <2>1 DEF PubInv
    <2>3. /\ PubFields \subseteq DOMAIN new /\ new.at = "deriving"
          /\ new.todo = pub[x].todo /\ new.found = pub[x].found
          /\ new.derived = pub[x].derived \cup Derived[pub[x].event] \cup looked
          /\ new.attempts = pub[x].attempts /\ pub[x].at = "routing" /\ pub[x].routes = {}
      BY <1>1, <1>3 DEF Unlock, PubFields, PubOK
    <2> HIDE DEF new
    <2>4. PubOK(x)'
      BY <1>1, <2>2, <2>3, SameAttempt DEF PubOK, StoredSoon, Unstored
    <2> QED
      BY <1>1, <2>2, <2>4, OwnPublication
  <1>4. CASE Published(x)
    <2> DEFINE new == pub'[x]
    <2>1. pub' = [pub EXCEPT ![x] = new]
      BY <1>4 DEF Published, Leave, PubInv
    <2>2. /\ PubFields \subseteq DOMAIN new /\ new.at = "ready"
          /\ new.todo = pub[x].todo /\ new.found = pub[x].found /\ new.derived = {}
          /\ new.attempts = pub[x].attempts /\ pub[x].at = "deriving" /\ pub[x].derived = {}
      BY <1>1, <1>4 DEF Published, Leave, PubFields, PubOK, PubInv
    <2>3. PubOK(x)'
      BY <1>1, <2>2, SameAttempt DEF PubOK, StoredSoon, Unstored
    <2> QED
      BY <1>1, <2>1, <2>3, OwnPublication
  <1> QED
    BY <1>2, <1>3, <1>4

\* What is stored is now to be routed.
LEMMA StoreStep ==
  ASSUME PubInv, NEW x \in Execs, Store(x)
  PROVE  PubInv'
  <1> DEFINE a == pub[x].event
             new == [pub[x] EXCEPT !.at = "routing", !.routes = Routes[a]]
  <1>1. PubOK(x) /\ UNCHANGED frontier
    BY DEF PubInv, Store
  <1>2. PICK o : /\ o.by = x /\ o.attempt = pub[x].attempts /\ o.asset = a
                 /\ observations' = observations \cup {o}
    BY DEF Store
  <1>3. pub' = [pub EXCEPT ![x] = new] /\ pub'[x] = new
    BY DEF Store, Routed, PubInv
  <1>4. /\ PubFields \subseteq DOMAIN new /\ new.at = "routing" /\ new.event = a
        /\ new.todo = pub[x].todo /\ new.found = pub[x].found /\ new.derived = pub[x].derived
        /\ new.attempts = pub[x].attempts /\ new.routes = Routes[a]
        /\ pub[x].at = "storing"
    BY <1>1 DEF Store, PubFields, PubOK
  <1> HIDE DEF new
  <1>5. Stored(x)' = Stored(x) \cup {a}
    BY <1>2, <1>3, <1>4 DEF Stored
  <1>6. /\ pub'[x].attempts \in Nat
        /\ \A q \in observations' : q.by = x => q.attempt \in Nat /\ q.attempt <= pub'[x].attempts
    BY <1>1, <1>2, <1>3, <1>4 DEF PubOK
  <1>7. PubOK(x)'
    BY <1>1, <1>3, <1>4, <1>5, <1>6 DEF PubOK, StoredSoon, Unstored
  <1> QED
    BY <1>1, <1>2, <1>3, <1>7, OwnPublication

\* One task of the router's batch reaches the queue.
LEMMA EnqueueStep ==
  ASSUME PubInv, NEW x \in Execs, NEW k, Enqueue(x, k)
  PROVE  PubInv'
  <1> DEFINE new == [pub[x] EXCEPT !.routes = @ \ {k}]
  <1>1. PubOK(x) /\ frontier' = frontier \cup {k} /\ UNCHANGED observations
    BY DEF PubInv, Enqueue
  <1>2. pub' = [pub EXCEPT ![x] = new] /\ pub'[x] = new
    BY DEF Enqueue, PubInv
  <1>3. /\ PubFields \subseteq DOMAIN new /\ new.at = "routing" /\ new.event = pub[x].event
        /\ new.todo = pub[x].todo /\ new.found = pub[x].found /\ new.derived = pub[x].derived
        /\ new.attempts = pub[x].attempts /\ new.routes = pub[x].routes \ {k}
        /\ pub[x].at = "routing"
    BY <1>1 DEF Enqueue, PubFields, PubOK
  <1> HIDE DEF new
  <1>4. PubOK(x)'
    BY <1>1, <1>2, <1>3, SameAttempt DEF PubOK, StoredSoon, Unstored
  <1> QED
    BY <1>1, <1>2, <1>4, OwnPublication

\* A failed or interrupted execution starts again from nothing.
LEMMA AbortStep ==
  ASSUME PubInv, NEW x \in Execs, Abort(x)
  PROVE  PubInv'
  <1> DEFINE new == pub'[x]
  <1>1. PubOK(x) /\ UNCHANGED <<frontier, observations>>
    BY DEF PubInv, Abort, tables
  <1>2. pub' = [pub EXCEPT ![x] = new]
    BY DEF Abort, Leave, PubInv
  <1>3. PubFields \subseteq DOMAIN new /\ new.at = "off" /\ new.attempts = pub[x].attempts
    BY <1>1 DEF Abort, Leave, PubFields, PubOK, PubInv
  <1>4. PubOK(x)'
    BY <1>1, <1>3, SameAttempt DEF PubOK
  <1> QED
    BY <1>1, <1>2, <1>4, OwnPublication

\* A crash ends the publications of a process and nothing else.
LEMMA CrashStep ==
  ASSUME PubInv, NEW p \in Procs, Crash(p)
  PROVE  PubInv'
  <1>1. DOMAIN pub' = Execs /\ UNCHANGED <<frontier, observations>>
    BY DEF Crash, tables
  <1>2. ASSUME NEW x \in Execs PROVE PubOK(x)'
    <2>0. PubOK(x)
      BY DEF PubInv
    <2>1. CASE pub'[x] = pub[x]
      BY <1>1, <2>0, <2>1, SameAttempt DEF PubOK, StoredSoon
    <2>2. CASE pub'[x] = [Off EXCEPT !.attempts = pub[x].attempts]
      <3>1. /\ PubFields \subseteq DOMAIN pub'[x] /\ pub'[x].at = "off"
            /\ pub'[x].attempts = pub[x].attempts
        BY <2>2 DEF Off, PubFields
      <3> QED
        BY <1>1, <3>1, SameAttempt DEF PubOK
    <2> QED
      BY <2>1, <2>2 DEF Crash
  <1> QED
    BY <1>1, <1>2 DEF PubInv

\* When an execution succeeds, all that its last attempt found and stored has become tasks,
\* whatever crashed, failed or was cancelled between a store and a router before.
THEOREM SuccessRouted == Spec => []SuccessIsRouted
  <1>1. Init => PubInv
    <2> SUFFICES ASSUME Init, NEW x \in Execs PROVE PubOK(x)
      BY DEF Init, PubInv
    <2>1. pub[x] = Off /\ observations = {}
      BY DEF Init
    <2> QED
      BY <2>1 DEF PubOK, Off, PubFields
  <1>2. PubInv /\ [Next]_vars => PubInv'
    <2> SUFFICES ASSUME PubInv, [Next]_vars PROVE PubInv'
      OBVIOUS
    <2>1. ASSUME NEW x \in Execs, Step(x) PROVE PubInv'
      BY <2>1, BeginFinish, PublishStep, MoveOnStep, StoreStep, EnqueueStep DEF Step
    <2>2. CASE UNCHANGED vars
      BY <2>2 DEF vars, tables, PubInv, PubOK, Stored, StoredSoon
    <2> QED
      BY <2>1, <2>2, AbortStep, CrashStep DEF Next
  <1>3. PubInv => SuccessIsRouted
    <2> SUFFICES ASSUME PubInv, NEW x \in Execs, pub[x].at = "done"
                 PROVE  /\ pub[x].found \subseteq Stored(x)
                        /\ \A a \in Stored(x) : Derived[a] \subseteq Stored(x) /\ Routes[a] \subseteq frontier
      BY DEF SuccessIsRouted
    <2> QED
      BY DEF PubInv, PubOK, StoredSoon, Unstored
  <1> QED
    BY <1>1, <1>2, <1>3, PTL DEF Spec

----------------------------------------------------------------------------
(* Shapes, and what a process counts.                                      *)

PubType == [at : Stages, attempts : 0..MaxAttempts, found : SUBSET Assets,
            todo : SUBSET Assets, event : Assets \cup {None}, derived : SUBSET Assets,
            routes : SUBSET Keys]

\* The publications of p that are in one of these stages.
Among(p, S) == {x \in Execs : ProcOf[x] = p /\ pub[x].at \in S}

Slotted == InFlight \ {"queued"}

\* What is in flight is an asset, by an attempt that was begun.
PubShape ==
  /\ pub \in [Execs -> PubType]
  /\ \A x \in Execs : pub[x].at \in InFlight => pub[x].event \in Assets
  /\ \A x \in Execs : pub[x].at # "off" => pub[x].attempts # 0

RowsShape ==
  /\ observations \subseteq Observation
  /\ assets \in [Assets -> Row \cup {None}]
  /\ frontier \subseteq Keys

Counted ==
  /\ depth = [p \in Procs |-> Cardinality(Among(p, InFlight))]
  /\ slots = [p \in Procs |-> Capacity - Cardinality(Among(p, Slotted))]

ShapeInv == PubShape /\ RowsShape /\ Counted

\* How many publications are in a set of stages when one of them moves.
LEMMA OneMoves ==
  ASSUME NEW x \in Execs, \A y \in Execs : y # x => pub'[y].at = pub[y].at,
         NEW p \in Procs, NEW S
  PROVE  /\ Cardinality(Among(p, S)) \in Nat
         /\ ProcOf[x] # p => Among(p, S)' = Among(p, S)
         /\ (pub[x].at \in S <=> pub'[x].at \in S) => Among(p, S)' = Among(p, S)
         /\ ProcOf[x] = p /\ pub[x].at \notin S /\ pub'[x].at \in S =>
              Cardinality(Among(p, S)') = Cardinality(Among(p, S)) + 1
         /\ ProcOf[x] = p /\ pub[x].at \in S /\ pub'[x].at \notin S =>
              Cardinality(Among(p, S)') = Cardinality(Among(p, S)) - 1
  <1> DEFINE old == {y \in Execs : ProcOf[y] = p /\ pub[y].at \in S}
             new == {y \in Execs : ProcOf[y] = p /\ pub'[y].at \in S}
  <1>1. old = Among(p, S) /\ new = Among(p, S)'
    BY DEF Among
  <1>2. IsFiniteSet(old) /\ IsFiniteSet(new) /\ Cardinality(old) \in Nat /\ Cardinality(new) \in Nat
    BY ExecsAssumption, FS_Subset, FS_CardinalityType
  <1>3. ProcOf[x] # p \/ (pub[x].at \in S <=> pub'[x].at \in S) => new = old
    OBVIOUS
  <1>4. ASSUME ProcOf[x] = p, pub[x].at \notin S, pub'[x].at \in S
        PROVE  Cardinality(new) = Cardinality(old) + 1
    <2>1. new = old \cup {x} /\ x \notin old
      BY <1>4
    <2> HIDE DEF old, new
    <2> QED
      BY <1>2, <2>1, FS_AddElement
  <1>5. ASSUME ProcOf[x] = p, pub[x].at \in S, pub'[x].at \notin S
        PROVE  Cardinality(new) = Cardinality(old) - 1
    <2>1. new = old \ {x} /\ x \in old
      BY <1>5
    <2> HIDE DEF old, new
    <2> QED
      BY <1>2, <2>1, FS_RemoveElement
  <1> HIDE DEF old, new
  <1> QED
    BY <1>1, <1>2, <1>3, <1>4, <1>5

\* A move that changes the counters as the publication's stage says keeps the count.
LEMMA CountKept ==
  ASSUME Counted, NEW x \in Execs, \A y \in Execs : y # x => pub'[y].at = pub[y].at,
         \/ /\ UNCHANGED depth
            /\ pub[x].at \in InFlight <=> pub'[x].at \in InFlight
         \/ /\ depth' = [depth EXCEPT ![ProcOf[x]] = @ + 1]
            /\ pub[x].at \notin InFlight /\ pub'[x].at \in InFlight
         \/ /\ depth' = [depth EXCEPT ![ProcOf[x]] = @ - 1]
            /\ pub[x].at \in InFlight /\ pub'[x].at \notin InFlight,
         \/ /\ UNCHANGED slots
            /\ pub[x].at \in Slotted <=> pub'[x].at \in Slotted
         \/ /\ slots' = [slots EXCEPT ![ProcOf[x]] = @ - 1]
            /\ pub[x].at \notin Slotted /\ pub'[x].at \in Slotted
         \/ /\ slots' = [slots EXCEPT ![ProcOf[x]] = @ + 1]
            /\ pub[x].at \in Slotted /\ pub'[x].at \notin Slotted
  PROVE  Counted'
  <1>1. ProcOf[x] \in Procs
    BY IngestAssumption
  <1>2. DOMAIN depth = Procs /\ DOMAIN slots = Procs
    BY DEF Counted
  <1>3. depth' = [p \in Procs |-> Cardinality(Among(p, InFlight)')]
    <2>1. DOMAIN depth' = Procs /\ depth' = [p \in Procs |-> depth'[p]]
      BY <1>1, <1>2 DEF Counted
    <2>2. ASSUME NEW p \in Procs PROVE depth'[p] = Cardinality(Among(p, InFlight)')
      <3> DEFINE n == Cardinality(Among(p, InFlight))
                 m == Cardinality(Among(p, InFlight)')
      <3>1. depth[p] = n
        BY DEF Counted
      <3>2. /\ n \in Nat
            /\ ProcOf[x] # p => m = n
            /\ (pub[x].at \in InFlight <=> pub'[x].at \in InFlight) => m = n
            /\ ProcOf[x] = p /\ pub[x].at \notin InFlight /\ pub'[x].at \in InFlight => m = n + 1
            /\ ProcOf[x] = p /\ pub[x].at \in InFlight /\ pub'[x].at \notin InFlight => m = n - 1
        BY OneMoves
      <3> HIDE DEF n, m
      <3>3. depth'[p] = m
        BY <1>1, <1>2, <3>1, <3>2
      <3> QED
        BY <3>3 DEF m
    <2> QED
      BY <2>1, <2>2
  <1>4. slots' = [p \in Procs |-> Capacity - Cardinality(Among(p, Slotted)')]
    <2>1. DOMAIN slots' = Procs /\ slots' = [p \in Procs |-> slots'[p]]
      BY <1>1, <1>2 DEF Counted
    <2>2. ASSUME NEW p \in Procs PROVE slots'[p] = Capacity - Cardinality(Among(p, Slotted)')
      <3> DEFINE n == Cardinality(Among(p, Slotted))
                 m == Cardinality(Among(p, Slotted)')
      <3>1. slots[p] = Capacity - n
        BY DEF Counted
      <3>2. /\ n \in Nat
            /\ ProcOf[x] # p => m = n
            /\ (pub[x].at \in Slotted <=> pub'[x].at \in Slotted) => m = n
            /\ ProcOf[x] = p /\ pub[x].at \notin Slotted /\ pub'[x].at \in Slotted => m = n + 1
            /\ ProcOf[x] = p /\ pub[x].at \in Slotted /\ pub'[x].at \notin Slotted => m = n - 1
        BY OneMoves
      <3> HIDE DEF n, m
      <3>3. slots'[p] = Capacity - m
        BY <1>1, <1>2, <3>1, <3>2, CapacityAssumption
      <3> QED
        BY <3>3 DEF m
    <2> QED
      BY <2>1, <2>2
  <1> QED
    BY <1>3, <1>4 DEF Counted

\* Nothing is counted in a process that has died.
LEMMA CrashCounted ==
  ASSUME Counted, NEW c \in Procs, Crash(c)
  PROVE  Counted'
  <1>1. \A x \in Execs : pub'[x].at = IF ProcOf[x] = c /\ pub[x].at # "done" THEN "off" ELSE pub[x].at
    BY DEF Crash, Off
  <1>2. \A S \in {InFlight, Slotted} : \A p \in Procs :
          Among(p, S)' = IF p = c THEN {} ELSE Among(p, S)
    BY <1>1 DEF Among, InFlight, Slotted
  <1>3. Cardinality({}) = 0 /\ Capacity \in Nat
    BY FS_EmptySet, CapacityAssumption
  <1>4. depth' = [depth EXCEPT ![c] = 0] /\ slots' = [slots EXCEPT ![c] = Capacity]
    BY DEF Crash
  <1>5. depth' = [p \in Procs |-> Cardinality(Among(p, InFlight)')]
    <2> DEFINE n(p) == Cardinality(Among(p, InFlight))
               m(p) == Cardinality(Among(p, InFlight)')
    <2>1. \A p \in Procs : m(p) = IF p = c THEN 0 ELSE n(p)
      BY <1>2, <1>3
    <2>2. depth = [p \in Procs |-> n(p)]
      BY DEF Counted
    <2> HIDE DEF n, m
    <2>3. depth' = [p \in Procs |-> m(p)]
      BY <1>4, <2>1, <2>2
    <2> QED
      BY <2>3 DEF m
  <1>6. slots' = [p \in Procs |-> Capacity - Cardinality(Among(p, Slotted)')]
    <2> DEFINE n(p) == Cardinality(Among(p, Slotted))
               m(p) == Cardinality(Among(p, Slotted)')
    <2>1. \A p \in Procs : m(p) = IF p = c THEN 0 ELSE n(p)
      BY <1>2, <1>3
    <2>2. slots = [p \in Procs |-> Capacity - n(p)]
      BY DEF Counted
    <2> HIDE DEF n, m
    <2>3. slots' = [p \in Procs |-> Capacity - m(p)]
      BY <1>3, <1>4, <2>1, <2>2
    <2> QED
      BY <2>3 DEF m
  <1> QED
    BY <1>5, <1>6 DEF Counted

\* A record of a publication with some fields replaced.
LEMMA PubRecords ==
  ASSUME PubShape, NEW x \in Execs, NEW new \in PubType, pub' = [pub EXCEPT ![x] = new],
         new.at \in InFlight => new.event \in Assets, new.at # "off" => new.attempts # 0
  PROVE  PubShape' /\ \A y \in Execs : y # x => pub'[y].at = pub[y].at
  BY DEF PubShape

\* What an execution publishes is an asset.
LEMMA EmitsAssets == \A x \in Execs : Emits(x) \subseteq Assets
  BY ScopeAssumption DEF Emits

\* The steps of an execution that leave the tables alone.
LEMMA PublicationShapes ==
  ASSUME PubShape, NEW x \in Execs,
         \/ Begin(x) \/ Finish(x) \/ TakeSlot(x) \/ TakeLock(x) \/ Unlock(x) \/ Published(x) \/ Abort(x)
         \/ \E a \in Assets : Publish(x, a) \/ PublishDerived(x, a)
  PROVE  PubShape' /\ \A y \in Execs : y # x => pub'[y].at = pub[y].at
  <1>0. pub[x] \in PubType
    BY DEF PubShape
  <1>1. CASE Begin(x)
    <2>1. PICK found \in SUBSET Emits(x) :
            pub' = [pub EXCEPT ![x] = [Off EXCEPT !.at = "ready", !.found = found,
                                        !.todo = found, !.attempts = pub[x].attempts + 1]]
      BY <1>1 DEF Begin
    <2> DEFINE new == [Off EXCEPT !.at = "ready", !.found = found, !.todo = found,
                                  !.attempts = pub[x].attempts + 1]
    <2>2. new \in PubType /\ new.attempts # 0 /\ new.at \notin InFlight
      <3>1. Off \in PubType
        BY IngestAssumption DEF Off, PubType, Stages
      <3>2. "ready" \in Stages /\ "ready" \notin InFlight
        BY DEF Stages, InFlight
      <3>3. pub[x].attempts + 1 \in 0..MaxAttempts /\ pub[x].attempts + 1 # 0
        <4>1. pub[x].attempts < MaxAttempts /\ pub[x].attempts \in 0..MaxAttempts
          BY <1>0, <1>1 DEF Begin, PubType
        <4> QED
          BY <4>1, IngestAssumption
      <3> QED
        BY <2>1, <3>1, <3>2, <3>3, EmitsAssets DEF PubType
    <2>3. pub' = [pub EXCEPT ![x] = new]
      BY <2>1
    <2> HIDE DEF new
    <2> QED
      BY <2>2, <2>3, PubRecords
  <1>2. CASE Finish(x) \/ TakeSlot(x) \/ TakeLock(x)
    <2>1. PICK stage \in {"done", "locking", "storing"} :
             /\ pub' = [pub EXCEPT ![x] = [pub[x] EXCEPT !.at = stage]]
             /\ pub[x].at # "off" /\ (stage # "done" => pub[x].at \in InFlight)
      BY <1>2 DEF Finish, TakeSlot, TakeLock, InFlight
    <2> DEFINE new == [pub[x] EXCEPT !.at = stage]
    <2>2. new \in PubType /\ new.attempts = pub[x].attempts /\ new.event = pub[x].event /\ new.at = stage
      BY <1>0 DEF PubType, Stages
    <2> HIDE DEF new
    <2>3. (new.at \in InFlight => new.event \in Assets) /\ (new.at # "off" => new.attempts # 0)
      BY <2>1, <2>2 DEF PubShape, InFlight
    <2> QED
      BY <2>1, <2>2, <2>3, PubRecords DEF new
  <1>3. CASE Unlock(x)
    <2>1. PICK looked \in SUBSET Enriched[pub[x].event] :
            /\ pub' = [pub EXCEPT ![x].at = "deriving",
                                  ![x].derived = @ \cup Derived[pub[x].event] \cup looked]
            /\ pub[x].at = "routing"
      BY <1>3 DEF Unlock
    <2> DEFINE new == [pub[x] EXCEPT !.at = "deriving",
                                     !.derived = @ \cup Derived[pub[x].event] \cup looked]
    <2>2. pub[x].event \in Assets /\ pub[x].attempts # 0
      BY <2>1 DEF PubShape, InFlight
    <2>3. new \in PubType /\ new.event = pub[x].event /\ new.attempts = pub[x].attempts
      BY <1>0, <2>1, <2>2, IngestAssumption DEF PubType, Stages
    <2>4. pub' = [pub EXCEPT ![x] = new]
      BY <2>1
    <2> HIDE DEF new
    <2> QED
      BY <2>2, <2>3, <2>4, PubRecords
  <1>4. CASE Published(x) \/ Abort(x)
    <2>1. PICK stage \in {"ready", "off"} : Leave(x, stage) /\ pub[x].at \in InFlight
      BY <1>4 DEF Published, Abort, InFlight
    <2> DEFINE new == [pub[x] EXCEPT !.at = stage, !.event = None, !.derived = {}, !.routes = {},
                          !.found = IF stage = "off" THEN {} ELSE @,
                          !.todo = IF stage = "off" THEN {} ELSE @]
    <2>2. pub' = [pub EXCEPT ![x] = new] /\ pub[x].attempts # 0
      BY <2>1 DEF Leave, PubShape, InFlight
    <2>3. new \in PubType /\ new.at = stage /\ new.attempts = pub[x].attempts
      BY <1>0 DEF PubType, Stages
    <2> HIDE DEF new
    <2>4. new.at \notin InFlight
      BY <2>3 DEF InFlight
    <2> QED
      BY <2>2, <2>3, <2>4, PubRecords
  <1>5. ASSUME NEW a \in Assets, Publish(x, a)
        PROVE  PubShape' /\ \A y \in Execs : y # x => pub'[y].at = pub[y].at
    <2> DEFINE new == [pub[x] EXCEPT !.at = "queued", !.event = a, !.todo = @ \ {a}]
    <2>1. pub' = [pub EXCEPT ![x] = new] /\ pub[x].attempts # 0
      BY <1>5 DEF Publish, PubShape
    <2>2. new \in PubType /\ new.event = a /\ new.attempts = pub[x].attempts
      BY <1>0 DEF PubType, Stages
    <2> HIDE DEF new
    <2> QED
      BY <2>1, <2>2, PubRecords
  <1>6. ASSUME NEW a \in Assets, PublishDerived(x, a)
        PROVE  PubShape' /\ \A y \in Execs : y # x => pub'[y].at = pub[y].at
    <2> DEFINE new == [pub[x] EXCEPT !.at = "locking", !.event = a, !.derived = @ \ {a}]
    <2>1. pub' = [pub EXCEPT ![x] = new] /\ pub[x].attempts # 0
      BY <1>6 DEF PublishDerived, PubShape
    <2>2. new \in PubType /\ new.event = a /\ new.attempts = pub[x].attempts
      BY <1>0 DEF PubType, Stages
    <2> HIDE DEF new
    <2> QED
      BY <2>1, <2>2, PubRecords
  <1> QED
    BY <1>1, <1>2, <1>3, <1>4, <1>5, <1>6

\* Their counters follow.
LEMMA PublicationCounts ==
  ASSUME ShapeInv, PubShape', NEW x \in Execs, \A y \in Execs : y # x => pub'[y].at = pub[y].at,
         \/ Begin(x) \/ Finish(x) \/ TakeSlot(x) \/ TakeLock(x) \/ Unlock(x) \/ Published(x) \/ Abort(x)
         \/ \E a \in Assets : Publish(x, a) \/ PublishDerived(x, a)
         \/ Store(x) \/ \E k \in Keys : Enqueue(x, k)
  PROVE  Counted'
  <1>1. Counted /\ DOMAIN pub = Execs /\ PubFields \subseteq DOMAIN pub[x]
    BY DEF ShapeInv, PubShape, PubType, PubFields
  <1> USE <1>1 DEF InFlight, Slotted, PubFields, bus
  <1>2. CASE Begin(x) \/ Finish(x)
    <2>1. pub[x].at \notin InFlight /\ pub'[x].at \notin InFlight /\ UNCHANGED <<depth, slots>>
      BY <1>2 DEF Begin, Finish, Off
    <2> QED
      BY <2>1, CountKept
  <1>3. CASE TakeSlot(x)
    BY <1>3, CountKept DEF TakeSlot
  <1>4. CASE TakeLock(x) \/ Unlock(x) \/ Store(x)
    BY <1>4, CountKept DEF TakeLock, Unlock, Store
  <1>5. CASE Published(x)
    <2>1. /\ pub[x].at = "deriving" /\ pub'[x].at = "ready"
          /\ slots' = [slots EXCEPT ![ProcOf[x]] = @ + 1]
          /\ depth' = [depth EXCEPT ![ProcOf[x]] = @ - 1]
      BY <1>5 DEF Published, GiveBack, Leave
    <2> QED
      BY <2>1, CountKept
  <1>6. CASE Abort(x)
    <2>1. /\ pub[x].at \in InFlight /\ pub'[x].at = "off"
          /\ depth' = [depth EXCEPT ![ProcOf[x]] = @ - 1]
          /\ slots' = [slots EXCEPT ![ProcOf[x]] = IF pub[x].at = "queued" THEN @ ELSE @ + 1]
      BY <1>6 DEF Abort, GiveBack, Leave
    <2>2. CASE pub[x].at = "queued"
      <3>1. UNCHANGED slots
        BY <2>1, <2>2, IngestAssumption DEF Counted
      <3> QED
        BY <2>1, <2>2, <3>1, CountKept
    <2>3. CASE pub[x].at # "queued"
      BY <2>1, <2>3, CountKept
    <2> QED
      BY <2>2, <2>3
  <1>7. ASSUME NEW a \in Assets, Publish(x, a) PROVE Counted'
    BY <1>7, CountKept DEF Publish
  <1>8. ASSUME NEW a \in Assets, PublishDerived(x, a) PROVE Counted'
    BY <1>8, CountKept DEF PublishDerived
  <1>9. ASSUME NEW k \in Keys, Enqueue(x, k) PROVE Counted'
    BY <1>9, CountKept DEF Enqueue
  <1> QED
    BY <1>2, <1>3, <1>4, <1>5, <1>6, <1>7, <1>8, <1>9

\* What is written is an observation, a row and a key.
LEMMA RowsKept ==
  ASSUME ShapeInv, NEW x \in Execs, Store(x) \/ \E k \in Keys : Enqueue(x, k)
  PROVE  PubShape' /\ RowsShape' /\ \A y \in Execs : y # x => pub'[y].at = pub[y].at
  <1>0. pub[x] \in PubType
    BY DEF ShapeInv, PubShape
  <1>1. CASE Store(x)
    <2> DEFINE a == pub[x].event
               new == [pub[x] EXCEPT !.at = "routing", !.routes = Routed(a)]
    <2>1. a \in Assets /\ pub[x].attempts # 0 /\ pub' = [pub EXCEPT ![x] = new]
      BY <1>1 DEF Store, ShapeInv, PubShape, InFlight
    <2>2. new \in PubType /\ new.event = a /\ new.attempts = pub[x].attempts
      BY <1>0, <2>1, IngestAssumption DEF PubType, Stages, Routed
    <2>3. PubShape' /\ \A y \in Execs : y # x => pub'[y].at = pub[y].at
      <3> HIDE DEF new, a
      <3>1. PubShape
        BY DEF ShapeInv
      <3> QED
        BY <2>1, <2>2, <3>1, PubRecords
    <2>4. Scope(x, a) \in ScopeStates /\ pub[x].attempts \in 1..MaxAttempts
      BY <1>0, <2>1, ScopeAssumption, IngestAssumption DEF Scope, Emits, ScopeStates, Precedence, PubType
    <2> DEFINE obs(seen) == [by |-> x, attempt |-> pub[x].attempts, asset |-> a,
                             scope |-> Scope(x, a), seen |-> seen]
    <2>5. PICK seen \in Seen :
            /\ observations' = observations \cup {obs(seen)}
            /\ assets' = [assets EXCEPT ![a] = IF @ = None THEN NewAsset(obs(seen)) ELSE Merged(@, obs(seen))]
      BY <1>1 DEF Store
    <2>6. obs(seen) \in Observation
      BY <2>1, <2>4 DEF Observation
    <2>7. NewAsset(obs(seen)) \in Row
      BY <2>4 DEF NewAsset, Row
    <2>8. \A row \in Row : Merged(row, obs(seen)) \in Row
      BY <2>4 DEF Merged, Row
    <2> HIDE DEF obs, a
    <2>9. RowsShape'
      <3>1. frontier' = frontier
        BY <1>1 DEF Store
      <3> QED
        BY <2>1, <2>5, <2>6, <2>7, <2>8, <3>1 DEF ShapeInv, RowsShape
    <2> QED
      BY <2>3, <2>9
  <1>2. ASSUME NEW k \in Keys, Enqueue(x, k)
        PROVE  PubShape' /\ RowsShape' /\ \A y \in Execs : y # x => pub'[y].at = pub[y].at
    <2> DEFINE new == [pub[x] EXCEPT !.routes = @ \ {k}]
    <2>1. /\ pub' = [pub EXCEPT ![x] = new] /\ pub[x].event \in Assets /\ pub[x].attempts # 0
          /\ RowsShape'
      BY <1>2 DEF Enqueue, ShapeInv, PubShape, RowsShape, InFlight
    <2>2. new \in PubType /\ new.event = pub[x].event /\ new.attempts = pub[x].attempts
      BY <1>0 DEF PubType
    <2> HIDE DEF new
    <2>3. PubShape
      BY DEF ShapeInv
    <2> QED
      BY <2>1, <2>2, <2>3, PubRecords
  <1> QED
    BY <1>1, <1>2

\* A crash takes the publications of a process away.
LEMMA CrashShapes ==
  ASSUME ShapeInv, NEW p \in Procs, Crash(p)
  PROVE  ShapeInv'
  <1>1. RowsShape'
    BY DEF Crash, tables, ShapeInv, RowsShape
  <1>2. \A x \in Execs : /\ [Off EXCEPT !.attempts = pub[x].attempts] \in PubType
                         /\ [Off EXCEPT !.attempts = pub[x].attempts].at = "off"
    BY DEF ShapeInv, PubShape, PubType, Off, Stages
  <1>3. PubShape'
    BY <1>2 DEF Crash, ShapeInv, PubShape, InFlight
  <1> QED
    BY <1>1, <1>3, CrashCounted DEF ShapeInv

\* The bus and the tables keep their shapes, a process counts exactly the publications it has
\* in flight, and a slot is missing for each that was given one, whatever failed, was
\* cancelled or crashed (publish, _queue_slots).
THEOREM IngestTypes == Spec => []IngestTypeOK
  <1>1. Init => ShapeInv
    <2> SUFFICES ASSUME Init PROVE ShapeInv
      OBVIOUS
    <2>1. Off \in PubType /\ Off.at = "off"
      BY IngestAssumption DEF Off, PubType, Stages
    <2>2. \A p \in Procs, S \in {InFlight, Slotted} : Among(p, S) = {}
      BY <2>1 DEF Init, Among, InFlight, Slotted
    <2>3. Counted
      BY <2>2, FS_EmptySet, CapacityAssumption DEF Init, Counted
    <2> QED
      BY <2>1, <2>3 DEF Init, ShapeInv, PubShape, RowsShape, InFlight
  <1>2. ShapeInv /\ [Next]_vars => ShapeInv'
    <2> SUFFICES ASSUME ShapeInv, [Next]_vars PROVE ShapeInv'
      OBVIOUS
    <2> USE DEF ShapeInv
    <2>1. ASSUME NEW x \in Execs,
                 \/ Begin(x) \/ Finish(x) \/ TakeSlot(x) \/ TakeLock(x) \/ Unlock(x)
                 \/ Published(x) \/ Abort(x)
                 \/ \E a \in Assets : Publish(x, a) \/ PublishDerived(x, a)
          PROVE  ShapeInv'
      <3>1. UNCHANGED tables
        BY <2>1 DEF Begin, Finish, TakeSlot, TakeLock, Unlock, Published, Abort, Publish,
                    PublishDerived, tables
      <3> QED
        BY <2>1, <3>1, PublicationShapes, PublicationCounts DEF tables, RowsShape
    <2>2. ASSUME NEW x \in Execs, Store(x) \/ \E k \in Keys : Enqueue(x, k) PROVE ShapeInv'
      BY <2>2, RowsKept, PublicationCounts
    <2>3. ASSUME NEW p \in Procs, Crash(p) PROVE ShapeInv'
      BY <2>3, CrashShapes
    <2>4. CASE UNCHANGED vars
      BY <2>4 DEF vars, bus, tables, PubShape, RowsShape, Counted, Among
    <2> QED
      BY <2>1, <2>2, <2>3, <2>4 DEF Next, Step
  <1>3. ShapeInv => IngestTypeOK
    <2> SUFFICES ASSUME ShapeInv PROVE IngestTypeOK
      OBVIOUS
    <2>1. ASSUME NEW p \in Procs
          PROVE  /\ depth[p] = Cardinality(Among(p, InFlight))
                 /\ slots[p] + Cardinality(Among(p, Slotted)) = Capacity
      <3>1. Cardinality(Among(p, Slotted)) \in Nat
        BY ExecsAssumption, FS_Subset, FS_CardinalityType DEF Among
      <3> QED
        BY <3>1, CapacityAssumption DEF ShapeInv, Counted
    <2> QED
      BY <2>1 DEF ShapeInv, PubShape, PubType, RowsShape, Among, Slotted, IngestTypeOK
  <1> QED
    BY <1>1, <1>2, <1>3, PTL DEF Spec
=============================================================================
