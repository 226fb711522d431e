----------------------------- MODULE SumProofs -----------------------------
(***************************************************************************)
(* Sums of a function over a finite set, as the budgets, the rate limits   *)
(* and their proofs use them: SumFunctionOnSet of the module Functions,    *)
(* for functions whose values are integers.                                *)
(*                                                                         *)
(* The sum is a recursive function on the subsets of the set.  That there  *)
(* is one, and every fact that would be shown by induction, is shown of a  *)
(* smallest counterexample: proper inclusion is well founded on the        *)
(* subsets of a finite set.                                                *)
(***************************************************************************)
EXTENDS Integers, FiniteSets, Functions, FiniteSetTheorems, WellFoundedInduction, TLAPS

Pick(s) == CHOOSE x \in s : TRUE

\* What the recursive function that sums f over the subsets of S satisfies.
Adds(g, f, S) ==
  g = [s \in SUBSET S |-> IF s = {} THEN 0 ELSE f[Pick(s)] + g[s \ {Pick(s)}]]

\* Among sets of subsets of a finite set there is a smallest.
LEMMA SmallestSubset ==
  ASSUME NEW S, IsFiniteSet(S), NEW Q, Q \subseteq SUBSET S, Q # {}
  PROVE  \E T \in Q : \A U \in Q : U \subseteq T => U = T
<1>1. FiniteSubsetsOf(S) = SUBSET S
  BY FS_FiniteSubsetsOfFinite
<1>2. IsWellFoundedOn(StrictSubsetOrdering(S), SUBSET S)
  BY <1>1, FS_StrictSubsetOrderingWellFounded
<1>3. PICK T \in Q : \A U \in Q : ~ (<<U, T>> \in StrictSubsetOrdering(S))
  BY <1>2, WFMin
<1> QED
  BY <1>3 DEF StrictSubsetOrdering

\* A set that is not empty has what Pick picks.
LEMMA PickIsIn == \A s : s # {} => Pick(s) \in s
BY DEF Pick

\* The recursion determines its function: on what two of them share they agree.
LEMMA AddsAgree ==
  ASSUME NEW f, NEW S, NEW T, IsFiniteSet(S), NEW g, NEW h, Adds(g, f, S), Adds(h, f, T)
  PROVE  \A s \in SUBSET S : s \in SUBSET T => g[s] = h[s]
<1> DEFINE Q == {s \in SUBSET S : s \in SUBSET T /\ g[s] # h[s]}
<1> SUFFICES ASSUME Q # {} PROVE FALSE
  OBVIOUS
<1>0. Q \subseteq SUBSET S
  OBVIOUS
<1> HIDE DEF Q
<1>1. PICK s \in Q : \A u \in Q : u \subseteq s => u = s
  BY <1>0, SmallestSubset
<1> USE DEF Q
<1>2. /\ g[s] = IF s = {} THEN 0 ELSE f[Pick(s)] + g[s \ {Pick(s)}]
      /\ h[s] = IF s = {} THEN 0 ELSE f[Pick(s)] + h[s \ {Pick(s)}]
  BY DEF Adds
<1>3. s # {} /\ Pick(s) \in s
  BY <1>2, PickIsIn
<1>4. s \ {Pick(s)} \notin Q
  BY <1>1, <1>3
<1>5. g[s \ {Pick(s)}] = h[s \ {Pick(s)}]
  BY <1>4
<1> QED
  BY <1>2, <1>5

\* There is such a function for every finite set.
LEMMA AddsExists ==
  ASSUME NEW f, NEW S, IsFiniteSet(S)
  PROVE  \E g : Adds(g, f, S)
<1> DEFINE Q == {T \in SUBSET S : ~ \E g : Adds(g, f, T)}
<1> SUFFICES ASSUME Q # {} PROVE FALSE
  OBVIOUS
<1>0. Q \subseteq SUBSET S
  OBVIOUS
<1> HIDE DEF Q
<1>1. PICK T \in Q : \A U \in Q : U \subseteq T => U = T
  BY <1>0, SmallestSubset
<1> USE DEF Q
<1> DEFINE G(U) == CHOOSE g : Adds(g, f, U)
<1>2. \A U \in SUBSET T : U # T => Adds(G(U), f, U)
  BY <1>1
<1>3. \A U \in SUBSET T : IsFiniteSet(U)
  BY FS_Subset
<1> HIDE DEF G
<1> DEFINE g == [s \in SUBSET T |->
                   IF s = {} THEN 0
                   ELSE f[Pick(s)] + G(s \ {Pick(s)})[s \ {Pick(s)}]]
<1>4. ASSUME NEW u \in SUBSET T, u # T PROVE g[u] = G(u)[u]
  <2>1. G(u)[u] = IF u = {} THEN 0 ELSE f[Pick(u)] + G(u)[u \ {Pick(u)}]
    BY <1>2, <1>4 DEF Adds
  <2>2. CASE u = {}
    BY <2>1, <2>2
  <2>3. CASE u # {}
    <3> DEFINE v == u \ {Pick(u)}
    <3>1. v \in SUBSET T /\ v # T /\ v \in SUBSET u
      BY <1>4
    <3>2. Adds(G(v), f, v) /\ Adds(G(u), f, u) /\ IsFiniteSet(v)
      BY <3>1, <1>2, <1>3, <1>4
    <3>3. G(v)[v] = G(u)[v]
      BY <3>1, <3>2, AddsAgree
    <3> QED
      BY <2>1, <2>3, <3>3
  <2> QED
    BY <2>2, <2>3
<1>5. ASSUME NEW s \in SUBSET T, s # {}
      PROVE  g[s \ {Pick(s)}] = G(s \ {Pick(s)})[s \ {Pick(s)}]
  <2>1. s \ {Pick(s)} \in SUBSET T /\ s \ {Pick(s)} # T
    BY <1>5, PickIsIn
  <2> HIDE DEF g
  <2> QED
    BY <2>1, <1>4
<1>6. g = [s \in SUBSET T |-> IF s = {} THEN 0 ELSE f[Pick(s)] + g[s \ {Pick(s)}]]
  BY <1>5
<1>7. Adds(g, f, T)
  BY <1>6 DEF Adds
<1> QED
  BY <1>1, <1>7

\* The sum is what that function gives for the whole set.
LEMMA SumIsAdds ==
  ASSUME NEW f, NEW S, IsFiniteSet(S)
  PROVE  \E g : Adds(g, f, S) /\ \A T \in SUBSET S : SumFunctionOnSet(f, T) = g[T]
<1> DEFINE G(U) == CHOOSE g : Adds(g, f, U)
<1>1. \A T : SumFunctionOnSet(f, T) = G(T)[T]
  BY DEF SumFunctionOnSet, FoldFunctionOnSet, MapThenFoldSet, Adds, Pick
<1>2. \A T \in SUBSET S : IsFiniteSet(T)
  BY FS_Subset
<1>3. \A T \in SUBSET S : Adds(G(T), f, T)
  BY <1>2, AddsExists
<1> HIDE DEF G
<1>4. \A T \in SUBSET S : G(T)[T] = G(S)[T]
  BY <1>2, <1>3, AddsAgree
<1> QED
  BY <1>1, <1>3, <1>4

\* A sum of naturals is one, and so is the sum over any part of the set.
LEMMA SumNat ==
  ASSUME NEW f, NEW S, IsFiniteSet(S), \A x \in S : f[x] \in Nat
  PROVE  SumFunctionOnSet(f, S) \in Nat
<1> DEFINE Q == {T \in SUBSET S : SumFunctionOnSet(f, T) \notin Nat}
<1> SUFFICES ASSUME Q # {} PROVE FALSE
  OBVIOUS
<1>0. Q \subseteq SUBSET S
  OBVIOUS
<1> HIDE DEF Q
<1>1. PICK T \in Q : \A U \in Q : U \subseteq T => U = T
  BY <1>0, SmallestSubset
<1> USE DEF Q
<1>2. PICK g : Adds(g, f, S) /\ \A U \in SUBSET S : SumFunctionOnSet(f, U) = g[U]
  BY SumIsAdds
<1>3. g[T] = IF T = {} THEN 0 ELSE f[Pick(T)] + g[T \ {Pick(T)}]
  BY <1>2 DEF Adds
<1>4. T # {} /\ Pick(T) \in T
  BY <1>2, <1>3, PickIsIn
<1>5. T \ {Pick(T)} \notin Q
  BY <1>1, <1>4
<1>6. g[T \ {Pick(T)}] \in Nat
  BY <1>2, <1>5
<1> QED
  BY <1>2, <1>3, <1>4, <1>6

\* The empty sum.
LEMMA SumEmpty == \A f : SumFunctionOnSet(f, {}) = 0
<1> TAKE f
<1>1. IsFiniteSet({})
  BY FS_EmptySet
<1>2. PICK g : Adds(g, f, {}) /\ \A U \in SUBSET {} : SumFunctionOnSet(f, U) = g[U]
  BY <1>1, SumIsAdds
<1> QED
  BY <1>2 DEF Adds

\* Any element can be taken out of a sum first.
LEMMA SumRemove ==
  ASSUME NEW f, NEW S, IsFiniteSet(S), \A x \in S : f[x] \in Nat, NEW e \in S
  PROVE  SumFunctionOnSet(f, S) = f[e] + SumFunctionOnSet(f, S \ {e})
<1> DEFINE Q == {T \in SUBSET S :
                   \E x \in T : SumFunctionOnSet(f, T) # f[x] + SumFunctionOnSet(f, T \ {x})}
<1> SUFFICES ASSUME Q # {} PROVE FALSE
  OBVIOUS
<1>0. Q \subseteq SUBSET S
  OBVIOUS
<1> HIDE DEF Q
<1>1. PICK T \in Q : \A U \in Q : U \subseteq T => U = T
  BY <1>0, SmallestSubset
<1> USE DEF Q
<1>2. PICK g : Adds(g, f, S) /\ \A U \in SUBSET S : SumFunctionOnSet(f, U) = g[U]
  BY SumIsAdds
<1>3. PICK x \in T : g[T] # f[x] + g[T \ {x}]
  BY <1>1, <1>2
<1> DEFINE p == Pick(T)
<1>4. p \in T /\ g[T] = f[p] + g[T \ {p}]
  BY <1>2, <1>3, PickIsIn DEF Adds
<1>5. x # p
  BY <1>3, <1>4
<1> HIDE DEF p
<1>6. \A U \in SUBSET S : g[U] \in Nat
  BY <1>2, SumNat, FS_Subset
<1>7. T \ {p} \notin Q /\ T \ {x} \notin Q /\ T \in SUBSET S
  BY <1>1, <1>3, <1>4
<1>8. (T \ {p}) \ {x} = (T \ {x}) \ {p} /\ (T \ {p}) \ {x} \in SUBSET S
  BY <1>7
<1>9. PICK z \in Nat : g[(T \ {p}) \ {x}] = z /\ g[(T \ {x}) \ {p}] = z
  BY <1>6, <1>8
<1>10. g[T \ {p}] = f[x] + z
  BY <1>2, <1>3, <1>5, <1>7, <1>9
<1>11. g[T \ {x}] = f[p] + z
  BY <1>2, <1>4, <1>5, <1>7, <1>9
<1>12. f[x] \in Nat /\ f[p] \in Nat
  BY <1>3, <1>4, <1>7
<1> QED
  BY <1>3, <1>4, <1>10, <1>11, <1>12

\* Only the values on the set count.
LEMMA SumSame ==
  ASSUME NEW f, NEW h, NEW S, IsFiniteSet(S), \A x \in S : f[x] \in Nat /\ h[x] = f[x]
  PROVE  SumFunctionOnSet(h, S) = SumFunctionOnSet(f, S)
<1> DEFINE Q == {T \in SUBSET S : SumFunctionOnSet(h, T) # SumFunctionOnSet(f, T)}
<1> SUFFICES ASSUME Q # {} PROVE FALSE
  OBVIOUS
<1>0. Q \subseteq SUBSET S
  OBVIOUS
<1> HIDE DEF Q
<1>1. PICK T \in Q : \A U \in Q : U \subseteq T => U = T
  BY <1>0, SmallestSubset
<1> USE DEF Q
<1>2. T # {} /\ IsFiniteSet(T)
  BY <1>1, SumEmpty, FS_Subset
<1>3. PICK x \in T : TRUE
  BY <1>2
<1>4. /\ SumFunctionOnSet(f, T) = f[x] + SumFunctionOnSet(f, T \ {x})
      /\ SumFunctionOnSet(h, T) = h[x] + SumFunctionOnSet(h, T \ {x})
  BY <1>2, SumRemove
<1>5. T \ {x} \notin Q
  BY <1>1, <1>3
<1> QED
  BY <1>3, <1>4, <1>5

\* A value that grows raises the sum by as much.
LEMMA SumRaised ==
  ASSUME NEW f, NEW h, NEW S, IsFiniteSet(S), \A x \in S : f[x] \in Nat,
         NEW e \in S, NEW k \in Nat, h[e] = f[e] + k, \A x \in S : x # e => h[x] = f[x]
  PROVE  SumFunctionOnSet(h, S) = SumFunctionOnSet(f, S) + k
<1>1. \A x \in S : h[x] \in Nat
  OBVIOUS
<1>2. SumFunctionOnSet(f, S) = f[e] + SumFunctionOnSet(f, S \ {e})
  BY SumRemove
<1>3. SumFunctionOnSet(h, S) = h[e] + SumFunctionOnSet(h, S \ {e})
  BY <1>1, SumRemove
<1>4. PICK R : R = S \ {e}
  OBVIOUS
<1>5. IsFiniteSet(R) /\ \A x \in R : f[x] \in Nat /\ h[x] = f[x]
  BY <1>4, FS_RemoveElement
<1>6. SumFunctionOnSet(h, R) = SumFunctionOnSet(f, R) /\ SumFunctionOnSet(f, R) \in Nat
  BY <1>5, SumSame, SumNat
<1>7. f[e] \in Nat
  OBVIOUS
<1> QED
  BY <1>2, <1>3, <1>4, <1>6, <1>7

\* An element more adds its value.
LEMMA SumAdd ==
  ASSUME NEW f, NEW S, IsFiniteSet(S), \A x \in S : f[x] \in Nat, NEW e, f[e] \in Nat, e \notin S
  PROVE  SumFunctionOnSet(f, S \cup {e}) = SumFunctionOnSet(f, S) + f[e]
<1>1. IsFiniteSet(S \cup {e}) /\ (S \cup {e}) \ {e} = S
  BY FS_AddElement
<1>2. SumFunctionOnSet(f, S \cup {e}) = f[e] + SumFunctionOnSet(f, S)
  BY <1>1, SumRemove
<1> QED
  BY <1>2, SumNat

\* A sum falls into the sum over a part and the sum over the rest.
LEMMA SumSplit ==
  ASSUME NEW f, NEW S, IsFiniteSet(S), \A x \in S : f[x] \in Nat, NEW P \in SUBSET S
  PROVE  SumFunctionOnSet(f, S) = SumFunctionOnSet(f, P) + SumFunctionOnSet(f, S \ P)
<1> DEFINE Q == {T \in SUBSET S : SumFunctionOnSet(f, S)
                                    # SumFunctionOnSet(f, T) + SumFunctionOnSet(f, S \ T)}
<1> SUFFICES ASSUME Q # {} PROVE FALSE
  OBVIOUS
<1>0. Q \subseteq SUBSET S
  OBVIOUS
<1> HIDE DEF Q
<1>1. PICK T \in Q : \A U \in Q : U \subseteq T => U = T
  BY <1>0, SmallestSubset
<1> USE DEF Q
<1>2. \A U \in SUBSET S : IsFiniteSet(U) /\ SumFunctionOnSet(f, U) \in Nat
  BY FS_Subset, SumNat
<1>3. CASE T = {}
  <2>1. S \ {} = S /\ S \in SUBSET S
    OBVIOUS
  <2> QED
    BY <1>1, <1>2, <1>3, <2>1, SumEmpty
<1>4. CASE T # {}
  <2>1. PICK x \in T : TRUE
    BY <1>4
  <2> DEFINE R == S \ (T \ {x})
  <2>2. T \ {x} \notin Q /\ T \ {x} \in SUBSET S /\ R \in SUBSET S
    BY <1>1, <2>1
  <2>3. SumFunctionOnSet(f, S) = SumFunctionOnSet(f, T \ {x}) + SumFunctionOnSet(f, R)
    BY <2>2
  <2>4. SumFunctionOnSet(f, T) = f[x] + SumFunctionOnSet(f, T \ {x})
    BY <1>1, <1>2, <2>1, SumRemove
  <2>5. R \ {x} = S \ T /\ x \in R
    BY <1>1, <2>1
  <2> HIDE DEF R
  <2>6. SumFunctionOnSet(f, R) = f[x] + SumFunctionOnSet(f, S \ T)
    BY <1>2, <2>2, <2>5, SumRemove
  <2>7. /\ f[x] \in Nat /\ SumFunctionOnSet(f, T \ {x}) \in Nat
        /\ SumFunctionOnSet(f, S \ T) \in Nat
    BY <1>1, <1>2, <2>1, <2>2
  <2>8. SumFunctionOnSet(f, S) = SumFunctionOnSet(f, T) + SumFunctionOnSet(f, S \ T)
    BY <2>3, <2>4, <2>6, <2>7
  <2> QED
    BY <1>1, <2>8
<1> QED
  BY <1>3, <1>4

\* The sum over a part is no larger.
LEMMA SumPart ==
  ASSUME NEW f, NEW S, IsFiniteSet(S), \A x \in S : f[x] \in Nat, NEW P \in SUBSET S
  PROVE  SumFunctionOnSet(f, P) <= SumFunctionOnSet(f, S)
<1>1. \A U \in SUBSET S : SumFunctionOnSet(f, U) \in Nat
  BY FS_Subset, SumNat
<1>2. S \ P \in SUBSET S
  OBVIOUS
<1>3. SumFunctionOnSet(f, S) = SumFunctionOnSet(f, P) + SumFunctionOnSet(f, S \ P)
  BY SumSplit
<1>4. SumFunctionOnSet(f, P) \in Nat /\ SumFunctionOnSet(f, S \ P) \in Nat
  BY <1>1, <1>2
<1> QED
  BY <1>3, <1>4

\* What is nothing does not count.
LEMMA SumZero ==
  ASSUME NEW f, NEW S, IsFiniteSet(S), \A x \in S : f[x] = 0
  PROVE  SumFunctionOnSet(f, S) = 0
<1> DEFINE Q == {T \in SUBSET S : SumFunctionOnSet(f, T) # 0}
<1> SUFFICES ASSUME Q # {} PROVE FALSE
  OBVIOUS
<1>0. Q \subseteq SUBSET S
  OBVIOUS
<1> HIDE DEF Q
<1>1. PICK T \in Q : \A U \in Q : U \subseteq T => U = T
  BY <1>0, SmallestSubset
<1> USE DEF Q
<1>2. T # {} /\ IsFiniteSet(T)
  BY <1>1, SumEmpty, FS_Subset
<1>3. PICK x \in T : TRUE
  BY <1>2
<1>4. SumFunctionOnSet(f, T) = f[x] + SumFunctionOnSet(f, T \ {x})
  BY <1>2, SumRemove
<1>5. T \ {x} \notin Q
  BY <1>1, <1>3
<1> QED
  BY <1>3, <1>4, <1>5

\* To sum over a set is to sum over what stands for its elements, one for each.
LEMMA SumRenamed ==
  ASSUME NEW f, NEW S, IsFiniteSet(S), \A x \in S : f[x] \in Nat,
         NEW h, NEW m, \A x \in S : h[m[x]] = f[x],
         \A x, y \in S : m[x] = m[y] => x = y
  PROVE  /\ IsFiniteSet({m[x] : x \in S})
         /\ SumFunctionOnSet(h, {m[x] : x \in S}) = SumFunctionOnSet(f, S)
<1> DEFINE Im(T) == {m[x] : x \in T}
           OK(T) == IsFiniteSet(Im(T)) /\ SumFunctionOnSet(h, Im(T)) = SumFunctionOnSet(f, T)
           Q == {T \in SUBSET S : ~OK(T)}
<1> SUFFICES ASSUME Q # {} PROVE FALSE
  OBVIOUS
<1>0. Q \subseteq SUBSET S
  OBVIOUS
<1> HIDE DEF Q
<1>1. PICK T \in Q : \A U \in Q : U \subseteq T => U = T
  BY <1>0, SmallestSubset
<1> USE DEF Q
<1>2. IsFiniteSet(T)
  BY <1>1, FS_Subset
<1>3. CASE T = {}
  <2>1. Im(T) = {}
    BY <1>3
  <2> QED
    BY <1>1, <1>3, <2>1, SumEmpty, FS_EmptySet
<1>4. CASE T # {}
  <2>1. PICK x \in T : TRUE
    BY <1>4
  <2>2. T \ {x} \notin Q /\ T \ {x} \in SUBSET S
    <3> HIDE DEF Q
    <3>1. T \ {x} \notin Q
      BY <1>1, <2>1
    <3> QED
      BY <3>1, <1>0, <1>1
  <2>3. OK(T \ {x})
    BY <2>2
  <2>4. PICK J, k : /\ J = Im(T \ {x}) /\ k = m[x]
                    /\ Im(T) = J \cup {k} /\ k \notin J
    <3>1. Im(T) = Im(T \ {x}) \cup {m[x]} /\ m[x] \notin Im(T \ {x})
      BY <1>0, <1>1, <2>1
    <3> HIDE DEF Im
    <3> QED
      BY <3>1
  <2>5. IsFiniteSet(J) /\ SumFunctionOnSet(h, J) = SumFunctionOnSet(f, T \ {x})
    BY <2>3, <2>4
  <2>6. IsFiniteSet(J \cup {k})
    BY <2>5, FS_AddElement
  <2>7. (\A j \in J : h[j] \in Nat) /\ h[k] \in Nat
    BY <1>0, <1>1, <2>1, <2>2, <2>4
  <2>8. SumFunctionOnSet(h, J \cup {k}) = SumFunctionOnSet(h, J) + h[k]
    BY <2>4, <2>5, <2>7, SumAdd
  <2>9. SumFunctionOnSet(f, T) = f[x] + SumFunctionOnSet(f, T \ {x})
    BY <1>1, <1>2, <2>1, SumRemove
  <2>10. SumFunctionOnSet(f, T \ {x}) \in Nat /\ f[x] \in Nat /\ h[m[x]] = f[x]
    <3>1. IsFiniteSet(T \ {x}) /\ \A y \in T \ {x} : f[y] \in Nat
      BY <1>2, <2>2, FS_RemoveElement
    <3> QED
      BY <3>1, <1>1, <2>1, <2>2, SumNat
  <2>11. SumFunctionOnSet(h, J \cup {k}) = SumFunctionOnSet(f, T)
    BY <2>4, <2>5, <2>8, <2>9, <2>10
  <2> QED
    BY <1>1, <2>4, <2>6, <2>11
<1> QED
  BY <1>3, <1>4
=============================================================================
