-------------------------- MODULE ArithmeticTheorems --------------------------
(***************************************************************************)
(* Sums, least and greatest elements of finite sets, and multiples, for    *)
(* the proofs about purchase limits, quota periods and quota windows.      *)
(*                                                                         *)
(* SumFunctionOnSet is a fold: a function on the subsets of the set, which *)
(* a CHOOSE picks.  The lemmas below show that there is one, that any two  *)
(* agree, and from that what a proof needs: an element may be taken out    *)
(* or added, and sums compare when their terms do.                         *)
(*                                                                         *)
(* Each is an induction over the subsets of a finite set, carried out      *)
(* without a predicate parameter: the subsets that violate the claim, if   *)
(* there are any, have a smallest member (SmallestSubset), which an        *)
(* element less contradicts.                                               *)
(***************************************************************************)
EXTENDS Integers, Functions, FiniteSetsExt, FiniteSetTheorems, TLAPS

\* The element a fold takes out of a set.
Pick(T) == CHOOSE x \in T : TRUE

\* g computes the sums of f over the subsets of S.
SumsUp(f, S, g) ==
  g = [T \in SUBSET S |-> IF T = {} THEN 0 ELSE f[Pick(T)] + g[T \ {Pick(T)}]]

\* What the community modules' definition of a sum comes to.
LEMMA SumUnfolds ==
  ASSUME NEW f, NEW S
  PROVE  SumFunctionOnSet(f, S) = (CHOOSE g : SumsUp(f, S, g))[S]
BY DEF SumFunctionOnSet, FoldFunctionOnSet, MapThenFoldSet, SumsUp, Pick

\* Induction over the subsets of a finite set, as the existence of a smallest
\* counterexample.
LEMMA SmallestSubset ==
  ASSUME NEW S, IsFiniteSet(S), NEW B, B \subseteq SUBSET S, B # {}
  PROVE  \E T \in B : IsFiniteSet(T) /\ \A U \in B : U \subseteq T => U = T
<1>1. IsWellFoundedOn(StrictSubsetOrdering(S), SUBSET S)
  BY FS_StrictSubsetOrderingWellFounded, FS_FiniteSubsetsOfFinite
<1>2. PICK T \in B : \A U \in B : ~(<<U, T>> \in StrictSubsetOrdering(S))
  BY <1>1, WFMin
<1>3. ASSUME NEW U \in B, U \subseteq T  PROVE U = T
  BY <1>2, <1>3 DEF StrictSubsetOrdering
<1>4. IsFiniteSet(T)
  BY FS_Subset
<1> QED BY <1>3, <1>4

\* It is an element of the set.
LEMMA PickIn ==
  ASSUME NEW T, T # {}
  PROVE  Pick(T) \in T
BY DEF Pick

\* Two such functions agree where both are defined.
LEMMA SumsAgree ==
  ASSUME NEW f, NEW S, IsFiniteSet(S), NEW R, NEW g, NEW h,
         SumsUp(f, S, g), SumsUp(f, R, h), NEW V, V \subseteq S, V \subseteq R
  PROVE  g[V] = h[V]
<1> DEFINE B == {T \in SUBSET V : g[T] # h[T]}
<1> SUFFICES ASSUME B # {}  PROVE FALSE
  OBVIOUS
<1>0. IsFiniteSet(V)
  BY FS_Subset
<1>b. B \subseteq SUBSET V
  OBVIOUS
<1>1. PICK T \in B : \A U \in B : U \subseteq T => U = T
  <2> HIDE DEF B
  <2> QED BY <1>0, <1>b, SmallestSubset
<1>2. T \in SUBSET S /\ T \in SUBSET R /\ g[T] # h[T]
  BY <1>1
<1>3. CASE T = {}
  BY <1>2, <1>3 DEF SumsUp
<1>4. CASE T # {}
  <2> DEFINE W == T \ {Pick(T)}
  <2>1. W \subseteq T /\ W # T
    BY <1>4, PickIn
  <2>2. g[W] = h[W]
    BY <1>1, <2>1
  <2>3. g[T] = f[Pick(T)] + g[W] /\ h[T] = f[Pick(T)] + h[W]
    BY <1>2, <1>4 DEF SumsUp
  <2> QED BY <1>2, <2>2, <2>3
<1> QED BY <1>3, <1>4

\* There is such a function for every finite set.
LEMMA SumsExist ==
  ASSUME NEW f, NEW S, IsFiniteSet(S)
  PROVE  \E g : SumsUp(f, S, g)
<1> DEFINE B == {T \in SUBSET S : ~ \E g : SumsUp(f, T, g)}
<1> SUFFICES ASSUME B # {}  PROVE FALSE
  OBVIOUS
<1>0. B \subseteq SUBSET S
  OBVIOUS
<1>1. PICK T \in B : IsFiniteSet(T) /\ \A U \in B : U \subseteq T => U = T
  <2> HIDE DEF B
  <2> QED BY <1>0, SmallestSubset
<1> DEFINE G(U) == CHOOSE g : SumsUp(f, U, g)
           rest(U) == U \ {Pick(U)}
           h == [U \in SUBSET T |-> IF U = {} THEN 0 ELSE f[Pick(U)] + G(rest(U))[rest(U)]]
<1>2. ASSUME NEW U, U \subseteq T, U # T  PROVE SumsUp(f, U, G(U)) /\ IsFiniteSet(U)
  <2>1. U \in SUBSET S /\ U \notin B
    BY <1>1, <1>2
  <2>2. \E g : SumsUp(f, U, g)
    BY <2>1
  <2> QED BY <1>1, <1>2, <2>2, FS_Subset
<1>3. ASSUME NEW U \in SUBSET T, U # {}  PROVE h[U] = f[Pick(U)] + h[rest(U)]
  <2> DEFINE V == rest(U)
  <2>1. V \subseteq T /\ V # T
    BY <1>3, PickIn
  <2>2. SumsUp(f, V, G(V)) /\ IsFiniteSet(V)
    BY <1>2, <2>1
  <2>3. h[V] = G(V)[V]
    <3>1. CASE V = {}
      BY <2>1, <2>2, <3>1 DEF SumsUp
    <3>2. CASE V # {}
      <4>1. rest(V) \subseteq V /\ rest(V) \subseteq T /\ rest(V) # T
        BY <2>1, <3>2, PickIn
      <4>2. SumsUp(f, rest(V), G(rest(V))) /\ IsFiniteSet(rest(V))
        BY <1>2, <4>1
      <4> HIDE DEF G
      <4>3. G(V)[rest(V)] = G(rest(V))[rest(V)]
        BY <2>2, <4>1, <4>2, SumsAgree
      <4>4. G(V)[V] = f[Pick(V)] + G(V)[rest(V)]
        BY <2>2, <3>2 DEF SumsUp
      <4>5. h[V] = f[Pick(V)] + G(rest(V))[rest(V)]
        BY <2>1, <3>2
      <4> QED BY <4>3, <4>4, <4>5
    <3> QED BY <3>1, <3>2
  <2>4. h[U] = f[Pick(U)] + G(V)[V]
    BY <1>3
  <2> QED BY <2>3, <2>4
<1>4. h[{}] = 0
  OBVIOUS
<1>5. SumsUp(f, T, h)
  <2>1. h = [U \in SUBSET T |-> h[U]]
    OBVIOUS
  <2> HIDE DEF h, G
  <2>2. \A U \in SUBSET T : h[U] = IF U = {} THEN 0 ELSE f[Pick(U)] + h[U \ {Pick(U)}]
    <3> SUFFICES ASSUME NEW U \in SUBSET T
                 PROVE  h[U] = IF U = {} THEN 0 ELSE f[Pick(U)] + h[U \ {Pick(U)}]
      OBVIOUS
    <3>1. CASE U = {}
      BY <3>1, <1>4
    <3>2. CASE U # {}
      BY <3>2, <1>3
    <3> QED BY <3>1, <3>2
  <2> QED BY <2>1, <2>2 DEF SumsUp
<1>6. T \notin B
  BY <1>5
<1> QED BY <1>1, <1>6

\* A sum over a finite set: nothing over the empty set, otherwise an element and
\* the sum over the others.
LEMMA SumStep ==
  ASSUME NEW f, NEW S, IsFiniteSet(S)
  PROVE  SumFunctionOnSet(f, S) =
           IF S = {} THEN 0 ELSE f[Pick(S)] + SumFunctionOnSet(f, S \ {Pick(S)})
<1> DEFINE G(U) == CHOOSE g : SumsUp(f, U, g)
           V == S \ {Pick(S)}
<1>1. SumsUp(f, S, G(S)) /\ IsFiniteSet(V) /\ SumsUp(f, V, G(V))
  BY SumsExist, FS_Subset
<1>2. SumFunctionOnSet(f, S) = G(S)[S] /\ SumFunctionOnSet(f, V) = G(V)[V]
  BY SumUnfolds
<1> HIDE DEF G
<1>3. G(S)[V] = G(V)[V]
  BY <1>1, SumsAgree
<1>4. G(S)[S] = IF S = {} THEN 0 ELSE f[Pick(S)] + G(S)[V]
  BY <1>1 DEF SumsUp
<1> QED BY <1>2, <1>3, <1>4

\* Nothing is summed over the empty set.
LEMMA SumEmpty ==
  ASSUME NEW f
  PROVE  SumFunctionOnSet(f, {}) = 0
BY SumStep, FS_EmptySet

\* A sum is in any set that holds its terms and is closed under addition.
LEMMA SumType ==
  ASSUME NEW f, NEW S, IsFiniteSet(S), NEW D, 0 \in D, \A a, b \in D : a + b \in D,
         \A x \in S : f[x] \in D
  PROVE  SumFunctionOnSet(f, S) \in D
<1> DEFINE B == {T \in SUBSET S : SumFunctionOnSet(f, T) \notin D}
<1> SUFFICES ASSUME B # {}  PROVE FALSE
  OBVIOUS
<1>0. B \subseteq SUBSET S
  OBVIOUS
<1>1. PICK T \in B : IsFiniteSet(T) /\ \A U \in B : U \subseteq T => U = T
  <2> HIDE DEF B
  <2> QED BY <1>0, SmallestSubset
<1>2. T # {}
  BY <1>1, SumEmpty
<1>3. Pick(T) \in T /\ f[Pick(T)] \in D
  BY <1>1, <1>2, PickIn
<1>4. SumFunctionOnSet(f, T \ {Pick(T)}) \in D
  BY <1>1, <1>3
<1>5. SumFunctionOnSet(f, T) = f[Pick(T)] + SumFunctionOnSet(f, T \ {Pick(T)})
  BY <1>1, <1>2, SumStep
<1> QED BY <1>1, <1>3, <1>4, <1>5

\* Any element may be taken out of a sum.
LEMMA SumRemove ==
  ASSUME NEW f, NEW S, IsFiniteSet(S), \A x \in S : f[x] \in Int, NEW e \in S
  PROVE  /\ SumFunctionOnSet(f, S) = f[e] + SumFunctionOnSet(f, S \ {e})
         /\ SumFunctionOnSet(f, S \ {e}) \in Int
<1> DEFINE B == {T \in SUBSET S :
                   \E x \in T : SumFunctionOnSet(f, T) # f[x] + SumFunctionOnSet(f, T \ {x})}
<1>0. ASSUME NEW T \in SUBSET S  PROVE SumFunctionOnSet(f, T) \in Int
  <2>1. IsFiniteSet(T)
    BY FS_Subset
  <2>2. 0 \in Int /\ \A a, b \in Int : a + b \in Int
    OBVIOUS
  <2> QED BY <2>1, <2>2, SumType
<1>1. ASSUME B # {}  PROVE FALSE
  <2>0. B \subseteq SUBSET S
    OBVIOUS
  <2>1. PICK T \in B : IsFiniteSet(T) /\ \A U \in B : U \subseteq T => U = T
    <3> HIDE DEF B
    <3> QED BY <1>1, <2>0, SmallestSubset
  <2>2. PICK x \in T : SumFunctionOnSet(f, T) # f[x] + SumFunctionOnSet(f, T \ {x})
    BY <2>1
  <2> DEFINE p == Pick(T)
  <2>3. p \in T /\ SumFunctionOnSet(f, T) = f[p] + SumFunctionOnSet(f, T \ {p})
    BY <2>1, <2>2, SumStep, PickIn
  <2>4. x # p
    BY <2>2, <2>3
  <2>5. T \ {p} \notin B /\ T \ {x} \notin B
    BY <2>1, <2>3
  <2> HIDE DEF p
  <2>6. SumFunctionOnSet(f, T \ {p}) = f[x] + SumFunctionOnSet(f, (T \ {p}) \ {x})
    BY <2>2, <2>4, <2>5
  <2>7. SumFunctionOnSet(f, T \ {x}) = f[p] + SumFunctionOnSet(f, (T \ {x}) \ {p})
    BY <2>3, <2>4, <2>5
  <2>8. (T \ {p}) \ {x} = (T \ {x}) \ {p}
    OBVIOUS
  <2>9. f[x] \in Int /\ f[p] \in Int /\ SumFunctionOnSet(f, (T \ {x}) \ {p}) \in Int
    BY <1>0, <2>2, <2>3
  <2> DEFINE r == SumFunctionOnSet(f, (T \ {x}) \ {p})
  <2>10. SumFunctionOnSet(f, T) = f[p] + (f[x] + r)
    BY <2>3, <2>6, <2>8
  <2>11. f[x] + SumFunctionOnSet(f, T \ {x}) = f[x] + (f[p] + r)
    BY <2>7
  <2> HIDE DEF r
  <2>12. f[p] + (f[x] + r) = f[x] + (f[p] + r)
    <3>1. r \in Int
      BY <2>9 DEF r
    <3> QED BY <2>9, <3>1
  <2> QED BY <2>2, <2>10, <2>11, <2>12
<1>2. S \notin B
  BY <1>1
<1> QED BY <1>0, <1>2

\* Adding an element adds its value.
LEMMA SumAdd ==
  ASSUME NEW f, NEW S, IsFiniteSet(S), NEW e, e \notin S, \A x \in S \cup {e} : f[x] \in Int
  PROVE  /\ SumFunctionOnSet(f, S \cup {e}) = SumFunctionOnSet(f, S) + f[e]
         /\ SumFunctionOnSet(f, S) \in Int
<1>1. IsFiniteSet(S \cup {e}) /\ (S \cup {e}) \ {e} = S /\ f[e] \in Int
  BY FS_AddElement
<1>2. /\ SumFunctionOnSet(f, S \cup {e}) = f[e] + SumFunctionOnSet(f, S)
      /\ SumFunctionOnSet(f, S) \in Int
  BY <1>1, SumRemove
<1> QED BY <1>1, <1>2

\* A sum depends on the values in its set only.
LEMMA SumSame ==
  ASSUME NEW f, NEW g, NEW S, IsFiniteSet(S), \A x \in S : f[x] = g[x]
  PROVE  SumFunctionOnSet(f, S) = SumFunctionOnSet(g, S)
<1> DEFINE B == {T \in SUBSET S : SumFunctionOnSet(f, T) # SumFunctionOnSet(g, T)}
<1> SUFFICES ASSUME B # {}  PROVE FALSE
  OBVIOUS
<1>0. B \subseteq SUBSET S
  OBVIOUS
<1>1. PICK T \in B : IsFiniteSet(T) /\ \A U \in B : U \subseteq T => U = T
  <2> HIDE DEF B
  <2> QED BY <1>0, SmallestSubset
<1>2. T # {}
  BY <1>1, SumEmpty
<1>3. Pick(T) \in T /\ f[Pick(T)] = g[Pick(T)]
  BY <1>1, <1>2, PickIn
<1>4. SumFunctionOnSet(f, T \ {Pick(T)}) = SumFunctionOnSet(g, T \ {Pick(T)})
  BY <1>1, <1>3
<1>5. /\ SumFunctionOnSet(f, T) = f[Pick(T)] + SumFunctionOnSet(f, T \ {Pick(T)})
      /\ SumFunctionOnSet(g, T) = g[Pick(T)] + SumFunctionOnSet(g, T \ {Pick(T)})
  BY <1>1, <1>2, SumStep
<1> QED BY <1>1, <1>3, <1>4, <1>5

\* A sum of naturals is one.
LEMMA SumNat ==
  ASSUME NEW f, NEW S, IsFiniteSet(S), \A x \in S : f[x] \in Nat
  PROVE  SumFunctionOnSet(f, S) \in Nat
<1>1. 0 \in Nat /\ \A a, b \in Nat : a + b \in Nat
  OBVIOUS
<1> QED BY <1>1, SumType

\* No part of a sum of naturals is larger than the whole.
LEMMA SumPart ==
  ASSUME NEW f, NEW S, IsFiniteSet(S), \A x \in S : f[x] \in Nat, NEW R \in SUBSET S
  PROVE  SumFunctionOnSet(f, R) <= SumFunctionOnSet(f, S)
<1> DEFINE B == {T \in SUBSET S : R \subseteq T /\ ~(SumFunctionOnSet(f, R) <= SumFunctionOnSet(f, T))}
<1>0. ASSUME NEW T \in SUBSET S  PROVE IsFiniteSet(T) /\ SumFunctionOnSet(f, T) \in Nat
  BY SumNat, FS_Subset
<1>1. ASSUME B # {}  PROVE FALSE
  <2>0. B \subseteq SUBSET S
    OBVIOUS
  <2>1. PICK T \in B : \A U \in B : U \subseteq T => U = T
    <3> HIDE DEF B
    <3> QED BY <1>1, <2>0, SmallestSubset
  <2>2. T # R
    BY <1>0, <2>1
  <2>3. PICK x \in T : x \notin R
    BY <2>1, <2>2
  <2>4. T \ {x} \notin B /\ R \subseteq T \ {x} /\ T \ {x} \in SUBSET S
    BY <2>1, <2>3
  <2>5. SumFunctionOnSet(f, R) <= SumFunctionOnSet(f, T \ {x})
    BY <2>4
  <2>6. SumFunctionOnSet(f, T) = f[x] + SumFunctionOnSet(f, T \ {x})
    <3>1. IsFiniteSet(T) /\ \A y \in T : f[y] \in Int
      BY <1>0
    <3> QED BY <3>1, <2>3, SumRemove
  <2>7. f[x] \in Nat /\ SumFunctionOnSet(f, T \ {x}) \in Nat /\ SumFunctionOnSet(f, R) \in Nat
    BY <1>0, <2>3, <2>4
  <2> QED BY <2>1, <2>5, <2>6, <2>7
<1> QED BY <1>1

\* A sum of integers is one.
LEMMA SumInt ==
  ASSUME NEW f, NEW S, IsFiniteSet(S), \A x \in S : f[x] \in Int
  PROVE  SumFunctionOnSet(f, S) \in Int
<1>1. 0 \in Int /\ \A a, b \in Int : a + b \in Int
  OBVIOUS
<1> QED BY <1>1, SumType

\* Where no term is larger, neither is the sum.
LEMMA SumMonotone ==
  ASSUME NEW f, NEW g, NEW S, IsFiniteSet(S),
         \A x \in S : f[x] \in Int /\ g[x] \in Int /\ f[x] <= g[x]
  PROVE  SumFunctionOnSet(f, S) <= SumFunctionOnSet(g, S)
<1> DEFINE B == {T \in SUBSET S : ~(SumFunctionOnSet(f, T) <= SumFunctionOnSet(g, T))}
<1> SUFFICES ASSUME B # {}  PROVE FALSE
  OBVIOUS
<1>0. B \subseteq SUBSET S
  OBVIOUS
<1>1. PICK T \in B : IsFiniteSet(T) /\ \A U \in B : U \subseteq T => U = T
  <2> HIDE DEF B
  <2> QED BY <1>0, SmallestSubset
<1>2. T # {}
  <2>1. SumFunctionOnSet(f, {}) = 0 /\ SumFunctionOnSet(g, {}) = 0 /\ 0 <= 0
    BY SumEmpty
  <2>2. SumFunctionOnSet(f, {}) <= SumFunctionOnSet(g, {})
    BY <2>1
  <2>3. ~(SumFunctionOnSet(f, T) <= SumFunctionOnSet(g, T))
    BY <1>1
  <2> QED BY <2>2, <2>3
<1> DEFINE x == Pick(T)
           R == T \ {x}
<1>3. x \in T
  BY <1>2, PickIn
<1>4. SumFunctionOnSet(f, R) <= SumFunctionOnSet(g, R)
  BY <1>1, <1>3
<1>5. /\ SumFunctionOnSet(f, T) = f[x] + SumFunctionOnSet(f, R)
      /\ SumFunctionOnSet(g, T) = g[x] + SumFunctionOnSet(g, R)
  BY <1>1, <1>2, SumStep
<1>6. f[x] \in Int /\ g[x] \in Int /\ f[x] <= g[x]
  BY <1>1, <1>3
<1>7. SumFunctionOnSet(f, R) \in Int /\ SumFunctionOnSet(g, R) \in Int
  <2>1. IsFiniteSet(R) /\ R \subseteq S
    BY <1>1, FS_Subset
  <2> QED BY <2>1, SumInt
<1>8. ~(SumFunctionOnSet(f, T) <= SumFunctionOnSet(g, T))
  BY <1>1
<1> HIDE DEF x, R
<1> QED BY <1>4, <1>5, <1>6, <1>7, <1>8

\* A sum over two sets without a common element.
LEMMA SumDisjoint ==
  ASSUME NEW f, NEW S, IsFiniteSet(S), \A x \in S : f[x] \in Int,
         NEW R \in SUBSET S, NEW Q \in SUBSET S, R \cap Q = {}
  PROVE  /\ SumFunctionOnSet(f, R \cup Q) = SumFunctionOnSet(f, R) + SumFunctionOnSet(f, Q)
         /\ SumFunctionOnSet(f, R) \in Int /\ SumFunctionOnSet(f, Q) \in Int
<1> DEFINE B == {T \in SUBSET Q : SumFunctionOnSet(f, R \cup T)
                                    # SumFunctionOnSet(f, R) + SumFunctionOnSet(f, T)}
<1>0. ASSUME NEW T \in SUBSET S  PROVE IsFiniteSet(T) /\ SumFunctionOnSet(f, T) \in Int
  BY SumInt, FS_Subset
<1>1. ASSUME B # {}  PROVE FALSE
  <2>0. B \subseteq SUBSET Q /\ IsFiniteSet(Q)
    BY FS_Subset
  <2>1. PICK T \in B : IsFiniteSet(T) /\ \A U \in B : U \subseteq T => U = T
    <3> HIDE DEF B
    <3> QED BY <1>1, <2>0, SmallestSubset
  <2>2. T # {}
    <3>1. SumFunctionOnSet(f, R) \in Int /\ R \cup {} = R
      BY <1>0
    <3>2. SumFunctionOnSet(f, {}) = 0
      BY SumEmpty
    <3>3. SumFunctionOnSet(f, R \cup {}) = SumFunctionOnSet(f, R) + SumFunctionOnSet(f, {})
      BY <3>1, <3>2
    <3> QED BY <2>1, <3>3
  <2>3. PICK x : x \in T
    BY <2>2
  <2> DEFINE U == T \ {x}
  <2>4. SumFunctionOnSet(f, R \cup U) = SumFunctionOnSet(f, R) + SumFunctionOnSet(f, U)
    BY <2>1, <2>3
  <2>5. SumFunctionOnSet(f, T) = f[x] + SumFunctionOnSet(f, U)
    <3>1. \A y \in T : f[y] \in Int
      BY <2>1
    <3> QED BY <2>1, <2>3, <3>1, SumRemove
  <2>6. SumFunctionOnSet(f, R \cup T) = f[x] + SumFunctionOnSet(f, R \cup U)
    <3>1. IsFiniteSet(R \cup T) /\ x \in R \cup T /\ \A y \in R \cup T : f[y] \in Int
      BY <1>0, <2>1, <2>3
    <3>2. (R \cup T) \ {x} = R \cup U
      BY <2>1, <2>3
    <3> QED BY <3>1, <3>2, SumRemove
  <2>7. /\ f[x] \in Int /\ SumFunctionOnSet(f, R) \in Int
        /\ SumFunctionOnSet(f, U) \in Int
    BY <1>0, <2>1, <2>3
  <2>8. SumFunctionOnSet(f, R \cup T) # SumFunctionOnSet(f, R) + SumFunctionOnSet(f, T)
    BY <2>1
  <2> DEFINE r == SumFunctionOnSet(f, R)
             v == SumFunctionOnSet(f, U)
  <2>9. f[x] + (r + v) # r + (f[x] + v)
    BY <2>4, <2>5, <2>6, <2>8
  <2>10. r \in Int /\ v \in Int
    BY <2>7
  <2> HIDE DEF r, v
  <2> QED BY <2>7, <2>9, <2>10
<1>2. Q \notin B
  BY <1>1
<1> QED BY <1>0, <1>2

(***************************************************************************)
(* Least and greatest elements.                                            *)
(***************************************************************************)
\* A finite set of integers has a least element.
LEMMA MinOfFinite ==
  ASSUME NEW S, IsFiniteSet(S), S \subseteq Int, S # {}
  PROVE  Min(S) \in S /\ \A y \in S : Min(S) <= y
<1> DEFINE B == {T \in SUBSET S : T # {} /\ ~ \E x \in T : \A y \in T : x <= y}
<1>1. ASSUME B # {}  PROVE FALSE
  <2>0. B \subseteq SUBSET S
    OBVIOUS
  <2>1. PICK T \in B : \A U \in B : U \subseteq T => U = T
    <3> HIDE DEF B
    <3>1. B # {} /\ IsFiniteSet(S)
      BY <1>1
    <3>2. \E T \in B : IsFiniteSet(T) /\ \A U \in B : U \subseteq T => U = T
      BY ONLY <2>0, <3>1, SmallestSubset
    <3> QED BY <3>2
  <2>2. PICK x \in T : x \in Int
    BY <2>1
  <2>3. T \ {x} \notin B /\ T \ {x} \in SUBSET S
    BY <2>1, <2>2
  <2>4. T \ {x} # {}
    BY <2>1, <2>2
  <2>5. PICK z \in T \ {x} : \A y \in T \ {x} : z <= y
    BY <2>3, <2>4
  <2>6. z \in Int /\ T \subseteq Int
    BY <2>1
  <2>7. CASE x <= z
    <3>1. \A y \in T : x <= y
      BY <2>2, <2>5, <2>6, <2>7
    <3> QED BY <2>1, <2>2, <3>1
  <2>8. CASE ~(x <= z)
    <3>1. \A y \in T : z <= y
      BY <2>2, <2>5, <2>6, <2>8
    <3> QED BY <2>1, <2>5, <3>1
  <2> QED BY <2>7, <2>8
<1>2. \E x \in S : \A y \in S : x <= y
  BY <1>1
<1> QED BY <1>2 DEF Min

\* ... and a greatest one.
LEMMA MaxOfFinite ==
  ASSUME NEW S, IsFiniteSet(S), S \subseteq Int, S # {}
  PROVE  Max(S) \in S /\ \A y \in S : Max(S) >= y
<1> DEFINE N == {-x : x \in S}
<1>1. IsFiniteSet(N)
  <2>1. \A x \in S : -x \in N
    OBVIOUS
  <2> DEFINE f == [x \in S |-> -x]
  <2>2. f \in Surjection(S, N)
    BY <2>1 DEF Surjection
  <2> HIDE DEF f, N
  <2> QED BY <2>2, FS_Surjection
<1>2. N \subseteq Int /\ N # {}
  <2>1. PICK x : x \in S
    OBVIOUS
  <2>2. -x \in N
    BY <2>1
  <2>3. \A y \in S : -y \in Int
    OBVIOUS
  <2>4. N \subseteq Int
    BY <2>3
  <2> QED BY <2>2, <2>4
<1>3. PICK m \in N : \A y \in N : m <= y
  <2> HIDE DEF N
  <2> QED BY <1>1, <1>2, MinOfFinite
<1>4. PICK x \in S : m = -x
  BY <1>3
<1>5. \A y \in S : x >= y
  <2> SUFFICES ASSUME NEW y \in S  PROVE x >= y
    OBVIOUS
  <2>1. -x <= -y
    BY <1>3, <1>4
  <2>2. x \in Int /\ y \in Int
    OBVIOUS
  <2> QED BY <2>1, <2>2
<1> QED BY <1>4, <1>5 DEF Max

\* Sums over sets that differ in one element, with terms that differ there.
LEMMA SumOneChange ==
  ASSUME NEW f, NEW g, NEW S, NEW R, NEW e, IsFiniteSet(S), IsFiniteSet(R),
         \A x \in S : f[x] \in Int, \A x \in R : g[x] \in Int,
         \A x : x # e => (x \in S <=> x \in R), \A x \in S : x # e => f[x] = g[x]
  PROVE  /\ SumFunctionOnSet(f, S) \in Int /\ SumFunctionOnSet(g, R) \in Int
         /\ SumFunctionOnSet(g, R) =
              (SumFunctionOnSet(f, S) - (IF e \in S THEN f[e] ELSE 0))
                + (IF e \in R THEN g[e] ELSE 0)
<1> DEFINE D == S \ {e}
           v == SumFunctionOnSet(f, D)
<1>1. IsFiniteSet(D) /\ D = R \ {e}
  BY FS_Subset
<1>2. SumFunctionOnSet(g, D) = v
  <2>1. \A x \in D : f[x] = g[x]
    OBVIOUS
  <2> HIDE DEF D
  <2> QED BY <1>1, <2>1, SumSame
<1>3. v \in Int
  <2>1. \A x \in D : f[x] \in Int
    OBVIOUS
  <2> HIDE DEF D
  <2> QED BY <1>1, <2>1, SumInt
<1>4. SumFunctionOnSet(f, S) = v + (IF e \in S THEN f[e] ELSE 0)
  <2>1. CASE e \in S
    <3>1. SumFunctionOnSet(f, S) = f[e] + v /\ f[e] \in Int
      BY <2>1, SumRemove
    <3> HIDE DEF v
    <3> QED BY <1>3, <2>1, <3>1
  <2>2. CASE e \notin S
    <3>1. SumFunctionOnSet(f, S) = v
      <4>1. D = S
        BY <2>2
      <4> QED BY <4>1
    <3> HIDE DEF v
    <3> QED BY <1>3, <2>2, <3>1
  <2> QED BY <2>1, <2>2
<1>5. SumFunctionOnSet(g, R) = v + (IF e \in R THEN g[e] ELSE 0)
  <2>1. CASE e \in R
    <3>1. SumFunctionOnSet(g, R) = g[e] + SumFunctionOnSet(g, D) /\ g[e] \in Int
      BY <1>1, <2>1, SumRemove
    <3>2. SumFunctionOnSet(g, R) = g[e] + v
      BY <1>2, <3>1
    <3> HIDE DEF v
    <3> QED BY <1>3, <2>1, <3>1, <3>2
  <2>2. CASE e \notin R
    <3>1. SumFunctionOnSet(g, R) = v
      <4>1. D = R
        BY <1>1, <2>2
      <4> QED BY <1>2, <4>1
    <3> HIDE DEF v
    <3> QED BY <1>3, <2>2, <3>1
  <2> QED BY <2>1, <2>2
<1> DEFINE a == IF e \in S THEN f[e] ELSE 0
           b == IF e \in R THEN g[e] ELSE 0
<1>6. a \in Int /\ b \in Int
  OBVIOUS
<1>7. SumFunctionOnSet(f, S) = v + a /\ SumFunctionOnSet(g, R) = v + b
  BY <1>4, <1>5
<1> HIDE DEF v, a, b
<1>8. v + a \in Int /\ v + b \in Int /\ v + b = ((v + a) - a) + b
  BY <1>3, <1>6
<1> QED BY <1>7, <1>8 DEF a, b

(***************************************************************************)
(* Multiples.                                                              *)
(***************************************************************************)
\* What it means to leave no remainder.
LEMMA MultipleIs ==
  ASSUME NEW a \in Int, NEW p \in Nat \ {0}
  PROVE  a % p = 0 <=> \E k \in Int : a = p * k
<1>1. ASSUME a % p = 0  PROVE \E k \in Int : a = p * k
  BY <1>1
<1>2. ASSUME NEW k \in Int, a = p * k  PROVE a % p = 0
  BY <1>2
<1> QED BY <1>1, <1>2

\* Multiples may be added and subtracted.
LEMMA MultipleSum ==
  ASSUME NEW a \in Int, NEW b \in Int, NEW p \in Nat \ {0}, a % p = 0
  PROVE  b % p = 0 <=> (a + b) % p = 0
<1>1. PICK k \in Int : a = p * k
  BY MultipleIs
<1>2. ASSUME b % p = 0  PROVE (a + b) % p = 0
  <2>1. PICK j \in Int : b = p * j
    BY <1>2, MultipleIs
  <2>2. a + b = p * (k + j) /\ k + j \in Int /\ a + b \in Int
    BY <1>1, <2>1
  <2> QED BY <2>2, MultipleIs
<1>3. ASSUME (a + b) % p = 0  PROVE b % p = 0
  <2>1. PICK j \in Int : a + b = p * j
    <3>1. a + b \in Int
      OBVIOUS
    <3> QED BY <1>3, <3>1, MultipleIs
  <2>2. b = p * (j - k) /\ j - k \in Int
    BY <1>1, <2>1
  <2> QED BY <2>2, MultipleIs
<1> QED BY <1>2, <1>3

\* There is a multiple in every interval of that length.
LEMMA NextMultiple ==
  ASSUME NEW a \in Int, NEW p \in Nat \ {0}
  PROVE  \E m \in Int : a < m /\ m <= a + p /\ m % p = 0
<1> DEFINE k == a \div p
           m == p * (k + 1)
<1>1. k \in Int /\ p * k <= a /\ a < p * k + p
  OBVIOUS
<1>2. m \in Int /\ a < m /\ m <= a + p
  <2> HIDE DEF k
  <2>1. m = p * k + p /\ p * k \in Int
    BY <1>1
  <2> HIDE DEF m
  <2> QED BY <1>1, <2>1
<1>3. k + 1 \in Int
  BY <1>1
<1> HIDE DEF k
<1>4. m % p = 0
  BY <1>2, <1>3, MultipleIs
<1> QED BY <1>2, <1>4

\* Every number is in one bucket of that length: the bucket that holds it is the
\* one that division finds.
LEMMA BucketIs ==
  ASSUME NEW a \in Int, NEW b \in Int, NEW p \in Nat \ {0},
         (a \div p) * p <= b, b < (a \div p) * p + p
  PROVE  (b \div p) * p = (a \div p) * p
<1> DEFINE k == a \div p
           j == b \div p
<1>1. k \in Int /\ j \in Int /\ p * j <= b /\ b < p * j + p /\ p * k <= b /\ b < p * k + p
  OBVIOUS
<1> HIDE DEF k, j
<1>2. ~(k < j)
  <2>1. k < j => p * k + p <= p * j
    BY <1>1
  <2> QED BY <1>1, <2>1
<1>3. ~(j < k)
  <2>1. j < k => p * j + p <= p * k
    BY <1>1
  <2> QED BY <1>1, <2>1
<1>4. k = j
  BY <1>1, <1>2, <1>3
<1> QED BY <1>4 DEF k, j
==============================================================================
