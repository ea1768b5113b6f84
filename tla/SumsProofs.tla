------------------------------ MODULE SumsProofs ------------------------------
(***************************************************************************)
(* Sums over finite sets, for proofs by induction: the library's induction *)
(* theorems take the statement as an operator, but its theorem that every  *)
(* non-empty set has a minimal element under a well-founded order takes    *)
(* the set of counterexamples as a set.                                    *)
(***************************************************************************)
EXTENDS Sums, FiniteSetTheorems, TLAPS

\* Among subsets of a finite set there is a smallest one.
LEMMA Smallest ==
  ASSUME NEW S, IsFiniteSet(S), NEW T \in SUBSET SUBSET S, T # {}
  PROVE  \E m \in T : \A r \in T : r \subseteq m => r = m
<1>1. IsWellFoundedOn(StrictSubsetOrdering(S), FiniteSubsetsOf(S))
  BY FS_StrictSubsetOrderingWellFounded
<1>2. T \subseteq FiniteSubsetsOf(S)
  BY FS_FiniteSubsetsOfFinite
<1>3. PICK m \in T : \A r \in T : ~(<<r, m>> \in StrictSubsetOrdering(S))
  <2>. HIDE DEF StrictSubsetOrdering, FiniteSubsetsOf
  <2>. QED  BY <1>1, <1>2, WFMin
<1>4. ASSUME NEW r \in T, r \subseteq m
      PROVE  r = m
  BY <1>3, <1>4 DEF StrictSubsetOrdering
<1>. QED  BY <1>4

-----------------------------------------------------------------------------
(* The sum is well defined *)

Pick(r) == CHOOSE x \in r : TRUE

\* The equation of a sum over the subsets of S.
Adds(amounts, S, g) ==
  g = [r \in SUBSET S |-> IF r = {} THEN 0 ELSE amounts[Pick(r)] + g[r \ {Pick(r)}]]

\* The equation at one set.
LEMMA AddsAt ==
  ASSUME NEW f, NEW S, NEW g, Adds(f, S, g), NEW r \in SUBSET S
  PROVE  g[r] = IF r = {} THEN 0 ELSE f[Pick(r)] + g[r \ {Pick(r)}]
BY DEF Adds

LEMMA PickIn ==
  ASSUME NEW r, r # {}
  PROVE  Pick(r) \in r
BY DEF Pick

\* It has one solution at most.
LEMMA AddsOnce ==
  ASSUME NEW f, NEW S, IsFiniteSet(S), NEW W \in SUBSET S, NEW g, NEW h,
         Adds(f, S, g), Adds(f, W, h)
  PROVE  \A r \in SUBSET W : g[r] = h[r]
<1>. DEFINE T == {r \in SUBSET W : g[r] # h[r]}
<1>1. SUFFICES ASSUME T # {} PROVE FALSE
  OBVIOUS
<1>2. PICK m \in T : \A r \in T : r \subseteq m => r = m
  <2>1. T \in SUBSET SUBSET S
    OBVIOUS
  <2>. HIDE DEF T
  <2>. QED  BY <1>1, <2>1, Smallest
<1>3. m \in SUBSET W /\ m \in SUBSET S /\ g[m] # h[m]
  BY <1>2
<1>4. m # {}
  BY <1>3, AddsAt
<1>. DEFINE k == m \ {Pick(m)}
<1>5. k \in SUBSET W /\ k \subseteq m /\ k # m
  BY <1>3, <1>4, PickIn
<1>6. g[k] = h[k]
  BY <1>2, <1>5
<1>7. g[m] = f[Pick(m)] + g[k] /\ h[m] = f[Pick(m)] + h[k]
  BY <1>3, <1>4, AddsAt
<1>. QED  BY <1>3, <1>6, <1>7

\* It has one on each finite set.
LEMMA AddsExists ==
  ASSUME NEW f, NEW S, IsFiniteSet(S), \A x \in S : f[x] \in Nat
  PROVE  \E g \in [SUBSET S -> Nat] : Adds(f, S, g)
<1>. DEFINE Good(w) == \E g \in [SUBSET w -> Nat] : Adds(f, w, g)
            T == {w \in SUBSET S : ~Good(w)}
<1>1. SUFFICES ASSUME T # {} PROVE FALSE
  OBVIOUS
<1>2. PICK m \in T : \A r \in T : r \subseteq m => r = m
  <2>1. T \in SUBSET SUBSET S
    OBVIOUS
  <2>. HIDE DEF T
  <2>. QED  BY <1>1, <2>1, Smallest
<1>3. m \in SUBSET S /\ ~Good(m) /\ IsFiniteSet(m)
  BY <1>2, FS_Subset
<1>4. \A r \in SUBSET m : r # m => Good(r) /\ IsFiniteSet(r)
  BY <1>2, <1>3, FS_Subset
<1>. DEFINE sol(r) == CHOOSE g : g \in [SUBSET r -> Nat] /\ Adds(f, r, g)
            below == [r \in SUBSET m |-> sol(r)[r]]
            top == f[Pick(m)] + below[m \ {Pick(m)}]
            all == [r \in SUBSET m |->
                      IF r = {} THEN 0 ELSE IF r = m THEN top ELSE below[r]]
<1>5. \A r \in SUBSET m : r # m => sol(r) \in [SUBSET r -> Nat] /\ Adds(f, r, sol(r))
  BY <1>4
<1>6. ASSUME NEW r \in SUBSET m, r # m, r # {}
      PROVE  below[r] = f[Pick(r)] + below[r \ {Pick(r)}]
  <2>. DEFINE k == r \ {Pick(r)}
  <2>1. k \in SUBSET r /\ k \in SUBSET m /\ k # m /\ IsFiniteSet(r)
    BY <1>6, <1>4, PickIn
  <2>2. Adds(f, r, sol(r)) /\ Adds(f, k, sol(k))
    BY <1>5, <1>6, <2>1
  <2>3. sol(r)[k] = sol(k)[k]
    <3>. HIDE DEF sol, k
    <3>. QED  BY <2>1, <2>2, AddsOnce
  <2>4. sol(r)[r] = f[Pick(r)] + sol(r)[k]
    <3>. HIDE DEF sol
    <3>. QED  BY <1>6, <2>2, AddsAt
  <2>. QED  BY <2>1, <2>3, <2>4
<1>7. \A r \in SUBSET m : r # m => below[r] \in Nat
  BY <1>5
<1>8. ASSUME m # {}
      PROVE  top \in Nat
  <2>1. Pick(m) \in m /\ f[Pick(m)] \in Nat
    BY <1>3, <1>8, PickIn
  <2>2. m \ {Pick(m)} \in SUBSET m /\ m \ {Pick(m)} # m
    BY <2>1
  <2>3. below[m \ {Pick(m)}] \in Nat
    <3>. HIDE DEF below
    <3>. QED  BY <1>7, <2>2
  <2>. HIDE DEF below
  <2>. QED  BY <2>1, <2>3
<1>9. below[{}] = 0 \/ m = {}
  <2>1. CASE m # {}
    <3>1. {} \in SUBSET m /\ {} # m
      BY <2>1
    <3>2. Adds(f, {}, sol({}))
      BY <1>5, <3>1
    <3>3. sol({})[{}] = 0
      <4>. HIDE DEF sol
      <4>. QED  BY <3>2, AddsAt
    <3>. QED  BY <3>1, <3>3
  <2>. QED  BY <2>1
<1>10. all \in [SUBSET m -> Nat]
  <2>. HIDE DEF below, top
  <2>. QED  BY <1>7, <1>8
<1>11. ASSUME NEW r \in SUBSET m
       PROVE  all[r] = IF r = {} THEN 0 ELSE f[Pick(r)] + all[r \ {Pick(r)}]
  <2>1. CASE r = {}
    <3>. HIDE DEF below, top
    <3>. QED  BY <2>1
  <2>2. CASE r # {}
    <3>. DEFINE k == r \ {Pick(r)}
    <3>1. k \in SUBSET m /\ k # m
      BY <2>2, PickIn
    <3>2. all[k] = below[k]
      <4>1. all[k] = IF k = {} THEN 0 ELSE below[k]
        <5>. HIDE DEF below, top, k
        <5>. QED  BY <3>1
      <4>2. k = {} => below[k] = 0
        <5>. HIDE DEF below
        <5>. QED  BY <1>9, <2>2, <3>1
      <4>. QED  BY <4>1, <4>2
    <3>3. all[r] = IF r = m THEN top ELSE below[r]
      <4>. HIDE DEF below, top
      <4>. QED  BY <2>2
    <3>4. CASE r = m
      <4>. HIDE DEF below, all
      <4>. QED  BY <2>2, <3>2, <3>3, <3>4
    <3>5. CASE r # m
      <4>. HIDE DEF below, all, top
      <4>. QED  BY <2>2, <3>2, <3>3, <3>5, <1>6
    <3>. QED  BY <3>4, <3>5
  <2>. QED  BY <2>1, <2>2
<1>12. Adds(f, m, all)
  <2>1. all = [r \in SUBSET m |-> all[r]]
    <3>. HIDE DEF below, top
    <3>. QED  OBVIOUS
  <2>. HIDE DEF all
  <2>2. [r \in SUBSET m |-> all[r]]
          = [r \in SUBSET m |-> IF r = {} THEN 0 ELSE f[Pick(r)] + all[r \ {Pick(r)}]]
    BY <1>11
  <2>. QED  BY <2>1, <2>2 DEF Adds
<1>. HIDE DEF all
<1>. QED  BY <1>3, <1>10, <1>12

\* A sum is the value of the solution.
LEMMA TotalIs ==
  ASSUME NEW f, NEW S, IsFiniteSet(S), \A x \in S : f[x] \in Nat
  PROVE  \E g \in [SUBSET S -> Nat] : Adds(f, S, g) /\ Total(f, S) = g[S]
<1>. DEFINE iter == CHOOSE g : g = [r \in SUBSET S |->
               IF r = {} THEN 0 ELSE f[Pick(r)] + g[r \ {Pick(r)}]]
<1>1. Total(f, S) = iter[S]
  BY DEF Total, MapThenSumSet, MapThenFoldSet, Pick
<1>2. PICK g \in [SUBSET S -> Nat] : Adds(f, S, g)
  BY AddsExists
<1>3. Adds(f, S, iter)
  BY <1>2 DEF Adds
<1>4. \A r \in SUBSET S : iter[r] = g[r]
  <2>. HIDE DEF iter
  <2>. QED  BY <1>2, <1>3, AddsOnce
<1>. HIDE DEF iter
<1>. QED  BY <1>1, <1>2, <1>4

-----------------------------------------------------------------------------
(* Induction over a finite set *)

\* What holds of nothing and is kept by every further element holds of all.
LEMMA Grown ==
  ASSUME NEW S, IsFiniteSet(S), NEW T, {} \in T,
         \A r \in T \cap SUBSET S, x \in S : x \notin r => r \cup {x} \in T
  PROVE  S \in T
<1>. DEFINE L == {r \in SUBSET S : r \notin T}
<1>1. SUFFICES ASSUME L # {} PROVE FALSE
  OBVIOUS
<1>2. PICK m \in L : \A r \in L : r \subseteq m => r = m
  <2>1. L \in SUBSET SUBSET S
    OBVIOUS
  <2>. HIDE DEF L
  <2>. QED  BY <1>1, <2>1, Smallest
<1>3. m \in SUBSET S /\ m \notin T
  BY <1>2
<1>4. PICK x \in m : TRUE
  BY <1>3
<1>5. m \ {x} \in T
  <2>1. m \ {x} \notin L
    BY <1>2, <1>4
  <2>. QED  BY <1>3, <2>1
<1>6. (m \ {x}) \cup {x} = m
  BY <1>4
<1>7. (m \ {x}) \cup {x} \in T
  BY <1>3, <1>4, <1>5
<1>. QED  BY <1>3, <1>6, <1>7

-----------------------------------------------------------------------------
(* Sums *)

LEMMA TotalNothing ==
  ASSUME NEW f
  PROVE  Total(f, {}) = 0
<1>1. PICK g \in [SUBSET {} -> Nat] : Adds(f, {}, g) /\ Total(f, {}) = g[{}]
  BY TotalIs, FS_EmptySet
<1>. QED  BY <1>1, AddsAt

LEMMA TotalNat ==
  ASSUME NEW f, NEW S, IsFiniteSet(S), \A x \in S : f[x] \in Nat
  PROVE  Total(f, S) \in Nat
<1>1. PICK g \in [SUBSET S -> Nat] : Total(f, S) = g[S]
  BY TotalIs
<1>2. g[S] \in Nat
  OBVIOUS
<1>. QED  BY <1>1, <1>2

LEMMA TotalPick ==
  ASSUME NEW f, NEW S, IsFiniteSet(S), \A x \in S : f[x] \in Nat, S # {}
  PROVE  Total(f, S) = f[Pick(S)] + Total(f, S \ {Pick(S)})
<1>. DEFINE k == S \ {Pick(S)}
<1>1. IsFiniteSet(k) /\ k \in SUBSET S
  BY FS_Subset
<1>2. PICK g \in [SUBSET S -> Nat] : Adds(f, S, g) /\ Total(f, S) = g[S]
  BY TotalIs
<1>3. PICK h \in [SUBSET k -> Nat] : Adds(f, k, h) /\ Total(f, k) = h[k]
  <2>. HIDE DEF k
  <2>. QED  BY <1>1, TotalIs
<1>4. g[k] = h[k]
  <2>. HIDE DEF k
  <2>. QED  BY <1>1, <1>2, <1>3, AddsOnce
<1>5. g[S] = f[Pick(S)] + g[k]
  BY <1>2, AddsAt
<1>. QED  BY <1>2, <1>3, <1>4, <1>5

\* Any element may be taken out of a sum.
LEMMA TotalTake ==
  ASSUME NEW f, NEW S, IsFiniteSet(S), \A x \in S : f[x] \in Nat, NEW y \in S
  PROVE  Total(f, S) = f[y] + Total(f, S \ {y})
<1>. DEFINE L == {r \in SUBSET S : \E x \in r : Total(f, r) # f[x] + Total(f, r \ {x})}
<1>1. SUFFICES ASSUME L # {} PROVE FALSE
  OBVIOUS
<1>2. PICK m \in L : \A r \in L : r \subseteq m => r = m
  <2>1. L \in SUBSET SUBSET S
    OBVIOUS
  <2>. HIDE DEF L
  <2>. QED  BY <1>1, <2>1, Smallest
<1>3. m \in SUBSET S /\ IsFiniteSet(m)
  BY <1>2, FS_Subset
<1>4. PICK x \in m : Total(f, m) # f[x] + Total(f, m \ {x})
  BY <1>2
<1>. DEFINE p == Pick(m)
<1>5. p \in m /\ Total(f, m) = f[p] + Total(f, m \ {p})
  BY <1>3, <1>4, PickIn, TotalPick
<1>. HIDE DEF p
<1>6. p # x
  BY <1>4, <1>5
<1>7. m \ {p} \notin L /\ m \ {x} \notin L
  BY <1>2, <1>4, <1>5
<1>8. Total(f, m \ {p}) = f[x] + Total(f, (m \ {p}) \ {x})
  BY <1>3, <1>4, <1>6, <1>7
<1>9. Total(f, m \ {x}) = f[p] + Total(f, (m \ {x}) \ {p})
  BY <1>3, <1>5, <1>6, <1>7
<1>10. (m \ {p}) \ {x} = (m \ {x}) \ {p}
  OBVIOUS
<1>11. Total(f, (m \ {p}) \ {x}) \in Nat
  <2>1. IsFiniteSet((m \ {p}) \ {x})
    BY <1>3, FS_Subset
  <2>. QED  BY <1>3, <2>1, TotalNat
<1>12. f[x] \in Nat /\ f[p] \in Nat
  BY <1>3, <1>5
<1>13. \A a, b, c : a \in Nat /\ b \in Nat /\ c \in Nat => a + (b + c) = b + (a + c)
  OBVIOUS
<1>14. f[p] + (f[x] + Total(f, (m \ {p}) \ {x})) = f[x] + (f[p] + Total(f, (m \ {p}) \ {x}))
  BY <1>11, <1>12, <1>13
<1>. QED  BY <1>4, <1>5, <1>8, <1>9, <1>10, <1>14

\* An element may be added.
LEMMA TotalPut ==
  ASSUME NEW f, NEW S, IsFiniteSet(S), NEW y, y \notin S, \A x \in S \cup {y} : f[x] \in Nat
  PROVE  Total(f, S \cup {y}) = f[y] + Total(f, S)
<1>1. IsFiniteSet(S \cup {y})
  BY FS_AddElement
<1>2. (S \cup {y}) \ {y} = S
  OBVIOUS
<1>. QED  BY <1>1, <1>2, TotalTake

\* What is given elsewhere does not matter.
LEMMA TotalSame ==
  ASSUME NEW f, NEW h, NEW S, IsFiniteSet(S), \A x \in S : f[x] \in Nat /\ f[x] = h[x]
  PROVE  Total(f, S) = Total(h, S)
<1>. DEFINE T == {r \in SUBSET S : Total(f, r) = Total(h, r)}
<1>1. {} \in T
  BY TotalNothing
<1>2. ASSUME NEW r \in T \cap SUBSET S, NEW x \in S, x \notin r
      PROVE  r \cup {x} \in T
  <2>1. IsFiniteSet(r)
    BY FS_Subset
  <2>2. Total(f, r \cup {x}) = f[x] + Total(f, r)
    BY <1>2, <2>1, TotalPut
  <2>3. Total(h, r \cup {x}) = h[x] + Total(h, r)
    BY <1>2, <2>1, TotalPut
  <2>. QED  BY <2>2, <2>3
<1>3. S \in T
  <2>. HIDE DEF T
  <2>. QED  BY <1>1, <1>2, Grown
<1>. QED  BY <1>3

LEMMA TotalPlus ==
  ASSUME NEW f, NEW g, NEW h, NEW S, IsFiniteSet(S),
         \A x \in S : f[x] \in Nat /\ g[x] \in Nat /\ h[x] = f[x] + g[x]
  PROVE  Total(h, S) = Total(f, S) + Total(g, S)
<1>. DEFINE T == {r \in SUBSET S : Total(h, r) = Total(f, r) + Total(g, r)}
<1>1. {} \in T
  BY TotalNothing
<1>2. ASSUME NEW r \in T \cap SUBSET S, NEW x \in S, x \notin r
      PROVE  r \cup {x} \in T
  <2>1. IsFiniteSet(r)
    BY FS_Subset
  <2>2. Total(f, r \cup {x}) = f[x] + Total(f, r) /\ Total(f, r) \in Nat
    BY <1>2, <2>1, TotalPut, TotalNat
  <2>3. Total(g, r \cup {x}) = g[x] + Total(g, r) /\ Total(g, r) \in Nat
    BY <1>2, <2>1, TotalPut, TotalNat
  <2>4. Total(h, r \cup {x}) = h[x] + Total(h, r)
    <3>1. \A y \in r \cup {x} : h[y] \in Nat
      OBVIOUS
    <3>. QED  BY <1>2, <2>1, <3>1, TotalPut
  <2>. QED  BY <2>2, <2>3, <2>4
<1>3. S \in T
  <2>. HIDE DEF T
  <2>. QED  BY <1>1, <1>2, Grown
<1>. QED  BY <1>3

LEMMA TotalMore ==
  ASSUME NEW f, NEW h, NEW S, IsFiniteSet(S),
         \A x \in S : f[x] \in Nat /\ h[x] \in Nat /\ f[x] <= h[x]
  PROVE  Total(f, S) <= Total(h, S)
<1>. DEFINE T == {r \in SUBSET S : Total(f, r) <= Total(h, r)}
<1>1. {} \in T
  BY TotalNothing
<1>2. ASSUME NEW r \in T \cap SUBSET S, NEW x \in S, x \notin r
      PROVE  r \cup {x} \in T
  <2>1. IsFiniteSet(r)
    BY FS_Subset
  <2>2. Total(f, r \cup {x}) = f[x] + Total(f, r) /\ Total(f, r) \in Nat
    BY <1>2, <2>1, TotalPut, TotalNat
  <2>3. Total(h, r \cup {x}) = h[x] + Total(h, r) /\ Total(h, r) \in Nat
    BY <1>2, <2>1, TotalPut, TotalNat
  <2>. QED  BY <2>2, <2>3
<1>3. S \in T
  <2>. HIDE DEF T
  <2>. QED  BY <1>1, <1>2, Grown
<1>. QED  BY <1>3

LEMMA TotalUnion ==
  ASSUME NEW f, NEW A, IsFiniteSet(A), NEW B, IsFiniteSet(B), A \cap B = {},
         \A x \in A \cup B : f[x] \in Nat
  PROVE  Total(f, A \cup B) = Total(f, A) + Total(f, B)
<1>. DEFINE T == {r \in SUBSET B : Total(f, A \cup r) = Total(f, A) + Total(f, r)}
<1>0. Total(f, A) \in Nat
  BY TotalNat
<1>1. {} \in T
  <2>1. A \cup {} = A
    OBVIOUS
  <2>. QED  BY <1>0, <2>1, TotalNothing
<1>2. ASSUME NEW r \in T \cap SUBSET B, NEW x \in B, x \notin r
      PROVE  r \cup {x} \in T
  <2>1. IsFiniteSet(r) /\ IsFiniteSet(A \cup r)
    BY FS_Subset, FS_Union
  <2>2. Total(f, r \cup {x}) = f[x] + Total(f, r) /\ Total(f, r) \in Nat
    BY <1>2, <2>1, TotalPut, TotalNat
  <2>3. Total(f, (A \cup r) \cup {x}) = f[x] + Total(f, A \cup r)
    <3>1. x \notin A \cup r
      BY <1>2
    <3>. QED  BY <2>1, <3>1, TotalPut
  <2>4. (A \cup r) \cup {x} = A \cup (r \cup {x})
    OBVIOUS
  <2>5. f[x] \in Nat
    OBVIOUS
  <2>6. \A a, b, c : a \in Nat /\ b \in Nat /\ c \in Nat => a + (b + c) = b + (a + c)
    OBVIOUS
  <2>7. Total(f, A \cup r) = Total(f, A) + Total(f, r)
    OBVIOUS
  <2>8. f[x] + (Total(f, A) + Total(f, r)) = Total(f, A) + (f[x] + Total(f, r))
    BY <1>0, <2>2, <2>5, <2>6
  <2>9. Total(f, A \cup (r \cup {x})) = Total(f, A) + Total(f, r \cup {x})
    BY <2>2, <2>3, <2>4, <2>7, <2>8
  <2>. QED  BY <2>9
<1>3. B \in T
  <2>. HIDE DEF T
  <2>. QED  BY <1>1, <1>2, Grown
<1>. QED  BY <1>3

\* Where nothing is given, nothing is added.
LEMMA TotalZero ==
  ASSUME NEW f, NEW S, IsFiniteSet(S), \A x \in S : f[x] = 0
  PROVE  Total(f, S) = 0
<1>. DEFINE T == {r \in SUBSET S : Total(f, r) = 0}
<1>1. {} \in T
  BY TotalNothing
<1>2. ASSUME NEW r \in T \cap SUBSET S, NEW x \in S, x \notin r
      PROVE  r \cup {x} \in T
  <2>1. IsFiniteSet(r)
    BY FS_Subset
  <2>2. Total(f, r \cup {x}) = f[x] + Total(f, r)
    BY <1>2, <2>1, TotalPut
  <2>. QED  BY <2>2
<1>3. S \in T
  <2>. HIDE DEF T
  <2>. QED  BY <1>1, <1>2, Grown
<1>. QED  BY <1>3

LEMMA TotalWhere ==
  ASSUME NEW f, NEW S, IsFiniteSet(S), NEW A \in SUBSET S,
         \A x \in S : f[x] \in Nat, \A x \in S \ A : f[x] = 0
  PROVE  Total(f, S) = Total(f, A)
<1>1. IsFiniteSet(A) /\ IsFiniteSet(S \ A)
  BY FS_Subset
<1>2. Total(f, A \cup (S \ A)) = Total(f, A) + Total(f, S \ A)
  BY <1>1, TotalUnion
<1>3. A \cup (S \ A) = S
  OBVIOUS
<1>4. Total(f, S \ A) = 0
  BY <1>1, TotalZero
<1>5. Total(f, A) \in Nat
  BY <1>1, TotalNat
<1>. QED  BY <1>2, <1>3, <1>4, <1>5

\* Sums by parts: each of S belongs to its part among K.
LEMMA TotalByParts ==
  ASSUME NEW f, NEW S, IsFiniteSet(S), NEW K, IsFiniteSet(K), NEW part,
         \A x \in S : f[x] \in Nat /\ part[x] \in K
  PROVE  Total(f, S) = Total([k \in K |-> Total(f, {x \in S : part[x] = k})], K)
<1>. DEFINE Of(k) == {x \in S : part[x] = k}
            sums == [k \in K |-> Total(f, Of(k))]
            In(r) == {x \in S : part[x] \in r}
            T == {r \in SUBSET K : Total(sums, r) = Total(f, In(r))}
<1>1. \A k \in K : sums[k] \in Nat
  <2>1. \A k \in K : IsFiniteSet(Of(k))
    BY FS_Subset
  <2>2. \A k \in K : Total(f, Of(k)) \in Nat
    BY <2>1, TotalNat
  <2>. QED  BY <2>2
<1>2. {} \in T
  <2>1. In({}) = {}
    OBVIOUS
  <2>. QED  BY <2>1, TotalNothing
<1>3. ASSUME NEW r \in T \cap SUBSET K, NEW k \in K, k \notin r
      PROVE  r \cup {k} \in T
  <2>1. IsFiniteSet(r) /\ IsFiniteSet(In(r)) /\ IsFiniteSet(Of(k))
    BY FS_Subset
  <2>2. Total(sums, r \cup {k}) = sums[k] + Total(sums, r)
    <3>. HIDE DEF sums
    <3>. QED  BY <1>1, <1>3, <2>1, TotalPut
  <2>3. In(r \cup {k}) = In(r) \cup Of(k) /\ In(r) \cap Of(k) = {}
    BY <1>3
  <2>4. \A x \in In(r) \cup Of(k) : f[x] \in Nat
    OBVIOUS
  <2>5. Total(f, In(r) \cup Of(k)) = Total(f, In(r)) + Total(f, Of(k))
    <3>. HIDE DEF In, Of
    <3>. QED  BY <2>1, <2>3, <2>4, TotalUnion
  <2>6. Total(f, In(r)) \in Nat /\ Total(f, Of(k)) \in Nat
    <3>. HIDE DEF In, Of
    <3>. QED  BY <2>1, <2>4, TotalNat
  <2>7. sums[k] = Total(f, Of(k)) /\ Total(sums, r) = Total(f, In(r))
    OBVIOUS
  <2>8. Total(sums, r \cup {k}) = Total(f, In(r \cup {k}))
    <3>. HIDE DEF In, Of, sums
    <3>. QED  BY <2>2, <2>3, <2>5, <2>6, <2>7
  <2>. HIDE DEF sums, In
  <2>. QED  BY <2>8
<1>4. K \in T
  <2>. HIDE DEF T
  <2>. QED  BY <1>2, <1>3, Grown
<1>5. In(K) = S
  OBVIOUS
<1>. HIDE DEF In, sums
<1>. QED  BY <1>4, <1>5 DEF sums

-----------------------------------------------------------------------------
(* Numbers of elements *)

LEMMA CountAsTotal ==
  ASSUME NEW f, NEW S, IsFiniteSet(S), \A x \in S : f[x] = 1
  PROVE  Cardinality(S) = Total(f, S)
<1>. DEFINE T == {r \in SUBSET S : Cardinality(r) = Total(f, r)}
<1>1. {} \in T
  BY TotalNothing, FS_EmptySet
<1>2. ASSUME NEW r \in T \cap SUBSET S, NEW x \in S, x \notin r
      PROVE  r \cup {x} \in T
  <2>1. IsFiniteSet(r)
    BY FS_Subset
  <2>2. Total(f, r \cup {x}) = f[x] + Total(f, r)
    BY <1>2, <2>1, TotalPut
  <2>3. Cardinality(r \cup {x}) = Cardinality(r) + 1 /\ Cardinality(r) \in Nat
    BY <1>2, <2>1, FS_AddElement, FS_CardinalityType
  <2>. QED  BY <2>2, <2>3
<1>3. S \in T
  <2>. HIDE DEF T
  <2>. QED  BY <1>1, <1>2, Grown
<1>. QED  BY <1>3

LEMMA CountByParts ==
  ASSUME NEW S, IsFiniteSet(S), NEW K, IsFiniteSet(K), NEW part, \A x \in S : part[x] \in K
  PROVE  Cardinality(S) = Total([k \in K |-> Cardinality({x \in S : part[x] = k})], K)
<1>. DEFINE one == [x \in S |-> 1]
            Of(k) == {x \in S : part[x] = k}
<1>1. Cardinality(S) = Total(one, S)
  <2>1. \A x \in S : one[x] = 1
    OBVIOUS
  <2>. HIDE DEF one
  <2>. QED  BY <2>1, CountAsTotal
<1>2. Total(one, S) = Total([k \in K |-> Total(one, Of(k))], K)
  <2>1. \A x \in S : one[x] \in Nat /\ part[x] \in K
    OBVIOUS
  <2>. HIDE DEF one
  <2>. QED  BY <2>1, TotalByParts
<1>3. ASSUME NEW k \in K
      PROVE  Total(one, Of(k)) = Cardinality(Of(k))
  <2>1. IsFiniteSet(Of(k)) /\ \A x \in Of(k) : one[x] = 1
    BY FS_Subset
  <2>. HIDE DEF one, Of
  <2>. QED  BY <2>1, CountAsTotal
<1>4. [k \in K |-> Total(one, Of(k))] = [k \in K |-> Cardinality(Of(k))]
  <2>. HIDE DEF one, Of
  <2>. QED  BY <1>3
<1>. HIDE DEF one
<1>. QED  BY <1>1, <1>2, <1>4

LEMMA ImageFinite ==
  ASSUME NEW f, NEW S, IsFiniteSet(S)
  PROVE  IsFiniteSet({f[x] : x \in S})
<1>. DEFINE g == [x \in S |-> f[x]]
            T == {f[x] : x \in S}
<1>1. g \in Surjection(S, T)
  BY DEF Surjection
<1>2. IsFiniteSet(T)
  <2>. HIDE DEF g, T
  <2>. QED  BY <1>1, FS_Surjection
<1>. QED  BY <1>2

\* Of more, there is more.
LEMMA TotalSubset ==
  ASSUME NEW f, NEW S, IsFiniteSet(S), NEW A \in SUBSET S, \A x \in S : f[x] \in Nat
  PROVE  Total(f, A) <= Total(f, S)
<1>1. IsFiniteSet(A) /\ IsFiniteSet(S \ A)
  BY FS_Subset
<1>2. Total(f, A \cup (S \ A)) = Total(f, A) + Total(f, S \ A)
  BY <1>1, TotalUnion
<1>3. A \cup (S \ A) = S
  OBVIOUS
<1>4. Total(f, A) \in Nat /\ Total(f, S \ A) \in Nat
  BY <1>1, TotalNat
<1>5. \A a, b : a \in Nat /\ b \in Nat => a <= a + b
  OBVIOUS
<1>. QED  BY <1>2, <1>3, <1>4, <1>5

\* Numbers of two parts.
LEMMA CountTwo ==
  ASSUME NEW S, IsFiniteSet(S), NEW A, NEW B, S = A \cup B, A \cap B = {}
  PROVE  /\ Cardinality(S) = Cardinality(A) + Cardinality(B)
         /\ Cardinality(A) \in Nat /\ Cardinality(B) \in Nat
<1>1. IsFiniteSet(A) /\ IsFiniteSet(B)
  BY FS_Subset
<1>2. Cardinality(A \cup B) = Cardinality(A) + Cardinality(B) - Cardinality(A \cap B)
  BY <1>1, FS_Union
<1>3. Cardinality(A \cap B) = 0 /\ Cardinality(A) \in Nat /\ Cardinality(B) \in Nat
  BY <1>1, FS_EmptySet, FS_CardinalityType
<1>. QED  BY <1>2, <1>3

\* What is told apart is as many as what it is made of.
LEMMA CountImage ==
  ASSUME NEW g, NEW S, IsFiniteSet(S), \A x, y \in S : g[x] = g[y] => x = y
  PROVE  Cardinality({g[x] : x \in S}) = Cardinality(S)
<1>. DEFINE h == [x \in S |-> g[x]]
            T == {g[x] : x \in S}
<1>1. h \in Bijection(S, T)
  <2>1. h \in [S -> T] /\ \A t \in T : \E x \in S : h[x] = t
    OBVIOUS
  <2>2. \A x, y \in S : h[x] = h[y] => x = y
    OBVIOUS
  <2>. HIDE DEF h, T
  <2>. QED  BY <2>1, <2>2 DEF Bijection, Injection, Surjection, IsInjective
<1>2. Cardinality(S) = Cardinality(T)
  <2>. HIDE DEF h, T
  <2>. QED  BY <1>1, FS_Bijection DEF ExistsBijection
<1>. QED  BY <1>2

LEMMA TotalImage ==
  ASSUME NEW f, NEW h, NEW g, NEW S, IsFiniteSet(S), \A x, y \in S : g[x] = g[y] => x = y,
         \A x \in S : f[x] \in Nat /\ h[g[x]] = f[x]
  PROVE  Total(h, {g[x] : x \in S}) = Total(f, S)
<1>. DEFINE Of(r) == {g[x] : x \in r}
            T == {r \in SUBSET S : Total(h, Of(r)) = Total(f, r)}
<1>1. {} \in T
  <2>1. Of({}) = {}
    OBVIOUS
  <2>. QED  BY <2>1, TotalNothing
<1>2. ASSUME NEW r \in T \cap SUBSET S, NEW x \in S, x \notin r
      PROVE  r \cup {x} \in T
  <2>1. IsFiniteSet(r)
    BY FS_Subset
  <2>2. Total(f, r \cup {x}) = f[x] + Total(f, r)
    BY <1>2, <2>1, TotalPut
  <2>3. Of(r \cup {x}) = Of(r) \cup {g[x]} /\ g[x] \notin Of(r)
    BY <1>2
  <2>4. IsFiniteSet(Of(r))
    BY <2>1, ImageFinite
  <2>5. \A z \in Of(r) \cup {g[x]} : h[z] \in Nat
    OBVIOUS
  <2>6. Total(h, Of(r) \cup {g[x]}) = h[g[x]] + Total(h, Of(r))
    <3>. HIDE DEF Of
    <3>. QED  BY <2>3, <2>4, <2>5, TotalPut
  <2>7. Total(h, Of(r)) = Total(f, r) /\ h[g[x]] = f[x]
    OBVIOUS
  <2>8. Total(h, Of(r \cup {x})) = Total(f, r \cup {x})
    <3>. HIDE DEF Of
    <3>. QED  BY <2>2, <2>3, <2>6, <2>7
  <2>. QED  BY <2>8
<1>3. S \in T
  <2>. HIDE DEF T
  <2>. QED  BY <1>1, <1>2, Grown
<1>. QED  BY <1>3

\* One table by rows and by columns, and sums of its rows.
Transposed(row, column, A, B) == \A a \in A, b \in B : row[a][b] \in Nat /\ row[a][b] = column[b][a]
SumEach(rows, row, A, B) == \A a \in A : rows[a] = Total(row[a], B)

\* Sums of sums, in either order.
LEMMA TotalSwap ==
  ASSUME NEW A, IsFiniteSet(A), NEW B, IsFiniteSet(B), NEW row, NEW column, Transposed(row, column, A, B),
         NEW rows, SumEach(rows, row, A, B), NEW columns, SumEach(columns, column, B, A)
  PROVE  Total(rows, A) = Total(columns, B)
<1>. USE DEF Transposed, SumEach
<1>. DEFINE partly(S) == [b \in B |-> Total(column[b], S)]
            T == {S \in SUBSET A : Total(rows, S) = Total(partly(S), B)}
<1>1. \A a \in A : rows[a] \in Nat
  <2>. SUFFICES ASSUME NEW a \in A PROVE rows[a] \in Nat
    OBVIOUS
  <2>. DEFINE f == row[a]
  <2>1. \A b \in B : f[b] \in Nat
    OBVIOUS
  <2>. HIDE DEF f
  <2>2. Total(f, B) \in Nat
    BY <2>1, TotalNat
  <2>. QED  BY <2>2 DEF f
<1>2. \A S \in SUBSET A : IsFiniteSet(S)
  BY FS_Subset
<1>3. ASSUME NEW S \in SUBSET A, NEW b \in B
      PROVE  Total(column[b], S) \in Nat
  <2>. DEFINE f == column[b]
  <2>1. \A a \in S : f[a] \in Nat
    OBVIOUS
  <2>. HIDE DEF f
  <2>2. Total(f, S) \in Nat
    BY <1>2, <2>1, TotalNat
  <2>. QED  BY <2>2 DEF f
<1>4. {} \in T
  <2>1. \A b \in B : partly({})[b] = 0
    BY TotalNothing
  <2>. HIDE DEF partly
  <2>. QED  BY <2>1, TotalNothing, TotalZero
<1>5. ASSUME NEW S \in T \cap SUBSET A, NEW a \in A, a \notin S
      PROVE  S \cup {a} \in T
  <2>. DEFINE new == partly(S \cup {a})
              old == partly(S)
              f == row[a]
  <2>1. Total(rows, S \cup {a}) = rows[a] + Total(rows, S)
    <3>1. \A x \in S \cup {a} : rows[x] \in Nat
      BY <1>1
    <3>. QED  BY <1>2, <1>5, <3>1, TotalPut
  <2>2. ASSUME NEW b \in B
        PROVE  old[b] \in Nat /\ f[b] \in Nat /\ new[b] = f[b] + old[b]
    <3>. DEFINE g == column[b]
    <3>1. \A x \in S \cup {a} : g[x] \in Nat
      OBVIOUS
    <3>2. new[b] = Total(g, S \cup {a}) /\ old[b] = Total(g, S) /\ f[b] = g[a] /\ f[b] \in Nat
      OBVIOUS
    <3>3. old[b] \in Nat
      BY <1>3
    <3>. HIDE DEF g, new, old, f
    <3>4. Total(g, S \cup {a}) = g[a] + Total(g, S)
      BY <1>2, <1>5, <3>1, TotalPut
    <3>. QED  BY <3>2, <3>3, <3>4
  <2>3. rows[a] = Total(f, B) /\ Total(rows, S) = Total(old, B)
    OBVIOUS
  <2>. HIDE DEF new, old, f
  <2>4. Total(new, B) = Total(f, B) + Total(old, B)
    BY <2>2, TotalPlus
  <2>5. Total(rows, S \cup {a}) = Total(new, B)
    BY <2>1, <2>3, <2>4
  <2>. QED  BY <2>5 DEF new
<1>6. A \in T
  <2>. HIDE DEF T
  <2>. QED  BY <1>4, <1>5, Grown
<1>7. Total(partly(A), B) = Total(columns, B)
  <2>1. \A b \in B : partly(A)[b] \in Nat /\ partly(A)[b] = columns[b]
    BY <1>3
  <2>. HIDE DEF partly
  <2>. QED  BY <2>1, TotalSame
<1>. HIDE DEF partly
<1>. QED  BY <1>6, <1>7

=============================================================================
