-------------------------------- MODULE Sums --------------------------------
(* Sums over finite sets: of a function's values, and of the amounts of
   outputs.

   The folds of the community modules pick the elements of a set one by one.
   That the order they pick them in does not matter is shown once, here, from
   a set that is minimal among those where it would; the rest are the laws of
   a sum: of a union, of a difference, of one element, of a family of sets,
   and of two functions added.                                             *)
EXTENDS FiniteSetsExt, FiniteSetTheorems, WellFoundedInduction, TLAPS

LEMMA MinimalSubset ==
  ASSUME NEW S, IsFiniteSet(S), NEW B, B \subseteq SUBSET S, B # {}
  PROVE  \E s \in B : \A t \in B : ~(t \subseteq s /\ t # s)
<1>1. IsWellFoundedOn(StrictSubsetOrdering(S), FiniteSubsetsOf(S))
  BY FS_StrictSubsetOrderingWellFounded
<1>2. B \subseteq FiniteSubsetsOf(S)
  BY FS_FiniteSubsetsOfFinite
<1>3. PICK s \in B : \A t \in B : <<t, s>> \notin StrictSubsetOrdering(S)
  BY <1>1, <1>2, WFMin
<1>4. \A t \in B : t \subseteq s /\ t # s => <<t, s>> \in StrictSubsetOrdering(S)
  BY DEF StrictSubsetOrdering
<1>5. \A t \in B : ~(t \subseteq s /\ t # s)
  BY <1>3, <1>4
<1> QED BY <1>5

-----------------------------------------------------------------------------
Pick(s) == CHOOSE x \in s : TRUE
Rest(s) == s \ {Pick(s)}

\* g adds up w over every subset of S, one picked element at a time.
Adds(g, w, S) ==
  g = [s \in SUBSET S |-> IF s = {} THEN 0 ELSE w[Pick(s)] + g[Rest(s)]]

LEMMA PickRest ==
  ASSUME NEW s, s # {}
  PROVE  Pick(s) \in s /\ Rest(s) \subseteq s /\ Rest(s) # s
<1>1. Pick(s) \in s
  BY Zenon DEF Pick
<1> QED BY <1>1 DEF Rest

LEMMA AddsValue ==
  ASSUME NEW S, NEW w, NEW g, Adds(g, w, S)
  PROVE  /\ g[{}] = 0
         /\ \A s \in SUBSET S : s # {} => g[s] = w[Pick(s)] + g[Rest(s)]
<1> DEFINE F == [s \in SUBSET S |-> IF s = {} THEN 0 ELSE w[Pick(s)] + g[Rest(s)]]
<1>1. g = F
  BY DEF Adds
<1>2. /\ F[{}] = 0
      /\ \A s \in SUBSET S : s # {} => F[s] = w[Pick(s)] + g[Rest(s)]
  OBVIOUS
<1> QED BY <1>1, <1>2

LEMMA AddsAgree ==
  ASSUME NEW S, IsFiniteSet(S), NEW T, T \subseteq S, NEW w, NEW v,
         \A x \in T : w[x] = v[x],
         NEW g, Adds(g, w, S), NEW h, Adds(h, v, T)
  PROVE  \A s \in SUBSET T : g[s] = h[s]
<1> DEFINE B == {s \in SUBSET T : g[s] # h[s]}
<1>1. SUFFICES ASSUME B # {} PROVE FALSE
  OBVIOUS
<1>2. B \subseteq SUBSET S
  OBVIOUS
<1>3. PICK s \in B : \A t \in B : ~(t \subseteq s /\ t # s)
  <2> HIDE DEF B
  <2> QED BY <1>1, <1>2, MinimalSubset
<1>4. s \in SUBSET T /\ s \in SUBSET S /\ g[s] # h[s]
  BY <1>3
<1>5. s # {}
  BY <1>4, AddsValue
<1>6. Pick(s) \in s /\ Rest(s) \subseteq s /\ Rest(s) # s
  BY <1>5, PickRest
<1>7. g[Rest(s)] = h[Rest(s)]
  BY <1>3, <1>4, <1>6
<1>8. g[s] = w[Pick(s)] + g[Rest(s)] /\ h[s] = v[Pick(s)] + h[Rest(s)]
  BY <1>4, <1>5, AddsValue
<1>9. w[Pick(s)] = v[Pick(s)]
  BY <1>4, <1>6
<1> QED BY <1>4, <1>7, <1>8, <1>9

LEMMA AddsWithin ==
  ASSUME NEW S, IsFiniteSet(S), NEW T, T \subseteq S, NEW w,
         NEW g, Adds(g, w, S), NEW h, Adds(h, w, T)
  PROVE  \A s \in SUBSET T : g[s] = h[s]
<1> DEFINE v == w
<1>1. (\A x \in T : w[x] = v[x]) /\ Adds(h, v, T)
  OBVIOUS
<1> HIDE DEF v
<1> QED BY <1>1, AddsAgree

LEMMA AddsExists ==
  ASSUME NEW S, IsFiniteSet(S), NEW w
  PROVE  \E g : Adds(g, w, S)
<1> DEFINE B == {s \in SUBSET S : ~ \E g : Adds(g, w, s)}
<1>1. SUFFICES ASSUME B # {} PROVE FALSE
  OBVIOUS
<1>2. PICK s \in B : \A t \in B : ~(t \subseteq s /\ t # s)
  <2> HIDE DEF B
  <2>1. B \subseteq SUBSET S
    BY DEF B
  <2> QED BY <1>1, <2>1, MinimalSubset
<1>3. s \in SUBSET S /\ ~ \E g : Adds(g, w, s)
  BY <1>2
<1>4. \A t \in SUBSET s : t # s => \E g : Adds(g, w, t)
  BY <1>2, <1>3
<1>5. \A t \in SUBSET s : IsFiniteSet(t)
  BY <1>3, FS_Subset
<1> HIDE DEF B
<1> DEFINE H(t) == CHOOSE g : Adds(g, w, t)
           V(t) == IF t = {} THEN 0 ELSE w[Pick(t)] + H(Rest(t))[Rest(t)]
           f == [t \in SUBSET s |-> V(t)]
<1>6. ASSUME NEW t \in SUBSET s, t # s
      PROVE  Adds(H(t), w, t)
  BY <1>4, <1>6, Zenon
<1>7. ASSUME NEW t \in SUBSET s, t # s
      PROVE  V(t) = H(t)[t]
  <2>1. Adds(H(t), w, t)
    BY <1>6, <1>7
  <2>2. CASE t = {}
    <3>1. H(t)[{}] = 0
      BY <2>1, AddsValue
    <3> QED BY <2>2, <3>1
  <2>3. CASE t # {}
    <3>1. Rest(t) \subseteq t /\ Rest(t) # t /\ Rest(t) \in SUBSET s /\ Rest(t) # s
      BY <2>3, PickRest
    <3>2. Adds(H(Rest(t)), w, Rest(t))
      BY <3>1, <1>6
    <3> HIDE DEF H
    <3>3. H(t)[t] = w[Pick(t)] + H(t)[Rest(t)]
      BY <2>1, <2>3, AddsValue
    <3>4. \A g, h : Adds(g, w, t) /\ Adds(h, w, Rest(t)) => g[Rest(t)] = h[Rest(t)]
      <4> SUFFICES ASSUME NEW g, NEW h, Adds(g, w, t), Adds(h, w, Rest(t))
                   PROVE  g[Rest(t)] = h[Rest(t)]
        OBVIOUS
      <4> DEFINE r == Rest(t)
      <4>1. IsFiniteSet(t) /\ r \subseteq t /\ Adds(h, w, r)
        BY <1>5, <3>1
      <4> HIDE DEF r
      <4>2. \A u \in SUBSET r : g[u] = h[u]
        BY <4>1, AddsWithin
      <4> QED BY <4>2 DEF r
    <3>5. H(t)[Rest(t)] = H(Rest(t))[Rest(t)]
      BY <2>1, <3>2, <3>4, Zenon
    <3> QED BY <2>3, <3>3, <3>5
  <2> QED BY <2>2, <2>3
<1> HIDE DEF H
<1>8. \A t \in SUBSET s : V(t) = IF t = {} THEN 0 ELSE w[Pick(t)] + f[Rest(t)]
  <2> SUFFICES ASSUME NEW t \in SUBSET s, t # {}
               PROVE  H(Rest(t))[Rest(t)] = f[Rest(t)]
    OBVIOUS
  <2>1. Rest(t) \in SUBSET s /\ Rest(t) # s
    BY PickRest
  <2>2. V(Rest(t)) = H(Rest(t))[Rest(t)]
    BY <1>7, <2>1
  <2> QED BY <2>1, <2>2
<1>9. f = [t \in SUBSET s |-> IF t = {} THEN 0 ELSE w[Pick(t)] + f[Rest(t)]]
  <2> HIDE DEF V
  <2> QED BY <1>8
<1>10. Adds(f, w, s)
  <2> HIDE DEF f
  <2> QED BY <1>9 DEF Adds
<1> QED BY <1>3, <1>10

LEMMA SumChosen ==
  ASSUME NEW S, IsFiniteSet(S), NEW w
  PROVE  \E g : Adds(g, w, S) /\ SumFunctionOnSet(w, S) = g[S]
<1>1. SumFunctionOnSet(w, S) = (CHOOSE g : Adds(g, w, S))[S]
  BY Zenon DEF SumFunctionOnSet, FoldFunctionOnSet, MapThenFoldSet, Adds, Pick, Rest
<1>2. Adds(CHOOSE g : Adds(g, w, S), w, S)
  BY AddsExists, Zenon
<1> QED BY <1>1, <1>2

-----------------------------------------------------------------------------
(* Sums of the integers w gives to the elements of a finite set. *)
Total(w, S) == SumFunctionOnSet(w, S)

\* g[s] is w[x] more than the sum without x, whichever x is.
Peels(g, w, s) == g[s] \in Int /\ \A x \in s : g[s] = w[x] + g[s \ {x}]

\* However the elements are picked, each of them is added once.
LEMMA AddsAnyOrder ==
  ASSUME NEW S, IsFiniteSet(S), NEW w, \A x \in S : w[x] \in Int,
         NEW g, Adds(g, w, S)
  PROVE  \A s \in SUBSET S : Peels(g, w, s)
<1> DEFINE Good(s) == g[s] \in Int /\ \A x \in s : g[s] = w[x] + g[s \ {x}]
           B == {s \in SUBSET S : ~Good(s)}
<1>1. SUFFICES ASSUME B # {} PROVE FALSE
  BY DEF Peels
<1>2. PICK s \in B : \A t \in B : ~(t \subseteq s /\ t # s)
  <2> HIDE DEF B
  <2>1. B \subseteq SUBSET S
    BY DEF B
  <2> QED BY <1>1, <2>1, MinimalSubset
<1>3. s \in SUBSET S /\ ~Good(s)
  BY <1>2
<1>4. \A t \in SUBSET s : t # s => Good(t)
  BY <1>2, <1>3
<1>5. s # {}
  <2> SUFFICES ASSUME s = {} PROVE FALSE
    OBVIOUS
  <2>1. g[{}] = 0
    BY AddsValue
  <2> QED BY <1>3, <2>1
<1> HIDE DEF B
<1> DEFINE p == Pick(s)
<1>6. p \in s /\ Rest(s) = s \ {p} /\ Rest(s) \in SUBSET s /\ Rest(s) # s
  BY <1>5, PickRest DEF Rest
<1>7. g[s] = w[p] + g[s \ {p}]
  <2>1. g[s] = w[p] + g[Rest(s)]
    BY <1>3, <1>5, AddsValue
  <2> QED BY <2>1, <1>6
<1> HIDE DEF p
<1>8. Good(s \ {p})
  BY <1>4, <1>6
<1>9. w[p] \in Int /\ g[s \ {p}] \in Int
  BY <1>3, <1>6, <1>8
<1>10. g[s] \in Int
  BY <1>7, <1>9
<1>11. ASSUME NEW x \in s, x # p
       PROVE  g[s] = w[x] + g[s \ {x}]
  <2>1. g[s \ {p}] = w[x] + g[(s \ {p}) \ {x}]
    BY <1>8, <1>11
  <2>2. Good(s \ {x})
    BY <1>4
  <2>3. g[s \ {x}] = w[p] + g[(s \ {x}) \ {p}]
    BY <2>2, <1>6, <1>11
  <2>4. (s \ {p}) \ {x} = (s \ {x}) \ {p}
    OBVIOUS
  <2>5. Good((s \ {x}) \ {p})
    <3>1. (s \ {x}) \ {p} \in SUBSET s /\ (s \ {x}) \ {p} # s
      BY <1>6
    <3> QED BY <3>1, <1>4
  <2>6. g[(s \ {x}) \ {p}] \in Int /\ w[x] \in Int
    BY <2>5, <1>3
  <2>7. \A a, b, c \in Int : a + (b + c) = b + (a + c)
    OBVIOUS
  <2> HIDE DEF Good
  <2>8. g[s] = w[p] + (w[x] + g[(s \ {x}) \ {p}])
    BY <1>7, <2>1, <2>4, Zenon
  <2>9. g[s] = w[x] + (w[p] + g[(s \ {x}) \ {p}])
    BY <1>9, <2>6, <2>7, <2>8, Zenon
  <2> QED BY <2>3, <2>9, Zenon
<1> QED BY <1>3, <1>7, <1>10, <1>11

LEMMA AddsWhole ==
  ASSUME NEW S, IsFiniteSet(S), NEW w, \A x \in S : w[x] \in Int,
         NEW g, Adds(g, w, S)
  PROVE  Peels(g, w, S)
BY AddsAnyOrder

LEMMA TotalEmpty == ASSUME NEW w PROVE Total(w, {}) = 0
<1>1. IsFiniteSet({})
  BY FS_EmptySet
<1>2. PICK g : Adds(g, w, {}) /\ Total(w, {}) = g[{}]
  BY <1>1, SumChosen DEF Total
<1> QED BY <1>2, AddsValue

\* What the sum is does not depend on weights outside the set.
LEMMA TotalSame ==
  ASSUME NEW S, IsFiniteSet(S), NEW w, NEW v, \A x \in S : w[x] = v[x]
  PROVE  Total(w, S) = Total(v, S)
<1>1. PICK g : Adds(g, w, S) /\ Total(w, S) = g[S]
  BY SumChosen DEF Total
<1>2. PICK h : Adds(h, v, S) /\ Total(v, S) = h[S]
  BY SumChosen DEF Total
<1>3. \A s \in SUBSET S : g[s] = h[s]
  BY <1>1, <1>2, AddsAgree
<1> QED BY <1>1, <1>2, <1>3

LEMMA TotalInt ==
  ASSUME NEW S, IsFiniteSet(S), NEW w, \A x \in S : w[x] \in Int
  PROVE  Total(w, S) \in Int
<1>1. PICK g : Adds(g, w, S) /\ Total(w, S) = g[S]
  BY SumChosen DEF Total
<1> QED BY <1>1, AddsWhole DEF Peels

LEMMA TotalRemove ==
  ASSUME NEW S, IsFiniteSet(S), NEW w, \A x \in S : w[x] \in Int, NEW x \in S
  PROVE  Total(w, S) = w[x] + Total(w, S \ {x})
<1>1. PICK g : Adds(g, w, S) /\ Total(w, S) = g[S]
  BY SumChosen DEF Total
<1>2. IsFiniteSet(S \ {x})
  BY FS_Subset
<1>3. PICK h : Adds(h, w, S \ {x}) /\ Total(w, S \ {x}) = h[S \ {x}]
  BY <1>2, SumChosen DEF Total
<1>4. \A s \in SUBSET (S \ {x}) : g[s] = h[s]
  <2> DEFINE T == S \ {x}
  <2>1. T \subseteq S /\ Adds(h, w, T)
    BY <1>3
  <2> HIDE DEF T
  <2>2. \A s \in SUBSET T : g[s] = h[s]
    BY <1>1, <2>1, AddsWithin
  <2> QED BY <2>2 DEF T
<1>5. g[S] = w[x] + g[S \ {x}]
  <2>1. Peels(g, w, S)
    BY <1>1, AddsWhole
  <2> QED BY <2>1 DEF Peels
<1>6. g[S \ {x}] = h[S \ {x}]
  BY <1>4
<1> QED BY <1>1, <1>3, <1>5, <1>6

\* A property of every subset of a finite set may be shown by adding one
\* element at a time: what has it is bad, what it is for.
LEMMA FirstBad ==
  ASSUME NEW S, IsFiniteSet(S), NEW B, B \subseteq SUBSET S, B # {}, {} \notin B
  PROVE  \E s \in B : \E x \in s :
           s \ {x} \in SUBSET S /\ s \ {x} \notin B /\ x \in S
                                /\ IsFiniteSet(s) /\ IsFiniteSet(s \ {x})
<1>1. PICK s \in B : \A t \in B : ~(t \subseteq s /\ t # s)
  BY MinimalSubset
<1>2. s # {} /\ s \subseteq S
  OBVIOUS
<1>3. PICK x \in s : TRUE
  BY <1>2
<1>4. s \ {x} \subseteq s /\ s \ {x} # s /\ s \ {x} \subseteq S
  BY <1>2
<1>5. s \ {x} \notin B
  BY <1>1, <1>4
<1>6. IsFiniteSet(s) /\ IsFiniteSet(s \ {x})
  BY <1>2, <1>4, FS_Subset
<1> QED BY <1>2, <1>4, <1>5, <1>6

LEMMA TotalAdd ==
  ASSUME NEW S, IsFiniteSet(S), NEW w, NEW x, x \notin S,
         \A y \in S \cup {x} : w[y] \in Int
  PROVE  Total(w, S \cup {x}) = w[x] + Total(w, S)
<1> DEFINE T == S \cup {x}
<1>1. IsFiniteSet(T) /\ x \in T /\ T \ {x} = S
  BY FS_AddElement
<1>2. Total(w, T) = w[x] + Total(w, T \ {x})
  <2>1. \A y \in T : w[y] \in Int
    OBVIOUS
  <2> HIDE DEF T
  <2> QED BY <1>1, <2>1, TotalRemove
<1> QED BY <1>1, <1>2

LEMMA TotalNat ==
  ASSUME NEW S, IsFiniteSet(S), NEW w, \A x \in S : w[x] \in Nat
  PROVE  Total(w, S) \in Nat
<1> DEFINE B == {s \in SUBSET S : Total(w, s) \notin Nat}
<1>1. {} \notin B
  BY TotalEmpty
<1>2. SUFFICES ASSUME B # {} PROVE FALSE
  OBVIOUS
<1>3. PICK s \in B : \E x \in s :
           s \ {x} \in SUBSET S /\ s \ {x} \notin B /\ x \in S
                                /\ IsFiniteSet(s) /\ IsFiniteSet(s \ {x})
  <2>1. B \subseteq SUBSET S
    OBVIOUS
  <2> HIDE DEF B
  <2> QED BY <1>1, <1>2, <2>1, FirstBad, Zenon
<1>4. PICK x \in s :
           s \ {x} \in SUBSET S /\ s \ {x} \notin B /\ x \in S
                                /\ IsFiniteSet(s) /\ IsFiniteSet(s \ {x})
  BY <1>3
<1>5. Total(w, s \ {x}) \in Nat
  BY <1>4
<1>6. Total(w, s) = w[x] + Total(w, s \ {x})
  BY <1>4, TotalRemove
<1> QED BY <1>4, <1>5, <1>6

LEMMA TotalUnion ==
  ASSUME NEW S, IsFiniteSet(S), NEW T, IsFiniteSet(T), S \cap T = {},
         NEW w, \A x \in S \cup T : w[x] \in Int
  PROVE  Total(w, S \cup T) = Total(w, S) + Total(w, T)
<1> DEFINE B == {s \in SUBSET T : Total(w, S \cup s) # Total(w, S) + Total(w, s)}
<1>1. {} \notin B
  <2>1. S \cup {} = S /\ Total(w, S) \in Int
    BY TotalInt
  <2> QED BY <2>1, TotalEmpty
<1>2. SUFFICES ASSUME B # {} PROVE FALSE
  OBVIOUS
<1>3. PICK s \in B : \E x \in s :
           s \ {x} \in SUBSET T /\ s \ {x} \notin B /\ x \in T
                                /\ IsFiniteSet(s) /\ IsFiniteSet(s \ {x})
  <2>1. B \subseteq SUBSET T
    OBVIOUS
  <2> HIDE DEF B
  <2> QED BY <1>1, <1>2, <2>1, FirstBad, Zenon
<1>4. PICK x \in s :
           s \ {x} \in SUBSET T /\ s \ {x} \notin B /\ x \in T
                                /\ IsFiniteSet(s) /\ IsFiniteSet(s \ {x})
  BY <1>3
<1> DEFINE r == s \ {x}
<1>5. Total(w, S \cup r) = Total(w, S) + Total(w, r)
  BY <1>4
<1>6. Total(w, s) = w[x] + Total(w, r)
  BY <1>4, TotalRemove
<1>7. Total(w, S \cup s) = w[x] + Total(w, S \cup r)
  <2> DEFINE V == S \cup r
  <2>1. IsFiniteSet(V) /\ x \notin V /\ V \cup {x} = S \cup s
    BY <1>4, FS_Union
  <2>2. \A y \in V \cup {x} : w[y] \in Int
    BY <1>4
  <2> HIDE DEF V
  <2>3. Total(w, V \cup {x}) = w[x] + Total(w, V)
    BY <2>1, <2>2, TotalAdd
  <2> QED BY <2>1, <2>3 DEF V
<1>8. w[x] \in Int /\ Total(w, r) \in Int /\ Total(w, S) \in Int
  <2>1. \A y \in r : w[y] \in Int
    BY <1>4
  <2>2. IsFiniteSet(r)
    BY <1>4
  <2> HIDE DEF r
  <2> QED BY <1>4, <2>1, <2>2, TotalInt
<1>9. Total(w, S \cup s) # Total(w, S) + Total(w, s)
  BY <1>3
<1> HIDE DEF r, B
<1> QED BY <1>5, <1>6, <1>7, <1>8, <1>9

LEMMA TotalMonotone ==
  ASSUME NEW S, IsFiniteSet(S), NEW w, NEW v,
         \A x \in S : w[x] \in Int /\ v[x] \in Int /\ w[x] <= v[x]
  PROVE  Total(w, S) <= Total(v, S)
<1> DEFINE B == {s \in SUBSET S : ~(Total(w, s) <= Total(v, s))}
<1>1. {} \notin B
  BY TotalEmpty
<1>2. SUFFICES ASSUME B # {} PROVE FALSE
  OBVIOUS
<1>3. PICK s \in B : \E x \in s :
           s \ {x} \in SUBSET S /\ s \ {x} \notin B /\ x \in S
                                /\ IsFiniteSet(s) /\ IsFiniteSet(s \ {x})
  <2>1. B \subseteq SUBSET S
    OBVIOUS
  <2> HIDE DEF B
  <2> QED BY <1>1, <1>2, <2>1, FirstBad, Zenon
<1>4. PICK x \in s :
           s \ {x} \in SUBSET S /\ s \ {x} \notin B /\ x \in S
                                /\ IsFiniteSet(s) /\ IsFiniteSet(s \ {x})
  BY <1>3
<1>5. Total(w, s \ {x}) <= Total(v, s \ {x})
  BY <1>4
<1>6. \A y \in s : w[y] \in Int /\ v[y] \in Int
  BY <1>3
<1>7. Total(w, s) = w[x] + Total(w, s \ {x}) /\ Total(v, s) = v[x] + Total(v, s \ {x})
  BY <1>4, <1>6, TotalRemove
<1>8. Total(w, s \ {x}) \in Int /\ Total(v, s \ {x}) \in Int
  <2> DEFINE r == s \ {x}
  <2>1. IsFiniteSet(r) /\ \A y \in r : w[y] \in Int /\ v[y] \in Int
    BY <1>4, <1>6
  <2> HIDE DEF r
  <2>2. Total(w, r) \in Int
    BY <2>1, TotalInt
  <2>3. Total(v, r) \in Int
    BY <2>1, TotalInt
  <2> QED BY <2>2, <2>3 DEF r
<1>9. ~(Total(w, s) <= Total(v, s)) /\ w[x] <= v[x] /\ w[x] \in Int /\ v[x] \in Int
  BY <1>3, <1>4
<1> HIDE DEF B
<1> QED BY <1>5, <1>7, <1>8, <1>9

LEMMA TotalSubset ==
  ASSUME NEW S, IsFiniteSet(S), NEW T, T \subseteq S,
         NEW w, \A x \in S : w[x] \in Nat
  PROVE  Total(w, T) \in Nat /\ Total(w, T) <= Total(w, S)
<1> DEFINE R == S \ T
<1>1. IsFiniteSet(T) /\ IsFiniteSet(R) /\ T \cap R = {} /\ T \cup R = S
  BY FS_Subset
<1>2. \A x \in R : w[x] \in Nat
  OBVIOUS
<1> HIDE DEF R
<1>3. Total(w, T) \in Nat /\ Total(w, R) \in Nat
  BY <1>1, <1>2, TotalNat
<1>4. Total(w, T \cup R) = Total(w, T) + Total(w, R)
  BY <1>1, <1>2, TotalUnion
<1>5. Total(w, S) = Total(w, T) + Total(w, R)
  BY <1>1, <1>4, Zenon
<1> QED BY <1>3, <1>5

\* One weight changes.
LEMMA TotalChange ==
  ASSUME NEW S, IsFiniteSet(S), NEW w, NEW v, NEW x \in S,
         \A y \in S : w[y] \in Int /\ v[y] \in Int,
         \A y \in S \ {x} : w[y] = v[y]
  PROVE  Total(v, S) = Total(w, S) + (v[x] - w[x])
<1> DEFINE R == S \ {x}
<1>1. Total(w, S) = w[x] + Total(w, R) /\ Total(v, S) = v[x] + Total(v, R)
  BY TotalRemove
<1>2. IsFiniteSet(R) /\ \A y \in R : w[y] \in Int
  BY FS_Subset
<1>3. \A y \in R : w[y] = v[y]
  OBVIOUS
<1> HIDE DEF R
<1>4. Total(w, R) \in Int /\ Total(w, R) = Total(v, R)
  BY <1>2, <1>3, TotalInt, TotalSame
<1> QED BY <1>1, <1>4

LEMMA TotalZero ==
  ASSUME NEW S, IsFiniteSet(S), NEW w, \A x \in S : w[x] = 0
  PROVE  Total(w, S) = 0
<1> DEFINE B == {s \in SUBSET S : Total(w, s) # 0}
<1>1. {} \notin B
  BY TotalEmpty
<1>2. SUFFICES ASSUME B # {} PROVE FALSE
  OBVIOUS
<1>3. PICK s \in B : \E x \in s :
           s \ {x} \in SUBSET S /\ s \ {x} \notin B /\ x \in S
                                /\ IsFiniteSet(s) /\ IsFiniteSet(s \ {x})
  <2>1. B \subseteq SUBSET S
    OBVIOUS
  <2> HIDE DEF B
  <2> QED BY <1>1, <1>2, <2>1, FirstBad, Zenon
<1>4. PICK x \in s :
           s \ {x} \in SUBSET S /\ s \ {x} \notin B /\ x \in S
                                /\ IsFiniteSet(s) /\ IsFiniteSet(s \ {x})
  BY <1>3
<1>5. Total(w, s \ {x}) = 0
  BY <1>4
<1>6. \A y \in s : w[y] \in Int
  BY <1>3
<1>7. Total(w, s) = w[x] + Total(w, s \ {x})
  BY <1>4, <1>6, TotalRemove
<1> QED BY <1>3, <1>4, <1>5, <1>7

\* The sum of a sum.
LEMMA TotalPlus ==
  ASSUME NEW S, IsFiniteSet(S), NEW w, NEW v, NEW z,
         \A x \in S : w[x] \in Int /\ v[x] \in Int /\ z[x] = w[x] + v[x]
  PROVE  Total(z, S) = Total(w, S) + Total(v, S)
<1> DEFINE B == {s \in SUBSET S : ~(Total(z, s) = Total(w, s) + Total(v, s))}
<1>1. {} \notin B
  BY TotalEmpty
<1>2. SUFFICES ASSUME B # {} PROVE FALSE
  OBVIOUS
<1>3. PICK s \in B : \E x \in s :
           s \ {x} \in SUBSET S /\ s \ {x} \notin B /\ x \in S
                                /\ IsFiniteSet(s) /\ IsFiniteSet(s \ {x})
  <2>1. B \subseteq SUBSET S
    OBVIOUS
  <2> HIDE DEF B
  <2> QED BY <1>1, <1>2, <2>1, FirstBad, Zenon
<1>4. PICK x \in s :
           s \ {x} \in SUBSET S /\ s \ {x} \notin B /\ x \in S
                                /\ IsFiniteSet(s) /\ IsFiniteSet(s \ {x})
  BY <1>3
<1>5. Total(z, s \ {x}) = Total(w, s \ {x}) + Total(v, s \ {x})
  BY <1>4
<1>6. \A y \in s : w[y] \in Int /\ v[y] \in Int /\ z[y] \in Int
  BY <1>3
<1>7. /\ Total(z, s) = z[x] + Total(z, s \ {x})
      /\ Total(w, s) = w[x] + Total(w, s \ {x})
      /\ Total(v, s) = v[x] + Total(v, s \ {x})
  BY <1>4, <1>6, TotalRemove
<1>8. Total(w, s \ {x}) \in Int /\ Total(v, s \ {x}) \in Int
  <2> DEFINE r == s \ {x}
  <2>1. IsFiniteSet(r) /\ \A y \in r : w[y] \in Int /\ v[y] \in Int
    BY <1>4, <1>6
  <2> HIDE DEF r
  <2>2. Total(w, r) \in Int
    BY <2>1, TotalInt
  <2>3. Total(v, r) \in Int
    BY <2>1, TotalInt
  <2> QED BY <2>2, <2>3 DEF r
<1>9. /\ ~(Total(z, s) = Total(w, s) + Total(v, s))
      /\ z[x] = w[x] + v[x] /\ w[x] \in Int /\ v[x] \in Int
  BY <1>3, <1>4
<1> HIDE DEF B
<1> QED BY <1>5, <1>7, <1>8, <1>9

\* What the sets of a family add up to, if they have nothing in common.
Flat(F, D) == UNION {F[c] : c \in D}

Apart(F, D) == \A c, d \in D : c # d => F[c] \cap F[d] = {}

Adding(F, w, z, D) ==
  \A c \in D : /\ IsFiniteSet(F[c])
               /\ \A x \in F[c] : w[x] \in Int
               /\ z[c] = Total(w, F[c])

LEMMA TotalFlat ==
  ASSUME NEW C, IsFiniteSet(C), NEW F, NEW w, NEW z,
         \A c \in C : /\ IsFiniteSet(F[c])
                      /\ \A x \in F[c] : w[x] \in Int
                      /\ z[c] = Total(w, F[c]),
         \A c, d \in C : c # d => F[c] \cap F[d] = {}
  PROVE  IsFiniteSet(Flat(F, C)) /\ Total(w, Flat(F, C)) = Total(z, C)
<1> DEFINE Good(s) == IsFiniteSet(Flat(F, s)) /\ Total(w, Flat(F, s)) = Total(z, s)
           B == {s \in SUBSET C : ~Good(s)}
<1>1. {} \notin B
  <2>1. Flat(F, {}) = {}
    BY DEF Flat
  <2>2. IsFiniteSet({}) /\ Total(w, {}) = 0 /\ Total(z, {}) = 0
    BY FS_EmptySet, TotalEmpty
  <2> QED BY <2>1, <2>2
<1>2. SUFFICES ASSUME B # {} PROVE FALSE
  <2>1. C \in SUBSET C
    OBVIOUS
  <2> QED BY <1>2, <2>1
<1>3. PICK s \in B : \E x \in s :
           s \ {x} \in SUBSET C /\ s \ {x} \notin B /\ x \in C
                                /\ IsFiniteSet(s) /\ IsFiniteSet(s \ {x})
  <2>1. B \subseteq SUBSET C
    OBVIOUS
  <2> HIDE DEF B
  <2> QED BY <1>1, <1>2, <2>1, FirstBad, Zenon
<1>4. PICK x \in s :
           s \ {x} \in SUBSET C /\ s \ {x} \notin B /\ x \in C
                                /\ IsFiniteSet(s) /\ IsFiniteSet(s \ {x})
  BY <1>3
<1>5. s \in SUBSET C /\ ~Good(s)
  BY <1>3
<1> DEFINE r == s \ {x}
           R == Flat(F, r)
<1>6. IsFiniteSet(R) /\ Total(w, R) = Total(z, r) /\ r \in SUBSET C
  BY <1>4
<1>7. Flat(F, s) = R \cup F[x]
  BY <1>4 DEF Flat
<1>8. R \cap F[x] = {}
  <2>1. \A c \in r : c \in C /\ c # x /\ F[c] \cap F[x] = {}
    BY <1>4, <1>5
  <2> QED BY <2>1 DEF Flat
<1>9. IsFiniteSet(F[x]) /\ z[x] = Total(w, F[x])
  BY <1>4
<1>10. \A y \in R \cup F[x] : w[y] \in Int
  BY <1>4, <1>6 DEF Flat
<1>11. \A c \in s : z[c] \in Int
  BY <1>5, TotalInt
<1>12. Total(z, s) = z[x] + Total(z, r)
  BY <1>4, <1>11, TotalRemove
<1>13. Total(z, r) \in Int /\ z[x] \in Int
  <2>1. IsFiniteSet(r) /\ \A c \in r : z[c] \in Int
    BY <1>4, <1>11
  <2> HIDE DEF r
  <2> QED BY <1>4, <1>11, <2>1, TotalInt
<1> HIDE DEF R, r, B
<1>14. Total(w, R \cup F[x]) = Total(w, R) + Total(w, F[x])
  BY <1>6, <1>8, <1>9, <1>10, TotalUnion
<1>15. IsFiniteSet(R \cup F[x])
  BY <1>6, <1>9, FS_Union
<1> QED BY <1>5, <1>6, <1>7, <1>9, <1>12, <1>13, <1>14, <1>15

-----------------------------------------------------------------------------
(* What outputs are worth: the sum of their amounts. *)

Tokens(S) == MapThenSumSet(LAMBDA c : c.amount, S)

Values(S) == [c \in S |-> c.amount]

AddsCoins(g, S) ==
  g = [s \in SUBSET S |-> IF s = {} THEN 0 ELSE Pick(s).amount + g[Rest(s)]]

LEMMA AddsCoinsIs ==
  ASSUME NEW S, NEW g
  PROVE  AddsCoins(g, S) <=> Adds(g, Values(S), S)
<1>1. \A s \in SUBSET S : s # {} => Values(S)[Pick(s)] = Pick(s).amount
  <2> SUFFICES ASSUME NEW s \in SUBSET S, s # {}
               PROVE  Values(S)[Pick(s)] = Pick(s).amount
    OBVIOUS
  <2>1. Pick(s) \in S
    BY PickRest
  <2> QED BY <2>1 DEF Values
<1> DEFINE f == [s \in SUBSET S |-> IF s = {} THEN 0 ELSE Pick(s).amount + g[Rest(s)]]
           h == [s \in SUBSET S |-> IF s = {} THEN 0 ELSE Values(S)[Pick(s)] + g[Rest(s)]]
<1>2. f = h
  BY <1>1
<1> QED BY <1>2 DEF AddsCoins, Adds

LEMMA TokensIs ==
  ASSUME NEW S, IsFiniteSet(S)
  PROVE  Tokens(S) = Total(Values(S), S)
<1>1. Tokens(S) = (CHOOSE g : AddsCoins(g, S))[S]
  BY Zenon DEF Tokens, MapThenSumSet, MapThenFoldSet, AddsCoins, Pick, Rest
<1>2. \E g : AddsCoins(g, S)
  BY AddsExists, AddsCoinsIs
<1>3. PICK g : AddsCoins(g, S) /\ Tokens(S) = g[S]
  BY <1>1, <1>2, Zenon
<1>4. Adds(g, Values(S), S)
  BY <1>3, AddsCoinsIs
<1>5. PICK h : Adds(h, Values(S), S) /\ Total(Values(S), S) = h[S]
  BY SumChosen DEF Total
<1>6. \A s \in SUBSET S : g[s] = h[s]
  BY <1>4, <1>5, AddsWithin
<1> QED BY <1>3, <1>5, <1>6

LEMMA TokensWithin ==
  ASSUME NEW S, IsFiniteSet(S), NEW T, T \subseteq S
  PROVE  Tokens(T) = Total(Values(S), T)
<1>1. IsFiniteSet(T)
  BY FS_Subset
<1>2. \A c \in T : Values(T)[c] = Values(S)[c]
  BY DEF Values
<1>3. Total(Values(T), T) = Total(Values(S), T)
  BY <1>1, <1>2, TotalSame
<1> QED BY <1>1, <1>3, TokensIs

LEMMA TokensEmpty == Tokens({}) = 0
<1>1. IsFiniteSet({})
  BY FS_EmptySet
<1> QED BY <1>1, TokensIs, TotalEmpty

LEMMA TokensNat ==
  ASSUME NEW S, IsFiniteSet(S), \A c \in S : c.amount \in Nat
  PROVE  Tokens(S) \in Nat
<1>1. \A c \in S : Values(S)[c] \in Nat
  BY DEF Values
<1>2. Total(Values(S), S) \in Nat
  BY <1>1, TotalNat
<1> QED BY <1>2, TokensIs

LEMMA TokensUnion ==
  ASSUME NEW S, IsFiniteSet(S), NEW T, IsFiniteSet(T), S \cap T = {},
         \A c \in S \cup T : c.amount \in Nat
  PROVE  Tokens(S \cup T) = Tokens(S) + Tokens(T)
<1> DEFINE U == S \cup T
<1>1. IsFiniteSet(U) /\ S \subseteq U /\ T \subseteq U
  BY FS_Union
<1>2. \A c \in U : Values(U)[c] \in Int
  BY DEF Values
<1>3. Tokens(S) = Total(Values(U), S)
  <2> HIDE DEF U
  <2> QED BY <1>1, TokensWithin
<1>4. Tokens(T) = Total(Values(U), T)
  <2> HIDE DEF U
  <2> QED BY <1>1, TokensWithin
<1>5. Tokens(U) = Total(Values(U), U)
  <2> HIDE DEF U
  <2> QED BY <1>1, TokensIs
<1>6. \A v : (\A c \in U : v[c] \in Int) => Total(v, U) = Total(v, S) + Total(v, T)
  BY TotalUnion
<1>7. Total(Values(U), U) = Total(Values(U), S) + Total(Values(U), T)
  <2> HIDE DEF U
  <2> QED BY <1>2, <1>6
<1> QED BY <1>3, <1>4, <1>5, <1>7

LEMMA TokensSubset ==
  ASSUME NEW S, IsFiniteSet(S), NEW T, T \subseteq S, \A c \in S : c.amount \in Nat
  PROVE  /\ Tokens(S) \in Nat /\ Tokens(T) \in Nat /\ Tokens(S \ T) \in Nat
         /\ Tokens(S) = Tokens(T) + Tokens(S \ T)
<1> DEFINE R == S \ T
<1>1. IsFiniteSet(T) /\ IsFiniteSet(R) /\ T \cap R = {} /\ T \cup R = S
  BY FS_Subset
<1>2. \A c \in T \cup R : c.amount \in Nat
  OBVIOUS
<1> HIDE DEF R
<1>3. Tokens(T \cup R) = Tokens(T) + Tokens(R)
  BY <1>1, <1>2, TokensUnion
<1>4. Tokens(S) = Tokens(T) + Tokens(R)
  BY <1>1, <1>3, Zenon
<1>5. Tokens(S) \in Nat /\ Tokens(T) \in Nat /\ Tokens(R) \in Nat
  <2>1. Tokens(T) \in Nat
    BY <1>1, <1>2, TokensNat
  <2>2. Tokens(R) \in Nat
    BY <1>1, <1>2, TokensNat
  <2> QED BY <2>1, <2>2, TokensNat
<1> QED BY <1>4, <1>5 DEF R

LEMMA TokensSingle ==
  ASSUME NEW c, c.amount \in Nat
  PROVE  Tokens({c}) = c.amount
<1> DEFINE S == {c}
<1>1. IsFiniteSet(S) /\ c \in S /\ S \ {c} = {}
  BY FS_Singleton
<1>2. \A d \in S : Values(S)[d] \in Int
  BY DEF Values
<1>3. Values(S)[c] = c.amount
  BY DEF Values
<1> HIDE DEF S
<1>4. Total(Values(S), S) = Values(S)[c] + Total(Values(S), S \ {c})
  BY <1>1, <1>2, TotalRemove
<1>5. Total(Values(S), S \ {c}) = 0
  BY <1>1, TotalEmpty
<1>6. Tokens(S) = c.amount
  BY <1>1, <1>3, <1>4, <1>5, TokensIs
<1> QED BY <1>6 DEF S

LEMMA TotalApart ==
  ASSUME NEW C, IsFiniteSet(C), NEW F, NEW w, NEW z, Adding(F, w, z, C), Apart(F, C)
  PROVE  IsFiniteSet(Flat(F, C)) /\ Total(w, Flat(F, C)) = Total(z, C)
<1>1. \A c \in C : /\ IsFiniteSet(F[c])
                   /\ \A x \in F[c] : w[x] \in Int
                   /\ z[c] = Total(w, F[c])
  BY Zenon DEF Adding
<1>2. \A c, d \in C : c # d => F[c] \cap F[d] = {}
  BY Zenon DEF Apart
<1> QED BY <1>1, <1>2, TotalFlat

LEMMA TokensFlat ==
  ASSUME NEW C, IsFiniteSet(C), NEW F, NEW z,
         \A c \in C : /\ IsFiniteSet(F[c])
                      /\ \A x \in F[c] : x.amount \in Int
                      /\ z[c] = Tokens(F[c]),
         \A c, d \in C : c # d => F[c] \cap F[d] = {}
  PROVE  IsFiniteSet(Flat(F, C)) /\ Tokens(Flat(F, C)) = Total(z, C)
<1> DEFINE S == Flat(F, C)
           w == Values(S)
           v == [c \in C |-> Total(w, F[c])]
<1>1. \A c \in C : F[c] \subseteq S
  BY DEF Flat
<1>2. \A c \in C : \A x \in F[c] : w[x] = x.amount
  BY <1>1 DEF Values
<1>3. \A c \in C : v[c] = Total(w, F[c])
  OBVIOUS
<1> HIDE DEF S, w, v
<1>4. \A c \in C : /\ IsFiniteSet(F[c])
                   /\ \A x \in F[c] : w[x] \in Int
                   /\ v[c] = Total(w, F[c])
  BY <1>2, <1>3
<1>5. IsFiniteSet(Flat(F, C)) /\ Total(w, Flat(F, C)) = Total(v, C)
  <2>1. Adding(F, w, v, C)
    BY <1>4 DEF Adding
  <2>2. Apart(F, C)
    BY DEF Apart
  <2> QED BY <2>1, <2>2, TotalApart, Zenon
<1>6. \A c \in C : v[c] = z[c]
  <2> SUFFICES ASSUME NEW c \in C PROVE v[c] = z[c]
    OBVIOUS
  <2>1. F[c] \subseteq S /\ IsFiniteSet(S)
    BY <1>1, <1>5 DEF S
  <2>2. Tokens(F[c]) = Total(Values(S), F[c])
    BY <2>1, TokensWithin
  <2> QED BY <1>3, <2>2 DEF w
<1>7. Total(v, C) = Total(z, C)
  BY <1>6, TotalSame
<1>8. Tokens(S) = Total(w, S)
  BY <1>5, TokensIs DEF w, S
<1> QED BY <1>5, <1>7, <1>8 DEF S
=============================================================================
