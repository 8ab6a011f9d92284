-------------------------- MODULE SequencersProofs --------------------------
(* Proofs about the registry and the pickers, for any sequencers, fees and
   number of senders.

   A pick walks the list from the picker's position, wrapping around; that it
   does not come back to where it was is arithmetic modulo the length.  For
   round-robin the invariant has to know more than the property says: the
   first sequencers of the last picks lie behind the picker's position, one
   after the other.                                                         *)
EXTENDS Sequencers, FiniteSetTheorems, TLAPS

-----------------------------------------------------------------------------
(* Positions in a list of length L. *)

LEMMA ModRange ==
  ASSUME NEW L \in Nat \ {0}, NEW a \in Nat
  PROVE  a % L \in 0 .. (L - 1)
OBVIOUS

LEMMA ModSmall ==
  ASSUME NEW L \in Nat \ {0}, NEW a \in 0 .. (L - 1)
  PROVE  a % L = a
OBVIOUS

LEMMA ModWrap ==
  ASSUME NEW L \in Nat \ {0}
  PROVE  L % L = 0
OBVIOUS

\* Positions less than a round apart differ.
LEMMA ModWindow ==
  ASSUME NEW L \in Nat \ {0}, NEW a \in Nat, NEW b \in Nat, a < b, b - a < L
  PROVE  a % L # b % L
<1>1. a = (L * (a \div L)) + (a % L) /\ b = (L * (b \div L)) + (b % L)
  OBVIOUS
<1>2. a \div L \in Int /\ b \div L \in Int
  OBVIOUS
<1>3. SUFFICES ASSUME a % L = b % L PROVE FALSE
  OBVIOUS
<1> DEFINE d == (b \div L) - (a \div L)
<1>4. d \in Int /\ b - a = L * d
  BY <1>1, <1>2, <1>3
<1> HIDE DEF d
<1>5. CASE d <= 0
  <2>1. L * d <= 0
    BY <1>4, <1>5
  <2> QED BY <1>4, <2>1
<1>6. CASE d >= 1
  <2>1. L * d >= L
    BY <1>4, <1>6
  <2> QED BY <1>4, <2>1
<1> QED BY <1>4, <1>5, <1>6

-----------------------------------------------------------------------------
(* The inductive invariant. *)

RegistryOK ==
  \A i, j \in DOMAIN registry : i # j => registry[i].chain # registry[j].chain

\* The index d places before p, around the end of the list.
Behind(p, d) == IF p > d THEN p - d ELSE p - d + Len(registry)

\* The first sequencers of a sender's last picks lie behind its position.
InARow(s) ==
  /\ Len(firsts[s]) <= Len(registry)
  /\ firsts[s] # <<>> => nextIdx[s] \in 1 .. Len(registry)
  /\ \A k \in 1 .. Len(firsts[s]) :
       firsts[s][k] = registry[Behind(nextIdx[s], Len(firsts[s]) - k)].chain

SeqIInv ==
  /\ SeqTypeOK /\ RegistryOK /\ DistinctTargets
  /\ strategy = "next" => \A s \in Senders : InARow(s)

LEMMA SeqInitStep == SeqInit => SeqIInv
<1> SUFFICES ASSUME SeqInit PROVE SeqIInv
  OBVIOUS
<1>1. SeqTypeOK
  BY SequencersAssumption DEF SeqInit, SeqTypeOK
<1>2. RegistryOK /\ DistinctTargets
  BY DEF SeqInit, RegistryOK, DistinctTargets
<1>3. \A s \in Senders : InARow(s)
  BY DEF SeqInit, InARow
<1> QED BY <1>1, <1>2, <1>3 DEF SeqIInv

\* What a refresh lists: each sequencer once, with a fee.
LEMMA ListedWell ==
  ASSUME NEW n \in NodeStates, NEW r \in Listings(Listed(n))
  PROVE  /\ r \in Seq(Info)
         /\ \A i, j \in DOMAIN r : i # j => r[i].chain # r[j].chain
<1> DEFINE known == {d \in DOMAIN n : n[d] # NoData}
           f == [c \in known |-> [chain |-> c, fee |-> ListedFee(n[c])]]
<1>1. PICK C \in SUBSET Chains : n \in [C -> NodeFees \cup {NoData}]
  BY DEF NodeStates
<1>2. known \subseteq Chains /\ \A c \in known : ListedFee(n[c]) \in Nat \ {0}
  <2>1. DOMAIN n = C /\ \A c \in C : n[c] \in NodeFees \cup {NoData}
    BY <1>1
  <2>2. ASSUME NEW c \in known PROVE ListedFee(n[c]) \in Nat \ {0}
    <3>1. n[c] \in Nat
      BY <2>1, SequencersAssumption
    <3> QED BY <3>1 DEF ListedFee
  <2> QED BY <2>1, <2>2
<1>3. Listed(n) \subseteq Info
  <2>1. \A e \in Listed(n) : \E c \in known : e = [chain |-> c, fee |-> ListedFee(n[c])]
    BY DEF Listed
  <2> HIDE DEF known
  <2>2. ASSUME NEW e \in Listed(n) PROVE e \in Info
    <3>1. PICK c \in known : e = [chain |-> c, fee |-> ListedFee(n[c])]
      BY <2>1, <2>2
    <3>2. c \in Chains /\ ListedFee(n[c]) \in Nat \ {0}
      BY <1>2, <3>1
    <3> QED BY <3>1, <3>2 DEF Info
  <2> QED BY <2>2
<1>4. \A d, e \in Listed(n) : d.chain = e.chain => d = e
  BY DEF Listed
<1>5. Cardinality(Listed(n)) \in Nat
  <2>1. IsFiniteSet(known)
    BY <1>2, SequencersAssumption, FS_Subset
  <2>2. f \in Surjection(known, Listed(n))
    <3>1. Listed(n) = {[chain |-> c, fee |-> ListedFee(n[c])] : c \in known}
      BY DEF Listed
    <3>2. f \in [known -> Listed(n)] /\ \A e \in Listed(n) : \E c \in known : f[c] = e
      BY <3>1
    <3> QED BY <3>2 DEF Surjection
  <2>3. IsFiniteSet(Listed(n))
    BY <2>1, <2>2, FS_Surjection
  <2> QED BY <2>3, FS_CardinalityType
<1>6. /\ r \in [1 .. Cardinality(Listed(n)) -> Listed(n)]
      /\ \A i, j \in 1 .. Cardinality(Listed(n)) : i # j => r[i] # r[j]
  BY DEF Listings, SetToSeqs
<1>7. r \in Seq(Info)
  BY <1>3, <1>5, <1>6
<1> QED BY <1>3, <1>4, <1>6, <1>7

LEMMA RefreshStep == SeqIInv /\ Refresh => SeqIInv'
<1> SUFFICES ASSUME SeqIInv, Refresh PROVE SeqIInv'
  OBVIOUS
<1> USE DEF SeqIInv
<1>1. PICK n \in NodeStates : registry' \in Listings(Listed(n))
  BY DEF Refresh
<1>2. registry' \in Seq(Info) /\ RegistryOK'
  <2>1. SUFFICES ASSUME NEW r, r = registry'
                 PROVE  r \in Seq(Info) /\ RegistryOK'
    OBVIOUS
  <2>2. r \in Listings(Listed(n))
    BY <1>1, <2>1
  <2>3. /\ r \in Seq(Info)
        /\ \A i, j \in DOMAIN r : i # j => r[i].chain # r[j].chain
    BY <2>2, ListedWell
  <2> QED BY <2>1, <2>3 DEF RegistryOK
<1>3. SeqTypeOK'
  BY <1>2 DEF Refresh, config, SeqTypeOK
<1>4. DistinctTargets'
  BY DEF Refresh, DistinctTargets
<1>5. \A s \in Senders : InARow(s)'
  BY <1>2 DEF Refresh, InARow
<1> QED BY <1>2, <1>3, <1>4, <1>5

-----------------------------------------------------------------------------
(* Picks. *)

LEMMA AtListed ==
  ASSUME SeqIInv, registry # <<>>, NEW i \in Nat
  PROVE  /\ (i % Len(registry)) + 1 \in DOMAIN registry
         /\ At(i) \in Info
<1>1. registry \in Seq(Info) /\ Len(registry) \in Nat \ {0}
  BY DEF SeqIInv, SeqTypeOK
<1>2. i % Len(registry) \in 0 .. (Len(registry) - 1)
  BY <1>1, ModRange
<1>3. (i % Len(registry)) + 1 \in 1 .. Len(registry)
  BY <1>1, <1>2
<1> QED BY <1>1, <1>3 DEF At

\* A pick that starts where the picker stands extends the run by one.
LEMMA RememberStep ==
  ASSUME SeqIInv, registry # <<>>, NEW s \in Senders, NEW start \in Nat,
         UNCHANGED <<config, registry>>,
         firsts' = [firsts EXCEPT ![s] = Remember(s, At(start))],
         strategy = "next" => /\ start = nextIdx[s]
                              /\ nextIdx' = [nextIdx EXCEPT ![s] = Advance(start)]
  PROVE  /\ firsts' \in [Senders -> Seq(Chains)]
         /\ strategy' = "next" => \A q \in Senders : InARow(q)'
<1> DEFINE L == Len(registry)
           p == Advance(start)
           h == firsts[s]
           g == Append(h, At(start).chain)
<1>1. /\ registry \in Seq(Info) /\ L \in Nat \ {0}
      /\ nextIdx \in [Senders -> Nat] /\ firsts \in [Senders -> Seq(Chains)]
  BY DEF SeqIInv, SeqTypeOK
<1>2. /\ p \in 1 .. L /\ At(start) = registry[p] /\ At(start).chain \in Chains
  <2>1. (start % L) + 1 \in DOMAIN registry /\ At(start) \in Info
    BY AtListed
  <2>2. DOMAIN registry = 1 .. L
    BY <1>1
  <2> QED BY <2>1, <2>2 DEF Advance, At, Info
<1>3. /\ h \in Seq(Chains) /\ g \in Seq(Chains) /\ Len(g) = Len(h) + 1
      /\ g[Len(h) + 1] = registry[p].chain
      /\ \A k \in 1 .. Len(h) : g[k] = h[k]
  BY <1>1, <1>2
<1>4. /\ Tail(g) \in Seq(Chains) /\ Len(Tail(g)) = Len(h)
      /\ \A k \in 1 .. Len(h) : Tail(g)[k] = g[k + 1]
  <2> HIDE DEF g, h
  <2>1. Len(h) \in Nat /\ g # <<>>
    BY <1>3
  <2>2. Tail(g) \in Seq(Chains) /\ Len(Tail(g)) = Len(g) - 1
    BY <1>3, <2>1
  <2> QED BY <1>3, <2>1, <2>2
<1>5. firsts'[s] = IF Len(g) > L THEN Tail(g) ELSE g
  BY <1>1 DEF Remember
<1>6. firsts' \in [Senders -> Seq(Chains)]
  BY <1>1, <1>3, <1>4, <1>5
<1>7. ASSUME strategy' = "next", NEW q \in Senders
      PROVE  InARow(q)'
  <2>1. /\ strategy = "next" /\ start = nextIdx[s] /\ nextIdx'[s] = p
        /\ InARow(s) /\ InARow(q)
    BY <1>1, <1>7 DEF SeqIInv, config
  <2>2. CASE q # s
    <3>1. nextIdx'[q] = nextIdx[q] /\ firsts'[q] = firsts[q] /\ registry' = registry
      BY <1>1, <2>1, <2>2
    <3>2. InARow(q)' <=> InARow(q)
      BY <3>1 DEF InARow, Behind
    <3> QED BY <2>1, <3>2
  <2>3. CASE q = s
    <3>1. /\ Len(h) <= L
          /\ h # <<>> => start \in 1 .. L
          /\ \A k \in 1 .. Len(h) : h[k] = registry[Behind(start, Len(h) - k)].chain
      BY <2>1 DEF InARow
    <3>2. \A k \in 1 .. Len(h) :
            Behind(p, (Len(h) + 1) - k) = Behind(start, Len(h) - k) \/ Len(h) + 1 - k = L
      <4>1. SUFFICES ASSUME NEW k \in 1 .. Len(h), Len(h) + 1 - k # L
                     PROVE  Behind(p, (Len(h) + 1) - k) = Behind(start, Len(h) - k)
        OBVIOUS
      <4>2. start \in 1 .. L
        BY <1>1, <1>3, <3>1
      <4>3. CASE start = L
        <5>1. p = 1
          BY <1>1, <4>3, ModWrap DEF Advance
        <5> QED BY <1>1, <1>3, <3>1, <4>1, <4>3, <5>1 DEF Behind
      <4>4. CASE start < L
        <5>1. start % L = start
          BY <1>1, <4>2, <4>4, ModSmall
        <5>2. p = start + 1
          BY <5>1 DEF Advance
        <5> QED BY <1>1, <1>3, <3>1, <4>1, <4>4, <5>2 DEF Behind
      <4> QED BY <4>2, <4>3, <4>4, <1>1
    <3>3. \A k \in 1 .. Len(g) :
            Len(g) - k # L => g[k] = registry[Behind(p, Len(g) - k)].chain
      <4>1. SUFFICES ASSUME NEW k \in 1 .. Len(g), Len(g) - k # L
                     PROVE  g[k] = registry[Behind(p, Len(g) - k)].chain
        OBVIOUS
      <4>2. CASE k = Len(g)
        <5>1. Behind(p, Len(g) - k) = p
          BY <1>2, <1>3, <1>1, <4>2 DEF Behind
        <5> QED BY <1>3, <4>2, <5>1
      <4>3. CASE k \in 1 .. Len(h)
        <5>1. Len(g) - k = (Len(h) + 1) - k /\ g[k] = h[k]
          BY <1>3, <4>3
        <5>2. Behind(p, Len(g) - k) = Behind(start, Len(h) - k)
          BY <3>2, <4>1, <4>3, <5>1
        <5> QED BY <3>1, <4>3, <5>1, <5>2
      <4> QED BY <1>3, <4>2, <4>3
    <3> DEFINE new == IF Len(g) > L THEN Tail(g) ELSE g
    <3>4. /\ Len(new) <= L
          /\ \A k \in 1 .. Len(new) : new[k] = registry[Behind(p, Len(new) - k)].chain
      <4>1. CASE Len(g) > L
        <5>1. new = Tail(g) /\ Len(h) = L
          BY <1>1, <1>3, <3>1, <4>1
        <5>2. \A k \in 1 .. L : new[k] = g[k + 1] /\ k + 1 \in 1 .. Len(g)
          BY <1>1, <1>3, <1>4, <5>1
        <5>3. \A k \in 1 .. L : Len(g) - (k + 1) = L - k /\ L - k # L
          BY <1>1, <1>3, <5>1
        <5> HIDE DEF g, p
        <5>4. ASSUME NEW k \in 1 .. L
              PROVE  new[k] = registry[Behind(p, L - k)].chain
          BY <3>3, <5>2, <5>3, <5>4
        <5>5. Len(new) = L
          BY <1>4, <5>1
        <5> HIDE DEF new, L
        <5> QED BY <5>4, <5>5, <1>1
      <4>2. CASE Len(g) <= L
        <5>1. new = g
          BY <1>1, <1>3, <4>2
        <5>2. \A k \in 1 .. Len(g) : Len(g) - k # L
          BY <1>1, <1>3, <4>2
        <5> QED BY <3>3, <4>2, <5>1, <5>2
      <4>3. Len(g) \in Nat /\ L \in Nat
        BY <1>1, <1>3
      <4> HIDE DEF new, g, p, L
      <4> QED BY <4>1, <4>2, <4>3
    <3>5. firsts'[s] = new /\ nextIdx'[s] = p /\ registry' = registry
      BY <1>5, <2>1
    <3> HIDE DEF new, p
    <3>6. (Len(firsts[s]) <= Len(registry))'
      BY <3>4, <3>5
    <3>7. (firsts[s] # <<>> => nextIdx[s] \in 1 .. Len(registry))'
      BY <1>2, <3>5
    <3>8. \A k \in 1 .. Len(firsts'[s]) :
            firsts'[s][k] = registry'[Behind(p, Len(firsts'[s]) - k)].chain
      BY <3>4, <3>5
    <3>9. InARow(s)'
      <4>1. (\A k \in 1 .. Len(firsts[s]) :
              firsts[s][k] = registry[Behind(nextIdx[s], Len(firsts[s]) - k)].chain)'
        BY <3>5, <3>8 DEF Behind
      <4> QED BY <3>6, <3>7, <4>1 DEF InARow
    <3> QED BY <2>3, <3>9
  <2> QED BY <2>2, <2>3
<1> QED BY <1>6, <1>7

\* The positions a pick may start from.
Starts(s) == IF strategy = "random" THEN 0 .. (Len(registry) - 1) ELSE {nextIdx[s]}

LEMMA StartType ==
  ASSUME SeqIInv, registry # <<>>, NEW s \in Senders, NEW start \in Starts(s)
  PROVE  /\ start \in Nat
         /\ Advance(start) \in Nat
         /\ strategy = "next" => start = nextIdx[s]
<1>1. /\ Len(registry) \in Nat \ {0} /\ nextIdx[s] \in Nat
  BY DEF SeqIInv, SeqTypeOK
<1>2. start \in Nat /\ (strategy = "next" => start = nextIdx[s])
  BY <1>1 DEF Starts
<1>3. start % Len(registry) \in 0 .. (Len(registry) - 1)
  BY <1>1, <1>2, ModRange
<1> QED BY <1>1, <1>2, <1>3 DEF Advance

LEMMA PickNextStep ==
  ASSUME SeqIInv, NEW s \in Senders, PickNext(s)
  PROVE  SeqIInv'
<1>1. PICK i \in Starts(s) :
        /\ picked' = [picked EXCEPT ![s] = <<At(i)>>]
        /\ nextIdx' = IF strategy = "random" THEN nextIdx
                      ELSE [nextIdx EXCEPT ![s] = Advance(i)]
        /\ firsts' = [firsts EXCEPT ![s] = Remember(s, At(i))]
  BY DEF PickNext, Starts
<1>2. registry # <<>> /\ UNCHANGED <<config, registry>>
  BY DEF PickNext
<1>3. /\ i \in Nat /\ Advance(i) \in Nat
      /\ strategy = "next" => i = nextIdx[s]
  BY <1>2, StartType
<1>4. At(i) \in Info
  BY <1>2, <1>3, AtListed
<1>5. /\ firsts' \in [Senders -> Seq(Chains)]
      /\ strategy' = "next" => \A q \in Senders : InARow(q)'
  BY <1>1, <1>2, <1>3, RememberStep
<1>6. /\ conflict \in Modes /\ strategy \in Strategies /\ registry \in Seq(Info)
      /\ nextIdx \in [Senders -> Nat] /\ picked \in [Senders -> Seq(Info)]
  BY DEF SeqIInv, SeqTypeOK
<1>7. picked' \in [Senders -> Seq(Info)]
  BY <1>1, <1>4, <1>6
<1>8. SeqTypeOK'
  BY <1>1, <1>2, <1>3, <1>5, <1>6, <1>7 DEF SeqTypeOK, config
<1>9. \A q \in Senders : picked'[q] = IF q = s THEN <<At(i)>> ELSE picked[q]
  BY <1>1, <1>6
<1>10. DistinctTargets'
  BY <1>9 DEF SeqIInv, DistinctTargets
<1>11. RegistryOK'
  BY <1>2 DEF SeqIInv, RegistryOK
<1> QED BY <1>5, <1>8, <1>10, <1>11 DEF SeqIInv

LEMMA PickDistinctStep ==
  ASSUME SeqIInv, NEW s \in Senders, PickDistinct(s)
  PROVE  SeqIInv'
<1> DEFINE L == Len(registry)
           n == CappedSize(SetSize)
<1>1. PICK start \in Starts(s) :
        /\ picked' = [picked EXCEPT ![s] = [k \in 1 .. n |-> At(start + k - 1)]]
        /\ nextIdx' = [nextIdx EXCEPT ![s] = Advance(start)]
        /\ firsts' = [firsts EXCEPT ![s] = Remember(s, At(start))]
  BY DEF PickDistinct, Starts
<1>2. registry # <<>> /\ UNCHANGED <<config, registry>>
  BY DEF PickDistinct
<1>3. /\ start \in Nat /\ Advance(start) \in Nat
      /\ strategy = "next" => start = nextIdx[s]
  BY <1>2, StartType
<1>4. /\ firsts' \in [Senders -> Seq(Chains)]
      /\ strategy' = "next" => \A q \in Senders : InARow(q)'
  BY <1>1, <1>2, <1>3, RememberStep
<1>5. /\ conflict \in Modes /\ strategy \in Strategies /\ registry \in Seq(Info)
      /\ nextIdx \in [Senders -> Nat] /\ picked \in [Senders -> Seq(Info)]
      /\ L \in Nat \ {0}
  BY <1>2 DEF SeqIInv, SeqTypeOK
<1>6. n \in Nat /\ n <= L
  BY <1>5, SequencersAssumption DEF CappedSize, MinOf, SetSize
<1> HIDE DEF n
<1>7. ASSUME NEW k \in 1 .. n
      PROVE  At(start + k - 1) \in Info
  <2>1. start + k - 1 \in Nat
    BY <1>3, <1>6
  <2> QED BY <1>2, <2>1, AtListed
<1>8. ASSUME NEW j \in 1 .. n, NEW k \in 1 .. n, j < k
      PROVE  At(start + j - 1).chain # At(start + k - 1).chain
  <2> DEFINE a == start + j - 1
             b == start + k - 1
  <2>1. a \in Nat /\ b \in Nat /\ a < b /\ b - a < L
    BY <1>3, <1>5, <1>6, <1>8
  <2> HIDE DEF a, b
  <2>2. a % L # b % L
    BY <1>5, <2>1, ModWindow
  <2>3. (a % L) + 1 \in DOMAIN registry /\ (b % L) + 1 \in DOMAIN registry
    BY <1>2, <2>1, AtListed
  <2>4. a % L \in Int /\ b % L \in Int
    BY <1>5, <2>1, ModRange
  <2>5. At(a).chain # At(b).chain
    BY <2>2, <2>3, <2>4 DEF At, SeqIInv, RegistryOK
  <2> QED BY <2>5 DEF a, b
<1>9. \A q \in Senders : picked'[q] = IF q = s THEN [k \in 1 .. n |-> At(start + k - 1)]
                                      ELSE picked[q]
  BY <1>1, <1>5
<1>10. picked' \in [Senders -> Seq(Info)]
  <2>1. [k \in 1 .. n |-> At(start + k - 1)] \in Seq(Info)
    BY <1>6, <1>7
  <2> QED BY <1>1, <1>5, <2>1
<1>11. SeqTypeOK'
  BY <1>1, <1>2, <1>3, <1>4, <1>5, <1>10 DEF SeqTypeOK, config
<1>12. DistinctTargets'
  <2>1. ASSUME NEW q \in Senders, NEW j \in DOMAIN picked'[q], NEW k \in DOMAIN picked'[q],
               j # k
        PROVE  picked'[q][j].chain # picked'[q][k].chain
    <3>1. CASE q # s
      <4>1. picked'[q] = picked[q]
        BY <1>9, <3>1
      <4> QED BY <2>1, <4>1 DEF SeqIInv, DistinctTargets
    <3>2. CASE q = s
      <4>1. j \in 1 .. n /\ k \in 1 .. n
        BY <1>9, <3>2
      <4>2. j < k \/ k < j
        BY <1>6, <2>1, <4>1
      <4> QED BY <1>8, <1>9, <3>2, <4>1, <4>2
    <3> QED BY <3>1, <3>2
  <2> QED BY <2>1 DEF DistinctTargets
<1>13. RegistryOK'
  BY <1>2 DEF SeqIInv, RegistryOK
<1> QED BY <1>4, <1>11, <1>12, <1>13 DEF SeqIInv

LEMMA PickNoneStep ==
  ASSUME SeqIInv, NEW s \in Senders, PickNone(s)
  PROVE  SeqIInv'
<1>1. /\ picked' = [picked EXCEPT ![s] = <<>>]
      /\ UNCHANGED <<conflict, strategy, registry, nextIdx, firsts>>
  BY DEF PickNone, config
<1>2. picked \in [Senders -> Seq(Info)]
  BY DEF SeqIInv, SeqTypeOK
<1>3. \A q \in Senders : picked'[q] = IF q = s THEN <<>> ELSE picked[q]
  BY <1>1, <1>2
<1>4. SeqTypeOK'
  BY <1>1, <1>2 DEF SeqIInv, SeqTypeOK
<1>5. DistinctTargets'
  BY <1>3 DEF SeqIInv, DistinctTargets
<1> QED BY <1>1, <1>4, <1>5 DEF SeqIInv, RegistryOK, InARow, Behind

LEMMA SeqStutter == SeqIInv /\ UNCHANGED seqVars => SeqIInv'
BY DEF SeqIInv, SeqTypeOK, RegistryOK, DistinctTargets, InARow, Behind,
       seqVars, config

-----------------------------------------------------------------------------
\* The inductive invariant of the registry and the pickers (Refresh, Next,
\* Distinct).
THEOREM SeqInductive == SeqSpec => []SeqIInv
<1>1. SeqIInv /\ [SeqNext]_seqVars => SeqIInv'
  <2> SUFFICES ASSUME SeqIInv, [SeqNext]_seqVars PROVE SeqIInv'
    OBVIOUS
  <2>1. CASE Refresh
    BY <2>1, RefreshStep
  <2>2. ASSUME NEW s \in Senders, Pick(s) PROVE SeqIInv'
    BY <2>2, PickNextStep, PickDistinctStep, PickNoneStep DEF Pick
  <2>3. CASE UNCHANGED seqVars
    BY <2>3, SeqStutter
  <2> QED BY <2>1, <2>2, <2>3 DEF SeqNext
<1> QED BY SeqInitStep, <1>1, PTL DEF SeqSpec

\* The registry and the pickers keep their types, whatever a node lists and
\* wherever the pickers started; in particular every fee handed to a sender is
\* positive (Refresh), as Sender takes for granted.
THEOREM SeqTypeCorrect == SeqSpec => []SeqTypeOK
<1>1. SeqIInv => SeqTypeOK
  BY DEF SeqIInv
<1> QED BY <1>1, SeqInductive, PTL

\* The members of a set aim at different sequencers (Distinct), for any size
\* of set, any list and any position of the picker.
THEOREM TargetsDistinct == SeqSpec => []DistinctTargets
<1>1. SeqIInv => DistinctTargets
  BY DEF SeqIInv
<1> QED BY <1>1, SeqInductive, PTL

\* Round-robin serves every sequencer once before it serves one twice, while
\* the list stays (Next), however far off the list the picker started.
THEOREM RoundRobinFair == SeqSpec => []RoundRobin
<1>1. SeqIInv => RoundRobin
  <2> SUFFICES ASSUME SeqIInv, strategy = "next", NEW s \in Senders,
                      NEW i \in DOMAIN firsts[s], NEW j \in DOMAIN firsts[s], i # j
               PROVE  firsts[s][i] # firsts[s][j]
    BY DEF RoundRobin
  <2> DEFINE n == Len(firsts[s])
             p == nextIdx[s]
             L == Len(registry)
  <2>1. /\ registry \in Seq(Info) /\ L \in Nat /\ n \in Nat
        /\ i \in 1 .. n /\ j \in 1 .. n /\ InARow(s)
    BY DEF SeqIInv, SeqTypeOK
  <2>2. /\ n <= L /\ p \in 1 .. L
        /\ firsts[s][i] = registry[Behind(p, n - i)].chain
        /\ firsts[s][j] = registry[Behind(p, n - j)].chain
    BY <2>1 DEF InARow
  <2> HIDE DEF n, p
  <2>3. /\ Behind(p, n - i) \in 1 .. L /\ Behind(p, n - j) \in 1 .. L
        /\ Behind(p, n - i) # Behind(p, n - j)
    BY <2>1, <2>2 DEF Behind
  <2> QED BY <2>1, <2>2, <2>3 DEF SeqIInv, RegistryOK
<1> QED BY <1>1, SeqInductive, PTL
=============================================================================
