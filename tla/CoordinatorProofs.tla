-------------------------- MODULE CoordinatorProofs --------------------------
(* Proofs about the coordinator of the run command, for any number of
   senders, limits and slots.

   The senders go on counting while the coordinator reads their counters one
   after the other.  The invariant says what a collection that is under way
   has of the truth: what it added up is at most what the counters it read
   show by now, and together with those it has not read at least what all of
   them showed when it began.                                              *)
EXTENDS Coordinator, Sums

-----------------------------------------------------------------------------
(* Sums of counters. *)

LEMMA IntervalSum ==
  ASSUME NEW w, NEW lo \in Nat, NEW hi \in Nat, \A i \in lo .. hi : w[i] \in Nat
  PROVE  Total(w, lo .. hi) \in Nat
<1>1. IsFiniteSet(lo .. hi)
  BY FS_Interval
<1> QED BY <1>1, TotalNat

LEMMA SumOfNone ==
  ASSUME NEW w, NEW lo \in Nat, NEW hi \in Nat, hi < lo
  PROVE  Total(w, lo .. hi) = 0
<1>1. lo .. hi = {}
  OBVIOUS
<1> QED BY <1>1, TotalEmpty

LEMMA SumUpTo ==
  ASSUME NEW w, NEW hi \in Nat \ {0}, \A i \in 1 .. hi : w[i] \in Nat
  PROVE  Total(w, 1 .. hi) = w[hi] + Total(w, 1 .. (hi - 1))
<1>1. (1 .. hi) \ {hi} = 1 .. (hi - 1) /\ hi \in 1 .. hi
  OBVIOUS
<1>2. Total(w, 1 .. hi) = w[hi] + Total(w, (1 .. hi) \ {hi})
  <2> DEFINE S == 1 .. hi
  <2>1. IsFiniteSet(S) /\ hi \in S /\ \A i \in S : w[i] \in Int
    BY <1>1, FS_Interval
  <2> HIDE DEF S
  <2>2. Total(w, S) = w[hi] + Total(w, S \ {hi})
    BY <2>1, TotalRemove
  <2> QED BY <2>2 DEF S
<1> QED BY <1>1, <1>2, Zenon

LEMMA SumFrom ==
  ASSUME NEW w, NEW lo \in Nat, NEW hi \in Nat, lo <= hi, \A i \in lo .. hi : w[i] \in Nat
  PROVE  Total(w, lo .. hi) = w[lo] + Total(w, (lo + 1) .. hi)
<1>1. (lo .. hi) \ {lo} = (lo + 1) .. hi /\ lo \in lo .. hi
  OBVIOUS
<1>2. Total(w, lo .. hi) = w[lo] + Total(w, (lo .. hi) \ {lo})
  <2> DEFINE S == lo .. hi
  <2>1. IsFiniteSet(S) /\ lo \in S /\ \A i \in S : w[i] \in Int
    BY <1>1, FS_Interval
  <2> HIDE DEF S
  <2>2. Total(w, S) = w[lo] + Total(w, S \ {lo})
    BY <2>1, TotalRemove
  <2> QED BY <2>2 DEF S
<1> QED BY <1>1, <1>2, Zenon

\* Counters that only grow: so does every sum of them.
LEMMA SumGrows ==
  ASSUME NEW w, NEW v, NEW lo \in Nat, NEW hi \in Nat,
         \A i \in lo .. hi : w[i] \in Nat /\ v[i] \in Nat /\ w[i] <= v[i]
  PROVE  Total(w, lo .. hi) <= Total(v, lo .. hi)
<1>1. IsFiniteSet(lo .. hi)
  BY FS_Interval
<1> QED BY <1>1, TotalMonotone

\* The counters of the first n senders are the whole, where the rest is 0.
LEMMA RestIsZero ==
  ASSUME NEW w, NEW n \in Nat, NEW m \in Nat, n <= m,
         \A i \in 1 .. m : w[i] \in Nat, \A i \in (n + 1) .. m : w[i] = 0
  PROVE  Total(w, 1 .. m) = Total(w, 1 .. n)
<1> DEFINE S == 1 .. n
           T == (n + 1) .. m
<1>1. IsFiniteSet(S) /\ IsFiniteSet(T)
  BY FS_Interval
<1>2. S \cap T = {} /\ S \cup T = 1 .. m /\ \A i \in S \cup T : w[i] \in Int
  OBVIOUS
<1>3. Total(w, T) = 0
  <2>1. \A i \in T : w[i] = 0
    OBVIOUS
  <2> HIDE DEF T
  <2> QED BY <1>1, <2>1, TotalZero
<1> HIDE DEF S, T
<1>4. Total(w, S \cup T) = Total(w, S) + Total(w, T)
  BY <1>1, <1>2, TotalUnion
<1>5. Total(w, S) \in Int
  <2>1. \A i \in S : w[i] \in Int
    BY <1>2
  <2> QED BY <1>1, <2>1, TotalInt
<1>6. Total(w, 1 .. m) = Total(w, S) + Total(w, T)
  BY <1>2, <1>4, Zenon
<1>7. Total(w, 1 .. m) = Total(w, S)
  BY <1>3, <1>5, <1>6
<1> QED BY <1>7 DEF S

LEMMA PartOfWhole ==
  ASSUME NEW w, NEW n \in Nat, NEW m \in Nat, n <= m, \A i \in 1 .. m : w[i] \in Nat
  PROVE  Total(w, 1 .. n) <= Total(w, 1 .. m)
<1>1. IsFiniteSet(1 .. m) /\ 1 .. n \subseteq 1 .. m
  BY FS_Interval
<1> QED BY <1>1, TotalSubset

-----------------------------------------------------------------------------
(* The inductive invariant. *)

Read == 1 .. (next - 1)
Unread == next .. numSenders

\* Only the senders of this run ever count, and none before there are any.
OnlySendersCount ==
  /\ cpc = "new" => numSenders = 0
  /\ \A s \in (numSenders + 1) .. NumConfigured : sent[s] = 0

\* What a collection has added up is at most what the counters it has read
\* show by now, and with the counters it has not read at least what it began
\* with.
PartialTotal ==
  cpc \in {"total", "final"} =>
    /\ total <= Total(sent, Read)
    /\ actual <= total + Total(sent, Unread)

\* The total last displayed was true: the counters show at least that much,
\* and showed it when the collection that runs now began.
Displayed ==
  /\ prevTotal <= SentNow
  /\ cpc \in {"total", "final"} => prevTotal <= actual

IInv ==
  /\ TypeOK /\ OnlySendersCount /\ PartialTotal /\ Displayed /\ StopsForCause

\* The counters add up to a natural number.
LEMMA SentNowIs ==
  ASSUME TypeOK
  PROVE  SentNow = Total(sent, 1 .. NumConfigured) /\ SentNow \in Nat
<1>1. DOMAIN sent = 1 .. NumConfigured /\ \A s \in 1 .. NumConfigured : sent[s] \in Nat
  BY DEF TypeOK, Configured
<1>2. SentNow = Total(sent, 1 .. NumConfigured)
  BY <1>1 DEF SentNow, SumFunction, Total
<1>3. Total(sent, 1 .. NumConfigured) \in Nat
  BY <1>1, CoordinatorAssumption, IntervalSum
<1> QED BY <1>2, <1>3

LEMMA SendersConfigured ==
  ASSUME TypeOK
  PROVE  /\ numSenders \in Nat /\ NumConfigured \in Nat /\ numSenders <= NumConfigured
         /\ next \in Nat /\ next >= 1 /\ next <= numSenders + 1
         /\ \A s \in 1 .. NumConfigured : sent[s] \in Nat
         /\ total \in Nat /\ prevTotal \in Nat /\ actual \in Nat
BY CoordinatorAssumption DEF TypeOK, Configured

LEMMA SentNowSenders ==
  ASSUME TypeOK, OnlySendersCount
  PROVE  SentNow = Total(sent, 1 .. numSenders)
<1>1. SentNow = Total(sent, 1 .. NumConfigured)
  BY SentNowIs
<1>2. /\ numSenders \in Nat /\ NumConfigured \in Nat /\ numSenders <= NumConfigured
      /\ \A s \in 1 .. NumConfigured : sent[s] \in Nat
  BY SendersConfigured
<1>3. Total(sent, 1 .. NumConfigured) = Total(sent, 1 .. numSenders)
  BY <1>2, RestIsZero DEF OnlySendersCount
<1> QED BY <1>1, <1>3

\* The sums a collection is about.
LEMMA ReadSums ==
  ASSUME TypeOK
  PROVE  /\ Total(sent, Read) \in Nat /\ Total(sent, Unread) \in Nat
         /\ Total(sent, Read) <= SentNow
<1>1. /\ numSenders \in Nat /\ NumConfigured \in Nat /\ numSenders <= NumConfigured
      /\ next \in Nat /\ next >= 1 /\ next <= numSenders + 1
      /\ \A s \in 1 .. NumConfigured : sent[s] \in Nat
  BY SendersConfigured
<1>2. Total(sent, 1 .. (next - 1)) \in Nat
  BY <1>1, IntervalSum
<1>3. Total(sent, next .. numSenders) \in Nat
  BY <1>1, IntervalSum
<1>4. Total(sent, 1 .. (next - 1)) <= Total(sent, 1 .. NumConfigured)
  BY <1>1, PartOfWhole
<1> QED BY <1>2, <1>3, <1>4, SentNowIs DEF Read, Unread

LEMMA InitIInv == Init => IInv
<1> SUFFICES ASSUME Init PROVE IInv
  OBVIOUS
<1> USE CoordinatorAssumption
<1>1. TypeOK
  <2>1. {cancelled, ticked, exited} \subseteq BOOLEAN
    BY DEF Init
  <2>2. spc \in [Configured -> {"none", "top", "round", "spend", "sleep", "stopped"}]
    BY DEF Init
  <2>3. sent \in [Configured -> Nat]
    BY DEF Init
  <2>4. /\ numSenders \in 0 .. NumConfigured /\ known \in 0 .. MaxKnown
        /\ signals \in 0 .. 2 /\ next \in 1 .. (numSenders + 1)
        /\ total \in Nat /\ prevTotal \in Nat /\ actual \in Nat
    BY DEF Init
  <2>5. cpc = "new"
    BY DEF Init
  <2> QED BY <2>1, <2>2, <2>3, <2>4, <2>5 DEF TypeOK
<1>2. OnlySendersCount
  BY DEF Init, OnlySendersCount, Configured
<1>3. PartialTotal /\ StopsForCause
  BY DEF Init, PartialTotal, StopsForCause
<1>4. Displayed
  BY <1>1, SentNowIs DEF Init, Displayed
<1> QED BY <1>1, <1>2, <1>3, <1>4 DEF IInv

\* What the initial sums of a collection say.
LEMMA CollectionBegins ==
  ASSUME IInv, BeginTotal, UNCHANGED <<sent, numSenders>>
  PROVE  /\ total' \in Nat /\ actual' \in Nat /\ next' = 1
         /\ total' <= Total(sent, Read)'
         /\ actual' <= total' + Total(sent, Unread)'
         /\ actual' = SentNow
<1>1. SentNow \in Nat /\ SentNow = Total(sent, 1 .. numSenders)
  BY SentNowIs, SentNowSenders DEF IInv
<1>2. Total(sent, Unread)' = Total(sent, 1 .. numSenders)
  BY DEF BeginTotal, Unread
<1>3. Total(sent, Read)' = Total(sent, 1 .. 0)
  BY DEF BeginTotal, Read
<1>4. Total(sent, 1 .. 0) = 0
  BY SumOfNone
<1> QED BY <1>1, <1>2, <1>3, <1>4 DEF BeginTotal

-----------------------------------------------------------------------------
(* Each step keeps the types. *)

LEMMA ClampedOK ==
  ASSUME NEW n \in Requested
  PROVE  Clamped(n) \in 0 .. NumConfigured
BY CoordinatorAssumption DEF Clamped

LEMMA TypeStep ==
  ASSUME TypeOK, OnlySendersCount, [Next]_vars
  PROVE  TypeOK'
<1> USE CoordinatorAssumption
<1>0. /\ TypeOK /\ [Next]_vars
      /\ numSenders \in Nat /\ next \in Nat /\ next >= 1 /\ next <= numSenders + 1
      /\ \A s \in 1 .. NumConfigured : sent[s] \in Nat
      /\ SentNow \in Nat /\ Senders \subseteq Configured
  BY SendersConfigured, SentNowIs DEF Senders, Configured, TypeOK
<1>1. CASE New
  <2>1. next = 1
    BY <1>0, <1>1 DEF New, OnlySendersCount
  <2>2. numSenders' \in 0 .. NumConfigured
    BY <1>0, <1>1, ClampedOK DEF New, TypeOK
  <2>3. next' \in 1 .. (numSenders' + 1)
    <3>1. next' = next
      BY <1>1 DEF New, statVars, senderVars
    <3>2. \A n, m : m \in Nat /\ n \in 0 .. m => 1 \in 1 .. (n + 1)
      OBVIOUS
    <3>3. 1 \in 1 .. (numSenders' + 1)
      BY <2>2, <3>2, CoordinatorAssumption
    <3> QED BY <2>1, <3>1, <3>3
  <2>4. /\ UNCHANGED <<known, cancelled, ticked, signals, exited, spc, sent, total,
                         prevTotal, actual>>
        /\ cpc' \in {"discover", "failed"}
    BY <1>1 DEF New, senderVars, statVars
  <2> QED BY <1>0, <2>2, <2>3, <2>4 DEF TypeOK
<1>2. CASE Discover
  BY <1>0, <1>2 DEF Discover, TypeOK, senderVars, statVars
<1>3. CASE CheckAndStart
  BY <1>0, <1>3 DEF CheckAndStart, TypeOK, statVars
<1>4. CASE SelectDone
  BY <1>0, <1>4 DEF SelectDone, BeginTotal, TypeOK, senderVars
<1>5. CASE SelectTick
  BY <1>0, <1>5 DEF SelectTick, TypeOK, senderVars, statVars
<1>6. CASE PeriodicRefresh
  BY <1>0, <1>6 DEF PeriodicRefresh, BeginTotal, TypeOK, senderVars
<1>7. CASE ReadOne
  <2>1. /\ next \in Senders /\ next' = next + 1 /\ total' = total + sent[next]
        /\ UNCHANGED <<runVars, senderVars, prevTotal, actual>>
    BY <1>7 DEF ReadOne, ReadCounter
  <2>2. next' \in 1 .. (numSenders + 1)
    BY <1>0, <2>1 DEF Senders
  <2>3. total' \in Nat
    BY <1>0, <2>1 DEF TypeOK, Configured
  <2> QED BY <1>0, <2>1, <2>2, <2>3 DEF TypeOK, runVars, senderVars
<1>8. CASE TotalDone
  BY <1>0, <1>8 DEF TotalDone, BeginTotal, TypeOK, senderVars
<1>9. CASE Return
  BY <1>0, <1>9 DEF Return, TypeOK, senderVars, statVars
<1>10. ASSUME NEW s \in Senders, SenderStep(s)
       PROVE  TypeOK'
  <2>1. CASE Top(s)
    BY <1>0, <1>10, <2>1 DEF SenderStep, Top, TypeOK, runVars, statVars
  <2>2. CASE PickSequencers(s)
    BY <1>0, <1>10, <2>2 DEF SenderStep, PickSequencers, TypeOK, runVars, statVars
  <2>3. CASE Acknowledged(s)
    BY <1>0, <1>10, <2>3 DEF SenderStep, Acknowledged, TypeOK, runVars, statVars
  <2>4. CASE EndRound(s)
    BY <1>0, <1>10, <2>4 DEF SenderStep, EndRound, TypeOK, runVars, statVars
  <2>5. CASE WakeUp(s)
    BY <1>0, <1>10, <2>5 DEF SenderStep, WakeUp, TypeOK, runVars, statVars
  <2> QED BY <1>10, <2>1, <2>2, <2>3, <2>4, <2>5 DEF SenderStep
<1>11. CASE Ticker
  BY <1>0, <1>11 DEF Ticker, TypeOK, senderVars, statVars
<1>12. CASE Deadline
  BY <1>0, <1>12 DEF Deadline, TypeOK, senderVars, statVars
<1>13. CASE Signal
  <2>1. {cancelled, ticked, exited}' \subseteq BOOLEAN
    BY <1>0, <1>13, Zenon DEF Signal, TypeOK
  <2>2. signals' \in 0 .. 2
    BY <1>0, <1>13 DEF Signal, TypeOK
  <2>3. UNCHANGED <<cpc, numSenders, known, spc, sent, next, total, prevTotal, actual>>
    BY <1>13 DEF Signal, senderVars, statVars
  <2> QED BY <1>0, <2>1, <2>2, <2>3 DEF TypeOK
<1>14. CASE Exit
  BY <1>0, <1>14 DEF Exit, TypeOK, senderVars, statVars
<1>15. CASE UNCHANGED vars
  BY <1>0, <1>15 DEF vars, TypeOK, runVars, senderVars, statVars
<1> QED BY <1>0, <1>1, <1>2, <1>3, <1>4, <1>5, <1>6, <1>7, <1>8, <1>9, <1>10,
           <1>11, <1>12, <1>13, <1>14, <1>15 DEF Next, Loop

-----------------------------------------------------------------------------
(* Each step keeps the rest of the invariant. *)

Parts == OnlySendersCount /\ PartialTotal /\ Displayed /\ StopsForCause

\* A step that neither counts nor collects.
QuietStep ==
  /\ UNCHANGED <<numSenders, sent, next, total, prevTotal, actual>>
  /\ cpc' \in {"total", "final"} => cpc' = cpc
  /\ cpc' = "new" => cpc = "new"
  /\ cpc' = "returned" => cpc \in {"final", "returned"}
  /\ cancelled => cancelled'

LEMMA QuietKeeps == ASSUME IInv, QuietStep PROVE Parts'
<1>1. /\ SentNow' = SentNow /\ Total(sent, Read)' = Total(sent, Read)
      /\ Total(sent, Unread)' = Total(sent, Unread)
  BY DEF QuietStep, SentNow, Read, Unread
<1>2. OnlySendersCount'
  BY DEF IInv, OnlySendersCount, QuietStep
<1>3. PartialTotal' /\ Displayed'
  BY <1>1 DEF IInv, PartialTotal, Displayed, QuietStep
<1>4. StopsForCause'
  BY <1>1 DEF IInv, StopsForCause, QuietStep
<1> QED BY <1>2, <1>3, <1>4 DEF Parts

LEMMA NewKeeps == ASSUME IInv, New PROVE Parts'
<1>1. numSenders = 0 /\ \A s \in 1 .. NumConfigured : sent[s] = 0
  BY DEF IInv, OnlySendersCount, New
<1>2. numSenders' \in 0 .. NumConfigured
  BY ClampedOK, SendersConfigured DEF New, IInv
<1>3. OnlySendersCount'
  <2>1. sent' = sent /\ cpc' # "new"
    BY DEF New, senderVars, statVars
  <2>2. \A s \in (numSenders' + 1) .. NumConfigured : s \in 1 .. NumConfigured
    <3>1. \A n, m : m \in Nat /\ n \in 0 .. m => \A s \in (n + 1) .. m : s \in 1 .. m
      OBVIOUS
    <3> QED BY <1>2, <3>1, CoordinatorAssumption
  <2> QED BY <1>1, <2>1, <2>2, Zenon DEF OnlySendersCount
<1>4. SentNow' = SentNow /\ prevTotal' = prevTotal /\ cpc' \in {"discover", "failed"}
  BY DEF New, senderVars, statVars, SentNow
<1>5. PartialTotal' /\ Displayed' /\ StopsForCause'
  BY <1>4 DEF IInv, PartialTotal, Displayed, StopsForCause
<1> QED BY <1>3, <1>5 DEF Parts

LEMMA BeginKeeps ==
  ASSUME IInv, BeginTotal, UNCHANGED <<sent, numSenders, prevTotal>>,
         cpc' \in {"total", "final"}, cpc # "new",
         cancelled => cancelled',
         cpc' = "final" => cancelled \/ (LimitReached(total) /\ total <= SentNow)
  PROVE  Parts'
<1>1. /\ total' \in Nat /\ actual' \in Nat
      /\ total' <= Total(sent, Read)'
      /\ actual' <= total' + Total(sent, Unread)'
      /\ actual' = SentNow
  BY CollectionBegins
<1>2. OnlySendersCount'
  BY DEF IInv, OnlySendersCount
<1>3. SentNow' = SentNow
  BY DEF SentNow
<1>4. PartialTotal'
  BY <1>1 DEF PartialTotal
<1>5. Displayed'
  BY <1>1, <1>3 DEF IInv, Displayed
<1>6. StopsForCause'
  <2>1. SentNow \in Nat /\ total \in Nat /\ MaxTransactions \in Nat
    BY SentNowIs, SendersConfigured, CoordinatorAssumption DEF IInv
  <2> QED BY <1>3, <2>1 DEF StopsForCause, LimitReached
<1> QED BY <1>2, <1>4, <1>5, <1>6 DEF Parts

LEMMA ReadKeeps == ASSUME IInv, ReadOne PROVE Parts'
<1>1. /\ numSenders \in Nat /\ NumConfigured \in Nat /\ numSenders <= NumConfigured
      /\ next \in Nat /\ next >= 1 /\ next <= numSenders
      /\ \A s \in 1 .. NumConfigured : sent[s] \in Nat
      /\ total \in Nat /\ actual \in Nat
  BY SendersConfigured DEF IInv, ReadOne, Senders
<1>2. /\ UNCHANGED <<cpc, numSenders, sent, prevTotal, cancelled, actual>>
      /\ total' = total + sent[next] /\ next' = next + 1
      /\ cpc \in {"total", "final"}
  BY DEF ReadOne, ReadCounter, runVars, senderVars
<1>3. Total(sent, Read)' = Total(sent, 1 .. next)
  <2>1. Read' = 1 .. next
    BY <1>1, <1>2 DEF Read
  <2> QED BY <1>2, <2>1
<1>4. Total(sent, 1 .. next) = sent[next] + Total(sent, Read)
  BY <1>1, SumUpTo DEF Read
<1>5. Total(sent, Unread)' = Total(sent, (next + 1) .. numSenders)
  BY <1>2 DEF Unread
<1>6. Total(sent, Unread) = sent[next] + Total(sent, (next + 1) .. numSenders)
  BY <1>1, SumFrom DEF Unread
<1>7. /\ Total(sent, Read) \in Nat /\ sent[next] \in Nat
      /\ Total(sent, (next + 1) .. numSenders) \in Nat
  BY <1>1, ReadSums, IntervalSum DEF IInv
<1>8. PartialTotal'
  <2>1. total <= Total(sent, Read) /\ actual <= total + Total(sent, Unread)
    BY <1>2 DEF IInv, PartialTotal
  <2>2. total + sent[next] <= sent[next] + Total(sent, Read)
    BY <1>1, <1>7, <2>1
  <2>3. actual <= total + sent[next] + Total(sent, (next + 1) .. numSenders)
    BY <1>1, <1>6, <1>7, <2>1
  <2> QED BY <1>2, <1>3, <1>4, <1>5, <2>2, <2>3 DEF PartialTotal
<1>9. SentNow' = SentNow
  BY <1>2 DEF SentNow
<1>10. OnlySendersCount' /\ Displayed' /\ StopsForCause'
  BY <1>2, <1>9 DEF IInv, OnlySendersCount, Displayed, StopsForCause
<1> QED BY <1>8, <1>10 DEF Parts

LEMMA TotalDoneKeeps == ASSUME IInv, TotalDone PROVE Parts'
<1>1. total <= SentNow
  <2>1. Total(sent, Read) \in Nat /\ Total(sent, Read) <= SentNow /\ total \in Nat
        /\ SentNow \in Nat
    BY ReadSums, SendersConfigured, SentNowIs DEF IInv
  <2> QED BY <2>1 DEF IInv, PartialTotal, TotalDone
<1>2. CASE LimitReached(total)
  BY <1>1, <1>2, BeginKeeps DEF TotalDone, senderVars
<1>3. CASE ~LimitReached(total)
  <2>1. SentNow' = SentNow /\ prevTotal' = total /\ cpc' = "select"
    BY <1>3 DEF TotalDone, SentNow, senderVars
  <2>2. OnlySendersCount'
    BY <2>1 DEF IInv, OnlySendersCount, TotalDone, senderVars
  <2>3. PartialTotal' /\ Displayed' /\ StopsForCause'
    BY <1>1, <2>1 DEF PartialTotal, Displayed, StopsForCause
  <2> QED BY <2>2, <2>3 DEF Parts
<1> QED BY <1>2, <1>3

LEMMA AcknowledgedKeeps ==
  ASSUME IInv, NEW s \in Senders, Acknowledged(s), UNCHANGED <<runVars, statVars>>
  PROVE  Parts'
<1>1. /\ numSenders \in Nat /\ NumConfigured \in Nat /\ numSenders <= NumConfigured
      /\ next \in Nat /\ next >= 1 /\ next <= numSenders + 1
      /\ \A i \in 1 .. NumConfigured : sent[i] \in Nat
      /\ total \in Nat /\ actual \in Nat /\ prevTotal \in Nat
  BY SendersConfigured DEF IInv
<1>2. UNCHANGED <<cpc, numSenders, cancelled, next, total, prevTotal, actual>>
  BY DEF runVars, statVars
<1>3. s \in 1 .. numSenders /\ sent' = [sent EXCEPT ![s] = @ + 1]
      /\ DOMAIN sent = 1 .. NumConfigured
  BY DEF Senders, Acknowledged, IInv, TypeOK, Configured
<1>4. /\ \A i \in 1 .. NumConfigured : sent'[i] \in Nat /\ sent[i] <= sent'[i]
      /\ \A i \in (numSenders + 1) .. NumConfigured : sent'[i] = sent[i]
  BY <1>1, <1>3
<1>6. SentNow <= SentNow'
  <2>1. SentNow = Total(sent, 1 .. NumConfigured)
    BY SentNowIs DEF IInv
  <2>2. DOMAIN sent' = 1 .. NumConfigured
    BY <1>3
  <2>3. SentNow' = Total(sent', 1 .. NumConfigured)
    BY <2>2 DEF SentNow, SumFunction, Total
  <2>4. Total(sent, 1 .. NumConfigured) <= Total(sent', 1 .. NumConfigured)
    BY <1>1, <1>4, SumGrows
  <2> QED BY <2>1, <2>3, <2>4
<1>7. Total(sent, Read) <= Total(sent', Read) /\ Total(sent, Unread) <= Total(sent', Unread)
  <2>1. \A i \in 1 .. (next - 1) : sent[i] \in Nat /\ sent'[i] \in Nat /\ sent[i] <= sent'[i]
    BY <1>1, <1>4
  <2>2. \A i \in next .. numSenders : sent[i] \in Nat /\ sent'[i] \in Nat /\ sent[i] <= sent'[i]
    BY <1>1, <1>4
  <2>3. next - 1 \in Nat /\ 1 \in Nat
    BY <1>1
  <2>4. Total(sent, 1 .. (next - 1)) <= Total(sent', 1 .. (next - 1))
    BY <2>1, <2>3, SumGrows
  <2>5. Total(sent, next .. numSenders) <= Total(sent', next .. numSenders)
    BY <1>1, <2>2, SumGrows
  <2> QED BY <2>4, <2>5 DEF Read, Unread
<1>8. Read' = Read /\ Unread' = Unread
  BY <1>2 DEF Read, Unread
<1>9. /\ Total(sent, Read) \in Nat /\ Total(sent', Read) \in Nat
      /\ Total(sent, Unread) \in Nat /\ Total(sent', Unread) \in Nat
      /\ SentNow \in Nat /\ SentNow' \in Nat
  <2>1. Total(sent', Read) \in Nat /\ Total(sent', Unread) \in Nat
    BY <1>1, <1>4, IntervalSum DEF Read, Unread
  <2>2. SentNow' \in Nat
    <3>1. DOMAIN sent' = 1 .. NumConfigured
      BY <1>3
    <3>2. Total(sent', 1 .. NumConfigured) \in Nat
      BY <1>1, <1>4, IntervalSum
    <3> QED BY <3>1, <3>2 DEF SentNow, SumFunction, Total
  <2> QED BY <2>1, <2>2, ReadSums, SentNowIs DEF IInv
<1>10. PartialTotal'
  <2>1. ASSUME cpc \in {"total", "final"}
        PROVE  total <= Total(sent', Read) /\ actual <= total + Total(sent', Unread)
    <3>1. total <= Total(sent, Read) /\ actual <= total + Total(sent, Unread)
      BY <2>1 DEF IInv, PartialTotal
    <3> QED BY <1>1, <1>7, <1>9, <3>1
  <2> QED BY <1>2, <1>8, <2>1 DEF PartialTotal
<1>11. OnlySendersCount' /\ Displayed'
  BY <1>1, <1>2, <1>4, <1>6, <1>9 DEF IInv, OnlySendersCount, Displayed
<1>12. StopsForCause'
  BY <1>2, <1>6, <1>9, CoordinatorAssumption DEF IInv, StopsForCause
<1> QED BY <1>10, <1>11, <1>12 DEF Parts

LEMMA StepKeeps == ASSUME IInv, [Next]_vars PROVE Parts'
<1>1. CASE New
  BY <1>1, NewKeeps
<1>2. CASE Discover
  <2>1. QuietStep
    BY <1>2 DEF QuietStep, Discover, senderVars, statVars
  <2> QED BY <2>1, QuietKeeps
<1>3. CASE CheckAndStart
  <2>1. QuietStep
    BY <1>3 DEF QuietStep, CheckAndStart, statVars
  <2> QED BY <2>1, QuietKeeps
<1>4. CASE SelectDone
  <2>1. /\ BeginTotal /\ UNCHANGED <<sent, numSenders, prevTotal>>
        /\ cpc' = "final" /\ cpc # "new" /\ cancelled
    BY <1>4 DEF SelectDone, senderVars
  <2>2. cancelled => cancelled'
    BY <1>4 DEF SelectDone
  <2>3. cpc' = "final" => cancelled \/ (LimitReached(total) /\ total <= SentNow)
    BY <2>1, Zenon
  <2>4. cpc' \in {"total", "final"}
    BY <2>1
  <2> QED BY <2>1, <2>2, <2>3, <2>4, BeginKeeps, Zenon
<1>5. CASE SelectTick
  <2>1. QuietStep
    BY <1>5 DEF QuietStep, SelectTick, senderVars, statVars
  <2> QED BY <2>1, QuietKeeps
<1>6. CASE PeriodicRefresh
  BY <1>6, BeginKeeps DEF PeriodicRefresh, senderVars
<1>7. CASE ReadOne
  BY <1>7, ReadKeeps
<1>8. CASE TotalDone
  BY <1>8, TotalDoneKeeps
<1>9. CASE Return
  <2>1. QuietStep
    BY <1>9 DEF QuietStep, Return, senderVars, statVars
  <2> QED BY <2>1, QuietKeeps
<1>10. ASSUME NEW s \in Senders, SenderStep(s)
       PROVE  Parts'
  <2>1. CASE Acknowledged(s)
    BY <1>10, <2>1, AcknowledgedKeeps DEF SenderStep
  <2>2. CASE Top(s) \/ PickSequencers(s) \/ EndRound(s) \/ WakeUp(s)
    <3>1. QuietStep
      BY <1>10, <2>2 DEF QuietStep, SenderStep, Top, PickSequencers, EndRound, WakeUp,
                         runVars, statVars
    <3> QED BY <3>1, QuietKeeps
  <2> QED BY <1>10, <2>1, <2>2 DEF SenderStep
<1>11. CASE Ticker
  <2>1. QuietStep
    BY <1>11 DEF QuietStep, Ticker, senderVars, statVars
  <2> QED BY <2>1, QuietKeeps
<1>12. CASE Deadline
  <2>1. QuietStep
    BY <1>12 DEF QuietStep, Deadline, senderVars, statVars
  <2> QED BY <2>1, QuietKeeps
<1>13. CASE Signal
  <2>1. QuietStep
    BY <1>13 DEF QuietStep, Signal, senderVars, statVars
  <2> QED BY <2>1, QuietKeeps
<1>14. CASE Exit
  <2>1. QuietStep
    BY <1>14 DEF QuietStep, Exit, senderVars, statVars
  <2> QED BY <2>1, QuietKeeps
<1>15. CASE UNCHANGED vars
  <2>1. QuietStep
    BY <1>15 DEF QuietStep, vars, runVars, senderVars, statVars
  <2> QED BY <2>1, QuietKeeps
<1> QED BY <1>1, <1>2, <1>3, <1>4, <1>5, <1>6, <1>7, <1>8, <1>9, <1>10,
           <1>11, <1>12, <1>13, <1>14, <1>15 DEF Next, Loop

LEMMA Inductive == ASSUME IInv, [Next]_vars PROVE IInv'
<1>1. TypeOK'
  BY TypeStep DEF IInv
<1>2. Parts'
  BY StepKeeps
<1> QED BY <1>1, <1>2 DEF IInv, Parts

LEMMA AlwaysIInv == Spec => []IInv
<1>1. Init => IInv
  BY InitIInv
<1>2. IInv /\ [Next]_vars => IInv'
  BY Inductive
<1> QED BY <1>1, <1>2, PTL DEF Spec

-----------------------------------------------------------------------------
(* The theorems. *)

\* Types are kept by every run, for every number of senders and every limit.
THEOREM TypeCorrect == Spec => []TypeOK
<1>1. IInv => TypeOK
  BY DEF IInv
<1> QED BY <1>1, AlwaysIInv, PTL

\* totalSent reads the counters one at a time while the senders go on
\* counting.  What it returns is, all the same, at least what the counters
\* showed together when it began and at most what they show when it ends.
THEOREM TotalIsWithinRange == Spec => []TotalWithinRange
<1>1. ASSUME IInv PROVE TotalWithinRange
  <2> SUFFICES ASSUME Collected PROVE actual <= total /\ total <= SentNow
    BY DEF TotalWithinRange
  <2>1. /\ numSenders \in Nat /\ next \in Nat /\ next >= 1 /\ next <= numSenders + 1
        /\ total \in Nat /\ actual \in Nat
    BY <1>1, SendersConfigured DEF IInv
  <2>2. next = numSenders + 1
    BY <2>1 DEF Collected, Senders
  <2>3. Total(sent, Unread) = 0
    BY <2>1, <2>2, SumOfNone DEF Unread
  <2>4. /\ Total(sent, Read) \in Nat /\ Total(sent, Read) <= SentNow /\ SentNow \in Nat
    BY <1>1, ReadSums, SentNowIs DEF IInv
  <2>5. total <= Total(sent, Read) /\ actual <= total + Total(sent, Unread)
    BY <1>1 DEF IInv, PartialTotal, Collected
  <2> QED BY <2>1, <2>3, <2>4, <2>5
<1> QED BY <1>1, AlwaysIInv, PTL

\* Run leaves its loop for a cause: the context is done, or the senders really
\* sent as many transactions as the limit says, however the counters grew
\* while they were read.
THEOREM StopsOnlyForCause == Spec => []StopsForCause
<1>1. IInv => StopsForCause
  BY DEF IInv
<1> QED BY <1>1, AlwaysIInv, PTL

\* The displayed number of transactions of a slot, the difference of two
\* totals collected one after the other, is never negative.
THEOREM SlotCountsAreNatural == Spec => []SlotCountNotNegative
<1>1. ASSUME IInv PROVE SlotCountNotNegative
  <2> SUFFICES ASSUME Collected PROVE total >= prevTotal
    BY DEF SlotCountNotNegative
  <2>1. /\ numSenders \in Nat /\ next \in Nat /\ next >= 1 /\ next <= numSenders + 1
        /\ total \in Nat /\ actual \in Nat /\ prevTotal \in Nat
    BY <1>1, SendersConfigured DEF IInv
  <2>2. next = numSenders + 1
    BY <2>1 DEF Collected, Senders
  <2>3. Total(sent, Unread) = 0
    BY <2>1, <2>2, SumOfNone DEF Unread
  <2>4. actual <= total + Total(sent, Unread) /\ prevTotal <= actual
    BY <1>1 DEF IInv, PartialTotal, Displayed, Collected
  <2> QED BY <2>1, <2>3, <2>4
<1> QED BY <1>1, AlwaysIInv, PTL
=============================================================================
