---------------------------- MODULE PolicyProofs ----------------------------
(* Proofs that the rounds of a sender implement the spend policy: an output
   that is still there goes to a second acknowledged transaction only in a
   slot at least FinalityTimeoutSlots after that of the first.  The document
   asks for a later slot yet, which no setting gives.

   They hold in one setting, and TLC finds a counterexample outside it.  With
   several hosts a round may see an older account than the round before it;
   jitter, or rounds that do not wait, put a timestamp past the slot of the
   next round, where the unsigned difference of slots is huge and counts as a
   timeout; and an output that does not fit the fetch is forgotten with the
   entry that reserves it.

   The invariant says what the sender's memory has to do with the ledger.
   Inputs were listed by the host or are links of a chain; a link is never
   seen by itself; what the network still has of the spent outputs, the host
   lists; their timestamps have come when a round begins; so each is
   remembered, or given up when its spender was overdue.                    *)
EXTENDS LedgerProofs

-----------------------------------------------------------------------------
(* The setting. *)

\* One host and no jitter, in chained batches that mind the rate control, and
\* time to go on after the last transaction.
PolicySetting ==
  /\ NumHosts = 1 /\ JitterTicks = 0 /\ ~Conflict /\ MindRateControl
  /\ LastSpendTick < MaxTick

\* What the host lists fits one fetch.
FetchFits == Cardinality(OwnedAt(0)) <= FetchLimit

PastOK == IInv /\ IdInv /\ PastInv

LEMMA OneHost ==
  ASSUME IInv, PolicySetting
  PROVE  Hosts = {0} /\ hostIdx = 0 /\ clnt = 0
<1>1. Hosts = {0}
  BY DEF PolicySetting, Hosts
<1> QED BY <1>1 DEF IInv, TypeOK

LEMMA SlotMonotone == ASSUME NEW a \in Nat, NEW b \in Nat, a <= b PROVE Slot(a) <= Slot(b)
<1>1. TicksPerSlot \in Nat \ {0}
  BY ConstantTypes
<1> QED BY <1>1 DEF Slot

LEMMA SlotNext == ASSUME NEW a \in Nat PROVE Slot(a + 1) \in {Slot(a), Slot(a) + 1}
<1>1. TicksPerSlot \in Nat \ {0}
  BY ConstantTypes
<1> QED BY <1>1 DEF Slot

-----------------------------------------------------------------------------
(* What a step of the sender does, in this setting. *)

\* The round is over, and the next one begins a pace later.
Rests ==
  /\ pc' = "wait" /\ wakeAt' = now + Pace
  /\ outs' = {} /\ retrying' = {}

GivesUp == pc # "wait" /\ Rests /\ UNCHANGED <<spentSet, accepted>>

Fetches ==
  /\ pc = "start" /\ pc' = "classify" /\ outs' \in Page(OwnedAt(0))
  /\ spentSet' = Restrict(spentSet, outs' \cap DOMAIN spentSet)
  /\ currentSlot' = Slot(now)
  /\ UNCHANGED <<accepted, retrying>>

Classifies(o) ==
  /\ pc = "classify" /\ pc' = "classify" /\ o \in unchecked
  /\ CheckFails(o) \/ DropFinalized(o) \/ KeepOrReclaim(o)
  /\ UNCHANGED <<outs, currentSlot, accepted, retrying>>

Starts ==
  /\ pc = "classify" /\ pc' = "build" /\ now <= LastSpendTick
  /\ inputs' = Available /\ Available # {} /\ member' = 0
  /\ UNCHANGED <<outs, currentSlot, spentSet, accepted, retrying>>

GoesOn(t) ==
  /\ pc' = "build" /\ inputs' = {RemainderOutput(t.id, t.content)}
  /\ member' = member + 1 /\ retrying' = {}
  /\ t.content.fee = 0 /\ LeavesRemainder(t.content.total, t.content.fee)
  /\ UNCHANGED <<outs, currentSlot>>

Offers(t) == pc = "build" /\ CanBuild(total, TagAlongFee) /\ t \in BuildOneTx

Succeeds(t) ==
  /\ Offers(t) \/ (pc = "retry" /\ t \in retrying)
  /\ t.content.ins = inputs
  /\ spentSet' = MarkSpent(t) /\ accepted' = accepted \cup {t}
  /\ Rests \/ GoesOn(t)

Repeats(t) ==
  /\ Offers(t) /\ pc' = "retry" /\ retrying' = {t}
  /\ UNCHANGED <<outs, currentSlot, inputs, member, seqs, spentSet, accepted>>

Wakes ==
  /\ pc = "wait" /\ pc' = "start" /\ (now >= wakeAt \/ now = MaxTick)
  /\ UNCHANGED <<outs, spentSet, accepted, retrying>>

LEMMA FinishRests == ASSUME PolicySetting, NEW a, Finish(a, 0) PROVE Rests
BY DEF PolicySetting, Finish, Rests

LEMMA FinishSpendingRests == ASSUME PolicySetting, NEW a, FinishSpending(a) PROVE Rests
<1>1. Finish(a, 0)
  BY DEF PolicySetting, FinishSpending
<1> QED BY <1>1, FinishRests

\* Of a chain, only the last member tags along.
LEMMA OnlyLastPays ==
  ASSUME PolicySetting, NEW t, ~LastOfRound(t)
  PROVE  TagAlongFee = 0 /\ LeavesRemainder(t.content.total, t.content.fee)
BY DEF PolicySetting, LastOfRound, LastMember, RoundSize, TagAlongFee, IncludeTagAlong

LEMMA AcknowledgeCases ==
  ASSUME IInv, PolicySetting, NEW t, Acknowledge(t), t.content.fee = TagAlongFee
  PROVE  /\ spentSet' = MarkSpent(t) /\ accepted' = accepted \cup {t}
         /\ Rests \/ GoesOn(t)
<1>1. spentSet' = MarkSpent(t) /\ accepted' = accepted \cup {t}
  BY DEF Acknowledge
<1>2. CASE LastOfRound(t)
  <2>1. FinishSpending(TRUE)
    BY <1>2 DEF Acknowledge
  <2>2. Rests
    BY <2>1, FinishSpendingRests
  <2> QED BY <1>1, <2>2
<1>3. CASE ~LastOfRound(t)
  <2>1. ContinueChain(t)
    BY <1>3 DEF Acknowledge, PolicySetting
  <2>2. t.content.fee = 0 /\ LeavesRemainder(t.content.total, t.content.fee)
    BY <1>3, OnlyLastPays
  <2> QED BY <1>1, <2>1, <2>2 DEF ContinueChain, GoesOn
<1> QED BY <1>2, <1>3

-----------------------------------------------------------------------------
(* Where inputs come from. *)

\* Some host lists it, or did.
Fetched(o) == o \in Existing /\ BornIn(o, lrb[0].txids) /\ o.owner = "self"

\* The remainder of an acknowledged member that pays no fee.
ChainLink(o) ==
  \E t \in accepted :
    /\ t.content.fee = 0
    /\ LeavesRemainder(t.content.total, t.content.fee)
    /\ o = RemainderOutput(t.id, t.content)

Sourced(ins) == ins # {} /\ \A o \in ins : Fetched(o) \/ ChainLink(o)

SourceInv ==
  /\ \A o \in outs : Fetched(o)
  /\ Spending =>
       /\ Sourced(inputs)
       /\ member = 0 => \A o \in inputs : Fetched(o)
       /\ member # 0 => \A o \in inputs : ChainLink(o)
  /\ \A t \in Known : Sourced(t.content.ins)
  /\ \A t \in retrying : t.content.fee = TagAlongFee

LEMMA BuiltFee ==
  ASSUME IInv, NEW t, Offers(t)
  PROVE  /\ t \in TransactionType /\ t.content.ins = inputs
         /\ t.content.fee = TagAlongFee
         /\ \A o \in inputs : t.content.ts >= o.ts + Pace
BY BuiltTransaction DEF Offers

LEMMA RunCases ==
  ASSUME IInv, PolicySetting, SourceInv, Run
  PROVE  \/ GivesUp \/ Fetches \/ Starts \/ Wakes
         \/ \E o \in unchecked : Classifies(o)
         \/ \E t : Succeeds(t)
         \/ \E t : Repeats(t)
<1>0. hostIdx = 0
  BY OneHost
<1>1. CASE FetchOutputs
  BY <1>0, <1>1 DEF FetchOutputs, Fetches
<1>2. CASE FetchFails \/ NothingToSpend \/ NoSequencers \/ Underfunded
  <2>1. Finish(FALSE, 0) /\ pc # "wait" /\ UNCHANGED <<spentSet, accepted>>
    BY <1>2 DEF FetchFails, NothingToSpend, NoSequencers, Underfunded, Classified, wallet
  <2>2. Rests
    BY <2>1, FinishRests
  <2> QED BY <2>1, <2>2 DEF GivesUp
<1>3. CASE \E o \in unchecked : Classify(o)
  <2>1. PICK o \in unchecked : Classify(o)
    BY <1>3
  <2>2. Classifies(o)
    BY <2>1 DEF Classify, Classifies
  <2> QED BY <2>2
<1>4. CASE StartSpending
  BY <1>4 DEF StartSpending, Starts, Classified
<1>5. CASE BuildFails
  <2>1. FinishSpending(sentTxs # {}) /\ pc # "wait" /\ UNCHANGED <<spentSet, accepted>>
    BY <1>5 DEF BuildFails
  <2>2. Rests
    BY <2>1, FinishSpendingRests
  <2> QED BY <2>1, <2>2 DEF GivesUp
<1>6. CASE Submit
  <2>1. PICK t \in BuildOneTx : Acknowledge(t)
    BY <1>6 DEF Submit
  <2>2. Offers(t)
    BY <1>6 DEF Submit, Offers
  <2>3. Succeeds(t)
    BY <2>1, <2>2, BuiltFee, AcknowledgeCases DEF Succeeds
  <2> QED BY <2>3
<1>7. CASE SubmitFails
  <2>1. PICK t \in BuildOneTx : retrying' = {t}
    BY <1>7 DEF SubmitFails
  <2>2. Repeats(t)
    BY <1>7, <2>1 DEF SubmitFails, Repeats, Offers
  <2> QED BY <2>2
<1>8. CASE Retry
  <2>1. PICK t \in retrying : Acknowledge(t)
    BY <1>8 DEF Retry
  <2>2. t.content.ins = inputs /\ t.content.fee = TagAlongFee
    BY DEF IInv, RoundOK, SourceInv
  <2>3. Succeeds(t)
    BY <1>8, <2>1, <2>2, AcknowledgeCases DEF Succeeds, Retry
  <2> QED BY <2>3
<1>9. CASE RetryFails
  <2>1. FinishSpending(sentTxs # {}) /\ pc # "wait" /\ UNCHANGED <<spentSet, accepted>>
    BY <1>9 DEF RetryFails, PolicySetting
  <2>2. Rests
    BY <2>1, FinishSpendingRests
  <2> QED BY <2>1, <2>2 DEF GivesUp
<1>10. CASE Wake
  BY <1>10 DEF Wake, Wakes, wallet, fetched, round
<1> QED BY <1>1, <1>2, <1>3, <1>4, <1>5, <1>6, <1>7, <1>8, <1>9, <1>10 DEF Run

\* Nothing but the sender acknowledges, and it forgets nothing.
LEMMA AcceptedGrows ==
  ASSUME IInv, PolicySetting, SourceInv, [Next]_vars
  PROVE  accepted \subseteq accepted'
<1>1. CASE Run
  BY <1>1, RunCases DEF GivesUp, Fetches, Starts, Wakes, Classifies, Succeeds, Repeats
<1>2. CASE Clock \/ Network \/ UNCHANGED vars
  BY <1>2, NetworkCases DEF Clock, vars, senderVars, wallet
<1> QED BY <1>1, <1>2 DEF Next

LEMMA PastGrows ==
  ASSUME PastOK, PolicySetting, [Next]_vars
  PROVE  /\ Existing \subseteq Existing'
         /\ lrb[0].txids \subseteq lrb'[0].txids
<1> USE DEF PastOK
<1>1. Hosts = {0}
  BY OneHost
<1>2. CASE Still \/ (\E d : Deposited(d)) \/ (\E o : Withdrawn(o)) \/ \E C : Included(C)
  <2>1. /\ UNCHANGED lrb /\ PaidIn \subseteq PaidIn' /\ Consolidated \subseteq Consolidated'
    BY <1>2 DEF Still, Deposited, Withdrawn, Included
  <2> QED BY <2>1 DEF Existing, Made
<1>3. CASE \E h \in Hosts : Synced(h)
  <2>1. UNCHANGED <<PaidIn, Consolidated>> /\ lrb' = [lrb EXCEPT ![0] = head]
    BY <1>1, <1>3 DEF Synced
  <2>2. lrb'[0] = head /\ lrb[0].txids \subseteq head.txids
    BY <1>1, <2>1 DEF IInv, LedgerTypeOK, PastInv, LagInv
  <2> QED BY <2>1, <2>2 DEF Existing, Made
<1> QED BY <1>2, <1>3, LedgerStep

LEMMA SourceGrows ==
  ASSUME PastOK, PolicySetting, SourceInv, [Next]_vars
  PROVE  /\ \A o : Fetched(o) => Fetched(o)'
         /\ \A o : ChainLink(o) => ChainLink(o)'
<1>1. \A o : Fetched(o) => Fetched(o)'
  BY PastGrows DEF Fetched, BornIn
<1>2. accepted \subseteq accepted'
  BY AcceptedGrows DEF PastOK
<1>3. \A o : ChainLink(o) => ChainLink(o)'
  BY <1>2 DEF ChainLink
<1> QED BY <1>1, <1>3

LEMMA SourcedGrows ==
  ASSUME PastOK, PolicySetting, SourceInv, [Next]_vars, NEW ins, Sourced(ins)
  PROVE  Sourced(ins)'
BY SourceGrows DEF Sourced

LEMMA KnownSourced ==
  ASSUME PastOK, SourceInv, Run, NEW t \in Known'
  PROVE  Sourced(t.content.ins)
<1>1. CASE t \in Known
  BY <1>1 DEF SourceInv
<1>2. CASE t \notin Known
  <2>1. Adds1
    BY <1>2, SenderStep
  <2>2. Offers(t) /\ Spending
    BY <1>2, <2>1 DEF Adds1, Offers, Spending
  <2>3. t.content.ins = inputs
    BY <2>2, BuiltFee DEF PastOK
  <2> QED BY <2>2, <2>3 DEF SourceInv
<1> QED BY <1>1, <1>2

LEMMA SourceRun ==
  ASSUME PastOK, PolicySetting, SourceInv, Run
  PROVE  SourceInv'
<1>0. [Next]_vars
  BY DEF Next
<1>1. \A o \in outs' : Fetched(o)
  <2>1. CASE Fetches
    <3>1. outs' \subseteq OwnedAt(0)
      BY <2>1 DEF Fetches, Page, kSubset
    <3>2. \A o \in OwnedAt(0) : o \in lrb[0].utxo /\ o.owner = "self"
      BY DEF OwnedAt
    <3>3. 0 \in Hosts
      BY OneHost DEF PastOK
    <3>4. \A o \in lrb[0].utxo : o \in Existing /\ BornIn(o, lrb[0].txids)
      BY <3>3 DEF PastOK, PastInv, LagInv
    <3> QED BY <3>1, <3>2, <3>4 DEF Fetched
  <2>2. CASE outs' \in {outs, {}}
    BY <2>2 DEF SourceInv
  <2> QED BY <2>1, <2>2, RunCases
          DEF PastOK, GivesUp, Starts, Wakes, Classifies, Succeeds, Repeats, Rests, GoesOn
<1>2. \A o \in outs' : Fetched(o)'
  BY <1>0, <1>1, SourceGrows
<1>3. \A t \in Known' : Sourced(t.content.ins)'
  BY <1>0, KnownSourced, SourcedGrows
<1>4. Spending' =>
        /\ Sourced(inputs)'
        /\ member' = 0 => \A o \in inputs' : Fetched(o)'
        /\ member' # 0 => \A o \in inputs' : ChainLink(o)'
  <2>1. CASE Starts
    <3>1. inputs' # {} /\ inputs' \subseteq outs /\ member' = 0
      BY <2>1 DEF Starts, Available
    <3>2. \A o \in inputs' : Fetched(o)'
      BY <1>0, <3>1, SourceGrows DEF SourceInv
    <3> QED BY <3>1, <3>2 DEF Sourced
  <2>2. ASSUME NEW t, Succeeds(t), GoesOn(t)
        PROVE  Sourced(inputs)' /\ member' # 0 /\ \A o \in inputs' : ChainLink(o)'
    <3>1. member \in Nat
      BY DEF PastOK, IInv, TypeOK
    <3>2. \A o \in inputs' : ChainLink(o)'
      BY <2>2 DEF Succeeds, GoesOn, ChainLink
    <3> QED BY <2>2, <3>1, <3>2 DEF GoesOn, Sourced
  <2>3. ASSUME NEW t, Repeats(t)
        PROVE  /\ Sourced(inputs)'
               /\ member' = 0 => \A o \in inputs' : Fetched(o)'
               /\ member' # 0 => \A o \in inputs' : ChainLink(o)'
    <3>1. UNCHANGED <<inputs, member>> /\ Spending
      BY <2>3 DEF Repeats, Offers, Spending
    <3> QED BY <1>0, <3>1, SourceGrows, SourcedGrows DEF SourceInv
  <2>4. ASSUME Rests \/ Fetches \/ Wakes \/ \E o \in unchecked : Classifies(o)
        PROVE  ~Spending'
    BY <2>4 DEF Rests, Fetches, Wakes, Classifies, Spending
  <2>5. CASE \E t : Succeeds(t)
    BY <2>2, <2>4, <2>5 DEF Succeeds
  <2> QED BY <2>1, <2>3, <2>4, <2>5, RunCases DEF PastOK, GivesUp
<1>5. \A t \in retrying' : t.content.fee = TagAlongFee'
  <2>1. ASSUME NEW t, Repeats(t) PROVE t.content.fee = TagAlongFee'
    <3>1. UNCHANGED <<member, seqs>> /\ t.content.fee = TagAlongFee
      BY <2>1, BuiltFee DEF Repeats, PastOK
    <3> QED BY <3>1 DEF TagAlongFee, IncludeTagAlong, Sequencer
  <2>2. ASSUME Fetches \/ Starts \/ Wakes \/ \E o \in unchecked : Classifies(o)
        PROVE  retrying' = {}
    BY <2>2 DEF Fetches, Starts, Wakes, Classifies, PastOK, IInv, TypeOK
  <2>3. ASSUME GivesUp \/ \E t : Succeeds(t) PROVE retrying' = {}
    BY <2>3 DEF GivesUp, Succeeds, Rests, GoesOn
  <2>4. (\E t : Repeats(t)) => \E t : Repeats(t) /\ retrying' = {t}
    BY DEF Repeats
  <2> QED BY <2>1, <2>2, <2>3, <2>4, RunCases DEF PastOK
<1> QED BY <1>2, <1>3, <1>4, <1>5 DEF SourceInv

LEMMA Outside ==
  ASSUME Clock \/ Network \/ UNCHANGED vars
  PROVE  UNCHANGED <<senderVars, delivered>>
BY NetworkCases DEF Clock, Tick, vars, ledgerVars

LEMMA SourceStep ==
  ASSUME PastOK, PolicySetting, SourceInv, [Next]_vars
  PROVE  SourceInv'
<1>1. CASE Clock \/ Network \/ UNCHANGED vars
  <2>1. UNCHANGED <<senderVars, delivered>>
    BY <1>1, Outside
  <2>2. UNCHANGED <<pc, outs, inputs, member, seqs, retrying, Known, Spending, TagAlongFee>>
    BY <2>1 DEF senderVars, fetched, round, Known, Spending, TagAlongFee,
                IncludeTagAlong, Sequencer
  <2>3. \A o \in outs : Fetched(o)'
    BY SourceGrows DEF SourceInv
  <2>4. Spending =>
          /\ Sourced(inputs)'
          /\ member = 0 => \A o \in inputs : Fetched(o)'
          /\ member # 0 => \A o \in inputs : ChainLink(o)'
    BY <2>2, SourceGrows DEF SourceInv, Sourced
  <2>5. \A t \in Known : Sourced(t.content.ins)'
    BY SourcedGrows DEF SourceInv
  <2>6. \A t \in retrying : t.content.fee = TagAlongFee
    BY DEF SourceInv
  <2> QED BY <2>2, <2>3, <2>4, <2>5, <2>6 DEF SourceInv
<1> QED BY <1>1, SourceRun DEF Next

-----------------------------------------------------------------------------
(* Links of a chain are never seen. *)

\* A member without a fee reaches the network only with the next one, which
\* takes its remainder.
HiddenInv ==
  \A t \in Known : t.content.fee = 0 => RemainderOutput(t.id, t.content) \notin head.utxo

LEMMA HiddenRun ==
  ASSUME PastOK, HiddenInv, Run
  PROVE  HiddenInv'
<1>1. UNCHANGED head
  BY SenderStep
<1>2. SUFFICES ASSUME NEW t \in Known', t \notin Known
               PROVE  RemainderOutput(t.id, t.content) \notin head.utxo
  BY <1>1 DEF HiddenInv
<1>3. t.id = nTx + 1 /\ nTx \in Nat
  BY <1>2, SenderStep, BuiltId DEF Adds1, Known, PastOK, IInv, TypeOK
<1>4. t.id \notin head.txids
  BY <1>3, IncludedIsDelivered DEF PastOK, IdInv, Known
<1>5. \A o \in head.utxo : o.tx <= 0 \/ o.tx \in head.txids
  BY DepositFacts DEF PastOK, PastInv, BirthInv, BornIn
<1>6. RemainderOutput(t.id, t.content).tx = t.id
  BY DEF RemainderOutput, Output
<1> QED BY <1>3, <1>4, <1>5, <1>6

\* An output that a transaction yet to be included produces is no input of
\* anything, unless it is the remainder of a link.
LEMMA OnlyLinksAhead ==
  ASSUME PastOK, PolicySetting, SourceInv, NEW t \in delivered, t.id \notin head.txids,
         NEW u \in Known, NEW o \in Produced(t), o \in Consumed(u)
  PROVE  o = RemainderOutput(t.id, t.content)
<1>1. o.tx = t.id /\ t.id \in Int /\ t.id > 0
  BY ProducedBy DEF PastOK, IdInv, Known
<1>2. ~Fetched(o)
  <2>1. 0 \in Hosts
    BY OneHost DEF PastOK
  <2>2. lrb[0].txids \subseteq head.txids
    BY <2>1 DEF PastOK, PastInv, LagInv
  <2> QED BY <1>1, <2>2, DepositFacts DEF Fetched, BornIn
<1>3. ChainLink(o)
  BY <1>2 DEF SourceInv, Sourced, Consumed
<1>4. PICK s \in accepted : o = RemainderOutput(s.id, s.content)
  BY <1>3 DEF ChainLink
<1>5. s.id = t.id
  BY <1>1, <1>4 DEF RemainderOutput, Output
<1>6. s = t
  BY <1>5 DEF PastOK, IInv, TypeOK, IdInv, Known
<1> QED BY <1>4, <1>6

LEMMA HiddenIncluded ==
  ASSUME PastOK, PolicySetting, SourceInv, HiddenInv, NEW C, Included(C)
  PROVE  HiddenInv'
<1>1. /\ C \subseteq delivered /\ Includable(C)
      /\ head'.utxo = (head.utxo \cup Made(C)) \ Used(C)
      /\ UNCHANGED Known
  BY DEF Included, Known, senderVars, round
<1>2. SUFFICES ASSUME NEW t \in Known, t.content.fee = 0,
                      RemainderOutput(t.id, t.content) \in Made(C)
               PROVE  RemainderOutput(t.id, t.content) \in Used(C)
  BY <1>1 DEF HiddenInv
<1> DEFINE r == RemainderOutput(t.id, t.content)
<1>3. PICK u \in C : r \in Produced(u)
  BY <1>2 DEF Made
<1>4. r.tx = t.id
  BY DEF RemainderOutput, Output
<1>5. u.id = t.id
  BY <1>3, <1>4, ProducedBy
<1>6. u = t
  BY <1>1, <1>5 DEF PastOK, IdInv, Known
<1>7. PICK v \in C : Produced(t) \cap Consumed(v) # {}
  <2>1. ~(t.content.fee > 0)
    BY <1>2
  <2> QED BY <1>1, <1>6, <2>1 DEF Includable
<1>8. PICK o \in Produced(t) : o \in Consumed(v)
  BY <1>7
<1>9. t \in delivered /\ t.id \notin head.txids /\ v \in Known
  BY <1>1, <1>6 DEF Includable, Known
<1>10. o = r
  BY <1>8, <1>9, OnlyLinksAhead
<1> QED BY <1>8, <1>10 DEF Used

LEMMA HiddenStep ==
  ASSUME PastOK, PolicySetting, SourceInv, HiddenInv, [Next]_vars
  PROVE  HiddenInv'
<1>1. CASE Run
  BY <1>1, HiddenRun
<1>2. CASE Clock \/ Network \/ UNCHANGED vars
  <2>1. UNCHANGED Known
    BY <1>2, Outside DEF Known, senderVars, round
  <2>2. ASSUME NEW d, Deposited(d) PROVE HiddenInv'
    <3>1. head'.utxo = head.utxo \cup {d} /\ d.tx <= 0 /\ d.tx \in Int
      BY <2>2, DepositFacts DEF Deposited
    <3>2. \A t \in Known : RemainderOutput(t.id, t.content).tx = t.id
                           /\ t.id > 0 /\ t.id \in Int
      BY DEF RemainderOutput, Output, PastOK, IdInv
    <3> QED BY <2>1, <3>1, <3>2 DEF HiddenInv
  <2>3. ASSUME head'.utxo \subseteq head.utxo PROVE HiddenInv'
    BY <2>1, <2>3 DEF HiddenInv
  <2>4. Still \/ (\E o : Withdrawn(o)) \/ (\E h \in Hosts : Synced(h))
          => head'.utxo \subseteq head.utxo
    BY DEF Still, Withdrawn, Synced
  <2> QED BY <2>2, <2>3, <2>4, HiddenIncluded, LedgerStep DEF PastOK
<1> QED BY <1>1, <1>2 DEF Next

\* What a transaction consumed and is gone does not come back.
LEMMA NeverBack ==
  ASSUME PastOK, PolicySetting, SourceInv, HiddenInv, [Next]_vars,
         NEW t \in Known, NEW o \in Consumed(t), o \in head'.utxo
  PROVE  o \in head.utxo
<1>1. CASE Run
  BY <1>1, SenderStep
<1>2. CASE Clock \/ Network \/ UNCHANGED vars
  <2>1. UNCHANGED Known
    BY <1>2, Outside DEF Known, senderVars, round
  <2>2. ~ChainLink(o)
    <3> SUFFICES ASSUME NEW s \in accepted, s.content.fee = 0,
                        o = RemainderOutput(s.id, s.content)
                 PROVE  FALSE
      BY DEF ChainLink
    <3>1. s \in Known
      BY DEF PastOK, IInv, TypeOK, Known
    <3> QED BY <2>1, <3>1, HiddenStep DEF HiddenInv
  <2>3. Fetched(o)
    BY <2>2 DEF SourceInv, Sourced, Consumed
  <2>4. BornIn(o, head.txids)
    BY <2>3 DEF Fetched, PastOK, PastInv, BirthInv
  <2>5. CASE \E C : Included(C)
    <3>1. PICK C : Included(C)
      BY <2>5
    <3>2. o \notin Made(C)
      BY <2>4, <3>1, DepositFacts DEF Included, BornIn
    <3> QED BY <3>1, <3>2 DEF Included
  <2>6. CASE \E d : Deposited(d)
    <3>1. PICK d : Deposited(d)
      BY <2>6
    <3>2. o # d
      BY <2>4, <3>1, DepositFacts DEF Deposited, BornIn
    <3> QED BY <3>1, <3>2 DEF Deposited
  <2>7. CASE Still \/ (\E x : Withdrawn(x)) \/ \E h \in Hosts : Synced(h)
    BY <2>7 DEF Still, Withdrawn, Synced
  <2> QED BY <2>5, <2>6, <2>7, LedgerStep DEF PastOK
<1> QED BY <1>1, <1>2 DEF Next

-----------------------------------------------------------------------------
(* Time. *)

InRound == pc \in {"classify", "build", "retry"}

\* The transaction consumes something the network still has.
First(t) == Consumed(t) \cap head.utxo # {}

\* Timestamps of such transactions do not lie ahead: when a round begins they
\* have come, and their slots are no later than the round's.
OnTime(ts) ==
  /\ Spending => ts <= now + Pace
  /\ pc = "wait" => ts <= wakeAt
  /\ pc \in {"start", "classify"} => ts <= now
  /\ pc = "classify" => Slot(ts) <= currentSlot

TimeInv ==
  /\ InRound => currentSlot <= Slot(now)
  /\ Spending => now <= LastSpendTick
  /\ now <= LastSpendTick => \A t \in accepted : First(t) => OnTime(t.content.ts)
  /\ \A t \in retrying :
       /\ currentSlot <= Slot(t.content.ts)
       /\ First(t) => t.content.ts <= now + Pace

LEMMA TimeTypes ==
  ASSUME IInv
  PROVE  /\ now \in Nat /\ Pace \in Nat \ {0} /\ wakeAt \in Nat /\ currentSlot \in Nat
         /\ LastSpendTick \in Nat /\ MaxTick \in Nat /\ Slot(now) \in Nat
         /\ \A t \in Known : t.content.ts \in Nat /\ Slot(t.content.ts) \in Nat
<1>1. now \in Nat /\ wakeAt \in Nat /\ currentSlot \in Nat
  BY ConstantTypes DEF IInv, TypeOK
<1>2. \A t \in Known : t.content.ts \in Nat
  BY DEF Known, IInv, TypeOK, TransactionType, ContentType
<1>3. LastSpendTick \in Nat
  BY SenderAssumption
<1> QED BY <1>1, <1>2, <1>3, SlotType, ConstantTypes

\* The timestamp of a transaction is the clock, or a pace after an input.
LEMMA BuiltTime ==
  ASSUME PastOK, PolicySetting, NEW t, Offers(t)
  PROVE  /\ t.content.ts \in Nat /\ t.content.ts >= now
         /\ t.content.ts = now \/ \E o \in inputs : t.content.ts = o.ts + Pace
<1>1. PICK ts \in PickTimestamp(inputs), to \in Targets : t = Transaction(Content(ts, to))
  BY DEF Offers, BuildOneTx, PolicySetting
<1>2. t.content = Content(ts, to)
  <2>1. CASE \E u \in delivered : u.content = Content(ts, to)
    BY <1>1, <2>1 DEF Transaction
  <2>2. CASE ~ \E u \in delivered : u.content = Content(ts, to)
    BY <1>1, <2>2 DEF Transaction
  <2> QED BY <2>1, <2>2
<1>3. t.content.ts = ts
  BY <1>2 DEF Content
<1>4. PICK l \in PaceLowerBound(inputs) : ts \in l .. (l + JitterTicks)
  BY <1>1 DEF PickTimestamp
<1>5. now \in Nat /\ Pace \in Nat
  BY TimeTypes DEF PastOK
<1>6. \A o \in inputs : o.ts \in Nat
  BY DEF PastOK, IInv, TypeOK, OutputType
<1>7. /\ l \in Nat /\ l >= now
      /\ l = now \/ \E o \in inputs : l = o.ts + Pace
  BY <1>5, <1>6 DEF PaceLowerBound
<1>8. ts = l
  BY <1>4, <1>7 DEF PolicySetting
<1> QED BY <1>3, <1>7, <1>8

\* An input the network still has was fetched, and so were the others.
LEMMA SeenInputs ==
  ASSUME PastOK, SourceInv, HiddenInv, Spending, inputs \cap head.utxo # {}
  PROVE  \A o \in inputs : o.ts \in Nat /\ o.ts <= now
<1>1. \A o \in inputs \cap head.utxo : ~ChainLink(o)
  BY DEF ChainLink, HiddenInv, Known, PastOK, IInv, TypeOK
<1>2. member = 0
  BY <1>1 DEF SourceInv
<1>3. \A o \in inputs : o \in Existing
  BY <1>2 DEF SourceInv, Fetched
<1>4. \A o \in OutputType : o.ts \in Nat
  BY DEF OutputType
<1> QED BY <1>3, <1>4, ExistingType DEF PastOK, PastInv, BirthInv

LEMMA OfferedTime ==
  ASSUME PastOK, PolicySetting, SourceInv, HiddenInv, TimeInv, NEW t, Offers(t)
  PROVE  /\ currentSlot <= Slot(t.content.ts)
         /\ First(t) => t.content.ts <= now + Pace
<1>1. /\ t.content.ts \in Nat /\ t.content.ts >= now
      /\ t.content.ts = now \/ \E o \in inputs : t.content.ts = o.ts + Pace
  BY BuiltTime
<1>2. now \in Nat /\ Pace \in Nat /\ currentSlot \in Nat /\ Slot(now) \in Nat
  BY TimeTypes DEF PastOK
<1>3. currentSlot <= Slot(t.content.ts)
  <2>1. currentSlot <= Slot(now)
    BY DEF TimeInv, InRound, Offers
  <2>2. Slot(now) <= Slot(t.content.ts) /\ Slot(t.content.ts) \in Nat
    BY <1>1, <1>2, SlotMonotone, SlotType
  <2> QED BY <1>2, <2>1, <2>2
<1>4. ASSUME First(t) PROVE t.content.ts <= now + Pace
  <2>1. Spending /\ inputs \cap head.utxo # {}
    BY <1>4, BuiltFee DEF First, Consumed, Offers, Spending, PastOK
  <2>2. \A o \in inputs : o.ts \in Nat /\ o.ts <= now
    BY <2>1, SeenInputs
  <2> QED BY <1>1, <1>2, <2>2
<1> QED BY <1>3, <1>4

LEMMA SucceedsTime ==
  ASSUME PastOK, PolicySetting, SourceInv, HiddenInv, TimeInv, NEW t, Succeeds(t)
  PROVE  /\ Spending /\ t.content.ts \in Nat /\ currentSlot <= Slot(t.content.ts)
         /\ First(t) => t.content.ts <= now + Pace
<1>1. CASE Offers(t)
  BY <1>1, OfferedTime, BuiltTime DEF Offers, Spending
<1>2. CASE pc = "retry" /\ t \in retrying
  BY <1>2, TimeTypes DEF TimeInv, Spending, Known, PastOK
<1> QED BY <1>1, <1>2 DEF Succeeds

LEMMA NothingToRetry == ASSUME IInv, pc # "retry" PROVE retrying = {}
BY DEF IInv, TypeOK

LEMMA TimeRun ==
  ASSUME PastOK, PolicySetting, SourceInv, HiddenInv, TimeInv, Run
  PROVE  TimeInv'
<1>0. /\ now \in Nat /\ Pace \in Nat \ {0} /\ wakeAt \in Nat /\ currentSlot \in Nat
      /\ LastSpendTick \in Nat /\ MaxTick \in Nat
      /\ \A t \in accepted : t.content.ts \in Nat /\ Slot(t.content.ts) \in Nat
  BY TimeTypes DEF PastOK, IInv, TypeOK, Known
<1>1. UNCHANGED <<now, head>>
  BY SenderStep
<1>2. \A t : First(t)' <=> First(t)
  BY <1>1 DEF First, Consumed
<1>3. /\ InRound => currentSlot <= Slot(now)
      /\ Spending => now <= LastSpendTick
      /\ now <= LastSpendTick => \A t \in accepted : First(t) => OnTime(t.content.ts)
  BY DEF TimeInv
<1>4. SUFFICES /\ InRound' => currentSlot' <= Slot(now)
               /\ Spending' => now <= LastSpendTick
               /\ now <= LastSpendTick =>
                    \A t \in accepted' : First(t) => OnTime(t.content.ts)'
               /\ \A t \in retrying' :
                    /\ currentSlot' <= Slot(t.content.ts)
                    /\ First(t) => t.content.ts <= now + Pace
  BY <1>1, <1>2 DEF TimeInv, Slot
<1>5. CASE GivesUp
  <2>1. pc' = "wait" /\ wakeAt' = now + Pace /\ retrying' = {} /\ accepted' = accepted
        /\ pc # "wait"
    BY <1>5 DEF GivesUp, Rests
  <2>2. \A ts \in Nat : OnTime(ts) => OnTime(ts)'
    BY <1>0, <1>1, <2>1 DEF OnTime, Spending, IInv, TypeOK, PastOK
  <2> QED BY <1>0, <1>3, <2>1, <2>2 DEF InRound, Spending
<1>6. CASE Fetches
  <2>1. /\ pc = "start" /\ pc' = "classify" /\ currentSlot' = Slot(now)
        /\ accepted' = accepted /\ retrying' = {}
    BY <1>6, NothingToRetry DEF Fetches, PastOK
  <2>2. \A ts \in Nat : ts <= now => Slot(ts) <= Slot(now)
    BY <1>0, SlotMonotone
  <2>3. \A ts \in Nat : OnTime(ts) => OnTime(ts)'
    BY <1>1, <2>1, <2>2 DEF OnTime, Spending, Slot
  <2>4. currentSlot' <= Slot(now)
    BY <1>0, <2>1, SlotMonotone
  <2> QED BY <1>0, <1>3, <2>1, <2>3, <2>4 DEF InRound, Spending
<1>7. CASE \E o \in unchecked : Classifies(o)
  <2>1. /\ pc = "classify" /\ pc' = "classify" /\ currentSlot' = currentSlot
        /\ accepted' = accepted /\ retrying' = {}
    BY <1>7, NothingToRetry DEF Classifies, PastOK
  <2>2. \A ts \in Nat : OnTime(ts) => OnTime(ts)'
    BY <1>1, <2>1 DEF OnTime, Spending, Slot
  <2> QED BY <1>0, <1>3, <2>1, <2>2 DEF InRound, Spending
<1>8. CASE Starts
  <2>1. /\ pc = "classify" /\ pc' = "build" /\ currentSlot' = currentSlot
        /\ accepted' = accepted /\ retrying' = {} /\ now <= LastSpendTick
    BY <1>8, NothingToRetry DEF Starts, PastOK
  <2>2. \A ts \in Nat : OnTime(ts) => OnTime(ts)'
    BY <1>0, <1>1, <2>1 DEF OnTime, Spending
  <2> QED BY <1>0, <1>3, <2>1, <2>2 DEF InRound
<1>9. CASE Wakes
  <2>1. /\ pc = "wait" /\ pc' = "start" /\ accepted' = accepted /\ retrying' = {}
        /\ now >= wakeAt \/ now = MaxTick
    BY <1>9, NothingToRetry DEF Wakes, PastOK
  <2>2. now <= LastSpendTick => now >= wakeAt
    BY <1>0, <2>1 DEF PolicySetting
  <2>3. now >= wakeAt => \A ts \in Nat : OnTime(ts) => OnTime(ts)'
    BY <1>0, <1>1, <2>1 DEF OnTime, Spending
  <2> QED BY <1>0, <1>3, <2>1, <2>2, <2>3 DEF InRound, Spending
<1>10. ASSUME NEW t, Succeeds(t)
       PROVE  /\ InRound' => currentSlot' <= Slot(now)
              /\ Spending' => now <= LastSpendTick
              /\ now <= LastSpendTick =>
                   \A u \in accepted' : First(u) => OnTime(u.content.ts)'
              /\ \A u \in retrying' :
                   /\ currentSlot' <= Slot(u.content.ts)
                   /\ First(u) => u.content.ts <= now + Pace
  <2>1. Spending /\ t.content.ts \in Nat /\ (First(t) => t.content.ts <= now + Pace)
    BY <1>10, SucceedsTime
  <2>2. accepted' = accepted \cup {t} /\ retrying' = {}
    BY <1>10 DEF Succeeds, Rests, GoesOn
  <2>3. \/ pc' = "wait" /\ wakeAt' = now + Pace
        \/ pc' = "build" /\ currentSlot' = currentSlot
    BY <1>10 DEF Succeeds, Rests, GoesOn
  <2>4. \A ts \in Nat : ts <= now + Pace => OnTime(ts)'
    BY <1>1, <2>3 DEF OnTime, Spending
  <2>5. \A ts \in Nat : OnTime(ts) => ts <= now + Pace
    BY <2>1 DEF OnTime
  <2>6. now <= LastSpendTick => \A u \in accepted' : First(u) => OnTime(u.content.ts)'
    BY <1>0, <1>3, <2>1, <2>2, <2>4, <2>5
  <2> QED BY <1>3, <2>1, <2>2, <2>3, <2>6 DEF InRound, Spending
<1>11. ASSUME NEW t, Repeats(t)
       PROVE  /\ InRound' => currentSlot' <= Slot(now)
              /\ Spending' => now <= LastSpendTick
              /\ now <= LastSpendTick =>
                   \A u \in accepted' : First(u) => OnTime(u.content.ts)'
              /\ \A u \in retrying' :
                   /\ currentSlot' <= Slot(u.content.ts)
                   /\ First(u) => u.content.ts <= now + Pace
  <2>1. /\ pc = "build" /\ pc' = "retry" /\ currentSlot' = currentSlot
        /\ accepted' = accepted /\ retrying' = {t} /\ Offers(t)
    BY <1>11 DEF Repeats, Offers
  <2>2. /\ currentSlot <= Slot(t.content.ts)
        /\ First(t) => t.content.ts <= now + Pace
    BY <2>1, OfferedTime
  <2>3. \A ts \in Nat : OnTime(ts) => OnTime(ts)'
    BY <1>1, <2>1 DEF OnTime, Spending
  <2> QED BY <1>0, <1>3, <2>1, <2>2, <2>3 DEF InRound, Spending
<1> QED BY <1>5, <1>6, <1>7, <1>8, <1>9, <1>10, <1>11, RunCases DEF PastOK

LEMMA TimeStep ==
  ASSUME PastOK, PolicySetting, SourceInv, HiddenInv, TimeInv, [Next]_vars
  PROVE  TimeInv'
<1>1. CASE Clock \/ Network \/ UNCHANGED vars
  <2>1. UNCHANGED <<pc, currentSlot, wakeAt, accepted, retrying>>
    BY <1>1, Outside DEF senderVars, wallet, fetched, round
  <2>2. /\ now' = now \/ (now' = now + 1 /\ (Spending => now < LastSpendTick))
    BY <1>1, NetworkCases DEF Clock, Tick, vars, ledgerVars, Spending
  <2>3. /\ now \in Nat /\ Pace \in Nat \ {0} /\ wakeAt \in Nat /\ currentSlot \in Nat
        /\ LastSpendTick \in Nat /\ MaxTick \in Nat /\ Slot(now) \in Nat
        /\ \A t \in Known : t.content.ts \in Nat /\ Slot(t.content.ts) \in Nat
    BY TimeTypes DEF PastOK
  <2>4. Slot(now) <= Slot(now')
    BY <2>2, <2>3, SlotMonotone
  <2>5. Slot(now') \in Nat
    BY <2>2, <2>3, SlotType
  <2>6. \A t \in Known : First(t)' => First(t)
    BY NeverBack DEF First, Consumed
  <2>7. accepted \subseteq Known /\ retrying \subseteq Known
    BY DEF Known, PastOK, IInv, TypeOK
  <2>8. \A ts \in Nat : OnTime(ts) => OnTime(ts)'
    BY <2>1, <2>2, <2>3 DEF OnTime, Spending, Slot
  <2>9. InRound' => currentSlot' <= Slot(now')
    BY <2>1, <2>3, <2>4, <2>5 DEF TimeInv, InRound
  <2>10. Spending' => now' <= LastSpendTick
    BY <2>1, <2>2, <2>3 DEF TimeInv, Spending
  <2>11. now' <= LastSpendTick => \A t \in accepted' : First(t)' => OnTime(t.content.ts)'
    <3>1. now' <= LastSpendTick => now <= LastSpendTick
      BY <2>2, <2>3
    <3> QED BY <2>1, <2>3, <2>6, <2>7, <2>8, <3>1 DEF TimeInv
  <2>12. \A t \in retrying' : /\ currentSlot' <= Slot(t.content.ts)
                              /\ First(t)' => t.content.ts <= now' + Pace
    BY <2>1, <2>2, <2>3, <2>6, <2>7 DEF TimeInv
  <2> QED BY <2>9, <2>10, <2>11, <2>12 DEF TimeInv, Slot
<1> QED BY <1>1, TimeRun DEF Next

-----------------------------------------------------------------------------
(* No output is spent too soon. *)

\* The slot the sender will hold against the entries of spentSet, at the
\* latest.
RefSlot == IF InRound THEN currentSlot ELSE Slot(now)

Recalled(o, t) == o \in DOMAIN spentSet /\ spentSet[o].slot >= Slot(t.content.ts)

Overdue(t) == RefSlot - Slot(t.content.ts) >= FinalityTimeoutSlots

\* What an acknowledged transaction consumes and the network still has is
\* remembered, until the transaction is overdue.
CoreInv ==
  now <= LastSpendTick =>
    \A t \in accepted : \A o \in Consumed(t) \cap head.utxo : Recalled(o, t) \/ Overdue(t)

\* What a round spends again was given up by then.
ReservedInv ==
  Spending =>
    \A t \in accepted : inputs \cap head.utxo \cap Consumed(t) # {} => Overdue(t)

SpendInv == /\ PastOK /\ SourceInv /\ HiddenInv /\ TimeInv
            /\ CoreInv /\ ReservedInv

LEMMA RefSlotGrows ==
  ASSUME PastOK, PolicySetting, SourceInv, HiddenInv, TimeInv, [Next]_vars
  PROVE  RefSlot \in Nat /\ RefSlot' \in Nat /\ RefSlot <= RefSlot'
<1>1. now \in Nat /\ currentSlot \in Nat /\ Slot(now) \in Nat
  BY TimeTypes DEF PastOK
<1>2. InRound => currentSlot <= Slot(now)
  BY DEF TimeInv
<1>3. RefSlot \in Nat /\ RefSlot <= Slot(now)
  BY <1>1, <1>2 DEF RefSlot
<1>4. CASE Clock \/ Network \/ UNCHANGED vars
  <2>1. UNCHANGED <<pc, currentSlot>>
    BY <1>4, Outside DEF senderVars, fetched
  <2>2. now' \in Nat /\ now <= now'
    BY <1>1, <1>4, NetworkCases DEF Clock, Tick, vars, ledgerVars
  <2>3. Slot(now') \in Nat /\ Slot(now) <= Slot(now')
    BY <1>1, <2>2, SlotType, SlotMonotone
  <2> QED BY <1>1, <2>1, <2>3 DEF RefSlot, InRound, Slot
<1>5. CASE Run
  <2>1. now' = now /\ Slot(now)' = Slot(now)
    BY <1>5, SenderStep DEF Slot
  <2>2. CASE GivesUp \/ \E t : Succeeds(t) /\ Rests
    <3>1. ~InRound'
      BY <2>2 DEF GivesUp, Rests, InRound
    <3> QED BY <1>1, <1>3, <2>1, <3>1 DEF RefSlot
  <2>3. CASE Wakes
    <3>1. ~InRound'
      BY <2>3 DEF Wakes, InRound
    <3> QED BY <1>1, <1>3, <2>1, <3>1 DEF RefSlot
  <2>4. CASE Fetches
    <3>1. InRound' /\ currentSlot' = Slot(now)
      BY <2>4 DEF Fetches, InRound
    <3> QED BY <1>1, <1>3, <3>1 DEF RefSlot
  <2>5. CASE \/ Starts \/ (\E o \in unchecked : Classifies(o))
             \/ (\E t : Repeats(t)) \/ \E t : Succeeds(t) /\ GoesOn(t)
    <3>1. InRound /\ InRound' /\ currentSlot' = currentSlot
      BY <2>5 DEF Starts, Classifies, Repeats, Succeeds, GoesOn, Offers, InRound
    <3> QED BY <1>1, <1>3, <3>1 DEF RefSlot
  <2> QED BY <1>5, <2>2, <2>3, <2>4, <2>5, RunCases DEF PastOK, Succeeds
<1> QED BY <1>4, <1>5 DEF Next

\* Time only makes a transaction more overdue.
LEMMA OverdueStays ==
  ASSUME PastOK, PolicySetting, SourceInv, HiddenInv, TimeInv, [Next]_vars,
         NEW t \in Known, Overdue(t)
  PROVE  Overdue(t)'
<1>1. RefSlot \in Nat /\ RefSlot' \in Nat /\ RefSlot <= RefSlot'
  BY RefSlotGrows
<1>2. Slot(t.content.ts) \in Nat
  BY TimeTypes DEF PastOK
<1>3. FinalityTimeoutSlots \in Nat
  BY SenderAssumption
<1>4. Slot(t.content.ts)' = Slot(t.content.ts)
  BY DEF Slot
<1> QED BY <1>1, <1>2, <1>3, <1>4 DEF Overdue

\* A spender the network still waits for is in no branch of the host.
LEMMA NotFinalized ==
  ASSUME PastOK, PolicySetting, NEW o \in DOMAIN spentSet, o \in head.utxo
  PROVE  ~KnownAt(clnt, spentSet[o].tx)
<1>1. PICK t \in accepted : o \in Consumed(t)
                            /\ spentSet[o] = [tx |-> t.id, slot |-> Slot(t.content.ts)]
  BY DEF PastOK, IInv, SpentSetSound
<1>2. t \notin Consolidated
  BY <1>1 DEF PastOK, PastInv, GoneInv
<1>3. t.id \notin head.txids
  BY <1>2 DEF Consolidated, PastOK, IInv, TypeOK
<1>4. lrb[0].txids \subseteq head.txids /\ clnt = 0
  BY OneHost DEF PastOK, PastInv, LagInv
<1> QED BY <1>1, <1>3, <1>4 DEF KnownAt

\* An entry that times out names a transaction that is overdue, and so is
\* every earlier spender.
LEMMA TimedOutIsOverdue ==
  ASSUME PastOK, PolicySetting, TimeInv, now <= LastSpendTick, pc = "classify",
         NEW o \in DOMAIN spentSet, o \in head.utxo, TimedOut(spentSet[o]),
         NEW t \in Known, Recalled(o, t)
  PROVE  Overdue(t)
<1>1. PICK u \in accepted : o \in Consumed(u)
                            /\ spentSet[o] = [tx |-> u.id, slot |-> Slot(u.content.ts)]
  BY DEF PastOK, IInv, SpentSetSound
<1>2. First(u)
  BY <1>1 DEF First
<1>3. Slot(u.content.ts) <= currentSlot
  BY <1>1, <1>2 DEF TimeInv, OnTime
<1>4. /\ currentSlot \in Nat /\ Slot(u.content.ts) \in Nat /\ Slot(t.content.ts) \in Nat
  BY <1>1, TimeTypes DEF PastOK, IInv, TypeOK, Known
<1>5. FinalityTimeoutSlots \in Nat /\ SlotModulus \in Nat \ {0}
  BY SenderAssumption
<1>6. (currentSlot - Slot(u.content.ts)) % SlotModulus >= FinalityTimeoutSlots
  BY <1>1 DEF TimedOut, SlotsSince
<1>7. currentSlot - Slot(u.content.ts) >= FinalityTimeoutSlots
  <2> DEFINE a == currentSlot - Slot(u.content.ts)
  <2>1. a \in Nat /\ a % SlotModulus >= FinalityTimeoutSlots
    BY <1>3, <1>4, <1>6
  <2> HIDE DEF a
  <2>2. a % SlotModulus <= a
    BY <1>5, <2>1
  <2>3. a >= FinalityTimeoutSlots
    BY <1>5, <2>1, <2>2
  <2> QED BY <2>3 DEF a
<1>8. Slot(u.content.ts) >= Slot(t.content.ts)
  BY <1>1 DEF Recalled
<1>9. RefSlot = currentSlot
  BY DEF RefSlot, InRound
<1> QED BY <1>4, <1>5, <1>7, <1>8, <1>9 DEF Overdue

\* What a fetch sees of the spent outputs is all the network has of them.
LEMMA FetchedAll ==
  ASSUME PastOK, PolicySetting, FetchFits, SourceInv, HiddenInv, Fetches,
         NEW t \in accepted, NEW o \in Consumed(t) \cap head.utxo
  PROVE  o \in outs'
<1>1. t \in Known
  BY DEF PastOK, IInv, TypeOK, Known
<1>2. ~ChainLink(o)
  BY DEF ChainLink, HiddenInv, Known, PastOK, IInv, TypeOK
<1>3. Fetched(o)
  BY <1>1, <1>2 DEF SourceInv, Sourced, Consumed
<1>4. 0 \in Hosts
  BY OneHost DEF PastOK
<1>5. o \in lrb[0].utxo
  BY <1>3, <1>4 DEF Fetched, PastOK, PastInv, LagInv
<1>6. o \in OwnedAt(0)
  BY <1>3, <1>5 DEF Fetched, OwnedAt
<1>7. outs' = OwnedAt(0)
  BY DEF Fetches, FetchFits, Page
<1> QED BY <1>6, <1>7

\* What the sender recalls, it recalls until the spender is overdue.
LEMMA RecalledOrOverdue ==
  ASSUME SpendInv, PolicySetting, FetchFits, Run, now <= LastSpendTick,
         NEW t \in accepted, NEW o \in Consumed(t) \cap head.utxo, Recalled(o, t)
  PROVE  Recalled(o, t)' \/ Overdue(t)'
<1> USE DEF SpendInv
<1>0. [Next]_vars /\ t \in Known
  BY DEF Next, PastOK, IInv, TypeOK, Known
<1>1. CASE spentSet' = spentSet
  BY <1>1 DEF Recalled, Slot
<1>2. CASE Fetches
  <2>1. o \in outs' \cap DOMAIN spentSet
    BY <1>2, FetchedAll DEF Recalled
  <2>2. spentSet' = [q \in outs' \cap DOMAIN spentSet |-> spentSet[q]]
    BY <1>2 DEF Fetches, Restrict
  <2>3. o \in DOMAIN spentSet' /\ spentSet'[o] = spentSet[o]
    BY <2>1, <2>2
  <2> QED BY <2>3 DEF Recalled, Slot
<1>3. CASE \E q \in unchecked : Classifies(q)
  <2>1. PICK q \in unchecked : Classifies(q)
    BY <1>3
  <2>2. pc = "classify" /\ o \in DOMAIN spentSet
    BY <2>1 DEF Classifies, Recalled
  <2>3. CASE q # o
    <3>1. \/ spentSet' = spentSet
          \/ spentSet' = [p \in DOMAIN spentSet \ {q} |-> spentSet[p]]
      BY <2>1 DEF Classifies, CheckFails, DropFinalized, KeepOrReclaim, Restrict
    <3>2. o \in DOMAIN spentSet' /\ spentSet'[o] = spentSet[o]
      BY <2>2, <2>3, <3>1
    <3> QED BY <3>2 DEF Recalled, Slot
  <2>4. CASE q = o
    <3>1. ~KnownAt(clnt, spentSet[o].tx)
      BY <2>2, NotFinalized
    <3>2. spentSet' = spentSet \/ TimedOut(spentSet[o])
      BY <2>1, <2>4, <3>1 DEF Classifies, CheckFails, DropFinalized, KeepOrReclaim
    <3>3. CASE TimedOut(spentSet[o])
      <4>1. Overdue(t)
        BY <1>0, <2>2, <3>3, TimedOutIsOverdue
      <4> QED BY <1>0, <4>1, OverdueStays
    <3> QED BY <1>1, <3>2, <3>3
  <2> QED BY <2>3, <2>4
<1>4. ASSUME NEW u, Succeeds(u) PROVE Recalled(o, t)' \/ Overdue(t)'
  <2>1. spentSet' = [q \in DOMAIN spentSet \cup inputs |->
                       IF q \in inputs THEN [tx |-> u.id, slot |-> Slot(u.content.ts)]
                       ELSE spentSet[q]]
    BY <1>4 DEF Succeeds, MarkSpent
  <2>2. CASE o \in inputs
    <3>1. Spending
      BY <1>4, SucceedsTime
    <3>2. Overdue(t)
      BY <2>2, <3>1 DEF ReservedInv
    <3> QED BY <1>0, <3>2, OverdueStays
  <2>3. CASE o \notin inputs
    <3>1. o \in DOMAIN spentSet' /\ spentSet'[o] = spentSet[o]
      BY <2>1, <2>3 DEF Recalled
    <3> QED BY <3>1 DEF Recalled, Slot
  <2> QED BY <2>2, <2>3
<1>5. GivesUp \/ Starts \/ Wakes \/ (\E u : Repeats(u)) => spentSet' = spentSet
  BY DEF GivesUp, Starts, Wakes, Repeats
<1> QED BY <1>1, <1>2, <1>3, <1>4, <1>5, RunCases DEF PastOK

LEMMA CoreRun ==
  ASSUME SpendInv, PolicySetting, FetchFits, Run
  PROVE  CoreInv'
<1> USE DEF SpendInv
<1>1. UNCHANGED <<now, head>> /\ [Next]_vars
  BY SenderStep DEF Next
<1>2. SUFFICES ASSUME now <= LastSpendTick, NEW t \in accepted',
                      NEW o \in Consumed(t) \cap head.utxo
               PROVE  Recalled(o, t)' \/ Overdue(t)'
  BY <1>1 DEF CoreInv, Consumed
<1>3. CASE t \in accepted
  <2>1. t \in Known
    BY <1>3 DEF PastOK, IInv, TypeOK, Known
  <2>2. Recalled(o, t) \/ Overdue(t)
    BY <1>2, <1>3 DEF CoreInv
  <2> QED BY <1>1, <1>2, <1>3, <2>1, <2>2, RecalledOrOverdue, OverdueStays
<1>4. CASE t \notin accepted
  <2>1. PICK u : Succeeds(u)
    BY <1>4, RunCases DEF PastOK, GivesUp, Fetches, Starts, Wakes, Classifies, Repeats
  <2>2. u = t /\ o \in inputs
    BY <1>4, <2>1 DEF Succeeds, Consumed
  <2>3. spentSet' = [q \in DOMAIN spentSet \cup inputs |->
                       IF q \in inputs THEN [tx |-> t.id, slot |-> Slot(t.content.ts)]
                       ELSE spentSet[q]]
    BY <2>1, <2>2 DEF Succeeds, MarkSpent
  <2>4. o \in DOMAIN spentSet' /\ spentSet'[o].slot = Slot(t.content.ts)
    BY <2>2, <2>3
  <2>5. Slot(t.content.ts) \in Nat
    BY <2>1, <2>2, SucceedsTime, SlotType
  <2> QED BY <2>4, <2>5 DEF Recalled, Slot
<1> QED BY <1>3, <1>4

LEMMA CoreStep ==
  ASSUME SpendInv, PolicySetting, FetchFits, [Next]_vars
  PROVE  CoreInv'
<1>1. CASE Clock \/ Network \/ UNCHANGED vars
  <2>1. UNCHANGED <<spentSet, accepted>>
    BY <1>1, Outside DEF senderVars, wallet
  <2>2. now \in Nat /\ (now' = now \/ now' = now + 1) /\ LastSpendTick \in Nat
    BY <1>1, NetworkCases, TimeTypes DEF Clock, Tick, vars, ledgerVars, SpendInv, PastOK
  <2>3. SUFFICES ASSUME now <= LastSpendTick, NEW t \in accepted,
                        NEW o \in Consumed(t) \cap head'.utxo
                 PROVE  Recalled(o, t)' \/ Overdue(t)'
    BY <2>1, <2>2 DEF CoreInv, Consumed
  <2>4. t \in Known
    BY DEF SpendInv, PastOK, IInv, TypeOK, Known
  <2>5. o \in head.utxo
    BY <2>4, NeverBack DEF SpendInv
  <2>6. Recalled(o, t) \/ Overdue(t)
    BY <2>3, <2>5 DEF CoreInv, SpendInv
  <2>7. Recalled(o, t) => Recalled(o, t)'
    BY <2>1 DEF Recalled, Slot
  <2> QED BY <2>4, <2>6, <2>7, OverdueStays DEF SpendInv
<1> QED BY <1>1, CoreRun DEF Next

LEMMA ReservedStep ==
  ASSUME SpendInv, IInv', PolicySetting, [Next]_vars
  PROVE  ReservedInv'
<1> USE DEF SpendInv
<1>0. accepted \subseteq Known
  BY DEF PastOK, IInv, TypeOK, Known
<1>1. ASSUME inputs' = inputs, accepted' = accepted, Spending
      PROVE  ReservedInv'
  <2>1. SUFFICES ASSUME NEW t \in accepted, inputs \cap head'.utxo \cap Consumed(t) # {}
                 PROVE  Overdue(t)'
    BY <1>1 DEF ReservedInv, Consumed
  <2>2. inputs \cap head.utxo \cap Consumed(t) # {}
    BY <1>0, <2>1, NeverBack
  <2>3. Overdue(t)
    BY <1>1, <2>2 DEF ReservedInv
  <2> QED BY <1>0, <2>3, OverdueStays
<1>2. CASE Clock \/ Network \/ UNCHANGED vars
  <2>1. UNCHANGED <<inputs, accepted, Spending>>
    BY <1>2, Outside DEF senderVars, wallet, round, Spending
  <2> QED BY <1>1, <2>1 DEF ReservedInv
<1>3. CASE Run /\ Starts
  <2>1. /\ now <= LastSpendTick /\ inputs' = Available /\ accepted' = accepted
        /\ UNCHANGED <<now, head>>
    BY <1>3, SenderStep DEF Starts
  <2>2. SUFFICES ASSUME NEW t \in accepted, NEW o \in Available,
                        o \in head.utxo, o \in Consumed(t)
                 PROVE  Overdue(t)'
    BY <2>1 DEF ReservedInv, Consumed
  <2>3. ~Recalled(o, t)
    BY DEF Available, Recalled
  <2>4. Overdue(t)
    BY <2>1, <2>2, <2>3 DEF CoreInv
  <2> QED BY <1>0, <2>4, OverdueStays
<1>4. ASSUME Run, NEW t, Succeeds(t), GoesOn(t)
      PROVE  ReservedInv'
  <2>1. inputs' = {RemainderOutput(t.id, t.content)} /\ t.content.fee = 0
    BY <1>4 DEF GoesOn
  <2>2. HiddenInv'
    BY <1>4, HiddenStep
  <2>3. t \in Known'
    BY <1>4 DEF Succeeds, IInv, TypeOK, Known
  <2>4. inputs' \cap head'.utxo = {}
    BY <2>1, <2>2, <2>3 DEF HiddenInv
  <2> QED BY <2>4 DEF ReservedInv
<1>5. ASSUME NEW t, Repeats(t) PROVE ReservedInv'
  BY <1>1, <1>5 DEF Repeats, Offers, Spending
<1>6. ASSUME Rests \/ Fetches \/ Wakes \/ \E o \in unchecked : Classifies(o)
      PROVE  ReservedInv'
  BY <1>6 DEF Rests, Fetches, Wakes, Classifies, Spending, ReservedInv
<1>7. CASE Run
  BY <1>3, <1>4, <1>5, <1>6, <1>7, RunCases DEF PastOK, Succeeds, GivesUp
<1> QED BY <1>2, <1>7 DEF Next

-----------------------------------------------------------------------------
(* The invariant, and what it is for. *)

LEMMA InitSpend == Init => SpendInv
<1> SUFFICES ASSUME Init PROVE SpendInv
  OBVIOUS
<1>1. PastOK
  BY InitStep, InitPast DEF PastOK
<1>2. /\ pc = "start" /\ outs = {} /\ accepted = {} /\ retrying = {} /\ delivered = {}
  BY DEF Init, LedgerInit
<1>3. SourceInv /\ HiddenInv
  BY <1>2 DEF SourceInv, HiddenInv, Known, Spending
<1>4. TimeInv /\ CoreInv /\ ReservedInv
  BY <1>2 DEF TimeInv, CoreInv, ReservedInv, InRound, Spending
<1> QED BY <1>1, <1>3, <1>4 DEF SpendInv

LEMMA AlwaysSpend ==
  ASSUME PolicySetting
  PROVE  Spec /\ []FetchFits => []SpendInv
<1>1. SpendInv /\ PastOK' /\ FetchFits /\ [Next]_vars => SpendInv'
  BY SourceStep, HiddenStep, TimeStep, CoreStep, ReservedStep DEF SpendInv, PastOK
<1>2. Spec => []PastOK
  BY AlwaysPast DEF PastOK
<1> QED BY <1>1, <1>2, InitSpend, PTL DEF Spec

\* A round starts to spend from what it fetched, and of that from what is
\* overdue.
LEMMA StartWaits ==
  ASSUME SpendInv, PolicySetting, Run, Starts,
         NEW t \in accepted, NEW o \in inputs' \cap head.utxo, o \in Consumed(t)
  PROVE  currentSlot - Slot(t.content.ts) >= FinalityTimeoutSlots
<1>1. ~Recalled(o, t)
  BY DEF Starts, Available, Recalled
<1>2. Overdue(t) /\ InRound
  BY <1>1 DEF Starts, InRound, SpendInv, CoreInv
<1> QED BY <1>2 DEF Overdue, RefSlot

LEMMA OnlyStarts ==
  ASSUME SpendInv, PolicySetting, [Next]_vars, StartsSpending
  PROVE  Run /\ Starts
<1>1. pc # pc' /\ pc = "classify" /\ pc' = "build"
  BY DEF StartsSpending
<1>2. Run
  BY <1>1, Outside DEF Next, senderVars
<1> QED BY <1>1, <1>2, RunCases
        DEF SpendInv, PastOK, GivesUp, Fetches, Wakes, Classifies, Succeeds, Repeats,
            Rests, Offers

\* With one host and no jitter, in chained batches that mind the rate control,
\* and while the account fits one fetch: an output is spent again only in
\* a slot at least FinalityTimeoutSlots after that of every earlier acknowledged
\* spender (doRound and classifyOutputs, over any number of rounds, failures
\* and withdrawals).
THEOREM SpendsAgainOnlyAfterTimeout ==
  ASSUME PolicySetting
  PROVE  Spec /\ []FetchFits => RespendOnlyAfterTimeout
<1>1. SpendInv /\ [Next]_vars =>
        [StartsSpending =>
           \A o \in inputs' \cap head.utxo, t \in accepted :
             o \in Consumed(t) =>
               currentSlot - Slot(t.content.ts) >= FinalityTimeoutSlots]_vars
  BY OnlyStarts, StartWaits
<1> QED BY <1>1, AlwaysSpend, PTL DEF Spec, RespendOnlyAfterTimeout

-----------------------------------------------------------------------------
(* The policy. *)

\* The account as the policy sees it.
PolicyKnown == PaidIn \cup UNION {Produced(t) : t \in accepted \cup Consolidated}
PolicySpends == {Acknowledged(t) : t \in accepted}

LEMMA ExistingIsKnown == Existing \subseteq PolicyKnown
BY DEF Existing, Made, PolicyKnown

LEMMA PolicyInit == Init => Policy!Init
<1> SUFFICES ASSUME Init PROVE Policy!Init
  OBVIOUS
<1>1. now = 0 /\ head.utxo = Genesis /\ head.txids = {} /\ accepted = {} /\ delivered = {}
  BY DEF Init, LedgerInit, State
<1>2. Slot(now) = 0
  BY <1>1, ConstantTypes DEF Slot
<1>3. PolicyKnown = Genesis
  BY <1>1 DEF PolicyKnown, PaidIn, Consolidated
<1>4. PolicySpends = {}
  BY <1>1 DEF PolicySpends
<1> QED BY <1>1, <1>2, <1>3, <1>4 DEF Policy!Init, PolicyKnown, PolicySpends

LEMMA PolicyClock ==
  ASSUME PastOK, Clock
  PROVE  Policy!Advance \/ UNCHANGED Policy!policyVars
<1>1. now \in Nat /\ now' = now + 1 /\ UNCHANGED <<senderVars, delivered, head>>
  BY TimeTypes DEF PastOK, Clock, Tick
<1>2. Slot(now)' \in {Slot(now), Slot(now) + 1}
  BY <1>1, SlotNext DEF Slot
<1>3. UNCHANGED <<accepted, Consolidated, PaidIn>>
  BY <1>1 DEF senderVars, wallet, Consolidated, PaidIn
<1>4. UNCHANGED <<PolicyKnown, PolicySpends>>
  BY <1>3 DEF PolicyKnown, PolicySpends, Produced, TargetOutput, RemainderOutput, Output,
              Acknowledged, Consumed, Slot
<1> QED BY <1>1, <1>2, <1>4
        DEF Policy!Advance, Policy!policyVars, PolicyKnown, PolicySpends

\* What is known stays known, and what is live is known.
LEMMA PolicyKnownGrows ==
  ASSUME SpendInv, PastOK', PolicySetting, [Next]_vars
  PROVE  /\ PolicyKnown \subseteq PolicyKnown'
         /\ head'.utxo \subseteq PolicyKnown'
<1>1. PaidIn \subseteq PaidIn' /\ Consolidated \subseteq Consolidated'
  BY LedgerStep DEF SpendInv, PastOK, Still, Included, Deposited, Withdrawn, Synced
<1>2. accepted \subseteq accepted'
  BY AcceptedGrows DEF SpendInv, PastOK
<1>3. PolicyKnown \subseteq PolicyKnown'
  BY <1>1, <1>2 DEF PolicyKnown
<1>4. Existing' \subseteq PolicyKnown'
  BY DEF Existing, Made, PolicyKnown
<1>5. head'.utxo \subseteq Existing'
  BY DEF PastOK, PastInv, BirthInv
<1> QED BY <1>3, <1>4, <1>5

LEMMA PolicyNetwork ==
  ASSUME SpendInv, PastOK', PolicySetting, Network
  PROVE  Policy!Move
<1>1. UNCHANGED <<now, senderVars>>
  BY NetworkCases
<1>2. UNCHANGED <<Slot(now), PolicySpends>>
  BY <1>1 DEF Slot, PolicySpends, senderVars, wallet, Acknowledged, Consumed
<1>3. /\ PolicyKnown \subseteq PolicyKnown'
      /\ head'.utxo \subseteq PolicyKnown'
  BY PolicyKnownGrows DEF Next
<1> QED BY <1>2, <1>3 DEF Policy!Move, PolicyKnown, PolicySpends

LEMMA PolicySpend ==
  ASSUME SpendInv, PastOK', PolicySetting, Run, NEW t, Succeeds(t)
  PROVE  Policy!Spend \/ Policy!Move
<1> USE DEF SpendInv
<1> DEFINE e == Acknowledged(t)
<1>1. now' = now /\ head' = head
  BY SenderStep
<1>2. /\ PolicyKnown \subseteq PolicyKnown'
      /\ head'.utxo \subseteq PolicyKnown'
  BY PolicyKnownGrows DEF Next
<1>3. PolicySpends' = PolicySpends \cup {e}
  <2>1. accepted' = accepted \cup {t}
    BY DEF Succeeds
  <2>2. \A u : Acknowledged(u)' = Acknowledged(u)
    BY DEF Acknowledged, Consumed, Slot
  <2> QED BY <2>1, <2>2 DEF PolicySpends
<1>4. Slot(now)' = Slot(now)
  BY <1>1 DEF Slot
<1>5. CASE e \in PolicySpends
  <2>1. PolicySpends' = PolicySpends
    BY <1>3, <1>5
  <2> QED BY <1>2, <1>4, <2>1 DEF Policy!Move, PolicyKnown, PolicySpends
<1>6. CASE e \notin PolicySpends
  <2>1. Spending
    BY SucceedsTime
  <2>2. e.outs = inputs
    BY DEF Succeeds, Acknowledged, Consumed
  <2>3. e.outs # {} /\ e.outs \subseteq PolicyKnown
    <3>1. inputs # {} /\ \A o \in inputs : Fetched(o) \/ ChainLink(o)
      BY <2>1 DEF SourceInv, Sourced
    <3>2. \A o : Fetched(o) => o \in PolicyKnown
      BY ExistingIsKnown DEF Fetched
    <3>3. \A o : ChainLink(o) => o \in PolicyKnown
      BY DEF ChainLink, PolicyKnown, Produced
    <3> QED BY <2>2, <3>1, <3>2, <3>3
  <2>4. ASSUME NEW o \in e.outs \cap head.utxo, NEW d \in PolicySpends, o \in d.outs
        PROVE  Slot(now) >= d.slot + FinalityTimeoutSlots
    <3>1. PICK u \in accepted : d = Acknowledged(u)
      BY DEF PolicySpends
    <3>2. d.slot = Slot(u.content.ts) /\ o \in Consumed(u)
      BY <2>4, <3>1 DEF Acknowledged
    <3>3. Overdue(u)
      BY <2>1, <2>2, <2>4, <3>2 DEF ReservedInv
    <3>4. RefSlot = currentSlot /\ currentSlot <= Slot(now)
      BY <2>1 DEF RefSlot, TimeInv, InRound, Spending
    <3>5. currentSlot \in Nat /\ Slot(now) \in Nat /\ Slot(u.content.ts) \in Nat
      BY TimeTypes DEF PastOK, IInv, TypeOK, Known
    <3>6. FinalityTimeoutSlots \in Nat
      BY SenderAssumption
    <3> QED BY <3>2, <3>3, <3>4, <3>5, <3>6 DEF Overdue
  <2>5. e \in PolicySpends' \ PolicySpends
    BY <1>3, <1>6
  <2> HIDE DEF e
  <2> QED BY <1>1, <1>2, <1>3, <1>4, <2>3, <2>4, <2>5
          DEF Policy!Spend, PolicyKnown, PolicySpends
<1> QED BY <1>5, <1>6

LEMMA PolicyRun ==
  ASSUME SpendInv, PastOK', PolicySetting, Run
  PROVE  Policy!Next \/ UNCHANGED Policy!policyVars
<1>1. CASE \E t : Succeeds(t)
  BY <1>1, PolicySpend DEF Policy!Next
<1>2. CASE ~ \E t : Succeeds(t)
  <2>1. accepted' = accepted
    BY <1>2, RunCases
       DEF SpendInv, PastOK, GivesUp, Fetches, Starts, Wakes, Classifies, Repeats
  <2>2. now' = now /\ head' = head /\ Consolidated' = Consolidated /\ PaidIn' = PaidIn
    BY SenderStep, ConsolidatedKept DEF SpendInv, PastOK
  <2>3. UNCHANGED <<PolicyKnown, PolicySpends, Slot(now)>>
    BY <2>1, <2>2 DEF PolicyKnown, PolicySpends, Produced, TargetOutput, RemainderOutput,
                      Output, Acknowledged, Consumed, Slot
  <2> QED BY <2>2, <2>3 DEF Policy!policyVars, PolicyKnown, PolicySpends
<1> QED BY <1>1, <1>2

\* In the same setting, the rounds of a sender implement the policy: each step
\* moves the policy's clock or its ledger, makes one of its spends, or shows
\* nothing.
THEOREM RoundsImplementPolicy ==
  ASSUME PolicySetting
  PROVE  Spec /\ []FetchFits => ImplementsSpendPolicy
<1>1. SpendInv /\ PastOK' /\ [Next]_vars => [Policy!Next]_(Policy!policyVars)
  <2> SUFFICES ASSUME SpendInv, PastOK', [Next]_vars
               PROVE  Policy!Next \/ UNCHANGED Policy!policyVars
    BY Zenon
  <2>1. CASE Run
    BY <2>1, PolicyRun
  <2>2. CASE Clock
    BY <2>2, PolicyClock DEF SpendInv, Policy!Next
  <2>3. CASE Network
    BY <2>3, PolicyNetwork DEF Policy!Next
  <2>4. CASE UNCHANGED vars
    BY <2>4 DEF vars, ledgerVars, senderVars, wallet, Policy!policyVars, PaidIn,
                Consolidated, Produced, TargetOutput, RemainderOutput, Output,
                Acknowledged, Consumed, Slot
  <2> QED BY <2>1, <2>2, <2>3, <2>4 DEF Next
<1>2. Spec => []PastOK
  BY AlwaysPast DEF PastOK
<1> QED BY <1>1, <1>2, AlwaysSpend, PolicyInit, PTL DEF Spec, ImplementsSpendPolicy, Policy!Spec
=============================================================================
