---------------------------- MODULE SenderProofs ----------------------------
(* Proofs about the sender, for every value of the constants: first the
   inductive invariant that carries its types and what it remembers, then one
   round from its gate to its end and what it leaves to the next: where a
   retry goes in conflict mode, what a chain pays when its balance was enough,
   and how far apart the timestamps of a holder stay.

   Each of the last three needs a part of the state that no property speaks
   of: the host the client was made for, what the transactions a round has
   sent so far leave to the next one, and the stretch of the timeline they
   occupy.                                                                  *)
EXTENDS Sender, TLAPS

-----------------------------------------------------------------------------
(* The arithmetic of a transfer. *)

\* What buildOneTx produces from inputs that pay for the fee and one output:
\* no dust, and nothing gained or lost.
LEMMA TransferAmounts ==
  ASSUME NEW b \in Nat, NEW fee \in Nat, CanBuild(b, fee)
  PROVE  /\ TargetAmount(b, fee) \in Nat
         /\ TargetAmount(b, fee) >= MinStorageDeposit
         /\ RemainderAmount(b, fee) \in Nat
         /\ LeavesRemainder(b, fee) =>
              RemainderAmount(b, fee) >= MinStorageDeposit
         /\ TargetAmount(b, fee) + RemainderAmount(b, fee) + fee = b
  BY AmountsAssumption
  DEF CanBuild, TargetAmount, RemainderAmount, LeavesRemainder

-----------------------------------------------------------------------------
(* The inductive invariant. *)

StateType == [utxo : SUBSET OutputType, txids : SUBSET Int]

LedgerTypeOK == head \in StateType /\ lrb \in [Hosts -> StateType]

Spending == pc \in {"build", "retry"}

\* What a round in progress knows: its transaction can be built, belongs to
\* the round's inputs, and in a set all of this holds for every member.
RoundOK ==
  /\ \A t \in delivered \cup retrying : CanBuild(t.content.total, t.content.fee)
  /\ \A t \in retrying : t.content.ins = inputs
  /\ Spending => member < RoundSize
  /\ Spending /\ (Conflict \/ member = 0) => total = balance /\ Admits(balance, seqs)
  /\ Spending /\ Conflict => \A o \in inputs : firstTs >= o.ts + Pace
  /\ pc \in {"start", "wait"} => seenFinal = {}

IInv == TypeOK /\ LedgerTypeOK /\ RoundOK /\ EveryTxValid /\ SpentSetSound

\* The constants one by one, as the provers want them.
LEMMA ConstantTypes ==
  /\ MaxTick \in Nat /\ NumHosts \in Nat \ {0}
  /\ Pace \in Nat \ {0} /\ TicksPerSlot \in Nat \ {0}
  /\ JitterTicks \in Nat /\ Supply \in Nat /\ MaxFaults \in Nat
  BY LedgerAssumption, SenderAssumption

-----------------------------------------------------------------------------
(* Timestamps. *)

\* pickTimestamp keeps a pace from every input, with or without jitter.
LEMMA PickedTimestamp ==
  ASSUME TypeOK, NEW ins \in SUBSET OutputType, NEW ts \in PickTimestamp(ins)
  PROVE  ts \in Nat /\ \A o \in ins : ts >= o.ts + Pace
<1>1. PICK l \in PaceLowerBound(ins) : ts \in l .. (l + JitterTicks)
  BY DEF PickTimestamp
<1>2. now \in Nat /\ Pace \in Nat /\ JitterTicks \in Nat
  BY LedgerAssumption, SenderAssumption DEF TypeOK
<1>3. \A o \in ins : o.ts \in Nat
  BY DEF OutputType
<1>4. l \in Nat /\ \A o \in ins : l >= o.ts + Pace
  BY <1>2, <1>3 DEF PaceLowerBound
<1>5. QED
  BY <1>1, <1>2, <1>3, <1>4

\* Slots are naturals.
LEMMA SlotType == ASSUME NEW ts \in Nat PROVE Slot(ts) \in Nat
<1>1. TicksPerSlot \in Nat \ {0}
  BY SenderAssumption
<1>2. QED
  BY <1>1 DEF Slot

-----------------------------------------------------------------------------
(* Transactions. *)

\* A transaction that can be built and keeps the pace is valid, and what it
\* produces are outputs.
LEMMA BuildableIsValid ==
  ASSUME NEW t \in TransactionType,
         CanBuild(t.content.total, t.content.fee),
         \A o \in t.content.ins : t.content.ts >= o.ts + Pace
  PROVE  /\ ValidTx(t)
         /\ Produced(t) \subseteq OutputType
         /\ LeavesRemainder(t.content.total, t.content.fee) =>
              RemainderOutput(t.id, t.content) \in OutputType
<1> DEFINE b == t.content.total
           f == t.content.fee
<1>1. b \in Nat /\ f \in Nat /\ t.id \in Nat /\ t.content.ts \in Nat
      /\ t.content.to \in {"self", "other"}
  BY DEF TransactionType, ContentType
<1>2. /\ TargetAmount(b, f) \in Nat /\ TargetAmount(b, f) >= MinStorageDeposit
      /\ RemainderAmount(b, f) \in Nat
      /\ LeavesRemainder(b, f) => RemainderAmount(b, f) >= MinStorageDeposit
      /\ TargetAmount(b, f) + RemainderAmount(b, f) + f = b
  BY <1>1, TransferAmounts
<1>3. TargetOutput(t.id, t.content) \in OutputType
      /\ TargetOutput(t.id, t.content).amount = TargetAmount(b, f)
  BY <1>1, <1>2 DEF TargetOutput, Output, OutputType
<1>4. RemainderOutput(t.id, t.content) \in OutputType
      /\ RemainderOutput(t.id, t.content).amount = RemainderAmount(b, f)
  BY <1>1, <1>2 DEF RemainderOutput, Output, OutputType
<1>5. Produced(t) \subseteq OutputType
      /\ \A o \in Produced(t) : o.amount >= MinStorageDeposit
  BY <1>2, <1>3, <1>4 DEF Produced
<1>6. QED
  BY <1>2, <1>4, <1>5 DEF ValidTx

\* A round that spends has sequencers, and a type for their fee.
LEMMA TagAlongType ==
  ASSUME TypeOK, RoundOK, Spending
  PROVE  /\ TagAlongFee \in Nat
         /\ IncludeTagAlong => Sequencer.chain \in Chains
<1>1. seqs \in Seq(SeqInfo) /\ seqs # <<>> /\ member \in Nat
  BY SenderAssumption DEF TypeOK, Spending
<1>2. Len(seqs) \in Nat /\ Len(seqs) >= 1
  BY <1>1
<1>3. Conflict => member + 1 \in 1 .. Len(seqs)
  BY <1>1, <1>2 DEF RoundOK, RoundSize
<1>4. \A i \in 1 .. Len(seqs) : seqs[i] \in SeqInfo
  BY <1>1
<1>5. Sequencer \in SeqInfo
  BY <1>2, <1>3, <1>4 DEF Sequencer
<1>6. QED
  BY <1>5 DEF TagAlongFee, SeqInfo

\* What buildOneTx returns: a new transaction of this content, or the one
\* that already has it.
LEMMA BuiltTransaction ==
  ASSUME IInv, pc = "build", CanBuild(total, TagAlongFee), NEW t \in BuildOneTx
  PROVE  /\ t \in TransactionType
         /\ t.content.ins = inputs
         /\ t.content.total = total
         /\ t.content.fee = TagAlongFee
         /\ \A o \in inputs : t.content.ts >= o.ts + Pace
<1> USE DEF IInv
<1>0. Spending /\ inputs \in SUBSET OutputType /\ total \in Nat
      /\ firstTs \in Nat /\ member \in Nat /\ nTx \in Nat
      /\ delivered \subseteq TransactionType
  BY DEF TypeOK, Spending
<1>1. PICK ts \in IF Conflict THEN {ConflictTimestamp(member)}
                  ELSE PickTimestamp(inputs), to \in Targets :
        t = Transaction(Content(ts, to))
  BY DEF BuildOneTx
<1>2. Pace \in Nat /\ to \in {"self", "other"}
  BY SenderAssumption
<1>3. ts \in Nat /\ \A o \in inputs : ts >= o.ts + Pace
  <2>1. CASE Conflict
    <3>1. \A o \in inputs : o.ts \in Nat /\ firstTs >= o.ts + Pace
      BY <1>0, <2>1 DEF RoundOK, OutputType
    <3>2. member * Pace \in Nat
      BY <1>0, <1>2
    <3>3. ts = firstTs + member * Pace
      BY <1>1, <2>1 DEF ConflictTimestamp
    <3>4. QED
      BY <1>0, <1>2, <3>1, <3>2, <3>3
  <2>2. CASE ~Conflict
    BY <1>0, <1>1, <2>2, PickedTimestamp
  <2>3. QED
    BY <2>1, <2>2
<1>4. Content(ts, to) \in ContentType
  <2>1. TagAlongFee \in Nat /\ (IncludeTagAlong => Sequencer.chain \in Chains)
    BY <1>0, TagAlongType
  <2>2. (IF IncludeTagAlong THEN Sequencer.chain ELSE "none") \in Chains \cup {"none"}
    BY <2>1
  <2>3. QED
    BY <1>0, <1>2, <1>3, <2>1, <2>2 DEF Content, ContentType
<1>5. t \in TransactionType /\ t.content = Content(ts, to)
  <2>1. CASE \E u \in delivered : u.content = Content(ts, to)
    BY <1>0, <1>1, <2>1 DEF Transaction
  <2>2. CASE ~ \E u \in delivered : u.content = Content(ts, to)
    BY <1>0, <1>1, <1>4, <2>2 DEF Transaction, TransactionType
  <2>3. QED
    BY <2>1, <2>2
<1>6. QED
  BY <1>3, <1>5 DEF Content

-----------------------------------------------------------------------------
(* The ends of rounds. *)

\* The round is over and has left no locals behind.
Cleared ==
  /\ pc' \in {"start", "wait"}
  /\ wakeAt' \in Nat
  /\ outs' = {} /\ unchecked' = {} /\ seenFinal' = {} /\ currentSlot' = 0
  /\ seqs' = <<>> /\ inputs' = {} /\ retrying' = {}
  /\ balance' = 0 /\ total' = 0 /\ member' = 0 /\ firstTs' = 0

\* Whatever a round returns, it leaves no locals behind.
LEMMA FinishClears ==
  ASSUME TypeOK, NEW a \in BOOLEAN, NEW w \in Int, Finish(a, w)
  PROVE  Cleared
<1>1. now \in Nat /\ Pace \in Nat
  BY ConstantTypes DEF TypeOK
<1>2. (IF w <= 0 THEN Pace ELSE w) \in Nat
  BY <1>1
<1>3. QED
  BY <1>1, <1>2 DEF Finish, Cleared

\* A round that sent nothing leaves no locals behind.
LEMMA IdleFinishClears == ASSUME TypeOK, Finish(FALSE, 0) PROVE Cleared
<1>1. 0 \in Int /\ FALSE \in BOOLEAN
  OBVIOUS
<1>2. QED
  BY <1>1, FinishClears, Zenon

\* The wait of a spending round is an integer.
LEMMA FinishSpendingClears ==
  ASSUME TypeOK, Spending, NEW a \in BOOLEAN, FinishSpending(a)
  PROVE  Cleared
<1>1. CASE ~Conflict
  BY <1>1, FinishClears DEF FinishSpending
<1>2. CASE Conflict
  <2>1. seqs \in Seq(SeqInfo) /\ now \in Int /\ firstTs \in Int /\ Pace \in Int
    BY SenderAssumption, ConstantTypes DEF TypeOK, Spending
  <2>2. (Len(seqs) - 1) * Pace \in Int
    BY <2>1
  <2>3. ConflictTimestamp(Len(seqs) - 1) - now + Pace \in Int
    BY <2>1, <2>2 DEF ConflictTimestamp
  <2>4. PICK w \in Int : Finish(a, w)
    BY <1>2, <2>3 DEF FinishSpending, FinishConflictSet
  <2>5. QED
    BY <2>4, FinishClears
<1>3. QED
  BY <1>1, <1>2

\* A step that ends a round and touches neither the ledger nor what the
\* sender remembers keeps the invariant.
LEMMA FinishStep ==
  ASSUME IInv, Cleared,
         UNCHANGED <<spentSet, accepted, nTx, now, head, lrb>>,
         sentTxs' \subseteq sentTxs,
         hostIdx' \in Hosts, clnt' \in Hosts,
         metrics' \in [sent : Nat, failed : Nat, sets : Nat],
         faults' \in 0 .. MaxFaults,
         delivered \subseteq delivered', delivered' \subseteq delivered \cup retrying
  PROVE  IInv'
<1> USE DEF IInv, Cleared
<1>1. 0 \in 0 .. Supply
  BY ConstantTypes
<1>2. TypeOK'
  BY <1>1 DEF TypeOK
<1>3. LedgerTypeOK'
  BY DEF LedgerTypeOK
<1>4. RoundOK'
  BY DEF RoundOK, Spending
<1>5. EveryTxValid'
  BY DEF EveryTxValid, ValidTx
<1>6. SpentSetSound'
  BY DEF SpentSetSound
<1>7. QED
  BY <1>2, <1>3, <1>4, <1>5, <1>6

-----------------------------------------------------------------------------
(* Rounds that fetch, classify and stop. *)

\* Rotation stays within the list of hosts.
LEMMA HostType ==
  ASSUME TypeOK
  PROVE  RotateHost \in Hosts /\ NextHosts \subseteq Hosts
<1>1. NumHosts \in Nat \ {0} /\ hostIdx \in Nat
  BY LedgerAssumption DEF TypeOK, Hosts
<1>2. (hostIdx + 1) % NumHosts \in 0 .. (NumHosts - 1)
  BY <1>1
<1>3. QED
  BY <1>2 DEF RotateHost, NextHosts, Hosts

\* A failed fetch keeps the invariant.
LEMMA FetchFailsStep == IInv /\ FetchFails => IInv'
<1> SUFFICES ASSUME IInv, FetchFails PROVE IInv'
  OBVIOUS
<1>1. RotateHost \in Hosts
  BY HostType DEF IInv
<1>2. faults' \in 0 .. MaxFaults
  BY ConstantTypes DEF IInv, TypeOK, FetchFails
<1>3. /\ Finish(FALSE, 0)
      /\ UNCHANGED <<spentSet, accepted, nTx, now, head, lrb, delivered>>
      /\ sentTxs' = {} /\ hostIdx' \in Hosts /\ clnt' \in Hosts
      /\ metrics' \in [sent : Nat, failed : Nat, sets : Nat]
  BY <1>1 DEF IInv, TypeOK, FetchFails, ledgerVars
<1>4. Cleared
  BY <1>3, IdleFinishClears DEF IInv
<1>5. QED
  BY <1>2, <1>3, <1>4, FinishStep

\* A round that finds nothing to spend, no sequencer or too little to spend
\* keeps the invariant.
LEMMA IdleRoundStep ==
  IInv /\ (NothingToSpend \/ NoSequencers \/ Underfunded) => IInv'
<1> SUFFICES ASSUME IInv, NothingToSpend \/ NoSequencers \/ Underfunded PROVE IInv'
  OBVIOUS
<1>1. Finish(FALSE, 0) /\ UNCHANGED <<clnt, wallet, sentTxs, nTx, faults, ledgerVars>>
  BY DEF NothingToSpend, NoSequencers, Underfunded
<1>2. /\ UNCHANGED <<spentSet, accepted, nTx, now, head, lrb, delivered, sentTxs>>
      /\ hostIdx' \in Hosts /\ clnt' \in Hosts
      /\ metrics' \in [sent : Nat, failed : Nat, sets : Nat]
      /\ faults' \in 0 .. MaxFaults
  BY <1>1 DEF IInv, TypeOK, wallet, ledgerVars
<1>3. Cleared
  BY <1>1, IdleFinishClears DEF IInv
<1>4. QED
  BY <1>2, <1>3, FinishStep

\* What a fetch returns are outputs.
LEMMA PageType ==
  ASSUME LedgerTypeOK, NEW h \in Hosts, NEW p \in Page(OwnedAt(h))
  PROVE  p \subseteq OutputType
<1>1. OwnedAt(h) \subseteq OutputType
  BY DEF LedgerTypeOK, StateType, OwnedAt
<1>2. p \subseteq OwnedAt(h)
  BY DEF Page, kSubset
<1>3. QED
  BY <1>1, <1>2

\* A fetch keeps the invariant: it drops entries and changes none.
LEMMA FetchOutputsStep == IInv /\ FetchOutputs => IInv'
<1> SUFFICES ASSUME IInv, FetchOutputs PROVE IInv'
  OBVIOUS
<1> USE DEF IInv
<1>1. outs' \subseteq OutputType
  BY PageType DEF FetchOutputs, TypeOK
<1>2. /\ DOMAIN spentSet' = outs' \cap DOMAIN spentSet
      /\ \A o \in DOMAIN spentSet' : spentSet'[o] = spentSet[o]
  BY DEF FetchOutputs, Restrict
<1>3. Slot(now) \in Nat
  <2>1. now \in Nat
    BY ConstantTypes DEF TypeOK
  <2>2. QED
    BY <2>1, SlotType
<1>4. TypeOK'
  <2>1. currentSlot' \in Nat /\ clnt' \in Hosts
    BY <1>3 DEF FetchOutputs, TypeOK
  <2>2. unchecked' \subseteq outs' \cap DOMAIN spentSet'
    BY <1>2 DEF FetchOutputs
  <2>3. /\ DOMAIN spentSet' \subseteq OutputType
        /\ \A o \in DOMAIN spentSet' : spentSet'[o] \in [tx : Nat, slot : Nat]
    BY <1>1, <1>2 DEF TypeOK
  <2>4. /\ UNCHANGED <<hostIdx, wakeAt, metrics, seqs, balance, inputs, total, member,
                        firstTs, retrying, accepted, seenFinal, nTx, faults, now,
                        delivered>>
        /\ sentTxs' = {} /\ pc = "start" /\ pc' = "classify" /\ seenFinal = {}
    BY DEF FetchOutputs, ledgerVars, RoundOK
  <2>5. QED
    BY <1>1, <2>1, <2>2, <2>3, <2>4 DEF TypeOK
<1>5. LedgerTypeOK'
  BY DEF LedgerTypeOK, FetchOutputs, ledgerVars
<1>6. RoundOK'
  BY DEF RoundOK, Spending, FetchOutputs, ledgerVars
<1>7. EveryTxValid'
  BY DEF EveryTxValid, ValidTx, FetchOutputs, ledgerVars
<1>8. SpentSetSound'
  BY <1>2 DEF SpentSetSound, FetchOutputs
<1>9. QED
  BY <1>4, <1>5, <1>6, <1>7, <1>8

\* Classifying an output keeps the invariant: it drops an entry or none.
LEMMA ClassifyStep ==
  ASSUME IInv, NEW o \in unchecked, Classify(o)
  PROVE  IInv'
<1> USE DEF IInv
<1>1. /\ DOMAIN spentSet' \subseteq DOMAIN spentSet
      /\ DOMAIN spentSet \ {o} \subseteq DOMAIN spentSet'
      /\ \A q \in DOMAIN spentSet' : spentSet'[q] = spentSet[q]
  <2>1. CASE CheckFails(o)
    BY <2>1 DEF CheckFails
  <2>2. CASE DropFinalized(o)
    BY <2>2 DEF DropFinalized, Restrict
  <2>3. CASE KeepOrReclaim(o)
    BY <2>3 DEF KeepOrReclaim, Restrict
  <2>4. QED
    BY <2>1, <2>2, <2>3 DEF Classify
<1>2. seenFinal' \subseteq seenFinal \cup {o} /\ faults' \in 0 .. MaxFaults
  <2>1. CASE CheckFails(o)
    <3>1. faults \in 0 .. MaxFaults /\ faults < MaxFaults /\ faults' = faults + 1
      BY <2>1 DEF CheckFails, TypeOK
    <3>2. MaxFaults \in Nat
      BY ConstantTypes
    <3> QED BY <2>1, <3>1, <3>2 DEF CheckFails
  <2>2. CASE DropFinalized(o) \/ KeepOrReclaim(o)
    BY <2>2 DEF DropFinalized, KeepOrReclaim, TypeOK
  <2>3. QED
    BY <2>1, <2>2 DEF Classify
<1>3. TypeOK'
  BY <1>1, <1>2 DEF TypeOK, Classify, ledgerVars
<1>4. LedgerTypeOK'
  BY DEF LedgerTypeOK, Classify, ledgerVars
<1>5. RoundOK'
  BY DEF RoundOK, Spending, Classify, ledgerVars
<1>6. EveryTxValid'
  BY DEF EveryTxValid, ValidTx, Classify, ledgerVars
<1>7. SpentSetSound'
  BY <1>1 DEF SpentSetSound, Classify
<1>8. QED
  BY <1>3, <1>4, <1>5, <1>6, <1>7

\* The end of a sleep keeps the invariant.
LEMMA WakeStep == IInv /\ Wake => IInv'
<1> SUFFICES ASSUME IInv, Wake PROVE IInv'
  OBVIOUS
<1> USE DEF IInv
<1>1. UNCHANGED <<hostIdx, spentSet, metrics, accepted, outs, currentSlot, unchecked,
                  seenFinal, seqs, balance, inputs, total, member, firstTs, retrying,
                  sentTxs, clnt, nTx, faults, now, delivered, head, lrb>>
      /\ pc = "wait" /\ pc' = "start" /\ wakeAt' = 0
  BY DEF Wake, wallet, fetched, round, ledgerVars
<1>2. TypeOK'
  BY <1>1 DEF TypeOK
<1>3. LedgerTypeOK' /\ RoundOK' /\ SpentSetSound'
  BY <1>1 DEF LedgerTypeOK, RoundOK, Spending, SpentSetSound
<1>4. EveryTxValid'
  BY <1>1 DEF EveryTxValid, ValidTx
<1>5. QED
  BY <1>2, <1>3, <1>4

-----------------------------------------------------------------------------
(* Rounds that spend. *)

\* The gate and the timestamps of a set establish what a round relies on.
LEMMA StartSpendingStep == IInv /\ StartSpending => IInv'
<1> SUFFICES ASSUME IInv, StartSpending PROVE IInv'
  OBVIOUS
<1> USE DEF IInv
<1>1. /\ pc = "classify" /\ pc' = "build" /\ member' = 0
      /\ inputs' = Available /\ total' = balance' /\ balance' \in 0 .. Supply
      /\ seqs' \in SeqLists /\ Admits(balance', seqs')
      /\ firstTs' \in IF Conflict THEN PickTimestamp(Available) ELSE {0}
      /\ UNCHANGED <<hostIdx, clnt, wakeAt, spentSet, metrics, outs, currentSlot,
                     unchecked, retrying, sentTxs, accepted, seenFinal, nTx, faults,
                     now, delivered, head, lrb>>
  BY DEF StartSpending, Classified, ledgerVars
<1>2. Available \in SUBSET OutputType
  BY DEF Available, TypeOK
<1>3. firstTs' \in Nat /\ (Conflict => \A o \in inputs' : firstTs' >= o.ts + Pace)
  <2>1. CASE Conflict
    BY <1>1, <1>2, <2>1, PickedTimestamp
  <2>2. CASE ~Conflict
    BY <1>1, <2>2
  <2>3. QED
    BY <2>1, <2>2
<1>4. seqs' # <<>> /\ Len(seqs') \in Nat /\ Len(seqs') >= 1
  BY <1>1, SenderAssumption
<1>5. total' \in Nat
  BY <1>1, ConstantTypes
<1>6. TypeOK'
  BY <1>1, <1>2, <1>3, <1>4, <1>5 DEF TypeOK
<1>7. LedgerTypeOK' /\ SpentSetSound'
  BY <1>1 DEF LedgerTypeOK, SpentSetSound
<1>8. EveryTxValid'
  BY <1>1 DEF EveryTxValid, ValidTx
<1>9. RoundOK'
  <2>1. retrying = {}
    BY <1>1 DEF TypeOK
  <2>2. member' < RoundSize'
    BY <1>1, <1>4, AmountsAssumption DEF RoundSize
  <2>3. QED
    BY <1>1, <1>3, <2>1, <2>2 DEF RoundOK, Spending, Admits
<1>10. QED
  BY <1>6, <1>7, <1>8, <1>9

\* A chain or set cut short by its balance keeps the invariant.
LEMMA BuildFailsStep == IInv /\ BuildFails => IInv'
<1> SUFFICES ASSUME IInv, BuildFails PROVE IInv'
  OBVIOUS
<1>1. Spending /\ FinishSpending(sentTxs # {})
  BY DEF BuildFails, Spending
<1>2. Cleared
  <2>1. (sentTxs # {}) \in BOOLEAN
    OBVIOUS
  <2>2. QED
    BY <1>1, <2>1, FinishSpendingClears, Zenon DEF IInv
<1>3. metrics' \in [sent : Nat, failed : Nat, sets : Nat]
  <2>1. metrics \in [sent : Nat, failed : Nat, sets : Nat]
    BY DEF IInv, TypeOK
  <2>2. SetsEnded(sentTxs) \in Nat
    BY DEF SetsEnded
  <2>3. QED
    BY <2>1, <2>2 DEF BuildFails, Counted
<1>4. /\ UNCHANGED <<spentSet, accepted, nTx, now, head, lrb, delivered, sentTxs>>
      /\ hostIdx' \in Hosts /\ clnt' \in Hosts /\ faults' \in 0 .. MaxFaults
  BY DEF BuildFails, IInv, TypeOK, ledgerVars
<1>5. QED
  BY <1>2, <1>3, <1>4, FinishStep

\* An acknowledged transaction keeps the invariant, if it is one this round
\* may build.
LEMMA AcknowledgeStep ==
  ASSUME IInv, Spending, NEW t \in TransactionType,
         CanBuild(t.content.total, t.content.fee),
         t.content.ins = inputs,
         \A o \in inputs : t.content.ts >= o.ts + Pace,
         Acknowledge(t),
         delivered' = delivered \cup {t},
         UNCHANGED <<now, head, lrb, faults>>,
         nTx' \in Nat
  PROVE  IInv'
<1> USE DEF IInv
<1>1. /\ ValidTx(t)
      /\ LeavesRemainder(t.content.total, t.content.fee) =>
           RemainderOutput(t.id, t.content) \in OutputType
  BY BuildableIsValid
<1>2. /\ DOMAIN spentSet' = DOMAIN spentSet \cup inputs
      /\ \A o \in inputs : spentSet'[o] = [tx |-> t.id, slot |-> Slot(t.content.ts)]
      /\ \A o \in DOMAIN spentSet \ inputs : spentSet'[o] = spentSet[o]
  BY DEF Acknowledge, MarkSpent
<1>3. t.id \in Nat /\ Slot(t.content.ts) \in Nat
  BY SlotType DEF TransactionType, ContentType
<1>4. /\ DOMAIN spentSet' \subseteq OutputType
      /\ \A o \in DOMAIN spentSet' : spentSet'[o] \in [tx : Nat, slot : Nat]
  BY <1>2, <1>3 DEF TypeOK
<1>5. hostIdx' \in Hosts /\ clnt' \in Hosts
  BY HostType DEF Acknowledge, TypeOK
<1>6. metrics' \in [sent : Nat, failed : Nat, sets : Nat]
  <2>1. metrics \in [sent : Nat, failed : Nat, sets : Nat]
    BY DEF TypeOK
  <2>2. (IF LastOfRound(t) THEN SetsEnded(sentTxs') ELSE 0) \in Nat
    BY DEF SetsEnded
  <2>3. QED
    BY <2>1, <2>2 DEF Acknowledge, Counted
<1>7. accepted' = accepted \cup {t} /\ sentTxs' = sentTxs \cup {t}
  BY DEF Acknowledge
<1>8. LedgerTypeOK'
  BY DEF LedgerTypeOK
<1>9. SpentSetSound'
  <2>1. \A u : Consumed(u)' = Consumed(u)
    BY DEF Consumed
  <2>2. ASSUME NEW o \in inputs
        PROVE  \E u \in accepted' :
                 /\ o \in Consumed(u)
                 /\ spentSet'[o] = [tx |-> u.id, slot |-> Slot(u.content.ts)]
    BY <1>2, <1>7 DEF Consumed
  <2>3. ASSUME NEW o \in DOMAIN spentSet \ inputs
        PROVE  \E u \in accepted' :
                 /\ o \in Consumed(u)
                 /\ spentSet'[o] = [tx |-> u.id, slot |-> Slot(u.content.ts)]
    BY <1>2, <1>7 DEF SpentSetSound
  <2>4. QED
    BY <1>2, <2>2, <2>3 DEF SpentSetSound
<1>10. CASE LastOfRound(t)
  <2>1. FinishSpending(TRUE)
    BY <1>10 DEF Acknowledge
  <2>2. Cleared
    <3>1. TRUE \in BOOLEAN
      OBVIOUS
    <3>2. QED
      BY <2>1, <3>1, FinishSpendingClears, Zenon
  <2>3. 0 \in 0 .. Supply
    BY ConstantTypes
  <2>4. TypeOK'
    BY <1>4, <1>5, <1>6, <1>7, <2>2, <2>3 DEF TypeOK, Cleared
  <2>5. RoundOK'
    BY <2>2 DEF RoundOK, Spending, Cleared
  <2>6. EveryTxValid'
    BY <1>1, <2>2 DEF EveryTxValid, ValidTx, Cleared
  <2>7. QED
    BY <1>8, <1>9, <2>4, <2>5, <2>6
<1>11. CASE ~LastOfRound(t)
  <2>1. /\ pc' = "build" /\ member' = member + 1 /\ retrying' = {}
        /\ UNCHANGED <<wakeAt, outs, unchecked, seenFinal, currentSlot, seqs, balance,
                       firstTs>>
    BY <1>11 DEF Acknowledge, ContinueSet, ContinueChain
  <2>2. IF Conflict THEN UNCHANGED <<inputs, total>>
        ELSE /\ inputs' = {RemainderOutput(t.id, t.content)}
             /\ total' = RemainderAmount(t.content.total, t.content.fee)
    BY <1>11 DEF Acknowledge, ContinueSet, ContinueChain
  <2>3. inputs' \subseteq OutputType /\ total' \in Nat
    <3>1. CASE Conflict
      BY <2>2, <3>1 DEF TypeOK
    <3>2. CASE ~Conflict
      <4>1. LeavesRemainder(t.content.total, t.content.fee)
        BY <1>11, <3>2 DEF LastOfRound
      <4>2. t.content.total \in Nat /\ t.content.fee \in Nat
        BY DEF TransactionType, ContentType
      <4>3. QED
        BY <1>1, <2>2, <3>2, <4>1, <4>2, TransferAmounts
    <3>3. QED
      BY <3>1, <3>2
  <2>4. member \in Nat /\ member + 1 < RoundSize
    <3>1. member \in Nat /\ RoundSize \in Int /\ member < RoundSize
      BY SenderAssumption, AmountsAssumption DEF TypeOK, RoundOK, RoundSize, Spending
    <3>2. member # RoundSize - 1
      BY <1>11 DEF LastOfRound, LastMember
    <3>3. QED
      BY <3>1, <3>2
  <2>5. TypeOK'
    <3>1. delivered' \subseteq TransactionType /\ accepted' \subseteq delivered'
          /\ sentTxs' \subseteq accepted'
      BY <1>7 DEF TypeOK
    <3>2. member' \in Nat
      BY <2>1, <2>4
    <3>3. seqs' \in SeqLists \cup {<<>>} /\ seqs' # <<>>
      BY <2>1 DEF TypeOK, Spending
    <3>4. unchecked' \subseteq outs' \cap DOMAIN spentSet'
      BY <1>2, <2>1 DEF TypeOK
    <3>5. QED
      BY <1>4, <1>5, <1>6, <2>1, <2>3, <3>1, <3>2, <3>3, <3>4 DEF TypeOK
  <2>6. RoundOK'
    BY <2>1, <2>2, <2>4 DEF RoundOK, Spending, RoundSize, Admits
  <2>7. EveryTxValid'
    BY <1>1, <2>1 DEF EveryTxValid, ValidTx
  <2>8. QED
    BY <1>8, <1>9, <2>5, <2>6, <2>7
<1>12. QED
  BY <1>10, <1>11

\* An acknowledged first submission keeps the invariant.
LEMMA SubmitStep == IInv /\ Submit => IInv'
<1> SUFFICES ASSUME IInv, Submit PROVE IInv'
  OBVIOUS
<1>1. PICK t \in BuildOneTx : delivered' = delivered \cup {t} /\ Acknowledge(t)
  BY DEF Submit
<1>2. pc = "build" /\ Spending /\ CanBuild(total, TagAlongFee)
  BY DEF Submit, Spending
<1>3. /\ t \in TransactionType
      /\ t.content.ins = inputs
      /\ t.content.total = total
      /\ t.content.fee = TagAlongFee
      /\ \A o \in inputs : t.content.ts >= o.ts + Pace
  BY <1>2, BuiltTransaction
<1>4. CanBuild(t.content.total, t.content.fee)
  BY <1>2, <1>3
<1>5. UNCHANGED <<now, head, lrb, faults>> /\ nTx' \in Nat
  BY DEF Submit, IInv, TypeOK
<1>6. QED
  BY <1>1, <1>2, <1>3, <1>4, <1>5, AcknowledgeStep

\* An acknowledged retry keeps the invariant.
LEMMA RetryStep == IInv /\ Retry => IInv'
<1> SUFFICES ASSUME IInv, Retry PROVE IInv'
  OBVIOUS
<1>1. PICK t \in retrying : delivered' = delivered \cup {t} /\ Acknowledge(t)
  BY DEF Retry
<1>2. Spending
  BY DEF Retry, Spending
<1>3. /\ t \in TransactionType
      /\ CanBuild(t.content.total, t.content.fee)
      /\ t.content.ins = inputs
  BY DEF IInv, TypeOK, RoundOK
<1>4. \A o \in inputs : t.content.ts >= o.ts + Pace
  BY <1>3 DEF IInv, EveryTxValid, ValidTx
<1>5. UNCHANGED <<now, head, lrb, faults>> /\ nTx' \in Nat
  BY DEF Retry, IInv, TypeOK
<1>6. QED
  BY <1>1, <1>2, <1>3, <1>4, <1>5, AcknowledgeStep

\* A failed first submission keeps the invariant, whether or not the node
\* took the transaction.
LEMMA SubmitFailsStep == IInv /\ SubmitFails => IInv'
<1> SUFFICES ASSUME IInv, SubmitFails PROVE IInv'
  OBVIOUS
<1> USE DEF IInv
<1>1. PICK t \in BuildOneTx :
        delivered' \in {delivered, delivered \cup {t}} /\ retrying' = {t}
  BY DEF SubmitFails
<1>2. /\ t \in TransactionType
      /\ t.content.ins = inputs
      /\ t.content.total = total
      /\ t.content.fee = TagAlongFee
      /\ \A o \in inputs : t.content.ts >= o.ts + Pace
      /\ CanBuild(total, TagAlongFee)
  BY BuiltTransaction DEF SubmitFails
<1>3. ValidTx(t)
  BY <1>2, BuildableIsValid
<1>4. RotateHost \in Hosts
  BY HostType
<1>5. /\ pc = "build" /\ pc' = "retry" /\ hostIdx' = RotateHost /\ clnt' = hostIdx'
      /\ faults < MaxFaults /\ faults' = faults + 1 /\ nTx' = nTx + 1
      /\ UNCHANGED <<wakeAt, spentSet, outs, currentSlot, unchecked, seqs, balance,
                     inputs, total, member, firstTs, sentTxs, accepted, seenFinal,
                     now, head, lrb>>
  BY DEF SubmitFails
<1>6. metrics' \in [sent : Nat, failed : Nat, sets : Nat]
  BY DEF SubmitFails, Counted, TypeOK
<1>7. TypeOK'
  <2>1. faults' \in 0 .. MaxFaults /\ nTx' \in Nat
    BY <1>5, ConstantTypes DEF TypeOK
  <2>2. delivered' \subseteq TransactionType /\ accepted' \subseteq delivered'
    BY <1>1, <1>2, <1>5 DEF TypeOK
  <2>3. QED
    BY <1>1, <1>2, <1>4, <1>5, <1>6, <2>1, <2>2 DEF TypeOK
<1>8. LedgerTypeOK' /\ SpentSetSound'
  BY <1>5 DEF LedgerTypeOK, SpentSetSound
<1>9. RoundOK'
  BY <1>1, <1>2, <1>5 DEF RoundOK, Spending, RoundSize, Admits
<1>10. EveryTxValid'
  BY <1>1, <1>3 DEF EveryTxValid, ValidTx
<1>11. QED
  BY <1>7, <1>8, <1>9, <1>10

\* A failed retry keeps the invariant.
LEMMA RetryFailsStep == IInv /\ RetryFails => IInv'
<1> SUFFICES ASSUME IInv, RetryFails PROVE IInv'
  OBVIOUS
<1> USE DEF IInv
<1>1. /\ delivered \subseteq delivered' /\ delivered' \subseteq delivered \cup retrying
      /\ pc = "retry" /\ Spending
      /\ UNCHANGED <<hostIdx, clnt, spentSet, sentTxs, accepted, nTx, now, head, lrb>>
  BY DEF RetryFails, Spending
<1>2. faults' \in 0 .. MaxFaults
  BY ConstantTypes DEF RetryFails, TypeOK
<1>3. CASE Conflict /\ ~LastMember
  <2>1. /\ pc' = "build" /\ member' = member + 1 /\ retrying' = {}
        /\ UNCHANGED <<metrics, wakeAt, outs, unchecked, seenFinal, currentSlot, seqs,
                       balance, inputs, total, firstTs>>
    BY <1>3 DEF RetryFails, ContinueSet
  <2>2. member \in Nat /\ member + 1 < RoundSize
    <3>1. member \in Nat /\ RoundSize \in Int /\ member < RoundSize
      BY <1>1, SenderAssumption, AmountsAssumption
      DEF TypeOK, RoundOK, RoundSize, Spending
    <3>2. QED
      BY <1>3, <3>1 DEF LastMember
  <2>3. TypeOK'
    BY <1>1, <1>2, <2>1, <2>2 DEF TypeOK
  <2>4. LedgerTypeOK' /\ SpentSetSound'
    BY <1>1 DEF LedgerTypeOK, SpentSetSound
  <2>5. RoundOK'
    BY <1>1, <1>3, <2>1, <2>2 DEF RoundOK, Spending, RoundSize, Admits
  <2>6. EveryTxValid'
    BY <1>1, <2>1 DEF EveryTxValid, ValidTx
  <2>7. QED
    BY <2>3, <2>4, <2>5, <2>6
<1>4. CASE ~(Conflict /\ ~LastMember)
  <2>1. /\ FinishSpending(sentTxs # {})
        /\ metrics' = Counted(0, 0, SetsEnded(sentTxs))
    BY <1>4 DEF RetryFails
  <2>2. Cleared
    <3>1. (sentTxs # {}) \in BOOLEAN
      OBVIOUS
    <3>2. QED
      BY <1>1, <2>1, <3>1, FinishSpendingClears, Zenon
  <2>3. metrics' \in [sent : Nat, failed : Nat, sets : Nat]
    BY <2>1 DEF Counted, SetsEnded, TypeOK
  <2>4. hostIdx' \in Hosts /\ clnt' \in Hosts
    BY <1>1 DEF TypeOK
  <2>5. QED
    BY <1>1, <1>2, <2>2, <2>3, <2>4, FinishStep
<1>5. QED
  BY <1>3, <1>4

-----------------------------------------------------------------------------
(* The clock and the network. *)

\* The clock keeps the invariant.
LEMMA ClockStep == IInv /\ Clock => IInv'
<1> SUFFICES ASSUME IInv, Clock PROVE IInv'
  OBVIOUS
<1> USE DEF IInv
<1>1. /\ UNCHANGED <<pc, hostIdx, spentSet, metrics, accepted, outs, currentSlot,
                     unchecked, seenFinal, seqs, balance, inputs, total, member,
                     firstTs, retrying, sentTxs, clnt, wakeAt, nTx, faults, delivered,
                     head, lrb>>
      /\ now < MaxTick /\ now' = now + 1
  BY DEF Clock, Tick, senderVars, wallet, fetched, round
<1>2. now' \in 0 .. MaxTick
  BY <1>1, ConstantTypes DEF TypeOK
<1>3. TypeOK'
  BY <1>1, <1>2 DEF TypeOK
<1>4. LedgerTypeOK' /\ SpentSetSound'
  BY <1>1 DEF LedgerTypeOK, SpentSetSound
<1>5. RoundOK'
  BY <1>1 DEF RoundOK, Spending, RoundSize, Admits
<1>6. EveryTxValid'
  BY <1>1 DEF EveryTxValid, ValidTx
<1>7. QED
  BY <1>3, <1>4, <1>5, <1>6

\* Whatever the network does, its states hold outputs.
LEMMA NetworkType ==
  ASSUME IInv, Network
  PROVE  LedgerTypeOK'
<1> USE DEF IInv
<1>1. head \in StateType /\ lrb \in [Hosts -> StateType]
  BY DEF LedgerTypeOK
<1>2. CASE Consolidate
  <2>1. PICK C \in SUBSET delivered :
          head' = State((head.utxo \cup UNION {Produced(t) : t \in C})
                          \ UNION {Consumed(t) : t \in C},
                        head.txids \cup {t.id : t \in C})
    BY <1>2 DEF Consolidate
  <2>2. \A t \in C : Produced(t) \subseteq OutputType /\ t.id \in Int
    <3>1. SUFFICES ASSUME NEW t \in C
                   PROVE  Produced(t) \subseteq OutputType /\ t.id \in Int
      OBVIOUS
    <3>2. t \in TransactionType /\ CanBuild(t.content.total, t.content.fee)
      BY DEF TypeOK, RoundOK
    <3>3. \A o \in t.content.ins : t.content.ts >= o.ts + Pace
      BY DEF EveryTxValid, ValidTx
    <3>4. t.id \in Int
      BY <3>2 DEF TransactionType
    <3>5. QED
      BY <3>2, <3>3, <3>4, BuildableIsValid
  <2>3. head' \in StateType
    BY <1>1, <2>1, <2>2 DEF State, StateType
  <2>4. QED
    BY <1>1, <1>2, <2>3 DEF Consolidate, LedgerTypeOK
<1>3. CASE Deposit
  <2>1. PICK d \in Deposits :
          head' = State(head.utxo \cup {d}, head.txids \cup {d.tx})
    BY <1>3 DEF Deposit
  <2>2. d \in OutputType /\ d.tx \in Int
    BY LedgerAssumption DEF OutputType
  <2>3. QED
    BY <1>1, <1>3, <2>1, <2>2 DEF Deposit, State, StateType, LedgerTypeOK
<1>4. CASE Withdraw
  BY <1>1, <1>4 DEF Withdraw, StateType, LedgerTypeOK
<1>5. CASE \E h \in Hosts : Sync(h)
  BY <1>1, <1>5 DEF Sync, LedgerTypeOK
<1>6. QED
  BY <1>2, <1>3, <1>4, <1>5 DEF Network

\* Consolidation, a host that catches up, deposits and withdrawals keep the
\* invariant.
LEMMA NetworkStep == IInv /\ Network => IInv'
<1> SUFFICES ASSUME IInv, Network PROVE IInv'
  OBVIOUS
<1> USE DEF IInv
<1>1. UNCHANGED <<pc, hostIdx, spentSet, metrics, accepted, outs, currentSlot,
                  unchecked, seenFinal, seqs, balance, inputs, total, member,
                  firstTs, retrying, sentTxs, clnt, wakeAt, nTx, faults, delivered, now>>
  BY DEF Network, Consolidate, Deposit, Withdraw, Sync, senderVars, wallet, fetched,
         round
<1>2. TypeOK'
  BY <1>1 DEF TypeOK
<1>3. LedgerTypeOK'
  BY NetworkType
<1>4. SpentSetSound'
  BY <1>1 DEF SpentSetSound
<1>5. RoundOK'
  BY <1>1 DEF RoundOK, Spending, RoundSize, Admits
<1>6. EveryTxValid'
  BY <1>1 DEF EveryTxValid, ValidTx
<1>7. QED
  BY <1>2, <1>3, <1>4, <1>5, <1>6

-----------------------------------------------------------------------------
(* The invariant, and what follows from it. *)

\* The invariant holds when a sender starts.
LEMMA InitStep == Init => IInv
<1> SUFFICES ASSUME Init PROVE IInv
  OBVIOUS
<1> USE DEF Init, LedgerInit
<1>1. 0 \in Hosts /\ 0 \in 0 .. MaxTick /\ 0 \in 0 .. Supply /\ 0 \in 0 .. MaxFaults
  BY ConstantTypes DEF Hosts
<1>2. TypeOK
  BY <1>1 DEF TypeOK
<1>3. LedgerTypeOK
  BY LedgerAssumption DEF LedgerTypeOK, StateType, State
<1>4. RoundOK /\ EveryTxValid /\ SpentSetSound
  BY DEF RoundOK, Spending, EveryTxValid, SpentSetSound
<1>5. QED
  BY <1>2, <1>3, <1>4 DEF IInv

\* The invariant depends on no more than the variables.
LEMMA StutterStep == IInv /\ UNCHANGED vars => IInv'
<1> SUFFICES ASSUME IInv, UNCHANGED vars PROVE IInv'
  OBVIOUS
<1> USE DEF IInv, vars, ledgerVars, senderVars, wallet, fetched, round
<1>1. TypeOK'
  BY DEF TypeOK
<1>2. LedgerTypeOK' /\ RoundOK' /\ SpentSetSound'
  BY DEF LedgerTypeOK, RoundOK, Spending, RoundSize, Admits, SpentSetSound
<1>3. EveryTxValid'
  BY DEF EveryTxValid, ValidTx
<1>4. QED
  BY <1>1, <1>2, <1>3

\* The invariant is inductive: every step of the sender, of the clock and of
\* the network keeps it.
THEOREM Inductive == Spec => []IInv
<1>1. IInv /\ [Next]_vars => IInv'
  <2> SUFFICES ASSUME IInv, [Next]_vars PROVE IInv'
    OBVIOUS
  <2>1. CASE FetchOutputs \/ FetchFails
    BY <2>1, FetchOutputsStep, FetchFailsStep
  <2>2. CASE \E o \in unchecked : Classify(o)
    BY <2>2, ClassifyStep
  <2>3. CASE NothingToSpend \/ NoSequencers \/ Underfunded
    BY <2>3, IdleRoundStep
  <2>4. CASE StartSpending \/ BuildFails
    BY <2>4, StartSpendingStep, BuildFailsStep
  <2>5. CASE Submit \/ SubmitFails \/ Retry \/ RetryFails
    BY <2>5, SubmitStep, SubmitFailsStep, RetryStep, RetryFailsStep
  <2>6. CASE Wake \/ Clock \/ Network
    BY <2>6, WakeStep, ClockStep, NetworkStep
  <2>7. CASE UNCHANGED vars
    BY <2>7, StutterStep
  <2>8. QED
    BY <2>1, <2>2, <2>3, <2>4, <2>5, <2>6, <2>7 DEF Next, Run
<1>2. QED
  BY InitStep, <1>1, PTL DEF Spec

\* The state of the sender and of the ledger stays within its types: the host
\* index within the list of hosts, every balance and output a natural.
THEOREM TypeCorrect == Spec => []TypeOK
<1>1. IInv => TypeOK
  BY DEF IInv
<1>2. QED
  BY Inductive, <1>1, PTL

\* Every transaction the sender hands to a node conserves its inputs, creates
\* no dust and keeps a pace from every input, in a chain, in a conflict set
\* and in a retry, with any jitter (buildOneTx, pickTimestamp).
THEOREM TxValidity == Spec => []EveryTxValid
<1>1. IInv => EveryTxValid
  BY DEF IInv
<1>2. QED
  BY Inductive, <1>1, PTL

\* Every entry of spentSet names an acknowledged transaction that consumes
\* the output, with the slot of that transaction.
THEOREM SpentSetCorrect == Spec => []SpentSetSound
<1>1. IInv => SpentSetSound
  BY DEF IInv
<1>2. QED
  BY Inductive, <1>1, PTL

LEMMA GateHolds ==
  ASSUME IInv
  PROVE  GateAdmitsRound
<1> SUFFICES ASSUME pc = "build", Conflict \/ member = 0
             PROVE  CanBuild(total, TagAlongFee)
  BY DEF GateAdmitsRound
<1>1. /\ seqs \in Seq(SeqInfo) /\ seqs # <<>> /\ member \in Nat
      /\ total \in Nat /\ total = balance
      /\ \A i \in DOMAIN seqs : total >= MinBalanceForOneTx(seqs[i].fee)
      /\ member < RoundSize
  BY SenderAssumption DEF IInv, TypeOK, RoundOK, Spending, Admits
<1>2. 1 \in DOMAIN seqs /\ (Conflict => member + 1 \in DOMAIN seqs)
  BY <1>1 DEF RoundSize
<1>3. PICK i \in DOMAIN seqs : Sequencer = seqs[i]
  BY <1>2 DEF Sequencer
<1>4. seqs[i].fee \in Nat /\ total >= MinBalanceForOneTx(seqs[i].fee)
  <2>1. seqs[i] \in SeqInfo
    BY <1>1
  <2>2. QED
    BY <1>1, <2>1 DEF SeqInfo
<1>5. QED
  BY <1>1, <1>3, <1>4, AmountsAssumption
  DEF CanBuild, TagAlongFee, MinBalanceForOneTx

\* A round that passed the gate on the balance can build the first
\* transaction of its chain and every member of its set.
THEOREM GateAdmits == Spec => []GateAdmitsRound
<1>1. IInv => GateAdmitsRound
  BY GateHolds
<1>2. QED
  BY Inductive, <1>1, PTL

-----------------------------------------------------------------------------
(* The host of a retry. *)

\* In conflict mode the client of a round follows the index of the hosts.
ClientFollows ==
  Conflict /\ pc \in {"classify", "build", "retry"} => clnt = hostIdx

LEMMA ClientFollowsStep ==
  ASSUME IInv, ClientFollows, [Next]_vars
  PROVE  ClientFollows'
<1> USE DEF ClientFollows
<1>1. CASE FetchOutputs
  BY <1>1 DEF FetchOutputs
<1>2. CASE FetchFails
  BY <1>2 DEF FetchFails, Finish
<1>3. CASE \E o \in unchecked : Classify(o)
  BY <1>3 DEF Classify
<1>4. CASE NothingToSpend \/ NoSequencers \/ Underfunded
  BY <1>4 DEF NothingToSpend, NoSequencers, Underfunded, Finish
<1>5. CASE StartSpending
  BY <1>5 DEF StartSpending, Classified
<1>6. CASE BuildFails
  BY <1>6 DEF BuildFails, FinishSpending, FinishConflictSet, Finish
<1>7. CASE Submit \/ Retry
  BY <1>7 DEF Submit, Retry, Acknowledge
<1>8. CASE SubmitFails
  BY <1>8 DEF SubmitFails
<1>9. CASE RetryFails
  <2>1. pc = "retry" /\ UNCHANGED <<clnt, hostIdx>>
    BY <1>9 DEF RetryFails
  <2> QED BY <2>1
<1>10. CASE Wake
  BY <1>10 DEF Wake
<1>11. CASE Clock \/ Network \/ UNCHANGED vars
  <2>1. UNCHANGED <<pc, clnt, hostIdx>>
    BY <1>11 DEF Clock, Network, vars, senderVars, wallet
  <2> QED BY <2>1
<1> QED BY <1>1, <1>2, <1>3, <1>4, <1>5, <1>6, <1>7, <1>8, <1>9, <1>10, <1>11
        DEF Next, Run

\* In conflict mode a failed submission is retried on another host, if there
\* is one, whatever the strategy (rotateHost, buildAndSubmitConflictSet).  In
\* a chained batch it need not be: there the client stays behind.
THEOREM RetryChangesHost ==
  ASSUME Conflict
  PROVE  Spec => RetryGoesToAnotherHost
<1>1. Init => ClientFollows
  BY DEF Init, ClientFollows
<1>2. IInv /\ ClientFollows /\ [Next]_vars => ClientFollows'
  BY ClientFollowsStep
<1>3. ASSUME IInv, ClientFollows, Next, pc = "build", pc' = "retry", NumHosts > 1
      PROVE  clnt' # clnt
  <2>1. SubmitFails
    <3>1. ~(FetchOutputs \/ FetchFails \/ NothingToSpend \/ NoSequencers \/ Underfunded
            \/ StartSpending \/ Retry \/ RetryFails \/ Wake)
      BY <1>3 DEF FetchOutputs, FetchFails, NothingToSpend, NoSequencers, Underfunded,
           StartSpending, Classified, Retry, RetryFails, Wake
    <3>2. ~ \E o \in unchecked : Classify(o)
      BY <1>3 DEF Classify
    <3>3. ~BuildFails /\ ~Submit
      BY <1>3 DEF BuildFails, Submit, Acknowledge, FinishSpending, FinishConflictSet,
           Finish, ContinueSet, ContinueChain
    <3>4. ~Clock /\ ~Network
      BY <1>3 DEF Clock, Network, senderVars
    <3> QED BY <1>3, <3>1, <3>2, <3>3, <3>4 DEF Next, Run
  <2>2. clnt' = (hostIdx + 1) % NumHosts
    BY <2>1 DEF SubmitFails, RotateHost
  <2>3. clnt = hostIdx /\ hostIdx \in 0 .. (NumHosts - 1) /\ NumHosts \in Nat
    BY <1>3, ConstantTypes DEF ClientFollows, IInv, TypeOK, Hosts
  <2>4. (hostIdx + 1) % NumHosts # hostIdx
    <3>1. CASE hostIdx + 1 = NumHosts
      BY <1>3, <2>3, <3>1
    <3>2. CASE hostIdx + 1 < NumHosts
      BY <1>3, <2>3, <3>2
    <3> QED BY <2>3, <3>1, <3>2
  <2> QED BY <2>2, <2>3, <2>4
<1>4. IInv /\ ClientFollows /\ [Next]_vars =>
        [pc = "build" /\ pc' = "retry" /\ NumHosts > 1 => clnt' # clnt]_vars
  BY <1>3
<1> QED BY <1>1, <1>2, <1>4, Inductive, PTL DEF Spec, RetryGoesToAnotherHost

-----------------------------------------------------------------------------
(* A funded chain. *)

\* What the balance promised is still there for the members to come.
StillFunded ==
  balance >= MinFundingPerSender(seqs[1].fee) =>
    total >= ((BatchSize - member) * TransferAmount) + seqs[1].fee + MinStorageDeposit

\* What a chain has sent paid nothing and lies before its inputs.
SentBefore ==
  \A u \in sentTxs :
    u.content.fee = 0 /\ \E o \in inputs : u.content.ts <= o.ts

ChainInv ==
  ~Conflict =>
    /\ pc = "classify" => sentTxs = {}
    /\ Spending => StillFunded /\ SentBefore
    /\ pc = "retry" =>
         \A t \in retrying : t.content.total = total /\ t.content.fee = TagAlongFee

\* What a chain knows when it is about to build or retry member t.
ChainMember(t) ==
  /\ t \in TransactionType
  /\ t.content.ins = inputs
  /\ t.content.total = total
  /\ t.content.fee = TagAlongFee
  /\ \A o \in inputs : t.content.ts >= o.ts + Pace

LEMMA ChainTypes ==
  ASSUME IInv, ~Conflict, Spending
  PROVE  /\ seqs[1].fee \in Nat \ {0}
         /\ member \in Nat /\ member < BatchSize /\ BatchSize \in Nat
         /\ total \in Nat /\ balance \in Nat
         /\ TagAlongFee = IF member = BatchSize - 1 THEN seqs[1].fee ELSE 0
<1>1. seqs \in Seq(SeqInfo) /\ seqs # <<>> /\ member \in Nat /\ total \in Nat
  BY SenderAssumption DEF IInv, TypeOK, Spending
<1>2. balance \in Nat
  BY ConstantTypes DEF IInv, TypeOK
<1>3. seqs[1] \in SeqInfo
  BY <1>1
<1>4. member < BatchSize
  BY DEF IInv, RoundOK, RoundSize
<1> QED BY <1>1, <1>2, <1>3, <1>4, AmountsAssumption
        DEF SeqInfo, TagAlongFee, IncludeTagAlong, Sequencer

\* A funded member can be built, and leaves a remainder unless it is the last.
LEMMA FundedMember ==
  ASSUME IInv, ~Conflict, Spending, StillFunded,
         balance >= MinFundingPerSender(seqs[1].fee)
  PROVE  /\ CanBuild(total, TagAlongFee)
         /\ LeavesRemainder(total, TagAlongFee)
<1> DEFINE left == (BatchSize - member) * TransferAmount
<1>1. /\ seqs[1].fee \in Nat /\ member \in Nat /\ member < BatchSize
      /\ BatchSize \in Nat /\ total \in Nat
      /\ TagAlongFee \in 0 .. seqs[1].fee
  BY ChainTypes
<1>2. TransferAmount \in Nat /\ MinStorageDeposit \in Nat
  BY AmountsAssumption
<1>3. left \in Nat /\ left >= TransferAmount
  <2>1. BatchSize - member \in Nat \ {0}
    BY <1>1
  <2> QED BY <1>2, <2>1
<1>4. total >= left + seqs[1].fee + MinStorageDeposit
  BY DEF StillFunded
<1> HIDE DEF left
<1> QED BY <1>1, <1>2, <1>3, <1>4 DEF CanBuild, LeavesRemainder

\* An acknowledged member that is not the last of its round leaves the next
\* one what it needs.
LEMMA AcknowledgeChain ==
  ASSUME IInv, ChainInv, ~Conflict, Spending, NEW t, ChainMember(t),
         CanBuild(total, TagAlongFee), Acknowledge(t)
  PROVE  ChainInv'
<1>1. CASE LastOfRound(t)
  BY <1>1 DEF Acknowledge, FinishSpending, Finish, ChainInv, Spending
<1>2. CASE ~LastOfRound(t)
  <2>1. /\ pc' = "build" /\ member' = member + 1 /\ UNCHANGED <<seqs, balance>>
        /\ inputs' = {RemainderOutput(t.id, t.content)}
        /\ total' = RemainderAmount(total, t.content.fee)
        /\ sentTxs' = sentTxs \cup {t}
    BY <1>2 DEF Acknowledge, ContinueChain, ChainMember
  <2>2. /\ member # BatchSize - 1 /\ LeavesRemainder(total, t.content.fee)
    BY <1>2 DEF LastOfRound, LastMember, RoundSize, ChainMember
  <2>3. /\ seqs[1].fee \in Nat /\ member \in Nat /\ member < BatchSize
        /\ BatchSize \in Nat /\ total \in Nat /\ balance \in Nat
        /\ t.content.fee = 0
    BY <2>2, ChainTypes DEF ChainMember
  <2>4. total' = total - TransferAmount
    BY <2>1, <2>2, <2>3, AmountsAssumption DEF RemainderAmount
  <2>5. StillFunded'
    <3> DEFINE left == (BatchSize - member) * TransferAmount
    <3>1. TransferAmount \in Nat /\ MinStorageDeposit \in Nat
      BY AmountsAssumption
    <3>2. /\ left \in Nat
          /\ (BatchSize - (member + 1)) * TransferAmount = left - TransferAmount
      BY <2>3, <3>1
    <3>3. balance >= MinFundingPerSender(seqs[1].fee) =>
            total >= left + seqs[1].fee + MinStorageDeposit
      BY DEF ChainInv, StillFunded
    <3> HIDE DEF left
    <3>4. balance >= MinFundingPerSender(seqs[1].fee) =>
            total - TransferAmount >=
              (left - TransferAmount) + seqs[1].fee + MinStorageDeposit
      BY <2>3, <3>1, <3>2, <3>3
    <3> QED BY <2>1, <2>4, <3>2, <3>4 DEF StillFunded
  <2>6. SentBefore'
    <3>1. RemainderOutput(t.id, t.content).ts = t.content.ts
      BY DEF RemainderOutput, Output
    <3>2. t.content.ts \in Nat /\ Pace \in Nat
      BY ConstantTypes DEF ChainMember, TransactionType, ContentType
    <3>3. ASSUME NEW u \in sentTxs
          PROVE  u.content.fee = 0 /\ u.content.ts <= t.content.ts
      <4>1. u.content.fee = 0 /\ \E o \in inputs : u.content.ts <= o.ts
        BY DEF ChainInv, SentBefore
      <4>2. PICK o \in inputs : u.content.ts <= o.ts
        BY <4>1
      <4>3. o.ts \in Nat /\ u.content.ts \in Nat
        BY DEF IInv, TypeOK, OutputType, TransactionType, ContentType
      <4>4. t.content.ts >= o.ts + Pace
        BY DEF ChainMember
      <4> QED BY <3>2, <4>1, <4>2, <4>3, <4>4
    <3> QED BY <2>1, <2>3, <3>1, <3>2, <3>3 DEF SentBefore
  <2> QED BY <2>1, <2>5, <2>6 DEF ChainInv, Spending
<1> QED BY <1>1, <1>2

\* A step that leaves the chain alone keeps what is known of it.
LEMMA ChainKept ==
  ASSUME ChainInv,
         UNCHANGED <<pc, seqs, balance, inputs, total, member, retrying, sentTxs>>
  PROVE  ChainInv'
<1>1. StillFunded' = StillFunded /\ SentBefore' = SentBefore
      /\ TagAlongFee' = TagAlongFee /\ Spending' = Spending
  BY DEF StillFunded, SentBefore, TagAlongFee, IncludeTagAlong, Sequencer, Spending
<1> QED BY <1>1 DEF ChainInv

\* The gate on a round that starts: its balance is all there.
LEMMA ChainStarts == ASSUME ChainInv, StartSpending PROVE ChainInv'
<1>1. /\ pc' = "build" /\ total' = balance' /\ member' = 0
      /\ pc = "classify" /\ sentTxs' = sentTxs
  BY DEF StartSpending, Classified
<1>2. SentBefore' \/ Conflict
  BY <1>1 DEF ChainInv, SentBefore
<1>3. StillFunded'
  BY <1>1, AmountsAssumption DEF StillFunded, MinFundingPerSender
<1> QED BY <1>1, <1>2, <1>3 DEF ChainInv, Spending

\* A submission that fails keeps what it will retry.
LEMMA ChainFails == ASSUME IInv, ChainInv, ~Conflict, SubmitFails PROVE ChainInv'
<1>1. PICK t \in BuildOneTx : retrying' = {t}
  BY DEF SubmitFails
<1>2. t.content.total = total /\ t.content.fee = TagAlongFee
  BY BuiltTransaction DEF SubmitFails
<1>3. /\ pc = "build" /\ pc' = "retry"
      /\ UNCHANGED <<seqs, balance, inputs, total, member, sentTxs>>
  BY DEF SubmitFails
<1>4. StillFunded' = StillFunded /\ SentBefore' = SentBefore
      /\ TagAlongFee' = TagAlongFee
  BY <1>3 DEF StillFunded, SentBefore, TagAlongFee, IncludeTagAlong, Sequencer
<1> QED BY <1>1, <1>2, <1>3, <1>4 DEF ChainInv, Spending

\* The transaction of an acknowledged submission or retry is a member.
LEMMA AcknowledgedMember ==
  ASSUME IInv, ChainInv, ~Conflict, Submit \/ Retry
  PROVE  \E t : ChainMember(t) /\ CanBuild(total, TagAlongFee) /\ Acknowledge(t)
<1>1. CASE Submit
  <2>1. PICK t \in BuildOneTx : Acknowledge(t)
    BY <1>1 DEF Submit
  <2>2. ChainMember(t)
    BY <1>1, BuiltTransaction DEF Submit, ChainMember
  <2> QED BY <1>1, <2>1, <2>2 DEF Submit
<1>2. CASE Retry
  <2>1. PICK t \in retrying : Acknowledge(t)
    BY <1>2 DEF Retry
  <2>2. /\ t \in TransactionType
        /\ CanBuild(t.content.total, t.content.fee)
        /\ t.content.ins = inputs
    BY DEF IInv, TypeOK, RoundOK
  <2>3. \A o \in inputs : t.content.ts >= o.ts + Pace
    BY <2>2 DEF IInv, EveryTxValid, ValidTx
  <2>4. t.content.total = total /\ t.content.fee = TagAlongFee
    BY <1>2 DEF Retry, ChainInv
  <2> QED BY <2>1, <2>2, <2>3, <2>4 DEF ChainMember
<1> QED BY <1>1, <1>2

LEMMA ChainInvStep ==
  ASSUME IInv, ChainInv, [Next]_vars
  PROVE  ChainInv'
<1> SUFFICES ASSUME ~Conflict PROVE ChainInv'
  BY DEF ChainInv
<1>1. CASE FetchOutputs
  BY <1>1 DEF FetchOutputs, ChainInv, Spending
<1>2. CASE FetchFails
  BY <1>2 DEF FetchFails, Finish, ChainInv, Spending
<1>3. CASE \E o \in unchecked : Classify(o)
  <2>1. UNCHANGED <<pc, seqs, balance, inputs, total, member, retrying, sentTxs>>
    BY <1>3 DEF Classify
  <2> QED BY <2>1, ChainKept
<1>4. CASE NothingToSpend \/ NoSequencers \/ Underfunded
  BY <1>4 DEF NothingToSpend, NoSequencers, Underfunded, Finish, ChainInv, Spending
<1>5. CASE StartSpending
  BY <1>5, ChainStarts
<1>6. CASE BuildFails
  BY <1>6 DEF BuildFails, FinishSpending, Finish, ChainInv, Spending
<1>7. CASE Submit \/ Retry
  <2>1. Spending
    BY <1>7 DEF Submit, Retry, Spending
  <2> QED BY <1>7, <2>1, AcknowledgedMember, AcknowledgeChain
<1>8. CASE SubmitFails
  BY <1>8, ChainFails
<1>9. CASE RetryFails
  BY <1>9 DEF RetryFails, FinishSpending, Finish, ChainInv, Spending
<1>10. CASE Wake
  BY <1>10 DEF Wake, ChainInv, Spending
<1>11. CASE Clock \/ Network \/ UNCHANGED vars
  <2>1. UNCHANGED <<pc, seqs, balance, inputs, total, member, retrying, sentTxs>>
    BY <1>11 DEF Clock, Network, vars, senderVars, round
  <2> QED BY <2>1, ChainKept
<1> QED BY <1>1, <1>2, <1>3, <1>4, <1>5, <1>6, <1>7, <1>8, <1>9, <1>10, <1>11
        DEF Next, Run

\* A funded chain ends at its last member, and that one pays.
LEMMA FundedEnd ==
  ASSUME IInv, ChainInv, ~Conflict, Spending, NEW t, ChainMember(t),
         CanBuild(total, TagAlongFee), Acknowledge(t), pc' \in {"start", "wait"},
         balance >= MinFundingPerSender(seqs[1].fee)
  PROVE  PaysOneFee /\ member = BatchSize - 1
<1>1. StillFunded /\ SentBefore
  BY DEF ChainInv
<1>2. LeavesRemainder(t.content.total, t.content.fee)
  BY <1>1, FundedMember DEF ChainMember
<1>3. LastOfRound(t)
  BY DEF Acknowledge, ContinueChain
<1>4. member = BatchSize - 1
  BY <1>2, <1>3 DEF LastOfRound, LastMember, RoundSize
<1>5. t.content.fee > 0
  <2>1. seqs[1].fee \in Nat \ {0} /\ t.content.fee = seqs[1].fee
    BY <1>4, ChainTypes DEF ChainMember
  <2> QED BY <2>1
<1>6. ASSUME NEW u \in sentTxs
      PROVE  u.content.fee = 0 /\ u.content.ts < t.content.ts
  <2>1. PICK o \in inputs : u.content.ts <= o.ts
    BY <1>1 DEF SentBefore
  <2>2. o.ts \in Nat /\ u.content.ts \in Nat
    <3>1. o \in OutputType
      BY DEF IInv, TypeOK
    <3>2. u \in TransactionType
      BY DEF IInv, TypeOK
    <3> QED BY <3>1, <3>2 DEF OutputType, TransactionType, ContentType
  <2>3. t.content.ts >= o.ts + Pace /\ t.content.ts \in Nat
    BY DEF ChainMember, TransactionType, ContentType
  <2>4. Pace \in Nat \ {0}
    BY ConstantTypes
  <2> QED BY <1>1, <2>1, <2>2, <2>3, <2>4 DEF SentBefore
<1>7. sentTxs' = sentTxs \cup {t}
  BY DEF Acknowledge
<1> QED BY <1>4, <1>5, <1>6, <1>7 DEF PaysOneFee

\* A chain whose balance is what config.go promises is enough
\* (MinFundingPerSender), and none of whose retries fails, is complete: all
\* its members are sent, the last one pays the tag-along fee and no other
\* does (buildAndSubmitBatch).
THEOREM FundedChainPays == Spec => FundedChainCompletes
<1>1. Init => ChainInv
  BY DEF Init, ChainInv, Spending
<1>2. IInv /\ ChainInv /\ [Next]_vars => ChainInv'
  BY ChainInvStep
<1>3. ASSUME IInv, ChainInv, Next, EndsSpending, ~Conflict, ~SecondAttemptFailed,
             balance >= MinFundingPerSender(seqs[1].fee)
      PROVE  PaysOneFee /\ member = BatchSize - 1
  <2>1. Spending /\ pc' \in {"start", "wait"}
    BY <1>3 DEF EndsSpending, Spending
  <2>2. ~(FetchOutputs \/ FetchFails \/ NothingToSpend \/ NoSequencers \/ Underfunded
          \/ StartSpending \/ SubmitFails \/ Wake)
    BY <2>1 DEF FetchOutputs, FetchFails, NothingToSpend, NoSequencers, Underfunded,
         StartSpending, Classified, SubmitFails, Wake, Spending
  <2>3. ~ \E o \in unchecked : Classify(o)
    BY <2>1 DEF Classify, Spending
  <2>4. ~Clock /\ ~Network
    BY <2>1 DEF Clock, Network, senderVars, Spending
  <2>5. ~RetryFails
    BY <1>3 DEF RetryFails, SecondAttemptFailed
  <2>6. ~BuildFails
    BY <1>3, <2>1, FundedMember DEF BuildFails, ChainInv
  <2>7. Submit \/ Retry
    BY <1>3, <2>2, <2>3, <2>4, <2>5, <2>6 DEF Next, Run
  <2> QED BY <1>3, <2>1, <2>7, AcknowledgedMember, FundedEnd
<1>4. IInv /\ ChainInv /\ [Next]_vars =>
        [EndsSpending /\ ~Conflict /\ ~SecondAttemptFailed
           /\ balance >= MinFundingPerSender(seqs[1].fee)
         => PaysOneFee /\ member = BatchSize - 1]_vars
  BY <1>3
<1> QED BY <1>1, <1>2, <1>4, Inductive, PTL DEF Spec, FundedChainCompletes

-----------------------------------------------------------------------------
(* The timeline of the holder. *)

\* Every acknowledged timestamp lies a pace before x ...
Before(x) == \A t \in accepted : t.content.ts + Pace <= x

\* ... or x is too late to spend.
Free(x) == x > LastSpendTick \/ Before(x)

Spaced(t, u) ==
  \/ t.content.ts >= u.content.ts + Pace
  \/ u.content.ts >= t.content.ts + Pace

\* Between two sets the timeline is free from the clock on, or from the end of
\* the sleep; in a set, from the timestamp of the member to come.
TimelineInv ==
  /\ pc \in {"start", "classify"} => Free(now)
  /\ pc = "wait" => Free(wakeAt)
  /\ Spending =>
       /\ now <= LastSpendTick
       /\ Before(ConflictTimestamp(member))
       /\ sentTxs = {} => Before(now)
  /\ pc = "retry" => \A t \in retrying : t.content.ts = ConflictTimestamp(member)
  /\ \A t, u \in accepted : t # u => Spaced(t, u)

\* A set has more than one member, and the end of modelled time comes after
\* the last spend.
TimelineConstants ==
  /\ Conflict
  /\ LastSpendTick < MaxTick
  /\ \A s \in SeqLists : Len(s) >= 2

LEMMA TimelineTypes ==
  ASSUME IInv
  PROVE  /\ now \in Nat /\ wakeAt \in Nat /\ firstTs \in Nat /\ member \in Nat
         /\ Pace \in Nat \ {0} /\ LastSpendTick \in Nat /\ MaxTick \in Nat
         /\ ConflictTimestamp(member) \in Nat
         /\ \A t \in accepted : t.content.ts \in Nat
<1>1. now \in Nat /\ wakeAt \in Nat /\ firstTs \in Nat /\ member \in Nat
      /\ Pace \in Nat \ {0} /\ LastSpendTick \in Nat /\ MaxTick \in Nat
  BY ConstantTypes, SenderAssumption DEF IInv, TypeOK
<1>2. member * Pace \in Nat
  BY <1>1
<1>3. \A t \in accepted : t.content.ts \in Nat
  BY DEF IInv, TypeOK, TransactionType, ContentType
<1> QED BY <1>1, <1>2, <1>3 DEF ConflictTimestamp

LEMMA FreeGrows ==
  ASSUME IInv, NEW x \in Int, NEW y \in Int, x <= y
  PROVE  (Before(x) => Before(y)) /\ (Free(x) => Free(y))
<1>1. Before(x) => Before(y)
  BY TimelineTypes DEF Before
<1> QED BY <1>1, TimelineTypes DEF Free

\* A step that acknowledges nothing and does not end a sleep or a round.
LEMMA TimelineKept ==
  ASSUME IInv, TimelineInv,
         UNCHANGED <<pc, wakeAt, sentTxs, accepted, member, firstTs, retrying>>,
         now' \in Nat, now <= now', Spending => now' <= LastSpendTick
  PROVE  TimelineInv'
<1>1. \A x : Before(x)' = Before(x)
  BY DEF Before
<1>2. Before(now) => \A t \in accepted' : t.content.ts + Pace <= now'
  BY TimelineTypes DEF Before
<1>3. Free(now) => Free(now)'
  BY <1>2, TimelineTypes DEF Free, Before
<1>4. Before(ConflictTimestamp(member))' = Before(ConflictTimestamp(member))
      /\ Free(wakeAt)' = Free(wakeAt)
  BY DEF Before, Free, ConflictTimestamp
<1>5. Before(now) => Before(now)'
  BY <1>2 DEF Before
<1>6. ConflictTimestamp(member)' = ConflictTimestamp(member) /\ Spending' = Spending
  BY DEF ConflictTimestamp, Spending
<1> QED BY <1>3, <1>4, <1>5, <1>6 DEF TimelineInv, Spaced

\* The first timestamp of a set is not before the clock.
LEMMA FirstTimestamp ==
  ASSUME IInv, NEW ins \in SUBSET OutputType, NEW ts \in PickTimestamp(ins)
  PROVE  ts \in Nat /\ ts >= now
<1>1. PICK l \in PaceLowerBound(ins) : ts \in l .. (l + JitterTicks)
  BY DEF PickTimestamp
<1>2. now \in Nat /\ Pace \in Nat /\ JitterTicks \in Nat
  BY ConstantTypes, TimelineTypes
<1>3. \A o \in ins : o.ts \in Nat
  BY DEF OutputType
<1>4. l \in Nat /\ l >= now
  BY <1>2, <1>3 DEF PaceLowerBound
<1> QED BY <1>1, <1>2, <1>4

LEMMA TimelineStarts ==
  ASSUME IInv, TimelineInv, TimelineConstants, StartSpending
  PROVE  TimelineInv'
<1>1. /\ pc = "classify" /\ pc' = "build" /\ member' = 0
      /\ firstTs' \in PickTimestamp(Available)
      /\ now <= LastSpendTick /\ UNCHANGED <<now, accepted>>
  BY DEF StartSpending, Classified, TimelineConstants, ledgerVars
<1>2. Available \in SUBSET OutputType
  BY DEF Available, IInv, TypeOK
<1>3. firstTs' \in Nat /\ firstTs' >= now
  BY <1>1, <1>2, FirstTimestamp
<1>4. Before(now)
  BY <1>1, TimelineTypes DEF TimelineInv, Free
<1>5. ConflictTimestamp(member)' = firstTs'
  BY <1>1, <1>3, TimelineTypes DEF ConflictTimestamp
<1>6. Before(firstTs')
  BY <1>3, <1>4, FreeGrows, TimelineTypes
<1>7. Before(now)' /\ Before(ConflictTimestamp(member))'
  BY <1>1, <1>4, <1>5, <1>6 DEF Before
<1> QED BY <1>1, <1>7 DEF TimelineInv, Spending, Spaced

\* A set that was acknowledged leaves the timeline free a pace after its end.
LEMMA TimelineEnds ==
  ASSUME IInv, TimelineConstants, Spending, FinishConflictSet(TRUE), now' = now,
         \A t \in accepted' :
           t.content.ts \in Nat /\ t.content.ts <= ConflictTimestamp(Len(seqs) - 1)
  PROVE  /\ pc' \in {"start", "wait"}
         /\ pc' = "start" => Free(now)'
         /\ pc' = "wait" => Free(wakeAt)'
<1> DEFINE end == ConflictTimestamp(Len(seqs) - 1)
<1>1. /\ seqs \in Seq(SeqInfo) /\ Len(seqs) >= 2 /\ Len(seqs) \in Nat
      /\ now \in Nat /\ Pace \in Nat \ {0} /\ firstTs \in Nat
  BY SenderAssumption, TimelineTypes DEF IInv, TypeOK, TimelineConstants, Spending
<1>2. (Len(seqs) - 1) * Pace \in Nat
  BY <1>1
<1>3. end \in Nat
  BY <1>1, <1>2 DEF ConflictTimestamp
<1>4. Finish(TRUE, end - now + Pace)
  <2>1. Len(seqs) # 1
    <3> DEFINE n == Len(seqs)
    <3>1. n \in Nat /\ n >= 2
      BY <1>1, Zenon
    <3> HIDE DEF n
    <3>2. n # 1
      BY <3>1
    <3> QED BY <3>2 DEF n
  <2>2. (IF ~TRUE \/ Len(seqs) = 1 THEN 0
         ELSE ConflictTimestamp(Len(seqs) - 1) - now + Pace) = end - now + Pace
    BY <2>1, Zenon
  <2>3. Finish(TRUE, IF ~TRUE \/ Len(seqs) = 1 THEN 0
                     ELSE ConflictTimestamp(Len(seqs) - 1) - now + Pace)
    BY DEF FinishConflictSet
  <2> HIDE DEF end
  <2> QED BY <2>2, <2>3, Zenon
<1>5. \A t \in accepted' : t.content.ts \in Nat /\ t.content.ts + Pace <= end + Pace
  BY <1>1, <1>3
<1> HIDE DEF end
<1>6. CASE pc' = "start"
  <2>1. end - now + Pace = 0
    BY <1>4, <1>6 DEF Finish
  <2>2. \A t \in accepted' : t.content.ts + Pace <= now'
    BY <1>1, <1>3, <1>5, <2>1
  <2> QED BY <1>6, <2>2 DEF Free, Before
<1>7. CASE pc' # "start"
  <2>1. /\ pc' = "wait"
        /\ wakeAt' = now + (IF end - now + Pace <= 0 THEN Pace ELSE end - now + Pace)
    BY <1>4, <1>7 DEF Finish
  <2>2. wakeAt' \in Nat /\ wakeAt' >= end + Pace
    BY <1>1, <1>3, <2>1
  <2>3. \A t \in accepted' : t.content.ts + Pace <= wakeAt'
    BY <1>1, <1>3, <1>5, <2>2
  <2> QED BY <2>1, <2>3 DEF Free, Before
<1> QED BY <1>6, <1>7

\* A round without an acknowledged transaction leaves the timeline as it was.
LEMMA TimelineIdle ==
  ASSUME IInv, Free(now), Finish(FALSE, 0), UNCHANGED <<now, accepted>>
  PROVE  pc' = "wait" /\ Free(wakeAt)'
<1>1. pc' = "wait" /\ wakeAt' = now + Pace
  BY DEF Finish
<1>2. now \in Nat /\ Pace \in Nat /\ LastSpendTick \in Nat
  BY TimelineTypes
<1>3. CASE now > LastSpendTick
  BY <1>1, <1>2, <1>3 DEF Free
<1>4. CASE Before(now)
  <2>1. \A t \in accepted' : t.content.ts + Pace <= wakeAt'
    BY <1>1, <1>2, <1>4, TimelineTypes DEF Before
  <2> QED BY <1>1, <2>1 DEF Free, Before
<1> QED BY <1>3, <1>4 DEF Free

\* The next member of a set, a pace later.
LEMMA TimelineContinues ==
  ASSUME IInv, TimelineConstants, Spending, ContinueSet, UNCHANGED now,
         now <= LastSpendTick,
         \A t \in accepted' :
           t.content.ts \in Nat /\ t.content.ts <= ConflictTimestamp(member),
         \A t, u \in accepted' : t # u => Spaced(t, u),
         sentTxs' = {} => \A t \in accepted' : t.content.ts + Pace <= now
  PROVE  TimelineInv'
<1>1. pc' = "build" /\ member' = member + 1 /\ firstTs' = firstTs
  BY DEF ContinueSet
<1>2. ConflictTimestamp(member)' = ConflictTimestamp(member) + Pace
  <2>1. (member + 1) * Pace = (member * Pace) + Pace
    BY TimelineTypes
  <2>2. member * Pace \in Nat
    BY TimelineTypes
  <2> QED BY <1>1, <2>1, <2>2, TimelineTypes DEF ConflictTimestamp
<1>3. \A t \in accepted' : t.content.ts + Pace <= ConflictTimestamp(member)'
  <2>1. SUFFICES ASSUME NEW c, c = ConflictTimestamp(member), NEW t \in accepted'
                 PROVE  t.content.ts + Pace <= c + Pace
    BY <1>2
  <2> QED BY <2>1, TimelineTypes
<1> QED BY <1>1, <1>3 DEF TimelineInv, Spending, Before, Spaced

\* A member that is acknowledged.
LEMMA TimelineAcknowledged ==
  ASSUME IInv, TimelineInv, TimelineConstants, Spending, UNCHANGED now,
         NEW t, t \in TransactionType, t.content.ts = ConflictTimestamp(member),
         Acknowledge(t)
  PROVE  TimelineInv'
<1> DEFINE c == ConflictTimestamp(member)
<1>1. /\ accepted' = accepted \cup {t} /\ sentTxs' = sentTxs \cup {t}
      /\ now <= LastSpendTick /\ t.content.ts = c /\ c \in Nat /\ Pace \in Nat \ {0}
      /\ \A u \in accepted : u.content.ts \in Nat /\ u.content.ts + Pace <= c
  BY TimelineTypes DEF Acknowledge, TimelineInv, Before
<1> HIDE DEF c
<1>2. \A u \in accepted' : u.content.ts \in Nat /\ u.content.ts <= c
  BY <1>1
<1>3. \A u, v \in accepted' : u # v => Spaced(u, v)
  <2>1. \A u \in accepted : Spaced(u, t) /\ Spaced(t, u)
    BY <1>1 DEF Spaced
  <2> QED BY <1>1, <2>1 DEF TimelineInv
<1>4. CASE LastOfRound(t)
  <2>1. FinishConflictSet(TRUE) /\ c = ConflictTimestamp(Len(seqs) - 1)
    BY <1>4 DEF Acknowledge, FinishSpending, LastOfRound, LastMember, RoundSize,
         TimelineConstants, c
  <2>2. /\ pc' \in {"start", "wait"}
        /\ pc' = "start" => Free(now)'
        /\ pc' = "wait" => Free(wakeAt)'
    BY <1>2, <2>1, TimelineEnds
  <2> QED BY <1>3, <2>2 DEF TimelineInv, Spending, Spaced
<1>5. CASE ~LastOfRound(t)
  <2>1. ContinueSet
    BY <1>5 DEF Acknowledge, TimelineConstants
  <2> QED BY <1>1, <1>2, <1>3, <2>1, TimelineContinues DEF c
<1> QED BY <1>4, <1>5

\* A member of a set carries the timestamp the set gives it.
LEMMA MemberTimestamp ==
  ASSUME Conflict, NEW t \in BuildOneTx
  PROVE  t.content.ts = ConflictTimestamp(member)
<1>1. PICK ts \in {ConflictTimestamp(member)}, to \in Targets :
        t = Transaction(Content(ts, to))
  BY DEF BuildOneTx
<1>2. t.content = Content(ts, to)
  BY <1>1 DEF Transaction
<1> QED BY <1>1, <1>2 DEF Content

\* Retrying fails as well: the set goes on, or ends.
LEMMA TimelineRetryFails ==
  ASSUME IInv, TimelineInv, TimelineConstants, RetryFails
  PROVE  TimelineInv'
<1>1. Spending /\ UNCHANGED <<now, accepted, sentTxs>> /\ now <= LastSpendTick
  BY DEF RetryFails, Spending, TimelineInv
<1>2. /\ \A u \in accepted' : u.content.ts \in Nat /\ u.content.ts <= ConflictTimestamp(member)
      /\ \A u, v \in accepted' : u # v => Spaced(u, v)
      /\ sentTxs = {} => Before(now)
  BY <1>1, TimelineTypes DEF TimelineInv, Before
<1>3. CASE ~LastMember
  <2>1. ContinueSet
    BY <1>3 DEF RetryFails, TimelineConstants
  <2>2. sentTxs' = {} => \A u \in accepted' : u.content.ts + Pace <= now
    BY <1>1, <1>2 DEF Before
  <2> QED BY <1>1, <1>2, <2>1, <2>2, TimelineContinues
<1>4. CASE LastMember /\ sentTxs = {}
  <2>1. Finish(FALSE, 0)
    BY <1>4 DEF RetryFails, FinishSpending, FinishConflictSet, Finish
  <2>2. pc' = "wait" /\ Free(wakeAt)'
    BY <1>1, <1>2, <1>4, <2>1, TimelineIdle DEF Free
  <2> QED BY <1>2, <2>2 DEF TimelineInv, Spending, Spaced
<1>5. CASE LastMember /\ sentTxs # {}
  <2>1. FinishConflictSet(TRUE) /\ member = Len(seqs) - 1
    BY <1>5 DEF RetryFails, FinishSpending, FinishConflictSet, Finish,
         LastMember, RoundSize, TimelineConstants
  <2>2. /\ pc' \in {"start", "wait"}
        /\ pc' = "start" => Free(now)'
        /\ pc' = "wait" => Free(wakeAt)'
    BY <1>1, <1>2, <2>1, TimelineEnds
  <2> QED BY <1>2, <2>2 DEF TimelineInv, Spending, Spaced
<1> QED BY <1>3, <1>4, <1>5

LEMMA TimelineStep ==
  ASSUME IInv, TimelineInv, TimelineConstants, [Next]_vars
  PROVE  TimelineInv'
<1>1. CASE FetchOutputs
  <2>1. pc = "start" /\ pc' = "classify" /\ UNCHANGED <<now, accepted>>
    BY <1>1 DEF FetchOutputs, ledgerVars
  <2>2. Free(now)'
    BY <2>1 DEF TimelineInv, Free, Before
  <2> QED BY <2>1, <2>2 DEF TimelineInv, Spending, Spaced
<1>2. CASE FetchFails \/ NothingToSpend \/ NoSequencers \/ Underfunded
  <2>1. /\ pc \in {"start", "classify"} /\ Finish(FALSE, 0)
        /\ UNCHANGED <<now, accepted>>
    BY <1>2 DEF FetchFails, NothingToSpend, NoSequencers, Underfunded, Classified,
         ledgerVars, wallet
  <2>2. pc' = "wait" /\ Free(wakeAt)'
    BY <2>1, TimelineIdle DEF TimelineInv
  <2> QED BY <2>1, <2>2 DEF TimelineInv, Spending, Spaced
<1>3. CASE \E o \in unchecked : Classify(o)
  <2>1. UNCHANGED <<pc, wakeAt, sentTxs, accepted, member, firstTs, retrying, now>>
        /\ ~Spending
    BY <1>3 DEF Classify, ledgerVars, Spending
  <2>2. now' \in Nat /\ now <= now'
    BY <2>1, TimelineTypes
  <2> QED BY <2>1, <2>2, TimelineKept
<1>4. CASE StartSpending
  BY <1>4, TimelineStarts
<1>5. CASE BuildFails
  <2>1. GateAdmitsRound
    BY GateHolds
  <2> QED BY <1>5, <2>1 DEF BuildFails, GateAdmitsRound, TimelineConstants
<1>6. CASE Submit
  <2>1. /\ pc = "build" /\ CanBuild(total, TagAlongFee) /\ UNCHANGED now
    BY <1>6 DEF Submit
  <2>2. PICK t \in BuildOneTx : Acknowledge(t)
    BY <1>6 DEF Submit
  <2>3. t \in TransactionType /\ t.content.ts = ConflictTimestamp(member)
    BY <2>1, BuiltTransaction, MemberTimestamp DEF TimelineConstants
  <2> QED BY <2>1, <2>2, <2>3, TimelineAcknowledged DEF Spending
<1>7. CASE SubmitFails
  <2>1. PICK t \in BuildOneTx : retrying' = {t}
    BY <1>7 DEF SubmitFails
  <2>2. t.content.ts = ConflictTimestamp(member)
    BY MemberTimestamp DEF TimelineConstants
  <2>3. /\ pc = "build" /\ pc' = "retry"
        /\ UNCHANGED <<now, accepted, sentTxs, member, firstTs>>
    BY <1>7 DEF SubmitFails
  <2>4. ConflictTimestamp(member)' = ConflictTimestamp(member)
    BY <2>3 DEF ConflictTimestamp
  <2>5. \A u \in retrying' : u.content.ts = ConflictTimestamp(member)'
    BY <2>1, <2>2, <2>4
  <2>6. /\ now' <= LastSpendTick
        /\ Before(ConflictTimestamp(member))'
        /\ sentTxs' = {} => Before(now)'
    BY <2>3, <2>4 DEF TimelineInv, Spending, Before
  <2> QED BY <2>3, <2>5, <2>6 DEF TimelineInv, Spending, Spaced
<1>8. CASE Retry
  <2>1. pc = "retry" /\ UNCHANGED now
    BY <1>8 DEF Retry
  <2>2. PICK t \in retrying : Acknowledge(t)
    BY <1>8 DEF Retry
  <2>3. t \in TransactionType /\ t.content.ts = ConflictTimestamp(member)
    BY <2>1 DEF IInv, TypeOK, TimelineInv
  <2> QED BY <2>1, <2>2, <2>3, TimelineAcknowledged DEF Spending
<1>9. CASE RetryFails
  BY <1>9, TimelineRetryFails
<1>10. CASE Wake
  <2>2. pc = "wait" /\ pc' = "start" /\ UNCHANGED <<now, accepted>>
    BY <1>10 DEF Wake, ledgerVars, wallet
  <2>3. now >= wakeAt \/ now = MaxTick
    BY <1>10 DEF Wake
  <2>4. Free(wakeAt)
    BY <2>2 DEF TimelineInv
  <2>5. Free(now)
    <3>1. CASE now >= wakeAt
      BY <2>4, <3>1, FreeGrows, TimelineTypes
    <3>2. CASE now = MaxTick
      BY <3>2, TimelineTypes DEF Free, TimelineConstants
    <3> QED BY <2>3, <3>1, <3>2
  <2>6. Free(now)'
    BY <2>2, <2>5 DEF Free, Before
  <2> QED BY <2>2, <2>6 DEF TimelineInv, Spending, Spaced
<1>11. CASE Clock \/ Network \/ UNCHANGED vars
  <2>1. UNCHANGED <<pc, wakeAt, sentTxs, accepted, member, firstTs, retrying>>
    BY <1>11 DEF Clock, Network, vars, senderVars, wallet, round
  <2>2. now' = now \/ (now' = now + 1 /\ (Spending => now < LastSpendTick))
    BY <1>11 DEF Clock, Tick, Network, Consolidate, Sync, Deposit, Withdraw,
         vars, ledgerVars, Spending
  <2>3. now' \in Nat /\ now <= now' /\ (Spending => now' <= LastSpendTick)
    BY <2>2, TimelineTypes DEF TimelineInv
  <2> QED BY <2>1, <2>3, TimelineKept
<1> QED BY <1>1, <1>2, <1>3, <1>4, <1>5, <1>6, <1>7, <1>8, <1>9, <1>10, <1>11
        DEF Next, Run

\* Sets of two or more conflicting members: the timestamps a holder's nodes
\* acknowledged are a pace apart, within a set and from one set to the next
\* (buildAndSubmitConflictSet reserves the stretch, Run sleeps it off), also
\* where a set's members fail and its first ones never got through.
THEOREM TimelineSpaced ==
  ASSUME TimelineConstants
  PROVE  Spec => []HolderTimelineSpaced
<1>1. Init => TimelineInv
  BY DEF Init, TimelineInv, Free, Before, Spending
<1>2. IInv /\ TimelineInv /\ [Next]_vars => TimelineInv'
  BY TimelineStep
<1>3. TimelineInv => HolderTimelineSpaced
  BY DEF TimelineInv, HolderTimelineSpaced, Spaced
<1> QED BY <1>1, <1>2, <1>3, Inductive, PTL DEF Spec
=============================================================================
