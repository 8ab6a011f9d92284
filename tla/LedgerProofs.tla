---------------------------- MODULE LedgerProofs ----------------------------
(* Proofs about a sender and its ledger together: no token appears or
   vanishes, whatever is submitted, repeated, lost or included together.

   The invariant is about history.  Ids are hashes, so a transaction is its
   id and what it produces is new when it is included; what it consumed is
   gone and never returns; a host shows a past of the network and misses
   nothing of it that is still there.  And every transaction says truly what
   its inputs are worth, also when it spends the remainder of one that the
   network has not seen.                                                    *)
EXTENDS SenderProofs, Sums

-----------------------------------------------------------------------------
(* Transactions and their ids. *)

\* The transactions that reached a node, or are about to again.
Known == delivered \cup retrying

IdInv ==
  /\ \A t \in Known : t.id \in 1 .. nTx
  /\ \A t, u \in Known : t.id = u.id => t = u
  /\ \A x \in head.txids : (\E t \in delivered : t.id = x) \/ (\E d \in Deposits : d.tx = x)

\* A step of the sender moves no ledger, and adds one transaction at most.
Adds1 ==
  /\ pc = "build" /\ CanBuild(total, TagAlongFee) /\ nTx' = nTx + 1
  /\ \E t \in BuildOneTx : Known' \subseteq Known \cup {t}

LEMMA FinishForgets == ASSUME NEW a, FinishSpending(a) PROVE retrying' = {}
BY DEF FinishSpending, FinishConflictSet, Finish

LEMMA AcknowledgeForgets == ASSUME NEW t, Acknowledge(t) PROVE retrying' = {}
BY FinishForgets DEF Acknowledge, ContinueSet, ContinueChain

LEMMA SenderStep ==
  ASSUME Run
  PROVE  /\ UNCHANGED <<now, head, lrb>>
         /\ delivered \subseteq delivered'
         /\ (Known' \subseteq Known /\ nTx' = nTx) \/ Adds1
<1>1. CASE FetchOutputs \/ NothingToSpend \/ NoSequencers \/ Underfunded \/ FetchFails
           \/ StartSpending \/ Wake \/ \E o \in unchecked : Classify(o)
  BY <1>1 DEF FetchOutputs, NothingToSpend, NoSequencers, Underfunded, FetchFails,
              StartSpending, Wake, Classify, Finish, Known, ledgerVars, round
<1>2. CASE BuildFails
  BY <1>2, FinishForgets DEF BuildFails, Known, ledgerVars
<1>3. CASE Submit
  <2>1. PICK t \in BuildOneTx : delivered' = delivered \cup {t} /\ Acknowledge(t)
    BY <1>3 DEF Submit
  <2>2. retrying' = {}
    BY <2>1, AcknowledgeForgets
  <2> QED BY <1>3, <2>1, <2>2 DEF Submit, Adds1, Known
<1>4. CASE SubmitFails
  BY <1>4 DEF SubmitFails, Adds1, Known
<1>5. CASE Retry
  <2>1. PICK t \in retrying : delivered' = delivered \cup {t} /\ Acknowledge(t)
    BY <1>5 DEF Retry
  <2>2. retrying' = {}
    BY <2>1, AcknowledgeForgets
  <2> QED BY <1>5, <2>1, <2>2 DEF Retry, Known
<1>6. CASE RetryFails
  <2>1. retrying' = {}
    BY <1>6, FinishForgets DEF RetryFails, ContinueSet
  <2> QED BY <1>6, <2>1 DEF RetryFails, Known
<1> QED BY <1>1, <1>2, <1>3, <1>4, <1>5, <1>6 DEF Run

\* Equal contents are one transaction; a new content gets a new id.
LEMMA BuiltId ==
  ASSUME NEW t \in BuildOneTx
  PROVE  t \in delivered \/ t.id = nTx + 1
<1>1. PICK c : t = Transaction(c)
  BY DEF BuildOneTx
<1>2. CASE \E u \in delivered : u.content = c
  BY <1>1, <1>2 DEF Transaction
<1>3. CASE ~ \E u \in delivered : u.content = c
  BY <1>1, <1>3 DEF Transaction
<1> QED BY <1>2, <1>3

LEMMA DepositFacts ==
  /\ \A o \in Genesis \cup Deposits : o \in OutputType /\ o.tx \in Int /\ o.tx <= 0
  /\ \A o \in Genesis : o.ts = 0
  /\ \A d \in Deposits : d \notin Genesis
  /\ \A d, e \in Deposits : d.tx = e.tx => d = e
  /\ IsFiniteSet(Genesis) /\ IsFiniteSet(Deposits)
BY LedgerAssumption DEF OutputType

\* What is in the ledger under the id of a transaction of the sender is that
\* transaction.
LEMMA IncludedIsDelivered ==
  ASSUME IdInv, NEW x \in head.txids, x \in Int, x > 0
  PROVE  \E t \in delivered : t.id = x
BY DepositFacts DEF IdInv

LEMMA NetworkCases ==
  ASSUME Network
  PROVE  /\ UNCHANGED <<now, delivered, senderVars>>
         /\ Consolidate \/ Deposit \/ Withdraw \/ \E h \in Hosts : Sync(h)
BY DEF Network, Consolidate, Deposit, Withdraw, Sync

LEMMA IdStep ==
  ASSUME IInv, IdInv, [Next]_vars
  PROVE  IdInv'
<1>0. nTx \in Nat
  BY DEF IInv, TypeOK
<1>1. CASE Run
  <2>1. UNCHANGED head /\ delivered \subseteq delivered'
    BY <1>1, SenderStep
  <2>2. \A x \in head'.txids :
          (\E t \in delivered' : t.id = x) \/ (\E d \in Deposits : d.tx = x)
    BY <2>1 DEF IdInv
  <2>3. CASE Known' \subseteq Known /\ nTx' = nTx
    BY <2>2, <2>3 DEF IdInv
  <2>4. CASE Adds1
    <3>1. PICK t \in BuildOneTx : Known' \subseteq Known \cup {t}
      BY <2>4 DEF Adds1
    <3>2. t \in Known \/ t.id = nTx + 1
      BY BuiltId DEF Known
    <3>3. nTx' = nTx + 1 /\ \A u \in Known : u.id \in 1 .. nTx
      BY <2>4 DEF Adds1, IdInv
    <3>4. \A u \in Known' : u.id \in 1 .. nTx'
      BY <1>0, <3>1, <3>2, <3>3
    <3>5. \A u, v \in Known' : u.id = v.id => u = v
      <4>1. \A u, v \in Known : u.id = v.id => u = v
        BY DEF IdInv
      <4>2. t \in Known \/ \A u \in Known : u.id # t.id
        BY <1>0, <3>2, <3>3
      <4> QED BY <3>1, <4>1, <4>2
    <3> QED BY <2>2, <3>4, <3>5 DEF IdInv
  <2> QED BY <1>1, <2>3, <2>4, SenderStep
<1>2. CASE Network
  <2>1. UNCHANGED <<delivered, retrying, nTx, Known>>
    BY <1>2, NetworkCases DEF senderVars, round, Known
  <2>2. \A x \in head'.txids :
          (\E t \in delivered : t.id = x) \/ (\E d \in Deposits : d.tx = x)
    <3>1. CASE Consolidate
      <4>1. PICK C \in SUBSET delivered : head'.txids = head.txids \cup {t.id : t \in C}
        BY <3>1 DEF Consolidate, State
      <4> QED BY <4>1 DEF IdInv
    <3>2. CASE Deposit
      <4>1. PICK d \in Deposits : head'.txids = head.txids \cup {d.tx}
        BY <3>2 DEF Deposit, State
      <4> QED BY <4>1 DEF IdInv
    <3>3. CASE head'.txids = head.txids
      BY <3>3 DEF IdInv
    <3>4. Withdraw \/ (\E h \in Hosts : Sync(h)) => head'.txids = head.txids
      <4>1. head \in [utxo : SUBSET OutputType, txids : SUBSET Int]
        BY DEF IInv, LedgerTypeOK, StateType
      <4> QED BY <4>1 DEF Withdraw, Sync
    <3> QED BY <1>2, <3>1, <3>2, <3>3, <3>4, NetworkCases
  <2> QED BY <2>1, <2>2 DEF IdInv
<1>3. CASE UNCHANGED <<delivered, retrying, nTx, head>>
  BY <1>3 DEF IdInv, Known
<1>4. CASE Clock \/ UNCHANGED vars
  BY <1>3, <1>4 DEF Clock, Tick, vars, senderVars, ledgerVars, round
<1> QED BY <1>1, <1>2, <1>4 DEF Next

-----------------------------------------------------------------------------
(* What a step does to the ledger. *)

Made(C) == UNION {Produced(t) : t \in C}
Used(C) == UNION {Consumed(t) : t \in C}

Still == UNCHANGED <<head, lrb, Consolidated, PaidIn>> /\ now <= now'

Included(C) ==
  /\ C \subseteq delivered /\ Includable(C)
  /\ head'.utxo = (head.utxo \cup Made(C)) \ Used(C)
  /\ head'.txids = head.txids \cup {t.id : t \in C}
  /\ Consolidated' = Consolidated \cup C /\ C \cap Consolidated = {}
  /\ \A o \in Made(C) : o.tx > 0 /\ o.tx \notin head.txids
  /\ UNCHANGED <<now, lrb, PaidIn, senderVars, delivered>>

Deposited(d) ==
  /\ d \in Deposits /\ d.tx \notin head.txids /\ d.ts <= now
  /\ head'.utxo = head.utxo \cup {d} /\ head'.txids = head.txids \cup {d.tx}
  /\ PaidIn' = PaidIn \cup {d} /\ d \notin PaidIn
  /\ UNCHANGED <<now, lrb, Consolidated, senderVars, delivered>>

Withdrawn(o) ==
  /\ Withdrawals /\ o \in head.utxo
  /\ head'.utxo = head.utxo \ {o} /\ head'.txids = head.txids
  /\ UNCHANGED <<now, lrb, Consolidated, PaidIn, senderVars, delivered>>

Synced(h) ==
  /\ lrb' = [lrb EXCEPT ![h] = head]
  /\ UNCHANGED <<now, head, Consolidated, PaidIn, senderVars, delivered>>

\* An output carries the id and the time of its transaction.
LEMMA ProducedBy ==
  ASSUME NEW t, NEW o \in Produced(t)
  PROVE  o.tx = t.id /\ o.ts = t.content.ts
BY DEF Produced, TargetOutput, RemainderOutput, Output

\* The sender consolidates nothing, also when it submits again what the
\* network has.
LEMMA ConsolidatedKept ==
  ASSUME IInv, IdInv, Run
  PROVE  Consolidated' = Consolidated /\ PaidIn' = PaidIn
<1>1. head' = head /\ delivered \subseteq delivered'
  BY SenderStep
<1>2. nTx \in Nat
  BY DEF IInv, TypeOK
<1>3. ASSUME NEW t \in delivered', t.id \in head.txids
      PROVE  t \in delivered
  <2>1. t \in Known \/ t.id = nTx + 1
    <3>1. t \in Known'
      BY <1>3 DEF Known
    <3> QED BY <3>1, SenderStep, BuiltId DEF Adds1, Known
  <2>2. t.id \in 1 .. (nTx + 1)
    BY <1>2, <2>1 DEF IdInv
  <2>3. PICK u \in delivered : u.id = t.id
    BY <1>2, <1>3, <2>2, IncludedIsDelivered
  <2>4. t.id # nTx + 1
    BY <1>2, <2>3 DEF IdInv, Known
  <2> QED BY <2>1, <2>3, <2>4 DEF IdInv, Known
<1>4. Consolidated' = Consolidated
  BY <1>1, <1>3 DEF Consolidated
<1> QED BY <1>1, <1>4 DEF PaidIn

LEMMA HeadType == ASSUME IInv PROVE head \in [utxo : SUBSET OutputType, txids : SUBSET Int]
BY DEF IInv, LedgerTypeOK, StateType

LEMMA ConsolidateEffect ==
  ASSUME IInv, IdInv, Network, Consolidate
  PROVE  \E C : Included(C)
<1>1. PICK C \in SUBSET delivered :
        /\ Includable(C)
        /\ head' = State((head.utxo \cup UNION {Produced(t) : t \in C})
                           \ UNION {Consumed(t) : t \in C},
                         head.txids \cup {t.id : t \in C})
  BY DEF Consolidate
<1>2. /\ head'.utxo = (head.utxo \cup Made(C)) \ Used(C)
      /\ head'.txids = head.txids \cup {t.id : t \in C}
  BY <1>1 DEF State, Made, Used
<1>3. UNCHANGED <<now, lrb, senderVars, delivered>>
  BY NetworkCases DEF Consolidate
<1>4. \A t \in C : t.id \notin head.txids /\ t.id \in Int /\ t.id > 0
  BY <1>1 DEF Includable, IdInv, Known
<1>5. \A o \in Made(C) : o.tx > 0 /\ o.tx \notin head.txids
  BY <1>4, ProducedBy DEF Made
<1>6. Consolidated' = Consolidated \cup C
  <2>1. ASSUME NEW t \in delivered, NEW u \in C, t.id = u.id PROVE t \in C
    BY <1>1, <2>1 DEF IdInv, Known
  <2> QED BY <1>1, <1>2, <1>3, <2>1 DEF Consolidated
<1>7. C \cap Consolidated = {}
  BY <1>4 DEF Consolidated
<1>8. PaidIn' = PaidIn
  <2>1. \A d \in Deposits : d.tx \notin {t.id : t \in C}
    BY <1>4, DepositFacts
  <2> QED BY <1>2, <2>1 DEF PaidIn
<1> QED BY <1>1, <1>2, <1>3, <1>5, <1>6, <1>7, <1>8 DEF Included

LEMMA DepositEffect ==
  ASSUME IInv, IdInv, Network, Deposit
  PROVE  \E d : Deposited(d)
<1>1. PICK d \in Deposits :
        /\ d.tx \notin head.txids /\ d.ts <= now
        /\ head' = State(head.utxo \cup {d}, head.txids \cup {d.tx})
  BY DEF Deposit
<1>2. head'.utxo = head.utxo \cup {d} /\ head'.txids = head.txids \cup {d.tx}
  BY <1>1 DEF State
<1>3. UNCHANGED <<now, lrb, senderVars, delivered>>
  BY NetworkCases DEF Deposit
<1>4. PaidIn' = PaidIn \cup {d} /\ d \notin PaidIn
  <2>1. \A e \in Deposits : e.tx \in head'.txids <=> (e.tx \in head.txids \/ e = d)
    BY <1>1, <1>2, DepositFacts
  <2>2. d \notin Genesis
    BY DepositFacts
  <2>3. {e \in Deposits : e.tx \in head'.txids} =
          {e \in Deposits : e.tx \in head.txids} \cup {d}
    BY <2>1
  <2> QED BY <1>1, <2>2, <2>3 DEF PaidIn
<1>5. Consolidated' = Consolidated
  <2>1. \A t \in delivered : t.id \in Int /\ t.id > 0
    BY DEF IdInv, Known
  <2>2. d.tx \in Int /\ d.tx <= 0
    BY DepositFacts
  <2> QED BY <1>2, <1>3, <2>1, <2>2 DEF Consolidated
<1> QED BY <1>1, <1>2, <1>3, <1>4, <1>5 DEF Deposited

LEMMA LedgerStep ==
  ASSUME IInv, IdInv, [Next]_vars
  PROVE  \/ Still
         \/ \E C : Included(C)
         \/ \E d : Deposited(d)
         \/ \E o : Withdrawn(o)
         \/ \E h \in Hosts : Synced(h)
<1>0. now \in Nat
  BY ConstantTypes DEF IInv, TypeOK
<1>1. CASE Run
  BY <1>0, <1>1, SenderStep, ConsolidatedKept DEF Still
<1>2. CASE Clock \/ UNCHANGED vars
  <2>1. UNCHANGED <<head, lrb, delivered>> /\ now <= now'
    BY <1>0, <1>2 DEF Clock, Tick, vars, ledgerVars
  <2> QED BY <2>1 DEF Still, Consolidated, PaidIn
<1>3. CASE Network
  <2>1. CASE Withdraw
    <3>1. PICK o \in head.utxo : head' = [head EXCEPT !.utxo = @ \ {o}]
      BY <2>1 DEF Withdraw
    <3>2. head'.utxo = head.utxo \ {o} /\ head'.txids = head.txids
      BY <3>1, HeadType
    <3>3. UNCHANGED <<now, lrb, senderVars, delivered>> /\ Withdrawals
      BY <1>3, <2>1, NetworkCases DEF Withdraw
    <3> QED BY <3>2, <3>3 DEF Withdrawn, Consolidated, PaidIn
  <2>2. CASE \E h \in Hosts : Sync(h)
    BY <1>3, <2>2, NetworkCases DEF Sync, Synced, Consolidated, PaidIn
  <2> QED BY <1>3, <2>1, <2>2, NetworkCases, ConsolidateEffect, DepositEffect
<1> QED BY <1>1, <1>2, <1>3 DEF Next

-----------------------------------------------------------------------------
(* What exists, and what a host may show of it. *)

\* Everything that was ever in the ledger.
Existing == PaidIn \cup Made(Consolidated)

\* The output was there when these were the transactions of the ledger.
BornIn(o, txids) == o \in Genesis \/ o.tx \in txids

BirthInv ==
  /\ head.utxo \subseteq Existing
  /\ \A o \in Existing : o.ts <= now /\ BornIn(o, head.txids)

\* A host shows a past of the network, and nothing that has gone since.
LagInv ==
  \A h \in Hosts :
    /\ lrb[h].txids \subseteq head.txids
    /\ lrb[h].utxo \subseteq Existing
    /\ \A o \in lrb[h].utxo : BornIn(o, lrb[h].txids)
    /\ \A o \in head.utxo : BornIn(o, lrb[h].txids) => o \in lrb[h].utxo

\* An included transaction took its inputs for good.
GoneInv ==
  \A t \in Consolidated : \A o \in Consumed(t) : BornIn(o, head.txids) /\ o \notin head.utxo

PastInv == BirthInv /\ LagInv /\ GoneInv

LEMMA ExistingType == ASSUME IInv PROVE Existing \subseteq OutputType
<1>1. ASSUME NEW t \in delivered PROVE Produced(t) \subseteq OutputType
  <2>1. t \in TransactionType /\ ValidTx(t) /\ CanBuild(t.content.total, t.content.fee)
    BY DEF IInv, TypeOK, EveryTxValid, RoundOK
  <2>2. \A o \in t.content.ins : t.content.ts >= o.ts + Pace
    BY <2>1 DEF ValidTx
  <2> QED BY <2>1, <2>2, BuildableIsValid
<1> QED BY <1>1, DepositFacts DEF Existing, PaidIn, Made, Consolidated

LEMMA PastStill ==
  ASSUME IInv, PastInv, Still, now' \in Nat
  PROVE  PastInv'
<1>1. UNCHANGED <<Existing, Consolidated, head, lrb>> /\ now <= now'
  BY DEF Still, Existing, Made
<1>2. now \in Nat /\ \A o \in Existing : o.ts \in Nat
  <2>1. now \in Nat
    BY ConstantTypes DEF IInv, TypeOK
  <2>2. \A o \in OutputType : o.ts \in Nat
    BY DEF OutputType
  <2> QED BY <2>1, <2>2, ExistingType
<1>3. BirthInv'
  BY <1>1, <1>2 DEF PastInv, BirthInv, BornIn
<1>4. LagInv'
  BY <1>1 DEF PastInv, LagInv, BornIn
<1>5. GoneInv'
  BY <1>1 DEF PastInv, GoneInv, BornIn
<1> QED BY <1>3, <1>4, <1>5 DEF PastInv

LEMMA PastIncluded ==
  ASSUME IInv, PastInv, NEW C, Included(C)
  PROVE  PastInv'
<1>1. /\ head'.utxo = (head.utxo \cup Made(C)) \ Used(C)
      /\ head'.txids = head.txids \cup {t.id : t \in C}
      /\ Consolidated' = Consolidated \cup C
      /\ UNCHANGED <<now, lrb>>
  BY DEF Included
<1>2. Existing' = Existing \cup Made(C)
  BY DEF Included, Existing, Made
<1>3. \A o \in Made(C) : /\ o.tx \in {t.id : t \in C} /\ o.ts <= now
                         /\ o \notin Genesis /\ o.tx \notin head.txids
  <2>1. ASSUME NEW o \in Made(C)
        PROVE  /\ o.tx \in {t.id : t \in C} /\ o.ts <= now
               /\ o \notin Genesis /\ o.tx \notin head.txids
    <3>1. PICK t \in C : o \in Produced(t)
      BY DEF Made
    <3>2. o.tx = t.id /\ o.ts = t.content.ts
      BY <3>1, ProducedBy
    <3>3. t.content.ts <= now
      BY DEF Included, Includable
    <3>4. o \notin Genesis /\ o.tx \notin head.txids
      BY DepositFacts DEF Included
    <3> QED BY <3>2, <3>3, <3>4
  <2> QED BY <2>1
<1>4. BirthInv'
  BY <1>1, <1>2, <1>3 DEF PastInv, BirthInv, BornIn
<1>5. LagInv'
  <2> SUFFICES ASSUME NEW h \in Hosts
               PROVE  /\ lrb[h].txids \subseteq head'.txids
                      /\ lrb[h].utxo \subseteq Existing'
                      /\ \A o \in lrb[h].utxo : BornIn(o, lrb[h].txids)
                      /\ \A o \in head'.utxo : BornIn(o, lrb[h].txids) => o \in lrb[h].utxo
    BY <1>1 DEF LagInv, BornIn
  <2>1. /\ lrb[h].txids \subseteq head.txids /\ lrb[h].utxo \subseteq Existing
        /\ \A o \in lrb[h].utxo : BornIn(o, lrb[h].txids)
        /\ \A o \in head.utxo : BornIn(o, lrb[h].txids) => o \in lrb[h].utxo
    BY DEF PastInv, LagInv
  <2>2. \A o \in Made(C) : ~BornIn(o, lrb[h].txids)
    BY <1>3, <2>1 DEF BornIn
  <2> QED BY <1>1, <1>2, <2>1, <2>2
<1>6. GoneInv'
  <2> SUFFICES ASSUME NEW t \in Consolidated \cup C, NEW o \in Consumed(t)
               PROVE  BornIn(o, head'.txids) /\ o \notin head'.utxo
    BY <1>1 DEF GoneInv, BornIn
  <2>1. CASE t \in C
    <3>1. o \in Used(C) /\ o \in head.utxo \cup Made(C)
      BY <2>1 DEF Included, Includable, Used, Made
    <3>2. o \in Existing'
      BY <1>2, <3>1 DEF PastInv, BirthInv
    <3> QED BY <1>1, <1>4, <3>1, <3>2 DEF BirthInv, BornIn
  <2>2. CASE t \in Consolidated
    <3>1. BornIn(o, head.txids) /\ o \notin head.utxo
      BY <2>2 DEF PastInv, GoneInv
    <3>2. o \notin Made(C)
      BY <1>3, <3>1 DEF BornIn
    <3> QED BY <1>1, <3>1, <3>2 DEF BornIn
  <2> QED BY <2>1, <2>2
<1> QED BY <1>4, <1>5, <1>6 DEF PastInv

LEMMA PastDeposited ==
  ASSUME IInv, PastInv, NEW d, Deposited(d)
  PROVE  PastInv'
<1>1. /\ d \in Deposits /\ d.tx \notin head.txids /\ d.ts <= now
      /\ head'.utxo = head.utxo \cup {d} /\ head'.txids = head.txids \cup {d.tx}
      /\ UNCHANGED <<now, lrb, Consolidated>>
  BY DEF Deposited
<1>2. Existing' = Existing \cup {d}
  BY DEF Deposited, Existing, Made
<1>3. d \notin Genesis /\ ~BornIn(d, head.txids)
  BY <1>1, DepositFacts DEF BornIn
<1>4. BirthInv'
  BY <1>1, <1>2 DEF PastInv, BirthInv, BornIn
<1>5. LagInv'
  <2> SUFFICES ASSUME NEW h \in Hosts
               PROVE  /\ lrb[h].txids \subseteq head'.txids
                      /\ lrb[h].utxo \subseteq Existing'
                      /\ \A o \in lrb[h].utxo : BornIn(o, lrb[h].txids)
                      /\ \A o \in head'.utxo : BornIn(o, lrb[h].txids) => o \in lrb[h].utxo
    BY <1>1 DEF LagInv, BornIn
  <2>1. /\ lrb[h].txids \subseteq head.txids /\ lrb[h].utxo \subseteq Existing
        /\ \A o \in lrb[h].utxo : BornIn(o, lrb[h].txids)
        /\ \A o \in head.utxo : BornIn(o, lrb[h].txids) => o \in lrb[h].utxo
    BY DEF PastInv, LagInv
  <2>2. ~BornIn(d, lrb[h].txids)
    BY <1>3, <2>1 DEF BornIn
  <2> QED BY <1>1, <1>2, <2>1, <2>2
<1>6. GoneInv'
  <2> SUFFICES ASSUME NEW t \in Consolidated, NEW o \in Consumed(t)
               PROVE  BornIn(o, head'.txids) /\ o \notin head'.utxo
    BY <1>1 DEF GoneInv, BornIn
  <2>1. BornIn(o, head.txids) /\ o \notin head.utxo
    BY DEF PastInv, GoneInv
  <2> QED BY <1>1, <1>3, <2>1 DEF BornIn
<1> QED BY <1>4, <1>5, <1>6 DEF PastInv

LEMMA PastStep ==
  ASSUME IInv, IInv', IdInv, PastInv, [Next]_vars
  PROVE  PastInv'
<1>0. now' \in Nat
  BY ConstantTypes DEF IInv, TypeOK
<1>1. ASSUME NEW o, Withdrawn(o) PROVE PastInv'
  <2>1. /\ head'.utxo \subseteq head.utxo /\ head'.txids = head.txids
        /\ UNCHANGED <<now, lrb, Consolidated, PaidIn>>
    BY <1>1 DEF Withdrawn
  <2>2. UNCHANGED Existing
    BY <2>1 DEF Existing, Made
  <2>3. BirthInv'
    BY <2>1, <2>2 DEF PastInv, BirthInv, BornIn
  <2>4. LagInv'
    BY <2>1, <2>2 DEF PastInv, LagInv, BornIn
  <2>5. GoneInv'
    BY <2>1 DEF PastInv, GoneInv, BornIn
  <2> QED BY <2>3, <2>4, <2>5 DEF PastInv
<1>2. ASSUME NEW g \in Hosts, Synced(g) PROVE PastInv'
  <2>1. /\ lrb' = [lrb EXCEPT ![g] = head]
        /\ UNCHANGED <<now, head, Consolidated, PaidIn>>
    BY <1>2 DEF Synced
  <2>2. UNCHANGED Existing
    BY <2>1 DEF Existing, Made
  <2>3. BirthInv'
    BY <2>1, <2>2 DEF PastInv, BirthInv, BornIn
  <2>4. \A h \in Hosts : lrb'[h] = head \/ lrb'[h] = lrb[h]
    BY <2>1 DEF IInv, LedgerTypeOK
  <2>5. LagInv'
    BY <2>1, <2>2, <2>4 DEF PastInv, LagInv, BirthInv, BornIn
  <2>6. GoneInv'
    BY <2>1 DEF PastInv, GoneInv, BornIn
  <2> QED BY <2>3, <2>5, <2>6 DEF PastInv
<1> QED BY <1>0, <1>1, <1>2, LedgerStep, PastStill, PastIncluded, PastDeposited

LEMMA InitPast == Init => IdInv /\ PastInv
<1> SUFFICES ASSUME Init PROVE IdInv /\ PastInv
  OBVIOUS
<1>1. /\ delivered = {} /\ retrying = {} /\ nTx = 0 /\ now = 0
      /\ head.utxo = Genesis /\ head.txids = {}
      /\ \A h \in Hosts : lrb[h].utxo = Genesis /\ lrb[h].txids = {}
  BY DEF Init, LedgerInit, State
<1>2. Consolidated = {} /\ PaidIn = Genesis
  BY <1>1 DEF Consolidated, PaidIn
<1>3. Existing = Genesis
  BY <1>2 DEF Existing, Made
<1>4. IdInv
  BY <1>1 DEF IdInv, Known
<1>5. BirthInv
  BY <1>1, <1>3, DepositFacts DEF BirthInv, BornIn
<1>6. LagInv
  BY <1>1, <1>3 DEF LagInv, BornIn
<1>7. GoneInv
  BY <1>2 DEF GoneInv
<1> QED BY <1>4, <1>5, <1>6, <1>7 DEF PastInv

LEMMA AlwaysPast == Spec => [](IInv /\ IdInv /\ PastInv)
<1>1. IInv /\ IInv' /\ IdInv /\ PastInv /\ [Next]_vars => IdInv' /\ PastInv'
  BY IdStep, PastStep
<1> QED BY <1>1, InitPast, Inductive, PTL DEF Spec

-----------------------------------------------------------------------------
(* Tokens: what a transaction consumes is what it says it does. *)

LEMMA AmountTokens == \A S : Amount(S) = Tokens(S)
BY Zenon DEF Amount, Tokens

SumInv ==
  /\ IsFiniteSet(Known) /\ IsFiniteSet(head.utxo) /\ IsFiniteSet(outs)
  /\ \A h \in Hosts : IsFiniteSet(lrb[h].utxo)
  /\ Spending => IsFiniteSet(inputs) /\ total = Tokens(inputs)
  /\ \A t \in Known : IsFiniteSet(t.content.ins) /\ t.content.total = Tokens(t.content.ins)

\* What the locals of the round have to say.
RoundSums ==
  /\ IsFiniteSet(outs)
  /\ Spending => IsFiniteSet(inputs) /\ total = Tokens(inputs)

LEMMA SumsCleared == Cleared => RoundSums'
BY FS_EmptySet DEF Cleared, RoundSums, Spending

LEMMA SumAcknowledge ==
  ASSUME IInv, SumInv, Spending, NEW t \in TransactionType,
         CanBuild(t.content.total, t.content.fee), Acknowledge(t)
  PROVE  RoundSums'
<1>1. CASE LastOfRound(t)
  BY <1>1, FinishSpendingClears, SumsCleared DEF Acknowledge, IInv
<1>2. CASE ~LastOfRound(t) /\ Conflict
  BY <1>2 DEF Acknowledge, ContinueSet, RoundSums, SumInv, Spending
<1>3. CASE ~LastOfRound(t) /\ ~Conflict
  <2> DEFINE o == RemainderOutput(t.id, t.content)
  <2>1. /\ inputs' = {o} /\ outs' = outs
        /\ total' = RemainderAmount(t.content.total, t.content.fee)
    BY <1>3 DEF Acknowledge, ContinueChain
  <2>2. o.amount = RemainderAmount(t.content.total, t.content.fee)
    BY DEF RemainderOutput, Output
  <2>3. t.content.total \in Nat /\ t.content.fee \in Nat
    BY DEF TransactionType, ContentType
  <2>4. o.amount \in Nat
    BY <2>2, <2>3, TransferAmounts
  <2> HIDE DEF o
  <2>5. Tokens({o}) = o.amount /\ IsFiniteSet({o})
    BY <2>4, TokensSingle, FS_Singleton
  <2> QED BY <2>1, <2>2, <2>5 DEF RoundSums, SumInv
<1> QED BY <1>1, <1>2, <1>3

LEMMA PageFinite ==
  ASSUME NEW S, IsFiniteSet(S), NEW p \in Page(S)
  PROVE  IsFiniteSet(p)
<1>1. p \subseteq S
  BY DEF Page, kSubset
<1> QED BY <1>1, FS_Subset

LEMMA RoundSumsStep ==
  ASSUME IInv, SumInv, Run
  PROVE  RoundSums'
<1>1. CASE FetchOutputs
  <2>1. hostIdx \in Hosts /\ outs' \in Page(OwnedAt(hostIdx)) /\ pc' = "classify"
    BY <1>1 DEF FetchOutputs, IInv, TypeOK
  <2>2. IsFiniteSet(OwnedAt(hostIdx))
    <3>1. OwnedAt(hostIdx) \subseteq lrb[hostIdx].utxo
      BY DEF OwnedAt
    <3> QED BY <2>1, <3>1, FS_Subset DEF SumInv
  <2> QED BY <2>1, <2>2, PageFinite DEF RoundSums, Spending
<1>2. CASE FetchFails \/ NothingToSpend \/ NoSequencers \/ Underfunded
  BY <1>2, IdleFinishClears, SumsCleared
  DEF FetchFails, NothingToSpend, NoSequencers, Underfunded, IInv
<1>3. CASE \E o \in unchecked : Classify(o)
  BY <1>3 DEF Classify, RoundSums, SumInv, Spending
<1>4. CASE StartSpending
  <2>1. inputs' = Available /\ total' = Tokens(Available) /\ outs' = outs
    BY <1>4, AmountTokens DEF StartSpending
  <2>2. IsFiniteSet(Available)
    <3>1. Available \subseteq outs
      BY DEF Available
    <3> QED BY <3>1, FS_Subset DEF SumInv
  <2> QED BY <2>1, <2>2 DEF RoundSums, SumInv
<1>5. CASE BuildFails
  <2>1. Spending /\ FinishSpending(sentTxs # {}) /\ (sentTxs # {}) \in BOOLEAN
    BY <1>5 DEF BuildFails, Spending
  <2> QED BY <2>1, FinishSpendingClears, SumsCleared, Zenon DEF IInv
<1>6. CASE Submit
  <2>1. PICK t \in BuildOneTx : Acknowledge(t)
    BY <1>6 DEF Submit
  <2>2. pc = "build" /\ CanBuild(total, TagAlongFee)
    BY <1>6 DEF Submit
  <2>3. t \in TransactionType /\ t.content.total = total /\ t.content.fee = TagAlongFee
    BY <2>2, BuiltTransaction
  <2> QED BY <2>1, <2>2, <2>3, SumAcknowledge DEF Spending
<1>7. CASE SubmitFails
  BY <1>7 DEF SubmitFails, RoundSums, SumInv, Spending
<1>8. CASE Retry
  <2>1. PICK t \in retrying : Acknowledge(t)
    BY <1>8 DEF Retry
  <2>2. Spending /\ t \in TransactionType /\ CanBuild(t.content.total, t.content.fee)
    BY <1>8 DEF Retry, Spending, IInv, TypeOK, RoundOK
  <2> QED BY <2>1, <2>2, SumAcknowledge
<1>9. CASE RetryFails
  <2>1. CASE Conflict /\ ~LastMember
    BY <1>9, <2>1 DEF RetryFails, ContinueSet, RoundSums, SumInv, Spending
  <2>2. CASE ~(Conflict /\ ~LastMember)
    <3>1. Spending /\ FinishSpending(sentTxs # {}) /\ (sentTxs # {}) \in BOOLEAN
      BY <1>9, <2>2 DEF RetryFails, Spending
    <3> QED BY <3>1, FinishSpendingClears, SumsCleared, Zenon DEF IInv
  <2> QED BY <2>1, <2>2
<1>10. CASE Wake
  BY <1>10 DEF Wake, fetched, RoundSums, SumInv, Spending
<1> QED BY <1>1, <1>2, <1>3, <1>4, <1>5, <1>6, <1>7, <1>8, <1>9, <1>10 DEF Run

\* What a transaction produces is what it consumes, less its fee.
LEMMA ProducedWorth ==
  ASSUME IInv, NEW t \in delivered
  PROVE  /\ IsFiniteSet(Produced(t))
         /\ \A o \in Produced(t) : o.amount \in Nat
         /\ t.content.total \in Nat /\ t.content.fee \in Nat
         /\ Tokens(Produced(t)) = t.content.total - t.content.fee
<1> DEFINE b == t.content.total
           f == t.content.fee
           T == TargetOutput(t.id, t.content)
           R == RemainderOutput(t.id, t.content)
<1>1. b \in Nat /\ f \in Nat /\ CanBuild(b, f)
  BY DEF IInv, TypeOK, TransactionType, ContentType, RoundOK
<1>2. /\ TargetAmount(b, f) \in Nat /\ RemainderAmount(b, f) \in Nat
      /\ TargetAmount(b, f) + RemainderAmount(b, f) + f = b
  BY <1>1, TransferAmounts
<1>3. /\ T.amount = TargetAmount(b, f) /\ T.idx = 0
      /\ R.amount = RemainderAmount(b, f) /\ R.idx = 1
  BY DEF TargetOutput, RemainderOutput, Output
<1>4. Produced(t) = {T} \cup (IF LeavesRemainder(b, f) THEN {R} ELSE {})
  BY DEF Produced
<1>5. ~LeavesRemainder(b, f) => RemainderAmount(b, f) = 0
  BY DEF RemainderAmount
<1> HIDE DEF T, R
<1>6. IsFiniteSet({T}) /\ IsFiniteSet({R}) /\ {T} \cap {R} = {}
  <2>1. IsFiniteSet({T}) /\ IsFiniteSet({R})
    BY FS_Singleton, Zenon
  <2>2. T # R
    BY <1>3
  <2> QED BY <2>1, <2>2
<1>7. Tokens({T}) = T.amount
  BY <1>2, <1>3, TokensSingle
<1>8. Tokens({R}) = R.amount
  BY <1>2, <1>3, TokensSingle
<1>9. CASE LeavesRemainder(b, f)
  <2>1. Produced(t) = {T} \cup {R}
    BY <1>4, <1>9
  <2>2. \A o \in {T} \cup {R} : o.amount \in Nat
    BY <1>2, <1>3
  <2>3. IsFiniteSet({T} \cup {R})
    BY <1>6, FS_Union
  <2>4. Tokens({T} \cup {R}) = Tokens({T}) + Tokens({R})
    BY <1>6, <2>2, TokensUnion
  <2> HIDE DEF b, f
  <2>5. Tokens(Produced(t)) = TargetAmount(b, f) + RemainderAmount(b, f)
    BY <1>3, <1>7, <1>8, <2>1, <2>4
  <2>6. TargetAmount(b, f) + RemainderAmount(b, f) = b - f
    BY <1>1, <1>2
  <2>7. Tokens(Produced(t)) = b - f
    BY <2>5, <2>6
  <2> QED BY <1>1, <2>1, <2>2, <2>3, <2>7 DEF b, f
<1>10. CASE ~LeavesRemainder(b, f)
  <2>1. Produced(t) = {T}
    BY <1>4, <1>10
  <2> HIDE DEF b, f
  <2>2. Tokens(Produced(t)) = b - f
    BY <1>1, <1>2, <1>3, <1>5, <1>7, <1>10, <2>1
  <2> QED BY <1>1, <1>2, <1>3, <1>6, <2>1, <2>2 DEF b, f
<1> QED BY <1>9, <1>10

Fees(S) == MapThenSumSet(LAMBDA t : t.content.fee, S)

FeeOf(S) == [t \in S |-> t.content.fee]

AddsFees(g, S) ==
  g = [s \in SUBSET S |-> IF s = {} THEN 0 ELSE Pick(s).content.fee + g[Rest(s)]]

LEMMA AddsFeesIs ==
  ASSUME NEW S, NEW g
  PROVE  AddsFees(g, S) <=> Adds(g, FeeOf(S), S)
<1>1. \A s \in SUBSET S : s # {} => FeeOf(S)[Pick(s)] = Pick(s).content.fee
  <2> SUFFICES ASSUME NEW s \in SUBSET S, s # {}
               PROVE  FeeOf(S)[Pick(s)] = Pick(s).content.fee
    OBVIOUS
  <2>1. Pick(s) \in S
    BY PickRest
  <2> QED BY <2>1 DEF FeeOf
<1> DEFINE f == [s \in SUBSET S |-> IF s = {} THEN 0 ELSE Pick(s).content.fee + g[Rest(s)]]
           h == [s \in SUBSET S |-> IF s = {} THEN 0 ELSE FeeOf(S)[Pick(s)] + g[Rest(s)]]
<1>2. f = h
  BY <1>1
<1> QED BY <1>2 DEF AddsFees, Adds

LEMMA FeesIs ==
  ASSUME NEW S, IsFiniteSet(S)
  PROVE  Fees(S) = Total(FeeOf(S), S)
<1>1. Fees(S) = (CHOOSE g : AddsFees(g, S))[S]
  BY Zenon DEF Fees, MapThenSumSet, MapThenFoldSet, AddsFees, Pick, Rest
<1>2. \E g : AddsFees(g, S)
  BY AddsExists, AddsFeesIs
<1>3. PICK g : AddsFees(g, S) /\ Fees(S) = g[S]
  BY <1>1, <1>2, Zenon
<1>4. Adds(g, FeeOf(S), S)
  BY <1>3, AddsFeesIs
<1>5. PICK h : Adds(h, FeeOf(S), S) /\ Total(FeeOf(S), S) = h[S]
  BY SumChosen DEF Total
<1>6. \A s \in SUBSET S : g[s] = h[s]
  BY <1>4, <1>5, AddsWithin
<1> QED BY <1>3, <1>5, <1>6

LEMMA FeesUnion ==
  ASSUME NEW S, IsFiniteSet(S), NEW T, IsFiniteSet(T), S \cap T = {},
         \A t \in S \cup T : t.content.fee \in Int
  PROVE  Fees(S \cup T) = Fees(S) + Fees(T)
<1> DEFINE U == S \cup T
           w == FeeOf(U)
<1>1. IsFiniteSet(U)
  BY FS_Union
<1>2. \A t \in S \cup T : w[t] \in Int
  BY DEF FeeOf
<1>3. (\A t \in S : w[t] = FeeOf(S)[t]) /\ \A t \in T : w[t] = FeeOf(T)[t]
  BY DEF FeeOf
<1>4. Fees(U) = Total(w, U)
  <2> HIDE DEF U
  <2> QED BY <1>1, FeesIs
<1> HIDE DEF w
<1>5. Total(w, S \cup T) = Total(w, S) + Total(w, T)
  BY <1>2, TotalUnion
<1>6. Total(w, S) = Fees(S)
  BY <1>3, FeesIs, TotalSame
<1>7. Total(w, T) = Fees(T)
  BY <1>3, FeesIs, TotalSame
<1> QED BY <1>4, <1>5, <1>6, <1>7

-----------------------------------------------------------------------------
(* Supply. *)

ProducedOf(C) == [t \in C |-> Produced(t)]
ConsumedOf(C) == [t \in C |-> Consumed(t)]
NetOf(C) == [t \in C |-> t.content.total - t.content.fee]
TotalOf(C) == [t \in C |-> t.content.total]

LEMMA MadeWorth ==
  ASSUME IInv, IdInv, NEW C, IsFiniteSet(C), C \subseteq delivered
  PROVE  /\ IsFiniteSet(Made(C))
         /\ \A o \in Made(C) : o.amount \in Nat
         /\ Tokens(Made(C)) = Total(NetOf(C), C)
<1> DEFINE F == ProducedOf(C)
<1>1. \A t \in C : F[t] = Produced(t)
  BY DEF ProducedOf
<1>2. Made(C) = Flat(F, C)
  BY <1>1 DEF Made, Flat
<1>3. \A t \in C : /\ IsFiniteSet(F[t])
                   /\ \A o \in F[t] : o.amount \in Nat
                   /\ NetOf(C)[t] = Tokens(F[t])
  <2> SUFFICES ASSUME NEW t \in C
               PROVE  /\ IsFiniteSet(F[t])
                      /\ \A o \in F[t] : o.amount \in Nat
                      /\ NetOf(C)[t] = Tokens(F[t])
    OBVIOUS
  <2>1. /\ IsFiniteSet(Produced(t))
        /\ \A o \in Produced(t) : o.amount \in Nat
        /\ Tokens(Produced(t)) = t.content.total - t.content.fee
    BY ProducedWorth
  <2>2. NetOf(C)[t] = t.content.total - t.content.fee
    BY DEF NetOf
  <2> HIDE DEF F
  <2> QED BY <1>1, <2>1, <2>2
<1>4. \A t, u \in C : t # u => F[t] \cap F[u] = {}
  <2> SUFFICES ASSUME NEW t \in C, NEW u \in C, NEW o \in F[t], o \in F[u]
               PROVE  t = u
    OBVIOUS
  <2>1. o.tx = t.id /\ o.tx = u.id
    BY <1>1, ProducedBy
  <2> QED BY <2>1 DEF IdInv, Known
<1>5. \A o \in Made(C) : o.amount \in Nat
  BY <1>2, <1>3 DEF Flat
<1> HIDE DEF F
<1>6. \A t \in C : /\ IsFiniteSet(F[t])
                   /\ \A o \in F[t] : o.amount \in Int
                   /\ NetOf(C)[t] = Tokens(F[t])
  BY <1>3
<1>7. IsFiniteSet(Flat(F, C)) /\ Tokens(Flat(F, C)) = Total(NetOf(C), C)
  BY <1>4, <1>6, TokensFlat
<1> QED BY <1>2, <1>5, <1>7

\* Transactions that can be consolidated together take what they say.
LEMMA UsedWorth ==
  ASSUME IInv, SumInv, NEW C, IsFiniteSet(C), C \subseteq delivered, Includable(C),
         \A o \in Used(C) : o.amount \in Nat
  PROVE  IsFiniteSet(Used(C)) /\ Tokens(Used(C)) = Total(TotalOf(C), C)
<1> DEFINE F == ConsumedOf(C)
<1>1. \A t \in C : F[t] = Consumed(t)
  BY DEF ConsumedOf
<1>2. Used(C) = Flat(F, C)
  BY <1>1 DEF Used, Flat
<1>3. \A t \in C : /\ IsFiniteSet(F[t])
                   /\ \A o \in F[t] : o.amount \in Int
                   /\ TotalOf(C)[t] = Tokens(F[t])
  <2> SUFFICES ASSUME NEW t \in C
               PROVE  /\ IsFiniteSet(F[t])
                      /\ \A o \in F[t] : o.amount \in Int
                      /\ TotalOf(C)[t] = Tokens(F[t])
    OBVIOUS
  <2>1. IsFiniteSet(t.content.ins) /\ t.content.total = Tokens(t.content.ins)
    BY DEF SumInv, Known
  <2>2. TotalOf(C)[t] = t.content.total /\ F[t] = t.content.ins
    BY <1>1 DEF TotalOf, Consumed
  <2>3. \A o \in Consumed(t) : o \in Used(C)
    BY DEF Used
  <2> HIDE DEF F
  <2> QED BY <1>1, <2>1, <2>2, <2>3
<1>4. \A t, u \in C : t # u => F[t] \cap F[u] = {}
  BY <1>1 DEF Includable
<1> HIDE DEF F
<1>5. IsFiniteSet(Flat(F, C)) /\ Tokens(Flat(F, C)) = Total(TotalOf(C), C)
  BY <1>3, <1>4, TokensFlat
<1> QED BY <1>2, <1>5

LEMMA FeesAreTheDifference ==
  ASSUME IInv, NEW C, IsFiniteSet(C), C \subseteq delivered
  PROVE  /\ Total(TotalOf(C), C) = Total(NetOf(C), C) + Fees(C)
         /\ Total(NetOf(C), C) \in Int /\ Fees(C) \in Int
<1>1. \A t \in C : t.content.total \in Nat /\ t.content.fee \in Nat
  BY DEF IInv, TypeOK, TransactionType, ContentType
<1>2. \A t \in C : /\ NetOf(C)[t] \in Int /\ FeeOf(C)[t] \in Int
                   /\ TotalOf(C)[t] = NetOf(C)[t] + FeeOf(C)[t]
  BY <1>1 DEF NetOf, FeeOf, TotalOf
<1>3. Total(TotalOf(C), C) = Total(NetOf(C), C) + Total(FeeOf(C), C)
  BY <1>2, TotalPlus
<1>4. Total(NetOf(C), C) \in Int
  BY <1>2, TotalInt
<1>5. Total(FeeOf(C), C) \in Int
  BY <1>2, TotalInt
<1>6. Fees(C) = Total(FeeOf(C), C)
  BY FeesIs
<1> QED BY <1>3, <1>4, <1>5, <1>6

\* What consolidating C does to the sum of the ledger.
LEMMA IncludedWorth ==
  ASSUME IInv, IdInv, PastInv, SumInv, NEW C, Included(C)
  PROVE  /\ IsFiniteSet(C) /\ IsFiniteSet(head'.utxo)
         /\ Tokens(head.utxo) \in Int /\ Tokens(head'.utxo) \in Int
         /\ Fees(C) \in Int
         /\ Tokens(head.utxo) = Tokens(head'.utxo) + Fees(C)
<1> DEFINE H == head.utxo
           P == Made(C)
           U == Used(C)
           S == H \cup P
<1>1. /\ C \subseteq delivered /\ Includable(C)
      /\ head'.utxo = S \ U
      /\ \A o \in P : o.tx > 0 /\ o.tx \notin head.txids
  BY DEF Included
<1>2. IsFiniteSet(C)
  <2>1. C \subseteq Known /\ IsFiniteSet(Known)
    BY <1>1 DEF Known, SumInv
  <2> QED BY <2>1, FS_Subset
<1>3. /\ IsFiniteSet(P) /\ \A o \in P : o.amount \in Nat
      /\ Tokens(P) = Total(NetOf(C), C)
  BY <1>1, <1>2, MadeWorth
<1>4. IsFiniteSet(H) /\ \A o \in H : o.amount \in Nat
  BY HeadType DEF SumInv, OutputType
<1>5. H \cap P = {}
  <2> SUFFICES ASSUME NEW o \in H, o \in P PROVE FALSE
    OBVIOUS
  <2>1. o \in Genesis \/ o.tx \in head.txids
    BY DEF PastInv, BirthInv, BornIn
  <2> QED BY <1>1, <2>1, DepositFacts
<1>6. U \subseteq S
  BY <1>1 DEF Includable, Used, Made
<1>7. \A o \in S : o.amount \in Nat
  BY <1>3, <1>4
<1>8. IsFiniteSet(U) /\ Tokens(U) = Total(TotalOf(C), C)
  BY <1>1, <1>2, <1>6, <1>7, UsedWorth
<1>9. Tokens(U) = Tokens(P) + Fees(C) /\ Fees(C) \in Int
  BY <1>1, <1>2, <1>3, <1>8, FeesAreTheDifference
<1> HIDE DEF H, P, U
<1>10. Tokens(S) = Tokens(H) + Tokens(P)
  BY <1>3, <1>4, <1>5, <1>7, TokensUnion
<1>11. IsFiniteSet(S)
  BY <1>3, <1>4, FS_Union
<1> HIDE DEF S
<1>12. /\ Tokens(S) \in Nat /\ Tokens(U) \in Nat /\ Tokens(S \ U) \in Nat
       /\ Tokens(S) = Tokens(U) + Tokens(S \ U)
  BY <1>6, <1>7, <1>11, TokensSubset
<1>13. Tokens(H) \in Nat
  BY <1>4, TokensNat
<1>14. Tokens(P) \in Nat
  BY <1>3, TokensNat
<1>15. IsFiniteSet(S \ U)
  BY <1>11, FS_Subset
<1>16. Tokens(H) = Tokens(S \ U) + Fees(C)
  BY <1>9, <1>10, <1>12, <1>13, <1>14
<1> QED BY <1>1, <1>2, <1>9, <1>12, <1>13, <1>15, <1>16 DEF H

LEMMA KnownSums ==
  ASSUME IInv, SumInv, Run
  PROVE  /\ IsFiniteSet(Known')
         /\ \A t \in Known' :
              IsFiniteSet(t.content.ins) /\ t.content.total = Tokens(t.content.ins)
<1>1. CASE Known' \subseteq Known
  <2>1. IsFiniteSet(Known')
    BY <1>1, FS_Subset DEF SumInv
  <2> QED BY <1>1, <2>1 DEF SumInv
<1>2. CASE Adds1
  <2>1. PICK t \in BuildOneTx : Known' \subseteq Known \cup {t}
    BY <1>2 DEF Adds1
  <2>2. IsFiniteSet(Known \cup {t})
    BY FS_AddElement DEF SumInv
  <2>3. IsFiniteSet(Known')
    BY <2>1, <2>2, FS_Subset
  <2>4. t.content.ins = inputs /\ t.content.total = total
    BY <1>2, BuiltTransaction DEF Adds1
  <2>5. IsFiniteSet(inputs) /\ total = Tokens(inputs)
    BY <1>2 DEF Adds1, SumInv, Spending
  <2> QED BY <2>1, <2>3, <2>4, <2>5 DEF SumInv
<1> QED BY <1>1, <1>2, SenderStep

\* What does not concern the locals of a round.
LEMMA SumKept ==
  ASSUME SumInv, UNCHANGED <<senderVars, delivered>>,
         IsFiniteSet(head'.utxo), \A h \in Hosts : IsFiniteSet(lrb'[h].utxo)
  PROVE  SumInv'
BY DEF SumInv, Known, Spending, senderVars, fetched, round

LEMMA SumStep ==
  ASSUME IInv, IdInv, PastInv, SumInv, [Next]_vars
  PROVE  SumInv'
<1>1. CASE Run
  <2>1. RoundSums' /\ UNCHANGED <<head, lrb>>
    BY <1>1, RoundSumsStep, SenderStep
  <2>2. /\ IsFiniteSet(Known')
        /\ \A t \in Known' :
             IsFiniteSet(t.content.ins) /\ t.content.total = Tokens(t.content.ins)
    BY <1>1, KnownSums
  <2>3. IsFiniteSet(head'.utxo) /\ \A h \in Hosts : IsFiniteSet(lrb'[h].utxo)
    BY <2>1 DEF SumInv
  <2> QED BY <2>1, <2>2, <2>3 DEF SumInv, RoundSums
<1>2. CASE Clock \/ UNCHANGED vars
  <2>1. UNCHANGED <<senderVars, delivered, head, lrb>>
    BY <1>2 DEF Clock, Tick, vars, ledgerVars
  <2>2. IsFiniteSet(head'.utxo) /\ \A h \in Hosts : IsFiniteSet(lrb'[h].utxo)
    BY <2>1 DEF SumInv
  <2> QED BY <2>1, <2>2, SumKept
<1>3. ASSUME NEW C, Included(C) PROVE SumInv'
  <2>1. IsFiniteSet(head'.utxo)
    BY <1>3, IncludedWorth
  <2>2. UNCHANGED <<senderVars, delivered, lrb>>
    BY <1>3 DEF Included
  <2>3. \A h \in Hosts : IsFiniteSet(lrb'[h].utxo)
    BY <2>2 DEF SumInv
  <2> QED BY <2>1, <2>2, <2>3, SumKept
<1>4. ASSUME NEW d, Deposited(d) PROVE SumInv'
  <2>1. head'.utxo = head.utxo \cup {d} /\ UNCHANGED <<senderVars, delivered, lrb>>
    BY <1>4 DEF Deposited
  <2>2. IsFiniteSet(head'.utxo)
    BY <2>1, FS_AddElement DEF SumInv
  <2>3. \A h \in Hosts : IsFiniteSet(lrb'[h].utxo)
    BY <2>1 DEF SumInv
  <2> QED BY <2>1, <2>2, <2>3, SumKept
<1>5. ASSUME NEW o, Withdrawn(o) PROVE SumInv'
  <2>1. head'.utxo = head.utxo \ {o} /\ UNCHANGED <<senderVars, delivered, lrb>>
    BY <1>5 DEF Withdrawn
  <2>2. IsFiniteSet(head'.utxo)
    BY <2>1, FS_Subset DEF SumInv
  <2>3. \A h \in Hosts : IsFiniteSet(lrb'[h].utxo)
    BY <2>1 DEF SumInv
  <2> QED BY <2>1, <2>2, <2>3, SumKept
<1>6. ASSUME NEW g \in Hosts, Synced(g) PROVE SumInv'
  <2>1. lrb' = [lrb EXCEPT ![g] = head] /\ UNCHANGED <<senderVars, delivered, head>>
    BY <1>6 DEF Synced
  <2>2. \A h \in Hosts : lrb'[h] = head \/ lrb'[h] = lrb[h]
    BY <2>1 DEF IInv, LedgerTypeOK
  <2>3. IsFiniteSet(head'.utxo) /\ \A h \in Hosts : IsFiniteSet(lrb'[h].utxo)
    BY <2>1, <2>2 DEF SumInv
  <2> QED BY <2>1, <2>3, SumKept
<1>7. CASE Network
  <2>1. Consolidate => \E C : Included(C)
    BY <1>7, ConsolidateEffect
  <2>2. Deposit => \E d : Deposited(d)
    BY <1>7, DepositEffect
  <2>3. Withdraw => \E o : Withdrawn(o)
    <3> SUFFICES ASSUME Withdraw PROVE \E o : Withdrawn(o)
      OBVIOUS
    <3>1. PICK o \in head.utxo : head' = [head EXCEPT !.utxo = @ \ {o}]
      BY DEF Withdraw
    <3>2. head'.utxo = head.utxo \ {o} /\ head'.txids = head.txids
      BY <3>1, HeadType
    <3>3. UNCHANGED <<now, lrb, senderVars, delivered>> /\ Withdrawals
      BY <1>7, NetworkCases DEF Withdraw
    <3> QED BY <3>2, <3>3 DEF Withdrawn, Consolidated, PaidIn
  <2>4. (\E h \in Hosts : Sync(h)) => \E h \in Hosts : Synced(h)
    BY <1>7, NetworkCases DEF Sync, Synced, Consolidated, PaidIn
  <2> QED BY <1>3, <1>4, <1>5, <1>6, <1>7, <2>1, <2>2, <2>3, <2>4, NetworkCases
<1> QED BY <1>1, <1>2, <1>7 DEF Next

SupplyInv ==
  /\ Tokens(head.utxo) + Tokens(TakenOut) + Fees(Consolidated) = Tokens(PaidIn)
  /\ TakenOut # {} => Withdrawals

LEMMA TakenOutIs == TakenOut = Existing \ (head.utxo \cup Used(Consolidated))
BY DEF TakenOut, Existing, Made, Used

LEMMA ConsolidatedFinite ==
  ASSUME IInv, SumInv
  PROVE  IsFiniteSet(Consolidated) /\ \A t \in Consolidated : t.content.fee \in Nat
<1>1. Consolidated \subseteq Known
  BY DEF Consolidated, Known
<1>2. IsFiniteSet(Consolidated)
  BY <1>1, FS_Subset DEF SumInv
<1>3. \A t \in Consolidated : t.content.fee \in Nat
  BY DEF Consolidated, IInv, TypeOK, TransactionType, ContentType
<1> QED BY <1>2, <1>3

LEMMA FeesInt ==
  ASSUME NEW S, IsFiniteSet(S), \A t \in S : t.content.fee \in Nat
  PROVE  Fees(S) \in Int
<1>1. \A t \in S : FeeOf(S)[t] \in Int
  BY DEF FeeOf
<1> QED BY <1>1, FeesIs, TotalInt

LEMMA PaidInWorth == IsFiniteSet(PaidIn) /\ \A o \in PaidIn : o.amount \in Nat
<1>1. PaidIn \subseteq Genesis \cup Deposits
  BY DEF PaidIn
<1>2. IsFiniteSet(Genesis \cup Deposits)
  BY DepositFacts, FS_Union
<1>3. IsFiniteSet(PaidIn)
  BY <1>1, <1>2, FS_Subset
<1> QED BY <1>1, <1>3, DepositFacts DEF OutputType

LEMMA TokensAdd ==
  ASSUME NEW S, IsFiniteSet(S), \A o \in S : o.amount \in Nat,
         NEW d, d \notin S, d.amount \in Nat
  PROVE  Tokens(S \cup {d}) = Tokens(S) + d.amount
<1>1. IsFiniteSet({d}) /\ S \cap {d} = {} /\ \A o \in S \cup {d} : o.amount \in Nat
  BY FS_Singleton
<1>2. Tokens(S \cup {d}) = Tokens(S) + Tokens({d})
  BY <1>1, TokensUnion
<1>3. Tokens({d}) = d.amount
  BY TokensSingle
<1> QED BY <1>2, <1>3

\* What was taken out is not there, nor ever again.
LEMMA TakenOutWorth ==
  ASSUME IInv, IdInv, SumInv
  PROVE  IsFiniteSet(TakenOut) /\ \A o \in TakenOut : o.amount \in Nat
<1>1. Consolidated \subseteq delivered
  BY DEF Consolidated
<1>2. IsFiniteSet(Made(Consolidated)) /\ \A o \in Made(Consolidated) : o.amount \in Nat
  BY <1>1, ConsolidatedFinite, MadeWorth
<1>3. IsFiniteSet(PaidIn) /\ \A o \in PaidIn : o.amount \in Nat
  BY PaidInWorth
<1>4. IsFiniteSet(Existing)
  BY <1>2, <1>3, FS_Union DEF Existing
<1>5. TakenOut \subseteq Existing
  BY TakenOutIs
<1>6. IsFiniteSet(TakenOut)
  BY <1>4, <1>5, FS_Subset
<1> QED BY <1>2, <1>3, <1>5, <1>6 DEF Existing

LEMMA SupplyIncluded ==
  ASSUME IInv, IdInv, PastInv, SumInv, SupplyInv, NEW C, Included(C)
  PROVE  SupplyInv'
<1>1. /\ IsFiniteSet(C) /\ Fees(C) \in Int
      /\ Tokens(head.utxo) \in Int /\ Tokens(head'.utxo) \in Int
      /\ Tokens(head.utxo) = Tokens(head'.utxo) + Fees(C)
  BY IncludedWorth
<1>2. /\ C \subseteq delivered /\ C \cap Consolidated = {}
      /\ Consolidated' = Consolidated \cup C /\ PaidIn' = PaidIn
  BY DEF Included
<1>3. IsFiniteSet(Consolidated) /\ \A t \in Consolidated : t.content.fee \in Nat
  BY ConsolidatedFinite
<1>4. \A t \in C : t.content.fee \in Nat
  BY <1>2 DEF IInv, TypeOK, TransactionType, ContentType
<1>5. Fees(Consolidated \cup C) = Fees(Consolidated) + Fees(C)
  <2>1. \A t \in Consolidated \cup C : t.content.fee \in Int
    BY <1>3, <1>4
  <2>2. Consolidated \cap C = {}
    BY <1>2
  <2> QED BY <1>1, <1>3, <2>1, <2>2, FeesUnion
<1>6. Fees(Consolidated) \in Int
  BY <1>3, FeesInt
<1>7. Fees(Consolidated') = Fees(Consolidated \cup C) /\ Tokens(PaidIn') = Tokens(PaidIn)
  BY <1>2
<1>8. TakenOut' = TakenOut
  <2>1. /\ head'.utxo = (head.utxo \cup Made(C)) \ Used(C)
        /\ \A o \in Made(C) : o.tx > 0 /\ o.tx \notin head.txids
        /\ Used(C) \subseteq head.utxo \cup Made(C)
    BY DEF Included, Includable, Used, Made
  <2>2. Existing' = Existing \cup Made(C)
    BY <1>2 DEF Existing, Made
  <2>3. Used(Consolidated') = Used(Consolidated) \cup Used(C)
    BY <1>2 DEF Used
  <2>4. Existing \cap Made(C) = {}
    <3> SUFFICES ASSUME NEW o \in Existing, o \in Made(C) PROVE FALSE
      OBVIOUS
    <3>1. o \in Genesis \/ o.tx \in head.txids
      BY DEF PastInv, BirthInv, BornIn
    <3> QED BY <2>1, <3>1, DepositFacts
  <2>5. TakenOut' = Existing' \ (head'.utxo \cup Used(Consolidated'))
    BY DEF TakenOut, Existing, Made, Used
  <2> QED BY <2>1, <2>2, <2>3, <2>4, <2>5, TakenOutIs
<1>9. Tokens(TakenOut') = Tokens(TakenOut) /\ Tokens(TakenOut) \in Nat
  BY <1>8, TakenOutWorth, TokensNat
<1> QED BY <1>1, <1>5, <1>6, <1>7, <1>8, <1>9 DEF SupplyInv

LEMMA SupplyDeposited ==
  ASSUME IInv, IdInv, PastInv, SumInv, SupplyInv, NEW d, Deposited(d)
  PROVE  SupplyInv'
<1>1. /\ d \in Deposits /\ d.tx \notin head.txids /\ d \notin PaidIn
      /\ head'.utxo = head.utxo \cup {d} /\ PaidIn' = PaidIn \cup {d}
      /\ Consolidated' = Consolidated
  BY DEF Deposited
<1>2. d \notin head.utxo
  <2>1. d \notin Genesis
    BY <1>1, DepositFacts
  <2> QED BY <1>1, <2>1 DEF PastInv, BirthInv, BornIn
<1>3. d.amount \in Nat
  BY <1>1, DepositFacts DEF OutputType
<1>4. IsFiniteSet(head.utxo) /\ \A o \in head.utxo : o.amount \in Nat
  BY HeadType DEF SumInv, OutputType
<1>5. IsFiniteSet(PaidIn) /\ \A o \in PaidIn : o.amount \in Nat
  BY PaidInWorth
<1>6. ASSUME NEW S, IsFiniteSet(S), \A o \in S : o.amount \in Nat, d \notin S
      PROVE  Tokens(S \cup {d}) = Tokens(S) + d.amount
  BY <1>3, <1>6, TokensAdd
<1>7. Tokens(head'.utxo) = Tokens(head.utxo) + d.amount
  <2>1. Tokens(head.utxo \cup {d}) = Tokens(head.utxo) + d.amount
    BY <1>2, <1>4, <1>6
  <2> QED BY <1>1, <2>1
<1>8. Tokens(PaidIn') = Tokens(PaidIn) + d.amount
  <2>1. Tokens(PaidIn \cup {d}) = Tokens(PaidIn) + d.amount
    BY <1>1, <1>5, <1>6
  <2> QED BY <1>1, <2>1
<1>9. Tokens(head.utxo) \in Nat
  BY <1>4, TokensNat
<1>10. Tokens(PaidIn) \in Nat
  BY <1>5, TokensNat
<1>11. Fees(Consolidated) \in Int /\ Fees(Consolidated') = Fees(Consolidated)
  BY <1>1, ConsolidatedFinite, FeesInt
<1>12. TakenOut' = TakenOut
  <2>1. Existing' = Existing \cup {d} /\ Used(Consolidated') = Used(Consolidated)
    BY <1>1 DEF Existing, Made, Used
  <2>2. d \notin Existing
    <3>1. d \notin Genesis
      BY <1>1, DepositFacts
    <3> QED BY <1>1, <3>1 DEF PastInv, BirthInv, BornIn
  <2>3. TakenOut' = Existing' \ (head'.utxo \cup Used(Consolidated'))
    BY DEF TakenOut, Existing, Made, Used
  <2> QED BY <1>1, <2>1, <2>2, <2>3, TakenOutIs
<1>13. Tokens(TakenOut') = Tokens(TakenOut) /\ Tokens(TakenOut) \in Nat
  BY <1>12, TakenOutWorth, TokensNat
<1> QED BY <1>3, <1>7, <1>8, <1>9, <1>10, <1>11, <1>12, <1>13 DEF SupplyInv

\* The output moves from what is there to what was taken out, as no consolidated
\* transaction has consumed it.
LEMMA SupplyWithdrawn ==
  ASSUME IInv, IdInv, PastInv, SumInv, SupplyInv, NEW o, Withdrawn(o)
  PROVE  SupplyInv'
<1>1. /\ Withdrawals /\ o \in head.utxo /\ head'.utxo = head.utxo \ {o}
      /\ UNCHANGED <<Consolidated, PaidIn>>
  BY DEF Withdrawn
<1>2. o \in Existing /\ o \notin Used(Consolidated)
  BY <1>1 DEF PastInv, BirthInv, GoneInv, Used
<1>3. TakenOut' = TakenOut \cup {o} /\ o \notin TakenOut
  <2>1. Existing' = Existing /\ Used(Consolidated') = Used(Consolidated)
    BY <1>1 DEF Existing, Made, Used
  <2>2. TakenOut' = Existing' \ (head'.utxo \cup Used(Consolidated'))
    BY DEF TakenOut, Existing, Made, Used
  <2> QED BY <1>1, <1>2, <2>1, <2>2, TakenOutIs
<1>4. IsFiniteSet(head.utxo) /\ \A q \in head.utxo : q.amount \in Nat
  BY HeadType DEF SumInv, OutputType
<1>5. IsFiniteSet(head'.utxo) /\ \A q \in head'.utxo : q.amount \in Nat
  BY <1>1, <1>4, FS_Subset
<1>6. IsFiniteSet(TakenOut) /\ \A q \in TakenOut : q.amount \in Nat
  BY TakenOutWorth
<1>7. o.amount \in Nat /\ o \notin head'.utxo
  BY <1>1, <1>4
<1>8. Tokens(head'.utxo \cup {o}) = Tokens(head'.utxo) + o.amount
  BY <1>5, <1>7, TokensAdd
<1>9. Tokens(TakenOut \cup {o}) = Tokens(TakenOut) + o.amount
  BY <1>3, <1>6, <1>7, TokensAdd
<1>10. head'.utxo \cup {o} = head.utxo
  BY <1>1
<1>11. /\ Tokens(head'.utxo) \in Nat /\ Tokens(TakenOut) \in Nat
  BY <1>5, <1>6, TokensNat
<1>12. Fees(Consolidated) \in Int /\ Fees(Consolidated') = Fees(Consolidated)
  BY <1>1, ConsolidatedFinite, FeesInt
<1>13. Tokens(PaidIn') = Tokens(PaidIn)
  BY <1>1
<1>14. Tokens(TakenOut') = Tokens(TakenOut) + o.amount
  BY <1>3, <1>9
<1>15. Tokens(head.utxo) = Tokens(head'.utxo) + o.amount
  BY <1>8, <1>10
<1>16. Tokens(head.utxo) + Tokens(TakenOut) + Fees(Consolidated) = Tokens(PaidIn)
  BY DEF SupplyInv
<1>17. Tokens(head'.utxo) + Tokens(TakenOut') + Fees(Consolidated') = Tokens(PaidIn')
  BY <1>7, <1>11, <1>12, <1>13, <1>14, <1>15, <1>16
<1> QED BY <1>1, <1>17 DEF SupplyInv, Withdrawn

LEMMA SupplyStep ==
  ASSUME IInv, IdInv, PastInv, SumInv, SupplyInv, [Next]_vars
  PROVE  SupplyInv'
<1>1. CASE Still \/ \E h \in Hosts : Synced(h)
  <2>1. UNCHANGED <<head, Consolidated, PaidIn>>
    BY <1>1 DEF Still, Synced
  <2> QED BY <2>1 DEF SupplyInv, TakenOut
<1> QED BY <1>1, LedgerStep, SupplyIncluded, SupplyDeposited, SupplyWithdrawn

LEMMA InitSupply == Init => SumInv /\ SupplyInv
<1> SUFFICES ASSUME Init PROVE SumInv /\ SupplyInv
  OBVIOUS
<1>1. /\ delivered = {} /\ retrying = {} /\ outs = {} /\ pc = "start"
      /\ head.utxo = Genesis /\ head.txids = {}
      /\ \A h \in Hosts : lrb[h].utxo = Genesis
  BY DEF Init, LedgerInit, State
<1>2. SumInv
  BY <1>1, FS_EmptySet, DepositFacts DEF SumInv, Known, Spending
<1>3. Consolidated = {} /\ PaidIn = Genesis
  BY <1>1 DEF Consolidated, PaidIn
<1>4. Fees({}) = 0
  BY FS_EmptySet, FeesIs, TotalEmpty
<1>5. Tokens(Genesis) \in Nat
  <2>1. \A o \in Genesis : o.amount \in Nat
    BY DepositFacts DEF OutputType
  <2> QED BY <2>1, DepositFacts, TokensNat
<1>6. TakenOut = {} /\ Tokens({}) = 0
  BY <1>1, <1>3, TakenOutIs, TokensEmpty DEF Existing, Made
<1>7. SupplyInv
  BY <1>1, <1>3, <1>4, <1>5, <1>6 DEF SupplyInv
<1> QED BY <1>2, <1>7

\* Whatever the sender submits, twice or never, in whatever order and to
\* whatever host, whatever the network includes together, and whatever another
\* command takes out: what the network holds is what was paid in, less the fees
\* of the transactions included and less what was taken out (buildOneTx divides
\* the whole of its inputs, buildAndSubmitBatch hands each remainder on, of a set
\* of buildAndSubmitConflictSet one member is included).
THEOREM TokensAreConserved == Spec => []SupplyConserved
<1>1. Init => IInv /\ IdInv /\ PastInv /\ SumInv /\ SupplyInv
  BY InitStep, InitPast, InitSupply
<1>2. IInv /\ IInv' /\ IdInv /\ PastInv /\ SumInv /\ SupplyInv /\ [Next]_vars
        => IdInv' /\ PastInv' /\ SumInv' /\ SupplyInv'
  BY IdStep, PastStep, SumStep, SupplyStep
<1>3. SupplyInv => SupplyConserved
  BY AmountTokens DEF SupplyInv, SupplyConserved, Fees
<1> QED BY <1>1, <1>2, <1>3, Inductive, PTL DEF Spec
=============================================================================
