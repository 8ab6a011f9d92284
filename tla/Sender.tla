------------------------------- MODULE Sender -------------------------------
(* One sender goroutine (sender.go: Run, doRound and all they call) against
   the ledger.  A round fetches the account's outputs from one API host,
   settles the outputs it already spent, and spends the rest: either as a
   chain of BatchSize transactions, each consuming the remainder of the one
   before (run), or as a set of transactions that all consume the same
   inputs (conflict).

   A step ends where the goroutine waits for a node's answer or sleeps, so
   the clock, the network and the hosts move between any two calls of the
   API.  Local computation between two calls is part of one step.           *)
EXTENDS Ledger, FiniteSetsExt, Sequences

CONSTANTS
  Conflict,              \* conflict mode
  HostStrategy,          \* "next" or "random"
  MindRateControl,       \* wait a pace between two rounds
  Chains,                \* chain ids of sequencers
  SeqLists,              \* what pickSequencers may return, the empty list apart
  Targets,               \* owners resolveTarget may return: "self", "other"
  Pace,                  \* the ledger's transaction pace, in ticks
  TicksPerSlot,          \* ticks in a slot
  JitterTicks,           \* timestamp_jitter_ticks
  MaxFutureJitterTicks,  \* how far ahead of the clock jitter may reach
  FinalityTimeoutSlots,  \* finality_timeout_slots
  SlotModulus,           \* slots are unsigned integers modulo this
  FetchLimit,            \* most outputs a fetch returns
  Supply,                \* no balance exceeds the tokens in existence
  MaxTx,                 \* bound: transactions built
  MaxFaults,             \* bound: failed calls of the API
  LastSpendTick          \* bound: no transaction is built after this tick

SeqInfo == [chain : Chains, fee : Nat \ {0}]

ASSUME SenderAssumption ==
  /\ Conflict \in BOOLEAN
  /\ HostStrategy \in {"next", "random"}
  /\ MindRateControl \in BOOLEAN
  /\ SeqLists \subseteq Seq(SeqInfo) \ {<<>>}
  /\ Targets \subseteq {"self", "other"}
  /\ {Pace, TicksPerSlot, FinalityTimeoutSlots, SlotModulus} \subseteq Nat \ {0}
  /\ {JitterTicks, MaxFutureJitterTicks, FetchLimit, Supply} \subseteq Nat
  /\ {MaxTx, MaxFaults, LastSpendTick} \subseteq Nat

VARIABLES
  pc,           \* "start", "classify", "build", "retry" or "wait"
  hostIdx,      \* the host the next client() will use
  clnt,         \* the host the current client was made for
  spentSet,     \* output -> its recorded spender and the slot of that spender
  wakeAt,       \* when the sleep between two rounds ends
  metrics,      \* TxSent, TxFailed, ConflictSets
  outs,         \* this round: the outputs fetched
  currentSlot,  \* this round: the slot read after the fetch
  unchecked,    \* this round: entries of spentSet still to classify
  seqs,         \* this round: the sequencers to tag along with
  balance,      \* this round: availableBalance
  inputs,       \* what the next transaction consumes
  total,        \* the amount of inputs
  member,       \* index of the transaction in its chain or set
  firstTs,      \* conflict mode: timestamp of the first member
  retrying,     \* the transaction whose submission is being retried, if any
  sentTxs,      \* this round: transactions a node acknowledged
  accepted,     \* history: every transaction a node acknowledged
  seenFinal,    \* history: entries this round dropped as finalized
  nTx,          \* transactions built so far
  faults        \* API calls that have failed so far

wallet == <<hostIdx, spentSet, metrics, accepted>>
fetched == <<outs, currentSlot, unchecked, seenFinal>>
round == <<seqs, balance, inputs, total, member, firstTs, retrying, sentTxs>>
senderVars == <<pc, clnt, wakeAt, nTx, faults, wallet, fetched, round>>
vars == <<ledgerVars, senderVars>>

-----------------------------------------------------------------------------
(* Time. *)

Slot(ts) == ts \div TicksPerSlot

\* currentSlot - SubmittedSlot, both uint32.
SlotsSince(slot) == (currentSlot - slot) % SlotModulus

\* Slip: the clock alone, whatever the inputs are.
ClockLowerBound(ins) == {now}

\* The one timestamp that is a pace after the latest input, or the clock if
\* that is later.
PaceLowerBound(ins) ==
  {l \in {now} \cup {o.ts + Pace : o \in ins} :
     l >= now /\ \A o \in ins : l >= o.ts + Pace}

\* Jitter spreads a timestamp over JitterTicks, but not past the node's
\* window for timestamps in the future.
PickTimestamp(ins) ==
  UNION {{t \in l .. (l + JitterTicks) :
            t = l \/ t <= now + MaxFutureJitterTicks} : l \in PaceLowerBound(ins)}

ConflictTimestamp(i) == firstTs + i * Pace

-----------------------------------------------------------------------------
(* API hosts. *)

\* Slips: the index runs off the list; the index stays.
RotatePastEnd == hostIdx + 1
RotateNowhere == hostIdx

RotateHost == (hostIdx + 1) % NumHosts

NextHosts ==
  IF HostStrategy = "random" /\ NumHosts > 1 THEN Hosts
  ELSE {(hostIdx + 1) % NumHosts}

-----------------------------------------------------------------------------
(* Transactions of a round. *)

RoundSize == IF Conflict THEN Len(seqs) ELSE BatchSize

\* Every member of a conflict set tags along; only the last of a chain does.
Sequencer == IF Conflict THEN seqs[member + 1] ELSE seqs[1]
\* Slip: no transaction of a chain is ever the last.
TagAlongNever == Conflict \/ member = BatchSize
IncludeTagAlong == Conflict \/ member = BatchSize - 1
TagAlongFee == IF IncludeTagAlong THEN Sequencer.fee ELSE 0

Content(ts, to) ==
  [ins |-> inputs, ts |-> ts, total |-> total, fee |-> TagAlongFee,
   chain |-> IF IncludeTagAlong THEN Sequencer.chain ELSE "none", to |-> to]

\* Equal contents are one transaction, with one id.
Transaction(c) ==
  IF \E t \in delivered : t.content = c
  THEN CHOOSE t \in delivered : t.content = c
  ELSE [id |-> nTx + 1, content |-> c]

BuildOneTx ==
  {Transaction(Content(ts, to)) :
     ts \in IF Conflict THEN {ConflictTimestamp(member)} ELSE PickTimestamp(inputs),
     to \in Targets}

-----------------------------------------------------------------------------
(* The end of a round: doRound returns (anySent, wait) and Run decides
   whether to sleep.                                                        *)

Finish(anySent, wait) ==
  /\ IF anySent /\ wait = 0 /\ ~MindRateControl
       THEN pc' = "start" /\ wakeAt' = 0
       ELSE pc' = "wait" /\ wakeAt' = now + (IF wait <= 0 THEN Pace ELSE wait)
  /\ outs' = {} /\ unchecked' = {} /\ seenFinal' = {} /\ currentSlot' = 0
  /\ seqs' = <<>> /\ inputs' = {} /\ retrying' = {}
  /\ balance' = 0 /\ total' = 0 /\ member' = 0 /\ firstTs' = 0

\* Slip: the pace after the last member is forgotten.
FinishAtLastMember(anySent) ==
  Finish(anySent,
         IF ~anySent \/ Len(seqs) = 1 THEN 0
         ELSE ConflictTimestamp(Len(seqs) - 1) - now)

\* A set with an acknowledged member reserves its stretch of the timeline
\* and one pace more; a set of one reserves nothing.
FinishConflictSet(anySent) ==
  Finish(anySent,
         IF ~anySent \/ Len(seqs) = 1 THEN 0
         ELSE ConflictTimestamp(Len(seqs) - 1) - now + Pace)

FinishSpending(anySent) ==
  IF Conflict THEN FinishConflictSet(anySent) ELSE Finish(anySent, 0)

\* What the end of a round adds to the ConflictSets counter.
SetsEnded(sent) == IF Conflict /\ sent # {} THEN 1 ELSE 0

Counted(sent, failed, sets) ==
  [sent |-> metrics.sent + sent, failed |-> metrics.failed + failed,
   sets |-> metrics.sets + sets]

-----------------------------------------------------------------------------
(* Fetching and classifying. *)

Page(S) ==
  IF Cardinality(S) <= FetchLimit THEN {S} ELSE kSubset(FetchLimit, S)

\* GetTransferableOutputs succeeds.  Entries of outputs it did not return
\* are dropped without another call, so that happens here.
FetchOutputs ==
  /\ pc = "start"
  /\ pc' = "classify"
  /\ outs' \in Page(OwnedAt(hostIdx))
  /\ unchecked' = outs' \cap DOMAIN spentSet
  /\ spentSet' = Restrict(spentSet, unchecked')
  /\ clnt' = hostIdx
  /\ currentSlot' = Slot(now)
  /\ sentTxs' = {}
  /\ UNCHANGED <<hostIdx, wakeAt, metrics, seqs, balance, inputs, total, member,
                 firstTs, retrying, accepted, seenFinal, nTx, faults, ledgerVars>>

FetchFails ==
  /\ pc = "start"
  /\ faults < MaxFaults
  /\ faults' = faults + 1
  /\ hostIdx' = RotateHost
  /\ clnt' = hostIdx
  /\ sentTxs' = {}
  /\ Finish(FALSE, 0)
  /\ UNCHANGED <<spentSet, metrics, accepted, nTx, ledgerVars>>

\* Asking about the spender of o fails: the entry stays.
CheckFails(o) ==
  /\ faults < MaxFaults
  /\ faults' = faults + 1
  /\ UNCHANGED <<spentSet, seenFinal>>

\* The spender of o is in the LRB: the entry is dropped.
DropFinalized(o) ==
  /\ KnownAt(clnt, spentSet[o].tx)
  /\ spentSet' = Restrict(spentSet, DOMAIN spentSet \ {o})
  /\ seenFinal' = seenFinal \cup {o}
  /\ UNCHANGED faults

\* Slips: one slot too early; ticks taken for slots.
TimedOutEarly(entry) == SlotsSince(entry.slot) + 1 >= FinalityTimeoutSlots
TimedOutInTicks(entry) ==
  SlotsSince(entry.slot) >= FinalityTimeoutSlots * TicksPerSlot
TimedOut(entry) == SlotsSince(entry.slot) >= FinalityTimeoutSlots

\* The spender of o is not in the LRB: the entry stays until it times out.
KeepOrReclaim(o) ==
  /\ ~KnownAt(clnt, spentSet[o].tx)
  /\ spentSet' = IF TimedOut(spentSet[o])
                   THEN Restrict(spentSet, DOMAIN spentSet \ {o}) ELSE spentSet
  /\ UNCHANGED <<seenFinal, faults>>

Classify(o) ==
  /\ pc = "classify"
  /\ CheckFails(o) \/ DropFinalized(o) \/ KeepOrReclaim(o)
  /\ unchecked' = unchecked \ {o}
  /\ UNCHANGED <<pc, hostIdx, clnt, wakeAt, metrics, outs, currentSlot, seqs,
                 balance, inputs, total, member, firstTs, retrying, sentTxs,
                 accepted, nTx, ledgerVars>>

-----------------------------------------------------------------------------
(* From the classified outputs to a chain or a set. *)

\* Slip: what the hosts list is free, whatever was submitted.
AvailableAsListed == outs

Available == outs \ DOMAIN spentSet
Amount(S) == MapThenSumSet(LAMBDA o : o.amount, S)

\* Slip: the fee of the first sequencer stands for all of them.
AdmitsFirst(b, s) == b >= MinBalanceForOneTx(s[1].fee)

\* The balance covers one transfer at the largest fee of the sequencers.
Admits(b, s) == \A i \in DOMAIN s : b >= MinBalanceForOneTx(s[i].fee)

Classified == pc = "classify" /\ unchecked = {}

NothingToSpend ==
  /\ Classified
  /\ Available = {}
  /\ Finish(FALSE, 0)
  /\ UNCHANGED <<clnt, wallet, sentTxs, nTx, faults, ledgerVars>>

NoSequencers ==
  /\ Classified
  /\ Available # {}
  /\ Finish(FALSE, 0)
  /\ UNCHANGED <<clnt, wallet, sentTxs, nTx, faults, ledgerVars>>

Underfunded ==
  /\ Classified
  /\ Available # {}
  /\ \E s \in SeqLists : ~Admits(Amount(Available), s)
  /\ Finish(FALSE, 0)
  /\ UNCHANGED <<clnt, wallet, sentTxs, nTx, faults, ledgerVars>>

StartSpending ==
  /\ Classified
  /\ Available # {}
  /\ now <= LastSpendTick
  /\ balance' \in 0 .. Supply
  /\ balance' = Amount(Available)
  /\ seqs' \in SeqLists
  /\ Admits(balance', seqs')
  /\ nTx + (IF Conflict THEN Len(seqs') ELSE BatchSize) <= MaxTx
  /\ firstTs' \in IF Conflict THEN PickTimestamp(Available) ELSE {0}
  /\ inputs' = Available
  /\ total' = balance'
  /\ member' = 0
  /\ pc' = "build"
  /\ UNCHANGED <<hostIdx, clnt, wakeAt, spentSet, metrics, outs, currentSlot,
                 unchecked, retrying, sentTxs, accepted, seenFinal, nTx, faults,
                 ledgerVars>>

-----------------------------------------------------------------------------
(* Building and submitting. *)

\* buildOneTx finds the inputs insufficient: the chain or set is cut short.
BuildFails ==
  /\ pc = "build"
  /\ ~CanBuild(total, TagAlongFee)
  /\ metrics' = Counted(0, 1, SetsEnded(sentTxs))
  /\ FinishSpending(sentTxs # {})
  /\ UNCHANGED <<clnt, hostIdx, spentSet, accepted, sentTxs, nTx, faults,
                 ledgerVars>>

\* Slip: the slot of the input, not of its spender.
MarkSpentAtInput(t) ==
  [o \in DOMAIN spentSet \cup inputs |->
     IF o \in inputs THEN [tx |-> t.id, slot |-> Slot(o.ts)] ELSE spentSet[o]]

\* The slot recorded is the slot of the id, not that of the submission.
MarkSpent(t) ==
  [o \in DOMAIN spentSet \cup inputs |->
     IF o \in inputs THEN [tx |-> t.id, slot |-> Slot(t.content.ts)]
     ELSE spentSet[o]]

\* The next transaction of a chain consumes the remainder of t.
ContinueChain(t) ==
  /\ member' = member + 1
  /\ inputs' = {RemainderOutput(t.id, t.content)}
  /\ total' = RemainderAmount(t.content.total, t.content.fee)
  /\ pc' = "build"
  /\ retrying' = {}
  /\ UNCHANGED <<wakeAt, outs, unchecked, seenFinal, currentSlot, seqs, balance,
                 firstTs>>

ContinueSet ==
  /\ member' = member + 1
  /\ pc' = "build"
  /\ retrying' = {}
  /\ UNCHANGED <<wakeAt, outs, unchecked, seenFinal, currentSlot, seqs, balance,
                 inputs, total, firstTs>>

LastMember == member = RoundSize - 1

\* A chain also ends at a transaction that leaves no remainder.
LastOfRound(t) ==
  LastMember \/ (~Conflict /\ ~LeavesRemainder(t.content.total, t.content.fee))

\* A node acknowledges t: its inputs are marked spent and the sender moves on
\* to the next host.  Only conflict mode makes a new client for that host.
Acknowledge(t) ==
  /\ spentSet' = MarkSpent(t)
  /\ hostIdx' \in NextHosts
  /\ sentTxs' = sentTxs \cup {t}
  /\ accepted' = accepted \cup {t}
  /\ clnt' = IF Conflict THEN hostIdx' ELSE clnt
  /\ metrics' = Counted(1, 0, IF LastOfRound(t) THEN SetsEnded(sentTxs') ELSE 0)
  /\ IF LastOfRound(t) THEN FinishSpending(TRUE)
     ELSE IF Conflict THEN ContinueSet ELSE ContinueChain(t)

\* A transaction is built and a node acknowledges it.
Submit ==
  /\ pc = "build"
  /\ CanBuild(total, TagAlongFee)
  /\ \E t \in BuildOneTx :
       /\ delivered' = delivered \cup {t}
       /\ Acknowledge(t)
  /\ nTx' = nTx + 1
  /\ UNCHANGED <<faults, now, head, lrb>>

\* The submission fails, before or after the node took the transaction.
SubmitFails ==
  /\ pc = "build"
  /\ CanBuild(total, TagAlongFee)
  /\ faults < MaxFaults
  /\ faults' = faults + 1
  /\ \E t \in BuildOneTx :
       /\ delivered' \in {delivered, delivered \cup {t}}
       /\ retrying' = {t}
  /\ metrics' = Counted(0, 1, 0)
  /\ hostIdx' = RotateHost
  /\ clnt' = hostIdx'
  /\ pc' = "retry"
  /\ nTx' = nTx + 1
  /\ UNCHANGED <<wakeAt, spentSet, outs, currentSlot, unchecked, seqs, balance,
                 inputs, total, member, firstTs, sentTxs, accepted, seenFinal,
                 now, head, lrb>>

Retry ==
  /\ pc = "retry"
  /\ \E t \in retrying :
       /\ delivered' = delivered \cup {t}
       /\ Acknowledge(t)
  /\ UNCHANGED <<nTx, faults, now, head, lrb>>

\* The retry fails too: a chain is abandoned, a set goes on with the next
\* member.
RetryFails ==
  /\ pc = "retry"
  /\ faults < MaxFaults
  /\ faults' = faults + 1
  /\ \E t \in retrying : delivered' \in {delivered, delivered \cup {t}}
  /\ IF Conflict /\ ~LastMember
       THEN ContinueSet /\ UNCHANGED metrics
       ELSE /\ FinishSpending(sentTxs # {})
            /\ metrics' = Counted(0, 0, SetsEnded(sentTxs))
  /\ UNCHANGED <<hostIdx, clnt, spentSet, sentTxs, accepted, nTx, now, head, lrb>>

-----------------------------------------------------------------------------
(* Sleeping.  At the end of modelled time every sleep is over, so that rounds
   go on; no transaction is built that late.                                *)
Wake ==
  /\ pc = "wait"
  /\ now >= wakeAt \/ now = MaxTick
  /\ pc' = "start"
  /\ wakeAt' = 0
  /\ UNCHANGED <<clnt, nTx, faults, wallet, fetched, round, ledgerVars>>

-----------------------------------------------------------------------------
(* The clock.  Bound: it does not pass LastSpendTick while a round submits. *)
Clock ==
  /\ pc \in {"build", "retry"} => now < LastSpendTick
  /\ Tick
  /\ UNCHANGED senderVars

Network ==
  /\ Consolidate \/ Deposit \/ Withdraw \/ \E h \in Hosts : Sync(h)
  /\ UNCHANGED senderVars

Init ==
  /\ LedgerInit
  /\ pc = "start" /\ hostIdx = 0 /\ clnt = 0 /\ wakeAt = 0
  /\ spentSet = [o \in {} |-> [tx |-> 0, slot |-> 0]]
  /\ metrics = [sent |-> 0, failed |-> 0, sets |-> 0]
  /\ outs = {} /\ currentSlot = 0 /\ unchecked = {} /\ seenFinal = {}
  /\ seqs = <<>> /\ balance = 0 /\ inputs = {} /\ total = 0
  /\ member = 0 /\ firstTs = 0 /\ retrying = {} /\ sentTxs = {}
  /\ accepted = {} /\ nTx = 0 /\ faults = 0

Run ==
  \/ FetchOutputs \/ FetchFails
  \/ \E o \in unchecked : Classify(o)
  \/ NothingToSpend \/ NoSequencers \/ Underfunded \/ StartSpending
  \/ BuildFails \/ Submit \/ SubmitFails \/ Retry \/ RetryFails
  \/ Wake

Next == Run \/ Clock \/ Network

Spec == Init /\ [][Next]_vars

\* The clock runs, and a goroutine whose calls return (every call has a
\* timeout) keeps running.  Nothing is assumed of the network.
Fairness == WF_vars(Run) /\ WF_vars(Clock)

FairSpec == Spec /\ Fairness

-----------------------------------------------------------------------------
(* Types. *)

ContentType ==
  [ins : SUBSET OutputType, ts : Nat, total : Nat, fee : Nat,
   chain : Chains \cup {"none"}, to : {"self", "other"}]

TransactionType == [id : Nat, content : ContentType]

\* Type invariant of the sender: a round's locals are set only while it
\* runs, a retry keeps one transaction, and no more calls fail and no more
\* transactions are built than the bounds allow.
TypeOK ==
  /\ pc \in {"start", "classify", "build", "retry", "wait"}
  /\ hostIdx \in Hosts /\ clnt \in Hosts
  /\ now \in 0 .. MaxTick /\ wakeAt \in Nat
  /\ delivered \subseteq TransactionType
  /\ accepted \subseteq delivered
  /\ sentTxs \subseteq accepted
  /\ retrying \subseteq TransactionType /\ (pc = "retry" <=> retrying # {})
  /\ \A t, u \in retrying : t = u
  /\ DOMAIN spentSet \subseteq OutputType
  /\ \A o \in DOMAIN spentSet : spentSet[o] \in [tx : Nat, slot : Nat]
  /\ metrics \in [sent : Nat, failed : Nat, sets : Nat]
  /\ outs \subseteq OutputType /\ unchecked \subseteq outs \cap DOMAIN spentSet
  /\ seenFinal \subseteq outs
  /\ inputs \subseteq OutputType /\ currentSlot \in Nat
  /\ seqs \in SeqLists \cup {<<>>} /\ (seqs # <<>> <=> pc \in {"build", "retry"})
  /\ balance \in 0 .. Supply /\ total \in Nat /\ member \in Nat /\ firstTs \in Nat
  /\ nTx \in Nat /\ faults \in 0 .. MaxFaults

-----------------------------------------------------------------------------
(* Safety. *)

ValidTx(t) ==
  /\ \A o \in Produced(t) : o.amount >= MinStorageDeposit
  /\ LET c == t.content IN
     /\ TargetAmount(c.total, c.fee) + RemainderAmount(c.total, c.fee) + c.fee
          = c.total
     /\ \A o \in c.ins : c.ts >= o.ts + Pace

\* What a node demands of a transaction, for every transaction a sender
\* hands out: the amounts add up, no output is dust, and the transaction is
\* a pace after each of its inputs (buildOneTx, pickTimestamp).
EveryTxValid == \A t \in delivered \cup retrying : ValidTx(t)

Consolidated == {t \in delivered : t.id \in head.txids}
PaidIn == Genesis \cup {d \in Deposits : d.tx \in head.txids}

\* Outputs that came into the ledger, and went without a transaction of the
\* sender: what the withdraw command took.
TakenOut ==
  (PaidIn \cup UNION {Produced(t) : t \in Consolidated})
    \ (head.utxo \cup UNION {Consumed(t) : t \in Consolidated})

\* No token appears or vanishes: what the network holds, with what another
\* command took out and the fees of the consolidated transactions, is what was
\* paid in (along a chain, each transaction divides exactly the remainder of
\* the one before, whoever spends from the account meanwhile).
SupplyConserved ==
  /\ Amount(head.utxo) + Amount(TakenOut)
       + MapThenSumSet(LAMBDA t : t.content.fee, Consolidated)
     = Amount(PaidIn)
  /\ TakenOut # {} => Withdrawals

\* An entry of spentSet names an acknowledged transaction that consumes the
\* output, and the slot of that transaction's id (markSpent): what
\* classifyOutputs will ask about, and count from, belong to one transaction
\* a node took, through chains, sets, lost replies and retries.  The document
\* has another slot recorded; see MarkedWithCurrentSlot.
SpentSetSound ==
  \A o \in DOMAIN spentSet :
    \E t \in accepted :
      /\ o \in Consumed(t)
      /\ spentSet[o] = [tx |-> t.id, slot |-> Slot(t.content.ts)]

\* The gate on the balance is enough: the first transaction of a chain, and
\* every member of a set, can be built, whichever sequencer it tags along
\* with (doRound against buildOneTx).
GateAdmitsRound ==
  pc = "build" /\ (Conflict \/ member = 0) => CanBuild(total, TagAlongFee)

\* The acknowledged transactions of one sender never come closer than a
\* pace, so no node drops one for its holder's pace, within a set or from
\* one set to the next.
HolderTimelineSpaced ==
  \A t, u \in accepted :
    t # u => \/ t.content.ts >= u.content.ts + Pace
             \/ u.content.ts >= t.content.ts + Pace

-----------------------------------------------------------------------------
(* Action properties. *)

StartsSpending == pc = "classify" /\ pc' = "build"

\* An output is spent again only in a slot that is FinalityTimeoutSlots or more
\* after the slot of every earlier acknowledged spender: the comparison of
\* classifyOutputs, carried through the steps between an acknowledgement and a
\* later round.  Slots are counted, not time: with a timeout of one, a spender
\* at the last tick of a slot is overdue a tick later.
RespendOnlyAfterTimeout ==
  [][StartsSpending =>
       \A o \in inputs' \cap head.utxo, t \in accepted :
         o \in Consumed(t) =>
           currentSlot - Slot(t.content.ts) >= FinalityTimeoutSlots]_vars

\* The same as the document has it: submitted more than FinalityTimeoutSlots ago
\* (docs/multispam.md, the reclaimable outputs).
RespendPastTimeout ==
  [][StartsSpending =>
       \A o \in inputs' \cap head.utxo, t \in accepted :
         o \in Consumed(t) =>
           currentSlot - Slot(t.content.ts) > FinalityTimeoutSlots]_vars

\* As the document has it, an entry is recorded with the slot in which the
\* transaction was submitted (docs/multispam.md, step 6 of the main loop).
MarkedWithCurrentSlot ==
  [][\A o \in DOMAIN spentSet' :
       o \notin DOMAIN spentSet \/ spentSet'[o] # spentSet[o] =>
         spentSet'[o].slot = Slot(now)]_vars

\* An output whose spender the sender has just found finalized is not spent
\* again in the same round.
NoRespendOfFinalized == [][StartsSpending => inputs' \cap seenFinal = {}]_vars

Acknowledged(t) ==
  [id |-> t.id, outs |-> Consumed(t), slot |-> Slot(t.content.ts)]

Policy == INSTANCE SpendPolicy WITH
  slot <- Slot(now),
  live <- head.utxo,
  known <- PaidIn \cup UNION {Produced(t) : t \in accepted \cup Consolidated},
  spends <- {Acknowledged(t) : t \in accepted}

\* Rounds, chains, retries and what the sender remembers of them implement
\* the policy: seen from the network, an output that is still there goes to a
\* second acknowledged transaction only when the ledger's slot is at least
\* FinalityTimeoutSlots past that of the first (classifyOutputs, whose
\* comparison the policy has, and the marking of inputs, against the
\* interleaving of calls).
ImplementsSpendPolicy == Policy!Spec

EndsSpending == pc \in {"build", "retry"} /\ pc' \in {"start", "wait"}
SecondAttemptFailed == pc = "retry" /\ sentTxs' = sentTxs

\* The latest transaction of the round pays a fee and no other does.
PaysOneFee ==
  \E t \in sentTxs' :
    /\ t.content.fee > 0
    /\ \A u \in sentTxs' \ {t} :
         u.content.fee = 0 /\ u.content.ts < t.content.ts

\* A chain whose submissions all succeed carries one tag-along fee, on its
\* last transaction.
ChainPaysOneFee ==
  [][EndsSpending /\ ~Conflict /\ ~SecondAttemptFailed => PaysOneFee]_vars

\* The same, from the balance that MinFundingPerSender promises is enough;
\* and then the chain is complete.
FundedChainCompletes ==
  [][EndsSpending /\ ~Conflict /\ ~SecondAttemptFailed
       /\ balance >= MinFundingPerSender(seqs[1].fee)
     => PaysOneFee /\ member = BatchSize - 1]_vars

\* A failed submission is retried on another host, if there is one.
RetryGoesToAnotherHost ==
  [][pc = "build" /\ pc' = "retry" /\ NumHosts > 1 => clnt' # clnt]_vars

-----------------------------------------------------------------------------
(* Liveness. *)

Recorded(id) ==
  \E o \in DOMAIN spentSet :
    /\ spentSet[o].tx = id
    /\ spentSet[o].slot + FinalityTimeoutSlots <= Slot(MaxTick)

\* No output stays reserved for ever: whatever becomes of a transaction,
\* the entries that name it are dropped in the end (within modelled time).
EntriesSettle == \A id \in 1 .. MaxTx : Recorded(id) ~> ~Recorded(id)
=============================================================================
