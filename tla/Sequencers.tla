----------------------------- MODULE Sequencers -----------------------------
(* The sequencer registry all senders share and the picker each of them owns
   (sequencer.go).  A refresh asks the node, then replaces the list under the
   lock; a pick works on a snapshot of the list and is one step, as no other
   goroutine touches its picker.                                            *)
EXTENDS Integers, FiniteSets, Sequences, SequencesExt

CONSTANTS
  Chains,             \* chain ids of sequencers
  NodeFees,           \* minimum fees a sequencer may announce
  Senders,            \* indices of senders, one picker each
  Modes,              \* whether the run may be in conflict mode, FALSE or TRUE
  Strategies,         \* sequencer_strategy of the run: "next" or "random"
  BatchSetSize,       \* batch_size, the size of a set unless overridden
  Fanout,             \* --fanout; 0 means no override
  MaxStart            \* bound: a picker starts at a position up to this

ASSUME SequencersAssumption ==
  /\ IsFiniteSet(Chains)
  /\ NodeFees \subseteq Nat
  /\ Modes \subseteq BOOLEAN
  /\ Strategies \subseteq {"next", "random"}
  /\ BatchSetSize \in Nat \ {0}
  /\ Fanout \in Nat
  /\ MaxStart \in Nat

VARIABLES
  conflict,  \* the run is in conflict mode: a round picks a set
  strategy,  \* the strategy of all pickers
  registry,  \* the shared list of sequencers
  nextIdx,   \* each picker's position
  picked,    \* each sender's last pick
  firsts     \* history: the first sequencers of a sender's last picks, as
             \* many as the list has, since the list was last replaced

config == <<conflict, strategy>>
seqVars == <<config, registry, nextIdx, picked, firsts>>

NoData == -1

\* A listed fee is never zero: a tag-along of nothing would be left out.
Info == [chain : Chains, fee : Nat \ {0}]

-----------------------------------------------------------------------------
(* The registry. *)

\* An announced fee of zero counts as one.
ListedFee(fee) == IF fee = 0 THEN 1 ELSE fee

\* What a node may know: its active sequencers, each with its fee or none.
NodeStates == UNION {[C -> NodeFees \cup {NoData}] : C \in SUBSET Chains}

\* Slip: sequencers without data are kept.
ListedAll(n) == {[chain |-> c, fee |-> ListedFee(n[c])] : c \in DOMAIN n}

\* Sequencers whose data is missing are skipped.
Listed(n) ==
  {[chain |-> c, fee |-> ListedFee(n[c])] : c \in {d \in DOMAIN n : n[d] # NoData}}

\* The answer is a map: its order is arbitrary at every refresh.
Listings(S) == SetToSeqs(S)

\* The node answers and the list is replaced.  Only one goroutine refreshes,
\* so nothing shared happens between the answer and the lock.  When the node
\* does not answer, the list stays as it is.
Refresh ==
  /\ registry' \in UNION {Listings(Listed(n)) : n \in NodeStates}
  /\ firsts' = [s \in Senders |-> <<>>]
  /\ UNCHANGED <<config, nextIdx, picked>>

-----------------------------------------------------------------------------
(* The pickers. *)

SetSize == IF Fanout > 0 THEN Fanout ELSE BatchSetSize

MinOf(a, b) == IF a <= b THEN a ELSE b

\* Slip: the size asked for, cycling through a shorter list.
AskedSize(n) == n

\* A set never holds more members than there are sequencers.
CappedSize(n) == MinOf(n, Len(registry))

\* Go's index i of the list, wrapped around.
At(i) == registry[(i % Len(registry)) + 1]

\* Slip: the picker stays.
Stay(i) == i % Len(registry)

\* The position after Go's index i; it may be one past the end.
Advance(i) == (i % Len(registry)) + 1

Remember(s, info) ==
  LET h == Append(firsts[s], info.chain) IN
  IF Len(h) > Len(registry) THEN Tail(h) ELSE h

\* Next: one sequencer, round-robin from the picker's position, or random.
PickNext(s) ==
  /\ ~conflict
  /\ registry # <<>>
  /\ \E i \in IF strategy = "random"
                THEN 0 .. (Len(registry) - 1) ELSE {nextIdx[s]} :
       /\ picked' = [picked EXCEPT ![s] = <<At(i)>>]
       /\ nextIdx' = IF strategy = "random" THEN nextIdx
                     ELSE [nextIdx EXCEPT ![s] = Advance(i)]
       /\ firsts' = [firsts EXCEPT ![s] = Remember(s, At(i))]
  /\ UNCHANGED <<config, registry>>

\* Distinct: a set of sequencers, walking on from the picker's position.
PickDistinct(s) ==
  /\ conflict
  /\ registry # <<>>
  /\ \E start \in IF strategy = "random"
                    THEN 0 .. (Len(registry) - 1) ELSE {nextIdx[s]} :
       /\ picked' = [picked EXCEPT ![s] =
                       [k \in 1 .. CappedSize(SetSize) |-> At(start + k - 1)]]
       /\ nextIdx' = [nextIdx EXCEPT ![s] = Advance(start)]
       /\ firsts' = [firsts EXCEPT ![s] = Remember(s, At(start))]
  /\ UNCHANGED <<config, registry>>

\* An empty list: there is no sequencer to pick.
PickNone(s) ==
  /\ registry = <<>>
  /\ picked' = [picked EXCEPT ![s] = <<>>]
  /\ UNCHANGED <<config, registry, nextIdx, firsts>>

Pick(s) == PickNext(s) \/ PickDistinct(s) \/ PickNone(s)

-----------------------------------------------------------------------------
SeqInit ==
  /\ conflict \in Modes /\ strategy \in Strategies
  /\ registry = <<>>
  /\ nextIdx \in [Senders -> 0 .. MaxStart]
  /\ picked = [s \in Senders |-> <<>>]
  /\ firsts = [s \in Senders |-> <<>>]

SeqNext == Refresh \/ \E s \in Senders : Pick(s)

SeqSpec == SeqInit /\ [][SeqNext]_seqVars

-----------------------------------------------------------------------------
\* Type invariant of the registry and the pickers: what a picker hands out is
\* what Sender takes (SeqInfo), a known chain with a fee.
SeqTypeOK ==
  /\ conflict \in Modes /\ strategy \in Strategies
  /\ registry \in Seq(Info)
  /\ nextIdx \in [Senders -> Nat]
  /\ picked \in [Senders -> Seq(Info)]
  /\ firsts \in [Senders -> Seq(Chains)]

\* The members of a set aim at different sequencers, whatever list the set
\* was picked from and wherever the picker stood (Distinct): two members in
\* one backlog would not conflict across sequencers.
DistinctTargets ==
  \A s \in Senders : \A i, j \in DOMAIN picked[s] :
    i # j => picked[s][i].chain # picked[s][j].chain

\* A picker that goes round-robin serves every sequencer once before it
\* serves one twice, while the list stays the same (Next; and Distinct, for
\* the sequencer a set starts with).
RoundRobin ==
  strategy = "next" =>
    \A s \in Senders : \A i, j \in DOMAIN firsts[s] :
      i # j => firsts[s][i] # firsts[s][j]
=============================================================================
