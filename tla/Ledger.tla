------------------------------- MODULE Ledger -------------------------------
(* The world around a sender: ledger time, the transactions that reached
   some node, the network's consolidated state, and the latest reliable
   branch (LRB) each API host reports.  Everything here except the shape of
   a transaction is outside the repository and is modelled from the way the
   sender uses it.

   A transaction is known by its content, as its id is a hash: building the
   same content twice gives the same transaction.                          *)
EXTENDS TxAmounts, FiniteSets

CONSTANTS
  NumHosts,     \* number of API hosts; a host is an index into the list
  Genesis,      \* outputs the sender owns at the start
  Deposits,     \* outputs that may reach the sender's account later
  Withdrawals,  \* whether another command spends from the same account
  MaxTick       \* bound: the last tick of modelled time

OutputType ==
  [tx : Int, idx : Nat, ts : Nat, amount : Nat, owner : {"self", "other"}]

\* An id is a hash, so no two transactions share one: those of the sender are
\* numbered from 1, and the others have no such number.  A deposit is all its
\* transaction pays to the account.
ASSUME LedgerAssumption ==
  /\ Genesis \cup Deposits \subseteq OutputType
  /\ IsFiniteSet(Genesis) /\ IsFiniteSet(Deposits)
  /\ \A o \in Genesis : o.ts = 0
  /\ \A o \in Genesis \cup Deposits : o.tx <= 0
  /\ \A d \in Deposits : d \notin Genesis
  /\ \A d, e \in Deposits : d.tx = e.tx => d = e
  /\ NumHosts \in Nat \ {0}
  /\ Withdrawals \in BOOLEAN
  /\ MaxTick \in Nat

VARIABLES
  now,        \* the ledger time that corresponds to the wall clock
  delivered,  \* transactions that reached a node
  head,       \* the consolidated state of the network
  lrb         \* for each host, the state its LRB shows

ledgerVars == <<now, delivered, head, lrb>>

Hosts == 0 .. (NumHosts - 1)

Output(id, idx, ts, amount, owner) ==
  [tx |-> id, idx |-> idx, ts |-> ts, amount |-> amount, owner |-> owner]

\* What a transfer with this id and content produces, besides its tag-along:
\* the target output, then the remainder back to the sender, if any.
TargetOutput(id, c) ==
  Output(id, 0, c.ts, TargetAmount(c.total, c.fee), c.to)

RemainderOutput(id, c) ==
  Output(id, 1, c.ts, RemainderAmount(c.total, c.fee), "self")

Produced(t) ==
  {TargetOutput(t.id, t.content)} \cup
    (IF LeavesRemainder(t.content.total, t.content.fee)
       THEN {RemainderOutput(t.id, t.content)} ELSE {})

Consumed(t) == t.content.ins

State(utxo, txids) == [utxo |-> utxo, txids |-> txids]

\* GetTransferableOutputs and CheckTransactionIDInLRB, as host h answers.
OwnedAt(h) == {o \in lrb[h].utxo : o.owner = "self"}
KnownAt(h, id) == id \in lrb[h].txids

-----------------------------------------------------------------------------
LedgerInit ==
  /\ now = 0
  /\ delivered = {}
  /\ head = State(Genesis, {})
  /\ lrb = [h \in Hosts |-> head]

Tick ==
  /\ now < MaxTick
  /\ now' = now + 1
  /\ UNCHANGED <<delivered, head, lrb>>

\* A set of transactions can be consolidated together: their time has come,
\* their inputs exist, they do not conflict, and each carries a tag-along
\* output or is consumed by one of them.
Includable(C) ==
  /\ C # {}
  /\ \A t \in C : t.id \notin head.txids /\ t.content.ts <= now
  /\ UNION {Consumed(t) : t \in C}
       \subseteq head.utxo \cup UNION {Produced(t) : t \in C}
  /\ \A t, u \in C : t # u => Consumed(t) \cap Consumed(u) = {}
  /\ \A t \in C :
       t.content.fee > 0 \/ \E u \in C : Produced(t) \cap Consumed(u) # {}

Consolidate ==
  /\ \E C \in SUBSET delivered :
       /\ Includable(C)
       /\ head' = State((head.utxo \cup UNION {Produced(t) : t \in C})
                          \ UNION {Consumed(t) : t \in C},
                        head.txids \cup {t.id : t \in C})
  /\ UNCHANGED <<now, delivered, lrb>>

\* A host's latest reliable branch catches up with the network.
Sync(h) ==
  /\ lrb[h] # head
  /\ lrb' = [lrb EXCEPT ![h] = head]
  /\ UNCHANGED <<now, delivered, head>>

\* The fund command, or another sender, pays into the account.
Deposit ==
  /\ \E d \in Deposits :
       /\ d.tx \notin head.txids /\ d.ts <= now
       /\ head' = State(head.utxo \cup {d}, head.txids \cup {d.tx})
  /\ UNCHANGED <<now, delivered, lrb>>

\* The withdraw command, run beside the spammer, spends an output.
Withdraw ==
  /\ Withdrawals
  /\ \E o \in head.utxo :
       /\ o.owner = "self"
       /\ head' = [head EXCEPT !.utxo = @ \ {o}]
  /\ UNCHANGED <<now, delivered, lrb>>
=============================================================================
