-------------------------------- MODULE Fund --------------------------------
(* The fund command (cmd_fund.go): the wallet pays the same amount to each of
   the chosen senders, as many to a transaction as its outputs allow, and
   waits for each transaction to be included before it builds the next.  Any
   failure ends the command, with the earlier transactions paid.

   A step ends where the command waits for the node.                        *)
EXTENDS Accounts, KeyFiles, FiniteSets

CONSTANTS
  Amounts,          \* values of --amount
  NameSets,         \* values of --senders; the empty set stands for all
  MaxTargetsPerTx   \* most targets of one transaction

ASSUME FundAssumption ==
  /\ Amounts \subseteq Nat \ {0}
  /\ MaxTargetsPerTx \in Nat \ {0}

VARIABLES
  fpc,         \* "idle", "query", "submit" or "track"
  amount,      \* --amount
  targets,     \* the accounts to pay, in the order of the configuration
  batchStart,  \* how many of them earlier batches have paid
  coins,       \* what the batch will consume
  payments,    \* history: the transactions of this run a node took
  outcome      \* how the command ended: "none" while it runs

fundVars == <<fpc, amount, targets, batchStart, coins, payments, outcome>>

\* The first sender of each name, in the order of the configuration.
FilterSenders(all, names) ==
  LET first == {i \in DOMAIN all : /\ all[i].name \in names
                                   /\ \A j \in 1 .. (i - 1) : all[j].name # all[i].name}
  IN [k \in 1 .. Cardinality(first) |->
        all[CHOOSE i \in first : Cardinality({j \in first : j <= i}) = k]]

\* The senders a command is asked to serve.
Chosen(names) ==
  IF names = {} THEN config.senders ELSE FilterSenders(config.senders, names)

\* filterSenders ends the command at a name the configuration does not have.
NamesKnown(names) == \A n \in names : \E i \in DOMAIN config.senders : config.senders[i].name = n

StartFund(names, a) ==
  /\ fpc = "idle"
  /\ Loadable
  /\ NamesKnown(names)
  /\ \A i \in DOMAIN Chosen(names) : HasAddress(Chosen(names)[i].file)
  /\ targets' = [i \in DOMAIN Chosen(names) |-> files[Chosen(names)[i].file].key]
  /\ amount' = a
  /\ batchStart' = 0 /\ coins' = {} /\ payments' = {} /\ outcome' = "none"
  /\ fpc' = "query"
  /\ UNCHANGED accountVars

\* The end of the current batch.
BatchEnd ==
  IF batchStart + MaxTargetsPerTx > Len(targets) THEN Len(targets)
  ELSE batchStart + MaxTargetsPerTx

\* totalNeeded, and spent: unsigned, so the product may wrap.
Spent == (amount * (BatchEnd - batchStart) + Fee) % Modulus

\* The node's choice: from the largest outputs on, until they are enough.
Selections(need) ==
  {S \in SUBSET OwnedBy(Wallet) :
     /\ Worth(S) >= need
     /\ \A c \in S : Worth(S \ {c}) < need
     /\ \A c \in S, d \in OwnedBy(Wallet) \ S : c.amount >= d.amount}

End(how) ==
  /\ fpc' = "idle"
  /\ outcome' = how
  /\ UNCHANGED <<amount, targets, batchStart, payments>>

QueryWallet ==
  /\ fpc = "query"
  /\ coins' \in Selections(Spent)
  /\ fpc' = "submit"
  /\ UNCHANGED <<amount, targets, batchStart, payments, outcome, accountVars>>

NotEnough ==
  /\ fpc = "query"
  /\ Worth(OwnedBy(Wallet)) < Spent
  /\ End("short")
  /\ UNCHANGED <<coins, accountVars>>

QueryFails ==
  /\ fpc = "query"
  /\ Fault
  /\ End("failed")
  /\ UNCHANGED <<coins, utxo, pool, settled, nTx>>

\* Slip: a remainder is produced even when nothing remains.
RemainderAlways(id) == {Coin(id, BatchEnd + 1, Wallet, Worth(coins) - Spent)}

\* What the targets leave of the inputs goes back to the wallet.
Remainder(id) ==
  IF Worth(coins) > Spent
    THEN {Coin(id, BatchEnd + 1, Wallet, Worth(coins) - Spent)} ELSE {}

FundTx ==
  LET id == nTx + 1 IN
  [id |-> id, ins |-> coins,
   outs |-> {Coin(id, k, targets[k], amount) : k \in (batchStart + 1) .. BatchEnd}
              \cup Remainder(id)]

SubmitFund ==
  /\ fpc = "submit"
  /\ Valid(FundTx)
  /\ nTx < MaxTx
  /\ Deliver(FundTx)
  /\ payments' = payments \cup {FundTx}
  /\ fpc' = "track"
  /\ UNCHANGED <<amount, targets, batchStart, coins, outcome, faults>>

\* The node refuses the transaction.
FundRejected ==
  /\ fpc = "submit"
  /\ ~Valid(FundTx)
  /\ End("rejected")
  /\ UNCHANGED <<coins, accountVars>>

\* The call fails, before or after the node took the transaction.
SubmitFundFails ==
  /\ fpc = "submit"
  /\ Fault
  /\ nTx < MaxTx
  /\ fpc' = "idle" /\ outcome' = "failed"
  /\ \/ UNCHANGED <<utxo, pool, settled, nTx, payments>>
     \/ Valid(FundTx) /\ Deliver(FundTx) /\ payments' = payments \cup {FundTx}
  /\ UNCHANGED <<amount, targets, batchStart, coins>>

\* Slip: the command does not wait.
TrackedAtOnce == TRUE
Included == nTx \in settled

\* Slip: the last target of a batch is the first of the next.
Overlapping == batchStart + MaxTargetsPerTx - 1
NextStart == batchStart + MaxTargetsPerTx

\* The batch is included: on to the next one, or done.
TrackIncluded ==
  /\ fpc = "track"
  /\ Included
  /\ batchStart' = NextStart
  /\ IF NextStart < Len(targets) THEN fpc' = "query" /\ UNCHANGED outcome
     ELSE fpc' = "idle" /\ outcome' = "complete"
  /\ UNCHANGED <<amount, targets, coins, payments, accountVars>>

\* Tracking gives up on the transaction, which may yet be included.
NotIncluded ==
  /\ fpc = "track"
  /\ nTx \notin settled
  /\ End("untracked")
  /\ UNCHANGED <<coins, accountVars>>

FundInit ==
  /\ fpc = "idle" /\ amount = 0 /\ targets = <<>> /\ batchStart = 0
  /\ coins = {} /\ payments = {} /\ outcome = "none"

FundStep ==
  \/ QueryWallet \/ NotEnough \/ QueryFails
  \/ SubmitFund \/ FundRejected \/ SubmitFundFails
  \/ TrackIncluded \/ NotIncluded

-----------------------------------------------------------------------------
Paid(k) == {c \in UNION {tx.outs : tx \in payments} : c.owner = targets[k]}

\* However a run of fund ends, the transactions it left with the network pay
\* the amount once to each of the first targets and nothing to the others
\* (the loop over batches, and the wait between them).
FundPaysPrefixOnce ==
  \E n \in 0 .. Len(targets) :
    /\ \A k \in 1 .. n : Cardinality(Paid(k)) = 1 /\ \A c \in Paid(k) : c.amount = amount
    /\ \A k \in (n + 1) .. Len(targets) : Paid(k) = {}
    /\ outcome = "complete" => n = Len(targets)

\* Two transactions of a run never compete for an output of the wallet: the
\* outputs are queried again only when the transaction before is included.
BatchesDisjoint ==
  \A t, u \in payments : t # u => t.ins \cap u.ins = {}

\* As far as amounts go, a node refuses a funding transaction only for what
\* the user could see coming: an amount that is dust, a remainder that would
\* be dust, or an amount whose sum does not fit an unsigned integer.
\* Otherwise tokens in are tokens out.
RejectedForCause ==
  fpc = "submit" /\ ~Valid(FundTx) =>
    \/ amount < MinStorageDeposit
    \/ amount * (BatchEnd - batchStart) + Fee >= Modulus
    \/ Worth(coins) - Spent \in 1 .. (MinStorageDeposit - 1)
=============================================================================
