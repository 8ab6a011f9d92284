------------------------------ MODULE Accounts ------------------------------
(* The ledger as the fund and withdraw commands see it: who owns which
   outputs in the latest reliable branch of the one host they ask, and the
   transactions on their way there.  All of it is outside the repository.

   An account is the number of a key, and the wallet is account 0.  A
   transaction is submitted together with the outputs it consumes, so a node
   validates it at once, but cannot tell whether those outputs still exist. *)
EXTENDS Integers, Sequences, FiniteSetsExt

CONSTANTS
  WalletCoins,        \* amounts the wallet owns at the start, by index
  Fee,                \* tag-along fee of the wallet's configuration
  MinStorageDeposit,  \* least amount a sigLock output may hold
  Modulus,            \* amounts are unsigned integers modulo this
  MaxTx,              \* bound: transactions built
  MaxFaults           \* bound: failed calls of the API

VARIABLES
  utxo,     \* outputs of the latest reliable branch
  pool,     \* transactions a node took that are not in it
  settled,  \* ids of those that are
  nTx,      \* transactions built so far
  faults    \* calls that have failed so far

accountVars == <<utxo, pool, settled, nTx, faults>>

Wallet == 0

Coin(tx, idx, owner, amount) ==
  [tx |-> tx, idx |-> idx, owner |-> owner, amount |-> amount]

Worth(coins) == MapThenSumSet(LAMBDA c : c.amount, coins)
WalletAtStart == {Coin(0, i, Wallet, WalletCoins[i]) : i \in DOMAIN WalletCoins}

\* The commands replace a fee of zero by one.  No output of the ledger is
\* empty, and all its tokens together fit an unsigned amount.
ASSUME AccountsAssumption ==
  /\ {Fee, MinStorageDeposit, Modulus} \subseteq Nat \ {0}
  /\ {MaxTx, MaxFaults} \subseteq Nat
  /\ WalletCoins \in Seq(Nat \ {0})
  /\ Worth(WalletAtStart) < Modulus

OwnedBy(a) == {c \in utxo : c.owner = a}

\* A node's validation: tokens in equal tokens out, and no output is dust.
Valid(tx) ==
  /\ tx.ins # {}
  /\ \A c \in tx.outs : c.amount >= MinStorageDeposit
  /\ Worth(tx.ins) = Worth(tx.outs) + Fee

AccountsInit ==
  /\ utxo = WalletAtStart
  /\ pool = {} /\ settled = {} /\ nTx = 0 /\ faults = 0

Deliver(tx) ==
  /\ pool' = pool \cup {tx}
  /\ nTx' = tx.id
  /\ UNCHANGED <<utxo, settled>>

\* A call of the API fails.
Fault ==
  /\ faults < MaxFaults
  /\ faults' = faults + 1

\* A transaction whose inputs are still there is consolidated.
Settle ==
  \E tx \in pool :
    /\ tx.ins \subseteq utxo
    /\ utxo' = (utxo \ tx.ins) \cup tx.outs
    /\ pool' = pool \ {tx}
    /\ settled' = settled \cup {tx.id}
    /\ UNCHANGED <<nTx, faults>>
=============================================================================
