----------------------------- MODULE TxAmounts -----------------------------
(* The token arithmetic of a transfer: how buildOneTx divides the inputs of
   a transaction, and the two balances of config.go that promise a sender it
   can transact.  Amounts are naturals, without the wrap of a
   uint64.  Balances and fees are bounded by the tokens of the ledger, which
   fit; transfer_amount and batch_size come from the configuration, and the
   model assumes that they are not so large that a sum or product of theirs
   leaves 64 bits.                                                         *)
EXTENDS Integers

CONSTANTS
  TransferAmount,      \* transfer_amount of the configuration
  MinStorageDeposit,   \* least amount a sigLock output may hold
  BatchSize            \* batch_size of the configuration

\* NewCoordinator refuses a transfer amount below the storage deposit;
\* applyDefaults replaces a batch size that is not positive.
ASSUME AmountsAssumption ==
  /\ MinStorageDeposit \in Nat \ {0}
  /\ TransferAmount \in Nat
  /\ TransferAmount >= MinStorageDeposit
  /\ BatchSize \in Nat \ {0}

MinBalanceForOneTx(fee) == TransferAmount + fee + MinStorageDeposit

MinFundingPerSender(fee) ==
  BatchSize * TransferAmount + fee + MinStorageDeposit

\* Inputs worth total pay for the fee and one output that is not dust.
CanBuild(total, fee) == total >= fee + MinStorageDeposit

\* The configured transfer leaves a remainder that is not dust.
LeavesRemainder(total, fee) ==
  total >= TransferAmount + fee + MinStorageDeposit

TargetAmount(total, fee) ==
  IF LeavesRemainder(total, fee) THEN TransferAmount ELSE total - fee

\* Slip: the remainder keeps the tag-along fee.
RemainderWithFee(total, fee) ==
  IF LeavesRemainder(total, fee) THEN total - TransferAmount ELSE 0

RemainderAmount(total, fee) ==
  IF LeavesRemainder(total, fee) THEN total - TransferAmount - fee ELSE 0
=============================================================================
