\* A session over two key directories with one stop, one edit and one failed call.
SPECIFICATION Spec
CONSTANTS
  Dirs = {"keys", "more"}
  MaxSenders = 3
  MaxStops = 1
  MaxEdits = 1
  WalletCoins <- TwoWalletCoins
  Fee = 5
  MinStorageDeposit = 2
  Modulus = 32
  MaxTx = 4
  MaxFaults = 1
  Amounts = {4, 15}
  NameSets <- AllOrOne
  MaxTargetsPerTx = 2
  MaxInputsPerTx = 1
  MaxCommands = 4
INVARIANTS CommandsTypeOK ConfigNamesKeys AccountsDistinct FundPaysPrefixOnce BatchesDisjoint RejectedForCause SweepsValid SummaryTrue SweepsDisjoint FundsReachable
PROPERTIES KeysNeverLost
CHECK_DEADLOCK FALSE
