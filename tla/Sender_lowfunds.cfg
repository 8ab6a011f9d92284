\* A balance that covers one transfer but not a chain.
SPECIFICATION Spec
CONSTANTS
  TransferAmount = 2
  MinStorageDeposit = 2
  BatchSize = 3
  NumHosts = 1
  Genesis <- LowCoin
  Deposits <- NoDeposits
  Withdrawals = FALSE
  MaxTick = 7
  Conflict = FALSE
  HostStrategy = "next"
  MindRateControl = TRUE
  Chains = {"s1", "s2"}
  SeqLists <- OneSequencer
  Targets <- ToSelf
  Pace = 1
  TicksPerSlot = 2
  JitterTicks = 0
  MaxFutureJitterTicks = 10
  FinalityTimeoutSlots = 1
  SlotModulus = 65536
  FetchLimit = 256
  Supply = 20
  MaxTx = 4
  MaxFaults = 1
  LastSpendTick = 4
PROPERTIES ChainPaysOneFee
