\* Chained batches of three against one host, with rate control and no jitter: the
\* account holds just what a full chain needs, another command takes some or all
\* of it at any time, calls fail, and time goes on.
SPECIFICATION FairSpec
CONSTANTS
  TransferAmount = 2
  MinStorageDeposit = 2
  BatchSize = 3
  NumHosts = 1
  Genesis <- SplitCoin
  Deposits <- NoDeposits
  Withdrawals = TRUE
  MaxTick = 4
  Conflict = FALSE
  HostStrategy = "next"
  MindRateControl = TRUE
  Chains = {"s1", "s2"}
  SeqLists <- OneSequencer
  Targets <- ToSelf
  Pace = 1
  TicksPerSlot = 2
  JitterTicks = 0
  MaxFutureJitterTicks = 10
  FinalityTimeoutSlots = 1
  SlotModulus = 65536
  FetchLimit = 256
  Supply = 20
  MaxTx = 6
  MaxFaults = 1
  LastSpendTick = 2
INVARIANTS TypeOK EveryTxValid SpentSetSound SupplyConserved
PROPERTIES FundedChainCompletes RespendOnlyAfterTimeout ImplementsSpendPolicy EntriesSettle
