\* Sets of two conflicting transactions against two hosts, with jitter and
\* transfers to another account.
SPECIFICATION Spec
CONSTANTS
  TransferAmount = 2
  MinStorageDeposit = 2
  BatchSize = 2
  NumHosts = 2
  Genesis <- OneCoin
  Deposits <- OneDeposit
  Withdrawals = FALSE
  MaxTick = 6
  Conflict = TRUE
  HostStrategy = "random"
  MindRateControl = FALSE
  Chains = {"s1", "s2"}
  SeqLists <- Pairs
  Targets <- ToOther
  Pace = 1
  TicksPerSlot = 2
  JitterTicks = 1
  MaxFutureJitterTicks = 10
  FinalityTimeoutSlots = 1
  SlotModulus = 65536
  FetchLimit = 256
  Supply = 20
  MaxTx = 4
  MaxFaults = 2
  LastSpendTick = 4
INVARIANTS HolderTimelineSpaced GateAdmitsRound SupplyConserved
PROPERTIES RetryGoesToAnotherHost
