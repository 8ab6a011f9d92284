\* Both modes and both strategies, lists of up to three sequencers and sets of a
\* size beyond the smaller lists.
SPECIFICATION SeqSpec
CONSTANTS
  Chains = {"a", "b", "c"}
  NodeFees = {0, 2}
  Senders = {0}
  Modes = {FALSE, TRUE}
  Strategies = {"next", "random"}
  BatchSetSize = 1
  Fanout = 2
  MaxStart = 4
INVARIANTS SeqTypeOK DistinctTargets RoundRobin
