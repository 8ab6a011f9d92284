\* Two senders, a limit, a deadline and signals.  The process ends, so the system
\* stops.
SPECIFICATION FairSpec
CONSTANTS
  NumConfigured = 2
  Requested = {0, 1, 3}
  ConflictRun = TRUE
  MaxKnown = 2
  HasDeadline = TRUE
  MaxTransactions = 2
  MaxSent = 2
INVARIANTS TypeOK TotalWithinRange StopsForCause SlotCountNotNegative
PROPERTIES RunReturns LimitEndsRun
CHECK_DEADLOCK FALSE
