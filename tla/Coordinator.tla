---------------------------- MODULE Coordinator ----------------------------
(* The life of a run (coordinator.go and the run and conflict commands): the
   construction of the senders, the discovery of sequencers, the sender
   goroutines, the loop that refreshes the registry and checks the limits
   once per slot, cancellation by signal or deadline, and the final
   statistics.

   A sender is reduced to its rounds: it looks at the context between two
   rounds, and while it spends its TxSent counter grows.  The registry is
   reduced to the number of sequencers it lists.                            *)
EXTENDS Integers, Functions

CONSTANTS
  NumConfigured,    \* senders in the configuration
  Requested,        \* values of --senders; 0 or less means all
  ConflictRun,      \* conflict mode
  MaxKnown,         \* bound: sequencers a refresh may list
  HasDeadline,      \* --max-duration was given
  MaxTransactions,  \* --max-transactions; 0 means no limit
  MaxSent           \* bound: transactions per sender

ASSUME CoordinatorAssumption ==
  /\ NumConfigured \in Nat \ {0}
  /\ Requested \subseteq Int
  /\ {ConflictRun, HasDeadline} \subseteq BOOLEAN
  /\ {MaxKnown, MaxTransactions, MaxSent} \subseteq Nat

VARIABLES
  cpc,        \* where the command is: "new", "discover", "check", "select",
              \* "refresh", "total", "final", "returned" or "failed"
  numSenders, \* sender goroutines of this run
  known,      \* sequencers in the registry
  cancelled,  \* the context of the senders is done
  ticked,     \* the ticker's channel holds a tick
  signals,    \* signals received
  exited,     \* the process has ended
  spc,        \* sender -> "none", "top", "round", "spend", "sleep" or "stopped"
  sent,       \* sender -> TxSent
  next,       \* the sender whose counter is read next
  total,      \* what a collection of counters has added up so far
  prevTotal,  \* prevTotalSent: the total last displayed
  actual      \* history: the sum of the counters when a collection began

runVars == <<cpc, numSenders, known, cancelled, ticked, signals, exited>>
senderVars == <<spc, sent>>
statVars == <<next, total, prevTotal, actual>>
vars == <<runVars, senderVars, statVars>>

Configured == 1 .. NumConfigured
Senders == 1 .. numSenders
SentNow == SumFunction(sent)

-----------------------------------------------------------------------------
(* NewCoordinator, and Run up to the start of the senders. *)

\* Slip: the number asked for, as it is.
AskedFor(n) == n

\* No more senders than there are, and all of them unless a number is given.
Clamped(n) == IF n <= 0 \/ n > NumConfigured THEN NumConfigured ELSE n

\* The senders are made, unless the storage deposit cannot be computed or is
\* more than the transfer amount, or a key cannot be loaded.
New ==
  /\ cpc = "new"
  /\ \/ numSenders' \in {Clamped(n) : n \in Requested} /\ cpc' = "discover"
     \/ numSenders' = numSenders /\ cpc' = "failed"
  /\ UNCHANGED <<known, cancelled, ticked, signals, exited, senderVars, statVars>>

\* The first Refresh lists what the node knows, or fails the run.
Discover ==
  /\ cpc = "discover"
  /\ \/ known' \in 0 .. MaxKnown /\ cpc' = "check"
     \/ known' = known /\ cpc' = "failed"
  /\ UNCHANGED <<numSenders, cancelled, ticked, signals, exited, senderVars, statVars>>

EnoughSequencers == known > 0 /\ (ConflictRun => known >= 2)

\* A run needs a sequencer, a conflict run needs two; then all senders start.
CheckAndStart ==
  /\ cpc = "check"
  /\ IF EnoughSequencers
       THEN /\ cpc' = "select"
            /\ spc' = [s \in Configured |-> IF s \in Senders THEN "top" ELSE "none"]
       ELSE cpc' = "failed" /\ spc' = spc
  /\ UNCHANGED <<numSenders, known, cancelled, ticked, signals, exited, sent, statVars>>

-----------------------------------------------------------------------------
(* The loop of Run.  select takes any case that is ready. *)

\* Slip: the sum of the last collection is kept.
BeginTotalKept ==
  /\ next' = 1
  /\ total' = total
  /\ actual' = SentNow

\* totalSent starts over from zero and reads one atomic counter at a time.
BeginTotal ==
  /\ next' = 1
  /\ total' = 0
  /\ actual' = SentNow

\* Slip: a sender in the middle of a round is left out.
ReadIdleCounter ==
  /\ total' = total + IF spc[next] = "spend" THEN 0 ELSE sent[next]
  /\ next' = next + 1
  /\ UNCHANGED actual

ReadCounter ==
  /\ total' = total + sent[next]
  /\ next' = next + 1
  /\ UNCHANGED actual

\* Slips: one short of the limit; one more than the limit.
LimitNear(t) == MaxTransactions > 0 /\ t + 1 >= MaxTransactions
LimitPassed(t) == MaxTransactions > 0 /\ t > MaxTransactions

LimitReached(t) == MaxTransactions > 0 /\ t >= MaxTransactions

\* Slip: the ticker goes first.
SelectDoneLast ==
  /\ cpc = "select"
  /\ cancelled
  /\ ~ticked
  /\ cpc' = "final"
  /\ BeginTotal
  /\ UNCHANGED <<numSenders, known, cancelled, ticked, signals, exited, senderVars, prevTotal>>

\* The context is done: print the final statistics.
SelectDone ==
  /\ cpc = "select"
  /\ cancelled
  /\ cpc' = "final"
  /\ BeginTotal
  /\ UNCHANGED <<numSenders, known, cancelled, ticked, signals, exited, senderVars, prevTotal>>

SelectTick ==
  /\ cpc = "select"
  /\ ticked
  /\ ticked' = FALSE
  /\ cpc' = "refresh"
  /\ UNCHANGED <<numSenders, known, cancelled, signals, exited, senderVars, statVars>>

\* The periodic refresh replaces the list with whatever the node knows now,
\* an empty list included; an error leaves it alone and is ignored.
PeriodicRefresh ==
  /\ cpc = "refresh"
  /\ known' \in 0 .. MaxKnown
  /\ cpc' = "total"
  /\ BeginTotal
  /\ UNCHANGED <<numSenders, cancelled, ticked, signals, exited, senderVars, prevTotal>>

ReadOne ==
  /\ cpc \in {"total", "final"}
  /\ next \in Senders
  /\ ReadCounter
  /\ UNCHANGED <<runVars, senderVars, prevTotal>>

\* The total is complete: stop at the limit, or display it and go on.
TotalDone ==
  /\ cpc = "total"
  /\ next \notin Senders
  /\ IF LimitReached(total)
       THEN cpc' = "final" /\ BeginTotal /\ UNCHANGED prevTotal
       ELSE cpc' = "select" /\ prevTotal' = total /\ UNCHANGED <<next, total, actual>>
  /\ UNCHANGED <<numSenders, known, cancelled, ticked, signals, exited, senderVars>>

\* The final statistics are printed; the deferred cancel stops the senders.
Return ==
  /\ cpc = "final"
  /\ next \notin Senders
  /\ cpc' = "returned"
  /\ cancelled' = TRUE
  /\ UNCHANGED <<numSenders, known, ticked, signals, exited, senderVars, statVars>>

-----------------------------------------------------------------------------
(* The senders.  They are not waited for. *)

\* Between two rounds a sender looks at the context.
Top(s) ==
  /\ spc[s] = "top"
  /\ spc' = [spc EXCEPT ![s] = IF cancelled THEN "stopped" ELSE "round"]
  /\ UNCHANGED sent

\* A round that has outputs and finds a sequencer in the registry spends.
PickSequencers(s) ==
  /\ spc[s] = "round"
  /\ known > 0
  /\ spc' = [spc EXCEPT ![s] = "spend"]
  /\ UNCHANGED sent

\* A node acknowledges a transaction of the round.
Acknowledged(s) ==
  /\ spc[s] = "spend"
  /\ sent[s] < MaxSent
  /\ sent' = [sent EXCEPT ![s] = @ + 1]
  /\ UNCHANGED spc

\* A round ends, whatever came of it, with or without a sleep.
EndRound(s) ==
  /\ spc[s] \in {"round", "spend"}
  /\ \E p \in {"top", "sleep"} : spc' = [spc EXCEPT ![s] = p]
  /\ UNCHANGED sent

\* Cancellation ends a sleep, and the sender with it; so does time, which
\* leads to another round.
WakeUp(s) ==
  /\ spc[s] = "sleep"
  /\ \/ cancelled /\ spc' = [spc EXCEPT ![s] = "stopped"]
     \/ spc' = [spc EXCEPT ![s] = "top"]
  /\ UNCHANGED sent

SenderStep(s) ==
  /\ Top(s) \/ PickSequencers(s) \/ Acknowledged(s) \/ EndRound(s) \/ WakeUp(s)
  /\ UNCHANGED <<runVars, statVars>>

-----------------------------------------------------------------------------
(* The world: the ticker, the deadline, the signals, the end of main. *)

Ticker ==
  /\ cpc \in {"select", "refresh", "total", "final"}
  /\ ~ticked
  /\ ticked' = TRUE
  /\ UNCHANGED <<cpc, numSenders, known, cancelled, signals, exited, senderVars, statVars>>

Deadline ==
  /\ HasDeadline
  /\ cpc \in {"select", "refresh", "total", "final"}
  /\ ~cancelled
  /\ cancelled' = TRUE
  /\ UNCHANGED <<cpc, numSenders, known, ticked, signals, exited, senderVars, statVars>>

\* The first signal cancels the context, the second ends the process.  Nobody
\* handles a signal while the senders are made: it ends the process.
Signal ==
  /\ signals < 2
  /\ signals' = signals + 1
  /\ IF signals = 0 /\ cpc # "new" THEN cancelled' = TRUE /\ UNCHANGED exited
     ELSE exited' = TRUE /\ UNCHANGED cancelled
  /\ UNCHANGED <<cpc, numSenders, known, ticked, senderVars, statVars>>

Exit ==
  /\ cpc \in {"returned", "failed"}
  /\ exited' = TRUE
  /\ UNCHANGED <<cpc, numSenders, known, cancelled, ticked, signals, senderVars, statVars>>

-----------------------------------------------------------------------------
Init ==
  /\ cpc = "new" /\ numSenders = 0 /\ known = 0 /\ cancelled = FALSE /\ ticked = FALSE
  /\ signals = 0 /\ exited = FALSE
  /\ spc = [s \in Configured |-> "none"]
  /\ sent = [s \in Configured |-> 0]
  /\ next = 1 /\ total = 0 /\ prevTotal = 0 /\ actual = 0

Loop ==
  \/ New \/ Discover \/ CheckAndStart \/ SelectDone \/ SelectTick
  \/ PeriodicRefresh \/ ReadOne \/ TotalDone \/ Return

Next ==
  /\ ~exited
  /\ \/ Loop
     \/ \E s \in Senders : SenderStep(s)
     \/ Ticker \/ Deadline \/ Signal \/ Exit

Spec == Init /\ [][Next]_vars

Alive(A) == ~exited /\ A

\* The goroutine of Run keeps running, as its one blocking call has a
\* timeout; the ticker ticks.  select chooses among the ready cases at
\* random, so a case that is ready again and again is taken.
FairSpec ==
  /\ Spec
  /\ WF_vars(Alive(Loop)) /\ WF_vars(Alive(Ticker))
  /\ SF_vars(Alive(SelectDone))

-----------------------------------------------------------------------------
\* Type invariant of the coordinator.
TypeOK ==
  /\ cpc \in {"new", "discover", "check", "select", "refresh", "total", "final",
              "returned", "failed"}
  /\ numSenders \in 0 .. NumConfigured /\ known \in 0 .. MaxKnown
  /\ {cancelled, ticked, exited} \subseteq BOOLEAN
  /\ signals \in 0 .. 2
  /\ spc \in [Configured -> {"none", "top", "round", "spend", "sleep", "stopped"}]
  /\ sent \in [Configured -> Nat]
  /\ next \in 1 .. (numSenders + 1)
  /\ {total, prevTotal, actual} \subseteq Nat

Collected == cpc \in {"total", "final"} /\ next \notin Senders

\* A total collected while the senders go on counting was true at some time
\* between the beginning of the collection and its end, at least as a bound
\* (totalSent).
TotalWithinRange == Collected => actual <= total /\ total <= SentNow

\* Run ends its loop for a cause: the context is done, or the senders really
\* sent as many transactions as the limit says.
StopsForCause ==
  cpc \in {"final", "returned"} =>
    cancelled \/ (MaxTransactions > 0 /\ SentNow >= MaxTransactions)

\* The number of transactions of the last slot, as displayed, is never
\* negative.
SlotCountNotNegative == Collected => total >= prevTotal

\* Once the context is done, Run returns, or the process is gone.
RunReturns == cancelled ~> (cpc \in {"returned", "failed"} \/ exited)

\* Once the limit is passed, Run returns.
LimitEndsRun ==
  (MaxTransactions > 0 /\ SentNow >= MaxTransactions)
    ~> (cpc = "returned" \/ exited)
=============================================================================
