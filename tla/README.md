# TLA+ models of proxima-multispam

`multispam` is a load generator for the Proxima ledger: a coordinator starts one
goroutine per sender account, and each sender builds, submits and tracks transactions
against a list of API hosts. Around it, `init` makes the accounts' keys, `fund` pays them
from a wallet and `withdraw` sweeps them back. This directory holds TLA+ modules of the
program's logic, TLC configurations that check them, and TLAPS proofs about all of them.

Contents: 1 inventory of the code, 2 plan, 3 modules and how they correspond to the code,
4 runs, bounds and fairness, 5 divergences found, 6 proofs, 7 what is not covered.

## 1. Inventory

| Component | State | Operations | Interacts with |
|---|---|---|---|
| Sender (`internal/multispam/sender.go`) | `hostIdx`, `spentSet`, metrics; per round: outputs, slot, sequencers, inputs, remainder | `Run`, `doRound`, `classifyOutputs`, `buildAndSubmitBatch`, `buildAndSubmitConflictSet`, `buildOneTx`, `pickTimestamp`, host rotation | API hosts (calls with a timeout), its picker, the coordinator (atomic counters, context) |
| Token arithmetic (`config.go`, `buildOneTx`) | none | `MinBalanceForOneTx`, `MinFundingPerSender`, transfer and remainder | Sender, info |
| Sequencer registry and pickers (`sequencer.go`) | shared list under a lock; a position per picker | `Refresh`, `Next`, `Distinct`, `Count`, `MaxFee` | coordinator refreshes, senders pick |
| Coordinator (`coordinator.go`, `cmd_run.go`, `cmd_conflict.go`) | senders, context, ticker, totals | `NewCoordinator`, `Run`, `totalSent`, `printFinalStats`, signal handler | registry, senders (started, never joined) |
| Init and key files (`cmd_init.go`, `config.go`) | `multispam.yaml`, one key file per sender | `runCreateNew`, `runAddSenders`, `generateKeys`, `SaveConfig`, `LoadConfig`, `SenderAddress`, `LoadSenderKey` | every other command loads what it wrote; the user edits it |
| Fund (`cmd_fund.go`) | targets, start of the batch | choose senders; per batch query, build, submit, track | the wallet, the key files, the node |
| Withdraw (`cmd_withdraw.go`) | position in the list, three counters and a total | choose senders; per sender fetch, skip or build and submit; summary | the key files, the node; the senders' accounts, beside a running spammer |
| Info, command line, YAML | none | display, parse | files |

What is hard in this code:

* **Stale reads.** A round fetches outputs, then makes one call per `spentSet` entry, then
  builds: the branch a host reports moves between any two of these calls, and the host
  itself changes from round to round. `fund` must not ask for outputs before the batch
  before is included.
* **Failure and retry.** Every call may fail before or after the node acted. A submission
  of a sender is retried once; a lost reply leaves a delivered transaction the sender does
  not know. `fund` aborts with earlier batches paid; `withdraw` goes on with the next sender.
* **Stops and edits.** `init` writes key by key and the configuration last, and writing a
  file empties it first. The user is told to edit or remove what was written, and numbers
  are handed out by counting the senders.
* **Time.** Timestamps run ahead of the clock (pace, jitter), slots are unsigned, and the
  finality timeout compares the two.
* **Boundaries of amounts.** Gate, transfer, fee, remainder and storage deposit meet in a
  few inequalities; off by one means dust or a chain without a tag-along. Differences and
  products are unsigned.
* **Sharing.** The registry is replaced while senders pick; counters are read while they
  grow; cancellation, deadline, limit and ticks race in one `select`.

What makes the components correct:

* Sender: every transaction handed out is valid (no dust, amounts add up, pace towards its
  inputs); tokens are conserved; `spentSet` names what was really submitted; seen from the
  network, an output is not spent again before its spender timed out, as the code compares
  slots (`SpendPolicy`); no entry stays for ever; a
  funded chain completes with one fee; the members of conflict sets keep the holder's pace;
  the gate is enough for the build.
* Pickers: the members of a set aim at different sequencers, all of them listed and with a
  fee; round-robin is fair while the list stays.
* Coordinator: totals are meaningful, the loop ends when and only when it should.
* Key files: the configuration names only keys that exist, each once; no key is lost.
* Fund: each of the first targets is paid once, the others not at all; batches do not
  compete; only bad amounts are refused.
* Withdraw: sweeps are valid and do not compete; the summary is true.
* All commands together: no token goes to an account whose key is gone.

The complete list of hazards, each at its line, is in `PROJECT.json`.

## 2. Plan

In order of importance. All but the last two items exist.

1. `TxAmounts` - arithmetic of a transfer.
2. `Ledger` - the environment of a sender: time, delivered transactions, hosts.
3. `Sender` (extends `Ledger`, which extends `TxAmounts`), with `MCSender`.
4. `SpendPolicy` - what a sender promises about its account, implemented by `Sender`.
5. `Sequencers` - registry and pickers.
6. `Coordinator` - the life of a run, from the construction of the senders.
7. `KeyFiles` - init, init --add, stops and edits.
8. `Accounts`, `Fund`, `Withdraw` - the two commands and the ledger they see.
9. `Commands` (composes 7 and 8), with `MCCommands` - a session at the command line.
10. Proofs: `SenderProofs`, then `LedgerProofs` and `PolicyProofs`, which extend it and one
    another; `SequencersProofs`; `CoordinatorProofs`; `CommandsProofs` and `TokenProofs`,
    which extends it. `Sums` has the facts about sums that three of them need.
11. Left: the policy in settings wider than that of `PolicyProofs` (section 6), for instance
    several hosts that never lag behind one another, or jitter that stays within the slot.
12. Left: a sender and `withdraw` as two programs over one ledger; now each sees the other
    as an action of its environment (`Withdraw` of `Ledger`).

## 3. Modules

### TxAmounts
`MinBalanceForOneTx`, `MinFundingPerSender` and the amounts of `buildOneTx`. Amounts are
naturals. Balances and fees are bounded by the tokens in existence, which fit a `uint64`;
`transfer_amount` and `batch_size` come from the configuration and are assumed not to be so
large that their product or sum wraps. (In `fund`, where the amount is an argument of the
command, the wrap is modelled.)
`AmountsAssumption` is what `NewCoordinator` (transfer not below the storage deposit) and
`applyDefaults` (positive batch size) enforce.

### Ledger
What is outside the repository, from the way the sender uses it. `now` is the ledger time
of the wall clock. `delivered` are transactions that reached a node. `head` is the
consolidated state: `Consolidate` adds any set of delivered transactions that fit together
(time has come, inputs exist, no conflict, each carries a tag-along or is consumed by
another of the set), so transactions may be consolidated late, together, or never.
`lrb[h]` is the state host `h` reports; `Sync` lets it catch up, so hosts lag
independently. `Deposit` is a payment in, `Withdraw` a spend by another process: one output
goes, as when the withdraw command runs beside the sender. The command itself is module
`Withdraw`.
The shape of a transaction (`Produced`, `Consumed`) is that of `buildOneTx`. A transaction
is identified by its content, as an id is a hash. `LedgerAssumption` says what that means for
the transactions of others: none has the id of a transaction of the sender, a deposit is all
that its transaction pays to the account, and there are finitely many.

### Sender
One sender goroutine. A step ends where the goroutine waits for a node or sleeps; the local
computation up to the next call belongs to the step. `pc` says what the goroutine waits for.

| Code | Action |
|---|---|
| `doRound`: fetch, host rotation on error | `FetchOutputs`, `FetchFails` |
| `classifyOutputs`: one entry per call | `Classify(o)`: `CheckFails`, `DropFinalized`, `KeepOrReclaim` |
| early returns of `doRound` | `NothingToSpend`, `NoSequencers`, `Underfunded` |
| gate passed | `StartSpending` |
| `buildOneTx` + first submission | `BuildFails`, `Submit`, `SubmitFails` |
| the retry | `Retry`, `RetryFails` |
| marking, metrics, next host, next member or end of the round | inside `Acknowledge` |
| `Run`: no wait, pace, or the set's wait | inside `Finish`, then `Wake` |

Chained batches and conflict sets share the actions; `Conflict` selects what the code does
differently: the inputs of the next member (`ContinueChain`, `ContinueSet`), whether the
client follows the host index, what a failed retry ends, and how long the round waits.

Abstractions: entries of outputs that the fetch did not return are dropped in the fetch
step (the code makes no call before doing so); `pickTimestamp` reads the clock twice, here
once; the map order of `spentSet` is any order; a timestamp carries a tick, and the slot
is the tick divided by `TicksPerSlot`; the wait after a conflict set is computed from the
clock of the last acknowledgement. `LastBalance` and logging are left out. Cancellation
of the context is modelled in `Coordinator` only, as it takes effect between two rounds.
`accepted` and `seenFinal` are history variables.

### SpendPolicy
An abstract specification, without hosts, rounds or memory: the ledger's slot, the outputs
that are live, those that exist or may come to, and the acknowledged transactions. A `Spend`
may take outputs that are still live and were given to an earlier transaction only in a slot
at least `FinalityTimeoutSlots` after the slot of that one. This is the comparison of the code;
the document asks for more than `FinalityTimeoutSlots`, which the code does not keep
(`Sender_timeout`), and counts from the submission, which it does not either
(`Sender_marking`). `Policy` in `Sender` instantiates it:
`slot` is the slot of `now`; `live` is the consolidated state `head.utxo`; `known` is what was
paid in and what acknowledged or consolidated transactions produce; `spends` are the
acknowledged transactions. `ImplementsSpendPolicy` is `Policy!Spec`. It is false in general: jitter and lagging hosts break it (section 5), and it holds
on one host without jitter, with every interleaving of calls, failures, retries and outside
spends.

### Sequencers
`Refresh` replaces the list by any listing, in any order, of what the node may know.
`PickNext` and `PickDistinct` are the picker's two operations; `nextIdx` may be any start
position. `conflict` and `strategy` are fields that never change. `firsts` is history.

### Coordinator
`cpc` is the position of the command, `spc[s]` of sender `s`. `New` is `NewCoordinator`:
`Clamped` limits the number of senders asked for. `select` takes any ready case. Collecting
a total is one step per counter (`BeginTotal`, `ReadOne`, `TotalDone`), interleaved with the
senders. The registry is its length. A periodic refresh that fails leaves the length as it
is, which is one of the outcomes of `PeriodicRefresh`. Senders are not waited for, as in the
code. A signal while the senders are made ends the process, as its handler is installed
later. `actual` is history: the sum of the counters when a collection began.

### KeyFiles
Files outlive the process. `files` maps a path to the key it holds and its form (plain,
encrypted by the user, or broken by a stop in the middle of the write); `config` is
`multispam.yaml`. Keys are numbered in the order of their generation: two generated keys are
never equal.

| Code | Action |
|---|---|
| `runCreateNew` | `CreateNew` |
| `runAddSenders` up to the keys | `AddSenders` |
| `generateKeys`, one key | `WriteKey`, `KeyFileExists` |
| `SaveConfig`: `os.WriteFile` truncates, then writes | `EmptyConfig`, `WriteConfig` |
| the process is killed between two writes, or in one | `Stop` |
| "remove the file to re-initialize", "review and edit", an encrypted keystore | `RemoveConfig`, `DropSender`, `EncryptKey` |

`Loadable` is `validate`: a configuration emptied by a stop does not load. A command refused
before its first write changes nothing and is no step. A sender's name is its number, as the
code makes both from it. Edits that give a sender somebody else's key file are left out: they
are possible, and the code says nothing against them.

### Accounts, Fund and Withdraw
`Accounts` is the ledger of these commands: one host, whose latest reliable branch is `utxo`;
a transaction carries its inputs, so the node validates it at submission (`Valid`), puts it
in `pool`, and `Settle` includes it if its inputs are still there: late, in another order,
or never. An account is the number of a key, and 0 is the wallet.

| `runFundCmd` | Action |
|---|---|
| load, `filterSenders`, addresses | `StartFund` |
| query of the wallet for `spent` tokens | `QueryWallet`, `NotEnough`, `QueryFails` |
| build, submit | `SubmitFund`, `FundRejected`, `SubmitFundFails` |
| track, next batch | `TrackIncluded`, `NotIncluded` |

| `runWithdrawCmd` | Action |
|---|---|
| load, `filterSenders` | `StartWithdraw` |
| address, outputs: an error counts as failed | `FetchFails` |
| nothing, or too little for one output | `SkipSender` |
| key cannot be loaded | `NoKey` |
| build the sweep | `BuildSweep` |
| submit | `SubmitSweep`, `SubmitSweepFails` |
| summary | `EndWithdraw` |

A call that fails may have been served: `SubmitFundFails` and `SubmitSweepFails` choose.
Sums and differences are unsigned, modulo `Modulus`. `Selections` is what the node may
return for a query: largest outputs first, and no more than needed. `FilterSenders` keeps the
order of the configuration and the first sender of a name. `AccountsAssumption` says of the
wallet that no output of it is empty and that all of them together fit an unsigned amount: the
ledger has no other outputs, and fewer tokens than that. Timestamps are left out: a
transaction is dated on tick ten of the current slot, and its inputs are in a branch, hence
before that slot. `payments` and `sweeps` are history: what a node took in this run.

### Commands
The commands run one after another (`Idle`), over the same files and ledger; the user edits
and the network includes at any time. This is where a number handed out twice, a stopped
`init`, an edit, and a payment on its way can meet.

Operators whose comment begins with "Slip" are faulty variants of the definition below
them (a dropped guard, an off-by-one). They are used nowhere; substituting one for the
right definition must break the property that `PROJECT.json` pairs it with.

## 4. Runs

| Run | Shows |
|---|---|
| `Sender_batch` | chains of three, one host, rate control, faults, no jitter, a balance of exactly what a full chain needs, and a withdraw of any part of it at any time, which leaves too little for a full chain or for any: `TypeOK`, `EveryTxValid`, `SpentSetSound`, `SupplyConserved`, `FundedChainCompletes`, `RespendOnlyAfterTimeout`, the refinement `ImplementsSpendPolicy`, and under fairness `EntriesSettle` |
| `Sender_conflict` | sets of two transfers away, on two hosts chosen at random, jitter, deposits, two faults: `HolderTimelineSpaced`, `GateAdmitsRound`, `RetryGoesToAnotherHost`, and `SupplyConserved` where transactions compete |
| `Sequencers_picks` | both modes and strategies, up to three sequencers, sets of two: `SeqTypeOK` (with it, that whatever is picked has a fee), `DistinctTargets`, `RoundRobin` |
| `Coordinator_run` | two configured senders, of which none, one or three are asked for, two sequencers, limit, deadline, two signals: `TypeOK`, the totals (`TotalWithinRange`, `SlotCountNotNegative`), `StopsForCause`, and that `Run` ends (`RunReturns`, `LimitEndsRun`) |
| `Commands_session` | up to four commands in any order, two key directories, three senders, one stop, one edit, one failed call: the installation (`ConfigNamesKeys`, `AccountsDistinct`, `KeysNeverLost`), fund (`FundPaysPrefixOnce`, `BatchesDisjoint`, `RejectedForCause`), withdraw (`SweepsValid`, `SummaryTrue`, `SweepsDisjoint`) and all of it (`CommandsTypeOK`, `FundsReachable`) |

The other runs check one property each, which TLC refutes; see section 5.

**Bounds.** `MaxTick` ends modelled time; `LastSpendTick` is the last tick at which a round
starts to spend or builds a transaction, a few ticks earlier, so that what was submitted can
still be consolidated, time out and be reclaimed. At `MaxTick` every sleep is over, so rounds
go on. `MaxTx` bounds the transactions built and `MaxFaults` the failed calls. With a
pace of one tick and two ticks to a slot the runs have two to three slots, which is enough
for a spender to time out and for its inputs to be spent again and both transactions to
compete. `Sender_conflict` has room for two sets, which is what a collision of sets takes.
Two hosts are enough for one to lag or fail while the other does not. Amounts are a
handful of tokens around the storage deposit of two, with fees of one and six on both
sides of every inequality. `FinalityTimeoutSlots` is one: the timeout is a comparison, and
a longer one only makes runs longer. `FetchLimit` is that of the code and no run reaches it;
the theorems hold for any limit, those of `PolicyProofs` for accounts that fit a fetch.
A chain of three has a member that neither starts from the account's outputs nor pays; the
theorems hold for chains of any length. `MaxStart` lets a picker start beyond the end of the list. `MaxSent` and
the limit of `Coordinator_run` let the limit fall between two ticks, be reached by one sender
alone, and be reached while counters are being read.

`Commands_session` has four commands, as its hazards take: two senders, a third added, one
taken out and another added under the same number; or init, fund, withdraw and one more.
`MaxTargetsPerTx` is two for three senders, so funding takes a second, smaller batch.
`MaxInputsPerTx` is one, so an account that was paid twice keeps a part. A wallet of 16 and
9 tokens, amounts of 4 and 15, a fee of 5 and a deposit of 2 leave no remainder, dust, a
sound remainder, or too little; with amounts modulo 32, two payments of 15 and the fee
wrap to 3. An account paid 4 tokens holds less than the fee, where the unsigned difference
wraps.

**Fairness.** Safety runs use none. `Sender_batch` assumes that the clock goes on and that
the goroutine keeps running: each API call has a timeout, so a call answers or fails, and the
number of failures is bounded. Nothing is assumed of the network: a spender may never be
consolidated. `Coordinator_run` assumes the same of the goroutine of `Run` and of the
ticker, and strong fairness of the `ctx.Done()` case, because Go's `select` chooses among
ready cases at random. Deadlock is checked except in `Coordinator_run`, where the process
ends, and in `Commands_session`, where the user need not run another command.

## 5. Where the code does something else than it says

TLC finds the counterexample in the run named.

* `Sender_finalized`: the outputs are fetched before the spender of each is looked up. If
  the branch advanced in between, the output of a spender that is now finalized is
  available again and is spent a second time in that round.
* `Sender_jitter`: `currentSlot - SubmittedSlot` is unsigned. A spender with a timestamp in
  the next slot, which the default jitter makes common, is reclaimed at once.
  `Sender_batch` shows the timeout right without jitter, and `PolicyProofs` that it always is
  then (by the comparison of the code), if rounds wait: without rate control the pace alone reaches the next slot.
* `Sender_skew`: an entry is dropped when the current host does not list its output; a
  lagging host does not list it yet, and when it does the output is spent again early.
* `Sender_lowfunds`: a chain cut short by its balance never reaches the member that pays
  the tag-along. `FundedChainCompletes` shows that `MinFundingPerSender` excludes it.
* `Sender_retryhost`: in a chained batch the client stays with one host while the index
  rotates, so a retry may go to the host that just failed. Conflict mode renews the client
  (`Sender_conflict`).
* `Sender_timeout`: the code reclaims the inputs of a pending transaction when its slot is
  `finality_timeout_slots` or more ago (`sender.go:279`); `docs/multispam.md:122-123` says
  "submitted > finality_timeout_slots ago". In the equal case the code spends again one slot
  before the document lets it. `RespendOnlyAfterTimeout` and `SpendPolicy` state what the code
  keeps; `RespendPastTimeout` is the document's condition.
* `Sender_marking`: `docs/multispam.md:141` says inputs are added to `spentSet` "with current
  slot", and line 109 "slot when tx was submitted (normally it is the slot of the txid)"; the
  code records the slot of the transaction id (`sender.go:338` and `409`), which may be later,
  already for the second member of a chain. This is what `Sender_jitter` comes from: recorded
  as the document says, the difference would never wrap. `SpentSetSound` states what the code
  keeps, `MarkedWithCurrentSlot` what the document says.

One more has no run, as it can be read off two lines: `docs/multispam.md:238` and
`coordinator.go:38-39` say that `--fanout` defaults to one member per known sequencer, while
`setSize` (`sender.go:244`) returns `batch_size`, as the same document says a few lines later.

## 6. Proofs

All hold for every value of the constants that satisfies the named assumptions.

**`SenderProofs`** (any number of hosts, any sequencer lists, either mode, any network):
`TypeCorrect`, `TxValidity` (`EveryTxValid`), `SpentSetCorrect` (`SpentSetSound`) and
`GateAdmits` (`GateAdmitsRound`) follow from one inductive invariant, `IInv`. The properties
are not inductive alone: that a retried transaction is still the one of this round, that a
transaction can be built from its inputs, and that the first timestamp of a set keeps a pace
from the inputs all of its members share are established steps earlier. `RoundOK` records
them. `LedgerTypeOK` types the network's states, so that what a fetch returns are outputs;
this in turn needs that delivered transactions produce outputs with natural amounts, which
is where `TransferAmounts`, the arithmetic of a transfer, comes in. The layout: lemmas on
amounts, timestamps and transactions; `FinishStep`, shared by every step that ends a round;
`AcknowledgeStep`, shared by first submissions and retries; one lemma per action;
`Inductive`; the theorems.

The same module goes on to one round and what it leaves to the next, with one more invariant
for each theorem:

* `RetryChangesHost` - in conflict mode `RetryGoesToAnotherHost`, because the client follows
  the host index (`ClientFollows`) and the index moves on modulo the number of hosts. In
  chained batches it is false (`Sender_retryhost`).
* `FundedChainPays` - `FundedChainCompletes` for chains of any length. `ChainInv` says how much
  of a sufficient balance is left at each member (`StillFunded`), and that everything sent
  before has no fee and an earlier timestamp (`SentBefore`).
* `TimelineSpaced` - `HolderTimelineSpaced`, for sets of at least two. `TimelineInv` follows the
  stretch of the timeline that is taken: while a set is being sent, everything acknowledged
  lies a pace before the member to come; between sets, a pace before the clock or before the
  end of the sleep. The set reserves its stretch only if some member was acknowledged, and
  then to the timestamp of its last member, sent or not. The theorem assumes conflict mode and
  sets of two or more: a set of one reserves nothing, and without rate control two of them may
  follow within a pace. It also assumes `LastSpendTick < MaxTick`, as at the end of modelled
  time sleeps are cut short.

**`Sums`** states the laws of a sum over a finite set: of the empty set, one element, a
disjoint union, a difference, a family of sets, two functions added, and that a larger set
weighs no less. The community modules define such sums by a fold that picks the elements one
by one. `Total` and `Tokens` are these folds, each unfolded into the function whose existence
(`AddsExists`) and independence of the order of the picks (`AddsAnyOrder`) are proved once, by
taking a minimal set among those where they would fail. No fact is about a sum of another form:
the sums of `Sender`, `Accounts` and `Coordinator` are shown equal to these first.

**`LedgerProofs`**: `TokensAreConserved` (`SupplyConserved`), for any transactions, repeats,
losses, withdrawals, and any sets the network includes together. Four invariants, each resting on the one
before:

* `IdInv` - an id belongs to one transaction, and everything the ledger has is a transaction
  that was delivered or a deposit.
* `PastInv` - what the ledger holds was paid in or produced by what it included, at its id and
  time (`BirthInv`); an included transaction took its inputs for good (`GoneInv`); a host shows
  the ledger of some past, and misses nothing of it that is still there (`LagInv`).
* `SumInv` - every transaction says truly what its inputs are worth. Along a chain nobody has
  seen the inputs yet, so this goes from the remainder of one member to the next.
* `SupplyInv` - the balance, with `TakenOut`, what went without a transaction of the sender.
  An inclusion leaves `TakenOut` as it is, as no output comes to exist twice; a withdrawal
  moves an output there that no included transaction consumed. Where a set is included together, members consume what others of
  the set produce; the sums cancel because the inputs of different members are disjoint.

**`PolicyProofs`**: `SpendsAgainOnlyAfterTimeout` (`RespendOnlyAfterTimeout`) and
`RoundsImplementPolicy` (`ImplementsSpendPolicy`: every step is one of `Policy!Next` or a
stutter). The hypotheses are `PolicySetting` (one host, no jitter, chained batches with rate
control, `LastSpendTick < MaxTick`) and `[]FetchFits`, that the account never holds more
outputs than one fetch returns; faults, withdrawals, deposits, lost replies, retries, the
length of chains and of the timeout are any. None of the hypotheses can go. TLC refutes
`RespendOnlyAfterTimeout` for `Sender_batch.cfg` with `BatchSize = 1`, `MaxTx = 4`, `MaxTick = 5`
and `LastSpendTick = 3` (which pass) when one of these is changed: `JitterTicks = 2`;
`NumHosts = 2`; `MindRateControl = FALSE`; `MaxTick = 3`, so that sleeps are cut short while a
round may still spend; or `FetchLimit = 1` with `FinalityTimeoutSlots = 2`. Conflict mode spends an
output more than once by design. The invariant `SpendInv`, on top of `PastInv`:

* `SourceInv` - inputs were listed by the host once, or are the remainder of an acknowledged
  member that pays no fee (`ChainLink`).
* `HiddenInv` - such a remainder is never in the ledger: the member is included only together
  with the next one, which takes it. So what is consumed and still there was fetched, and what
  was ever gone does not come back (`NeverBack`).
* `TimeInv` - the timestamp of a transaction that took something still there is at most a pace
  ahead of the clock, and has come when the next round begins. Hence the unsigned difference of
  slots is the true one.
* `CoreInv` - what the network still has of the inputs of an acknowledged transaction is in
  `spentSet`, with a slot no earlier than that of the transaction, or the transaction is overdue.
  `FetchOutputs` keeps the entry as the host lists the output, by `LagInv`; `DropFinalized` does
  not drop it, by `GoneInv`; `KeepOrReclaim` drops it only when its spender, and so any earlier
  one, is overdue.
* `ReservedInv` - what a round spends for a second time was overdue when the round began, and
  the members after the first spend nothing the network has.

**`CoordinatorProofs`**, for any number of senders, limits and slots: `TypeCorrect`,
`TotalIsWithinRange` (`TotalWithinRange`), `StopsOnlyForCause` (`StopsForCause`) and
`SlotCountsAreNatural` (`SlotCountNotNegative`). The counters grow while they are read one after
the other. `PartialTotal` says of a collection under way that what it added is at most what the
counters it read show by now, and, with the counters it has not read, at least what all of
them showed at the beginning. `Displayed` says that the last total is at most the sum of the
counters, so the next one is not below it.

**`SequencersProofs`**: `SeqTypeCorrect`, `TargetsDistinct`, `RoundRobinFair`,
for any set of chains, fees, modes and start positions. The lemmas are arithmetic modulo the
length of the list. Round-robin is not inductive: `InARow` adds that the first sequencers of
the last picks lie behind the picker's position, one after the other.

**`CommandsProofs`**, about a session, for any number of directories, senders, stops, edits,
amounts, batch sizes and failures:

* An installation alone (`KeySpec`): `ConfigAlwaysNamesKeys`, `AccountsAlwaysDistinct`,
  `KeysAreNeverLost`. `KeyInv` adds that no key has a number yet to be given (`KeysNumbered`),
  that no two key files hold the same key (`KeysOwn`), that the senders of the configuration,
  and those a running `init` loaded, have files of their own (`Holds`), and that the keys it
  counts as made are there, in files no loaded sender uses (`FreshHeld`).
* A session implements an installation: each step of `Commands` is a step of `KeyFiles` or
  leaves the files alone. So the three hold in sessions (`SessionNamesKeys`,
  `SessionAccountsDistinct`, `SessionKeysAreNeverLost`), and `FundsAlwaysReachable`: whoever is
  paid, or about to be paid, has a key on disk. The targets of `fund` are fixed when it starts,
  while the files go on changing; what carries the proof is that no key is ever lost.
* `FlowInvariant` - no output is ever produced twice, so a transaction that was included has
  taken its inputs for good (`LedgerInv`, `Sent`); one command at a time deals with the ledger
  (`Turns`); all transactions of a running `fund` but the last are included (`BatchInv`).
* `BatchesNeverCompete` - hence `BatchesDisjoint`.
* `FundPaysAPrefix` - `FundPaysPrefixOnce`. The targets are different accounts, as
  configurations name each account once and `filterSenders` takes a sender at most once;
  the latter is `RankBijection`, that ranks in a finite set are a bijection.
* `SweepsNeverCompete` - `SweepsDisjoint`: each sweep took the outputs of an account of its own.

**`TokenProofs`**, about the amounts of a session modulo any `Modulus`: `SweepsAlwaysValid`
(`SweepsValid`), `FundRejectedOnlyForCause` (`RejectedForCause`), `SummaryIsTrue` (`SummaryTrue`)
and `SessionTypeCorrect` (`CommandsTypeOK`). `MoneyInv` carries the first two: a session creates
no tokens, so the ledger is always worth less than the modulus and no sum over outputs wraps;
every transaction in the pool takes in at least what it pays. Where `fund` multiplies, the
product may wrap: that is one of the causes `RejectedForCause` allows. `CountInv` follows
the summary: each sender passed is counted once, and each one counted as swept has a
transaction of its own among those a node took.

Only model-checked: the liveness properties (`EntriesSettle`, `RunReturns`, `LimitEndsRun`). They
need fairness and `ENABLED`, which are out of the prover's reach. Every other property of a
passing run is the property of a theorem, the last two of `Sender_batch`, `HolderTimelineSpaced`
and `RetryGoesToAnotherHost` under the hypotheses above.

## 7. Not modelled

* Several senders, or a sender and `fund`, against one ledger: senders share nothing but the
  registry and the network; a transfer from another sender or a payment is a `Deposit`, and a
  sweep is a `Withdraw` of `Ledger`.
* Timestamps in `fund` and `withdraw` (see `Accounts` above).
* `info`: it displays. The number it advises is `MinFundingPerSender`, and
  `FundedChainCompletes` says that it is enough.
* The command line, logging, and the parsing of YAML and of key files: without state that
  later steps depend on. Defaults and admissible values are the assumptions on constants.
* The storage-deposit query: its result is the constant `MinStorageDeposit`; that it may fail
  is a way for `New` of `Coordinator` to fail.
* The node filter of `conflict_test.go`, a replay of a node's code inside a test: the property
  it pins, that timestamps of one holder are a pace apart, is `HolderTimelineSpaced`, on the
  timestamps themselves.
