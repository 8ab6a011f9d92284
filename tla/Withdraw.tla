------------------------------ MODULE Withdraw ------------------------------
(* The withdraw command (cmd_withdraw.go): each chosen sender pays all it owns
   back to the wallet, in one transaction that is not waited for.  What goes
   wrong with one sender does not stop the others.

   A step ends where the command waits for the node.                        *)
EXTENDS Fund

CONSTANT
  MaxInputsPerTx   \* most outputs one sweep consumes

ASSUME WithdrawAssumption == MaxInputsPerTx \in Nat \ {0}

VARIABLES
  wpc,        \* "idle", "fetch" or "submit"
  list,       \* the senders to sweep
  wi,         \* how many of them have been dealt with
  sweep,      \* the transaction to submit, if any
  swept,      \* senders swept, skipped and failed so far
  skipped,
  failed,
  withdrawn,  \* totalWithdrawn
  sweeps      \* history: the sweeps of this run a node took

counts == <<swept, skipped, failed, withdrawn>>
withdrawVars == <<wpc, list, wi, sweep, counts, sweeps>>

StartWithdraw(names) ==
  /\ wpc = "idle"
  /\ Loadable
  /\ NamesKnown(names)
  /\ list' = Chosen(names)
  /\ wi' = 0 /\ sweep' = {} /\ sweeps' = {}
  /\ swept' = 0 /\ skipped' = 0 /\ failed' = 0 /\ withdrawn' = 0
  /\ wpc' = "fetch"
  /\ UNCHANGED accountVars

Fetching == wpc = "fetch" /\ wi < Len(list)
Path == list[wi + 1].file

\* GetTransferableOutputs, which returns at most MaxInputsPerTx outputs.
Fetched ==
  LET S == OwnedBy(files[Path].key) IN
  IF Cardinality(S) <= MaxInputsPerTx THEN {S} ELSE kSubset(MaxInputsPerTx, S)

\* Slip: an unsigned difference nobody guards.
UnguardedTooSmall(balance) == (balance - Fee) % Modulus < MinStorageDeposit

TooSmall(balance) ==
  \/ balance <= Fee
  \/ (balance - Fee) % Modulus < MinStorageDeposit

\* One more sender is dealt with.
NextSender ==
  /\ wi' = wi + 1 /\ sweep' = {}
  /\ wpc' = "fetch"
  /\ UNCHANGED list

SenderFailed == failed' = failed + 1 /\ UNCHANGED <<swept, skipped, withdrawn>>

\* The key file cannot be read, or the query for the outputs fails.  The file
\* itself is there and whole: that is ConfigNamesKeys.
FetchFails ==
  /\ Fetching
  /\ Fault
  /\ NextSender /\ SenderFailed
  /\ UNCHANGED <<sweeps, utxo, pool, settled, nTx>>

\* Nothing to sweep, or too little for one output.
SkipSender ==
  /\ Fetching
  /\ HasAddress(Path)
  /\ \E S \in Fetched : S = {} \/ TooSmall(Worth(S))
  /\ NextSender
  /\ skipped' = skipped + 1
  /\ UNCHANGED <<swept, failed, withdrawn, sweeps, accountVars>>

\* The address could be read but the key cannot: the file is encrypted.
NoKey ==
  /\ Fetching
  /\ HasAddress(Path) /\ ~HasKey(Path)
  /\ \E S \in Fetched : S # {} /\ ~TooSmall(Worth(S))
  /\ NextSender /\ SenderFailed
  /\ UNCHANGED <<sweeps, accountVars>>

Sweep(S) ==
  LET id == nTx + 1 IN
  [id |-> id, ins |-> S,
   outs |-> {Coin(id, 1, Wallet, (Worth(S) - Fee) % Modulus)}]

BuildSweep ==
  /\ Fetching
  /\ HasKey(Path)
  /\ \E S \in Fetched : S # {} /\ ~TooSmall(Worth(S)) /\ sweep' = {Sweep(S)}
  /\ nTx < MaxTx
  /\ wpc' = "submit"
  /\ UNCHANGED <<list, wi, counts, sweeps, accountVars>>

\* Slip: the total counts what was fetched, the fee included.
SweptAll(tx) == Worth(tx.ins)
SweptAmount(tx) == Worth(tx.outs)

SubmitSweep ==
  /\ wpc = "submit"
  /\ \E tx \in sweep :
       /\ Valid(tx)
       /\ Deliver(tx)
       /\ sweeps' = sweeps \cup {tx}
       /\ withdrawn' = withdrawn + SweptAmount(tx)
  /\ swept' = swept + 1
  /\ NextSender
  /\ UNCHANGED <<skipped, failed, faults>>

\* The call fails, before or after the node took the sweep.
SubmitSweepFails ==
  /\ wpc = "submit"
  /\ Fault
  /\ \/ UNCHANGED <<utxo, pool, settled, nTx, sweeps>>
     \/ \E tx \in sweep :
          Valid(tx) /\ Deliver(tx) /\ sweeps' = sweeps \cup {tx}
  /\ NextSender /\ SenderFailed

\* The summary is printed.
EndWithdraw ==
  /\ wpc = "fetch"
  /\ wi = Len(list)
  /\ wpc' = "idle"
  /\ UNCHANGED <<list, wi, sweep, counts, sweeps, accountVars>>

WithdrawInit ==
  /\ wpc = "idle" /\ list = <<>> /\ wi = 0 /\ sweep = {} /\ sweeps = {}
  /\ swept = 0 /\ skipped = 0 /\ failed = 0 /\ withdrawn = 0

WithdrawStep ==
  \/ FetchFails \/ SkipSender \/ NoKey \/ BuildSweep
  \/ SubmitSweep \/ SubmitSweepFails \/ EndWithdraw

-----------------------------------------------------------------------------
\* The command never hands a node a transaction the node would refuse: what
\* cannot be swept as one valid output is skipped (the comment before the
\* comparison), also where the unsigned difference would wrap.
SweepsValid == \A tx \in sweep : Valid(tx)

\* The summary: every sender is counted once, and the tokens it reports were
\* all sent on their way, less than they may be, as a failed call may have
\* been served.
SummaryTrue ==
  /\ swept + skipped + failed = wi
  /\ swept <= Cardinality(sweeps)
  /\ withdrawn <= MapThenSumSet(LAMBDA tx : Worth(tx.outs), sweeps)

\* The sweeps of one run do not compete: each sender owns an account of its
\* own, so what one sweep takes no other does.
SweepsDisjoint ==
  \A t, u \in sweeps : t # u => t.ins \cap u.ins = {}
=============================================================================
