------------------------------ MODULE Commands ------------------------------
(* A user at the command line: init, init --add, fund and withdraw, one after
   another, over the same files and the same ledger.  Only the commands wait
   for each other; a sweep, or a payment fund gave up on, may be included
   while a later command runs, and the user edits the files meanwhile.      *)
EXTENDS Withdraw

CONSTANT MaxCommands   \* bound: commands of a session

VARIABLE commands      \* commands so far

vars == <<keyVars, accountVars, fundVars, withdrawVars, commands>>

Idle == ipc = "idle" /\ fpc = "idle" /\ wpc = "idle"

Init ==
  /\ KeyInit /\ AccountsInit /\ FundInit /\ WithdrawInit
  /\ commands = 0

Command ==
  /\ Idle
  /\ commands < MaxCommands
  /\ commands' = commands + 1
  /\ \/ StartInit /\ UNCHANGED <<accountVars, fundVars, withdrawVars>>
     \/ /\ \E names \in NameSets, a \in Amounts : StartFund(names, a)
        /\ UNCHANGED <<keyVars, withdrawVars>>
     \/ /\ \E names \in NameSets : StartWithdraw(names)
        /\ UNCHANGED <<keyVars, fundVars>>

Next ==
  \/ Command
  \/ InitStep /\ UNCHANGED <<accountVars, fundVars, withdrawVars, commands>>
  \/ FundStep /\ UNCHANGED <<keyVars, withdrawVars, commands>>
  \/ WithdrawStep /\ UNCHANGED <<keyVars, fundVars, commands>>
  \/ User /\ UNCHANGED <<accountVars, fundVars, withdrawVars, commands>>
  \/ Settle /\ UNCHANGED <<keyVars, fundVars, withdrawVars, commands>>

Spec == Init /\ [][Next]_vars

-----------------------------------------------------------------------------
\* Type invariant of a session.
CommandsTypeOK ==
  /\ KeyTypeOK
  /\ \A c \in utxo : c.amount \in 1 .. (Modulus - 1) /\ c.owner \in 0 .. lastKey
  /\ fpc \in {"idle", "query", "submit", "track"}
  /\ batchStart \in 0 .. (Len(targets) + MaxTargetsPerTx - 1)
  /\ coins \subseteq [tx : 0 .. nTx, idx : Nat, owner : {Wallet}, amount : Nat]
  /\ wpc \in {"idle", "fetch", "submit"} /\ wi \in 0 .. Len(list)
  /\ (sweep # {} <=> wpc = "submit")
  /\ nTx \in 0 .. MaxTx /\ faults \in 0 .. MaxFaults

\* Every token that was paid to a sender, or is on its way to one, can be
\* spent: its key lies on disk, whatever was stopped, edited or added since.
FundsReachable ==
  \A c \in utxo \cup UNION {tx.outs : tx \in pool} :
    c.owner # Wallet =>
      \E path \in DOMAIN files : HasAddress(path) /\ files[path].key = c.owner
=============================================================================
