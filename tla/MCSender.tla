------------------------------ MODULE MCSender ------------------------------
(* Values of the Sender's constants for TLC. *)
EXTENDS Sender

Coin(id, idx, amount) == Output(id, idx, 0, amount, "self")

OneCoin == {Coin(0, 0, 9)}
\* Together just what MinFundingPerSender asks for a chain of three with a fee of
\* one; the larger alone passes the gate and ends a chain before its last member.
SplitCoin == {Coin(0, 0, 6), Coin(0, 1, 3)}
LowCoin == {Coin(0, 0, 5)}
TwoCoins == {Coin(0, 0, 5), Coin(0, 1, 5)}
NoDeposits == {}
OneDeposit == {Coin(-1, 0, 6)}

OneSequencer == {<<[chain |-> "s1", fee |-> 1]>>}
\* The order matters: the first fee says nothing about the second.
Pairs == {<<[chain |-> "s1", fee |-> 1], [chain |-> "s2", fee |-> 6]>>}

ToSelf == {"self"}
ToOther == {"other"}
=============================================================================
