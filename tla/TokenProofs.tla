----------------------------- MODULE TokenProofs -----------------------------
(* Proofs about the tokens a session moves: a sweep is always a transaction
   the node accepts; a payment is refused, as far as amounts go, only for
   dust or for a sum that does not fit; what withdraw prints is what reached
   the wallet; and the types of all that the commands keep.

   All of it rests on one fact, that the session creates no tokens: what the
   ledger holds never exceeds what the wallet held at the start, which fits a
   word of the machine.  So no sum the commands compute wraps, and what they
   compare is what is there.                                                *)
EXTENDS CommandsProofs, Sums

-----------------------------------------------------------------------------
(* What outputs are worth. *)

LEMMA WorthTokens == \A S : Worth(S) = Tokens(S)
BY Zenon DEF Worth, Tokens

LEMMA WorthEmpty == Worth({}) = 0
BY WorthTokens, TokensEmpty

LEMMA WorthNat ==
  ASSUME NEW S, IsFiniteSet(S), \A c \in S : c.amount \in Nat
  PROVE  Worth(S) \in Nat
BY WorthTokens, TokensNat

LEMMA WorthUnion ==
  ASSUME NEW S, IsFiniteSet(S), NEW T, IsFiniteSet(T), S \cap T = {},
         \A c \in S \cup T : c.amount \in Nat
  PROVE  Worth(S \cup T) = Worth(S) + Worth(T)
BY WorthTokens, TokensUnion

LEMMA WorthSubset ==
  ASSUME NEW S, IsFiniteSet(S), NEW T, T \subseteq S, \A c \in S : c.amount \in Nat
  PROVE  /\ Worth(S) \in Nat /\ Worth(T) \in Nat /\ Worth(S \ T) \in Nat
         /\ Worth(S) = Worth(T) + Worth(S \ T)
BY WorthTokens, TokensSubset

LEMMA WorthSingle ==
  ASSUME NEW c, c.amount \in Nat
  PROVE  Worth({c}) = c.amount
BY WorthTokens, TokensSingle

Payments(id, t, a, lo, hi) == {Coin(id, k, t[k], a) : k \in lo .. hi}

\* A batch of equal payments is worth the product.
LEMMA PaymentsWorth ==
  ASSUME NEW id, NEW t, NEW a \in Nat, NEW lo \in Nat, NEW hi \in Nat
  PROVE  /\ IsFiniteSet(Payments(id, t, a, lo, hi))
         /\ Worth(Payments(id, t, a, lo, hi)) = a * Cardinality(lo .. hi)
<1> DEFINE I == lo .. hi
           pay(k) == Coin(id, k, t[k], a)
           C(s) == {pay(k) : k \in s}
           B == {s \in SUBSET I : ~(IsFiniteSet(C(s)) /\ Worth(C(s)) = a * Cardinality(s))}
<1>1. IsFiniteSet(I)
  BY FS_Interval
<1>2. \A k : pay(k).idx = k /\ pay(k).amount = a
  BY DEF Coin
<1> HIDE DEF pay, I
<1>3. {} \notin B
  <2>1. C({}) = {}
    OBVIOUS
  <2>2. IsFiniteSet({}) /\ Cardinality({}) = 0 /\ Worth({}) = 0
    BY FS_EmptySet, WorthEmpty
  <2> QED BY <2>1, <2>2
<1>4. SUFFICES ASSUME B # {} PROVE FALSE
  <2>1. Payments(id, t, a, lo, hi) = C(I)
    BY DEF pay, I, Payments
  <2> QED BY <2>1 DEF I
<1>5. PICK s \in B : \E x \in s :
           s \ {x} \in SUBSET I /\ s \ {x} \notin B /\ x \in I
                                /\ IsFiniteSet(s) /\ IsFiniteSet(s \ {x})
  <2>1. B \subseteq SUBSET I
    OBVIOUS
  <2> HIDE DEF B
  <2> QED BY <1>1, <1>3, <1>4, <2>1, FirstBad, Zenon
<1>6. PICK x \in s :
           s \ {x} \in SUBSET I /\ s \ {x} \notin B /\ x \in I
                                /\ IsFiniteSet(s) /\ IsFiniteSet(s \ {x})
  BY <1>5
<1> DEFINE r == s \ {x}
<1>7. IsFiniteSet(C(r)) /\ Worth(C(r)) = a * Cardinality(r)
  BY <1>6
<1>8. ~(IsFiniteSet(C(s)) /\ Worth(C(s)) = a * Cardinality(s))
  BY <1>5
<1>9. C(s) = C(r) \cup {pay(x)} /\ C(r) \cap {pay(x)} = {}
  BY <1>2
<1>10. Cardinality(s) = Cardinality(r) + 1 /\ Cardinality(r) \in Nat
  <2>1. Cardinality(s) \in Nat /\ Cardinality(r) \in Nat
    BY <1>6, FS_CardinalityType
  <2>2. Cardinality(r) = Cardinality(s) - 1
    BY <1>6, FS_RemoveElement
  <2> QED BY <2>1, <2>2
<1>11. IsFiniteSet({pay(x)}) /\ Worth({pay(x)}) = a
  BY <1>2, WorthSingle, FS_Singleton
<1>12. \A c \in C(r) \cup {pay(x)} : c.amount \in Nat
  BY <1>2
<1> HIDE DEF B, C, r
<1>13. IsFiniteSet(C(s)) /\ Worth(C(s)) = Worth(C(r)) + a
  <2>1. IsFiniteSet(C(r) \cup {pay(x)})
    BY <1>7, <1>11, FS_Union
  <2>2. Worth(C(r) \cup {pay(x)}) = Worth(C(r)) + Worth({pay(x)})
    BY <1>7, <1>9, <1>11, <1>12, WorthUnion
  <2> QED BY <1>9, <1>11, <2>1, <2>2
<1>14. \A n \in Nat : a * (n + 1) = a * n + a
  OBVIOUS
<1> QED BY <1>7, <1>8, <1>10, <1>13, <1>14

-----------------------------------------------------------------------------
(* The tokens of a session. *)

CoinType == [tx : Nat, idx : Nat, owner : Nat, amount : Nat \ {0}]

Coins(S) == IsFiniteSet(S) /\ S \subseteq CoinType

\* The tokens of the ledger never grow, so no sum of them wraps; what waits to
\* be included is balanced; and fund holds enough for its batch.
MoneyInv ==
  /\ Coins(utxo) /\ Worth(utxo) < Modulus
  /\ \A tx \in pool : Valid(tx) /\ Coins(tx.outs)
  /\ \A tx \in sweep : Valid(tx) /\ Coins(tx.outs)
  /\ amount \in Nat /\ (fpc # "idle" => amount > 0)
  /\ fpc = "submit" =>
       Coins(coins) /\ (\A c \in coins : c.owner = Wallet) /\ Worth(coins) >= Spent

LEMMA CoinsWorth ==
  ASSUME NEW S, Coins(S)
  PROVE  /\ Worth(S) \in Nat
         /\ \A T \in SUBSET S : Coins(T) /\ Worth(T) \in Nat /\ Worth(S \ T) \in Nat
                                /\ Worth(S) = Worth(T) + Worth(S \ T)
<1>1. IsFiniteSet(S) /\ \A c \in S : c.amount \in Nat
  BY DEF Coins, CoinType
<1>2. Worth(S) \in Nat
  BY <1>1, WorthNat
<1>3. ASSUME NEW T \in SUBSET S
      PROVE  Coins(T) /\ Worth(T) \in Nat /\ Worth(S \ T) \in Nat
                                /\ Worth(S) = Worth(T) + Worth(S \ T)
  <2>1. Coins(T)
    BY FS_Subset DEF Coins
  <2> QED BY <1>1, <2>1, WorthSubset
<1> QED BY <1>2, <1>3

LEMMA AmountsTyped ==
  /\ Fee \in Nat /\ Fee > 0 /\ MinStorageDeposit \in Nat /\ MinStorageDeposit > 0
  /\ Modulus \in Nat /\ Modulus > 0
BY AccountsAssumption

LEMMA InitMoney == Init => MoneyInv
<1> SUFFICES ASSUME Init PROVE MoneyInv
  OBVIOUS
<1>1. utxo = WalletAtStart /\ pool = {} /\ sweep = {} /\ amount = 0 /\ fpc = "idle"
  BY DEF Init, AccountsInit, FundInit, WithdrawInit
<1>2. WalletCoins \in Seq(Nat \ {0}) /\ Worth(WalletAtStart) < Modulus
  BY AccountsAssumption
<1>3. IsFiniteSet(WalletAtStart)
  <2> DEFINE I == 1 .. Len(WalletCoins)
             f == [i \in I |-> Coin(0, i, Wallet, WalletCoins[i])]
  <2>1. IsFiniteSet(I) /\ DOMAIN WalletCoins = I
    BY <1>2, FS_Interval
  <2>2. f \in Surjection(I, WalletAtStart)
    BY <2>1 DEF Surjection, WalletAtStart
  <2> HIDE DEF f, I
  <2> QED BY <2>1, <2>2, FS_Surjection
<1>4. WalletAtStart \subseteq CoinType
  BY <1>2 DEF WalletAtStart, Coin, CoinType, Wallet
<1> QED BY <1>1, <1>2, <1>3, <1>4 DEF MoneyInv, Coins

\* Consolidation burns the fee.
LEMMA SettleMoney ==
  ASSUME MoneyInv, LedgerInv, Settle, UNCHANGED <<sweep, fundVars>>
  PROVE  MoneyInv'
<1>1. PICK tx \in pool :
        /\ tx.ins \subseteq utxo
        /\ utxo' = (utxo \ tx.ins) \cup tx.outs
        /\ pool' = pool \ {tx}
  BY DEF Settle
<1>2. /\ Valid(tx) /\ Coins(tx.outs)
      /\ tx.id # 0 /\ tx.id \notin settled /\ \A c \in tx.outs : c.tx = tx.id
  BY DEF MoneyInv, LedgerInv, WellFormed
<1>3. utxo \cap tx.outs = {}
  BY <1>2 DEF LedgerInv, Existed
<1> DEFINE kept == utxo \ tx.ins
<1>4. Coins(kept) /\ Worth(kept) \in Nat /\ Worth(tx.ins) \in Nat
      /\ Worth(utxo) = Worth(tx.ins) + Worth(kept)
  BY <1>1, CoinsWorth, FS_Subset DEF MoneyInv, Coins
<1>5. kept \cap tx.outs = {}
  BY <1>3
<1> HIDE DEF kept
<1>6. Worth(kept \cup tx.outs) = Worth(kept) + Worth(tx.outs)
  <2>1. \A c \in kept \cup tx.outs : c.amount \in Nat
    BY <1>2, <1>4 DEF Coins, CoinType
  <2> QED BY <1>2, <1>4, <1>5, <2>1, WorthUnion DEF Coins
<1>7. Worth(tx.outs) \in Nat /\ Worth(tx.ins) = Worth(tx.outs) + Fee
  BY <1>2, CoinsWorth DEF Valid
<1>8. utxo' = kept \cup tx.outs
  BY <1>1 DEF kept
<1>9. Coins(utxo')
  BY <1>2, <1>4, <1>8, FS_Union DEF Coins
<1>10. Worth(utxo') < Modulus
  <2>1. Worth(utxo') = Worth(kept) + Worth(tx.outs)
    BY <1>6, <1>8
  <2> QED BY <1>4, <1>7, <2>1, AmountsTyped DEF MoneyInv
<1>11. Spent' = Spent
  BY DEF Spent, BatchEnd, fundVars
<1> QED BY <1>1, <1>9, <1>10, <1>11 DEF MoneyInv, fundVars, Valid

\* What a funding transaction produces.
FundReady ==
  /\ MoneyInv /\ fpc = "submit" /\ nTx \in Nat
  /\ targets \in Seq(Nat) /\ batchStart \in 0 .. Len(targets)

LEMMA FundTxWorth ==
  ASSUME FundReady
  PROVE  /\ Coins(FundTx.outs)
         /\ Worth(FundTx.outs) =
              amount * (BatchEnd - batchStart)
                + (IF Worth(coins) > Spent THEN Worth(coins) - Spent ELSE 0)
         /\ \A c \in FundTx.outs :
              \/ c.amount = amount
              \/ Worth(coins) > Spent /\ c.amount = Worth(coins) - Spent
<1> DEFINE id == nTx + 1
           lo == batchStart + 1
           hi == BatchEnd
           P == {Coin(id, k, targets[k], amount) : k \in lo .. hi}
           R == Remainder(id)
<1>1. /\ batchStart \in Nat /\ hi \in batchStart .. Len(targets) /\ hi \in Nat
      /\ lo \in Nat /\ id \in Nat /\ amount \in Nat \ {0}
      /\ Len(targets) \in Nat
  BY BatchEndType DEF FundReady, MoneyInv
<1>2. Spent \in Nat /\ Worth(coins) \in Nat
  <2>1. Worth(coins) \in Nat
    BY CoinsWorth DEF FundReady, MoneyInv
  <2>2. \A a, b, m : a \in Nat /\ b \in Nat /\ m \in Nat /\ m > 0 => ((a + b) % m) \in Nat
    OBVIOUS
  <2>3. (BatchEnd - batchStart) \in Nat
    BY <1>1
  <2>4. (amount * (BatchEnd - batchStart)) \in Nat
    BY <1>1, <2>3
  <2> QED BY <2>1, <2>2, <2>4, AmountsTyped DEF Spent
<1>3. IsFiniteSet(P) /\ Worth(P) = amount * Cardinality(lo .. hi)
  <2>1. P = Payments(id, targets, amount, lo, hi)
    BY DEF Payments
  <2>2. lo \in Nat /\ hi \in Nat /\ amount \in Nat
    BY <1>1
  <2> HIDE DEF lo, hi, id, P
  <2> QED BY <2>1, <2>2, PaymentsWorth
<1>4. Cardinality(lo .. hi) = BatchEnd - batchStart
  <2>1. hi - lo + 1 = BatchEnd - batchStart /\ (lo > hi => BatchEnd - batchStart = 0)
        /\ lo \in Int /\ hi \in Int
    BY <1>1
  <2> HIDE DEF lo, hi
  <2>2. Cardinality(lo .. hi) = IF lo > hi THEN 0 ELSE hi - lo + 1
    BY <2>1, FS_Interval
  <2> QED BY <2>1, <2>2
<1>5. FundTx.outs = P \cup R
  BY DEF FundTx
<1>6. \A c \in P : c \in CoinType /\ c.idx <= hi /\ c.amount = amount
  BY <1>1 DEF Coin, CoinType, FundReady
<1>7. \A c \in R : c \in CoinType /\ c.idx = hi + 1 /\ c.amount = Worth(coins) - Spent
                   /\ c.amount \in Nat /\ Worth(coins) > Spent
  BY <1>1, <1>2 DEF Remainder, Coin, CoinType, Wallet
<1>8. IsFiniteSet(R) /\ Worth(R) = IF Worth(coins) > Spent THEN Worth(coins) - Spent ELSE 0
  <2> DEFINE c == Coin(id, hi + 1, Wallet, Worth(coins) - Spent)
  <2>1. CASE Worth(coins) > Spent
    <3>1. R = {c} /\ c.amount = Worth(coins) - Spent /\ c.amount \in Nat
      BY <1>2, <2>1 DEF Remainder, Coin
    <3> HIDE DEF c, R
    <3>2. Worth({c}) = c.amount /\ IsFiniteSet({c})
      BY <3>1, WorthSingle, FS_Singleton
    <3> QED BY <2>1, <3>1, <3>2
  <2>2. CASE ~(Worth(coins) > Spent)
    <3>1. R = {}
      BY <2>2 DEF Remainder
    <3> HIDE DEF R
    <3> QED BY <2>2, <3>1, WorthEmpty, FS_EmptySet
  <2> QED BY <2>1, <2>2
<1>9. P \cap R = {}
  <2>1. \A c \in P \cap R : FALSE
    <3> HIDE DEF P, R
    <3>1. \A c \in P : c.idx \in Nat
      BY <1>6 DEF CoinType
    <3> QED BY <1>1, <1>6, <1>7, <3>1
  <2> QED BY <2>1
<1> HIDE DEF P, R
<1>10. \A c \in P \cup R : c.amount \in Nat
  BY <1>6, <1>7 DEF CoinType
<1>11. Worth(P \cup R) = Worth(P) + Worth(R)
  BY <1>3, <1>8, <1>9, <1>10, WorthUnion
<1>12. Coins(FundTx.outs)
  <2>1. IsFiniteSet(P \cup R)
    BY <1>3, <1>8, FS_Union
  <2>2. P \cup R \subseteq CoinType
    BY <1>6, <1>7
  <2> QED BY <1>5, <2>1, <2>2 DEF Coins
<1>13. Worth(FundTx.outs) = Worth(P) + Worth(R)
  BY <1>5, <1>11
<1> QED BY <1>3, <1>4, <1>5, <1>6, <1>7, <1>8, <1>12, <1>13

\* A step that leaves the ledger and the sweep alone.
LEMMA SameMoney ==
  ASSUME MoneyInv, UNCHANGED <<utxo, pool, sweep>>,
         amount' \in Nat, fpc' # "idle" => amount' > 0, fpc' # "submit"
  PROVE  MoneyInv'
BY DEF MoneyInv

\* A valid transaction is on its way.
LEMMA DeliverMoney ==
  ASSUME MoneyInv, NEW tx, Valid(tx), Coins(tx.outs), Deliver(tx),
         sweep' \subseteq sweep,
         amount' \in Nat, fpc' # "idle" => amount' > 0, fpc' # "submit"
  PROVE  MoneyInv'
BY DEF MoneyInv, Deliver

LEMMA FundStepMoney ==
  ASSUME MoneyInv, fpc = "submit" => FundReady, FundStep, UNCHANGED sweep
  PROVE  MoneyInv'
<1>1. amount \in Nat /\ (fpc # "idle" => amount > 0)
  BY DEF MoneyInv
<1>2. CASE QueryWallet
  <2>1. /\ coins' \in Selections(Spent) /\ fpc = "query"
        /\ UNCHANGED <<amount, targets, batchStart, utxo, pool>>
    BY <1>2 DEF QueryWallet, accountVars
  <2>2. /\ coins' \subseteq utxo /\ Worth(coins') >= Spent
        /\ \A c \in coins' : c.owner = Wallet
    BY <2>1 DEF Selections, OwnedBy
  <2>3. Coins(coins')
    BY <2>2, CoinsWorth DEF MoneyInv
  <2>4. Spent' = Spent
    BY <2>1 DEF Spent, BatchEnd
  <2> QED BY <1>1, <2>1, <2>2, <2>3, <2>4 DEF MoneyInv
<1>3. CASE NotEnough \/ QueryFails \/ FundRejected \/ NotIncluded
  <2>1. fpc' = "idle" /\ UNCHANGED <<amount, utxo, pool>>
    BY <1>3 DEF NotEnough, QueryFails, FundRejected, NotIncluded, End, accountVars
  <2> QED BY <1>1, <2>1, SameMoney
<1>4. ASSUME fpc = "submit", Valid(FundTx), Deliver(FundTx),
             fpc' \in {"track", "idle"}, UNCHANGED amount
      PROVE  MoneyInv'
  <2>1. Coins(FundTx.outs)
    BY <1>4, FundTxWorth
  <2>2. SUFFICES ASSUME NEW tx, Valid(tx), Deliver(tx), Coins(tx.outs)
                 PROVE  MoneyInv'
    BY <1>4, <2>1
  <2> QED BY <1>1, <1>4, <2>2, DeliverMoney
<1>5. CASE SubmitFund
  BY <1>4, <1>5 DEF SubmitFund
<1>6. CASE SubmitFundFails
  <2>1. fpc = "submit" /\ fpc' = "idle" /\ UNCHANGED amount
    BY <1>6 DEF SubmitFundFails
  <2>2. CASE UNCHANGED <<utxo, pool, settled, nTx, payments>>
    BY <1>1, <2>1, <2>2, SameMoney
  <2>3. CASE Valid(FundTx) /\ Deliver(FundTx)
    BY <1>4, <2>1, <2>3
  <2> QED BY <1>6, <2>2, <2>3 DEF SubmitFundFails
<1>7. CASE TrackIncluded
  <2>1. fpc = "track" /\ fpc' \in {"query", "idle"} /\ UNCHANGED <<amount, utxo, pool>>
    BY <1>7 DEF TrackIncluded, accountVars
  <2> QED BY <1>1, <2>1, SameMoney
<1> QED BY <1>2, <1>3, <1>5, <1>6, <1>7 DEF FundStep

\* The difference does not wrap, so a sweep is what the node asks for.
LEMMA SweepMoney ==
  ASSUME MoneyInv, nTx \in Nat, NEW S, S \subseteq utxo, S # {}, ~TooSmall(Worth(S))
  PROVE  Valid(Sweep(S)) /\ Coins(Sweep(S).outs)
<1> DEFINE left == Worth(S) - Fee
           c == Coin(nTx + 1, 1, Wallet, left)
<1>1. /\ Worth(S) \in Nat /\ Worth(utxo) \in Nat /\ Worth(utxo \ S) \in Nat
      /\ Worth(utxo) = Worth(S) + Worth(utxo \ S) /\ Worth(utxo) < Modulus
  BY CoinsWorth DEF MoneyInv
<1>2. left \in Nat \ {0} /\ left < Modulus /\ left % Modulus = left
  <2>1. left \in Nat \ {0} /\ left < Modulus
    BY <1>1, AmountsTyped DEF TooSmall
  <2>2. \A a, m : a \in Nat /\ m \in Nat /\ a < m => a % m = a
    OBVIOUS
  <2> QED BY <2>1, <2>2, AmountsTyped
<1>3. left >= MinStorageDeposit
  BY <1>2, AmountsTyped DEF TooSmall
<1>4. Sweep(S).ins = S /\ Sweep(S).outs = {Coin(nTx + 1, 1, Wallet, left % Modulus)}
  BY DEF Sweep
<1>5. Sweep(S).outs = {c}
  BY <1>2, <1>4
<1>6. c \in CoinType /\ c.amount = left
  BY <1>2 DEF Coin, CoinType, Wallet
<1> HIDE DEF c
<1>7. IsFiniteSet({c}) /\ Worth({c}) = left
  BY <1>2, <1>6, WorthSingle, FS_Singleton
<1>8. Coins(Sweep(S).outs)
  BY <1>5, <1>6, <1>7 DEF Coins
<1>9. Worth(S) = left + Fee
  BY <1>1, AmountsTyped
<1> HIDE DEF left
<1>10. Worth(Sweep(S).outs) = left
  BY <1>5, <1>7
<1>11. \A d \in Sweep(S).outs : d.amount >= MinStorageDeposit
  BY <1>3, <1>5, <1>6
<1>12. Valid(Sweep(S))
  BY <1>4, <1>9, <1>10, <1>11 DEF Valid
<1> QED BY <1>8, <1>12

LEMMA WithdrawStepMoney ==
  ASSUME MoneyInv, nTx \in Nat, WithdrawStep, UNCHANGED fundVars
  PROVE  MoneyInv'
<1>1. UNCHANGED <<fpc, amount, coins, Spent>>
  BY DEF fundVars, Spent, BatchEnd
<1>2. ASSUME UNCHANGED <<utxo, pool>>, sweep' \subseteq sweep
      PROVE  MoneyInv'
  BY <1>1, <1>2 DEF MoneyInv
<1>3. ASSUME NEW tx \in sweep, Deliver(tx), sweep' = {}
      PROVE  MoneyInv'
  BY <1>1, <1>3 DEF MoneyInv, Deliver
<1>4. CASE FetchFails \/ SkipSender \/ NoKey \/ EndWithdraw
  BY <1>2, <1>4 DEF FetchFails, SkipSender, NoKey, EndWithdraw, NextSender, accountVars
<1>5. CASE BuildSweep
  <2>1. PICK S \in Fetched : S # {} /\ ~TooSmall(Worth(S)) /\ sweep' = {Sweep(S)}
    BY <1>5 DEF BuildSweep
  <2>2. S \subseteq utxo
    BY DEF Fetched, OwnedBy, kSubset
  <2>3. Valid(Sweep(S)) /\ Coins(Sweep(S).outs)
    BY <2>1, <2>2, SweepMoney
  <2>4. UNCHANGED <<utxo, pool>>
    BY <1>5 DEF BuildSweep, accountVars
  <2> QED BY <1>1, <2>1, <2>3, <2>4 DEF MoneyInv
<1>6. CASE SubmitSweep
  BY <1>3, <1>6 DEF SubmitSweep, NextSender
<1>7. CASE SubmitSweepFails
  <2>1. sweep' = {}
    BY <1>7 DEF SubmitSweepFails, NextSender
  <2>2. CASE UNCHANGED <<utxo, pool, settled, nTx, sweeps>>
    BY <1>2, <2>1, <2>2
  <2> QED BY <1>3, <1>7, <2>1, <2>2 DEF SubmitSweepFails
<1> QED BY <1>4, <1>5, <1>6, <1>7 DEF WithdrawStep

LEMMA NextMoney ==
  ASSUME MoneyInv, FlowInv, PrefixInv, [Next]_vars
  PROVE  MoneyInv'
<1>1. nTx \in Nat
  BY DEF FlowInv, LedgerInv
<1>2. fpc = "submit" => FundReady
  BY <1>1 DEF PrefixInv, PaidUpTo, TargetsApart, FundReady
<1>3. ASSUME UNCHANGED <<accountVars, withdrawVars, fundVars>>
      PROVE  MoneyInv'
  <2>1. UNCHANGED <<utxo, pool, sweep, fpc, amount, coins, Spent>>
    BY <1>3 DEF accountVars, withdrawVars, fundVars, Spent, BatchEnd
  <2> QED BY <2>1 DEF MoneyInv
<1>4. ASSUME NEW names \in NameSets, NEW a \in Amounts, StartFund(names, a),
             UNCHANGED withdrawVars
      PROVE  MoneyInv'
  <2>1. /\ amount' = a /\ a \in Nat \ {0} /\ fpc' = "query"
        /\ UNCHANGED <<utxo, pool, sweep>>
    BY <1>4, FundAssumption DEF StartFund, accountVars, withdrawVars
  <2> QED BY <2>1, SameMoney
<1>5. ASSUME NEW names \in NameSets, StartWithdraw(names), UNCHANGED fundVars
      PROVE  MoneyInv'
  <2>1. UNCHANGED <<utxo, pool, fpc, amount, coins, Spent>> /\ sweep' = {}
    BY <1>5 DEF StartWithdraw, accountVars, fundVars, Spent, BatchEnd
  <2> QED BY <2>1 DEF MoneyInv
<1>6. CASE Command
  BY <1>3, <1>4, <1>5, <1>6 DEF Command
<1>7. CASE FundStep /\ UNCHANGED withdrawVars
  BY <1>2, <1>7, FundStepMoney DEF withdrawVars
<1>8. CASE WithdrawStep /\ UNCHANGED fundVars
  BY <1>1, <1>8, WithdrawStepMoney
<1>9. CASE Settle /\ UNCHANGED <<fundVars, withdrawVars>>
  BY <1>9, SettleMoney DEF FlowInv, withdrawVars
<1>10. CASE UNCHANGED vars
  BY <1>3, <1>10 DEF vars
<1> QED BY <1>3, <1>6, <1>7, <1>8, <1>9, <1>10 DEF Next

LEMMA AlwaysMoney == Spec => []MoneyInv
<1>1. MoneyInv /\ FlowInv /\ PrefixInv /\ [Next]_vars => MoneyInv'
  BY NextMoney
<1> QED BY InitMoney, FlowInvariant, AlwaysPrefix, <1>1, PTL DEF Spec

\* Withdraw never hands a node a transaction the node would refuse: what is
\* left of an account after the fee is skipped or is one valid output, also
\* where the unsigned difference would wrap, as no account ever holds more
\* than the ledger (runWithdrawCmd).
THEOREM SweepsAlwaysValid == Spec => []SweepsValid
<1>1. MoneyInv => SweepsValid
  BY DEF MoneyInv, SweepsValid
<1> QED BY <1>1, AlwaysMoney, PTL

\* A node refuses a payment of fund only for an amount that is dust, a
\* remainder that would be dust, or a sum that does not fit an unsigned
\* integer: whatever the batches and the wallet's outputs are, tokens in are
\* tokens out (runFundCmd).
THEOREM FundRejectedOnlyForCause == Spec => []RejectedForCause
<1>1. ASSUME MoneyInv, FlowInv, PrefixInv PROVE RejectedForCause
  <2> DEFINE sum == amount * (BatchEnd - batchStart)
  <2> SUFFICES ASSUME fpc = "submit", amount >= MinStorageDeposit,
                      sum + Fee < Modulus,
                      Worth(coins) - Spent \notin 1 .. (MinStorageDeposit - 1)
               PROVE  Valid(FundTx)
    <3>1. fpc = "submit" => sum \in Int
      <4>1. fpc = "submit" => batchStart \in Int /\ BatchEnd \in Int
        BY <1>1, BatchEndType DEF PrefixInv, PaidUpTo, TargetsApart
      <4> QED BY <1>1, <4>1 DEF MoneyInv
    <3>2. amount \in Nat
      BY <1>1 DEF MoneyInv
    <3> HIDE DEF sum
    <3>3. RejectedForCause <=>
            (fpc = "submit" /\ ~Valid(FundTx) =>
               \/ amount < MinStorageDeposit
               \/ sum + Fee >= Modulus
               \/ Worth(coins) - Spent \in 1 .. (MinStorageDeposit - 1))
      BY Zenon DEF RejectedForCause, sum
    <3>4. fpc = "submit" => (sum + Fee < Modulus \/ sum + Fee >= Modulus)
      BY <3>1, AmountsTyped
    <3>5. amount >= MinStorageDeposit \/ amount < MinStorageDeposit
      BY <3>2, AmountsTyped
    <3> QED BY <3>3, <3>4, <3>5, Zenon
  <2>1. FundReady
    BY <1>1 DEF FlowInv, LedgerInv, PrefixInv, PaidUpTo, TargetsApart, FundReady
  <2>2. BatchEnd - batchStart \in Nat /\ amount \in Nat
    BY <2>1, BatchEndType DEF FundReady, MoneyInv
  <2>3. sum \in Nat
    BY <2>2
  <2>4. Worth(coins) \in Nat /\ Worth(coins) >= Spent /\ FundTx.ins = coins
    BY <2>1, CoinsWorth DEF FundReady, MoneyInv, FundTx
  <2>5. /\ Worth(FundTx.outs) = sum + (IF Worth(coins) > Spent THEN Worth(coins) - Spent ELSE 0)
        /\ \A c \in FundTx.outs :
             \/ c.amount = amount
             \/ Worth(coins) > Spent /\ c.amount = Worth(coins) - Spent
    BY <2>1, FundTxWorth
  <2>6. Spent = sum + Fee
    <3>1. \A a, m : a \in Nat /\ m \in Nat /\ a < m => a % m = a
      OBVIOUS
    <3> HIDE DEF sum
    <3>2. Spent = (sum + Fee) % Modulus
      BY DEF Spent, sum
    <3> QED BY <2>3, <3>1, <3>2, AmountsTyped
  <2> HIDE DEF sum
  <2>7. coins # {}
    BY <2>3, <2>4, <2>6, WorthEmpty, AmountsTyped
  <2>8. Worth(FundTx.ins) = Worth(FundTx.outs) + Fee
    BY <2>3, <2>4, <2>5, <2>6, AmountsTyped
  <2>9. \A c \in FundTx.outs : c.amount >= MinStorageDeposit
    BY <2>3, <2>4, <2>5, <2>6, AmountsTyped
  <2> QED BY <2>4, <2>7, <2>8, <2>9 DEF Valid
<1> QED BY <1>1, AlwaysMoney, FlowInvariant, AlwaysPrefix, PTL

-----------------------------------------------------------------------------
(* The summary of withdraw. *)

SentWorth(S) == MapThenSumSet(LAMBDA tx : Worth(tx.outs), S)

SentValues(S) == [tx \in S |-> Worth(tx.outs)]

AddsSent(g, S) ==
  g = [s \in SUBSET S |-> IF s = {} THEN 0 ELSE Worth(Pick(s).outs) + g[Rest(s)]]

LEMMA AddsSentIs ==
  ASSUME NEW S, NEW g
  PROVE  AddsSent(g, S) <=> Adds(g, SentValues(S), S)
<1>1. \A s \in SUBSET S : s # {} => SentValues(S)[Pick(s)] = Worth(Pick(s).outs)
  <2> SUFFICES ASSUME NEW s \in SUBSET S, s # {}
               PROVE  SentValues(S)[Pick(s)] = Worth(Pick(s).outs)
    OBVIOUS
  <2>1. Pick(s) \in S
    BY PickRest
  <2> QED BY <2>1 DEF SentValues
<1> DEFINE f == [s \in SUBSET S |-> IF s = {} THEN 0 ELSE Worth(Pick(s).outs) + g[Rest(s)]]
           h == [s \in SUBSET S |-> IF s = {} THEN 0 ELSE SentValues(S)[Pick(s)] + g[Rest(s)]]
<1>2. f = h
  BY <1>1
<1> QED BY <1>2 DEF AddsSent, Adds

LEMMA SentWorthIs ==
  ASSUME NEW S, IsFiniteSet(S)
  PROVE  SentWorth(S) = Total(SentValues(S), S)
<1>1. SentWorth(S) = (CHOOSE g : AddsSent(g, S))[S]
  BY Zenon DEF SentWorth, MapThenSumSet, MapThenFoldSet, AddsSent, Pick, Rest
<1>2. \E g : AddsSent(g, S)
  BY AddsExists, AddsSentIs
<1>3. PICK g : AddsSent(g, S) /\ SentWorth(S) = g[S]
  BY <1>1, <1>2, Zenon
<1>4. Adds(g, SentValues(S), S)
  BY <1>3, AddsSentIs
<1>5. PICK h : Adds(h, SentValues(S), S) /\ Total(SentValues(S), S) = h[S]
  BY SumChosen DEF Total
<1>6. \A s \in SUBSET S : g[s] = h[s]
  BY <1>4, <1>5, AddsWithin
<1> QED BY <1>3, <1>5, <1>6

LEMMA SentWorthEmpty == SentWorth({}) = 0
<1>1. IsFiniteSet({})
  BY FS_EmptySet
<1> QED BY <1>1, SentWorthIs, TotalEmpty

LEMMA SentWorthAdd ==
  ASSUME NEW S, IsFiniteSet(S), NEW t, t \notin S, Worth(t.outs) \in Nat,
         \A tx \in S : Worth(tx.outs) \in Nat
  PROVE  /\ SentWorth(S \cup {t}) = Worth(t.outs) + SentWorth(S)
         /\ SentWorth(S) \in Nat
<1> DEFINE U == S \cup {t}
           w == SentValues(U)
<1>1. IsFiniteSet(U)
  BY FS_AddElement
<1>2. /\ \A y \in S \cup {t} : w[y] \in Int
      /\ w[t] = Worth(t.outs)
      /\ \A y \in S : w[y] = SentValues(S)[y] /\ w[y] \in Nat
  BY DEF SentValues
<1>3. SentWorth(U) = Total(w, U)
  <2> HIDE DEF U
  <2> QED BY <1>1, SentWorthIs
<1> HIDE DEF w
<1>4. Total(w, S \cup {t}) = w[t] + Total(w, S)
  BY <1>2, TotalAdd
<1>5. Total(w, S) = Total(SentValues(S), S) /\ Total(w, S) \in Nat
  BY <1>2, TotalSame, TotalNat
<1> QED BY <1>2, <1>3, <1>4, <1>5, SentWorthIs

\* What the counters of a run of withdraw say of its sweeps.
CountInv ==
  /\ {swept, skipped, failed, wi, withdrawn} \subseteq Nat
  /\ swept + skipped + failed = wi
  /\ IsFiniteSet(sweeps)
  /\ \A t \in sweeps : t.id \in Nat /\ t.id <= nTx /\ Worth(t.outs) \in Nat
  /\ swept <= Cardinality(sweeps)
  /\ withdrawn <= SentWorth(sweeps)

\* The number of transactions never falls.
LEMMA NTxGrows ==
  ASSUME FlowInv, [Next]_vars
  PROVE  nTx \in Nat /\ nTx' \in {nTx, nTx + 1}
<1>1. nTx \in Nat /\ \A tx \in sweep : tx.id = nTx + 1
  BY DEF FlowInv, LedgerInv, Turns
<1>2. FundTx.id = nTx + 1
  BY DEF FundTx
<1>3. \A tx : Deliver(tx) => nTx' = tx.id
  BY DEF Deliver
<1>4. CASE FundStep
  BY <1>1, <1>2, <1>3, <1>4
  DEF FundStep, QueryWallet, NotEnough, QueryFails, SubmitFund, FundRejected,
      SubmitFundFails, TrackIncluded, NotIncluded, accountVars
<1>5. CASE WithdrawStep
  BY <1>1, <1>3, <1>5
  DEF WithdrawStep, FetchFails, SkipSender, NoKey, BuildSweep, SubmitSweep,
      SubmitSweepFails, EndWithdraw, accountVars
<1>6. CASE UNCHANGED nTx
  BY <1>1, <1>6
<1>7. CASE Command
  BY <1>6, <1>7 DEF Command, StartFund, StartWithdraw, accountVars
<1>8. CASE Settle
  BY <1>6, <1>8 DEF Settle
<1> QED BY <1>1, <1>4, <1>5, <1>6, <1>7, <1>8 DEF Next, vars, accountVars

LEMMA CountsKept ==
  ASSUME FlowInv, CountInv, [Next]_vars, UNCHANGED <<sweeps, withdrawn>>,
         \/ UNCHANGED <<swept, skipped, failed, wi>>
         \/ wi' = wi + 1 /\ failed' = failed + 1 /\ UNCHANGED <<swept, skipped>>
         \/ wi' = wi + 1 /\ skipped' = skipped + 1 /\ UNCHANGED <<swept, failed>>
  PROVE  CountInv'
<1>1. nTx \in Nat /\ nTx' \in Nat /\ nTx <= nTx'
  BY NTxGrows
<1>2. \A t \in sweeps' : t.id \in Nat /\ t.id <= nTx' /\ Worth(t.outs) \in Nat
  BY <1>1 DEF CountInv
<1> QED BY <1>2 DEF CountInv

\* A node took one more sweep, whether the command knows it or not.
LEMMA SweepCounted ==
  ASSUME FlowInv, MoneyInv, CountInv, NEW tx \in sweep, Deliver(tx),
         sweeps' = sweeps \cup {tx}, wi' = wi + 1, UNCHANGED skipped,
         \/ swept' = swept + 1 /\ withdrawn' = withdrawn + Worth(tx.outs) /\ UNCHANGED failed
         \/ failed' = failed + 1 /\ UNCHANGED <<swept, withdrawn>>
  PROVE  CountInv'
<1>1. nTx \in Nat /\ tx.id = nTx + 1 /\ nTx' = nTx + 1
  BY DEF FlowInv, LedgerInv, Turns, Deliver
<1>2. tx \notin sweeps /\ IsFiniteSet(sweeps) /\ Cardinality(sweeps) \in Nat
  BY <1>1, FS_CardinalityType DEF CountInv
<1>3. Worth(tx.outs) \in Nat
  BY CoinsWorth DEF MoneyInv
<1>4. /\ SentWorth(sweeps') = Worth(tx.outs) + SentWorth(sweeps)
      /\ SentWorth(sweeps) \in Nat
  BY <1>2, <1>3, SentWorthAdd DEF CountInv
<1>5. IsFiniteSet(sweeps') /\ Cardinality(sweeps') = Cardinality(sweeps) + 1
  BY <1>2, FS_AddElement
<1>6. \A t \in sweeps' : t.id \in Nat /\ t.id <= nTx' /\ Worth(t.outs) \in Nat
  BY <1>1, <1>3 DEF CountInv
<1>7. /\ {swept, skipped, failed, wi, withdrawn}' \subseteq Nat
      /\ swept' + skipped' + failed' = wi'
  BY <1>3 DEF CountInv
<1>8. swept' <= Cardinality(sweeps') /\ withdrawn' <= SentWorth(sweeps')
  BY <1>2, <1>3, <1>4, <1>5 DEF CountInv
<1>9. SentWorth(sweeps)' = SentWorth(sweeps')
  OBVIOUS
<1> QED BY <1>5, <1>6, <1>7, <1>8, <1>9 DEF CountInv

LEMMA InitCount == Init => CountInv
<1> SUFFICES ASSUME Init PROVE CountInv
  OBVIOUS
<1>1. /\ swept = 0 /\ skipped = 0 /\ failed = 0 /\ wi = 0 /\ withdrawn = 0
      /\ sweeps = {}
  BY DEF Init, WithdrawInit
<1>2. IsFiniteSet({}) /\ Cardinality({}) = 0
  BY FS_EmptySet
<1> QED BY <1>1, <1>2, SentWorthEmpty DEF CountInv

LEMMA StartCount ==
  ASSUME NEW names, StartWithdraw(names)
  PROVE  CountInv'
<1>1. /\ swept' = 0 /\ skipped' = 0 /\ failed' = 0 /\ wi' = 0 /\ withdrawn' = 0
      /\ sweeps' = {}
  BY DEF StartWithdraw
<1>2. IsFiniteSet({}) /\ Cardinality({}) = 0
  BY FS_EmptySet
<1>3. SentWorth(sweeps') = 0
  BY <1>1, SentWorthEmpty
<1> QED BY <1>1, <1>2, <1>3 DEF CountInv

LEMMA WithdrawStepCount ==
  ASSUME FlowInv, MoneyInv, CountInv, [Next]_vars, WithdrawStep
  PROVE  CountInv'
<1>1. CASE FetchFails
  BY <1>1, CountsKept DEF FetchFails, NextSender, SenderFailed
<1>2. CASE SkipSender
  BY <1>2, CountsKept DEF SkipSender, NextSender
<1>3. CASE NoKey
  BY <1>3, CountsKept DEF NoKey, NextSender, SenderFailed
<1>4. CASE BuildSweep
  BY <1>4, CountsKept DEF BuildSweep, counts
<1>5. CASE EndWithdraw
  BY <1>5, CountsKept DEF EndWithdraw, counts
<1>6. CASE SubmitSweep
  <2>1. PICK tx \in sweep : /\ Deliver(tx)
                            /\ sweeps' = sweeps \cup {tx}
                            /\ withdrawn' = withdrawn + Worth(tx.outs)
    BY <1>6 DEF SubmitSweep, SweptAmount
  <2>2. wi' = wi + 1 /\ swept' = swept + 1 /\ UNCHANGED <<skipped, failed>>
    BY <1>6 DEF SubmitSweep, NextSender
  <2> QED BY <2>1, <2>2, SweepCounted
<1>7. CASE SubmitSweepFails
  <2>1. /\ wi' = wi + 1 /\ failed' = failed + 1
        /\ UNCHANGED <<swept, skipped, withdrawn>>
    BY <1>7 DEF SubmitSweepFails, NextSender, SenderFailed
  <2>2. CASE UNCHANGED sweeps
    BY <2>1, <2>2, CountsKept
  <2>3. CASE \E tx \in sweep : Deliver(tx) /\ sweeps' = sweeps \cup {tx}
    <3>1. PICK tx \in sweep : Deliver(tx) /\ sweeps' = sweeps \cup {tx}
      BY <2>3
    <3> QED BY <2>1, <3>1, SweepCounted
  <2> QED BY <1>7, <2>2, <2>3 DEF SubmitSweepFails
<1> QED BY <1>1, <1>2, <1>3, <1>4, <1>5, <1>6, <1>7 DEF WithdrawStep

LEMMA NextCount ==
  ASSUME FlowInv, MoneyInv, CountInv, [Next]_vars
  PROVE  CountInv'
<1>1. CASE WithdrawStep
  BY <1>1, WithdrawStepCount
<1>2. CASE UNCHANGED withdrawVars
  BY <1>2, CountsKept DEF withdrawVars, counts
<1>3. CASE Command
  BY <1>2, <1>3, StartCount DEF Command
<1> QED BY <1>1, <1>2, <1>3 DEF Next, vars

\* The summary of withdraw is true whenever it is printed, and at every step
\* before: each sender was counted once, and what is reported as swept was all
\* taken by the node, whatever the number of senders, the amounts and the calls
\* that fail before or after the node served them.
THEOREM SummaryIsTrue == Spec => []SummaryTrue
<1>1. CountInv => SummaryTrue
  BY DEF CountInv, SummaryTrue, SentWorth
<1>2. Init => CountInv
  BY InitCount
<1>3. FlowInv /\ MoneyInv /\ CountInv /\ [Next]_vars => CountInv'
  BY NextCount
<1> QED BY <1>1, <1>2, <1>3, FlowInvariant, AlwaysMoney, PTL DEF Spec

-----------------------------------------------------------------------------
(* The types of a session. *)

LEMMA LeastNatural ==
  ASSUME NEW I, I \subseteq Nat, I # {}
  PROVE  \E i \in I : \A j \in I : i <= j
<1>1. PICK i \in I : \A j \in I : ~(<<j, i>> \in OpToRel(<, Nat))
  BY NatLessThanWellFounded, WFMin
<1>2. \A j \in I : ~(j < i)
  BY <1>1 DEF OpToRel
<1> QED BY <1>2

\* The commands never run with nobody to serve.
LEMMA ChosenSomebody ==
  ASSUME KeyInv, NEW names, Loadable, NamesKnown(names)
  PROVE  Chosen(names) \in Seq(Entries) /\ Len(Chosen(names)) > 0
<1> DEFINE all == config.senders
<1>1. all \in Seq(Entries) /\ DOMAIN all = 1 .. Len(all) /\ Len(all) >= 2
  BY DEF KeyInv, KeyTypeOK, Loadable
<1>s. Serves(Chosen(names))
  BY ChosenServes
<1>0. PICK n \in Nat : \E f \in [1 .. n -> DOMAIN config.senders] :
        /\ Chosen(names) = [k \in 1 .. n |-> config.senders[f[k]]]
        /\ \A j, k \in 1 .. n : j # k => f[j] # f[k]
  BY <1>s, Zenon DEF Serves
<1>2. PICK f \in [1 .. n -> DOMAIN config.senders] :
        Chosen(names) = [k \in 1 .. n |-> config.senders[f[k]]]
  BY <1>0
<1>3. Chosen(names) \in Seq(Entries) /\ Len(Chosen(names)) = n
  BY <1>1, <1>2
<1>4. CASE names = {}
  BY <1>1, <1>3, <1>4 DEF Chosen
<1>5. CASE names # {}
  <2> DEFINE S == FirstOf(all, names)
  <2>1. PICK name \in names :
          \E i \in DOMAIN config.senders : config.senders[i].name = name
    BY <1>5 DEF NamesKnown
  <2> DEFINE I == {i \in DOMAIN all : all[i].name = name}
  <2>2. I \subseteq Nat /\ I # {}
    BY <1>1, <2>1
  <2>3. PICK i \in I : \A j \in I : i <= j
    BY <2>2, LeastNatural
  <2>4. i \in S
    <3>1. i \in DOMAIN all /\ all[i].name = name /\ i \in Nat
      BY <1>1, <2>3
    <3>2. \A j \in 1 .. (i - 1) : j \in DOMAIN all /\ ~(i <= j)
      BY <1>1, <3>1
    <3>3. \A j \in 1 .. (i - 1) : all[j].name # all[i].name
      BY <2>3, <3>1, <3>2
    <3> QED BY <2>1, <3>1, <3>3 DEF FirstOf
  <2>5. IsFiniteSet(S) /\ Cardinality(S) \in Nat
    <3>1. DOMAIN all = 1 .. Len(all) /\ Len(all) \in Nat
      BY <1>1
    <3>2. IsFiniteSet(DOMAIN all)
      BY <3>1, FS_Interval
    <3>3. S \in SUBSET DOMAIN all
      BY DEF FirstOf
    <3> HIDE DEF S
    <3> QED BY <3>2, <3>3, FS_Subset, FS_CardinalityType
  <2> DEFINE m == Cardinality(S)
             pick(k) == CHOOSE j \in S : Cardinality({l \in S : l <= j}) = k
  <2>6. Chosen(names) = [k \in 1 .. m |-> all[pick(k)]]
    BY <1>5 DEF Chosen, FilterSenders, FirstOf
  <2>7. m # 0
    <3> HIDE DEF S
    <3> QED BY <2>4, <2>5, FS_EmptySet
  <2> HIDE DEF S, m, pick
  <2>8. m \in Nat
    BY <2>5 DEF m
  <2>9. 1 \in DOMAIN Chosen(names)
    BY <2>6, <2>7, <2>8
  <2> QED BY <1>3, <2>9
<1> QED BY <1>4, <1>5

TypeInv ==
  /\ wpc \in {"idle", "fetch", "submit"}
  /\ list \in Seq(Entries) /\ wi \in 0 .. Len(list)
  /\ wpc = "submit" => wi < Len(list) /\ nTx < MaxTx
  /\ sweep # {} <=> wpc = "submit"
  /\ nTx \in 0 .. MaxTx /\ faults \in 0 .. MaxFaults
  /\ targets \in Seq(Nat) /\ batchStart \in 0 .. (Len(targets) + MaxTargetsPerTx - 1)
  /\ fpc # "idle" => batchStart < Len(targets)
  /\ coins \subseteq [tx : 0 .. nTx, idx : Nat, owner : {Wallet}, amount : Nat]

LEMMA BoundsTyped == {MaxTx, MaxFaults} \subseteq Nat /\ MaxTargetsPerTx \in Nat /\ MaxTargetsPerTx > 0
BY AccountsAssumption, FundAssumption

LEMMA InitType == Init => TypeInv
BY BoundsTyped DEF Init, AccountsInit, FundInit, WithdrawInit, TypeInv

\* The coins of a batch stay what they are as transactions are added.
LEMMA CoinsKept ==
  ASSUME TypeInv, nTx' \in Nat, nTx <= nTx', UNCHANGED coins
  PROVE  coins' \subseteq [tx : 0 .. nTx, idx : Nat, owner : {Wallet}, amount : Nat]'
<1>1. 0 .. nTx \subseteq 0 .. nTx'
  BY DEF TypeInv
<1> QED BY <1>1 DEF TypeInv

LEMMA FundStepType ==
  ASSUME TypeInv, FlowInv, MoneyInv, PrefixInv, FundStep, UNCHANGED withdrawVars
  PROVE  TypeInv'
<1> USE BoundsTyped
<1>1. wpc' = wpc /\ list' = list /\ wi' = wi /\ sweep' = sweep
  BY DEF withdrawVars
<1>2. fpc # "idle" => wpc = "idle"
  BY DEF FlowInv, Turns, PrefixInv
<1>3. fpc # "idle"
  BY DEF FundStep, QueryWallet, NotEnough, QueryFails, SubmitFund, FundRejected,
         SubmitFundFails, TrackIncluded, NotIncluded
<1>4. CASE QueryWallet
  <2>1. UNCHANGED <<nTx, faults, targets, batchStart>> /\ coins' \in SUBSET OwnedBy(Wallet)
    BY <1>4 DEF QueryWallet, Selections, accountVars
  <2>2. \A c \in OwnedBy(Wallet) : /\ c \in CoinType /\ c.owner = Wallet
                                   /\ c.tx = 0 \/ c.tx \in 1 .. nTx
    BY DEF OwnedBy, MoneyInv, Coins, FlowInv, LedgerInv, Existed
  <2>3. coins' \subseteq [tx : 0 .. nTx, idx : Nat, owner : {Wallet}, amount : Nat]
    BY <2>1, <2>2 DEF CoinType, TypeInv
  <2> QED BY <1>1, <1>2, <1>3, <2>1, <2>3 DEF TypeInv
<1>5. CASE NotEnough \/ FundRejected \/ NotIncluded
  <2>1. UNCHANGED <<nTx, faults, targets, batchStart, coins>> /\ fpc' = "idle"
    BY <1>5 DEF NotEnough, FundRejected, NotIncluded, End, accountVars
  <2> QED BY <1>1, <2>1 DEF TypeInv
<1>6. CASE QueryFails
  <2>1. /\ UNCHANGED <<nTx, targets, batchStart, coins>> /\ fpc' = "idle"
        /\ faults < MaxFaults /\ faults' = faults + 1
    BY <1>6 DEF QueryFails, End, Fault
  <2> QED BY <1>1, <2>1 DEF TypeInv
<1>7. CASE SubmitFund
  <2>1. /\ UNCHANGED <<faults, targets, batchStart, coins>>
        /\ nTx < MaxTx /\ nTx' = nTx + 1
    BY <1>7 DEF SubmitFund, Deliver, FundTx
  <2>2. coins' \subseteq [tx : 0 .. nTx, idx : Nat, owner : {Wallet}, amount : Nat]'
    BY <2>1, CoinsKept DEF TypeInv
  <2> QED BY <1>1, <1>2, <1>3, <2>1, <2>2 DEF TypeInv
<1>8. CASE SubmitFundFails
  <2>1. /\ UNCHANGED <<targets, batchStart, coins>> /\ fpc' = "idle"
        /\ faults < MaxFaults /\ faults' = faults + 1
        /\ nTx < MaxTx /\ nTx' \in {nTx, nTx + 1}
    BY <1>8 DEF SubmitFundFails, Deliver, FundTx, Fault
  <2>2. coins' \subseteq [tx : 0 .. nTx, idx : Nat, owner : {Wallet}, amount : Nat]'
    BY <2>1, CoinsKept DEF TypeInv
  <2>3. nTx \in Nat /\ faults \in Nat /\ wpc = "idle"
    BY <1>2, <1>3 DEF TypeInv
  <2>4. nTx' \in 0 .. MaxTx /\ faults' \in 0 .. MaxFaults
    BY <2>1, <2>3
  <2> QED BY <1>1, <2>1, <2>2, <2>3, <2>4 DEF TypeInv
<1>9. CASE TrackIncluded
  <2>1. /\ UNCHANGED <<targets, coins, nTx, faults>>
        /\ batchStart' = batchStart + MaxTargetsPerTx
        /\ fpc' = "idle" \/ batchStart' < Len(targets)
    BY <1>9 DEF TrackIncluded, NextStart, accountVars
  <2>2. targets \in Seq(Nat) /\ Len(targets) \in Nat
    BY DEF TypeInv
  <2>3. batchStart \in Nat /\ batchStart < Len(targets)
    BY <1>3, <2>2 DEF TypeInv
  <2>4. /\ batchStart' \in 0 .. (Len(targets') + MaxTargetsPerTx - 1)
        /\ fpc' # "idle" => batchStart' < Len(targets')
    BY <2>1, <2>2, <2>3
  <2> QED BY <1>1, <1>2, <1>3, <2>1, <2>4 DEF TypeInv
<1> QED BY <1>4, <1>5, <1>6, <1>7, <1>8, <1>9 DEF FundStep

LEMMA WithdrawStepType ==
  ASSUME TypeInv, FlowInv, WithdrawStep, UNCHANGED fundVars
  PROVE  TypeInv'
<1> USE BoundsTyped
<1>1. UNCHANGED <<fpc, targets, batchStart, coins>> /\ list' = list
  BY DEF fundVars, WithdrawStep, FetchFails, SkipSender, NoKey, BuildSweep, SubmitSweep,
         SubmitSweepFails, EndWithdraw, NextSender
<1>2. list \in Seq(Entries) /\ Len(list) \in Nat /\ nTx \in Nat /\ faults \in Nat /\ wi \in Nat
  BY DEF TypeInv
<1>3. CASE FetchFails \/ SkipSender \/ NoKey
  <2>1. /\ wi < Len(list) /\ wi' = wi + 1 /\ sweep' = {} /\ wpc' = "fetch"
        /\ UNCHANGED nTx
        /\ UNCHANGED faults \/ (faults < MaxFaults /\ faults' = faults + 1)
    BY <1>3 DEF FetchFails, SkipSender, NoKey, Fetching, NextSender, Fault, accountVars
  <2> QED BY <1>1, <1>2, <2>1 DEF TypeInv
<1>4. CASE BuildSweep
  <2>1. /\ wi < Len(list) /\ UNCHANGED <<wi, nTx, faults>> /\ wpc' = "submit"
        /\ sweep' # {} /\ nTx < MaxTx
    BY <1>4 DEF BuildSweep, Fetching, accountVars
  <2> QED BY <1>1, <1>2, <2>1 DEF TypeInv
<1>5. CASE SubmitSweep \/ SubmitSweepFails
  <2>1. \A tx \in sweep : tx.id = nTx + 1
    BY DEF FlowInv, Turns
  <2>2. /\ wpc = "submit" /\ wi' = wi + 1 /\ sweep' = {} /\ wpc' = "fetch"
        /\ nTx' \in {nTx, nTx + 1}
        /\ UNCHANGED faults \/ (faults < MaxFaults /\ faults' = faults + 1)
    BY <1>5, <2>1 DEF SubmitSweep, SubmitSweepFails, NextSender, Fault, Deliver
  <2>3. wi < Len(list) /\ nTx < MaxTx
    BY <2>2 DEF TypeInv
  <2>4. coins' \subseteq [tx : 0 .. nTx, idx : Nat, owner : {Wallet}, amount : Nat]'
    BY <1>1, <1>2, <2>2, CoinsKept
  <2> QED BY <1>1, <1>2, <2>2, <2>3, <2>4 DEF TypeInv
<1>6. CASE EndWithdraw
  <2>1. wpc = "fetch" /\ wpc' = "idle" /\ UNCHANGED <<wi, sweep, nTx, faults>>
    BY <1>6 DEF EndWithdraw, accountVars
  <2> QED BY <1>1, <1>2, <2>1 DEF TypeInv
<1> QED BY <1>3, <1>4, <1>5, <1>6 DEF WithdrawStep

LEMMA NextType ==
  ASSUME KeyInv, FlowInv, MoneyInv, PrefixInv, ReachInv, TypeInv, ReachInv', [Next]_vars
  PROVE  TypeInv'
<1> USE BoundsTyped
<1>1. CASE UNCHANGED <<accountVars, fundVars, withdrawVars>>
  BY <1>1 DEF TypeInv, accountVars, fundVars, withdrawVars
<1>2. ASSUME NEW names \in NameSets, NEW a \in Amounts, StartFund(names, a),
             UNCHANGED withdrawVars
      PROVE  TypeInv'
  <2>1. /\ Loadable /\ NamesKnown(names)
        /\ targets' = [i \in DOMAIN Chosen(names) |-> files[Chosen(names)[i].file].key]
        /\ batchStart' = 0 /\ coins' = {}
        /\ UNCHANGED <<nTx, faults>>
    BY <1>2 DEF StartFund, accountVars
  <2>2. targets' \in Seq(Nat)
    BY DEF ReachInv
  <2>3. Chosen(names) \in Seq(Entries) /\ Len(Chosen(names)) > 0
    BY <2>1, ChosenSomebody
  <2>4. Len(targets') \in Nat /\ Len(targets') > 0
    BY <2>1, <2>2, <2>3
  <2>5. UNCHANGED <<wpc, list, wi, sweep>>
    BY <1>2 DEF withdrawVars
  <2> QED BY <2>1, <2>2, <2>4, <2>5 DEF TypeInv
<1>3. ASSUME NEW names \in NameSets, StartWithdraw(names), UNCHANGED fundVars
      PROVE  TypeInv'
  <2>1. /\ Loadable /\ NamesKnown(names) /\ list' = Chosen(names) /\ wi' = 0
        /\ sweep' = {} /\ wpc' = "fetch" /\ UNCHANGED <<nTx, faults>>
    BY <1>3 DEF StartWithdraw, accountVars
  <2>2. list' \in Seq(Entries) /\ Len(list') \in Nat
    BY <2>1, ChosenSomebody
  <2>3. UNCHANGED <<fpc, targets, batchStart, coins>>
    BY <1>3 DEF fundVars
  <2> QED BY <2>1, <2>2, <2>3 DEF TypeInv
<1>4. CASE Command
  BY <1>1, <1>2, <1>3, <1>4 DEF Command
<1>5. CASE Settle /\ UNCHANGED <<fundVars, withdrawVars>>
  BY <1>5 DEF Settle, fundVars, withdrawVars, TypeInv
<1>6. CASE FundStep /\ UNCHANGED withdrawVars
  BY <1>6, FundStepType
<1>7. CASE WithdrawStep /\ UNCHANGED fundVars
  BY <1>7, WithdrawStepType
<1> QED BY <1>1, <1>4, <1>5, <1>6, <1>7 DEF Next, vars

\* An output of the ledger is worth something, and fits an unsigned amount.
LEMMA AmountsFit ==
  ASSUME MoneyInv, NEW c \in utxo
  PROVE  c \in CoinType /\ c.amount \in 1 .. (Modulus - 1)
<1>1. Coins(utxo) /\ Worth(utxo) < Modulus /\ Modulus \in Nat
  BY AmountsTyped DEF MoneyInv
<1>2. c \in CoinType /\ {c} \in SUBSET utxo
  BY <1>1 DEF Coins
<1>3. c.amount \in Nat /\ c.amount > 0
  BY <1>2 DEF CoinType
<1>4. Worth({c}) = c.amount
  BY <1>3, WorthSingle
<1>5. Worth(utxo \ {c}) \in Nat /\ Worth(utxo) = Worth({c}) + Worth(utxo \ {c})
  BY <1>1, <1>2, CoinsWorth
<1> QED BY <1>1, <1>2, <1>3, <1>4, <1>5

\* Type correctness of a session: the positions of the two commands stay within
\* their lists, every output of the ledger is owned by a key that was generated
\* or by the wallet, and its amount fits.
THEOREM SessionTypeCorrect == Spec => []CommandsTypeOK
<1>1. ASSUME KeyInv, ReachInv, MoneyInv, PrefixInv, TypeInv
      PROVE  CommandsTypeOK
  <2>1. ASSUME NEW c \in utxo
        PROVE  c.amount \in 1 .. (Modulus - 1) /\ c.owner \in 0 .. lastKey
    <3>1. c \in CoinType /\ c.amount \in 1 .. (Modulus - 1)
      BY <1>1, AmountsFit
    <3>2. lastKey \in Nat /\ c.owner \in Nat
      BY <1>1, <3>1 DEF KeyInv, KeyTypeOK, CoinType
    <3>3. CASE c.owner = Wallet
      BY <3>1, <3>2, <3>3 DEF Wallet
    <3>4. CASE c.owner # Wallet
      <4>1. PICK path \in DOMAIN files : files[path].key = c.owner
        BY <1>1, <3>4 DEF ReachInv, InFlight, Reachable
      <4>2. files[path].key <= lastKey
        BY <1>1 DEF KeyInv, KeysNumbered
      <4> QED BY <3>1, <3>2, <4>1, <4>2
    <3> QED BY <3>3, <3>4
  <2> QED BY <1>1, <2>1 DEF CommandsTypeOK, KeyInv, PrefixInv, TypeInv
<1>2. Init => TypeInv
  BY InitType
<1>3. ASSUME KeyInv, FlowInv, MoneyInv, PrefixInv, ReachInv, TypeInv, ReachInv', [Next]_vars
      PROVE  TypeInv'
  BY <1>3, NextType
<1> QED BY <1>1, <1>2, <1>3, SessionKeyInv, AlwaysReach, FlowInvariant, AlwaysMoney,
           AlwaysPrefix, PTL DEF Spec
=============================================================================
