------------------------------- MODULE Staking -------------------------------
(***************************************************************************)
(* From a probability and a book of odds to a stake: the de-vig            *)
(* (app/ml/deviq.py), the value test of a served prediction                *)
(* (app/ml/predict.py), the Kelly fraction (app/ml/value.py) and the stake *)
(* rule of the ledger (_size_stake in app/services/ledger.py).             *)
(*                                                                         *)
(* Probabilities are percentages, odds hundredths, a bankroll is in dimes  *)
(* and a stake in whole HKD.  A Kelly fraction is the exact rational       *)
(* Edge / KellyScale, so the floor in _size_stake is taken of the exact    *)
(* product; the code takes it of the double nearest to it.                 *)
(***************************************************************************)
EXTENDS Integers, Functions

CONSTANTS KellyNum, KellyDen,   \* ledger_kelly_multiplier = KellyNum / KellyDen
          CapNum, CapDen,       \* ledger_max_stake_fraction = CapNum / CapDen
          MinStake,             \* ledger_min_stake, HKD
          EdgeThreshold,        \* ml_value_edge_threshold, percent
          ExecBuffer            \* ml_exec_edge_buffer, percent

ASSUME StakingAssumption ==
  /\ KellyNum \in Nat /\ KellyDen \in Nat \ {0}
  /\ CapNum \in Nat /\ CapDen \in Nat \ {0}
  /\ MinStake \in Nat \ {0}
  /\ EdgeThreshold \in Nat /\ ExecBuffer \in Nat

-----------------------------------------------------------------------------
(* De-vig.  The fair probability of an outcome is (1/odds) over the sum of *)
(* the (1/odds): with the denominators cleared, the product of the other   *)
(* odds over the sum of those products.                                    *)
OddsOfOthers(odds, o) ==
  FoldFunctionOnSet(LAMBDA a, b : a * b, 1, odds, DOMAIN odds \ {o})

Overround(odds) == SumFunction([o \in DOMAIN odds |-> OddsOfOthers(odds, o)])

\* edge > threshold, where edge = prob - fair probability.
IsValue(prob, odds, o) ==
  (prob - EdgeThreshold) * Overround(odds) > 100 * OddsOfOthers(odds, o)

\* prob * market_odds > 1 + exec_edge_buffer.
ClearsBuffer(prob, price) == prob * price > 100 * (100 + ExecBuffer)

-----------------------------------------------------------------------------
\* kelly_fraction = (b*p - q) / b = KellyEdge / KellyScale; 0 unless positive.
KellyEdge(prob, price)  == prob * price - 10000
KellyScale(price)       == 100 * (price - 100)
KellyPositive(prob, price) == price > 100 /\ KellyEdge(prob, price) > 0

Cap(bank) == (CapNum * bank) \div (10 * CapDen)

\* floor(bankroll * fraction * multiplier), in HKD from a bankroll in dimes.
RawStake(bank, prob, price) ==
  (bank * KellyEdge(prob, price) * KellyNum)
     \div (10 * KellyScale(price) * KellyDen)

\* Mutant of SizeStake: no cap.
SizeStakeUncapped(bank, prob, price) == RawStake(bank, prob, price)

SizeStake(bank, prob, price) ==
  IF RawStake(bank, prob, price) <= Cap(bank)
  THEN RawStake(bank, prob, price) ELSE Cap(bank)

\* None from _size_stake: the bet is skipped, never raised to the minimum.
WorthPlacing(bank, prob, price) ==
  KellyPositive(prob, price) /\ SizeStake(bank, prob, price) >= MinStake
=============================================================================
