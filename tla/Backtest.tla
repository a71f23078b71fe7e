------------------------------ MODULE Backtest ------------------------------
(***************************************************************************)
(* The backtest (app/ml/backtest.py) beside what it replays: one outcome   *)
(* of a 1x2 match, served against the market of the prior lead             *)
(* (app/ml/predict.py), bet on at the latest price before kickoff          *)
(* (place_bets), settled against the score, and read back by the backtest  *)
(* from the same market.  Handicap bets are settled beside it, as in       *)
(* SettlementCheck; the backtest refuses that target.                      *)
(*                                                                         *)
(* Units as in Staking; a bet's return per unit staked is in hundredths.   *)
(***************************************************************************)
EXTENDS SettlementCheck, Staking

CONSTANTS Priors,      \* the books the prior lead may have found
          Prices,      \* HKJC's latest price of the outcome, or Nothing
          Closes,      \* football-data's, or Nothing
          Probs,       \* the blended probability of the outcome
          Banks,       \* the bankroll of the batch
          Waiting,     \* the bet before place_bets has run
          Unreported,  \* the report before the backtest has
          Nothing      \* no prior, no price, no market, no bet, no selection

VARIABLES market, report
btVars == <<betVars, market, report>>

Markets == [outcome : Outcomes1x2, prior : Priors \cup {Nothing}, price : Prices,
            close : Closes, prob : Probs, bank : Banks]

Bet1x2 == [target : {"1x2"}, outcome : Outcomes1x2, line : {NoLine},
           odds : Prices \ {Nothing}, stake : Nat]

\* A fraction of the bankroll, and the return per unit staked.
Reports == [fraction : [num : Nat, den : Nat \ {0}],
            payout : (Prices \cup Closes \cup {0}) \ {Nothing}]

ASSUME BacktestAssumption ==
  /\ \A book \in Priors : DOMAIN book = Outcomes1x2 /\ \A o \in Outcomes1x2 : book[o] \in Nat \ (0 .. 100)
  /\ (Prices \cup Closes) \ {Nothing} \subseteq Nat \ (0 .. 100)
  /\ Probs \subseteq 1 .. 99 /\ Banks \subseteq Nat
  /\ Nothing \notin Markets \cup HandicapBets \cup Bet1x2 \cup Reports \cup {0, Waiting, Unreported}
  /\ Waiting \notin HandicapBets \cup Bet1x2 /\ Unreported \notin Reports

BacktestTypeOK ==
  /\ market \in Markets \cup {Nothing}
  /\ bet \in IF market = Nothing THEN HandicapBets ELSE Bet1x2 \cup {Waiting, Nothing}
  /\ score \in [home : 0 .. MaxGoals, away : 0 .. MaxGoals] /\ tie \in BOOLEAN
  /\ settled \in {Unsettled} \cup [status : FinalStatus, payout : Nat]
  /\ report \in Reports \cup {Nothing, Unreported}

-----------------------------------------------------------------------------
(* Serving and placing.                                                    *)

\* _rows_for: recommended_fraction > 0.
Signalled(c) ==
  /\ c.prior # Nothing
  /\ IsValue(c.prob, c.prior, c.outcome)
  /\ ClearsBuffer(c.prob, c.prior[c.outcome])

\* place_bets takes the signal at the price obtainable now, HKJC's alone.
Placed(c) ==
  Signalled(c) /\ c.price # Nothing /\ WorthPlacing(c.bank, c.prob, c.price)

PlaceBets ==
  /\ bet = Waiting
  /\ bet' = IF Placed(market)
            THEN [target |-> "1x2", outcome |-> market.outcome, line |-> NoLine,
                  odds |-> market.price,
                  stake |-> SizeStake(market.bank, market.prob, market.price)]
            ELSE Nothing
  /\ UNCHANGED <<score, tie, settled, market, report>>

SettleBets ==
  /\ bet \notin {Waiting, Nothing}
  /\ Settle
  /\ UNCHANGED <<market, report>>

-----------------------------------------------------------------------------
(* The backtest.                                                           *)

\* The latest pre-kickoff price of load_market_priors: HKJC's, else football-data's.
ExecOdds(c) == IF c.price # Nothing THEN c.price ELSE c.close

\* Mutant of PassesValueTest: any positive expectation will do.
PassesUnbuffered(c) ==
  /\ c.prior # Nothing /\ ExecOdds(c) # Nothing
  /\ IsValue(c.prob, c.prior, c.outcome)
  /\ KellyPositive(c.prob, ExecOdds(c))

PassesValueTest(c) ==
  /\ c.prior # Nothing /\ ExecOdds(c) # Nothing
  /\ IsValue(c.prob, c.prior, c.outcome)
  /\ ClearsBuffer(c.prob, ExecOdds(c))

\* min(kelly_fraction * kelly_multiplier, max_stake_fraction).
StakeFraction(prob, price) ==
  LET num == KellyEdge(prob, price) * KellyNum
      den == KellyScale(price) * KellyDen
  IN  IF num * CapDen <= CapNum * den THEN [num |-> num, den |-> den]
      ELSE [num |-> CapNum, den |-> CapDen]

Selected(c, label) ==
  IF ~PassesValueTest(c) THEN Nothing
  ELSE [fraction |-> StakeFraction(c.prob, ExecOdds(c)),
        payout |-> IF label = c.outcome THEN ExecOdds(c) ELSE 0]

RunBacktest ==
  /\ market # Nothing /\ bet # Waiting /\ report = Unreported
  /\ report' = Selected(market, Label1x2(score.home, score.away))
  /\ UNCHANGED <<betVars, market>>

-----------------------------------------------------------------------------
BacktestInit ==
  /\ score \in [home : 0 .. MaxGoals, away : 0 .. MaxGoals]
  /\ tie \in BOOLEAN
  /\ settled = Unsettled /\ report = Unreported
  /\ \/ bet \in HandicapBets /\ market = Nothing
     \/ bet = Waiting /\ market \in Markets

BacktestSpec == BacktestInit /\ [][PlaceBets \/ SettleBets \/ RunBacktest]_btVars

-----------------------------------------------------------------------------
\* What every bet on its way from a market to a payout satisfies.
SettlementInv == BacktestTypeOK /\ StatusFollowsMargin /\ DividendNearestDime

\* "The rule replicated here is exactly the one serving uses" (ml/backtest.py),
\* as far as it is so.  While the price stays what it was at the prior lead, the
\* backtest selects the signals the ledger bets on; it misses a bet only when the
\* price has shortened, and counts one nobody was offered only when the price has
\* lengthened or is not HKJC's.  On a bet both made, the backtest's fraction of
\* the bankroll is the stake, and its return is what was paid, to the dime.
BacktestSeesTheLedger ==
  (market # Nothing /\ report # Unreported) =>
    LET c == market
    IN  /\ (bet # Nothing /\ report = Nothing) => c.price < c.prior[c.outcome]
        /\ (report # Nothing /\ ~Signalled(c)) =>
              c.price = Nothing \/ c.price > c.prior[c.outcome]
        /\ (bet # Nothing /\ report # Nothing) =>
              bet.stake = (c.bank * report.fraction.num) \div (10 * report.fraction.den)
        /\ (bet # Nothing /\ report # Nothing /\ IsSettled) =>
              10 * settled.payout - bet.stake * report.payout \in -5 .. 5
=============================================================================
