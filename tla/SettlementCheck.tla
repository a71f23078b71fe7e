-------------------------- MODULE SettlementCheck --------------------------
(***************************************************************************)
(* One bet settled against one score, compared with the betting rules      *)
(* stated independently of the code: as a function of the goal margin      *)
(* measured from the bettor's side.  Handicap bets are a bounded family;   *)
(* Backtest adds the 1x2 bets the ledger places, and what follows them.    *)
(***************************************************************************)
EXTENDS Settlement

CONSTANTS MaxGoals,    \* scores are 0 .. MaxGoals
          HandicapLines,       \* handicap lines offered, in quarter goals
          OddsSet,     \* hundredths
          Stakes       \* whole HKD

ASSUME SettlementBounds ==
  /\ MaxGoals \in Nat
  /\ HandicapLines \subseteq Int
  /\ OddsSet \subseteq Nat \ (0 .. 100)
  /\ Stakes \subseteq Nat \ {0}
  /\ NoLine \notin Int

VARIABLES bet, score, tie, settled
betVars == <<bet, score, tie, settled>>

Unsettled == [status |-> "pending", payout |-> 0]

HandicapBets == [target : {"handicap"}, outcome : OutcomesHandicap, line : HandicapLines,
                 odds : OddsSet, stake : Stakes]

Settle ==
  /\ settled = Unsettled
  /\ settled' = SettleBet(bet, score.home, score.away, tie)
  /\ UNCHANGED <<bet, score, tie>>

-----------------------------------------------------------------------------
IsSettled == settled # Unsettled

\* The margin of the bet in quarter goals, seen from the side it backs.
Margin ==
  LET home == 4 * (score.home - score.away) + bet.line
  IN  IF bet.outcome = "H" THEN home ELSE -home

\* Asian handicap by margin: half a goal clear wins all, a quarter wins half.
StatusByMargin(margin) ==
  CASE margin >= 2  -> "won"
    [] margin = 1   -> "half_won"
    [] margin = 0   -> "push"
    [] margin = -1  -> "half_lost"
    [] margin <= -2 -> "lost"

\* The exact dividend in half-cents, from the status alone.
ExactHalfCents(b, status) ==
  CASE status = "won"       -> 2 * b.stake * b.odds
    [] status = "half_won"  -> b.stake * b.odds + b.stake * 100
    [] status = "push"      -> 2 * b.stake * 100
    [] status = "half_lost" -> b.stake * 100
    [] status = "lost"      -> 0

\* A handicap bet gets the status its goal margin earns on the Asian handicap
\* scale, through either branch of _settle_handicap (whole or half line, or
\* two half-stakes); a 1x2 bet never pushes or splits.
StatusFollowsMargin ==
  IsSettled =>
    IF bet.target = "handicap" THEN settled.status = StatusByMargin(Margin)
    ELSE settled.status \in {"won", "lost"}

\* The exact dividend to the nearest ten cents, ties up.  Only half a stake of
\* a quarter line has half-cents, and _round_dividend takes them to a cent
\* first: half a cent under a tie may come out a dime more.
PaysNearestDime(b, result) ==
  LET exact == ExactHalfCents(b, result.status)
      dime  == (exact + 10) \div 20
  IN  \/ result.payout = dime
      \/ /\ b.target = "handicap" /\ ~IsWholeOrHalf(b.line)
         /\ exact % 20 = 9
         /\ result.payout = dime + 1

\* On every line the payout is the exact dividend rounded to the nearest ten
\* cents with ties up, whatever the floating-point error of stake * odds; the
\* one way to be a dime out is half a cent under a tie, on a quarter line.
DividendNearestDime == IsSettled => PaysNearestDime(bet, settled)
=============================================================================
