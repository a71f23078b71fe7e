----------------------------- MODULE Settlement -----------------------------
(***************************************************************************)
(* How one paper bet is settled against a final score: the labels of       *)
(* app/ml/labels.py and the payout rules of app/services/ledger.py.        *)
(*                                                                         *)
(* Units, so that every number is an integer: a handicap line is counted   *)
(* in quarter goals (-0.75 is -3), odds in hundredths (1.85 is 185), a     *)
(* stake in whole HKD (the ledger only stakes whole dollars), and a payout *)
(* in dimes, the ten cents HKJC rounds a dividend to.  Half a stake times  *)
(* two-decimal odds is a whole number of half-cents, the finest amount the *)
(* code ever handles.                                                      *)
(***************************************************************************)
EXTENDS Integers

CONSTANT NoLine      \* the line of a 1x2 bet (NULL in ledger_bets)

\* "pending" is the status of an open bet; the others are final.
FinalStatus == {"won", "half_won", "push", "half_lost", "lost"}

Outcomes1x2 == {"H", "D", "A"}
OutcomesHandicap == {"H", "A"}
OutcomesOf(target) == IF target = "handicap" THEN OutcomesHandicap ELSE Outcomes1x2

-----------------------------------------------------------------------------
Label1x2(home, away) ==
  IF home > away THEN "H" ELSE IF home < away THEN "A" ELSE "D"

IsWholeOrHalf(line) == line % 2 = 0

\* A quarter line is two half-stakes on its two neighbouring lines.
QuarterHalves(line) == <<line - 1, line + 1>>

\* Mutant of HandicapLabel: a level handicap goes to the home side.
HandicapLabelNoPush(home, away, line) ==
  IF ~IsWholeOrHalf(line) THEN "none"
  ELSE IF 4 * (home - away) + line >= 0 THEN "H" ELSE "A"

\* The side that covers the line, or "none": a push, or a quarter line, which
\* has no single label.
HandicapLabel(home, away, line) ==
  LET adjusted == 4 * (home - away) + line
  IN  IF ~IsWholeOrHalf(line) \/ adjusted = 0 THEN "none"
      ELSE IF adjusted > 0 THEN "H" ELSE "A"

-----------------------------------------------------------------------------
\* round(amount * 100): exact on whole cents.  A half-cent amount has no exact
\* double, so which neighbour it is rounded to depends on the representation
\* error of this amount; tie says which way it goes.
RoundCents(halfCents, tie) ==
  IF halfCents % 2 = 1 /\ tie THEN halfCents \div 2 + 1 ELSE halfCents \div 2

\* Rule 2.19(a): to the nearest ten cents, half up.  In dimes.
RoundDividend(halfCents, tie) == (RoundCents(halfCents, tie) + 5) \div 10

\* The result of one half-stake, and what it returns in half-cents.
HalfResult(bet, home, away, halfLine) ==
  LET cover == HandicapLabel(home, away, halfLine)
  IN  IF cover = "none" THEN "push"
      ELSE IF cover = bet.outcome THEN "won" ELSE "lost"

HalfPayout(bet, result) ==
  IF result = "push" THEN bet.stake * 100
  ELSE IF result = "won" THEN bet.stake * bet.odds ELSE 0

QuarterStatus(results) ==
  IF results = {"won"} THEN "won"
  ELSE IF results = {"lost"} THEN "lost"
  ELSE IF results = {"push"} THEN "push"
  ELSE IF "won" \in results THEN "half_won" ELSE "half_lost"

SettleQuarter(bet, home, away, tie) ==
  LET halves == QuarterHalves(bet.line)
      first  == HalfResult(bet, home, away, halves[1])
      second == HalfResult(bet, home, away, halves[2])
  IN  [status |-> QuarterStatus({first, second}),
       payout |-> RoundDividend(HalfPayout(bet, first) + HalfPayout(bet, second), tie)]

\* What a winning bet is paid, and what a push returns, unrounded.
Won(bet, tie) == [status |-> "won",
                  payout |-> RoundDividend(2 * bet.stake * bet.odds, tie)]
Push(bet)     == [status |-> "push", payout |-> 10 * bet.stake]
Lost          == [status |-> "lost", payout |-> 0]

SettleHandicap(bet, home, away, tie) ==
  IF bet.line = NoLine THEN Push(bet)
  ELSE IF ~IsWholeOrHalf(bet.line) THEN SettleQuarter(bet, home, away, tie)
  ELSE LET cover == HandicapLabel(home, away, bet.line)
       IN  IF cover = "none" THEN Push(bet)
           ELSE IF cover = bet.outcome THEN Won(bet, tie) ELSE Lost

Settle1x2(bet, home, away, tie) ==
  IF Label1x2(home, away) = bet.outcome THEN Won(bet, tie) ELSE Lost

SettleBet(bet, home, away, tie) ==
  IF bet.target = "handicap" THEN SettleHandicap(bet, home, away, tie)
  ELSE Settle1x2(bet, home, away, tie)
=============================================================================
