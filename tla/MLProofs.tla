------------------------------ MODULE MLProofs ------------------------------
(***************************************************************************)
(* The machine-learning side, app/ml.  Of Backtest: a bet settles as the   *)
(* betting rules say, and the backtest sees what the ledger did.  Of       *)
(* Training: what a row of features is made of, what the slices of a split *)
(* know of each other, and what the champion knows of the rows it is       *)
(* evaluated on.  For any prices, lines, stakes, calendars, windows and    *)
(* fractions, and any number of matches and teams.                         *)
(***************************************************************************)
EXTENDS Backtest, Training, FiniteSetTheorems, WellFoundedInduction, TLAPS

-----------------------------------------------------------------------------
(* Arithmetic.                                                             *)

\* What floor division returns.
LEMMA Floor ==
  ASSUME NEW a \in Int, NEW d \in Nat \ {0}
  PROVE  (a \div d) \in Int /\ d * (a \div d) <= a /\ a < d * (a \div d) + d
OBVIOUS

\* A factor that is no less gives a product that is no less.
LEMMA Factor ==
  ASSUME NEW c \in Nat, NEW x \in Int, NEW y \in Int, x <= y
  PROVE  c * x <= c * y
OBVIOUS

\* And a positive factor can be taken out.
LEMMA Cancel ==
  ASSUME NEW c \in Nat \ {0}, NEW x \in Int, NEW y \in Int, c * x <= c * y
  PROVE  x <= y
<1> SUFFICES ASSUME y + 1 <= x PROVE FALSE
  OBVIOUS
<1>1. c * (y + 1) <= c * x
  BY Factor
<1>2. c * (y + 1) = c * y + c /\ c * x \in Int /\ c * y \in Int
  OBVIOUS
<1> QED BY <1>1, <1>2

\* A bound of a floor.
LEMMA FloorBelow ==
  ASSUME NEW a \in Int, NEW d \in Nat \ {0}, NEW q \in Int, a < d * q + d
  PROVE  (a \div d) <= q
<1> DEFINE r == a \div d
<1>1. r \in Int /\ d * r <= a
  BY Floor
<1> HIDE DEF r
<1>2. SUFFICES ASSUME q + 1 <= r PROVE FALSE
  BY <1>1 DEF r
<1>3. d * (q + 1) <= d * r
  BY <1>1, <1>2, Factor
<1>4. d * (q + 1) = d * q + d /\ d * q \in Int /\ d * r \in Int
  BY <1>1
<1> QED BY <1>1, <1>3, <1>4

\* One part in d grows no faster than the whole, and by k when the whole grows
\* by d times k.
LEMMA ShareGrows ==
  ASSUME NEW a \in Nat, NEW x \in Nat, NEW d \in Nat \ {0}
  PROVE  /\ ((a + x) \div d) <= (a \div d) + x
         /\ \A k \in Nat : x <= d * k => ((a + x) \div d) <= (a \div d) + k
<1> DEFINE q == a \div d
<1>1. q \in Int /\ a < d * q + d
  BY Floor
<1> HIDE DEF q
<1>2. ASSUME NEW k \in Nat, x <= d * k PROVE ((a + x) \div d) <= q + k
  <2>1. d * (q + k) = d * q + d * k /\ d * q \in Int /\ d * k \in Int
    BY <1>1
  <2>2. a + x < d * (q + k) + d
    BY <1>1, <1>2, <2>1
  <2> QED BY <1>1, <2>2, FloorBelow
<1>3. x <= d * x
  <2>1. x * 1 <= x * d
    BY Factor
  <2>2. x * d = d * x
    OBVIOUS
  <2> QED BY <2>1, <2>2
<1> QED BY <1>2, <1>3 DEF q

\* The smaller fraction has the smaller floor.
LEMMA FloorOfFraction ==
  ASSUME NEW a \in Int, NEW b \in Int, NEW d \in Nat \ {0}, NEW e \in Nat \ {0}, a * e <= b * d
  PROVE  (a \div d) <= (b \div e)
<1> DEFINE q == a \div d
           r == b \div e
<1>1. q \in Int /\ r \in Int /\ d * q <= a /\ b < e * r + e
  BY Floor
<1> HIDE DEF q, r
<1>2. SUFFICES ASSUME r + 1 <= q PROVE FALSE
  BY <1>1 DEF q, r
<1>3. e * (d * q) <= e * a
  BY <1>1, Factor
<1>4. e * a = a * e /\ e * (d * q) = d * (e * q) /\ b * d = d * b
  BY <1>1
<1>5. d * (e * q) <= d * b
  <2>1. e * (d * q) \in Int /\ e * a \in Int /\ b * d \in Int
    BY <1>1
  <2> QED BY <1>3, <1>4, <2>1
<1>6. e * q <= b
  <2>1. e * q \in Int
    BY <1>1
  <2> QED BY <1>5, <2>1, Cancel
<1>7. e * (r + 1) <= e * q
  BY <1>1, <1>2, Factor
<1>8. e * (r + 1) = e * r + e /\ e * q \in Int /\ e * r \in Int
  BY <1>1
<1> QED BY <1>1, <1>6, <1>7, <1>8

-----------------------------------------------------------------------------
(* Settlement.                                                             *)

\* A bet that can be settled: its line is a number, or it is a 1x2 bet.
Settleable(b) ==
  /\ b.stake \in Nat /\ b.odds \in Nat
  /\ \/ b.target = "handicap" /\ b.line \in Int /\ b.line # NoLine /\ b.outcome \in OutcomesHandicap
     \/ b.target = "1x2" /\ b.outcome \in Outcomes1x2

\* A whole number of cents is not rounded; a dividend of dimes is their nearest number.
LEMMA WholeCents ==
  ASSUME NEW n \in Nat, NEW up \in BOOLEAN
  PROVE  /\ RoundCents(2 * n, up) = n
         /\ RoundDividend(2 * n, up) = (2 * n + 10) \div 20
         /\ RoundDividend(2 * n, up) = (n + 5) \div 10
         /\ RoundDividend(2 * n, up) \in Nat
<1>1. (2 * n) % 2 = 0 /\ (2 * n) \div 2 = n
  OBVIOUS
<1>2. RoundCents(2 * n, up) = n
  BY <1>1 DEF RoundCents
<1>3. (n + 5) \div 10 = (2 * n + 10) \div 20 /\ (n + 5) \div 10 \in Nat
  OBVIOUS
<1> QED BY <1>2, <1>3 DEF RoundDividend

\* Any number of half-cents is rounded to a natural number of dimes.
LEMMA SomeDimes ==
  ASSUME NEW n \in Nat, NEW up \in BOOLEAN
  PROVE  RoundDividend(n, up) \in Nat
<1>1. RoundCents(n, up) \in Nat
  BY DEF RoundCents
<1> QED BY <1>1 DEF RoundDividend

\* Which side covers a whole or half line, in terms of the goal margin.
LEMMA Cover ==
  ASSUME NEW home \in Nat, NEW away \in Nat, NEW line \in Int, line % 2 = 0
  PROVE  HandicapLabel(home, away, line) =
           IF 4 * (home - away) + line = 0 THEN "none"
           ELSE IF 4 * (home - away) + line > 0 THEN "H" ELSE "A"
BY DEF HandicapLabel, IsWholeOrHalf

\* The margin of a bet, seen from the side it backs.
MarginOf(b, home, away) ==
  IF b.outcome = "H" THEN 4 * (home - away) + b.line ELSE -(4 * (home - away) + b.line)

\* What a half-stake on a whole or half line returns.
LEMMA HalfByMargin ==
  ASSUME NEW b, b.outcome \in OutcomesHandicap,
         NEW home \in Nat, NEW away \in Nat, NEW line \in Int, line % 2 = 0
  PROVE  HalfResult(b, home, away, line) =
           LET adjusted == 4 * (home - away) + line
           IN  IF adjusted = 0 THEN "push"
               ELSE IF b.outcome = "H" THEN IF adjusted > 0 THEN "won" ELSE "lost"
               ELSE IF adjusted < 0 THEN "won" ELSE "lost"
<1> DEFINE adjusted == 4 * (home - away) + line
<1>1. adjusted \in Int
  OBVIOUS
<1>2. HandicapLabel(home, away, line) =
        IF adjusted = 0 THEN "none" ELSE IF adjusted > 0 THEN "H" ELSE "A"
  BY Cover
<1> HIDE DEF adjusted
<1>3. CASE adjusted = 0
  <2>1. HandicapLabel(home, away, line) = "none"
    BY <1>2, <1>3
  <2> QED BY <1>3, <2>1 DEF HalfResult, adjusted
<1>4. CASE adjusted > 0
  <2>1. HandicapLabel(home, away, line) = "H" /\ adjusted # 0
    BY <1>1, <1>2, <1>4
  <2> QED BY <1>4, <2>1 DEF HalfResult, OutcomesHandicap, adjusted
<1>5. CASE ~(adjusted > 0) /\ adjusted # 0
  <2>1. HandicapLabel(home, away, line) = "A"
    BY <1>2, <1>5
  <2> QED BY <1>5, <2>1 DEF HalfResult, OutcomesHandicap, adjusted
<1> QED BY <1>3, <1>4, <1>5

\* Rounding half-cents: the nearest dime, or one more half a cent under a tie.
LEMMA HalfCents ==
  ASSUME NEW n \in Nat, NEW up \in BOOLEAN
  PROVE  \/ RoundDividend(n, up) = (n + 10) \div 20
         \/ n % 20 = 9 /\ RoundDividend(n, up) = (n + 10) \div 20 + 1
<1> DEFINE cents == RoundCents(n, up)
<1>1. cents = n \div 2 \/ (n % 2 = 1 /\ cents = n \div 2 + 1)
  BY DEF RoundCents
<1>2. (n \div 2 + 5) \div 10 = (n + 10) \div 20
  OBVIOUS
<1>3. n % 2 = 1 => \/ (n \div 2 + 6) \div 10 = (n + 10) \div 20
                   \/ n % 20 = 9 /\ (n \div 2 + 6) \div 10 = (n + 10) \div 20 + 1
  OBVIOUS
<1>4. n \div 2 \in Nat
  OBVIOUS
<1>5. RoundDividend(n, up) = (cents + 5) \div 10
  BY DEF RoundDividend
<1> HIDE DEF cents
<1>6. CASE cents = n \div 2
  BY <1>2, <1>5, <1>6
<1>7. CASE n % 2 = 1 /\ cents = n \div 2 + 1
  <2>1. cents + 5 = n \div 2 + 6
    BY <1>4, <1>7
  <2> QED BY <1>3, <1>5, <1>7, <2>1
<1> QED BY <1>1, <1>6, <1>7

\* A quarter line: half the stake on each neighbour, the status of the margin,
\* and the two halves' payouts add up to the exact dividend of that status.
LEMMA QuarterByMargin ==
  ASSUME NEW b, b.outcome \in OutcomesHandicap, b.line \in Int, b.line % 2 # 0,
         b.stake \in Nat, b.odds \in Nat,
         NEW home \in Nat, NEW away \in Nat, NEW up \in BOOLEAN
  PROVE  LET paid == SettleQuarter(b, home, away, up)
         IN  /\ paid.status = StatusByMargin(MarginOf(b, home, away))
             /\ paid.payout = RoundDividend(ExactHalfCents(b, paid.status), up)
<1> DEFINE a == 4 * (home - away) + b.line
           first  == HalfResult(b, home, away, b.line - 1)
           second == HalfResult(b, home, away, b.line + 1)
           m == MarginOf(b, home, away)
           paid == SettleQuarter(b, home, away, up)
           sum == HalfPayout(b, first) + HalfPayout(b, second)
<1>1. (b.line - 1) % 2 = 0 /\ (b.line + 1) % 2 = 0 /\ b.line - 1 \in Int /\ b.line + 1 \in Int
  OBVIOUS
<1>2. 4 * (home - away) + (b.line - 1) = a - 1 /\ 4 * (home - away) + (b.line + 1) = a + 1
  OBVIOUS
<1>3. /\ first = (IF a - 1 = 0 THEN "push"
                  ELSE IF b.outcome = "H" THEN IF a - 1 > 0 THEN "won" ELSE "lost"
                  ELSE IF a - 1 < 0 THEN "won" ELSE "lost")
      /\ second = (IF a + 1 = 0 THEN "push"
                   ELSE IF b.outcome = "H" THEN IF a + 1 > 0 THEN "won" ELSE "lost"
                   ELSE IF a + 1 < 0 THEN "won" ELSE "lost")
  BY <1>1, <1>2, HalfByMargin
<1>4. a \in Int /\ a # 0 /\ a # 2 /\ a # -2
  <2>1. a % 2 # 0
    OBVIOUS
  <2>2. a \in Int
    OBVIOUS
  <2> HIDE DEF a
  <2> QED BY <2>1, <2>2
<1>5. paid.status = QuarterStatus({first, second}) /\ paid.payout = RoundDividend(sum, up)
  BY DEF SettleQuarter, QuarterHalves
<1>6. m = IF b.outcome = "H" THEN a ELSE -a
  BY DEF MarginOf
<1> HIDE DEF a, first, second, m, paid
<1>7. m \in Int /\ m # 0 /\ m # 2 /\ m # -2
  BY <1>4, <1>6
<1>8. /\ first = "won" /\ second = "won" => m >= 2
      /\ {first, second} = {"push", "won"} => m = 1
      /\ {first, second} = {"push", "lost"} => m = -1
      /\ first = "lost" /\ second = "lost" => m <= -2
      /\ \/ first = "won" /\ second = "won"
         \/ {first, second} = {"push", "won"}
         \/ {first, second} = {"push", "lost"}
         \/ first = "lost" /\ second = "lost"
  <2>0. a >= 3 \/ a = 1 \/ a = -1 \/ a <= -3
    BY <1>4
  <2>1. CASE b.outcome = "H"
    <3>1. m = a
      BY <1>6, <2>1
    <3>2. CASE a >= 3
      <4>1. first = "won" /\ second = "won"
        BY <1>3, <1>4, <2>1, <3>1, <3>2
      <4> QED BY <1>4, <3>1, <3>2, <4>1
    <3>3. CASE a = 1
      <4>1. first = "push" /\ second = "won"
        BY <1>3, <1>4, <2>1, <3>1, <3>3
      <4> QED BY <1>4, <3>1, <3>3, <4>1
    <3>4. CASE a = -1
      <4>1. first = "lost" /\ second = "push"
        BY <1>3, <1>4, <2>1, <3>1, <3>4
      <4> QED BY <1>4, <3>1, <3>4, <4>1
    <3>5. CASE a <= -3
      <4>1. first = "lost" /\ second = "lost"
        BY <1>3, <1>4, <2>1, <3>1, <3>5
      <4> QED BY <1>4, <3>1, <3>5, <4>1
    <3> QED BY <2>0, <3>2, <3>3, <3>4, <3>5
  <2>2. CASE b.outcome = "A"
    <3>1. m = -a /\ b.outcome # "H"
      BY <1>6, <2>2
    <3>2. CASE a >= 3
      <4>1. first = "lost" /\ second = "lost"
        BY <1>3, <1>4, <2>2, <3>1, <3>2
      <4> QED BY <1>4, <3>1, <3>2, <4>1
    <3>3. CASE a = 1
      <4>1. first = "push" /\ second = "lost"
        BY <1>3, <1>4, <2>2, <3>1, <3>3
      <4> QED BY <1>4, <3>1, <3>3, <4>1
    <3>4. CASE a = -1
      <4>1. first = "won" /\ second = "push"
        BY <1>3, <1>4, <2>2, <3>1, <3>4
      <4>2. m = 1
        <5>1. m + a = 0
          BY <1>4, <3>1
        <5> QED BY <1>7, <3>4, <5>1
      <4>3. "won" \notin {"push", "lost"} /\ {"won", "push"} = {"push", "won"}
        OBVIOUS
      <4> QED BY <4>1, <4>2, <4>3
    <3>5. CASE a <= -3
      <4>1. first = "won" /\ second = "won"
        BY <1>3, <1>4, <2>2, <3>1, <3>5
      <4> QED BY <1>4, <3>1, <3>5, <4>1
    <3> QED BY <2>0, <3>2, <3>3, <3>4, <3>5
  <2> QED BY <2>1, <2>2 DEF OutcomesHandicap
<1>9. /\ QuarterStatus({"won"}) = "won" /\ QuarterStatus({"lost"}) = "lost"
      /\ QuarterStatus({"push", "won"}) = "half_won"
      /\ QuarterStatus({"push", "lost"}) = "half_lost"
  <2>1. \A x \in {"won", "lost"} : {"push", x} # {"won"} /\ {"push", x} # {"lost"}
    <3> SUFFICES ASSUME NEW x \in {"won", "lost"}, NEW y \in {"won", "lost"}, {"push", x} = {y}
                 PROVE  FALSE
      OBVIOUS
    <3>1. "push" \in {y}
      OBVIOUS
    <3> QED BY <3>1
  <2>2. \A x \in {"won", "lost"} : {"push", x} # {"push"}
    <3> SUFFICES ASSUME NEW x \in {"won", "lost"}, {"push", x} = {"push"} PROVE FALSE
      OBVIOUS
    <3>1. x \in {"push"}
      OBVIOUS
    <3> QED BY <3>1
  <2>3. {"lost"} # {"won"} /\ "won" \notin {"push", "lost"} /\ "won" \in {"push", "won"}
    OBVIOUS
  <2> QED BY <2>1, <2>2, <2>3 DEF QuarterStatus
<1>10. \A x \in {"won", "lost"} : {first, second} = {"push", x} =>
         (first = "push" /\ second = x) \/ (first = x /\ second = "push")
  <2> SUFFICES ASSUME NEW x \in {"won", "lost"}, {first, second} = {"push", x}
               PROVE  (first = "push" /\ second = x) \/ (first = x /\ second = "push")
    OBVIOUS
  <2>1. first \in {"push", x} /\ second \in {"push", x}
    OBVIOUS
  <2>2. "push" \in {first, second} /\ x \in {first, second}
    OBVIOUS
  <2> QED BY <2>1, <2>2
<1>11. /\ HalfPayout(b, "push") = b.stake * 100
      /\ HalfPayout(b, "won") = b.stake * b.odds
      /\ HalfPayout(b, "lost") = 0
      /\ b.stake * b.odds \in Nat /\ 2 * b.stake * b.odds = b.stake * b.odds + b.stake * b.odds
  BY DEF HalfPayout
<1>12. CASE first = "won" /\ second = "won"
  <2>1. {first, second} = {"won"} /\ m >= 2
    BY <1>8, <1>12
  <2>2. paid.status = "won" /\ StatusByMargin(m) = "won"
    <3>1. paid.status = "won"
      BY <1>5, <1>9, <2>1
    <3>2. StatusByMargin(m) = "won"
      BY <1>7, <2>1 DEF StatusByMargin
    <3> QED BY <3>1, <3>2
  <2>3. sum = ExactHalfCents(b, "won")
    BY <1>12, <1>11 DEF ExactHalfCents
  <2> QED BY <1>5, <2>2, <2>3 DEF m, paid
<1>13. CASE {first, second} = {"push", "won"}
  <2>1. m = 1
    BY <1>8, <1>13
  <2>2. paid.status = "half_won" /\ StatusByMargin(m) = "half_won"
    <3>1. paid.status = "half_won"
      BY <1>5, <1>9, <1>13, <2>1
    <3>2. StatusByMargin(m) = "half_won"
      BY <2>1 DEF StatusByMargin
    <3> QED BY <3>1, <3>2
  <2>3. sum = ExactHalfCents(b, "half_won")
    <3>1. (first = "push" /\ second = "won") \/ (first = "won" /\ second = "push")
      BY <1>13, <1>10
    <3> QED BY <1>11, <3>1 DEF ExactHalfCents
  <2> QED BY <1>5, <2>2, <2>3 DEF m, paid
<1>14. CASE {first, second} = {"push", "lost"}
  <2>1. m = -1
    BY <1>8, <1>14
  <2>2. paid.status = "half_lost" /\ StatusByMargin(m) = "half_lost"
    <3>1. paid.status = "half_lost"
      BY <1>5, <1>9, <1>14, <2>1
    <3>2. StatusByMargin(m) = "half_lost"
      BY <2>1 DEF StatusByMargin
    <3> QED BY <3>1, <3>2
  <2>3. sum = ExactHalfCents(b, "half_lost")
    <3>1. (first = "push" /\ second = "lost") \/ (first = "lost" /\ second = "push")
      BY <1>14, <1>10
    <3> QED BY <1>11, <3>1 DEF ExactHalfCents
  <2> QED BY <1>5, <2>2, <2>3 DEF m, paid
<1>15. CASE first = "lost" /\ second = "lost"
  <2>1. {first, second} = {"lost"} /\ m <= -2
    BY <1>8, <1>15
  <2>2. paid.status = "lost" /\ StatusByMargin(m) = "lost"
    <3>1. paid.status = "lost"
      BY <1>5, <1>9, <2>1
    <3>2. StatusByMargin(m) = "lost"
      BY <1>7, <2>1 DEF StatusByMargin
    <3> QED BY <3>1, <3>2
  <2>3. sum = ExactHalfCents(b, "lost")
    BY <1>15, <1>11 DEF ExactHalfCents
  <2> QED BY <1>5, <2>2, <2>3 DEF m, paid
<1> QED BY <1>8, <1>12, <1>13, <1>14, <1>15

\* What a settled bet satisfies, on its own: its status, its dividend.
SettledRightly(b, home, away, result) ==
  /\ result \in [status : FinalStatus, payout : Nat]
  /\ IF b.target = "handicap" THEN result.status = StatusByMargin(MarginOf(b, home, away))
     ELSE result.status \in {"won", "lost"}
  /\ PaysNearestDime(b, result)

\* What a bet that won, was pushed or lost is paid.
LEMMA ThreeResults ==
  ASSUME NEW b, b.stake \in Nat, b.odds \in Nat, NEW up \in BOOLEAN
  PROVE  /\ Won(b, up).status = "won" /\ Push(b).status = "push" /\ Lost.status = "lost"
         /\ \A r \in {Won(b, up), Push(b), Lost} :
              /\ r \in [status : FinalStatus, payout : Nat]
              /\ r.payout = (ExactHalfCents(b, r.status) + 10) \div 20
<1> DEFINE n == b.stake * b.odds
<1>1. n \in Nat /\ 2 * b.stake * b.odds = 2 * n
  OBVIOUS
<1>2. /\ Won(b, up) = [status |-> "won", payout |-> RoundDividend(2 * n, up)]
      /\ ExactHalfCents(b, "won") = 2 * n
  BY <1>1 DEF Won, ExactHalfCents
<1>3. ExactHalfCents(b, "push") = 200 * b.stake /\ ExactHalfCents(b, "lost") = 0
  <2>1. ExactHalfCents(b, "push") = 2 * b.stake * 100 /\ ExactHalfCents(b, "lost") = 0
    BY DEF ExactHalfCents
  <2> QED BY <2>1
<1> HIDE DEF n
<1>4. RoundDividend(2 * n, up) = (2 * n + 10) \div 20 /\ RoundDividend(2 * n, up) \in Nat
  BY <1>1, WholeCents
<1>5. /\ Won(b, up) \in [status : FinalStatus, payout : Nat]
      /\ Won(b, up).payout = (ExactHalfCents(b, Won(b, up).status) + 10) \div 20
      /\ Won(b, up).status = "won"
  BY <1>2, <1>4 DEF FinalStatus
<1>6. /\ Push(b) \in [status : FinalStatus, payout : Nat] /\ Push(b).status = "push"
      /\ Push(b).payout = (ExactHalfCents(b, Push(b).status) + 10) \div 20
  <2>1. 10 * b.stake \in Nat /\ 10 * b.stake = (200 * b.stake + 10) \div 20
    OBVIOUS
  <2> QED BY <1>3, <2>1 DEF Push, FinalStatus
<1>7. /\ Lost \in [status : FinalStatus, payout : Nat] /\ Lost.status = "lost"
      /\ Lost.payout = (ExactHalfCents(b, Lost.status) + 10) \div 20
  <2>1. 0 = (0 + 10) \div 20
    OBVIOUS
  <2> QED BY <1>3, <2>1 DEF Lost, FinalStatus
<1> QED BY <1>5, <1>6, <1>7

\* SettleBet follows the margin, and pays the nearest dime.
LEMMA SettlesRightly ==
  ASSUME NEW b, Settleable(b), NEW home \in Nat, NEW away \in Nat, NEW up \in BOOLEAN
  PROVE  SettledRightly(b, home, away, SettleBet(b, home, away, up))
<1> DEFINE paid == SettleBet(b, home, away, up)
<1>0. b.stake \in Nat /\ b.odds \in Nat
  BY DEF Settleable
<1>1. CASE b.target = "1x2"
  <2>1. paid \in {Won(b, up), Lost} /\ b.target # "handicap"
    BY <1>1 DEF SettleBet, Settle1x2
  <2>2. paid.status \in {"won", "lost"}
    BY <1>0, <2>1, ThreeResults
  <2>3. /\ paid \in [status : FinalStatus, payout : Nat]
        /\ paid.payout = (ExactHalfCents(b, paid.status) + 10) \div 20
    BY <1>0, <2>1, ThreeResults
  <2> HIDE DEF paid
  <2>4. SettledRightly(b, home, away, paid)
    BY <2>1, <2>2, <2>3 DEF SettledRightly, PaysNearestDime
  <2> QED BY <2>4 DEF paid
<1>2. CASE b.target = "handicap"
  <2>0. b.line \in Int /\ b.line # NoLine /\ b.outcome \in OutcomesHandicap
    BY <1>2 DEF Settleable
  <2>1. CASE b.line % 2 = 0
    <3> DEFINE cover == HandicapLabel(home, away, b.line)
               adjusted == 4 * (home - away) + b.line
               m == MarginOf(b, home, away)
    <3>1. paid = IF cover = "none" THEN Push(b)
                 ELSE IF cover = b.outcome THEN Won(b, up) ELSE Lost
      BY <1>2, <2>0, <2>1 DEF SettleBet, SettleHandicap, IsWholeOrHalf
    <3>2. cover = IF adjusted = 0 THEN "none" ELSE IF adjusted > 0 THEN "H" ELSE "A"
      BY <2>0, <2>1, Cover
    <3>3. m = (IF b.outcome = "H" THEN adjusted ELSE -adjusted)
      BY DEF MarginOf
    <3>4. adjusted \in Int /\ adjusted # 1 /\ adjusted # -1
      <4>1. adjusted \in Int
        BY <2>0
      <4>2. adjusted % 2 = 0
        BY <2>0, <2>1
      <4> HIDE DEF adjusted
      <4> QED BY <4>1, <4>2
    <3>5. /\ paid \in [status : FinalStatus, payout : Nat]
          /\ paid.payout = (ExactHalfCents(b, paid.status) + 10) \div 20
      <4>1. paid \in {Won(b, up), Push(b), Lost}
        BY <3>1
      <4> HIDE DEF paid
      <4> QED BY <1>0, <4>1, ThreeResults
    <3>6. paid.status = IF cover = "none" THEN "push"
                        ELSE IF cover = b.outcome THEN "won" ELSE "lost"
      BY <1>0, <3>1, ThreeResults
    <3> HIDE DEF paid, cover, adjusted, m
    <3>7. m \in Int /\ m # 1 /\ m # -1
      BY <3>3, <3>4
    <3>8. /\ cover = "none" => m = 0
          /\ cover # "none" /\ cover = b.outcome => m >= 2
          /\ cover # "none" /\ cover # b.outcome => m <= -2
      <4>1. CASE adjusted = 0
        <5>1. cover = "none"
          BY <3>2, <4>1
        <5>2. m = 0
          <6>1. m = adjusted \/ m + adjusted = 0
            BY <3>3, <3>4
          <6> QED BY <3>7, <4>1, <6>1
        <5> QED BY <5>1, <5>2
      <4>2. CASE adjusted > 0
        <5>1. cover = "H" /\ adjusted >= 2
          BY <3>2, <3>4, <4>2
        <5> QED BY <2>0, <3>3, <3>4, <5>1 DEF OutcomesHandicap
      <4>3. CASE adjusted < 0
        <5>1. cover = "A" /\ adjusted <= -2
          BY <3>2, <3>4, <4>3
        <5> QED BY <2>0, <3>3, <3>4, <5>1 DEF OutcomesHandicap
      <4> QED BY <3>4, <4>1, <4>2, <4>3
    <3>9. paid.status = StatusByMargin(m)
      BY <3>6, <3>7, <3>8 DEF StatusByMargin
    <3>10. SettledRightly(b, home, away, paid)
      BY <1>2, <3>5, <3>9 DEF SettledRightly, PaysNearestDime, m
    <3> QED BY <3>10 DEF paid
  <2>2. CASE b.line % 2 # 0
    <3>1. paid = SettleQuarter(b, home, away, up) /\ ~IsWholeOrHalf(b.line)
      BY <1>2, <2>0, <2>2 DEF SettleBet, SettleHandicap, IsWholeOrHalf
    <3>2. /\ paid.status = StatusByMargin(MarginOf(b, home, away))
          /\ paid.payout = RoundDividend(ExactHalfCents(b, paid.status), up)
      BY <1>0, <2>0, <2>2, <3>1, QuarterByMargin
    <3>3. paid \in [status : FinalStatus, payout : Nat]
      <4>1. \A r1, r2 : HalfPayout(b, r1) + HalfPayout(b, r2) \in Nat
        <5>1. b.stake * 100 \in Nat /\ b.stake * b.odds \in Nat
          BY <1>0
        <5>2. \A r : HalfPayout(b, r) \in Nat
          BY <5>1 DEF HalfPayout
        <5> QED BY <5>2
      <4>2. \A r1, r2 : RoundDividend(HalfPayout(b, r1) + HalfPayout(b, r2), up) \in Nat
        BY <4>1, SomeDimes
      <4>3. \A R : QuarterStatus(R) \in FinalStatus
        BY DEF QuarterStatus, FinalStatus
      <4> QED BY <3>1, <4>2, <4>3 DEF SettleQuarter
    <3> HIDE DEF paid
    <3>4. ExactHalfCents(b, paid.status) \in Nat
      <4>1. /\ 2 * b.stake * b.odds \in Nat /\ b.stake * b.odds + b.stake * 100 \in Nat
            /\ 2 * b.stake * 100 \in Nat /\ b.stake * 100 \in Nat
        BY <1>0
      <4> QED BY <3>3, <4>1 DEF ExactHalfCents, FinalStatus
    <3>5. PaysNearestDime(b, paid)
      BY <1>2, <3>1, <3>2, <3>4, HalfCents DEF PaysNearestDime
    <3>6. SettledRightly(b, home, away, paid)
      BY <1>2, <3>2, <3>3, <3>5 DEF SettledRightly
    <3> QED BY <3>6 DEF paid
  <2> QED BY <2>1, <2>2
<1> QED BY <1>1, <1>2 DEF Settleable

-----------------------------------------------------------------------------
(* The backtest beside the ledger.                                         *)

\* What place_bets makes of a market.
BetOn(c) ==
  IF Placed(c)
  THEN [target |-> "1x2", outcome |-> c.outcome, line |-> NoLine, odds |-> c.price,
        stake |-> SizeStake(c.bank, c.prob, c.price)]
  ELSE Nothing

\* Where a market is on its way: the bet is placed before anything is reported,
\* the report is the backtest's, and the settlement is of the bet that was placed.
BacktestInv ==
  /\ score \in [home : 0 .. MaxGoals, away : 0 .. MaxGoals] /\ tie \in BOOLEAN
  /\ \/ market = Nothing /\ bet \in HandicapBets /\ report = Unreported
     \/ market \in Markets /\ bet = Waiting /\ report = Unreported
     \/ /\ market \in Markets /\ bet = BetOn(market)
        /\ report \in {Unreported, Selected(market, Label1x2(score.home, score.away))}
  /\ settled # Unsettled => /\ bet \notin {Waiting, Nothing}
                            /\ settled = SettleBet(bet, score.home, score.away, tie)

\* The prices and probabilities of a market.
LEMMA MarketTypes ==
  ASSUME NEW c \in Markets
  PROVE  /\ c # Nothing /\ c.prob \in Nat /\ c.bank \in Nat /\ c.outcome \in Outcomes1x2
         /\ c.price # Nothing => c.price \in Nat /\ c.price > 100 /\ c.price \in Prices
         /\ c.close # Nothing => c.close \in Nat /\ c.close > 100 /\ c.close \in Closes
         /\ c.prior # Nothing => c.prior[c.outcome] \in Nat
<1>1. /\ c.prob \in Probs /\ c.bank \in Banks /\ c.outcome \in Outcomes1x2
      /\ c.price \in Prices /\ c.close \in Closes /\ c.prior \in Priors \cup {Nothing}
  BY DEF Markets
<1>2. c # Nothing
  BY BacktestAssumption
<1>3. c.prob \in Nat /\ c.bank \in Nat
  <2>1. Probs \subseteq 1 .. 99 /\ Banks \subseteq Nat
    BY BacktestAssumption
  <2>2. c.prob \in 1 .. 99 /\ c.bank \in Nat
    BY <1>1, <2>1, Zenon
  <2> QED BY <2>2
<1>4. c.prior # Nothing => c.prior[c.outcome] \in Nat
  BY <1>1, BacktestAssumption
<1>5. \A x \in (Prices \cup Closes) \ {Nothing} : x \in Nat /\ x > 100
  BY BacktestAssumption
<1> QED BY <1>1, <1>2, <1>3, <1>4, <1>5

\* A price at which a probability clears the buffer is one Kelly bets at.
LEMMA Clears ==
  ASSUME NEW prob \in Nat, NEW price \in Nat, price > 100, ClearsBuffer(prob, price)
  PROVE  /\ KellyEdge(prob, price) \in Nat /\ KellyScale(price) \in Nat \ {0}
         /\ KellyEdge(prob, price) * KellyNum \in Nat
         /\ KellyScale(price) * KellyDen \in Nat \ {0}
<1>1. prob * price \in Nat /\ prob * price > 100 * (100 + ExecBuffer) /\ ExecBuffer \in Nat
  BY StakingAssumption DEF ClearsBuffer
<1>2. KellyEdge(prob, price) \in Nat
  BY <1>1 DEF KellyEdge
<1>3. KellyScale(price) \in Nat \ {0}
  BY DEF KellyScale
<1>4. \A x, y \in Nat : x * y \in Nat
  OBVIOUS
<1>5. \A x, y \in Nat \ {0} : x * y \in Nat \ {0}
  OBVIOUS
<1> QED BY <1>2, <1>3, <1>4, <1>5, StakingAssumption

\* The stake is the floor of the bankroll times the smaller of the two fractions.
LEMMA StakeIsFraction ==
  ASSUME NEW bank \in Nat, NEW prob \in Nat, NEW price \in Nat, price > 100,
         ClearsBuffer(prob, price)
  PROVE  LET f == StakeFraction(prob, price)
         IN  /\ f.num \in Nat /\ f.den \in Nat \ {0}
             /\ SizeStake(bank, prob, price) = (bank * f.num) \div (10 * f.den)
<1> DEFINE num == KellyEdge(prob, price) * KellyNum
           den == KellyScale(price) * KellyDen
           raw == RawStake(bank, prob, price)
           cap == Cap(bank)
<1>1. num \in Nat /\ den \in Nat \ {0} /\ CapNum \in Nat /\ CapDen \in Nat \ {0}
  BY Clears, StakingAssumption
<1>2. raw = (bank * num) \div (10 * den) /\ cap = (bank * CapNum) \div (10 * CapDen)
  <2>1. KellyEdge(prob, price) \in Nat /\ KellyScale(price) \in Nat \ {0}
        /\ KellyNum \in Nat /\ KellyDen \in Nat \ {0}
    BY Clears, StakingAssumption
  <2>2. \A e, s, n, d \in Nat : bank * e * n = bank * (e * n) /\ 10 * s * d = 10 * (s * d)
    OBVIOUS
  <2>3. CapNum * bank = bank * CapNum
    BY <1>1
  <2> QED BY <2>1, <2>2, <2>3 DEF RawStake, Cap
<1>3. SizeStake(bank, prob, price) = IF raw <= cap THEN raw ELSE cap
  BY DEF SizeStake
<1>4. StakeFraction(prob, price) = IF num * CapDen <= CapNum * den
                                   THEN [num |-> num, den |-> den]
                                   ELSE [num |-> CapNum, den |-> CapDen]
  BY DEF StakeFraction
<1> HIDE DEF num, den, raw, cap
<1>5. raw \in Int /\ cap \in Int
  BY <1>1, <1>2
<1>6. CASE num * CapDen <= CapNum * den
  <2>1. (bank * num) * (10 * CapDen) <= (bank * CapNum) * (10 * den)
    <3>1. (10 * bank) * (num * CapDen) <= (10 * bank) * (CapNum * den)
      <4>1. 10 * bank \in Nat /\ num * CapDen \in Int /\ CapNum * den \in Int
        BY <1>1
      <4> QED BY <1>6, <4>1, Factor
    <3>2. /\ (10 * bank) * (num * CapDen) = (bank * num) * (10 * CapDen)
          /\ (10 * bank) * (CapNum * den) = (bank * CapNum) * (10 * den)
      BY <1>1
    <3> QED BY <3>1, <3>2
  <2>2. raw <= cap
    <3>1. /\ bank * num \in Int /\ bank * CapNum \in Int
          /\ 10 * den \in Nat \ {0} /\ 10 * CapDen \in Nat \ {0}
      BY <1>1
    <3> QED BY <1>2, <2>1, <3>1, FloorOfFraction
  <2> QED BY <1>1, <1>2, <1>3, <1>4, <1>6, <2>2
<1>7. CASE ~(num * CapDen <= CapNum * den)
  <2>0. CapNum * den <= num * CapDen
    BY <1>1, <1>7
  <2>1. (bank * CapNum) * (10 * den) <= (bank * num) * (10 * CapDen)
    <3>1. (10 * bank) * (CapNum * den) <= (10 * bank) * (num * CapDen)
      <4>1. 10 * bank \in Nat /\ num * CapDen \in Int /\ CapNum * den \in Int
        BY <1>1
      <4> QED BY <2>0, <4>1, Factor
    <3>2. /\ (10 * bank) * (num * CapDen) = (bank * num) * (10 * CapDen)
          /\ (10 * bank) * (CapNum * den) = (bank * CapNum) * (10 * den)
      BY <1>1
    <3> QED BY <3>1, <3>2
  <2>2. cap <= raw
    <3>1. /\ bank * num \in Int /\ bank * CapNum \in Int
          /\ 10 * den \in Nat \ {0} /\ 10 * CapDen \in Nat \ {0}
      BY <1>1
    <3> QED BY <1>2, <2>1, <3>1, FloorOfFraction
  <2>3. SizeStake(bank, prob, price) = cap
    BY <1>3, <1>5, <2>2
  <2> QED BY <1>1, <1>2, <1>4, <1>7, <2>3
<1> QED BY <1>6, <1>7

\* A placed bet is a 1x2 bet of the market, on a signal, at HKJC's price.
LEMMA PlacedBet ==
  ASSUME NEW c \in Markets
  PROVE  /\ BetOn(c) \in Bet1x2 \cup {Nothing}
         /\ BetOn(c) # Nothing =>
              /\ Signalled(c) /\ c.price # Nothing
              /\ BetOn(c).target = "1x2" /\ BetOn(c).outcome = c.outcome
              /\ BetOn(c).odds = c.price
              /\ BetOn(c).stake = SizeStake(c.bank, c.prob, c.price)
<1>1. CASE ~Placed(c)
  BY <1>1 DEF BetOn
<1>2. CASE Placed(c)
  <2>1. Signalled(c) /\ c.price # Nothing /\ WorthPlacing(c.bank, c.prob, c.price)
    BY <1>2 DEF Placed
  <2>2. c.price \in Nat /\ c.price > 100 /\ c.price \in Prices /\ c.prob \in Nat /\ c.bank \in Nat
        /\ c.outcome \in Outcomes1x2
    BY <2>1, MarketTypes
  <2>3. SizeStake(c.bank, c.prob, c.price) \in Nat
    <3>1. SizeStake(c.bank, c.prob, c.price) >= MinStake /\ MinStake \in Nat
      BY <2>1, StakingAssumption DEF WorthPlacing
    <3>2. SizeStake(c.bank, c.prob, c.price) \in Int
      <4>1. KellyEdge(c.prob, c.price) \in Int /\ KellyScale(c.price) \in Nat \ {0}
        BY <2>2 DEF KellyEdge, KellyScale
      <4>2. /\ c.bank * KellyEdge(c.prob, c.price) * KellyNum \in Int
            /\ 10 * KellyScale(c.price) * KellyDen \in Nat \ {0}
            /\ CapNum * c.bank \in Int /\ 10 * CapDen \in Nat \ {0}
        BY <2>2, <4>1, StakingAssumption
      <4> QED BY <4>2, Floor DEF SizeStake, RawStake, Cap
    <3> QED BY <3>1, <3>2
  <2>4. BetOn(c) = [target |-> "1x2", outcome |-> c.outcome, line |-> NoLine, odds |-> c.price,
                    stake |-> SizeStake(c.bank, c.prob, c.price)]
    BY <1>2 DEF BetOn
  <2> QED BY <2>1, <2>2, <2>3, <2>4 DEF Bet1x2
<1> QED BY <1>1, <1>2

\* What the backtest selects.
LEMMA SelectedReport ==
  ASSUME NEW c \in Markets, NEW label
  PROVE  /\ Selected(c, label) \in Reports \cup {Nothing}
         /\ PassesValueTest(c) =>
              /\ Selected(c, label) # Nothing
              /\ Selected(c, label).fraction = StakeFraction(c.prob, ExecOdds(c))
              /\ Selected(c, label).payout = IF label = c.outcome THEN ExecOdds(c) ELSE 0
<1>1. CASE ~PassesValueTest(c)
  BY <1>1 DEF Selected
<1>2. CASE PassesValueTest(c)
  <2>1. ExecOdds(c) # Nothing /\ ClearsBuffer(c.prob, ExecOdds(c))
    BY <1>2 DEF PassesValueTest
  <2>2. ExecOdds(c) \in Nat /\ ExecOdds(c) > 100 /\ ExecOdds(c) \in Prices \cup Closes
    BY <2>1, MarketTypes DEF ExecOdds
  <2>3. c.prob \in Nat /\ c.bank \in Nat
    BY MarketTypes
  <2>4. /\ StakeFraction(c.prob, ExecOdds(c)).num \in Nat
        /\ StakeFraction(c.prob, ExecOdds(c)).den \in Nat \ {0}
    BY <2>1, <2>2, <2>3, StakeIsFraction
  <2>5. StakeFraction(c.prob, ExecOdds(c)) \in [num : Nat, den : Nat \ {0}]
    <3> DEFINE n == KellyEdge(c.prob, ExecOdds(c)) * KellyNum
               d == KellyScale(ExecOdds(c)) * KellyDen
    <3>1. /\ StakeFraction(c.prob, ExecOdds(c)) = [num |-> n, den |-> d]
             \/ StakeFraction(c.prob, ExecOdds(c)) = [num |-> CapNum, den |-> CapDen]
      BY DEF StakeFraction
    <3> HIDE DEF n, d
    <3> QED BY <2>4, <3>1
  <2> DEFINE r == [fraction |-> StakeFraction(c.prob, ExecOdds(c)),
                   payout |-> IF label = c.outcome THEN ExecOdds(c) ELSE 0]
  <2>6. Selected(c, label) = r
    BY <1>2 DEF Selected
  <2>7. r \in Reports
    <3>1. Nothing # 0
      BY BacktestAssumption
    <3> QED BY <2>1, <2>2, <2>5, <3>1 DEF Reports
  <2>8. r # Nothing
    BY <2>7, BacktestAssumption
  <2> QED BY <2>6, <2>7, <2>8
<1> QED BY <1>1, <1>2

\* Every bet on its way can be settled.
LEMMA BetsSettle ==
  ASSUME BacktestInv, bet \notin {Waiting, Nothing}
  PROVE  /\ Settleable(bet) /\ score.home \in Nat /\ score.away \in Nat /\ tie \in BOOLEAN
         /\ bet \in IF market = Nothing THEN HandicapBets ELSE Bet1x2
<1>1. score.home \in Nat /\ score.away \in Nat /\ tie \in BOOLEAN
  BY SettlementBounds DEF BacktestInv
<1>2. CASE market = Nothing
  <2>1. bet \in HandicapBets
    BY <1>2, MarketTypes DEF BacktestInv
  <2>2. /\ bet.target = "handicap" /\ bet.outcome \in OutcomesHandicap /\ bet.line \in HandicapLines
        /\ bet.odds \in OddsSet /\ bet.stake \in Stakes
    BY <2>1 DEF HandicapBets
  <2> QED BY <1>1, <1>2, <2>1, <2>2, SettlementBounds DEF Settleable
<1>3. CASE market # Nothing
  <2>1. market \in Markets /\ bet = BetOn(market)
    BY <1>3 DEF BacktestInv
  <2>2. bet \in Bet1x2
    BY <2>1, PlacedBet
  <2>3. bet.target = "1x2" /\ bet.outcome \in Outcomes1x2 /\ bet.stake \in Nat
        /\ bet.odds \in Prices \ {Nothing}
    BY <2>2 DEF Bet1x2
  <2>4. bet.odds \in Nat
    BY <2>3, BacktestAssumption
  <2> QED BY <1>1, <1>3, <2>2, <2>3, <2>4 DEF Settleable
<1> QED BY <1>2, <1>3

\* The invariant is inductive.
LEMMA BacktestInvInit == BacktestInit => BacktestInv
BY DEF BacktestInit, BacktestInv

\* Every step takes a market one stage further.
LEMMA BacktestInvStep ==
  ASSUME BacktestInv, [PlaceBets \/ SettleBets \/ RunBacktest]_btVars
  PROVE  BacktestInv'
<1>0. Waiting # Nothing /\ Unreported # Nothing
  BY BacktestAssumption
<1>1. CASE PlaceBets
  <2>1. market \in Markets /\ report = Unreported /\ settled = Unsettled
    <3>1. bet = Waiting /\ bet \notin HandicapBets
      BY <1>1, BacktestAssumption DEF PlaceBets
    <3>2. market = Nothing => market \notin Markets
      BY BacktestAssumption
    <3>3. \A c \in Markets : BetOn(c) # Waiting
      BY <1>0, PlacedBet, BacktestAssumption
    <3> QED BY <3>1, <3>2, <3>3 DEF BacktestInv
  <2>2. bet' = BetOn(market) /\ market' = market /\ report' = report
        /\ settled' = settled /\ score' = score /\ tie' = tie
    BY <1>1 DEF PlaceBets, BetOn
  <2>3. BetOn(market)' = BetOn(market')
    BY <2>2
  <2> QED BY <2>1, <2>2 DEF BacktestInv, BetOn, Unsettled
<1>2. CASE SettleBets
  <2>1. /\ bet \notin {Waiting, Nothing} /\ settled' = SettleBet(bet, score.home, score.away, tie)
        /\ bet' = bet /\ score' = score /\ tie' = tie /\ market' = market /\ report' = report
    BY <1>2 DEF SettleBets, Settle
  <2> QED BY <2>1 DEF BacktestInv, BetOn
<1>3. CASE RunBacktest
  <2>1. /\ market \in Markets /\ bet = BetOn(market)
        /\ report' = Selected(market, Label1x2(score.home, score.away))
        /\ bet' = bet /\ score' = score /\ tie' = tie /\ market' = market /\ settled' = settled
    BY <1>3 DEF RunBacktest, BacktestInv, betVars
  <2> QED BY <2>1 DEF BacktestInv, BetOn, Unsettled
<1>4. CASE UNCHANGED btVars
  BY <1>4 DEF btVars, betVars, BacktestInv, BetOn, Unsettled
<1> QED BY <1>1, <1>2, <1>3, <1>4

\* What a settled bet owes to the invariant.
LEMMA SettledIsRight ==
  ASSUME BacktestInv, IsSettled
  PROVE  /\ bet \notin {Waiting, Nothing}
         /\ SettledRightly(bet, score.home, score.away, settled)
         /\ settled = SettleBet(bet, score.home, score.away, tie)
<1>1. bet \notin {Waiting, Nothing} /\ settled = SettleBet(bet, score.home, score.away, tie)
  BY DEF BacktestInv, IsSettled
<1>2. Settleable(bet) /\ score.home \in Nat /\ score.away \in Nat /\ tie \in BOOLEAN
  BY <1>1, BetsSettle
<1>3. SettledRightly(bet, score.home, score.away, SettleBet(bet, score.home, score.away, tie))
  BY <1>2, SettlesRightly
<1> QED BY <1>1, <1>3

\* The types, the statuses and the dividends follow.
LEMMA InvSettles == ASSUME BacktestInv PROVE SettlementInv
<1>1. market \in Markets \cup {Nothing} /\ bet \in IF market = Nothing THEN HandicapBets
                                                   ELSE Bet1x2 \cup {Waiting, Nothing}
  BY PlacedBet, MarketTypes DEF BacktestInv
<1>2. report \in Reports \cup {Nothing, Unreported}
  BY SelectedReport DEF BacktestInv
<1>3. settled \in {Unsettled} \cup [status : FinalStatus, payout : Nat]
  BY SettledIsRight DEF IsSettled, SettledRightly
<1>4. BacktestTypeOK
  BY <1>1, <1>2, <1>3 DEF BacktestTypeOK, BacktestInv
<1>5. StatusFollowsMargin
  <2>1. MarginOf(bet, score.home, score.away) = Margin
    BY DEF MarginOf, Margin
  <2> QED BY <2>1, SettledIsRight DEF StatusFollowsMargin, SettledRightly
<1>6. DividendNearestDime
  BY SettledIsRight DEF DividendNearestDime, SettledRightly
<1> QED BY <1>4, <1>5, <1>6 DEF SettlementInv

\* And so does what the backtest and the ledger have in common.
LEMMA InvCompares == ASSUME BacktestInv PROVE BacktestSeesTheLedger
<1> SUFFICES ASSUME market # Nothing, report # Unreported PROVE BacktestSeesTheLedger
  BY DEF BacktestSeesTheLedger
<1> DEFINE c == market
           label == Label1x2(score.home, score.away)
           high == c.prob * c.prior[c.outcome]
           exec == c.prob * c.price
<1>1. /\ c \in Markets /\ bet = BetOn(c) /\ report = Selected(c, label)
  BY DEF BacktestInv
<1>2. /\ c.prob \in Nat /\ c.bank \in Nat /\ c.outcome \in Outcomes1x2
      /\ c.price # Nothing => c.price \in Nat /\ c.price > 100
      /\ c.prior # Nothing => c.prior[c.outcome] \in Nat
  BY <1>1, MarketTypes
<1>3. bet # Nothing =>
        /\ Signalled(c) /\ c.price # Nothing /\ bet.target = "1x2" /\ bet.outcome = c.outcome
        /\ bet.odds = c.price /\ bet.stake = SizeStake(c.bank, c.prob, c.price)
        /\ bet \in Bet1x2
  BY <1>1, PlacedBet
<1>4. /\ report # Nothing <=> PassesValueTest(c)
      /\ report # Nothing =>
           /\ report.fraction = StakeFraction(c.prob, ExecOdds(c))
           /\ report.payout = IF label = c.outcome THEN ExecOdds(c) ELSE 0
  BY <1>1, SelectedReport DEF Selected
<1>5. c.price # Nothing => ExecOdds(c) = c.price
  BY DEF ExecOdds
<1>6. ASSUME bet # Nothing, report = Nothing PROVE c.price < c.prior[c.outcome]
  <2>1. /\ c.price \in Nat /\ c.prior # Nothing /\ c.prior[c.outcome] \in Nat
        /\ ClearsBuffer(c.prob, c.prior[c.outcome]) /\ ~ClearsBuffer(c.prob, c.price)
    BY <1>2, <1>3, <1>4, <1>5, <1>6 DEF Signalled, PassesValueTest
  <2>2. SUFFICES ASSUME c.prior[c.outcome] <= c.price PROVE FALSE
    BY <2>1
  <2>3. c.prob * c.prior[c.outcome] <= c.prob * c.price
    BY <1>2, <2>1, <2>2, Factor
  <2>4. high \in Int /\ exec \in Int
    BY <1>2, <2>1
  <2>5. high > 100 * (100 + ExecBuffer) /\ ~(exec > 100 * (100 + ExecBuffer)) /\ high <= exec
    BY <2>1, <2>3 DEF ClearsBuffer
  <2> HIDE DEF high, exec
  <2> QED BY <2>4, <2>5, StakingAssumption
<1>7. ASSUME report # Nothing, ~Signalled(c), c.price # Nothing PROVE c.price > c.prior[c.outcome]
  <2>1. /\ c.price \in Nat /\ c.prior # Nothing /\ c.prior[c.outcome] \in Nat
        /\ ClearsBuffer(c.prob, c.price) /\ ~ClearsBuffer(c.prob, c.prior[c.outcome])
    BY <1>2, <1>4, <1>5, <1>7 DEF Signalled, PassesValueTest
  <2>2. SUFFICES ASSUME c.price <= c.prior[c.outcome] PROVE FALSE
    BY <2>1
  <2>3. c.prob * c.price <= c.prob * c.prior[c.outcome]
    BY <1>2, <2>1, <2>2, Factor
  <2>4. high \in Int /\ exec \in Int
    BY <1>2, <2>1
  <2>5. exec > 100 * (100 + ExecBuffer) /\ ~(high > 100 * (100 + ExecBuffer)) /\ exec <= high
    BY <2>1, <2>3 DEF ClearsBuffer
  <2> HIDE DEF high, exec
  <2> QED BY <2>4, <2>5, StakingAssumption
<1>8. ASSUME bet # Nothing, report # Nothing
      PROVE  bet.stake = (c.bank * report.fraction.num) \div (10 * report.fraction.den)
  <2>1. /\ c.price \in Nat /\ c.price > 100 /\ ExecOdds(c) = c.price
        /\ ClearsBuffer(c.prob, c.price)
    BY <1>2, <1>3, <1>4, <1>5, <1>8 DEF PassesValueTest
  <2>2. report.fraction = StakeFraction(c.prob, c.price)
        /\ bet.stake = SizeStake(c.bank, c.prob, c.price)
    BY <1>3, <1>4, <1>8, <2>1
  <2> HIDE DEF c
  <2> QED BY <1>2, <2>1, <2>2, StakeIsFraction
<1>9. ASSUME bet # Nothing, report # Nothing, IsSettled
      PROVE  10 * settled.payout - bet.stake * report.payout \in -5 .. 5
  <2>1. settled = SettleBet(bet, score.home, score.away, tie) /\ tie \in BOOLEAN
    BY <1>9, SettledIsRight DEF BacktestInv
  <2>2. /\ bet.target = "1x2" /\ bet.outcome = c.outcome /\ bet.odds = c.price
        /\ bet.stake \in Nat /\ c.price \in Nat /\ ExecOdds(c) = c.price
    BY <1>2, <1>3, <1>5, <1>9 DEF Bet1x2
  <2>3. settled = IF label = c.outcome THEN Won(bet, tie) ELSE Lost
    BY <2>1, <2>2 DEF SettleBet, Settle1x2
  <2>4. report.payout = IF label = c.outcome THEN c.price ELSE 0
    BY <1>4, <1>9, <2>2
  <2>5. CASE label = c.outcome
    <3> DEFINE n == bet.stake * c.price
               d == (n + 5) \div 10
    <3>1. n \in Nat /\ 2 * bet.stake * bet.odds = 2 * n
      BY <2>2
    <3>2. settled.payout = RoundDividend(2 * n, tie)
      BY <2>3, <2>5, <3>1 DEF Won
    <3>3. bet.stake * report.payout = n
      BY <2>4, <2>5
    <3> HIDE DEF n
    <3>4. settled.payout = d
      BY <2>1, <3>1, <3>2, WholeCents
    <3>5. d \in Int /\ 10 * d <= n + 5 /\ n + 5 < 10 * d + 10
      BY <3>1
    <3> HIDE DEF d
    <3> QED BY <3>1, <3>3, <3>4, <3>5
  <2>6. CASE label # c.outcome
    <3>1. settled.payout = 0 /\ report.payout = 0
      BY <2>3, <2>4, <2>6 DEF Lost
    <3> QED BY <2>2, <3>1
  <2> QED BY <2>5, <2>6
<1> QED BY <1>6, <1>7, <1>8, <1>9 DEF BacktestSeesTheLedger

\* Every bet gets the status its margin earns and the nearest dime of its exact
\* dividend, whatever lines, odds and stakes there are, quarter lines included; there,
\* half a cent under a tie may be paid one dime more, and nothing else is ever a dime out.
THEOREM BetsSettleByTheRules == BacktestSpec => []SettlementInv
<1>1. BacktestInit => BacktestInv
  BY BacktestInvInit
<1>2. BacktestInv /\ [PlaceBets \/ SettleBets \/ RunBacktest]_btVars => BacktestInv'
  BY BacktestInvStep
<1>3. BacktestInv => SettlementInv
  BY InvSettles
<1> QED BY <1>1, <1>2, <1>3, PTL DEF BacktestSpec

\* The backtest and the ledger part only where a price has moved or is missing,
\* and agree on stake and return wherever both bet.
THEOREM BacktestIsTheLedgers == BacktestSpec => []BacktestSeesTheLedger
<1>1. BacktestInit => BacktestInv
  BY BacktestInvInit
<1>2. BacktestInv /\ [PlaceBets \/ SettleBets \/ RunBacktest]_btVars => BacktestInv'
  BY BacktestInvStep
<1>3. BacktestInv => BacktestSeesTheLedger
  BY InvCompares
<1> QED BY <1>1, <1>2, <1>3, PTL DEF BacktestSpec

-----------------------------------------------------------------------------
(* Counting.                                                               *)

\* Induction on the naturals, of a set.
LEMMA Climb ==
  ASSUME NEW P \in SUBSET Nat, 0 \in P, \A n \in P : n + 1 \in P
  PROVE  P = Nat
<1> SUFFICES ASSUME Nat \ P # {} PROVE FALSE
  OBVIOUS
<1> DEFINE Left == Nat \ P
<1>1. PICK n \in Left : \A k \in Left : ~ (<<k, n>> \in OpToRel(<, Nat))
  <2>1. Left \subseteq Nat /\ Left # {}
    OBVIOUS
  <2> HIDE DEF Left
  <2> QED BY <2>1, NatLessThanWellFounded, WFMin
<1>2. n - 1 \in Nat /\ n - 1 < n
  OBVIOUS
<1>3. <<n - 1, n>> \in OpToRel(<, Nat)
  BY <1>2 DEF OpToRel
<1>4. n - 1 \in P
  BY <1>1, <1>2, <1>3
<1>5. (n - 1) + 1 \in P /\ (n - 1) + 1 = n
  BY <1>2, <1>4
<1> QED BY <1>1, <1>5

\* A set of naturals has a least element.
LEMMA Least ==
  ASSUME NEW S \in SUBSET Nat, S # {}
  PROVE  \E n \in S : \A k \in S : n <= k
<1>1. \E n \in S : \A k \in S : ~ (<<k, n>> \in OpToRel(<, Nat))
  BY NatLessThanWellFounded, WFMin
<1>2. PICK n \in S : \A k \in S : ~(k < n)
  BY <1>1 DEF OpToRel
<1>3. \A k \in S : n <= k
  BY <1>2
<1> QED BY <1>3

\* A one-to-one correspondence with a finite set.
LEMMA OneToOne ==
  ASSUME NEW S, NEW T, IsFiniteSet(T), NEW f \in [S -> T],
         \A x \in S : \A y \in S : f[x] = f[y] => x = y
  PROVE  /\ IsFiniteSet(S) /\ Cardinality(S) <= Cardinality(T)
         /\ Cardinality(S) = Cardinality(T) <=> \A t \in T : \E x \in S : f[x] = t
<1>1. f \in Injection(S, T)
  BY DEF Injection, IsInjective
<1>2. f \in Surjection(S, T) <=> \A t \in T : \E x \in S : f[x] = t
  BY DEF Surjection
<1> QED BY <1>1, <1>2, FS_Injection

-----------------------------------------------------------------------------
(* The order of the rows.                                                  *)

\* What a calendar gives a match.
LEMMA Calendar ==
  ASSUME fixture \in Fixtures, NEW m \in Match
  PROVE  /\ Kickoff(m) \in Time /\ Kickoff(m) \in Nat /\ m \in Nat
         /\ fixture[m].home \in Team /\ fixture[m].away \in Team
         /\ fixture[m].home # fixture[m].away
         /\ Season(Kickoff(m)) \in Seasons
<1>1. fixture[m] \in Fixture /\ fixture[m].home # fixture[m].away
  BY TrainingAssumption
<1>2. Kickoff(m) \in Time
  BY <1>1 DEF Fixture, Kickoff
<1>3. Kickoff(m) \in Nat
  BY <1>2, TrainingAssumption DEF Time
<1>4. m \in Nat
  BY TrainingAssumption
<1> QED BY <1>1, <1>2, <1>3, <1>4 DEF Fixture, Seasons

\* Rows are ordered by kickoff, and by id within a kickoff.
LEMMA RowOrder ==
  ASSUME fixture \in Fixtures, NEW a \in Match, NEW b \in Match, NEW c \in Match
  PROVE  /\ ~Precedes(a, a)
         /\ a = b \/ Precedes(a, b) \/ Precedes(b, a)
         /\ Precedes(a, b) => ~Precedes(b, a) /\ a # b /\ Kickoff(a) <= Kickoff(b)
         /\ Precedes(a, b) /\ Precedes(b, c) => Precedes(a, c)
         /\ Kickoff(a) < Kickoff(b) => Precedes(a, b)
<1>1. /\ Kickoff(a) \in Nat /\ Kickoff(b) \in Nat /\ Kickoff(c) \in Nat
      /\ a \in Nat /\ b \in Nat /\ c \in Nat
  BY Calendar
<1> QED BY <1>1 DEF Precedes

\* Finitely many matches.
LEMMA RowsFinite ==
  ASSUME NEW rows \in SUBSET Match
  PROVE  IsFiniteSet(rows) /\ Cardinality(rows) \in Nat
BY TrainingAssumption, FS_Subset, FS_CardinalityType

\* How many rows come before a match.
RowsBefore(rows, m) == {e \in rows : Precedes(e, m)}

\* A later row has more rows before it.
LEMMA RankGrows ==
  ASSUME fixture \in Fixtures, NEW rows \in SUBSET Match, NEW a \in rows, NEW b \in Match,
         Precedes(a, b)
  PROVE  Cardinality(RowsBefore(rows, a)) < Cardinality(RowsBefore(rows, b))
<1> DEFINE A == RowsBefore(rows, a)
           B == RowsBefore(rows, b)
<1>1. A \subseteq B
  BY RowOrder DEF RowsBefore
<1>2. a \in B /\ a \notin A
  BY RowOrder DEF RowsBefore
<1>3. A \in SUBSET Match /\ B \in SUBSET Match
  BY DEF RowsBefore
<1> HIDE DEF A, B
<1>4. Cardinality(A) <= Cardinality(B) /\ Cardinality(A) # Cardinality(B)
      /\ Cardinality(A) \in Nat /\ Cardinality(B) \in Nat
  BY <1>1, <1>2, <1>3, RowsFinite, FS_Subset
<1> QED BY <1>4 DEF A, B

\* The ranks of the rows are 0, 1, ... , each once.
LEMMA Ranks ==
  ASSUME fixture \in Fixtures, NEW rows \in SUBSET Match
  PROVE  /\ \A m \in rows : Cardinality(RowsBefore(rows, m)) \in 0 .. Cardinality(rows) - 1
         /\ \A k \in 0 .. Cardinality(rows) - 1 :
              \E m \in rows : Cardinality(RowsBefore(rows, m)) = k
         /\ \A a \in rows : \A b \in rows :
              Cardinality(RowsBefore(rows, a)) = Cardinality(RowsBefore(rows, b)) => a = b
<1> DEFINE n == Cardinality(rows)
           rank == [m \in rows |-> Cardinality(RowsBefore(rows, m))]
<1>1. n \in Nat /\ IsFiniteSet(rows)
  BY RowsFinite
<1>2. ASSUME NEW m \in rows PROVE Cardinality(RowsBefore(rows, m)) \in 0 .. n - 1
  <2>1. RowsBefore(rows, m) \in SUBSET rows /\ RowsBefore(rows, m) # rows
    BY RowOrder DEF RowsBefore
  <2>2. /\ Cardinality(RowsBefore(rows, m)) <= n /\ Cardinality(RowsBefore(rows, m)) # n
        /\ Cardinality(RowsBefore(rows, m)) \in Nat
    BY <1>1, <2>1, FS_Subset, RowsFinite
  <2> HIDE DEF n
  <2> QED BY <1>1, <2>2
<1>3. ASSUME NEW a \in rows, NEW b \in rows,
             Cardinality(RowsBefore(rows, a)) = Cardinality(RowsBefore(rows, b))
      PROVE  a = b
  <2>1. /\ Cardinality(RowsBefore(rows, a)) \in Int /\ Cardinality(RowsBefore(rows, b)) \in Int
    BY <1>2
  <2>2. Precedes(a, b) \/ Precedes(b, a) \/ a = b
    BY RowOrder
  <2> QED BY <1>3, <2>1, <2>2, RankGrows
<1>4. rank \in [rows -> 0 .. n - 1]
  BY <1>2
<1>5. IsFiniteSet(0 .. n - 1) /\ Cardinality(0 .. n - 1) = n
  <2> HIDE DEF n
  <2>1. 0 \in Int /\ n - 1 \in Int
    BY <1>1
  <2>2. IsFiniteSet(0 .. n - 1) /\ Cardinality(0 .. n - 1) = IF 0 > n - 1 THEN 0 ELSE (n - 1) - 0 + 1
    BY <2>1, FS_Interval
  <2> QED BY <1>1, <2>2
<1>6. \A x \in rows : \A y \in rows : rank[x] = rank[y] => x = y
  BY <1>3
<1>7. \A k \in 0 .. n - 1 : \E m \in rows : rank[m] = k
  <2> DEFINE T == 0 .. n - 1
  <2>1. rank \in [rows -> T] /\ IsFiniteSet(T) /\ Cardinality(rows) = Cardinality(T)
    BY <1>4, <1>5
  <2> HIDE DEF rank, n, T
  <2>2. \A k \in T : \E m \in rows : rank[m] = k
    BY <1>6, <2>1, OneToOne
  <2> QED BY <2>2 DEF T
<1> QED BY <1>2, <1>3, <1>7

\* A sequence that lists a set of matches, each once, in the order of the rows.
Lists(s, X) ==
  /\ s \in Seq(X) /\ Len(s) = Cardinality(X)
  /\ \A m \in X : \E i \in 1 .. Cardinality(X) : s[i] = m
  /\ \A i, j \in 1 .. Cardinality(X) : i < j => Precedes(s[i], s[j])

\* Ordered sorts.
LEMMA OrderedLists ==
  ASSUME fixture \in Fixtures, NEW rows \in SUBSET Match
  PROVE  Lists(Ordered(rows), rows)
<1> DEFINE n == Cardinality(rows)
           s == Ordered(rows)
           rank(m) == Cardinality(RowsBefore(rows, m))
<1>1. n \in Nat
  BY RowsFinite
<1>2. \A i \in 1 .. n : s[i] \in rows /\ rank(s[i]) = i - 1
  <2> SUFFICES ASSUME NEW i \in 1 .. n PROVE s[i] \in rows /\ rank(s[i]) = i - 1
    OBVIOUS
  <2>1. i - 1 \in 0 .. n - 1
    BY <1>1
  <2>2. \E m \in rows : rank(m) = i - 1
    BY <2>1, Ranks
  <2>3. s[i] = CHOOSE m \in rows : rank(m) = i - 1
    BY DEF Ordered, RowsBefore
  <2> QED BY <2>2, <2>3
<1>3. s \in [1 .. n -> rows]
  <2> DEFINE nth(i) == CHOOSE m \in rows : Cardinality({e \in rows : Precedes(e, m)}) = i - 1
  <2>1. s = [i \in 1 .. n |-> nth(i)]
    BY DEF Ordered
  <2> HIDE DEF s, n, nth
  <2> QED BY <1>2, <2>1
<1>4. s \in Seq(rows) /\ Len(s) = n
  <2> HIDE DEF s, n
  <2> QED BY <1>1, <1>3
<1>5. ASSUME NEW m \in rows PROVE \E i \in 1 .. n : s[i] = m
  <2>1. rank(m) \in 0 .. n - 1
    BY Ranks
  <2>2. rank(m) + 1 \in 1 .. n /\ (rank(m) + 1) - 1 = rank(m)
    BY <1>1, <2>1
  <2>3. s[rank(m) + 1] \in rows /\ rank(s[rank(m) + 1]) = rank(m)
    BY <1>2, <2>2
  <2>4. s[rank(m) + 1] = m
    BY <2>3, Ranks
  <2> QED BY <2>2, <2>4
<1>6. ASSUME NEW i \in 1 .. n, NEW j \in 1 .. n, i < j PROVE Precedes(s[i], s[j])
  <2>1. /\ s[i] \in rows /\ s[j] \in rows /\ s[i] \in Match /\ s[j] \in Match
        /\ rank(s[i]) = i - 1 /\ rank(s[j]) = j - 1
    BY <1>2
  <2>2. s[i] # s[j]
    BY <1>1, <1>6, <2>1
  <2>3. Precedes(s[j], s[i]) => rank(s[j]) < rank(s[i])
    BY <2>1, RankGrows
  <2>4. ~ Precedes(s[j], s[i])
    BY <1>1, <1>6, <2>1, <2>3
  <2> QED BY <2>1, <2>2, <2>4, RowOrder
<1> HIDE DEF s
<1> QED BY <1>4, <1>5, <1>6 DEF Lists, s

\* What a list says of its rows.
LEMMA ListFacts ==
  ASSUME fixture \in Fixtures, NEW X \in SUBSET Match, NEW s, Lists(s, X)
  PROVE  /\ Cardinality(X) \in Nat /\ Len(s) = Cardinality(X) /\ DOMAIN s = 1 .. Cardinality(X)
         /\ \A i \in 1 .. Cardinality(X) : s[i] \in X /\ s[i] \in Match
         /\ \A i, j \in 1 .. Cardinality(X) : Precedes(s[i], s[j]) <=> i < j
         /\ \A i, j \in 1 .. Cardinality(X) : s[i] = s[j] => i = j
<1> DEFINE n == Cardinality(X)
<1>1. n \in Nat
  BY RowsFinite
<1>2. s \in Seq(X) /\ Len(s) = n
  BY DEF Lists
<1>3. DOMAIN s = 1 .. n /\ \A i \in 1 .. n : s[i] \in X
  <2> HIDE DEF n
  <2> QED BY <1>1, <1>2
<1>4. \A i, j \in 1 .. n : i < j => Precedes(s[i], s[j])
  BY DEF Lists
<1>5. ASSUME NEW i \in 1 .. n, NEW j \in 1 .. n
      PROVE  (Precedes(s[i], s[j]) <=> i < j) /\ (s[i] = s[j] => i = j)
  <2>1. s[i] \in Match /\ s[j] \in Match
    BY <1>3
  <2>2. i < j \/ j < i \/ i = j
    BY <1>1
  <2>3. CASE i < j
    BY <1>4, <2>1, <2>3, RowOrder
  <2>4. CASE j < i
    <3>1. Precedes(s[j], s[i]) /\ ~(i < j)
      BY <1>1, <1>4, <2>4
    <3> QED BY <2>1, <3>1, RowOrder
  <2>5. CASE i = j
    <3>1. ~ Precedes(s[i], s[j])
      BY <2>1, <2>5, RowOrder
    <3> QED BY <1>1, <2>5, <3>1
  <2> QED BY <2>2, <2>3, <2>4, <2>5
<1> QED BY <1>1, <1>2, <1>3, <1>5

\* The rows up to an index.
UpTo(s, n) == {s[i] : i \in 1 .. n}

\* A list is extended by a match that comes after all of it.
LEMMA ListGrows ==
  ASSUME fixture \in Fixtures, NEW X \in SUBSET Match, NEW s, Lists(s, X),
         NEW m \in Match, \A e \in X : Precedes(e, m)
  PROVE  Lists(Append(s, m), X \cup {m})
<1> DEFINE n == Cardinality(X)
           t == Append(s, m)
<1>0. n \in Nat /\ IsFiniteSet(X)
  BY RowsFinite
<1>1. s \in Seq(X) /\ Len(s) = n
  BY DEF Lists
<1>2. m \notin X
  BY RowOrder
<1>3. Cardinality(X \cup {m}) = n + 1
  BY <1>0, <1>2, FS_AddElement
<1> HIDE DEF n
<1>4. /\ t \in Seq(X \cup {m}) /\ Len(t) = n + 1
      /\ \A i \in 1 .. n : t[i] = s[i]
      /\ t[n + 1] = m
  <2>1. s \in Seq(X \cup {m}) /\ m \in X \cup {m}
    <3>1. s \in [1 .. n -> X]
      BY <1>0, <1>1
    <3>2. s \in [1 .. n -> X \cup {m}]
      BY <3>1
    <3> QED BY <1>0, <1>1, <3>2
  <2> QED BY <1>0, <1>1, <2>1
<1> HIDE DEF t
<1>5. ASSUME NEW e \in X \cup {m} PROVE \E i \in 1 .. n + 1 : t[i] = e
  <2>1. CASE e = m
    BY <1>0, <1>4, <2>1
  <2>2. CASE e \in X
    <3>1. PICK i \in 1 .. n : s[i] = e
      BY <2>2 DEF Lists, n
    <3>2. i \in 1 .. n + 1 /\ t[i] = e
      BY <1>0, <1>4, <3>1
    <3> QED BY <3>2
  <2> QED BY <2>1, <2>2
<1>6. ASSUME NEW i \in 1 .. n + 1, NEW j \in 1 .. n + 1, i < j PROVE Precedes(t[i], t[j])
  <2>1. i \in 1 .. n
    BY <1>0, <1>6
  <2>2. t[i] = s[i] /\ s[i] \in X
    <3>1. \A k \in 1 .. n : s[k] \in X
      BY <1>0, <1>1
    <3> QED BY <1>4, <2>1, <3>1
  <2>3. CASE j = n + 1
    BY <1>4, <2>2, <2>3
  <2>4. CASE j # n + 1
    <3>1. j \in 1 .. n
      BY <1>0, <2>4
    <3>2. t[j] = s[j] /\ Precedes(s[i], s[j])
      BY <1>4, <1>6, <2>1, <3>1 DEF Lists, n
    <3> QED BY <2>2, <3>2
  <2> QED BY <2>3, <2>4
<1>7. Lists(t, X \cup {m})
  BY <1>3, <1>4, <1>5, <1>6 DEF Lists
<1> QED BY <1>7 DEF t

-----------------------------------------------------------------------------
(* The pass.  What the state is after each row.                            *)

\* The recursion of StateAfter, up to a row.
Folds(f, s, scored, n) ==
  f = [k \in 0 .. n |-> IF k = 0 THEN EmptyState ELSE Update(f[k - 1], s[k], scored)]

\* It is well defined.
LEMMA FoldExists ==
  ASSUME NEW s, NEW scored, NEW n \in Nat
  PROVE  \E f : Folds(f, s, scored, n)
<1> DEFINE P == {k \in Nat : \E f : Folds(f, s, scored, k)}
<1>1. 0 \in P
  <2>1. Folds([k \in 0 .. 0 |-> EmptyState], s, scored, 0)
    BY DEF Folds
  <2> QED BY <2>1
<1>2. ASSUME NEW k \in P PROVE k + 1 \in P
  <2>1. PICK f : Folds(f, s, scored, k)
    OBVIOUS
  <2> DEFINE g == [i \in 0 .. k + 1 |-> IF i = 0 THEN EmptyState
                                        ELSE Update(f[i - 1], s[i], scored)]
  <2>2. ASSUME NEW i \in 0 .. k PROVE g[i] = f[i]
    <3>1. i \in 0 .. k + 1
      OBVIOUS
    <3>2. f[i] = IF i = 0 THEN EmptyState ELSE Update(f[i - 1], s[i], scored)
      BY <2>1 DEF Folds
    <3> QED BY <3>1, <3>2
  <2>3. ASSUME NEW i \in 0 .. k + 1, i # 0 PROVE i - 1 \in 0 .. k
    BY <2>3
  <2>4. g = [i \in 0 .. k + 1 |-> IF i = 0 THEN EmptyState ELSE Update(g[i - 1], s[i], scored)]
    BY <2>2, <2>3
  <2>5. Folds(g, s, scored, k + 1)
    <3> HIDE DEF g
    <3> QED BY <2>4 DEF Folds
  <2>6. \E h : Folds(h, s, scored, k + 1)
    <3> HIDE DEF g
    <3> QED BY <2>5
  <2>7. k + 1 \in Nat
    OBVIOUS
  <2> QED BY <2>6, <2>7
<1>3. P = Nat
  <2>1. P \in SUBSET Nat
    OBVIOUS
  <2> HIDE DEF P
  <2> QED BY <1>1, <1>2, <2>1, Climb
<1> QED BY <1>3

\* The empty state first, then one update to a row.
LEMMA AfterEach ==
  ASSUME NEW X, NEW s \in Seq(X), NEW scored
  PROVE  /\ StateAfter(s, scored)[0] = EmptyState
         /\ \A n \in 1 .. Len(s) :
              StateAfter(s, scored)[n] = Update(StateAfter(s, scored)[n - 1], s[n], scored)
<1> DEFINE f == CHOOSE f : Folds(f, s, scored, Len(s))
<1>1. StateAfter(s, scored) = f
  BY DEF StateAfter, Folds
<1>2. Len(s) \in Nat
  OBVIOUS
<1>3. Folds(f, s, scored, Len(s))
  BY <1>2, FoldExists
<1> HIDE DEF f
<1>4. \A k \in 0 .. Len(s) : f[k] = IF k = 0 THEN EmptyState ELSE Update(f[k - 1], s[k], scored)
  BY <1>3 DEF Folds
<1>5. f[0] = EmptyState /\ \A n \in 1 .. Len(s) : f[n] = Update(f[n - 1], s[n], scored)
  BY <1>2, <1>4
<1> QED BY <1>1, <1>5

\* The scored rows up to an index.
Scored(s, n, scored) == UpTo(s, n) \cap scored

\* One row further.
LEMMA ScoredNext ==
  ASSUME NEW s, NEW scored, NEW n \in Nat \ {0}
  PROVE  Scored(s, n, scored) = IF s[n] \in scored THEN Scored(s, n - 1, scored) \cup {s[n]}
                                ELSE Scored(s, n - 1, scored)
<1>1. UpTo(s, n) = UpTo(s, n - 1) \cup {s[n]}
  <2>1. 1 .. n = (1 .. n - 1) \cup {n}
    OBVIOUS
  <2> QED BY <2>1 DEF UpTo
<1> QED BY <1>1 DEF Scored

\* The last scored row comes after the others.
LEMMA ScoredOrder ==
  ASSUME fixture \in Fixtures, NEW X \in SUBSET Match, NEW s, Lists(s, X), NEW scored,
         NEW n \in 1 .. Cardinality(X)
  PROVE  /\ s[n] \in Match /\ s[n] \notin Scored(s, n - 1, scored)
         /\ Scored(s, n - 1, scored) \subseteq X
         /\ \A e \in Scored(s, n - 1, scored) : Precedes(e, s[n])
<1>1. Cardinality(X) \in Nat
  BY ListFacts
<1>2. \A i \in 1 .. n - 1 : i \in 1 .. Cardinality(X) /\ i < n
  BY <1>1
<1>3. /\ s[n] \in Match
      /\ \A i \in 1 .. n - 1 : s[i] \in X /\ Precedes(s[i], s[n])
      /\ \A i \in 1 .. n - 1 : s[i] # s[n]
  BY <1>1, <1>2, ListFacts
<1> QED BY <1>3 DEF Scored, UpTo

\* The features of a row are made of the state after the rows that kicked off
\* strictly before it: its whole group sees that state.
LEMMA PassRow ==
  ASSUME fixture \in Fixtures, NEW rows \in SUBSET Match, NEW scored, NEW m \in rows
  PROVE  \E n \in 0 .. Cardinality(rows) - 1 :
           /\ Pass(rows, scored)[m] = FeaturesFor(StateAfter(Ordered(rows), scored)[n], m)
           /\ UpTo(Ordered(rows), n) = {e \in rows : Kickoff(e) < Kickoff(m)}
<1> DEFINE N == Cardinality(rows)
           s == Ordered(rows)
           K == Kickoff(m)
           begins(n) == Kickoff(s[n + 1]) = K /\ (n = 0 \/ Kickoff(s[n]) # K)
           n0 == CHOOSE n \in 0 .. N - 1 : begins(n)
<1>1. Lists(s, rows) /\ m \in Match /\ K \in Nat
  BY OrderedLists, Calendar
<1>2. /\ N \in Nat /\ Len(s) = N
      /\ \A i \in 1 .. N : s[i] \in rows /\ s[i] \in Match /\ Kickoff(s[i]) \in Nat
      /\ \A i, j \in 1 .. N : Precedes(s[i], s[j]) <=> i < j
      /\ \A e \in rows : \E i \in 1 .. N : s[i] = e
  <2> HIDE DEF s
  <2>1. /\ N \in Nat /\ Len(s) = N
        /\ \A i \in 1 .. N : s[i] \in rows /\ s[i] \in Match
        /\ \A i, j \in 1 .. N : Precedes(s[i], s[j]) <=> i < j
    BY <1>1, ListFacts
  <2>2. \A e \in rows : \E i \in 1 .. N : s[i] = e
    BY <1>1 DEF Lists
  <2> QED BY <2>1, <2>2, Calendar
<1>3. Pass(rows, scored)[m] = FeaturesFor(StateAfter(s, scored)[n0], m)
  BY <1>2 DEF Pass
<1> HIDE DEF s, N
<1>4. \E n \in 0 .. N - 1 : begins(n)
  <2> DEFINE I == {i \in 1 .. N : Kickoff(s[i]) = K}
  <2>1. I \in SUBSET Nat /\ I # {}
    BY <1>2
  <2>2. PICK i \in I : \A k \in I : i <= k
    <3> HIDE DEF I
    <3> QED BY <2>1, Least
  <2>3. i - 1 \in 0 .. N - 1 /\ (i - 1) + 1 = i
    BY <1>2
  <2>4. i - 1 = 0 \/ Kickoff(s[i - 1]) # K
    <3>1. i - 1 # 0 => i - 1 \in 1 .. N /\ ~(i <= i - 1)
      BY <1>2
    <3> QED BY <2>2, <3>1
  <2>5. begins(i - 1)
    BY <2>3, <2>4
  <2> QED BY <2>3, <2>5
<1>5. n0 \in 0 .. N - 1 /\ begins(n0)
  <2> HIDE DEF begins
  <2> QED BY <1>4
<1> HIDE DEF n0
<1>6. n0 + 1 \in 1 .. N /\ s[n0 + 1] \in Match /\ Kickoff(s[n0 + 1]) = K
  BY <1>2, <1>5
<1>7. ASSUME NEW i \in 1 .. n0 PROVE s[i] \in rows /\ Kickoff(s[i]) < K
  <2>1. i \in 1 .. N /\ n0 \in 1 .. N /\ i < n0 + 1 /\ n0 < n0 + 1 /\ (i = n0 \/ i < n0)
    BY <1>2, <1>5
  <2>2. /\ s[i] \in rows /\ s[i] \in Match /\ s[n0] \in Match
        /\ Kickoff(s[i]) \in Nat /\ Kickoff(s[n0]) \in Nat
    BY <1>2, <2>1
  <2>3. Precedes(s[n0], s[n0 + 1]) /\ (i = n0 \/ Precedes(s[i], s[n0]))
    BY <1>2, <1>6, <2>1
  <2>4. Kickoff(s[n0]) <= K /\ (i = n0 \/ Kickoff(s[i]) <= Kickoff(s[n0]))
    BY <1>6, <2>2, <2>3, RowOrder
  <2>5. Kickoff(s[n0]) # K
    BY <1>5, <2>1
  <2> QED BY <1>1, <2>2, <2>4, <2>5
<1>8. ASSUME NEW e \in rows, Kickoff(e) < K PROVE \E i \in 1 .. n0 : s[i] = e
  <2>1. PICK i \in 1 .. N : s[i] = e
    BY <1>2
  <2>2. Precedes(s[i], s[n0 + 1])
    BY <1>6, <1>8, <2>1, RowOrder
  <2>3. i < n0 + 1
    BY <1>2, <1>6, <2>2
  <2>4. i \in 1 .. n0
    BY <1>2, <1>5, <2>3
  <2> QED BY <2>1, <2>4
<1>9. UpTo(s, n0) = {e \in rows : Kickoff(e) < K}
  BY <1>7, <1>8 DEF UpTo
<1> QED BY <1>3, <1>5, <1>9 DEF s, N

\* The state depends on the scored rows alone: not on where in the list they
\* stand, nor on the rows without a score between them.
LEMMA SameState ==
  ASSUME fixture \in Fixtures, NEW X \in SUBSET Match, NEW Y \in SUBSET Match,
         NEW s, NEW t, Lists(s, X), Lists(t, Y), NEW scored,
         NEW n \in 0 .. Cardinality(X), NEW k \in 0 .. Cardinality(Y),
         Scored(s, n, scored) = Scored(t, k, scored)
  PROVE  StateAfter(s, scored)[n] = StateAfter(t, scored)[k]
<1> DEFINE f == StateAfter(s, scored)
           g == StateAfter(t, scored)
           I == 0 .. Cardinality(X)
           J == 0 .. Cardinality(Y)
           Same(i, j) == Scored(s, i, scored) = Scored(t, j, scored) => f[i] = g[j]
           P == {p \in Nat : \A i \in I : \A j \in J : i + j <= p => Same(i, j)}
<1>1. /\ Cardinality(X) \in Nat /\ Len(s) = Cardinality(X)
      /\ Cardinality(Y) \in Nat /\ Len(t) = Cardinality(Y)
      /\ s \in Seq(X) /\ t \in Seq(Y)
  BY ListFacts DEF Lists
<1>2. /\ f[0] = EmptyState /\ g[0] = EmptyState
      /\ \A i \in 1 .. Cardinality(X) : f[i] = Update(f[i - 1], s[i], scored)
      /\ \A j \in 1 .. Cardinality(Y) : g[j] = Update(g[j - 1], t[j], scored)
  BY <1>1, AfterEach
<1> HIDE DEF f, g
<1>3. 0 \in P
  <2>1. ASSUME NEW i \in I, NEW j \in J, i + j <= 0 PROVE f[i] = g[j]
    <3>1. i = 0 /\ j = 0
      BY <1>1, <2>1
    <3> QED BY <1>2, <3>1
  <2> QED BY <2>1
<1>4. ASSUME NEW p \in P PROVE p + 1 \in P
  <2> SUFFICES ASSUME NEW i \in I, NEW j \in J, i + j <= p + 1,
                      Scored(s, i, scored) = Scored(t, j, scored)
               PROVE  f[i] = g[j]
    OBVIOUS
  <2>1. ASSUME i # 0
        PROVE  /\ i \in 1 .. Cardinality(X) /\ i \in Nat \ {0} /\ i - 1 \in I
               /\ (i - 1) + j <= p /\ f[i] = Update(f[i - 1], s[i], scored)
    <3>1. /\ i \in 1 .. Cardinality(X) /\ i \in Nat \ {0} /\ i - 1 \in I /\ (i - 1) + j <= p
      BY <1>1, <2>1
    <3> QED BY <1>2, <3>1
  <2>2. ASSUME j # 0
        PROVE  /\ j \in 1 .. Cardinality(Y) /\ j \in Nat \ {0} /\ j - 1 \in J
               /\ i + (j - 1) <= p /\ g[j] = Update(g[j - 1], t[j], scored)
    <3>1. /\ j \in 1 .. Cardinality(Y) /\ j \in Nat \ {0} /\ j - 1 \in J /\ i + (j - 1) <= p
      BY <1>1, <2>2
    <3> QED BY <1>2, <3>1
  <2>3. CASE i # 0 /\ s[i] \notin scored
    <3>1. Scored(s, i - 1, scored) = Scored(t, j, scored) /\ f[i] = f[i - 1]
      BY <2>1, <2>3, ScoredNext DEF Update
    <3>2. Same(i - 1, j)
      BY <2>1, <2>3
    <3> QED BY <3>1, <3>2
  <2>4. CASE j # 0 /\ t[j] \notin scored
    <3>1. Scored(t, j - 1, scored) = Scored(s, i, scored) /\ g[j] = g[j - 1]
      BY <2>2, <2>4, ScoredNext DEF Update
    <3>2. Same(i, j - 1)
      BY <2>2, <2>4
    <3> QED BY <3>1, <3>2
  <2>5. Scored(s, 0, scored) = {} /\ Scored(t, 0, scored) = {}
    BY DEF Scored, UpTo
  <2>6. CASE i = 0 /\ j = 0
    BY <1>2, <2>6
  <2>7. ASSUME i # 0, s[i] \in scored
        PROVE  Scored(s, i, scored) = Scored(s, i - 1, scored) \cup {s[i]}
    BY <2>1, <2>7, ScoredNext
  <2>8. ASSUME j # 0, t[j] \in scored
        PROVE  Scored(t, j, scored) = Scored(t, j - 1, scored) \cup {t[j]}
    BY <2>2, <2>8, ScoredNext
  <2>9. CASE i # 0 /\ j # 0 /\ s[i] \in scored /\ t[j] \in scored
    <3>1. /\ s[i] \in Match /\ s[i] \notin Scored(s, i - 1, scored)
          /\ Scored(s, i - 1, scored) \subseteq Match
          /\ \A e \in Scored(s, i - 1, scored) : Precedes(e, s[i])
      BY <2>1, <2>9, ScoredOrder
    <3>2. /\ t[j] \in Match /\ t[j] \notin Scored(t, j - 1, scored)
          /\ Scored(t, j - 1, scored) \subseteq Match
          /\ \A e \in Scored(t, j - 1, scored) : Precedes(e, t[j])
      BY <2>2, <2>9, ScoredOrder
    <3>3. s[i] = t[j]
      <4>1. s[i] = t[j] \/ Precedes(s[i], t[j])
        BY <2>7, <2>8, <2>9, <3>2
      <4>2. s[i] = t[j] \/ Precedes(t[j], s[i])
        BY <2>7, <2>8, <2>9, <3>1
      <4> QED BY <3>1, <3>2, <4>1, <4>2, RowOrder
    <3>4. Scored(s, i - 1, scored) = Scored(t, j - 1, scored)
      BY <2>7, <2>8, <2>9, <3>1, <3>2, <3>3
    <3>5. (i - 1) + (j - 1) <= p /\ i - 1 \in I /\ j - 1 \in J
      BY <1>1, <2>1, <2>2, <2>9
    <3>6. Same(i - 1, j - 1)
      BY <3>5
    <3> QED BY <2>1, <2>2, <2>9, <3>3, <3>4, <3>6
  <2> QED BY <2>3, <2>4, <2>5, <2>6, <2>7, <2>8, <2>9
<1>5. P = Nat
  <2>1. P \in SUBSET Nat
    OBVIOUS
  <2> HIDE DEF P
  <2> QED BY <1>3, <1>4, <2>1, Climb
<1>6. n + k \in P /\ n + k <= n + k
  BY <1>1, <1>5
<1>7. Same(n, k)
  BY <1>6
<1> QED BY <1>7 DEF f, g

\* A match that is served in a batch and one that is served alone see the same
\* state: the confirmed matches that kicked off before it.
LEMMA ServedTheSame ==
  ASSUME TypeOK PROVE BatchServesAsSingle
<1> SUFFICES ASSUME NEW m \in Upcoming PROVE ServedTogether[m] = ServedAlone(m)
  BY DEF BatchServesAsSingle
<1> DEFINE X == History(LatestKickoff) \cup Upcoming
           Y == History(Kickoff(m)) \cup {m}
           E == {e \in confirmed : Kickoff(e) < Kickoff(m)}
<1>1. fixture \in Fixtures /\ confirmed \subseteq Match /\ m \in Match /\ Upcoming \subseteq Match
  BY DEF TypeOK, Upcoming
<1>2. X \in SUBSET Match /\ Y \in SUBSET Match
  BY <1>1 DEF History
<1>3. \A e \in Match : Kickoff(e) \in Nat
  BY <1>1, Calendar
<1>4. LatestKickoff \in Nat /\ Kickoff(m) <= LatestKickoff
  <2> DEFINE T == {Kickoff(e) : e \in Upcoming}
             up == {MaxTime - k : k \in T}
  <2>1. /\ T \subseteq Nat /\ Kickoff(m) \in T
        /\ MaxTime \in Nat /\ \A k \in T : k <= MaxTime
    <3>1. \A e \in Upcoming : Kickoff(e) \in Time
      BY <1>1, Calendar
    <3> QED BY <3>1, TrainingAssumption DEF Time
  <2>2. \E k \in T : \A l \in T : l <= k
    <3> HIDE DEF T
    <3>1. up \in SUBSET Nat /\ up # {}
      <4>1. \A k \in T : MaxTime - k \in Nat
        BY <2>1
      <4>2. MaxTime - Kickoff(m) \in up
        BY <2>1
      <4> QED BY <4>1, <4>2
    <3>2. PICK d \in up : \A l \in up : d <= l
      <4> HIDE DEF up
      <4> QED BY <3>1, Least
    <3>3. PICK k \in T : d = MaxTime - k
      OBVIOUS
    <3>4. \A l \in T : MaxTime - k <= MaxTime - l
      BY <3>2, <3>3
    <3>5. \A l \in T : l <= k
      BY <2>1, <3>4
    <3> QED BY <3>5
  <2>3. \E k \in T : \A e \in Upcoming : Kickoff(e) <= k
    BY <2>2
  <2>4. LatestKickoff \in T /\ \A e \in Upcoming : Kickoff(e) <= LatestKickoff
    BY <2>3 DEF LatestKickoff
  <2> QED BY <2>1, <2>4
<1>5. {e \in X : Kickoff(e) < Kickoff(m)} \cap confirmed = E
  BY <1>1, <1>3, <1>4 DEF History
<1>6. {e \in Y : Kickoff(e) < Kickoff(m)} \cap confirmed = E
  BY <1>1, <1>3 DEF History
<1>7. m \in X /\ m \in Y
  OBVIOUS
<1>8. ServedTogether[m] = Pass(X, confirmed)[m] /\ ServedAlone(m) = Pass(Y, confirmed)[m]
  BY DEF ServedTogether, ServedAlone
<1> HIDE DEF X, Y, E
<1>9. PICK n \in 0 .. Cardinality(X) - 1 :
        /\ Pass(X, confirmed)[m] = FeaturesFor(StateAfter(Ordered(X), confirmed)[n], m)
        /\ UpTo(Ordered(X), n) = {e \in X : Kickoff(e) < Kickoff(m)}
  BY <1>1, <1>2, <1>7, PassRow
<1>10. PICK k \in 0 .. Cardinality(Y) - 1 :
         /\ Pass(Y, confirmed)[m] = FeaturesFor(StateAfter(Ordered(Y), confirmed)[k], m)
         /\ UpTo(Ordered(Y), k) = {e \in Y : Kickoff(e) < Kickoff(m)}
  BY <1>1, <1>2, <1>7, PassRow
<1>11. Scored(Ordered(X), n, confirmed) = Scored(Ordered(Y), k, confirmed)
  BY <1>5, <1>6, <1>9, <1>10 DEF Scored
<1>12. n \in 0 .. Cardinality(X) /\ k \in 0 .. Cardinality(Y)
  BY <1>2, RowsFinite
<1>13. Lists(Ordered(X), X) /\ Lists(Ordered(Y), Y)
  BY <1>1, <1>2, OrderedLists
<1>14. StateAfter(Ordered(X), confirmed)[n] = StateAfter(Ordered(Y), confirmed)[k]
  BY <1>1, <1>2, <1>11, <1>12, <1>13, SameState
<1> QED BY <1>8, <1>9, <1>10, <1>14

-----------------------------------------------------------------------------
(* What the accumulated state knows of the scored rows.                    *)

AtHome(t) == {e \in Match : fixture[e].home = t}
AtAway(t) == {e \in Match : fixture[e].away = t}
Own(t) == {e \in Match : t \in {fixture[e].home, fixture[e].away}}
Between(pair) == {e \in Match : {fixture[e].home, fixture[e].away} = pair}
InSeason(y) == {e \in Match : Season(Kickoff(e)) = y}

\* What it knows of one team.
KnowsTeam(state, S, t) ==
  /\ Lists(state.results[t], S \cap Own(t))
  /\ Lists(state.homeResults[t], S \cap AtHome(t))
  /\ Lists(state.awayResults[t], S \cap AtAway(t))
  /\ Lists(state.stats[t], S \cap (Own(t) \cap stats))
  /\ S \cap Own(t) \subseteq state.elo[t] /\ state.elo[t] \subseteq S
  /\ S \cap Own(t) = {} => state.lastKickoff[t] = None
  /\ S \cap Own(t) # {} =>
       \E e \in S \cap Own(t) : /\ state.lastKickoff[t] = Kickoff(e)
                                /\ \A f \in S \cap Own(t) : Kickoff(f) <= Kickoff(e)
  /\ state.seasonCounts[t] \in [Seasons -> Nat]
  /\ \A y \in Seasons :
       state.seasonCounts[t][y] = Cardinality(S \cap (Own(t) \cap InSeason(y)))

Knows(state, S) ==
  /\ \A t \in Team : KnowsTeam(state, S, t)
  /\ DOMAIN state.h2h = SUBSET Team
  /\ \A pair \in SUBSET Team : Lists(state.h2h[pair], S \cap Between(pair))
  /\ state.goals = S

\* A list of some of the rows, kept up with the next row.
LEMMA ListExtends ==
  ASSUME fixture \in Fixtures, NEW S \in SUBSET Match, NEW m \in Match,
         \A e \in S : Precedes(e, m), NEW A, NEW s, Lists(s, S \cap A)
  PROVE  Lists(IF m \in A THEN Append(s, m) ELSE s, (S \cup {m}) \cap A)
<1>1. CASE m \notin A
  <2>1. (S \cup {m}) \cap A = S \cap A
    BY <1>1
  <2> QED BY <1>1, <2>1
<1>2. CASE m \in A
  <2> DEFINE X == S \cap A
  <2>1. (S \cup {m}) \cap A = X \cup {m} /\ X \in SUBSET Match /\ \A e \in X : Precedes(e, m)
    BY <1>2
  <2>2. Lists(s, X)
    OBVIOUS
  <2> HIDE DEF X
  <2>3. Lists(Append(s, m), X \cup {m})
    BY <2>1, <2>2, ListGrows
  <2> QED BY <1>2, <2>1, <2>3
<1> QED BY <1>1, <1>2

\* Before the first row it knows nothing.
LEMMA KnowsNothing == Knows(EmptyState, {})
<1>1. Lists(<<>>, {}) /\ Cardinality({}) = 0
  BY FS_EmptySet DEF Lists
<1>2. \A A : {} \cap A = {}
  OBVIOUS
<1>3. ASSUME NEW t \in Team PROVE KnowsTeam(EmptyState, {}, t)
  <2>1. /\ EmptyState.results[t] = <<>> /\ EmptyState.homeResults[t] = <<>>
        /\ EmptyState.awayResults[t] = <<>> /\ EmptyState.stats[t] = <<>>
        /\ EmptyState.elo[t] = {} /\ EmptyState.lastKickoff[t] = None
        /\ EmptyState.seasonCounts[t] = [y \in Seasons |-> 0]
    BY DEF EmptyState
  <2> QED BY <1>1, <1>2, <2>1 DEF KnowsTeam
<1>4. /\ DOMAIN EmptyState.h2h = SUBSET Team /\ EmptyState.goals = {}
      /\ \A pair \in SUBSET Team : EmptyState.h2h[pair] = <<>>
  BY DEF EmptyState
<1> QED BY <1>1, <1>2, <1>3, <1>4 DEF Knows

\* What a played match changes for one team.
LEMMA PlayedTeam ==
  ASSUME NEW st, NEW m \in Match, NEW t \in Team
  PROVE  LET p == Played(st, m)
         IN  /\ p.results[t] = IF m \in Own(t) THEN Append(st.results[t], m) ELSE st.results[t]
             /\ p.homeResults[t] = IF m \in AtHome(t) THEN Append(st.homeResults[t], m)
                                   ELSE st.homeResults[t]
             /\ p.awayResults[t] = IF m \in AtAway(t) THEN Append(st.awayResults[t], m)
                                   ELSE st.awayResults[t]
             /\ p.stats[t] = IF m \in Own(t) \cap stats THEN Append(st.stats[t], m)
                             ELSE st.stats[t]
             /\ p.elo[t] = IF m \in Own(t)
                           THEN st.elo[fixture[m].home] \cup st.elo[fixture[m].away] \cup {m}
                           ELSE st.elo[t]
             /\ p.lastKickoff[t] = IF m \in Own(t) THEN Kickoff(m) ELSE st.lastKickoff[t]
             /\ p.seasonCounts[t] = IF m \in Own(t)
                  THEN [st.seasonCounts[t] EXCEPT ![Season(Kickoff(m))] = @ + 1]
                  ELSE st.seasonCounts[t]
<1>1. /\ m \in Own(t) <=> t \in {fixture[m].home, fixture[m].away}
      /\ m \in AtHome(t) <=> t \in {fixture[m].home}
      /\ m \in AtAway(t) <=> t \in {fixture[m].away}
  BY DEF Own, AtHome, AtAway
<1>2. /\ Played(st, m).results[t] = IF m \in Own(t) THEN Append(st.results[t], m)
                                    ELSE st.results[t]
      /\ Played(st, m).homeResults[t] = IF m \in AtHome(t) THEN Append(st.homeResults[t], m)
                                        ELSE st.homeResults[t]
      /\ Played(st, m).awayResults[t] = IF m \in AtAway(t) THEN Append(st.awayResults[t], m)
                                        ELSE st.awayResults[t]
  BY <1>1 DEF Played
<1>3. Played(st, m).stats[t] = IF m \in Own(t) \cap stats THEN Append(st.stats[t], m)
                               ELSE st.stats[t]
  BY <1>1 DEF Played
<1>4. /\ Played(st, m).elo[t] = IF m \in Own(t)
           THEN st.elo[fixture[m].home] \cup st.elo[fixture[m].away] \cup {m}
           ELSE st.elo[t]
      /\ Played(st, m).lastKickoff[t] = IF m \in Own(t) THEN Kickoff(m)
                                        ELSE st.lastKickoff[t]
  BY <1>1 DEF Played, Kickoff
<1>5. Played(st, m).seasonCounts[t] = IF m \in Own(t)
        THEN [st.seasonCounts[t] EXCEPT ![Season(Kickoff(m))] = @ + 1]
        ELSE st.seasonCounts[t]
  BY <1>1 DEF Played, Kickoff
<1> QED BY <1>2, <1>3, <1>4, <1>5

\* A played match, later than all it knows, is added to what it knows of a team.
LEMMA KnowsTeamNext ==
  ASSUME fixture \in Fixtures, NEW S \in SUBSET Match, NEW m \in Match,
         \A e \in S : Precedes(e, m), NEW st, \A t \in Team : KnowsTeam(st, S, t),
         NEW t \in Team
  PROVE  KnowsTeam(Played(st, m), S \cup {m}, t)
<1> DEFINE p == Played(st, m)
           R == S \cup {m}
<1>1. KnowsTeam(st, S, t)
  OBVIOUS
<1>2. /\ Lists(p.results[t], R \cap Own(t))
      /\ Lists(p.homeResults[t], R \cap AtHome(t))
      /\ Lists(p.awayResults[t], R \cap AtAway(t))
      /\ Lists(p.stats[t], R \cap (Own(t) \cap stats))
  <2>1. /\ Lists(st.results[t], S \cap Own(t))
        /\ Lists(st.homeResults[t], S \cap AtHome(t))
        /\ Lists(st.awayResults[t], S \cap AtAway(t))
        /\ Lists(st.stats[t], S \cap (Own(t) \cap stats))
    BY <1>1 DEF KnowsTeam
  <2>2. Lists(p.results[t], R \cap Own(t))
    <3> DEFINE A == Own(t)
               s == st.results[t]
    <3>1. Lists(s, S \cap A)
      BY <2>1
    <3>2. p.results[t] = IF m \in A THEN Append(s, m) ELSE s
      BY PlayedTeam
    <3> HIDE DEF A, s, p
    <3>3. Lists(IF m \in A THEN Append(s, m) ELSE s, (S \cup {m}) \cap A)
      BY <3>1, ListExtends
    <3> QED BY <3>2, <3>3 DEF A
  <2>3. Lists(p.homeResults[t], R \cap AtHome(t))
    <3> DEFINE A == AtHome(t)
               s == st.homeResults[t]
    <3>1. Lists(s, S \cap A)
      BY <2>1
    <3>2. p.homeResults[t] = IF m \in A THEN Append(s, m) ELSE s
      BY PlayedTeam
    <3> HIDE DEF A, s, p
    <3>3. Lists(IF m \in A THEN Append(s, m) ELSE s, (S \cup {m}) \cap A)
      BY <3>1, ListExtends
    <3> QED BY <3>2, <3>3 DEF A
  <2>4. Lists(p.awayResults[t], R \cap AtAway(t))
    <3> DEFINE A == AtAway(t)
               s == st.awayResults[t]
    <3>1. Lists(s, S \cap A)
      BY <2>1
    <3>2. p.awayResults[t] = IF m \in A THEN Append(s, m) ELSE s
      BY PlayedTeam
    <3> HIDE DEF A, s, p
    <3>3. Lists(IF m \in A THEN Append(s, m) ELSE s, (S \cup {m}) \cap A)
      BY <3>1, ListExtends
    <3> QED BY <3>2, <3>3 DEF A
  <2>5. Lists(p.stats[t], R \cap (Own(t) \cap stats))
    <3> DEFINE A == Own(t) \cap stats
               s == st.stats[t]
    <3>1. Lists(s, S \cap A)
      BY <2>1
    <3>2. p.stats[t] = IF m \in A THEN Append(s, m) ELSE s
      BY PlayedTeam
    <3> HIDE DEF A, s, p
    <3>3. Lists(IF m \in A THEN Append(s, m) ELSE s, (S \cup {m}) \cap A)
      BY <3>1, ListExtends
    <3> QED BY <3>2, <3>3 DEF A
  <2> QED BY <2>2, <2>3, <2>4, <2>5
<1>3. R \cap Own(t) \subseteq p.elo[t] /\ p.elo[t] \subseteq R
  <2>1. \A u \in Team : S \cap Own(u) \subseteq st.elo[u] /\ st.elo[u] \subseteq S
    BY DEF KnowsTeam
  <2>2. fixture[m].home \in Team /\ fixture[m].away \in Team
    BY Calendar
  <2>3. CASE m \in Own(t)
    <3>1. p.elo[t] = st.elo[fixture[m].home] \cup st.elo[fixture[m].away] \cup {m}
      BY <2>3, PlayedTeam
    <3>2. t = fixture[m].home \/ t = fixture[m].away
      BY <2>3 DEF Own
    <3>3. S \cap Own(t) \subseteq p.elo[t]
      BY <2>1, <3>1, <3>2
    <3>4. p.elo[t] \subseteq R
      BY <2>1, <2>2, <3>1
    <3> QED BY <3>1, <3>3, <3>4
  <2>4. CASE m \notin Own(t)
    <3>1. p.elo[t] = st.elo[t]
      BY <2>4, PlayedTeam
    <3> QED BY <2>1, <2>4, <3>1
  <2> QED BY <2>3, <2>4
<1>4. /\ R \cap Own(t) = {} => p.lastKickoff[t] = None
      /\ R \cap Own(t) # {} =>
           \E e \in R \cap Own(t) : /\ p.lastKickoff[t] = Kickoff(e)
                                    /\ \A f \in R \cap Own(t) : Kickoff(f) <= Kickoff(e)
  <2>1. CASE m \in Own(t)
    <3>1. p.lastKickoff[t] = Kickoff(m) /\ m \in R \cap Own(t)
      BY <2>1, PlayedTeam
    <3>2. \A f \in R \cap Own(t) : Kickoff(f) <= Kickoff(m)
      BY Calendar, RowOrder
    <3> QED BY <3>1, <3>2
  <2>2. CASE m \notin Own(t)
    <3>1. p.lastKickoff[t] = st.lastKickoff[t] /\ R \cap Own(t) = S \cap Own(t)
      BY <2>2, PlayedTeam
    <3> QED BY <1>1, <3>1 DEF KnowsTeam
  <2> QED BY <2>1, <2>2
<1>5. /\ p.seasonCounts[t] \in [Seasons -> Nat]
      /\ \A y \in Seasons :
           p.seasonCounts[t][y] = Cardinality(R \cap (Own(t) \cap InSeason(y)))
  <2> DEFINE c == st.seasonCounts[t]
             d == p.seasonCounts[t]
             k == Season(Kickoff(m))
  <2>1. /\ c \in [Seasons -> Nat] /\ k \in Seasons
        /\ \A y \in Seasons : c[y] = Cardinality(S \cap (Own(t) \cap InSeason(y)))
    BY <1>1, Calendar DEF KnowsTeam
  <2>2. m \notin S
    BY RowOrder
  <2>3. CASE m \in Own(t)
    <3>1. d = [c EXCEPT ![k] = @ + 1]
      BY <2>3, PlayedTeam
    <3> HIDE DEF c, d
    <3>2. d \in [Seasons -> Nat] /\ d[k] = c[k] + 1 /\ \A y \in Seasons \ {k} : d[y] = c[y]
      BY <2>1, <3>1
    <3>3. ASSUME NEW y \in Seasons
          PROVE  d[y] = Cardinality(R \cap (Own(t) \cap InSeason(y)))
      <4> DEFINE A == S \cap (Own(t) \cap InSeason(y))
      <4>1. CASE y = k
        <5>1. R \cap (Own(t) \cap InSeason(y)) = A \cup {m} /\ m \notin A
          BY <2>2, <2>3, <4>1 DEF InSeason
        <5>2. IsFiniteSet(A)
          BY RowsFinite
        <5>3. Cardinality(A \cup {m}) = Cardinality(A) + 1
          BY <5>1, <5>2, FS_AddElement
        <5> QED BY <2>1, <3>2, <4>1, <5>1, <5>3
      <4>2. CASE y # k
        <5>1. R \cap (Own(t) \cap InSeason(y)) = A
          BY <4>2 DEF InSeason
        <5> QED BY <2>1, <3>2, <4>2, <5>1
      <4> QED BY <4>1, <4>2
    <3> QED BY <3>2, <3>3 DEF d
  <2>4. CASE m \notin Own(t)
    <3>1. d = c
      BY <2>4, PlayedTeam
    <3>2. \A y \in Seasons :
            R \cap (Own(t) \cap InSeason(y)) = S \cap (Own(t) \cap InSeason(y))
      BY <2>4
    <3> QED BY <2>1, <3>1, <3>2
  <2> QED BY <2>3, <2>4
<1> HIDE DEF p, R
<1>6. KnowsTeam(p, R, t)
  BY <1>2, <1>3, <1>4, <1>5 DEF KnowsTeam
<1> QED BY <1>6 DEF p, R

\* A played match is added to all it knows.
LEMMA KnowsNext ==
  ASSUME fixture \in Fixtures, NEW S \in SUBSET Match, NEW m \in Match,
         \A e \in S : Precedes(e, m), NEW st, Knows(st, S)
  PROVE  Knows(Played(st, m), S \cup {m})
<1> DEFINE p == Played(st, m)
           both == {fixture[m].home, fixture[m].away}
<1>1. \A t \in Team : KnowsTeam(p, S \cup {m}, t)
  BY KnowsTeamNext DEF Knows
<1>2. p.goals = S \cup {m} /\ p.h2h = [st.h2h EXCEPT ![both] = Append(@, m)]
  BY DEF Played, Knows
<1>3. both \in SUBSET Team
  BY Calendar
<1>4. DOMAIN st.h2h = SUBSET Team
      /\ \A pair \in SUBSET Team : Lists(st.h2h[pair], S \cap Between(pair))
  BY DEF Knows
<1>5. DOMAIN p.h2h = SUBSET Team
  BY <1>2, <1>4
<1>6. ASSUME NEW pair \in SUBSET Team
      PROVE  Lists(p.h2h[pair], (S \cup {m}) \cap Between(pair))
  <2>1. m \in Between(pair) <=> pair = both
    BY DEF Between
  <2>2. p.h2h[pair] = IF m \in Between(pair) THEN Append(st.h2h[pair], m) ELSE st.h2h[pair]
    <3> HIDE DEF p, both
    <3> QED BY <1>2, <1>3, <1>4, <2>1
  <2>3. Lists(st.h2h[pair], S \cap Between(pair))
    BY <1>4
  <2> DEFINE A == Between(pair)
             s == st.h2h[pair]
  <2>4. Lists(s, S \cap A) /\ p.h2h[pair] = IF m \in A THEN Append(s, m) ELSE s
    BY <2>2, <2>3
  <2> HIDE DEF p, A, s
  <2>5. Lists(IF m \in A THEN Append(s, m) ELSE s, (S \cup {m}) \cap A)
    BY <2>4, ListExtends
  <2> QED BY <2>4, <2>5 DEF A
<1> QED BY <1>1, <1>2, <1>5, <1>6 DEF Knows

\* After each row, the state knows the scored rows up to it.
LEMMA KnowsAfter ==
  ASSUME fixture \in Fixtures, NEW X \in SUBSET Match, NEW s, Lists(s, X), NEW scored,
         NEW n \in 0 .. Cardinality(X)
  PROVE  Knows(StateAfter(s, scored)[n], Scored(s, n, scored))
<1> DEFINE f == StateAfter(s, scored)
           P == {k \in Nat : k <= Cardinality(X) => Knows(f[k], Scored(s, k, scored))}
<1>1. Cardinality(X) \in Nat /\ Len(s) = Cardinality(X) /\ s \in Seq(X)
  BY ListFacts DEF Lists
<1>2. /\ f[0] = EmptyState
      /\ \A k \in 1 .. Cardinality(X) : f[k] = Update(f[k - 1], s[k], scored)
  BY <1>1, AfterEach
<1> HIDE DEF f
<1>3. 0 \in P
  <2>1. Scored(s, 0, scored) = {}
    BY DEF Scored, UpTo
  <2> QED BY <1>2, <2>1, KnowsNothing
<1>4. ASSUME NEW k \in P PROVE k + 1 \in P
  <2> SUFFICES ASSUME k + 1 <= Cardinality(X)
               PROVE  Knows(f[k + 1], Scored(s, k + 1, scored))
    OBVIOUS
  <2>1. k + 1 \in 1 .. Cardinality(X) /\ k + 1 \in Nat \ {0} /\ (k + 1) - 1 = k
        /\ k <= Cardinality(X)
    BY <1>1
  <2>2. f[k + 1] = Update(f[k], s[k + 1], scored) /\ Knows(f[k], Scored(s, k, scored))
    BY <1>2, <2>1
  <2>3. /\ s[k + 1] \in Match /\ Scored(s, k, scored) \in SUBSET Match
        /\ \A e \in Scored(s, k, scored) : Precedes(e, s[k + 1])
    BY <2>1, ScoredOrder
  <2>4. Scored(s, k + 1, scored) = IF s[k + 1] \in scored
                                   THEN Scored(s, k, scored) \cup {s[k + 1]}
                                   ELSE Scored(s, k, scored)
    <3>1. \A j \in Nat \ {0} :
            Scored(s, j, scored) = IF s[j] \in scored THEN Scored(s, j - 1, scored) \cup {s[j]}
                                   ELSE Scored(s, j - 1, scored)
      BY ScoredNext
    <3> QED BY <2>1, <3>1
  <2> QED BY <2>2, <2>3, <2>4, KnowsNext DEF Update
<1>5. P = Nat
  <2>1. P \in SUBSET Nat
    OBVIOUS
  <2> HIDE DEF P
  <2> QED BY <1>3, <1>4, <2>1, Climb
<1>6. n \in P /\ n <= Cardinality(X)
  BY <1>1, <1>5
<1> QED BY <1>6 DEF f

\* The last rows of a list, among some, are the latest of those matches.
LEMMA WindowIsLatest ==
  ASSUME fixture \in Fixtures, NEW X \in SUBSET Match, NEW s, Lists(s, X), NEW n, NEW among
  PROVE  Window(s, n, among) = Latest(n, X \cap among)
<1> DEFINE N == Cardinality(X)
           After(i) == {j \in DOMAIN s : j > i /\ s[j] \in among}
           Later(e) == {f \in X \cap among : Precedes(e, f)}
<1>1. /\ N \in Nat /\ DOMAIN s = 1 .. N
      /\ \A i \in 1 .. N : s[i] \in X /\ s[i] \in Match
      /\ \A i, j \in 1 .. N : Precedes(s[i], s[j]) <=> i < j
      /\ \A i, j \in 1 .. N : s[i] = s[j] => i = j
      /\ \A e \in X : \E i \in 1 .. N : s[i] = e
  <2>1. \A e \in X : \E i \in 1 .. N : s[i] = e
    BY DEF Lists
  <2> QED BY <2>1, ListFacts
<1>2. ASSUME NEW i \in 1 .. N PROVE Cardinality(After(i)) = Cardinality(Later(s[i]))
  <2> DEFINE A == After(i)
             L == Later(s[i])
             g == [j \in A |-> s[j]]
  <2>1. \A j \in A : j \in 1 .. N /\ j > i /\ s[j] \in among
    BY <1>1
  <2>2. g \in [A -> L]
    BY <1>1, <2>1
  <2>3. \A j \in A : \A k \in A : g[j] = g[k] => j = k
    BY <1>1, <2>1
  <2>4. ASSUME NEW f \in L PROVE \E j \in A : g[j] = f
    <3>1. PICK j \in 1 .. N : s[j] = f
      BY <1>1
    <3>2. i < j /\ f \in among
      BY <1>1, <3>1
    <3>3. j \in A
      BY <1>1, <3>1, <3>2
    <3> QED BY <3>1, <3>3
  <2>5. IsFiniteSet(L)
    BY RowsFinite
  <2> HIDE DEF g, A, L
  <2>6. Cardinality(A) = Cardinality(L)
    BY <2>2, <2>3, <2>4, <2>5, OneToOne
  <2> QED BY <2>6 DEF A, L
<1>3. Window(s, n, among) = {s[i] : i \in {i \in DOMAIN s : s[i] \in among
                                                             /\ Cardinality(After(i)) < n}}
  BY DEF Window
<1>4. Latest(n, X \cap among) = {e \in X \cap among : Cardinality(Later(e)) < n}
  BY DEF Latest
<1> HIDE DEF After, Later
<1>5. ASSUME NEW e \in Window(s, n, among) PROVE e \in Latest(n, X \cap among)
  <2>1. PICK i \in 1 .. N : s[i] = e /\ s[i] \in among /\ Cardinality(After(i)) < n
    BY <1>1, <1>3
  <2> QED BY <1>1, <1>2, <1>4, <2>1
<1>6. ASSUME NEW e \in Latest(n, X \cap among) PROVE e \in Window(s, n, among)
  <2>1. e \in X /\ e \in among /\ Cardinality(Later(e)) < n
    BY <1>4
  <2>2. PICK i \in 1 .. N : s[i] = e
    BY <1>1, <2>1
  <2>3. Cardinality(After(i)) < n
    BY <1>2, <2>1, <2>2
  <2> QED BY <1>1, <1>3, <2>1, <2>2, <2>3
<1> QED BY <1>5, <1>6

-----------------------------------------------------------------------------
(* Each feature is what the calendar says it is.                           *)

\* One side of a match.
LEMMA SideAsOf ==
  ASSUME fixture \in Fixtures, confirmed \subseteq Match, NEW m \in Match, NEW t \in Team,
         NEW st, KnowsTeam(st, Earlier(m), t), NEW venue, NEW V, NEW at,
         Lists(venue[t], Earlier(m) \cap V), V \subseteq Own(t),
         \A e \in Own(t) : e \in V <=> at[e]
  PROVE  AsOf(m, SideFeatures(st, t, venue, Kickoff(m)), t, at)
<1> DEFINE S == Earlier(m)
           side == SideFeatures(st, t, venue, Kickoff(m))
           own == Of(t, S)
<1>1. S \in SUBSET Match /\ own = S \cap Own(t)
  BY DEF Earlier, Of, Own
<1>2. side = [elo |-> st.elo[t], form |-> Window(st.results[t], FormWindow, Match),
              strength |-> Window(st.results[t], StrengthWindow, Match),
              venue |-> Window(venue[t], FormWindow, Match), rest |-> st.lastKickoff[t],
              stats |-> Window(st.stats[t], StatsWindow, Available(Kickoff(m)))]
  BY DEF SideFeatures
<1>3. /\ Lists(st.results[t], S \cap Own(t))
      /\ Lists(st.stats[t], S \cap (Own(t) \cap stats))
      /\ S \cap Own(t) \subseteq st.elo[t] /\ st.elo[t] \subseteq S
      /\ S \cap Own(t) = {} => st.lastKickoff[t] = None
      /\ S \cap Own(t) # {} =>
           \E e \in S \cap Own(t) : /\ st.lastKickoff[t] = Kickoff(e)
                                    /\ \A f \in S \cap Own(t) : Kickoff(f) <= Kickoff(e)
  BY DEF KnowsTeam
<1>4. /\ S \cap Own(t) \in SUBSET Match /\ (S \cap Own(t)) \cap Match = own
      /\ S \cap V \in SUBSET Match /\ (S \cap V) \cap Match = {e \in own : at[e]}
      /\ S \cap (Own(t) \cap stats) \in SUBSET Match
  BY <1>1
<1>5. (S \cap (Own(t) \cap stats)) \cap Available(Kickoff(m))
        = {e \in own \cap stats : Kickoff(e) + StatsAfter + StatsLead <= Kickoff(m)}
  <2>1. \A e \in S : Kickoff(e) \in Nat
    BY <1>1, Calendar
  <2>2. Kickoff(m) \in Nat /\ StatsAfter \in Nat /\ StatsLead \in Nat
    BY Calendar, TrainingAssumption
  <2>3. \A e \in S : Kickoff(e) + StatsAfter <= Kickoff(m) - StatsLead
                     <=> Kickoff(e) + StatsAfter + StatsLead <= Kickoff(m)
    BY <2>1, <2>2
  <2> QED BY <1>1, <2>3 DEF Available
<1> HIDE DEF S, own
<1>6. /\ side.form = Latest(FormWindow, own)
      /\ side.strength = Latest(StrengthWindow, own)
  BY <1>2, <1>3, <1>4, WindowIsLatest
<1>7. side.venue = Latest(FormWindow, {e \in own : at[e]})
  <2>1. Lists(venue[t], S \cap V)
    BY DEF S
  <2>2. Window(venue[t], FormWindow, Match) = Latest(FormWindow, (S \cap V) \cap Match)
    BY <1>4, <2>1, WindowIsLatest
  <2> DEFINE W == {e \in own : at[e]}
  <2>3. side.venue = Window(venue[t], FormWindow, Match) /\ (S \cap V) \cap Match = W
    BY <1>2, <1>4
  <2> HIDE DEF W, side
  <2>4. side.venue = Latest(FormWindow, W)
    BY <2>2, <2>3
  <2> QED BY <2>4 DEF W
<1>8. side.stats = Latest(StatsWindow, {e \in own \cap stats :
                                          Kickoff(e) + StatsAfter + StatsLead <= Kickoff(m)})
  <2>1. Window(st.stats[t], StatsWindow, Available(Kickoff(m)))
          = Latest(StatsWindow, (S \cap (Own(t) \cap stats)) \cap Available(Kickoff(m)))
    <3> DEFINE X == S \cap (Own(t) \cap stats)
               l == st.stats[t]
    <3>1. Lists(l, X) /\ X \in SUBSET Match
      BY <1>3, <1>4
    <3> HIDE DEF X, l
    <3>2. \A among : Window(l, StatsWindow, among) = Latest(StatsWindow, X \cap among)
      BY <3>1, WindowIsLatest
    <3> QED BY <3>2 DEF X, l
  <2> DEFINE W == {e \in own \cap stats : Kickoff(e) + StatsAfter + StatsLead <= Kickoff(m)}
  <2>2. side.stats = Window(st.stats[t], StatsWindow, Available(Kickoff(m)))
        /\ (S \cap (Own(t) \cap stats)) \cap Available(Kickoff(m)) = W
    BY <1>2, <1>5
  <2> HIDE DEF W, side
  <2>3. side.stats = Latest(StatsWindow, W)
    BY <2>1, <2>2
  <2> QED BY <2>3 DEF W
<1>9. own \subseteq side.elo /\ side.elo \subseteq S
  BY <1>1, <1>2, <1>3
<1>10. IF own = {} THEN side.rest = None
       ELSE \E e \in own : side.rest = Kickoff(e) /\ \A f \in own : Kickoff(f) <= side.rest
  BY <1>1, <1>2, <1>3
<1> HIDE DEF side
<1> QED BY <1>6, <1>7, <1>8, <1>9, <1>10 DEF AsOf, S, own, side

\* The whole of a row, made of a state that knows the earlier matches.
LEMMA RowAsOf ==
  ASSUME fixture \in Fixtures, confirmed \subseteq Match, NEW m \in Match, NEW st,
         Knows(st, Earlier(m))
  PROVE  LET f == fixture[m] r == FeaturesFor(st, m)
         IN  /\ AsOf(m, r.home, f.home, [e \in Match |-> fixture[e].home = f.home])
             /\ AsOf(m, r.away, f.away, [e \in Match |-> fixture[e].away = f.away])
             /\ r.baseline = Earlier(m)
             /\ r.h2h = {[of |-> e, flipped |-> fixture[e].home = f.away] :
                           e \in Latest(H2HWindow, Of(f.home, Of(f.away, Earlier(m))))}
             /\ r.matchday = 1 + Cardinality({e \in Of(f.home, Earlier(m)) :
                                              Season(Kickoff(e)) = Season(f.kickoff)})
<1> DEFINE S == Earlier(m)
           f == fixture[m]
           r == FeaturesFor(st, m)
           atHome == [e \in Match |-> fixture[e].home = f.home]
           atAway == [e \in Match |-> fixture[e].away = f.away]
<1>1. S \in SUBSET Match /\ f.kickoff = Kickoff(m)
      /\ f.home \in Team /\ f.away \in Team /\ f.home # f.away
  BY Calendar DEF Earlier, Kickoff
<1>2. r = [home |-> SideFeatures(st, f.home, st.homeResults, Kickoff(m)),
           away |-> SideFeatures(st, f.away, st.awayResults, Kickoff(m)),
           matchday |-> st.seasonCounts[f.home][Season(Kickoff(m))] + 1,
           h2h |-> HeadToHead(st, f.home, f.away), baseline |-> st.goals]
  BY DEF FeaturesFor, Kickoff
<1>3. /\ KnowsTeam(st, S, f.home) /\ KnowsTeam(st, S, f.away) /\ st.goals = S
      /\ Lists(st.h2h[{f.home, f.away}], S \cap Between({f.home, f.away}))
  BY <1>1 DEF Knows
<1>4. AsOf(m, SideFeatures(st, f.home, st.homeResults, Kickoff(m)), f.home, atHome)
  <2>1. Lists(st.homeResults[f.home], S \cap AtHome(f.home))
    BY <1>3 DEF KnowsTeam
  <2>2. AtHome(f.home) \subseteq Own(f.home)
        /\ \A e \in Own(f.home) : e \in AtHome(f.home) <=> atHome[e]
    BY DEF AtHome, Own
  <2> HIDE DEF f, atHome
  <2> QED BY <1>1, <1>3, <2>1, <2>2, SideAsOf
<1>5. AsOf(m, SideFeatures(st, f.away, st.awayResults, Kickoff(m)), f.away, atAway)
  <2>1. Lists(st.awayResults[f.away], S \cap AtAway(f.away))
    BY <1>3 DEF KnowsTeam
  <2>2. AtAway(f.away) \subseteq Own(f.away)
        /\ \A e \in Own(f.away) : e \in AtAway(f.away) <=> atAway[e]
    BY DEF AtAway, Own
  <2> HIDE DEF f, atAway
  <2> QED BY <1>1, <1>3, <2>1, <2>2, SideAsOf
<1>6. r.h2h = {[of |-> e, flipped |-> fixture[e].home = f.away] :
                 e \in Latest(H2HWindow, Of(f.home, Of(f.away, S)))}
  <2> DEFINE B == S \cap Between({f.home, f.away})
             met == Latest(H2HWindow, Of(f.home, Of(f.away, S)))
  <2>1. B \in SUBSET Match /\ B \cap Match = Of(f.home, Of(f.away, S))
    <3>1. \A e \in S : {fixture[e].home, fixture[e].away} = {f.home, f.away}
                       <=> f.home \in {fixture[e].home, fixture[e].away}
                           /\ f.away \in {fixture[e].home, fixture[e].away}
      BY <1>1
    <3> HIDE DEF S, f
    <3> QED BY <1>1, <3>1 DEF Between, Of
  <2>2. Window(st.h2h[{f.home, f.away}], H2HWindow, Match) = met
    <3>1. Window(st.h2h[{f.home, f.away}], H2HWindow, Match) = Latest(H2HWindow, B \cap Match)
      BY <1>3, <2>1, WindowIsLatest
    <3> QED BY <2>1, <3>1
  <2>3. \A e \in met : e \in Match /\ fixture[e].home \in {f.home, f.away}
    <3>1. met \subseteq Of(f.home, Of(f.away, S))
      BY DEF Latest
    <3>2. \A e \in Of(f.home, Of(f.away, S)) : fixture[e].home \in {f.home, f.away}
      BY <1>1 DEF Of
    <3>3. Of(f.home, Of(f.away, S)) \subseteq Match
      BY <2>1
    <3> HIDE DEF met
    <3> QED BY <3>1, <3>2, <3>3
  <2> HIDE DEF met
  <2>4. r.h2h = {[of |-> e, flipped |-> fixture[e].home # f.home] : e \in met}
    BY <1>2, <2>2 DEF HeadToHead
  <2>5. \A e \in met : (fixture[e].home # f.home) = (fixture[e].home = f.away)
    BY <1>1, <2>3
  <2>6. \A e \in met : [of |-> e, flipped |-> fixture[e].home # f.home]
                       = [of |-> e, flipped |-> fixture[e].home = f.away]
    BY <2>5
  <2> HIDE DEF r
  <2> QED BY <2>4, <2>6 DEF met
<1>7. r.matchday = 1 + Cardinality({e \in Of(f.home, S) : Season(Kickoff(e)) = Season(f.kickoff)})
  <2>1. Season(Kickoff(m)) \in Seasons
    BY Calendar
  <2>2. /\ st.seasonCounts[f.home][Season(Kickoff(m))]
             = Cardinality(S \cap (Own(f.home) \cap InSeason(Season(Kickoff(m)))))
        /\ st.seasonCounts[f.home][Season(Kickoff(m))] \in Nat
    BY <1>3, <2>1 DEF KnowsTeam
  <2>3. S \cap (Own(f.home) \cap InSeason(Season(Kickoff(m))))
          = {e \in Of(f.home, S) : Season(Kickoff(e)) = Season(f.kickoff)}
    <3> DEFINE y == Season(f.kickoff)
               home == f.home
    <3>1. Season(Kickoff(m)) = y
      BY <1>1
    <3> HIDE DEF y, home
    <3>2. S \cap (Own(home) \cap InSeason(y)) = {e \in Of(home, S) : Season(Kickoff(e)) = y}
      BY <1>1 DEF Own, InSeason, Of
    <3> QED BY <3>1, <3>2 DEF y, home
  <2> DEFINE W == {e \in Of(f.home, S) : Season(Kickoff(e)) = Season(f.kickoff)}
             c == st.seasonCounts[f.home][Season(Kickoff(m))]
  <2>4. r.matchday = c + 1 /\ c \in Nat /\ c = Cardinality(W)
    <3>1. r.matchday = c + 1
      BY <1>2
    <3>2. c \in Nat /\ c = Cardinality(W)
      <4> HIDE DEF f, S
      <4> QED BY <2>2, <2>3
    <3> QED BY <3>1, <3>2
  <2> HIDE DEF W, c, r
  <2>5. r.matchday = 1 + Cardinality(W)
    BY <2>4
  <2> QED BY <2>5 DEF W
<1> QED BY <1>2, <1>3, <1>4, <1>5, <1>6, <1>7

\* Every row of a training set is as of its kickoff.
LEMMA RowsAsOf ==
  ASSUME TypeOK PROVE FeaturesAreAsOfKickoff
<1> SUFFICES ASSUME NEW m \in confirmed
             PROVE  LET f == fixture[m] r == Pass(TrainingRows, confirmed)[m]
                    IN  /\ AsOf(m, r.home, f.home, [e \in Match |-> fixture[e].home = f.home])
                        /\ AsOf(m, r.away, f.away, [e \in Match |-> fixture[e].away = f.away])
                        /\ r.baseline = Earlier(m)
                        /\ r.h2h = {[of |-> e, flipped |-> fixture[e].home = f.away] :
                             e \in Latest(H2HWindow, Of(f.home, Of(f.away, Earlier(m))))}
                        /\ r.matchday = 1 + Cardinality({e \in Of(f.home, Earlier(m)) :
                             Season(Kickoff(e)) = Season(f.kickoff)})
  BY DEF FeaturesAreAsOfKickoff, TrainingRows
<1>1. fixture \in Fixtures /\ confirmed \in SUBSET Match /\ m \in Match
  BY DEF TypeOK
<1>2. PICK n \in 0 .. Cardinality(confirmed) - 1 :
        /\ Pass(confirmed, confirmed)[m]
             = FeaturesFor(StateAfter(Ordered(confirmed), confirmed)[n], m)
        /\ UpTo(Ordered(confirmed), n) = {e \in confirmed : Kickoff(e) < Kickoff(m)}
  BY <1>1, PassRow
<1>3. n \in 0 .. Cardinality(confirmed) /\ Scored(Ordered(confirmed), n, confirmed) = Earlier(m)
  BY <1>1, <1>2, RowsFinite DEF Scored, Earlier
<1>4. Knows(StateAfter(Ordered(confirmed), confirmed)[n], Earlier(m))
  <2>1. Lists(Ordered(confirmed), confirmed)
    BY <1>1, OrderedLists
  <2>2. Knows(StateAfter(Ordered(confirmed), confirmed)[n],
              Scored(Ordered(confirmed), n, confirmed))
    BY <1>1, <1>3, <2>1, KnowsAfter
  <2> QED BY <1>3, <2>2
<1> QED BY <1>1, <1>2, <1>4, RowAsOf DEF TrainingRows

-----------------------------------------------------------------------------
(* The split.                                                              *)

\* Where temporal_split cuts n rows.
EvalRows(n) == AtLeastOne(n \div EvalPart)
CalibrationRows(n) == AtLeastOne(n \div CalibrationPart)
CutTrain(n) == SnapUp(AtLeastOne(n - EvalRows(n) - CalibrationRows(n)), n)
CutEval(n) == SnapUp(IF CutTrain(n) + 1 > n - EvalRows(n) THEN CutTrain(n) + 1
                     ELSE n - EvalRows(n), n)

\* The cuts come in order.
LEMMA CutsInOrder ==
  ASSUME NEW n \in Nat
  PROVE  /\ EvalRows(n) \in Nat \ {0} /\ CalibrationRows(n) \in Nat \ {0}
         /\ CutTrain(n) \in 0 .. n /\ CutEval(n) \in CutTrain(n) .. n
<1>1. EvalRows(n) \in Nat \ {0} /\ CalibrationRows(n) \in Nat \ {0}
  BY TrainingAssumption, Floor DEF EvalRows, CalibrationRows, AtLeastOne
<1>2. CutTrain(n) \in 0 .. n
  BY <1>1 DEF CutTrain, SnapUp, AtLeastOne
<1>3. CutEval(n) \in CutTrain(n) .. n
  BY <1>1, <1>2 DEF CutEval, SnapUp
<1> QED BY <1>1, <1>2, <1>3

\* How many rows there are from one index to another.
LEMMA PartSize ==
  ASSUME fixture \in Fixtures, NEW rows \in SUBSET Match,
         NEW a \in 1 .. Cardinality(rows) + 1, NEW b \in a - 1 .. Cardinality(rows)
  PROVE  Cardinality(Part(Ordered(rows), a, b)) = b - a + 1
<1> DEFINE s == Ordered(rows)
           P == Part(s, a, b)
           I == a .. b
           g == [i \in I |-> s[i]]
<1>1. Lists(s, rows)
  BY OrderedLists
<1> HIDE DEF s
<1>2. /\ Cardinality(rows) \in Nat
      /\ \A i \in 1 .. Cardinality(rows) : s[i] \in rows
      /\ \A i, j \in 1 .. Cardinality(rows) : s[i] = s[j] => i = j
  BY <1>1, ListFacts
<1>3. a \in Int /\ b \in Int /\ I \subseteq 1 .. Cardinality(rows)
  BY <1>2
<1>4. IsFiniteSet(P)
  <2>1. P \subseteq Match
    BY <1>2, <1>3 DEF Part
  <2> QED BY <2>1, RowsFinite
<1>5. g \in [I -> P] /\ \A i \in I : \A j \in I : g[i] = g[j] => i = j
  BY <1>2, <1>3 DEF Part
<1>6. \A e \in P : \E i \in I : g[i] = e
  BY DEF Part
<1>7. Cardinality(I) = IF a > b THEN 0 ELSE b - a + 1
  BY <1>3, FS_Interval
<1>8. Cardinality(I) = Cardinality(P)
  <2> HIDE DEF g, I, P
  <2> QED BY <1>4, <1>5, <1>6, OneToOne
<1>9. Cardinality(P) = b - a + 1
  <2> HIDE DEF P, I
  <2> QED BY <1>2, <1>7, <1>8
<1> QED BY <1>9 DEF P, s

\* The slices share the rows out, each row once, in their order.
LEMMA Slicing ==
  ASSUME fixture \in Fixtures, NEW rows \in SUBSET Match
  PROVE  LET n == Cardinality(rows)
             sp == Split(rows)
         IN  /\ sp = [train |-> Part(Ordered(rows), 1, CutTrain(n)),
                      calibration |-> Part(Ordered(rows), CutTrain(n) + 1, CutEval(n)),
                      eval |-> Part(Ordered(rows), CutEval(n) + 1, n)]
             /\ sp.train \cup sp.calibration \cup sp.eval = rows
             /\ \A a \in sp.train : \A b \in sp.calibration \cup sp.eval : Precedes(a, b)
             /\ \A a \in sp.calibration : \A b \in sp.eval : Precedes(a, b)
             /\ Cardinality(sp.train) = CutTrain(n)
             /\ Cardinality(sp.calibration) = CutEval(n) - CutTrain(n)
             /\ Cardinality(sp.eval) = n - CutEval(n)
<1> DEFINE n == Cardinality(rows)
           s == Ordered(rows)
           c == CutTrain(n)
           d == CutEval(n)
           sp == Split(rows)
<1>1. sp = [train |-> Part(s, 1, c), calibration |-> Part(s, c + 1, d), eval |-> Part(s, d + 1, n)]
  BY DEF Split, Chronological, CutTrain, CutEval, EvalRows, CalibrationRows
<1>2. n \in Nat /\ c \in 0 .. n /\ d \in c .. n
  BY RowsFinite, CutsInOrder
<1>3. Lists(s, rows)
  BY OrderedLists
<1> HIDE DEF c, d, s, sp
<1>4. /\ \A i \in 1 .. n : s[i] \in rows
      /\ \A i, j \in 1 .. n : Precedes(s[i], s[j]) <=> i < j
      /\ \A e \in rows : \E i \in 1 .. n : s[i] = e
  <2>1. \A e \in rows : \E i \in 1 .. n : s[i] = e
    BY <1>3 DEF Lists
  <2> QED BY <1>3, <2>1, ListFacts
<1> HIDE DEF n
<1>5. /\ sp.train = {s[i] : i \in 1 .. c} /\ sp.calibration = {s[i] : i \in c + 1 .. d}
      /\ sp.eval = {s[i] : i \in d + 1 .. n}
  BY <1>1 DEF Part
<1>6. 1 .. n = (1 .. c) \cup (c + 1 .. d) \cup (d + 1 .. n)
  BY <1>2
<1>7. sp.train \cup sp.calibration \cup sp.eval = rows
  BY <1>4, <1>5, <1>6
<1>8. \A a \in sp.train : \A b \in sp.calibration \cup sp.eval : Precedes(a, b)
  <2>1. \A i \in 1 .. c : \A j \in (c + 1 .. d) \cup (d + 1 .. n) :
          i \in 1 .. n /\ j \in 1 .. n /\ i < j
    BY <1>2
  <2> QED BY <1>4, <1>5, <2>1
<1>9. \A a \in sp.calibration : \A b \in sp.eval : Precedes(a, b)
  <2>1. \A i \in c + 1 .. d : \A j \in d + 1 .. n : i \in 1 .. n /\ j \in 1 .. n /\ i < j
    BY <1>2
  <2> QED BY <1>4, <1>5, <2>1
<1>10. Cardinality(sp.train) = c /\ Cardinality(sp.calibration) = d - c
       /\ Cardinality(sp.eval) = n - d
  <2>1. /\ 1 \in 1 .. n + 1 /\ c \in 1 - 1 .. n /\ c + 1 \in 1 .. n + 1
        /\ d \in (c + 1) - 1 .. n /\ d + 1 \in 1 .. n + 1 /\ n \in (d + 1) - 1 .. n
        /\ c - 1 + 1 = c /\ d - (c + 1) + 1 = d - c /\ n - (d + 1) + 1 = n - d
    BY <1>2
  <2>2. \A a \in 1 .. n + 1 : \A b \in a - 1 .. n : Cardinality(Part(s, a, b)) = b - a + 1
    BY PartSize DEF s, n
  <2>3. /\ Cardinality(Part(s, 1, c)) = c - 1 + 1
        /\ Cardinality(Part(s, c + 1, d)) = d - (c + 1) + 1
        /\ Cardinality(Part(s, d + 1, n)) = n - (d + 1) + 1
    BY <2>1, <2>2
  <2> QED BY <1>1, <2>1, <2>3
<1> QED BY <1>1, <1>7, <1>8, <1>9, <1>10 DEF c, d, s, sp, n

\* A row is made of itself and of matches that kicked off before it.
LEMMA MadeOfEarlier ==
  ASSUME TypeOK, NEW m \in TrainingRows
  PROVE  MadeOf(m, Pass(TrainingRows, confirmed)[m]) \subseteq {m} \cup Earlier(m)
<1> DEFINE r == Pass(TrainingRows, confirmed)[m]
           f == fixture[m]
<1>1. /\ AsOf(m, r.home, f.home, [e \in Match |-> fixture[e].home = f.home])
      /\ AsOf(m, r.away, f.away, [e \in Match |-> fixture[e].away = f.away])
      /\ r.baseline = Earlier(m)
      /\ r.h2h = {[of |-> e, flipped |-> fixture[e].home = f.away] :
                    e \in Latest(H2HWindow, Of(f.home, Of(f.away, Earlier(m))))}
  BY RowsAsOf DEF FeaturesAreAsOfKickoff
<1> HIDE DEF r, f
<1>2. ASSUME NEW side, NEW t, NEW at, AsOf(m, side, t, at)
      PROVE  side.elo \cup side.strength \cup side.form \cup side.venue \cup side.stats
               \subseteq Earlier(m)
  BY <1>2 DEF AsOf, Latest, Of
<1>3. {h.of : h \in r.h2h} \subseteq Earlier(m)
  <2> DEFINE met == Latest(H2HWindow, Of(f.home, Of(f.away, Earlier(m))))
  <2>1. met \subseteq Earlier(m)
    BY DEF Latest, Of
  <2>2. r.h2h = {[of |-> e, flipped |-> fixture[e].home = f.away] : e \in met}
    BY <1>1
  <2> HIDE DEF met
  <2>3. \A h \in r.h2h : h.of \in met
    BY <2>2
  <2> QED BY <2>1, <2>3
<1>4. \A side \in {r.home, r.away} :
        side.elo \cup side.strength \cup side.form \cup side.venue \cup side.stats
          \subseteq Earlier(m)
  BY <1>1, <1>2
<1> QED BY <1>1, <1>3, <1>4 DEF MadeOf, r

\* A split is blind to its later slices.
LEMMA SplitIsBlind ==
  ASSUME TypeOK PROVE SplitsAreBlind
<1> DEFINE pass == Pass(TrainingRows, confirmed)
           sp == Split(Frame)
<1>1. fixture \in Fixtures /\ Frame \in SUBSET Match /\ Frame \subseteq TrainingRows
  BY DEF TypeOK, Frame, TrainingRows
<1>2. /\ sp.train \cup sp.calibration \cup sp.eval = Frame
      /\ \A a \in sp.train : \A b \in sp.calibration \cup sp.eval : Precedes(a, b)
      /\ \A a \in sp.calibration : \A b \in sp.eval : Precedes(a, b)
  BY <1>1, Slicing
<1> HIDE DEF sp
<1>3. ASSUME NEW m \in Frame, NEW b \in Frame, Precedes(m, b)
      PROVE  b \notin MadeOf(m, pass[m])
  <2>1. m \in Match /\ b \in Match /\ b # m /\ ~ Precedes(b, m)
    BY <1>1, <1>3, RowOrder
  <2>2. ~(Kickoff(b) < Kickoff(m))
    BY <1>1, <2>1, RowOrder
  <2>3. b \notin Earlier(m)
    BY <2>2 DEF Earlier
  <2>4. MadeOf(m, pass[m]) \subseteq {m} \cup Earlier(m)
    BY <1>1, MadeOfEarlier
  <2> QED BY <2>1, <2>3, <2>4
<1>4. sp.calibration \cap sp.eval = {}
  <2>1. \A a \in Frame : ~ Precedes(a, a)
    BY <1>1, RowOrder
  <2> QED BY <1>2, <2>1
<1>5. \A m \in sp.train : MadeOf(m, pass[m]) \cap (sp.calibration \cup sp.eval) = {}
  BY <1>2, <1>3
<1>6. \A m \in sp.calibration : MadeOf(m, pass[m]) \cap sp.eval = {}
  BY <1>2, <1>3
<1> QED BY <1>2, <1>4, <1>5, <1>6 DEF SplitsAreBlind, sp

\* However many rows come in, if those that come in out of order are no more
\* than EvalPart to each calibration row, the cut of the new evaluation slice
\* stays beyond the rows that were trained on and the late ones together.
LEMMA CutStaysBeyond ==
  ASSUME NEW n \in Nat, NEW N \in Nat, NEW late \in Nat, n + late <= N,
         CutTrain(n) < CutEval(n), CutEval(n) < n, CutEval(N) < N,
         late <= EvalPart * (CutEval(n) - CutTrain(n))
  PROVE  CutTrain(n) + late <= CutEval(N)
<1> DEFINE e == EvalRows(n)
           k == CalibrationRows(n)
           c == CutTrain(n)
           d == CutEval(n)
           E == EvalRows(N)
           C == CutTrain(N)
           D == CutEval(N)
           q == n \div EvalPart
           Q == N \div EvalPart
<1>1. /\ EvalPart \in Nat \ {0}
      /\ e \in Nat \ {0} /\ k \in Nat \ {0} /\ c \in 0 .. n /\ d \in c .. n
      /\ E \in Nat \ {0} /\ C \in 0 .. N /\ D \in C .. N
  BY TrainingAssumption, CutsInOrder
<1>2. /\ c = SnapUp(AtLeastOne(n - e - k), n)
      /\ d = SnapUp(IF c + 1 > n - e THEN c + 1 ELSE n - e, n)
      /\ D = SnapUp(IF C + 1 > N - E THEN C + 1 ELSE N - E, N)
  BY DEF CutTrain, CutEval
<1>3. C = SnapUp(AtLeastOne(N - E - CalibrationRows(N)), N)
  BY DEF CutTrain
<1>4. e = AtLeastOne(q) /\ E = AtLeastOne(Q) /\ q \in Int /\ Q \in Int
  BY <1>1, Floor DEF EvalRows
<1>5. Q <= q + (N - n)
  <2>1. N - n \in Nat /\ n + (N - n) = N
    OBVIOUS
  <2>2. ((n + (N - n)) \div EvalPart) <= (n \div EvalPart) + (N - n)
    BY <1>1, <2>1, ShareGrows
  <2> QED BY <2>1, <2>2
<1>6. N - Q >= (n + late) - ((n + late) \div EvalPart)
      /\ ((n + late) \div EvalPart) \in Int
  <2> DEFINE a == n + late
             x == N - (n + late)
  <2>1. a \in Nat /\ x \in Nat /\ a + x = N
    OBVIOUS
  <2> HIDE DEF a, x, Q
  <2>2. ((a + x) \div EvalPart) <= (a \div EvalPart) + x /\ (a \div EvalPart) \in Int
    <3>1. EvalPart \in Nat \ {0}
      BY <1>1
    <3>2. ((a + x) \div EvalPart) <= (a \div EvalPart) + x
      BY <2>1, <3>1, ShareGrows
    <3>3. (a \div EvalPart) \in Int
      BY <2>1, <3>1, Floor
    <3> QED BY <3>2, <3>3
  <2>3. N - Q >= a - (a \div EvalPart)
    BY <1>4, <2>1, <2>2 DEF Q
  <2> QED BY <2>2, <2>3 DEF a
<1>7. ((n + late) \div EvalPart) <= q + (d - c)
  <2>1. d - c \in Nat /\ late <= EvalPart * (d - c)
    BY <1>1
  <2> HIDE DEF d, c
  <2> QED BY <1>1, <2>1, ShareGrows
<1>8. CalibrationRows(N) \in Nat \ {0}
  BY CutsInOrder
<1>9. n <= EvalPart * q + EvalPart /\ EvalPart * q <= n
  BY <1>1, Floor
<1>10. EvalPart = 1 => q = n /\ Q = N /\ late <= d - c
  <2> SUFFICES ASSUME EvalPart = 1 PROVE q = n /\ Q = N /\ late <= d - c
    OBVIOUS
  <2>1. n \div 1 = n /\ N \div 1 = N
    OBVIOUS
  <2> QED BY <1>1, <2>1
<1>11. EvalPart # 1 => 2 * q <= n
  <2> SUFFICES ASSUME EvalPart # 1 PROVE 2 * q <= n
    OBVIOUS
  <2>1. EvalPart >= 2
    BY <1>1
  <2>2. CASE q < 0
    BY <1>4, <2>2
  <2>3. CASE q >= 0
    <3>1. q * 2 <= q * EvalPart
      BY <1>1, <1>4, <2>1, <2>3, Factor
    <3>2. q * EvalPart = EvalPart * q /\ q * 2 = 2 * q /\ EvalPart * q \in Int
      BY <1>1, <1>4
    <3> QED BY <1>4, <1>9, <3>1, <3>2
  <2> QED BY <1>4, <2>2, <2>3
<1>12. c < d /\ d < n /\ D < N
  OBVIOUS
<1> HIDE DEF e, k, c, d, E, C, D, q, Q
<1>13. D = IF C + 1 > N - E THEN C + 1 ELSE N - E
  BY <1>1, <1>2, <1>12 DEF SnapUp
<1>14. d = IF c + 1 > n - e THEN c + 1 ELSE n - e
  BY <1>1, <1>2, <1>12 DEF SnapUp
<1>15. c = AtLeastOne(n - e - k)
  BY <1>1, <1>2, <1>12 DEF SnapUp
<1>16. CASE c + 1 <= n - e
  <2>1. d = n - e
    BY <1>1, <1>14, <1>16
  <2>2. CASE Q < 1
    <3>1. E = 1
      BY <1>4, <2>2 DEF AtLeastOne
    <3> QED BY <1>1, <1>12, <1>13, <3>1 DEF c, D
  <2>3. CASE Q >= 1
    <3>1. E = Q /\ q <= e
      BY <1>4, <2>3 DEF AtLeastOne
    <3>2. N - E >= (n + late) - (q + (d - c))
      BY <1>1, <1>4, <1>6, <1>7, <3>1
    <3>3. N - E >= c + late
      BY <1>1, <1>4, <2>1, <3>1, <3>2
    <3>4. D >= N - E
      BY <1>1, <1>13
    <3>5. c + late <= D
      BY <1>1, <3>3, <3>4
    <3> QED BY <3>5 DEF c, D
  <2> QED BY <1>4, <2>2, <2>3
<1>17. CASE c + 1 > n - e
  <2>1. d = c + 1
    BY <1>14, <1>17
  <2>2. c = 1 /\ n - e <= 1 /\ n >= 3
    BY <1>1, <1>12, <1>15, <1>17, <2>1 DEF AtLeastOne
  <2>3. q >= n - 1
    BY <1>1, <1>4, <2>2 DEF AtLeastOne
  <2>4. EvalPart = 1
    BY <1>4, <1>11, <2>2, <2>3
  <2>5. late <= 1
    BY <1>1, <1>10, <2>1, <2>4
  <2>6. C >= 1
    BY <1>1, <1>3, <1>8, <2>2 DEF SnapUp, AtLeastOne
  <2>7. D >= C + 1
    BY <1>1, <1>13
  <2>8. c + late <= D
    BY <1>1, <2>2, <2>5, <2>6, <2>7
  <2> QED BY <2>8 DEF c, D
<1> QED BY <1>1, <1>16, <1>17

\* A row of an evaluation slice has at least as many rows before it as the cut.
LEMMA EvalRowsComeLate ==
  ASSUME fixture \in Fixtures, NEW rows \in SUBSET Match, NEW m \in Split(rows).eval
  PROVE  /\ m \in rows /\ CutEval(Cardinality(rows)) < Cardinality(rows)
         /\ CutEval(Cardinality(rows)) <= Cardinality(RowsBefore(rows, m))
<1> DEFINE sp == Split(rows)
           n == Cardinality(rows)
           old == sp.train \cup sp.calibration
<1>1. /\ sp.train \cup sp.calibration \cup sp.eval = rows
      /\ \A a \in sp.train : \A b \in sp.calibration \cup sp.eval : Precedes(a, b)
      /\ \A a \in sp.calibration : \A b \in sp.eval : Precedes(a, b)
      /\ Cardinality(sp.train) = CutTrain(n)
      /\ Cardinality(sp.calibration) = CutEval(n) - CutTrain(n)
      /\ Cardinality(sp.eval) = n - CutEval(n)
  BY Slicing
<1>2. n \in Nat /\ CutTrain(n) \in 0 .. n /\ CutEval(n) \in CutTrain(n) .. n
  BY RowsFinite, CutsInOrder
<1> HIDE DEF sp, n
<1>3. m \in rows /\ m \in sp.eval
  BY <1>1 DEF sp
<1>4. /\ IsFiniteSet(sp.train) /\ IsFiniteSet(sp.calibration) /\ IsFiniteSet(sp.eval)
      /\ sp.train \in SUBSET Match /\ sp.calibration \in SUBSET Match
      /\ sp.eval \in SUBSET Match
  BY <1>1, RowsFinite
<1>5. CutEval(n) < n
  <2>1. Cardinality(sp.eval) # 0
    BY <1>3, <1>4, FS_EmptySet
  <2> QED BY <1>1, <1>2, <2>1
<1>6. Cardinality(old) = CutEval(n)
  <2>1. sp.train \cap sp.calibration = {}
    BY <1>1, <1>4, RowOrder
  <2>2. Cardinality(sp.train \cap sp.calibration) = 0
    BY <2>1, FS_EmptySet
  <2>3. Cardinality(old) = Cardinality(sp.train) + Cardinality(sp.calibration)
                             - Cardinality(sp.train \cap sp.calibration)
    BY <1>4, FS_Union
  <2> QED BY <1>1, <1>2, <2>2, <2>3
<1>7. old \subseteq RowsBefore(rows, m)
  BY <1>1, <1>3 DEF RowsBefore
<1>8. IsFiniteSet(RowsBefore(rows, m))
  BY RowsFinite DEF RowsBefore
<1>9. Cardinality(old) <= Cardinality(RowsBefore(rows, m))
  BY <1>7, <1>8, FS_Subset
<1> QED BY <1>3, <1>5, <1>6, <1>9 DEF n

-----------------------------------------------------------------------------
(* The inductive invariant.                                                *)

\* The champion came of a split, that was not refused, of rows that are still
\* in the frame.
ChampionMade ==
  champion # None => \E rows \in SUBSET Frame : champion = Split(rows) /\ ~Refused(rows)

TrainingIInv == TypeOK /\ ChampionMade

\* A split depends on the calendar alone.
LEMMA SplitStays ==
  ASSUME fixture' = fixture, NEW CONSTANT rows
  PROVE  Split(rows)' = Split(rows) /\ Refused(rows)' = Refused(rows)
<1>1. Ordered(rows)' = Ordered(rows)
  BY DEF Ordered, Precedes, Kickoff
<1>2. Split(rows)' = Split(rows)
  BY <1>1 DEF Split, Chronological, Part, SnapUp, AtLeastOne
<1> QED BY <1>2 DEF Refused

\* The slices of a split are sets of matches.
LEMMA SplitType ==
  ASSUME fixture \in Fixtures, NEW rows \in SUBSET Match
  PROVE  Split(rows) \in Slices
<1> DEFINE sp == Split(rows)
<1>1. sp = [train |-> sp.train, calibration |-> sp.calibration, eval |-> sp.eval]
  BY DEF Split
<1>2. sp.train \cup sp.calibration \cup sp.eval = rows
  BY Slicing
<1> HIDE DEF sp
<1>3. sp \in Slices
  BY <1>1, <1>2 DEF Slices
<1> QED BY <1>3 DEF sp

\* It holds at the start.
LEMMA TrainingInit == Init => TrainingIInv
<1> SUFFICES ASSUME Init PROVE TrainingIInv
  OBVIOUS
<1>1. clock \in Time
  BY TrainingAssumption DEF Init, Time
<1>2. TypeOK
  <2>1. /\ fixture \in Fixtures /\ labelled \in Lines \cup {Match} /\ confirmed = {}
        /\ stats = {} /\ champion = None
    BY DEF Init
  <2>2. labelled \subseteq Match
    BY <2>1, TrainingAssumption
  <2> QED BY <1>1, <2>1, <2>2 DEF TypeOK
<1>3. ChampionMade
  BY DEF Init, ChampionMade
<1> QED BY <1>2, <1>3 DEF TrainingIInv

\* The frame only grows, so the champion's rows stay in it.
LEMMA ChampionStays ==
  ASSUME ChampionMade, UNCHANGED <<fixture, labelled, champion>>, confirmed \subseteq confirmed'
  PROVE  ChampionMade'
<1> SUFFICES ASSUME champion # None
             PROVE  \E rows \in SUBSET Frame' : champion' = Split(rows)' /\ ~Refused(rows)'
  BY DEF ChampionMade
<1>1. PICK rows \in SUBSET Frame : champion = Split(rows) /\ ~Refused(rows)
  BY DEF ChampionMade
<1>2. rows \in SUBSET Frame'
  BY <1>1 DEF Frame, TrainingRows
<1>3. champion' = Split(rows)' /\ ~Refused(rows)'
  BY <1>1, SplitStays
<1> QED BY <1>2, <1>3

\* Every step keeps it.
LEMMA TrainingStep == TrainingIInv /\ [Next]_vars => TrainingIInv'
<1> SUFFICES ASSUME TrainingIInv, [Next]_vars PROVE TrainingIInv'
  OBVIOUS
<1> USE DEF TrainingIInv
<1>0. /\ fixture \in Fixtures /\ confirmed \subseteq Match /\ clock \in Nat /\ MaxTime \in Nat
      /\ \A m \in Match : Kickoff(m) \in Nat /\ Kickoff(m) = fixture[m].kickoff
  BY TrainingAssumption, Calendar DEF TypeOK, Time, Kickoff
<1>1. CASE Tick
  <2>1. clock' \in Time /\ clock < clock'
    BY <1>0, <1>1 DEF Tick, Time
  <2>2. TypeOK'
    <3>1. \A m \in Match : fixture[m].kickoff < clock => fixture[m].kickoff < clock'
      BY <1>0, <1>1 DEF Tick
    <3> QED BY <1>1, <2>1, <3>1 DEF Tick, TypeOK
  <2>3. ChampionMade'
    BY <1>1, ChampionStays DEF Tick
  <2> QED BY <2>2, <2>3
<1>2. CASE Retrain
  <2>1. /\ champion' = Split(Frame) /\ ~Refused(Frame)
        /\ UNCHANGED <<clock, fixture, labelled, confirmed, stats>>
    BY <1>2 DEF Retrain
  <2>2. Frame \in SUBSET Match
    BY <1>0 DEF Frame, TrainingRows
  <2>3. Split(Frame) \in Slices
    BY <1>0, <2>2, SplitType
  <2>4. TypeOK'
    BY <2>1, <2>3 DEF TypeOK
  <2>5. PICK rows : rows = Frame
    OBVIOUS
  <2>6. rows \in SUBSET Frame' /\ champion' = Split(rows)' /\ ~Refused(rows)'
    <3>1. Frame' = Frame
      BY <2>1 DEF Frame, TrainingRows
    <3>2. champion' = Split(rows) /\ ~Refused(rows)
      BY <2>1, <2>5
    <3> QED BY <2>1, <2>5, <3>1, <3>2, SplitStays
  <2>7. ChampionMade'
    BY <2>6 DEF ChampionMade
  <2> QED BY <2>4, <2>7
<1>3. ASSUME NEW m \in Match, ConfirmResult(m) PROVE TrainingIInv'
  <2>1. TypeOK'
    BY <1>0, <1>3 DEF ConfirmResult, TypeOK
  <2>2. ChampionMade'
    BY <1>3, ChampionStays DEF ConfirmResult
  <2> QED BY <2>1, <2>2
<1>4. ASSUME NEW s \in Seasons, Backfill(s) PROVE TrainingIInv'
  <2>1. TypeOK'
    BY <1>0, <1>4 DEF Backfill, TypeOK
  <2>2. ChampionMade'
    BY <1>4, ChampionStays DEF Backfill
  <2> QED BY <2>1, <2>2
<1>5. CASE UNCHANGED vars
  <2>1. TypeOK'
    BY <1>5 DEF vars, TypeOK
  <2>2. ChampionMade'
    BY <1>5, ChampionStays DEF vars
  <2> QED BY <2>1, <2>2
<1> QED BY <1>1, <1>2, <1>3, <1>4, <1>5 DEF Next

\* What the invariant says of the champion and the rows it is scored on.
LEMMA ChampionIsBlind ==
  ASSUME TrainingIInv PROVE ChampionIsBlindToEval
<1> DEFINE olds  == champion.train \cup champion.calibration \cup champion.eval
           late  == {m \in Frame \ olds : \E e \in olds \ champion.train : Precedes(m, e)}
<1> SUFFICES ASSUME champion # None, ~Refused(Frame),
                    Cardinality(late) <= EvalPart * Cardinality(champion.calibration),
                    NEW x \in champion.train, x \in Split(Frame).eval
             PROVE  FALSE
  BY DEF ChampionIsBlindToEval
<1>1. fixture \in Fixtures /\ Frame \in SUBSET Match
  BY DEF TrainingIInv, TypeOK, Frame, TrainingRows
<1>2. PICK rows \in SUBSET Frame : champion = Split(rows) /\ ~Refused(rows)
  BY DEF TrainingIInv, ChampionMade
<1> DEFINE n == Cardinality(rows)
           N == Cardinality(Frame)
           before == RowsBefore(rows, x)
           rank == RowsBefore(Frame, x)
<1>3. rows \in SUBSET Match
  BY <1>1, <1>2
<1>4. /\ champion.train \cup champion.calibration \cup champion.eval = rows
      /\ \A a \in champion.train : \A b \in champion.calibration \cup champion.eval :
           Precedes(a, b)
      /\ Cardinality(champion.train) = CutTrain(n)
      /\ Cardinality(champion.calibration) = CutEval(n) - CutTrain(n)
      /\ Cardinality(champion.eval) = n - CutEval(n)
  BY <1>1, <1>2, <1>3, Slicing
<1>5. champion.calibration # {} /\ champion.eval # {}
  BY <1>2 DEF Refused
<1>6. n \in Nat /\ N \in Nat /\ CutTrain(n) \in 0 .. n /\ CutEval(n) \in CutTrain(n) .. n
      /\ CutEval(N) \in Nat
  BY <1>1, <1>3, RowsFinite, CutsInOrder
<1>7. CutEval(N) < N /\ CutEval(N) <= Cardinality(rank)
  BY <1>1, EvalRowsComeLate
<1>8. x \in rows /\ x \in Match
  BY <1>3, <1>4
<1>9. late \in SUBSET Match /\ before \in SUBSET Match /\ rank \in SUBSET Match
      /\ champion.train \in SUBSET Match /\ champion.calibration \in SUBSET Match
      /\ champion.eval \in SUBSET Match
  BY <1>1, <1>3, <1>4 DEF RowsBefore
<1>10. CutTrain(n) < CutEval(n) /\ CutEval(n) < n
  <2>1. Cardinality(champion.calibration) # 0 /\ Cardinality(champion.eval) # 0
        /\ Cardinality(champion.calibration) \in Nat /\ Cardinality(champion.eval) \in Nat
    BY <1>5, <1>9, RowsFinite, FS_EmptySet
  <2> HIDE DEF n
  <2> QED BY <1>4, <1>6, <2>1
<1>11. Cardinality(before) < CutTrain(n)
  <2>1. before \subseteq champion.train
    <3>1. ASSUME NEW e \in before PROVE e \in champion.train
      <4>1. e \in rows /\ e \in Match /\ Precedes(e, x)
        BY <1>3 DEF RowsBefore
      <4>2. ~ Precedes(x, e)
        BY <1>1, <1>8, <4>1, RowOrder
      <4> QED BY <1>4, <4>1, <4>2
    <3> QED BY <3>1
  <2>2. x \notin before
    BY <1>1, <1>8, RowOrder DEF RowsBefore
  <2>3. IsFiniteSet(champion.train) /\ Cardinality(champion.train) \in Nat
        /\ Cardinality(before) \in Nat
    BY <1>9, RowsFinite
  <2>4. before # champion.train
    BY <2>2
  <2> HIDE DEF before
  <2>5. Cardinality(before) <= Cardinality(champion.train)
        /\ Cardinality(before) # Cardinality(champion.train)
    BY <2>1, <2>3, <2>4, FS_Subset
  <2>6. Cardinality(before) < Cardinality(champion.train)
    BY <2>3, <2>5
  <2> QED BY <1>4, <2>6
<1>12. rank \subseteq before \cup late
  <2> SUFFICES ASSUME NEW e \in rank, e \notin rows PROVE e \in late
    BY DEF RowsBefore
  <2>1. e \in Frame /\ e \in Match /\ Precedes(e, x)
    BY <1>1 DEF RowsBefore
  <2>2. PICK b \in champion.calibration : TRUE
    BY <1>5
  <2>3. b \in rows /\ b \in Match /\ Precedes(x, b)
    BY <1>3, <1>4
  <2>4. b \notin champion.train
    <3>1. b \in champion.train => Precedes(b, b)
      BY <1>4
    <3> QED BY <1>1, <2>3, <3>1, RowOrder
  <2>5. Precedes(e, b)
    BY <1>1, <1>8, <2>1, <2>3, RowOrder
  <2> QED BY <1>4, <2>1, <2>3, <2>4, <2>5
<1>13. n + Cardinality(late) <= N
  <2>1. rows \cap late = {} /\ rows \cup late \subseteq Frame
    BY <1>2, <1>4
  <2> HIDE DEF late
  <2>2. /\ IsFiniteSet(rows) /\ IsFiniteSet(late) /\ IsFiniteSet(Frame)
        /\ Cardinality(late) \in Nat
    BY <1>1, <1>3, <1>9, RowsFinite
  <2>3. Cardinality(rows \cap late) = 0
    BY <2>1, FS_EmptySet
  <2>4. Cardinality(rows \cup late) = n + Cardinality(late) - Cardinality(rows \cap late)
    BY <2>2, FS_Union
  <2>5. Cardinality(rows \cup late) <= N
    BY <2>1, <2>2, FS_Subset
  <2> QED BY <1>6, <2>2, <2>3, <2>4, <2>5
<1>14. Cardinality(rank) <= Cardinality(before) + Cardinality(late)
  <2> HIDE DEF rank, before, late
  <2>1. /\ IsFiniteSet(before) /\ IsFiniteSet(late) /\ Cardinality(before) \in Nat
        /\ Cardinality(late) \in Nat
    BY <1>9, RowsFinite
  <2>2. /\ Cardinality(before \cup late)
             = Cardinality(before) + Cardinality(late) - Cardinality(before \cap late)
        /\ IsFiniteSet(before \cup late)
    BY <2>1, FS_Union
  <2>3. Cardinality(before \cap late) \in Nat
    BY <1>9, RowsFinite
  <2>4. Cardinality(rank) <= Cardinality(before \cup late)
    BY <1>12, <2>2, FS_Subset
  <2>5. Cardinality(rank) \in Nat
    BY <1>9, RowsFinite
  <2> QED BY <2>1, <2>2, <2>3, <2>4, <2>5
<1>15. Cardinality(late) \in Nat /\ Cardinality(before) \in Nat /\ Cardinality(rank) \in Nat
  BY <1>9, RowsFinite
<1>16. Cardinality(late) <= EvalPart * (CutEval(n) - CutTrain(n))
  BY <1>4
<1> HIDE DEF n, N, late, before, rank
<1>17. CutTrain(n) + Cardinality(late) <= CutEval(N)
  BY <1>6, <1>7, <1>10, <1>13, <1>15, <1>16, CutStaysBeyond
<1> QED BY <1>6, <1>7, <1>11, <1>14, <1>15, <1>17

\* Every reachable state has the invariant.
LEMMA TrainingHolds == Spec => []TrainingIInv
BY TrainingInit, TrainingStep, PTL DEF Spec

\* The tables are well typed; every row of a training set is made of matches
\* that kicked off strictly before it, and is what the calendar says; and a
\* batch serves each upcoming match what it would be served alone
\* (build_feature_rows, predict_upcoming_matches).
THEOREM FeaturesAreAsOf == Spec => []TrainingInv
<1>1. TrainingIInv => TrainingInv
  BY RowsAsOf, ServedTheSame DEF TrainingIInv, TrainingInv
<1> QED BY <1>1, TrainingHolds, PTL

\* What a model is fitted to and calibrated on is blind to the later slices of
\* its split (temporal_split).
THEOREM SplitsStayBlind == Spec => []SplitsAreBlind
<1>1. TrainingIInv => SplitsAreBlind
  BY SplitIsBlind DEF TrainingIInv
<1> QED BY <1>1, TrainingHolds, PTL

\* The champion was not trained on the slice that it and its challenger are
\* scored on, as long as few enough rows came in out of order (retrain).
THEOREM ChampionStaysBlind == Spec => []ChampionIsBlindToEval
<1>1. TrainingIInv => ChampionIsBlindToEval
  BY ChampionIsBlind
<1> QED BY <1>1, TrainingHolds, PTL
=============================================================================
