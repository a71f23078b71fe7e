------------------------------ MODULE MCLedger ------------------------------
(* Instances of Ledger, its safety properties checked by TLC.              *)
EXTENDS LedgerProps, TLC

HomeBook  == [line |-> NoLine, odds |-> [H |-> 200, D |-> 340, A |-> 380]]
MCOneHadBook == {HomeBook}

HomeBelief == [H |-> 53, D |-> 25, A |-> 22]
MCOneBelief1x2 == {HomeBelief}

\* The level line, which may push, and the quarter line next to it.
LevelLine == [line |-> -4, odds |-> [H |-> 260, A |-> 150]]
QuarterLine == [line |-> -3, odds |-> [H |-> 230, A |-> 165]]
MCTwoHdcBooks == {LevelLine, QuarterLine}
MCBeliefsHdc == {[H |-> 55, A |-> 45]}

HomeWin(src, confirmed) ==
  [home |-> 1, away |-> 0, confirmed |-> confirmed, source |-> src]
AwayWin(src, confirmed) ==
  [home |-> 0, away |-> 2, confirmed |-> confirmed, source |-> src]
\* HKJC's result, one way or the other; HKJC's, the fallback's and a different score
\* from the backfill.
MCWinOrLose == {HomeWin("hkjc", TRUE), AwayWin("hkjc", TRUE)}
MCThreeRows == {HomeWin("hkjc", TRUE), HomeWin("football_data", FALSE),
                AwayWin("football_data", TRUE)}
\* The fallback's result, which only the backfill confirms.
MCFallbackRows == {HomeWin("football_data", FALSE), HomeWin("football_data", TRUE)}
MCNone == {}

\* A home side so strong that full Kelly exceeds the cap.
MCSureBelief == {[H |-> 80, D |-> 12, A |-> 8]}

MatchSymmetry == Permutations(Match)
ProcSymmetry == Permutations(Proc)
=============================================================================
