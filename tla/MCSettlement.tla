---------------------------- MODULE MCSettlement ----------------------------
(* Bounds for Backtest: every handicap line from -2 to +2 goals; a strong   *)
(* and a weak favourite whose price moves or stays.                         *)
EXTENDS Backtest

MCLines == -8 .. 8
Odds(h, d, a) == [o \in Outcomes1x2 |-> CASE o = "H" -> h [] o = "D" -> d [] o = "A" -> a]
MCPriors == {Odds(185, 360, 420), Odds(219, 330, 330)}
=============================================================================
