---------------------------- MODULE BettingBook ----------------------------
(***************************************************************************)
(* What the paper ledger promises, without jobs, transactions or prices:   *)
(* one slip per selection, opened once and closed once, and a purse that   *)
(* every stake leaves and every payout enters the moment it is recorded.   *)
(* The ledger keeps no purse: it derives the bankroll from the table of    *)
(* bets.  That the derived figure is the purse is the refinement.          *)
(***************************************************************************)
EXTENDS Integers, Functions

CONSTANTS Selection, InitialBankroll

VARIABLES slip,    \* by selection: [state, stake, payout], amounts in dimes
          purse

bookVars == <<slip, purse>>

Blank == [state |-> "blank", stake |-> 0, payout |-> 0]

Init == slip = [s \in Selection |-> Blank] /\ purse = InitialBankroll

Opened == {s \in Selection : slip[s].state = "blank" /\ slip'[s].state # "blank"}
Closed == {s \in Selection : slip[s].state = "open" /\ slip'[s].state = "closed"}

\* A slip is left alone, opened, or closed at the stake it was opened with.
MayBecome(old, new) ==
  \/ new = old
  \/ old.state = "blank" /\ new.state = "open" /\ new.payout = 0
  \/ old.state = "open" /\ new.state = "closed" /\ new.stake = old.stake

Record ==
  /\ \A s \in Selection : MayBecome(slip[s], slip'[s])
  /\ purse' = purse + SumFunction([s \in Closed |-> slip'[s].payout])
                    - SumFunction([s \in Opened |-> slip'[s].stake])

Spec == Init /\ [][Record]_bookVars
=============================================================================
