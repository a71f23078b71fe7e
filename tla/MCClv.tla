-------------------------------- MODULE MCClv --------------------------------
(* An instance of Clv for TLC.                                             *)
EXTENDS Clv

\* A prediction of each of two matches.
MCMatchOf == <<"m1", "m2">>
MCScores == {[home |-> 1, away |-> 0]}
=============================================================================
