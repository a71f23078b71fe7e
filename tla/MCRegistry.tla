----------------------------- MODULE MCRegistry -----------------------------
(* Instances of Registry for TLC.                                          *)
EXTENDS Registry, TLC

Scored(loss) == [logloss |-> loss, sound |-> TRUE, clv |-> None]
\* Two models, each the better one on one of two windows.
MCProfiles == {[w \in {0, 1} |-> Scored(2 * w)], [w \in {0, 1} |-> Scored(2 - 2 * w)]}
ProcSymmetry == Permutations(Proc)
=============================================================================
