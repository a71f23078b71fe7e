----------------------------- MODULE MCFixtures -----------------------------
(* Instances of Fixtures for TLC.                                          *)
EXTENDS Fixtures

\* Two matches of three clubs: the middle one plays both.
MCMatches == {"m1", "m2"}
MCHome == [m \in MCMatches |-> IF m = "m1" THEN "a" ELSE "b"]
MCAway == [m \in MCMatches |-> IF m = "m1" THEN "b" ELSE "c"]
=============================================================================
