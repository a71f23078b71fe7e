----------------------------- MODULE MCResults -----------------------------
(* Instances of Results for TLC.                                           *)
EXTENDS Results

OneNil == [home |-> 1, away |-> 0]
NilTwo == [home |-> 0, away |-> 2]

\* The sources agree or not; they disagree.
MCBothScores == [s \in Sources |-> {OneNil, NilTwo}]
MCScores == [s \in Sources |-> IF s = "hkjc" THEN {OneNil} ELSE {NilTwo}]
=============================================================================
