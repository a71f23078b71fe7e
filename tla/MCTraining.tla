----------------------------- MODULE MCTraining -----------------------------
(* An instance of Training for TLC.                                        *)
EXTENDS Training

\* Six matches of three teams, up to three of them at one time; ids in and
\* against the order of the kickoffs.
Kickoffs == {<<0, 1, 2, 3, 3, 3>>, <<0, 0, 1, 2, 3, 3>>, <<3, 0, 0, 2, 2, 1>>,
             <<1, 3, 3, 3, 0, 0>>, <<2, 2, 1, 1, 0, 0>>}
Pairings == {<< <<"a", "b">>, <<"c", "a">>, <<"b", "a">>, <<"a", "c">>, <<"a", "b">>, <<"b", "c">> >>,
             << <<"a", "b">>, <<"a", "b">>, <<"b", "c">>, <<"b", "a">>, <<"c", "b">>, <<"a", "b">> >>}
MCFixtures ==
  {[m \in Match |-> [kickoff |-> k[m], home |-> p[m][1], away |-> p[m][2]]] :
     k \in Kickoffs, p \in Pairings}
MCLines == {Match \ {1, 4}}
=============================================================================
