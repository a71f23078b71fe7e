---------------------------- MODULE MCOddsStore ----------------------------
(* Instances of OddsStore for TLC.                                         *)
EXTENDS OddsStore

MCNotInplay == {FALSE}
=============================================================================
