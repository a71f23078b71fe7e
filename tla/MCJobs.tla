------------------------------- MODULE MCJobs -------------------------------
(* Instances of Jobs for TLC.                                              *)
EXTENDS Jobs

MCCallers == {"sync_odds", "settle_results"}
=============================================================================
