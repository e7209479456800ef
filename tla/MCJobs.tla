------------------------------- MODULE MCJobs -------------------------------
(* Instances of Jobs for TLC. *)
EXTENDS Jobs

CONSTANTS j1, j2, w1, w2, w3

MCJobIds == {j1, j2}
MCWorkers == {w1, w2, w3}
=============================================================================
