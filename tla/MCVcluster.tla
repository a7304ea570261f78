------------------------------ MODULE MCVcluster ------------------------------
(* Vcluster for TLC: two workers that are model values, two clusters.      *)
EXTENDS Vcluster

CONSTANTS w1, w2

MCWorker == {w1, w2}
MCSize == {1, 2}

=============================================================================
