---------------------------- MODULE MCNetworkMgr ----------------------------
(* Instances of NetworkMgr for TLC: see the configurations. The users are  *)
(* interchangeable.                                                        *)
EXTENDS NetworkMgr, TLC

Symmetry == Permutations(User)
=============================================================================
