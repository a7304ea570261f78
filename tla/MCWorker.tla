------------------------------- MODULE MCWorker -------------------------------
(* Two nodes, which are alike, a container and one image, and the image of a *)
(* migration.                                                                *)
EXTENDS Worker, TLC

Symmetry == Permutations(Node)
=============================================================================
