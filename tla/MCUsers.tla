------------------------------- MODULE MCUsers -------------------------------
(* Two handlers at a time and two users, each pair alike, two groups; logins *)
(* are refused after the second failure.                                     *)
EXTENDS Users

Symmetry == Permutations(Thread) \union Permutations(User)
=============================================================================
