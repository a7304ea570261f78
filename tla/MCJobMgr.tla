------------------------------ MODULE MCJobMgr ------------------------------
(* Instances of JobMgr for TLC. *)
EXTENDS JobMgr

\* Two tasks that need nothing, and a third that needs both.
Join == [i \in Idx |-> IF i = 3 THEN {1, 2} ELSE {}]

\* One task, and two that need it.
Fork == [i \in Idx |-> IF i = 1 THEN {} ELSE {1}]
=============================================================================
