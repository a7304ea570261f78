----------------------------- MODULE MCTaskWorker -----------------------------
(* Two GPUs and two vnodes, of which one needs both and the other one; a       *)
(* GPU that is lost makes the next try fail.                                   *)
EXTENDS TaskWorker

MCVnode == {"v1", "v2"}
MCNeed == [v \in Vnode |-> IF v = "v1" THEN 2 ELSE 1]
MCTry == [v \in Vnode |-> IF v = "v1" THEN 2 ELSE 1]
=============================================================================
