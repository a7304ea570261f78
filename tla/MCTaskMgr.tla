----------------------------- MODULE MCTaskMgr -----------------------------
(* Instances of TaskMgr for TLC. *)
EXTENDS TaskMgr
=============================================================================
