---------------------------- MODULE MCThreadPool ----------------------------
(* Instances of ThreadPool for TLC: one job of two tasks, the others of one. *)
EXTENDS ThreadPool

CONSTANT j1

MCMaxTasks == [j \in Jobs |-> IF j = j1 THEN 2 ELSE 1]
=============================================================================
