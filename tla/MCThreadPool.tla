---------------------------- MODULE MCThreadPool ----------------------------
(* The task queue on small sets of tasks and workers, which are alike. *)
EXTENDS ThreadPool, TLC

Symmetry == Permutations(Workers) \cup Permutations(Tasks)
=============================================================================
