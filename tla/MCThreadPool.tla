---------------------------- MODULE MCThreadPool ----------------------------
(* ThreadPool for TLC: the threads and the tasks are model values.  No      *)
(* symmetry is used because the run also checks liveness.                   *)
EXTENDS ThreadPool
=============================================================================
