----------------------------- MODULE MCMonitor ------------------------------
(* Monitor for TLC.  No symmetry: the run checks liveness.                  *)
EXTENDS Monitor, TLC
=============================================================================
