--------------------------- MODULE MCRotatingSink ---------------------------
(* RotatingSink for TLC.  Threads are not declared symmetric because the    *)
(* run checks a liveness property.                                          *)
EXTENDS RotatingSink, TLC
=============================================================================
