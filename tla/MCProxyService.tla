--------------------------- MODULE MCProxyService ---------------------------
(* ProxyService for TLC.  The threads of the pool and the loops are not      *)
(* interchangeable (loops are built and queued in order), so there is no     *)
(* symmetry set.                                                             *)
EXTENDS ProxyService, TLC
=============================================================================
