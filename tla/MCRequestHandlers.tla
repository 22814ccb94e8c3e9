------------------------- MODULE MCRequestHandlers -------------------------
(* RequestHandlers for TLC.                                                *)
EXTENDS RequestHandlers

\* A FileID is written in two pieces.
TwoPieces == [r \in Requests |-> 2]
=============================================================================
