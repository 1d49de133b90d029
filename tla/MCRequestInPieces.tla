------------------------- MODULE MCRequestInPieces -------------------------
(* Every cut of some requests. *)
EXTENDS RequestInPieces, MCRequests
=============================================================================
