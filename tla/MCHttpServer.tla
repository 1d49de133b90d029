---------------------------- MODULE MCHttpServer ----------------------------
(* Small instances of HttpServer for TLC. *)
EXTENDS HttpServer, MCRequests

MCSymmetry == Permutations(Conns) \cup Permutations(Workers)
=============================================================================
