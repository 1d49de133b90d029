-------------------------- MODULE MCClientSessions --------------------------
(* A small instance of ClientSessions for TLC. *)
EXTENDS ClientSessions, TLC

MCSymmetry == Permutations(Clients) \cup Permutations(Tasks)
=============================================================================
