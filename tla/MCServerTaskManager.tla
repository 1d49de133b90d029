------------------------ MODULE MCServerTaskManager ------------------------
(* Small instances of ServerTaskManager for TLC. *)
EXTENDS ServerTaskManager, TLC

MCSymmetry == Permutations(ClientIds)
=============================================================================
