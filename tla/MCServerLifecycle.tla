------------------------- MODULE MCServerLifecycle -------------------------
(* Small instances of ServerLifecycle for TLC. *)
EXTENDS ServerLifecycle, TLC

MCSymmetry ==
    Permutations(Workers) \cup Permutations(Watchdogs) \cup Permutations(Fetchers)
=============================================================================
