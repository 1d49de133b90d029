---------------------------- MODULE MCProxyPool ----------------------------
(* A small instance of ProxyPool for TLC. *)
EXTENDS ProxyPool, TLC

CONSTANTS c1, c2, t1, t2, t3, p1, p2

MCClientOf == [t \in Threads |-> IF t = t3 THEN c2 ELSE c1]
=============================================================================
