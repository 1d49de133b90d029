----------------------------- MODULE MysqlDbPool -----------------------------
(***************************************************************************)
(* The pool of connections to the database that the server and every client *)
(* have.  A pool is the number of connections that are in its deque; the     *)
(* connections are alike, and nobody gives one back twice.                   *)
(***************************************************************************)
EXTENDS Naturals

(* The first connection that fails is the last one tried: results says of    *)
(* each whether the database would take it.                                 *)
init(pool_size, results) ==
    LET failed == {i \in 1 .. pool_size : ~ results[i]}
    IN IF failed = {} THEN pool_size
       ELSE (CHOOSE i \in failed : \A j \in failed : i <= j) - 1

bad(pool_size, pool) == ~ (pool_size > 0 /\ pool = pool_size)

(* Who finds no connection waits for one with the mutex_ that freeConnection *)
(* needs, so that he waits for ever.                                        *)
getConnection(pool) == pool > 0
Taken(pool) == pool - 1

freeConnection(pool) == pool + 1
=============================================================================
