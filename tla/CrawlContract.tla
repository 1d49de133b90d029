--------------------------- MODULE CrawlContract ---------------------------
(***************************************************************************)
(* What a client owes the server for the tasks it takes: it reports a task *)
(* as done only when every mid of the task is in the database, and it gives *)
(* a task up only by reporting it.  This is what the server's Commit takes  *)
(* for granted; ClientTaskManager is shown to implement it.                 *)
(***************************************************************************)

CONSTANTS
    Ids,         \* the ids of tasks
    Mids,        \* the mids that can be stored
    MidsOf(_)    \* the mids of a task

VARIABLES
    open,        \* the tasks the client has taken and not finished with
    stored,      \* the mids in the database
    reported     \* the tasks the server was told are done

vars == <<open, stored, reported>>

Init ==
    /\ open = {}
    /\ stored = {}
    /\ reported = {}

Take(i) ==
    /\ i \notin open
    /\ open' = open \cup {i}
    /\ UNCHANGED <<stored, reported>>

Store(S) ==
    /\ stored' = stored \cup S
    /\ UNCHANGED <<open, reported>>

(* A report whose answer is lost leaves the task open, to be reported again. *)
Report(i) ==
    /\ i \in open
    /\ MidsOf(i) \subseteq stored
    /\ reported' = reported \cup {i}
    /\ open' \in {open, open \ {i}}
    /\ UNCHANGED stored

Next ==
    \/ \E i \in Ids : Take(i) \/ Report(i)
    \/ \E S \in SUBSET Mids : Store(S)

Spec == Init /\ [][Next]_vars
=============================================================================
