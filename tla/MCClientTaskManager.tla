------------------------ MODULE MCClientTaskManager ------------------------
(* A small instance of ClientTaskManager for TLC. *)
EXTENDS ClientTaskManager, TLC

MCTask(i, first, end) == [id |-> i, mid_start |-> first, mid_end |-> end]

MCTasks == {MCTask(0, 1, 3), MCTask(1, 3, 4)}
=============================================================================
