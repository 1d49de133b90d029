----------------------------- MODULE TaskLedger -----------------------------
(***************************************************************************)
(* What the task server promises about the user ids (mids) it distributes, *)
(* without saying how: every mid is on the to-do list until some client    *)
(* has crawled it.  A mid leaves the list only because it was crawled or   *)
(* because the guarantee was waived for it, and a restart may put finished *)
(* mids back on the list but may not make unfinished ones disappear.       *)
(* ServerTaskManager is shown to implement this specification.             *)
(***************************************************************************)

CONSTANT Mids  \* the user ids the ledger is about

VARIABLES
    todo,      \* the mids some client can still be given, or is working on
    crawled,   \* the mids some client has crawled, stored and reported
    waived     \* the mids nobody is promised: dropped by the server, or moved
               \* by an administrator who redefined the range by hand

vars == <<todo, crawled, waived>>

TypeOK ==
    /\ todo \in SUBSET Mids
    /\ crawled \in SUBSET Mids
    /\ waived \in SUBSET Mids

Init ==
    /\ todo = Mids
    /\ crawled = {}
    /\ waived = {}

(* A client reports the mids S as crawled.  They may stay on the list (the  *)
(* report came after the task was given to somebody else), but nothing      *)
(* outside S may leave it.                                                  *)
Finish(S) ==
    /\ crawled' = crawled \cup S
    /\ todo' \subseteq todo
    /\ todo \ todo' \subseteq S
    /\ UNCHANGED waived

(* The guarantee is given up for S, and only the mids of S may move. *)
Waive(S) ==
    /\ waived' = waived \cup S
    /\ todo' \ S = todo \ S
    /\ UNCHANGED crawled

(* A restart from an older state of the list: finished work may be back,    *)
(* unfinished work must still be there.                                     *)
Recover ==
    /\ todo' \in SUBSET Mids
    /\ todo' \ todo \subseteq crawled \cup waived
    /\ todo \ todo' \subseteq waived
    /\ UNCHANGED <<crawled, waived>>

Next ==
    \/ \E S \in SUBSET Mids : Finish(S) \/ Waive(S)
    \/ Recover

Spec == Init /\ [][Next]_vars

(* Every mid is still to be done, done, or explicitly waived. *)
NothingForgotten == Mids \subseteq todo \cup crawled \cup waived
=============================================================================
