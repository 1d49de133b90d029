---------------------------- MODULE HttpExchange ----------------------------
(***************************************************************************)
(* What an http server owes a peer, abstractly: a request is handled at     *)
(* most once and as the peer meant it, however it was cut on its way, and   *)
(* what comes back is the answer from its beginning, in order and without   *)
(* gaps or repetitions; the connection may close at any time.              *)
(***************************************************************************)
EXTENDS Integers, Sequences

CONSTANTS
    Conns,
    Requests,       \* what peers may ask
    Meaning(_),     \* what a handler has to see of a request
    NoRequest,
    Lengths         \* lengths of answers

VARIABLES
    asked,      \* each connection's last request
    handled,    \* what handlers were given for it, in a sequence
    expected,   \* the length of the answer, or 0
    delivered   \* the positions in the answer that arrived

vars == <<asked, handled, expected, delivered>>

Init ==
    /\ asked = [c \in Conns |-> NoRequest]
    /\ handled = [c \in Conns |-> <<>>]
    /\ expected = [c \in Conns |-> 0]
    /\ delivered = [c \in Conns |-> <<>>]

(* A peer asks when it has all of its last answer. *)
Ask(c, r) ==
    /\ asked[c] # NoRequest => expected[c] > 0 /\ Len(delivered[c]) = expected[c]
    /\ asked' = [asked EXCEPT ![c] = r]
    /\ handled' = [handled EXCEPT ![c] = <<>>]
    /\ expected' = [expected EXCEPT ![c] = 0]
    /\ delivered' = [delivered EXCEPT ![c] = <<>>]

Handle(c, length) ==
    /\ asked[c] # NoRequest
    /\ handled[c] = <<>>
    /\ handled' = [handled EXCEPT ![c] = <<Meaning(asked[c])>>]
    /\ expected' = [expected EXCEPT ![c] = length]
    /\ UNCHANGED <<asked, delivered>>

Deliver(c, last) ==
    /\ Len(delivered[c]) < last
    /\ last <= expected[c]
    /\ delivered' = [delivered EXCEPT ![c] = [i \in 1 .. last |-> i]]
    /\ UNCHANGED <<asked, handled, expected>>

Close(c) ==
    /\ asked' = [asked EXCEPT ![c] = NoRequest]
    /\ handled' = [handled EXCEPT ![c] = <<>>]
    /\ expected' = [expected EXCEPT ![c] = 0]
    /\ delivered' = [delivered EXCEPT ![c] = <<>>]

Next == \E c \in Conns :
    \/ \E r \in Requests : Ask(c, r)
    \/ \E length \in Lengths : Handle(c, length)
    \/ \E last \in 1 .. expected[c] : Deliver(c, last)
    \/ Close(c)

Spec == Init /\ [][Next]_vars
=============================================================================
