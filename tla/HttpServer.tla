----------------------------- MODULE HttpServer -----------------------------
(***************************************************************************)
(* The http server under the spider server: one thread waits for events of *)
(* the listening socket and of the connections, accepts, and writes the     *)
(* answers; the threads of the pool read requests and run their handlers.   *)
(* Every connection is armed for one event at a time (EPOLLONESHOT), and    *)
(* whoever handled the event arms it again, which hands the connection to   *)
(* the other side.  stop_epoll, called by a handler, ends the loop once no   *)
(* connection is left.                                                     *)
(*                                                                         *)
(* A connection is named by the address of its EpollContext, so that a name *)
(* is used again after it was freed.  Closing of idle connections is not     *)
(* modelled: main never sets _max_idle_sec, which switches it off.         *)
(***************************************************************************)
EXTENDS ThreadPool, PeerRequests

CONSTANTS
    Conns,                  \* addresses of EpollContexts
    Resources,              \* _resource_map: the method of each uri
    ShutdownUrl,            \* /server/_shutdown
    KeepAlive,              \* the name and the value of the header that asks for it
    Lengths,                \* lengths of generated responses
    SS_WRITE_BUFFER_SIZE,   \* how much of a response is sent at a time
    Cuts,                   \* bound: how much of a request one recv may leave to the next
    MaxConnects,            \* bound: connections made
    MaxAsked                \* bound: requests on one connection

Loop == "loop"
Threads == Workers \cup {Loop}
NoConn == "no connection"
ListenSocket == "listen socket"
NoRequest == [method |-> "none"]
NoResponse == [bytes |-> 0, index |-> 0]

ASSUME HttpAssumption ==
    /\ Jobs = Conns
    /\ ListenSocket \notin Conns
    /\ Loop \notin Workers
    /\ Lengths \subseteq Nat \ {0}
    /\ SS_WRITE_BUFFER_SIZE \in Nat \ {0}
    /\ MaxConnects \in Nat
    /\ MaxAsked \in Nat

(* How far the text of a request may have been read, by Cuts, and what the *)
(* parser makes of that much of it when it comes in one piece.             *)
Stops(r) == {n \in 1 .. Len(Wire(r)) : Len(Wire(r)) - n \in Cuts \cup {0}}
ReadUpTo(r, n) == http_parser_execute(NewRequest, SubSeq(Wire(r), 1, n))

(* What RequestInPieces checks of these requests (MeantIsSeen), at Stops:   *)
(* a request is complete only at its end, and as it was meant.             *)
ASSUME RequestsAssumption ==
    \A r \in Requests :
        /\ r # NoRequest
        /\ \A n \in Stops(r) : \A whole \in {ReadUpTo(r, n)} :
              ParseResult(whole) = "READ_OVER" => n = Len(Wire(r)) /\ Seen(whole) = Meaning(r)

VARIABLES
    _status,    \* "S_RUN", "S_REJECT_CONN" or "S_STOP"
    _clients,   \* the count of connections
    _eclients,  \* the connections
    armed,      \* the event each connection is armed for: "none", "in", "out"
    request,    \* the Request of each connection
    response,   \* its Response: the length and the read index
    pc,         \* where each thread is
    current,    \* the connection the loop works on
    events      \* what epoll_wait returned and the loop has not handled yet

(* The outside: the peers, and what they know.                             *)
VARIABLES
    connecting, \* connections in the listening socket's queue
    connects,   \* how many there were
    peer,       \* each connection's other end: "none", "open", "closed"
    asked,      \* the request under way, as its peer meant it
    askedCount, \* how many requests the peer sent
    inbox,      \* what it sent and nobody received
    handled,    \* history: what handlers were given for it
    expected,   \* history: the length of the answer, or 0
    delivered,  \* what the peer got of the answer, as positions in it
    late        \* connections accepted after stop_epoll was called

sockets == <<_clients, _eclients, armed>>
contexts == <<request, response>>
loopVars == <<current, events>>
talk == <<asked, askedCount, inbox, handled, expected, delivered>>
peers == <<connecting, connects, peer, late, talk>>
vars == <<poolVars, _status, sockets, contexts, pc, loopVars, peers>>

ConnOf(t) == IF t = Loop THEN current ELSE job[t]

(* HttpContext: a new Request and a new Response. *)
Clear(c) ==
    /\ request' = [request EXCEPT ![c] = NewRequest]
    /\ response' = [response EXCEPT ![c] = NoResponse]
-----------------------------------------------------------------------------
(* The peers. *)

Connect ==
    /\ connects < MaxConnects
    /\ connecting < Cardinality({c \in Conns : peer[c] = "none"})
    /\ connects' = connects + 1
    /\ connecting' = connecting + 1
    /\ UNCHANGED <<poolVars, _status, sockets, contexts, pc, loopVars, peer, late, talk>>

(* The peer has the whole answer to its last request, or sent none yet. *)
Answered(c) ==
    \/ asked[c] = NoRequest
    \/ expected[c] > 0 /\ Len(delivered[c]) = expected[c]

Ask(c) ==
    /\ peer[c] = "open"
    /\ Answered(c)
    /\ inbox[c] = <<>>
    /\ askedCount[c] < MaxAsked
    /\ \E r \in Requests : /\ asked' = [asked EXCEPT ![c] = r]
                           /\ inbox' = [inbox EXCEPT ![c] = Wire(r)]
    /\ askedCount' = [askedCount EXCEPT ![c] = @ + 1]
    /\ handled' = [handled EXCEPT ![c] = <<>>]
    /\ expected' = [expected EXCEPT ![c] = 0]
    /\ delivered' = [delivered EXCEPT ![c] = <<>>]
    /\ UNCHANGED <<poolVars, _status, sockets, contexts, pc, loopVars,
                   connecting, connects, peer, late>>

PeerCloses(c) ==
    /\ peer[c] = "open"
    /\ peer' = [peer EXCEPT ![c] = "closed"]
    /\ UNCHANGED <<poolVars, _status, sockets, contexts, pc, loopVars,
                   connecting, connects, late, talk>>
-----------------------------------------------------------------------------
(* The event loop. *)

Readable(c) == armed[c] = "in" /\ (inbox[c] # <<>> \/ peer[c] = "closed")
Writeable(c) == armed[c] = "out"

Ready == {c \in Conns : Readable(c) \/ Writeable(c)}
           \cup (IF connecting > 0 THEN {ListenSocket} ELSE {})

(* Mutant of Disarmed: without EPOLLONESHOT. *)
StillArmed == armed

(* EPOLLONESHOT: what epoll_wait reports is armed no more. *)
Disarmed == [c \in Conns |-> IF c \in Ready THEN "none" ELSE armed[c]]

epoll_wait ==
    /\ pc[Loop] = "wait"
    /\ _status # "S_STOP"
    /\ events' = [c \in Ready |-> IF c = ListenSocket THEN "accept" ELSE armed[c]]
    /\ armed' = Disarmed
    /\ pc' = [pc EXCEPT ![Loop] = "handle"]
    /\ UNCHANGED <<poolVars, _status, _clients, _eclients, contexts, current, peers>>

Handles(e, kind) ==
    /\ pc[Loop] = "handle"
    /\ e \in DOMAIN events
    /\ events[e] = kind
    /\ events' = [x \in DOMAIN events \ {e} |-> events[x]]

(* Mutant of NoClientsLeft: the connection that is being closed counts too. *)
OneClientLeft == _clients <= 1 /\ _status = "S_REJECT_CONN"

NoClientsLeft == _clients = 0 /\ _status = "S_REJECT_CONN"

(* A connection is accepted even when the log says "not accept new connect". *)
handle_accept_event ==
    /\ Handles(ListenSocket, "accept")
    /\ _status' = IF NoClientsLeft THEN "S_STOP" ELSE _status
    /\ connecting' = connecting - 1
    /\ \E c \in Conns \ _eclients :
          /\ peer[c] = "none"
          /\ _eclients' = _eclients \cup {c}
          /\ _clients' = _clients + 1
          /\ armed' = [armed EXCEPT ![c] = "in"]
          /\ Clear(c)
          /\ peer' = [peer EXCEPT ![c] = "open"]
          /\ late' = IF _status = "S_RUN" THEN late ELSE late \cup {c}
    /\ UNCHANGED <<poolVars, pc, current, connects, talk>>

multi_thread_handle_read_event(c) ==
    /\ Handles(c, "in")
    /\ add_task(c)
    /\ UNCHANGED <<_status, sockets, contexts, pc, current, peers>>

(* readsome: the index moves on, and the end is noticed only by a read that *)
(* finds less than it asked for.                                           *)
Least(a, b) == IF a < b THEN a ELSE b
ReadSize(res) == Least(SS_WRITE_BUFFER_SIZE, res.bytes - res.index)
NeedMore(res) == ReadSize(res) = SS_WRITE_BUFFER_SIZE

(* Mutant of IndexAfter: the index is not rolled back. *)
IndexWithoutRollback(res, nwrite) == res.index + ReadSize(res)

(* Where readsome and rollback leave the index when nwrite bytes were sent. *)
IndexAfter(res, nwrite) == res.index + ReadSize(res) - (ReadSize(res) - nwrite)

IsKeepAlive(req) == HeaderIs(req, KeepAlive[1], KeepAlive[2])

Positions(first, n) == [i \in 1 .. n |-> first + i - 1]

(* When some of the response was sent.                                     *)
on_writeable(c) ==
    CASE NeedMore(response[c]) -> "WRITE_CONN_CONTINUE"
      [] ~ NeedMore(response[c]) /\ IsKeepAlive(request[c]) -> "WRITE_CONN_ALIVE"
      [] OTHER -> "WRITE_CONN_CLOSE"

(* on_writeable when nothing is left to read or send fails: to a peer that *)
(* is gone.                                                                *)
WriteCloses(c) ==
    /\ Handles(c, "out")
    /\ ReadSize(response[c]) = 0 \/ peer[c] = "closed"
    /\ current' = c
    /\ pc' = [pc EXCEPT ![Loop] = "close"]
    /\ UNCHANGED <<poolVars, _status, sockets, contexts, peers>>

(* One part of the response is sent, or a part of it. *)
handle_writeable_event(c) ==
    /\ Handles(c, "out")
    /\ LET res == response[c]
           ret == on_writeable(c)
       IN \E nwrite \in 1 .. ReadSize(res) :
             /\ delivered' = IF peer[c] = "closed" THEN delivered
                             ELSE [delivered EXCEPT
                                     ![c] = @ \o Positions(res.index + 1, nwrite)]
             /\ IF ret = "WRITE_CONN_CONTINUE"
                  THEN /\ response' = [response EXCEPT ![c].index = IndexAfter(res, nwrite)]
                       /\ armed' = [armed EXCEPT ![c] = "out"]
                       /\ UNCHANGED <<request, pc, current>>
                  ELSE IF ret = "WRITE_CONN_ALIVE" /\ _status # "S_REJECT_CONN"
                  THEN /\ Clear(c)
                       /\ armed' = [armed EXCEPT ![c] = "in"]
                       /\ UNCHANGED <<pc, current>>
                  ELSE /\ pc' = [pc EXCEPT ![Loop] = "close"]
                       /\ current' = c
                       /\ UNCHANGED <<contexts, armed>>
    /\ UNCHANGED <<poolVars, _status, _clients, _eclients,
                   connecting, connects, peer, late, asked, askedCount, inbox,
                   handled, expected>>

IterationEnds ==
    /\ pc[Loop] = "handle"
    /\ events = <<>>
    /\ _status' = IF NoClientsLeft THEN "S_STOP" ELSE _status
    /\ pc' = [pc EXCEPT ![Loop] = "wait"]
    /\ UNCHANGED <<poolVars, sockets, contexts, loopVars, peers>>

LoopEnds ==
    /\ pc[Loop] = "wait"
    /\ _status = "S_STOP"
    /\ pc' = [pc EXCEPT ![Loop] = "ended"]
    /\ UNCHANGED <<poolVars, _status, sockets, contexts, loopVars, peers>>

(* main returns and destroys its ThreadPool. *)
MainReturns ==
    /\ pc[Loop] = "ended"
    /\ destroy_threadpool
    /\ UNCHANGED <<_status, sockets, contexts, pc, loopVars, peers>>
-----------------------------------------------------------------------------
(* A thread of the pool: it takes a connection from the queue, reads what  *)
(* is there, runs the handler when the request is complete, and arms the   *)
(* connection again, or closes it.  Afterwards ("late") it still writes     *)
(* _ctx_status of a context that may be in other hands or freed by then.   *)

Begin(w) ==
    /\ PickTask(w)
    /\ pc' = [pc EXCEPT ![w] = "read"]
    /\ UNCHANGED <<_status, sockets, contexts, loopVars, peers>>

Idle(w) ==
    /\ Wait(w) \/ WakeUp(w) \/ ExitThread(w)
    /\ UNCHANGED <<_status, sockets, contexts, pc, loopVars, peers>>

(* It returns READ_CONTINUE, too. *)
ReadInterrupted(w) ==
    /\ pc[w] = "read"
    /\ pc' = [pc EXCEPT ![w] = "EINTR"]
    /\ UNCHANGED <<poolVars, _status, sockets, contexts, loopVars, peers>>

(* The end of the stream, or a reset, which leaves what was sent unread. *)
ReadFindsClosed(w) ==
    /\ pc[w] = "read"
    /\ inbox[job[w]] = <<>> \/ peer[job[w]] = "closed"
    /\ pc' = [pc EXCEPT ![w] = "close"]
    /\ UNCHANGED <<poolVars, _status, sockets, contexts, loopVars, peers>>

gen_response(length) == [bytes |-> length, index |-> 0]

(* 404, 405, or a call of the handler. *)
IsHandled(req) ==
    LET uri == get_request_uri(req)
    IN uri \in DOMAIN Resources /\ Resources[uri] = req.method

Respond(c, req) ==
    /\ _status' = IF IsHandled(req) /\ get_request_uri(req) = ShutdownUrl
                  THEN "S_REJECT_CONN" ELSE _status
    /\ \E n \in Lengths : /\ response' = [response EXCEPT ![c] = gen_response(n)]
                          /\ expected' = [expected EXCEPT ![c] = n]
    /\ handled' = [handled EXCEPT ![c] = Append(@, Seen(req))]

Read(w) ==
    /\ pc[w] = "read"
    /\ LET c == job[w]
       IN \E n \in {k \in 1 .. Len(inbox[c]) : Len(inbox[c]) - k \in Cuts \cup {0}} :
          \E req \in {http_parser_execute(request[c], SubSeq(inbox[c], 1, n))} :
             /\ inbox' = [inbox EXCEPT ![c] = SubSeq(@, n + 1, Len(@))]
             /\ request' = [request EXCEPT ![c] = req]
             /\ pc' = [pc EXCEPT ![w] =
                          IF ParseResult(req) = "READ_CLOSE" THEN "close" ELSE ParseResult(req)]
             /\ IF ParseResult(req) = "READ_OVER"
                  THEN Respond(c, req)
                  ELSE UNCHANGED <<_status, response, expected, handled>>
    /\ UNCHANGED <<poolVars, sockets, loopVars, connecting, connects, peer, late,
                   asked, askedCount, delivered>>

(* Mutant of NextEvent: the connection is always armed for reading. *)
NextEventIn(result) == "in"

NextEvent(result) == IF result = "READ_OVER" THEN "out" ELSE "in"

Rearm(w) ==
    /\ pc[w] \in {"EINTR", "READ_CONTINUE", "READ_OVER"}
    /\ armed' = [armed EXCEPT ![job[w]] = NextEvent(pc[w])]
    /\ pc' = [pc EXCEPT ![w] = "late"]
    /\ UNCHANGED <<poolVars, _status, _clients, _eclients, contexts, loopVars, peers>>

End(w) ==
    /\ pc[w] = "late"
    /\ TaskDone(w)
    /\ pc' = [pc EXCEPT ![w] = "idle"]
    /\ UNCHANGED <<_status, sockets, contexts, loopVars, peers>>
-----------------------------------------------------------------------------
(* close_and_release, by the loop or by a thread of the pool.              *)

(* Mutant of CountWithout: the count is forgotten. *)
CountAsBefore == _clients

CountWithout == _clients - 1

CloseRemoves(t) ==
    /\ pc[t] = "close"
    /\ armed' = [armed EXCEPT ![ConnOf(t)] = "none"]
    /\ _clients' = CountWithout
    /\ _eclients' = _eclients \ {ConnOf(t)}
    /\ pc' = [pc EXCEPT ![t] = "check"]
    /\ UNCHANGED <<poolVars, _status, contexts, loopVars, peers>>

(* The count and the status are read without a lock ... *)
CloseChecks(t) ==
    /\ pc[t] = "check"
    /\ pc' = [pc EXCEPT ![t] = IF NoClientsLeft THEN "stop" ELSE "free"]
    /\ UNCHANGED <<poolVars, _status, sockets, contexts, loopVars, peers>>

(* ... and the status is written some time later. *)
CloseStops(t) ==
    /\ pc[t] = "stop"
    /\ _status' = "S_STOP"
    /\ pc' = [pc EXCEPT ![t] = "free"]
    /\ UNCHANGED <<poolVars, sockets, contexts, loopVars, peers>>

CloseFrees(t) ==
    /\ pc[t] = "free"
    /\ LET c == ConnOf(t)
       IN /\ Clear(c)
          /\ peer' = [peer EXCEPT ![c] = "none"]
          /\ asked' = [asked EXCEPT ![c] = NoRequest]
          /\ askedCount' = [askedCount EXCEPT ![c] = 0]
          /\ inbox' = [inbox EXCEPT ![c] = <<>>]
          /\ handled' = [handled EXCEPT ![c] = <<>>]
          /\ expected' = [expected EXCEPT ![c] = 0]
          /\ delivered' = [delivered EXCEPT ![c] = <<>>]
          /\ late' = late \ {c}
    /\ pc' = [pc EXCEPT ![t] = IF t = Loop THEN "handle" ELSE "late"]
    /\ current' = IF t = Loop THEN NoConn ELSE current
    /\ UNCHANGED <<poolVars, _status, sockets, events, connecting, connects>>

close_and_release(t) == CloseRemoves(t) \/ CloseChecks(t) \/ CloseStops(t) \/ CloseFrees(t)
-----------------------------------------------------------------------------
Init ==
    /\ m_pool_state = "STARTED"
    /\ m_tasks = <<>>
    /\ thread = [w \in Workers |-> "lock"]
    /\ job = [w \in Workers |-> NoJob]
    /\ destroyer = "none"
    /\ _status = "S_RUN"
    /\ _clients = 0
    /\ _eclients = {}
    /\ armed = [c \in Conns |-> "none"]
    /\ request = [c \in Conns |-> NewRequest]
    /\ response = [c \in Conns |-> NoResponse]
    /\ pc = [t \in Threads |-> IF t = Loop THEN "wait" ELSE "idle"]
    /\ current = NoConn
    /\ events = <<>>
    /\ connecting = 0
    /\ connects = 0
    /\ peer = [c \in Conns |-> "none"]
    /\ asked = [c \in Conns |-> NoRequest]
    /\ askedCount = [c \in Conns |-> 0]
    /\ inbox = [c \in Conns |-> <<>>]
    /\ handled = [c \in Conns |-> <<>>]
    /\ expected = [c \in Conns |-> 0]
    /\ delivered = [c \in Conns |-> <<>>]
    /\ late = {}

start_event_loop ==
    \/ epoll_wait
    \/ handle_accept_event
    \/ \E c \in Conns : multi_thread_handle_read_event(c)
    \/ \E c \in Conns : WriteCloses(c)
    \/ \E c \in Conns : handle_writeable_event(c)
    \/ close_and_release(Loop)
    \/ IterationEnds
    \/ LoopEnds
    \/ MainReturns

read_func(w) ==
    \/ Begin(w)
    \/ ReadInterrupted(w)
    \/ ReadFindsClosed(w)
    \/ Read(w)
    \/ Rearm(w)
    \/ close_and_release(w)
    \/ End(w)

Peer(c) == Ask(c) \/ PeerCloses(c)

Next ==
    \/ Connect
    \/ \E c \in Conns : Peer(c)
    \/ start_event_loop
    \/ \E w \in Workers : read_func(w) \/ Idle(w)

Spec == Init /\ [][Next]_vars

Closing == {"close", "check", "stop", "free"}
Holding == {"read", "EINTR", "READ_CONTINUE", "READ_OVER"} \cup Closing

Moves(w) ==
    \/ Begin(w)
    \/ (Wait(w) \/ ExitThread(w)) /\ Idle(w)

(* A thread at work is never blocked: it has a next step wherever it is.   *)
Works(w) ==
    /\ pc[w] # "idle"
    /\ \E next \in ({"idle", "late"} \cup Holding) \ {pc[w]} : pc' = [pc EXCEPT ![w] = next]

(* A read that is not interrupted. *)
ReadsOn(w) ==
    /\ pc[w] = "read"
    /\ \E next \in {"READ_CONTINUE", "READ_OVER", "close"} : pc' = [pc EXCEPT ![w] = next]

(* Threads are scheduled, a read is not interrupted for ever, and a peer    *)
(* that has the beginning of its answer, or wants nothing, closes in the    *)
(* end.  Works and ReadsOn are what the steps of read_func do to pc: every   *)
(* state with pc[w] # "idle" has such a step.                              *)
Fairness ==
    /\ WF_vars(start_event_loop)
    /\ \A w \in Workers : /\ WF_vars(Moves(w))
                          /\ WF_pc(Works(w))
                          /\ SF_pc(ReadsOn(w))
    /\ \A c \in Conns : WF_vars((asked[c] = NoRequest \/ delivered[c] # <<>>)
                                   /\ PeerCloses(c))

LiveSpec == Spec /\ Fairness
-----------------------------------------------------------------------------
TypeOK ==
    /\ PoolTypeOK
    /\ _status \in {"S_RUN", "S_REJECT_CONN", "S_STOP"}
    /\ _eclients \subseteq Conns
    /\ _clients = Cardinality(_eclients)
    /\ armed \in [Conns -> {"none", "in", "out"}]
    /\ response \in [Conns -> [bytes : Lengths \cup {0}, index : Nat]]
    /\ \A c \in Conns : response[c].index <= response[c].bytes
    /\ pc \in [Threads -> {"idle", "wait", "handle", "ended", "late"} \cup Holding]
    /\ current \in Conns \cup {NoConn}
    /\ DOMAIN events \subseteq Conns \cup {ListenSocket}
    /\ connecting \in 0 .. connects
    /\ peer \in [Conns -> {"none", "open", "closed"}]
    /\ late \subseteq Conns

(* Who is to move a connection on: epoll, the list of events, a place in   *)
(* the queue of the pool, or a thread.                                     *)
Holders(c) ==
    {h \in {"epoll"} : armed[c] # "none"}
      \cup {h \in {"events"} : c \in DOMAIN events}
      \cup {i \in DOMAIN m_tasks : m_tasks[i] = c}
      \cup {t \in Threads : pc[t] \in Holding /\ ConnOf(t) = c}

(* A connection is never handled by two threads at once, never forgotten,  *)
(* and never touched after it was freed (the late write of read_func apart). *)
HeldByOne ==
    \A c \in Conns : Cardinality(Holders(c)) = IF peer[c] = "none" THEN 0 ELSE 1

(* When the loop ends, the only connections it abandons are those that     *)
(* were accepted after the stop, which the log announces as rejected.  (And *)
(* the variables have their types, _clients that of a count.)              *)
OnlyLateComersAbandoned ==
    /\ TypeOK
    /\ pc[Loop] = "ended" => _eclients \subseteq late

(* Requests are handled once, as they were meant, and answers arrive       *)
(* without gaps.                                                           *)
Exchange == INSTANCE HttpExchange
KeepsExchange == Exchange!Spec

(* Every request is answered, at least in part, unless its peer leaves or  *)
(* the server stops.                                                       *)
RequestGetsAnswer ==
    \A c \in Conns :
        asked[c] # NoRequest /\ peer[c] = "open"
            ~> delivered[c] # <<>> \/ peer[c] # "open" \/ pc[Loop] = "ended"

(* A stop ends with the loop left and all threads of the pool joined.      *)
StopEnds == _status = "S_REJECT_CONN" ~> destroyer = "done"
=============================================================================
