--------------------------- MODULE ClientSessions ---------------------------
(***************************************************************************)
(* A client and the server over the client's life: it joins, asks for tasks *)
(* and commits them, and quits; the server lists it, notes its heartbeats,  *)
(* evicts it when it was silent for too long, and passes on an              *)
(* administrator's wish that it quits.  A request may reach the server long  *)
(* after the client gave up waiting for the answer, and any client may be    *)
(* killed.                                                                  *)
(*                                                                         *)
(* The server's TaskManager is reduced to which task is leased to which      *)
(* client id: ServerTaskManager models it, ClientTaskManager how a client    *)
(* works on its tasks.  A task is a token; "a new task" is one nobody knows. *)
(***************************************************************************)
EXTENDS Integers, FiniteSets

CONSTANTS
    Clients,        \* client processes
    Tasks,
    Tries,          \* the 5 and 10 of the client's loops
    MaxClientIds,   \* bound: client ids that are given out
    QuitModes,      \* bound: the should_quit that an administrator sets
    Faulty,         \* bound: the clients that may be killed, interrupted or lose answers
    MaxAlive,       \* bound: clients at the same time
    MaxLost,        \* bound: answers that come too late or never
    MaxHeld         \* bound: main tasks of a client

NoId == -1
NoTask == "none"

ASSUME SessionAssumption ==
    /\ NoTask \notin Tasks
    /\ Tries \in Nat \ {0}
    /\ MaxClientIds \in Nat
    /\ MaxLost \in Nat
    /\ MaxAlive \in Nat
    /\ MaxHeld \in Nat \ {0}
    /\ QuitModes \subseteq {1, 2}
    /\ Faulty \subseteq Clients

VARIABLES          \* of the server
    g_isRunning,
    clients_,           \* client id -> should_quit: 0, 1 (smooth) or 2 (force)
    silent,             \* the ids whose last_heartbeat is too long ago
    current_client_id_,
    tasks_              \* task -> client_id

VARIABLES          \* of each client process
    pc,                 \* "new", "joining", "working", "quitting" or "ended"
    g_clientId,         \* NoId until the server gave one
    stop,               \* 0, 1: g_shouldStop, 2: g_forceStop, too
    call,               \* the loop of requests it is in
    main_tasks_

VARIABLES
    requests,           \* that are on their way, in a handler, or answered
    lost,               \* answers given up so far
    unlucky             \* the client processes that gave up on an answer to /task/get

registry == <<clients_, silent, current_client_id_>>
client == <<pc, g_clientId, stop, call, main_tasks_>>
network == <<lost, unlucky>>
vars == <<g_isRunning, registry, tasks_, client, requests, network>>
-----------------------------------------------------------------------------
Ids == 0 .. MaxClientIds - 1

(* At most one loop of requests at a time: the mutex of the client's       *)
(* TaskManager is held all through it.                                     *)
Idle == [kind |-> "none"]

Call(kind, task, flush) == [kind |-> kind, task |-> task, flush |-> flush, tries |-> 0]

(* lost: 0 while the client waits for the answer, else which one it gave up. *)
Request(c) ==
    [client |-> c, kind |-> call[c].kind, id |-> g_clientId[c], task |-> call[c].task,
     at |-> "sent", ret |-> "none", lost |-> 0]

Awaited(c) == {r \in requests : r.client = c /\ r.lost = 0}

Max2(a, b) == IF a < b THEN b ELSE a

Without(f, S) == [x \in DOMAIN f \ S |-> f[x]]
With(f, x, v) == [y \in DOMAIN f \cup {x} |-> IF y = x THEN v ELSE f[y]]
-----------------------------------------------------------------------------
(* The handlers of the server, each in the steps that its locks make.      *)

Waits(r) == r.lost = 0 /\ pc[r.client] # "ended"

(* The answer finds a client that still waits, or nobody. *)
Answer(r, ret) ==
    requests' = (requests \ {r}) \cup
        IF Waits(r) THEN {[r EXCEPT !.at = "answered", !.ret = ret]} ELSE {}

AnswerWithId(r, id) ==
    requests' = (requests \ {r}) \cup
        IF Waits(r) THEN {[r EXCEPT !.at = "answered", !.ret = "ok", !.id = id]} ELSE {}

Moves(r, at, task) ==
    requests' = (requests \ {r}) \cup {[r EXCEPT !.at = at, !.task = task]}

Handles(kind, at) == {r \in requests : r.kind = kind /\ r.at = at}

(* Mutants of NewId: ++current_client_id_; and an id that is free is used again. *)
PreIncrementedId == current_client_id_ + 1
FreeId == CHOOSE i \in 0 .. current_client_id_ :
    i \notin DOMAIN clients_ /\ \A j \in 0 .. i - 1 : j \in DOMAIN clients_

NewId == current_client_id_

client_join(r) ==
    /\ IF g_isRunning
         THEN /\ current_client_id_ < MaxClientIds
              /\ clients_' = With(clients_, NewId, 0)
              /\ silent' = silent \ {NewId}
              /\ current_client_id_' = current_client_id_ + 1
              /\ AnswerWithId(r, NewId)
         ELSE Answer(r, "stopped") /\ UNCHANGED registry
    /\ UNCHANGED <<g_isRunning, tasks_, client, network>>

client_quit(r) ==
    /\ clients_' = Without(clients_, {r.id})
    /\ silent' = silent \ {r.id}
    /\ Answer(r, "ok")
    /\ UNCHANGED <<g_isRunning, current_client_id_, tasks_, client, network>>

(* Tasks that nobody has in mind. *)
NewTasks ==
    {t \in Tasks \ DOMAIN tasks_ : /\ \A c \in Clients : t \notin main_tasks_[c]
                                   /\ \A r \in requests : r.task # t}

(* The range may be at its end at any time. *)
LeasesTask(r) ==
    /\ \/ /\ ~ g_isRunning
          /\ Answer(r, "stopped")
          /\ UNCHANGED tasks_
       \/ /\ g_isRunning
          /\ Answer(r, "no task")
          /\ UNCHANGED tasks_
       \/ /\ g_isRunning
          /\ \E t \in NewTasks : /\ tasks_' = With(tasks_, t, r.id)
                                 /\ Moves(r, "heartbeat", t)
    /\ UNCHANGED <<g_isRunning, registry, client, network>>

(* Mutant of Listed: clients_[clientId] makes an entry if there is none. *)
ListedByIndex(id) == With(clients_, id, IF id \in DOMAIN clients_ THEN clients_[id] ELSE 0)

(* heartbeat finds the entry, and makes none. *)
Listed(id) == clients_

heartbeat(id) ==
    /\ clients_' = Listed(id)
    /\ silent' = silent \ {id}
    /\ UNCHANGED current_client_id_

(* Only now the server looks whether it knows the client. *)
AnswersGet(r) ==
    /\ heartbeat(r.id)
    /\ IF r.id \in DOMAIN clients_
         THEN Answer(r, "ok")
         ELSE Answer(r, "disconnect")
    /\ UNCHANGED <<g_isRunning, tasks_, client, network>>

(* commit also takes back the tasks that have expired meanwhile. *)
ClearsTask(r) ==
    /\ \E expired \in SUBSET DOMAIN tasks_ :
          tasks_' = Without(tasks_, expired \cup
                        {t \in DOMAIN tasks_ : t = r.task /\ tasks_[t] = r.id})
    /\ Moves(r, "heartbeat", r.task)
    /\ UNCHANGED <<g_isRunning, registry, client, network>>

QuitOrder == <<"ok", "ok, quit", "ok, quit now">>

AnswersCommit(r) ==
    /\ heartbeat(r.id)
    /\ Answer(r, CASE r.id \notin DOMAIN clients_ -> "disconnect"
                   [] r.id \in DOMAIN clients_ /\ ~ g_isRunning -> "stopped"
                   [] OTHER -> QuitOrder[clients_[r.id] + 1])
    /\ UNCHANGED <<g_isRunning, tasks_, client, network>>

HandlesOf(c) ==
    \/ \E r \in Handles("join", "sent") : r.client = c /\ client_join(r)
    \/ \E r \in Handles("quit", "sent") : r.client = c /\ client_quit(r)
    \/ \E r \in Handles("get", "sent") : r.client = c /\ LeasesTask(r)
    \/ \E r \in Handles("get", "heartbeat") : r.client = c /\ AnswersGet(r)
    \/ \E r \in Handles("commit", "sent") : r.client = c /\ ClearsTask(r)
    \/ \E r \in Handles("commit", "heartbeat") : r.client = c /\ AnswersCommit(r)
-----------------------------------------------------------------------------
(* The server's watchdog, its clock, and the administrator. *)

(* The last heartbeat is now client_live_heartbeat seconds old.  A client  *)
(* that works on a long task lets this happen as well as one that is gone.  *)
Lapse(id) ==
    /\ id \in DOMAIN clients_ \ silent
    /\ silent' = silent \cup {id}
    /\ UNCHANGED <<g_isRunning, clients_, current_client_id_, tasks_, client,
                   requests, network>>

(* Mutant of Evicted: a client that has a task is spared. *)
EvictedIdle == {id \in silent : \A t \in DOMAIN tasks_ : tasks_[t] # id}

Evicted == silent

backgroundThread ==
    /\ g_isRunning
    /\ silent # {}
    /\ clients_' = Without(clients_, Evicted)
    /\ silent' = silent \ Evicted
    /\ UNCHANGED <<g_isRunning, current_client_id_, tasks_, client, requests, network>>

(* A smooth quit may follow a forced one. *)
notifyClientToQuit(id, mode) ==
    /\ id \in DOMAIN clients_
    /\ clients_' = [clients_ EXCEPT ![id] = mode]
    /\ UNCHANGED <<g_isRunning, silent, current_client_id_, tasks_, client,
                   requests, network>>

StartOrStop ==
    /\ g_isRunning' = ~ g_isRunning
    /\ UNCHANGED <<registry, tasks_, client, requests, network>>
-----------------------------------------------------------------------------
(* The client. *)

Working(c) == pc[c] = "working" /\ call[c] = Idle

(* clientJoin *)
StartClient(c) ==
    /\ pc[c] = "new"
    /\ Cardinality({d \in Clients : pc[d] \notin {"new", "ended"}}) < MaxAlive
    /\ pc' = [pc EXCEPT ![c] = "joining"]
    /\ call' = [call EXCEPT ![c] = Call("join", NoTask, FALSE)]
    /\ UNCHANGED <<g_isRunning, registry, tasks_, g_clientId, stop, main_tasks_,
                   requests, network>>

(* readConfig, the five tries of connectToServer, or init fails: the process *)
(* ends before the server's ClientManager hears of it.                      *)
StartFails(c) ==
    /\ pc[c] = "new"
    /\ pc' = [pc EXCEPT ![c] = "ended"]
    /\ UNCHANGED <<g_isRunning, registry, tasks_, g_clientId, stop, call, main_tasks_,
                   requests, network>>

(* getSubTask needs a main task: getMainTask_.  *)
AskForTask(c) ==
    /\ Working(c)
    /\ stop[c] = 0
    /\ Cardinality(main_tasks_[c]) < MaxHeld
    /\ call' = [call EXCEPT ![c] = Call("get", NoTask, FALSE)]
    /\ UNCHANGED <<g_isRunning, registry, tasks_, pc, g_clientId, stop, main_tasks_,
                   requests, network>>

(* The last mid of t is stored, by commitSubTask or by flush: commitMainTask_. *)
CommitTask(c, t, flush) ==
    /\ Working(c)
    /\ t \in main_tasks_[c]
    /\ stop[c] # 2
    /\ flush => stop[c] = 1
    /\ call' = [call EXCEPT ![c] = Call("commit", t, flush)]
    /\ UNCHANGED <<g_isRunning, registry, tasks_, pc, g_clientId, stop, main_tasks_,
                   requests, network>>

(* All threads have ended: g_stop(Force), then clientQuit. *)
FinishWork(c) ==
    /\ Working(c)
    /\ stop[c] = 2 \/ (stop[c] = 1 /\ main_tasks_[c] = {})
    /\ pc' = [pc EXCEPT ![c] = "quitting"]
    /\ stop' = [stop EXCEPT ![c] = 2]
    /\ call' = [call EXCEPT ![c] = Call("quit", NoTask, FALSE)]
    /\ UNCHANGED <<g_isRunning, registry, tasks_, g_clientId, main_tasks_, requests, network>>

(* The condition of the loop over the tries. *)
TriesAgain(c) ==
    /\ call[c].tries < Tries
    /\ call[c].kind = "get" => stop[c] = 0
    /\ call[c].kind = "commit" => stop[c] # 2

Send(c) ==
    /\ call[c] # Idle
    /\ Awaited(c) = {}
    /\ TriesAgain(c)
    /\ call' = [call EXCEPT ![c].tries = @ + 1]
    /\ requests' = requests \cup {Request(c)}
    /\ UNCHANGED <<g_isRunning, registry, tasks_, pc, g_clientId, stop, main_tasks_, network>>

(* The client gives up waiting: the request or its answer is late or lost. *)
LosesAnswer(c) ==
    /\ c \in Faulty
    /\ lost < MaxLost
    /\ \E r \in Awaited(c) :
          /\ requests' = (requests \ {r}) \cup
                IF r.at = "answered" THEN {} ELSE {[r EXCEPT !.lost = lost + 1]}
          /\ unlucky' = IF r.kind = "get" THEN unlucky \cup {c} ELSE unlucky
    /\ lost' = lost + 1
    /\ UNCHANGED <<g_isRunning, registry, tasks_, client>>

(* The process ends, and its memory is gone. *)
Ends(c) ==
    /\ pc' = [pc EXCEPT ![c] = "ended"]
    /\ stop' = [stop EXCEPT ![c] = 0]
    /\ main_tasks_' = [main_tasks_ EXCEPT ![c] = {}]
    /\ UNCHANGED g_clientId

Stops(c, mode) == stop' = [stop EXCEPT ![c] = Max2(@, mode)]

(* What the client does when a loop of requests comes to an end. *)
EndCall(c) ==
    /\ call' = [call EXCEPT ![c] = Idle]
    /\ UNCHANGED <<g_isRunning, registry, tasks_, network>>

Joined(c, r) ==
    /\ g_clientId' = [g_clientId EXCEPT ![c] = r.id]
    /\ pc' = [pc EXCEPT ![c] = "working"]
    /\ UNCHANGED <<stop, main_tasks_>>

(* Mutant of Keeps: a client that was stopped meanwhile does not take it. *)
KeepsUnlessStopped(c, t) == IF stop[c] = 0 THEN main_tasks_[c] \cup {t} ELSE main_tasks_[c]

Keeps(c, t) == main_tasks_[c] \cup {t}

GotTask(c, r) ==
    /\ main_tasks_' = [main_tasks_ EXCEPT ![c] = Keeps(c, r.task)]
    /\ UNCHANGED <<pc, g_clientId, stop>>

(* Mutant of StopMode: only a forced quit is looked at. *)
StopModeForceOnly(ret) == IF ret = "ok, quit now" THEN 2 ELSE IF ret = "stopped" THEN 1 ELSE 0

(* What api_commit_task, or else commitMainTask_, makes of the answer. *)
StopMode(ret) ==
    CASE ret = "ok, quit now" -> 2
      [] ret \in {"ok, quit", "stopped"} -> 1
      [] OTHER -> 0

Committed(c, r) ==
    /\ main_tasks_' = [main_tasks_ EXCEPT ![c] = @ \ {r.task}]
    /\ Stops(c, StopMode(r.ret))
    /\ UNCHANGED <<pc, g_clientId>>

(* An answer ends the loop, unless it is an error that is tried again. *)
ReceiveAnswer(c) ==
    \E r \in Awaited(c) :
        /\ r.at = "answered"
        /\ requests' = requests \ {r}
        /\ \/ /\ r.ret \in {"no task", "disconnect"}
              /\ UNCHANGED <<g_isRunning, registry, tasks_, client, network>>
           \/ /\ r.ret \notin {"no task", "disconnect"}
              /\ EndCall(c)
              /\ \/ r.kind = "join" /\ r.ret = "ok" /\ Joined(c, r)
                 \/ r.kind = "join" /\ r.ret = "stopped" /\ Ends(c)
                 \/ r.kind = "get" /\ r.ret = "ok" /\ GotTask(c, r)
                 \/ /\ r.kind = "get"
                    /\ r.ret = "stopped"
                    /\ Stops(c, 1)
                    /\ UNCHANGED <<pc, g_clientId, main_tasks_>>
                 \/ r.kind = "commit" /\ Committed(c, r)
                 \/ r.kind = "quit" /\ Ends(c)

(* After the last try.  A commit in commitSubTask that fails is fatal; one *)
(* in flush is ignored, and the next getSubTask flushes again.             *)
TriesExhausted(c) ==
    /\ call[c] # Idle
    /\ Awaited(c) = {}
    /\ ~ TriesAgain(c)
    /\ EndCall(c)
    /\ \/ call[c].kind \in {"join", "quit"} /\ Ends(c)
       \/ /\ call[c].kind = "get"
          /\ Stops(c, 1)
          /\ UNCHANGED <<pc, g_clientId, main_tasks_>>
       \/ /\ call[c].kind = "commit"
          /\ Stops(c, IF call[c].flush THEN 0 ELSE 2)
          /\ UNCHANGED <<pc, g_clientId, main_tasks_>>
    /\ UNCHANGED requests

(* Ctrl-C, which stops with force when it is not over after a while. *)
CatchCtrlC(c) ==
    /\ c \in Faulty
    /\ pc[c] = "working"
    /\ stop[c] < 2
    /\ stop' = [stop EXCEPT ![c] = @ + 1]
    /\ UNCHANGED <<g_isRunning, registry, tasks_, pc, g_clientId, call, main_tasks_,
                   requests, network>>

(* On Windows: Ctrl-C, or closing the console window, which forces at once. *)
ctrlHandler(c) ==
    /\ c \in Faulty
    /\ pc[c] = "working"
    /\ \E mode \in {1, 2} : Stops(c, mode)
    /\ UNCHANGED <<g_isRunning, registry, tasks_, pc, g_clientId, call, main_tasks_,
                   requests, network>>

Die(c) ==
    /\ c \in Faulty
    /\ pc[c] \notin {"new", "ended"}
    /\ Ends(c)
    /\ call' = [call EXCEPT ![c] = Idle]
    /\ requests' = {r \in requests : ~ (r.client = c /\ r.at = "answered")}
    /\ UNCHANGED <<g_isRunning, registry, tasks_, network>>

Step(c) ==
    \/ AskForTask(c)
    \/ \E t \in main_tasks_[c], flush \in BOOLEAN : CommitTask(c, t, flush)
    \/ FinishWork(c)
    \/ Send(c)
    \/ ReceiveAnswer(c)
    \/ TriesExhausted(c)
-----------------------------------------------------------------------------
Init ==
    /\ g_isRunning = TRUE
    /\ clients_ = [id \in {} |-> 0]
    /\ silent = {}
    /\ current_client_id_ = 0
    /\ tasks_ = [t \in {} |-> 0]
    /\ pc = [c \in Clients |-> "new"]
    /\ g_clientId = [c \in Clients |-> NoId]
    /\ stop = [c \in Clients |-> 0]
    /\ call = [c \in Clients |-> Idle]
    /\ main_tasks_ = [c \in Clients |-> {}]
    /\ requests = {}
    /\ lost = 0
    /\ unlucky = {}

Next ==
    \/ \E c \in Clients : \/ HandlesOf(c)
                          \/ StartClient(c)
                          \/ StartFails(c)
                          \/ Step(c)
                          \/ LosesAnswer(c)
                          \/ CatchCtrlC(c)
                          \/ ctrlHandler(c)
                          \/ Die(c)
    \/ \E id \in Ids : Lapse(id) \/ \E mode \in QuitModes : notifyClientToQuit(id, mode)
    \/ backgroundThread
    \/ StartOrStop

Spec == Init /\ [][Next]_vars

(* No living client has the id: it quit or was killed, or never heard of it. *)
Abandoned(id) ==
    \A c \in Clients : pc[c] \notin {"new", "joining", "ended"} => g_clientId[c] # id

(* Clients and handlers run.  Time passes, but only the last heartbeat of a *)
(* client that sends no more is bound to become old.                        *)
Fairness ==
    /\ \A c \in Clients : WF_vars(Step(c)) /\ WF_vars(HandlesOf(c))
    /\ \A id \in Ids : WF_vars(Abandoned(id) /\ Lapse(id))
    /\ WF_vars(backgroundThread)

LiveSpec == Spec /\ Fairness
-----------------------------------------------------------------------------
TypeOK ==
    /\ g_isRunning \in BOOLEAN
    /\ current_client_id_ \in 0 .. MaxClientIds
    /\ DOMAIN clients_ \subseteq 0 .. current_client_id_ - 1
    /\ \A id \in DOMAIN clients_ : clients_[id] \in 0 .. 2
    /\ silent \subseteq DOMAIN clients_
    /\ \A t \in DOMAIN tasks_ : t \in Tasks /\ tasks_[t] \in 0 .. current_client_id_ - 1
    /\ pc \in [Clients -> {"new", "joining", "working", "quitting", "ended"}]
    /\ g_clientId \in [Clients -> 0 .. current_client_id_ - 1 \cup {NoId}]
    /\ stop \in [Clients -> 0 .. 2]
    /\ \A c \in Clients : /\ main_tasks_[c] \subseteq Tasks
                          /\ Cardinality(main_tasks_[c]) <= MaxHeld
                          /\ Cardinality(Awaited(c)) <= 1
    /\ lost \in 0 .. MaxLost
    /\ unlucky \subseteq Clients

(* Two client processes never have the same id, not even one after the      *)
(* other: the owner check of commit tells them apart, and what the one sends  *)
(* late is never taken for a heartbeat or the quit of the other.             *)
OneClientPerId ==
    \A c, d \in Clients :
        c # d => g_clientId[c] # g_clientId[d] \/ g_clientId[c] = NoId

(* A task that is leased to a client which is listed and still works is in   *)
(* that client's hands or in an answer to it, or the client gave up on an    *)
(* answer.  So a task is leaked, until it expires, only to a client that was *)
(* evicted, ended or lost an answer, although it is leased before the        *)
(* heartbeat is looked at.  (And the variables have their types.)            *)
LeaksHaveACause ==
    /\ TypeOK
    /\ \A c \in Clients : \A t \in DOMAIN tasks_ :
          tasks_[t] = g_clientId[c] /\ pc[c] = "working" /\ c \notin unlucky
              /\ g_clientId[c] \in DOMAIN clients_
              => \/ t \in main_tasks_[c]
                 \/ \E r \in Awaited(c) : r.task = t

(* An id that quit or was evicted is never listed again, whatever requests  *)
(* of its client come late.                                                *)
GoneForGood ==
    [][\A id \in Ids : id < current_client_id_ /\ id \notin DOMAIN clients_
            => id \notin DOMAIN clients_']_vars

(* An id that no living client has does not stay on the list: not one that  *)
(* was given in an answer that was lost, nor that of a client that was       *)
(* killed or whose quit was lost.                                           *)
GhostsVanish ==
    \A id \in Ids : [](Abandoned(id) /\ id \in DOMAIN clients_
                          => <>(id \notin DOMAIN clients_ \/ ~ Abandoned(id) \/ ~ g_isRunning))

(* A client that the administrator told to quit ends, although the answer to *)
(* /task/get does not tell it, and answers are lost; or it is evicted first, *)
(* and hears no more of it.                                                 *)
ToldToQuitEnds ==
    \A c \in Clients : \A id \in Ids :
        (g_clientId[c] = id /\ id \in DOMAIN clients_ /\ clients_[id] # 0)
            ~> (pc[c] = "ended" \/ id \notin DOMAIN clients_)
=============================================================================
