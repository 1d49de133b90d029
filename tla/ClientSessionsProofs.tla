------------------------- MODULE ClientSessionsProofs -------------------------
(***************************************************************************)
(* Theorems about the sessions, for any number of clients alive at once,   *)
(* of ids, tries, lost answers and tasks.                                  *)
(***************************************************************************)
EXTENDS ClientSessions, FiniteSetTheorems, TLAPS

Kinds == {"join", "get", "commit", "quit"}
Places == {"sent", "heartbeat", "answered"}
Answers == {"none", "ok", "ok, quit", "ok, quit now", "stopped", "no task", "disconnect"}

RequestRecord ==
    [client : Clients, kind : Kinds, id : Int, task : Tasks \cup {NoTask},
     at : Places, ret : Answers, lost : Nat]

CallRecord ==
    [kind : Kinds, task : Tasks \cup {NoTask}, flush : BOOLEAN, tries : Nat]

(* An id on its way to the client that joined. *)
BringsId(r) == r.kind = "join" /\ r.at = "answered" /\ r.ret = "ok"

Types ==
    /\ current_client_id_ \in Nat
    /\ clients_ \in [DOMAIN clients_ -> 0 .. 2]
    /\ g_clientId \in [Clients -> Int]
    /\ call \in [Clients -> CallRecord \cup {Idle}]
    /\ main_tasks_ \in [Clients -> SUBSET (Tasks \cup {NoTask})]
    /\ requests \subseteq RequestRecord
    /\ lost \in Nat

(* Every id given out is below the next one, and has one owner: a client or *)
(* an answer to a join.                                                    *)
OneOwner ==
    /\ \A c \in Clients : g_clientId[c] = NoId \/ g_clientId[c] < current_client_id_
    /\ OneClientPerId
    /\ \A r \in requests : BringsId(r) =>
          /\ r.id \in Nat
          /\ r.id < current_client_id_
          /\ \A c \in Clients : g_clientId[c] # r.id
          /\ \A s \in requests : BringsId(s) /\ s.id = r.id => s = r

SessionInv == Types /\ OneOwner
-----------------------------------------------------------------------------
(* Requests that bring no id do not matter to OneOwner. *)
LEMMA NoNewOwners ==
    ASSUME OneOwner, UNCHANGED <<g_clientId, current_client_id_>>,
           \A r \in requests' : r \in requests \/ ~ BringsId(r)
    PROVE  OneOwner'
BY DEF OneOwner, OneClientPerId

(* An answer that is not an id. *)
LEMMA AnswerKeeps ==
    ASSUME Types, NEW r \in requests, NEW ret \in Answers, Answer(r, ret),
           r.kind # "join" \/ ret # "ok"
    PROVE  /\ requests' \subseteq RequestRecord
           /\ \A s \in requests' : s \in requests \/ ~ BringsId(s)
<1>1. r \in RequestRecord
  BY DEF Types
<1>2. [r EXCEPT !.at = "answered", !.ret = ret] \in RequestRecord
  BY <1>1 DEF RequestRecord, Places
<1>3. ~ BringsId([r EXCEPT !.at = "answered", !.ret = ret])
  BY <1>1 DEF RequestRecord, BringsId
<1>. QED
  BY <1>2, <1>3 DEF Answer, Types

LEMMA IdAnswer ==
    ASSUME NEW r \in RequestRecord, NEW n \in Nat
    PROVE  /\ [r EXCEPT !.at = "answered", !.ret = "ok", !.id = n] \in RequestRecord
           /\ [r EXCEPT !.at = "answered", !.ret = "ok", !.id = n].id = n
<1>1. n \in Int /\ "answered" \in Places /\ "ok" \in Answers
  BY DEF Places, Answers
<1>. QED
  BY <1>1 DEF RequestRecord

LEMMA MoveKeeps ==
    ASSUME Types, NEW r \in requests, NEW task \in Tasks \cup {NoTask},
           Moves(r, "heartbeat", task)
    PROVE  /\ requests' \subseteq RequestRecord
           /\ \A s \in requests' : s \in requests \/ ~ BringsId(s)
<1>1. r \in RequestRecord
  BY DEF Types
<1>2. [r EXCEPT !.at = "heartbeat", !.task = task] \in RequestRecord
  BY <1>1 DEF RequestRecord, Places
<1>3. ~ BringsId([r EXCEPT !.at = "heartbeat", !.task = task])
  BY <1>1 DEF RequestRecord, BringsId
<1>. QED
  BY <1>2, <1>3 DEF Moves, Types
-----------------------------------------------------------------------------
(* The handlers. *)

LEMMA JoinPreserves ==
    ASSUME SessionInv, NEW r \in requests, r.kind = "join", client_join(r)
    PROVE  SessionInv'
<1>0. Types /\ OneOwner
  BY DEF SessionInv
<1>1. CASE g_isRunning
  <2>. DEFINE id == current_client_id_
              answer == [r EXCEPT !.at = "answered", !.ret = "ok", !.id = id]
  <2>1. r \in RequestRecord /\ id \in Nat
    BY <1>0 DEF Types
  <2>2. /\ answer \in RequestRecord
        /\ answer.id = id
    BY <2>1, IdAnswer
  <2>3. /\ requests' \subseteq requests \cup {answer}
        /\ current_client_id_' = id + 1
        /\ clients_' = With(clients_, id, 0)
        /\ UNCHANGED <<client, network>>
    BY <1>1 DEF client_join, AnswerWithId, NewId
  <2>4. clients_' \in [DOMAIN clients_' -> 0 .. 2]
    BY <1>0, <2>3 DEF With, Types
  <2>5. Types'
    BY <1>0, <2>1, <2>2, <2>3, <2>4 DEF Types, client, network
  <2>6. OneOwner'
    <3>1. \A c \in Clients : g_clientId'[c] = g_clientId[c] /\ g_clientId[c] # id
      BY <1>0, <2>1, <2>3 DEF OneOwner, client, NoId
    <3>2. \A s \in requests : BringsId(s) => s.id # id
      BY <1>0, <2>1 DEF OneOwner
    <3>3. \A c \in Clients : g_clientId'[c] = NoId \/ g_clientId'[c] < current_client_id_'
      BY <1>0, <2>1, <2>3, <3>1 DEF OneOwner, Types
    <3>4. OneClientPerId'
      BY <1>0, <3>1 DEF OneOwner, OneClientPerId
    <3>5. ASSUME NEW s \in requests', BringsId(s)
          PROVE  /\ s.id \in Nat
                 /\ s.id < current_client_id_'
                 /\ \A c \in Clients : g_clientId'[c] # s.id
                 /\ \A q \in requests' : BringsId(q) /\ q.id = s.id => q = s
      <4>. HIDE DEF answer
      <4>1. CASE s = answer
        BY <2>1, <2>2, <2>3, <3>1, <3>2, <4>1
      <4>2. CASE s # answer
        BY <2>1, <2>2, <2>3, <3>1, <3>2, <3>5, <4>2, <1>0 DEF OneOwner
      <4>. QED
        BY <4>1, <4>2
    <3>. QED
      BY <3>3, <3>4, <3>5 DEF OneOwner
  <2>. QED
    BY <2>5, <2>6 DEF SessionInv
<1>2. CASE ~ g_isRunning
  <2>1. Answer(r, "stopped") /\ UNCHANGED <<registry, client, network>>
    BY <1>2 DEF client_join
  <2>2. /\ requests' \subseteq RequestRecord
        /\ \A s \in requests' : s \in requests \/ ~ BringsId(s)
    BY <1>0, <2>1, AnswerKeeps DEF Answers
  <2>. QED
    BY <1>0, <2>1, <2>2, NoNewOwners DEF SessionInv, Types, registry, client, network
<1>. QED
  BY <1>1, <1>2

LEMMA QuitPreserves ==
    ASSUME SessionInv, NEW r \in requests, r.kind = "quit", client_quit(r)
    PROVE  SessionInv'
<1>1. /\ Answer(r, "ok")
      /\ clients_' = Without(clients_, {r.id})
      /\ UNCHANGED <<current_client_id_, client, network>>
  BY DEF client_quit
<1>2. /\ requests' \subseteq RequestRecord
      /\ \A s \in requests' : s \in requests \/ ~ BringsId(s)
  BY <1>1, AnswerKeeps DEF Answers, SessionInv
<1>3. clients_' \in [DOMAIN clients_' -> 0 .. 2]
  BY <1>1 DEF Without, SessionInv, Types
<1>. QED
  BY <1>1, <1>2, <1>3, NoNewOwners DEF SessionInv, Types, client, network

LEMMA GetPreserves ==
    ASSUME SessionInv, NEW r \in requests, r.kind = "get", LeasesTask(r) \/ AnswersGet(r)
    PROVE  SessionInv'
<1>1. /\ clients_' = clients_
      /\ UNCHANGED <<current_client_id_, client, network>>
  BY DEF LeasesTask, AnswersGet, heartbeat, Listed, registry
<1>2. /\ requests' \subseteq RequestRecord
      /\ \A s \in requests' : s \in requests \/ ~ BringsId(s)
  <2>1. CASE LeasesTask(r)
    <3>1. CASE \E ret \in {"stopped", "no task"} : Answer(r, ret)
      BY <3>1, AnswerKeeps DEF Answers, SessionInv
    <3>2. CASE \E t \in NewTasks : Moves(r, "heartbeat", t)
      BY <3>2, MoveKeeps DEF NewTasks, SessionInv
    <3>. QED
      BY <2>1, <3>1, <3>2 DEF LeasesTask
  <2>2. CASE AnswersGet(r)
    <3>1. \E ret \in {"ok", "disconnect"} : Answer(r, ret)
      BY <2>2 DEF AnswersGet
    <3>. QED
      BY <3>1, AnswerKeeps DEF Answers, SessionInv
  <2>. QED
    BY <2>1, <2>2
<1>. QED
  BY <1>1, <1>2, NoNewOwners DEF SessionInv, Types, client, network

LEMMA CommitPreserves ==
    ASSUME SessionInv, NEW r \in requests, r.kind = "commit", ClearsTask(r) \/ AnswersCommit(r)
    PROVE  SessionInv'
<1>1. /\ clients_' = clients_
      /\ UNCHANGED <<current_client_id_, client, network>>
  BY DEF ClearsTask, AnswersCommit, heartbeat, Listed, registry
<1>2. /\ requests' \subseteq RequestRecord
      /\ \A s \in requests' : s \in requests \/ ~ BringsId(s)
  <2>1. CASE ClearsTask(r)
    <3>1. r.task \in Tasks \cup {NoTask}
      BY DEF SessionInv, Types, RequestRecord
    <3>. QED
      BY <2>1, <3>1, MoveKeeps DEF ClearsTask, SessionInv
  <2>2. CASE AnswersCommit(r)
    <3>1. ASSUME r.id \in DOMAIN clients_
          PROVE  QuitOrder[clients_[r.id] + 1] \in Answers
      <4>1. clients_[r.id] \in 0 .. 2
        BY <3>1 DEF SessionInv, Types
      <4>2. QuitOrder[1] = "ok" /\ QuitOrder[2] = "ok, quit" /\ QuitOrder[3] = "ok, quit now"
        BY DEF QuitOrder
      <4>3. clients_[r.id] + 1 \in {1, 2, 3}
        BY <4>1
      <4>. QED
        BY <4>2, <4>3 DEF Answers
    <3>2. \E ret \in Answers : Answer(r, ret)
      <4>1. CASE r.id \notin DOMAIN clients_
        BY <2>2, <4>1 DEF AnswersCommit, Answers
      <4>2. CASE r.id \in DOMAIN clients_ /\ ~ g_isRunning
        BY <2>2, <4>2 DEF AnswersCommit, Answers
      <4>3. CASE r.id \in DOMAIN clients_ /\ g_isRunning
        BY <2>2, <3>1, <4>3 DEF AnswersCommit
      <4>. QED
        BY <4>1, <4>2, <4>3
    <3>. QED
      BY <3>2, AnswerKeeps DEF SessionInv
  <2>. QED
    BY <2>1, <2>2
<1>. QED
  BY <1>1, <1>2, NoNewOwners DEF SessionInv, Types, client, network

LEMMA HandlersPreserve ==
    ASSUME SessionInv, NEW c \in Clients, HandlesOf(c)
    PROVE  SessionInv'
BY JoinPreserves, QuitPreserves, GetPreserves, CommitPreserves DEF HandlesOf, Handles
-----------------------------------------------------------------------------
(* The watchdog and the administrator make no entries. *)

LEMMA ServerPreserves ==
    ASSUME SessionInv,
           \/ \E id \in Ids : Lapse(id) \/ \E mode \in QuitModes : notifyClientToQuit(id, mode)
           \/ backgroundThread
           \/ StartOrStop
    PROVE  SessionInv'
<1>1. UNCHANGED <<current_client_id_, client, requests, network>>
  BY DEF Lapse, notifyClientToQuit, backgroundThread, StartOrStop, registry
<1>2. clients_' \in [DOMAIN clients_' -> 0 .. 2]
  <2>1. CASE \E id \in Ids : Lapse(id)
    BY <2>1 DEF Lapse, SessionInv, Types
  <2>2. CASE \E id \in Ids : \E mode \in QuitModes : notifyClientToQuit(id, mode)
    BY <2>2, SessionAssumption DEF notifyClientToQuit, SessionInv, Types
  <2>3. CASE backgroundThread
    BY <2>3 DEF backgroundThread, Without, SessionInv, Types
  <2>4. CASE StartOrStop
    BY <2>4 DEF StartOrStop, registry, SessionInv, Types
  <2>. QED
    BY <2>1, <2>2, <2>3, <2>4
<1>3. \A s \in requests' : s \in requests
  BY <1>1
<1>. QED
  BY <1>1, <1>2, <1>3, NoNewOwners DEF SessionInv, Types, client, network
-----------------------------------------------------------------------------
(* The client. *)

LEMMA LoopsPreserve ==
    ASSUME SessionInv, NEW c \in Clients,
           \/ StartClient(c)
           \/ AskForTask(c)
           \/ \E t \in main_tasks_[c], flush \in BOOLEAN : CommitTask(c, t, flush)
           \/ FinishWork(c)
    PROVE  SessionInv'
<1>1. UNCHANGED <<registry, g_clientId, main_tasks_, requests, network>>
  BY DEF StartClient, AskForTask, CommitTask, FinishWork
<1>2. call' \in [Clients -> CallRecord \cup {Idle}]
  <2>1. \A kind \in Kinds, t \in Tasks \cup {NoTask}, flush \in BOOLEAN :
           Call(kind, t, flush) \in CallRecord
    BY DEF Call, CallRecord
  <2>2. ASSUME NEW kind \in Kinds, NEW t \in Tasks \cup {NoTask}, NEW flush \in BOOLEAN,
               call' = [call EXCEPT ![c] = Call(kind, t, flush)]
        PROVE  call' \in [Clients -> CallRecord \cup {Idle}]
    BY <2>1, <2>2 DEF SessionInv, Types
  <2>3. main_tasks_[c] \subseteq Tasks \cup {NoTask}
    BY DEF SessionInv, Types
  <2>4. CASE StartClient(c)
    BY <2>2, <2>4 DEF StartClient, Kinds
  <2>5. CASE AskForTask(c)
    BY <2>2, <2>5 DEF AskForTask, Kinds
  <2>6. CASE \E t \in main_tasks_[c], flush \in BOOLEAN : CommitTask(c, t, flush)
    BY <2>2, <2>3, <2>6 DEF CommitTask, Kinds
  <2>7. CASE FinishWork(c)
    BY <2>2, <2>7 DEF FinishWork, Kinds
  <2>. QED
    BY <2>4, <2>5, <2>6, <2>7
<1>3. \A s \in requests' : s \in requests
  BY <1>1
<1>. QED
  BY <1>1, <1>2, <1>3, NoNewOwners DEF SessionInv, Types, registry, network

LEMMA SendPreserves ==
    ASSUME SessionInv, NEW c \in Clients, Send(c)
    PROVE  SessionInv'
<1>1. /\ call[c] \in CallRecord
      /\ call' = [call EXCEPT ![c].tries = @ + 1]
      /\ requests' = requests \cup {Request(c)}
      /\ UNCHANGED <<registry, g_clientId, main_tasks_, network>>
  BY DEF Send, SessionInv, Types
<1>2. [call[c] EXCEPT !.tries = @ + 1] \in CallRecord
  BY <1>1 DEF CallRecord
<1>3. call' \in [Clients -> CallRecord \cup {Idle}]
  BY <1>1, <1>2 DEF SessionInv, Types
<1>4. Request(c) \in RequestRecord /\ ~ BringsId(Request(c))
  <2>1. call[c].kind \in Kinds /\ call[c].task \in Tasks \cup {NoTask} /\ g_clientId[c] \in Int
    BY <1>1 DEF CallRecord, SessionInv, Types
  <2>. QED
    BY <2>1 DEF Request, RequestRecord, Places, Answers, BringsId
<1>5. requests' \subseteq RequestRecord /\ \A s \in requests' : s \in requests \/ ~ BringsId(s)
  BY <1>1, <1>4 DEF SessionInv, Types
<1>. QED
  BY <1>1, <1>3, <1>5, NoNewOwners DEF SessionInv, Types, registry, network

LEMMA LosesPreserves ==
    ASSUME SessionInv, NEW c \in Clients, LosesAnswer(c)
    PROVE  SessionInv'
<1>1. PICK r \in requests :
         requests' = (requests \ {r}) \cup
             IF r.at = "answered" THEN {} ELSE {[r EXCEPT !.lost = lost + 1]}
  BY DEF LosesAnswer, Awaited
<1>2. /\ lost' = lost + 1
      /\ UNCHANGED <<registry, client>>
  BY DEF LosesAnswer
<1>3. r \in RequestRecord /\ lost + 1 \in Nat
  BY DEF SessionInv, Types
<1>4. /\ [r EXCEPT !.lost = lost + 1] \in RequestRecord
      /\ r.at # "answered" => ~ BringsId([r EXCEPT !.lost = lost + 1])
  BY <1>3 DEF RequestRecord, BringsId
<1>5. requests' \subseteq RequestRecord /\ \A s \in requests' : s \in requests \/ ~ BringsId(s)
  BY <1>1, <1>4 DEF SessionInv, Types
<1>. QED
  BY <1>2, <1>3, <1>5, NoNewOwners DEF SessionInv, Types, registry, client

(* The only step that gives a client its id takes it from the answer.      *)
LEMMA ReceivePreserves ==
    ASSUME SessionInv, NEW c \in Clients, ReceiveAnswer(c)
    PROVE  SessionInv'
<1>1. PICK r \in Awaited(c) :
        /\ r.at = "answered"
        /\ requests' = requests \ {r}
        /\ UNCHANGED <<registry, network>>
        /\ \/ UNCHANGED client
           \/ /\ call' = [call EXCEPT ![c] = Idle]
              /\ \/ r.kind = "join" /\ r.ret = "ok" /\ Joined(c, r)
                 \/ Ends(c)
                 \/ GotTask(c, r) /\ r.kind = "get"
                 \/ UNCHANGED <<g_clientId, main_tasks_>>
                 \/ Committed(c, r)
  BY DEF ReceiveAnswer, EndCall
<1>2. r \in requests /\ r \in RequestRecord /\ requests' \subseteq RequestRecord
  BY <1>1 DEF Awaited, SessionInv, Types
<1>3. call' \in [Clients -> CallRecord \cup {Idle}]
  BY <1>1 DEF SessionInv, Types, client
<1>4. CASE r.kind = "join" /\ r.ret = "ok" /\ Joined(c, r)
  <2>1. /\ g_clientId' = [g_clientId EXCEPT ![c] = r.id]
        /\ UNCHANGED main_tasks_
        /\ BringsId(r)
    BY <1>1, <1>4 DEF Joined, BringsId
  <2>2. r.id \in Nat /\ r.id < current_client_id_ /\ \A d \in Clients : g_clientId[d] # r.id
    BY <1>2, <2>1 DEF SessionInv, OneOwner
  <2>3. \A d \in Clients : g_clientId'[d] = IF d = c THEN r.id ELSE g_clientId[d]
    BY <2>1 DEF SessionInv, Types
  <2>4. Types'
    BY <1>1, <1>2, <1>3, <2>1 DEF SessionInv, Types, RequestRecord, registry, network
  <2>5. \A d \in Clients : g_clientId'[d] = NoId \/ g_clientId'[d] < current_client_id_'
    BY <1>1, <2>2, <2>3 DEF SessionInv, OneOwner, registry
  <2>6. OneClientPerId'
    BY <2>2, <2>3 DEF SessionInv, OneOwner, OneClientPerId
  <2>7. ASSUME NEW s \in requests', BringsId(s)
        PROVE  /\ s.id \in Nat
               /\ s.id < current_client_id_'
               /\ \A d \in Clients : g_clientId'[d] # s.id
               /\ \A q \in requests' : BringsId(q) /\ q.id = s.id => q = s
    <3>1. s \in requests /\ s # r
      BY <1>1, <2>7
    <3>2. s.id # r.id
      BY <1>2, <2>1, <2>7, <3>1 DEF SessionInv, OneOwner
    <3>. QED
      BY <1>1, <2>3, <2>7, <3>1, <3>2 DEF SessionInv, OneOwner, registry
  <2>. QED
    BY <2>4, <2>5, <2>6, <2>7 DEF SessionInv, OneOwner
<1>5. CASE UNCHANGED g_clientId /\ main_tasks_' \in [Clients -> SUBSET (Tasks \cup {NoTask})]
  BY <1>1, <1>2, <1>3, <1>5, NoNewOwners DEF SessionInv, Types, registry, network
<1>6. ASSUME ~ (r.kind = "join" /\ r.ret = "ok" /\ Joined(c, r))
      PROVE  UNCHANGED g_clientId /\ main_tasks_' \in [Clients -> SUBSET (Tasks \cup {NoTask})]
  <2>1. main_tasks_ \in [Clients -> SUBSET (Tasks \cup {NoTask})] /\ r.task \in Tasks \cup {NoTask}
    BY <1>2 DEF SessionInv, Types, RequestRecord
  <2>2. CASE UNCHANGED client
    BY <2>1, <2>2 DEF client
  <2>3. CASE Ends(c)
    BY <2>1, <2>3 DEF Ends
  <2>4. CASE GotTask(c, r)
    BY <2>1, <2>4 DEF GotTask, Keeps
  <2>5. CASE UNCHANGED <<g_clientId, main_tasks_>>
    BY <2>1, <2>5
  <2>6. CASE Committed(c, r)
    BY <2>1, <2>6 DEF Committed
  <2>. QED
    BY <1>1, <1>6, <2>2, <2>3, <2>4, <2>5, <2>6
<1>. QED
  BY <1>4, <1>5, <1>6

LEMMA ExhaustedPreserves ==
    ASSUME SessionInv, NEW c \in Clients, TriesExhausted(c)
    PROVE  SessionInv'
<1>1. /\ call' = [call EXCEPT ![c] = Idle]
      /\ UNCHANGED <<registry, network, requests, g_clientId>>
      /\ Ends(c) \/ UNCHANGED main_tasks_
  BY DEF TriesExhausted, EndCall, Ends
<1>2. main_tasks_' \in [Clients -> SUBSET (Tasks \cup {NoTask})]
  BY <1>1 DEF Ends, SessionInv, Types
<1>3. \A s \in requests' : s \in requests
  BY <1>1
<1>. QED
  BY <1>1, <1>2, <1>3, NoNewOwners DEF SessionInv, Types, registry, network

LEMMA DiePreserves ==
    ASSUME SessionInv, NEW c \in Clients,
           StartFails(c) \/ CatchCtrlC(c) \/ ctrlHandler(c) \/ Die(c)
    PROVE  SessionInv'
<1>1. /\ call' = call \/ call' = [call EXCEPT ![c] = Idle]
      /\ UNCHANGED <<registry, network, g_clientId>>
      /\ Ends(c) \/ UNCHANGED main_tasks_
      /\ requests' \subseteq requests
  BY DEF StartFails, CatchCtrlC, ctrlHandler, Die, Ends
<1>2. main_tasks_' \in [Clients -> SUBSET (Tasks \cup {NoTask})]
  BY <1>1 DEF Ends, SessionInv, Types
<1>3. \A s \in requests' : s \in requests
  BY <1>1
<1>. QED
  BY <1>1, <1>2, <1>3, NoNewOwners DEF SessionInv, Types, registry, network
-----------------------------------------------------------------------------
(* The inductive invariant. *)
THEOREM SessionInvHolds == Spec => []SessionInv
<1>1. Init => SessionInv
  BY DEF Init, SessionInv, Types, OneOwner, OneClientPerId, NoId
<1>2. SessionInv /\ [Next]_vars => SessionInv'
  <2>. SUFFICES ASSUME SessionInv, [Next]_vars
                PROVE  SessionInv'
    OBVIOUS
  <2>1. CASE UNCHANGED vars
    <3>1. \A s \in requests' : s \in requests
      BY <2>1 DEF vars
    <3>. QED
      BY <2>1, <3>1, NoNewOwners DEF vars, registry, client, network, SessionInv, Types
  <2>2. ASSUME NEW c \in Clients, Step(c)
        PROVE  SessionInv'
    BY <2>2, LoopsPreserve, SendPreserves, ReceivePreserves, ExhaustedPreserves DEF Step
  <2>3. CASE Next
    BY <2>2, <2>3, HandlersPreserve, LoopsPreserve, LosesPreserves, DiePreserves,
       ServerPreserves DEF Next
  <2>. QED
    BY <2>1, <2>3
<1>. QED
  BY <1>1, <1>2, PTL DEF Spec

(* Whatever is lost, late or evicted, and however many clients live at the  *)
(* same time, no two client processes ever have the same id.               *)
THEOREM IdsAreUnique == Spec => []OneClientPerId
<1>1. SessionInv => OneClientPerId
  BY DEF SessionInv, OneOwner
<1>. QED
  BY <1>1, SessionInvHolds, PTL

(* An id that left the server's list of clients never comes back to it.    *)
THEOREM NoReturn == Spec => GoneForGood
<1>1. ASSUME SessionInv, [Next]_vars, NEW id \in Ids,
             id < current_client_id_, id \notin DOMAIN clients_
      PROVE  id \notin DOMAIN clients_'
  <2>1. \/ DOMAIN clients_' \subseteq DOMAIN clients_
        \/ DOMAIN clients_' = DOMAIN clients_ \cup {current_client_id_}
    <3>1. ASSUME NEW c \in Clients, HandlesOf(c)
          PROVE  \/ DOMAIN clients_' \subseteq DOMAIN clients_
                 \/ DOMAIN clients_' = DOMAIN clients_ \cup {current_client_id_}
      BY <3>1 DEF HandlesOf, client_join, client_quit, LeasesTask, AnswersGet, ClearsTask,
         AnswersCommit, heartbeat, Listed, With, Without, NewId, registry
    <3>2. ASSUME NEW c \in Clients,
                 \/ StartClient(c) \/ StartFails(c) \/ Step(c) \/ LosesAnswer(c)
                 \/ CatchCtrlC(c) \/ ctrlHandler(c) \/ Die(c)
          PROVE  clients_' = clients_
      BY <3>2 DEF StartClient, StartFails, Step, AskForTask, CommitTask, FinishWork, Send, ReceiveAnswer,
         EndCall, TriesExhausted, LosesAnswer, CatchCtrlC, ctrlHandler, Die,
         registry
    <3>3. ASSUME \/ \E i \in Ids : Lapse(i) \/ \E mode \in QuitModes : notifyClientToQuit(i, mode)
                 \/ backgroundThread
                 \/ StartOrStop
          PROVE  DOMAIN clients_' \subseteq DOMAIN clients_
      BY <3>3 DEF Lapse, notifyClientToQuit, backgroundThread, Without, StartOrStop, registry,
         SessionInv, Types
    <3>4. CASE UNCHANGED vars
      BY <3>4 DEF vars, registry
    <3>5. CASE Next
      BY <3>1, <3>2, <3>3, <3>5 DEF Next
    <3>. QED
      BY <1>1, <3>4, <3>5
  <2>2. id # current_client_id_
    BY <1>1 DEF SessionInv, Types, Ids
  <2>. QED
    BY <1>1, <2>1, <2>2
<1>2. SessionInv /\ [Next]_vars
        => [\A id \in Ids : id < current_client_id_ /\ id \notin DOMAIN clients_
                => id \notin DOMAIN clients_']_vars
  BY <1>1
<1>. QED
  BY <1>2, SessionInvHolds, PTL DEF Spec, GoneForGood
-----------------------------------------------------------------------------
(* Leases and who has them.                                                *)
(*                                                                         *)
(* That a leased task is in its client's hands cannot be told from the task *)
(* and the client alone: between them are requests, which may be another    *)
(* client's, or late.                                                      *)

Typed ==
    /\ g_isRunning \in BOOLEAN
    /\ current_client_id_ <= MaxClientIds
    /\ DOMAIN clients_ \subseteq 0 .. current_client_id_ - 1
    /\ silent \subseteq DOMAIN clients_
    /\ lost <= MaxLost
    /\ unlucky \subseteq Clients
    /\ pc \in [Clients -> {"new", "joining", "working", "quitting", "ended"}]
    /\ stop \in [Clients -> 0 .. 2]

(* What a client is at tells the kind of its calls and whether it has an id. *)
PhaseOf(c) ==
    /\ main_tasks_[c] \subseteq Tasks
    /\ IsFiniteSet(main_tasks_[c])
    /\ Cardinality(main_tasks_[c]) <= MaxHeld
    /\ call[c].kind = "get" => call[c].task = NoTask /\ Cardinality(main_tasks_[c]) < MaxHeld
    /\ \/ pc[c] = "new" /\ call[c].kind = "none" /\ g_clientId[c] = NoId
       \/ pc[c] = "joining" /\ call[c].kind = "join" /\ g_clientId[c] = NoId
       \/ pc[c] = "working" /\ call[c].kind \in {"none", "get", "commit"} /\ g_clientId[c] \in Nat
       \/ pc[c] = "quitting" /\ call[c].kind = "quit" /\ g_clientId[c] \in Nat
       \/ pc[c] = "ended" /\ call[c].kind = "none" /\ g_clientId[c] \in Nat \cup {NoId}

(* A request for a task has none before the lease, and then the leased one.  *)
(* A client that is told that it is not listed will not be listed again.     *)
TaskOf(r) ==
    /\ r.at = "sent" => r.task = NoTask
    /\ r.at = "heartbeat" => r.task \in Tasks
    /\ r.at = "answered" =>
          \/ r.ret = "ok" /\ r.task \in Tasks
          \/ r.ret \in {"no task", "stopped"} /\ r.task = NoTask
          \/ r.ret = "disconnect" /\ r.id \notin DOMAIN clients_

(* What a request tells about its client: a join is of one that has no id    *)
(* yet, any other has the client's; one that nobody waits for has made its    *)
(* client unlucky; and a task that was committed is not the client's any more. *)
Told(r) ==
    /\ pc[r.client] # "new"
    /\ pc[r.client] = "joining" => r.kind = "join"
    /\ r.at = "answered" => r.lost = 0 /\ pc[r.client] # "ended"
    /\ r.lost = 0 /\ pc[r.client] # "ended" => r.kind = call[r.client].kind
    /\ r.kind # "join" => r.id = g_clientId[r.client] /\ r.id \in Nat
    /\ r.kind = "get" => TaskOf(r) /\ (r.lost # 0 => r.client \in unlucky)
    /\ r.kind = "commit" /\ r.at # "sent" /\ r.task \in DOMAIN tasks_ => tasks_[r.task] # r.id

AwaitsOne ==
    \A r, s \in requests : r.client = s.client /\ r.lost = 0 /\ s.lost = 0 => r = s

(* Tasks are leased to ids that are known to their clients. *)
LeasesTyped ==
    \A t \in DOMAIN tasks_ :
        /\ t \in Tasks
        /\ tasks_[t] \in 0 .. current_client_id_ - 1
        /\ \A r \in requests : BringsId(r) => r.id # tasks_[t]

Owns(t, c) ==
    /\ tasks_[t] = g_clientId[c]
    /\ pc[c] = "working"
    /\ c \notin unlucky
    /\ g_clientId[c] \in DOMAIN clients_

(* Only a request for a task brings one. *)
InHand(t, c) ==
    \/ t \in main_tasks_[c]
    \/ \E r \in requests : r.client = c /\ r.lost = 0 /\ r.kind = "get" /\ r.task = t

Phases == \A c \in Clients : PhaseOf(c)
AllTold == \A r \in requests : Told(r)
Traced == \A t \in DOMAIN tasks_ : \A c \in Clients : Owns(t, c) => InHand(t, c)

LeaseInv == Typed /\ Phases /\ AllTold /\ AwaitsOne /\ LeasesTyped /\ Traced
-----------------------------------------------------------------------------
LEMMA InitLeases == Init => LeaseInv
<1>. SUFFICES ASSUME Init
     PROVE  LeaseInv
  OBVIOUS
<1>1. Typed
  BY SessionAssumption DEF Init, Typed
<1>2. Phases
  BY SessionAssumption, FS_EmptySet DEF Init, Phases, PhaseOf, Idle
<1>3. AllTold /\ AwaitsOne
  BY DEF Init, AllTold, AwaitsOne
<1>4. LeasesTyped /\ Traced
  BY DEF Init, LeasesTyped, Traced
<1>. QED
  BY <1>1, <1>2, <1>3, <1>4 DEF LeaseInv

(* A step that leaves alone what r tells. *)
StillTrue(r) ==
    /\ pc'[r.client] # "new"
    /\ pc'[r.client] = "joining" => pc[r.client] = "joining"
    /\ r.at = "answered" => pc'[r.client] # "ended"
    /\ r.lost = 0 /\ pc'[r.client] # "ended" =>
          pc[r.client] # "ended" /\ call'[r.client].kind = call[r.client].kind
    /\ r.kind # "join" => g_clientId'[r.client] = g_clientId[r.client]
    /\ unlucky \subseteq unlucky'
    /\ r.kind # "join" /\ r.id \notin DOMAIN clients_ => r.id \notin DOMAIN clients_'
    /\ r.task \in DOMAIN tasks_' => r.task \in DOMAIN tasks_ /\ tasks_'[r.task] = tasks_[r.task]

LEMMA ToldStays ==
    ASSUME NEW r \in RequestRecord, Told(r), StillTrue(r)
    PROVE  Told(r)'
<1>1. r.kind = "get" => TaskOf(r)'
  BY DEF Told, StillTrue, TaskOf, RequestRecord
<1>. QED
  BY <1>1 DEF Told, StillTrue, RequestRecord

(* A handler makes of its request r another one, q, or drops it when nobody  *)
(* waits for it.                                                           *)
Turns(r, q) ==
    /\ q.client = r.client /\ q.kind = r.kind /\ q.lost = r.lost
    /\ r.kind = "get" => q.task = r.task \/ r.task = NoTask
    /\ \/ requests' = (requests \ {r}) \cup {q} /\ Told(q)'
       \/ requests' = requests \ {r} /\ (r.lost # 0 \/ pc[r.client] = "ended")
    /\ UNCHANGED <<client, network>>

(* What is not yet the client's is leased only into its hands. *)
OwnsNothingElse ==
    \A t \in DOMAIN tasks_' : \A c \in Clients :
        Owns(t, c)' => (t \in DOMAIN tasks_ /\ Owns(t, c)) \/ InHand(t, c)'

LEMMA HandlerKeepsLeases ==
    ASSUME SessionInv, LeaseInv, NEW r \in requests, NEW q, Turns(r, q),
           \A s \in requests : StillTrue(s),
           Typed', LeasesTyped', OwnsNothingElse
    PROVE  LeaseInv'
<1>. USE DEF LeaseInv
<1>1. /\ \A s \in requests' : s \in requests \/ s = q
      /\ \A s \in requests : s \in RequestRecord
      /\ UNCHANGED <<pc, g_clientId, stop, call, main_tasks_, lost, unlucky>>
  BY DEF Turns, SessionInv, Types, client, network
<1>2. Phases'
  BY <1>1 DEF Phases, PhaseOf
<1>3. AllTold'
  <2>1. ASSUME NEW s \in requests
        PROVE  Told(s)'
    BY <1>1, ToldStays DEF AllTold
  <2>. QED
    BY <2>1 DEF AllTold, Turns
<1>4. AwaitsOne'
  BY <1>1 DEF AwaitsOne, Turns
<1>5. ASSUME NEW t \in DOMAIN tasks_, NEW c \in Clients, Owns(t, c), InHand(t, c)
      PROVE  InHand(t, c)'
  <2>1. CASE t \in main_tasks_[c]
    BY <1>1, <2>1 DEF InHand
  <2>2. CASE t \notin main_tasks_[c]
    <3>1. PICK s \in requests : s.client = c /\ s.lost = 0 /\ s.kind = "get" /\ s.task = t
      BY <1>5, <2>2 DEF InHand
    <3>2. CASE s # r
      BY <3>1, <3>2 DEF Turns, InHand
    <3>3. CASE s = r
      <4>1. pc[c] # "ended" /\ t # NoTask
        BY <1>5, SessionAssumption DEF Owns, LeasesTyped
      <4>2. requests' = (requests \ {r}) \cup {q} /\ q.task = t /\ q.client = c /\ q.lost = 0 /\ q.kind = "get"
        BY <3>1, <3>3, <4>1 DEF Turns
      <4>. QED
        BY <4>2 DEF InHand
    <3>. QED
      BY <3>2, <3>3
  <2>. QED
    BY <2>1, <2>2
<1>6. Traced'
  BY <1>5 DEF Traced, OwnsNothingElse
<1>. QED
  BY <1>2, <1>3, <1>4, <1>6
-----------------------------------------------------------------------------
(* The handlers. *)

LEMMA AnswerTurns ==
    ASSUME SessionInv, NEW r \in requests, NEW ret, NEW q, Answer(r, ret),
           UNCHANGED <<client, network>>,
           q = [r EXCEPT !.at = "answered", !.ret = ret],
           Waits(r) => Told(q)'
    PROVE  Turns(r, q)
<1>1. r \in RequestRecord
  BY DEF SessionInv, Types
<1>2. q.client = r.client /\ q.kind = r.kind /\ q.lost = r.lost /\ q.task = r.task
  BY <1>1 DEF RequestRecord
<1>3. CASE Waits(r)
  BY <1>2, <1>3 DEF Turns, Answer
<1>4. CASE ~ Waits(r)
  <2>1. requests' = requests \ {r}
    BY <1>4 DEF Answer
  <2>. QED
    BY <1>2, <1>4, <2>1 DEF Turns, Waits
<1>. QED
  BY <1>3, <1>4

(* The handlers that make no entry and no lease. *)
LEMMA NothingNew ==
    ASSUME SessionInv, LeaseInv, UNCHANGED <<client, network>>,
           DOMAIN clients_' \subseteq DOMAIN clients_,
           \A t \in DOMAIN tasks_' : t \in DOMAIN tasks_ /\ tasks_'[t] = tasks_[t]
    PROVE  (\A s \in requests : StillTrue(s)) /\ OwnsNothingElse
<1>1. UNCHANGED <<pc, g_clientId, call, unlucky>>
  BY DEF client, network
<1>2. ASSUME NEW s \in requests
      PROVE  StillTrue(s)
  <2>1. Told(s) /\ s \in RequestRecord
    BY DEF LeaseInv, AllTold, SessionInv, Types
  <2>. QED
    BY <1>1, <2>1 DEF StillTrue, Told
<1>3. OwnsNothingElse
  BY <1>1 DEF OwnsNothingElse, Owns
<1>. QED
  BY <1>2, <1>3

(* The new id is no task's, since it was nobody's. *)
LEMMA JoinKeepsLeases ==
    ASSUME SessionInv, LeaseInv, NEW r \in requests, r.kind = "join", r.at = "sent", client_join(r)
    PROVE  LeaseInv'
<1>0. /\ r \in RequestRecord /\ Told(r) /\ UNCHANGED <<client, network>>
      /\ UNCHANGED <<pc, g_clientId, call, unlucky, lost, stop, tasks_, g_isRunning>>
      /\ current_client_id_ \in Nat
  BY DEF client_join, SessionInv, Types, LeaseInv, AllTold, client, network
<1>1. CASE g_isRunning
  <2>a. PICK id : id = current_client_id_
    OBVIOUS
  <2>b. PICK q : q = [r EXCEPT !.at = "answered", !.ret = "ok", !.id = id]
    OBVIOUS
  <2>1. /\ current_client_id_ < MaxClientIds
        /\ clients_' = With(clients_, id, 0)
        /\ silent' = silent \ {id}
        /\ current_client_id_' = id + 1
        /\ AnswerWithId(r, id)
    BY <1>1, <2>a DEF client_join, NewId
  <2>2. /\ q.client = r.client /\ q.kind = "join" /\ q.lost = r.lost /\ q.task = r.task
        /\ q.at = "answered" /\ q.id = id
    BY <1>0, <2>b DEF RequestRecord
  <2>3. DOMAIN clients_' = DOMAIN clients_ \cup {id}
    BY <2>1 DEF With
  <2>4. Waits(r) => Told(q)'
    BY <1>0, <2>2 DEF Told, Waits
  <2>5. Turns(r, q)
    <3>1. Waits(r) => requests' = (requests \ {r}) \cup {q}
      BY <2>1, <2>b DEF AnswerWithId
    <3>2. ~ Waits(r) => requests' = requests \ {r}
      BY <2>1 DEF AnswerWithId
    <3>. QED
      BY <1>0, <2>2, <2>4, <3>1, <3>2 DEF Turns, Waits
  <2>6. \A s \in requests : s.kind # "join" => s.id # id
    BY <1>0, <2>a DEF LeaseInv, AllTold, Told, SessionInv, Types, RequestRecord, OneOwner, NoId
  <2>7. ASSUME NEW s \in requests
        PROVE  StillTrue(s)
    <3>1. Told(s) /\ s \in RequestRecord
      BY DEF LeaseInv, AllTold, SessionInv, Types
    <3>. QED
      BY <1>0, <2>3, <2>6, <3>1 DEF StillTrue, Told
  <2>8. Typed'
    <3>1. DOMAIN clients_' \subseteq 0 .. current_client_id_' - 1
      BY <1>0, <2>1, <2>3, <2>a DEF LeaseInv, Typed
    <3>2. current_client_id_' <= MaxClientIds
      BY <1>0, <2>1, <2>a, SessionAssumption
    <3>. QED
      BY <1>0, <2>1, <2>3, <3>1, <3>2 DEF LeaseInv, Typed
  <2>9. LeasesTyped'
    <3>1. \A t \in DOMAIN tasks_ : tasks_[t] \in 0 .. id - 1 /\ tasks_[t] # id /\ tasks_[t] \in 0 .. id
      BY <1>0, <2>a DEF LeaseInv, LeasesTyped
    <3>2. \A s \in requests' : s \in requests \/ s.id = id
      BY <2>2, <2>5 DEF Turns
    <3>. QED
      <4>1. current_client_id_' - 1 = id
        BY <1>0, <2>1, <2>a
      <4>2. \A t \in DOMAIN tasks_ : t \in Tasks /\ \A s \in requests : BringsId(s) => s.id # tasks_[t]
        BY DEF LeaseInv, LeasesTyped
      <4>3. \A t \in DOMAIN tasks_ : \A s \in requests' : BringsId(s) => s.id # tasks_[t]
        BY <3>1, <3>2, <4>2
      <4>. QED
        BY <1>0, <3>1, <4>1, <4>2, <4>3 DEF LeasesTyped, BringsId
  <2>10. OwnsNothingElse
    <3>1. \A c \in Clients : g_clientId[c] # id
      BY <1>0, <2>a DEF SessionInv, OneOwner, NoId
    <3>. QED
      BY <1>0, <2>3, <3>1 DEF OwnsNothingElse, Owns
  <2>. QED
    BY <2>5, <2>7, <2>8, <2>9, <2>10, HandlerKeepsLeases
<1>2. CASE ~ g_isRunning
  <2>. DEFINE q == [r EXCEPT !.at = "answered", !.ret = "stopped"]
  <2>1. Answer(r, "stopped") /\ UNCHANGED <<clients_, silent, current_client_id_>>
    BY <1>2 DEF client_join, registry
  <2>2. /\ q.client = r.client /\ q.kind = "join" /\ q.lost = r.lost /\ q.at = "answered"
        /\ q.ret = "stopped"
    BY <1>0 DEF RequestRecord
  <2>. HIDE DEF q
  <2>3. Waits(r) => Told(q)'
    BY <1>0, <2>2 DEF Told, Waits
  <2>4. Turns(r, q)
    BY <1>0, <2>1, <2>3, AnswerTurns DEF q
  <2>5. Typed'
    BY <1>0, <2>1 DEF LeaseInv, Typed
  <2>6. LeasesTyped'
    BY <1>0, <2>1, <2>2, <2>4 DEF LeaseInv, LeasesTyped, Turns, BringsId
  <2>. QED
    BY <1>0, <2>1, <2>4, <2>5, <2>6, NothingNew, HandlerKeepsLeases
<1>. QED
  BY <1>1, <1>2

LEMMA QuitKeepsLeases ==
    ASSUME SessionInv, LeaseInv, NEW r \in requests, r.kind = "quit", r.at = "sent", client_quit(r)
    PROVE  LeaseInv'
<1>. DEFINE q == [r EXCEPT !.at = "answered", !.ret = "ok"]
<1>1. /\ r \in RequestRecord /\ Told(r) /\ UNCHANGED <<client, network>>
      /\ UNCHANGED <<pc, g_clientId, call, unlucky, lost, stop, tasks_, g_isRunning, current_client_id_>>
  BY DEF client_quit, SessionInv, Types, LeaseInv, AllTold, client, network
<1>2. /\ clients_' = Without(clients_, {r.id})
      /\ silent' = silent \ {r.id}
      /\ Answer(r, "ok")
  BY DEF client_quit
<1>3. q.client = r.client /\ q.kind = "quit" /\ q.lost = r.lost /\ q.at = "answered" /\ q.id = r.id
  BY <1>1 DEF RequestRecord
<1>4. DOMAIN clients_' = DOMAIN clients_ \ {r.id}
  BY <1>2 DEF Without
<1>. HIDE DEF q
<1>5. Waits(r) => Told(q)'
  BY <1>1, <1>3 DEF Told, Waits
<1>6. Turns(r, q)
  BY <1>1, <1>2, <1>5, AnswerTurns DEF q
<1>7. Typed'
  BY <1>1, <1>2, <1>4 DEF LeaseInv, Typed
<1>8. LeasesTyped'
  BY <1>1, <1>3, <1>6 DEF LeaseInv, LeasesTyped, Turns, BringsId
<1>. QED
  BY <1>1, <1>4, <1>6, <1>7, <1>8, NothingNew, HandlerKeepsLeases

(* A task is leased into the request's hands; a client that asked in vain, or *)
(* is told that it is not listed, does not own what the request drops.        *)
LEMMA GetKeepsLeases ==
    ASSUME SessionInv, LeaseInv, NEW r \in requests, r.kind = "get", r.at = "sent", LeasesTask(r)
    PROVE  LeaseInv'
<1>1. /\ r \in RequestRecord /\ Told(r) /\ UNCHANGED <<client, network>>
      /\ UNCHANGED <<pc, g_clientId, call, unlucky, lost, stop, g_isRunning, clients_, silent, current_client_id_>>
  BY DEF LeasesTask, registry, SessionInv, Types, LeaseInv, AllTold, client, network
<1>2. r.task = NoTask /\ r.id = g_clientId[r.client] /\ r.id \in Nat
  BY <1>1 DEF Told, TaskOf
<1>3. Typed'
  BY <1>1 DEF LeaseInv, Typed
<1>4. CASE \E ret \in {"stopped", "no task"} : Answer(r, ret) /\ UNCHANGED tasks_
  <2>1. PICK ret \in {"stopped", "no task"} : Answer(r, ret) /\ UNCHANGED tasks_
    BY <1>4
  <2>2. PICK q : q = [r EXCEPT !.at = "answered", !.ret = ret]
    OBVIOUS
  <2>3. /\ q.client = r.client /\ q.kind = "get" /\ q.lost = r.lost /\ q.at = "answered"
        /\ q.id = r.id /\ q.task = r.task /\ q.ret = ret
    BY <1>1, <2>2 DEF RequestRecord
  <2>4. Waits(r) => Told(q)'
    BY <1>1, <1>2, <2>3 DEF Told, Waits, TaskOf
  <2>5. Turns(r, q)
    BY <1>1, <2>1, <2>2, <2>4, AnswerTurns
  <2>6. LeasesTyped'
    BY <1>1, <2>1, <2>3, <2>5 DEF LeaseInv, LeasesTyped, Turns, BringsId
  <2>. QED
    BY <1>1, <1>3, <2>1, <2>5, <2>6, NothingNew, HandlerKeepsLeases
<1>5. CASE \E t \in NewTasks : tasks_' = With(tasks_, t, r.id) /\ Moves(r, "heartbeat", t)
  <2>1. PICK t \in NewTasks : tasks_' = With(tasks_, t, r.id) /\ Moves(r, "heartbeat", t)
    BY <1>5
  <2>2. PICK q : q = [r EXCEPT !.at = "heartbeat", !.task = t]
    OBVIOUS
  <2>3. /\ q.client = r.client /\ q.kind = "get" /\ q.lost = r.lost /\ q.at = "heartbeat"
        /\ q.id = r.id /\ q.task = t
    BY <1>1, <2>2 DEF RequestRecord
  <2>4. /\ t \in Tasks /\ t \notin DOMAIN tasks_ /\ \A s \in requests : s.task # t
        /\ DOMAIN tasks_' = DOMAIN tasks_ \cup {t}
        /\ tasks_'[t] = r.id
        /\ \A u \in DOMAIN tasks_ : tasks_'[u] = tasks_[u]
    BY <2>1 DEF NewTasks, With
  <2>5. requests' = (requests \ {r}) \cup {q}
    BY <2>1, <2>2 DEF Moves
  <2>6. Told(q)'
    BY <1>1, <1>2, <2>3, <2>4 DEF Told, TaskOf
  <2>7. Turns(r, q)
    BY <1>1, <1>2, <2>3, <2>5, <2>6 DEF Turns
  <2>8. ASSUME NEW s \in requests
        PROVE  StillTrue(s)
    <3>1. Told(s) /\ s \in RequestRecord /\ s.task # t
      BY <2>4 DEF LeaseInv, AllTold, SessionInv, Types
    <3>. QED
      BY <1>1, <2>4, <3>1 DEF StillTrue, Told
  <2>9. LeasesTyped'
    <3>1. r.id \in 0 .. current_client_id_ - 1
      BY <1>1, <1>2 DEF SessionInv, OneOwner, NoId, RequestRecord, Types
    <3>2. \A s \in requests' : BringsId(s) => s \in requests /\ s.id # r.id
      BY <1>1, <1>2, <2>3, <2>5 DEF SessionInv, OneOwner, BringsId, RequestRecord
    <3>3. ASSUME NEW u \in DOMAIN tasks_'
          PROVE  /\ u \in Tasks
                 /\ tasks_'[u] \in 0 .. current_client_id_ - 1
                 /\ \A s \in requests' : BringsId(s) => s.id # tasks_'[u]
      <4>1. CASE u = t
        BY <2>4, <3>1, <3>2, <4>1
      <4>2. CASE u # t
        <5>1. u \in DOMAIN tasks_ /\ tasks_'[u] = tasks_[u]
          BY <2>4, <4>2
        <5>. QED
          BY <3>2, <5>1 DEF LeaseInv, LeasesTyped
      <4>. QED
        BY <4>1, <4>2
    <3>. QED
      BY <1>1, <3>3 DEF LeasesTyped, BringsId
  <2>10. ASSUME NEW u \in DOMAIN tasks_', NEW c \in Clients, Owns(u, c)'
         PROVE  (u \in DOMAIN tasks_ /\ Owns(u, c)) \/ InHand(u, c)'
    <3>1. CASE u # t
      BY <1>1, <2>4, <2>10, <3>1 DEF Owns
    <3>2. CASE u = t
      <4>1. g_clientId[c] = g_clientId[r.client] /\ g_clientId[c] # NoId /\ c \notin unlucky
        BY <1>1, <1>2, <2>4, <2>10, <3>2 DEF Owns, NoId
      <4>2. c = r.client
        BY <1>1, <4>1 DEF SessionInv, OneOwner, OneClientPerId, RequestRecord
      <4>3. r.lost = 0
        BY <1>1, <4>1, <4>2 DEF Told
      <4>. QED
        BY <2>3, <2>5, <3>2, <4>2, <4>3 DEF InHand
    <3>. QED
      BY <3>1, <3>2
  <2>. QED
    BY <1>3, <2>7, <2>8, <2>9, <2>10, HandlerKeepsLeases DEF OwnsNothingElse
<1>. QED
  BY <1>4, <1>5 DEF LeasesTask

LEMMA GetAnswerKeepsLeases ==
    ASSUME SessionInv, LeaseInv, NEW r \in requests, r.kind = "get", r.at = "heartbeat", AnswersGet(r)
    PROVE  LeaseInv'
<1>1. /\ r \in RequestRecord /\ Told(r) /\ UNCHANGED <<client, network>>
      /\ UNCHANGED <<pc, g_clientId, call, unlucky, lost, stop, g_isRunning, tasks_, clients_, current_client_id_>>
      /\ silent' = silent \ {r.id}
  BY DEF AnswersGet, heartbeat, Listed, SessionInv, Types, LeaseInv, AllTold, client, network
<1>2. PICK ret \in {"ok", "disconnect"} : Answer(r, ret) /\ (ret = "disconnect" => r.id \notin DOMAIN clients_)
  BY DEF AnswersGet
<1>3. PICK q : q = [r EXCEPT !.at = "answered", !.ret = ret]
  OBVIOUS
<1>4. /\ q.client = r.client /\ q.kind = "get" /\ q.lost = r.lost /\ q.at = "answered"
      /\ q.id = r.id /\ q.task = r.task /\ q.ret = ret
  BY <1>1, <1>3 DEF RequestRecord
<1>5. Waits(r) => Told(q)'
  BY <1>1, <1>2, <1>4 DEF Told, Waits, TaskOf
<1>6. Turns(r, q)
  BY <1>1, <1>2, <1>3, <1>5, AnswerTurns
<1>7. Typed'
  BY <1>1 DEF LeaseInv, Typed
<1>8. LeasesTyped'
  BY <1>1, <1>4, <1>6 DEF LeaseInv, LeasesTyped, Turns, BringsId
<1>. QED
  BY <1>1, <1>6, <1>7, <1>8, NothingNew, HandlerKeepsLeases

(* A committed task is not the client's any more, whether it was still, or   *)
(* had expired.                                                             *)
LEMMA CommitKeepsLeases ==
    ASSUME SessionInv, LeaseInv, NEW r \in requests, r.kind = "commit",
           \/ r.at = "sent" /\ ClearsTask(r)
           \/ r.at = "heartbeat" /\ AnswersCommit(r)
    PROVE  LeaseInv'
<1>1. /\ r \in RequestRecord /\ Told(r) /\ UNCHANGED <<client, network>>
      /\ UNCHANGED <<pc, g_clientId, call, unlucky, lost, stop, g_isRunning, clients_, current_client_id_>>
      /\ silent' \subseteq silent
  BY DEF ClearsTask, AnswersCommit, heartbeat, Listed, registry, SessionInv, Types, LeaseInv, AllTold,
         client, network
<1>2. Typed'
  BY <1>1 DEF LeaseInv, Typed
<1>3. /\ \A t \in DOMAIN tasks_' : t \in DOMAIN tasks_ /\ tasks_'[t] = tasks_[t]
      /\ r.task \in DOMAIN tasks_' => tasks_'[r.task] # r.id
  <2>1. CASE r.at = "sent" /\ ClearsTask(r)
    BY <2>1 DEF ClearsTask, Without
  <2>2. CASE r.at = "heartbeat" /\ AnswersCommit(r)
    BY <1>1, <2>2 DEF AnswersCommit, Told
  <2>. QED
    BY <2>1, <2>2
<1>4. \E q : Turns(r, q) /\ q.kind = "commit"
  <2>1. CASE r.at = "sent" /\ ClearsTask(r)
    <3>1. PICK q : q = [r EXCEPT !.at = "heartbeat", !.task = r.task]
      OBVIOUS
    <3>2. /\ q.client = r.client /\ q.kind = "commit" /\ q.lost = r.lost /\ q.at = "heartbeat"
          /\ q.id = r.id /\ q.task = r.task
      BY <1>1, <3>1 DEF RequestRecord
    <3>3. requests' = (requests \ {r}) \cup {q}
      BY <2>1, <3>1 DEF ClearsTask, Moves
    <3>4. Told(q)'
      BY <1>1, <1>3, <3>2 DEF Told
    <3>. QED
      BY <1>1, <3>2, <3>3, <3>4 DEF Turns
  <2>2. CASE r.at = "heartbeat" /\ AnswersCommit(r)
    <3>1. PICK ret : Answer(r, ret)
      BY <2>2 DEF AnswersCommit
    <3>2. PICK q : q = [r EXCEPT !.at = "answered", !.ret = ret]
      OBVIOUS
    <3>3. /\ q.client = r.client /\ q.kind = "commit" /\ q.lost = r.lost /\ q.at = "answered"
          /\ q.id = r.id /\ q.task = r.task
      BY <1>1, <3>2 DEF RequestRecord
    <3>4. Waits(r) => Told(q)'
      BY <1>1, <1>3, <3>3 DEF Told, Waits
    <3>5. Turns(r, q)
      BY <1>1, <3>1, <3>2, <3>4, AnswerTurns
    <3>. QED
      BY <3>3, <3>5
  <2>. QED
    BY <2>1, <2>2
<1>5. PICK q : Turns(r, q) /\ q.kind = "commit"
  BY <1>4
<1>6. LeasesTyped'
  BY <1>1, <1>3, <1>5 DEF LeaseInv, LeasesTyped, Turns, BringsId
<1>7. DOMAIN clients_' \subseteq DOMAIN clients_
  BY <1>1
<1>8. (\A s \in requests : StillTrue(s)) /\ OwnsNothingElse
  BY <1>1, <1>3, <1>7, NothingNew
<1>. QED
  BY <1>2, <1>5, <1>6, <1>8, HandlerKeepsLeases

LEMMA ServerKeepsLeases ==
    ASSUME SessionInv, LeaseInv,
           \/ \E id \in Ids : Lapse(id) \/ \E mode \in QuitModes : notifyClientToQuit(id, mode)
           \/ backgroundThread
           \/ StartOrStop
    PROVE  LeaseInv'
<1>1. UNCHANGED <<current_client_id_, tasks_, client, requests, network>>
  BY DEF Lapse, notifyClientToQuit, backgroundThread, StartOrStop, registry
<1>2. DOMAIN clients_' \subseteq DOMAIN clients_ /\ silent' \subseteq DOMAIN clients_' /\ g_isRunning' \in BOOLEAN
  BY DEF Lapse, notifyClientToQuit, backgroundThread, Evicted, Without, StartOrStop, registry, LeaseInv, Typed
<1>3. Typed'
  BY <1>1, <1>2 DEF LeaseInv, Typed, client, network
<1>4. (\A s \in requests : StillTrue(s)) /\ OwnsNothingElse
  BY <1>1, <1>2, NothingNew
<1>5. Phases'
  BY <1>1 DEF LeaseInv, Phases, PhaseOf, client
<1>6. AllTold'
  <2>1. \A s \in requests : Told(s) /\ s \in RequestRecord
    BY DEF LeaseInv, AllTold, SessionInv, Types
  <2>. QED
    BY <1>1, <1>4, <2>1, ToldStays DEF AllTold
<1>7. AwaitsOne' /\ LeasesTyped'
  BY <1>1 DEF LeaseInv, AwaitsOne, LeasesTyped, BringsId
<1>8. Traced'
  BY <1>1, <1>2 DEF LeaseInv, Traced, Owns, InHand, client, network
<1>. QED
  BY <1>3, <1>5, <1>6, <1>7, <1>8 DEF LeaseInv
-----------------------------------------------------------------------------
(* The clients. *)

(* A step of the client c, as the others see it. *)
StepOf(c) ==
    /\ UNCHANGED <<registry, tasks_, g_isRunning>>
    /\ unlucky \subseteq unlucky'
    /\ \A d \in Clients \ {c} :
          /\ pc'[d] = pc[d] /\ g_clientId'[d] = g_clientId[d]
          /\ call'[d] = call[d] /\ main_tasks_'[d] = main_tasks_[d]
    /\ \A r \in requests : r.client # c => r \in requests'
    /\ \A r \in requests' : r \in requests \/ (r.client = c /\ ~ BringsId(r))

(* What it has to keep of its own. *)
KeepsItsOwn(c) ==
    /\ PhaseOf(c)'
    /\ \A r \in requests' : r.client = c => (r \in requests /\ StillTrue(r)) \/ Told(r)'
    /\ \A r, s \in requests' : r.client = c /\ s.client = c /\ r.lost = 0 /\ s.lost = 0 => r = s
    /\ \A t \in DOMAIN tasks_ : Owns(t, c)' => InHand(t, c)'

LEMMA ClientKeepsLeases ==
    ASSUME SessionInv, LeaseInv, NEW c \in Clients, StepOf(c), KeepsItsOwn(c), Typed'
    PROVE  LeaseInv'
<1>1. \A r \in requests : r \in RequestRecord /\ Told(r)
  BY DEF LeaseInv, AllTold, SessionInv, Types
<1>2. Phases'
  <2>1. ASSUME NEW d \in Clients, d # c
        PROVE  PhaseOf(d)'
    <3>1. /\ pc'[d] = pc[d] /\ g_clientId'[d] = g_clientId[d]
          /\ call'[d] = call[d] /\ main_tasks_'[d] = main_tasks_[d]
      BY <2>1 DEF StepOf
    <3>. QED
      BY <3>1 DEF LeaseInv, Phases, PhaseOf
  <2>. QED
    BY <2>1 DEF Phases, KeepsItsOwn
<1>3. AllTold'
  <2>1. ASSUME NEW r \in requests', r.client # c
        PROVE  Told(r)'
    <3>1. r \in requests /\ r.client \in Clients \ {c} /\ r \in RequestRecord /\ Told(r)
      BY <1>1, <2>1 DEF StepOf, RequestRecord
    <3>2. StillTrue(r)
      BY <1>1, <3>1 DEF StepOf, StillTrue, Told, registry
    <3>. QED
      BY <3>1, <3>2, ToldStays
  <2>2. ASSUME NEW r \in requests', r.client = c
        PROVE  Told(r)'
    BY <1>1, <2>2, ToldStays DEF KeepsItsOwn
  <2>. QED
    BY <2>1, <2>2 DEF AllTold
<1>4. AwaitsOne'
  <2>1. ASSUME NEW r \in requests', NEW s \in requests', r.client = s.client, r.lost = 0, s.lost = 0
        PROVE  r = s
    <3>1. CASE r.client = c
      BY <2>1, <3>1 DEF KeepsItsOwn
    <3>2. CASE r.client # c
      BY <2>1, <3>2 DEF LeaseInv, AwaitsOne, StepOf
    <3>. QED
      BY <3>1, <3>2
  <2>. QED
    BY <2>1 DEF AwaitsOne
<1>5. LeasesTyped'
  BY DEF LeaseInv, LeasesTyped, StepOf, registry, BringsId
<1>6. Traced'
  <2>1. ASSUME NEW t \in DOMAIN tasks_, NEW d \in Clients, d # c, Owns(t, d)'
        PROVE  InHand(t, d)'
    <3>1. Owns(t, d) /\ main_tasks_'[d] = main_tasks_[d]
      BY <2>1 DEF StepOf, Owns, registry
    <3>2. InHand(t, d)
      BY <3>1 DEF LeaseInv, Traced
    <3>3. \A r \in requests : r.client = d => r \in requests'
      BY <2>1 DEF StepOf
    <3>. QED
      BY <3>1, <3>2, <3>3 DEF InHand
  <2>. QED
    BY <2>1 DEF Traced, KeepsItsOwn, StepOf
<1>. QED
  BY <1>2, <1>3, <1>4, <1>5, <1>6 DEF LeaseInv

(* A client whose requests stay, and tell what they told. *)
LEMMA RequestsStay ==
    ASSUME SessionInv, LeaseInv, NEW c \in Clients, StepOf(c), UNCHANGED requests,
           \A r \in requests : r.client = c => StillTrue(r),
           PhaseOf(c)', main_tasks_'[c] = main_tasks_[c], g_clientId'[c] = g_clientId[c],
           pc'[c] = "working" => pc[c] = "working", Typed'
    PROVE  LeaseInv'
<1>1. \A t \in DOMAIN tasks_ : Owns(t, c)' => Owns(t, c)
  BY DEF StepOf, Owns, registry
<1>2. \A t \in DOMAIN tasks_ : InHand(t, c) => InHand(t, c)'
  BY DEF InHand
<1>3. KeepsItsOwn(c)
  BY <1>1, <1>2 DEF KeepsItsOwn, LeaseInv, Traced, AwaitsOne
<1>. QED
  BY <1>3, ClientKeepsLeases

(* A client that is in no call waits for no answer. *)
LEMMA IdleAwaitsNothing ==
    ASSUME SessionInv, LeaseInv, NEW c \in Clients, call[c].kind = "none",
           NEW r \in requests, r.client = c
    PROVE  pc[c] # "new" /\ (r.lost # 0 \/ pc[c] = "ended") /\ r.at # "answered"
<1>1. r \in RequestRecord /\ Told(r)
  BY DEF LeaseInv, AllTold, SessionInv, Types
<1>2. r.kind # "none"
  BY <1>1 DEF RequestRecord, Kinds
<1>. QED
  BY <1>1, <1>2 DEF Told

LEMMA LoopsKeepLeases ==
    ASSUME SessionInv, LeaseInv, NEW c \in Clients,
           \/ StartClient(c) \/ StartFails(c)
           \/ AskForTask(c)
           \/ \E t \in main_tasks_[c], flush \in BOOLEAN : CommitTask(c, t, flush)
           \/ FinishWork(c)
    PROVE  LeaseInv'
<1>1. /\ pc \in [Clients -> {"new", "joining", "working", "quitting", "ended"}]
      /\ stop \in [Clients -> 0 .. 2]
      /\ call \in [Clients -> CallRecord \cup {Idle}]
      /\ PhaseOf(c)
  BY DEF LeaseInv, Typed, Phases, SessionInv, Types
<1>2. UNCHANGED <<registry, tasks_, g_isRunning, g_clientId, main_tasks_, requests, network>>
  BY DEF StartClient, StartFails, AskForTask, CommitTask, FinishWork
<1>3. call[c].kind = "none"
  <2>1. pc[c] = "new" \/ Working(c)
    BY DEF StartClient, StartFails, AskForTask, CommitTask, FinishWork
  <2>. QED
    BY <1>1, <2>1 DEF Working, PhaseOf, Idle
<1>4. PICK here, kind :
         /\ pc' = [pc EXCEPT ![c] = here]
         /\ call'[c].kind = kind
         /\ \A d \in Clients \ {c} : call'[d] = call[d]
         /\ \/ pc[c] = "new" /\ here = "joining" /\ kind = "join"
            \/ pc[c] = "new" /\ here = "ended" /\ kind = "none"
            \/ /\ pc[c] = "working" /\ here = "working" /\ kind = "get"
               /\ call'[c].task = NoTask /\ Cardinality(main_tasks_[c]) < MaxHeld
            \/ pc[c] = "working" /\ here = "working" /\ kind = "commit"
            \/ pc[c] = "working" /\ here = "quitting" /\ kind = "quit"
  <2>1. pc = [pc EXCEPT ![c] = pc[c]]
    BY <1>1
  <2>2. CASE StartClient(c)
    BY <1>1, <2>2 DEF StartClient, Call
  <2>3. CASE StartFails(c)
    BY <1>1, <1>3, <2>3 DEF StartFails
  <2>4. CASE AskForTask(c)
    BY <1>1, <2>1, <2>4 DEF AskForTask, Working, Call
  <2>5. CASE \E t \in main_tasks_[c], flush \in BOOLEAN : CommitTask(c, t, flush)
    BY <1>1, <2>1, <2>5 DEF CommitTask, Working, Call
  <2>6. CASE FinishWork(c)
    BY <1>1, <2>6 DEF FinishWork, Working, Call
  <2>. QED
    BY <2>2, <2>3, <2>4, <2>5, <2>6
<1>5. stop' \in [Clients -> 0 .. 2]
  <2>1. stop' = stop \/ stop' = [stop EXCEPT ![c] = 2]
    BY DEF StartClient, StartFails, AskForTask, CommitTask, FinishWork
  <2>. QED
    BY <1>1, <2>1
<1>6. pc' \in [Clients -> {"new", "joining", "working", "quitting", "ended"}] /\ pc'[c] = here
  BY <1>1, <1>4
<1>7. Typed'
  BY <1>2, <1>5, <1>6 DEF LeaseInv, Typed, registry, network
<1>8. StepOf(c)
  BY <1>1, <1>2, <1>4 DEF StepOf, network
<1>9. PhaseOf(c)'
  BY <1>1, <1>2, <1>4, <1>6 DEF PhaseOf, NoId
<1>10. ASSUME NEW r \in requests, r.client = c
       PROVE  StillTrue(r)
  <2>1. pc[c] # "new" /\ (r.lost # 0 \/ pc[c] = "ended") /\ r.at # "answered"
    BY <1>3, <1>10, IdleAwaitsNothing
  <2>. QED
    BY <1>2, <1>4, <1>6, <1>10, <2>1 DEF StillTrue, registry, network
<1>. QED
  BY <1>2, <1>4, <1>6, <1>7, <1>8, <1>9, <1>10, RequestsStay

LEMMA SignalsKeepLeases ==
    ASSUME SessionInv, LeaseInv, NEW c \in Clients, CatchCtrlC(c) \/ ctrlHandler(c)
    PROVE  LeaseInv'
<1>1. UNCHANGED <<registry, tasks_, g_isRunning, pc, g_clientId, call, main_tasks_, requests, network>>
  BY DEF CatchCtrlC, ctrlHandler
<1>2. stop' \in [Clients -> 0 .. 2]
  <2>1. stop \in [Clients -> 0 .. 2]
    BY DEF LeaseInv, Typed
  <2>2. CASE CatchCtrlC(c)
    BY <2>1, <2>2 DEF CatchCtrlC
  <2>3. CASE ctrlHandler(c)
    BY <2>1, <2>3 DEF ctrlHandler, Stops, Max2
  <2>. QED
    BY <2>2, <2>3
<1>3. Typed' /\ StepOf(c)
  BY <1>1, <1>2 DEF LeaseInv, Typed, StepOf, registry, network
<1>4. PhaseOf(c)'
  BY <1>1 DEF LeaseInv, Phases, PhaseOf
<1>5. ASSUME NEW r \in requests, r.client = c
      PROVE  StillTrue(r)
  <2>1. Told(r)
    BY DEF LeaseInv, AllTold
  <2>. QED
    BY <1>1, <2>1 DEF StillTrue, Told, registry, network
<1>. QED
  BY <1>1, <1>3, <1>4, <1>5, RequestsStay

(* A request starts with what its client is. *)
LEMMA SendKeepsLeases ==
    ASSUME SessionInv, LeaseInv, NEW c \in Clients, Send(c)
    PROVE  LeaseInv'
<1>1. PICK q : q = Request(c)
  OBVIOUS
<1>2. /\ UNCHANGED <<registry, tasks_, g_isRunning, pc, g_clientId, stop, main_tasks_, network>>
      /\ requests' = requests \cup {q}
      /\ Awaited(c) = {}
      /\ call[c] \in CallRecord
      /\ call' = [call EXCEPT ![c].tries = @ + 1]
  BY <1>1 DEF Send, SessionInv, Types
<1>3. /\ call'[c].kind = call[c].kind /\ call'[c].task = call[c].task
      /\ \A d \in Clients \ {c} : call'[d] = call[d]
  BY <1>2 DEF CallRecord, SessionInv, Types
<1>4. /\ q.client = c /\ q.kind = call[c].kind /\ q.id = g_clientId[c] /\ q.at = "sent" /\ q.lost = 0
      /\ q.task = call[c].task
  BY <1>1 DEF Request
<1>5. Typed' /\ StepOf(c)
  BY <1>2, <1>3, <1>4 DEF LeaseInv, Typed, StepOf, registry, network, BringsId
<1>6. PhaseOf(c)
  BY DEF LeaseInv, Phases
<1>7. PhaseOf(c)'
  BY <1>2, <1>3, <1>6 DEF PhaseOf
<1>8. Told(q)'
  <2>1. call[c].kind \in Kinds
    BY <1>2 DEF CallRecord
  <2>2. pc[c] \in {"joining", "working", "quitting"} /\ (pc[c] = "joining" => call[c].kind = "join")
    BY <1>6, <2>1 DEF PhaseOf, Kinds
  <2>3. call[c].kind # "join" => g_clientId[c] \in Nat
    BY <1>6, <2>1 DEF PhaseOf, Kinds
  <2>4. q.kind = "get" => q.task = NoTask
    BY <1>4, <1>6 DEF PhaseOf
  <2>. QED
    BY <1>2, <1>3, <1>4, <2>2, <2>3, <2>4 DEF Told, TaskOf
<1>9. \A r \in requests : r.client = c => r.lost # 0
  BY <1>2 DEF Awaited
<1>10. ASSUME NEW r \in requests, r.client = c
       PROVE  StillTrue(r)
  <2>1. Told(r)
    BY DEF LeaseInv, AllTold
  <2>. QED
    BY <1>2, <1>9, <1>10, <2>1 DEF StillTrue, Told, registry, network
<1>11. \A t \in DOMAIN tasks_ : Owns(t, c)' => InHand(t, c)'
  BY <1>2 DEF Owns, InHand, LeaseInv, Traced, registry, network
<1>12. KeepsItsOwn(c)
  BY <1>2, <1>7, <1>8, <1>9, <1>10, <1>11 DEF KeepsItsOwn
<1>. QED
  BY <1>5, <1>12, ClientKeepsLeases

(* Who gives up on an answer to a request for a task is unlucky; what else it *)
(* gives up brings no task.                                                 *)
LEMMA LosesKeepsLeases ==
    ASSUME SessionInv, LeaseInv, NEW c \in Clients, LosesAnswer(c)
    PROVE  LeaseInv'
<1>1. PICK r \in Awaited(c) :
         /\ requests' = (requests \ {r}) \cup
               IF r.at = "answered" THEN {} ELSE {[r EXCEPT !.lost = lost + 1]}
         /\ unlucky' = IF r.kind = "get" THEN unlucky \cup {c} ELSE unlucky
  BY DEF LosesAnswer
<1>2. /\ lost' = lost + 1 /\ lost < MaxLost /\ lost \in Nat
      /\ UNCHANGED <<registry, tasks_, g_isRunning, pc, g_clientId, stop, call, main_tasks_>>
  BY DEF LosesAnswer, client, SessionInv, Types
<1>3. r \in requests /\ r.client = c /\ r.lost = 0 /\ r \in RequestRecord /\ Told(r)
  BY <1>1 DEF Awaited, SessionInv, Types, LeaseInv, AllTold
<1>4. PICK q : q = [r EXCEPT !.lost = lost + 1]
  OBVIOUS
<1>5. /\ q.client = c /\ q.kind = r.kind /\ q.id = r.id /\ q.at = r.at /\ q.task = r.task /\ q.ret = r.ret
      /\ q.lost = lost + 1 /\ q.lost # 0
  BY <1>2, <1>3, <1>4 DEF RequestRecord
<1>6. /\ \A s \in requests' : (s \in requests /\ s # r) \/ (s = q /\ r.at # "answered")
      /\ \A s \in requests : s = r \/ s \in requests'
  BY <1>1, <1>4
<1>7. Typed'
  BY <1>1, <1>2, SessionAssumption DEF LeaseInv, Typed, registry
<1>8. StepOf(c)
  BY <1>1, <1>2, <1>3, <1>5, <1>6 DEF StepOf, BringsId
<1>9. PhaseOf(c)'
  BY <1>2 DEF LeaseInv, Phases, PhaseOf
<1>10. r.at # "answered" => Told(q)'
  BY <1>1, <1>2, <1>3, <1>5 DEF Told, TaskOf, registry
<1>11. ASSUME NEW s \in requests, s.client = c
       PROVE  StillTrue(s)
  <2>1. Told(s)
    BY DEF LeaseInv, AllTold
  <2>. QED
    BY <1>1, <1>2, <1>11, <2>1 DEF StillTrue, Told, registry
<1>12. \A t \in DOMAIN tasks_ : Owns(t, c)' => InHand(t, c)'
  <2>1. ASSUME NEW t \in DOMAIN tasks_, Owns(t, c)'
        PROVE  InHand(t, c)'
    <3>1. Owns(t, c) /\ r.kind # "get"
      BY <1>1, <1>2, <2>1 DEF Owns, registry
    <3>2. InHand(t, c)
      BY <3>1 DEF LeaseInv, Traced
    <3>. QED
      BY <1>2, <1>6, <3>1, <3>2 DEF InHand
  <2>. QED
    BY <2>1
<1>13. \A s, u \in requests' : s.client = c /\ u.client = c /\ s.lost = 0 /\ u.lost = 0 => s = u
  BY <1>5, <1>6 DEF LeaseInv, AwaitsOne
<1>14. KeepsItsOwn(c)
  BY <1>5, <1>6, <1>9, <1>10, <1>11, <1>12, <1>13 DEF KeepsItsOwn
<1>. QED
  BY <1>7, <1>8, <1>14, ClientKeepsLeases

(* The end of a process: nothing is owed to it. *)
LEMMA EndKeepsLeases ==
    ASSUME SessionInv, LeaseInv, NEW c \in Clients, Ends(c), g_clientId[c] \in Nat \cup {NoId},
           call' = [call EXCEPT ![c] = Idle],
           pc[c] # "new",
           UNCHANGED <<registry, tasks_, g_isRunning, network>>,
           \A r \in requests : r.client # c => r \in requests',
           \A r \in requests' : r \in requests /\ (r.client = c => r.at # "answered")
    PROVE  LeaseInv'
<1>1. /\ pc \in [Clients -> {"new", "joining", "working", "quitting", "ended"}]
      /\ stop \in [Clients -> 0 .. 2]
      /\ call \in [Clients -> CallRecord \cup {Idle}]
      /\ main_tasks_ \in [Clients -> SUBSET (Tasks \cup {NoTask})]
  BY DEF LeaseInv, Typed, SessionInv, Types
<1>2. /\ pc' = [pc EXCEPT ![c] = "ended"] /\ stop' = [stop EXCEPT ![c] = 0]
      /\ main_tasks_' = [main_tasks_ EXCEPT ![c] = {}] /\ g_clientId' = g_clientId
  BY DEF Ends
<1>3. /\ pc'[c] = "ended" /\ call'[c].kind = "none" /\ main_tasks_'[c] = {}
      /\ pc' \in [Clients -> {"new", "joining", "working", "quitting", "ended"}]
      /\ stop' \in [Clients -> 0 .. 2]
  BY <1>1, <1>2 DEF Idle
<1>4. Typed' /\ StepOf(c)
  BY <1>1, <1>2, <1>3 DEF LeaseInv, Typed, StepOf, registry, network
<1>5. PhaseOf(c)'
  <2>1. IsFiniteSet(main_tasks_'[c]) /\ Cardinality(main_tasks_'[c]) = 0 /\ main_tasks_'[c] \subseteq Tasks
    BY <1>3, FS_EmptySet
  <2>2. 0 <= MaxHeld
    BY SessionAssumption
  <2>. QED
    BY <1>2, <1>3, <2>1, <2>2 DEF PhaseOf
<1>6. ASSUME NEW r \in requests', r.client = c
      PROVE  r \in requests /\ StillTrue(r)
  <2>1. r \in requests /\ Told(r) /\ r.at # "answered"
    BY <1>6 DEF LeaseInv, AllTold
  <2>. QED
    BY <1>2, <1>3, <1>6, <2>1 DEF StillTrue, Told, registry, network
<1>7. KeepsItsOwn(c)
  BY <1>3, <1>5, <1>6 DEF KeepsItsOwn, Owns, LeaseInv, AwaitsOne
<1>. QED
  BY <1>4, <1>7, ClientKeepsLeases

LEMMA ReceiveKeepsLeases ==
    ASSUME SessionInv, LeaseInv, NEW c \in Clients, ReceiveAnswer(c)
    PROVE  LeaseInv'
<1>1. PICK r \in Awaited(c) :
        /\ r.at = "answered"
        /\ requests' = requests \ {r}
        /\ UNCHANGED <<registry, tasks_, g_isRunning, network>>
        /\ \/ r.ret \in {"no task", "disconnect"} /\ UNCHANGED client
           \/ /\ r.ret \notin {"no task", "disconnect"}
              /\ call' = [call EXCEPT ![c] = Idle]
              /\ \/ r.kind = "join" /\ r.ret = "ok" /\ Joined(c, r)
                 \/ Ends(c)
                 \/ r.kind = "get" /\ r.ret = "ok" /\ GotTask(c, r)
                 \/ /\ r.kind = "get" /\ r.ret = "stopped"
                    /\ Stops(c, 1) /\ UNCHANGED <<pc, g_clientId, main_tasks_>>
                 \/ r.kind = "commit" /\ Committed(c, r)
  BY DEF ReceiveAnswer, EndCall
<1>2. /\ r \in requests /\ r.client = c /\ r.lost = 0 /\ r \in RequestRecord /\ Told(r)
      /\ pc[c] # "ended" /\ r.kind = call[c].kind
  BY <1>1 DEF Awaited, SessionInv, Types, LeaseInv, AllTold, Told
<1>3. PhaseOf(c)
  BY DEF LeaseInv, Phases
<1>4. /\ pc \in [Clients -> {"new", "joining", "working", "quitting", "ended"}]
      /\ stop \in [Clients -> 0 .. 2]
      /\ call \in [Clients -> CallRecord \cup {Idle}]
      /\ main_tasks_ \in [Clients -> SUBSET (Tasks \cup {NoTask})]
      /\ g_clientId \in [Clients -> Int]
  BY DEF LeaseInv, Typed, SessionInv, Types
<1>5. \A s \in requests' : s \in requests /\ s \in RequestRecord /\ Told(s)
  BY <1>1 DEF SessionInv, Types, LeaseInv, AllTold
<1>6. \A s \in requests' : s.client = c => s.lost # 0 /\ s.at # "answered"
  BY <1>1, <1>2, <1>5 DEF LeaseInv, AwaitsOne, Told
<1>7. \A s \in requests : s.client = c /\ s.lost = 0 => s = r
  BY <1>2 DEF LeaseInv, AwaitsOne
<1>8. CASE r.ret \in {"no task", "disconnect"} /\ UNCHANGED client
  <2>1. UNCHANGED <<pc, g_clientId, stop, call, main_tasks_>>
    BY <1>8 DEF client
  <2>2. Typed' /\ StepOf(c) /\ PhaseOf(c)'
    BY <1>1, <1>2, <1>3, <2>1 DEF LeaseInv, Typed, StepOf, PhaseOf, registry, network
  <2>3. ASSUME NEW s \in requests', s.client = c
        PROVE  s \in requests /\ StillTrue(s)
    BY <1>1, <1>5, <2>1, <2>3 DEF StillTrue, Told, registry, network
  <2>4. ASSUME NEW t \in DOMAIN tasks_, Owns(t, c)'
        PROVE  InHand(t, c)'
    <3>1. Owns(t, c) /\ t # NoTask
      BY <1>1, <2>1, <2>4, SessionAssumption DEF Owns, LeaseInv, LeasesTyped, registry, network
    <3>2. InHand(t, c)
      BY <3>1 DEF LeaseInv, Traced
    <3>3. ~ (r.kind = "get" /\ r.task = t)
      BY <1>1, <1>2, <1>8, <3>1 DEF Told, TaskOf, Owns
    <3>. QED
      BY <1>1, <1>7, <2>1, <3>2, <3>3 DEF InHand
  <2>5. KeepsItsOwn(c)
    BY <1>6, <2>2, <2>3, <2>4 DEF KeepsItsOwn
  <2>. QED
    BY <2>2, <2>5, ClientKeepsLeases
<1>9. CASE Ends(c) /\ call' = [call EXCEPT ![c] = Idle]
  <2>1. g_clientId[c] \in Nat \cup {NoId} /\ pc[c] # "new"
    BY <1>2, <1>3 DEF PhaseOf, Told
  <2>. QED
    BY <1>1, <1>2, <1>5, <1>6, <1>9, <2>1, EndKeepsLeases
<1>10. CASE /\ call' = [call EXCEPT ![c] = Idle]
            /\ r.ret \notin {"no task", "disconnect"}
            /\ \/ r.kind = "join" /\ r.ret = "ok" /\ Joined(c, r)
               \/ r.kind = "get" /\ r.ret = "ok" /\ GotTask(c, r)
               \/ /\ r.kind = "get" /\ r.ret = "stopped"
                  /\ Stops(c, 1) /\ UNCHANGED <<pc, g_clientId, main_tasks_>>
               \/ r.kind = "commit" /\ Committed(c, r)
  <2>1. call'[c].kind = "none" /\ \A d \in Clients \ {c} : call'[d] = call[d]
    BY <1>4, <1>10 DEF Idle
  <2>2. stop' \in [Clients -> 0 .. 2]
    <3>1. \A mode \in 0 .. 2 : Stops(c, mode) => stop' \in [Clients -> 0 .. 2]
      BY <1>4 DEF Stops, Max2
    <3>2. StopMode(r.ret) \in 0 .. 2
      <4>1. StopMode(r.ret) \in {0, 1, 2}
        BY DEF StopMode
      <4>. QED
        BY <4>1
    <3>. QED
      <4>1. UNCHANGED stop \/ Stops(c, 1) \/ Stops(c, StopMode(r.ret))
        BY <1>10 DEF Joined, GotTask, Committed
      <4>. QED
        BY <1>4, <3>1, <3>2, <4>1
  <2>3. /\ pc'[c] = "working" /\ \A d \in Clients \ {c} : pc'[d] = pc[d]
        /\ pc' \in [Clients -> {"new", "joining", "working", "quitting", "ended"}]
    <3>1. r.kind # "join" => pc[c] = "working" /\ UNCHANGED pc
      BY <1>2, <1>3, <1>10 DEF PhaseOf, GotTask, Committed
    <3>2. r.kind = "join" => pc' = [pc EXCEPT ![c] = "working"]
      BY <1>10 DEF Joined
    <3>. QED
      BY <1>4, <3>1, <3>2
  <2>4. /\ g_clientId'[c] \in Nat
        /\ \A d \in Clients \ {c} : g_clientId'[d] = g_clientId[d]
        /\ r.kind # "join" => g_clientId'[c] = g_clientId[c] /\ g_clientId[c] = r.id
        /\ r.kind = "join" => g_clientId'[c] = r.id /\ BringsId(r) /\ pc[c] = "joining"
    <3>1. CASE r.kind # "join"
      BY <1>2, <1>3, <1>10, <3>1 DEF PhaseOf, GotTask, Committed, Told
    <3>2. CASE r.kind = "join"
      <4>1. g_clientId' = [g_clientId EXCEPT ![c] = r.id] /\ BringsId(r) /\ pc[c] = "joining"
        BY <1>1, <1>2, <1>3, <1>10, <3>2 DEF Joined, BringsId, PhaseOf
      <4>2. r.id \in Nat
        BY <1>2, <4>1 DEF SessionInv, OneOwner
      <4>. QED
        BY <1>4, <3>2, <4>1, <4>2
    <3>. QED
      BY <3>1, <3>2
  <2>5. /\ main_tasks_'[c] = CASE r.kind = "get" /\ r.ret = "ok" -> main_tasks_[c] \cup {r.task}
                               [] r.kind = "commit" -> main_tasks_[c] \ {r.task}
                               [] OTHER -> main_tasks_[c]
        /\ \A d \in Clients \ {c} : main_tasks_'[d] = main_tasks_[d]
    BY <1>4, <1>10 DEF Joined, GotTask, Keeps, Committed
  <2>6. Typed'
    BY <1>1, <2>2, <2>3 DEF LeaseInv, Typed, registry, network
  <2>7. StepOf(c)
    BY <1>1, <1>2, <2>1, <2>3, <2>4, <2>5 DEF StepOf, network
  <2>8. PhaseOf(c)'
    <3>1. /\ main_tasks_'[c] \subseteq Tasks /\ IsFiniteSet(main_tasks_'[c])
          /\ Cardinality(main_tasks_'[c]) <= MaxHeld
      <4>1. CASE r.kind = "get" /\ r.ret = "ok"
        <5>1. r.task \in Tasks /\ IsFiniteSet(main_tasks_[c]) /\ Cardinality(main_tasks_[c]) < MaxHeld
          BY <1>1, <1>2, <1>3, <4>1 DEF Told, TaskOf, PhaseOf
        <5>2. IsFiniteSet(main_tasks_[c] \cup {r.task}) /\ Cardinality(main_tasks_[c]) \in Nat
              /\ Cardinality(main_tasks_[c] \cup {r.task}) <= Cardinality(main_tasks_[c]) + 1
          <6>1. /\ IsFiniteSet(main_tasks_[c] \cup {r.task})
                /\ Cardinality(main_tasks_[c] \cup {r.task})
                     = IF r.task \in main_tasks_[c] THEN Cardinality(main_tasks_[c])
                                                   ELSE Cardinality(main_tasks_[c]) + 1
            BY <5>1, FS_AddElement
          <6>2. Cardinality(main_tasks_[c]) \in Nat
            BY <5>1, FS_CardinalityType
          <6>. QED
            BY <6>1, <6>2
        <5>3. Cardinality(main_tasks_[c] \cup {r.task}) <= MaxHeld
          <6>1. Cardinality(main_tasks_[c] \cup {r.task}) \in Nat
            BY <5>2, FS_CardinalityType
          <6>. QED
            BY <5>1, <5>2, <6>1, SessionAssumption
        <5>. QED
          BY <1>3, <2>5, <4>1, <5>1, <5>2, <5>3 DEF PhaseOf
      <4>2. CASE r.kind = "commit"
        <5>1. IsFiniteSet(main_tasks_[c] \ {r.task})
              /\ Cardinality(main_tasks_[c] \ {r.task}) <= Cardinality(main_tasks_[c])
          BY <1>3, FS_Subset DEF PhaseOf
        <5>2. Cardinality(main_tasks_[c] \ {r.task}) \in Nat /\ Cardinality(main_tasks_[c]) \in Nat
          BY <1>3, <5>1, FS_CardinalityType DEF PhaseOf
        <5>. QED
          BY <1>3, <2>5, <4>2, <5>1, <5>2, SessionAssumption DEF PhaseOf
      <4>3. CASE ~ (r.kind = "get" /\ r.ret = "ok") /\ r.kind # "commit"
        BY <1>3, <2>5, <4>3 DEF PhaseOf
      <4>. QED
        BY <4>1, <4>2, <4>3
    <3>. QED
      BY <2>1, <2>3, <2>4, <3>1 DEF PhaseOf
  <2>9. ASSUME NEW s \in requests', s.client = c
        PROVE  s \in requests /\ StillTrue(s)
    <3>1. s.kind # "join" => g_clientId'[c] = g_clientId[c]
      BY <1>5, <2>4, <2>9 DEF Told
    <3>. QED
      BY <1>1, <1>5, <1>6, <2>3, <2>9, <3>1 DEF StillTrue, registry, network
  <2>10. ASSUME NEW t \in DOMAIN tasks_, Owns(t, c)'
         PROVE  InHand(t, c)'
    <3>1. /\ tasks_[t] = g_clientId'[c] /\ c \notin unlucky /\ g_clientId'[c] \in DOMAIN clients_
          /\ t \in Tasks /\ t # NoTask
      BY <1>1, <2>10, SessionAssumption DEF Owns, LeaseInv, LeasesTyped, registry, network
    <3>2. CASE r.kind = "join"
      BY <1>2, <2>4, <3>1, <3>2 DEF LeaseInv, LeasesTyped
    <3>3. CASE r.kind # "join"
      <4>1. Owns(t, c)
        <5>1. call[c].kind \in {"get", "commit"}
          BY <1>2, <1>10, <3>3
        <5>2. pc[c] = "working"
          BY <1>3, <5>1 DEF PhaseOf
        <5>. QED
          BY <2>4, <3>1, <3>3, <5>2 DEF Owns
      <4>2. t \in main_tasks_[c] \/ (r.kind = "get" /\ r.task = t)
        BY <1>7, <4>1 DEF LeaseInv, Traced, InHand
      <4>3. r.kind = "commit" => t # r.task
        BY <1>1, <1>2, <2>4, <3>1, <3>3 DEF Told
      <4>4. r.kind = "get" /\ r.task = t => r.ret = "ok"
        BY <1>1, <1>2, <1>10, <3>1 DEF Told, TaskOf
      <4>. QED
        BY <2>5, <4>2, <4>3, <4>4 DEF InHand
    <3>. QED
      BY <3>2, <3>3
  <2>11. KeepsItsOwn(c)
    BY <1>6, <2>8, <2>9, <2>10 DEF KeepsItsOwn
  <2>. QED
    BY <2>6, <2>7, <2>11, ClientKeepsLeases
<1>. QED
  BY <1>1, <1>8, <1>9, <1>10

LEMMA ExhaustedKeepsLeases ==
    ASSUME SessionInv, LeaseInv, NEW c \in Clients, TriesExhausted(c)
    PROVE  LeaseInv'
<1>1. /\ call[c] # Idle /\ call' = [call EXCEPT ![c] = Idle]
      /\ Awaited(c) = {}
      /\ UNCHANGED <<registry, tasks_, g_isRunning, network, requests>>
      /\ \/ Ends(c)
         \/ /\ call[c].kind \in {"get", "commit"}
            /\ \E mode \in 0 .. 2 : Stops(c, mode)
            /\ UNCHANGED <<pc, g_clientId, main_tasks_>>
  BY DEF TriesExhausted, EndCall
<1>2. PhaseOf(c) /\ call[c] \in CallRecord /\ call \in [Clients -> CallRecord \cup {Idle}]
  BY <1>1 DEF LeaseInv, Phases, SessionInv, Types
<1>3. call[c].kind # "none" /\ call'[c].kind = "none"
  BY <1>1, <1>2 DEF CallRecord, Kinds, Idle
<1>4. \A r \in requests : r.client = c => Told(r) /\ r.lost # 0 /\ r.at # "answered"
  BY <1>1 DEF Awaited, LeaseInv, AllTold, Told
<1>5. CASE Ends(c)
  <2>1. g_clientId[c] \in Nat \cup {NoId} /\ pc[c] # "new"
    BY <1>2, <1>3 DEF PhaseOf
  <2>. QED
    BY <1>1, <1>4, <1>5, <2>1, EndKeepsLeases
<1>6. CASE /\ call[c].kind \in {"get", "commit"}
           /\ \E mode \in 0 .. 2 : Stops(c, mode)
           /\ UNCHANGED <<pc, g_clientId, main_tasks_>>
  <2>1. stop' \in [Clients -> 0 .. 2]
    BY <1>6 DEF Stops, Max2, LeaseInv, Typed
  <2>2. Typed'
    BY <1>1, <1>6, <2>1 DEF LeaseInv, Typed, registry, network
  <2>3. StepOf(c)
    BY <1>1, <1>2, <1>6 DEF StepOf, network
  <2>4. PhaseOf(c)'
    BY <1>2, <1>3, <1>6 DEF PhaseOf
  <2>5. ASSUME NEW r \in requests, r.client = c
        PROVE  StillTrue(r)
    BY <1>1, <1>4, <1>6, <2>5 DEF StillTrue, Told, registry, network
  <2>. QED
    BY <1>1, <1>6, <2>2, <2>3, <2>4, <2>5, RequestsStay
<1>. QED
  BY <1>1, <1>5, <1>6

LEMMA DieKeepsLeases ==
    ASSUME SessionInv, LeaseInv, NEW c \in Clients, Die(c)
    PROVE  LeaseInv'
<1>1. /\ pc[c] # "new" /\ Ends(c) /\ call' = [call EXCEPT ![c] = Idle]
      /\ UNCHANGED <<registry, tasks_, g_isRunning, network>>
      /\ \A r \in requests : r.client # c => r \in requests'
      /\ \A r \in requests' : r \in requests /\ (r.client = c => r.at # "answered")
  BY DEF Die
<1>2. g_clientId[c] \in Nat \cup {NoId}
  BY DEF LeaseInv, Phases, PhaseOf
<1>. QED
  BY <1>1, <1>2, EndKeepsLeases
-----------------------------------------------------------------------------
LEMMA LeaseInvHolds == Spec => []LeaseInv
<1>1. SessionInv /\ LeaseInv /\ [Next]_vars => LeaseInv'
  <2>. SUFFICES ASSUME SessionInv, LeaseInv, [Next]_vars
       PROVE  LeaseInv'
    OBVIOUS
  <2>1. CASE \E c \in Clients : HandlesOf(c)
    BY <2>1, JoinKeepsLeases, QuitKeepsLeases, GetKeepsLeases, GetAnswerKeepsLeases, CommitKeepsLeases
       DEF HandlesOf, Handles
  <2>2. CASE \E c \in Clients : StartClient(c) \/ StartFails(c)
    BY <2>2, LoopsKeepLeases
  <2>3. ASSUME NEW c \in Clients, Step(c)
        PROVE  LeaseInv'
    BY <2>3, LoopsKeepLeases, SendKeepsLeases, ReceiveKeepsLeases, ExhaustedKeepsLeases DEF Step
  <2>4. CASE \E c \in Clients : LosesAnswer(c) \/ CatchCtrlC(c) \/ ctrlHandler(c) \/ Die(c)
    BY <2>4, LosesKeepsLeases, SignalsKeepLeases, DieKeepsLeases
  <2>5. CASE \/ \E id \in Ids : Lapse(id) \/ \E mode \in QuitModes : notifyClientToQuit(id, mode)
             \/ backgroundThread
             \/ StartOrStop
    BY <2>5, ServerKeepsLeases
  <2>6. CASE UNCHANGED vars
    <3>1. Typed' /\ Phases' /\ AwaitsOne' /\ LeasesTyped'
      BY <2>6 DEF vars, registry, client, network, LeaseInv, Typed, Phases, PhaseOf, AwaitsOne,
                  LeasesTyped, BringsId
    <3>2. UNCHANGED <<clients_, tasks_, pc, g_clientId, call, main_tasks_, requests, unlucky>>
      BY <2>6 DEF vars, registry, client, network
    <3>3. AllTold'
      BY <3>2 DEF LeaseInv, AllTold, Told, TaskOf
    <3>4. Traced'
      BY <3>2 DEF LeaseInv, Traced, Owns, InHand
    <3>. QED
      BY <3>1, <3>3, <3>4 DEF LeaseInv
  <2>. QED
    BY <2>1, <2>2, <2>3, <2>4, <2>5, <2>6 DEF Next
<1>. QED
  BY <1>1, InitLeases, SessionInvHolds, PTL DEF Spec

(* The server leases a task before it looks whether it knows the client, and *)
(* answers and requests may be late or lost.  Even so a task that is leased to *)
(* a listed client at work is in its hands, or in an answer to it, unless the *)
(* client gave up on an answer before.                                      *)
THEOREM TasksAreNotLeaked == Spec => []LeaksHaveACause
<1>1. SessionInv /\ LeaseInv => LeaksHaveACause
  <2>. SUFFICES ASSUME SessionInv, LeaseInv
       PROVE  LeaksHaveACause
    OBVIOUS
  <2>1. \A c \in Clients : Cardinality(Awaited(c)) <= 1
    <3>1. ASSUME NEW c \in Clients
          PROVE  Cardinality(Awaited(c)) <= 1
      <4>1. CASE Awaited(c) = {}
        BY <4>1, FS_EmptySet
      <4>2. CASE Awaited(c) # {}
        <5>1. PICK r : r \in Awaited(c)
          BY <4>2
        <5>2. Awaited(c) = {r}
          BY <5>1 DEF Awaited, LeaseInv, AwaitsOne
        <5>3. Cardinality({r}) = 1
          BY FS_Singleton
        <5>. QED
          BY <5>2, <5>3
      <4>. QED
        BY <4>1, <4>2
    <3>. QED
      BY <3>1
  <2>2. /\ current_client_id_ \in 0 .. MaxClientIds /\ lost \in 0 .. MaxLost
        /\ \A id \in DOMAIN clients_ : clients_[id] \in 0 .. 2
    BY SessionAssumption DEF SessionInv, Types, LeaseInv, Typed
  <2>3. g_clientId \in [Clients -> 0 .. current_client_id_ - 1 \cup {NoId}]
    <3>1. \A c \in Clients : g_clientId[c] \in Nat \cup {NoId}
      BY DEF LeaseInv, Phases, PhaseOf
    <3>2. \A c \in Clients : g_clientId[c] = NoId \/ g_clientId[c] < current_client_id_
      BY DEF SessionInv, OneOwner
    <3>. QED
      BY <3>1, <3>2 DEF SessionInv, Types
  <2>4. TypeOK
    BY <2>1, <2>2, <2>3 DEF TypeOK, LeaseInv, Typed, Phases, PhaseOf, LeasesTyped
  <2>5. ASSUME NEW c \in Clients, NEW t \in DOMAIN tasks_, Owns(t, c)
        PROVE  t \in main_tasks_[c] \/ \E r \in Awaited(c) : r.task = t
    <3>1. InHand(t, c)
      BY <2>5 DEF LeaseInv, Traced
    <3>. QED
      BY <3>1 DEF InHand, Awaited
  <2>. QED
    BY <2>4, <2>5 DEF LeaksHaveACause, Owns
<1>. QED
  BY <1>1, SessionInvHolds, LeaseInvHolds, PTL
=============================================================================
