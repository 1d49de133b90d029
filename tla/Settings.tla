------------------------------- MODULE Settings -------------------------------
(***************************************************************************)
(* The settings: a console sends a section it has in its form, the server   *)
(* checks it, uses it and writes all sections to config/config.json, from   *)
(* which it starts again, and clients get theirs with every task.           *)
(*                                                                         *)
(* The server takes no locks here: handlers of several requests interleave. *)
(* A section is abstracted to what is told apart: values, a Bad one that     *)
(* isValid refuses, the table of pauses of a client, and the part of the     *)
(* server's settings that its form does not have (with the password).       *)
(***************************************************************************)
EXTENDS Integers, FiniteSets, Sequences, Functions, FiniteSetsExt

CONSTANTS
    Consoles,       \* administrators' windows
    Workers,        \* crawling clients
    Handlers,       \* threads of the http server
    Bad,            \* a value that isValid refuses
    First,          \* the settings in the file at the beginning
    Forms,          \* what can be asked for: functions from sections to values
    Tries,          \* how often a console repeats a request
    MaxRequests     \* bound: requests of all consoles

(* f's entries, and those that only g has. *)
Over(f, g) == [s \in DOMAIN f \cup DOMAIN g |-> IF s \in DOMAIN f THEN f[s] ELSE g[s]]

Password == First["server"].fixed

isValid(section, value) ==
    IF section \in {"client", "server"} THEN value.limits # Bad ELSE value # Bad

(* An empty table is written as null, which is read as a missing one.      *)
Null == <<"null">>

toJson(section, value) ==
    IF section = "client" /\ value.pauses = <<>> THEN [value EXCEPT !.pauses = Null]
                                                 ELSE value

parseFromJson(section, value) == section = "client" => value.pauses # Null

Sections == {"client", "database", "proxy", "server"}
Accepted(settings) ==
    \A s \in DOMAIN settings : parseFromJson(s, settings[s]) /\ isValid(s, settings[s])

ASSUME SettingsAssumption ==
    /\ First = [s \in Sections |-> First[s]] /\ Accepted(First)
    /\ First["client"].pauses # <<>>
    /\ \A form \in Forms :
          /\ DOMAIN form \subseteq Sections /\ DOMAIN form # {}
          /\ "client" \in DOMAIN form => DOMAIN form["client"] = {"limits", "pauses"}
    /\ Tries \in Nat \ {0} /\ MaxRequests \in Nat

VARIABLES
    up, memory,     \* the server runs (and is started), its g_clientConfig etc.
    file,           \* config.json
    handler,        \* what each thread does
    network,        \* requests on their way
    known,          \* the g_clientConfig etc. of each console, or nothing
    sent,           \* what each console is waiting for
    worker,         \* the g_clientConfig of each client
    answer,         \* the settings that came with a task
    excused,        \* history: handlers raced, or the file could not be opened
    killed,         \* history: the server was killed while it wrote
    doubts          \* history: sections that may have been changed since

server == <<up, memory, file, handler, killed>>
consoles == <<known, sent, network, doubts>>
workers == <<worker, answer>>
vars == <<server, consoles, workers, excused>>

Emptied == <<>>
Idle == [at |-> "idle"]
Nothing == [status |-> "none", ask |-> <<>>, try |-> 0, left |-> 0]
Disconnected == <<>>

Init ==
    /\ up = TRUE
    /\ memory = First
    /\ file = First
    /\ handler = [h \in Handlers |-> Idle]
    /\ network = {}
    /\ known = [c \in Consoles |-> Disconnected]
    /\ sent = [c \in Consoles |-> Nothing]
    /\ worker = [w \in Workers |-> Disconnected]
    /\ answer = [w \in Workers |-> Disconnected]
    /\ excused = FALSE
    /\ killed = FALSE
    /\ doubts = [c \in Consoles |-> {}]
-----------------------------------------------------------------------------
(* The consoles. *)

Active == {h \in Handlers : handler[h] # Idle}
UnderWay == network \cup {handler[h].request : h \in Active}
Unsettled(requests) == UNION {DOMAIN r.ask : r \in requests}

(* The consoles know the first password. *)
checkPassword == memory["server"].fixed = Password
config_advance_get == up /\ checkPassword

Written(form) == [s \in DOMAIN form |-> toJson(s, form[s])]

(* The console has a copy of this code, and leaves the values unchecked.     *)
Understands(section, value) == parseFromJson(section, value)
g_parse_from_json(text) == \A s \in Sections : s \in DOMAIN text /\ Understands(s, text[s])

api_get_advance_config == config_advance_get /\ g_parse_from_json(Written(memory))

(* onConnect asks for all settings. *)
getAllConfig(c) ==
    /\ api_get_advance_config
    /\ sent[c].status = "none"
    /\ known' = [known EXCEPT ![c] = memory]
    /\ doubts' = [doubts EXCEPT ![c] = Unsettled(UnderWay)]
    /\ UNCHANGED <<server, sent, network, workers, excused>>

(* left: how often it may still be repeated; try tells the requests apart.  *)
Sends(c, ask, left) ==
    LET try == sent[c].try + 1
    IN /\ FoldFunction(+, 0, [d \in Consoles |-> sent[d].try]) < MaxRequests
       /\ sent' = [sent EXCEPT ![c] =
                      [status |-> "waiting", ask |-> ask, try |-> try, left |-> left]]
       /\ network' = IF up THEN network \cup {[from |-> c, ask |-> ask, try |-> try]}
                           ELSE network
       /\ doubts' = [d \in Consoles |-> doubts[d] \cup DOMAIN ask]

api_set_advance_config(c, form) == Sends(c, Written(form), Tries - 1)

(* onSetClientConfig and its like. *)
onSetConfig(c, form) ==
    /\ known[c] # Disconnected
    /\ sent[c].status = "none"
    /\ api_set_advance_config(c, form)
    /\ UNCHANGED <<server, known, workers, excused>>

(* A refusal, or no answer within 2 s. *)
TriesAgain(c) ==
    /\ sent[c].status \in {"waiting", "refused"}
    /\ \/ sent[c].left > 0 /\ Sends(c, sent[c].ask, sent[c].left - 1)
       \/ /\ sent[c].left = 0
          /\ sent' = [sent EXCEPT ![c].status = "none"]
          /\ UNCHANGED <<network, doubts>>
    /\ UNCHANGED <<server, known, workers, excused>>

Shown(section, value) == IF section = "server" THEN value.limits ELSE value

(* The console takes over what it asked for; an answer that comes after the *)
(* console gave up its request is not heard.                               *)
Waits(r) == sent[r.from].status = "waiting" /\ sent[r.from].try = r.try

Told(r, requests) ==
    IF Waits(r)
      THEN /\ sent' = [sent EXCEPT ![r.from].status = "none"]
           /\ known' = [known EXCEPT ![r.from] = Over(r.ask, @)]
           /\ doubts' = [doubts EXCEPT ![r.from] =
                            (@ \ DOMAIN r.ask) \cup Unsettled(requests)]
      ELSE UNCHANGED <<sent, known, doubts>>

Refused(r) ==
    sent' = IF Waits(r) THEN [sent EXCEPT ![r.from].status = "refused"] ELSE sent
-----------------------------------------------------------------------------
(* The handlers. *)

(* config_server_set starts from a copy of the settings it has. *)
Completed(ask) ==
    [s \in DOMAIN ask |->
        IF s = "server" /\ "fixed" \notin DOMAIN ask[s]
          THEN [fixed |-> memory[s].fixed, limits |-> ask[s].limits] ELSE ask[s]]

(* Mutant of Accepts: a section is not checked before it is used. *)
AcceptsAll(ask) == TRUE

Accepts(ask) == checkPassword /\ Accepted(ask)

Races(r) == \E h \in Active : handler[h].request.ask # r.ask

config_set(h, r) ==
    /\ up
    /\ handler[h] = Idle
    /\ network' = network \ {r}
    /\ IF Accepts(r.ask)
         THEN /\ handler' = [handler EXCEPT ![h] =
                    [at |-> "assign", request |-> r, values |-> Completed(r.ask), text |-> <<>>]]
              /\ excused' = (excused \/ Races(r))
              /\ UNCHANGED sent
         ELSE Refused(r) /\ UNCHANGED <<handler, excused>>
    /\ UNCHANGED <<up, memory, file, killed, known, doubts, workers>>

AssignOrder == <<"client", "database", "proxy", "server">>
WriteOrder == <<"database", "client", "proxy", "server">>
NextOf(order, done, wanted) ==
    order[CHOOSE i \in DOMAIN order : /\ order[i] \in wanted \ done
                                      /\ \A j \in 1 .. i - 1 : order[j] \notin wanted \ done]

(* Mutant of AfterAssign: the file is left as it is. *)
NotWritten == "done"
AfterAssign == "open"

(* The next section is replaced; config_advance_set has all of them.       *)
Assigns(h) ==
    /\ handler[h].at = "assign"
    /\ LET s == NextOf(AssignOrder, {}, DOMAIN handler[h].values)
           rest == DOMAIN handler[h].values \ {s}
       IN /\ memory' = [memory EXCEPT ![s] = handler[h].values[s]]
          /\ handler' = [handler EXCEPT ![h].values = [t \in rest |-> @[t]],
                                        ![h].at = IF rest = {} THEN AfterAssign ELSE "assign"]
    /\ UNCHANGED <<up, file, killed, consoles, workers, excused>>

(* g_write_config empties the file, reads the sections one by one, and       *)
(* writes them.  Its failure is not looked at.                             *)
Opens(h) ==
    /\ handler[h].at = "open"
    /\ \/ file' = Emptied /\ handler' = [handler EXCEPT ![h].at = "write"] /\ UNCHANGED excused
       \/ excused' = TRUE /\ handler' = [handler EXCEPT ![h].at = "done"] /\ UNCHANGED file
    /\ UNCHANGED <<up, memory, killed, consoles, workers>>

Reads(h) ==
    /\ handler[h].at = "write"
    /\ DOMAIN handler[h].text # Sections
    /\ LET s == NextOf(WriteOrder, DOMAIN handler[h].text, Sections)
       IN handler' = [handler EXCEPT ![h].text = Over([t \in {s} |-> toJson(t, memory[t])], @)]
    /\ UNCHANGED <<up, memory, file, killed, consoles, workers, excused>>

Writes(h) ==
    /\ handler[h].at = "write"
    /\ DOMAIN handler[h].text = Sections
    /\ file' = handler[h].text
    /\ handler' = [handler EXCEPT ![h].at = "done"]
    /\ UNCHANGED <<up, memory, killed, consoles, workers, excused>>

Returns(h) ==
    /\ handler[h].at = "done"
    /\ Told(handler[h].request, network \cup {handler[g].request : g \in Active \ {h}})
    /\ handler' = [handler EXCEPT ![h] = Idle]
    /\ UNCHANGED <<up, memory, file, killed, network, workers, excused>>
-----------------------------------------------------------------------------
(* The process. *)

Killed ==
    /\ up
    /\ up' = FALSE
    /\ killed' = (file = Emptied)
    /\ handler' = [h \in Handlers |-> Idle]
    /\ network' = {}
    /\ UNCHANGED <<memory, file, known, sent, doubts, workers, excused>>

(* If it fails, main returns. *)
g_read_config ==
    /\ ~up
    /\ DOMAIN file = Sections
    /\ Accepted(file)
    /\ up' = TRUE
    /\ memory' = file
    /\ UNCHANGED <<file, handler, killed, consoles, workers, excused>>
-----------------------------------------------------------------------------
(* The clients, with what api_get_task and api_commit_task bring.           *)

connectToServer(w) ==
    /\ up
    /\ worker[w] = Disconnected
    /\ worker' = [worker EXCEPT ![w] = memory["client"]]
    /\ UNCHANGED <<server, consoles, answer, excused>>

task_get(w) ==
    /\ up
    /\ worker[w] # Disconnected
    /\ answer[w] = Disconnected
    /\ answer' = [answer EXCEPT ![w] = memory["client"]]
    /\ UNCHANGED <<server, consoles, worker, excused>>

(* Mutant of Parsed: what the client has is kept. *)
ParsedFirst(old, new) == [limits |-> old.limits, pauses |-> Over(old.pauses, new.pauses)]

(* The settings in use are overwritten, but for the table of pauses, which   *)
(* is only added to.                                                       *)
Parsed(old, new) == [limits |-> new.limits, pauses |-> Over(old.pauses, new.pauses)]

Heard(w) ==
    /\ answer[w] # Disconnected
    /\ answer' = [answer EXCEPT ![w] = Disconnected]
    /\ worker' = [worker EXCEPT ![w] = Parsed(@, answer[w])]
    /\ UNCHANGED <<server, consoles, excused>>

LosesAnswer(w) ==
    /\ answer[w] # Disconnected
    /\ answer' = [answer EXCEPT ![w] = Disconnected]
    /\ UNCHANGED <<server, consoles, worker, excused>>

Next ==
    \/ \E c \in Consoles :
          \/ getAllConfig(c)
          \/ \E form \in Forms : onSetConfig(c, form)
          \/ TriesAgain(c)
    \/ \E h \in Handlers :
          \/ \E r \in network : config_set(h, r)
          \/ Assigns(h)
          \/ Opens(h)
          \/ Reads(h)
          \/ Writes(h)
          \/ Returns(h)
    \/ Killed
    \/ g_read_config
    \/ \E w \in Workers :
          connectToServer(w) \/ task_get(w) \/ Heard(w) \/ LosesAnswer(w)

Spec == Init /\ [][Next]_vars

(* Clients go on asking for tasks, and an answer gets through in the end.   *)
Fairness ==
    \A w \in Workers : /\ WF_vars(connectToServer(w))
                       /\ WF_vars(task_get(w))
                       /\ SF_vars(Heard(w))

LiveSpec == Spec /\ Fairness
-----------------------------------------------------------------------------
(* What is in the file is accepted by the next start, unless the server was *)
(* killed while it wrote; and it is what the server uses, once the handlers  *)
(* are done that did not race.                                             *)
FileIsSound ==
    /\ file = Emptied => killed \/ \E h \in Active : handler[h].at = "write"
    /\ file # Emptied => Accepted(file)
    /\ up /\ Active = {} /\ ~excused => file = memory

(* A console shows the settings the server uses, over restarts, but for      *)
(* those somebody asked to change without a confirmation since.             *)
ConsolesAreRight ==
    up /\ ~excused =>
        \A c \in Consoles : \A s \in DOMAIN known[c] \ doubts[c] :
            Shown(s, known[c][s]) = Shown(s, memory[s])

(* When the settings are left alone, every client uses them in the end,      *)
(* whatever answers are lost; of the pauses it has an entry for every size.  *)
SettingsReachWorkers ==
    \A w \in Workers : \A form \in Forms \cup {First} :
        "client" \in DOMAIN form =>
            (<>[](up /\ memory["client"] = form["client"])
               => <>[](/\ worker[w] # Disconnected
                       /\ worker[w].limits = form["client"].limits
                       /\ DOMAIN form["client"].pauses \subseteq DOMAIN worker[w].pauses))
=============================================================================
