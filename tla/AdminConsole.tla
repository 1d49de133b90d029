---------------------------- MODULE AdminConsole ----------------------------
(***************************************************************************)
(* The administrator's window: connecting to a server and leaving it,       *)
(* starting and stopping it, the table of clients with its menu, and the    *)
(* background thread that has the window updated every five seconds.        *)
(*                                                                         *)
(* Handlers run one at a time in the thread of the GUI, so that each is one *)
(* action, with the outcome of its requests; but a confirmation or a menu    *)
(* runs an event loop of its own, in which the signals of the background     *)
(* thread (queue) are handled while the user can click nothing else.        *)
(* Left out are texts and colours, and the settings (module Settings).       *)
(***************************************************************************)
EXTENDS Integers, SequencesExt

CONSTANTS
    Threads,    \* names of background threads
    Clients,    \* ids of crawling clients
    MaxQueue    \* bound: signals sent and not yet handled

ASSUME ConsoleAssumption ==
    /\ Threads # {}
    /\ Clients \subseteq Nat
    /\ MaxQueue \in Nat \ {0}

NoClient == -1

VARIABLES
    g_isSvrConnected, g_isSvrRunning, isBgThreadQuit, shouldClose,
    enabled,            \* the widgets that are enabled
    pool,               \* mysqlDbPool: "none" or "good"
    clientsInfo,        \* the last answer of the server
    table,              \* the ids in the rows of clientsTable
    currentClientId,    \* the client whose menu was opened last
    menuRow,            \* the row whose menu is open, or 0
    dialog,             \* the event loop that runs in a handler, or "none"
    window,             \* "open", "closing", "closed", or "abandoned" with a thread
    thread,             \* where each background thread is
    queue,              \* signals for the thread of the GUI
    server              \* "down", "idle" or "running"

flags == <<g_isSvrConnected, g_isSvrRunning, enabled>>
rows == <<clientsInfo, table>>
menu == <<currentClientId, menuRow>>
background == <<isBgThreadQuit, thread>>
vars == <<flags, rows, menu, background, server,
          shouldClose, pool, dialog, window, queue>>

Settings == {"settings"}
ServerButtons == {"disconnect", "start", "stop", "shutdown"}
Mids == {"mid_start", "mid_current", "mid_end"}

Init ==
    /\ g_isSvrConnected = FALSE
    /\ g_isSvrRunning = FALSE
    /\ isBgThreadQuit = TRUE
    /\ shouldClose = FALSE
    /\ enabled = {"connect"} \cup Mids
    /\ pool = "none"
    /\ clientsInfo = {}
    /\ table = <<>>
    /\ currentClientId = NoClient
    /\ menuRow = 0
    /\ dialog = "none"
    /\ window = "open"
    /\ thread = [t \in Threads |-> "none"]
    /\ queue = <<>>
    /\ server \in {"down", "idle", "running"}
-----------------------------------------------------------------------------
(* What the buttons become when the state of the server changes.  Only the  *)
(* first two tell whether the console is connected.                        *)

MidsFor(running) == IF running THEN {"mid_end"} ELSE Mids
ButtonsFor(running) == {"disconnect", "shutdown", IF running THEN "stop" ELSE "start"}

onServerConnected(running) ==
    /\ g_isSvrConnected' = TRUE
    /\ g_isSvrRunning' = running
    /\ enabled' = ButtonsFor(running) \cup MidsFor(running) \cup Settings

(* Mutant of onServerDisconnected: nothing is enabled again. *)
onServerLeft ==
    /\ g_isSvrConnected' = FALSE
    /\ enabled' = enabled \ (ServerButtons \cup Settings)
    /\ table' = <<>>

onServerDisconnected ==
    /\ g_isSvrConnected' = FALSE
    /\ enabled' = (enabled \ (ServerButtons \cup Settings)) \cup {"connect"}
    /\ table' = <<>>

onServerStarted ==
    /\ g_isSvrRunning' = TRUE
    /\ enabled' = (enabled \cap Settings) \cup ButtonsFor(TRUE) \cup MidsFor(TRUE)
    /\ UNCHANGED g_isSvrConnected

onServerStopped ==
    /\ g_isSvrRunning' = FALSE
    /\ enabled' = (enabled \cap Settings) \cup ButtonsFor(FALSE) \cup MidsFor(FALSE)
    /\ UNCHANGED g_isSvrConnected

onServerShutdown == g_isSvrRunning' = FALSE /\ onServerDisconnected

(* Mutant of Heard: whether the server runs is not looked at. *)
HeardNothing(running) == UNCHANGED flags

(* An answer that says the server is stopped; that it runs changes nothing. *)
Heard(running) == IF running THEN UNCHANGED flags ELSE onServerStopped
-----------------------------------------------------------------------------
(* The buttons. *)

Answers == server # "down"
Clicks(button) == window = "open" /\ dialog = "none" /\ button \in enabled

Starts(t) == isBgThreadQuit' = FALSE /\ thread' = [thread EXCEPT ![t] = "test"]
UnusedName == CHOOSE t \in Threads : thread[t] = "none"

(* Mutant of NewThread: a thread for every connection. *)
AnotherThread == Starts(UnusedName)

NewThread == IF isBgThreadQuit THEN Starts(UnusedName) ELSE UNCHANGED background

(* A pool with one connection, or none if the database refuses it. *)
OpensPool == pool' \in {"none", "good"}

onConnect ==
    /\ Clicks("connect")
    /\ Answers
    /\ onServerConnected(server = "running")
    /\ OpensPool
    /\ NewThread
    /\ UNCHANGED <<rows, menu, server, shouldClose, dialog, window, queue>>

(* The server answers, but does not tell its settings. *)
onConnectFails ==
    /\ Clicks("connect")
    /\ Answers
    /\ g_isSvrRunning' = (server = "running")
    /\ UNCHANGED <<g_isSvrConnected, enabled, rows, menu, background, server,
                   shouldClose, pool, dialog, window, queue>>

onDisconnect ==
    /\ Clicks("disconnect")
    /\ onServerDisconnected
    /\ UNCHANGED <<g_isSvrRunning, clientsInfo, menu, background, server,
                   shouldClose, pool, dialog, window, queue>>

(* All tries fail, or only their answers are lost. *)
Fails(wanted) == server' \in {server, wanted} /\ UNCHANGED <<flags, table>>

onStart ==
    /\ Clicks("start")
    /\ Answers
    /\ \/ server' = "running" /\ onServerStarted /\ UNCHANGED table
       \/ Fails("running")
    /\ UNCHANGED <<clientsInfo, menu, background,
                   shouldClose, pool, dialog, window, queue>>

(* A confirmation is asked for. *)
Asks(button, question) ==
    /\ Clicks(button)
    /\ dialog' = question
    /\ UNCHANGED <<flags, rows, menu, background, server,
                   shouldClose, pool, window, queue>>

Confirmed(question) == window = "open" /\ dialog = question /\ dialog' = "none"

onStop ==
    /\ Confirmed("stop")
    /\ Answers
    /\ \/ server' = "idle" /\ onServerStopped /\ UNCHANGED table
       \/ Fails("idle")
    /\ UNCHANGED <<clientsInfo, menu, background,
                   shouldClose, pool, window, queue>>

(* The server takes its time to go. *)
onShutdown ==
    /\ Confirmed("shutdown")
    /\ Answers
    /\ \/ server' \in {server, "down"} /\ onServerShutdown
       \/ Fails("down")
    /\ UNCHANGED <<clientsInfo, menu, background,
                   shouldClose, pool, window, queue>>

(* Emptying the table of proxies, or telling a client to quit, changes      *)
(* nothing in the window; nor does a No, or requests that fail.             *)
DialogEnds ==
    /\ window = "open"
    /\ dialog # "none"
    /\ dialog' = "none"
    /\ menuRow' = 0
    /\ UNCHANGED <<flags, rows, currentClientId, background, server,
                   shouldClose, pool, window, queue>>

onEmptyPorxyPool == dialog = "empty" /\ pool = "good" /\ DialogEnds
-----------------------------------------------------------------------------
(* The table of clients and its menu, which keeps mutexForClientsInfo.       *)

IsLocked == dialog \in {"menu", "quit", "force"}

(* Mutant of TryLock: the table is redrawn under an open menu. *)
NoLock == TRUE

TryLock == ~IsLocked

(* The rows are sorted by a column, which header clicks choose. *)
showClientsInfo(infos) ==
    /\ clientsInfo' = infos
    /\ IF TryLock THEN table' \in SetToSeqs(infos) ELSE UNCHANGED table

onHorizontalHeaderClicked ==
    /\ window = "open" /\ dialog = "none"
    /\ showClientsInfo(clientsInfo)
    /\ UNCHANGED <<flags, menu, background, server, shouldClose, pool, dialog, window, queue>>

(* Requests fail, or the console is not connected any more. *)
UpdateFails ==
    /\ onServerDisconnected
    /\ UNCHANGED <<g_isSvrRunning, clientsInfo>>

UpdateClientsFails == /\ onServerDisconnected
                      /\ clientsInfo' = {}
                      /\ UNCHANGED g_isSvrRunning

(* What the request may return.  A client that cannot be parsed ends the     *)
(* list, which passes for the whole of it.                                 *)
api_get_clients_info ==
    [status : {server = "running"}, infos : IF Answers THEN SUBSET Clients ELSE {}]

onUpdateClientsInfo ==
    /\ \/ /\ g_isSvrConnected
          /\ \E answer \in api_get_clients_info :
                Heard(answer.status) /\ showClientsInfo(answer.infos)
       \/ UpdateClientsFails
    /\ UNCHANGED <<menu, background, server, shouldClose, pool, dialog, window>>

(* In a column of speeds it changes colours, and updates the table. *)
onHorizontalHeaderDoubleClicked ==
    /\ window = "open" /\ dialog = "none"
    /\ onUpdateClientsInfo
    /\ UNCHANGED queue

onCustomContextMenuRequestedOnClientsTable(row) ==
    /\ window = "open" /\ dialog = "none"
    /\ TryLock
    /\ currentClientId' = table[row]
    /\ menuRow' = row
    /\ dialog' = "menu"
    /\ UNCHANGED <<flags, rows, background, server, shouldClose, pool, window, queue>>

(* onQuitClient and onForceQuitClient ask while the menu is still open. *)
onQuitClient ==
    /\ window = "open" /\ dialog = "menu"
    /\ dialog' \in {"quit", "force"}
    /\ UNCHANGED <<flags, rows, menu, background, server,
                   shouldClose, pool, window, queue>>
-----------------------------------------------------------------------------
(* The background thread, and its signals. *)

At(t, here, there) == thread[t] = here /\ thread' = [thread EXCEPT ![t] = there]

Tests(t) ==
    /\ At(t, "test", IF ~shouldClose /\ g_isSvrConnected THEN "clients" ELSE "quit")
    /\ UNCHANGED <<isBgThreadQuit, queue>>

Emits(t, signal, next) ==
    /\ At(t, signal, next)
    /\ Len(queue) < MaxQueue
    /\ queue' = Append(queue, signal)
    /\ UNCHANGED isBgThreadQuit

SleepEnds(t) == At(t, "sleep", "test") /\ UNCHANGED <<isBgThreadQuit, queue>>

Quits(t) ==
    /\ At(t, "quit", "none")
    /\ isBgThreadQuit' = TRUE
    /\ UNCHANGED queue

backgroundThread(t) ==
    /\ \/ Tests(t)
       \/ Emits(t, "clients", "proxies")
       \/ Emits(t, "proxies", "progress")
       \/ Emits(t, "progress", "sleep")
       \/ SleepEnds(t)
       \/ Quits(t)
    /\ UNCHANGED <<flags, rows, menu, server, shouldClose, pool, dialog, window>>

Handles(signal) ==
    /\ window = "open"
    /\ queue # <<>> /\ Head(queue) = signal
    /\ queue' = Tail(queue)

(* It shows the number of proxies, if there is a connection to the database. *)
onUpdateProxyPoolSize ==
    UNCHANGED <<flags, rows, menu, background, server, shouldClose, pool, dialog, window>>

api_get_task_progress == IF Answers THEN {server = "running"} ELSE {}

(* Whether the console is still connected is not looked at. *)
onUpdateProgress ==
    /\ \/ (\E status \in api_get_task_progress : Heard(status)) /\ UNCHANGED rows
       \/ UpdateFails
    /\ UNCHANGED <<menu, background, server, shouldClose, pool, dialog, window>>

HandleSignal ==
    \/ Handles("clients") /\ onUpdateClientsInfo
    \/ Handles("proxies") /\ onUpdateProxyPoolSize
    \/ Handles("progress") /\ onUpdateProgress
-----------------------------------------------------------------------------
(* Closing the window: it waits two seconds for the background thread.      *)

closeEvent ==
    /\ window = "open" /\ dialog = "none"
    /\ g_isSvrConnected' = FALSE
    /\ shouldClose' = TRUE
    /\ window' = "closing"
    /\ UNCHANGED <<g_isSvrRunning, enabled, rows, menu, background, server,
                   pool, dialog, queue>>

Destroy ==
    /\ window = "closing"
    /\ window' = IF isBgThreadQuit THEN "closed" ELSE "abandoned"
    /\ pool' = "none"
    /\ queue' = <<>>
    /\ UNCHANGED <<flags, rows, menu, background, server, shouldClose, dialog>>

(* The server is started, stopped or killed by others. *)
ServerChanges ==
    /\ server' \in {"down", "idle", "running"} \ {server}
    /\ UNCHANGED <<flags, rows, menu, background, shouldClose, pool, dialog, window, queue>>

Next ==
    \/ onConnect
    \/ onConnectFails
    \/ onDisconnect
    \/ onStart
    \/ Asks("stop", "stop")
    \/ Asks("shutdown", "shutdown")
    \/ Asks("settings", "empty")
    \/ onStop
    \/ onShutdown
    \/ onEmptyPorxyPool
    \/ DialogEnds
    \/ onHorizontalHeaderClicked
    \/ onHorizontalHeaderDoubleClicked
    \/ \E row \in DOMAIN table : onCustomContextMenuRequestedOnClientsTable(row)
    \/ onQuitClient
    \/ HandleSignal
    \/ \E t \in Threads : backgroundThread(t)
    \/ closeEvent
    \/ Destroy
    \/ ServerChanges

Spec == Init /\ [][Next]_vars

Updated == \E t \in Threads : thread[t] \notin {"none", "quit"}

(* The threads run, the GUI handles its events, a user closes what he is    *)
(* asked, leaves a console that is not updated, and connects one that can   *)
(* be connected, which succeeds in the end.                                *)
Fairness ==
    /\ WF_vars(HandleSignal)
    /\ WF_vars(DialogEnds)
    /\ WF_vars(Destroy)
    /\ \A t \in Threads : WF_vars(backgroundThread(t))
    /\ SF_vars(onConnect)
    /\ SF_vars(~Updated /\ onDisconnect)

LiveSpec == Spec /\ Fairness
-----------------------------------------------------------------------------
TypeOK ==
    /\ {g_isSvrConnected, g_isSvrRunning, isBgThreadQuit, shouldClose} \subseteq BOOLEAN
    /\ enabled \subseteq {"connect"} \cup ServerButtons \cup Mids \cup Settings
    /\ pool \in {"none", "good"}
    /\ ToSet(table) \cup clientsInfo \subseteq Clients
    /\ currentClientId \in Clients \cup {NoClient}
    /\ dialog \in {"none", "stop", "shutdown", "empty", "menu", "quit", "force"}
    /\ window \in {"open", "closing", "closed", "abandoned"}
    /\ thread \in [Threads -> {"none", "test", "clients", "proxies", "progress", "sleep", "quit"}]
    /\ queue \in Seq({"clients", "proxies", "progress"})
    /\ server \in {"down", "idle", "running"}

(* There is never a second background thread, and the flag tells whether    *)
(* there is one: a window that waited for the flag is destroyed without a   *)
(* thread that still uses it.  (And the variables have their types.)        *)
FlagTellsThread ==
    /\ TypeOK
    /\ Cardinality({t \in Threads : thread[t] # "none"}) = IF isBgThreadQuit THEN 0 ELSE 1
    /\ window = "closed" => \A t \in Threads : thread[t] = "none"

(* While the menu of a row or its confirmation is open, the row shows the   *)
(* client that will be told to quit, or the table was cleared because the    *)
(* server is gone: no update changes the table under the user's hands.      *)
MenuKeepsItsRow ==
    IsLocked /\ table # <<>> =>
        menuRow \in DOMAIN table /\ table[menuRow] = currentClientId

(* A connected console with its thread notices that the server is gone, and *)
(* that it was stopped, whatever dialogs are open.                         *)
TroubleIsSeen ==
    /\ g_isSvrConnected /\ Updated /\ server = "down"
         ~> ~g_isSvrConnected \/ server # "down"
    /\ g_isSvrConnected /\ Updated /\ server = "idle"
         ~> ~g_isSvrConnected \/ ~g_isSvrRunning \/ server # "idle"

(* Whatever the buttons and the flags were left as, a user who disconnects   *)
(* a console that shows nothing new, and connects again, gets it updated, if *)
(* the server stays up.                                                    *)
ReconnectingHelps ==
    <>[](server # "down" /\ window = "open") => []<>(g_isSvrConnected /\ Updated)
=============================================================================
