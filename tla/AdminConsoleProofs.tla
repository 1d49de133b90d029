------------------------- MODULE AdminConsoleProofs -------------------------
(***************************************************************************)
(* Theorems about the administrator's window, for any clients, whatever the *)
(* server does and the user clicks.                                        *)
(***************************************************************************)
EXTENDS AdminConsole, FiniteSetTheorems, TLAPS

Widgets == {"connect"} \cup ServerButtons \cup Mids \cup Settings

FlagsTyped ==
    /\ g_isSvrConnected \in BOOLEAN
    /\ g_isSvrRunning \in BOOLEAN
    /\ enabled \subseteq Widgets

RowsTyped ==
    /\ clientsInfo \subseteq Clients
    /\ \A row \in DOMAIN table : table[row] \in Clients

(* What only one or two actions change. *)
RestTyped ==
    /\ isBgThreadQuit \in BOOLEAN
    /\ shouldClose \in BOOLEAN
    /\ pool \in {"none", "good"}
    /\ currentClientId \in Clients \cup {NoClient}
    /\ dialog \in {"none", "stop", "shutdown", "empty", "menu", "quit", "force"}
    /\ window \in {"open", "closing", "closed", "abandoned"}
    /\ thread \in [Threads -> {"none", "test", "clients", "proxies", "progress", "sleep", "quit"}]
    /\ queue \in Seq({"clients", "proxies", "progress"})
    /\ server \in {"down", "idle", "running"}

(* The flag is raised by a thread's last step, so that it is raised exactly   *)
(* when there is none; a thread is created only then, and by a window that is *)
(* not destroyed.                                                           *)
ThreadInv ==
    /\ isBgThreadQuit <=> \A t \in Threads : thread[t] = "none"
    /\ \A t, u \in Threads : thread[t] # "none" /\ thread[u] # "none" => t = u
    /\ window = "closed" => isBgThreadQuit

ConsoleInv == FlagsTyped /\ RowsTyped /\ RestTyped /\ ThreadInv /\ MenuKeepsItsRow
-----------------------------------------------------------------------------
(* What the changes of the server's state make of the window. *)

LEMMA InitConsole == Init => ConsoleInv
<1>. SUFFICES ASSUME Init
     PROVE  ConsoleInv
  OBVIOUS
<1>1. FlagsTyped
  BY DEF Init, FlagsTyped, Widgets
<1>2. RowsTyped
  BY DEF Init, RowsTyped
<1>q. queue \in Seq({"clients", "proxies", "progress"})
  BY DEF Init
<1>3. RestTyped
  BY <1>q DEF Init, RestTyped
<1>4. ThreadInv
  BY DEF Init, ThreadInv
<1>5. MenuKeepsItsRow
  BY DEF Init, MenuKeepsItsRow
<1>. QED
  BY <1>1, <1>2, <1>3, <1>4, <1>5 DEF ConsoleInv

LEMMA ServerComes ==
    ASSUME FlagsTyped, NEW running \in BOOLEAN,
           onServerConnected(running) \/ onServerStarted \/ onServerStopped \/ Heard(running)
    PROVE  FlagsTyped'
<1>1. /\ ButtonsFor(running) \subseteq Widgets /\ ButtonsFor(TRUE) \subseteq Widgets
      /\ ButtonsFor(FALSE) \subseteq Widgets /\ Settings \subseteq Widgets
      /\ MidsFor(running) \subseteq Widgets /\ MidsFor(TRUE) \subseteq Widgets
      /\ MidsFor(FALSE) \subseteq Widgets
  BY DEF ButtonsFor, MidsFor, Widgets, ServerButtons, Mids, Settings
<1>2. CASE onServerConnected(running)
  BY <1>1, <1>2 DEF onServerConnected, FlagsTyped, Widgets
<1>3. CASE onServerStarted
  BY <1>1, <1>3 DEF onServerStarted, FlagsTyped, Widgets
<1>4. CASE onServerStopped
  BY <1>1, <1>4 DEF onServerStopped, FlagsTyped, Widgets
<1>5. CASE Heard(running)
  BY <1>4, <1>5 DEF Heard, FlagsTyped, flags, Widgets, ServerButtons, Mids, Settings
<1>. QED
  BY <1>2, <1>3, <1>4, <1>5

LEMMA ServerGoes ==
    ASSUME FlagsTyped, onServerDisconnected, UNCHANGED g_isSvrRunning \/ g_isSvrRunning' = FALSE
    PROVE  FlagsTyped' /\ table' = <<>>
BY DEF FlagsTyped, onServerDisconnected, Widgets, ServerButtons, Mids, Settings

(* Rows come from the server's answer, in any order; under an open menu they  *)
(* stay.                                                                     *)
LEMMA RowsAreShown ==
    ASSUME RowsTyped, NEW infos \in SUBSET Clients, showClientsInfo(infos)
    PROVE  RowsTyped' /\ (IsLocked => UNCHANGED table)
<1>1. CASE IsLocked
  BY <1>1 DEF RowsTyped, showClientsInfo, TryLock
<1>2. CASE ~IsLocked
  <2>1. table' \in [1 .. Cardinality(infos) -> infos]
    BY <1>2 DEF showClientsInfo, TryLock, SetToSeqs
  <2>. QED
    BY <1>2, <2>1 DEF RowsTyped, showClientsInfo
<1>. QED
  BY <1>1, <1>2
-----------------------------------------------------------------------------
(* The buttons. *)

(* The flag down and no thread is what a connection leaves behind only for as *)
(* long as it takes to create one: a name is free when it looks for one.      *)
LEMMA NewThreadIsTheOne ==
    ASSUME ThreadInv, RestTyped, NewThread, window' = "open"
    PROVE  /\ ThreadInv'
           /\ isBgThreadQuit' \in BOOLEAN
           /\ thread' \in [Threads -> {"none", "test", "clients", "proxies", "progress", "sleep", "quit"}]
<1>1. CASE ~isBgThreadQuit
  BY <1>1 DEF NewThread, background, ThreadInv, RestTyped
<1>2. CASE isBgThreadQuit
  <2>1. \A t \in Threads : thread[t] = "none"
    BY <1>2 DEF ThreadInv
  <2>2. \E t \in Threads : thread[t] = "none"
    BY <2>1, ConsoleAssumption
  <2>3. UnusedName \in Threads
    BY <2>2 DEF UnusedName
  <2>4. isBgThreadQuit' = FALSE /\ thread' = [thread EXCEPT ![UnusedName] = "test"]
    BY <1>2 DEF NewThread, Starts
  <2>5. \A t \in Threads : thread'[t] # "none" <=> t = UnusedName
    BY <2>1, <2>3, <2>4 DEF RestTyped
  <2>6. thread' \in [Threads -> {"none", "test", "clients", "proxies", "progress", "sleep", "quit"}]
    BY <2>3, <2>4 DEF RestTyped
  <2>. QED
    BY <2>3, <2>4, <2>5, <2>6 DEF ThreadInv
<1>. QED
  BY <1>1, <1>2

LEMMA ConnectKeepsConsole ==
    ASSUME ConsoleInv, onConnect \/ onConnectFails
    PROVE  ConsoleInv'
<1>. USE DEF ConsoleInv
<1>1. CASE onConnect
  <2>1. window = "open" /\ window' = "open" /\ dialog = "none" /\ dialog' = "none"
    BY <1>1 DEF onConnect, Clicks
  <2>2. FlagsTyped'
    <3>1. onServerConnected(server = "running") /\ (server = "running") \in BOOLEAN
      BY <1>1 DEF onConnect
    <3>. QED
      BY <3>1, ServerComes
  <2>3. RowsTyped'
    BY <1>1 DEF onConnect, RowsTyped, rows
  <2>4. /\ ThreadInv' /\ isBgThreadQuit' \in BOOLEAN
        /\ thread' \in [Threads -> {"none", "test", "clients", "proxies", "progress", "sleep", "quit"}]
    BY <1>1, <2>1, NewThreadIsTheOne DEF onConnect
  <2>5. RestTyped'
    BY <1>1, <2>4 DEF onConnect, OpensPool, RestTyped, menu
  <2>6. MenuKeepsItsRow'
    BY <2>1 DEF MenuKeepsItsRow, IsLocked
  <2>. QED
    BY <2>2, <2>3, <2>4, <2>5, <2>6
<1>2. CASE onConnectFails
  <2>1. dialog = "none" /\ dialog' = "none"
    BY <1>2 DEF onConnectFails, Clicks
  <2>2. FlagsTyped'
    BY <1>2 DEF onConnectFails, FlagsTyped
  <2>3. RowsTyped' /\ RestTyped' /\ ThreadInv'
    BY <1>2 DEF onConnectFails, RowsTyped, rows, RestTyped, menu, background, ThreadInv
  <2>4. MenuKeepsItsRow'
    BY <2>1 DEF MenuKeepsItsRow, IsLocked
  <2>. QED
    BY <2>2, <2>3, <2>4
<1>. QED
  BY <1>1, <1>2

(* None of the other buttons has to do with the thread. *)
LEMMA ButtonsKeepConsole ==
    ASSUME ConsoleInv, onDisconnect \/ onStart \/ onStop \/ onShutdown
    PROVE  ConsoleInv'
<1>. USE DEF ConsoleInv
<1>1. FlagsTyped' /\ RowsTyped'
  <2>1. CASE UNCHANGED <<flags, table, clientsInfo>>
    BY <2>1 DEF FlagsTyped, RowsTyped, flags
  <2>2. CASE (onServerStarted \/ onServerStopped) /\ UNCHANGED <<table, clientsInfo>>
    BY <2>2, ServerComes DEF RowsTyped
  <2>3. CASE /\ onServerDisconnected /\ UNCHANGED clientsInfo
             /\ UNCHANGED g_isSvrRunning \/ g_isSvrRunning' = FALSE
    <3>1. FlagsTyped' /\ table' = <<>>
      BY <2>3, ServerGoes
    <3>. QED
      BY <2>3, <3>1 DEF RowsTyped
  <2>. QED
    BY <2>1, <2>2, <2>3 DEF onDisconnect, onStart, onStop, onShutdown, onServerShutdown, Fails
<1>2. dialog' = "none" /\ UNCHANGED <<menu, background, shouldClose, pool, window, queue>>
  BY DEF onDisconnect, onStart, onStop, onShutdown, Clicks, Confirmed
<1>3. server' \in {"down", "idle", "running"}
  BY DEF onDisconnect, onStart, onStop, onShutdown, Fails, RestTyped
<1>4. RestTyped' /\ ThreadInv'
  BY <1>2, <1>3 DEF RestTyped, ThreadInv, menu, background
<1>5. MenuKeepsItsRow'
  BY <1>2 DEF MenuKeepsItsRow, IsLocked
<1>. QED
  BY <1>1, <1>4, <1>5

(* A question, and its end, change nothing behind it. *)
LEMMA DialogsKeepConsole ==
    ASSUME ConsoleInv,
           \/ Asks("stop", "stop") \/ Asks("shutdown", "shutdown") \/ Asks("settings", "empty")
           \/ onEmptyPorxyPool \/ DialogEnds \/ onQuitClient
    PROVE  ConsoleInv'
<1>. USE DEF ConsoleInv
<1>1. UNCHANGED <<flags, rows, currentClientId, background, server, shouldClose, pool, window, queue>>
  BY DEF Asks, onEmptyPorxyPool, DialogEnds, onQuitClient, menu
<1>2. dialog' \in {"none", "stop", "shutdown", "empty", "quit", "force"}
  BY DEF Asks, onEmptyPorxyPool, DialogEnds, onQuitClient
<1>3. IsLocked' => IsLocked /\ UNCHANGED menuRow
  BY DEF IsLocked, Asks, onEmptyPorxyPool, DialogEnds, onQuitClient, menu
<1>4. FlagsTyped' /\ RowsTyped' /\ ThreadInv'
  BY <1>1 DEF FlagsTyped, RowsTyped, ThreadInv, flags, rows, background
<1>5. RestTyped'
  BY <1>1, <1>2 DEF RestTyped, background
<1>6. MenuKeepsItsRow'
  BY <1>1, <1>3 DEF MenuKeepsItsRow, rows
<1>. QED
  BY <1>4, <1>5, <1>6
-----------------------------------------------------------------------------
(* The table of clients, the background thread, and the end of the window. *)

(* An update that fails clears the table, also under an open menu. *)
LEMMA UpdateKeepsTable ==
    ASSUME ConsoleInv, onUpdateClientsInfo \/ onUpdateProgress
    PROVE  FlagsTyped' /\ RowsTyped' /\ (IsLocked => UNCHANGED table \/ table' = <<>>)
<1>. USE DEF ConsoleInv
<1>1. CASE /\ onServerDisconnected /\ UNCHANGED g_isSvrRunning
           /\ UNCHANGED clientsInfo \/ clientsInfo' = {}
  <2>1. FlagsTyped' /\ table' = <<>>
    BY <1>1, ServerGoes
  <2>. QED
    BY <1>1, <2>1 DEF RowsTyped
<1>2. CASE \E answer \in api_get_clients_info : Heard(answer.status) /\ showClientsInfo(answer.infos)
  <2>1. PICK answer \in api_get_clients_info : Heard(answer.status) /\ showClientsInfo(answer.infos)
    BY <1>2
  <2>2. answer.status \in BOOLEAN /\ answer.infos \in SUBSET Clients
    BY <2>1 DEF api_get_clients_info, Answers
  <2>3. FlagsTyped'
    BY <2>1, <2>2, ServerComes
  <2>4. RowsTyped' /\ (IsLocked => UNCHANGED table)
    BY <2>1, <2>2, RowsAreShown
  <2>. QED
    BY <2>3, <2>4
<1>3. CASE (\E status \in api_get_task_progress : Heard(status)) /\ UNCHANGED rows
  <2>1. PICK status \in api_get_task_progress : Heard(status)
    BY <1>3
  <2>2. status \in BOOLEAN
    BY <2>1 DEF api_get_task_progress, Answers
  <2>3. FlagsTyped'
    BY <2>1, <2>2, ServerComes
  <2>4. RowsTyped' /\ UNCHANGED table
    BY <1>3 DEF RowsTyped, rows
  <2>. QED
    BY <2>3, <2>4
<1>. QED
  BY <1>1, <1>2, <1>3 DEF onUpdateClientsInfo, onUpdateProgress, UpdateClientsFails, UpdateFails

(* The user's clicks on the table find no menu open. *)
LEMMA TableKeepsConsole ==
    ASSUME ConsoleInv,
           \/ onHorizontalHeaderClicked \/ onHorizontalHeaderDoubleClicked
           \/ \E row \in DOMAIN table : onCustomContextMenuRequestedOnClientsTable(row)
    PROVE  ConsoleInv'
<1>. USE DEF ConsoleInv
<1>1. CASE onHorizontalHeaderClicked
  <2>1. dialog = "none" /\ dialog' = "none"
    BY <1>1 DEF onHorizontalHeaderClicked
  <2>2. RowsTyped'
    <3>1. showClientsInfo(clientsInfo) /\ clientsInfo \in SUBSET Clients
      BY <1>1 DEF onHorizontalHeaderClicked, RowsTyped
    <3>. QED
      BY <3>1, RowsAreShown
  <2>3. FlagsTyped' /\ RestTyped' /\ ThreadInv'
    BY <1>1 DEF onHorizontalHeaderClicked, FlagsTyped, flags, RestTyped, menu, background, ThreadInv
  <2>4. MenuKeepsItsRow'
    BY <2>1 DEF MenuKeepsItsRow, IsLocked
  <2>. QED
    BY <2>2, <2>3, <2>4
<1>2. CASE onHorizontalHeaderDoubleClicked
  <2>1. onUpdateClientsInfo /\ UNCHANGED queue /\ dialog = "none"
    BY <1>2 DEF onHorizontalHeaderDoubleClicked
  <2>2. FlagsTyped' /\ RowsTyped'
    BY <2>1, UpdateKeepsTable
  <2>3. RestTyped' /\ ThreadInv'
    BY <2>1 DEF onUpdateClientsInfo, RestTyped, menu, background, ThreadInv
  <2>4. MenuKeepsItsRow'
    BY <2>1 DEF onUpdateClientsInfo, MenuKeepsItsRow, IsLocked
  <2>. QED
    BY <2>2, <2>3, <2>4
<1>3. CASE \E row \in DOMAIN table : onCustomContextMenuRequestedOnClientsTable(row)
  <2>1. PICK row \in DOMAIN table : onCustomContextMenuRequestedOnClientsTable(row)
    BY <1>3
  <2>2. FlagsTyped' /\ RowsTyped' /\ ThreadInv'
    BY <2>1 DEF onCustomContextMenuRequestedOnClientsTable, FlagsTyped, flags, RowsTyped, rows,
                ThreadInv, background
  <2>3. RestTyped'
    BY <2>1 DEF onCustomContextMenuRequestedOnClientsTable, RestTyped, RowsTyped, background
  <2>4. MenuKeepsItsRow'
    BY <2>1 DEF onCustomContextMenuRequestedOnClientsTable, MenuKeepsItsRow, rows
  <2>. QED
    BY <2>2, <2>3, <2>4
<1>. QED
  BY <1>1, <1>2, <1>3

LEMMA SignalsKeepConsole ==
    ASSUME ConsoleInv, HandleSignal
    PROVE  ConsoleInv'
<1>. USE DEF ConsoleInv
<1>1. queue' \in Seq({"clients", "proxies", "progress"})
  BY DEF HandleSignal, Handles, RestTyped
<1>2. UNCHANGED <<menu, background, server, shouldClose, pool, dialog, window>>
  BY DEF HandleSignal, onUpdateClientsInfo, onUpdateProxyPoolSize, onUpdateProgress
<1>3. FlagsTyped' /\ RowsTyped' /\ (IsLocked => UNCHANGED table \/ table' = <<>>)
  <2>1. CASE onUpdateProxyPoolSize
    BY <2>1 DEF onUpdateProxyPoolSize, FlagsTyped, RowsTyped, flags, rows
  <2>. QED
    BY <2>1, UpdateKeepsTable DEF HandleSignal
<1>4. RestTyped' /\ ThreadInv'
  BY <1>1, <1>2 DEF RestTyped, ThreadInv, menu, background
<1>5. MenuKeepsItsRow'
  BY <1>2, <1>3 DEF MenuKeepsItsRow, IsLocked, menu
<1>. QED
  BY <1>3, <1>4, <1>5

(* The thread that takes a step is the only one, so that the one that raises  *)
(* the flag leaves none behind.                                              *)
LEMMA ThreadKeepsConsole ==
    ASSUME ConsoleInv, NEW t \in Threads, backgroundThread(t)
    PROVE  ConsoleInv'
<1>. USE DEF ConsoleInv
<1>1. UNCHANGED <<flags, rows, menu, server, shouldClose, pool, dialog, window>>
  BY DEF backgroundThread
<1>2. FlagsTyped' /\ RowsTyped' /\ MenuKeepsItsRow'
  BY <1>1 DEF FlagsTyped, RowsTyped, MenuKeepsItsRow, IsLocked, flags, rows, menu
<1>3. queue' \in Seq({"clients", "proxies", "progress"})
  BY DEF backgroundThread, Tests, Emits, SleepEnds, Quits, RestTyped
<1>4. PICK there \in {"none", "test", "clients", "proxies", "progress", "sleep", "quit"} :
         /\ thread[t] # "none"
         /\ thread' = [thread EXCEPT ![t] = there]
         /\ IF there = "none" THEN isBgThreadQuit' = TRUE ELSE UNCHANGED isBgThreadQuit
  BY DEF backgroundThread, Tests, Emits, SleepEnds, Quits, At
<1>5. thread' \in [Threads -> {"none", "test", "clients", "proxies", "progress", "sleep", "quit"}]
  BY <1>4 DEF RestTyped
<1>6. \A u \in Threads : thread'[u] = IF u = t THEN there ELSE "none"
  BY <1>4 DEF RestTyped, ThreadInv
<1>7. ~isBgThreadQuit
  BY <1>4 DEF ThreadInv
<1>8. RestTyped'
  BY <1>1, <1>3, <1>4, <1>5 DEF RestTyped, menu
<1>9. ThreadInv'
  BY <1>1, <1>4, <1>6, <1>7 DEF ThreadInv
<1>. QED
  BY <1>2, <1>8, <1>9

LEMMA ClosingKeepsConsole ==
    ASSUME ConsoleInv, closeEvent \/ Destroy \/ ServerChanges
    PROVE  ConsoleInv'
<1>. USE DEF ConsoleInv
<1>1. UNCHANGED <<rows, menu, background, dialog>>
  BY DEF closeEvent, Destroy, ServerChanges
<1>2. FlagsTyped'
  BY DEF closeEvent, Destroy, ServerChanges, FlagsTyped, flags
<1>3. RowsTyped' /\ MenuKeepsItsRow'
  BY <1>1 DEF RowsTyped, MenuKeepsItsRow, IsLocked, rows, menu
<1>4. queue' \in Seq({"clients", "proxies", "progress"})
  <2>1. queue' = <<>> \/ UNCHANGED queue
    BY DEF closeEvent, Destroy, ServerChanges
  <2>2. <<>> \in Seq({"clients", "proxies", "progress"})
    OBVIOUS
  <2>. QED
    BY <2>1, <2>2 DEF RestTyped
<1>5. RestTyped'
  BY <1>1, <1>4 DEF closeEvent, Destroy, ServerChanges, RestTyped, menu, background
<1>6. ThreadInv'
  BY <1>1 DEF closeEvent, Destroy, ServerChanges, ThreadInv, background
<1>. QED
  BY <1>2, <1>3, <1>5, <1>6
-----------------------------------------------------------------------------
LEMMA ConsoleInvHolds == Spec => []ConsoleInv
<1>1. ConsoleInv /\ [Next]_vars => ConsoleInv'
  <2>. SUFFICES ASSUME ConsoleInv, [Next]_vars
       PROVE  ConsoleInv'
    OBVIOUS
  <2>1. CASE onConnect \/ onConnectFails
    BY <2>1, ConnectKeepsConsole
  <2>2. CASE onDisconnect \/ onStart \/ onStop \/ onShutdown
    BY <2>2, ButtonsKeepConsole
  <2>3. CASE \/ Asks("stop", "stop") \/ Asks("shutdown", "shutdown") \/ Asks("settings", "empty")
             \/ onEmptyPorxyPool \/ DialogEnds \/ onQuitClient
    BY <2>3, DialogsKeepConsole
  <2>4. CASE \/ onHorizontalHeaderClicked \/ onHorizontalHeaderDoubleClicked
             \/ \E row \in DOMAIN table : onCustomContextMenuRequestedOnClientsTable(row)
    BY <2>4, TableKeepsConsole
  <2>5. CASE HandleSignal
    BY <2>5, SignalsKeepConsole
  <2>6. CASE \E t \in Threads : backgroundThread(t)
    BY <2>6, ThreadKeepsConsole
  <2>7. CASE closeEvent \/ Destroy \/ ServerChanges
    BY <2>7, ClosingKeepsConsole
  <2>8. CASE UNCHANGED vars
    BY <2>8 DEF vars, flags, rows, menu, background, ConsoleInv, FlagsTyped, RowsTyped, RestTyped,
                ThreadInv, MenuKeepsItsRow, IsLocked
  <2>. QED
    BY <2>1, <2>2, <2>3, <2>4, <2>5, <2>6, <2>7, <2>8 DEF Next
<1>. QED
  BY <1>1, InitConsole, PTL DEF Spec

(* There is never a second background thread of a window, and the flag tells *)
(* whether there is one; a window that is closed has left none behind.        *)
THEOREM OneBackgroundThread == Spec => []FlagTellsThread
<1>1. ConsoleInv => FlagTellsThread
  <2>. SUFFICES ASSUME ConsoleInv
       PROVE  FlagTellsThread
    OBVIOUS
  <2>1. TypeOK
    <3>1. ToSet(table) \cup clientsInfo \subseteq Clients
      BY DEF ConsoleInv, RowsTyped, ToSet
    <3>2. {g_isSvrConnected, g_isSvrRunning, isBgThreadQuit, shouldClose} \subseteq BOOLEAN
      BY DEF ConsoleInv, FlagsTyped, RestTyped
    <3>. QED
      BY <3>1, <3>2 DEF ConsoleInv, FlagsTyped, RestTyped, TypeOK, Widgets
  <2>2. CASE isBgThreadQuit
    <3>1. \A t \in Threads : thread[t] = "none"
      BY <2>2 DEF ConsoleInv, ThreadInv
    <3>2. {t \in Threads : thread[t] # "none"} = {}
      BY <3>1
    <3>3. Cardinality({t \in Threads : thread[t] # "none"}) = 0
      BY <3>2, FS_EmptySet
    <3>. QED
      BY <2>1, <2>2, <3>1, <3>3 DEF FlagTellsThread
  <2>3. CASE ~isBgThreadQuit
    <3>1. PICK t \in Threads : thread[t] # "none"
      BY <2>3 DEF ConsoleInv, ThreadInv
    <3>2. {u \in Threads : thread[u] # "none"} = {t}
      BY <3>1 DEF ConsoleInv, ThreadInv
    <3>3. Cardinality({u \in Threads : thread[u] # "none"}) = 1
      BY <3>2, FS_Singleton
    <3>4. window # "closed"
      BY <2>3 DEF ConsoleInv, ThreadInv
    <3>. QED
      BY <2>1, <2>3, <3>3, <3>4 DEF FlagTellsThread
  <2>. QED
    BY <2>2, <2>3 DEF ConsoleInv, RestTyped
<1>. QED
  BY <1>1, ConsoleInvHolds, PTL

(* The client that a menu or its confirmation is about stays in the row the   *)
(* menu was opened on, whatever the background thread has the window do.       *)
THEOREM MenuIsSafe == Spec => []MenuKeepsItsRow
<1>1. ConsoleInv => MenuKeepsItsRow
  BY DEF ConsoleInv
<1>. QED
  BY <1>1, ConsoleInvHolds, PTL
=============================================================================
