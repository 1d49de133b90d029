-------------------------- MODULE ServerLifecycle --------------------------
(***************************************************************************)
(* Starting and stopping the server while its process runs.  Requests of   *)
(* the administrator, each in a thread of the http server's pool, the       *)
(* watchdog thread of ClientManager and the fetching thread of ProxyManager *)
(* share g_isRunning and one "quit" flag per manager.  A background thread  *)
(* whose loop ends raises its flag and then stops the whole server once     *)
(* more.  Only ProxyManager::start and stop take ProxyManager's mutex_;     *)
(* ClientManager::start tests and clears its flag without any lock.         *)
(***************************************************************************)
EXTENDS Integers, FiniteSets, MysqlDbPool

CONSTANTS
    Workers,        \* the http threads that handle /server/_start
    Watchdogs,      \* names for the threads ClientManager::start may create
    Fetchers,       \* names for the threads ProxyManager::start may create
    DbTakes,        \* may the database take a connection: a set of BOOLEANs
    MaxStarts       \* bound on the number of start requests

Nobody == "nobody"
NoPool == -1
pool_size_ == 1

ASSUME LifecycleAssumption ==
    /\ Nobody \notin Fetchers
    /\ IsFiniteSet(Watchdogs)
    /\ IsFiniteSet(Fetchers)
    /\ DbTakes \subseteq BOOLEAN
    /\ MaxStarts \in Nat

VARIABLES
    g_isRunning,
    bg_thread_quit_,          \* ClientManager: its thread has quit
    watchdog,                 \* where each watchdog thread is; "none": no thread
    bg_thread_AiErYun_quit_,  \* ProxyManager: its thread has quit
    fetcher,                  \* where each fetching thread is
    mysql_db_pool_,           \* ProxyManager's pool, or NoPool
    mutex_,                   \* who holds ProxyManager's mutex_ while it waits
    request,                  \* where each start request is
    starts                    \* how many start requests there were

clientMgr == <<bg_thread_quit_, watchdog>>
proxyMgr == <<bg_thread_AiErYun_quit_, fetcher, mysql_db_pool_, mutex_>>
requests == <<request, starts>>
vars == <<g_isRunning, clientMgr, proxyMgr, requests>>
-----------------------------------------------------------------------------
(* The requests /server/_start and /server/_stop.                          *)

StartRequest(w) ==
    /\ request[w] = "none"
    /\ ~g_isRunning
    /\ starts < MaxStarts
    /\ request' = [request EXCEPT ![w] = "start"]
    /\ starts' = starts + 1
    /\ UNCHANGED <<g_isRunning, clientMgr, proxyMgr>>

g_start(w) ==
    /\ request[w] = "start"
    /\ request' = [request EXCEPT ![w] = "proxyMgr"]
    /\ g_isRunning' = TRUE
    /\ UNCHANGED <<clientMgr, proxyMgr, starts>>

(* Whether a thread created now may be called t. *)
Unused(threads, t) == threads[t] = "none"

(* Mutant of MaybeStarted: the thread's flag is tested instead of the pool. *)
NotQuit == ~bg_thread_AiErYun_quit_

(* "mysql_db_pool_ is not NULL. ProxyManager maybe started already." *)
MaybeStarted == mysql_db_pool_ # NoPool

StartProxyManager(w) ==
    /\ request[w] = "proxyMgr"
    /\ mutex_ = Nobody
    /\ request' = [request EXCEPT ![w] = "clientMgr"]
    /\ IF MaybeStarted
         THEN UNCHANGED <<bg_thread_AiErYun_quit_, fetcher, mysql_db_pool_>>
         ELSE /\ \E taken \in DbTakes : mysql_db_pool_' = init(pool_size_, <<taken>>)
              /\ bg_thread_AiErYun_quit_' = FALSE
              /\ IF bg_thread_AiErYun_quit_
                   THEN \E f \in Fetchers : /\ Unused(fetcher, f)
                                            /\ fetcher' = [fetcher EXCEPT ![f] = "loop"]
                   ELSE UNCHANGED fetcher
    /\ UNCHANGED <<g_isRunning, clientMgr, mutex_, starts>>

StartClientManager(w) ==
    /\ request[w] = "clientMgr"
    /\ request' = [request EXCEPT ![w] = IF bg_thread_quit_ THEN "spawn" ELSE "none"]
    /\ UNCHANGED <<g_isRunning, clientMgr, proxyMgr, starts>>

SpawnWatchdog(w) ==
    /\ request[w] = "spawn"
    /\ request' = [request EXCEPT ![w] = "none"]
    /\ bg_thread_quit_' = FALSE
    /\ \E d \in Watchdogs : /\ Unused(watchdog, d)
                            /\ watchdog' = [watchdog EXCEPT ![d] = "loop"]
    /\ UNCHANGED <<g_isRunning, proxyMgr, starts>>

StopRequest ==
    /\ g_isRunning
    /\ g_isRunning' = FALSE
    /\ UNCHANGED <<clientMgr, proxyMgr, requests>>
-----------------------------------------------------------------------------
(* ClientManager's backgroundThread.                                       *)

WatchdogSeesStop(d) ==
    /\ watchdog[d] = "loop"
    /\ ~g_isRunning
    /\ watchdog' = [watchdog EXCEPT ![d] = "quit"]
    /\ UNCHANGED <<g_isRunning, bg_thread_quit_, proxyMgr, requests>>

WatchdogQuits(d) ==
    /\ watchdog[d] = "quit"
    /\ watchdog' = [watchdog EXCEPT ![d] = "stop"]
    /\ bg_thread_quit_' = TRUE
    /\ UNCHANGED <<g_isRunning, proxyMgr, requests>>

WatchdogStops(d) ==
    /\ watchdog[d] = "stop"
    /\ watchdog' = [watchdog EXCEPT ![d] = "none"]
    /\ g_isRunning' = FALSE
    /\ UNCHANGED <<bg_thread_quit_, proxyMgr, requests>>

Watchdog(d) == WatchdogSeesStop(d) \/ WatchdogQuits(d) \/ WatchdogStops(d)
-----------------------------------------------------------------------------
(* ProxyManager's backgroundThreadAiErYun.                                 *)

FetcherSeesStop(f) ==
    /\ fetcher[f] = "loop"
    /\ ~g_isRunning
    /\ fetcher' = [fetcher EXCEPT ![f] = "quit"]
    /\ UNCHANGED <<g_isRunning, clientMgr, bg_thread_AiErYun_quit_, mysql_db_pool_,
                   mutex_, requests>>

(* Proxies are fetched; an error that is not the last one just loops.  *)
Fetched(f) ==
    /\ fetcher[f] = "loop"
    /\ g_isRunning
    /\ fetcher' = [fetcher EXCEPT ![f] = "fetched"]
    /\ UNCHANGED <<g_isRunning, clientMgr, bg_thread_AiErYun_quit_, mysql_db_pool_,
                   mutex_, requests>>

(* The provider answered wrongly too often. *)
FetchFails(f) ==
    /\ fetcher[f] = "loop"
    /\ g_isRunning
    /\ fetcher' = [fetcher EXCEPT ![f] = "quit"]
    /\ UNCHANGED <<g_isRunning, clientMgr, bg_thread_AiErYun_quit_, mysql_db_pool_,
                   mutex_, requests>>

(* Mutant of LocksToStore: the database is written without mutex_. *)
StoresUnlocked(f) ==
    /\ fetcher[f] = "fetched"
    /\ fetcher' = [fetcher EXCEPT ![f] = "storing"]
    /\ UNCHANGED <<g_isRunning, clientMgr, bg_thread_AiErYun_quit_, mysql_db_pool_,
                   mutex_, requests>>

LocksToStore(f) ==
    /\ fetcher[f] = "fetched"
    /\ mutex_ = Nobody
    /\ mutex_' = f
    /\ fetcher' = [fetcher EXCEPT ![f] = "storing"]
    /\ UNCHANGED <<g_isRunning, clientMgr, bg_thread_AiErYun_quit_, mysql_db_pool_,
                   requests>>

(* Mutant of Stores: on failure the loop is left without unlocking mutex_. *)
StoresKeepingLock(f) ==
    /\ fetcher[f] = "storing"
    /\ \/ /\ getConnection(mysql_db_pool_)
          /\ fetcher' = [fetcher EXCEPT ![f] = "loop"]
          /\ mutex_' = Nobody
       \/ /\ fetcher' = [fetcher EXCEPT ![f] = "quit"]
          /\ UNCHANGED mutex_
    /\ UNCHANGED <<g_isRunning, clientMgr, bg_thread_AiErYun_quit_, mysql_db_pool_, requests>>

(* addProxies and removeProxies.  In an empty pool getConnection never       *)
(* returns; a null pool gives no connection, and five tries fail.            *)
Stores(f) ==
    /\ fetcher[f] = "storing"
    /\ mutex_' = Nobody
    /\ \/ /\ getConnection(mysql_db_pool_)
          /\ fetcher' = [fetcher EXCEPT ![f] = "loop"]
       \/ /\ \/ mysql_db_pool_ = NoPool
             \/ getConnection(mysql_db_pool_)
          /\ fetcher' = [fetcher EXCEPT ![f] = "quit"]
    /\ UNCHANGED <<g_isRunning, clientMgr, bg_thread_AiErYun_quit_, mysql_db_pool_, requests>>

FetcherQuits(f) ==
    /\ fetcher[f] = "quit"
    /\ fetcher' = [fetcher EXCEPT ![f] = "stop"]
    /\ bg_thread_AiErYun_quit_' = TRUE
    /\ UNCHANGED <<g_isRunning, clientMgr, mysql_db_pool_, mutex_, requests>>

(* ProxyManager::stop: first g_stop, then the pool is deleted under mutex_. *)
FetcherStops(f) ==
    /\ fetcher[f] = "stop"
    /\ fetcher' = [fetcher EXCEPT ![f] = "delete"]
    /\ g_isRunning' = FALSE
    /\ UNCHANGED <<clientMgr, bg_thread_AiErYun_quit_, mysql_db_pool_, mutex_,
                   requests>>

(* Mutant of FetcherDeletesPool: the pool stays. *)
FetcherKeepsPool(f) ==
    /\ fetcher[f] = "delete"
    /\ fetcher' = [fetcher EXCEPT ![f] = "none"]
    /\ UNCHANGED <<g_isRunning, clientMgr, bg_thread_AiErYun_quit_, mysql_db_pool_,
                   mutex_, requests>>

FetcherDeletesPool(f) ==
    /\ fetcher[f] = "delete"
    /\ mutex_ = Nobody
    /\ fetcher' = [fetcher EXCEPT ![f] = "none"]
    /\ mysql_db_pool_' = NoPool
    /\ UNCHANGED <<g_isRunning, clientMgr, bg_thread_AiErYun_quit_, mutex_, requests>>

Fetcher(f) ==
    \/ FetcherSeesStop(f) \/ Fetched(f) \/ FetchFails(f)
    \/ LocksToStore(f) \/ Stores(f)
    \/ FetcherQuits(f) \/ FetcherStops(f) \/ FetcherDeletesPool(f)
-----------------------------------------------------------------------------
Init ==
    /\ g_isRunning = FALSE
    /\ bg_thread_quit_ = TRUE
    /\ watchdog = [d \in Watchdogs |-> "none"]
    /\ bg_thread_AiErYun_quit_ = TRUE
    /\ fetcher = [f \in Fetchers |-> "none"]
    /\ mysql_db_pool_ = NoPool
    /\ mutex_ = Nobody
    /\ request = [w \in Workers |-> "none"]
    /\ starts = 0

(* A request that was accepted is handled to its end. *)
Handles(w) ==
    \/ g_start(w) \/ StartProxyManager(w) \/ StartClientManager(w) \/ SpawnWatchdog(w)

Next ==
    \/ \E w \in Workers : StartRequest(w) \/ Handles(w)
    \/ StopRequest
    \/ \E d \in Watchdogs : Watchdog(d)
    \/ \E f \in Fetchers : Fetcher(f)

Spec == Init /\ [][Next]_vars

(* Threads are scheduled.  mutex_ is free most of the time, as a fetching    *)
(* thread sleeps between two uses of it; so whoever waits for it gets it.    *)
Fairness ==
    /\ \A w \in Workers : SF_vars(Handles(w))
    /\ \A d \in Watchdogs : WF_vars(Watchdog(d))
    /\ \A f \in Fetchers : SF_vars(Fetcher(f))

LiveSpec == Spec /\ Fairness
-----------------------------------------------------------------------------
Threads(where, S) == {t \in DOMAIN where : where[t] \in S}

Alive == {"loop", "fetched", "storing", "quit", "stop", "delete"}

(* mutex_ is held by the thread that is storing proxies, and by nobody else.  *)
TypeOK ==
    /\ g_isRunning \in BOOLEAN
    /\ bg_thread_quit_ \in BOOLEAN
    /\ watchdog \in [Watchdogs -> {"none", "loop", "quit", "stop"}]
    /\ bg_thread_AiErYun_quit_ \in BOOLEAN
    /\ fetcher \in [Fetchers -> Alive \cup {"none"}]
    /\ mysql_db_pool_ \in NoPool .. pool_size_
    /\ mutex_ \in Fetchers \cup {Nobody}
    /\ \A f \in Fetchers : fetcher[f] = "storing" <=> mutex_ = f
    /\ request \in [Workers -> {"none", "start", "proxyMgr", "clientMgr", "spawn"}]
    /\ starts \in 0 .. MaxStarts

(* ProxyManager's pool and its thread come and go together: there is never a *)
(* second fetching thread, a thread whose pool was deleted by another, or a  *)
(* pool without the thread that is to delete it.                             *)
PoolHasItsThread ==
    /\ Cardinality(Threads(fetcher, Alive)) <= 1
    /\ mysql_db_pool_ # NoPool <=> Threads(fetcher, Alive) # {}

(* While the server is running and no start request is under way, there is a  *)
(* watchdog in its loop, or one whose last steps stop the server: the server  *)
(* never runs on without kicking dead clients, although start creates the     *)
(* thread or not by a flag that it and the dying thread race for.             *)
RunningHasWatchdog ==
    g_isRunning /\ (\A w \in Workers : request[w] = "none") =>
        Threads(watchdog, {"loop", "quit", "stop"}) # {}

(* Both: the background threads are what the flags and the pool say they are, *)
(* however start and stop requests race their last steps.                    *)
BackgroundAsRunning == TypeOK /\ PoolHasItsThread /\ RunningHasWatchdog

(* A start request is answered. *)
StartReturns == \A w \in Workers : (request[w] # "none") ~> (request[w] = "none")

(* When the server is stopped and not started again, its background threads  *)
(* end and the database connection is closed.                                *)
StopSettles ==
    <>[](~g_isRunning /\ \A w \in Workers : request[w] = "none") =>
        <>[](/\ Threads(watchdog, {"loop", "quit", "stop"}) = {}
             /\ Threads(fetcher, Alive) = {}
             /\ mysql_db_pool_ = NoPool)

(* addProxies and removeProxies return: each gives up after five tries. *)
StoreReturns == \A f \in Fetchers : (fetcher[f] = "storing") ~> (fetcher[f] # "storing")
=============================================================================
