------------------------ MODULE ServerLifecycleProofs ------------------------
(***************************************************************************)
(* Theorems about starting and stopping the server, for every number of    *)
(* requests and threads and whatever the database does.                    *)
(***************************************************************************)
EXTENDS ServerLifecycle, FiniteSetTheorems, TLAPS

(* A fetching thread that has not raised its flag yet. *)
Fetching == {"loop", "fetched", "storing", "quit"}

(* At most one fetching thread exists, it exists as long as the pool does, and *)
(* its flag is down exactly as long as it is fetching: so whoever finds no    *)
(* pool also finds the flag raised, and creates a thread.                     *)
FetcherInv ==
    /\ \A f, g \in Fetchers : fetcher[f] \in Alive /\ fetcher[g] \in Alive => f = g
    /\ mysql_db_pool_ # NoPool <=> \E f \in Fetchers : fetcher[f] \in Alive
    /\ bg_thread_AiErYun_quit_ <=> \A f \in Fetchers : fetcher[f] \notin Fetching

(* There can be several watchdogs.  While the flag is down, one is still to   *)
(* raise it.                                                                 *)
WatchdogInv ==
    /\ bg_thread_quit_ \/ \E d \in Watchdogs : watchdog[d] \in {"loop", "quit"}
    /\ g_isRunning /\ (\A w \in Workers : request[w] = "none") =>
          \E d \in Watchdogs : watchdog[d] \in {"loop", "quit", "stop"}

LifecycleInv == TypeOK /\ FetcherInv /\ WatchdogInv
-----------------------------------------------------------------------------
(* ProxyManager::start makes a pool of one connection, or of none. *)
LEMMA PoolOfOne ==
    ASSUME NEW taken \in BOOLEAN
    PROVE  init(pool_size_, <<taken>>) \in 0 .. 1
<1> DEFINE failed == {i \in 1 .. 1 : ~ <<taken>>[i]}
<1>1. failed = IF taken THEN {} ELSE {1}
  OBVIOUS
<1>2. init(pool_size_, <<taken>>) =
         IF failed = {} THEN 1 ELSE (CHOOSE i \in failed : \A j \in failed : i <= j) - 1
  BY DEF init, pool_size_
<1>. HIDE DEF failed
<1>3. CASE taken
  BY <1>1, <1>2, <1>3
<1>4. CASE ~taken
  <2>1. (CHOOSE i \in failed : \A j \in failed : i <= j) = 1
    BY <1>1, <1>4
  <2>. QED
    BY <1>1, <1>2, <1>4, <2>1
<1>. QED
  BY <1>3, <1>4

LEMMA InitLifecycle == Init => LifecycleInv
<1>. SUFFICES ASSUME Init
     PROVE  LifecycleInv
  OBVIOUS
<1>1. \A f \in Fetchers : fetcher[f] = "none" /\ mutex_ # f
  BY LifecycleAssumption DEF Init
<1>2. mysql_db_pool_ \in NoPool .. pool_size_ /\ starts \in 0 .. MaxStarts
  BY LifecycleAssumption DEF Init, NoPool, pool_size_
<1>3. /\ watchdog \in [Watchdogs -> {"none", "loop", "quit", "stop"}]
      /\ fetcher \in [Fetchers -> Alive \cup {"none"}]
      /\ request \in [Workers -> {"none", "start", "proxyMgr", "clientMgr", "spawn"}]
  BY DEF Init
<1>4. TypeOK
  BY <1>1, <1>2, <1>3 DEF Init, TypeOK
<1>5. FetcherInv /\ WatchdogInv
  BY <1>1 DEF Init, FetcherInv, WatchdogInv, Alive, Fetching
<1>. QED
  BY <1>4, <1>5 DEF LifecycleInv

(* The requests. *)
LEMMA RequestKeeps ==
    ASSUME LifecycleInv, NEW w \in Workers, StartRequest(w) \/ g_start(w) \/ StopRequest
    PROVE  LifecycleInv'
<1>1. UNCHANGED <<bg_thread_quit_, watchdog, bg_thread_AiErYun_quit_, fetcher, mysql_db_pool_,
                  mutex_>>
  BY DEF StartRequest, g_start, StopRequest, clientMgr, proxyMgr
<1>2. FetcherInv'
  BY <1>1 DEF LifecycleInv, FetcherInv
<1>3. TypeOK'
  <2>1. request' \in [Workers -> {"none", "start", "proxyMgr", "clientMgr", "spawn"}]
    BY DEF LifecycleInv, TypeOK, StartRequest, g_start, StopRequest, requests
  <2>2. g_isRunning' \in BOOLEAN
    BY DEF LifecycleInv, TypeOK, StartRequest, g_start, StopRequest
  <2>3. starts' \in 0 .. MaxStarts
    BY LifecycleAssumption DEF LifecycleInv, TypeOK, StartRequest, g_start, StopRequest, requests
  <2>. QED
    BY <1>1, <2>1, <2>2, <2>3 DEF LifecycleInv, TypeOK
<1>4. g_isRunning' => \E v \in Workers : request'[v] # "none"
                   \/ (g_isRunning /\ request' = request)
  <2>1. CASE StartRequest(w)
    BY <2>1 DEF StartRequest, LifecycleInv, TypeOK
  <2>2. CASE g_start(w)
    <3>1. request'[w] = "proxyMgr"
      BY <2>2 DEF g_start, LifecycleInv, TypeOK
    <3>. QED
      BY <3>1
  <2>3. CASE StopRequest
    BY <2>3 DEF StopRequest
  <2>. QED
    BY <2>1, <2>2, <2>3
<1>5. WatchdogInv'
  BY <1>1, <1>4 DEF LifecycleInv, WatchdogInv
<1>. QED
  BY <1>2, <1>3, <1>5 DEF LifecycleInv

LEMMA StartProxyManagerKeeps ==
    ASSUME LifecycleInv, NEW w \in Workers, StartProxyManager(w)
    PROVE  LifecycleInv'
<1>1. /\ request[w] = "proxyMgr" /\ mutex_ = Nobody
      /\ request' = [request EXCEPT ![w] = "clientMgr"]
      /\ UNCHANGED <<g_isRunning, bg_thread_quit_, watchdog, mutex_, starts>>
  BY DEF StartProxyManager, clientMgr
<1>2. request' \in [Workers -> {"none", "start", "proxyMgr", "clientMgr", "spawn"}]
      /\ request'[w] = "clientMgr"
  BY <1>1 DEF LifecycleInv, TypeOK
<1>3. WatchdogInv'
  BY <1>1, <1>2 DEF LifecycleInv, WatchdogInv
<1>4. CASE MaybeStarted
  <2>1. UNCHANGED <<bg_thread_AiErYun_quit_, fetcher, mysql_db_pool_>>
    BY <1>4 DEF StartProxyManager
  <2>2. TypeOK' /\ FetcherInv'
    BY <1>1, <1>2, <2>1 DEF LifecycleInv, TypeOK, FetcherInv
  <2>. QED
    BY <1>3, <2>2 DEF LifecycleInv
<1>5. CASE ~MaybeStarted
  <2>1. \A f \in Fetchers : fetcher[f] \notin Alive
    BY <1>5 DEF MaybeStarted, LifecycleInv, FetcherInv
  <2>2. bg_thread_AiErYun_quit_
    BY <2>1 DEF LifecycleInv, FetcherInv, Alive, Fetching
  <2>3. PICK taken \in DbTakes : mysql_db_pool_' = init(pool_size_, <<taken>>)
    BY <1>5 DEF StartProxyManager
  <2>4. mysql_db_pool_' \in 0 .. 1
    BY <2>3, PoolOfOne, LifecycleAssumption
  <2>5. PICK f \in Fetchers : fetcher' = [fetcher EXCEPT ![f] = "loop"]
    BY <1>5, <2>2 DEF StartProxyManager
  <2>6. /\ fetcher' \in [Fetchers -> Alive \cup {"none"}] /\ fetcher'[f] = "loop"
        /\ \A g \in Fetchers \ {f} : fetcher'[g] = fetcher[g]
    BY <2>5 DEF LifecycleInv, TypeOK, Alive
  <2>7. ~bg_thread_AiErYun_quit_'
    BY <1>5 DEF StartProxyManager
  <2>8. FetcherInv'
    <3>1. \A g \in Fetchers : fetcher'[g] \in Alive <=> g = f
      BY <2>1, <2>6 DEF Alive
    <3>2. fetcher'[f] \in Fetching
      BY <2>6 DEF Fetching
    <3>. QED
      BY <2>4, <2>7, <3>1, <3>2 DEF FetcherInv, NoPool
  <2>9. TypeOK'
    <3>1. \A g \in Fetchers : fetcher'[g] = "storing" <=> mutex_ = g
      BY <1>1, <2>1, <2>6 DEF LifecycleInv, TypeOK, Alive
    <3>2. mysql_db_pool_' \in NoPool .. pool_size_
      BY <2>4 DEF NoPool, pool_size_
    <3>3. bg_thread_AiErYun_quit_' \in BOOLEAN
      BY <1>5 DEF StartProxyManager
    <3>. QED
      BY <1>1, <1>2, <2>6, <3>1, <3>2, <3>3 DEF LifecycleInv, TypeOK
  <2>. QED
    BY <1>3, <2>8, <2>9 DEF LifecycleInv
<1>. QED
  BY <1>4, <1>5

(* A request that creates no watchdog has seen the flag down: the watchdog it *)
(* relies on has not raised it yet.                                           *)
LEMMA StartClientManagerKeeps ==
    ASSUME LifecycleInv, NEW w \in Workers, StartClientManager(w) \/ SpawnWatchdog(w)
    PROVE  LifecycleInv'
<1>1. UNCHANGED <<g_isRunning, bg_thread_AiErYun_quit_, fetcher, mysql_db_pool_, mutex_, starts>>
  BY DEF StartClientManager, SpawnWatchdog, proxyMgr
<1>2. FetcherInv'
  BY <1>1 DEF LifecycleInv, FetcherInv
<1>3. request' \in [Workers -> {"none", "start", "proxyMgr", "clientMgr", "spawn"}]
  BY DEF StartClientManager, SpawnWatchdog, LifecycleInv, TypeOK
<1>4. CASE StartClientManager(w)
  <2>1. UNCHANGED <<bg_thread_quit_, watchdog>>
    BY <1>4 DEF StartClientManager, clientMgr
  <2>2. TypeOK'
    BY <1>1, <1>3, <2>1 DEF LifecycleInv, TypeOK
  <2>3. bg_thread_quit_ => request'[w] = "spawn"
    BY <1>4 DEF StartClientManager, LifecycleInv, TypeOK
  <2>4. WatchdogInv'
    BY <1>1, <2>1, <2>3 DEF LifecycleInv, WatchdogInv
  <2>. QED
    BY <1>2, <2>2, <2>4 DEF LifecycleInv
<1>5. CASE SpawnWatchdog(w)
  <2>1. PICK d \in Watchdogs : watchdog' = [watchdog EXCEPT ![d] = "loop"]
    BY <1>5 DEF SpawnWatchdog
  <2>2. /\ watchdog' \in [Watchdogs -> {"none", "loop", "quit", "stop"}]
        /\ watchdog'[d] = "loop" /\ ~bg_thread_quit_' /\ bg_thread_quit_' \in BOOLEAN
    BY <1>5, <2>1 DEF SpawnWatchdog, LifecycleInv, TypeOK
  <2>3. TypeOK'
    BY <1>1, <1>3, <2>2 DEF LifecycleInv, TypeOK
  <2>4. WatchdogInv'
    BY <2>2 DEF WatchdogInv
  <2>. QED
    BY <1>2, <2>3, <2>4 DEF LifecycleInv
<1>. QED
  BY <1>4, <1>5

LEMMA WatchdogKeeps ==
    ASSUME LifecycleInv, NEW d \in Watchdogs, Watchdog(d)
    PROVE  LifecycleInv'
<1>1. UNCHANGED <<bg_thread_AiErYun_quit_, fetcher, mysql_db_pool_, mutex_, request, starts>>
  BY DEF Watchdog, WatchdogSeesStop, WatchdogQuits, WatchdogStops, proxyMgr, requests
<1>2. FetcherInv'
  BY <1>1 DEF LifecycleInv, FetcherInv
<1>3. /\ watchdog' \in [Watchdogs -> {"none", "loop", "quit", "stop"}]
      /\ bg_thread_quit_' \in BOOLEAN /\ g_isRunning' \in BOOLEAN
      /\ \A e \in Watchdogs \ {d} : watchdog'[e] = watchdog[e]
  BY DEF Watchdog, WatchdogSeesStop, WatchdogQuits, WatchdogStops, LifecycleInv, TypeOK
<1>4. TypeOK'
  BY <1>1, <1>3 DEF LifecycleInv, TypeOK
<1>5. WatchdogInv'
  <2>1. CASE WatchdogSeesStop(d)
    <3>1. watchdog'[d] = "quit" /\ UNCHANGED <<bg_thread_quit_, g_isRunning>> /\ ~g_isRunning
      BY <2>1 DEF WatchdogSeesStop, LifecycleInv, TypeOK
    <3>. QED
      BY <3>1 DEF WatchdogInv
  <2>2. CASE WatchdogQuits(d)
    <3>1. watchdog'[d] = "stop" /\ bg_thread_quit_'
      BY <2>2 DEF WatchdogQuits, LifecycleInv, TypeOK
    <3>. QED
      BY <3>1 DEF WatchdogInv
  <2>3. CASE WatchdogStops(d)
    <3>1. watchdog[d] = "stop" /\ UNCHANGED bg_thread_quit_ /\ ~g_isRunning'
      BY <2>3 DEF WatchdogStops
    <3>. QED
      BY <1>3, <3>1 DEF WatchdogInv, LifecycleInv
  <2>. QED
    BY <2>1, <2>2, <2>3 DEF Watchdog
<1>. QED
  BY <1>2, <1>4, <1>5 DEF LifecycleInv

(* The fetching thread f goes from one place to another, both of them places  *)
(* of a thread that exists.                                                   *)
LEMMA FetcherKeeps ==
    ASSUME LifecycleInv, NEW f \in Fetchers, Fetcher(f)
    PROVE  LifecycleInv'
<1>1. UNCHANGED <<bg_thread_quit_, watchdog, request, starts>>
  BY DEF Fetcher, FetcherSeesStop, Fetched, FetchFails, LocksToStore, Stores, FetcherQuits,
         FetcherStops, FetcherDeletesPool, clientMgr, requests
<1>2. g_isRunning' = g_isRunning \/ g_isRunning' = FALSE
  BY DEF Fetcher, FetcherSeesStop, Fetched, FetchFails, LocksToStore, Stores, FetcherQuits,
         FetcherStops, FetcherDeletesPool
<1>3. WatchdogInv'
  BY <1>1, <1>2 DEF LifecycleInv, WatchdogInv
<1>4. PICK x \in Alive \cup {"none"} : fetcher' = [fetcher EXCEPT ![f] = x]
  BY DEF Fetcher, FetcherSeesStop, Fetched, FetchFails, LocksToStore, Stores, FetcherQuits,
         FetcherStops, FetcherDeletesPool, Alive
<1>5. /\ fetcher' \in [Fetchers -> Alive \cup {"none"}] /\ fetcher'[f] = x
      /\ \A g \in Fetchers \ {f} : fetcher'[g] = fetcher[g]
  BY <1>4 DEF LifecycleInv, TypeOK
<1>6. fetcher[f] \in Alive
  BY DEF Fetcher, FetcherSeesStop, Fetched, FetchFails, LocksToStore, Stores, FetcherQuits,
         FetcherStops, FetcherDeletesPool, Alive
<1>7. /\ \A g \in Fetchers \ {f} : fetcher[g] \notin Alive /\ fetcher'[g] \notin Alive
      /\ mysql_db_pool_ # NoPool
  BY <1>5, <1>6 DEF LifecycleInv, FetcherInv
<1>8. \A g \in Fetchers \ {f} : fetcher'[g] \notin Fetching /\ fetcher[g] \notin Fetching
  BY <1>7 DEF Fetching, Alive
<1>9. bg_thread_AiErYun_quit_ <=> fetcher[f] \notin Fetching
  BY <1>8 DEF LifecycleInv, FetcherInv
<1>10. FetcherInv'
  <2>1. mysql_db_pool_' # NoPool <=> fetcher'[f] \in Alive
    <3>1. CASE FetcherDeletesPool(f)
      BY <3>1, <1>4, <1>5 DEF FetcherDeletesPool, LifecycleInv, TypeOK, Alive
    <3>2. CASE ~FetcherDeletesPool(f)
      <4>1. UNCHANGED mysql_db_pool_
        BY <3>2 DEF Fetcher, FetcherSeesStop, Fetched, FetchFails, LocksToStore, Stores,
                    FetcherQuits, FetcherStops
      <4>2. fetcher'[f] \in Alive
        BY <3>2 DEF Fetcher, FetcherSeesStop, Fetched, FetchFails, LocksToStore, Stores,
                    FetcherQuits, FetcherStops, LifecycleInv, TypeOK, Alive
      <4>. QED
        BY <1>7, <4>1, <4>2
    <3>. QED
      BY <3>1, <3>2
  <2>2. bg_thread_AiErYun_quit_' <=> fetcher'[f] \notin Fetching
    BY <1>9 DEF Fetcher, FetcherSeesStop, Fetched, FetchFails, LocksToStore, Stores,
                FetcherQuits, FetcherStops, FetcherDeletesPool, LifecycleInv, TypeOK, Fetching
  <2>3. \A g \in Fetchers : fetcher'[g] \in Alive => g = f
    BY <1>7
  <2>4. \A g \in Fetchers : fetcher'[g] \in Fetching => g = f
    BY <1>8
  <2>. QED
    BY <2>1, <2>2, <2>3, <2>4 DEF FetcherInv
<1>11. TypeOK'
  <2>1. /\ mutex_' \in Fetchers \cup {Nobody}
        /\ fetcher'[f] = "storing" <=> mutex_' = f
        /\ mutex_' # f => mutex_' = Nobody \/ mutex_' = mutex_
        /\ mutex_ # f /\ mutex_ # Nobody => mutex_' = mutex_
    BY LifecycleAssumption
       DEF Fetcher, FetcherSeesStop, Fetched, FetchFails, LocksToStore, Stores, FetcherQuits,
           FetcherStops, FetcherDeletesPool, LifecycleInv, TypeOK
  <2>2. ASSUME NEW g \in Fetchers, g # f
        PROVE  fetcher'[g] = "storing" <=> mutex_' = g
    <3>1. fetcher'[g] # "storing" /\ fetcher[g] # "storing"
      BY <1>8, <2>2 DEF Fetching
    <3>2. mutex_ # g
      BY <3>1 DEF LifecycleInv, TypeOK
    <3>3. g # Nobody
      BY LifecycleAssumption
    <3>. QED
      BY <2>1, <2>2, <3>1, <3>2, <3>3
  <2>3. mysql_db_pool_' \in NoPool .. pool_size_
    BY DEF Fetcher, FetcherSeesStop, Fetched, FetchFails, LocksToStore, Stores, FetcherQuits,
           FetcherStops, FetcherDeletesPool, LifecycleInv, TypeOK, NoPool, pool_size_
  <2>4. bg_thread_AiErYun_quit_' \in BOOLEAN
    BY DEF Fetcher, FetcherSeesStop, Fetched, FetchFails, LocksToStore, Stores, FetcherQuits,
           FetcherStops, FetcherDeletesPool, LifecycleInv, TypeOK
  <2>. QED
    BY <1>1, <1>2, <1>5, <2>1, <2>2, <2>3, <2>4 DEF LifecycleInv, TypeOK
<1>. QED
  BY <1>3, <1>10, <1>11 DEF LifecycleInv

LEMMA NextKeepsLifecycleInv == LifecycleInv /\ [Next]_vars => LifecycleInv'
<1>. SUFFICES ASSUME LifecycleInv, [Next]_vars
     PROVE  LifecycleInv'
  OBVIOUS
<1>1. ASSUME NEW w \in Workers, StartRequest(w) \/ Handles(w)
      PROVE  LifecycleInv'
  BY <1>1, RequestKeeps, StartProxyManagerKeeps, StartClientManagerKeeps DEF Handles
<1>2. CASE StopRequest
  <2>1. UNCHANGED <<bg_thread_quit_, watchdog, bg_thread_AiErYun_quit_, fetcher,
                    mysql_db_pool_, mutex_, request, starts>> /\ g_isRunning' = FALSE
    BY <1>2 DEF StopRequest, clientMgr, proxyMgr, requests
  <2>. QED
    BY <2>1 DEF LifecycleInv, TypeOK, FetcherInv, WatchdogInv
<1>3. ASSUME NEW d \in Watchdogs, Watchdog(d)
      PROVE  LifecycleInv'
  BY <1>3, WatchdogKeeps
<1>4. ASSUME NEW f \in Fetchers, Fetcher(f)
      PROVE  LifecycleInv'
  BY <1>4, FetcherKeeps
<1>5. CASE UNCHANGED vars
  BY <1>5 DEF vars, clientMgr, proxyMgr, requests, LifecycleInv, TypeOK, FetcherInv, WatchdogInv
<1>. QED
  BY <1>1, <1>2, <1>3, <1>4, <1>5 DEF Next

(* However the requests to start and to stop the server race the last steps   *)
(* of the background threads: ProxyManager has one fetching thread exactly as *)
(* long as it has a pool, and a server that runs on is never without a        *)
(* watchdog, although the requests and the dying threads share two flags that *)
(* no lock protects.                                                          *)
THEOREM BackgroundIsAsRunning == Spec => []BackgroundAsRunning
<1>1. LifecycleInv => BackgroundAsRunning
  <2>. SUFFICES ASSUME LifecycleInv
       PROVE  BackgroundAsRunning
    OBVIOUS
  <2>1. DOMAIN fetcher = Fetchers /\ DOMAIN watchdog = Watchdogs
    BY DEF LifecycleInv, TypeOK
  <2>2. mysql_db_pool_ # NoPool <=> Threads(fetcher, Alive) # {}
    BY <2>1 DEF LifecycleInv, FetcherInv, Threads
  <2>3. Cardinality(Threads(fetcher, Alive)) <= 1
    <3>1. CASE Threads(fetcher, Alive) = {}
      BY <3>1, FS_EmptySet
    <3>2. CASE Threads(fetcher, Alive) # {}
      <4>1. PICK f \in Threads(fetcher, Alive) : TRUE
        BY <3>2
      <4>2. Threads(fetcher, Alive) = {f}
        BY <2>1, <4>1 DEF LifecycleInv, FetcherInv, Threads
      <4>. QED
        BY <4>2, FS_Singleton
    <3>. QED
      BY <3>1, <3>2
  <2>4. RunningHasWatchdog
    BY <2>1 DEF LifecycleInv, WatchdogInv, RunningHasWatchdog, Threads
  <2>. QED
    BY <2>2, <2>3, <2>4 DEF BackgroundAsRunning, PoolHasItsThread, LifecycleInv
<1>2. Init => LifecycleInv
  BY InitLifecycle
<1>3. LifecycleInv /\ [Next]_vars => LifecycleInv'
  BY NextKeepsLifecycleInv
<1>. QED
  BY <1>1, <1>2, <1>3, PTL DEF Spec
=============================================================================
