---------------------------- MODULE ProxyPoolProofs ----------------------------
(***************************************************************************)
(* Theorems about the local pools of proxies: for any clients, threads and  *)
(* proxies, what a thread finds in the pool, and what it finds in the pool   *)
(* of connections when it has to tell the database; and that the errors which  *)
(* threads report add up in the table.                                      *)
(***************************************************************************)
EXTENDS ProxyPool, FiniteSetTheorems, TLAPS

PoolsTyped ==
    /\ proxies_ = [c \in Clients |-> proxies_[c]]
    /\ kept = [c \in Clients |-> kept[c]]
    /\ mutex_ \in [Clients -> Threads \cup {Free, Bg}]
    /\ bg \in [Clients -> {"sleep", "report", "fetch", "stop", "quit"}]
    /\ pool_ \in [Clients -> Int]
    /\ pc \in [Threads -> {"check", "draw", "use", "remove", "write", "ended"}]

(* The mutex is the background thread's for its whole round, and a thread's    *)
(* while its row is deleted; nobody else takes it for longer than a step.     *)
MutexOK(c) ==
    /\ mutex_[c] = Bg <=> bg[c] \in {"report", "fetch"}
    /\ \A t \in Threads : mutex_[c] = t <=> pc[t] = "remove" /\ ClientOf[t] = c

(* Between two rounds, and until the pool is cleared, all is there. *)
WholeOK(c) == bg[c] \in {"sleep", "report"} => kept[c] \subseteq DOMAIN proxies_[c]

WriterOK ==
    \A t, u \in Threads : pc[t] = "write" /\ pc[u] = "write" /\ ClientOf[t] = ClientOf[u] => t = u

(* Whoever has the pool's mutex, with something to tell the database or to ask. *)
Talks(c) ==
    \/ mutex_[c] \in Threads
    \/ bg[c] = "fetch"
    \/ bg[c] = "report" /\ DOMAIN proxies_[c] # {}

One(cond) == IF cond THEN 1 ELSE 0

(* Each has one connection, and so has the thread that has TaskManager's mutex. *)
ConnectionsOK(c) == pool_[c] = pool_size_ - One(Talks(c)) - One(TaskManagerLocked(c))

PoolsInv ==
    /\ PoolsTyped
    /\ WriterOK
    /\ \A c \in Clients : MutexOK(c) /\ WholeOK(c) /\ ConnectionsOK(c)
-----------------------------------------------------------------------------
LEMMA Holders == /\ Free # Bg
                 /\ \A t \in Threads : t # Free /\ t # Bg
<1>1. Free # Bg
  BY DEF Free, Bg
<1>2. \A t \in Threads : t # Free /\ t # Bg
  BY ProxyAssumption
<1>. QED
  BY <1>1, <1>2

LEMMA InitPools == Init => PoolsInv
<1>. SUFFICES ASSUME Init PROVE PoolsInv
  OBVIOUS
<1>1. PoolsTyped
  BY DEF Init, PoolsTyped, pool_size_
<1>2. WriterOK
  BY DEF Init, WriterOK
<1>3. ASSUME NEW c \in Clients PROVE MutexOK(c) /\ WholeOK(c) /\ ConnectionsOK(c)
  <2>1. /\ mutex_[c] = Bg /\ bg[c] = "report" /\ kept[c] = {} /\ pool_[c] = pool_size_
        /\ \A t \in Threads : pc[t] = "check"
        /\ DOMAIN proxies_[c] = {}
    BY DEF Init, Zero
  <2>2. ~ Talks(c) /\ ~ TaskManagerLocked(c)
    BY <2>1, ProxyAssumption DEF Talks, TaskManagerLocked
  <2>. QED
    BY <2>1, <2>2, ProxyAssumption DEF MutexOK, WholeOK, ConnectionsOK, One, pool_size_
<1>. QED
  BY <1>1, <1>2, <1>3 DEF PoolsInv

(* A step in which nobody takes or frees anything, and no pool loses a proxy. *)
LEMMA QuietKeeps ==
    ASSUME PoolsInv, UNCHANGED <<mutex_, kept, bg, pool_>>,
           proxies_' = [c \in Clients |-> proxies_'[c]],
           \A c \in Clients : /\ DOMAIN proxies_[c] \subseteq DOMAIN proxies_'[c]
                              /\ bg[c] = "report" => proxies_'[c] = proxies_[c],
           pc' \in [Threads -> {"check", "draw", "use", "remove", "write", "ended"}],
           \A t \in Threads : \/ pc'[t] = pc[t]
                              \/ {pc[t], pc'[t]} \cap {"remove", "write"} = {}
    PROVE  PoolsInv'
<1>1. PoolsTyped'
  BY DEF PoolsInv, PoolsTyped
<1>2. \A t \in Threads : /\ pc'[t] = "remove" <=> pc[t] = "remove"
                         /\ pc'[t] = "write" <=> pc[t] = "write"
  OBVIOUS
<1>3. WriterOK'
  BY <1>2 DEF PoolsInv, WriterOK
<1>4. ASSUME NEW c \in Clients PROVE (MutexOK(c) /\ WholeOK(c) /\ ConnectionsOK(c))'
  <2>1. Talks(c)' <=> Talks(c)
    BY DEF Talks
  <2>2. TaskManagerLocked(c)' <=> TaskManagerLocked(c)
    BY <1>2 DEF TaskManagerLocked
  <2>3. MutexOK(c)'
    BY <1>2 DEF PoolsInv, MutexOK
  <2>4. WholeOK(c)'
    BY DEF PoolsInv, WholeOK
  <2>5. ConnectionsOK(c)'
    BY <2>1, <2>2 DEF PoolsInv, ConnectionsOK, One
  <2>. QED
    BY <2>3, <2>4, <2>5
<1>. QED
  BY <1>1, <1>3, <1>4 DEF PoolsInv

(* A thread that takes or frees nothing. *)
LEMMA ThreadGoesOn ==
    ASSUME PoolsInv, UNCHANGED <<pool, bg, pool_>>, NEW t \in Threads,
           NEW place \in {"check", "draw", "use", "ended"}, pc[t] \in {"check", "draw", "use"},
           pc' = pc \/ pc' = [pc EXCEPT ![t] = place]
    PROVE  PoolsInv'
<1>1. pc' \in [Threads -> {"check", "draw", "use", "remove", "write", "ended"}]
  BY DEF PoolsInv, PoolsTyped
<1>2. \A u \in Threads : pc'[u] = IF u = t /\ pc' # pc THEN place ELSE pc[u]
  BY DEF PoolsInv, PoolsTyped
<1>3. UNCHANGED <<proxies_, mutex_, kept, bg, pool_>>
  BY DEF pool
<1>4. proxies_' = [c \in Clients |-> proxies_'[c]]
  BY <1>3 DEF PoolsInv, PoolsTyped
<1>5. \A u \in Threads : pc'[u] = pc[u] \/ {pc[u], pc'[u]} \cap {"remove", "write"} = {}
  BY <1>2
<1>. QED
  BY <1>1, <1>3, <1>4, <1>5, QuietKeeps

(* The background thread of one client goes on. *)
LEMMA RoundGoesOn ==
    ASSUME PoolsInv, NEW c \in Clients,
           NEW m \in {Free, Bg}, mutex_[c] \in {Free, Bg},
           NEW b \in {"sleep", "report", "fetch", "stop", "quit"},
           mutex_' = [mutex_ EXCEPT ![c] = m], bg' = [bg EXCEPT ![c] = b],
           m = Bg <=> b \in {"report", "fetch"},
           pool_' \in [Clients -> Int],
           proxies_' = [d \in Clients |-> proxies_'[d]], kept' = [d \in Clients |-> kept'[d]],
           \A d \in Clients \ {c} : /\ pool_'[d] = pool_[d]
                                    /\ proxies_'[d] = proxies_[d] /\ kept'[d] = kept[d],
           UNCHANGED pc, WholeOK(c)',
           pool_'[c] + One(Talks(c))' = pool_[c] + One(Talks(c))
    PROVE  PoolsInv'
<1>1. PoolsTyped'
  BY DEF PoolsInv, PoolsTyped
<1>2. WriterOK'
  BY DEF PoolsInv, WriterOK
<1>3. mutex_'[c] = m /\ bg'[c] = b
  BY DEF PoolsInv, PoolsTyped
<1>4. \A d \in Clients \ {c} : mutex_'[d] = mutex_[d] /\ bg'[d] = bg[d]
  BY DEF PoolsInv, PoolsTyped
<1>5. \A d \in Clients : TaskManagerLocked(d)' <=> TaskManagerLocked(d)
  BY DEF TaskManagerLocked
<1>6. MutexOK(c)' /\ ConnectionsOK(c)'
  <2>1. \A t \in Threads : t # m /\ t # mutex_[c]
    BY ProxyAssumption
  <2>2. MutexOK(c)'
    BY <1>3, <2>1 DEF PoolsInv, MutexOK
  <2>3. pool_[c] \in Int /\ pool_'[c] \in Int
    BY DEF PoolsInv, PoolsTyped
  <2>4. PICK n \in {0, 1}, k \in {0, 1}, l \in {0, 1} :
           n = One(Talks(c)) /\ k = One(Talks(c))' /\ l = One(TaskManagerLocked(c))
    BY DEF One
  <2>5. One(TaskManagerLocked(c))' = l
    BY <1>5, <2>4 DEF One
  <2>6. pool_[c] = pool_size_ - n - l /\ pool_'[c] + k = pool_[c] + n
    BY <2>4 DEF PoolsInv, ConnectionsOK
  <2>7. pool_'[c] = pool_size_ - k - l
    BY <2>3, <2>6 DEF pool_size_
  <2>8. ConnectionsOK(c)'
    BY <2>4, <2>5, <2>7 DEF ConnectionsOK
  <2>. QED
    BY <2>2, <2>8
<1>7. ASSUME NEW d \in Clients \ {c} PROVE (MutexOK(d) /\ WholeOK(d) /\ ConnectionsOK(d))'
  <2>1. Talks(d)' <=> Talks(d)
    BY <1>4 DEF Talks
  <2>. QED
    BY <1>4, <1>5, <2>1 DEF PoolsInv, MutexOK, WholeOK, ConnectionsOK, One
<1>. QED
  BY <1>1, <1>2, <1>6, <1>7 DEF PoolsInv
-----------------------------------------------------------------------------
(* The crawling threads. *)

(* A proxy that had left the pool may come back, but never in the middle of a *)
(* round.                                                                  *)
LEMMA ErrorKeeps ==
    ASSUME PoolsInv, NEW t \in Threads, errorProxy(t)
    PROVE  PoolsInv'
<1>1. PICK c \in Clients : c = ClientOf[t]
  BY ProxyAssumption
<1>2. PICK f : f = With(proxies_[c], proxyData[t], Count(proxies_[c], proxyData[t]) + 1)
  OBVIOUS
<1>3. /\ mutex_[c] = Free /\ pc[t] = "use"
      /\ proxies_' = [proxies_ EXCEPT ![c] = f]
      /\ pc' = [pc EXCEPT ![t] = "check"]
      /\ UNCHANGED <<mutex_, kept, bg, pool_>>
  BY <1>1, <1>2 DEF errorProxy, Returns, At, Locks, GoTo, sync, mysql
<1>4. bg[c] # "report"
  BY <1>3, ProxyAssumption DEF PoolsInv, MutexOK, Free, Bg
<1>5. DOMAIN proxies_[c] \subseteq DOMAIN f
  BY <1>2 DEF With
<1>6. \A d \in Clients : proxies_'[d] = IF d = c THEN f ELSE proxies_[d]
  BY <1>3 DEF PoolsInv, PoolsTyped
<1>7. proxies_' = [d \in Clients |-> proxies_'[d]]
  BY <1>3 DEF PoolsInv, PoolsTyped
<1>8. \A d \in Clients : /\ DOMAIN proxies_[d] \subseteq DOMAIN proxies_'[d]
                         /\ bg[d] = "report" => proxies_'[d] = proxies_[d]
  BY <1>4, <1>5, <1>6
<1>9. /\ pc' \in [Threads -> {"check", "draw", "use", "remove", "write", "ended"}]
      /\ \A u \in Threads : pc'[u] = IF u = t THEN "check" ELSE pc[u]
  BY <1>3 DEF PoolsInv, PoolsTyped
<1>10. \A u \in Threads : pc'[u] = pc[u] \/ {pc[u], pc'[u]} \cap {"remove", "write"} = {}
  BY <1>3, <1>9
<1>. QED
  BY <1>3, <1>7, <1>8, <1>9, <1>10, QuietKeeps

(* What a thread takes or frees with one step: the mutex of the pool, or that  *)
(* of TaskManager, and one connection with it.                             *)
LEMMA ThreadConnects ==
    ASSUME PoolsInv, NEW t \in Threads, NEW c \in Clients, c = ClientOf[t],
           NEW place \in {"check", "remove", "write"}, pc' = [pc EXCEPT ![t] = place],
           NEW n \in Int, pool_' = [pool_ EXCEPT ![c] = n],
           PoolsTyped', WriterOK', UNCHANGED bg,
           \A d \in Clients \ {c} : /\ mutex_'[d] = mutex_[d]
                                    /\ proxies_'[d] = proxies_[d] /\ kept'[d] = kept[d],
           MutexOK(c)', WholeOK(c)', ConnectionsOK(c)'
    PROVE  PoolsInv'
<1>1. \A u \in Threads : pc'[u] = IF u = t THEN place ELSE pc[u]
  BY DEF PoolsInv, PoolsTyped
<1>2. ASSUME NEW d \in Clients \ {c} PROVE (MutexOK(d) /\ WholeOK(d) /\ ConnectionsOK(d))'
  <2>1. pool_'[d] = pool_[d]
    BY DEF PoolsInv, PoolsTyped
  <2>2. Talks(d)' <=> Talks(d)
    BY DEF Talks
  <2>3. TaskManagerLocked(d)' <=> TaskManagerLocked(d)
    BY <1>1 DEF TaskManagerLocked
  <2>4. MutexOK(d)'
    BY <1>1 DEF PoolsInv, MutexOK
  <2>5. WholeOK(d)'
    BY DEF PoolsInv, WholeOK
  <2>6. ConnectionsOK(d)'
    BY <2>1, <2>2, <2>3 DEF PoolsInv, ConnectionsOK, One
  <2>. QED
    BY <2>4, <2>5, <2>6
<1>. QED
  BY <1>2 DEF PoolsInv

LEMMA RemovingKeeps ==
    ASSUME PoolsInv, NEW t \in Threads, removeProxy(t)
    PROVE  PoolsInv'
<1>1. PICK c \in Clients : c = ClientOf[t]
  BY ProxyAssumption
<1>2. PICK f, S, n : /\ f = Without(proxies_[c], {proxyData[t]})
                     /\ S = kept[c] \ {proxyData[t]}
                     /\ n = pool_[c] - 1
  OBVIOUS
<1>3. /\ mutex_[c] = Free /\ pc[t] = "use"
      /\ proxies_' = [proxies_ EXCEPT ![c] = f]
      /\ kept' = [kept EXCEPT ![c] = S]
      /\ mutex_' = [mutex_ EXCEPT ![c] = t]
      /\ pool_' = [pool_ EXCEPT ![c] = n]
      /\ pc' = [pc EXCEPT ![t] = "remove"]
      /\ UNCHANGED bg
  BY <1>1, <1>2 DEF removeProxy, Returns, At, Locks, GoTo, sync, Connects, Taken
<1>4. \A u \in Threads : pc'[u] = IF u = t THEN "remove" ELSE pc[u]
  BY <1>3 DEF PoolsInv, PoolsTyped
<1>5. /\ mutex_'[c] = t /\ pool_'[c] = n /\ proxies_'[c] = f /\ kept'[c] = S
      /\ n \in Int
      /\ \A d \in Clients \ {c} : /\ mutex_'[d] = mutex_[d]
                                  /\ proxies_'[d] = proxies_[d] /\ kept'[d] = kept[d]
  BY <1>2, <1>3 DEF PoolsInv, PoolsTyped
<1>6. bg[c] \notin {"report", "fetch"} /\ \A u \in Threads : ~ (pc[u] = "remove" /\ ClientOf[u] = c)
  <2>1. MutexOK(c)
    BY DEF PoolsInv
  <2>. QED
    BY <1>3, <2>1, Holders DEF MutexOK
<1>7. PoolsTyped'
  <2>1. proxies_' = [d \in Clients |-> proxies_'[d]] /\ kept' = [d \in Clients |-> kept'[d]]
    BY <1>3 DEF PoolsInv, PoolsTyped
  <2>2. mutex_' \in [Clients -> Threads \cup {Free, Bg}] /\ pool_' \in [Clients -> Int]
    BY <1>3, <1>5 DEF PoolsInv, PoolsTyped
  <2>3. /\ bg' \in [Clients -> {"sleep", "report", "fetch", "stop", "quit"}]
        /\ pc' \in [Threads -> {"check", "draw", "use", "remove", "write", "ended"}]
    BY <1>3 DEF PoolsInv, PoolsTyped
  <2>. QED
    BY <2>1, <2>2, <2>3 DEF PoolsTyped
<1>8. WriterOK'
  BY <1>4 DEF PoolsInv, WriterOK
<1>9. MutexOK(c)'
  BY <1>1, <1>3, <1>4, <1>5, <1>6, ProxyAssumption DEF MutexOK
<1>10. WholeOK(c)'
  BY <1>2, <1>3, <1>5 DEF PoolsInv, WholeOK, Without
<1>11. ConnectionsOK(c)'
  <2>1. ~ Talks(c) /\ Talks(c)'
    BY <1>3, <1>5, <1>6, ProxyAssumption DEF Talks
  <2>2. TaskManagerLocked(c)' <=> TaskManagerLocked(c)
    BY <1>3, <1>4 DEF TaskManagerLocked
  <2>. QED
    BY <1>2, <1>5, <2>1, <2>2 DEF PoolsInv, ConnectionsOK, One, pool_size_
<1>. QED
  BY <1>1, <1>3, <1>5, <1>7, <1>8, <1>9, <1>10, <1>11, ThreadConnects

LEMMA RemovedKeeps ==
    ASSUME PoolsInv, NEW t \in Threads, api_remove_proxy(t)
    PROVE  PoolsInv'
<1>1. PICK c \in Clients : c = ClientOf[t]
  BY ProxyAssumption
<1>2. PICK n : n = pool_[c] + 1
  OBVIOUS
<1>3. /\ pc[t] = "remove"
      /\ mutex_' = [mutex_ EXCEPT ![c] = Free]
      /\ pool_' = [pool_ EXCEPT ![c] = n]
      /\ pc' = [pc EXCEPT ![t] = "check"]
      /\ UNCHANGED <<proxies_, kept, bg>>
  BY <1>1, <1>2 DEF api_remove_proxy, At, GoTo, sync, Frees, freeConnection
<1>4. \A u \in Threads : pc'[u] = IF u = t THEN "check" ELSE pc[u]
  BY <1>3 DEF PoolsInv, PoolsTyped
<1>5. /\ mutex_'[c] = Free /\ pool_'[c] = n /\ n \in Int
      /\ \A d \in Clients \ {c} : mutex_'[d] = mutex_[d]
  BY <1>2, <1>3 DEF PoolsInv, PoolsTyped
<1>6. mutex_[c] = t
  BY <1>1, <1>3 DEF PoolsInv, MutexOK
<1>7. bg[c] \notin {"report", "fetch"} /\ \A u \in Threads : pc[u] = "remove" /\ ClientOf[u] = c => u = t
  BY <1>6, ProxyAssumption DEF PoolsInv, MutexOK
<1>8. PoolsTyped'
  BY <1>2, <1>3 DEF PoolsInv, PoolsTyped
<1>9. WriterOK'
  BY <1>4 DEF PoolsInv, WriterOK
<1>10. MutexOK(c)'
  <2>1. mutex_'[c] # Bg /\ \A u \in Threads : mutex_'[c] # u
    BY <1>5, Holders
  <2>2. bg'[c] \notin {"report", "fetch"}
    BY <1>3, <1>7
  <2>3. \A u \in Threads : ~ (pc'[u] = "remove" /\ ClientOf[u] = c)
    BY <1>4, <1>7
  <2>. QED
    BY <2>1, <2>2, <2>3 DEF MutexOK
<1>11. WholeOK(c)'
  BY <1>3 DEF PoolsInv, WholeOK
<1>12. ConnectionsOK(c)'
  <2>1. Talks(c) /\ ~ Talks(c)'
    BY <1>3, <1>5, <1>6, <1>7, ProxyAssumption DEF Talks
  <2>2. TaskManagerLocked(c)' <=> TaskManagerLocked(c)
    BY <1>3, <1>4 DEF TaskManagerLocked
  <2>. QED
    BY <1>2, <1>5, <2>1, <2>2 DEF PoolsInv, ConnectionsOK, One, pool_size_
<1>. QED
  BY <1>1, <1>3, <1>5, <1>8, <1>9, <1>10, <1>11, <1>12, ThreadConnects

LEMMA WriteKeeps ==
    ASSUME PoolsInv, NEW t \in Threads, writeToDb(t) \/ Written(t)
    PROVE  PoolsInv'
<1>1. PICK c \in Clients : c = ClientOf[t]
  BY ProxyAssumption
<1>2. PICK place \in {"check", "write"}, n \in Int :
         /\ pc' = [pc EXCEPT ![t] = place]
         /\ pool_' = [pool_ EXCEPT ![c] = n]
         /\ \/ pc[t] = "check" /\ place = "write" /\ n = pool_[c] - 1 /\ ~ TaskManagerLocked(c)
            \/ pc[t] = "write" /\ place = "check" /\ n = pool_[c] + 1
  <2>1. pool_[c] - 1 \in Int /\ pool_[c] + 1 \in Int
    BY DEF PoolsInv, PoolsTyped
  <2>. QED
    BY <1>1, <2>1 DEF writeToDb, Written, At, GoTo, Connects, Frees, Taken, freeConnection
<1>3. UNCHANGED <<proxies_, mutex_, kept, bg>>
  BY DEF writeToDb, Written, pool, sync
<1>4. \A u \in Threads : pc'[u] = IF u = t THEN place ELSE pc[u]
  BY <1>2 DEF PoolsInv, PoolsTyped
<1>5. pool_'[c] = n
  BY <1>2 DEF PoolsInv, PoolsTyped
<1>6. PoolsTyped'
  BY <1>2, <1>3, <1>5 DEF PoolsInv, PoolsTyped
<1>7. WriterOK'
  <2>1. CASE place = "check"
    BY <1>4, <2>1 DEF PoolsInv, WriterOK
  <2>2. CASE place = "write"
    <3>1. \A u \in Threads : ~ (pc[u] = "write" /\ ClientOf[u] = c)
      BY <1>2, <2>2 DEF TaskManagerLocked
    <3>. QED
      BY <1>1, <1>4, <3>1 DEF PoolsInv, WriterOK
  <2>. QED
    BY <2>1, <2>2
<1>8. MutexOK(c)' /\ WholeOK(c)'
  BY <1>2, <1>3, <1>4 DEF PoolsInv, MutexOK, WholeOK
<1>9. ConnectionsOK(c)'
  <2>1. Talks(c)' <=> Talks(c)
    BY <1>3 DEF Talks
  <2>2. CASE place = "write"
    <3>1. ~ TaskManagerLocked(c) /\ TaskManagerLocked(c)' /\ n = pool_[c] - 1
      BY <1>1, <1>2, <1>4, <2>2 DEF TaskManagerLocked
    <3>. QED
      BY <1>5, <2>1, <3>1 DEF PoolsInv, ConnectionsOK, One, pool_size_
  <2>3. CASE place = "check"
    <3>1. pc[t] = "write" /\ n = pool_[c] + 1
      BY <1>2, <2>3
    <3>2. \A u \in Threads : pc[u] = "write" /\ ClientOf[u] = c => u = t
      BY <1>1, <3>1 DEF PoolsInv, WriterOK
    <3>3. TaskManagerLocked(c) /\ ~ TaskManagerLocked(c)'
      BY <1>1, <1>4, <2>3, <3>1, <3>2 DEF TaskManagerLocked
    <3>. QED
      BY <1>5, <2>1, <3>1, <3>3 DEF PoolsInv, ConnectionsOK, One, pool_size_
  <2>. QED
    BY <2>2, <2>3
<1>. QED
  BY <1>1, <1>2, <1>3, <1>5, <1>6, <1>7, <1>8, <1>9, ThreadConnects

LEMMA CrawlingKeeps ==
    ASSUME PoolsInv, NEW t \in Threads, crawls(t)
    PROVE  PoolsInv'
<1>1. CASE Check(t)
  BY <1>1, ThreadGoesOn DEF Check, At, GoTo, sync, mysql
<1>2. CASE getRandomProxy(t)
  BY <1>2, ThreadGoesOn DEF getRandomProxy, At, GoTo, sync, mysql, crawler
<1>3. CASE Crawl(t)
  BY <1>3, ThreadGoesOn DEF Crawl, Returns, At, GoTo, sync, mysql
<1>. QED
  BY <1>1, <1>2, <1>3, ErrorKeeps, RemovingKeeps, RemovedKeeps, WriteKeeps DEF crawls
-----------------------------------------------------------------------------
(* The background thread. *)

LEMMA RoundBegins ==
    ASSUME PoolsInv, NEW c \in Clients, BgLocks(c)
    PROVE  PoolsInv'
<1>1. /\ bg[c] = "sleep" /\ mutex_[c] = Free
      /\ mutex_' = [mutex_ EXCEPT ![c] = Bg]
      /\ bg' = [bg EXCEPT ![c] = "report"]
      /\ UNCHANGED <<proxies_, kept, pc>>
      /\ pool_' = IF DOMAIN proxies_[c] = {} THEN pool_ ELSE [pool_ EXCEPT ![c] = pool_[c] - 1]
  BY DEF BgLocks, BgAt, BgGoTo, Connects, Taken, crawler
<1>2. /\ pool_' \in [Clients -> Int]
      /\ pool_'[c] = IF DOMAIN proxies_[c] = {} THEN pool_[c] ELSE pool_[c] - 1
      /\ \A d \in Clients \ {c} : pool_'[d] = pool_[d]
      /\ pool_[c] \in Int
  BY <1>1 DEF PoolsInv, PoolsTyped
<1>3. mutex_'[c] = Bg /\ bg'[c] = "report"
  BY <1>1 DEF PoolsInv, PoolsTyped
<1>4. WholeOK(c)'
  BY <1>1, <1>3 DEF PoolsInv, WholeOK
<1>5. ~ Talks(c) /\ (Talks(c)' <=> DOMAIN proxies_[c] # {})
  BY <1>1, <1>3, Holders DEF Talks
<1>6. pool_'[c] + One(Talks(c))' = pool_[c] + One(Talks(c))
  BY <1>2, <1>5 DEF One
<1>7. proxies_' = [d \in Clients |-> proxies_'[d]] /\ kept' = [d \in Clients |-> kept'[d]]
  BY <1>1 DEF PoolsInv, PoolsTyped
<1>. QED
  BY <1>1, <1>2, <1>4, <1>6, <1>7, RoundGoesOn

LEMMA RoundClears ==
    ASSUME PoolsInv, NEW c \in Clients, BgClears(c)
    PROVE  PoolsInv'
<1>1. PICK f : f = Cleared(c)
  OBVIOUS
<1>2. /\ bg[c] = "report"
      /\ mutex_' = [mutex_ EXCEPT ![c] = Bg]
      /\ bg' = [bg EXCEPT ![c] = "fetch"]
      /\ proxies_' = [proxies_ EXCEPT ![c] = f]
      /\ UNCHANGED <<kept, pc>>
      /\ pool_' = IF DOMAIN proxies_[c] = {} THEN [pool_ EXCEPT ![c] = pool_[c] - 1] ELSE pool_
  BY <1>1 DEF BgClears, HolderAfterClear, BgAt, BgGoTo, Connects, Taken, crawler
<1>3. /\ pool_' \in [Clients -> Int]
      /\ pool_'[c] = IF DOMAIN proxies_[c] = {} THEN pool_[c] - 1 ELSE pool_[c]
      /\ \A d \in Clients \ {c} : pool_'[d] = pool_[d] /\ proxies_'[d] = proxies_[d]
      /\ pool_[c] \in Int
  BY <1>2 DEF PoolsInv, PoolsTyped
<1>4. mutex_[c] = Bg /\ bg'[c] = "fetch"
  BY <1>2 DEF PoolsInv, PoolsTyped, MutexOK
<1>5. WholeOK(c)'
  BY <1>4 DEF WholeOK
<1>6. Talks(c)' /\ (Talks(c) <=> DOMAIN proxies_[c] # {})
  BY <1>2, <1>4, Holders DEF Talks
<1>7. pool_'[c] + One(Talks(c))' = pool_[c] + One(Talks(c))
  BY <1>3, <1>6 DEF One
<1>8. proxies_' = [d \in Clients |-> proxies_'[d]] /\ kept' = [d \in Clients |-> kept'[d]]
  BY <1>2 DEF PoolsInv, PoolsTyped
<1>. QED
  BY <1>2, <1>3, <1>4, <1>5, <1>7, <1>8, RoundGoesOn

(* The mutex is given back with the connection, whether it went well or not. *)
LEMMA RoundEnds ==
    ASSUME PoolsInv, NEW c \in Clients, ReportFails(c) \/ BgFetches(c) \/ BgGivesUp(c)
    PROVE  PoolsInv'
<1>1. PICK b \in {"sleep", "stop"} :
         /\ mutex_' = [mutex_ EXCEPT ![c] = Free]
         /\ bg' = [bg EXCEPT ![c] = b]
         /\ pool_' = [pool_ EXCEPT ![c] = pool_[c] + 1]
         /\ UNCHANGED pc
         /\ \/ bg[c] = "report" /\ DOMAIN proxies_[c] # {}
            \/ bg[c] = "fetch"
         /\ \/ b = "stop" /\ UNCHANGED <<proxies_, kept>>
            \/ BgFetches(c)
  <2>1. CASE ReportFails(c)
    BY <2>1 DEF ReportFails, HolderAfterBreak, BgAt, BgGoTo, Frees, freeConnection, crawler
  <2>2. CASE BgFetches(c)
    BY <2>2 DEF BgFetches, BgAt, BgGoTo, Frees, freeConnection, crawler
  <2>3. CASE BgGivesUp(c)
    BY <2>3 DEF BgGivesUp, HolderAfterBreak, BgAt, BgGoTo, Frees, freeConnection, crawler
  <2>. QED
    BY <2>1, <2>2, <2>3
<1>2. /\ pool_' \in [Clients -> Int]
      /\ pool_'[c] = pool_[c] + 1
      /\ \A d \in Clients \ {c} : pool_'[d] = pool_[d]
      /\ pool_[c] \in Int
  BY <1>1 DEF PoolsInv, PoolsTyped
<1>3. mutex_[c] = Bg /\ mutex_'[c] = Free /\ bg'[c] = b
  BY <1>1 DEF PoolsInv, PoolsTyped, MutexOK
<1>4. /\ proxies_' = [d \in Clients |-> proxies_'[d]] /\ kept' = [d \in Clients |-> kept'[d]]
      /\ \A d \in Clients \ {c} : proxies_'[d] = proxies_[d] /\ kept'[d] = kept[d]
      /\ WholeOK(c)'
  <2>1. CASE b = "stop" /\ UNCHANGED <<proxies_, kept>>
    BY <1>3, <2>1 DEF PoolsInv, PoolsTyped, WholeOK
  <2>2. CASE BgFetches(c)
    <3>1. PICK f, S : f = Fetched(c) /\ S = Usable
      OBVIOUS
    <3>2. S \subseteq DOMAIN f
      BY <3>1 DEF Fetched
    <3>3. proxies_' = [proxies_ EXCEPT ![c] = f] /\ kept' = [kept EXCEPT ![c] = S]
      BY <2>2, <3>1 DEF BgFetches
    <3>4. proxies_'[c] = f /\ kept'[c] = S
      BY <3>3 DEF PoolsInv, PoolsTyped
    <3>5. WholeOK(c)'
      BY <3>2, <3>4 DEF WholeOK
    <3>. QED
      BY <3>3, <3>5 DEF PoolsInv, PoolsTyped
  <2>. QED
    BY <1>1, <2>1, <2>2
<1>5. Talks(c) /\ ~ Talks(c)'
  BY <1>1, <1>3, Holders DEF Talks
<1>6. pool_'[c] + One(Talks(c))' = pool_[c] + One(Talks(c))
  BY <1>2, <1>5 DEF One
<1>. QED
  <2>1. Free = Bg <=> b \in {"report", "fetch"}
    BY Holders
  <2>. QED
    BY <1>1, <1>2, <1>3, <1>4, <1>6, <2>1, RoundGoesOn

LEMMA StoppingKeeps ==
    ASSUME PoolsInv, NEW c \in Clients, BgEnds(c) \/ BgStops(c)
    PROVE  PoolsInv'
<1>1. PICK b \in {"stop", "quit"} :
         /\ bg[c] \in {"sleep", "stop"}
         /\ bg' = [bg EXCEPT ![c] = b]
         /\ UNCHANGED <<proxies_, kept, mutex_, pool_, pc>>
  BY DEF BgEnds, BgStops, BgAt, BgGoTo, pool, mysql, crawler
<1>2. \A d \in Clients : bg'[d] = IF d = c THEN b ELSE bg[d]
  BY <1>1 DEF PoolsInv, PoolsTyped
<1>3. PoolsTyped' /\ WriterOK'
  BY <1>1 DEF PoolsInv, PoolsTyped, WriterOK
<1>4. ASSUME NEW d \in Clients PROVE (MutexOK(d) /\ WholeOK(d) /\ ConnectionsOK(d))'
  <2>1. Talks(d)' <=> Talks(d)
    BY <1>1, <1>2 DEF Talks
  <2>2. TaskManagerLocked(d)' <=> TaskManagerLocked(d)
    BY <1>1 DEF TaskManagerLocked
  <2>3. MutexOK(d)'
    BY <1>1, <1>2 DEF PoolsInv, MutexOK
  <2>4. WholeOK(d)'
    BY <1>1, <1>2 DEF PoolsInv, WholeOK
  <2>5. ConnectionsOK(d)'
    BY <1>1, <2>1, <2>2 DEF PoolsInv, ConnectionsOK, One
  <2>. QED
    BY <2>3, <2>4, <2>5
<1>. QED
  BY <1>3, <1>4 DEF PoolsInv

LEMMA NothingMoves ==
    ASSUME PoolsInv, UNCHANGED <<pool, bg, pool_, pc>>
    PROVE  PoolsInv'
<1>1. proxies_' = [c \in Clients |-> proxies_'[c]]
  BY DEF pool, PoolsInv, PoolsTyped
<1>2. pc' \in [Threads -> {"check", "draw", "use", "remove", "write", "ended"}]
  BY DEF PoolsInv, PoolsTyped
<1>. QED
  BY <1>1, <1>2, QuietKeeps DEF pool

LEMMA PoolsStepKeeps ==
    ASSUME PoolsInv, [Next]_vars
    PROVE  PoolsInv'
<1>1. ASSUME NEW t \in Threads, crawls(t) PROVE PoolsInv'
  BY <1>1, CrawlingKeeps
<1>2. ASSUME NEW c \in Clients, backgroundThread(c) PROVE PoolsInv'
  <2>1. CASE api_error_proxy(c)
    BY <2>1, NothingMoves DEF api_error_proxy, mysql, crawler
  <2>. QED
    BY <1>2, <2>1, RoundBegins, RoundClears, RoundEnds, StoppingKeeps DEF backgroundThread
<1>3. ASSUME NEW c \in Clients, g_stop(c) PROVE PoolsInv'
  BY <1>3, NothingMoves DEF g_stop, sync, mysql, crawler
<1>4. CASE addProxies \/ removeProxies
  BY <1>4, NothingMoves DEF addProxies, removeProxies, sync, mysql, crawler
<1>5. CASE UNCHANGED vars
  BY <1>5, NothingMoves DEF vars, sync, mysql, crawler
<1>. QED
  BY <1>1, <1>2, <1>3, <1>4, <1>5 DEF Next

LEMMA PoolsInvHolds == Spec => []PoolsInv
<1>1. Init => PoolsInv
  BY InitPools
<1>2. PoolsInv /\ [Next]_vars => PoolsInv'
  BY PoolsStepKeeps
<1>. QED
  BY <1>1, <1>2, PTL DEF Spec

(* The background thread clears the pool and asks the database for another one: *)
(* no thread that gets the mutex finds it in between, whoever reports errors or  *)
(* removes proxies meanwhile.                                               *)
THEOREM ExchangeIsAtomic == Spec => []PoolSeenWhole
<1>1. PoolsInv => PoolSeenWhole
  <2>1. SUFFICES ASSUME PoolsInv, NEW c \in Clients, mutex_[c] = Free, bg[c] \notin {"stop", "quit"}
                 PROVE  kept[c] \subseteq DOMAIN proxies_[c]
    BY DEF PoolSeenWhole
  <2>2. bg[c] \in {"sleep", "report", "fetch"} /\ MutexOK(c) /\ WholeOK(c)
    BY <2>1 DEF PoolsInv, PoolsTyped
  <2>. QED
    BY <2>1, <2>2, Holders DEF MutexOK, WholeOK
<1>. QED
  BY <1>1, PoolsInvHolds, PTL

(* Nobody waits in getConnection, with the mutex that freeConnection needs, for  *)
(* a connection: of the pool_size_ that a client has two are taken at most, by   *)
(* whoever has the mutex of ProxyPool and by whoever has that of TaskManager.  *)
THEOREM NobodyWaitsForConnection == Spec => []ConnectionIsFree
<1>1. PoolsInv => ConnectionIsFree
  <2>1. SUFFICES ASSUME PoolsInv, NEW c \in Clients
                 PROVE  pool_[c] \in 1 .. pool_size_
    BY DEF ConnectionIsFree
  <2>2. pool_[c] = pool_size_ - One(Talks(c)) - One(TaskManagerLocked(c))
    BY <2>1 DEF PoolsInv, ConnectionsOK
  <2>3. One(Talks(c)) \in {0, 1} /\ One(TaskManagerLocked(c)) \in {0, 1}
    BY DEF One
  <2>. QED
    BY <2>2, <2>3 DEF pool_size_
<1>. QED
  BY <1>1, PoolsInvHolds, PTL
-----------------------------------------------------------------------------
(* The sum of the values of a function to the natural numbers. *)

LEMMA Unit ==
    ASSUME NEW f, NEW D, f \in [D -> Nat], NEW x, NEW i
    PROVE  <<x, i>> \in Places(f) <=> x \in D /\ i \in 1 .. f[x]
<1>1. DOMAIN f = D
  OBVIOUS
<1>2. ASSUME x \in D, i \in 1 .. f[x] PROVE <<x, i>> \in Places(f)
  <2>1. <<x, i>> \in {x} \X (1 .. f[x])
    BY <1>2
  <2>. QED
    BY <1>1, <1>2, <2>1 DEF Places
<1>3. ASSUME <<x, i>> \in Places(f) PROVE x \in D /\ i \in 1 .. f[x]
  <2>1. PICK y \in D : <<x, i>> \in {y} \X (1 .. f[y])
    BY <1>1, <1>3 DEF Places
  <2>2. x = y /\ i \in 1 .. f[y]
    BY <2>1
  <2>. QED
    BY <2>2
<1>. QED
  BY <1>2, <1>3

LEMMA PlaceIsUnit ==
    ASSUME NEW f, NEW q \in Places(f)
    PROVE  q = <<q[1], q[2]>>
BY DEF Places

(* It is a natural number, and none of the values is greater. *)
LEMMA TotalType ==
    ASSUME NEW D, IsFiniteSet(D), NEW f \in [D -> Nat]
    PROVE  /\ IsFiniteSet(Places(f)) /\ Total(f) \in Nat
           /\ \A x \in D : f[x] <= Total(f)
<1>. DEFINE Column(x) == {x} \X (1 .. f[x])
            Columns == {Column(x) : x \in D}
<1>1. \A x \in D : /\ IsFiniteSet(Column(x))
                   /\ Cardinality(Column(x)) = f[x]
  <2>1. ASSUME NEW x \in D PROVE IsFiniteSet(Column(x)) /\ Cardinality(Column(x)) = f[x]
    <3>1. f[x] \in Nat
      OBVIOUS
    <3>2. IsFiniteSet(1 .. f[x]) /\ Cardinality(1 .. f[x]) = f[x]
      BY <3>1, FS_Interval
    <3>3. IsFiniteSet({x}) /\ Cardinality({x}) = 1
      BY FS_Singleton
    <3>4. IsFiniteSet(Column(x)) /\ Cardinality(Column(x)) = Cardinality({x}) * Cardinality(1 .. f[x])
      BY <3>2, <3>3, FS_Product
    <3>. QED
      BY <3>1, <3>2, <3>3, <3>4
  <2>. QED
    BY <2>1
<1>2. IsFiniteSet(Columns)
  <2>1. PICK g : g = [x \in D |-> Column(x)]
    OBVIOUS
  <2>2. g \in Surjection(D, Columns)
    BY <2>1 DEF Surjection
  <2>. QED
    BY <2>2, FS_Surjection
<1>3. IsFiniteSet(UNION Columns)
  BY <1>1, <1>2, FS_UNION
<1>4. Places(f) = UNION Columns
  BY DEF Places
<1>5. Total(f) \in Nat
  BY <1>3, <1>4, FS_CardinalityType DEF Total
<1>6. ASSUME NEW x \in D PROVE f[x] <= Total(f)
  <2>1. Column(x) \in SUBSET Places(f)
    BY <1>4
  <2>. QED
    <3>1. Cardinality(Column(x)) <= Cardinality(Places(f))
      BY <1>3, <1>4, <2>1, FS_Subset
    <3>2. Cardinality(Column(x)) = f[x]
      BY <1>1
    <3>. HIDE DEF Column
    <3>. QED
      BY <3>1, <3>2 DEF Total
<1>. QED
  BY <1>3, <1>4, <1>5, <1>6

LEMMA TotalZero ==
    ASSUME NEW D, NEW f \in [D -> Nat], \A x \in D : f[x] = 0
    PROVE  Total(f) = 0
<1>1. Places(f) = {}
  BY DEF Places
<1>. QED
  BY <1>1, FS_EmptySet DEF Total

(* One value grows, and so much does the sum. *)
LEMMA TotalGrows ==
    ASSUME NEW D, IsFiniteSet(D), NEW f \in [D -> Nat], NEW g \in [D -> Nat], NEW x \in D,
           \A y \in D \ {x} : g[y] = f[y], f[x] <= g[x]
    PROVE  Total(g) = Total(f) + (g[x] - f[x])
<1>1. PICK m \in Nat, n \in Nat : m = f[x] /\ m + n = g[x]
  <2>1. f[x] \in Nat /\ g[x] \in Nat /\ g[x] - f[x] \in Nat
    OBVIOUS
  <2>. QED
    BY <2>1
<1>2. PICK New : New = {x} \X (m + 1 .. m + n)
  OBVIOUS
<1>3. IsFiniteSet(New) /\ Cardinality(New) = n
  <2>1. m + 1 \in Int /\ m + n \in Int
    OBVIOUS
  <2>2. IsFiniteSet(m + 1 .. m + n) /\ Cardinality(m + 1 .. m + n) = n
    <3>1. /\ IsFiniteSet(m + 1 .. m + n)
          /\ Cardinality(m + 1 .. m + n) = IF m + 1 > m + n THEN 0 ELSE (m + n) - (m + 1) + 1
      BY <2>1, FS_Interval
    <3>2. n = IF m + 1 > m + n THEN 0 ELSE (m + n) - (m + 1) + 1
      OBVIOUS
    <3>. QED
      BY <3>1, <3>2
  <2>3. IsFiniteSet({x}) /\ Cardinality({x}) = 1
    BY FS_Singleton
  <2>4. IsFiniteSet(New) /\ Cardinality(New) = Cardinality({x}) * Cardinality(m + 1 .. m + n)
    BY <1>2, <2>2, <2>3, FS_Product
  <2>. QED
    BY <2>2, <2>3, <2>4
<1>4. Places(g) = Places(f) \cup New
  <2>1. ASSUME NEW q \in Places(g) PROVE q \in Places(f) \cup New
    <3>1. PICK y, i : q = <<y, i>>
      BY PlaceIsUnit
    <3>2. y \in D /\ i \in 1 .. g[y]
      BY <3>1, Unit
    <3>3. CASE y # x
      BY <3>1, <3>2, <3>3, Unit
    <3>4. CASE y = x /\ i <= m
      BY <1>1, <3>1, <3>2, <3>4, Unit
    <3>5. CASE y = x /\ ~ (i <= m)
      BY <1>1, <1>2, <3>1, <3>2, <3>5
    <3>. QED
      BY <3>3, <3>4, <3>5
  <2>2. ASSUME NEW q \in Places(f) PROVE q \in Places(g)
    <3>1. PICK y, i : q = <<y, i>>
      BY PlaceIsUnit
    <3>2. y \in D /\ i \in 1 .. f[y]
      BY <3>1, Unit
    <3>3. i \in 1 .. g[y]
      BY <1>1, <3>2
    <3>. QED
      BY <3>1, <3>2, <3>3, Unit
  <2>3. ASSUME NEW q \in New PROVE q \in Places(g)
    <3>1. PICK i \in m + 1 .. m + n : q = <<x, i>>
      BY <1>2
    <3>2. i \in 1 .. g[x]
      BY <1>1, <3>1
    <3>. QED
      BY <3>1, <3>2, Unit
  <2>. QED
    BY <2>1, <2>2, <2>3
<1>5. Places(f) \cap New = {}
  <2>1. ASSUME NEW q \in Places(f), q \in New PROVE FALSE
    <3>1. PICK i \in m + 1 .. m + n : q = <<x, i>>
      BY <1>2, <2>1
    <3>2. i \in 1 .. f[x]
      BY <2>1, <3>1, Unit
    <3>. QED
      BY <1>1, <3>1, <3>2
  <2>. QED
    BY <2>1
<1>6. IsFiniteSet(Places(f)) /\ Total(f) \in Nat
  BY TotalType
<1>7. Cardinality(Places(f) \cup New) = Cardinality(Places(f)) + Cardinality(New) - Cardinality({})
  BY <1>3, <1>5, <1>6, FS_Union
<1>8. Total(g) = Total(f) + n
  BY <1>3, <1>4, <1>6, <1>7, FS_EmptySet DEF Total
<1>. QED
  BY <1>1, <1>6, <1>8

LEMMA TotalMoves ==
    ASSUME NEW D, IsFiniteSet(D), NEW f \in [D -> Nat], NEW g \in [D -> Nat], NEW x \in D,
           \A y \in D \ {x} : g[y] = f[y]
    PROVE  Total(g) = Total(f) + (g[x] - f[x])
<1>1. f[x] \in Nat /\ g[x] \in Nat /\ Total(f) \in Nat /\ Total(g) \in Nat
  BY TotalType
<1>2. CASE f[x] <= g[x]
  BY <1>2, TotalGrows
<1>3. CASE g[x] <= f[x]
  <2>1. Total(f) = Total(g) + (f[x] - g[x])
    BY <1>3, TotalGrows
  <2>. QED
    BY <1>1, <2>1
<1>. QED
  BY <1>1, <1>2, <1>3
-----------------------------------------------------------------------------
CountsTyped ==
    /\ table \in [DOMAIN table -> Nat] /\ DOMAIN table \subseteq Proxies
    /\ errors \in [Proxies -> Nat]
    /\ proxies_ = [c \in Clients |-> proxies_[c]]
    /\ reported = [c \in Clients |-> reported[c]]
    /\ bg = [c \in Clients |-> bg[c]]

(* No count of a pool is more than was reported of its errors; those it has  *)
(* told the table are the pool's as they are, until the pool is cleared.   *)
LocalOK(c) ==
    /\ DOMAIN reported[c] \subseteq DOMAIN proxies_[c]
    /\ DOMAIN proxies_[c] \subseteq Proxies
    /\ proxies_[c] \in [DOMAIN proxies_[c] -> Nat]
    /\ reported[c] \in [DOMAIN reported[c] -> Nat]
    /\ \A p \in DOMAIN proxies_[c] : proxies_[c][p] <= errors[p]
    /\ \A p \in DOMAIN reported[c] : reported[c][p] <= proxies_[c][p]
    /\ bg[c] = "report" => \A p \in DOMAIN reported[c] : reported[c][p] = proxies_[c][p]
    /\ bg[c] \in {"sleep", "fetch"} => DOMAIN reported[c] = {}

(* What all clients have counted and not told the table. *)
Waiting(p) == Total([c \in Clients |-> Pending(c, p)])
Known(p) == Count(table, p) + Waiting(p)

(* Whatever is not in the table was discarded. *)
AddUp(p) ==
    /\ Known(p) <= errors[p]
    /\ p \notin discarded => p \in DOMAIN table /\ Known(p) = errors[p]

(* What a thread uses is a proxy. *)
UsesTyped ==
    /\ proxyData = [t \in Threads |-> proxyData[t]]
    /\ \A t \in Threads : proxyData[t] \in Proxies <=> pc[t] \in {"use", "remove"}

UsesOK ==
    /\ UsesTyped
    /\ Total(errors) <= MaxErrors
    /\ fetcher \in {"query", "added"}
    /\ adds \in 0 .. MaxAdds
    /\ g_forceStop \in [Clients -> BOOLEAN]
    /\ crashed \in [Clients -> BOOLEAN]

CountsInv ==
    /\ CountsTyped /\ UsesOK
    /\ \A c \in Clients : LocalOK(c)
    /\ \A p \in Proxies : AddUp(p)
-----------------------------------------------------------------------------
LEMMA PendingType ==
    ASSUME NEW f, NEW r, NEW p, DOMAIN r \subseteq DOMAIN f,
           f \in [DOMAIN f -> Nat], r \in [DOMAIN r -> Nat],
           \A q \in DOMAIN r : r[q] <= f[q]
    PROVE  (IF p \in DOMAIN f THEN f[p] - Count(r, p) ELSE 0) \in Nat
<1>1. CASE p \in DOMAIN r
  <2>1. r[p] \in Nat /\ f[p] \in Nat /\ r[p] <= f[p]
    BY <1>1
  <2>2. f[p] - r[p] \in Nat
    BY <2>1
  <2>. QED
    BY <1>1, <2>2 DEF Count
<1>2. CASE p \in DOMAIN f \ DOMAIN r
  <2>1. f[p] \in Nat
    BY <1>2
  <2>. QED
    BY <1>2, <2>1 DEF Count
<1>3. CASE p \notin DOMAIN f
  BY <1>3
<1>. QED
  BY <1>1, <1>2, <1>3

LEMMA PendingNow ==
    ASSUME NEW c \in Clients, LocalOK(c), NEW p
    PROVE  Pending(c, p) \in Nat
BY PendingType DEF LocalOK, Pending

LEMMA PendingThen ==
    ASSUME NEW c \in Clients, LocalOK(c)', NEW p
    PROVE  Pending(c, p)' \in Nat
BY PendingType DEF LocalOK, Pending

(* What waits in the pools changes as the pool of one client does. *)
LEMMA WaitingMoves ==
    ASSUME \A c \in Clients : LocalOK(c), \A c \in Clients : LocalOK(c)',
           NEW c \in Clients, NEW p,
           \A d \in Clients \ {c} : Pending(d, p)' = Pending(d, p)
    PROVE  /\ Waiting(p) \in Nat /\ Waiting(p)' \in Nat
           /\ Waiting(p)' = Waiting(p) + (Pending(c, p)' - Pending(c, p))
<1>1. PICK f, g : f = [d \in Clients |-> Pending(d, p)] /\ g = [d \in Clients |-> Pending(d, p)']
  OBVIOUS
<1>2. f \in [Clients -> Nat]
  BY <1>1, PendingNow
<1>3. g \in [Clients -> Nat]
  BY <1>1, PendingThen
<1>4. \A d \in Clients \ {c} : g[d] = f[d]
  BY <1>1
<1>5. IsFiniteSet(Clients)
  BY ProxyAssumption
<1>6. Total(g) = Total(f) + (g[c] - f[c])
  BY <1>2, <1>3, <1>4, <1>5, TotalMoves
<1>7. Total(f) \in Nat /\ Total(g) \in Nat
  BY <1>2, <1>3, <1>5, TotalType
<1>8. Waiting(p) = Total(f) /\ Waiting(p)' = Total(g)
  BY <1>1 DEF Waiting
<1>. QED
  BY <1>1, <1>6, <1>7, <1>8

LEMMA WaitingStays ==
    ASSUME \A c \in Clients : LocalOK(c), UNCHANGED <<proxies_, reported>>, NEW p
    PROVE  Waiting(p) \in Nat /\ Waiting(p)' = Waiting(p)
<1>1. PICK f : f = [d \in Clients |-> Pending(d, p)]
  OBVIOUS
<1>2. f \in [Clients -> Nat]
  BY <1>1, PendingNow
<1>3. \A d \in Clients : Pending(d, p)' = Pending(d, p)
  BY DEF Pending
<1>4. Waiting(p) = Total(f) /\ Waiting(p)' = Total(f)
  BY <1>1, <1>3 DEF Waiting
<1>. QED
  BY <1>2, <1>4, ProxyAssumption, TotalType

(* A row and the counts that wait for it grow with the errors, or the proxy   *)
(* is one that was discarded.                                              *)
LEMMA StillAddUp ==
    ASSUME CountsInv, CountsTyped',
           \A p \in Proxies : Waiting(p) \in Nat /\ Waiting(p)' \in Nat,
           \A p \in Proxies :
              \/ /\ Known(p)' - Known(p) = errors'[p] - errors[p]
                 /\ p \in discarded => p \in discarded'
                 /\ p \in DOMAIN table => p \in DOMAIN table'
              \/ Known(p)' <= Known(p) /\ errors[p] <= errors'[p] /\ p \in discarded'
    PROVE  \A p \in Proxies : AddUp(p)'
<1>. SUFFICES ASSUME NEW p \in Proxies PROVE AddUp(p)'
  OBVIOUS
<1>1. AddUp(p)
  BY DEF CountsInv
<1>2. Known(p) \in Nat /\ Known(p)' \in Nat
  <2>1. Count(table, p) \in Nat /\ Count(table, p)' \in Nat
    BY DEF CountsInv, CountsTyped, Count
  <2>2. \A i, j \in Nat : i + j \in Nat
    OBVIOUS
  <2>3. Count(table, p) + Waiting(p) \in Nat /\ (Count(table, p) + Waiting(p))' \in Nat
    BY <2>1, <2>2
  <2>. QED
    BY <2>3 DEF Known
<1>3. errors[p] \in Nat /\ errors'[p] \in Nat
  BY DEF CountsInv, CountsTyped
<1>. QED
  BY <1>1, <1>2, <1>3 DEF AddUp
-----------------------------------------------------------------------------
(* Steps that count nothing. *)

LEMMA LocalUnmoved ==
    ASSUME NEW c \in Clients, LocalOK(c), UNCHANGED <<proxies_[c], reported[c]>>,
           \A p \in Proxies : errors[p] \in Nat /\ errors'[p] \in Nat /\ errors[p] <= errors'[p],
           \/ bg'[c] = bg[c]
           \/ DOMAIN reported[c] = {}
           \/ bg'[c] \in {"stop", "quit"}
    PROVE  LocalOK(c)'
<1>1. \A p \in DOMAIN proxies_[c] : proxies_[c][p] <= errors'[p]
  <2>. SUFFICES ASSUME NEW p \in DOMAIN proxies_[c] PROVE proxies_[c][p] <= errors'[p]
    OBVIOUS
  <2>1. /\ p \in Proxies /\ proxies_[c][p] \in Nat /\ proxies_[c][p] <= errors[p]
    BY DEF LocalOK
  <2>2. errors[p] \in Nat /\ errors'[p] \in Nat /\ errors[p] <= errors'[p]
    BY <2>1
  <2>. QED
    BY <2>1, <2>2
<1>2. bg'[c] = "report" => \A p \in DOMAIN reported[c] : reported[c][p] = proxies_[c][p]
  BY DEF LocalOK
<1>3. bg'[c] \in {"sleep", "fetch"} => DOMAIN reported[c] = {}
  BY DEF LocalOK
<1>. QED
  BY <1>1, <1>2, <1>3 DEF LocalOK

(* The background thread may be elsewhere then. *)
LEMMA NothingCounted ==
    ASSUME CountsInv, UNCHANGED <<table, errors, discarded, proxies_, reported>>,
           bg' = [c \in Clients |-> bg'[c]],
           \A c \in Clients : \/ bg'[c] = bg[c]
                              \/ DOMAIN reported[c] = {}
                              \/ bg'[c] \in {"stop", "quit"}
    PROVE  CountsTyped' /\ (\A c \in Clients : LocalOK(c)') /\ \A p \in Proxies : AddUp(p)'
<1>1. CountsTyped'
  BY DEF CountsInv, CountsTyped
<1>2. \A p \in Proxies : errors[p] \in Nat /\ errors'[p] \in Nat /\ errors[p] <= errors'[p]
  BY DEF CountsInv, CountsTyped
<1>3. ASSUME NEW c \in Clients PROVE LocalOK(c)'
  BY <1>2, LocalUnmoved DEF CountsInv
<1>4. \A p \in Proxies : Waiting(p) \in Nat /\ Waiting(p)' = Waiting(p)
  BY WaitingStays DEF CountsInv
<1>5. \A p \in Proxies : Known(p)' = Known(p)
  BY <1>4 DEF Known, Count
<1>6. \A p \in Proxies : AddUp(p)'
  BY <1>5 DEF CountsInv, AddUp
<1>. QED
  BY <1>1, <1>3, <1>6
-----------------------------------------------------------------------------
(* Steps of the table alone: rows are deleted, which discards their proxies, or *)
(* added with a count of 0.                                                *)
LEMMA RowsChange ==
    ASSUME CountsInv, UNCHANGED <<errors, proxies_, reported, bg>>,
           table' \in [DOMAIN table' -> Nat], DOMAIN table' \subseteq Proxies,
           discarded \subseteq discarded',
           \A p \in Proxies : \/ Count(table, p)' = Count(table, p) /\ (p \in DOMAIN table => p \in DOMAIN table')
                              \/ p \in discarded' /\ p \notin DOMAIN table'
    PROVE  CountsTyped' /\ (\A c \in Clients : LocalOK(c)') /\ \A p \in Proxies : AddUp(p)'
<1>1. CountsTyped'
  BY DEF CountsInv, CountsTyped
<1>2. \A p \in Proxies : errors[p] \in Nat /\ errors'[p] \in Nat /\ errors[p] <= errors'[p] /\ errors'[p] = errors[p]
  BY DEF CountsInv, CountsTyped
<1>3. \A c \in Clients : LocalOK(c)'
  BY <1>2, LocalUnmoved DEF CountsInv
<1>4. \A p \in Proxies : Waiting(p) \in Nat /\ Waiting(p)' = Waiting(p)
  BY WaitingStays DEF CountsInv
<1>5. ASSUME NEW p \in Proxies
      PROVE  \/ /\ Known(p)' - Known(p) = errors'[p] - errors[p]
                /\ p \in discarded => p \in discarded'
                /\ p \in DOMAIN table => p \in DOMAIN table'
             \/ Known(p)' <= Known(p) /\ errors[p] <= errors'[p] /\ p \in discarded'
  <2>1. Count(table, p) \in Nat /\ Count(table, p)' \in Nat
    BY DEF CountsInv, CountsTyped, Count
  <2>2. Waiting(p) \in Nat /\ Waiting(p)' = Waiting(p)
    BY <1>4
  <2>3. CASE Count(table, p)' = Count(table, p) /\ (p \in DOMAIN table => p \in DOMAIN table')
    BY <1>2, <2>1, <2>2, <2>3 DEF Known
  <2>4. CASE p \in discarded' /\ p \notin DOMAIN table'
    <3>1. Count(table, p)' = 0
      BY <2>4 DEF Count
    <3>. QED
      BY <1>2, <2>1, <2>2, <2>4, <3>1 DEF Known
  <2>. QED
    BY <2>3, <2>4
<1>6. \A p \in Proxies : AddUp(p)'
  BY <1>1, <1>4, <1>5, StillAddUp
<1>. QED
  BY <1>1, <1>3, <1>6

LEMMA DeletedRows ==
    ASSUME CountsInv, NEW S, DeleteRows(S), UNCHANGED <<errors, proxies_, reported, bg>>
    PROVE  CountsTyped' /\ (\A c \in Clients : LocalOK(c)') /\ \A p \in Proxies : AddUp(p)'
<1>1. table' = [p \in DOMAIN table \ S |-> table[p]] /\ discarded' = discarded \cup S
  BY DEF DeleteRows, Without
<1>2. table' \in [DOMAIN table' -> Nat] /\ DOMAIN table' \subseteq Proxies
  BY <1>1 DEF CountsInv, CountsTyped
<1>3. \A p \in Proxies : \/ Count(table, p)' = Count(table, p) /\ (p \in DOMAIN table => p \in DOMAIN table')
                         \/ p \in discarded' /\ p \notin DOMAIN table'
  BY <1>1 DEF Count
<1>. QED
  BY <1>1, <1>2, <1>3, RowsChange

LEMMA AddedRows ==
    ASSUME CountsInv, addProxies
    PROVE  CountsTyped' /\ (\A c \in Clients : LocalOK(c)') /\ \A p \in Proxies : AddUp(p)'
<1>1. PICK S \in SUBSET Proxies :
         table' = [p \in DOMAIN table \cup S |-> IF p \in DOMAIN table THEN table[p] ELSE 0]
  BY DEF addProxies
<1>2. UNCHANGED <<errors, proxies_, reported, bg, discarded>>
  BY DEF addProxies, pool, sync
<1>3. table' \in [DOMAIN table' -> Nat] /\ DOMAIN table' \subseteq Proxies
  BY <1>1 DEF CountsInv, CountsTyped
<1>4. \A p \in Proxies : Count(table, p)' = Count(table, p) /\ (p \in DOMAIN table => p \in DOMAIN table')
  BY <1>1 DEF Count
<1>. QED
  BY <1>2, <1>3, <1>4, RowsChange
-----------------------------------------------------------------------------
(* Steps in the pool of one client. *)

LEMMA OnePoolMoves ==
    ASSUME CountsInv, CountsTyped', NEW c \in Clients, LocalOK(c)',
           \A d \in Clients \ {c} : UNCHANGED <<proxies_[d], reported[d], bg[d]>>,
           \A p \in Proxies : errors[p] <= errors'[p],
           \A p \in Proxies :
              \/ /\ (Count(table, p)' + Pending(c, p)') - (Count(table, p) + Pending(c, p)) = errors'[p] - errors[p]
                 /\ p \in discarded => p \in discarded'
                 /\ p \in DOMAIN table => p \in DOMAIN table'
              \/ Count(table, p)' + Pending(c, p)' <= Count(table, p) + Pending(c, p) /\ p \in discarded'
    PROVE  (\A d \in Clients : LocalOK(d)') /\ \A p \in Proxies : AddUp(p)'
<1>1. \A p \in Proxies : errors[p] \in Nat /\ errors'[p] \in Nat /\ errors[p] <= errors'[p]
  BY DEF CountsInv, CountsTyped
<1>2. \A d \in Clients : LocalOK(d) /\ LocalOK(d)'
  <2>1. ASSUME NEW d \in Clients \ {c} PROVE LocalOK(d)'
    BY <1>1, LocalUnmoved DEF CountsInv
  <2>. QED
    BY <2>1 DEF CountsInv
<1>3. ASSUME NEW p \in Proxies
      PROVE  /\ Waiting(p) \in Nat /\ Waiting(p)' \in Nat
             /\ Waiting(p)' = Waiting(p) + (Pending(c, p)' - Pending(c, p))
  <2>1. \A d \in Clients \ {c} : Pending(d, p)' = Pending(d, p)
    BY DEF Pending
  <2>. QED
    BY <1>2, <2>1, WaitingMoves
<1>4. ASSUME NEW p \in Proxies
      PROVE  \/ /\ Known(p)' - Known(p) = errors'[p] - errors[p]
                /\ p \in discarded => p \in discarded'
                /\ p \in DOMAIN table => p \in DOMAIN table'
             \/ Known(p)' <= Known(p) /\ errors[p] <= errors'[p] /\ p \in discarded'
  <2>1. Count(table, p) \in Nat /\ Count(table, p)' \in Nat
    BY DEF CountsInv, CountsTyped, Count
  <2>2. Pending(c, p) \in Nat
    BY <1>2, PendingNow
  <2>3. Pending(c, p)' \in Nat
    BY <1>2, PendingThen
  <2>4. PICK k, l, w, v, m, n \in Nat :
           /\ k = Count(table, p) /\ l = Count(table, p)'
           /\ w = Waiting(p) /\ v = Waiting(p)'
           /\ m = Pending(c, p) /\ n = Pending(c, p)'
    BY <1>3, <2>1, <2>2, <2>3
  <2>5. v = w + (n - m)
    BY <1>3, <2>4
  <2>6. Known(p) = k + w /\ Known(p)' = l + v
    BY <2>4 DEF Known
  <2>7. CASE (l + n) - (k + m) = errors'[p] - errors[p]
    <3>1. (l + v) - (k + w) = (l + n) - (k + m)
      BY <2>5
    <3>2. Known(p)' - Known(p) = errors'[p] - errors[p]
      BY <2>6, <2>7, <3>1
    <3>3. l + n <= k + m => l + v <= k + w
      BY <2>5
    <3>. QED
      BY <1>1, <2>4, <2>6, <3>2, <3>3
  <2>8. CASE l + n <= k + m /\ p \in discarded'
    <3>1. l + v <= k + w
      BY <2>5, <2>8
    <3>. QED
      BY <1>1, <2>6, <2>8, <3>1
  <2>. QED
    BY <2>4, <2>7, <2>8
<1>5. \A p \in Proxies : AddUp(p)'
  BY <1>3, <1>4, StillAddUp
<1>. QED
  BY <1>2, <1>5

(* A thread counts an error: the pool's mutex is free, so no round is on. *)
LEMMA ErrorCounted ==
    ASSUME PoolsInv, CountsInv, NEW t \in Threads, errorProxy(t)
    PROVE  CountsTyped' /\ (\A c \in Clients : LocalOK(c)') /\ \A p \in Proxies : AddUp(p)'
<1>1. PICK c \in Clients : c = ClientOf[t]
  BY ProxyAssumption
<1>2. PICK p : p = proxyData[t]
  OBVIOUS
<1>3. PICK f : f = [q \in DOMAIN proxies_[c] \cup {p} |->
                      IF q = p THEN Count(proxies_[c], p) + 1 ELSE proxies_[c][q]]
  OBVIOUS
<1>4. /\ mutex_[c] = Free /\ pc[t] = "use"
      /\ proxies_' = [proxies_ EXCEPT ![c] = f]
      /\ errors' = [errors EXCEPT ![p] = errors[p] + 1]
      /\ UNCHANGED <<table, discarded, reported, bg>>
  BY <1>1, <1>2, <1>3 DEF errorProxy, Returns, At, Locks, With, sync, server
<1>5. p \in Proxies
  BY <1>2, <1>4 DEF CountsInv, UsesOK, UsesTyped
<1>6. bg[c] \notin {"report", "fetch"}
  BY <1>4, Holders DEF PoolsInv, MutexOK
<1>7. LocalOK(c)
  BY DEF CountsInv
<1>8. /\ proxies_'[c] = f
      /\ \A d \in Clients \ {c} : UNCHANGED <<proxies_[d], reported[d], bg[d]>>
  BY <1>4 DEF CountsInv, CountsTyped
<1>9. /\ errors' \in [Proxies -> Nat]
      /\ \A q \in Proxies : /\ errors[q] \in Nat /\ errors[q] <= errors'[q]
                            /\ errors'[q] = IF q = p THEN errors[p] + 1 ELSE errors[q]
  BY <1>4, <1>5 DEF CountsInv, CountsTyped
<1>10. CountsTyped'
  BY <1>4, <1>9 DEF CountsInv, CountsTyped
<1>11. /\ Count(proxies_[c], p) \in Nat /\ Count(proxies_[c], p) <= errors[p]
       /\ p \in DOMAIN proxies_[c] => Count(proxies_[c], p) = proxies_[c][p]
  BY <1>5, <1>7, <1>9 DEF LocalOK, Count
<1>12. /\ DOMAIN f = DOMAIN proxies_[c] \cup {p}
       /\ f[p] = Count(proxies_[c], p) + 1
       /\ \A q \in DOMAIN proxies_[c] \ {p} : f[q] = proxies_[c][q]
  BY <1>3
<1>13. LocalOK(c)'
  <2>1. f \in [DOMAIN f -> Nat] /\ DOMAIN f \subseteq Proxies
    BY <1>3, <1>5, <1>7, <1>11 DEF LocalOK
  <2>2. \A q \in DOMAIN f : f[q] <= errors'[q]
    <3>1. f[p] <= errors'[p]
      BY <1>5, <1>9, <1>11, <1>12
    <3>2. ASSUME NEW q \in DOMAIN proxies_[c] \ {p} PROVE f[q] <= errors'[q]
      BY <1>7, <1>9, <1>12 DEF LocalOK
    <3>. QED
      BY <1>12, <3>1, <3>2
  <2>3. ASSUME NEW q \in DOMAIN reported[c] PROVE reported[c][q] <= f[q]
    <3>1. reported[c][q] \in Nat /\ q \in DOMAIN proxies_[c] /\ proxies_[c][q] \in Nat /\ reported[c][q] <= proxies_[c][q]
      BY <1>7 DEF LocalOK
    <3>2. proxies_[c][q] <= f[q] /\ f[q] \in Nat
      BY <1>11, <1>12, <3>1
    <3>. QED
      BY <3>1, <3>2
  <2>4. bg'[c] # "report" /\ bg'[c] # "fetch" /\ reported'[c] = reported[c]
    BY <1>4, <1>6
  <2>5. PICK r : r = reported[c] /\ r = reported'[c]
    BY <2>4
  <2>6. DOMAIN r \subseteq DOMAIN f /\ r \in [DOMAIN r -> Nat]
    BY <1>7, <1>12, <2>5 DEF LocalOK
  <2>7. (bg'[c] = "report" => FALSE) /\ (bg'[c] = "fetch" => FALSE)
    BY <2>4
  <2>8. bg'[c] = "sleep" => DOMAIN r = {}
    BY <1>4, <1>7, <2>5 DEF LocalOK
  <2>. QED
    BY <1>8, <2>1, <2>2, <2>3, <2>5, <2>6, <2>7, <2>8 DEF LocalOK
<1>14. ASSUME NEW q \in Proxies
       PROVE  /\ (Count(table, q)' + Pending(c, q)') - (Count(table, q) + Pending(c, q)) = errors'[q] - errors[q]
              /\ q \in discarded => q \in discarded'
              /\ q \in DOMAIN table => q \in DOMAIN table'
  <2>1. Count(table, q) \in Nat /\ Count(table, q)' = Count(table, q)
    BY <1>4 DEF CountsInv, CountsTyped, Count
  <2>2. Pending(c, q) \in Nat
    BY <1>7, PendingNow
  <2>3. Pending(c, q)' = Pending(c, q) + (IF q = p THEN 1 ELSE 0)
    <3>1. CASE q # p
      <4>1. Pending(c, q)' = Pending(c, q)
        BY <1>4, <1>8, <1>12, <3>1 DEF Pending, Count
      <4>. QED
        BY <2>2, <3>1, <4>1
    <3>2. CASE q = p /\ p \in DOMAIN proxies_[c]
      <4>1. Count(reported[c], p) \in Nat
        BY <1>7 DEF LocalOK, Count
      <4>2. Pending(c, p) = proxies_[c][p] - Count(reported[c], p)
        BY <3>2 DEF Pending
      <4>3. Pending(c, p)' = f[p] - Count(reported[c], p)
        BY <1>4, <1>8, <1>12, <3>2 DEF Pending
      <4>. QED
        BY <1>11, <1>12, <3>2, <4>1, <4>2, <4>3
    <3>3. CASE q = p /\ p \notin DOMAIN proxies_[c]
      <4>1. Count(reported[c], p) = 0 /\ Count(proxies_[c], p) = 0
        BY <1>7, <3>3 DEF LocalOK, Count
      <4>2. Pending(c, p) = 0 /\ Pending(c, p)' = f[p] - Count(reported[c], p)
        BY <1>4, <1>8, <1>12, <3>3 DEF Pending
      <4>. QED
        BY <1>12, <3>3, <4>1, <4>2
    <3>. QED
      BY <3>1, <3>2, <3>3
  <2>4. errors[q] \in Nat /\ errors'[q] = errors[q] + (IF q = p THEN 1 ELSE 0)
    BY <1>9
  <2>5. (Count(table, q)' + Pending(c, q)') - (Count(table, q) + Pending(c, q)) = errors'[q] - errors[q]
    BY <2>1, <2>2, <2>3, <2>4
  <2>. QED
    BY <1>4, <2>5
<1>15. \A q \in Proxies : errors[q] <= errors'[q]
  BY <1>9
<1>16. (\A d \in Clients : LocalOK(d)') /\ \A q \in Proxies : AddUp(q)'
  BY <1>8, <1>10, <1>13, <1>14, <1>15, OnePoolMoves
<1>. QED
  BY <1>10, <1>16

(* What a removed proxy had counted is lost, and it is discarded. *)
LEMMA RemovalCounted ==
    ASSUME CountsInv, NEW t \in Threads, removeProxy(t)
    PROVE  CountsTyped' /\ (\A c \in Clients : LocalOK(c)') /\ \A p \in Proxies : AddUp(p)'
<1>1. PICK c \in Clients : c = ClientOf[t]
  BY ProxyAssumption
<1>2. PICK p : p = proxyData[t]
  OBVIOUS
<1>3. PICK f, r : /\ f = [q \in DOMAIN proxies_[c] \ {p} |-> proxies_[c][q]]
                  /\ r = [q \in DOMAIN reported[c] \ {p} |-> reported[c][q]]
  OBVIOUS
<1>4. /\ proxies_' = [proxies_ EXCEPT ![c] = f]
      /\ reported' = [reported EXCEPT ![c] = r]
      /\ discarded' = discarded \cup {p}
      /\ UNCHANGED <<table, errors, bg>>
  BY <1>1, <1>2, <1>3 DEF removeProxy, Without
<1>5. LocalOK(c)
  BY DEF CountsInv
<1>6. CountsTyped'
  BY <1>4 DEF CountsInv, CountsTyped
<1>7. /\ proxies_'[c] = f /\ reported'[c] = r
      /\ \A d \in Clients \ {c} : UNCHANGED <<proxies_[d], reported[d], bg[d]>>
  BY <1>4 DEF CountsInv, CountsTyped
<1>8. /\ DOMAIN f = DOMAIN proxies_[c] \ {p} /\ \A q \in DOMAIN f : f[q] = proxies_[c][q]
      /\ DOMAIN r = DOMAIN reported[c] \ {p} /\ \A q \in DOMAIN r : r[q] = reported[c][q]
  BY <1>3
<1>9. LocalOK(c)'
  <2>1. f \in [DOMAIN f -> Nat] /\ DOMAIN f \subseteq Proxies
    BY <1>3, <1>5 DEF LocalOK
  <2>2. r \in [DOMAIN r -> Nat] /\ DOMAIN r \subseteq DOMAIN f
    BY <1>3, <1>5 DEF LocalOK
  <2>3. \A q \in DOMAIN f : f[q] <= errors'[q]
    BY <1>4, <1>5, <1>8 DEF LocalOK
  <2>4. \A q \in DOMAIN r : r[q] <= f[q]
    BY <1>5, <1>8, <2>2 DEF LocalOK
  <2>5. bg'[c] = "report" => \A q \in DOMAIN r : r[q] = f[q]
    BY <1>4, <1>5, <1>8, <2>2 DEF LocalOK
  <2>6. bg'[c] \in {"sleep", "fetch"} => DOMAIN r = {}
    BY <1>4, <1>5, <1>8 DEF LocalOK
  <2>. QED
    BY <1>7, <2>1, <2>2, <2>3, <2>4, <2>5, <2>6 DEF LocalOK
<1>10. \A q \in Proxies : errors[q] <= errors'[q] /\ errors'[q] - errors[q] = 0
  BY <1>4 DEF CountsInv, CountsTyped
<1>11. ASSUME NEW q \in Proxies
       PROVE  \/ /\ (Count(table, q)' + Pending(c, q)') - (Count(table, q) + Pending(c, q)) = errors'[q] - errors[q]
                 /\ q \in discarded => q \in discarded'
                 /\ q \in DOMAIN table => q \in DOMAIN table'
              \/ Count(table, q)' + Pending(c, q)' <= Count(table, q) + Pending(c, q) /\ q \in discarded'
  <2>1. Count(table, q) \in Nat /\ Count(table, q)' = Count(table, q)
    BY <1>4 DEF CountsInv, CountsTyped, Count
  <2>2. Pending(c, q) \in Nat
    BY <1>5, PendingNow
  <2>3. CASE q = p
    <3>1. Pending(c, q)' = 0
      BY <1>7, <1>8, <2>3 DEF Pending
    <3>. QED
      BY <1>4, <2>1, <2>2, <2>3, <3>1
  <2>4. CASE q # p
    <3>1. Pending(c, q)' = Pending(c, q)
      BY <1>7, <1>8, <2>4 DEF Pending, Count
    <3>. QED
      BY <1>4, <1>10, <2>1, <2>2, <3>1
  <2>. QED
    BY <2>3, <2>4
<1>12. (\A d \in Clients : LocalOK(d)') /\ \A q \in Proxies : AddUp(q)'
  BY <1>6, <1>7, <1>9, <1>10, <1>11, OnePoolMoves
<1>. QED
  BY <1>6, <1>12

(* One UPDATE: what the row gains no longer waits in the pool; a row that is   *)
(* gone gains nothing.                                                     *)
LEMMA ReportCounted ==
    ASSUME CountsInv, NEW c \in Clients, api_error_proxy(c)
    PROVE  CountsTyped' /\ (\A d \in Clients : LocalOK(d)') /\ \A p \in Proxies : AddUp(p)'
<1>1. PICK p \in DOMAIN proxies_[c] \ DOMAIN reported[c] :
         /\ table' = IF p \in DOMAIN table /\ proxies_[c][p] > 0
                       THEN [table EXCEPT ![p] = table[p] + proxies_[c][p]]
                       ELSE table
         /\ reported' = [reported EXCEPT ![c] = With(reported[c], p, proxies_[c][p])]
  BY DEF api_error_proxy, Reported
<1>2. PICK n, r : n = proxies_[c][p] /\ r = [q \in DOMAIN reported[c] \cup {p} |-> IF q = p THEN n ELSE reported[c][q]]
  OBVIOUS
<1>3. /\ bg[c] = "report"
      /\ reported' = [reported EXCEPT ![c] = r]
      /\ UNCHANGED <<proxies_, errors, discarded, bg>>
  BY <1>1, <1>2 DEF api_error_proxy, BgAt, With, pool
<1>4. LocalOK(c)
  BY DEF CountsInv
<1>5. n \in Nat /\ p \in Proxies
  BY <1>1, <1>2, <1>4 DEF LocalOK
<1>6. /\ table' \in [DOMAIN table -> Nat]
      /\ \A q \in DOMAIN table : table'[q] = table[q] + (IF q = p THEN n ELSE 0)
  <2>1. \A q \in DOMAIN table : table[q] \in Nat
    BY DEF CountsInv, CountsTyped
  <2>2. CASE p \in DOMAIN table /\ n > 0
    BY <1>1, <1>2, <1>5, <2>1, <2>2 DEF CountsInv, CountsTyped
  <2>3. CASE p \notin DOMAIN table
    BY <1>1, <2>1, <2>3 DEF CountsInv, CountsTyped
  <2>4. CASE ~ (n > 0)
    <3>1. n = 0
      BY <1>5, <2>4
    <3>2. table' = table
      BY <1>1, <1>2, <2>4
    <3>. QED
      BY <2>1, <3>1, <3>2 DEF CountsInv, CountsTyped
  <2>. QED
    BY <2>2, <2>3, <2>4
<1>7. CountsTyped'
  BY <1>3, <1>6 DEF CountsInv, CountsTyped
<1>8. /\ reported'[c] = r
      /\ \A d \in Clients \ {c} : UNCHANGED <<proxies_[d], reported[d], bg[d]>>
  BY <1>3 DEF CountsInv, CountsTyped
<1>9. /\ DOMAIN r = DOMAIN reported[c] \cup {p} /\ r[p] = n
      /\ \A q \in DOMAIN reported[c] : q # p /\ r[q] = reported[c][q]
  BY <1>1, <1>2
<1>10. LocalOK(c)'
  <2>1. DOMAIN r \subseteq DOMAIN proxies_[c] /\ r \in [DOMAIN r -> Nat]
    BY <1>1, <1>2, <1>4, <1>5 DEF LocalOK
  <2>2. \A q \in DOMAIN r : r[q] = proxies_[c][q]
    BY <1>2, <1>3, <1>4, <1>9 DEF LocalOK
  <2>3. \A q \in DOMAIN r : r[q] <= proxies_[c][q]
    BY <2>1, <2>2
  <2>4. \A q \in DOMAIN proxies_[c] : proxies_[c][q] <= errors'[q]
    BY <1>3, <1>4 DEF LocalOK
  <2>. QED
    BY <1>3, <1>4, <1>8, <2>1, <2>2, <2>3, <2>4 DEF LocalOK
<1>11. \A q \in Proxies : errors[q] <= errors'[q] /\ errors'[q] - errors[q] = 0
  BY <1>3 DEF CountsInv, CountsTyped
<1>12. ASSUME NEW q \in Proxies
       PROVE  \/ /\ (Count(table, q)' + Pending(c, q)') - (Count(table, q) + Pending(c, q)) = errors'[q] - errors[q]
                 /\ q \in discarded => q \in discarded'
                 /\ q \in DOMAIN table => q \in DOMAIN table'
              \/ Count(table, q)' + Pending(c, q)' <= Count(table, q) + Pending(c, q) /\ q \in discarded'
  <2>1. Count(table, q) \in Nat
    BY DEF CountsInv, CountsTyped, Count
  <2>2. Pending(c, q) \in Nat
    BY <1>4, PendingNow
  <2>3. CASE q # p
    <3>1. Pending(c, q)' = Pending(c, q)
      BY <1>3, <1>8, <1>9, <2>3 DEF Pending, Count
    <3>2. Count(table, q)' = Count(table, q)
      <4>1. CASE q \in DOMAIN table
        <5>1. table[q] \in Nat /\ table'[q] = table[q] + 0
          BY <1>6, <2>3, <4>1 DEF CountsInv, CountsTyped
        <5>. QED
          BY <1>6, <4>1, <5>1 DEF Count
      <4>2. CASE q \notin DOMAIN table
        BY <1>6, <4>2 DEF Count
      <4>. QED
        BY <4>1, <4>2
    <3>. QED
      BY <1>3, <1>6, <1>11, <2>1, <2>2, <3>1, <3>2
  <2>4. CASE q = p
    <3>1. Pending(c, q) = n
      <4>1. Count(reported[c], p) = 0
        BY <1>1 DEF Count
      <4>. QED
        BY <1>1, <1>2, <1>5, <2>4, <4>1 DEF Pending
    <3>2. Pending(c, q)' = 0
      <4>1. Count(r, p) = n
        BY <1>9 DEF Count
      <4>2. Pending(c, q)' = n - Count(r, p)
        BY <1>1, <1>2, <1>3, <1>8, <2>4 DEF Pending
      <4>. QED
        BY <1>5, <4>1, <4>2
    <3>3. CASE p \in DOMAIN table
      <4>1. Count(table, q)' = Count(table, q) + n
        BY <1>6, <2>4, <3>3 DEF Count
      <4>. QED
        BY <1>3, <1>5, <1>6, <1>11, <2>1, <3>1, <3>2, <4>1
    <3>4. CASE p \notin DOMAIN table
      <4>1. Count(table, q) = 0 /\ Count(table, q)' = 0
        BY <1>6, <2>4, <3>4 DEF Count
      <4>2. q \in discarded
        BY <2>4, <3>4 DEF CountsInv, AddUp
      <4>. QED
        BY <1>3, <1>5, <3>1, <3>2, <4>1, <4>2
    <3>. QED
      BY <3>3, <3>4
  <2>. QED
    BY <2>3, <2>4
<1>13. (\A d \in Clients : LocalOK(d)') /\ \A q \in Proxies : AddUp(q)'
  BY <1>7, <1>8, <1>10, <1>11, <1>12, OnePoolMoves
<1>. QED
  BY <1>7, <1>13

(* When all is reported nothing waits in the pool, and clearing it loses nothing; *)
(* nor does a proxy that is fetched bring anything.                        *)
LEMMA ExchangeCounted ==
    ASSUME PoolsInv, CountsInv, NEW c \in Clients, BgClears(c) \/ BgFetches(c)
    PROVE  CountsTyped' /\ (\A d \in Clients : LocalOK(d)') /\ \A p \in Proxies : AddUp(p)'
<1>1. UNCHANGED <<table, errors, discarded>>
  BY DEF BgClears, BgFetches, server
<1>2. LocalOK(c)
  BY DEF CountsInv
<1>3. \A q \in Proxies : errors[q] \in Nat
  BY DEF CountsInv, CountsTyped
<1>4. PICK f, r, b :
         /\ proxies_' = [proxies_ EXCEPT ![c] = f]
         /\ reported' = [reported EXCEPT ![c] = r]
         /\ bg' = [bg EXCEPT ![c] = b]
         /\ b \in {"sleep", "fetch"} /\ r = Zero({})
         /\ f \in [DOMAIN f -> Nat] /\ DOMAIN f \subseteq Proxies
         /\ \A q \in DOMAIN f : f[q] <= errors[q]
         /\ \A q \in Proxies : Count(f, q) = Pending(c, q)
  <2>1. CASE BgClears(c)
    <3>1. /\ bg[c] = "report" /\ DOMAIN reported[c] = DOMAIN proxies_[c]
          /\ proxies_' = [proxies_ EXCEPT ![c] = Zero({})]
          /\ reported' = [reported EXCEPT ![c] = Zero({})]
          /\ bg' = [bg EXCEPT ![c] = "fetch"]
      BY <2>1 DEF BgClears, BgAt, BgGoTo, Cleared
    <3>2. DOMAIN Zero({}) = {} /\ Zero({}) \in [DOMAIN Zero({}) -> Nat]
      BY DEF Zero
    <3>3. ASSUME NEW q \in Proxies PROVE Pending(c, q) = 0
      <4>1. CASE q \in DOMAIN proxies_[c]
        <5>1. reported[c][q] = proxies_[c][q] /\ proxies_[c][q] \in Nat
          BY <1>2, <3>1, <4>1 DEF LocalOK
        <5>. QED
          BY <3>1, <4>1, <5>1 DEF Pending, Count
      <4>2. CASE q \notin DOMAIN proxies_[c]
        BY <4>2 DEF Pending
      <4>. QED
        BY <4>1, <4>2
    <3>4. \A q \in Proxies : Count(Zero({}), q) = Pending(c, q)
      BY <3>2, <3>3 DEF Count
    <3>. QED
      BY <3>1, <3>2, <3>4
  <2>2. CASE BgFetches(c)
    <3>1. PICK f : f = [p \in Usable \cup DOMAIN proxies_[c] |->
                          IF p \in DOMAIN proxies_[c] THEN proxies_[c][p] ELSE 0]
      OBVIOUS
    <3>2. /\ bg[c] = "fetch"
          /\ proxies_' = [proxies_ EXCEPT ![c] = f]
          /\ reported' = reported
          /\ bg' = [bg EXCEPT ![c] = "sleep"]
      BY <2>2, <3>1 DEF BgFetches, BgAt, BgGoTo, Fetched
    <3>3. DOMAIN reported[c] = {}
      BY <1>2, <3>2 DEF LocalOK
    <3>4. reported[c] = Zero({})
      BY <1>2, <3>3 DEF LocalOK, Zero
    <3>5. reported' = [reported EXCEPT ![c] = Zero({})]
      BY <3>2, <3>4 DEF CountsInv, CountsTyped
    <3>6. DOMAIN f \subseteq Proxies /\ f \in [DOMAIN f -> Nat]
      BY <1>2, <3>1 DEF LocalOK, Usable, CountsInv, CountsTyped
    <3>7. ASSUME NEW q \in DOMAIN f PROVE f[q] <= errors[q]
      <4>1. q \in Proxies /\ errors[q] \in Nat
        BY <1>3, <3>6
      <4>. QED
        BY <1>2, <3>1, <4>1 DEF LocalOK
    <3>8. ASSUME NEW q \in Proxies PROVE Count(f, q) = Pending(c, q)
      <4>1. Count(reported[c], q) = 0
        BY <3>3 DEF Count
      <4>2. CASE q \in DOMAIN proxies_[c]
        <5>1. proxies_[c][q] \in Nat
          BY <1>2, <4>2 DEF LocalOK
        <5>. QED
          BY <3>1, <4>1, <4>2, <5>1 DEF Count, Pending
      <4>3. CASE q \notin DOMAIN proxies_[c]
        BY <3>1, <4>3 DEF Count, Pending
      <4>. QED
        BY <4>2, <4>3
    <3>. QED
      BY <3>2, <3>5, <3>6, <3>7, <3>8
  <2>. QED
    BY <2>1, <2>2
<1>5. CountsTyped'
  BY <1>1, <1>4 DEF CountsInv, CountsTyped
<1>6. /\ proxies_'[c] = f /\ reported'[c] = r /\ bg'[c] = b
      /\ \A d \in Clients \ {c} : UNCHANGED <<proxies_[d], reported[d], bg[d]>>
  BY <1>4 DEF CountsInv, CountsTyped
<1>7. DOMAIN r = {} /\ r \in [DOMAIN r -> Nat]
  BY <1>4 DEF Zero
<1>8. LocalOK(c)'
  BY <1>1, <1>4, <1>6, <1>7 DEF LocalOK
<1>9. \A q \in Proxies : errors[q] <= errors'[q] /\ errors'[q] - errors[q] = 0
  BY <1>1, <1>3
<1>10. ASSUME NEW q \in Proxies
       PROVE  /\ (Count(table, q)' + Pending(c, q)') - (Count(table, q) + Pending(c, q)) = errors'[q] - errors[q]
              /\ q \in discarded => q \in discarded'
              /\ q \in DOMAIN table => q \in DOMAIN table'
  <2>1. Count(table, q) \in Nat /\ Count(table, q)' = Count(table, q)
    BY <1>1 DEF CountsInv, CountsTyped, Count
  <2>2. Pending(c, q) \in Nat
    BY <1>2, PendingNow
  <2>3. Pending(c, q)' = Pending(c, q)
    <3>1. Count(r, q) = 0
      BY <1>7 DEF Count
    <3>2. Count(f, q) \in Nat
      BY <1>4, <2>2
    <3>3. Pending(c, q)' = IF q \in DOMAIN f THEN f[q] - Count(r, q) ELSE 0
      BY <1>6 DEF Pending
    <3>4. Pending(c, q)' = Count(f, q)
      BY <3>1, <3>2, <3>3 DEF Count
    <3>. QED
      BY <1>4, <3>4
  <2>. QED
    BY <1>1, <1>9, <2>1, <2>2, <2>3
<1>11. (\A d \in Clients : LocalOK(d)') /\ \A q \in Proxies : AddUp(q)'
  BY <1>5, <1>6, <1>8, <1>9, <1>10, OnePoolMoves
<1>. QED
  BY <1>5, <1>11
-----------------------------------------------------------------------------
LEMMA ErrorsBounded ==
    ASSUME CountsInv, NEW t \in Threads, errorProxy(t)
    PROVE  Total(errors)' <= MaxErrors
<1>1. PICK p : p = proxyData[t]
  OBVIOUS
<1>2. PICK f, g : f = errors /\ g = errors'
  OBVIOUS
<1>3. pc[t] = "use" /\ g = [f EXCEPT ![p] = f[p] + 1] /\ Total(f) < MaxErrors
  BY <1>1, <1>2 DEF errorProxy, Returns, At
<1>4. p \in Proxies /\ f \in [Proxies -> Nat]
  BY <1>1, <1>2, <1>3 DEF CountsInv, CountsTyped, UsesOK, UsesTyped
<1>5. g \in [Proxies -> Nat] /\ g[p] = f[p] + 1 /\ \A q \in Proxies \ {p} : g[q] = f[q]
  BY <1>3, <1>4
<1>6. Total(g) = Total(f) + (g[p] - f[p]) /\ Total(f) \in Nat
  BY <1>4, <1>5, ProxyAssumption, TotalMoves, TotalType
<1>7. f[p] \in Nat /\ MaxErrors \in Nat
  BY <1>4, ProxyAssumption
<1>8. Total(g) <= MaxErrors
  BY <1>3, <1>5, <1>6, <1>7
<1>. QED
  BY <1>2, <1>8

LEMMA ThreadUses ==
    ASSUME PoolsInv, CountsInv, NEW t \in Threads, crawls(t)
    PROVE  UsesTyped'
<1>1. pc = [u \in Threads |-> pc[u]]
  BY DEF PoolsInv, PoolsTyped
<1>2. UsesTyped
  BY DEF CountsInv, UsesOK, UsesTyped
<1>3. NoProxy \notin Proxies
  BY ProxyAssumption
<1>4. CASE Check(t)
  <2>1. pc[t] = "check" /\ UNCHANGED proxyData
    BY <1>4 DEF Check, At
  <2>2. pc' = [pc EXCEPT ![t] = "ended"] \/ pc' = [pc EXCEPT ![t] = "draw"]
    BY <1>4 DEF Check, GoTo
  <2>. QED
    BY <1>1, <1>2, <2>1, <2>2 DEF UsesTyped
<1>5. CASE writeToDb(t) \/ Written(t)
  <2>1. pc[t] \in {"check", "write"} /\ UNCHANGED proxyData
    BY <1>5 DEF writeToDb, Written, At
  <2>2. pc' = [pc EXCEPT ![t] = "write"] \/ pc' = [pc EXCEPT ![t] = "check"]
    BY <1>5 DEF writeToDb, Written, GoTo
  <2>. QED
    BY <1>1, <1>2, <2>1, <2>2 DEF UsesTyped
<1>6. CASE getRandomProxy(t)
  <2>1. CASE UNCHANGED crawler
    BY <1>2, <2>1 DEF crawler, UsesTyped
  <2>2. CASE ~ UNCHANGED crawler
    <3>1. PICK p \in DOMAIN proxies_[ClientOf[t]] : proxyData' = [proxyData EXCEPT ![t] = p]
      BY <1>6, <2>2 DEF getRandomProxy
    <3>2. pc' = [pc EXCEPT ![t] = "use"]
      BY <1>6, <2>2 DEF getRandomProxy, GoTo
    <3>3. p \in Proxies
      BY ProxyAssumption DEF CountsInv, LocalOK
    <3>. QED
      BY <1>1, <1>2, <3>1, <3>2, <3>3 DEF UsesTyped
  <2>. QED
    BY <2>1, <2>2
<1>7. CASE Crawl(t) \/ errorProxy(t) \/ api_remove_proxy(t)
  <2>1. proxyData' = [proxyData EXCEPT ![t] = NoProxy] /\ pc' = [pc EXCEPT ![t] = "check"]
    BY <1>7 DEF Crawl, errorProxy, api_remove_proxy, GoTo
  <2>. QED
    BY <1>1, <1>2, <1>3, <2>1 DEF UsesTyped
<1>8. CASE removeProxy(t)
  <2>1. pc[t] = "use" /\ pc' = [pc EXCEPT ![t] = "remove"] /\ UNCHANGED proxyData
    BY <1>8 DEF removeProxy, Returns, At, GoTo
  <2>. QED
    BY <1>1, <1>2, <2>1 DEF UsesTyped
<1>. QED
  BY <1>4, <1>5, <1>6, <1>7, <1>8 DEF crawls

LEMMA UsesKept ==
    ASSUME PoolsInv, CountsInv, [Next]_vars
    PROVE  UsesOK'
<1>. USE DEF CountsInv, UsesOK, UsesTyped
<1>1. ASSUME UNCHANGED <<pc, proxyData, errors, fetcher, adds, g_forceStop, crashed>>
      PROVE  UsesOK'
  BY <1>1
<1>2. ASSUME NEW t \in Threads, crawls(t) PROVE UsesOK'
  <2>1. UsesTyped'
    BY <1>2, ThreadUses
  <2>2. UNCHANGED <<fetcher, adds, g_forceStop>>
    BY <1>2 DEF crawls, Check, writeToDb, Written, getRandomProxy, Crawl, errorProxy, removeProxy,
                api_remove_proxy, server, ends
  <2>3. crashed' = crashed \/ crashed' = [crashed EXCEPT ![ClientOf[t]] = TRUE]
    BY <1>2 DEF crawls, Check, writeToDb, Written, getRandomProxy, Crawl, errorProxy, removeProxy,
                api_remove_proxy, ends
  <2>4. crashed' \in [Clients -> BOOLEAN]
    BY <2>3
  <2>5. Total(errors)' <= MaxErrors
    <3>1. CASE errorProxy(t)
      BY <3>1, ErrorsBounded
    <3>2. CASE ~ errorProxy(t)
      <4>1. errors' = errors
        BY <1>2, <3>2 DEF crawls, Check, writeToDb, Written, getRandomProxy, Crawl, removeProxy, api_remove_proxy
      <4>. QED
        BY <4>1
    <3>. QED
      BY <3>1, <3>2
  <2>. QED
    BY <2>1, <2>2, <2>4, <2>5 DEF UsesTyped
<1>3. ASSUME NEW c \in Clients, backgroundThread(c) \/ g_stop(c) PROVE UsesOK'
  <2>1. UNCHANGED <<pc, proxyData, errors, fetcher, adds, crashed>>
    BY <1>3 DEF backgroundThread, BgLocks, BgEnds, api_error_proxy, ReportFails, BgClears, BgFetches,
                BgGivesUp, BgStops, g_stop, server, ends, crawler
  <2>2. g_forceStop' = g_forceStop \/ g_forceStop' = [g_forceStop EXCEPT ![c] = TRUE]
    BY <1>3 DEF backgroundThread, BgLocks, BgEnds, api_error_proxy, ReportFails, BgClears, BgFetches,
                BgGivesUp, BgStops, g_stop, ends
  <2>3. g_forceStop' \in [Clients -> BOOLEAN]
    BY <2>2
  <2>. QED
    BY <2>1, <2>3
<1>4. CASE addProxies
  <2>1. UNCHANGED <<pc, proxyData, errors, g_forceStop, crashed>>
    BY <1>4 DEF addProxies, ends, crawler
  <2>2. fetcher' = "added" /\ adds' = adds + 1 /\ adds < MaxAdds
    BY <1>4 DEF addProxies
  <2>3. adds' \in 0 .. MaxAdds
    BY <2>2, ProxyAssumption
  <2>. QED
    BY <2>1, <2>2, <2>3
<1>5. CASE removeProxies
  <2>1. UNCHANGED <<pc, proxyData, errors, adds, g_forceStop, crashed>> /\ fetcher' = "query"
    BY <1>5 DEF removeProxies, ends, crawler
  <2>. QED
    BY <2>1
<1>6. CASE UNCHANGED vars
  BY <1>1, <1>6 DEF vars, server, ends, crawler
<1>. QED
  BY <1>2, <1>3, <1>4, <1>5, <1>6 DEF Next
-----------------------------------------------------------------------------
LEMMA InitCounts == Init => CountsInv
<1>. SUFFICES ASSUME Init PROVE CountsInv
  OBVIOUS
<1>1. /\ table \in [Stock -> Nat] /\ \A p \in Stock : table[p] = 0
      /\ errors \in [Proxies -> Nat] /\ \A p \in Proxies : errors[p] = 0
      /\ \A c \in Clients : DOMAIN proxies_[c] = {} /\ DOMAIN reported[c] = {} /\ bg[c] = "report"
  BY DEF Init, Zero
<1>2. CountsTyped
  BY <1>1, ProxyAssumption DEF Init, CountsTyped
<1>3. UsesOK
  <2>1. Total(errors) = 0
    BY <1>1, TotalZero
  <2>2. 0 <= MaxErrors /\ 0 \in 0 .. MaxAdds
    BY ProxyAssumption
  <2>. QED
    BY <2>1, <2>2, ProxyAssumption DEF Init, UsesOK, UsesTyped
<1>4. ASSUME NEW c \in Clients PROVE LocalOK(c)
  <2>1. proxies_[c] \in [DOMAIN proxies_[c] -> Nat] /\ reported[c] \in [DOMAIN reported[c] -> Nat]
    BY DEF Init, Zero
  <2>. QED
    BY <1>1, <2>1 DEF LocalOK
<1>5. ASSUME NEW p \in Proxies PROVE AddUp(p)
  <2>1. PICK f : f = [c \in Clients |-> Pending(c, p)]
    OBVIOUS
  <2>2. f \in [Clients -> Nat] /\ \A c \in Clients : f[c] = 0
    BY <1>1, <2>1 DEF Pending
  <2>3. Waiting(p) = 0
    BY <2>1, <2>2, TotalZero DEF Waiting
  <2>4. Count(table, p) = 0
    BY <1>1 DEF Count
  <2>5. p \notin discarded => p \in DOMAIN table
    BY <1>1 DEF Init
  <2>. QED
    BY <1>1, <2>3, <2>4, <2>5 DEF AddUp, Known
<1>. QED
  BY <1>2, <1>3, <1>4, <1>5 DEF CountsInv

LEMMA CountsStepKeeps ==
    ASSUME PoolsInv, PoolsInv', CountsInv, [Next]_vars
    PROVE  CountsInv'
<1>. DEFINE Kept == CountsTyped' /\ (\A c \in Clients : LocalOK(c)') /\ \A p \in Proxies : AddUp(p)'
<1>1. bg' = [c \in Clients |-> bg'[c]]
  BY DEF PoolsInv, PoolsTyped
<1>2. ASSUME UNCHANGED <<table, errors, discarded, proxies_, reported, bg>>
      PROVE  Kept
  BY <1>1, <1>2, NothingCounted
<1>3. ASSUME NEW t \in Threads, crawls(t) PROVE Kept
  <2>1. CASE Check(t) \/ writeToDb(t) \/ Written(t) \/ getRandomProxy(t) \/ Crawl(t)
    <3>1. UNCHANGED <<table, errors, discarded, proxies_, reported, bg>>
      BY <2>1 DEF Check, writeToDb, Written, getRandomProxy, Crawl, server, pool, sync
    <3>. QED
      BY <1>2, <3>1
  <2>2. CASE errorProxy(t)
    BY <2>2, ErrorCounted
  <2>3. CASE removeProxy(t)
    BY <2>3, RemovalCounted
  <2>4. CASE api_remove_proxy(t)
    <3>1. UNCHANGED <<errors, proxies_, reported, bg>>
      BY <2>4 DEF api_remove_proxy, sync
    <3>2. DeleteRows({proxyData[t]}) \/ UNCHANGED <<table, discarded>>
      BY <2>4 DEF api_remove_proxy
    <3>. QED
      BY <1>2, <3>1, <3>2, DeletedRows
  <2>. QED
    BY <1>3, <2>1, <2>2, <2>3, <2>4 DEF crawls
<1>4. ASSUME NEW c \in Clients, backgroundThread(c) PROVE Kept
  <2>1. CASE BgLocks(c) \/ BgEnds(c) \/ ReportFails(c) \/ BgGivesUp(c) \/ BgStops(c)
    <3>1. UNCHANGED <<table, errors, discarded, proxies_, reported>>
      BY <2>1 DEF BgLocks, BgEnds, ReportFails, BgGivesUp, BgStops, server, pool
    <3>2. PICK b \in {"report", "stop", "quit"} :
             /\ bg' = [bg EXCEPT ![c] = b]
             /\ b = "report" => bg[c] = "sleep"
      BY <2>1 DEF BgLocks, BgEnds, ReportFails, BgGivesUp, BgStops, BgAt, BgGoTo
    <3>3. ASSUME NEW d \in Clients
          PROVE  bg'[d] = bg[d] \/ DOMAIN reported[d] = {} \/ bg'[d] \in {"stop", "quit"}
      <4>1. CASE d # c
        BY <3>2, <4>1 DEF PoolsInv, PoolsTyped
      <4>2. CASE d = c /\ b = "report"
        BY <3>2, <4>2 DEF CountsInv, LocalOK
      <4>3. CASE d = c /\ b # "report"
        BY <3>2, <4>3 DEF PoolsInv, PoolsTyped
      <4>. QED
        BY <4>1, <4>2, <4>3
    <3>. QED
      BY <1>1, <3>1, <3>3, NothingCounted
  <2>2. CASE api_error_proxy(c)
    BY <2>2, ReportCounted
  <2>3. CASE BgClears(c) \/ BgFetches(c)
    BY <2>3, ExchangeCounted
  <2>. QED
    BY <1>4, <2>1, <2>2, <2>3 DEF backgroundThread
<1>5. ASSUME NEW c \in Clients, g_stop(c) PROVE Kept
  <2>1. UNCHANGED <<table, errors, discarded, proxies_, reported, bg>>
    BY <1>5 DEF g_stop, server, pool, sync
  <2>. QED
    BY <1>2, <2>1
<1>6. ASSUME addProxies PROVE Kept
  BY <1>6, AddedRows
<1>7. ASSUME removeProxies PROVE Kept
  <2>1. UNCHANGED <<errors, proxies_, reported, bg>> /\ DeleteRows(Bad)
    BY <1>7 DEF removeProxies, pool, sync
  <2>. QED
    BY <2>1, DeletedRows
<1>8. ASSUME UNCHANGED vars PROVE Kept
  <2>1. UNCHANGED <<table, errors, discarded, proxies_, reported, bg>>
    BY <1>8 DEF vars, server, pool, sync
  <2>. QED
    BY <1>2, <2>1
<1>9. Kept
  BY <1>3, <1>4, <1>5, <1>6, <1>7, <1>8 DEF Next
<1>10. UsesOK'
  BY UsesKept
<1>. QED
  BY <1>9, <1>10 DEF CountsInv

LEMMA CountsInvHolds == Spec => []CountsInv
<1>1. Init => CountsInv
  BY InitCounts
<1>2. PoolsInv /\ PoolsInv' /\ CountsInv /\ [Next]_vars => CountsInv'
  BY CountsStepKeeps
<1>. QED
  BY <1>1, <1>2, PoolsInvHolds, PTL DEF Spec

(* Whatever the clients report, remove, clear and fetch, in any order and until *)
(* wherever they come, and whatever the server adds and deletes: what the table *)
(* has of a proxy and what waits in the pools is all that threads reported of   *)
(* it, as long as it keeps its row, and never more.                        *)
THEOREM ErrorsAddUp == Spec => []CountsAddUp
<1>1. PoolsInv /\ CountsInv /\ ConnectionIsFree => CountsAddUp
  <2>. SUFFICES ASSUME PoolsInv, CountsInv, ConnectionIsFree PROVE CountsAddUp
    OBVIOUS
  <2>1. ASSUME NEW p \in Proxies PROVE errors[p] \in Nat /\ errors[p] <= MaxErrors
    <3>1. errors \in [Proxies -> Nat] /\ Total(errors) <= MaxErrors
      BY DEF CountsInv, CountsTyped, UsesOK, UsesTyped
    <3>2. Total(errors) \in Nat /\ errors[p] <= Total(errors)
      BY <3>1, ProxyAssumption, TotalType
    <3>3. errors[p] \in Nat
      BY <3>1
    <3>. QED
      BY <3>1, <3>2, <3>3, ProxyAssumption
  <2>2. ASSUME NEW p \in DOMAIN table
        PROVE  /\ p \in Proxies /\ Known(p) = table[p] + Waiting(p)
               /\ table[p] \in 0 .. MaxErrors
    <3>1. p \in Proxies /\ table[p] \in Nat
      BY DEF CountsInv, CountsTyped
    <3>2. Known(p) = table[p] + Waiting(p)
      BY DEF Known, Count
    <3>3. Waiting(p) \in Nat
      <4>1. PICK f : f = [c \in Clients |-> Pending(c, p)]
        OBVIOUS
      <4>2. f \in [Clients -> Nat]
        BY <4>1, PendingNow DEF CountsInv
      <4>. QED
        BY <4>1, <4>2, ProxyAssumption, TotalType DEF Waiting
    <3>4. Known(p) <= errors[p]
      BY <3>1 DEF CountsInv, AddUp
    <3>5. errors[p] \in Nat /\ errors[p] <= MaxErrors
      BY <2>1, <3>1
    <3>6. table[p] <= MaxErrors
      BY <3>1, <3>2, <3>3, <3>4, <3>5, ProxyAssumption
    <3>. QED
      BY <3>1, <3>2, <3>6, ProxyAssumption
  <2>3. ASSUME NEW c \in Clients
        PROVE  /\ DOMAIN proxies_[c] \subseteq Proxies
               /\ \A p \in DOMAIN proxies_[c] : proxies_[c][p] \in 0 .. MaxErrors
               /\ DOMAIN reported[c] \subseteq Proxies
    <3>1. LocalOK(c)
      BY DEF CountsInv
    <3>2. ASSUME NEW p \in DOMAIN proxies_[c] PROVE proxies_[c][p] \in 0 .. MaxErrors
      <4>1. p \in Proxies /\ proxies_[c][p] \in Nat /\ proxies_[c][p] <= errors[p]
        BY <3>1 DEF LocalOK
      <4>. QED
        BY <2>1, <4>1, ProxyAssumption
    <3>. QED
      BY <3>1, <3>2 DEF LocalOK
  <2>4. TypeOK
    <3>1. DOMAIN table \subseteq Proxies
      BY <2>2
    <3>2. \A p \in DOMAIN table : table[p] \in 0 .. MaxErrors
      BY <2>2
    <3>3. /\ mutex_ \in [Clients -> Threads \cup {Free, Bg}]
          /\ bg \in [Clients -> {"sleep", "report", "fetch", "stop", "quit"}]
          /\ pc \in [Threads -> {"check", "draw", "use", "remove", "write", "ended"}]
      BY DEF PoolsInv, PoolsTyped
    <3>. QED
      BY <2>3, <3>1, <3>2, <3>3 DEF TypeOK, CountsInv, UsesOK, UsesTyped
  <2>5. ASSUME NEW p \in DOMAIN table
        PROVE  /\ table[p] + Waiting(p) <= errors[p]
               /\ p \notin discarded => table[p] + Waiting(p) = errors[p]
    BY <2>2 DEF CountsInv, AddUp
  <2>. QED
    BY <2>4, <2>5 DEF CountsAddUp, Waiting
<1>. QED
  BY <1>1, PoolsInvHolds, CountsInvHolds, NobodyWaitsForConnection, PTL
=============================================================================
