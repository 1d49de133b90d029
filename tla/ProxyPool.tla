----------------------------- MODULE ProxyPool -----------------------------
(***************************************************************************)
(* The proxies: a table of the database that counts the errors of each     *)
(* proxy, the server's thread that fills it and deletes the bad ones, and   *)
(* in every client a local pool, from which its threads draw, in which they *)
(* count errors, and which a background thread exchanges with the table.    *)
(*                                                                         *)
(* A statement either has its effect or fails without any; that an answer  *)
(* of the database is lost after the effect is not modelled.  The thread of *)
(* the server works under a mutex nobody else here takes.                   *)
(***************************************************************************)
EXTENDS Integers, FiniteSets, BiliUser, MysqlDbPool

CONSTANTS
    Clients,
    Threads,                \* the crawling threads of all clients
    ClientOf,               \* the client of each thread
    Proxies,
    Stock,                  \* the proxies in the table at first
    proxy_max_error_times,
    MaxErrors,              \* bound: errors that threads report
    Blocked,                \* bound: the proxies that the site may block
    MaxAdds                 \* bound: lists that the server adds

NoProxy == "no proxy"
Free == "free"
Bg == "background thread"
pool_size_ == 3

ASSUME ProxyAssumption ==
    /\ IsFiniteSet(Clients) /\ IsFiniteSet(Proxies)
    /\ ClientOf \in [Threads -> Clients]
    /\ Free \notin Threads /\ Bg \notin Threads
    /\ Stock \subseteq Proxies /\ NoProxy \notin Proxies
    /\ proxy_max_error_times \in Nat
    /\ MaxErrors \in Nat
    /\ Blocked \subseteq Proxies
    /\ MaxAdds \in Nat

VARIABLES
    table,      \* the table proxy: the error_count of each proxy in it
    fetcher,    \* the server's thread: "query" or "added"
    adds        \* how many lists it added

VARIABLES       \* of each client
    proxies_,   \* the local pool: the errors of each proxy
    mutex_,     \* who has the pool's mutex
    bg,         \* where the background thread is
    reported,   \* of the counts in the pool, those it has reported
    pool_,      \* the free connections to the database
    g_forceStop,
    crashed     \* did the process die of rand() % 0?

VARIABLES       \* of each crawling thread
    pc,
    proxyData   \* the proxy it uses

VARIABLES       \* history
    errors,     \* errors of each proxy that threads reported, ever
    discarded,  \* the proxies that were missing in the table, or that a thread removed
    kept        \* what each client's last exchange brought and no thread removed

server == <<table, fetcher, adds, discarded>>
pool == <<proxies_, mutex_, kept>>
sync == <<bg, reported>>
mysql == <<pool_>>
ends == <<g_forceStop, crashed>>
crawler == <<pc, proxyData>>
vars == <<server, pool, sync, mysql, ends, crawler, errors>>
-----------------------------------------------------------------------------
Without(f, S) == [p \in DOMAIN f \ S |-> f[p]]
With(f, p, n) == [q \in DOMAIN f \cup {p} |-> IF q = p THEN n ELSE f[q]]
Count(f, p) == IF p \in DOMAIN f THEN f[p] ELSE 0
Zero(S) == [p \in S |-> 0]

(* The sum of the values of f, natural numbers: a place for each unit. *)
Places(f) == UNION {{x} \X (1 .. f[x]) : x \in DOMAIN f}
Total(f) == Cardinality(Places(f))

(* A crawling thread of a process that lives. *)
At(t, place) == pc[t] = place /\ ~ crashed[ClientOf[t]]
GoTo(t, place) == pc' = [pc EXCEPT ![t] = place]

(* It takes the mutex, and gives it back within the step. *)
Locks(t) == mutex_[ClientOf[t]] = Free

(* MysqlInstance has a connection from its construction to its destruction. *)
Connects(c) ==
    /\ getConnection(pool_[c])
    /\ pool_' = [pool_ EXCEPT ![c] = Taken(@)]

Frees(c) == pool_' = [pool_ EXCEPT ![c] = freeConnection(@)]

(* A thread looks at g_forceStop before it crawls one more mid ... *)
Check(t) ==
    /\ At(t, "check")
    /\ GoTo(t, IF g_forceStop[ClientOf[t]] THEN "ended" ELSE "draw")
    /\ UNCHANGED <<server, pool, sync, mysql, ends, proxyData, errors>>

(* ... and may wait for the mutex a long time before it draws its proxy.   *)
getRandomProxy(t) ==
    LET c == ClientOf[t]
    IN /\ At(t, "draw")
       /\ Locks(t)
       /\ IF DOMAIN proxies_[c] = {}
            THEN /\ crashed' = [crashed EXCEPT ![c] = TRUE]
                 /\ UNCHANGED crawler
            ELSE /\ \E p \in DOMAIN proxies_[c] : proxyData' = [proxyData EXCEPT ![t] = p]
                 /\ GoTo(t, "use")
                 /\ UNCHANGED crashed
       /\ UNCHANGED <<server, pool, sync, mysql, g_forceStop, errors>>

(* What the site answers through a proxy, Blocked by it or not.            *)
FromBlocked == Outcomes(TRUE)
FromOthers == Outcomes(FALSE)
Returns(t, ret) ==
    /\ At(t, "use")
    /\ ret \in IF proxyData[t] \in Blocked THEN FromBlocked ELSE FromOthers

(* The proxy worked, or the answer says nothing about it. *)
Crawl(t) ==
    /\ \E ret \in {"RET_NO_ERORR", "RET_NOT_FOUND", "RET_CRITICAL"} : Returns(t, ret)
    /\ GoTo(t, "check")
    /\ proxyData' = [proxyData EXCEPT ![t] = NoProxy]
    /\ UNCHANGED <<server, pool, sync, mysql, ends, errors>>

(* A proxy that has left the pool comes back. *)
errorProxy(t) ==
    LET c == ClientOf[t]
        p == proxyData[t]
    IN /\ Returns(t, "RET_ERROR")
       /\ Locks(t)
       /\ Total(errors) < MaxErrors
       /\ proxies_' = [proxies_ EXCEPT ![c] = With(@, p, Count(@, p) + 1)]
       /\ errors' = [errors EXCEPT ![p] = @ + 1]
       /\ GoTo(t, "check")
       /\ proxyData' = [proxyData EXCEPT ![t] = NoProxy]
       /\ UNCHANGED <<server, mutex_, kept, sync, mysql, ends>>

(* The mutex is kept while the row is deleted. *)
removeProxy(t) ==
    LET c == ClientOf[t]
    IN /\ Returns(t, "RET_RISK_CONTROL")
       /\ Locks(t)
       /\ proxies_' = [proxies_ EXCEPT ![c] = Without(@, {proxyData[t]})]
       /\ mutex_' = [mutex_ EXCEPT ![c] = t]
       /\ Connects(c)
       /\ kept' = [kept EXCEPT ![c] = @ \ {proxyData[t]}]
       /\ discarded' = discarded \cup {proxyData[t]}
       /\ reported' = [reported EXCEPT ![c] = Without(@, {proxyData[t]})]
       /\ GoTo(t, "remove")
       /\ UNCHANGED <<table, fetcher, adds, bg, ends, proxyData, errors>>

DeleteRows(S) ==
    /\ table' = Without(table, S)
    /\ discarded' = discarded \cup S

(* A failure is only logged. *)
api_remove_proxy(t) ==
    /\ At(t, "remove")
    /\ DeleteRows({proxyData[t]}) \/ UNCHANGED <<table, discarded>>
    /\ Frees(ClientOf[t])
    /\ mutex_' = [mutex_ EXCEPT ![ClientOf[t]] = Free]
    /\ GoTo(t, "check")
    /\ proxyData' = [proxyData EXCEPT ![t] = NoProxy]
    /\ UNCHANGED <<fetcher, adds, proxies_, kept, sync, ends, errors>>

(* Between two mids it may have to write what the threads found, under the  *)
(* mutex of TaskManager (ClientTaskManager).                               *)
TaskManagerLocked(c) == \E t \in Threads : ClientOf[t] = c /\ pc[t] = "write"

writeToDb(t) ==
    /\ At(t, "check")
    /\ ~ g_forceStop[ClientOf[t]]
    /\ ~ TaskManagerLocked(ClientOf[t])
    /\ Connects(ClientOf[t])
    /\ GoTo(t, "write")
    /\ UNCHANGED <<server, pool, sync, ends, proxyData, errors>>

Written(t) ==
    /\ At(t, "write")
    /\ Frees(ClientOf[t])
    /\ GoTo(t, "check")
    /\ UNCHANGED <<server, pool, sync, ends, proxyData, errors>>

crawls(t) ==
    \/ Check(t)
    \/ writeToDb(t)
    \/ Written(t)
    \/ getRandomProxy(t)
    \/ Crawl(t)
    \/ errorProxy(t)
    \/ removeProxy(t)
    \/ api_remove_proxy(t)
-----------------------------------------------------------------------------
(* backgroundThread of a client. *)

BgAt(c, place) == bg[c] = place /\ ~ crashed[c]
BgGoTo(c, place) == bg' = [bg EXCEPT ![c] = place]

(* After its sleep: the two looks at g_forceStop, the mutex between them.  *)
BgLocks(c) ==
    /\ BgAt(c, "sleep")
    /\ ~ g_forceStop[c]
    /\ mutex_[c] = Free
    /\ mutex_' = [mutex_ EXCEPT ![c] = Bg]
    /\ IF DOMAIN proxies_[c] = {} THEN UNCHANGED pool_ ELSE Connects(c)
    /\ BgGoTo(c, "report")
    /\ UNCHANGED <<server, proxies_, kept, reported, ends, crawler, errors>>

BgEnds(c) ==
    /\ BgAt(c, "sleep")
    /\ g_forceStop[c]
    /\ BgGoTo(c, "stop")
    /\ UNCHANGED <<server, pool, reported, mysql, ends, crawler, errors>>

(* Mutant of Reported: error_count is set, not added to. *)
Overwrites(p, count) == count

(* UPDATE proxy SET error_count = error_count + count. *)
Reported(p, count) == table[p] + count

(* One UPDATE; none for a count below 1, and none has an effect on a row   *)
(* that is not there.                                                      *)
api_error_proxy(c) ==
    /\ BgAt(c, "report")
    /\ \E p \in DOMAIN proxies_[c] \ DOMAIN reported[c] :
          /\ table' = IF p \in DOMAIN table /\ proxies_[c][p] > 0
                        THEN [table EXCEPT ![p] = Reported(p, proxies_[c][p])]
                        ELSE table
          /\ reported' = [reported EXCEPT ![c] = With(@, p, proxies_[c][p])]
    /\ UNCHANGED <<fetcher, adds, discarded, pool, bg, mysql, ends, crawler, errors>>

(* Mutant of HolderAfterBreak: the loop is left without giving the mutex back. *)
BgAfterBreak == Bg

HolderAfterBreak == Free

(* 10 tries for one proxy: "Report errored proxies failed". *)
ReportFails(c) ==
    /\ BgAt(c, "report")
    /\ \E p \in DOMAIN proxies_[c] \ DOMAIN reported[c] : proxies_[c][p] > 0
    /\ mutex_' = [mutex_ EXCEPT ![c] = HolderAfterBreak]
    /\ Frees(c)
    /\ BgGoTo(c, "stop")
    /\ UNCHANGED <<server, proxies_, kept, reported, ends, crawler, errors>>

(* Mutant of Cleared: the pool keeps its counts. *)
NotCleared(c) == proxies_[c]

(* proxies.clear() *)
Cleared(c) == Zero({})

(* Mutant of HolderAfterClear: the mutex is free while proxies are fetched. *)
NobodyAfterClear == Free

HolderAfterClear == Bg

BgClears(c) ==
    /\ BgAt(c, "report")
    /\ DOMAIN reported[c] = DOMAIN proxies_[c]
    /\ proxies_' = [proxies_ EXCEPT ![c] = Cleared(c)]
    /\ mutex_' = [mutex_ EXCEPT ![c] = HolderAfterClear]
    /\ reported' = [reported EXCEPT ![c] = Zero({})]
    /\ IF DOMAIN proxies_[c] = {} THEN Connects(c) ELSE UNCHANGED pool_
    /\ BgGoTo(c, "fetch")
    /\ UNCHANGED <<server, kept, ends, crawler, errors>>

(* SELECT ... WHERE error_count <= proxy_max_error_times *)
Usable == {p \in DOMAIN table : table[p] <= proxy_max_error_times}

(* Mutant of Fetched: bad proxies are fetched, too. *)
FetchedAll(c) == Zero(DOMAIN table)

(* emplace leaves a key that is there alone. *)
Fetched(c) == [p \in Usable \cup DOMAIN proxies_[c] |->
                 IF p \in DOMAIN proxies_[c] THEN proxies_[c][p] ELSE 0]

BgFetches(c) ==
    /\ BgAt(c, "fetch")
    /\ Usable # {}
    /\ proxies_' = [proxies_ EXCEPT ![c] = Fetched(c)]
    /\ kept' = [kept EXCEPT ![c] = Usable]
    /\ mutex_' = [mutex_ EXCEPT ![c] = Free]
    /\ Frees(c)
    /\ BgGoTo(c, "sleep")
    /\ UNCHANGED <<server, reported, ends, crawler, errors>>

(* After the last of its tries: the database failed, or has no proxy, or   *)
(* the client was stopped.  "Proxy pool is empty. quit"                    *)
BgGivesUp(c) ==
    /\ BgAt(c, "fetch")
    /\ mutex_' = [mutex_ EXCEPT ![c] = HolderAfterBreak]
    /\ Frees(c)
    /\ BgGoTo(c, "stop")
    /\ UNCHANGED <<server, proxies_, kept, reported, ends, crawler, errors>>

BgStops(c) ==
    /\ BgAt(c, "stop")
    /\ g_forceStop' = [g_forceStop EXCEPT ![c] = TRUE]
    /\ BgGoTo(c, "quit")
    /\ UNCHANGED <<server, pool, reported, mysql, crashed, crawler, errors>>

backgroundThread(c) ==
    \/ BgLocks(c)
    \/ BgEnds(c)
    \/ api_error_proxy(c)
    \/ ReportFails(c)
    \/ BgClears(c)
    \/ BgFetches(c)
    \/ BgGivesUp(c)
    \/ BgStops(c)

(* g_stop(StopMode::Force) by anybody else. *)
g_stop(c) ==
    /\ ~ crashed[c]
    /\ ~ g_forceStop[c]
    /\ g_forceStop' = [g_forceStop EXCEPT ![c] = TRUE]
    /\ UNCHANGED <<server, pool, sync, mysql, crashed, crawler, errors>>
-----------------------------------------------------------------------------
(* backgroundThreadAiErYun of the server.  That it ends, when a statement  *)
(* failed 5 times or the provider's answers are bad, is that it takes no    *)
(* more steps.                                                             *)

(* INSERT IGNORE of what the provider listed. *)
addProxies ==
    /\ fetcher = "query"
    /\ adds < MaxAdds
    /\ adds' = adds + 1
    /\ \E S \in SUBSET Proxies \ {{}} :
          table' = [p \in DOMAIN table \cup S |-> IF p \in DOMAIN table THEN table[p] ELSE 0]
    /\ fetcher' = "added"
    /\ UNCHANGED <<discarded, pool, sync, mysql, ends, crawler, errors>>

Bad == DOMAIN table \ Usable

removeProxies ==
    /\ fetcher = "added"
    /\ DeleteRows(Bad)
    /\ fetcher' = "query"
    /\ UNCHANGED <<adds, pool, sync, mysql, ends, crawler, errors>>
-----------------------------------------------------------------------------
(* The clients start with the background thread in its first round: start  *)
(* gives it 1.5 s before there are crawling threads.                       *)
Init ==
    /\ table = Zero(Stock)
    /\ fetcher = "query"
    /\ adds = 0
    /\ proxies_ = [c \in Clients |-> Zero({})]
    /\ mutex_ = [c \in Clients |-> Bg]
    /\ bg = [c \in Clients |-> "report"]
    /\ reported = [c \in Clients |-> Zero({})]
    /\ pool_ = [c \in Clients |-> pool_size_]
    /\ g_forceStop = [c \in Clients |-> FALSE]
    /\ crashed = [c \in Clients |-> FALSE]
    /\ pc = [t \in Threads |-> "check"]
    /\ proxyData = [t \in Threads |-> NoProxy]
    /\ errors = Zero(Proxies)
    /\ discarded = Proxies \ Stock
    /\ kept = [c \in Clients |-> {}]

Next ==
    \/ \E t \in Threads : crawls(t)
    \/ \E c \in Clients : backgroundThread(c)
    \/ \E c \in Clients : g_stop(c)
    \/ addProxies
    \/ removeProxies

Spec == Init /\ [][Next]_vars

(* Threads run, a request has a timeout, and nobody is kept from a mutex   *)
(* that is free again and again.                                           *)
Fairness ==
    /\ \A t \in Threads : /\ WF_vars(Check(t) \/ Crawl(t) \/ api_remove_proxy(t) \/ Written(t))
                          /\ SF_vars(getRandomProxy(t))
    /\ \A c \in Clients : WF_vars(backgroundThread(c)) /\ SF_vars(BgLocks(c))

LiveSpec == Spec /\ Fairness
-----------------------------------------------------------------------------
(* Whoever wants a connection to the database finds one. *)
ConnectionIsFree == \A c \in Clients : pool_[c] \in 1 .. pool_size_

TypeOK ==
    /\ DOMAIN table \subseteq Proxies
    /\ \A p \in DOMAIN table : table[p] \in 0 .. MaxErrors
    /\ fetcher \in {"query", "added"}
    /\ adds \in 0 .. MaxAdds
    /\ \A c \in Clients : /\ DOMAIN proxies_[c] \subseteq Proxies
                          /\ \A p \in DOMAIN proxies_[c] : proxies_[c][p] \in 0 .. MaxErrors
                          /\ DOMAIN reported[c] \subseteq Proxies
    /\ mutex_ \in [Clients -> Threads \cup {Free, Bg}]
    /\ bg \in [Clients -> {"sleep", "report", "fetch", "stop", "quit"}]
    /\ g_forceStop \in [Clients -> BOOLEAN]
    /\ crashed \in [Clients -> BOOLEAN]
    /\ pc \in [Threads -> {"check", "draw", "use", "remove", "write", "ended"}]
    /\ \A t \in Threads : proxyData[t] \in Proxies <=> pc[t] \in {"use", "remove"}
    /\ Total(errors) <= MaxErrors
    /\ ConnectionIsFree

(* What a client counted and has not reported yet. *)
Pending(c, p) ==
    IF p \in DOMAIN proxies_[c] THEN proxies_[c][p] - Count(reported[c], p) ELSE 0

(* Errors that clients counted on their own add up in the table: none is   *)
(* counted twice, and none is lost as long as the proxy keeps its row, not *)
(* even when a client stops between two of its UPDATEs.  (And the variables *)
(* have their types; whoever wants a connection to the database finds one.) *)
CountsAddUp ==
    /\ TypeOK
    /\ \A p \in DOMAIN table :
        LET known == table[p] + Total([c \in Clients |-> Pending(c, p)])
        IN /\ known <= errors[p]
           /\ p \notin discarded => known = errors[p]

(* A thread that gets the mutex never finds the pool half exchanged: all   *)
(* that the last exchange brought is there, except what was removed.       *)
PoolSeenWhole ==
    \A c \in Clients :
        mutex_[c] = Free /\ bg[c] \notin {"stop", "quit"}
            => kept[c] \subseteq DOMAIN proxies_[c]

Exchanges(c) == ~ crashed[c] /\ bg[c] # "quit"

(* A proxy that is gone from the table, or has too many errors there, and  *)
(* does not come back, leaves the pool of every client for ever, although  *)
(* a thread that still uses it may put it back.                            *)
BadProxyForgotten ==
    \A p \in Proxies : \A c \in Clients :
        <>[](p \notin Usable) => <>[](p \notin DOMAIN proxies_[c] \/ ~ Exchanges(c))

(* A client that was forced to stop, by itself or by somebody else, ends:  *)
(* no thread waits for the mutex for ever.  (Or it crashes.)                *)
ForcedClientEnds ==
    \A c \in Clients :
        g_forceStop[c] ~> \/ crashed[c]
                         \/ /\ bg[c] = "quit"
                            /\ \A t \in Threads : ClientOf[t] = c => pc[t] = "ended"

(* A thread that draws a proxy finds one ("draw one at random", README).   *)
DrawFindsProxy == \A c \in Clients : ~ crashed[c]
=============================================================================
