------------------------- MODULE ServerTaskManager -------------------------
(***************************************************************************)
(* The server's TaskManager: it cuts the range of user ids (mids) that is  *)
(* still to be crawled into tasks, leases each task to a client until a    *)
(* deadline, takes back the tasks whose deadline passed, and archives the  *)
(* unfinished work in data/task.json so that a restart can go on from it.  *)
(*                                                                         *)
(* getTask, commit and recycle hold mutex_ from their first line to their  *)
(* last, so each of them is one action.  The server process may be killed  *)
(* between any two of them, or while the archive is being written.         *)
(***************************************************************************)
EXTENDS Integers, Sequences, FiniteSets, Functions

CONSTANTS
    ClientIds,            \* the client ids that ask for tasks
    Counts,               \* how many mids a client asks for at once
    Mids,                 \* the mids the properties speak about
    FirstMid, LastMid,    \* the range in the first archive, LastMid excluded
    AdminEnds,            \* values of mid_end an administrator may set
    AdminCurrents,        \* values of mid_current an administrator may set
    MainTaskTimeout,      \* g_svrConfig.main_task_timeout
    SaveInterval,         \* the "3" of "now - last_time_write_to_file_ > 3"
    ClientsOutliveServer, \* may a client go on with its tasks after a restart?
    LiveClients,          \* the clients that never die, for liveness
    MaxTaskId,            \* bound: no task id from here on is handed out
    MaxTime               \* bound on the clock

ASSUME RangeAssumption ==
    /\ FirstMid \in Nat
    /\ LastMid \in Nat
    /\ AdminEnds \subseteq Nat
    /\ AdminCurrents \subseteq Nat
    /\ Counts \subseteq Nat \ {0}
    /\ Mids \subseteq Nat
    /\ \A m \in Mids : FirstMid <= m

ASSUME TimeAssumption ==
    /\ MainTaskTimeout \in Nat
    /\ SaveInterval \in Nat
    /\ MaxTime \in Nat
    /\ MaxTaskId \in Nat

ASSUME ClientsAssumption ==
    /\ ClientsOutliveServer \in BOOLEAN
    /\ LiveClients \subseteq ClientIds

VARIABLES
    up,                       \* is the server process alive?
    g_isRunning,              \* is it handing out tasks (/server/_start)?
    tasks_,                   \* task id -> the task leased under that id
    tasks_recycled_,          \* the ranges to be leased again, oldest first
    task_id_current_,         \* the next task id
    mid_current_,             \* the first mid never leased
    mid_end_,                 \* the end of the range, excluded
    last_time_write_to_file_, \* when the archive was last written
    file,                     \* data/task.json, as last written completely
    file_ok,                  \* can data/task.json be parsed?
    now,                      \* time(NULL), in seconds
    \* What happened outside TaskManager, for the environment and the properties.
    handed,                   \* the tasks clients were given, as they know them
    crawled,                  \* the mids of the tasks that were committed
    dropped,                  \* mids passed by mid_current_ and put in no task
    redefined                 \* mids mid_current_ was moved across by an administrator

memory == <<g_isRunning, tasks_, tasks_recycled_, task_id_current_, mid_current_,
            mid_end_, last_time_write_to_file_>>
ghosts == <<handed, crawled, dropped, redefined>>
vars == <<up, memory, file, file_ok, now, ghosts>>
-----------------------------------------------------------------------------
(* Tasks, ranges and the archive.                                          *)

(* The end of a range can come out below its start, and even negative: see GetFreshTask. *)
Ranges == [mid_start : Nat, mid_end : Int]

BiliTask == [client_id : ClientIds, mid_start : Nat, mid_end : Int, ttl : Nat]

(* A task as its client knows it, from the reply to /task/get. *)
HandedTask == [client_id : ClientIds, id : Nat, mid_start : Nat, mid_end : Int]

Archive == [task_id_current : Nat, mid_current : Nat, mid_end : Nat,
            tasks : Seq(Ranges)]

(* The mids of a range or task. *)
Span(r) == r.mid_start .. r.mid_end - 1

(* Some range of the sequence q has the mid m. *)
Covers(q, m) == \E i \in DOMAIN q : m \in Span(q[i])

RangeOf(r) == [mid_start |-> r.mid_start, mid_end |-> r.mid_end]

(* Mutant of Emplace: the task is filed under the id after the one the client gets. *)
EmplaceUnderNextId(f, k, v) == [x \in DOMAIN f \cup {k + 1} |-> IF x = k + 1 THEN v ELSE f[x]]

(* std::map::emplace: a key that is already there keeps its value. *)
Emplace(f, k, v) ==
    [x \in DOMAIN f \cup {k} |-> IF x \in DOMAIN f THEN f[x] ELSE v]

Min2(a, b) == IF a < b THEN a ELSE b
Max2(a, b) == IF a < b THEN b ELSE a

Erase(f, K) == Restrict(f, DOMAIN f \ K)

(* The order in which a std::map with the keys K is traversed (one element). *)
KeyOrders(K) ==
    {s \in [1..Cardinality(K) -> K] :
        /\ Range(s) = K
        /\ \A i, j \in DOMAIN s : i < j => s[i] < s[j]}

RangesInOrder(f, s) == [i \in DOMAIN s |-> RangeOf(f[s[i]])]

(* Mutant of ArchivesOf: the running tasks are not archived. *)
ArchivesOfQueue(tasks, recycled, current, end, idCurrent) ==
    {[task_id_current |-> idCurrent, mid_current |-> current, mid_end |-> end,
      tasks |-> recycled]}

(* The archive that describes the given state (one element). *)
ArchivesOf(tasks, recycled, current, end, idCurrent) ==
    {[task_id_current |-> idCurrent, mid_current |-> current, mid_end |-> end,
      tasks |-> RangesInOrder(tasks, s) \o recycled] : s \in KeyOrders(DOMAIN tasks)}

(* At most one write per SaveInterval; a write that cannot open the file is *)
(* reported by writeDataToFile and ignored by its callers.                  *)
SaveIfDue(archives) ==
    IF now - last_time_write_to_file_ > SaveInterval
      THEN /\ last_time_write_to_file_' = now
           /\ file' \in archives \cup {file}
      ELSE UNCHANGED <<last_time_write_to_file_, file>>
-----------------------------------------------------------------------------
(* getTask: a recycled range first, else the next fresh one.               *)

(* Leases range r to client c under the next id.  The archive is written    *)
(* before task_id_current_ is incremented.                                  *)
Lease(c, r) ==
    /\ tasks_' = Emplace(tasks_, task_id_current_,
                         [client_id |-> c, mid_start |-> r.mid_start,
                          mid_end |-> r.mid_end, ttl |-> now + MainTaskTimeout])
    /\ SaveIfDue(ArchivesOf(tasks_', tasks_recycled_', mid_current_', mid_end_',
                            task_id_current_))
    /\ task_id_current_' = task_id_current_ + 1
    /\ handed' = handed \cup {[client_id |-> c, id |-> task_id_current_,
                               mid_start |-> r.mid_start, mid_end |-> r.mid_end]}
    /\ UNCHANGED <<up, g_isRunning, file_ok, now, crawled>>

(* Mutant of CanLease: the end of the range is tested before the recycled tasks. *)
CanLeaseAhead == up /\ g_isRunning /\ task_id_current_ < MaxTaskId /\ mid_current_ < mid_end_

CanLease ==
    /\ up
    /\ g_isRunning
    /\ task_id_current_ < MaxTaskId

GetRecycledTask(c) ==
    /\ CanLease
    /\ tasks_recycled_ # <<>>
    /\ tasks_recycled_' = Tail(tasks_recycled_)
    /\ UNCHANGED <<mid_current_, mid_end_, dropped, redefined>>
    /\ Lease(c, Head(tasks_recycled_))

(* setRange takes no lock, so mid_end_ may become the given end between two of *)
(* the three places where getTask, having found mids left, reads it again.     *)
EndReads(end) == {<<end, end, end>>, <<mid_end_, end, end>>, <<mid_end_, mid_end_, end>>}

(* The range cut off for a request of n mids.  For the last, short range the *)
(* code returns mid_end_ - mid_current_ where mid_end_ is meant.             *)
NextRange(n, r) ==
    [mid_start |-> mid_current_,
     mid_end |-> IF mid_current_ + n > r[1] THEN r[2] - mid_current_
                                            ELSE mid_current_ + n]

(* Mutant of NextCurrent: mid_current_ = midEnd, without regard to the short range. *)
CurrentAfterRange(n, r) == NextRange(n, r).mid_end

NextCurrent(n, r) ==
    IF mid_current_ + n > r[1] THEN r[3] ELSE mid_current_ + n

(* A new end below mid_current_ moves mid_current_ back. *)
GetFreshTask(c, n) ==
    /\ CanLease
    /\ tasks_recycled_ = <<>>
    /\ mid_current_ < mid_end_
    /\ UNCHANGED tasks_recycled_
    /\ \E end \in AdminEnds \cup {mid_end_} : \E r \in EndReads(end) :
          LET range == NextRange(n, r)
              current == NextCurrent(n, r)
          IN /\ mid_end_' = end
             /\ mid_current_' = current
             /\ dropped' = dropped \cup ((mid_current_ .. current - 1) \ Span(range))
             /\ redefined' = IF end = mid_end_ THEN redefined ELSE redefined \cup
                    (current .. Max2(mid_current_, range.mid_end) - 1)
             /\ Lease(c, range)

(* The answers SERVER_STOPPED and NO_TASK_AVAIL change nothing. *)
GetTask(c) == GetRecycledTask(c) \/ \E n \in Counts : GetFreshTask(c, n)
-----------------------------------------------------------------------------
(* commit: clears the task if the client owns it, then takes back every task *)
(* whose deadline has passed.  It does not look at g_isRunning.              *)

(* Mutant of Acknowledged: everything the client has is taken as done. *)
AcknowledgedAll(h) == {t \in DOMAIN tasks_ : tasks_[t].client_id = h.client_id}

Acknowledged(h) ==
    {t \in DOMAIN tasks_ : t = h.id /\ tasks_[t].client_id = h.client_id}

Expired(tasks) == {t \in DOMAIN tasks : tasks[t].ttl < now}

(* Mutant of RecycleExpired: the expired tasks are queued and not erased.    *)
RequeueExpired(tasks) ==
    /\ \E s \in KeyOrders(Expired(tasks)) :
          tasks_recycled_' = tasks_recycled_ \o RangesInOrder(tasks, s)
    /\ tasks_' = tasks

RecycleExpired(tasks) ==
    /\ \E s \in KeyOrders(Expired(tasks)) :
          tasks_recycled_' = tasks_recycled_ \o RangesInOrder(tasks, s)
    /\ tasks_' = Erase(tasks, Expired(tasks))

(* A client commits a task it was given, once it has stored every mid of it: *)
(* a task with no mids is never committed.  A commit may be repeated.        *)
Commit(h) ==
    /\ up
    /\ Span(h) # {}
    /\ RecycleExpired(Erase(tasks_, Acknowledged(h)))
    /\ SaveIfDue(ArchivesOf(tasks_', tasks_recycled_', mid_current_, mid_end_,
                            task_id_current_))
    /\ crawled' = crawled \cup Span(h)
    /\ UNCHANGED <<up, g_isRunning, task_id_current_, mid_current_, mid_end_,
                   file_ok, now, handed, dropped, redefined>>
-----------------------------------------------------------------------------
(* The administrator's requests. *)

(* While the server runs only the end of the range can be changed. *)
SetRange(end, current) ==
    /\ up
    /\ mid_end_' = end
    /\ IF g_isRunning
         THEN UNCHANGED <<mid_current_, redefined>>
         ELSE /\ mid_current_' = current
              /\ redefined' = redefined \cup
                    (Min2(mid_current_, current) .. Max2(mid_current_, current) - 1)
    /\ UNCHANGED <<up, g_isRunning, tasks_, tasks_recycled_, task_id_current_,
                   last_time_write_to_file_, file, file_ok, now, handed, crawled, dropped>>

Start ==
    /\ up
    /\ ~g_isRunning
    /\ g_isRunning' = TRUE
    /\ UNCHANGED <<up, tasks_, tasks_recycled_, task_id_current_, mid_current_,
                   mid_end_, last_time_write_to_file_, file, file_ok, now, ghosts>>

Stop ==
    /\ up
    /\ g_isRunning
    /\ g_isRunning' = FALSE
    /\ UNCHANGED <<up, tasks_, tasks_recycled_, task_id_current_, mid_current_,
                   mid_end_, last_time_write_to_file_, file, file_ok, now, ghosts>>
-----------------------------------------------------------------------------
(* The life of the process and of its archive. *)

NoTasks == [t \in {} |-> t]

LoseMemory ==
    /\ up' = FALSE
    /\ g_isRunning' = FALSE
    /\ tasks_' = NoTasks
    /\ tasks_recycled_' = <<>>
    /\ task_id_current_' = 0
    /\ mid_current_' = 0
    /\ mid_end_' = 0
    /\ last_time_write_to_file_' = 0

(* ~TaskManager archives the state before the process exits. *)
Exit ==
    /\ up
    /\ LoseMemory
    /\ file' \in ArchivesOf(tasks_, tasks_recycled_, mid_current_, mid_end_,
                            task_id_current_) \cup {file}
    /\ UNCHANGED <<file_ok, now, ghosts>>

Crash ==
    /\ up
    /\ LoseMemory
    /\ UNCHANGED <<file, file_ok, now, ghosts>>

(* The archive is truncated when it is opened and written in place. *)
CrashWhileSaving ==
    /\ up
    /\ LoseMemory
    /\ file_ok' = FALSE
    /\ UNCHANGED <<file, now, ghosts>>

(* readData at the start of the process.  An archive that cannot be parsed   *)
(* ends main with 1.                                                         *)
Boot ==
    /\ ~up
    /\ file_ok
    /\ up' = TRUE
    /\ g_isRunning' = FALSE
    /\ tasks_' = NoTasks
    /\ tasks_recycled_' = file.tasks
    /\ task_id_current_' = file.task_id_current
    /\ mid_current_' = file.mid_current
    /\ mid_end_' = file.mid_end
    /\ last_time_write_to_file_' = 0
    /\ handed' = IF ClientsOutliveServer THEN handed ELSE {}
    /\ UNCHANGED <<file, file_ok, now, crawled, dropped, redefined>>

Tick ==
    /\ now < MaxTime
    /\ now' = now + 1
    /\ UNCHANGED <<up, memory, file, file_ok, ghosts>>

Init ==
    /\ up = FALSE
    /\ g_isRunning = FALSE
    /\ tasks_ = NoTasks
    /\ tasks_recycled_ = <<>>
    /\ task_id_current_ = 0
    /\ mid_current_ = 0
    /\ mid_end_ = 0
    /\ last_time_write_to_file_ = 0
    /\ file = [task_id_current |-> 0, mid_current |-> FirstMid, mid_end |-> LastMid,
               tasks |-> <<>>]
    /\ file_ok = TRUE
    /\ now = SaveInterval + 1
    /\ handed = {}
    /\ crawled = {}
    /\ dropped = {}
    /\ redefined = {}

Next ==
    \/ \E c \in ClientIds : GetTask(c)
    \/ \E h \in handed : Commit(h)
    \/ \E e \in AdminEnds, c \in AdminCurrents : SetRange(e, c)
    \/ Start
    \/ Stop
    \/ Exit
    \/ Crash
    \/ CrashWhileSaving
    \/ Boot
    \/ Tick

Spec == Init /\ [][Next]_vars

(* A live client asks for tasks (getSubTask and getMainTask_ of the client   *)
(* keep its threads supplied) and commits each task it was given: its threads *)
(* retry every mid until the task is complete.  Nothing is assumed of the     *)
(* clock, the administrator or the other clients.                             *)
CommitHeld(c) ==
    \E h \in handed :
        /\ h.client_id = c
        /\ h.id \in DOMAIN tasks_ \/ ~(Span(h) \subseteq crawled)
        /\ Commit(h)

ClientFairness(c) == WF_vars(GetTask(c)) /\ WF_vars(CommitHeld(c))

LiveSpec == Spec /\ \A c \in LiveClients : ClientFairness(c)
-----------------------------------------------------------------------------
(* Where the mids are. *)

Leased(m) == \E t \in DOMAIN tasks_ : m \in Span(tasks_[t])

Recycled(m) == Covers(tasks_recycled_, m)

(* The server will still lease m, or has leased it. *)
Open(m) == mid_current_ <= m \/ Leased(m) \/ Recycled(m)

(* A restart from the archive will lease m again. *)
Archived(m) == file.mid_current <= m \/ Covers(file.tasks, m)

Waived == dropped \cup redefined

Todo ==
    {m \in Mids : CASE up -> Open(m)
                   [] ~up /\ file_ok -> Archived(m)
                   [] OTHER -> TRUE}

(* A server that is down has nothing in memory; one that is up has its ids   *)
(* and its recycled tasks in range.                                          *)
TypeOK ==
    /\ up \in BOOLEAN
    /\ g_isRunning \in BOOLEAN
    /\ tasks_ \in [DOMAIN tasks_ -> BiliTask]
    /\ IsFiniteSet(DOMAIN tasks_)
    /\ DOMAIN tasks_ \subseteq 0 .. task_id_current_ - 1
    /\ tasks_recycled_ \in Seq(Ranges)
    /\ task_id_current_ \in Nat
    /\ mid_current_ \in Nat
    /\ mid_end_ \in Nat
    /\ last_time_write_to_file_ \in Nat
    /\ file \in Archive
    /\ file_ok \in BOOLEAN
    /\ now \in Nat
    /\ handed \subseteq HandedTask
    /\ crawled \subseteq Nat
    /\ dropped \subseteq Nat
    /\ redefined \subseteq Nat

(* No mid is lost: while the server is up, every mid of the range is ahead    *)
(* of mid_current_, in a running task, in a recycled task, or crawled.  getTask, *)
(* commit, the recycling of expired tasks, readData and setRange together     *)
(* keep it so.                                                                *)
NoMidLost == up => \A m \in Mids : Open(m) \/ m \in crawled \/ m \in Waived

(* Whatever the archive holds, a crash now loses nothing: every mid that is   *)
(* not crawled will be leased again by a server that reads the file.  This    *)
(* relates writeDataToFile, which runs at most once per SaveInterval, to      *)
(* everything that happened since.                                            *)
ArchiveCovers ==
    file_ok => \A m \in Mids : Archived(m) \/ m \in crawled \/ m \in Waived

(* No mid is in two places: two running tasks, two recycled ones or one of    *)
(* each do not overlap, and none reaches beyond mid_current_, so no two       *)
(* clients are asked to crawl the same mid at the same time (mids an          *)
(* administrator moved mid_current_ back over excepted).                      *)
NoOverlap ==
    \A m \in Mids \ redefined :
        /\ \A t, u \in DOMAIN tasks_ :
              m \in Span(tasks_[t]) /\ m \in Span(tasks_[u]) => t = u
        /\ \A i, j \in DOMAIN tasks_recycled_ :
              m \in Span(tasks_recycled_[i]) /\ m \in Span(tasks_recycled_[j]) => i = j
        /\ ~(Leased(m) /\ Recycled(m))
        /\ Leased(m) \/ Recycled(m) => m < mid_current_

(* The owner check of commit never fails: the id under which a client knows a *)
(* task is never issued a second time, and if that task is still running it   *)
(* is leased to this client, with exactly the mids the client was given.      *)
CommitByOwner ==
    up => \A h \in handed :
        /\ h.id < task_id_current_
        /\ h.id \in DOMAIN tasks_ =>
              /\ tasks_[h.id].client_id = h.client_id
              /\ RangeOf(tasks_[h.id]) = RangeOf(h)

(* As long as the server stays up, a mid that was crawled and is no longer    *)
(* open is never opened again, whatever is recycled or committed late (only   *)
(* an administrator can do that).                                             *)
NoReopening ==
    [][up /\ up' => \A m \in Mids \ redefined' : ~Open(m) => ~Open(m)']_vars

(* The server is up, hands out tasks, and has not run into the bound on ids. *)
Serving == up /\ g_isRunning /\ task_id_current_ < MaxTaskId

(* If the server serves from some time on and the clients live, every mid     *)
(* below the end is crawled, although tasks expire, are recycled and committed *)
(* late, the end is moved, and the server crashed and came back before.       *)
EveryMidCrawled ==
    <>[]Serving => <>[](\A m \in Mids : m \in crawled \cup Waived \/ m >= mid_end_)

(* The last mids of the range are leased like the others: nothing that        *)
(* mid_current_ has passed was left out of every task.                        *)
NothingDropped == dropped = {}

Ledger == INSTANCE TaskLedger WITH
    todo <- Todo,
    crawled <- crawled \cap Mids,
    waived <- Waived \cap Mids

(* The server implements the ledger: mids leave the to-do list only by being  *)
(* crawled or waived, and a restart never forgets unfinished ones.            *)
ImplementsLedger == Ledger!Spec
=============================================================================
