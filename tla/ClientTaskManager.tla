------------------------- MODULE ClientTaskManager -------------------------
(***************************************************************************)
(* The client's TaskManager and the crawling threads that use it: a thread *)
(* takes a sub task of the current main task, crawls its mids, and hands   *)
(* the results back; they are buffered per main task, written to the       *)
(* database from time to time, and counted there; the main task whose mids  *)
(* are all counted is committed to the server.                              *)
(*                                                                         *)
(* getSubTask and commitSubTask hold mutex_ throughout, database and server *)
(* calls included, but g_stop can be called at any time by Ctrl-C, by the   *)
(* proxy thread or by an answer of the server, so the calls that write are  *)
(* several steps here, and mutex_ holds the call under way.                 *)
(***************************************************************************)
EXTENDS Integers, Sequences, FiniteSets, Functions

CONSTANTS
    Threads,           \* the crawling threads
    Tasks,             \* the main tasks the server may lease to this client
    Users,             \* the mids that belong to a user (the others are "none")
    sub_task_step,     \* g_clientConfig.sub_task_step
    kRecordsPerQuery,  \* 128 in the code
    WriteEvery,        \* the 50 of "subTaskId % 50 == 0"
    MaxErrors,         \* bound: how many mids fail in all
    MaxCompleted       \* bound: a main task's count from which commits do not fail

MainTask == [id : Nat, mid_start : Nat, mid_end : Nat]

ASSUME TasksAssumption ==
    /\ Tasks \subseteq MainTask
    /\ IsFiniteSet(Tasks)
    /\ \A t, u \in Tasks : t.id = u.id => t = u

ASSUME ConfigAssumption ==
    /\ sub_task_step \in Nat \ {0}
    /\ kRecordsPerQuery \in Nat
    /\ WriteEvery \in Nat \ {0}
    /\ MaxErrors \in Nat
    /\ MaxCompleted \in Nat

VARIABLES
    g_shouldStop,         \* stop when every main task is committed
    g_forceStop,          \* stop now
    main_tasks_,          \* main task id -> [mid_start, mid_end, completed]
    current_main_task_,   \* the main task that is being cut up
    current_mid_,         \* its next mid
    sub_tasks_,           \* sub task id -> its main task's id and its mids
    current_sub_task_id_, \* the next sub task id
    buff_,                \* buff_.ok is infos_buff_, buff_.none none_mids_buff_:
                          \* main task id -> the mids crawled, not yet written
    error_mids_,          \* main task id -> the mids to be crawled again
    commit_error,         \* how many mids failed
    mutex_,               \* the call that holds mutex_ and has more steps to go
    pc,                   \* where each thread is in spiderThread
    job,                  \* its sub task, and the results when it is crawled
    \* The outside.
    pool,                 \* the tasks the server has not leased to this client
    db,                   \* the mids in the tables mid_* and mid_none_*
    reported              \* the ids of the tasks the server was told are done

flags == <<g_shouldStop, g_forceStop>>
dispatch == <<current_main_task_, current_mid_, current_sub_task_id_>>
threads == <<pc, job>>
outside == <<pool, db, reported>>
vars == <<flags, main_tasks_, dispatch, sub_tasks_, buff_, error_mids_, commit_error,
          mutex_, threads, outside>>
-----------------------------------------------------------------------------
Kinds == {"ok", "none"}

Span(t) == t.mid_start .. t.mid_end - 1

Min2(a, b) == IF a < b THEN a ELSE b

Least(S) == CHOOSE x \in S : \A y \in S : x <= y

(* Mutant of AppendTo: emplace only, which leaves a key that is there alone.   *)
AppendToNew(f, k, q) == [x \in DOMAIN f \cup {k} |-> IF x \in DOMAIN f THEN f[x] ELSE q]

(* Mutant of Put: the value is filed under the next id. *)
PutUnderNextId(f, k, v) == [x \in DOMAIN f \cup {k + 1} |-> IF x = k + 1 THEN v ELSE f[x]]

(* std::map: a key with its value appended to, set, and erased. *)
AppendTo(f, k, q) ==
    [x \in DOMAIN f \cup {k} |-> IF x # k THEN f[x]
                                 ELSE IF k \in DOMAIN f THEN f[k] \o q ELSE q]
Put(f, k, v) == [x \in DOMAIN f \cup {k} |-> IF x = k THEN v ELSE f[x]]
Drop(f, k) == Restrict(f, DOMAIN f \ {k})

NoCall == [op |-> "none", by |-> "none", kind |-> "none", step |-> "none"]

NoJob == [id |-> -1, mids |-> <<>>, ok |-> <<>>, none |-> <<>>, error |-> <<>>]

(* g_stop is called with the given mode, or ("no") not at all. *)
g_stop(mode) ==
    /\ g_shouldStop' = (g_shouldStop \/ mode # "no")
    /\ g_forceStop' = (g_forceStop \/ mode = "force")
-----------------------------------------------------------------------------
(* getSubTask                                                              *)

(* Thread t is at the top of its loop and takes mutex_. *)
Asks(t) == pc[t] = "idle" /\ mutex_ = NoCall

(* Hands the mids to t as a new sub task of the main task i. *)
HandOut(t, i, mids) ==
    /\ sub_tasks_' = Put(sub_tasks_, current_sub_task_id_, [main |-> i, mids |-> mids])
    /\ current_sub_task_id_' = current_sub_task_id_ + 1
    /\ pc' = [pc EXCEPT ![t] = "working"]
    /\ job' = [job EXCEPT ![t] = [NoJob EXCEPT !.id = current_sub_task_id_, !.mids = mids]]
    /\ UNCHANGED <<buff_, commit_error, mutex_, db, reported>>

(* The first mids of the queue q, at most sub_task_step, and the others. *)
Taken(q) == SubSeq(q, 1, Min2(Len(q), sub_task_step))
Left(q) == SubSeq(q, Len(Taken(q)) + 1, Len(q))

GetErrorMids(t) ==
    /\ Asks(t)
    /\ DOMAIN error_mids_ # {}
    /\ LET i == Least(DOMAIN error_mids_)
           q == error_mids_[i]
       IN /\ HandOut(t, i, Taken(q))
          /\ error_mids_' = IF Left(q) = <<>> THEN Drop(error_mids_, i)
                                              ELSE Put(error_mids_, i, Left(q))
    /\ UNCHANGED <<flags, main_tasks_, current_main_task_, current_mid_, pool>>

(* The mids of main task m from the mid on: at most sub_task_step of them. *)
Chunk(m, mid) == [i \in 1 .. Min2(m.mid_end - mid, sub_task_step) |-> mid + i - 1]

HandOutFresh(t, m, mid) ==
    /\ HandOut(t, m.id, Chunk(m, mid))
    /\ current_mid_' = mid + Len(Chunk(m, mid))

GetFreshMids(t) ==
    /\ Asks(t)
    /\ DOMAIN error_mids_ = {}
    /\ current_mid_ < current_main_task_.mid_end
    /\ HandOutFresh(t, current_main_task_, current_mid_)
    /\ UNCHANGED <<flags, main_tasks_, current_main_task_, error_mids_, pool>>

(* The current main task is used up. *)
UsedUp == DOMAIN error_mids_ = {} /\ current_mid_ >= current_main_task_.mid_end

(* getMainTask_ succeeds in one of its ten tries. *)
GetMainTask(t) ==
    /\ Asks(t)
    /\ UsedUp
    /\ ~g_shouldStop
    /\ \E m \in pool :
          /\ pool' = pool \ {m}
          /\ current_main_task_' = m
          /\ main_tasks_' = IF m.id \in DOMAIN main_tasks_ THEN main_tasks_
                ELSE Put(main_tasks_, m.id, [mid_start |-> m.mid_start,
                                             mid_end |-> m.mid_end, completed |-> 0])
          /\ HandOutFresh(t, m, m.mid_start)
    /\ UNCHANGED <<flags, error_mids_>>

(* getMainTask_ fails: the server is stopped, has no task, or ten answers    *)
(* were lost or refused.                                                     *)
GetMainTaskFails(t) ==
    /\ Asks(t)
    /\ UsedUp
    /\ ~g_shouldStop
    /\ g_stop("smooth")
    /\ pc' = [pc EXCEPT ![t] = "refused"]
    /\ UNCHANGED <<main_tasks_, dispatch, sub_tasks_, buff_, error_mids_, commit_error,
                   mutex_, job, outside>>

(* Mutant of Flush: nothing is flushed. *)
RefuseUnflushed(t) ==
    /\ Asks(t) /\ UsedUp /\ g_shouldStop
    /\ pc' = [pc EXCEPT ![t] = "refused"]
    /\ UNCHANGED <<flags, main_tasks_, dispatch, sub_tasks_, buff_, error_mids_,
                   commit_error, mutex_, job, outside>>

(* When the client is stopping, a thread that gets no sub task flushes. *)
Flush(t) ==
    /\ Asks(t)
    /\ UsedUp
    /\ g_shouldStop
    /\ mutex_' = [op |-> "flush", by |-> t, kind |-> "ok", step |-> "write"]
    /\ UNCHANGED <<flags, main_tasks_, dispatch, sub_tasks_, buff_, error_mids_,
                   commit_error, threads, outside>>

GetSubTask(t) ==
    \/ GetErrorMids(t) \/ GetFreshMids(t)
    \/ GetMainTask(t) \/ GetMainTaskFails(t) \/ Flush(t)
-----------------------------------------------------------------------------
(* spiderThread, outside the task manager                                  *)

(* The elements of the sequence q at the places K, in their order (one sequence). *)
PartsOf(q, K) ==
    {[i \in DOMAIN p |-> q[p[i]]] :
        p \in {o \in [1 .. Cardinality(K) -> K] :
                  Range(o) = K /\ \A i, j \in DOMAIN o : i < j => o[i] < o[j]}}

(* A mid that exists or does not is found out; any may fail. *)
Crawl(t) ==
    /\ pc[t] = "working"
    /\ ~g_forceStop
    /\ LET q == job[t].mids
       IN \E E \in SUBSET DOMAIN q :
             LET users == {i \in DOMAIN q \ E : q[i] \in Users}
             IN /\ E = {} \/ commit_error + Cardinality(E) <= MaxErrors
                /\ \E ok \in PartsOf(q, users), none \in PartsOf(q, DOMAIN q \ (E \cup users)),
                      error \in PartsOf(q, E) :
                      job' = [job EXCEPT ![t].ok = ok, ![t].none = none, ![t].error = error]
    /\ pc' = [pc EXCEPT ![t] = "crawled"]
    /\ UNCHANGED <<flags, main_tasks_, dispatch, sub_tasks_, buff_, error_mids_,
                   commit_error, mutex_, outside>>

(* On a forced stop the sub task is dropped. *)
Abandon(t) ==
    /\ pc[t] = "working"
    /\ g_forceStop
    /\ pc' = [pc EXCEPT ![t] = "exited"]
    /\ job' = [job EXCEPT ![t] = NoJob]
    /\ UNCHANGED <<flags, main_tasks_, dispatch, sub_tasks_, buff_, error_mids_,
                   commit_error, mutex_, outside>>

MayExit == DOMAIN main_tasks_ = {} \/ g_forceStop

(* A thread that got no sub task reads the number of main tasks, unlocked.   *)
ExitOrRetry(t) ==
    /\ pc[t] = "refused"
    /\ pc' = [pc EXCEPT ![t] = IF MayExit THEN "exited" ELSE "idle"]
    /\ UNCHANGED <<flags, main_tasks_, dispatch, sub_tasks_, buff_, error_mids_,
                   commit_error, mutex_, job, outside>>
-----------------------------------------------------------------------------
(* commitSubTask and flush                                                 *)

(* Two early returns, marked "Won't get here", lose the results. *)
CommitSubTask(t) ==
    /\ pc[t] = "crawled"
    /\ mutex_ = NoCall
    /\ IF job[t].id \in DOMAIN sub_tasks_ /\ sub_tasks_[job[t].id].main \in DOMAIN main_tasks_
         THEN /\ mutex_' = [op |-> "commit", by |-> t, kind |-> "ok", step |-> "buffer"]
              /\ UNCHANGED threads
         ELSE /\ pc' = [pc EXCEPT ![t] = "idle"]
              /\ job' = [job EXCEPT ![t] = NoJob]
              /\ UNCHANGED mutex_
    /\ UNCHANGED <<flags, main_tasks_, dispatch, sub_tasks_, buff_, error_mids_,
                   commit_error, outside>>

(* The call under way is at the given step; what it works on. *)
At(step) == mutex_.step = step
Kind == mutex_.kind
Job == job[mutex_.by]
MainOfJob == sub_tasks_[Job.id].main

(* After the ok results come the none results, and then the end of the call. *)
Proceed ==
    mutex_' = IF Kind = "ok"
              THEN [mutex_ EXCEPT !.kind = "none",
                                  !.step = IF mutex_.op = "commit" THEN "buffer" ELSE "write"]
              ELSE [mutex_ EXCEPT !.step = "return"]

(* writeOkToDb_ or writeNoneToDb_ returned false: commitSubTask stops the    *)
(* client, flush ignores it.                                                 *)
WriteReturnsFalse ==
    /\ Proceed
    /\ g_stop(IF mutex_.op = "commit" THEN "force" ELSE "no")

(* Note that the size of the buffer is the number of its main tasks. *)
ShouldWrite(b) ==
    \/ Cardinality(DOMAIN b) > kRecordsPerQuery
    \/ g_shouldStop
    \/ DOMAIN b # {} /\ Job.id % WriteEvery = 0

Buffer ==
    /\ At("buffer")
    /\ LET q == Job[Kind]
           b == IF q = <<>> THEN buff_[Kind] ELSE AppendTo(buff_[Kind], MainOfJob, q)
       IN /\ buff_' = [buff_ EXCEPT ![Kind] = b]
          /\ IF ShouldWrite(b) THEN mutex_' = [mutex_ EXCEPT !.step = "write"] ELSE Proceed
    /\ UNCHANGED <<flags, main_tasks_, dispatch, sub_tasks_, error_mids_, commit_error,
                   threads, outside>>

Buffered(kind) == UNION {Range(buff_[kind][i]) : i \in DOMAIN buff_[kind]}

Write ==
    /\ At("write")
    /\ ~g_forceStop \/ Buffered(Kind) = {}
    /\ db' = [db EXCEPT ![Kind] = @ \cup Buffered(Kind)]
    /\ mutex_' = [mutex_ EXCEPT !.step = "count"]
    /\ UNCHANGED <<flags, main_tasks_, dispatch, sub_tasks_, buff_, error_mids_,
                   commit_error, threads, pool, reported>>

(* No connection, or a statement failed five times: the statements before it *)
(* have been executed.                                                       *)
WriteFails ==
    /\ At("write")
    /\ \E W \in SUBSET Buffered(Kind) : db' = [db EXCEPT ![Kind] = @ \cup W]
    /\ WriteReturnsFalse
    /\ UNCHANGED <<main_tasks_, dispatch, sub_tasks_, buff_, error_mids_, commit_error,
                   threads, pool, reported>>

(* The main task whose records are counted next, and its count then. *)
Counted == Least(DOMAIN buff_[Kind])
Completed == main_tasks_[Counted].completed + Len(buff_[Kind][Counted])
(* Mutants of IsCompleted: off by one, either way. *)
IsCompletedEarly == Completed + 1 >= main_tasks_[Counted].mid_end - main_tasks_[Counted].mid_start
IsCompletedLate == Completed > main_tasks_[Counted].mid_end - main_tasks_[Counted].mid_start
IsCompleted == Completed >= main_tasks_[Counted].mid_end - main_tasks_[Counted].mid_start

Counts(i) ==
    /\ At("count")
    /\ DOMAIN buff_[Kind] # {}
    /\ i = Counted
    /\ i \in DOMAIN main_tasks_
    /\ UNCHANGED <<dispatch, sub_tasks_, error_mids_, commit_error, threads, pool, db>>

CountRecords(i) ==
    /\ Counts(i)
    /\ ~IsCompleted
    /\ main_tasks_' = [main_tasks_ EXCEPT ![i].completed = Completed]
    /\ buff_' = [buff_ EXCEPT ![Kind] = Drop(@, i)]
    /\ UNCHANGED <<flags, mutex_, reported>>

(* commitMainTask_ succeeds.  The answer may ask the client to stop. *)
CommitMainTask(i) ==
    /\ Counts(i)
    /\ IsCompleted
    /\ ~g_forceStop
    /\ reported' = reported \cup {i}
    /\ main_tasks_' = Drop(main_tasks_, i)
    /\ buff_' = [buff_ EXCEPT ![Kind] = Drop(@, i)]
    /\ \E mode \in {"no", "smooth", "force"} : g_stop(mode)
    /\ UNCHANGED mutex_

(* It fails ten times, or the client is forced to stop: the records stay in  *)
(* the buffer although they are counted, and are counted again next time.    *)
(* The server may have got the commit.                                       *)
CommitMainTaskFails(i) ==
    /\ Counts(i)
    /\ IsCompleted
    /\ g_forceStop \/ main_tasks_[i].completed < MaxCompleted
    /\ reported' \in {reported} \cup (IF g_forceStop THEN {} ELSE {reported \cup {i}})
    /\ main_tasks_' = [main_tasks_ EXCEPT ![i].completed = Completed]
    /\ WriteReturnsFalse
    /\ UNCHANGED buff_

(* Every record is counted, or some belong to no main task: a critical error. *)
CountEnds ==
    /\ At("count")
    /\ IF DOMAIN buff_[Kind] = {} THEN g_stop("no")
                                  ELSE Counted \notin DOMAIN main_tasks_ /\ g_stop("force")
    /\ Proceed
    /\ UNCHANGED <<main_tasks_, dispatch, sub_tasks_, buff_, error_mids_, commit_error,
                   threads, outside>>

CommitReturns ==
    /\ At("return")
    /\ mutex_.op = "commit"
    /\ commit_error' = commit_error + Len(Job.error)
    /\ error_mids_' = IF Job.error = <<>> THEN error_mids_
                                          ELSE AppendTo(error_mids_, MainOfJob, Job.error)
    /\ sub_tasks_' = Drop(sub_tasks_, Job.id)
    /\ pc' = [pc EXCEPT ![mutex_.by] = "idle"]
    /\ job' = [job EXCEPT ![mutex_.by] = NoJob]
    /\ mutex_' = NoCall
    /\ UNCHANGED <<flags, main_tasks_, dispatch, buff_, outside>>

FlushReturns ==
    /\ At("return")
    /\ mutex_.op = "flush"
    /\ pc' = [pc EXCEPT ![mutex_.by] = "refused"]
    /\ mutex_' = NoCall
    /\ UNCHANGED <<flags, main_tasks_, dispatch, sub_tasks_, buff_, error_mids_,
                   commit_error, job, outside>>

CallSteps ==
    \/ Buffer \/ Write \/ WriteFails
    \/ \E t \in Tasks : CountRecords(t.id) \/ CommitMainTask(t.id) \/ CommitMainTaskFails(t.id)
    \/ CountEnds \/ CommitReturns \/ FlushReturns

(* What thread t does when it is not inside a call that has more steps to go. *)
ThreadStep(t) ==
    GetSubTask(t) \/ Crawl(t) \/ Abandon(t) \/ ExitOrRetry(t) \/ CommitSubTask(t)
-----------------------------------------------------------------------------
(* Ctrl-C, the proxy thread, or an administrator stops the client. *)
Stop(mode) ==
    /\ g_stop(mode)
    /\ flags' # flags
    /\ UNCHANGED <<main_tasks_, dispatch, sub_tasks_, buff_, error_mids_, commit_error,
                   mutex_, threads, outside>>

Init ==
    /\ g_shouldStop = FALSE
    /\ g_forceStop = FALSE
    /\ main_tasks_ = [i \in {} |-> i]
    /\ current_main_task_ = [id |-> -1, mid_start |-> 0, mid_end |-> 0]
    /\ current_mid_ = 0
    /\ sub_tasks_ = [i \in {} |-> i]
    /\ current_sub_task_id_ = 0
    /\ buff_ = [kind \in Kinds |-> [i \in {} |-> i]]
    /\ error_mids_ = [i \in {} |-> i]
    /\ commit_error = 0
    /\ mutex_ = NoCall
    /\ pc = [t \in Threads |-> "idle"]
    /\ job = [t \in Threads |-> NoJob]
    /\ pool = Tasks
    /\ db = [kind \in Kinds |-> {}]
    /\ reported = {}

Next ==
    \/ \E t \in Threads : ThreadStep(t)
    \/ CallSteps
    \/ \E mode \in {"smooth", "force"} : Stop(mode)

Spec == Init /\ [][Next]_vars

(* A thread goes on with its loop; it gets mutex_ in the end, as the others   *)
(* release it and sleep, or crawl, before they want it again.  Whoever holds  *)
(* mutex_ goes on with its call.  The database and the server do not refuse   *)
(* for ever: a write or commit that is tried again and again succeeds.        *)
CallFairness ==
    /\ WF_vars(CallSteps)
    /\ \A kind \in Kinds : SF_vars(Write /\ Kind = kind)
    /\ SF_vars(\E t \in Tasks : CommitMainTask(t.id))

LiveSpec == Spec /\ CallFairness /\ \A t \in Threads : SF_vars(ThreadStep(t))
-----------------------------------------------------------------------------
TaskOf(i) == CHOOSE t \in Tasks : t.id = i

(* The sub task whose commit is under way, and which may be done already. *)
Ending == IF mutex_.op = "commit" THEN {Job.id} ELSE {}

(* The mids of main task i that are still to be counted, by place. *)
Ahead(i) == IF i = current_main_task_.id THEN current_mid_ .. current_main_task_.mid_end - 1
                                         ELSE {}
InSubTasks(i) == UNION {Range(sub_tasks_[s].mids) : s \in {u \in DOMAIN sub_tasks_ :
                                                              sub_tasks_[u].main = i}}
InQueue(q, i) == IF i \in DOMAIN q THEN Range(q[i]) ELSE {}
Pending(i) ==
    Ahead(i) \cup InSubTasks(i) \cup InQueue(error_mids_, i)
             \cup InQueue(buff_.ok, i) \cup InQueue(buff_.none, i)

Stored == db.ok \cup db.none

TypeOK ==
    /\ g_shouldStop \in BOOLEAN
    /\ g_forceStop \in BOOLEAN
    /\ main_tasks_ \in [DOMAIN main_tasks_ ->
                          [mid_start : Nat, mid_end : Nat, completed : Nat]]
    /\ DOMAIN main_tasks_ \subseteq {t.id : t \in Tasks}
    /\ current_main_task_ \in Tasks \cup {[id |-> -1, mid_start |-> 0, mid_end |-> 0]}
    /\ current_mid_ \in Nat
    /\ sub_tasks_ \in [DOMAIN sub_tasks_ -> [main : Nat, mids : Seq(Nat)]]
    /\ DOMAIN sub_tasks_ \subseteq 0 .. current_sub_task_id_ - 1
    /\ current_sub_task_id_ \in Nat
    /\ DOMAIN buff_ = Kinds
    /\ \A kind \in Kinds : buff_[kind] \in [DOMAIN buff_[kind] -> Seq(Nat)]
    /\ error_mids_ \in [DOMAIN error_mids_ -> Seq(Nat)]
    /\ commit_error \in Nat
    /\ mutex_ = NoCall \/ mutex_ \in [op : {"commit", "flush"}, by : Threads,
                                      kind : Kinds, step : {"buffer", "write", "count", "return"}]
    /\ pc \in [Threads -> {"idle", "working", "crawled", "refused", "exited"}]
    /\ job \in [Threads -> [id : Nat \cup {-1}, mids : Seq(Nat), ok : Seq(Nat),
                            none : Seq(Nat), error : Seq(Nat)]]
    /\ pool \subseteq Tasks
    /\ DOMAIN db = Kinds /\ \A kind \in Kinds : db[kind] \subseteq Nat
    /\ reported \subseteq {t.id : t \in Tasks}

(* The critical errors of commitSubTask and of the write functions ("won't    *)
(* get here") do not occur: a main task is forgotten only when nothing refers *)
(* to it any more.  (And the variables have their types.)                     *)
NothingStray ==
    /\ TypeOK
    /\ \A s \in DOMAIN sub_tasks_ \ Ending : sub_tasks_[s].main \in DOMAIN main_tasks_
    /\ \A t \in Threads : pc[t] = "crawled" => job[t].id \in DOMAIN sub_tasks_
    /\ DOMAIN error_mids_ \subseteq DOMAIN main_tasks_
    /\ \A kind \in Kinds : DOMAIN buff_[kind] \subseteq DOMAIN main_tasks_

(* Between two calls, what a main task has not completed is exactly what is   *)
(* still ahead, in sub tasks, in the queue of failed mids or in the buffers;  *)
(* so a mid is neither lost nor counted twice.  (A task that is complete      *)
(* waits for its commit; all of it is in the database.)                       *)
CountIsExact ==
    mutex_ = NoCall =>
        \A i \in DOMAIN main_tasks_ :
            LET m == main_tasks_[i]
            IN IF m.completed < m.mid_end - m.mid_start
                 THEN /\ m.completed + Cardinality(Pending(i)) = m.mid_end - m.mid_start
                      /\ Span(m) \ Pending(i) \subseteq Stored
                 ELSE Span(m) \subseteq Stored

(* A stop, smooth or forced, comes to an end: every thread exits. *)
StopEnds == g_shouldStop ~> (\A t \in Threads : pc[t] = "exited")

(* A main task that was taken is committed, unless the client is forced to stop. *)
EveryTaskCommitted ==
    \A m \in Tasks : (m.id \in DOMAIN main_tasks_) ~> (m.id \in reported \/ g_forceStop)

MidsOfTask(i) == Span(TaskOf(i))

Contract == INSTANCE CrawlContract WITH
    Ids <- {t.id : t \in Tasks},
    Mids <- UNION {Span(t) : t \in Tasks},
    MidsOf <- MidsOfTask,
    open <- DOMAIN main_tasks_,
    stored <- Stored

(* The client keeps the contract: it reports only what is stored, and lets go *)
(* of a task only by reporting it.                                            *)
KeepsContract == Contract!Spec
=============================================================================
