----------------------------- MODULE ThreadPool -----------------------------
(***************************************************************************)
(* The http server's thread pool: a queue of tasks under one mutex, a       *)
(* condition variable on which idle threads sleep, and destroy_threadpool,  *)
(* which the main thread calls last.  Every critical section is one action; *)
(* a sleeping thread that was signalled still has to get the mutex.  No     *)
(* limit is set on the queue (set_task_size_limit has no caller).           *)
(***************************************************************************)
EXTENDS Integers, Sequences, FiniteSets

CONSTANTS
    Workers,    \* the threads of the pool
    Jobs        \* what a task is about

ASSUME WorkersAssumption == IsFiniteSet(Workers)

NoJob == "no job"

VARIABLES
    m_pool_state,   \* "none" (-1), "STARTED" or "STOPPED"
    m_tasks,        \* the queue
    thread,         \* where each thread is in execute_thread
    job,            \* the task each running thread took, or NoJob
    destroyer       \* how far destroy_threadpool has come

poolVars == <<m_pool_state, m_tasks, thread, job, destroyer>>

(* A thread is at the top of its loop ("lock"), asleep on the condition    *)
(* variable ("waiting"), on its way back from there ("woken"), in a task   *)
(* ("running"), or it has ended ("exited").                                *)
ThreadStates == {"none", "lock", "waiting", "woken", "running", "exited"}

InState(s) == {w \in Workers : thread[w] = s}
Waiting == InState("waiting")
Woken == InState("woken")

(* The thread has the mutex at the top of its loop, or back from its sleep. *)
AtLock(w) == thread[w] \in {"lock", "woken"}
-----------------------------------------------------------------------------
start_threadpool ==
    /\ m_pool_state = "none"
    /\ m_pool_state' = "STARTED"
    /\ thread' = [w \in Workers |-> "lock"]
    /\ UNCHANGED <<m_tasks, job, destroyer>>

(* Mutant of signal: only a task that finds the queue empty is announced.  *)
signalIfEmpty ==
    IF m_tasks = <<>> /\ Waiting # {}
      THEN \E w \in Waiting : thread' = [thread EXCEPT ![w] = "woken"]
      ELSE UNCHANGED thread

signal ==
    IF Waiting # {}
      THEN \E w \in Waiting : thread' = [thread EXCEPT ![w] = "woken"]
      ELSE UNCHANGED thread

add_task(j) ==
    /\ m_tasks' = Append(m_tasks, j)
    /\ signal
    /\ UNCHANGED <<m_pool_state, job, destroyer>>

PickTask(w) ==
    /\ AtLock(w)
    /\ m_pool_state # "STOPPED"
    /\ m_tasks # <<>>
    /\ m_tasks' = Tail(m_tasks)
    /\ job' = [job EXCEPT ![w] = Head(m_tasks)]
    /\ thread' = [thread EXCEPT ![w] = "running"]
    /\ UNCHANGED <<m_pool_state, destroyer>>

Wait(w) ==
    /\ AtLock(w)
    /\ m_pool_state # "STOPPED"
    /\ m_tasks = <<>>
    /\ thread' = [thread EXCEPT ![w] = "waiting"]
    /\ UNCHANGED <<m_pool_state, m_tasks, job, destroyer>>

(* "There can be spurious wakeups" *)
WakeUp(w) ==
    /\ thread[w] = "waiting"
    /\ thread' = [thread EXCEPT ![w] = "woken"]
    /\ UNCHANGED <<m_pool_state, m_tasks, job, destroyer>>

TaskDone(w) ==
    /\ thread[w] = "running"
    /\ thread' = [thread EXCEPT ![w] = "lock"]
    /\ job' = [job EXCEPT ![w] = NoJob]
    /\ UNCHANGED <<m_pool_state, m_tasks, destroyer>>

ExitThread(w) ==
    /\ AtLock(w)
    /\ m_pool_state = "STOPPED"
    /\ thread' = [thread EXCEPT ![w] = "exited"]
    /\ UNCHANGED <<m_pool_state, m_tasks, job, destroyer>>
-----------------------------------------------------------------------------
(* destroy_threadpool: the state, the broadcast, the joins.                *)

StopPool ==
    /\ m_pool_state = "STARTED"
    /\ destroyer = "none"
    /\ m_pool_state' = "STOPPED"
    /\ destroyer' = "broadcast"
    /\ UNCHANGED <<m_tasks, thread, job>>

(* What a broadcast makes of the threads. *)
Woke == [w \in Workers |-> IF thread[w] = "waiting" THEN "woken" ELSE thread[w]]

Broadcast ==
    /\ destroyer = "broadcast"
    /\ thread' = Woke
    /\ destroyer' = "join"
    /\ UNCHANGED <<m_pool_state, m_tasks, job>>

(* All threads are joined; the queue is left as it is. *)
Joined ==
    /\ destroyer = "join"
    /\ \A w \in Workers : thread[w] = "exited"
    /\ destroyer' = "done"
    /\ UNCHANGED <<m_pool_state, m_tasks, thread, job>>

destroy_threadpool == StopPool \/ Broadcast \/ Joined
-----------------------------------------------------------------------------
PoolInit ==
    /\ m_pool_state = "none"
    /\ m_tasks = <<>>
    /\ thread = [w \in Workers |-> "none"]
    /\ job = [w \in Workers |-> NoJob]
    /\ destroyer = "none"

execute_thread(w) == PickTask(w) \/ Wait(w) \/ WakeUp(w) \/ TaskDone(w) \/ ExitThread(w)

PoolNext ==
    \/ start_threadpool
    \/ \E j \in Jobs : add_task(j)
    \/ \E w \in Workers : execute_thread(w)
    \/ destroy_threadpool

PoolSpec == PoolInit /\ [][PoolNext]_poolVars
-----------------------------------------------------------------------------
PoolTypeOK ==
    /\ m_pool_state \in {"none", "STARTED", "STOPPED"}
    /\ m_tasks \in Seq(Jobs)
    /\ thread \in [Workers -> ThreadStates]
    /\ job \in [Workers -> Jobs \cup {NoJob}]
    /\ destroyer \in {"none", "broadcast", "join", "done"}

(* No wakeup is lost: while a thread sleeps, every queued task has a       *)
(* thread on its way to take it.                                           *)
NobodySleepsOnWork ==
    m_pool_state # "STOPPED" /\ Waiting # {} => Len(m_tasks) <= Cardinality(Woken)

(* Once the pool was told to stop, no thread sleeps through it: the joins  *)
(* of destroy_threadpool wait only for threads that are on their way out   *)
(* or end their last task.                                                 *)
StopReachesEveryThread == destroyer \in {"join", "done"} => Waiting = {}
=============================================================================
