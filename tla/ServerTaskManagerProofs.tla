---------------------- MODULE ServerTaskManagerProofs ----------------------
(***************************************************************************)
(* Theorems about ServerTaskManager, for every value of its constants.     *)
(***************************************************************************)
EXTENDS ServerTaskManager, FiniteSetTheorems, SequenceTheorems, TLAPS

(* The traversal order of a finite map is a sequence of all its keys. *)
LEMMA KeyOrderIsSeq ==
    ASSUME NEW K, K \subseteq Nat, IsFiniteSet(K), NEW s \in KeyOrders(K)
    PROVE  /\ s \in Seq(K)
           /\ DOMAIN s = 1 .. Len(s)
           /\ \A k \in K : \E i \in DOMAIN s : s[i] = k
<1>1. Cardinality(K) \in Nat
  BY FS_CardinalityType
<1>2. s \in [1 .. Cardinality(K) -> K] /\ Range(s) = K
  BY DEF KeyOrders
<1>3. s \in Seq(K)
  BY <1>1, <1>2
<1>4. \A k \in K : \E i \in DOMAIN s : s[i] = k
  BY <1>2 DEF Range
<1>. QED
  BY <1>2, <1>3, <1>4, LenProperties

(* The ranges of the tasks of a map, listed in traversal order, are a        *)
(* sequence of ranges that has the mids of every task listed.                *)
LEMMA RangesInOrderCover ==
    ASSUME NEW f, f \in [DOMAIN f -> BiliTask],
           NEW K \in SUBSET DOMAIN f, K \subseteq Nat, IsFiniteSet(K),
           NEW s \in KeyOrders(K)
    PROVE  /\ RangesInOrder(f, s) \in Seq(Ranges)
           /\ \A k \in K : \A m \in Span(f[k]) : Covers(RangesInOrder(f, s), m)
<1>1. /\ s \in Seq(K)
      /\ DOMAIN s = 1 .. Len(s)
      /\ \A k \in K : \E i \in DOMAIN s : s[i] = k
  BY KeyOrderIsSeq
<1>2. Len(s) \in Nat
  BY <1>1, LenProperties
<1>3. \A i \in 1 .. Len(s) : s[i] \in K
  BY <1>1, ElementOfSeq
<1>4. \A k \in DOMAIN f : RangeOf(f[k]) \in Ranges /\ Span(RangeOf(f[k])) = Span(f[k])
  BY DEF RangeOf, Ranges, BiliTask, Span
<1>5. RangesInOrder(f, s) \in [1 .. Len(s) -> Ranges]
  BY <1>1, <1>3, <1>4 DEF RangesInOrder
<1>6. RangesInOrder(f, s) \in Seq(Ranges)
  BY <1>2, <1>5
<1>7. ASSUME NEW k \in K, NEW m \in Span(f[k])
      PROVE  Covers(RangesInOrder(f, s), m)
  <2>1. PICK i \in DOMAIN s : s[i] = k
    BY <1>1
  <2>2. RangesInOrder(f, s)[i] = RangeOf(f[k]) /\ i \in DOMAIN RangesInOrder(f, s)
    BY <2>1 DEF RangesInOrder
  <2>. QED
    BY <2>2, <1>4 DEF Covers
<1>. QED
  BY <1>6, <1>7

(* Appending to the recycled ranges, or taking the first of them. *)
LEMMA CoversConcat ==
    ASSUME NEW p \in Seq(Ranges), NEW q \in Seq(Ranges), NEW m,
           Covers(p, m) \/ Covers(q, m)
    PROVE  Covers(p \o q, m)
<1>1. /\ p \o q \in Seq(Ranges)
      /\ Len(p \o q) = Len(p) + Len(q)
      /\ \A i \in 1 .. Len(p) + Len(q) :
            (p \o q)[i] = IF i <= Len(p) THEN p[i] ELSE q[i - Len(p)]
  BY ConcatProperties
<1>2. /\ Len(p) \in Nat /\ DOMAIN p = 1 .. Len(p)
      /\ Len(q) \in Nat /\ DOMAIN q = 1 .. Len(q)
      /\ DOMAIN (p \o q) = 1 .. Len(p) + Len(q)
  BY <1>1, LenProperties
<1>3. CASE Covers(p, m)
  <2>1. PICK i \in 1 .. Len(p) : m \in Span(p[i])
    BY <1>2, <1>3 DEF Covers
  <2>2. i \in DOMAIN (p \o q) /\ (p \o q)[i] = p[i]
    BY <1>1, <1>2
  <2>. QED
    BY <2>1, <2>2 DEF Covers
<1>4. CASE Covers(q, m)
  <2>1. PICK i \in 1 .. Len(q) : m \in Span(q[i])
    BY <1>2, <1>4 DEF Covers
  <2>2. Len(p) + i \in DOMAIN (p \o q) /\ (p \o q)[Len(p) + i] = q[i]
    BY <1>1, <1>2
  <2>. QED
    BY <2>1, <2>2 DEF Covers
<1>. QED
  BY <1>3, <1>4

LEMMA CoversTail ==
    ASSUME NEW q \in Seq(Ranges), q # <<>>, NEW m, Covers(q, m)
    PROVE  m \in Span(Head(q)) \/ Covers(Tail(q), m)
<1>1. /\ Len(q) \in Nat /\ DOMAIN q = 1 .. Len(q)
      /\ Head(q) = q[1]
      /\ Tail(q) \in Seq(Ranges) /\ Len(Tail(q)) = Len(q) - 1
      /\ \A i \in 1 .. Len(Tail(q)) : Tail(q)[i] = q[i + 1]
  BY LenProperties, HeadTailProperties
<1>2. PICK i \in 1 .. Len(q) : m \in Span(q[i])
  BY <1>1 DEF Covers
<1>3. CASE i = 1
  BY <1>1, <1>2, <1>3
<1>4. CASE i # 1
  <2>1. i - 1 \in 1 .. Len(Tail(q)) /\ Tail(q)[i - 1] = q[i]
    BY <1>1, <1>2, <1>4
  <2>2. DOMAIN Tail(q) = 1 .. Len(Tail(q))
    BY <1>1, LenProperties
  <2>. QED
    BY <1>2, <2>1, <2>2 DEF Covers
<1>. QED
  BY <1>3, <1>4

(* writeDataToFile records everything: the archive of a state has the mids   *)
(* of its running and of its recycled tasks.                                 *)
LEMMA ArchiveIsComplete ==
    ASSUME NEW tasks, tasks \in [DOMAIN tasks -> BiliTask],
           DOMAIN tasks \subseteq Nat, IsFiniteSet(DOMAIN tasks),
           NEW recycled \in Seq(Ranges), NEW current \in Nat, NEW end \in Nat,
           NEW idCurrent \in Nat,
           NEW a \in ArchivesOf(tasks, recycled, current, end, idCurrent)
    PROVE  /\ a \in Archive
           /\ a.mid_current = current
           /\ \A t \in DOMAIN tasks : \A m \in Span(tasks[t]) : Covers(a.tasks, m)
           /\ \A m : Covers(recycled, m) => Covers(a.tasks, m)
<1>1. PICK s \in KeyOrders(DOMAIN tasks) :
         a = [task_id_current |-> idCurrent, mid_current |-> current,
              mid_end |-> end, tasks |-> RangesInOrder(tasks, s) \o recycled]
  BY DEF ArchivesOf
<1>2. /\ RangesInOrder(tasks, s) \in Seq(Ranges)
      /\ \A t \in DOMAIN tasks : \A m \in Span(tasks[t]) :
            Covers(RangesInOrder(tasks, s), m)
  BY RangesInOrderCover
<1>3. RangesInOrder(tasks, s) \o recycled \in Seq(Ranges)
  BY <1>2, ConcatProperties
<1>4. a \in Archive /\ a.mid_current = current
  BY <1>1, <1>3 DEF Archive
<1>. QED
  BY <1>1, <1>2, <1>4, CoversConcat

(* std::map::emplace with a new key. *)
LEMMA EmplaceNew ==
    ASSUME NEW f, f \in [DOMAIN f -> BiliTask], NEW k, k \notin DOMAIN f,
           NEW v \in BiliTask
    PROVE  /\ DOMAIN Emplace(f, k, v) = DOMAIN f \cup {k}
           /\ Emplace(f, k, v) \in [DOMAIN Emplace(f, k, v) -> BiliTask]
           /\ Emplace(f, k, v)[k] = v
           /\ \A x \in DOMAIN f : Emplace(f, k, v)[x] = f[x]
  BY DEF Emplace

(* Erasing keys from a map. *)
LEMMA EraseKeys ==
    ASSUME NEW f, f \in [DOMAIN f -> BiliTask], NEW K
    PROVE  /\ DOMAIN Erase(f, K) = DOMAIN f \ K
           /\ Erase(f, K) \in [DOMAIN Erase(f, K) -> BiliTask]
           /\ \A x \in DOMAIN f \ K : Erase(f, K)[x] = f[x]
  BY DEF Erase, Restrict
-----------------------------------------------------------------------------
(* Type correctness.                                                       *)

(* The lease of a task, common to both branches of getTask. *)
LEMMA LeaseType ==
    ASSUME TypeOK, NEW c \in ClientIds, NEW r \in Ranges,
           tasks_recycled_' \in Seq(Ranges), mid_current_' \in Nat, mid_end_' \in Nat,
           dropped' \subseteq Nat, redefined' \subseteq Nat, Lease(c, r)
    PROVE  TypeOK'
<1> DEFINE task == [client_id |-> c, mid_start |-> r.mid_start,
                    mid_end |-> r.mid_end, ttl |-> now + MainTaskTimeout]
<1>1. task \in BiliTask
  BY TimeAssumption DEF TypeOK, BiliTask, Ranges
<1>2. /\ tasks_' = Emplace(tasks_, task_id_current_, task)
      /\ task_id_current_' = task_id_current_ + 1
  BY DEF Lease
<1>3. task_id_current_ \notin DOMAIN tasks_ /\ task_id_current_ \in Nat
  BY DEF TypeOK
<1>4. /\ tasks_' \in [DOMAIN tasks_' -> BiliTask]
      /\ DOMAIN tasks_' = DOMAIN tasks_ \cup {task_id_current_}
  <2>. HIDE DEF task
  <2>. QED
    BY <1>1, <1>2, <1>3, EmplaceNew DEF TypeOK
<1>5. IsFiniteSet(DOMAIN tasks_')
  <2>1. IsFiniteSet(DOMAIN tasks_ \cup {task_id_current_})
    BY FS_AddElement DEF TypeOK
  <2>. QED
    BY <1>4, <2>1
<1>6. DOMAIN tasks_' \subseteq 0 .. task_id_current_' - 1
  BY <1>2, <1>3, <1>4 DEF TypeOK
<1>7. DOMAIN tasks_' \subseteq Nat
  BY <1>3, <1>4 DEF TypeOK
<1>8. file' \in Archive /\ last_time_write_to_file_' \in Nat
  <2>1. \A a \in ArchivesOf(tasks_', tasks_recycled_', mid_current_', mid_end_',
                            task_id_current_) : a \in Archive
    BY <1>3, <1>4, <1>5, <1>7, ArchiveIsComplete DEF TypeOK
  <2>. QED
    BY <2>1 DEF Lease, SaveIfDue, TypeOK
<1>9. handed' \subseteq HandedTask
  BY <1>3 DEF Lease, HandedTask, Ranges, TypeOK
<1>. QED
  BY <1>2, <1>3, <1>4, <1>5, <1>6, <1>8, <1>9 DEF Lease, TypeOK

(* The range cut off for a request, whichever ends getTask reads. *)
LEMMA NextRangeType ==
    ASSUME TypeOK, mid_current_ < mid_end_, NEW n \in Counts,
           NEW end \in AdminEnds \cup {mid_end_}, NEW r \in EndReads(end)
    PROVE  /\ end \in Nat
           /\ NextRange(n, r) \in Ranges
           /\ NextCurrent(n, r) \in Nat
<1>1. end \in Nat /\ mid_end_ \in Nat /\ mid_current_ \in Nat /\ n \in Nat
  BY RangeAssumption DEF TypeOK
<1>2. r[1] \in Nat /\ r[2] \in Nat /\ r[3] \in Nat
  BY <1>1 DEF EndReads
<1>. QED
  BY <1>1, <1>2 DEF NextRange, NextCurrent, Ranges

(* What getTask does when it cuts a fresh range off. *)
LEMMA FreshTask ==
    ASSUME TypeOK, NEW c \in ClientIds, NEW n \in Counts, GetFreshTask(c, n)
    PROVE  /\ up
           /\ UNCHANGED tasks_recycled_
           /\ \E range \in Ranges :
                 /\ mid_current_' \in Nat /\ mid_end_' \in Nat
                 /\ dropped' = dropped \cup ((mid_current_ .. mid_current_' - 1) \ Span(range))
                 /\ redefined \subseteq redefined' /\ redefined' \subseteq Nat
                 /\ \A m \in Span(range) : mid_current_ <= m
                 /\ \A m \in Nat \ redefined' :
                       mid_current_' <= m => mid_current_ <= m /\ m \notin Span(range)
                 /\ Lease(c, range)
<1> DEFINE Cut(end, r) ==
         /\ mid_end_' = end
         /\ mid_current_' = NextCurrent(n, r)
         /\ dropped' = dropped \cup
               ((mid_current_ .. NextCurrent(n, r) - 1) \ Span(NextRange(n, r)))
         /\ redefined' = IF end = mid_end_ THEN redefined ELSE redefined \cup
               (NextCurrent(n, r) .. Max2(mid_current_, NextRange(n, r).mid_end) - 1)
         /\ Lease(c, NextRange(n, r))
<1>0. PICK end \in AdminEnds \cup {mid_end_} : \E r \in EndReads(end) : Cut(end, r)
  BY DEF GetFreshTask
<1>1. PICK r \in EndReads(end) : Cut(end, r)
  BY <1>0
<1>2. /\ end \in Nat /\ NextRange(n, r) \in Ranges /\ NextCurrent(n, r) \in Nat
      /\ mid_current_ \in Nat /\ redefined \subseteq Nat
  BY NextRangeType DEF GetFreshTask, TypeOK
<1>3. redefined \subseteq redefined' /\ redefined' \subseteq Nat
  <2>1. NextRange(n, r).mid_end \in Int
    BY <1>2 DEF Ranges
  <2>2. \A a \in Nat, b \in Int : a .. b \subseteq Nat
    OBVIOUS
  <2>3. Max2(mid_current_, NextRange(n, r).mid_end) - 1 \in Int
    BY <1>2, <2>1 DEF Max2
  <2>4. NextCurrent(n, r) .. Max2(mid_current_, NextRange(n, r).mid_end) - 1 \subseteq Nat
    BY <1>2, <2>2, <2>3
  <2>. QED
    BY <1>1, <1>2, <2>4
<1>4. up /\ UNCHANGED tasks_recycled_ /\ mid_current_ < mid_end_
  BY DEF GetFreshTask, CanLease
<1>5. n \in Nat \ {0} /\ mid_end_ \in Nat
  BY RangeAssumption DEF TypeOK
<1>6. \A m \in Span(NextRange(n, r)) : mid_current_ <= m
  BY <1>2 DEF Span, NextRange
<1>7. ASSUME NEW m \in Nat \ redefined', mid_current_' <= m
      PROVE  mid_current_ <= m /\ m \notin Span(NextRange(n, r))
  <2>1. NextRange(n, r).mid_end \in Int
    BY <1>2 DEF Ranges
  <2>2. CASE end = mid_end_
    <3>1. r = <<mid_end_, mid_end_, mid_end_>>
      BY <2>2 DEF EndReads
    <3>. QED
      BY <1>1, <1>2, <1>4, <1>5, <1>7, <3>1 DEF NextRange, NextCurrent, Span
  <2>3. CASE end # mid_end_
    <3>1. ~(m < Max2(mid_current_, NextRange(n, r).mid_end))
      BY <1>1, <1>2, <1>7, <2>1, <2>3 DEF Max2
    <3>. QED
      BY <1>2, <2>1, <3>1 DEF Max2, Span
  <2>. QED
    BY <2>2, <2>3
<1>. QED
  BY <1>1, <1>2, <1>3, <1>4, <1>6, <1>7

LEMMA GetTaskType ==
    ASSUME TypeOK, NEW c \in ClientIds, GetTask(c)
    PROVE  TypeOK'
<1>1. CASE GetRecycledTask(c)
  <2>1. Head(tasks_recycled_) \in Ranges /\ Tail(tasks_recycled_) \in Seq(Ranges)
    BY <1>1, HeadTailProperties DEF GetRecycledTask, TypeOK
  <2>2. /\ tasks_recycled_' \in Seq(Ranges)
        /\ mid_current_' \in Nat /\ mid_end_' \in Nat
        /\ dropped' \subseteq Nat /\ redefined' \subseteq Nat
        /\ Lease(c, Head(tasks_recycled_))
    BY <1>1, <2>1 DEF GetRecycledTask, TypeOK
  <2>. QED
    BY <2>1, <2>2, LeaseType
<1>2. ASSUME NEW n \in Counts, GetFreshTask(c, n)
      PROVE  TypeOK'
  <2>1. PICK range \in Ranges :
           /\ mid_current_' \in Nat /\ mid_end_' \in Nat
           /\ dropped' = dropped \cup ((mid_current_ .. mid_current_' - 1) \ Span(range))
           /\ redefined' \subseteq Nat
           /\ Lease(c, range)
    BY <1>2, FreshTask
  <2>2. tasks_recycled_' \in Seq(Ranges) /\ dropped' \subseteq Nat
    BY <1>2, <2>1, FreshTask DEF TypeOK
  <2>. QED
    BY <2>1, <2>2, LeaseType
<1>. QED
  BY <1>1, <1>2 DEF GetTask

(* What commit does to the tasks: an acknowledged task goes, and the expired *)
(* ones become recycled ranges.                                              *)
LEMMA CommitTasks ==
    ASSUME TypeOK, NEW h \in handed, Commit(h)
    PROVE  LET kept == DOMAIN tasks_ \ Acknowledged(h)
           IN  /\ DOMAIN tasks_' \subseteq kept
               /\ tasks_' \in [DOMAIN tasks_' -> BiliTask]
               /\ \A t \in DOMAIN tasks_' : tasks_'[t] = tasks_[t]
               /\ tasks_recycled_' \in Seq(Ranges)
               /\ \A m : Covers(tasks_recycled_, m) => Covers(tasks_recycled_', m)
               /\ \A t \in kept \ DOMAIN tasks_' : \A m \in Span(tasks_[t]) :
                     Covers(tasks_recycled_', m)
<1> DEFINE kept == DOMAIN tasks_ \ Acknowledged(h)
           left == Erase(tasks_, Acknowledged(h))
<1>1. \A t \in kept : left[t] = tasks_[t]
  BY EraseKeys DEF TypeOK
<1>2. DOMAIN left = kept /\ left \in [DOMAIN left -> BiliTask]
  BY EraseKeys DEF TypeOK
<1>3. RecycleExpired(left)
  BY DEF Commit
<1> HIDE DEF left
<1>4. Expired(left) \subseteq DOMAIN left
  BY DEF Expired
<1>5. Expired(left) \subseteq Nat /\ IsFiniteSet(Expired(left))
  BY <1>2, <1>4, FS_Subset DEF TypeOK
<1>6. /\ DOMAIN tasks_' = DOMAIN left \ Expired(left)
      /\ tasks_' \in [DOMAIN tasks_' -> BiliTask]
      /\ \A t \in DOMAIN left \ Expired(left) : tasks_'[t] = left[t]
  BY <1>2, <1>3, EraseKeys DEF RecycleExpired
<1>7. PICK s \in KeyOrders(Expired(left)) :
         tasks_recycled_' = tasks_recycled_ \o RangesInOrder(left, s)
  BY <1>3 DEF RecycleExpired
<1>8. /\ RangesInOrder(left, s) \in Seq(Ranges)
      /\ \A t \in Expired(left) : \A m \in Span(left[t]) :
            Covers(RangesInOrder(left, s), m)
  BY <1>1, <1>2, <1>4, <1>5, RangesInOrderCover
<1>9. tasks_recycled_ \in Seq(Ranges)
  BY DEF TypeOK
<1>10. tasks_recycled_' \in Seq(Ranges)
  BY <1>7, <1>8, <1>9, ConcatProperties
<1>11. \A m : Covers(tasks_recycled_, m) => Covers(tasks_recycled_', m)
  BY <1>7, <1>8, <1>9, CoversConcat
<1>12. ASSUME NEW t \in kept \ DOMAIN tasks_', NEW m \in Span(tasks_[t])
       PROVE  Covers(tasks_recycled_', m)
  <2>1. t \in Expired(left) /\ left[t] = tasks_[t]
    BY <1>1, <1>2, <1>6
  <2>2. Covers(RangesInOrder(left, s), m)
    BY <1>8, <2>1
  <2>. QED
    BY <1>7, <1>8, <1>9, <2>2, CoversConcat
<1>. QED
  BY <1>1, <1>2, <1>6, <1>10, <1>11, <1>12

LEMMA CommitType ==
    ASSUME TypeOK, NEW h \in handed, Commit(h)
    PROVE  TypeOK'
<1>1. /\ DOMAIN tasks_' \subseteq DOMAIN tasks_
      /\ tasks_' \in [DOMAIN tasks_' -> BiliTask]
      /\ tasks_recycled_' \in Seq(Ranges)
  BY CommitTasks
<1>2. IsFiniteSet(DOMAIN tasks_') /\ DOMAIN tasks_' \subseteq Nat
  BY <1>1, FS_Subset DEF TypeOK
<1>3. file' \in Archive /\ last_time_write_to_file_' \in Nat
  <2>1. \A a \in ArchivesOf(tasks_', tasks_recycled_', mid_current_, mid_end_,
                            task_id_current_) : a \in Archive
    BY <1>1, <1>2, ArchiveIsComplete DEF TypeOK
  <2>. QED
    BY <2>1 DEF Commit, SaveIfDue, TypeOK
<1>4. crawled' \subseteq Nat
  BY DEF Commit, TypeOK, Span, HandedTask
<1>. QED
  BY <1>1, <1>2, <1>3, <1>4 DEF Commit, TypeOK

LEMMA NoTasksType ==
    /\ NoTasks \in [DOMAIN NoTasks -> BiliTask]
    /\ DOMAIN NoTasks = {}
    /\ IsFiniteSet(DOMAIN NoTasks)
  BY FS_EmptySet DEF NoTasks

(* Exit, Crash, CrashWhileSaving and Boot. *)
LEMMA ProcessType ==
    ASSUME TypeOK, Exit \/ Crash \/ CrashWhileSaving \/ Boot
    PROVE  TypeOK'
<1>1. <<>> \in Seq(Ranges)
  BY EmptySeq
<1>2. CASE Exit
  <2>1. DOMAIN tasks_ \subseteq Nat
    BY DEF TypeOK
  <2>2. \A a \in ArchivesOf(tasks_, tasks_recycled_, mid_current_, mid_end_,
                            task_id_current_) : a \in Archive
    BY <2>1, ArchiveIsComplete DEF TypeOK
  <2>. QED
    BY <1>1, <1>2, <2>2, NoTasksType DEF Exit, LoseMemory, TypeOK, ghosts
<1>3. CASE Crash
  BY <1>1, <1>3, NoTasksType DEF Crash, LoseMemory, TypeOK, ghosts
<1>4. CASE CrashWhileSaving
  BY <1>1, <1>4, NoTasksType DEF CrashWhileSaving, LoseMemory, TypeOK, ghosts
<1>5. CASE Boot
  BY <1>5, NoTasksType DEF Boot, TypeOK, Archive
<1>. QED
  BY <1>2, <1>3, <1>4, <1>5

(* SetRange, Start, Stop and Tick. *)
LEMMA AdminType ==
    ASSUME TypeOK,
           \/ \E e \in AdminEnds, c \in AdminCurrents : SetRange(e, c)
           \/ Start \/ Stop \/ Tick
    PROVE  TypeOK'
<1>1. ASSUME NEW e \in AdminEnds, NEW c \in AdminCurrents, SetRange(e, c)
      PROVE  TypeOK'
  <2>1. e \in Nat /\ c \in Nat
    BY RangeAssumption
  <2>2. Min2(mid_current_, c) .. Max2(mid_current_, c) - 1 \subseteq Nat
    BY <2>1 DEF TypeOK, Min2, Max2
  <2>. QED
    BY <1>1, <2>1, <2>2 DEF SetRange, TypeOK
<1>2. CASE Start \/ Stop
  BY <1>2 DEF Start, Stop, TypeOK, ghosts
<1>3. CASE Tick
  BY <1>3 DEF Tick, TypeOK, memory, ghosts
<1>. QED
  BY <1>1, <1>2, <1>3

LEMMA InitType == Init => TypeOK
<1>. SUFFICES ASSUME Init PROVE TypeOK
  OBVIOUS
<1>1. <<>> \in Seq(Ranges)
  BY EmptySeq
<1>2. file \in Archive /\ now \in Nat
  BY <1>1, RangeAssumption, TimeAssumption DEF Init, Archive
<1>3. /\ tasks_ \in [DOMAIN tasks_ -> BiliTask]
      /\ DOMAIN tasks_ \subseteq 0 .. task_id_current_ - 1
      /\ IsFiniteSet(DOMAIN tasks_)
  BY NoTasksType DEF Init
<1>4. /\ up \in BOOLEAN /\ g_isRunning \in BOOLEAN /\ file_ok \in BOOLEAN
      /\ handed \subseteq HandedTask /\ crawled \subseteq Nat
      /\ dropped \subseteq Nat /\ redefined \subseteq Nat
  BY DEF Init
<1>5. /\ tasks_recycled_ \in Seq(Ranges) /\ task_id_current_ \in Nat
      /\ mid_current_ \in Nat /\ mid_end_ \in Nat
      /\ last_time_write_to_file_ \in Nat
  BY <1>1 DEF Init
<1>. QED
  BY <1>2, <1>3, <1>4, <1>5 DEF TypeOK

(* Whatever is asked of the server, and however often its process dies, the  *)
(* maps, queues, ids and the archive keep their types, and every id in use is *)
(* below task_id_current_, so emplace never meets an id that is taken.        *)
THEOREM TypeCorrect == Spec => []TypeOK
<1>1. Init => TypeOK
  BY InitType
<1>2. TypeOK /\ [Next]_vars => TypeOK'
  <2>. SUFFICES ASSUME TypeOK, [Next]_vars PROVE TypeOK'
    OBVIOUS
  <2>1. CASE UNCHANGED vars
    BY <2>1 DEF vars, memory, ghosts, TypeOK
  <2>2. CASE Next
    BY <2>2, GetTaskType, CommitType, ProcessType, AdminType DEF Next
  <2>. QED
    BY <2>1, <2>2
<1>. QED
  BY <1>1, <1>2, PTL DEF Spec
-----------------------------------------------------------------------------
(* No mid is lost.  The inductive invariant adds to NoMidLost what the       *)
(* archive must hold for a restart, and what clients know of their tasks.    *)

IInv == TypeOK /\ CommitByOwner /\ NoMidLost /\ ArchiveCovers

(* An archive written from a state in which every mid of S is open covers S. *)
LEMMA ArchiveCoversOpen ==
    ASSUME NEW tasks, tasks \in [DOMAIN tasks -> BiliTask],
           DOMAIN tasks \subseteq Nat, IsFiniteSet(DOMAIN tasks),
           NEW recycled \in Seq(Ranges), NEW current \in Nat, NEW end \in Nat,
           NEW idCurrent \in Nat,
           NEW a \in ArchivesOf(tasks, recycled, current, end, idCurrent),
           NEW m,
           \/ current <= m
           \/ \E t \in DOMAIN tasks : m \in Span(tasks[t])
           \/ Covers(recycled, m)
    PROVE  a.mid_current <= m \/ Covers(a.tasks, m)
  BY ArchiveIsComplete

(* Saving keeps ArchiveCovers, provided no mid is lost in the state saved.   *)
LEMMA SaveCovers ==
    ASSUME TypeOK, TypeOK', ArchiveCovers, NoMidLost', up', UNCHANGED file_ok,
           crawled \subseteq crawled', Waived \subseteq Waived',
           NEW id \in Nat,
           SaveIfDue(ArchivesOf(tasks_', tasks_recycled_', mid_current_', mid_end_', id))
    PROVE  ArchiveCovers'
<1>1. CASE file' = file
  BY <1>1 DEF ArchiveCovers, Archived
<1>2. CASE file' \in ArchivesOf(tasks_', tasks_recycled_', mid_current_', mid_end_', id)
  <2>1. /\ tasks_' \in [DOMAIN tasks_' -> BiliTask]
        /\ DOMAIN tasks_' \subseteq Nat /\ IsFiniteSet(DOMAIN tasks_')
        /\ tasks_recycled_' \in Seq(Ranges)
        /\ mid_current_' \in Nat /\ mid_end_' \in Nat
    BY DEF TypeOK
  <2>2. ASSUME NEW m \in Mids
        PROVE  Archived(m)' \/ m \in crawled' \/ m \in Waived'
    <3>1. CASE Open(m)'
      <4>1. \/ mid_current_' <= m
            \/ \E t \in DOMAIN tasks_' : m \in Span(tasks_'[t])
            \/ Covers(tasks_recycled_', m)
        BY <3>1 DEF Open, Leased, Recycled
      <4>2. file'.mid_current <= m \/ Covers(file'.tasks, m)
        BY <1>2, <2>1, <4>1, ArchiveCoversOpen
      <4>. QED
        BY <4>2 DEF Archived
    <3>2. CASE m \in crawled' \/ m \in Waived'
      BY <3>2
    <3>. QED
      BY <3>1, <3>2 DEF NoMidLost
  <2>. QED
    BY <2>2 DEF ArchiveCovers
<1>. QED
  BY <1>1, <1>2 DEF SaveIfDue

(* A lease keeps the three parts, provided every mid that was open, recycled *)
(* or ahead is still so or is in the range leased or dropped.                *)
LEMMA LeaseKeepsMids ==
    ASSUME IInv, TypeOK', up, NEW c \in ClientIds, NEW r \in Ranges, Lease(c, r),
           dropped \subseteq dropped', redefined \subseteq redefined',
           \A m \in Mids : Open(m) =>
               Leased(m) \/ Recycled(m)' \/ mid_current_' <= m
                         \/ m \in Span(r) \/ m \in dropped'
    PROVE  IInv'
<1> DEFINE task == [client_id |-> c, mid_start |-> r.mid_start,
                    mid_end |-> r.mid_end, ttl |-> now + MainTaskTimeout]
           given == [client_id |-> c, id |-> task_id_current_,
                     mid_start |-> r.mid_start, mid_end |-> r.mid_end]
<1>1. task \in BiliTask
  <2>1. now \in Nat
    BY DEF IInv, TypeOK
  <2>. QED
    BY <2>1, TimeAssumption DEF BiliTask, Ranges
<1>2. /\ tasks_' = Emplace(tasks_, task_id_current_, task)
      /\ task_id_current_' = task_id_current_ + 1
      /\ handed' = handed \cup {given}
      /\ UNCHANGED <<up, file_ok, crawled>>
  BY DEF Lease
<1>3. task_id_current_ \notin DOMAIN tasks_ /\ task_id_current_ \in Nat
  BY DEF IInv, TypeOK
<1>4. /\ DOMAIN tasks_' = DOMAIN tasks_ \cup {task_id_current_}
      /\ tasks_'[task_id_current_] = task
      /\ \A t \in DOMAIN tasks_ : tasks_'[t] = tasks_[t]
  <2>. HIDE DEF task
  <2>1. /\ DOMAIN Emplace(tasks_, task_id_current_, task)
              = DOMAIN tasks_ \cup {task_id_current_}
        /\ Emplace(tasks_, task_id_current_, task)[task_id_current_] = task
        /\ \A t \in DOMAIN tasks_ :
              Emplace(tasks_, task_id_current_, task)[t] = tasks_[t]
    BY <1>3 DEF Emplace
  <2>. QED
    BY <1>2, <2>1
<1>5. CommitByOwner'
  <2>. SUFFICES ASSUME NEW h \in handed'
       PROVE  /\ h.id < task_id_current_'
              /\ h.id \in DOMAIN tasks_' =>
                    /\ tasks_'[h.id].client_id = h.client_id
                    /\ RangeOf(tasks_'[h.id]) = RangeOf(h)
    BY DEF CommitByOwner
  <2>1. CASE h = given
    BY <1>2, <1>3, <1>4, <2>1 DEF RangeOf
  <2>2. CASE h \in handed
    <3>1. h.id < task_id_current_ /\ h.id \in Nat
      BY <2>2 DEF IInv, CommitByOwner, TypeOK, HandedTask
    <3>2. h.id \in DOMAIN tasks_' => h.id \in DOMAIN tasks_ /\ tasks_'[h.id] = tasks_[h.id]
      BY <1>3, <1>4, <3>1
    <3>3. h.id \in DOMAIN tasks_ =>
                    /\ tasks_[h.id].client_id = h.client_id
                    /\ RangeOf(tasks_[h.id]) = RangeOf(h)
      BY <2>2 DEF IInv, CommitByOwner
    <3>. QED
      BY <1>2, <1>3, <3>1, <3>2, <3>3
  <2>. QED
    BY <1>2, <2>1, <2>2
<1>6. NoMidLost'
  <2>. SUFFICES ASSUME NEW m \in Mids
       PROVE  Open(m)' \/ m \in crawled' \/ m \in Waived'
    BY DEF NoMidLost
  <2>1. Leased(m) => Leased(m)'
    BY <1>4 DEF Leased
  <2>2. m \in Span(r) => Leased(m)'
    <3>1. Span(task) = Span(r)
      BY DEF Span
    <3>. HIDE DEF task
    <3>. QED
      BY <1>4, <3>1 DEF Leased
  <2>3. m \in Waived => m \in Waived'
    BY <1>2 DEF Waived
  <2>4. Open(m) \/ m \in crawled \/ m \in Waived
    BY DEF IInv, NoMidLost
  <2>. QED
    BY <1>2, <2>1, <2>2, <2>3, <2>4 DEF Open, Waived
<1>7. ArchiveCovers'
  <2>1. Waived \subseteq Waived' /\ crawled \subseteq crawled' /\ up'
    BY <1>2 DEF Waived
  <2>2. SaveIfDue(ArchivesOf(tasks_', tasks_recycled_', mid_current_', mid_end_',
                             task_id_current_))
    BY DEF Lease
  <2>. QED
    BY <1>2, <1>3, <1>6, <2>1, <2>2, SaveCovers DEF IInv
<1>. QED
  BY <1>5, <1>6, <1>7 DEF IInv

LEMMA GetTaskKeepsMids ==
    ASSUME IInv, NEW c \in ClientIds, GetTask(c)
    PROVE  IInv'
<1>1. TypeOK'
  BY GetTaskType DEF IInv
<1>2. CASE GetRecycledTask(c)
  <2>1. /\ tasks_recycled_ \in Seq(Ranges) /\ tasks_recycled_ # <<>>
        /\ tasks_recycled_' = Tail(tasks_recycled_)
        /\ UNCHANGED <<mid_current_, dropped, redefined>>
        /\ up /\ Lease(c, Head(tasks_recycled_))
    BY <1>2 DEF GetRecycledTask, CanLease, IInv, TypeOK
  <2>2. Head(tasks_recycled_) \in Ranges
    BY <2>1, HeadTailProperties
  <2>3. \A m : Recycled(m) => m \in Span(Head(tasks_recycled_)) \/ Recycled(m)'
    BY <2>1, CoversTail DEF Recycled
  <2>4. \A m \in Mids : Open(m) =>
               Leased(m) \/ Recycled(m)' \/ mid_current_' <= m
                         \/ m \in Span(Head(tasks_recycled_)) \/ m \in dropped'
    BY <2>1, <2>3 DEF Open
  <2>. QED
    BY <1>1, <2>1, <2>2, <2>4, LeaseKeepsMids
<1>3. ASSUME NEW n \in Counts, GetFreshTask(c, n)
      PROVE  IInv'
  <2>1. PICK range \in Ranges :
           /\ mid_current_' \in Nat
           /\ dropped' = dropped \cup ((mid_current_ .. mid_current_' - 1) \ Span(range))
           /\ redefined \subseteq redefined'
           /\ Lease(c, range)
    BY <1>3, FreshTask DEF IInv
  <2>2. up /\ UNCHANGED tasks_recycled_
    BY <1>3, FreshTask DEF IInv
  <2>3. ASSUME NEW m \in Mids, mid_current_ <= m
        PROVE  mid_current_' <= m \/ m \in Span(range) \/ m \in dropped'
    BY <2>1, <2>3, RangeAssumption DEF IInv, TypeOK
  <2>4. \A m \in Mids : Open(m) =>
               Leased(m) \/ Recycled(m)' \/ mid_current_' <= m
                         \/ m \in Span(range) \/ m \in dropped'
    BY <2>2, <2>3 DEF Open, Recycled
  <2>. QED
    BY <1>1, <2>1, <2>2, <2>4, LeaseKeepsMids
<1>. QED
  BY <1>2, <1>3 DEF GetTask

LEMMA CommitKeepsMids ==
    ASSUME IInv, NEW h \in handed, Commit(h)
    PROVE  IInv'
<1>1. TypeOK'
  BY CommitType DEF IInv
<1>2. /\ up /\ Span(h) # {}
      /\ crawled' = crawled \cup Span(h)
      /\ SaveIfDue(ArchivesOf(tasks_', tasks_recycled_', mid_current_, mid_end_,
                              task_id_current_))
      /\ UNCHANGED <<up, file_ok, task_id_current_, mid_current_, mid_end_, handed,
                     dropped, redefined>>
  BY DEF Commit
<1> DEFINE kept == DOMAIN tasks_ \ Acknowledged(h)
<1>3. /\ DOMAIN tasks_' \subseteq kept
      /\ \A t \in DOMAIN tasks_' : tasks_'[t] = tasks_[t]
      /\ \A m : Covers(tasks_recycled_, m) => Covers(tasks_recycled_', m)
      /\ \A t \in kept \ DOMAIN tasks_' : \A m \in Span(tasks_[t]) :
            Covers(tasks_recycled_', m)
  BY CommitTasks DEF IInv
<1>4. CommitByOwner'
  BY <1>2, <1>3 DEF IInv, CommitByOwner
<1>5. \A t \in Acknowledged(h) : Span(tasks_[t]) = Span(h)
  BY <1>2 DEF IInv, CommitByOwner, Acknowledged, RangeOf, Span
<1>6. NoMidLost'
  <2>. SUFFICES ASSUME NEW m \in Mids
       PROVE  Open(m)' \/ m \in crawled' \/ m \in Waived'
    BY DEF NoMidLost
  <2>1. ASSUME NEW t \in DOMAIN tasks_, m \in Span(tasks_[t])
        PROVE  Open(m)' \/ m \in crawled'
    <3>1. CASE t \in Acknowledged(h)
      BY <1>2, <1>5, <2>1, <3>1
    <3>2. CASE t \in DOMAIN tasks_'
      BY <1>3, <2>1, <3>2 DEF Open, Leased
    <3>3. CASE t \in kept \ DOMAIN tasks_'
      BY <1>3, <2>1, <3>3 DEF Open, Recycled
    <3>. QED
      BY <3>1, <3>2, <3>3
  <2>2. Open(m) \/ m \in crawled \/ m \in Waived
    BY <1>2 DEF IInv, NoMidLost
  <2>. QED
    BY <1>2, <1>3, <2>1, <2>2 DEF Open, Leased, Recycled, Waived
<1>7. ArchiveCovers'
  <2>1. Waived \subseteq Waived' /\ crawled \subseteq crawled' /\ up'
    BY <1>2 DEF Waived
  <2>2. SaveIfDue(ArchivesOf(tasks_', tasks_recycled_', mid_current_', mid_end_,
                             task_id_current_))
    BY <1>2
  <2>3. task_id_current_ \in Nat
    BY DEF IInv, TypeOK
  <2>. QED
    BY <1>1, <1>2, <1>6, <2>1, <2>2, <2>3, SaveCovers DEF IInv
<1>. QED
  BY <1>1, <1>4, <1>6, <1>7 DEF IInv

LEMMA ProcessKeepsMids ==
    ASSUME ~ClientsOutliveServer, IInv, Exit \/ Crash \/ CrashWhileSaving \/ Boot
    PROVE  IInv'
<1>1. TypeOK'
  BY ProcessType DEF IInv
<1>2. CASE Exit
  <2>1. /\ up /\ up' = FALSE
        /\ UNCHANGED <<file_ok, crawled, dropped, redefined>>
        /\ file' \in ArchivesOf(tasks_, tasks_recycled_, mid_current_, mid_end_,
                                task_id_current_) \cup {file}
    BY <1>2 DEF Exit, LoseMemory, ghosts
  <2>2. NoMidLost' /\ CommitByOwner'
    BY <2>1 DEF NoMidLost, CommitByOwner
  <2>3. CASE file' = file
    <3>1. ArchiveCovers'
      BY <2>1, <2>3 DEF IInv, ArchiveCovers, Archived, Waived
    <3>. QED
      BY <1>1, <2>2, <3>1 DEF IInv
  <2>4. CASE file' \in ArchivesOf(tasks_, tasks_recycled_, mid_current_, mid_end_,
                                  task_id_current_)
    <3>1. /\ tasks_ \in [DOMAIN tasks_ -> BiliTask]
          /\ DOMAIN tasks_ \subseteq Nat /\ IsFiniteSet(DOMAIN tasks_)
          /\ tasks_recycled_ \in Seq(Ranges)
          /\ mid_current_ \in Nat /\ mid_end_ \in Nat /\ task_id_current_ \in Nat
      BY DEF IInv, TypeOK
    <3>2. \A m \in Mids : Open(m) => Archived(m)'
      BY <2>4, <3>1, ArchiveCoversOpen DEF Open, Leased, Recycled, Archived
    <3>3. ArchiveCovers'
      BY <2>1, <3>2 DEF IInv, NoMidLost, ArchiveCovers, Waived
    <3>. QED
      BY <1>1, <2>2, <3>3 DEF IInv
  <2>. QED
    BY <1>1, <2>1, <2>2, <2>3, <2>4 DEF IInv
<1>3. CASE Crash \/ CrashWhileSaving
  <2>1. /\ up' = FALSE
        /\ file_ok' => file_ok
        /\ UNCHANGED <<file, crawled, dropped, redefined>>
    BY <1>3 DEF Crash, CrashWhileSaving, LoseMemory, ghosts
  <2>. QED
    BY <1>1, <2>1 DEF IInv, NoMidLost, CommitByOwner, ArchiveCovers, Archived, Waived
<1>4. CASE Boot
  <2>1. /\ file_ok
        /\ tasks_recycled_' = file.tasks
        /\ mid_current_' = file.mid_current
        /\ handed' = {}
        /\ UNCHANGED <<file, file_ok, crawled, dropped, redefined>>
    BY <1>4 DEF Boot
  <2>2. \A m \in Mids : Archived(m) => Open(m)'
    BY <2>1 DEF Archived, Open, Recycled
  <2>3. ArchiveCovers'
    BY <2>1 DEF IInv, ArchiveCovers, Archived, Waived
  <2>4. NoMidLost'
    BY <2>1, <2>2 DEF IInv, ArchiveCovers, NoMidLost, Waived
  <2>5. CommitByOwner'
    BY <2>1 DEF CommitByOwner
  <2>. QED
    BY <1>1, <2>3, <2>4, <2>5 DEF IInv
<1>. QED
  BY <1>2, <1>3, <1>4

LEMMA AdminKeepsMids ==
    ASSUME IInv,
           \/ \E e \in AdminEnds, c \in AdminCurrents : SetRange(e, c)
           \/ Start \/ Stop \/ Tick
    PROVE  IInv'
<1>1. TypeOK'
  BY AdminType DEF IInv
<1>2. ASSUME NEW e \in AdminEnds, NEW c \in AdminCurrents, SetRange(e, c)
      PROVE  IInv'
  <2>1. /\ UNCHANGED <<up, tasks_, tasks_recycled_, task_id_current_, file, file_ok,
                       handed, crawled, dropped>>
        /\ redefined \subseteq redefined'
    BY <1>2 DEF SetRange
  <2>2. ASSUME NEW m \in Mids, mid_current_ <= m
        PROVE  mid_current_' <= m \/ m \in redefined'
    <3>1. m \in Nat /\ c \in Nat /\ mid_current_ \in Nat
      BY RangeAssumption DEF IInv, TypeOK
    <3>. QED
      BY <1>2, <2>2, <3>1 DEF SetRange, Min2, Max2
  <2>3. NoMidLost'
    BY <2>1, <2>2 DEF IInv, NoMidLost, Open, Leased, Recycled, Waived
  <2>. QED
    BY <1>1, <2>1, <2>3 DEF IInv, CommitByOwner, ArchiveCovers, Archived, Waived
<1>3. CASE Start \/ Stop \/ Tick
  <2>1. UNCHANGED <<up, tasks_, tasks_recycled_, task_id_current_, mid_current_,
                    file, file_ok, handed, crawled, dropped, redefined>>
    BY <1>3 DEF Start, Stop, Tick, memory, ghosts
  <2>. QED
    BY <1>1, <2>1 DEF IInv, CommitByOwner, NoMidLost, ArchiveCovers, Archived, Waived,
                      Open, Leased, Recycled
<1>. QED
  BY <1>2, <1>3

LEMMA InitMids == Init => IInv
<1>. SUFFICES ASSUME Init PROVE IInv
  OBVIOUS
<1>1. TypeOK
  BY InitType
<1>2. NoMidLost /\ CommitByOwner
  BY DEF Init, NoMidLost, CommitByOwner
<1>3. ArchiveCovers
  BY RangeAssumption DEF Init, ArchiveCovers, Archived
<1>. QED
  BY <1>1, <1>2, <1>3 DEF IInv

LEMMA NextKeepsMids ==
    ASSUME ~ClientsOutliveServer, IInv, [Next]_vars
    PROVE  IInv'
<1>1. CASE UNCHANGED vars
  BY <1>1 DEF vars, memory, ghosts, IInv, TypeOK, CommitByOwner, NoMidLost,
              ArchiveCovers, Archived, Waived, Open, Leased, Recycled
<1>2. CASE Next
  BY <1>2, GetTaskKeepsMids, CommitKeepsMids, ProcessKeepsMids, AdminKeepsMids
     DEF Next
<1>. QED
  BY <1>1, <1>2

(* Provided no client carries its tasks over a restart of the server, the    *)
(* inductive invariant holds: whatever leases, commits (early, late or       *)
(* repeated), expirations, crashes, stale archives and range changes occur,  *)
(* no mid is lost in memory and none would be lost by a restart.             *)
THEOREM MidsAreKept ==
    ASSUME ~ClientsOutliveServer
    PROVE  Spec => [](NoMidLost /\ ArchiveCovers)
<1>1. Init => IInv
  BY InitMids
<1>2. IInv /\ [Next]_vars => IInv'
  BY NextKeepsMids
<1>3. IInv => NoMidLost /\ ArchiveCovers
  BY DEF IInv
<1>. QED
  BY <1>1, <1>2, <1>3, PTL DEF Spec

(* Under the same assumption the owner check of commit never fails: a task   *)
(* is acknowledged only by the client it is leased to, for the mids leased.  *)
THEOREM OwnerCheckNeverFails ==
    ASSUME ~ClientsOutliveServer
    PROVE  Spec => []CommitByOwner
<1>1. Init => IInv
  BY InitMids
<1>2. IInv /\ [Next]_vars => IInv'
  BY NextKeepsMids
<1>3. IInv => CommitByOwner
  BY DEF IInv
<1>. QED
  BY <1>1, <1>2, <1>3, PTL DEF Spec
-----------------------------------------------------------------------------
(* No mid is in two places.  Beside the tasks in memory this is needed of the *)
(* archive, which may be much older and becomes the memory at a restart.     *)

AtMostOnce(q, m) ==
    \A i, j \in DOMAIN q : m \in Span(q[i]) /\ m \in Span(q[j]) => i = j

ArchiveNoOverlap ==
    \A m \in Mids \ redefined :
        AtMostOnce(file.tasks, m) /\ (Covers(file.tasks, m) => m < file.mid_current)

(* Two queues that share no mid, one behind the other. *)
LEMMA ConcatMids ==
    ASSUME NEW p \in Seq(Ranges), NEW q \in Seq(Ranges), NEW m
    PROVE  /\ Covers(p \o q, m) => Covers(p, m) \/ Covers(q, m)
           /\ AtMostOnce(p, m) /\ AtMostOnce(q, m) /\ ~(Covers(p, m) /\ Covers(q, m))
                 => AtMostOnce(p \o q, m)
<1>1. \A i \in 1 .. Len(p) + Len(q) :
         (p \o q)[i] = IF i <= Len(p) THEN p[i] ELSE q[i - Len(p)]
  BY ConcatProperties
<1>2. /\ Len(p) \in Nat /\ DOMAIN p = 1 .. Len(p)
      /\ Len(q) \in Nat /\ DOMAIN q = 1 .. Len(q)
      /\ DOMAIN (p \o q) = 1 .. Len(p) + Len(q)
  BY ConcatProperties, LenProperties
<1>3. ASSUME NEW i \in DOMAIN (p \o q), m \in Span((p \o q)[i])
      PROVE  \/ i \in DOMAIN p /\ m \in Span(p[i])
             \/ i - Len(p) \in DOMAIN q /\ m \in Span(q[i - Len(p)])
  <2>1. CASE i <= Len(p)
    BY <1>1, <1>2, <1>3, <2>1
  <2>2. CASE i > Len(p)
    BY <1>1, <1>2, <1>3, <2>2
  <2>. QED
    BY <1>2, <2>1, <2>2
<1>4. Covers(p \o q, m) => Covers(p, m) \/ Covers(q, m)
  BY <1>3 DEF Covers
<1>5. ASSUME AtMostOnce(p, m), AtMostOnce(q, m), ~(Covers(p, m) /\ Covers(q, m)),
             NEW i \in DOMAIN (p \o q), NEW j \in DOMAIN (p \o q),
             m \in Span((p \o q)[i]), m \in Span((p \o q)[j])
      PROVE  i = j
  <2>1. CASE i \in DOMAIN p /\ m \in Span(p[i])
    <3>1. ~Covers(q, m)
      BY <1>5, <2>1 DEF Covers
    <3>2. j \in DOMAIN p /\ m \in Span(p[j])
      BY <1>3, <1>5, <3>1 DEF Covers
    <3>. QED
      BY <1>5, <2>1, <3>2 DEF AtMostOnce
  <2>2. CASE i - Len(p) \in DOMAIN q /\ m \in Span(q[i - Len(p)])
    <3>1. ~Covers(p, m)
      BY <1>5, <2>2 DEF Covers
    <3>2. j - Len(p) \in DOMAIN q /\ m \in Span(q[j - Len(p)])
      BY <1>3, <1>5, <3>1 DEF Covers
    <3>3. i - Len(p) = j - Len(p)
      BY <1>5, <2>2, <3>2 DEF AtMostOnce
    <3>. QED
      BY <1>2, <3>3
  <2>. QED
    BY <1>3, <1>5, <2>1, <2>2
<1>. QED
  BY <1>4, <1>5 DEF AtMostOnce

(* The first range of a queue shares no mid with the rest. *)
LEMMA TailMids ==
    ASSUME NEW q \in Seq(Ranges), q # <<>>, NEW m
    PROVE  /\ Covers(Tail(q), m) \/ m \in Span(Head(q)) => Covers(q, m)
           /\ AtMostOnce(q, m) => /\ AtMostOnce(Tail(q), m)
                                 /\ ~(Covers(Tail(q), m) /\ m \in Span(Head(q)))
<1>1. /\ Len(q) \in Nat /\ DOMAIN q = 1 .. Len(q) /\ Len(q) > 0
      /\ Head(q) = q[1]
      /\ DOMAIN Tail(q) = 1 .. Len(q) - 1
      /\ \A i \in DOMAIN Tail(q) : Tail(q)[i] = q[i + 1]
  BY LenProperties, HeadTailProperties, EmptySeq
<1>2. \A i \in DOMAIN Tail(q) : i \in Int /\ i + 1 \in DOMAIN q /\ i + 1 # 1
  BY <1>1
<1>3. 1 \in DOMAIN q
  BY <1>1
<1>. QED
  BY <1>1, <1>2, <1>3 DEF Covers, AtMostOnce

(* The tasks of a map in traversal order: every key comes once. *)
LEMMA RangesInOrderMids ==
    ASSUME NEW f, f \in [DOMAIN f -> BiliTask],
           NEW K \in SUBSET DOMAIN f, K \subseteq Nat, IsFiniteSet(K),
           NEW s \in KeyOrders(K), NEW m
    PROVE  /\ Covers(RangesInOrder(f, s), m) => \E k \in K : m \in Span(f[k])
           /\ (\A t, u \in K : m \in Span(f[t]) /\ m \in Span(f[u]) => t = u)
                 => AtMostOnce(RangesInOrder(f, s), m)
<1>1. /\ s \in Seq(K)
      /\ DOMAIN s = 1 .. Len(s)
  BY KeyOrderIsSeq
<1>2. Len(s) \in Nat /\ \A i \in DOMAIN s : s[i] \in K
  BY <1>1, LenProperties, ElementOfSeq
<1>3. \A i, j \in DOMAIN s : i < j => s[i] < s[j]
  BY DEF KeyOrders
<1>4. ASSUME NEW i \in DOMAIN s, NEW j \in DOMAIN s, s[i] = s[j]
      PROVE  i = j
  <2>1. i \in Nat /\ j \in Nat /\ s[i] \in Nat /\ s[j] \in Nat
    BY <1>1, <1>2
  <2>. QED
    BY <1>3, <1>4, <2>1
<1>5. /\ DOMAIN RangesInOrder(f, s) = DOMAIN s
      /\ \A i \in DOMAIN s : Span(RangesInOrder(f, s)[i]) = Span(f[s[i]])
  BY DEF RangesInOrder, RangeOf, Span
<1>. QED
  BY <1>2, <1>4, <1>5 DEF Covers, AtMostOnce

(* The archive of a state has a mid as often as the state itself. *)
LEMMA ArchiveMids ==
    ASSUME NEW tasks, tasks \in [DOMAIN tasks -> BiliTask],
           DOMAIN tasks \subseteq Nat, IsFiniteSet(DOMAIN tasks),
           NEW recycled \in Seq(Ranges), NEW current \in Nat, NEW end \in Nat,
           NEW idCurrent \in Nat,
           NEW a \in ArchivesOf(tasks, recycled, current, end, idCurrent),
           NEW m
    PROVE  /\ a.mid_current = current
           /\ Covers(a.tasks, m) =>
                 (\E t \in DOMAIN tasks : m \in Span(tasks[t])) \/ Covers(recycled, m)
           /\ (/\ \A t, u \in DOMAIN tasks :
                     m \in Span(tasks[t]) /\ m \in Span(tasks[u]) => t = u
               /\ AtMostOnce(recycled, m)
               /\ ~((\E t \in DOMAIN tasks : m \in Span(tasks[t])) /\ Covers(recycled, m)))
                => AtMostOnce(a.tasks, m)
<1>1. PICK s \in KeyOrders(DOMAIN tasks) :
         a = [task_id_current |-> idCurrent, mid_current |-> current,
              mid_end |-> end, tasks |-> RangesInOrder(tasks, s) \o recycled]
  BY DEF ArchivesOf
<1>2. RangesInOrder(tasks, s) \in Seq(Ranges)
  BY RangesInOrderCover
<1>3. a.tasks = RangesInOrder(tasks, s) \o recycled /\ a.mid_current = current
  BY <1>1
<1>4. /\ Covers(RangesInOrder(tasks, s), m) => \E t \in DOMAIN tasks : m \in Span(tasks[t])
      /\ (\A t, u \in DOMAIN tasks : m \in Span(tasks[t]) /\ m \in Span(tasks[u]) => t = u)
            => AtMostOnce(RangesInOrder(tasks, s), m)
  BY RangesInOrderMids
<1>5. /\ Covers(a.tasks, m) => Covers(RangesInOrder(tasks, s), m) \/ Covers(recycled, m)
      /\ AtMostOnce(RangesInOrder(tasks, s), m) /\ AtMostOnce(recycled, m)
           /\ ~(Covers(RangesInOrder(tasks, s), m) /\ Covers(recycled, m))
            => AtMostOnce(a.tasks, m)
  BY <1>2, <1>3, ConcatMids
<1>. QED
  BY <1>3, <1>4, <1>5

(* What NoOverlap says of one mid. *)
LEMMA NoOverlapOf ==
    NoOverlap <=> \A m \in Mids \ redefined :
        /\ \A t, u \in DOMAIN tasks_ :
              m \in Span(tasks_[t]) /\ m \in Span(tasks_[u]) => t = u
        /\ AtMostOnce(tasks_recycled_, m)
        /\ ~(Leased(m) /\ Recycled(m))
        /\ Leased(m) \/ Recycled(m) => m < mid_current_
  BY DEF NoOverlap, AtMostOnce

(* Writing the archive of a state without overlaps. *)
LEMMA SaveKeepsApart ==
    ASSUME TypeOK', NoOverlap', ArchiveNoOverlap, redefined \subseteq redefined',
           NEW id \in Nat,
           SaveIfDue(ArchivesOf(tasks_', tasks_recycled_', mid_current_', mid_end_', id))
    PROVE  ArchiveNoOverlap'
<1>1. CASE file' = file
  BY <1>1 DEF ArchiveNoOverlap
<1>2. CASE file' \in ArchivesOf(tasks_', tasks_recycled_', mid_current_', mid_end_', id)
  <2>1. /\ tasks_' \in [DOMAIN tasks_' -> BiliTask]
        /\ DOMAIN tasks_' \subseteq Nat /\ IsFiniteSet(DOMAIN tasks_')
        /\ tasks_recycled_' \in Seq(Ranges)
        /\ mid_current_' \in Nat /\ mid_end_' \in Nat
    BY DEF TypeOK
  <2>2. ASSUME NEW m \in Mids \ redefined'
        PROVE  AtMostOnce(file'.tasks, m) /\ (Covers(file'.tasks, m) => m < file'.mid_current)
    <3>1. /\ \A t, u \in DOMAIN tasks_' :
                m \in Span(tasks_'[t]) /\ m \in Span(tasks_'[u]) => t = u
          /\ AtMostOnce(tasks_recycled_', m)
          /\ ~((\E t \in DOMAIN tasks_' : m \in Span(tasks_'[t])) /\ Covers(tasks_recycled_', m))
          /\ (\E t \in DOMAIN tasks_' : m \in Span(tasks_'[t])) \/ Covers(tasks_recycled_', m)
                => m < mid_current_'
      BY NoOverlapOf DEF NoOverlap, AtMostOnce, Leased, Recycled
    <3>. QED
      BY <1>2, <2>1, <3>1, ArchiveMids
  <2>. QED
    BY <2>2 DEF ArchiveNoOverlap
<1>. QED
  BY <1>1, <1>2 DEF SaveIfDue

(* The tasks after a lease: one more, with the mids of the range. *)
LEMMA LeaseMids ==
    ASSUME TypeOK, NEW c \in ClientIds, NEW r \in Ranges, Lease(c, r)
    PROVE  /\ task_id_current_ \in Nat /\ task_id_current_ \notin DOMAIN tasks_
           /\ DOMAIN tasks_' = DOMAIN tasks_ \cup {task_id_current_}
           /\ Span(tasks_'[task_id_current_]) = Span(r)
           /\ \A t \in DOMAIN tasks_ : tasks_'[t] = tasks_[t]
           /\ \A m : Leased(m)' <=> Leased(m) \/ m \in Span(r)
<1> DEFINE task == [client_id |-> c, mid_start |-> r.mid_start,
                    mid_end |-> r.mid_end, ttl |-> now + MainTaskTimeout]
<1>1. task_id_current_ \notin DOMAIN tasks_ /\ task_id_current_ \in Nat
  BY DEF TypeOK
<1>2. tasks_' = Emplace(tasks_, task_id_current_, task)
  BY DEF Lease
<1>3. Span(task) = Span(r)
  BY DEF Span
<1> HIDE DEF task
<1>4. /\ DOMAIN tasks_' = DOMAIN tasks_ \cup {task_id_current_}
      /\ tasks_'[task_id_current_] = task
      /\ \A t \in DOMAIN tasks_ : tasks_'[t] = tasks_[t]
  BY <1>1, <1>2 DEF Emplace
<1>. QED
  BY <1>1, <1>3, <1>4 DEF Leased

(* What commit does to a mid: it stays where it was, goes from an expired    *)
(* task to the recycled ranges, or is acknowledged.                          *)
LEMMA CommitMids ==
    ASSUME TypeOK, NEW h \in handed, Commit(h), NEW m
    PROVE  /\ Leased(m)' => Leased(m)
           /\ Recycled(m)' => Leased(m) \/ Recycled(m)
           /\ (/\ \A t, u \in DOMAIN tasks_ :
                     m \in Span(tasks_[t]) /\ m \in Span(tasks_[u]) => t = u
               /\ AtMostOnce(tasks_recycled_, m)
               /\ ~(Leased(m) /\ Recycled(m)))
                => AtMostOnce(tasks_recycled_', m) /\ ~(Leased(m)' /\ Recycled(m)')
<1> DEFINE kept == DOMAIN tasks_ \ Acknowledged(h)
           left == Erase(tasks_, Acknowledged(h))
           Alone == \A t, u \in DOMAIN tasks_ :
                        m \in Span(tasks_[t]) /\ m \in Span(tasks_[u]) => t = u
<1>1. \A t \in kept : left[t] = tasks_[t]
  BY EraseKeys DEF TypeOK
<1>2. DOMAIN left = kept /\ left \in [DOMAIN left -> BiliTask]
  BY EraseKeys DEF TypeOK
<1>3. RecycleExpired(left)
  BY DEF Commit
<1> HIDE DEF left
<1>4. Expired(left) \subseteq DOMAIN left
  BY DEF Expired
<1>5. Expired(left) \subseteq Nat /\ IsFiniteSet(Expired(left))
  BY <1>2, <1>4, FS_Subset DEF TypeOK
<1>6. /\ DOMAIN tasks_' = DOMAIN left \ Expired(left)
      /\ \A t \in DOMAIN left \ Expired(left) : tasks_'[t] = left[t]
  BY <1>2, <1>3, EraseKeys DEF RecycleExpired
<1>7. PICK s \in KeyOrders(Expired(left)) :
         tasks_recycled_' = tasks_recycled_ \o RangesInOrder(left, s)
  BY <1>3 DEF RecycleExpired
<1>8. RangesInOrder(left, s) \in Seq(Ranges) /\ tasks_recycled_ \in Seq(Ranges)
  BY <1>2, <1>4, <1>5, RangesInOrderCover DEF TypeOK
<1>9. /\ Covers(RangesInOrder(left, s), m) => \E k \in Expired(left) : m \in Span(left[k])
      /\ Alone => AtMostOnce(RangesInOrder(left, s), m)
  <2>1. Covers(RangesInOrder(left, s), m) => \E k \in Expired(left) : m \in Span(left[k])
    BY <1>2, <1>4, <1>5, RangesInOrderMids
  <2>2. (\A t, u \in Expired(left) : m \in Span(left[t]) /\ m \in Span(left[u]) => t = u)
          => AtMostOnce(RangesInOrder(left, s), m)
    BY <1>2, <1>4, <1>5, RangesInOrderMids
  <2>. QED
    BY <1>1, <1>2, <1>4, <2>1, <2>2
<1>10. /\ Recycled(m)' => Recycled(m) \/ Covers(RangesInOrder(left, s), m)
       /\ AtMostOnce(tasks_recycled_, m) /\ AtMostOnce(RangesInOrder(left, s), m)
            /\ ~(Recycled(m) /\ Covers(RangesInOrder(left, s), m))
             => AtMostOnce(tasks_recycled_', m)
  BY <1>7, <1>8, ConcatMids DEF Recycled
<1>11. Leased(m)' => \E t \in kept \ Expired(left) : m \in Span(tasks_[t])
  BY <1>1, <1>2, <1>6 DEF Leased
<1>12. Covers(RangesInOrder(left, s), m) => \E k \in Expired(left) \cap kept : m \in Span(tasks_[k])
  BY <1>1, <1>2, <1>4, <1>9
<1>13. Alone /\ AtMostOnce(tasks_recycled_, m) /\ ~(Leased(m) /\ Recycled(m))
          => AtMostOnce(tasks_recycled_', m) /\ ~(Leased(m)' /\ Recycled(m)')
  BY <1>9, <1>10, <1>11, <1>12 DEF Leased
<1>. QED
  BY <1>10, <1>11, <1>12, <1>13 DEF Leased

(* NoOverlap with its archive is inductive. *)
ApartInv == TypeOK /\ NoOverlap /\ ArchiveNoOverlap

(* A lease keeps it, provided the mids of the range were nowhere else, and   *)
(* those that stay ahead of mid_current_ were ahead of it.                  *)
LEMMA LeaseKeepsApart ==
    ASSUME ApartInv, TypeOK', NEW c \in ClientIds, NEW r \in Ranges, Lease(c, r),
           redefined \subseteq redefined',
           \A m \in Mids \ redefined' :
              /\ m \in Span(r) => ~Leased(m) /\ ~Recycled(m)' /\ m < mid_current_'
              /\ Recycled(m)' => Recycled(m)
              /\ AtMostOnce(tasks_recycled_, m) => AtMostOnce(tasks_recycled_', m)
              /\ m < mid_current_ => m < mid_current_'
    PROVE  ApartInv'
<1>1. /\ task_id_current_ \in Nat
      /\ DOMAIN tasks_' = DOMAIN tasks_ \cup {task_id_current_}
      /\ Span(tasks_'[task_id_current_]) = Span(r)
      /\ \A t \in DOMAIN tasks_ : tasks_'[t] = tasks_[t]
      /\ \A m : Leased(m)' <=> Leased(m) \/ m \in Span(r)
  BY LeaseMids DEF ApartInv
<1>2. NoOverlap'
  <2>. SUFFICES ASSUME NEW m \in Mids \ redefined'
       PROVE  /\ \A t, u \in DOMAIN tasks_' :
                    m \in Span(tasks_'[t]) /\ m \in Span(tasks_'[u]) => t = u
              /\ AtMostOnce(tasks_recycled_', m)
              /\ ~(Leased(m)' /\ Recycled(m)')
              /\ Leased(m)' \/ Recycled(m)' => m < mid_current_'
    BY DEF NoOverlap, AtMostOnce
  <2>1. /\ \A t, u \in DOMAIN tasks_ :
              m \in Span(tasks_[t]) /\ m \in Span(tasks_[u]) => t = u
        /\ AtMostOnce(tasks_recycled_, m)
        /\ ~(Leased(m) /\ Recycled(m))
        /\ Leased(m) \/ Recycled(m) => m < mid_current_
    BY NoOverlapOf DEF ApartInv
  <2>2. ASSUME NEW t \in DOMAIN tasks_', NEW u \in DOMAIN tasks_',
               m \in Span(tasks_'[t]), m \in Span(tasks_'[u])
        PROVE  t = u
    <3>1. CASE m \in Span(r)
      BY <1>1, <2>2, <3>1 DEF Leased
    <3>2. CASE m \notin Span(r)
      BY <1>1, <2>1, <2>2, <3>2
    <3>. QED
      BY <3>1, <3>2
  <2>. QED
    BY <1>1, <2>1, <2>2
<1>3. ArchiveNoOverlap'
  BY <1>1, <1>2, SaveKeepsApart DEF ApartInv, Lease
<1>. QED
  BY <1>2, <1>3 DEF ApartInv

LEMMA GetTaskKeepsApart ==
    ASSUME ApartInv, NEW c \in ClientIds, GetTask(c)
    PROVE  ApartInv'
<1>1. TypeOK'
  BY GetTaskType DEF ApartInv
<1>2. \A m \in Mids \ redefined :
         /\ AtMostOnce(tasks_recycled_, m)
         /\ ~(Leased(m) /\ Recycled(m))
         /\ Leased(m) \/ Recycled(m) => m < mid_current_
  BY NoOverlapOf DEF ApartInv
<1>3. CASE GetRecycledTask(c)
  <2>1. /\ tasks_recycled_ \in Seq(Ranges) /\ tasks_recycled_ # <<>>
        /\ tasks_recycled_' = Tail(tasks_recycled_)
        /\ UNCHANGED <<mid_current_, redefined>>
        /\ Lease(c, Head(tasks_recycled_))
    BY <1>3 DEF GetRecycledTask, ApartInv, TypeOK
  <2>2. Head(tasks_recycled_) \in Ranges
    BY <2>1, HeadTailProperties
  <2>3. \A m \in Mids \ redefined :
           /\ Recycled(m)' \/ m \in Span(Head(tasks_recycled_)) => Recycled(m)
           /\ ~(Recycled(m)' /\ m \in Span(Head(tasks_recycled_)))
           /\ AtMostOnce(tasks_recycled_', m)
    BY <1>2, <2>1, TailMids DEF Recycled
  <2>. QED
    BY <1>1, <1>2, <2>1, <2>2, <2>3, LeaseKeepsApart
<1>4. ASSUME NEW n \in Counts, GetFreshTask(c, n)
      PROVE  ApartInv'
  <2>1. PICK range \in Ranges :
           /\ mid_current_' \in Nat
           /\ redefined \subseteq redefined'
           /\ \A m \in Span(range) : mid_current_ <= m
           /\ \A m \in Nat \ redefined' :
                 mid_current_' <= m => mid_current_ <= m /\ m \notin Span(range)
           /\ Lease(c, range)
    BY <1>4, FreshTask DEF ApartInv
  <2>2. UNCHANGED tasks_recycled_
    BY <1>4, FreshTask DEF ApartInv
  <2>3. \A m \in Mids : m \in Nat /\ mid_current_ \in Nat
    BY RangeAssumption DEF ApartInv, TypeOK
  <2>4. ASSUME NEW m \in Mids \ redefined'
        PROVE  /\ m \in Span(range) => ~Leased(m) /\ ~Recycled(m)' /\ m < mid_current_'
               /\ m < mid_current_ => m < mid_current_'
    BY <1>2, <2>1, <2>2, <2>3 DEF Recycled
  <2>5. \A m \in Mids \ redefined' :
           /\ Recycled(m)' => Recycled(m)
           /\ AtMostOnce(tasks_recycled_, m) => AtMostOnce(tasks_recycled_', m)
    BY <2>2 DEF Recycled
  <2>. QED
    BY <1>1, <2>1, <2>4, <2>5, LeaseKeepsApart
<1>. QED
  BY <1>3, <1>4 DEF GetTask

LEMMA CommitKeepsApart ==
    ASSUME ApartInv, NEW h \in handed, Commit(h)
    PROVE  ApartInv'
<1>1. TypeOK' /\ task_id_current_ \in Nat
  BY CommitType DEF ApartInv, TypeOK
<1>2. /\ DOMAIN tasks_' \subseteq DOMAIN tasks_
      /\ \A t \in DOMAIN tasks_' : tasks_'[t] = tasks_[t]
  BY CommitTasks DEF ApartInv
<1>3. /\ UNCHANGED <<mid_current_, mid_end_, redefined>>
      /\ SaveIfDue(ArchivesOf(tasks_', tasks_recycled_', mid_current_', mid_end_',
                              task_id_current_))
  BY DEF Commit
<1>4. NoOverlap'
  <2>. SUFFICES ASSUME NEW m \in Mids \ redefined'
       PROVE  /\ \A t, u \in DOMAIN tasks_' :
                    m \in Span(tasks_'[t]) /\ m \in Span(tasks_'[u]) => t = u
              /\ AtMostOnce(tasks_recycled_', m)
              /\ ~(Leased(m)' /\ Recycled(m)')
              /\ Leased(m)' \/ Recycled(m)' => m < mid_current_'
    BY DEF NoOverlap, AtMostOnce
  <2>1. /\ \A t, u \in DOMAIN tasks_ :
              m \in Span(tasks_[t]) /\ m \in Span(tasks_[u]) => t = u
        /\ AtMostOnce(tasks_recycled_, m)
        /\ ~(Leased(m) /\ Recycled(m))
        /\ Leased(m) \/ Recycled(m) => m < mid_current_
    BY <1>3, NoOverlapOf DEF ApartInv
  <2>2. /\ Leased(m)' => Leased(m)
        /\ Recycled(m)' => Leased(m) \/ Recycled(m)
        /\ AtMostOnce(tasks_recycled_', m) /\ ~(Leased(m)' /\ Recycled(m)')
    BY <2>1, CommitMids DEF ApartInv
  <2>. QED
    BY <1>2, <1>3, <2>1, <2>2
<1>. QED
  BY <1>1, <1>3, <1>4, SaveKeepsApart DEF ApartInv

LEMMA ProcessKeepsApart ==
    ASSUME ApartInv, Exit \/ Crash \/ CrashWhileSaving \/ Boot
    PROVE  ApartInv'
<1>1. TypeOK'
  BY ProcessType DEF ApartInv
<1>2. CASE Exit \/ Crash \/ CrashWhileSaving
  <2>1. /\ DOMAIN tasks_' = {} /\ tasks_recycled_' = <<>>
        /\ UNCHANGED redefined
    BY <1>2 DEF Exit, Crash, CrashWhileSaving, LoseMemory, NoTasks, ghosts
  <2>2. NoOverlap'
    BY <2>1 DEF NoOverlap, Leased, Recycled, Covers
  <2>3. ArchiveNoOverlap'
    <3>1. CASE file' = file
      BY <2>1, <3>1 DEF ApartInv, ArchiveNoOverlap
    <3>2. CASE file' \in ArchivesOf(tasks_, tasks_recycled_, mid_current_, mid_end_,
                                    task_id_current_)
      <4>1. /\ tasks_ \in [DOMAIN tasks_ -> BiliTask]
            /\ DOMAIN tasks_ \subseteq Nat /\ IsFiniteSet(DOMAIN tasks_)
            /\ tasks_recycled_ \in Seq(Ranges)
            /\ mid_current_ \in Nat /\ mid_end_ \in Nat /\ task_id_current_ \in Nat
        BY DEF ApartInv, TypeOK
      <4>2. \A m \in Mids \ redefined :
               /\ \A t, u \in DOMAIN tasks_ :
                     m \in Span(tasks_[t]) /\ m \in Span(tasks_[u]) => t = u
               /\ AtMostOnce(tasks_recycled_, m)
               /\ ~((\E t \in DOMAIN tasks_ : m \in Span(tasks_[t])) /\ Covers(tasks_recycled_, m))
               /\ (\E t \in DOMAIN tasks_ : m \in Span(tasks_[t])) \/ Covers(tasks_recycled_, m)
                     => m < mid_current_
        BY NoOverlapOf DEF ApartInv, Leased, Recycled
      <4>3. \A m \in Mids \ redefined :
               AtMostOnce(file'.tasks, m) /\ (Covers(file'.tasks, m) => m < file'.mid_current)
        BY <3>2, <4>1, <4>2, ArchiveMids
      <4>. QED
        BY <2>1, <4>3 DEF ArchiveNoOverlap
    <3>. QED
      BY <1>2, <3>1, <3>2 DEF Exit, Crash, CrashWhileSaving
  <2>. QED
    BY <1>1, <2>2, <2>3 DEF ApartInv
<1>3. CASE Boot
  <2>1. /\ DOMAIN tasks_' = {} /\ tasks_recycled_' = file.tasks
        /\ mid_current_' = file.mid_current
        /\ UNCHANGED <<file, redefined>>
    BY <1>3 DEF Boot, NoTasks
  <2>2. NoOverlap'
    BY <2>1 DEF ApartInv, ArchiveNoOverlap, NoOverlap, Leased, Recycled, AtMostOnce
  <2>. QED
    BY <1>1, <2>1, <2>2 DEF ApartInv, ArchiveNoOverlap
<1>. QED
  BY <1>2, <1>3

LEMMA AdminKeepsApart ==
    ASSUME ApartInv,
           \/ \E e \in AdminEnds, c \in AdminCurrents : SetRange(e, c)
           \/ Start \/ Stop \/ Tick
    PROVE  ApartInv'
<1>1. TypeOK'
  BY AdminType DEF ApartInv
<1>2. ASSUME NEW e \in AdminEnds, NEW c \in AdminCurrents, SetRange(e, c)
      PROVE  ApartInv'
  <2>1. /\ UNCHANGED <<tasks_, tasks_recycled_, file>>
        /\ redefined \subseteq redefined'
    BY <1>2 DEF SetRange
  <2>2. ASSUME NEW m \in Mids \ redefined', m < mid_current_
        PROVE  m < mid_current_'
    <3>1. m \in Nat /\ c \in Nat /\ mid_current_ \in Nat
      BY RangeAssumption DEF ApartInv, TypeOK
    <3>. QED
      BY <1>2, <2>2, <3>1 DEF SetRange, Min2, Max2
  <2>3. NoOverlap'
    BY <2>1, <2>2 DEF ApartInv, NoOverlap, Leased, Recycled
  <2>. QED
    BY <1>1, <2>1, <2>3 DEF ApartInv, ArchiveNoOverlap
<1>3. CASE Start \/ Stop \/ Tick
  <2>1. UNCHANGED <<tasks_, tasks_recycled_, mid_current_, file, redefined>>
    BY <1>3 DEF Start, Stop, Tick, memory, ghosts
  <2>. QED
    BY <1>1, <2>1 DEF ApartInv, NoOverlap, ArchiveNoOverlap, Leased, Recycled
<1>. QED
  BY <1>2, <1>3

(* No two clients are ever asked to crawl the same mid at the same time, over *)
(* leases, expirations, late commits, crashes and restarts from archives of   *)
(* any age, except for what an administrator moved mid_current_ across.       *)
THEOREM NobodyCrawlsTwice == Spec => []NoOverlap
<1>1. Init => ApartInv
  <2>. SUFFICES ASSUME Init PROVE ApartInv
    OBVIOUS
  <2>1. TypeOK
    BY InitType
  <2>2. NoOverlap /\ ArchiveNoOverlap
    BY DEF Init, NoTasks, NoOverlap, ArchiveNoOverlap, AtMostOnce, Covers, Leased, Recycled
  <2>. QED
    BY <2>1, <2>2 DEF ApartInv
<1>2. ApartInv /\ [Next]_vars => ApartInv'
  <2>. SUFFICES ASSUME ApartInv, [Next]_vars PROVE ApartInv'
    OBVIOUS
  <2>1. CASE UNCHANGED vars
    BY <2>1 DEF vars, memory, ghosts, ApartInv, TypeOK, NoOverlap, ArchiveNoOverlap,
                Leased, Recycled
  <2>2. CASE Next
    BY <2>2, GetTaskKeepsApart, CommitKeepsApart, ProcessKeepsApart, AdminKeepsApart DEF Next
  <2>. QED
    BY <2>1, <2>2
<1>3. ApartInv => NoOverlap
  BY DEF ApartInv
<1>. QED
  BY <1>1, <1>2, <1>3, PTL DEF Spec
-----------------------------------------------------------------------------
(* What is done stays done while the server is up.                          *)

LEMMA GetTaskReopensNothing ==
    ASSUME TypeOK, NEW c \in ClientIds, GetTask(c), NEW m \in Mids \ redefined', Open(m)'
    PROVE  Open(m)
<1>1. CASE GetRecycledTask(c)
  <2>1. /\ tasks_recycled_ \in Seq(Ranges) /\ tasks_recycled_ # <<>>
        /\ tasks_recycled_' = Tail(tasks_recycled_)
        /\ UNCHANGED mid_current_
        /\ Lease(c, Head(tasks_recycled_))
    BY <1>1 DEF GetRecycledTask, TypeOK
  <2>2. Head(tasks_recycled_) \in Ranges
    BY <2>1, HeadTailProperties
  <2>3. Recycled(m)' \/ m \in Span(Head(tasks_recycled_)) => Recycled(m)
    BY <2>1, TailMids DEF Recycled
  <2>4. Leased(m)' => Leased(m) \/ m \in Span(Head(tasks_recycled_))
    BY <2>1, <2>2, LeaseMids
  <2>. QED
    BY <2>1, <2>3, <2>4 DEF Open
<1>2. ASSUME NEW n \in Counts, GetFreshTask(c, n)
      PROVE  Open(m)
  <2>1. PICK range \in Ranges :
           /\ \A k \in Span(range) : mid_current_ <= k
           /\ \A k \in Nat \ redefined' :
                 mid_current_' <= k => mid_current_ <= k /\ k \notin Span(range)
           /\ Lease(c, range)
    BY <1>2, FreshTask
  <2>2. UNCHANGED tasks_recycled_
    BY <1>2, FreshTask
  <2>3. Leased(m)' => Leased(m) \/ m \in Span(range)
    BY <2>1, LeaseMids
  <2>4. m \in Nat
    BY RangeAssumption
  <2>. QED
    BY <2>1, <2>2, <2>3, <2>4 DEF Open, Recycled
<1>. QED
  BY <1>1, <1>2 DEF GetTask

LEMMA AdminReopensNothing ==
    ASSUME TypeOK, NEW m \in Mids \ redefined', Open(m)',
           \/ \E e \in AdminEnds, c \in AdminCurrents : SetRange(e, c)
           \/ Start \/ Stop \/ Tick
    PROVE  Open(m)
<1>1. ASSUME NEW e \in AdminEnds, NEW c \in AdminCurrents, SetRange(e, c)
      PROVE  Open(m)
  <2>1. m \in Nat /\ c \in Nat /\ mid_current_ \in Nat
    BY RangeAssumption DEF TypeOK
  <2>2. mid_current_' <= m => mid_current_ <= m
    BY <1>1, <2>1 DEF SetRange, Min2, Max2
  <2>. QED
    BY <1>1, <2>2 DEF SetRange, Open, Leased, Recycled
<1>2. CASE Start \/ Stop \/ Tick
  BY <1>2 DEF Start, Stop, Tick, memory, ghosts, Open, Leased, Recycled
<1>. QED
  BY <1>1, <1>2

LEMMA NothingReopened ==
    ASSUME TypeOK, [Next]_vars, up, up', NEW m \in Mids \ redefined', Open(m)'
    PROVE  Open(m)
<1>1. CASE UNCHANGED vars
  BY <1>1 DEF vars, memory, ghosts, Open, Leased, Recycled
<1>2. ASSUME NEW h \in handed, Commit(h)
      PROVE  Open(m)
  BY <1>2, CommitMids DEF Commit, Open
<1>3. CASE Exit \/ Crash \/ CrashWhileSaving \/ Boot
  BY <1>3 DEF Exit, Crash, CrashWhileSaving, LoseMemory, Boot
<1>. QED
  BY <1>1, <1>2, <1>3, GetTaskReopensNothing, AdminReopensNothing DEF Next

(* As long as the server stays up, a mid that is crawled and not open is not  *)
(* opened again by leases, expirations or late commits.                      *)
THEOREM DoneStaysDone == Spec => NoReopening
<1>1. TypeOK /\ [Next]_vars =>
         [up /\ up' => \A m \in Mids \ redefined' : ~Open(m) => ~Open(m)']_vars
  BY NothingReopened
<1>. QED
  BY <1>1, TypeCorrect, PTL DEF Spec, NoReopening
-----------------------------------------------------------------------------
(* The server implements the ledger.  What a restart may put back on the list *)
(* must be on the list: the archive has every mid that is open, since nothing *)
(* is reopened after it was written.                                        *)

ArchiveHasOpen ==
    up /\ file_ok => \A m \in Mids \ Waived : Open(m) => Archived(m)

LedgerInv == IInv /\ ArchiveHasOpen

(* An archive that is kept or written anew still has every open mid. *)
LEMMA SaveHasOpen ==
    ASSUME TypeOK', ArchiveHasOpen, up, UNCHANGED file_ok, Waived \subseteq Waived',
           \A m \in Mids \ redefined' : Open(m)' => Open(m),
           NEW id \in Nat,
           SaveIfDue(ArchivesOf(tasks_', tasks_recycled_', mid_current_', mid_end_', id))
    PROVE  ArchiveHasOpen'
<1>1. CASE file' = file
  BY <1>1 DEF ArchiveHasOpen, Archived, Waived
<1>2. CASE file' \in ArchivesOf(tasks_', tasks_recycled_', mid_current_', mid_end_', id)
  <2>1. /\ tasks_' \in [DOMAIN tasks_' -> BiliTask]
        /\ DOMAIN tasks_' \subseteq Nat /\ IsFiniteSet(DOMAIN tasks_')
        /\ tasks_recycled_' \in Seq(Ranges)
        /\ mid_current_' \in Nat /\ mid_end_' \in Nat
    BY DEF TypeOK
  <2>2. ASSUME NEW m \in Mids, Open(m)'
        PROVE  Archived(m)'
    <3>1. \/ mid_current_' <= m
          \/ \E t \in DOMAIN tasks_' : m \in Span(tasks_'[t])
          \/ Covers(tasks_recycled_', m)
      BY <2>2 DEF Open, Leased, Recycled
    <3>2. file'.mid_current <= m \/ Covers(file'.tasks, m)
      BY <1>2, <2>1, <3>1, ArchiveCoversOpen
    <3>. QED
      BY <3>2 DEF Archived
  <2>. QED
    BY <2>2 DEF ArchiveHasOpen
<1>. QED
  BY <1>1, <1>2 DEF SaveIfDue

LEMMA InitLedger == Init => LedgerInv
  BY InitMids DEF LedgerInv, ArchiveHasOpen, Init

LEMMA NextKeepsLedgerInv ==
    ASSUME ~ClientsOutliveServer, LedgerInv, [Next]_vars
    PROVE  LedgerInv'
<1>1. IInv' /\ TypeOK /\ TypeOK' /\ task_id_current_ \in Nat
  BY NextKeepsMids DEF LedgerInv, IInv, TypeOK
<1>2. ASSUME NEW c \in ClientIds, GetTask(c)
      PROVE  ArchiveHasOpen'
  <2>1. \A m \in Mids \ redefined' : Open(m)' => Open(m)
    BY <1>1, <1>2, GetTaskReopensNothing
  <2>2. /\ up /\ UNCHANGED file_ok
        /\ SaveIfDue(ArchivesOf(tasks_', tasks_recycled_', mid_current_', mid_end_',
                                task_id_current_))
    BY <1>2 DEF GetTask, GetRecycledTask, GetFreshTask, CanLease, Lease
  <2>3. Waived \subseteq Waived'
    <3>1. CASE GetRecycledTask(c)
      BY <3>1 DEF GetRecycledTask, Waived
    <3>2. ASSUME NEW n \in Counts, GetFreshTask(c, n)
          PROVE  Waived \subseteq Waived'
      BY <1>1, <3>2, FreshTask DEF Waived
    <3>. QED
      BY <1>2, <3>1, <3>2 DEF GetTask
  <2>. QED
    BY <1>1, <2>1, <2>2, <2>3, SaveHasOpen DEF LedgerInv
<1>3. ASSUME NEW h \in handed, Commit(h)
      PROVE  ArchiveHasOpen'
  <2>1. /\ up /\ UNCHANGED <<file_ok, mid_current_, mid_end_, dropped, redefined>>
        /\ SaveIfDue(ArchivesOf(tasks_', tasks_recycled_', mid_current_', mid_end_',
                                task_id_current_))
    BY <1>3 DEF Commit
  <2>2. \A m \in Mids \ redefined' : Open(m)' => Open(m)
    BY <1>1, <1>3, <2>1, CommitMids DEF Open
  <2>. QED
    BY <1>1, <2>1, <2>2, SaveHasOpen DEF LedgerInv, Waived
<1>4. CASE Exit \/ Crash \/ CrashWhileSaving
  <2>1. up' = FALSE
    BY <1>4 DEF Exit, Crash, CrashWhileSaving, LoseMemory
  <2>. QED
    BY <1>1, <2>1 DEF LedgerInv, ArchiveHasOpen
<1>5. CASE Boot
  <2>1. /\ DOMAIN tasks_' = {}
        /\ tasks_recycled_' = file'.tasks
        /\ mid_current_' = file'.mid_current
    BY <1>5 DEF Boot, NoTasks
  <2>2. \A m : ~Leased(m)'
    BY <2>1 DEF Leased
  <2>3. \A m : Recycled(m)' => Covers(file.tasks, m)'
    BY <2>1 DEF Recycled, Covers
  <2>. QED
    BY <1>1, <2>1, <2>2, <2>3 DEF LedgerInv, ArchiveHasOpen, Open, Archived
<1>6. CASE \/ \E e \in AdminEnds, c \in AdminCurrents : SetRange(e, c)
           \/ Start \/ Stop \/ Tick
  <2>1. \A m \in Mids \ redefined' : Open(m)' => Open(m)
    BY <1>1, <1>6, AdminReopensNothing
  <2>2. UNCHANGED <<up, file, file_ok, dropped>>
    BY <1>6 DEF SetRange, Start, Stop, Tick, memory, ghosts
  <2>3. redefined \subseteq redefined'
    BY <1>6 DEF SetRange, Start, Stop, Tick, ghosts
  <2>4. \A m : Archived(m)' <=> Archived(m)
    BY <2>2 DEF Archived, Covers
  <2>5. Waived \subseteq Waived'
    BY <2>2, <2>3 DEF Waived
  <2>6. \A m \in Mids \ Waived' : m \in Mids \ Waived /\ m \in Mids \ redefined'
    BY <2>5 DEF Waived
  <2>. QED
    BY <1>1, <2>1, <2>2, <2>4, <2>6 DEF LedgerInv, ArchiveHasOpen
<1>7. CASE UNCHANGED vars
  <2>1. UNCHANGED <<up, file, file_ok, dropped, redefined, tasks_, tasks_recycled_, mid_current_>>
    BY <1>7 DEF vars, memory, ghosts
  <2>2. \A m : (Open(m)' <=> Open(m)) /\ (Archived(m)' <=> Archived(m))
    BY <2>1 DEF Open, Leased, Recycled, Archived, Covers
  <2>. QED
    BY <1>1, <2>1, <2>2 DEF LedgerInv, ArchiveHasOpen, Waived
<1>. QED
  BY <1>1, <1>2, <1>3, <1>4, <1>5, <1>6, <1>7 DEF Next, LedgerInv

(* What is open stays open while a task is leased, or is waived. *)
LEMMA GetTaskKeepsOpen ==
    ASSUME TypeOK, NEW c \in ClientIds, GetTask(c)
    PROVE  /\ up /\ UNCHANGED <<up, file_ok, crawled>>
           /\ Waived \subseteq Waived'
           /\ \A m \in Mids : Open(m) => Open(m)' \/ m \in Waived'
<1>1. CASE GetRecycledTask(c)
  <2>1. /\ tasks_recycled_ \in Seq(Ranges) /\ tasks_recycled_ # <<>>
        /\ tasks_recycled_' = Tail(tasks_recycled_)
        /\ UNCHANGED <<mid_current_, dropped, redefined>>
        /\ up /\ Lease(c, Head(tasks_recycled_))
    BY <1>1 DEF GetRecycledTask, CanLease, TypeOK
  <2>2. Head(tasks_recycled_) \in Ranges
    BY <2>1, HeadTailProperties
  <2>3. \A m : Recycled(m) => m \in Span(Head(tasks_recycled_)) \/ Recycled(m)'
    BY <2>1, CoversTail DEF Recycled
  <2>4. \A m : Leased(m)' <=> Leased(m) \/ m \in Span(Head(tasks_recycled_))
    BY <2>1, <2>2, LeaseMids
  <2>5. UNCHANGED <<up, file_ok, crawled>>
    BY <2>1 DEF Lease
  <2>. QED
    BY <2>1, <2>3, <2>4, <2>5 DEF Open, Waived
<1>2. ASSUME NEW n \in Counts, GetFreshTask(c, n)
      PROVE  /\ up /\ UNCHANGED <<up, file_ok, crawled>>
             /\ Waived \subseteq Waived'
             /\ \A m \in Mids : Open(m) => Open(m)' \/ m \in Waived'
  <2>1. PICK range \in Ranges :
           /\ mid_current_' \in Nat
           /\ dropped' = dropped \cup ((mid_current_ .. mid_current_' - 1) \ Span(range))
           /\ redefined \subseteq redefined'
           /\ Lease(c, range)
    BY <1>2, FreshTask
  <2>2. up /\ UNCHANGED tasks_recycled_
    BY <1>2, FreshTask
  <2>3. UNCHANGED <<up, file_ok, crawled>>
    BY <2>1 DEF Lease
  <2>4. ASSUME NEW m \in Mids, mid_current_ <= m
        PROVE  mid_current_' <= m \/ m \in Span(range) \/ m \in dropped'
    BY <2>1, <2>4, RangeAssumption DEF TypeOK
  <2>5. \A m : Leased(m)' <=> Leased(m) \/ m \in Span(range)
    BY <2>1, LeaseMids
  <2>6. Waived \subseteq Waived'
    BY <2>1 DEF Waived
  <2>7. ASSUME NEW m \in Mids, Open(m)
        PROVE  Open(m)' \/ m \in Waived'
    BY <2>2, <2>4, <2>5, <2>7 DEF Open, Recycled, Waived
  <2>. QED
    BY <2>2, <2>3, <2>6, <2>7
<1>. QED
  BY <1>1, <1>2 DEF GetTask

(* A commit closes only what its client crawled. *)
LEMMA CommitKeepsOpen ==
    ASSUME TypeOK, CommitByOwner, NEW h \in handed, Commit(h), NEW m, Open(m)
    PROVE  Open(m)' \/ m \in Span(h)
<1>1. up /\ UNCHANGED mid_current_
  BY DEF Commit
<1> DEFINE kept == DOMAIN tasks_ \ Acknowledged(h)
<1>2. /\ \A t \in DOMAIN tasks_' : tasks_'[t] = tasks_[t]
      /\ Covers(tasks_recycled_, m) => Covers(tasks_recycled_', m)
      /\ \A t \in kept \ DOMAIN tasks_' : m \in Span(tasks_[t]) => Covers(tasks_recycled_', m)
  BY CommitTasks
<1>3. \A t \in Acknowledged(h) : Span(tasks_[t]) = Span(h)
  BY <1>1 DEF CommitByOwner, Acknowledged, RangeOf, Span
<1>4. ASSUME NEW t \in DOMAIN tasks_, m \in Span(tasks_[t])
      PROVE  Open(m)' \/ m \in Span(h)
  <2>1. CASE t \in Acknowledged(h)
    BY <1>3, <1>4, <2>1
  <2>2. CASE t \in DOMAIN tasks_'
    BY <1>2, <1>4, <2>2 DEF Open, Leased
  <2>3. CASE t \in kept \ DOMAIN tasks_'
    BY <1>2, <1>4, <2>3 DEF Open, Recycled
  <2>. QED
    BY <2>1, <2>2, <2>3
<1>. QED
  BY <1>1, <1>2, <1>4 DEF Open, Leased, Recycled

(* The to-do list of the ledger, in each of the three states of the server. *)
TodoByState ==
    /\ Todo \subseteq Mids
    /\ up => \A m \in Mids : m \in Todo <=> Open(m)
    /\ ~up /\ file_ok => \A m \in Mids : m \in Todo <=> Archived(m)
    /\ ~up /\ ~file_ok => Todo = Mids

LEMMA TodoIs == TodoByState /\ TodoByState'
<1>1. TodoByState
  <2>1. up => \A m \in Mids : m \in Todo <=> Open(m)
    BY DEF Todo
  <2>2. ~up /\ file_ok => \A m \in Mids : m \in Todo <=> Archived(m)
    BY DEF Todo
  <2>3. ~up /\ ~file_ok => Todo = Mids
    BY DEF Todo
  <2>. QED
    BY <2>1, <2>2, <2>3 DEF TodoByState, Todo
<1>. QED
  BY <1>1, PTL

LEMMA LedgerInit == Init => Ledger!Init
<1>. SUFFICES ASSUME Init PROVE Ledger!Init
  OBVIOUS
<1>1. /\ ~up /\ file_ok /\ file.mid_current = FirstMid
      /\ crawled = {} /\ Waived = {}
  BY DEF Init, Waived
<1>2. \A m \in Mids : Archived(m)
  BY <1>1, RangeAssumption DEF Archived
<1>3. Todo = Mids
  BY <1>1, <1>2, TodoIs DEF TodoByState
<1>. QED
  BY <1>1, <1>3 DEF Ledger!Init

(* Every action of the server is one of the ledger, or a stutter.            *)
LEMMA GetTaskWaives ==
    ASSUME TypeOK, TypeOK', NEW c \in ClientIds, GetTask(c)
    PROVE  Ledger!Next
<1> DEFINE S == (Waived \cap Mids)'
<1>1. /\ up /\ up' /\ UNCHANGED crawled /\ Waived \subseteq Waived'
      /\ \A m \in Mids : Open(m) => Open(m)' \/ m \in Waived'
  BY GetTaskKeepsOpen
<1>2. \A m \in Mids \ redefined' : Open(m)' => Open(m)
  BY GetTaskReopensNothing
<1>3. \A m \in Mids : m \notin S => (Open(m)' <=> Open(m))
  BY <1>1, <1>2 DEF Waived
<1>4. \A m \in Mids : (m \in Todo <=> Open(m)) /\ (m \in Todo' <=> Open(m)')
  BY <1>1, TodoIs DEF TodoByState
<1>5. Todo' \ S = Todo \ S
  BY <1>3, <1>4, TodoIs DEF TodoByState
<1>6. (Waived \cap Mids)' = (Waived \cap Mids) \cup S
  BY <1>1
<1>7. Ledger!Waive(S)
  BY <1>1, <1>5, <1>6 DEF Ledger!Waive
<1>8. S \in SUBSET Mids
  OBVIOUS
<1>. QED
  BY <1>7, <1>8 DEF Ledger!Next

LEMMA CommitFinishes ==
    ASSUME TypeOK, CommitByOwner, NEW h \in handed, Commit(h)
    PROVE  Ledger!Next
<1> DEFINE S == Span(h) \cap Mids
<1>1. /\ up /\ UNCHANGED <<up, mid_current_, dropped, redefined>>
      /\ crawled' = crawled \cup Span(h)
  BY DEF Commit
<1>2. \A m \in Mids : Open(m)' => Open(m)
  BY <1>1, CommitMids DEF Open
<1>3. \A m \in Mids : Open(m) => Open(m)' \/ m \in S
  BY CommitKeepsOpen
<1>4. \A m \in Mids : (m \in Todo <=> Open(m)) /\ (m \in Todo' <=> Open(m)')
  BY <1>1, TodoIs DEF TodoByState
<1>5. Todo' \subseteq Todo /\ Todo \ Todo' \subseteq S
  BY <1>2, <1>3, <1>4, TodoIs DEF TodoByState
<1>6. (crawled \cap Mids)' = (crawled \cap Mids) \cup S
  BY <1>1
<1>7. UNCHANGED (Waived \cap Mids)
  BY <1>1 DEF Waived
<1>8. Ledger!Finish(S)
  BY <1>5, <1>6, <1>7 DEF Ledger!Finish
<1>9. S \in SUBSET Mids
  OBVIOUS
<1>. QED
  BY <1>8, <1>9 DEF Ledger!Next

LEMMA EndRecovers ==
    ASSUME LedgerInv, Exit \/ Crash \/ CrashWhileSaving
    PROVE  Ledger!Next
<1>1. /\ up /\ ~up'
      /\ UNCHANGED <<crawled, dropped, redefined>>
  BY DEF Exit, Crash, CrashWhileSaving, LoseMemory, ghosts
<1>2. ASSUME NEW m \in Mids, file_ok', Open(m), m \notin Waived
      PROVE  Archived(m)'
  <2>1. CASE file_ok /\ file' = file
    BY <1>1, <1>2, <2>1 DEF LedgerInv, ArchiveHasOpen, Archived
  <2>2. CASE /\ file_ok
             /\ file' \in ArchivesOf(tasks_, tasks_recycled_, mid_current_, mid_end_,
                                     task_id_current_)
    <3>1. /\ tasks_ \in [DOMAIN tasks_ -> BiliTask]
          /\ DOMAIN tasks_ \subseteq Nat /\ IsFiniteSet(DOMAIN tasks_)
          /\ tasks_recycled_ \in Seq(Ranges)
          /\ mid_current_ \in Nat /\ mid_end_ \in Nat /\ task_id_current_ \in Nat
      BY DEF LedgerInv, IInv, TypeOK
    <3>2. \/ mid_current_ <= m
          \/ \E t \in DOMAIN tasks_ : m \in Span(tasks_[t])
          \/ Covers(tasks_recycled_, m)
      BY <1>2 DEF Open, Leased, Recycled
    <3>3. file'.mid_current <= m \/ Covers(file'.tasks, m)
      BY <2>2, <3>1, <3>2, ArchiveCoversOpen
    <3>. QED
      BY <3>3 DEF Archived
  <2>. QED
    BY <1>2, <2>1, <2>2 DEF Exit, Crash, CrashWhileSaving
<1>3. \A m \in Mids : m \in Todo <=> Open(m)
  BY <1>1, TodoIs DEF TodoByState
<1>4. /\ Todo' \subseteq Mids
      /\ file_ok' => \A m \in Mids : m \in Todo' <=> Archived(m)'
      /\ ~file_ok' => Todo' = Mids
  BY <1>1, TodoIs DEF TodoByState
<1>5. Todo' \ Todo \subseteq (crawled \cap Mids) \cup (Waived \cap Mids)
  BY <1>1, <1>3, <1>4 DEF LedgerInv, IInv, NoMidLost
<1>6. Todo \ Todo' \subseteq Waived \cap Mids
  BY <1>2, <1>3, <1>4, TodoIs DEF TodoByState
<1>7. UNCHANGED <<crawled \cap Mids, Waived \cap Mids>>
  BY <1>1 DEF Waived
<1>8. Ledger!Recover
  BY <1>4, <1>5, <1>6, <1>7 DEF Ledger!Recover
<1>. QED
  BY <1>8 DEF Ledger!Next

LEMMA BootStutters ==
    ASSUME Boot
    PROVE  UNCHANGED Ledger!vars
<1>1. /\ ~up /\ file_ok /\ up'
      /\ DOMAIN tasks_' = {}
      /\ tasks_recycled_' = file.tasks /\ mid_current_' = file.mid_current
      /\ UNCHANGED <<crawled, dropped, redefined>>
  BY DEF Boot, NoTasks
<1>2. \A m : Open(m)' <=> Archived(m)
  BY <1>1 DEF Open, Leased, Recycled, Archived
<1>3. \A m \in Mids : (m \in Todo <=> Archived(m)) /\ (m \in Todo' <=> Open(m)')
  BY <1>1, TodoIs DEF TodoByState
<1>4. Todo' = Todo
  BY <1>2, <1>3, TodoIs DEF TodoByState
<1>. QED
  BY <1>1, <1>4 DEF Ledger!vars, Waived

LEMMA SetRangeWaives ==
    ASSUME TypeOK, NEW e \in AdminEnds, NEW c \in AdminCurrents, SetRange(e, c)
    PROVE  Ledger!Next
<1> DEFINE S == (Waived \cap Mids)'
<1>1. /\ up /\ up' /\ UNCHANGED <<tasks_, tasks_recycled_, crawled, dropped>>
  BY DEF SetRange
<1>2. redefined \subseteq redefined'
  BY DEF SetRange
<1>3. ASSUME NEW m \in Mids, m \notin S
      PROVE  Open(m)' <=> Open(m)
  <2>1. m \in Nat /\ mid_current_ \in Nat /\ c \in Nat /\ m \notin redefined'
    BY <1>3, RangeAssumption DEF TypeOK, Waived
  <2>2. mid_current_' <= m <=> mid_current_ <= m
    BY <2>1 DEF SetRange, Min2, Max2
  <2>. QED
    BY <1>1, <2>2 DEF Open, Leased, Recycled
<1>4. \A m \in Mids : (m \in Todo <=> Open(m)) /\ (m \in Todo' <=> Open(m)')
  BY <1>1, TodoIs DEF TodoByState
<1>5. Todo' \ S = Todo \ S
  BY <1>3, <1>4, TodoIs DEF TodoByState
<1>6. (Waived \cap Mids)' = (Waived \cap Mids) \cup S
  BY <1>1, <1>2 DEF Waived
<1>7. Ledger!Waive(S)
  BY <1>1, <1>5, <1>6 DEF Ledger!Waive
<1>8. S \in SUBSET Mids
  OBVIOUS
<1>. QED
  BY <1>7, <1>8 DEF Ledger!Next

LEMMA OthersStutter ==
    ASSUME Start \/ Stop \/ Tick \/ UNCHANGED vars
    PROVE  UNCHANGED Ledger!vars
<1>1. UNCHANGED <<up, file, file_ok, crawled, dropped, redefined, tasks_, tasks_recycled_,
                  mid_current_>>
  BY DEF Start, Stop, Tick, vars, memory, ghosts
<1>2. \A m : (Open(m)' <=> Open(m)) /\ (Archived(m)' <=> Archived(m))
  BY <1>1 DEF Open, Leased, Recycled, Archived
<1>3. UNCHANGED <<Todo, Waived>>
  BY <1>1, <1>2 DEF Todo, Waived
<1>. QED
  BY <1>1, <1>3 DEF Ledger!vars

LEMMA LedgerStep ==
    ASSUME LedgerInv, TypeOK', [Next]_vars
    PROVE  [Ledger!Next]_(Ledger!vars)
<1>1. TypeOK /\ CommitByOwner
  BY DEF LedgerInv, IInv
<1>2. ASSUME NEW c \in ClientIds, GetTask(c) PROVE Ledger!Next
  BY <1>1, <1>2, GetTaskWaives
<1>3. ASSUME NEW h \in handed, Commit(h) PROVE Ledger!Next
  BY <1>1, <1>3, CommitFinishes
<1>4. ASSUME NEW e \in AdminEnds, NEW c \in AdminCurrents, SetRange(e, c) PROVE Ledger!Next
  BY <1>1, <1>4, SetRangeWaives
<1>5. CASE Exit \/ Crash \/ CrashWhileSaving
  BY <1>5, EndRecovers
<1>6. CASE Boot
  BY <1>6, BootStutters
<1>7. CASE Start \/ Stop \/ Tick \/ UNCHANGED vars
  BY <1>7, OthersStutter
<1>. QED
  BY <1>2, <1>3, <1>4, <1>5, <1>6, <1>7 DEF Next

(* The server implements TaskLedger: whatever the interleaving of leases,     *)
(* expirations, late commits, crashes and restarts, a mid leaves the to-do    *)
(* list only when it is crawled or waived, and a restart forgets no           *)
(* unfinished one.  The clients are those of the running server, as for       *)
(* MidsAreKept: a task id kept across a restart may be another task's.        *)
THEOREM LedgerIsKept ==
    ASSUME ~ClientsOutliveServer
    PROVE  Spec => ImplementsLedger
<1>1. Init => LedgerInv
  BY InitLedger
<1>2. LedgerInv /\ [Next]_vars => LedgerInv'
  BY NextKeepsLedgerInv
<1>3. LedgerInv => TypeOK
  BY DEF LedgerInv, IInv
<1>4. LedgerInv /\ TypeOK' /\ [Next]_vars => [Ledger!Next]_(Ledger!vars)
  BY LedgerStep
<1>5. Init => Ledger!Init
  BY LedgerInit
<1>. QED
  BY <1>1, <1>2, <1>3, <1>4, <1>5, PTL DEF Spec, ImplementsLedger, Ledger!Spec
=============================================================================
