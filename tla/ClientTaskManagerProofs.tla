---------------------- MODULE ClientTaskManagerProofs ----------------------
(***************************************************************************)
(* Theorems about ClientTaskManager, for every value of its constants.     *)
(***************************************************************************)
EXTENDS ClientTaskManager, FiniteSetTheorems, SequenceTheorems, TLAPS
-----------------------------------------------------------------------------
(* The operators of the model on sequences and maps.                       *)

Distinct(q) == \A a, b \in DOMAIN q : q[a] = q[b] => a = b

LEMMA HasLeast ==
    ASSUME NEW S, S \subseteq Nat, S # {}
    PROVE  \E x \in S : \A y \in S : ~(y < x)
<1>1. \E x \in S : \A y \in S : ~(<<y, x>> \in OpToRel(<, Nat))
  BY NatLessThanWellFounded, WFMin, Zenon
<1>. QED
  BY <1>1 DEF OpToRel

LEMMA LeastIsIn ==
    ASSUME NEW S, S \subseteq Nat, S # {}
    PROVE  Least(S) \in S
<1>1. PICK x \in S : \A y \in S : ~(y < x)
  BY HasLeast
<1>2. \A y \in S : x <= y
  BY <1>1
<1>. QED
  BY <1>2, Zenon DEF Least

LEMMA RangeIs ==
    ASSUME NEW q \in Seq(Nat)
    PROVE  /\ Range(q) \subseteq Nat
           /\ q # <<>> <=> Range(q) # {}
           /\ \A m : m \in Range(q) <=> \E a \in DOMAIN q : q[a] = m
<1>1. Len(q) \in Nat /\ DOMAIN q = 1 .. Len(q) /\ q \in [1 .. Len(q) -> Nat]
  BY LenProperties
<1>2. \A m : m \in Range(q) <=> \E a \in DOMAIN q : q[a] = m
  BY DEF Range
<1>3. q # <<>> => 1 \in DOMAIN q
  BY <1>1, EmptySeq
<1>4. q = <<>> => DOMAIN q = {}
  BY <1>1, EmptySeq
<1>. QED
  BY <1>1, <1>2, <1>3, <1>4

(* The elements of a sequence without repetitions are as many as it is long. *)
LEMMA DistinctCount ==
    ASSUME NEW q \in Seq(Nat), Distinct(q)
    PROVE  IsFiniteSet(Range(q)) /\ Cardinality(Range(q)) = Len(q)
<1>1. Len(q) \in Nat /\ DOMAIN q = 1 .. Len(q) /\ q \in [1 .. Len(q) -> Nat]
  BY LenProperties
<1>2. q \in [1 .. Len(q) -> Range(q)] /\ Range(q) = {q[a] : a \in 1 .. Len(q)}
  BY <1>1 DEF Range
<1>3. q \in Bijection(1 .. Len(q), Range(q))
  BY <1>1, <1>2 DEF Distinct, Bijection, Injection, Surjection, IsInjective
<1>4. ExistsBijection(1 .. Len(q), Range(q))
  BY <1>3 DEF ExistsBijection
<1>. QED
  BY <1>1, <1>4, FS_CountingElements, FS_NatBijection

(* Appending a sequence to another: what it has, and when it has no element twice. *)
LEMMA ConcatIs ==
    ASSUME NEW p \in Seq(Nat), NEW q \in Seq(Nat)
    PROVE  /\ p \o q \in Seq(Nat)
           /\ Range(p \o q) = Range(p) \cup Range(q)
           /\ Distinct(p) /\ Distinct(q) /\ Range(p) \cap Range(q) = {} => Distinct(p \o q)
<1>1. /\ Len(p) \in Nat /\ DOMAIN p = 1 .. Len(p)
      /\ Len(q) \in Nat /\ DOMAIN q = 1 .. Len(q)
      /\ p \o q \in Seq(Nat)
      /\ Len(p \o q) = Len(p) + Len(q)
      /\ DOMAIN (p \o q) = 1 .. Len(p) + Len(q)
      /\ \A a \in 1 .. Len(p) + Len(q) :
            (p \o q)[a] = IF a <= Len(p) THEN p[a] ELSE q[a - Len(p)]
  BY LenProperties, ConcatProperties
<1>2. ASSUME Distinct(p), Distinct(q), Range(p) \cap Range(q) = {},
             NEW a \in DOMAIN (p \o q), NEW b \in DOMAIN (p \o q), (p \o q)[a] = (p \o q)[b]
      PROVE  a = b
  <2>1. \A c \in DOMAIN p, d \in DOMAIN q : p[c] # q[d]
    BY <1>2 DEF Range
  <2>2. CASE a <= Len(p) /\ b <= Len(p)
    BY <1>1, <1>2, <2>2 DEF Distinct
  <2>3. CASE ~(a <= Len(p)) /\ ~(b <= Len(p))
    <3>1. a - Len(p) \in DOMAIN q /\ b - Len(p) \in DOMAIN q /\ q[a - Len(p)] = q[b - Len(p)]
      BY <1>1, <1>2, <2>3
    <3>2. a - Len(p) = b - Len(p)
      BY <1>2, <3>1 DEF Distinct
    <3>. QED
      BY <1>1, <1>2, <3>2
  <2>4. CASE a <= Len(p) /\ ~(b <= Len(p))
    BY <1>1, <1>2, <2>1, <2>4
  <2>5. CASE ~(a <= Len(p)) /\ b <= Len(p)
    BY <1>1, <1>2, <2>1, <2>5
  <2>. QED
    BY <2>2, <2>3, <2>4, <2>5
<1>3. Range(p \o q) = Range(p) \cup Range(q)
  BY RangeConcatenation
<1>. QED
  BY <1>1, <1>2, <1>3 DEF Distinct

(* The elements of a sequence at some places. *)
LEMMA PartsAre ==
    ASSUME NEW q \in Seq(Nat), NEW K \in SUBSET DOMAIN q, NEW p \in PartsOf(q, K)
    PROVE  /\ p \in Seq(Nat)
           /\ Range(p) = {q[k] : k \in K}
           /\ Distinct(q) => Distinct(p)
<1>1. Len(q) \in Nat /\ DOMAIN q = 1 .. Len(q) /\ \A k \in DOMAIN q : q[k] \in Nat
  BY LenProperties
<1>2. IsFiniteSet(K) /\ Cardinality(K) \in Nat
  <2>1. IsFiniteSet(1 .. Len(q)) /\ K \in SUBSET (1 .. Len(q))
    BY <1>1, FS_Interval
  <2>2. IsFiniteSet(K)
    BY <2>1, FS_Subset
  <2>. QED
    BY <2>2, FS_CardinalityType
<1>3. PICK o \in [1 .. Cardinality(K) -> K] :
         /\ Range(o) = K
         /\ \A i, j \in DOMAIN o : i < j => o[i] < o[j]
         /\ p = [i \in DOMAIN o |-> q[o[i]]]
  BY DEF PartsOf
<1>4. p \in [1 .. Cardinality(K) -> Nat] /\ DOMAIN p = 1 .. Cardinality(K)
  BY <1>1, <1>3
<1>5. p \in Seq(Nat)
  BY <1>2, <1>4, SeqDef
<1>6. Range(p) = {q[k] : k \in K}
  BY <1>3, <1>4 DEF Range
<1>7. ASSUME Distinct(q), NEW a \in DOMAIN p, NEW b \in DOMAIN p, p[a] = p[b]
      PROVE  a = b
  <2>1. a \in 1 .. Cardinality(K) /\ b \in 1 .. Cardinality(K)
        /\ o[a] \in K /\ o[b] \in K /\ q[o[a]] = q[o[b]]
    BY <1>3, <1>4, <1>7
  <2>2. o[a] = o[b] /\ o[a] \in Nat
    BY <1>1, <1>7, <2>1 DEF Distinct
  <2>3. a \in Nat /\ b \in Nat
    BY <1>2, <2>1
  <2>4. ~(a < b) /\ ~(b < a)
    BY <1>1, <1>3, <2>1, <2>2
  <2>. QED
    BY <2>3, <2>4
<1>. QED
  BY <1>5, <1>6, <1>7 DEF Distinct

(* getSubTask takes the first mids of a queue: the queue is split. *)
LEMMA TakenAndLeft ==
    ASSUME NEW q \in Seq(Nat), q # <<>>
    PROVE  /\ Taken(q) \in Seq(Nat) /\ Left(q) \in Seq(Nat)
           /\ Taken(q) # <<>>
           /\ Range(q) = Range(Taken(q)) \cup Range(Left(q))
           /\ Distinct(q) => /\ Distinct(Taken(q)) /\ Distinct(Left(q))
                             /\ Range(Taken(q)) \cap Range(Left(q)) = {}
<1> DEFINE n == Min2(Len(q), sub_task_step)
<1>1. /\ Len(q) \in Nat \ {0} /\ DOMAIN q = 1 .. Len(q)
      /\ \A k \in DOMAIN q : q[k] \in Nat
  BY LenProperties, EmptySeq
<1>2. n \in Nat /\ 1 <= n /\ n <= Len(q)
  BY <1>1, ConfigAssumption DEF Min2
<1>. HIDE DEF n
<1>3. /\ Taken(q) \in Seq(Nat) /\ Len(Taken(q)) = n /\ DOMAIN Taken(q) = 1 .. n
      /\ \A a \in 1 .. n : Taken(q)[a] = q[a]
  <2>1. Taken(q) = SubSeq(q, 1, n)
    BY DEF Taken, n
  <2>2. \A a \in 1 .. n : q[a] \in Nat
    BY <1>1, <1>2
  <2>3. /\ SubSeq(q, 1, n) \in Seq(Nat)
        /\ Len(SubSeq(q, 1, n)) = IF 1 <= n THEN n - 1 + 1 ELSE 0
        /\ \A a \in 1 .. n - 1 + 1 : SubSeq(q, 1, n)[a] = q[1 + a - 1]
    BY <1>2, <2>2, SubSeqProperties
  <2>. QED
    BY <1>2, <2>1, <2>3, LenProperties
<1>4. /\ Left(q) \in Seq(Nat) /\ DOMAIN Left(q) = 1 .. Len(q) - n
      /\ \A a \in 1 .. Len(q) - n : Left(q)[a] = q[a + n]
  <2>1. Left(q) = SubSeq(q, n + 1, Len(q))
    BY <1>3 DEF Left
  <2>2. \A a \in n + 1 .. Len(q) : q[a] \in Nat
    BY <1>1, <1>2
  <2>3. /\ SubSeq(q, n + 1, Len(q)) \in Seq(Nat)
        /\ Len(SubSeq(q, n + 1, Len(q))) =
              IF n + 1 <= Len(q) THEN Len(q) - (n + 1) + 1 ELSE 0
        /\ \A a \in 1 .. Len(q) - (n + 1) + 1 :
              SubSeq(q, n + 1, Len(q))[a] = q[n + 1 + a - 1]
    BY <1>1, <1>2, <2>2, SubSeqProperties
  <2>4. Len(Left(q)) = IF n + 1 <= Len(q) THEN Len(q) - (n + 1) + 1 ELSE 0
    BY <2>1, <2>3
  <2>5. Len(Left(q)) = Len(q) - n
    <3>1. Len(q) \in Int /\ n \in Int /\ n <= Len(q)
      BY <1>1, <1>2
    <3>2. CASE n + 1 <= Len(q)
      BY <2>4, <3>1, <3>2
    <3>3. CASE ~(n + 1 <= Len(q))
      <4>1. Len(q) - n = 0
        BY <3>1, <3>3
      <4>. QED
        BY <2>4, <3>3, <4>1
    <3>. QED
      BY <3>2, <3>3
  <2>6. Left(q) \in Seq(Nat) /\ DOMAIN Left(q) = 1 .. Len(q) - n
    BY <2>1, <2>3, <2>5, LenProperties
  <2>7. ASSUME NEW a \in 1 .. Len(q) - n
        PROVE  Left(q)[a] = q[a + n]
    <3>1. Len(q) - (n + 1) + 1 = Len(q) - n /\ n + 1 + a - 1 = a + n
      BY <1>1, <1>2, <2>7
    <3>2. SubSeq(q, n + 1, Len(q))[a] = q[n + 1 + a - 1]
      BY <2>3, <3>1
    <3>. QED
      BY <2>1, <3>1, <3>2
  <2>. QED
    BY <2>6, <2>7
<1>5. Taken(q) # <<>>
  BY <1>2, <1>3, EmptySeq
<1>6. Range(q) = Range(Taken(q)) \cup Range(Left(q))
  <2>1. ASSUME NEW k \in DOMAIN q
        PROVE  q[k] \in Range(Taken(q)) \cup Range(Left(q))
    <3>1. CASE k <= n
      BY <1>1, <1>2, <1>3, <2>1, <3>1 DEF Range
    <3>2. CASE ~(k <= n)
      <4>1. k - n \in DOMAIN Left(q) /\ Left(q)[k - n] = q[k]
        BY <1>1, <1>2, <1>4, <2>1, <3>2
      <4>. QED
        BY <4>1 DEF Range
    <3>. QED
      BY <3>1, <3>2
  <2>2. \A a \in DOMAIN Taken(q) : a \in DOMAIN q /\ Taken(q)[a] = q[a]
    BY <1>1, <1>2, <1>3
  <2>3. \A a \in DOMAIN Left(q) : a + n \in DOMAIN q /\ Left(q)[a] = q[a + n]
    BY <1>1, <1>2, <1>4
  <2>. QED
    BY <2>1, <2>2, <2>3 DEF Range
<1>7. ASSUME Distinct(q)
      PROVE  /\ Distinct(Taken(q)) /\ Distinct(Left(q))
             /\ Range(Taken(q)) \cap Range(Left(q)) = {}
  <2>1. Distinct(Taken(q))
    BY <1>1, <1>2, <1>3, <1>7 DEF Distinct
  <2>2. ASSUME NEW a \in DOMAIN Left(q), NEW b \in DOMAIN Left(q), Left(q)[a] = Left(q)[b]
        PROVE  a = b
    <3>1. a + n \in DOMAIN q /\ b + n \in DOMAIN q
      <4>1. a \in 1 .. Len(q) - n /\ b \in 1 .. Len(q) - n
        BY <1>4, <2>2
      <4>. QED
        BY <1>1, <1>2, <4>1
    <3>2. q[a + n] = q[b + n]
      BY <1>4, <2>2
    <3>3. a + n = b + n
      BY <1>7, <3>1, <3>2 DEF Distinct
    <3>. QED
      BY <1>1, <1>2, <1>4, <2>2, <3>3
  <2>3. ASSUME NEW a \in DOMAIN Taken(q), NEW b \in DOMAIN Left(q), Taken(q)[a] = Left(q)[b]
        PROVE  FALSE
    <3>1. a \in DOMAIN q /\ b + n \in DOMAIN q /\ q[a] = q[b + n]
      BY <1>1, <1>2, <1>3, <1>4, <2>3
    <3>2. a = b + n
      BY <1>7, <3>1 DEF Distinct
    <3>. QED
      BY <1>2, <1>3, <1>4, <2>3, <3>2
  <2>. QED
    BY <2>1, <2>2, <2>3 DEF Distinct, Range
<1>. QED
  BY <1>3, <1>4, <1>5, <1>6, <1>7

(* The mids of a main task from one on. *)
LEMMA ChunkIs ==
    ASSUME NEW m \in [id : Int, mid_start : Nat, mid_end : Nat], NEW mid \in Nat
    PROVE  LET q == Chunk(m, mid)
               n == IF mid < m.mid_end THEN Len(q) ELSE 0
           IN  /\ q \in Seq(Nat)
               /\ Len(q) \in Int
               /\ Distinct(q)
               /\ n \in Nat
               /\ mid < m.mid_end => n # 0 /\ mid + n <= m.mid_end /\ q # <<>>
               /\ Range(q) = mid .. mid + n - 1
               /\ mid >= m.mid_end => q = <<>>
<1> DEFINE k == Min2(m.mid_end - mid, sub_task_step)
           q == Chunk(m, mid)
<1>1. k \in Int /\ (mid < m.mid_end => k \in Nat \ {0} /\ mid + k <= m.mid_end)
      /\ (mid >= m.mid_end => k <= 0)
  BY ConfigAssumption DEF Min2
<1>2. q = [i \in 1 .. k |-> mid + i - 1]
  BY DEF Chunk
<1>. HIDE DEF k, q
<1>3. CASE mid < m.mid_end
  <2>1. q \in [1 .. k -> Nat] /\ k \in Nat
    BY <1>1, <1>2, <1>3
  <2>2. q \in Seq(Nat) /\ Len(q) = k
    BY <2>1, SeqDef
  <2>3. Distinct(q)
    BY <1>1, <1>2, <1>3 DEF Distinct
  <2>4. \A x \in mid .. mid + k - 1 : x - mid + 1 \in 1 .. k /\ q[x - mid + 1] = x
    BY <1>1, <1>2, <1>3
  <2>5. Range(q) = mid .. mid + k - 1
    <3>1. DOMAIN q = 1 .. k /\ \A i \in 1 .. k : q[i] \in mid .. mid + k - 1
      BY <1>1, <1>2, <1>3
    <3>2. \A x \in mid .. mid + k - 1 : \E i \in DOMAIN q : q[i] = x
      BY <2>4, <3>1
    <3>. QED
      BY <3>1, <3>2 DEF Range
  <2>6. q # <<>>
    BY <1>1, <1>3, <2>2, EmptySeq
  <2>. QED
    BY <1>1, <1>3, <2>2, <2>3, <2>5, <2>6 DEF q
<1>4. CASE ~(mid < m.mid_end)
  <2>1. 1 .. k = {}
    BY <1>1, <1>4
  <2>2. q = <<>>
    BY <1>2, <2>1
  <2>3. Range(q) = {} /\ Len(q) = 0 /\ q \in Seq(Nat) /\ Distinct(q)
    BY <2>2, EmptySeq DEF Range, Distinct
  <2>. QED
    BY <1>4, <2>2, <2>3 DEF q
<1>. QED
  BY <1>3, <1>4

(* The buffers and the queue of failed mids: main task id -> mids, none of   *)
(* them twice, and no task without mids.                                     *)
Queue(f) ==
    /\ f \in [DOMAIN f -> Seq(Nat)]
    /\ \A i \in DOMAIN f : f[i] # <<>> /\ Distinct(f[i])

LEMMA PutIs ==
    ASSUME NEW f, NEW k, NEW v
    PROVE  /\ DOMAIN Put(f, k, v) = DOMAIN f \cup {k}
           /\ Put(f, k, v)[k] = v
           /\ \A x \in DOMAIN f \ {k} : Put(f, k, v)[x] = f[x]
           /\ Put(f, k, v) = [x \in DOMAIN Put(f, k, v) |-> Put(f, k, v)[x]]
           /\ \A i : InQueue(Put(f, k, v), i) = IF i = k THEN Range(v) ELSE InQueue(f, i)
  BY DEF Put, InQueue

LEMMA DropIs ==
    ASSUME NEW f, NEW k
    PROVE  /\ DOMAIN Drop(f, k) = DOMAIN f \ {k}
           /\ \A x \in DOMAIN f \ {k} : Drop(f, k)[x] = f[x]
           /\ Drop(f, k) = [x \in DOMAIN Drop(f, k) |-> Drop(f, k)[x]]
           /\ \A i : InQueue(Drop(f, k), i) = IF i = k THEN {} ELSE InQueue(f, i)
  BY DEF Drop, Restrict, InQueue

LEMMA QueuePut ==
    ASSUME NEW f, Queue(f), NEW k, NEW q \in Seq(Nat), q # <<>>, Distinct(q)
    PROVE  Queue(Put(f, k, q))
<1>1. \A x \in DOMAIN f : f[x] \in Seq(Nat) /\ f[x] # <<>> /\ Distinct(f[x])
  BY DEF Queue
<1> DEFINE g == Put(f, k, q)
<1>2. /\ DOMAIN g = DOMAIN f \cup {k} /\ g[k] = q
      /\ \A x \in DOMAIN f \ {k} : g[x] = f[x]
      /\ g = [x \in DOMAIN g |-> g[x]]
  BY DEF Put
<1>. HIDE DEF g
<1>3. \A x \in DOMAIN g : g[x] \in Seq(Nat) /\ g[x] # <<>> /\ Distinct(g[x])
  BY <1>1, <1>2
<1>4. g \in [DOMAIN g -> Seq(Nat)]
  BY <1>2, <1>3
<1>. QED
  BY <1>3, <1>4 DEF Queue, g

LEMMA QueueDrop ==
    ASSUME NEW f, Queue(f), NEW k
    PROVE  Queue(Drop(f, k))
<1>1. \A x \in DOMAIN f : f[x] \in Seq(Nat) /\ f[x] # <<>> /\ Distinct(f[x])
  BY DEF Queue
<1> DEFINE g == Drop(f, k)
<1>2. /\ DOMAIN g = DOMAIN f \ {k} /\ \A x \in DOMAIN f \ {k} : g[x] = f[x]
      /\ g = [x \in DOMAIN g |-> g[x]]
  BY DropIs
<1>. HIDE DEF g
<1>3. \A x \in DOMAIN g : g[x] \in Seq(Nat) /\ g[x] # <<>> /\ Distinct(g[x])
  BY <1>1, <1>2
<1>4. g \in [DOMAIN g -> Seq(Nat)]
  BY <1>2, <1>3
<1>. QED
  BY <1>3, <1>4 DEF Queue, g

(* The queue g is f with the mids q of the task k at its end. *)
Appended(f, k, q, g) ==
    /\ Queue(g)
    /\ DOMAIN g = DOMAIN f \cup {k}
    /\ \A i : InQueue(g, i) = IF i = k THEN InQueue(f, k) \cup Range(q) ELSE InQueue(f, i)

LEMMA QueueAppend ==
    ASSUME NEW f, Queue(f), NEW k, NEW q \in Seq(Nat), q # <<>>, Distinct(q),
           InQueue(f, k) \cap Range(q) = {}
    PROVE  Appended(f, k, q, AppendTo(f, k, q))
<1> DEFINE g == AppendTo(f, k, q)
<1>1. /\ DOMAIN g = DOMAIN f \cup {k} /\ g = [x \in DOMAIN g |-> g[x]]
      /\ \A x \in DOMAIN f \ {k} : g[x] = f[x]
      /\ g[k] = IF k \in DOMAIN f THEN f[k] \o q ELSE q
  BY DEF AppendTo
<1>2. /\ g[k] \in Seq(Nat) /\ g[k] # <<>> /\ Distinct(g[k])
      /\ Range(g[k]) = InQueue(f, k) \cup Range(q)
  <2>1. CASE k \in DOMAIN f
    <3>1. f[k] \in Seq(Nat) /\ Distinct(f[k]) /\ InQueue(f, k) = Range(f[k])
      BY <2>1 DEF Queue, InQueue
    <3>2. /\ f[k] \o q \in Seq(Nat) /\ Range(f[k] \o q) = Range(f[k]) \cup Range(q)
          /\ Distinct(f[k] \o q)
      BY <3>1, ConcatIs
    <3>3. f[k] \o q # <<>>
      BY <3>2, RangeIs
    <3>. QED
      BY <1>1, <2>1, <3>1, <3>2, <3>3
  <2>2. CASE k \notin DOMAIN f
    BY <1>1, <2>2 DEF InQueue
  <2>. QED
    BY <2>1, <2>2
<1>. HIDE DEF g
<1>3. \A x \in DOMAIN g : g[x] \in Seq(Nat) /\ g[x] # <<>> /\ Distinct(g[x])
  BY <1>1, <1>2 DEF Queue
<1>4. g \in [DOMAIN g -> Seq(Nat)]
  BY <1>1, <1>3
<1>5. Queue(g)
  BY <1>3, <1>4 DEF Queue
<1>6. \A i : InQueue(g, i) = IF i = k THEN InQueue(f, k) \cup Range(q) ELSE InQueue(f, i)
  BY <1>1, <1>2 DEF InQueue
<1>. QED
  BY <1>1, <1>5, <1>6 DEF g, Appended
-----------------------------------------------------------------------------
(* Where the mids of a main task are.  Every mid is in at most one place:    *)
(* still ahead, in a sub task, in the queue of failed mids, or in a buffer.   *)

(* The mids of sub task s that are in no buffer yet: while its results are   *)
(* handed back they leave it kind by kind, and the failed ones at the end.   *)
InHand(s) ==
    IF s \in Ending
      THEN (IF Kind = "ok" /\ At("buffer") THEN Range(Job.ok) ELSE {})
             \cup (IF Kind = "ok" \/ At("buffer") THEN Range(Job.none) ELSE {})
             \cup Range(Job.error)
      ELSE Range(sub_tasks_[s].mids)

(* The places; a place from 0 on is the sub task with that id. *)
Front == -1
Failed == -2
Kept(kind) == IF kind = "ok" THEN -3 ELSE -4

Place(i, p) ==
    IF p = Front THEN Ahead(i)
    ELSE IF p = Failed THEN InQueue(error_mids_, i)
    ELSE IF p = -3 THEN InQueue(buff_["ok"], i)
    ELSE IF p = -4 THEN InQueue(buff_["none"], i)
    ELSE IF p \in DOMAIN sub_tasks_ /\ sub_tasks_[p].main = i THEN InHand(p) ELSE {}

Everywhere(i) == {m \in Nat : \E p \in Int : m \in Place(i, p)}

Size(i) == main_tasks_[i].mid_end - main_tasks_[i].mid_start

(* Every mid is in one place. *)
Apart(i) ==
    \A p, q \in Int, m \in Nat : m \in Place(i, p) /\ m \in Place(i, q) => p = q

Within(i) == \A p \in Int : Place(i, p) \subseteq Span(main_tasks_[i])

(* What is not completed is somewhere, and what is nowhere is stored.  A task *)
(* that is completed waits for its commit: it has all its mids stored, and    *)
(* those it still has are in one buffer, to be counted again.                *)
Accounted(i) ==
    IF main_tasks_[i].completed < Size(i)
      THEN /\ main_tasks_[i].completed + Cardinality(Everywhere(i)) = Size(i)
           /\ Span(main_tasks_[i]) \ Everywhere(i) \subseteq Stored
      ELSE /\ Span(main_tasks_[i]) \subseteq Stored
           /\ \E kind \in Kinds : \A p \in Int \ {Kept(kind)} : Place(i, p) = {}

Books(i) == Apart(i) /\ Within(i) /\ Accounted(i)

BooksKept == \A i \in DOMAIN main_tasks_ : Books(i)

(* A thread at work has a sub task of its own, and the results of one that    *)
(* has crawled it are the mids of the sub task, each in one of the three.    *)
SortedOut(j) ==
    /\ Range(j.mids) = Range(j.ok) \cup Range(j.none) \cup Range(j.error)
    /\ Range(j.ok) \cap Range(j.none) = {}
    /\ Range(j.ok) \cap Range(j.error) = {}
    /\ Range(j.none) \cap Range(j.error) = {}
    /\ Distinct(j.ok) /\ Distinct(j.none) /\ Distinct(j.error)

AtWork(t) == pc[t] \in {"working", "crawled"}

ThreadsOK ==
    \A t \in Threads :
        /\ AtWork(t) =>
              /\ job[t].id \in DOMAIN sub_tasks_
              /\ job[t].mids = sub_tasks_[job[t].id].mids
              /\ \A u \in Threads : AtWork(u) /\ job[u].id = job[t].id => u = t
        /\ pc[t] = "crawled" => SortedOut(job[t])

(* The call under way. *)
CallOK ==
    /\ mutex_.op = "commit" => pc[mutex_.by] = "crawled"
    /\ At("buffer") => mutex_.op = "commit"
    /\ At("return") => Kind = "none"
    /\ At("count") => Buffered(Kind) \subseteq db[Kind]

(* The main tasks are the tasks the server leased, and those it has not       *)
(* leased are none of them.                                                  *)
TasksOK ==
    /\ \A t \in Tasks : t.id \in DOMAIN main_tasks_ =>
          /\ main_tasks_[t.id].mid_start = t.mid_start
          /\ main_tasks_[t.id].mid_end = t.mid_end
          /\ t \notin pool
    /\ current_main_task_.mid_start <= current_mid_
    /\ current_mid_ < current_main_task_.mid_end =>
          current_main_task_.id \in DOMAIN main_tasks_

(* Nothing refers to a main task that is forgotten, save the sub task whose   *)
(* commit is under way, and that has nothing left to say.                    *)
Referred ==
    /\ \A s \in DOMAIN sub_tasks_ :
          \/ sub_tasks_[s].main \in DOMAIN main_tasks_
          \/ s \in Ending /\ InHand(s) = {}
    /\ DOMAIN error_mids_ \subseteq DOMAIN main_tasks_
    /\ DOMAIN buff_["ok"] \subseteq DOMAIN main_tasks_
    /\ DOMAIN buff_["none"] \subseteq DOMAIN main_tasks_

(* Only a main task without mids has a sub task without mids. *)
SubTasksOK ==
    \A s \in DOMAIN sub_tasks_ :
        /\ Distinct(sub_tasks_[s].mids)
        /\ sub_tasks_[s].mids = <<>> /\ sub_tasks_[s].main \in DOMAIN main_tasks_ =>
              Span(main_tasks_[sub_tasks_[s].main]) = {}

QueuesOK == Queue(error_mids_) /\ Queue(buff_["ok"]) /\ Queue(buff_["none"])

ClientInv ==
    /\ TypeOK /\ ThreadsOK /\ CallOK /\ TasksOK /\ Referred /\ SubTasksOK /\ QueuesOK
    /\ BooksKept
-----------------------------------------------------------------------------
(* What keeps the books of a main task.                                    *)

(* The mids R of the task move from the place p, which is not a buffer, to q.  *)
Move(i, p, q, R) ==
    /\ p \in Int \ {Kept("ok"), Kept("none")}
    /\ q \in Int /\ p # q
    /\ R \subseteq Place(i, p)
    /\ \A x \in Int : Place(i, x)' = IF x = p THEN Place(i, x) \ R
                                     ELSE IF x = q THEN Place(i, x) \cup R
                                     ELSE Place(i, x)

LEMMA BooksMove ==
    ASSUME NEW i, Books(i), main_tasks_'[i] = main_tasks_[i], Stored \subseteq Stored',
           NEW p, NEW q, NEW R, Move(i, p, q, R)
    PROVE  Books(i)'
<1>. USE DEF Move
<1>1. \A m : (\E x \in Int : m \in Place(i, x)') <=> (\E x \in Int : m \in Place(i, x))
  OBVIOUS
<1>2. Everywhere(i)' = Everywhere(i)
  BY <1>1 DEF Everywhere
<1>3. Apart(i)'
  <2>. SUFFICES ASSUME NEW x \in Int, NEW y \in Int, NEW m \in Nat,
                       m \in Place(i, x)', m \in Place(i, y)'
       PROVE  x = y
    BY DEF Apart
  <2>1. \A z \in Int : m \in Place(i, z)' =>
            \/ z = p /\ m \in Place(i, p) /\ m \notin R
            \/ z = q /\ (m \in Place(i, q) \/ m \in R)
            \/ z \notin {p, q} /\ m \in Place(i, z)
    OBVIOUS
  <2>2. \A z, w \in Int : m \in Place(i, z) /\ m \in Place(i, w) => z = w
    BY DEF Books, Apart
  <2>3. m \in R => m \in Place(i, p)
    OBVIOUS
  <2>. QED
    BY <2>1, <2>2, <2>3
<1>4. Within(i)'
  <2>1. \A x \in Int : Place(i, x) \subseteq Span(main_tasks_[i])
    BY DEF Books, Within
  <2>2. Span(main_tasks_[i])' = Span(main_tasks_[i])
    BY DEF Span
  <2>3. \A x \in Int : Place(i, x)' \subseteq Span(main_tasks_[i])
    BY <2>1
  <2>. QED
    BY <2>2, <2>3 DEF Within
<1>5. Accounted(i)'
  <2>1. Size(i)' = Size(i) /\ Span(main_tasks_[i])' = Span(main_tasks_[i])
    BY DEF Size, Span
  <2>2. Accounted(i)
    BY DEF Books
  <2>3. CASE main_tasks_[i].completed < Size(i)
    BY <1>2, <2>1, <2>2, <2>3 DEF Accounted
  <2>4. CASE ~(main_tasks_[i].completed < Size(i))
    <3>1. Span(main_tasks_[i])' \subseteq Stored'
      BY <2>1, <2>2, <2>4 DEF Accounted
    <3>2. PICK kind \in Kinds : \A x \in Int \ {Kept(kind)} : Place(i, x) = {}
      BY <2>2, <2>4 DEF Accounted
    <3>3. p # Kept(kind)
      BY DEF Kinds
    <3>4. R = {}
      BY <3>2, <3>3
    <3>5. \A x \in Int \ {Kept(kind)} : Place(i, x)' = {}
      BY <3>2, <3>4
    <3>6. \E k \in Kinds : \A x \in Int \ {Kept(k)} : Place(i, x)' = {}
      BY <3>5
    <3>. QED
      BY <2>1, <2>4, <3>1, <3>6 DEF Accounted
  <2>. QED
    BY <2>3, <2>4
<1>. QED
  BY <1>3, <1>4, <1>5 DEF Books

(* Nothing of the task moves. *)
LEMMA BooksSame ==
    ASSUME NEW i, Books(i), main_tasks_'[i] = main_tasks_[i], Stored \subseteq Stored',
           \A x \in Int : Place(i, x)' = Place(i, x)
    PROVE  Books(i)'
<1>1. Front \in Int \ {Kept("ok"), Kept("none")} /\ Failed \in Int /\ Front # Failed
  BY DEF Front, Failed, Kept
<1>2. \A x \in Int : Place(i, x)' = IF x = Front THEN Place(i, x) \ {}
                                    ELSE IF x = Failed THEN Place(i, x) \cup {}
                                    ELSE Place(i, x)
  OBVIOUS
<1>3. Move(i, Front, Failed, {})
  BY <1>1, <1>2 DEF Move
<1>. QED
  BY <1>3, BooksMove

(* A place depends on the maps, the sub tasks and what is in hand of them. *)
LEMMA PlaceIs ==
    ASSUME NEW i
    PROVE  /\ Place(i, Front) = Ahead(i)
           /\ Place(i, Failed) = InQueue(error_mids_, i)
           /\ Place(i, Kept("ok")) = InQueue(buff_["ok"], i)
           /\ Place(i, Kept("none")) = InQueue(buff_["none"], i)
           /\ \A s \in Nat : Place(i, s) =
                 IF s \in DOMAIN sub_tasks_ /\ sub_tasks_[s].main = i THEN InHand(s) ELSE {}
  BY DEF Place, Front, Failed, Kept

(* The steps that move no mids. *)
LEMMA NothingMoves ==
    ASSUME ClientInv,
           UNCHANGED <<main_tasks_, current_main_task_, current_mid_, sub_tasks_, buff_,
                       error_mids_, pool>>,
           Stored \subseteq Stored',
           \A s \in DOMAIN sub_tasks_ : InHand(s)' = InHand(s),
           \A s \in DOMAIN sub_tasks_ :
              s \in Ending => s \in Ending' \/ sub_tasks_[s].main \in DOMAIN main_tasks_
    PROVE  TasksOK' /\ Referred' /\ SubTasksOK' /\ QueuesOK' /\ BooksKept'
<1>1. TasksOK'
  BY DEF ClientInv, TasksOK
<1>2. Referred'
  BY DEF ClientInv, Referred
<1>3. SubTasksOK'
  BY DEF ClientInv, SubTasksOK, Distinct, Span
<1>4. QueuesOK'
  BY DEF ClientInv, QueuesOK
<1>5. ASSUME NEW i \in DOMAIN main_tasks_
      PROVE  Books(i)'
  <2>1. \A x \in Int : Place(i, x)' = Place(i, x)
    BY DEF Place, Ahead, InQueue
  <2>. QED
    BY <1>5, <2>1, BooksSame DEF ClientInv, BooksKept
<1>. QED
  BY <1>1, <1>2, <1>3, <1>4, <1>5 DEF BooksKept
-----------------------------------------------------------------------------
(* Steps of the threads outside the calls, and stops.                      *)

LEMMA NoCallNoEnding ==
    ASSUME mutex_ = NoCall
    PROVE  /\ Ending = {} /\ mutex_.op = "none" /\ mutex_.step = "none" /\ Kind = "none"
           /\ \A s : InHand(s) = Range(sub_tasks_[s].mids)
  BY DEF NoCall, Ending, Kind, InHand

(* A step that leaves the task manager and the call under way alone, and after *)
(* which every thread at work was at work before, on the same.               *)
LEMMA OutsideKeeps ==
    ASSUME ClientInv, TypeOK',
           UNCHANGED <<main_tasks_, dispatch, sub_tasks_, buff_, error_mids_, mutex_, outside>>,
           mutex_.op = "commit" => UNCHANGED <<pc[mutex_.by], job[mutex_.by]>>,
           \A t \in Threads :
              /\ AtWork(t)' => AtWork(t) /\ job'[t].id = job[t].id /\ job'[t].mids = job[t].mids
              /\ pc'[t] = "crawled" => SortedOut(job'[t])
    PROVE  ClientInv'
<1>1. /\ UNCHANGED <<main_tasks_, current_main_task_, current_mid_, sub_tasks_, buff_,
                     error_mids_, pool, mutex_, db>>
      /\ UNCHANGED Stored
  BY DEF dispatch, outside, Stored
<1>2. UNCHANGED <<Ending, Kind>> /\ (mutex_.op = "commit" => UNCHANGED Job)
  BY DEF Ending, Kind, Job
<1>3. \A s \in DOMAIN sub_tasks_ : InHand(s)' = InHand(s)
  BY <1>1, <1>2 DEF InHand, At, Ending
<1>4. TasksOK' /\ Referred' /\ SubTasksOK' /\ QueuesOK' /\ BooksKept'
  BY <1>1, <1>2, <1>3, NothingMoves
<1>5. CallOK'
  BY <1>1, <1>2 DEF ClientInv, CallOK, At, Buffered
<1>6. ThreadsOK'
  <2>1. \A t \in Threads : AtWork(t) =>
              /\ job[t].id \in DOMAIN sub_tasks_
              /\ job[t].mids = sub_tasks_[job[t].id].mids
              /\ \A u \in Threads : AtWork(u) /\ job[u].id = job[t].id => u = t
    BY DEF ClientInv, ThreadsOK
  <2>2. \A t \in Threads : AtWork(t)' =>
              /\ job'[t].id \in DOMAIN sub_tasks_'
              /\ job'[t].mids = sub_tasks_'[job'[t].id].mids
              /\ \A u \in Threads : AtWork(u)' /\ job'[u].id = job'[t].id => u = t
    BY <1>1, <2>1
  <2>. QED
    BY <2>2 DEF ThreadsOK
<1>. QED
  BY <1>4, <1>5, <1>6 DEF ClientInv

LEMMA RefusalKeeps ==
    ASSUME ClientInv, NEW t \in Threads, GetMainTaskFails(t) \/ ExitOrRetry(t)
    PROVE  ClientInv'
<1>1. /\ pc[t] \notin {"working", "crawled"}
      /\ UNCHANGED <<main_tasks_, dispatch, sub_tasks_, buff_, error_mids_, commit_error,
                     mutex_, job, outside>>
  BY DEF GetMainTaskFails, ExitOrRetry, Asks
<1>2. PICK x \in {"idle", "refused", "exited"} : pc' = [pc EXCEPT ![t] = x]
  BY DEF GetMainTaskFails, ExitOrRetry
<1>3. flags' \in BOOLEAN \X BOOLEAN
  BY DEF ClientInv, TypeOK, GetMainTaskFails, ExitOrRetry, g_stop, flags
<1>4. TypeOK'
  BY <1>1, <1>2, <1>3 DEF ClientInv, TypeOK, dispatch, outside, flags
<1>5. \A u \in Threads : pc'[u] = IF u = t THEN x ELSE pc[u]
  BY <1>2 DEF ClientInv, TypeOK
<1>6. \A u \in Threads : u # t => (AtWork(u)' <=> AtWork(u))
  BY <1>5 DEF AtWork
<1>7. ~AtWork(t)'
  BY <1>5 DEF AtWork
<1>8. mutex_.op = "commit" => mutex_.by \in Threads /\ mutex_.by # t
  BY <1>1 DEF ClientInv, CallOK, TypeOK, NoCall
<1>9. \A u \in Threads : pc[u] = "crawled" => SortedOut(job[u])
  BY DEF ClientInv, ThreadsOK
<1>. QED
  BY <1>1, <1>4, <1>5, <1>6, <1>7, <1>8, <1>9, OutsideKeeps

LEMMA CrawlKeeps ==
    ASSUME ClientInv, NEW t \in Threads, Crawl(t)
    PROVE  ClientInv'
<1>1. /\ pc[t] = "working"
      /\ pc' = [pc EXCEPT ![t] = "crawled"]
      /\ UNCHANGED <<flags, main_tasks_, dispatch, sub_tasks_, buff_, error_mids_,
                     commit_error, mutex_, outside>>
  BY DEF Crawl
<1> DEFINE q == job[t].mids
<1>2. /\ q \in Seq(Nat) /\ Distinct(q)
      /\ job[t] \in [id : Nat \cup {-1}, mids : Seq(Nat), ok : Seq(Nat), none : Seq(Nat),
                     error : Seq(Nat)]
  BY <1>1 DEF ClientInv, TypeOK, ThreadsOK, AtWork, SubTasksOK
<1>3. PICK E \in SUBSET DOMAIN q :
         \E ok \in PartsOf(q, {i \in DOMAIN q \ E : q[i] \in Users}),
            none \in PartsOf(q, DOMAIN q \ (E \cup {i \in DOMAIN q \ E : q[i] \in Users})),
            error \in PartsOf(q, E) :
            job' = [job EXCEPT ![t].ok = ok, ![t].none = none, ![t].error = error]
  BY DEF Crawl
<1> DEFINE A == {i \in DOMAIN q \ E : q[i] \in Users}
           B == DOMAIN q \ (E \cup A)
<1>4. PICK ok \in PartsOf(q, A), none \in PartsOf(q, B), error \in PartsOf(q, E) :
         job' = [job EXCEPT ![t].ok = ok, ![t].none = none, ![t].error = error]
  BY <1>3
<1>. HIDE DEF A, B, q
<1>5. /\ A \in SUBSET DOMAIN q /\ B \in SUBSET DOMAIN q
      /\ A \cup B \cup E = DOMAIN q
      /\ A \cap B = {} /\ A \cap E = {} /\ B \cap E = {}
  BY DEF A, B
<1>6. /\ ok \in Seq(Nat) /\ Range(ok) = {q[k] : k \in A} /\ Distinct(ok)
      /\ none \in Seq(Nat) /\ Range(none) = {q[k] : k \in B} /\ Distinct(none)
      /\ error \in Seq(Nat) /\ Range(error) = {q[k] : k \in E} /\ Distinct(error)
  BY <1>2, <1>5, PartsAre
<1>7. /\ job'[t].id = job[t].id /\ job'[t].mids = q
      /\ job'[t].ok = ok /\ job'[t].none = none /\ job'[t].error = error
      /\ \A u \in Threads \ {t} : job'[u] = job[u]
  BY <1>2, <1>4 DEF ClientInv, TypeOK, q
<1>8. TypeOK'
  <2>1. job' \in [Threads -> [id : Nat \cup {-1}, mids : Seq(Nat), ok : Seq(Nat),
                              none : Seq(Nat), error : Seq(Nat)]]
    <3> DEFINE R == [id : Nat \cup {-1}, mids : Seq(Nat), ok : Seq(Nat), none : Seq(Nat),
                     error : Seq(Nat)]
    <3>1. job'[t] = [id |-> job[t].id, mids |-> job[t].mids, ok |-> ok, none |-> none,
                     error |-> error]
      BY <1>2, <1>4 DEF ClientInv, TypeOK
    <3>2. job'[t] \in R
      BY <1>2, <1>6, <3>1
    <3>3. \A u \in Threads : job'[u] \in R
      BY <1>7, <3>2 DEF ClientInv, TypeOK
    <3>4. job' = [u \in Threads |-> job'[u]]
      BY <1>4 DEF ClientInv, TypeOK
    <3>. QED
      BY <3>3, <3>4
  <2>2. pc' \in [Threads -> {"idle", "working", "crawled", "refused", "exited"}]
    BY <1>1 DEF ClientInv, TypeOK
  <2>. QED
    BY <1>1, <2>1, <2>2 DEF ClientInv, TypeOK, flags, dispatch, outside
<1>9. SortedOut(job'[t])
  <2>1. Range(q) = {q[k] : k \in A} \cup {q[k] : k \in B} \cup {q[k] : k \in E}
    BY <1>5 DEF Range
  <2>2. \A j, k \in DOMAIN q : q[j] = q[k] => j = k
    BY <1>2 DEF Distinct, q
  <2>3. /\ {q[k] : k \in A} \cap {q[k] : k \in B} = {}
        /\ {q[k] : k \in A} \cap {q[k] : k \in E} = {}
        /\ {q[k] : k \in B} \cap {q[k] : k \in E} = {}
    BY <1>5, <2>2
  <2>. QED
    BY <1>6, <1>7, <2>1, <2>3 DEF SortedOut
<1>10. mutex_.op = "commit" => mutex_.by \in Threads /\ mutex_.by # t
  BY <1>1 DEF ClientInv, CallOK, TypeOK, NoCall
<1>11. \A u \in Threads : pc'[u] = IF u = t THEN "crawled" ELSE pc[u]
  BY <1>1 DEF ClientInv, TypeOK
<1>12. \A u \in Threads : AtWork(u)' <=> AtWork(u)
  BY <1>1, <1>11 DEF AtWork
<1>13. \A u \in Threads : pc[u] = "crawled" => SortedOut(job[u])
  BY DEF ClientInv, ThreadsOK
<1>14. \A u \in Threads : job'[u].id = job[u].id /\ job'[u].mids = job[u].mids
  BY <1>7 DEF q
<1>15. \A u \in Threads : pc'[u] = "crawled" => SortedOut(job'[u])
  BY <1>7, <1>9, <1>11, <1>13
<1>16. mutex_.op = "commit" => UNCHANGED <<pc[mutex_.by], job[mutex_.by]>>
  BY <1>1, <1>7, <1>10, <1>11
<1>. QED
  BY <1>1, <1>8, <1>12, <1>14, <1>15, <1>16, OutsideKeeps

LEMMA AbandonKeeps ==
    ASSUME ClientInv, NEW t \in Threads, Abandon(t)
    PROVE  ClientInv'
<1>1. /\ pc[t] = "working"
      /\ pc' = [pc EXCEPT ![t] = "exited"]
      /\ job' = [job EXCEPT ![t] = NoJob]
      /\ UNCHANGED <<flags, main_tasks_, dispatch, sub_tasks_, buff_, error_mids_,
                     commit_error, mutex_, outside>>
  BY DEF Abandon
<1>2. TypeOK'
  <2>1. NoJob \in [id : Nat \cup {-1}, mids : Seq(Nat), ok : Seq(Nat), none : Seq(Nat),
                   error : Seq(Nat)]
    BY EmptySeq DEF NoJob
  <2>2. job' \in [Threads -> [id : Nat \cup {-1}, mids : Seq(Nat), ok : Seq(Nat),
                              none : Seq(Nat), error : Seq(Nat)]]
    BY <1>1, <2>1 DEF ClientInv, TypeOK
  <2>3. pc' \in [Threads -> {"idle", "working", "crawled", "refused", "exited"}]
    BY <1>1 DEF ClientInv, TypeOK
  <2>. QED
    BY <1>1, <2>2, <2>3 DEF ClientInv, TypeOK, flags, dispatch, outside
<1>3. \A u \in Threads : /\ pc'[u] = IF u = t THEN "exited" ELSE pc[u]
                         /\ u # t => job'[u] = job[u]
  BY <1>1 DEF ClientInv, TypeOK
<1>4. mutex_.op = "commit" => mutex_.by \in Threads /\ mutex_.by # t
  BY <1>1 DEF ClientInv, CallOK, TypeOK, NoCall
<1>5. \A u \in Threads : AtWork(u)' => u # t /\ AtWork(u)
  BY <1>3 DEF AtWork
<1>6. \A u \in Threads : pc'[u] = "crawled" => SortedOut(job'[u])
  BY <1>3 DEF ClientInv, ThreadsOK
<1>7. mutex_.op = "commit" => UNCHANGED <<pc[mutex_.by], job[mutex_.by]>>
  BY <1>1, <1>3, <1>4
<1>. QED
  BY <1>1, <1>2, <1>3, <1>5, <1>6, <1>7, OutsideKeeps

LEMMA StopKeeps ==
    ASSUME ClientInv, (\E mode \in {"smooth", "force"} : Stop(mode)) \/ UNCHANGED vars
    PROVE  ClientInv'
<1>1. UNCHANGED <<main_tasks_, dispatch, sub_tasks_, buff_, error_mids_, commit_error,
                  mutex_, threads, outside>>
  BY DEF Stop, vars
<1>2. g_shouldStop' \in BOOLEAN /\ g_forceStop' \in BOOLEAN
  BY DEF Stop, g_stop, vars, flags, ClientInv, TypeOK
<1>3. TypeOK'
  BY <1>1, <1>2 DEF ClientInv, TypeOK, dispatch, outside, threads
<1>4. UNCHANGED <<pc, job>>
  BY <1>1 DEF threads
<1>5. \A t \in Threads :
         /\ AtWork(t)' => AtWork(t) /\ job'[t].id = job[t].id /\ job'[t].mids = job[t].mids
         /\ pc'[t] = "crawled" => SortedOut(job'[t])
  BY <1>4 DEF AtWork, ClientInv, ThreadsOK
<1>. QED
  BY <1>1, <1>3, <1>4, <1>5, OutsideKeeps
-----------------------------------------------------------------------------
(* The steps of a call that move no mids.                                  *)

Call == [op : {"commit", "flush"}, by : Threads, kind : Kinds,
         step : {"buffer", "write", "count", "return"}]

LEMMA CallKeeps ==
    ASSUME ClientInv, TypeOK', CallOK',
           UNCHANGED <<main_tasks_, dispatch, sub_tasks_, buff_, error_mids_, job, pool>>,
           Stored \subseteq Stored',
           \A t \in Threads : AtWork(t)' => AtWork(t) /\ pc'[t] = pc[t],
           \A s \in DOMAIN sub_tasks_ : InHand(s)' = InHand(s),
           \A s \in DOMAIN sub_tasks_ :
              s \in Ending => s \in Ending' \/ sub_tasks_[s].main \in DOMAIN main_tasks_
    PROVE  ClientInv'
<1>1. TasksOK' /\ Referred' /\ SubTasksOK' /\ QueuesOK' /\ BooksKept'
  BY NothingMoves DEF dispatch
<1>2. ThreadsOK'
  <2>1. \A t \in Threads :
           /\ AtWork(t) =>
                 /\ job[t].id \in DOMAIN sub_tasks_
                 /\ job[t].mids = sub_tasks_[job[t].id].mids
                 /\ \A u \in Threads : AtWork(u) /\ job[u].id = job[t].id => u = t
           /\ pc[t] = "crawled" => SortedOut(job[t])
    BY DEF ClientInv, ThreadsOK
  <2>2. \A t \in Threads : pc'[t] = "crawled" => pc[t] = "crawled"
    BY DEF AtWork
  <2>3. \A t \in Threads : SortedOut(job'[t]) <=> SortedOut(job[t])
    BY DEF SortedOut
  <2>. QED
    BY <2>1, <2>2, <2>3 DEF ThreadsOK
<1>. QED
  BY <1>1, <1>2 DEF ClientInv

LEMMA FlushKeeps ==
    ASSUME ClientInv, NEW t \in Threads, Flush(t)
    PROVE  ClientInv'
<1>1. /\ mutex_ = NoCall
      /\ mutex_' = [op |-> "flush", by |-> t, kind |-> "ok", step |-> "write"]
      /\ UNCHANGED <<flags, main_tasks_, dispatch, sub_tasks_, buff_, error_mids_,
                     commit_error, threads, outside>>
  BY DEF Flush, Asks
<1>2. TypeOK'
  BY <1>1 DEF ClientInv, TypeOK, Kinds, flags, dispatch, threads, outside
<1>3. CallOK'
  BY <1>1 DEF CallOK, At, Kind
<1>4. Ending = {} /\ Ending' = {}
  BY <1>1, NoCallNoEnding DEF Ending
<1>5. \A s \in DOMAIN sub_tasks_ : InHand(s)' = InHand(s)
  BY <1>1, <1>4 DEF InHand
<1>6. \A u \in Threads : AtWork(u)' => AtWork(u) /\ pc'[u] = pc[u]
  BY <1>1 DEF threads, AtWork
<1>7. UNCHANGED <<job, pool, Stored>>
  BY <1>1 DEF threads, outside, Stored
<1>. QED
  BY <1>1, <1>2, <1>3, <1>4, <1>5, <1>6, <1>7, CallKeeps

LEMMA FlushReturnsKeeps ==
    ASSUME ClientInv, FlushReturns
    PROVE  ClientInv'
<1>1. /\ mutex_.op = "flush" /\ mutex_' = NoCall
      /\ pc' = [pc EXCEPT ![mutex_.by] = "refused"]
      /\ UNCHANGED <<flags, main_tasks_, dispatch, sub_tasks_, buff_, error_mids_,
                     commit_error, job, outside>>
  BY DEF FlushReturns
<1>2. TypeOK'
  <2>1. pc' \in [Threads -> {"idle", "working", "crawled", "refused", "exited"}]
    BY <1>1 DEF ClientInv, TypeOK
  <2>. QED
    BY <1>1, <2>1 DEF ClientInv, TypeOK, flags, dispatch, outside
<1>3. CallOK'
  BY <1>1 DEF CallOK, At, Kind, NoCall
<1>4. Ending = {} /\ Ending' = {}
  BY <1>1 DEF Ending, NoCall
<1>5. \A s \in DOMAIN sub_tasks_ : InHand(s)' = InHand(s)
  BY <1>1, <1>4 DEF InHand
<1>6. \A u \in Threads : AtWork(u)' => AtWork(u) /\ pc'[u] = pc[u]
  BY <1>1 DEF AtWork, ClientInv, TypeOK
<1>7. UNCHANGED <<pool, Stored>>
  BY <1>1 DEF outside, Stored
<1>. QED
  BY <1>1, <1>2, <1>3, <1>4, <1>5, <1>6, <1>7, CallKeeps

(* The early returns of commitSubTask are never taken. *)
LEMMA CommitSubTaskKeeps ==
    ASSUME ClientInv, NEW t \in Threads, CommitSubTask(t)
    PROVE  ClientInv'
<1>1. pc[t] = "crawled" /\ mutex_ = NoCall
      /\ UNCHANGED <<flags, main_tasks_, dispatch, sub_tasks_, buff_, error_mids_,
                     commit_error, outside>>
  BY DEF CommitSubTask
<1>2. /\ job[t].id \in DOMAIN sub_tasks_
      /\ job[t].mids = sub_tasks_[job[t].id].mids
      /\ SortedOut(job[t])
  BY <1>1 DEF ClientInv, ThreadsOK, AtWork
<1>3. sub_tasks_[job[t].id].main \in DOMAIN main_tasks_
  BY <1>1, <1>2, NoCallNoEnding DEF ClientInv, Referred
<1>4. /\ mutex_' = [op |-> "commit", by |-> t, kind |-> "ok", step |-> "buffer"]
      /\ UNCHANGED threads
  BY <1>2, <1>3 DEF CommitSubTask
<1>5. TypeOK'
  BY <1>1, <1>4 DEF ClientInv, TypeOK, Kinds, flags, dispatch, threads, outside
<1>6. CallOK'
  BY <1>1, <1>4 DEF CallOK, At, Kind, threads
<1>7. Ending = {} /\ Ending' = {job[t].id} /\ Kind' = "ok" /\ At("buffer")' /\ Job' = job[t]
  BY <1>1, <1>4, NoCallNoEnding DEF Ending, Job, Kind, At, threads
<1>8. \A s \in DOMAIN sub_tasks_ : InHand(s)' = InHand(s)
  <2>1. \A s : InHand(s) = Range(sub_tasks_[s].mids)
    BY <1>1, NoCallNoEnding
  <2>2. \A s : s # job[t].id => InHand(s)' = Range(sub_tasks_[s].mids)
    BY <1>1, <1>7 DEF InHand
  <2>3. ASSUME NEW s, s = job[t].id
        PROVE  InHand(s)' = Range(sub_tasks_[s].mids)
    <3>1. InHand(s)' = Range(job[t].ok) \cup Range(job[t].none) \cup Range(job[t].error)
      BY <1>7, <2>3 DEF InHand
    <3>. QED
      BY <1>2, <2>3, <3>1 DEF SortedOut
  <2>. QED
    BY <2>1, <2>2, <2>3
<1>9. \A u \in Threads : AtWork(u)' => AtWork(u) /\ pc'[u] = pc[u]
  BY <1>4 DEF threads, AtWork
<1>10. UNCHANGED <<job, pool, Stored>>
  BY <1>1, <1>4 DEF threads, outside, Stored
<1>. QED
  BY <1>1, <1>5, <1>6, <1>7, <1>8, <1>9, <1>10, CallKeeps

(* Going on to the other kind of results, or to the end of the call. *)
LEMMA ProceedIs ==
    ASSUME ClientInv, At("write") \/ At("count"), Proceed, UNCHANGED <<sub_tasks_, pc, job>>
    PROVE  /\ mutex_ \in Call /\ mutex_' \in Call
           /\ UNCHANGED Ending
           /\ CallOK'
           /\ \A s \in DOMAIN sub_tasks_ : InHand(s)' = InHand(s)
<1>1. mutex_ \in Call
  BY DEF ClientInv, TypeOK, At, NoCall, Call
<1>2. /\ mutex_' \in Call /\ mutex_'.op = mutex_.op /\ mutex_'.by = mutex_.by
      /\ mutex_'.kind = "none"
      /\ mutex_.kind = "ok" =>
            mutex_'.step = IF mutex_.op = "commit" THEN "buffer" ELSE "write"
      /\ mutex_.kind # "ok" => mutex_.kind = "none" /\ mutex_'.step = "return"
  BY <1>1 DEF Proceed, Call, Kind, Kinds
<1>3. UNCHANGED <<Ending, Job>>
  BY <1>2 DEF Ending, Job
<1>4. CallOK'
  BY <1>2 DEF ClientInv, CallOK, At, Kind
<1>5. ASSUME NEW s \in Ending
      PROVE  InHand(s)' = InHand(s)
  <2>1. mutex_.op = "commit" /\ Ending' = Ending
    BY <1>3 DEF Ending
  <2>2. InHand(s) = (IF mutex_.kind = "ok" THEN Range(Job.none) ELSE {}) \cup Range(Job.error)
    BY DEF InHand, Kind, At
  <2>3. InHand(s)' = (IF mutex_.kind = "ok" THEN Range(Job.none) ELSE {}) \cup Range(Job.error)
    BY <1>2, <1>3, <2>1 DEF InHand, Kind, At
  <2>. QED
    BY <2>2, <2>3
<1>6. \A s \in DOMAIN sub_tasks_ : s \notin Ending => InHand(s)' = InHand(s)
  BY <1>3 DEF InHand
<1>. QED
  BY <1>1, <1>2, <1>3, <1>4, <1>5, <1>6

(* The mids in the buffers are those of the main tasks. *)
LEMMA BufferedIs ==
    ASSUME ClientInv, NEW kind \in Kinds
    PROVE  /\ Buffered(kind) \subseteq Nat
           /\ \A i \in DOMAIN buff_[kind] : InQueue(buff_[kind], i) \subseteq Buffered(kind)
           /\ \A m \in Buffered(kind) : \E i \in DOMAIN main_tasks_ :
                 m \in Span(main_tasks_[i])
<1>1. /\ buff_[kind] \in [DOMAIN buff_[kind] -> Seq(Nat)]
      /\ DOMAIN buff_[kind] \subseteq DOMAIN main_tasks_
  BY DEF ClientInv, QueuesOK, Queue, Referred, Kinds
<1>2. \A i \in DOMAIN buff_[kind] : Range(buff_[kind][i]) \subseteq Nat
  BY <1>1, RangeIs
<1>3. Buffered(kind) \subseteq Nat
  BY <1>2 DEF Buffered
<1>4. \A i \in DOMAIN buff_[kind] : InQueue(buff_[kind], i) = Range(buff_[kind][i])
  BY DEF InQueue
<1>5. ASSUME NEW i \in DOMAIN buff_[kind]
      PROVE  Range(buff_[kind][i]) \subseteq Span(main_tasks_[i])
  <2>1. Within(i)
    BY <1>1 DEF ClientInv, BooksKept, Books
  <2>2. Place(i, Kept(kind)) = InQueue(buff_[kind], i) /\ Kept(kind) \in Int
    BY PlaceIs DEF Kinds, Kept
  <2>. QED
    BY <1>4, <2>1, <2>2 DEF Within
<1>. QED
  BY <1>1, <1>3, <1>4, <1>5 DEF Buffered

LEMMA WriteKeeps ==
    ASSUME ClientInv, Write \/ WriteFails
    PROVE  ClientInv' /\ mutex_ \in Call
<1>1. /\ At("write")
      /\ UNCHANGED <<main_tasks_, dispatch, sub_tasks_, buff_, error_mids_, commit_error,
                     threads, pool, reported>>
  BY DEF Write, WriteFails
<1>2. UNCHANGED <<pc, job, sub_tasks_>>
  BY <1>1 DEF threads
<1>3. mutex_ \in Call /\ Kind \in Kinds
  BY <1>1 DEF ClientInv, TypeOK, At, NoCall, Call, Kind
<1>4. PICK W \in SUBSET Buffered(Kind) : db' = [db EXCEPT ![Kind] = @ \cup W]
  BY DEF Write, WriteFails
<1>5. /\ Stored \subseteq Stored'
      /\ DOMAIN db' = Kinds /\ \A kind \in Kinds : db'[kind] \subseteq Nat
  <2>1. W \subseteq Nat
    BY <1>3, BufferedIs
  <2>2. DOMAIN db = Kinds /\ \A kind \in Kinds : db[kind] \subseteq Nat
    BY DEF ClientInv, TypeOK
  <2>3. DOMAIN db' = Kinds
        /\ \A kind \in Kinds : db'[kind] = IF kind = Kind THEN db[kind] \cup W ELSE db[kind]
    BY <1>3, <1>4, <2>2
  <2>4. \A kind \in Kinds : db'[kind] \subseteq Nat /\ db[kind] \subseteq db'[kind]
    BY <2>1, <2>2, <2>3
  <2>5. db["ok"] \subseteq db'["ok"] /\ db["none"] \subseteq db'["none"]
    BY <2>4 DEF Kinds
  <2>. QED
    BY <2>3, <2>4, <2>5 DEF Stored
<1>6. \A t \in Threads : AtWork(t)' => AtWork(t) /\ pc'[t] = pc[t]
  BY <1>2 DEF AtWork
<1>7. CASE Write
  <2>1. mutex_' = [mutex_ EXCEPT !.step = "count"] /\ UNCHANGED flags
        /\ db' = [db EXCEPT ![Kind] = @ \cup Buffered(Kind)]
    BY <1>7 DEF Write
  <2>2. mutex_' \in Call /\ mutex_'.op = mutex_.op /\ mutex_'.by = mutex_.by
        /\ mutex_'.kind = mutex_.kind /\ mutex_'.step = "count"
    BY <1>3, <2>1 DEF Call
  <2>3. TypeOK'
    BY <1>1, <1>5, <2>1, <2>2 DEF ClientInv, TypeOK, Call, flags, dispatch, threads
  <2>4. UNCHANGED <<Ending, Job, Kind>>
    BY <1>2, <2>2 DEF Ending, Job, Kind
  <2>5. CallOK'
    <3>1. Buffered(Kind)' = Buffered(Kind)
      BY <1>1, <2>4 DEF Buffered
    <3>2. db'[Kind] = db[Kind] \cup Buffered(Kind)
      BY <1>3, <2>1 DEF ClientInv, TypeOK
    <3>3. Buffered(Kind)' \subseteq db'[Kind']
      BY <2>4, <3>1, <3>2
    <3>. QED
      BY <1>2, <2>2, <3>3 DEF ClientInv, CallOK, At
  <2>6. \A s \in DOMAIN sub_tasks_ : InHand(s)' = InHand(s)
    BY <1>1, <1>2, <2>2, <2>4 DEF InHand, At
  <2>. QED
    BY <1>1, <1>2, <1>3, <1>5, <1>6, <2>3, <2>4, <2>5, <2>6, CallKeeps
<1>8. CASE WriteFails
  <2>1. Proceed /\ g_shouldStop' \in BOOLEAN /\ g_forceStop' \in BOOLEAN
    BY <1>8 DEF WriteFails, WriteReturnsFalse, g_stop, ClientInv, TypeOK
  <2>2. /\ mutex_' \in Call /\ UNCHANGED Ending /\ CallOK'
        /\ \A s \in DOMAIN sub_tasks_ : InHand(s)' = InHand(s)
    BY <1>1, <1>2, <2>1, ProceedIs
  <2>3. TypeOK'
    BY <1>1, <1>5, <2>1, <2>2 DEF ClientInv, TypeOK, Call, dispatch, threads
  <2>. QED
    BY <1>1, <1>2, <1>3, <1>5, <1>6, <2>2, <2>3, CallKeeps
<1>. QED
  BY <1>7, <1>8

LEMMA CountEndsKeeps ==
    ASSUME ClientInv, CountEnds
    PROVE  ClientInv'
<1>1. /\ At("count") /\ Proceed
      /\ UNCHANGED <<main_tasks_, dispatch, sub_tasks_, buff_, error_mids_, commit_error,
                     threads, outside>>
      /\ g_shouldStop' \in BOOLEAN /\ g_forceStop' \in BOOLEAN
  BY DEF CountEnds, g_stop, ClientInv, TypeOK
<1>2. UNCHANGED <<pc, job, sub_tasks_>>
  BY <1>1 DEF threads
<1>3. /\ mutex_' \in Call /\ UNCHANGED Ending /\ CallOK'
      /\ \A s \in DOMAIN sub_tasks_ : InHand(s)' = InHand(s)
  BY <1>1, <1>2, ProceedIs
<1>4. TypeOK'
  BY <1>1, <1>3 DEF ClientInv, TypeOK, Call, dispatch, threads, outside
<1>5. UNCHANGED <<pool, Stored>>
  BY <1>1 DEF outside, Stored
<1>6. \A t \in Threads : AtWork(t)' => AtWork(t) /\ pc'[t] = pc[t]
  BY <1>2 DEF AtWork
<1>. QED
  BY <1>1, <1>2, <1>3, <1>4, <1>5, <1>6, CallKeeps
-----------------------------------------------------------------------------
(* getSubTask hands mids out.                                              *)

(* The mids are the sub task n of the main task i, which was none before. *)
HandedOut(n, i, mids) ==
    /\ n \in Nat /\ n \notin DOMAIN sub_tasks_
    /\ DOMAIN sub_tasks_' = DOMAIN sub_tasks_ \cup {n}
    /\ sub_tasks_'[n] = [main |-> i, mids |-> mids]
    /\ \A s \in DOMAIN sub_tasks_ : sub_tasks_'[s] = sub_tasks_[s]
    /\ Ending = {} /\ Ending' = {}
    /\ \A j : Place(j, n) = {}
    /\ \A j : \A x \in Int \ {Front, Failed} :
          Place(j, x)' = IF x = n /\ j = i THEN Range(mids) ELSE Place(j, x)

LEMMA HandOutIs ==
    ASSUME ClientInv, NEW t \in Threads, Asks(t), NEW i \in Nat, NEW mids \in Seq(Nat),
           HandOut(t, i, mids), NEW n, n = current_sub_task_id_
    PROVE  HandedOut(n, i, mids)
<1>1. /\ sub_tasks_' = Put(sub_tasks_, n, [main |-> i, mids |-> mids])
      /\ mutex_ = NoCall /\ UNCHANGED <<mutex_, buff_>>
  BY DEF HandOut, Asks
<1>2. n \in Nat /\ n \notin DOMAIN sub_tasks_
  BY DEF ClientInv, TypeOK
<1>3. /\ DOMAIN sub_tasks_' = DOMAIN sub_tasks_ \cup {n}
      /\ sub_tasks_'[n] = [main |-> i, mids |-> mids]
      /\ \A s \in DOMAIN sub_tasks_ : sub_tasks_'[s] = sub_tasks_[s]
  BY <1>1, <1>2 DEF Put
<1>4. Ending = {} /\ Ending' = {}
  BY <1>1 DEF Ending, NoCall
<1>5. \A s : InHand(s)' = Range(sub_tasks_'[s].mids)
  BY <1>4 DEF InHand
<1>6. \A s : InHand(s) = Range(sub_tasks_[s].mids)
  BY <1>4 DEF InHand
<1>7. \A j : Place(j, n) = {}
  BY <1>2 DEF Place, Front, Failed
<1>8. ASSUME NEW j, NEW x \in Int \ {Front, Failed}
      PROVE  Place(j, x)' = IF x = n /\ j = i THEN Range(mids) ELSE Place(j, x)
  <2>1. CASE x = -3 \/ x = -4
    <3>1. x # n
      BY <1>2, <2>1
    <3>. QED
      BY <1>1, <2>1, <3>1 DEF Place, Front, Failed, InQueue
  <2>2. CASE x # -3 /\ x # -4
    <3>1. Place(j, x) = IF x \in DOMAIN sub_tasks_ /\ sub_tasks_[x].main = j
                        THEN InHand(x) ELSE {}
      BY <1>8, <2>2 DEF Place
    <3>2. Place(j, x)' = IF x \in DOMAIN sub_tasks_' /\ sub_tasks_'[x].main = j
                         THEN InHand(x)' ELSE {}
      BY <1>8, <2>2 DEF Place
    <3>3. CASE x = n
      <4>1. InHand(n)' = Range(mids) /\ n \in DOMAIN sub_tasks_' /\ sub_tasks_'[n].main = i
        BY <1>3, <1>5
      <4>2. CASE j = i
        BY <3>2, <3>3, <4>1, <4>2
      <4>3. CASE j # i
        BY <1>7, <3>2, <3>3, <4>1, <4>3
      <4>. QED
        BY <4>2, <4>3
    <3>4. CASE x # n
      BY <1>3, <1>5, <1>6, <3>1, <3>2, <3>4
    <3>. QED
      BY <3>3, <3>4
  <2>. QED
    BY <2>1, <2>2
<1>. QED
  BY <1>2, <1>3, <1>4, <1>7, <1>8 DEF HandedOut

(* The thread gets a sub task of its own. *)
LEMMA HandOutThreads ==
    ASSUME ClientInv, NEW t \in Threads, Asks(t), NEW i \in Nat, NEW mids \in Seq(Nat),
           HandOut(t, i, mids)
    PROVE  ThreadsOK' /\ CallOK'
<1>0. PICK n : n = current_sub_task_id_
  OBVIOUS
<1>1. /\ n \in Nat /\ n \notin DOMAIN sub_tasks_
      /\ DOMAIN sub_tasks_' = DOMAIN sub_tasks_ \cup {n}
      /\ sub_tasks_'[n] = [main |-> i, mids |-> mids]
      /\ \A s \in DOMAIN sub_tasks_ : sub_tasks_'[s] = sub_tasks_[s]
  BY <1>0, HandOutIs DEF HandedOut
<1>2. /\ pc' = [pc EXCEPT ![t] = "working"]
      /\ job' = [job EXCEPT ![t] = [NoJob EXCEPT !.id = n, !.mids = mids]]
      /\ mutex_ = NoCall /\ UNCHANGED <<mutex_, db, buff_>>
  BY <1>0 DEF HandOut, Asks
<1>3. CallOK'
  BY <1>2 DEF CallOK, At, Kind, NoCall
<1>4. job'[t].id = n /\ job'[t].mids = mids /\ pc'[t] = "working"
  BY <1>2 DEF ClientInv, TypeOK, NoJob
<1>5. \A u \in Threads \ {t} : job'[u] = job[u] /\ pc'[u] = pc[u]
  BY <1>2 DEF ClientInv, TypeOK
<1>6. \A u \in Threads : AtWork(u) =>
         /\ job[u].id \in DOMAIN sub_tasks_ /\ job[u].mids = sub_tasks_[job[u].id].mids
         /\ \A v \in Threads : AtWork(v) /\ job[v].id = job[u].id => v = u
  BY DEF ClientInv, ThreadsOK
<1>7. \A u \in Threads \ {t} : AtWork(u)' <=> AtWork(u)
  BY <1>5 DEF AtWork
<1>8. ASSUME NEW u \in Threads, AtWork(u)'
      PROVE  /\ job'[u].id \in DOMAIN sub_tasks_' /\ job'[u].mids = sub_tasks_'[job'[u].id].mids
             /\ \A v \in Threads : AtWork(v)' /\ job'[v].id = job'[u].id => v = u
  <2>1. CASE u = t
    <3>1. \A v \in Threads \ {t} : AtWork(v)' => job'[v].id # n
      BY <1>1, <1>5, <1>6, <1>7
    <3>. QED
      BY <1>1, <1>4, <2>1, <3>1
  <2>2. CASE u # t
    <3>1. AtWork(u) /\ job'[u] = job[u]
      BY <1>5, <1>7, <1>8, <2>2
    <3>2. job[u].id \in DOMAIN sub_tasks_ /\ job[u].mids = sub_tasks_[job[u].id].mids
      BY <1>6, <3>1
    <3>3. ASSUME NEW v \in Threads, AtWork(v)', job'[v].id = job'[u].id
          PROVE  v = u
      <4>1. v # t
        BY <1>1, <1>4, <3>1, <3>2, <3>3
      <4>. QED
        BY <1>5, <1>6, <1>7, <3>1, <3>3, <4>1
    <3>. QED
      BY <1>1, <3>1, <3>2, <3>3
  <2>. QED
    BY <2>1, <2>2
<1>9. ASSUME NEW u \in Threads, pc'[u] = "crawled"
      PROVE  SortedOut(job'[u])
  BY <1>4, <1>5, <1>9 DEF ClientInv, ThreadsOK
<1>. QED
  BY <1>3, <1>8, <1>9 DEF ThreadsOK

(* The types of what HandOut changes. *)
LEMMA HandOutType ==
    ASSUME ClientInv, NEW t \in Threads, Asks(t), NEW i \in Nat, NEW mids \in Seq(Nat),
           HandOut(t, i, mids)
    PROVE  /\ sub_tasks_' \in [DOMAIN sub_tasks_' -> [main : Nat, mids : Seq(Nat)]]
           /\ DOMAIN sub_tasks_' \subseteq 0 .. current_sub_task_id_' - 1
           /\ current_sub_task_id_' \in Nat
           /\ pc' \in [Threads -> {"idle", "working", "crawled", "refused", "exited"}]
           /\ job' \in [Threads -> [id : Nat \cup {-1}, mids : Seq(Nat), ok : Seq(Nat),
                                    none : Seq(Nat), error : Seq(Nat)]]
<1> DEFINE n == current_sub_task_id_
<1>1. /\ n \in Nat /\ DOMAIN sub_tasks_ \subseteq 0 .. n - 1
      /\ sub_tasks_ \in [DOMAIN sub_tasks_ -> [main : Nat, mids : Seq(Nat)]]
      /\ sub_tasks_' = Put(sub_tasks_, n, [main |-> i, mids |-> mids])
      /\ current_sub_task_id_' = n + 1
      /\ pc' = [pc EXCEPT ![t] = "working"]
      /\ job' = [job EXCEPT ![t] = [NoJob EXCEPT !.id = n, !.mids = mids]]
  BY DEF HandOut, ClientInv, TypeOK
<1>2. sub_tasks_' \in [DOMAIN sub_tasks_' -> [main : Nat, mids : Seq(Nat)]]
  BY <1>1 DEF Put
<1>3. DOMAIN sub_tasks_' \subseteq 0 .. n + 1 - 1
  BY <1>1 DEF Put
<1>4. [NoJob EXCEPT !.id = n, !.mids = mids] \in
         [id : Nat \cup {-1}, mids : Seq(Nat), ok : Seq(Nat), none : Seq(Nat),
          error : Seq(Nat)]
  BY <1>1, EmptySeq DEF NoJob
<1>5. /\ pc' \in [Threads -> {"idle", "working", "crawled", "refused", "exited"}]
      /\ job' \in [Threads -> [id : Nat \cup {-1}, mids : Seq(Nat), ok : Seq(Nat),
                               none : Seq(Nat), error : Seq(Nat)]]
  BY <1>1, <1>4 DEF ClientInv, TypeOK
<1>. QED
  BY <1>1, <1>2, <1>3, <1>5

LEMMA IdsAreNat ==
    ASSUME ClientInv
    PROVE  DOMAIN main_tasks_ \subseteq Nat
<1>1. \A t \in Tasks : t.id \in Nat
  BY TasksAssumption DEF MainTask
<1>. QED
  BY <1>1 DEF ClientInv, TypeOK

LEMMA GetErrorMidsKeeps ==
    ASSUME ClientInv, NEW t \in Threads, GetErrorMids(t)
    PROVE  ClientInv'
<1>0. PICK n, i : n = current_sub_task_id_ /\ i = Least(DOMAIN error_mids_)
  OBVIOUS
<1>1. /\ Asks(t) /\ DOMAIN error_mids_ # {}
      /\ HandOut(t, i, Taken(error_mids_[i]))
      /\ error_mids_' = IF Left(error_mids_[i]) = <<>> THEN Drop(error_mids_, i)
                        ELSE Put(error_mids_, i, Left(error_mids_[i]))
      /\ UNCHANGED <<flags, main_tasks_, current_main_task_, current_mid_, pool>>
  BY <1>0 DEF GetErrorMids
<1>2. /\ i \in DOMAIN error_mids_ /\ i \in DOMAIN main_tasks_ /\ i \in Nat
  <2>1. DOMAIN error_mids_ \subseteq DOMAIN main_tasks_ /\ DOMAIN main_tasks_ \subseteq Nat
    BY IdsAreNat DEF ClientInv, Referred
  <2>. QED
    BY <1>0, <1>1, <2>1, LeastIsIn
<1>3. PICK q : q = error_mids_[i]
  OBVIOUS
<1>4. q \in Seq(Nat) /\ q # <<>> /\ Distinct(q) /\ Queue(error_mids_)
  BY <1>2, <1>3 DEF ClientInv, QueuesOK, Queue
<1>5. /\ Taken(q) \in Seq(Nat) /\ Left(q) \in Seq(Nat) /\ Taken(q) # <<>>
      /\ Range(q) = Range(Taken(q)) \cup Range(Left(q))
      /\ Distinct(Taken(q)) /\ Distinct(Left(q))
      /\ Range(Taken(q)) \cap Range(Left(q)) = {}
  BY <1>4, TakenAndLeft
<1>6. PICK mids : mids = Taken(q)
  OBVIOUS
<1>7. HandOut(t, i, mids) /\ mids \in Seq(Nat)
  BY <1>1, <1>3, <1>5, <1>6
<1>8. /\ n \in Nat /\ n \notin DOMAIN sub_tasks_
      /\ DOMAIN sub_tasks_' = DOMAIN sub_tasks_ \cup {n}
      /\ sub_tasks_'[n] = [main |-> i, mids |-> mids]
      /\ \A s \in DOMAIN sub_tasks_ : sub_tasks_'[s] = sub_tasks_[s]
      /\ Ending = {} /\ Ending' = {}
      /\ \A j : Place(j, n) = {}
      /\ \A j : \A x \in Int \ {Front, Failed} :
            Place(j, x)' = IF x = n /\ j = i THEN Range(mids) ELSE Place(j, x)
  <2>1. n = current_sub_task_id_ /\ Asks(t) /\ i \in Nat
    BY <1>0, <1>1, <1>2
  <2>2. HandedOut(n, i, mids)
    BY <1>7, <2>1, HandOutIs
  <2>. QED
    BY <2>2 DEF HandedOut
<1>9. ThreadsOK' /\ CallOK'
  BY <1>1, <1>2, <1>7, HandOutThreads
<1>10. /\ UNCHANGED <<buff_, commit_error, mutex_, db, reported, Stored>>
  BY <1>7 DEF HandOut, Stored
<1>11. Queue(error_mids_') /\ DOMAIN error_mids_' \subseteq DOMAIN error_mids_
       /\ \A j : InQueue(error_mids_', j) = IF j = i THEN Range(Left(q))
                                            ELSE InQueue(error_mids_, j)
  <2>1. CASE Left(q) = <<>>
    <3>1. error_mids_' = Drop(error_mids_, i)
      BY <1>1, <1>3, <2>1
    <3>2. Range(Left(q)) = {}
      BY <1>5, <2>1, RangeIs
    <3>3. DOMAIN error_mids_' \subseteq DOMAIN error_mids_
      BY <3>1 DEF Drop, Restrict
    <3>4. \A j : InQueue(error_mids_', j) = IF j = i THEN {} ELSE InQueue(error_mids_, j)
      BY <3>1 DEF Drop, Restrict, InQueue
    <3>5. Queue(error_mids_')
      BY <1>4, <3>1, QueueDrop
    <3>. QED
      BY <3>2, <3>3, <3>4, <3>5
  <2>2. CASE Left(q) # <<>>
    <3>1. error_mids_' = Put(error_mids_, i, Left(q))
      BY <1>1, <1>3, <2>2
    <3>2. DOMAIN error_mids_' = DOMAIN error_mids_ \cup {i}
      BY <3>1 DEF Put
    <3>3. \A j : InQueue(error_mids_', j) = IF j = i THEN Range(Left(q))
                                            ELSE InQueue(error_mids_, j)
      BY <3>1 DEF Put, InQueue
    <3>. QED
      BY <1>2, <1>4, <1>5, <2>2, <3>1, <3>2, <3>3, QueuePut
  <2>. QED
    BY <2>1, <2>2
<1>12. TypeOK'
  BY <1>1, <1>2, <1>7, <1>10, <1>11, HandOutType DEF ClientInv, TypeOK, flags, Queue
<1>13. TasksOK'
  BY <1>1 DEF ClientInv, TasksOK
<1>14. Referred'
  <2>1. \A s \in DOMAIN sub_tasks_ : sub_tasks_[s].main \in DOMAIN main_tasks_
    BY <1>8 DEF ClientInv, Referred
  <2>2. \A s \in DOMAIN sub_tasks_' : sub_tasks_'[s].main \in DOMAIN main_tasks_'
    BY <1>1, <1>2, <1>8, <2>1
  <2>. QED
    BY <1>1, <1>10, <1>11, <2>2 DEF ClientInv, Referred
<1>15. SubTasksOK'
  <2>1. mids # <<>> /\ Distinct(mids)
    BY <1>5, <1>6
  <2>2. ASSUME NEW s \in DOMAIN sub_tasks_'
        PROVE  /\ Distinct(sub_tasks_'[s].mids)
               /\ sub_tasks_'[s].mids = <<>> /\ sub_tasks_'[s].main \in DOMAIN main_tasks_ =>
                     Span(main_tasks_[sub_tasks_'[s].main]) = {}
    BY <1>8, <2>1, <2>2 DEF ClientInv, SubTasksOK
  <2>. QED
    BY <1>1, <2>2 DEF SubTasksOK, Distinct, Span
<1>16. QueuesOK'
  BY <1>10, <1>11 DEF ClientInv, QueuesOK
<1>17. \A j : Place(j, Front)' = Place(j, Front)
  BY <1>1 DEF Place, Front, Ahead
<1>18. \A j : Place(j, Failed) = InQueue(error_mids_, j)
              /\ Place(j, Failed)' = InQueue(error_mids_', j)
  BY DEF Place, Front, Failed
<1>19. Books(i)'
  <2>1. Place(i, Failed) = Range(q)
    BY <1>2, <1>3, <1>18 DEF InQueue
  <2>2. Place(i, Failed)' = Place(i, Failed) \ Range(mids)
    BY <1>5, <1>6, <1>11, <1>18, <2>1
  <2>3. Place(i, n) = {} /\ n \in Int /\ n # Failed /\ n # Front
    BY <1>8 DEF Failed, Front
  <2>4. Failed \in Int \ {Kept("ok"), Kept("none")} /\ Failed # Front
    BY DEF Failed, Front, Kept
  <2>5. Move(i, Failed, n, Range(mids))
    <3>1. Range(mids) \subseteq Place(i, Failed)
      BY <1>5, <1>6, <2>1
    <3>2. ASSUME NEW x \in Int
          PROVE  Place(i, x)' = IF x = Failed THEN Place(i, x) \ Range(mids)
                                ELSE IF x = n THEN Place(i, x) \cup Range(mids)
                                ELSE Place(i, x)
      BY <1>8, <1>17, <2>2, <2>3, <2>4
    <3>. QED
      BY <2>3, <2>4, <3>1, <3>2 DEF Move
  <2>6. main_tasks_'[i] = main_tasks_[i] /\ Stored \subseteq Stored' /\ Books(i)
    BY <1>1, <1>2, <1>10 DEF ClientInv, BooksKept
  <2>. QED
    BY <2>5, <2>6, BooksMove
<1>20. ASSUME NEW j \in DOMAIN main_tasks_, j # i
       PROVE  Books(j)'
  <2>1. \A x \in Int : Place(j, x)' = Place(j, x)
    BY <1>8, <1>11, <1>17, <1>18, <1>20
  <2>2. main_tasks_'[j] = main_tasks_[j] /\ Stored \subseteq Stored' /\ Books(j)
    BY <1>1, <1>10, <1>20 DEF ClientInv, BooksKept
  <2>. QED
    BY <2>1, <2>2, BooksSame
<1>21. BooksKept'
  BY <1>1, <1>19, <1>20 DEF BooksKept
<1>. QED
  BY <1>9, <1>12, <1>13, <1>14, <1>15, <1>16, <1>21 DEF ClientInv

LEMMA GetFreshMidsKeeps ==
    ASSUME ClientInv, NEW t \in Threads, GetFreshMids(t)
    PROVE  ClientInv'
<1>0. PICK n, m, mid : n = current_sub_task_id_ /\ m = current_main_task_ /\ mid = current_mid_
  OBVIOUS
<1>1. /\ Asks(t)
      /\ mid < m.mid_end
      /\ HandOutFresh(t, m, mid)
      /\ UNCHANGED <<flags, main_tasks_, current_main_task_, error_mids_, pool>>
  BY <1>0 DEF GetFreshMids
<1>2. mid \in Nat /\ m \in MainTask /\ m \in Tasks
  <2>1. m \in Tasks \cup {[id |-> -1, mid_start |-> 0, mid_end |-> 0]} /\ mid \in Nat
    BY <1>0 DEF ClientInv, TypeOK
  <2>2. m # [id |-> -1, mid_start |-> 0, mid_end |-> 0]
    BY <1>1, <2>1
  <2>. QED
    BY <2>1, <2>2, TasksAssumption
<1>3. PICK i : i = m.id
  OBVIOUS
<1>4. i \in DOMAIN main_tasks_ /\ i \in Nat
  BY <1>0, <1>1, <1>2, <1>3 DEF ClientInv, TasksOK, MainTask
<1>5. PICK mids : mids = Chunk(m, mid)
  OBVIOUS
<1>6. /\ mids \in Seq(Nat) /\ mids # <<>> /\ Distinct(mids)
      /\ Len(mids) \in Nat /\ mid + Len(mids) <= m.mid_end
      /\ Range(mids) = mid .. mid + Len(mids) - 1
  <2>1. m \in [id : Int, mid_start : Nat, mid_end : Nat]
    BY <1>2 DEF MainTask
  <2>. QED
    BY <1>1, <1>2, <1>5, <2>1, ChunkIs
<1>7. HandOut(t, i, mids) /\ current_mid_' = mid + Len(mids)
  BY <1>1, <1>3, <1>5 DEF HandOutFresh
<1>8. HandedOut(n, i, mids)
  <2>1. n = current_sub_task_id_ /\ Asks(t)
    BY <1>0, <1>1
  <2>. QED
    BY <1>4, <1>6, <1>7, <2>1, HandOutIs
<1>9. /\ n \in Nat /\ n \notin DOMAIN sub_tasks_
      /\ DOMAIN sub_tasks_' = DOMAIN sub_tasks_ \cup {n}
      /\ sub_tasks_'[n] = [main |-> i, mids |-> mids]
      /\ \A s \in DOMAIN sub_tasks_ : sub_tasks_'[s] = sub_tasks_[s]
      /\ Ending = {} /\ Ending' = {}
      /\ \A j : Place(j, n) = {}
      /\ \A j : \A x \in Int \ {Front, Failed} :
            Place(j, x)' = IF x = n /\ j = i THEN Range(mids) ELSE Place(j, x)
  BY <1>8 DEF HandedOut
<1>10. ThreadsOK' /\ CallOK'
  BY <1>1, <1>4, <1>6, <1>7, HandOutThreads
<1>11. UNCHANGED <<buff_, commit_error, mutex_, db, reported, Stored>>
  BY <1>7 DEF HandOut, Stored
<1>12. TypeOK'
  <2>1. current_mid_' \in Nat
    BY <1>2, <1>6, <1>7
  <2>. QED
    BY <1>1, <1>4, <1>6, <1>7, <1>11, <2>1, HandOutType DEF ClientInv, TypeOK, flags
<1>13. TasksOK'
  <2>1. m.mid_start <= mid /\ m.mid_start \in Nat
    BY <1>0, <1>2 DEF ClientInv, TasksOK, MainTask
  <2>2. m.mid_start <= current_mid_'
    BY <1>2, <1>6, <1>7, <2>1
  <2>. QED
    BY <1>0, <1>1, <1>3, <1>4, <2>2 DEF ClientInv, TasksOK
<1>14. Referred'
  <2>1. \A s \in DOMAIN sub_tasks_ : sub_tasks_[s].main \in DOMAIN main_tasks_
    BY <1>9 DEF ClientInv, Referred
  <2>2. \A s \in DOMAIN sub_tasks_' : sub_tasks_'[s].main \in DOMAIN main_tasks_'
    BY <1>1, <1>4, <1>9, <2>1
  <2>. QED
    BY <1>1, <1>11, <2>2 DEF ClientInv, Referred
<1>15. SubTasksOK'
  <2>1. ASSUME NEW s \in DOMAIN sub_tasks_'
        PROVE  /\ Distinct(sub_tasks_'[s].mids)
               /\ sub_tasks_'[s].mids = <<>> /\ sub_tasks_'[s].main \in DOMAIN main_tasks_ =>
                     Span(main_tasks_[sub_tasks_'[s].main]) = {}
    BY <1>6, <1>9, <2>1 DEF ClientInv, SubTasksOK
  <2>. QED
    BY <1>1, <2>1 DEF SubTasksOK, Distinct, Span
<1>16. QueuesOK'
  BY <1>1, <1>11 DEF ClientInv, QueuesOK
<1>17. \A j : /\ Place(j, Failed)' = Place(j, Failed)
              /\ Place(j, Front) = Ahead(j) /\ Place(j, Front)' = Ahead(j)'
  BY <1>1 DEF Place, Front, Failed, InQueue
<1>18. \A j : j # i => Ahead(j)' = {} /\ Ahead(j) = {}
  BY <1>0, <1>1, <1>3 DEF Ahead
<1>19. Books(i)'
  <2>1. Ahead(i) = mid .. m.mid_end - 1 /\ Ahead(i)' = mid + Len(mids) .. m.mid_end - 1
    BY <1>0, <1>1, <1>3, <1>7 DEF Ahead
  <2>2. m.mid_end \in Nat
    BY <1>2 DEF MainTask
  <2>3. Ahead(i)' = Ahead(i) \ Range(mids) /\ Range(mids) \subseteq Ahead(i)
    BY <1>2, <1>6, <2>1, <2>2
  <2>4. Place(i, n) = {} /\ n \in Int /\ n # Failed /\ n # Front
    BY <1>9 DEF Failed, Front
  <2>5. Front \in Int \ {Kept("ok"), Kept("none")} /\ Failed # Front
    BY DEF Failed, Front, Kept
  <2>6. Move(i, Front, n, Range(mids))
    <3>1. ASSUME NEW x \in Int
          PROVE  Place(i, x)' = IF x = Front THEN Place(i, x) \ Range(mids)
                                ELSE IF x = n THEN Place(i, x) \cup Range(mids)
                                ELSE Place(i, x)
      BY <1>9, <1>17, <2>3, <2>4, <2>5
    <3>2. Range(mids) \subseteq Place(i, Front)
      BY <1>17, <2>3
    <3>. QED
      BY <2>4, <2>5, <3>1, <3>2 DEF Move
  <2>7. main_tasks_'[i] = main_tasks_[i] /\ Stored \subseteq Stored' /\ Books(i)
    BY <1>1, <1>4, <1>11 DEF ClientInv, BooksKept
  <2>. QED
    BY <2>6, <2>7, BooksMove
<1>20. ASSUME NEW j \in DOMAIN main_tasks_, j # i
       PROVE  Books(j)'
  <2>1. \A x \in Int : Place(j, x)' = Place(j, x)
    BY <1>9, <1>17, <1>18, <1>20
  <2>2. main_tasks_'[j] = main_tasks_[j] /\ Stored \subseteq Stored' /\ Books(j)
    BY <1>1, <1>11, <1>20 DEF ClientInv, BooksKept
  <2>. QED
    BY <2>1, <2>2, BooksSame
<1>21. BooksKept'
  BY <1>1, <1>19, <1>20 DEF BooksKept
<1>. QED
  BY <1>10, <1>12, <1>13, <1>14, <1>15, <1>16, <1>21 DEF ClientInv

(* Main task i, from A up to B, is leased; its first k mids are the sub task n. *)
Leased(i, A, B, k, n) ==
    /\ A \in Nat /\ B \in Nat /\ k \in Nat /\ n \in Nat
    /\ A < B => A + k <= B
    /\ ~(A < B) => k = 0
    /\ main_tasks_'[i] = [mid_start |-> A, mid_end |-> B, completed |-> 0]
    /\ \A x \in Int : Place(i, x)' = IF x = Front THEN A + k .. B - 1
                                     ELSE IF x = n THEN A .. A + k - 1
                                     ELSE {}

LEMMA NewBooks ==
    ASSUME NEW i, NEW A, NEW B, NEW k, NEW n, Leased(i, A, B, k, n)
    PROVE  Books(i)'
<1>. USE DEF Leased
<1>1. Span(main_tasks_'[i]) = A .. B - 1 /\ Size(i)' = B - A /\ main_tasks_'[i].completed = 0
  BY DEF Span, Size
<1>2. Front \in Int /\ n \in Int /\ n # Front
  BY DEF Front
<1>3. Apart(i)'
  <2>. SUFFICES ASSUME NEW x \in Int, NEW y \in Int, NEW v \in Nat,
                       v \in Place(i, x)', v \in Place(i, y)'
       PROVE  x = y
    BY DEF Apart
  <2>1. x \in {Front, n} /\ y \in {Front, n}
    OBVIOUS
  <2>2. v \in Place(i, Front)' => ~(v < A + k)
    BY <1>2
  <2>3. v \in Place(i, n)' => v < A + k
    BY <1>2
  <2>. QED
    BY <2>1, <2>2, <2>3
<1>4. A + k .. B - 1 \subseteq A .. B - 1 /\ A .. A + k - 1 \subseteq A .. B - 1
  BY <1>2
<1>5. Within(i)'
  BY <1>1, <1>4 DEF Within
<1>6. Accounted(i)'
  <2>1. CASE A < B
    <3>1. \A v \in A .. B - 1 : v \in A + k .. B - 1 \/ v \in A .. A + k - 1
      OBVIOUS
    <3>2. Everywhere(i)' = A .. B - 1
      <4>1. \A v \in A .. B - 1 : v \in Nat /\ \E x \in Int : v \in Place(i, x)'
        BY <1>2, <3>1
      <4>2. \A v, x : x \in Int /\ v \in Place(i, x)' => v \in A .. B - 1
        BY <1>4
      <4>. QED
        BY <4>1, <4>2 DEF Everywhere
    <3>3. Cardinality(Everywhere(i)') = B - A
      <4>1. Cardinality(A .. B - 1) = B - 1 - A + 1
        BY <2>1, FS_Interval
      <4>. QED
        BY <2>1, <3>2, <4>1
    <3>4. main_tasks_'[i].completed < Size(i)'
      BY <1>1, <2>1
    <3>5. main_tasks_'[i].completed + Cardinality(Everywhere(i)') = Size(i)'
      BY <1>1, <2>1, <3>3
    <3>. QED
      BY <1>1, <3>2, <3>4, <3>5 DEF Accounted
  <2>2. CASE ~(A < B)
    <3>1. A .. B - 1 = {} /\ A + k .. B - 1 = {} /\ A .. A + k - 1 = {}
      BY <2>2
    <3>2. ~(main_tasks_'[i].completed < Size(i)')
      BY <1>1, <2>2
    <3>3. \A x \in Int : Place(i, x)' = {}
      BY <3>1
    <3>4. \E kind \in Kinds : \A x \in Int \ {Kept(kind)} : Place(i, x)' = {}
      BY <3>3 DEF Kinds
    <3>. QED
      BY <1>1, <3>1, <3>2, <3>4 DEF Accounted
  <2>. QED
    BY <2>1, <2>2
<1>. QED
  BY <1>3, <1>5, <1>6 DEF Books

(* The client gets a main task that it does not have, and cuts it from its    *)
(* first mid on; the one it has cut up has nothing ahead any more.            *)
LEMMA GetMainTaskKeeps ==
    ASSUME ClientInv, NEW t \in Threads, GetMainTask(t)
    PROVE  ClientInv'
<1>0. PICK n : n = current_sub_task_id_
  OBVIOUS
<1>1. PICK m \in pool :
         /\ pool' = pool \ {m}
         /\ current_main_task_' = m
         /\ main_tasks_' = IF m.id \in DOMAIN main_tasks_ THEN main_tasks_
               ELSE Put(main_tasks_, m.id, [mid_start |-> m.mid_start,
                                            mid_end |-> m.mid_end, completed |-> 0])
         /\ HandOutFresh(t, m, m.mid_start)
  BY DEF GetMainTask
<1>2. /\ Asks(t) /\ DOMAIN error_mids_ = {} /\ current_mid_ >= current_main_task_.mid_end
      /\ UNCHANGED <<flags, error_mids_>>
  BY DEF GetMainTask, UsedUp
<1>3. m \in Tasks /\ m \in MainTask
  BY TasksAssumption DEF ClientInv, TypeOK
<1>4. PICK i, mid : i = m.id /\ mid = m.mid_start
  OBVIOUS
<1>5. i \in Nat /\ mid \in Nat /\ m.mid_end \in Nat
  BY <1>3, <1>4 DEF MainTask
<1>6. i \notin DOMAIN main_tasks_
  BY <1>3, <1>4 DEF ClientInv, TasksOK
<1>7. /\ DOMAIN main_tasks_' = DOMAIN main_tasks_ \cup {i}
      /\ main_tasks_'[i] = [mid_start |-> mid, mid_end |-> m.mid_end, completed |-> 0]
      /\ \A j \in DOMAIN main_tasks_ : main_tasks_'[j] = main_tasks_[j]
      /\ main_tasks_' = [j \in DOMAIN main_tasks_' |-> main_tasks_'[j]]
  BY <1>1, <1>4, <1>6 DEF Put
<1>8. PICK mids : mids = Chunk(m, mid)
  OBVIOUS
<1>9. PICK k \in Nat :
         /\ mids \in Seq(Nat) /\ Distinct(mids)
         /\ Len(mids) = k
         /\ mid < m.mid_end => mid + k <= m.mid_end /\ mids # <<>>
         /\ ~(mid < m.mid_end) => k = 0
         /\ Range(mids) = mid .. mid + k - 1
  <2>1. m \in [id : Int, mid_start : Nat, mid_end : Nat]
    BY <1>3 DEF MainTask
  <2>2. CASE mid < m.mid_end
    BY <1>5, <1>8, <2>1, <2>2, ChunkIs
  <2>3. CASE ~(mid < m.mid_end)
    <3>1. mids = <<>>
      BY <1>5, <1>8, <2>1, <2>3, ChunkIs
    <3>2. Len(mids) = 0 /\ mids \in Seq(Nat) /\ Distinct(mids) /\ Range(mids) = {}
      BY <3>1, EmptySeq DEF Distinct, Range
    <3>3. mid .. mid + 0 - 1 = {}
      BY <1>5
    <3>. QED
      BY <2>3, <3>2, <3>3
  <2>. QED
    BY <2>2, <2>3
<1>10. HandOut(t, i, mids) /\ current_mid_' = mid + k
  BY <1>1, <1>4, <1>8, <1>9 DEF HandOutFresh
<1>11. HandedOut(n, i, mids)
  <2>1. n = current_sub_task_id_ /\ Asks(t) /\ mids \in Seq(Nat)
    BY <1>0, <1>2, <1>9
  <2>. QED
    BY <1>5, <1>10, <2>1, HandOutIs
<1>12. /\ n \in Nat /\ n \notin DOMAIN sub_tasks_
       /\ DOMAIN sub_tasks_' = DOMAIN sub_tasks_ \cup {n}
       /\ sub_tasks_'[n] = [main |-> i, mids |-> mids]
       /\ \A s \in DOMAIN sub_tasks_ : sub_tasks_'[s] = sub_tasks_[s]
       /\ Ending = {} /\ Ending' = {}
       /\ \A j : Place(j, n) = {}
       /\ \A j : \A x \in Int \ {Front, Failed} :
             Place(j, x)' = IF x = n /\ j = i THEN Range(mids) ELSE Place(j, x)
  BY <1>11 DEF HandedOut
<1>13. ThreadsOK' /\ CallOK'
  BY <1>2, <1>5, <1>9, <1>10, HandOutThreads
<1>14. UNCHANGED <<buff_, commit_error, mutex_, db, reported, Stored>>
  BY <1>10 DEF HandOut, Stored
<1>15. TypeOK'
  <2>1. current_mid_' \in Nat
    BY <1>5, <1>10
  <2>2. main_tasks_' \in [DOMAIN main_tasks_' ->
                            [mid_start : Nat, mid_end : Nat, completed : Nat]]
    <3>1. \A j \in DOMAIN main_tasks_' :
             main_tasks_'[j] \in [mid_start : Nat, mid_end : Nat, completed : Nat]
      BY <1>5, <1>7 DEF ClientInv, TypeOK
    <3>. QED
      BY <1>7, <3>1
  <2>3. DOMAIN main_tasks_' \subseteq {u.id : u \in Tasks}
    BY <1>3, <1>4, <1>7 DEF ClientInv, TypeOK
  <2>. QED
    BY <1>1, <1>2, <1>3, <1>5, <1>9, <1>10, <1>14, <2>1, <2>2, <2>3, HandOutType
       DEF ClientInv, TypeOK, flags
<1>16. TasksOK'
  <2>1. mid <= current_mid_'
    BY <1>5, <1>9, <1>10
  <2>2. ASSUME NEW u \in Tasks, u.id \in DOMAIN main_tasks_'
        PROVE  /\ main_tasks_'[u.id].mid_start = u.mid_start
               /\ main_tasks_'[u.id].mid_end = u.mid_end
               /\ u \notin pool'
    <3>1. CASE u.id = i
      <4>1. u = m
        BY <1>3, <1>4, <3>1, TasksAssumption
      <4>. QED
        BY <1>1, <1>4, <1>7, <4>1
    <3>2. CASE u.id # i
      BY <1>1, <1>7, <2>2, <3>2 DEF ClientInv, TasksOK
    <3>. QED
      BY <3>1, <3>2
  <2>. QED
    BY <1>1, <1>4, <1>7, <2>1, <2>2 DEF TasksOK
<1>17. \A s \in DOMAIN sub_tasks_ : sub_tasks_[s].main \in DOMAIN main_tasks_
  BY <1>12 DEF ClientInv, Referred
<1>18. Referred'
  <2>1. \A s \in DOMAIN sub_tasks_' : sub_tasks_'[s].main \in DOMAIN main_tasks_'
    BY <1>7, <1>12, <1>17
  <2>. QED
    BY <1>2, <1>7, <1>14, <2>1 DEF ClientInv, Referred
<1>19. SubTasksOK'
  <2>1. mids = <<>> => Span(main_tasks_'[i]) = {}
    BY <1>5, <1>7, <1>9 DEF Span
  <2>2. ASSUME NEW s \in DOMAIN sub_tasks_'
        PROVE  /\ Distinct(sub_tasks_'[s].mids)
               /\ sub_tasks_'[s].mids = <<>> => Span(main_tasks_'[sub_tasks_'[s].main]) = {}
    BY <1>7, <1>9, <1>12, <1>17, <2>1, <2>2 DEF ClientInv, SubTasksOK
  <2>. QED
    BY <2>2 DEF SubTasksOK, Distinct, Span
<1>20. QueuesOK'
  BY <1>2, <1>14 DEF ClientInv, QueuesOK
<1>21. \A j : /\ Place(j, Failed)' = {} /\ Place(j, Failed) = {}
              /\ Place(j, Front) = Ahead(j) /\ Place(j, Front)' = Ahead(j)'
  BY <1>2 DEF Place, Front, Failed, InQueue
<1>22. \A j : Ahead(j) = {} /\ (j # i => Ahead(j)' = {})
  <2>1. current_mid_ .. current_main_task_.mid_end - 1 = {}
    <3>1. current_mid_ \in Nat /\ current_main_task_.mid_end \in Nat
      BY TasksAssumption DEF ClientInv, TypeOK, MainTask
    <3>. QED
      BY <1>2, <3>1
  <2>. QED
    BY <1>1, <1>4, <2>1 DEF Ahead
<1>23. Books(i)'
  <2>1. Ahead(i)' = mid + k .. m.mid_end - 1
    BY <1>1, <1>4, <1>10 DEF Ahead
  <2>2. Front \in Int /\ Failed \in Int /\ Front # Failed /\ n # Front /\ n # Failed
    BY <1>12 DEF Front, Failed
  <2>3. ASSUME NEW x \in Int \ {Front, Failed, n}
        PROVE  Place(i, x) = {}
    <3>1. i \notin DOMAIN buff_["ok"] /\ i \notin DOMAIN buff_["none"]
      BY <1>6 DEF ClientInv, Referred
    <3>2. x \in DOMAIN sub_tasks_ => sub_tasks_[x].main # i
      BY <1>6, <1>17
    <3>. QED
      BY <3>1, <3>2 DEF Place, InQueue
  <2>4. ASSUME NEW x \in Int
        PROVE  Place(i, x)' = IF x = Front THEN mid + k .. m.mid_end - 1
                              ELSE IF x = n THEN mid .. mid + k - 1
                              ELSE {}
    BY <1>9, <1>12, <1>21, <2>1, <2>2, <2>3
  <2>5. Leased(i, mid, m.mid_end, k, n)
    BY <1>5, <1>7, <1>9, <1>12, <2>4 DEF Leased
  <2>. QED
    BY <2>5, NewBooks
<1>24. ASSUME NEW j \in DOMAIN main_tasks_
       PROVE  Books(j)'
  <2>1. \A x \in Int : Place(j, x)' = Place(j, x)
    BY <1>6, <1>12, <1>21, <1>22, <1>24
  <2>2. main_tasks_'[j] = main_tasks_[j] /\ Stored \subseteq Stored' /\ Books(j)
    BY <1>7, <1>14, <1>24 DEF ClientInv, BooksKept
  <2>. QED
    BY <2>1, <2>2, BooksSame
<1>25. BooksKept'
  BY <1>7, <1>23, <1>24 DEF BooksKept
<1>. QED
  BY <1>13, <1>15, <1>16, <1>18, <1>19, <1>20, <1>25 DEF ClientInv
-----------------------------------------------------------------------------
(* The steps of a call that move mids.                                     *)

LEMMA CommitIs ==
    ASSUME ClientInv, mutex_.op = "commit"
    PROVE  /\ mutex_ \in Call
           /\ mutex_.by \in Threads /\ pc[mutex_.by] = "crawled"
           /\ Job \in [id : Nat \cup {-1}, mids : Seq(Nat), ok : Seq(Nat), none : Seq(Nat),
                       error : Seq(Nat)]
           /\ Job.id \in DOMAIN sub_tasks_ /\ Job.id \in Nat
           /\ SortedOut(Job)
           /\ Ending = {Job.id}
           /\ \A t \in Threads : AtWork(t) /\ job[t].id = Job.id => t = mutex_.by
           /\ sub_tasks_[Job.id].main \in Nat
<1>1. mutex_ \in Call
  BY DEF ClientInv, TypeOK, NoCall, Call
<1>2. mutex_.by \in Threads
  BY <1>1 DEF Call
<1>3. pc[mutex_.by] = "crawled" /\ AtWork(mutex_.by)
  BY DEF ClientInv, CallOK, AtWork
<1>4. Ending = {Job.id}
  BY DEF Ending
<1>5. /\ Job.id \in DOMAIN sub_tasks_
      /\ SortedOut(Job)
      /\ \A t \in Threads : AtWork(t) /\ job[t].id = Job.id => t = mutex_.by
  BY <1>2, <1>3 DEF ClientInv, ThreadsOK, Job
<1>6. Job \in [id : Nat \cup {-1}, mids : Seq(Nat), ok : Seq(Nat), none : Seq(Nat),
               error : Seq(Nat)]
  BY <1>2 DEF ClientInv, TypeOK, Job
<1>7. Job.id \in Nat /\ sub_tasks_[Job.id].main \in Nat
  BY <1>5, <1>6 DEF ClientInv, TypeOK
<1>. QED
  BY <1>1, <1>2, <1>3, <1>4, <1>5, <1>6, <1>7

(* The results of one kind leave the sub task. *)
LEMMA BufferTakes ==
    ASSUME ClientInv, Buffer, NEW k, k = Kind, NEW s, s = Job.id, NEW q, q = Job[k]
    PROVE  /\ k \in Kinds /\ q \in Seq(Nat) /\ Distinct(q)
           /\ Range(q) \subseteq InHand(s)
           /\ InHand(s)' = InHand(s) \ Range(q)
           /\ mutex_' \in Call /\ UNCHANGED Ending
           /\ CallOK'
<1>1. At("buffer") /\ UNCHANGED <<sub_tasks_, pc, job>>
  BY DEF Buffer, threads
<1>2. mutex_.op = "commit"
  BY <1>1 DEF ClientInv, CallOK
<1>3. mutex_ \in Call /\ Ending = {s} /\ SortedOut(Job)
      /\ Job \in [id : Nat \cup {-1}, mids : Seq(Nat), ok : Seq(Nat), none : Seq(Nat),
                  error : Seq(Nat)]
  BY <1>2, CommitIs
<1>4. k \in {"ok", "none"} /\ k = mutex_.kind /\ mutex_.step = "buffer"
  BY <1>1, <1>3 DEF Kind, Kinds, At, Call
<1>5. mutex_' = [mutex_ EXCEPT !.step = "write"] \/ Proceed
  BY DEF Buffer
<1>6. /\ mutex_' \in Call /\ mutex_'.op = mutex_.op /\ mutex_'.by = mutex_.by
      /\ \/ mutex_'.kind = k /\ mutex_'.step = "write"
         \/ k = "ok" /\ mutex_'.kind = "none" /\ mutex_'.step = "buffer"
         \/ k = "none" /\ mutex_'.kind = "none" /\ mutex_'.step = "return"
  BY <1>2, <1>3, <1>4, <1>5 DEF Proceed, Call, Kind, Kinds
<1>7. UNCHANGED <<Ending, Job>>
  BY <1>1, <1>6 DEF Ending, Job
<1>8. CallOK'
  BY <1>1, <1>2, <1>6 DEF ClientInv, CallOK, At, Kind
<1>9. Ending' = {s} /\ Job' = Job
  BY <1>3, <1>7
<1>10. CASE k = "ok"
  <2>1. InHand(s) = Range(Job.ok) \cup Range(Job.none) \cup Range(Job.error)
    BY <1>3, <1>4, <1>10 DEF InHand, Kind, At
  <2>2. InHand(s)' = Range(Job.none) \cup Range(Job.error)
    <3>1. /\ Kind' = "ok" \/ At("buffer")'
          /\ ~(Kind' = "ok" /\ At("buffer")')
      BY <1>6, <1>10 DEF Kind, At
    <3>. QED
      BY <1>9, <3>1 DEF InHand
  <2>3. q = Job.ok
    BY <1>10
  <2>. QED
    BY <1>3, <1>4, <1>6, <1>7, <1>8, <2>1, <2>2, <2>3 DEF SortedOut, Kinds
<1>11. CASE k = "none"
  <2>1. InHand(s) = Range(Job.none) \cup Range(Job.error)
    BY <1>3, <1>4, <1>11 DEF InHand, Kind, At
  <2>2. InHand(s)' = Range(Job.error)
    <3>1. Kind' # "ok" /\ ~At("buffer")'
      BY <1>6, <1>11 DEF Kind, At
    <3>. QED
      BY <1>9, <3>1 DEF InHand
  <2>3. q = Job.none
    BY <1>11
  <2>. QED
    BY <1>3, <1>4, <1>6, <1>7, <1>8, <2>1, <2>2, <2>3 DEF SortedOut, Kinds
<1>. QED
  BY <1>4, <1>10, <1>11

LEMMA BufferKeeps ==
    ASSUME ClientInv, Buffer
    PROVE  ClientInv'
<1>0. PICK k, s : k = Kind /\ s = Job.id
  OBVIOUS
<1>1. PICK q, i : q = Job[k] /\ i = sub_tasks_[s].main
  OBVIOUS
<1>2. /\ UNCHANGED <<flags, main_tasks_, dispatch, sub_tasks_, error_mids_, commit_error,
                     threads, outside>>
      /\ At("buffer")
      /\ buff_' = [buff_ EXCEPT ![k] = IF q = <<>> THEN buff_[k]
                                       ELSE AppendTo(buff_[k], i, q)]
  BY <1>0, <1>1 DEF Buffer, MainOfJob
<1>3. /\ k \in Kinds /\ q \in Seq(Nat) /\ Distinct(q)
      /\ Range(q) \subseteq InHand(s)
      /\ InHand(s)' = InHand(s) \ Range(q)
      /\ mutex_' \in Call /\ UNCHANGED Ending
      /\ CallOK'
  BY <1>0, <1>1, BufferTakes
<1>4. mutex_.op = "commit"
  BY <1>2 DEF ClientInv, CallOK
<1>5. s \in DOMAIN sub_tasks_ /\ s \in Nat /\ Ending = {s} /\ i \in Nat
  BY <1>0, <1>1, <1>4, CommitIs
<1>6. UNCHANGED <<current_main_task_, current_mid_, pc, job, pool, Stored>>
  BY <1>2 DEF dispatch, threads, outside, Stored
<1>7. \A x : x # s => InHand(x)' = InHand(x)
  BY <1>2, <1>3, <1>5 DEF InHand
<1>8. q # <<>> => i \in DOMAIN main_tasks_
  BY <1>1, <1>3, <1>5, RangeIs DEF ClientInv, Referred
<1>9. /\ Queue(buff_["ok"]) /\ Queue(buff_["none"])
      /\ DOMAIN buff_["ok"] \subseteq DOMAIN main_tasks_
      /\ DOMAIN buff_["none"] \subseteq DOMAIN main_tasks_
  BY DEF ClientInv, QueuesOK, Referred
<1>10. DOMAIN buff_ = Kinds
  BY DEF ClientInv, TypeOK
<1>11. q # <<>> => InQueue(buff_[k], i) \cap Range(q) = {}
  <2>. SUFFICES ASSUME q # <<>>, NEW m \in Range(q), m \in InQueue(buff_[k], i)
       PROVE  FALSE
    OBVIOUS
  <2>1. Apart(i)
    BY <1>8 DEF ClientInv, BooksKept, Books
  <2>2. m \in Place(i, s)
    BY <1>1, <1>3, <1>5, PlaceIs
  <2>3. m \in Place(i, Kept(k))
    BY <1>3, PlaceIs DEF Kinds, Kept
  <2>4. m \in Nat /\ Kept(k) \in Int /\ Kept(k) # s
    BY <1>3, <1>5, RangeIs DEF Kept
  <2>. QED
    BY <1>5, <2>1, <2>2, <2>3, <2>4 DEF Apart
<1>12. PICK b : b = IF q = <<>> THEN buff_[k] ELSE AppendTo(buff_[k], i, q)
  OBVIOUS
<1>13. /\ Queue(b) /\ DOMAIN b \subseteq DOMAIN main_tasks_
       /\ \A j : InQueue(b, j) = IF j = i THEN InQueue(buff_[k], j) \cup Range(q)
                                 ELSE InQueue(buff_[k], j)
  <2>1. CASE q = <<>>
    BY <1>3, <1>9, <1>12, <2>1, RangeIs DEF Kinds
  <2>2. CASE q # <<>>
    <3>1. b = AppendTo(buff_[k], i, q) /\ Queue(buff_[k])
          /\ InQueue(buff_[k], i) \cap Range(q) = {}
      BY <1>3, <1>9, <1>11, <1>12, <2>2 DEF Kinds
    <3>2. q \in Seq(Nat) /\ Distinct(q) /\ q # <<>>
      BY <1>3, <2>2
    <3>3. Appended(buff_[k], i, q, b)
      BY <3>1, <3>2, QueueAppend
    <3>. QED
      BY <1>3, <1>8, <1>9, <2>2, <3>3 DEF Kinds, Appended
  <2>. QED
    BY <2>1, <2>2
<1>14. /\ DOMAIN buff_' = Kinds /\ buff_'[k] = b
       /\ \A x \in Kinds : x # k => buff_'[x] = buff_[x]
  BY <1>2, <1>3, <1>10, <1>12
<1>15. /\ Queue(buff_'["ok"]) /\ Queue(buff_'["none"])
       /\ DOMAIN buff_'["ok"] \subseteq DOMAIN main_tasks_
       /\ DOMAIN buff_'["none"] \subseteq DOMAIN main_tasks_
  BY <1>3, <1>9, <1>13, <1>14 DEF Kinds
<1>16. TypeOK'
  <2>1. \A kind \in Kinds : buff_'[kind] \in [DOMAIN buff_'[kind] -> Seq(Nat)]
    BY <1>15 DEF Kinds, Queue
  <2>. QED
    BY <1>2, <1>3, <1>14, <2>1 DEF ClientInv, TypeOK, Call, flags, dispatch, threads, outside
<1>17. TasksOK'
  BY <1>2, <1>6 DEF ClientInv, TasksOK
<1>18. ThreadsOK'
  BY <1>2, <1>6 DEF ClientInv, ThreadsOK, AtWork, SortedOut, Distinct
<1>19. SubTasksOK'
  BY <1>2 DEF ClientInv, SubTasksOK, Distinct, Span
<1>20. QueuesOK'
  BY <1>2, <1>15 DEF ClientInv, QueuesOK
<1>21. Referred'
  BY <1>2, <1>3, <1>5, <1>15 DEF ClientInv, Referred
<1>22. \A j : \A x \in Int \ {s, Kept(k)} : Place(j, x)' = Place(j, x)
  <2>. SUFFICES ASSUME NEW j, NEW x \in Int \ {s, Kept(k)}
       PROVE  Place(j, x)' = Place(j, x)
    OBVIOUS
  <2>1. CASE x = Front \/ x = Failed
    BY <1>2, <1>6, <2>1 DEF Place, Front, Failed, Ahead, InQueue
  <2>2. CASE x = -3 \/ x = -4
    BY <1>3, <1>14, <2>2 DEF Place, Front, Failed, Kept, Kinds, InQueue
  <2>3. CASE x \notin {-1, -2, -3, -4}
    BY <1>2, <1>7, <2>3 DEF Place, Front, Failed
  <2>. QED
    BY <2>1, <2>2, <2>3 DEF Front, Failed
<1>23. \A j : /\ Place(j, Kept(k)) = InQueue(buff_[k], j)
              /\ Place(j, Kept(k))' = InQueue(b, j)
  BY <1>3, <1>14 DEF Place, Front, Failed, Kept, Kinds
<1>24. \A j : /\ Place(j, s) = IF j = i THEN InHand(s) ELSE {}
              /\ Place(j, s)' = IF j = i THEN InHand(s)' ELSE {}
  BY <1>1, <1>2, <1>5 DEF Place, Front, Failed
<1>25. ASSUME i \in DOMAIN main_tasks_
       PROVE  Books(i)'
  <2>1. /\ s \in Int \ {Kept("ok"), Kept("none")} /\ Kept(k) \in Int /\ s # Kept(k)
    BY <1>3, <1>5 DEF Kept
  <2>2. ASSUME NEW x \in Int
        PROVE  Place(i, x)' = IF x = s THEN Place(i, x) \ Range(q)
                              ELSE IF x = Kept(k) THEN Place(i, x) \cup Range(q)
                              ELSE Place(i, x)
    BY <1>3, <1>13, <1>22, <1>23, <1>24
  <2>3. Move(i, s, Kept(k), Range(q))
    BY <1>3, <1>24, <2>1, <2>2 DEF Move
  <2>4. main_tasks_'[i] = main_tasks_[i] /\ Stored \subseteq Stored' /\ Books(i)
    BY <1>2, <1>6, <1>25 DEF ClientInv, BooksKept
  <2>. QED
    BY <2>3, <2>4, BooksMove
<1>26. ASSUME NEW j \in DOMAIN main_tasks_, j # i
       PROVE  Books(j)'
  <2>1. \A x \in Int : Place(j, x)' = Place(j, x)
    BY <1>13, <1>22, <1>23, <1>24, <1>26
  <2>2. main_tasks_'[j] = main_tasks_[j] /\ Stored \subseteq Stored' /\ Books(j)
    BY <1>2, <1>6, <1>26 DEF ClientInv, BooksKept
  <2>. QED
    BY <2>1, <2>2, BooksSame
<1>27. BooksKept'
  BY <1>2, <1>25, <1>26 DEF BooksKept
<1>. QED
  BY <1>3, <1>16, <1>17, <1>18, <1>19, <1>20, <1>21, <1>27 DEF ClientInv

LEMMA CommitReturnsKeeps ==
    ASSUME ClientInv, CommitReturns
    PROVE  ClientInv'
<1>0. PICK s, u : s = Job.id /\ u = mutex_.by
  OBVIOUS
<1>1. PICK q, i : q = Job.error /\ i = sub_tasks_[s].main
  OBVIOUS
<1>2. /\ At("return") /\ mutex_.op = "commit" /\ mutex_' = NoCall
      /\ commit_error' = commit_error + Len(q)
      /\ error_mids_' = IF q = <<>> THEN error_mids_ ELSE AppendTo(error_mids_, i, q)
      /\ sub_tasks_' = Drop(sub_tasks_, s)
      /\ pc' = [pc EXCEPT ![u] = "idle"]
      /\ job' = [job EXCEPT ![u] = NoJob]
      /\ UNCHANGED <<flags, main_tasks_, dispatch, buff_, outside>>
  BY <1>0, <1>1 DEF CommitReturns, MainOfJob
<1>3. /\ u \in Threads /\ s \in DOMAIN sub_tasks_ /\ s \in Nat /\ i \in Nat /\ Ending = {s}
      /\ SortedOut(Job)
      /\ Job \in [id : Nat \cup {-1}, mids : Seq(Nat), ok : Seq(Nat), none : Seq(Nat),
                  error : Seq(Nat)]
      /\ \A t \in Threads : AtWork(t) /\ job[t].id = s => t = u
  BY <1>0, <1>1, <1>2, CommitIs
<1>4. q \in Seq(Nat) /\ Distinct(q)
  BY <1>1, <1>3 DEF SortedOut
<1>5. InHand(s) = Range(q)
  <2>1. Kind # "ok" /\ ~At("buffer")
    BY <1>2 DEF ClientInv, CallOK, At
  <2>. QED
    BY <1>1, <1>3, <2>1 DEF InHand
<1>6. /\ DOMAIN sub_tasks_' = DOMAIN sub_tasks_ \ {s}
      /\ \A x \in DOMAIN sub_tasks_' : sub_tasks_'[x] = sub_tasks_[x]
      /\ sub_tasks_' = [x \in DOMAIN sub_tasks_' |-> sub_tasks_'[x]]
  BY <1>2 DEF Drop, Restrict
<1>7. Ending' = {} /\ CallOK'
  BY <1>2 DEF Ending, CallOK, At, Kind, NoCall
<1>8. \A x \in DOMAIN sub_tasks_' : InHand(x)' = InHand(x)
  BY <1>3, <1>6, <1>7 DEF InHand
<1>9. UNCHANGED <<current_main_task_, current_mid_, pool, Stored, db>>
  BY <1>2 DEF dispatch, outside, Stored
<1>10. q # <<>> => i \in DOMAIN main_tasks_
  BY <1>1, <1>3, <1>4, <1>5, RangeIs DEF ClientInv, Referred
<1>11. q # <<>> => InQueue(error_mids_, i) \cap Range(q) = {}
  <2>. SUFFICES ASSUME q # <<>>, NEW m \in Range(q), m \in InQueue(error_mids_, i)
       PROVE  FALSE
    OBVIOUS
  <2>1. Apart(i)
    BY <1>10 DEF ClientInv, BooksKept, Books
  <2>2. m \in Place(i, s)
    BY <1>1, <1>3, <1>5, PlaceIs
  <2>3. m \in Place(i, Failed)
    BY PlaceIs
  <2>4. m \in Nat /\ Failed \in Int /\ Failed # s
    BY <1>3, <1>4, RangeIs DEF Failed
  <2>. QED
    BY <1>3, <2>1, <2>2, <2>3, <2>4 DEF Apart
<1>12. /\ Queue(error_mids_') /\ DOMAIN error_mids_' \subseteq DOMAIN main_tasks_
       /\ \A j : InQueue(error_mids_', j) = IF j = i THEN InQueue(error_mids_, j) \cup Range(q)
                                            ELSE InQueue(error_mids_, j)
  <2>0. Queue(error_mids_) /\ DOMAIN error_mids_ \subseteq DOMAIN main_tasks_
    BY DEF ClientInv, QueuesOK, Referred
  <2>1. CASE q = <<>>
    BY <1>2, <1>4, <2>0, <2>1, RangeIs
  <2>2. CASE q # <<>>
    <3>1. error_mids_' = AppendTo(error_mids_, i, q) /\ InQueue(error_mids_, i) \cap Range(q) = {}
      BY <1>2, <1>11, <2>2
    <3>2. Appended(error_mids_, i, q, error_mids_')
      BY <1>4, <2>0, <2>2, <3>1, QueueAppend
    <3>. QED
      BY <1>10, <2>0, <2>2, <3>2 DEF Appended
  <2>. QED
    BY <2>1, <2>2
<1>13. TypeOK'
  <2>1. NoJob \in [id : Nat \cup {-1}, mids : Seq(Nat), ok : Seq(Nat), none : Seq(Nat),
                   error : Seq(Nat)]
    BY EmptySeq DEF NoJob
  <2>2. job' \in [Threads -> [id : Nat \cup {-1}, mids : Seq(Nat), ok : Seq(Nat),
                              none : Seq(Nat), error : Seq(Nat)]]
    BY <1>2, <2>1 DEF ClientInv, TypeOK
  <2>3. pc' \in [Threads -> {"idle", "working", "crawled", "refused", "exited"}]
    BY <1>2 DEF ClientInv, TypeOK
  <2>4. sub_tasks_' \in [DOMAIN sub_tasks_' -> [main : Nat, mids : Seq(Nat)]]
    BY <1>6 DEF ClientInv, TypeOK
  <2>5. DOMAIN sub_tasks_' \subseteq 0 .. current_sub_task_id_ - 1
    BY <1>6 DEF ClientInv, TypeOK
  <2>6. commit_error' \in Nat
    BY <1>2, <1>4, LenProperties DEF ClientInv, TypeOK
  <2>7. error_mids_' \in [DOMAIN error_mids_' -> Seq(Nat)]
    BY <1>12 DEF Queue
  <2>. QED
    BY <1>2, <2>2, <2>3, <2>4, <2>5, <2>6, <2>7 DEF ClientInv, TypeOK, flags, dispatch, outside
<1>14. ThreadsOK'
  <2>1. \A t \in Threads : t # u => job'[t] = job[t] /\ pc'[t] = pc[t]
    BY <1>2 DEF ClientInv, TypeOK
  <2>2. pc'[u] = "idle"
    BY <1>2, <1>3 DEF ClientInv, TypeOK
  <2>3. \A t \in Threads : AtWork(t)' => t # u /\ AtWork(t)
    BY <2>1, <2>2 DEF AtWork
  <2>4. \A t \in Threads : AtWork(t) =>
              /\ job[t].id \in DOMAIN sub_tasks_
              /\ job[t].mids = sub_tasks_[job[t].id].mids
              /\ \A v \in Threads : AtWork(v) /\ job[v].id = job[t].id => v = t
    BY DEF ClientInv, ThreadsOK
  <2>5. ASSUME NEW t \in Threads, AtWork(t)'
        PROVE  /\ job'[t].id \in DOMAIN sub_tasks_'
               /\ job'[t].mids = sub_tasks_'[job'[t].id].mids
               /\ \A v \in Threads : AtWork(v)' /\ job'[v].id = job'[t].id => v = t
    <3>1. t # u /\ AtWork(t) /\ job'[t] = job[t] /\ job[t].id # s
      BY <1>3, <2>1, <2>3, <2>5
    <3>2. job[t].id \in DOMAIN sub_tasks_'
      BY <1>6, <2>4, <3>1
    <3>. QED
      BY <1>6, <2>1, <2>3, <2>4, <3>1, <3>2
  <2>6. \A t \in Threads : pc'[t] = "crawled" => SortedOut(job'[t])
    BY <2>1, <2>2 DEF ClientInv, ThreadsOK
  <2>. QED
    BY <2>5, <2>6 DEF ThreadsOK
<1>15. TasksOK'
  BY <1>2, <1>9 DEF ClientInv, TasksOK
<1>16. Referred'
  <2>1. \A x \in DOMAIN sub_tasks_' : sub_tasks_'[x].main \in DOMAIN main_tasks_
    BY <1>3, <1>6 DEF ClientInv, Referred
  <2>. QED
    BY <1>2, <1>12, <2>1 DEF ClientInv, Referred
<1>17. SubTasksOK'
  <2>1. ASSUME NEW x \in DOMAIN sub_tasks_'
        PROVE  /\ Distinct(sub_tasks_'[x].mids)
               /\ sub_tasks_'[x].mids = <<>> /\ sub_tasks_'[x].main \in DOMAIN main_tasks_ =>
                     Span(main_tasks_[sub_tasks_'[x].main]) = {}
    BY <1>6, <2>1 DEF ClientInv, SubTasksOK
  <2>. QED
    BY <1>2, <2>1 DEF SubTasksOK, Distinct, Span
<1>18. QueuesOK'
  BY <1>2, <1>12 DEF ClientInv, QueuesOK
<1>19. \A j : /\ Place(j, Failed) = InQueue(error_mids_, j)
              /\ Place(j, Failed)' = InQueue(error_mids_', j)
              /\ Place(j, s) = IF j = i THEN Range(q) ELSE {}
              /\ Place(j, s)' = {}
  BY <1>1, <1>3, <1>5, <1>6 DEF Place, Front, Failed
<1>20. \A j : \A x \in Int \ {s, Failed} : Place(j, x)' = Place(j, x)
  <2>. SUFFICES ASSUME NEW j, NEW x \in Int \ {s, Failed}
       PROVE  Place(j, x)' = Place(j, x)
    OBVIOUS
  <2>1. CASE x \in {-1, -3, -4}
    BY <1>2, <1>9, <2>1 DEF Place, Front, Failed, Ahead, InQueue
  <2>2. CASE x \notin {-1, -2, -3, -4}
    BY <1>6, <1>8, <2>2 DEF Place, Front, Failed
  <2>. QED
    BY <2>1, <2>2 DEF Failed
<1>21. ASSUME i \in DOMAIN main_tasks_
       PROVE  Books(i)'
  <2>1. s \in Int \ {Kept("ok"), Kept("none")} /\ Failed \in Int /\ s # Failed
    BY <1>3 DEF Kept, Failed
  <2>2. ASSUME NEW x \in Int
        PROVE  Place(i, x)' = IF x = s THEN Place(i, x) \ Range(q)
                              ELSE IF x = Failed THEN Place(i, x) \cup Range(q)
                              ELSE Place(i, x)
    BY <1>12, <1>19, <1>20
  <2>3. Move(i, s, Failed, Range(q))
    BY <1>19, <2>1, <2>2 DEF Move
  <2>4. main_tasks_'[i] = main_tasks_[i] /\ Stored \subseteq Stored' /\ Books(i)
    BY <1>2, <1>9, <1>21 DEF ClientInv, BooksKept
  <2>. QED
    BY <2>3, <2>4, BooksMove
<1>22. ASSUME NEW j \in DOMAIN main_tasks_, j # i
       PROVE  Books(j)'
  <2>1. \A x \in Int : Place(j, x)' = Place(j, x)
    BY <1>12, <1>19, <1>20, <1>22
  <2>2. main_tasks_'[j] = main_tasks_[j] /\ Stored \subseteq Stored' /\ Books(j)
    BY <1>2, <1>9, <1>22 DEF ClientInv, BooksKept
  <2>. QED
    BY <2>1, <2>2, BooksSame
<1>23. BooksKept'
  BY <1>2, <1>21, <1>22 DEF BooksKept
<1>. QED
  BY <1>7, <1>13, <1>14, <1>15, <1>16, <1>17, <1>18, <1>23 DEF ClientInv
-----------------------------------------------------------------------------
(* The count of the records, and the commit of a main task.                *)

LEMMA PlacesAreFinite ==
    ASSUME ClientInv, NEW i \in DOMAIN main_tasks_
    PROVE  /\ Everywhere(i) \subseteq Span(main_tasks_[i])
           /\ IsFiniteSet(Everywhere(i)) /\ Cardinality(Everywhere(i)) \in Nat
           /\ main_tasks_[i] \in [mid_start : Nat, mid_end : Nat, completed : Nat]
           /\ Size(i) \in Int
<1>1. main_tasks_[i] \in [mid_start : Nat, mid_end : Nat, completed : Nat]
  BY DEF ClientInv, TypeOK
<1>2. Within(i)
  BY DEF ClientInv, BooksKept, Books
<1>3. Everywhere(i) \subseteq Span(main_tasks_[i])
  BY <1>2 DEF Within, Everywhere
<1>4. IsFiniteSet(Span(main_tasks_[i]))
  BY <1>1, FS_Interval DEF Span
<1>5. IsFiniteSet(Everywhere(i))
  BY <1>3, <1>4, FS_Subset
<1>6. Cardinality(Everywhere(i)) \in Nat
  BY <1>5, FS_CardinalityType
<1>7. Size(i) \in Int
  BY <1>1 DEF Size
<1>. QED
  BY <1>1, <1>3, <1>5, <1>6, <1>7

(* The records R of main task i that are counted are those in one buffer, and *)
(* they are in the database.                                                  *)
ToCount(i, k, R) ==
    /\ k = Kind /\ k \in Kinds /\ mutex_ \in Call
    /\ i \in DOMAIN buff_[k] /\ i \in DOMAIN main_tasks_ /\ i \in Nat
    /\ R = Range(buff_[k][i]) /\ R = Place(i, Kept(k)) /\ Kept(k) \in Int
    /\ R # {} /\ R \subseteq Everywhere(i) /\ R \subseteq Stored
    /\ IsFiniteSet(R) /\ Cardinality(R) \in Nat
    /\ Completed = main_tasks_[i].completed + Cardinality(R)
    /\ IsCompleted <=> Completed >= Size(i)

LEMMA CountsIs ==
    ASSUME ClientInv, NEW i, Counts(i), NEW k, k = Kind, NEW R, R = Range(buff_[k][i])
    PROVE  ToCount(i, k, R)
<1>1. /\ At("count") /\ DOMAIN buff_[k] # {} /\ i = Counted /\ i \in DOMAIN main_tasks_
      /\ Counted = Least(DOMAIN buff_[k])
  BY DEF Counts, Counted
<1>2. mutex_ \in Call /\ k \in Kinds
  BY <1>1 DEF ClientInv, TypeOK, At, NoCall, Call, Kind
<1>3. Queue(buff_[k]) /\ DOMAIN buff_[k] \subseteq DOMAIN main_tasks_
  BY <1>2 DEF ClientInv, QueuesOK, Referred, Kinds
<1>4. DOMAIN buff_[k] \subseteq Nat
  BY <1>3, IdsAreNat
<1>5. i \in DOMAIN buff_[k] /\ i \in Nat
  BY <1>1, <1>4, LeastIsIn
<1>6. buff_[k][i] \in Seq(Nat) /\ buff_[k][i] # <<>> /\ Distinct(buff_[k][i])
  BY <1>3, <1>5 DEF Queue
<1>7. R \subseteq Nat /\ R # {}
  BY <1>6, RangeIs
<1>8. IsFiniteSet(R) /\ Cardinality(R) = Len(buff_[k][i]) /\ Cardinality(R) \in Nat
  BY <1>6, DistinctCount, LenProperties
<1>9. R = Place(i, Kept(k)) /\ Kept(k) \in Int
  BY <1>2, <1>5 DEF Place, Front, Failed, Kept, Kinds, InQueue
<1>10. R \subseteq Everywhere(i)
  BY <1>7, <1>9 DEF Everywhere
<1>11. R \subseteq Stored
  <2>1. R \subseteq Buffered(k)
    BY <1>5 DEF Buffered
  <2>2. Buffered(k) \subseteq db[k]
    BY <1>1 DEF ClientInv, CallOK
  <2>. QED
    BY <1>2, <2>1, <2>2 DEF Stored, Kinds
<1>12. Completed = main_tasks_[i].completed + Cardinality(R)
  BY <1>1, <1>8 DEF Completed
<1>13. IsCompleted <=> Completed >= Size(i)
  BY <1>1 DEF IsCompleted, Size
<1>. QED
  BY <1>1, <1>2, <1>5, <1>7, <1>8, <1>9, <1>10, <1>11, <1>12, <1>13 DEF ToCount

(* A main task that is completed by the records has no mids but these. *)
LEMMA CompletedIs ==
    ASSUME ClientInv, NEW i, NEW k, NEW R, ToCount(i, k, R), IsCompleted
    PROVE  /\ Span(main_tasks_[i]) \subseteq Stored
           /\ \A p \in Int \ {Kept(k)} : Place(i, p) = {}
<1>1. /\ i \in DOMAIN main_tasks_ /\ k \in Kinds
      /\ R = Place(i, Kept(k)) /\ Kept(k) \in Int
      /\ R # {} /\ R \subseteq Everywhere(i) /\ R \subseteq Stored
      /\ IsFiniteSet(R) /\ Cardinality(R) \in Nat
      /\ main_tasks_[i].completed + Cardinality(R) >= Size(i)
  BY DEF ToCount
<1>2. Apart(i) /\ Within(i) /\ Accounted(i)
  BY <1>1 DEF ClientInv, BooksKept, Books
<1>3. /\ IsFiniteSet(Everywhere(i)) /\ Cardinality(Everywhere(i)) \in Nat
      /\ main_tasks_[i].completed \in Nat /\ Size(i) \in Int
      /\ Everywhere(i) \subseteq Span(main_tasks_[i])
  BY <1>1, PlacesAreFinite
<1>4. CASE main_tasks_[i].completed < Size(i)
  <2>1. /\ main_tasks_[i].completed + Cardinality(Everywhere(i)) = Size(i)
        /\ Span(main_tasks_[i]) \ Everywhere(i) \subseteq Stored
    BY <1>2, <1>4 DEF Accounted
  <2>2. Cardinality(R) >= Cardinality(Everywhere(i))
    BY <1>1, <1>3, <2>1
  <2>3. R = Everywhere(i)
    <3>1. Cardinality(R) <= Cardinality(Everywhere(i))
          /\ (Cardinality(R) = Cardinality(Everywhere(i)) => R = Everywhere(i))
      BY <1>1, <1>3, FS_Subset
    <3>. QED
      BY <1>1, <1>3, <2>2, <3>1
  <2>4. Span(main_tasks_[i]) \subseteq Stored
    BY <1>1, <2>1, <2>3
  <2>5. ASSUME NEW p \in Int \ {Kept(k)}, NEW m \in Place(i, p)
        PROVE  FALSE
    <3>1. m \in Nat
      <4>1. m \in Span(main_tasks_[i])
        BY <1>2, <2>5 DEF Within
      <4>2. main_tasks_[i].mid_start \in Nat /\ main_tasks_[i].mid_end \in Nat
        BY <1>1, PlacesAreFinite
      <4>. QED
        BY <4>1, <4>2 DEF Span
    <3>2. m \in Everywhere(i)
      BY <2>5, <3>1 DEF Everywhere
    <3>3. m \in Place(i, Kept(k))
      BY <1>1, <2>3, <3>2
    <3>. QED
      BY <1>1, <1>2, <2>5, <3>1, <3>3 DEF Apart
  <2>. QED
    BY <2>4, <2>5
<1>5. CASE ~(main_tasks_[i].completed < Size(i))
  <2>1. PICK kind \in Kinds :
           /\ Span(main_tasks_[i]) \subseteq Stored
           /\ \A p \in Int \ {Kept(kind)} : Place(i, p) = {}
    BY <1>2, <1>5 DEF Accounted
  <2>2. Kept(kind) = Kept(k)
    BY <1>1, <2>1
  <2>. QED
    BY <2>1, <2>2
<1>. QED
  BY <1>4, <1>5

(* The records of main task i leave the buffer. *)
RecordsGone(i, k) ==
    /\ DOMAIN buff_' = Kinds
    /\ \A kind \in Kinds : Queue(buff_'[kind]) /\ DOMAIN buff_'[kind] \subseteq DOMAIN buff_[kind]
    /\ i \notin DOMAIN buff_'[k]
    /\ CallOK'
    /\ UNCHANGED Ending
    /\ \A s : InHand(s)' = InHand(s)
    /\ \A j : \A x \in Int :
          Place(j, x)' = IF j = i /\ x = Kept(k) THEN {} ELSE Place(j, x)

LEMMA RecordsLeave ==
    ASSUME ClientInv, NEW i, NEW k, NEW R, ToCount(i, k, R),
           buff_' = [buff_ EXCEPT ![k] = Drop(@, i)],
           UNCHANGED <<dispatch, sub_tasks_, error_mids_, threads, mutex_, db>>
    PROVE  RecordsGone(i, k)
<1>1. k = Kind /\ k \in Kinds
  BY DEF ToCount
<1>2. UNCHANGED <<current_main_task_, current_mid_, pc, job>>
  BY DEF dispatch, threads
<1>3. DOMAIN buff_ = Kinds /\ Queue(buff_["ok"]) /\ Queue(buff_["none"])
  BY DEF ClientInv, TypeOK, QueuesOK
<1>4. /\ DOMAIN buff_' = Kinds /\ buff_'[k] = Drop(buff_[k], i)
      /\ \A kind \in Kinds : kind # k => buff_'[kind] = buff_[kind]
  BY <1>1, <1>3
<1>5. /\ DOMAIN buff_'[k] = DOMAIN buff_[k] \ {i}
      /\ \A j \in DOMAIN buff_'[k] : buff_'[k][j] = buff_[k][j]
      /\ \A j : InQueue(buff_'[k], j) = IF j = i THEN {} ELSE InQueue(buff_[k], j)
  BY <1>4 DEF Drop, Restrict, InQueue
<1>6. Queue(buff_'[k])
  BY <1>1, <1>3, <1>4, QueueDrop DEF Kinds
<1>7. \A kind \in Kinds : Queue(buff_'[kind]) /\ DOMAIN buff_'[kind] \subseteq DOMAIN buff_[kind]
  BY <1>3, <1>4, <1>5, <1>6 DEF Kinds
<1>8. UNCHANGED <<Ending, Job, Kind>>
  BY <1>2 DEF Ending, Job, Kind
<1>9. \A s : InHand(s)' = InHand(s)
  BY <1>8 DEF InHand, At
<1>10. CallOK'
  <2>1. Buffered(Kind)' \subseteq Buffered(Kind)
    BY <1>1, <1>5, <1>8 DEF Buffered
  <2>. QED
    BY <1>2, <1>8, <2>1 DEF ClientInv, CallOK, At
<1>11. ASSUME NEW j, NEW x \in Int
       PROVE  Place(j, x)' = IF j = i /\ x = Kept(k) THEN {} ELSE Place(j, x)
  <2>1. CASE x = Kept(k)
    <3>1. Place(j, x) = InQueue(buff_[k], j) /\ Place(j, x)' = InQueue(buff_'[k], j)
      BY <1>1, <2>1 DEF Place, Front, Failed, Kept, Kinds
    <3>. QED
      BY <1>5, <2>1, <3>1
  <2>2. CASE x \in {-3, -4} /\ x # Kept(k)
    BY <1>1, <1>4, <2>2 DEF Place, Front, Failed, Kept, Kinds, InQueue
  <2>3. CASE x \in {-1, -2}
    <3>1. x # Kept(k)
      BY <2>3 DEF Kept
    <3>. QED
      BY <1>2, <2>3, <3>1 DEF Place, Front, Failed, Ahead, InQueue
  <2>4. CASE x \notin {-1, -2, -3, -4}
    <3>1. x # Kept(k)
      BY <2>4 DEF Kept
    <3>. QED
      BY <1>9, <2>4, <3>1 DEF Place, Front, Failed
  <2>. QED
    BY <2>1, <2>2, <2>3, <2>4
<1>. QED
  BY <1>4, <1>5, <1>7, <1>8, <1>9, <1>10, <1>11 DEF RecordsGone

LEMMA CountRecordsKeeps ==
    ASSUME ClientInv, NEW i, CountRecords(i)
    PROVE  ClientInv'
<1>0. PICK k, R : k = Kind /\ R = Range(buff_[k][i])
  OBVIOUS
<1>1. /\ Counts(i) /\ ~IsCompleted
      /\ main_tasks_' = [main_tasks_ EXCEPT ![i].completed = Completed]
      /\ buff_' = [buff_ EXCEPT ![k] = Drop(@, i)]
      /\ UNCHANGED <<flags, dispatch, sub_tasks_, error_mids_, commit_error, threads, pool, db,
                     mutex_, reported>>
  BY <1>0 DEF CountRecords, Counts
<1>2. ToCount(i, k, R)
  BY <1>0, <1>1, CountsIs
<1>3. /\ k \in Kinds /\ i \in DOMAIN main_tasks_
      /\ R = Place(i, Kept(k)) /\ Kept(k) \in Int
      /\ R \subseteq Everywhere(i) /\ R \subseteq Stored
      /\ IsFiniteSet(R) /\ Cardinality(R) \in Nat
      /\ Completed = main_tasks_[i].completed + Cardinality(R)
      /\ ~(Completed >= Size(i))
  BY <1>1, <1>2 DEF ToCount
<1>4. RecordsGone(i, k)
  BY <1>1, <1>2, RecordsLeave
<1>5. /\ DOMAIN buff_' = Kinds
      /\ \A kind \in Kinds : Queue(buff_'[kind]) /\ DOMAIN buff_'[kind] \subseteq DOMAIN buff_[kind]
      /\ CallOK' /\ UNCHANGED Ending /\ \A s : InHand(s)' = InHand(s)
      /\ \A j : \A x \in Int :
            Place(j, x)' = IF j = i /\ x = Kept(k) THEN {} ELSE Place(j, x)
  BY <1>4 DEF RecordsGone
<1>6. UNCHANGED <<current_main_task_, current_mid_, pc, job, Stored>>
  BY <1>1 DEF dispatch, threads, Stored
<1>7. /\ main_tasks_[i] \in [mid_start : Nat, mid_end : Nat, completed : Nat]
      /\ IsFiniteSet(Everywhere(i)) /\ Cardinality(Everywhere(i)) \in Nat
      /\ Size(i) \in Int /\ Completed \in Nat
  BY <1>3, PlacesAreFinite
<1>8. /\ main_tasks_ = [j \in DOMAIN main_tasks_ |-> main_tasks_[j]]
      /\ DOMAIN main_tasks_' = DOMAIN main_tasks_
      /\ \A j \in DOMAIN main_tasks_ :
            /\ main_tasks_'[j].mid_start = main_tasks_[j].mid_start
            /\ main_tasks_'[j].mid_end = main_tasks_[j].mid_end
            /\ j # i => main_tasks_'[j] = main_tasks_[j]
      /\ main_tasks_'[i].completed = Completed
  BY <1>1, <1>3 DEF ClientInv, TypeOK
<1>9. main_tasks_' \in [DOMAIN main_tasks_' ->
                          [mid_start : Nat, mid_end : Nat, completed : Nat]]
  <2>1. main_tasks_ \in [DOMAIN main_tasks_ ->
                           [mid_start : Nat, mid_end : Nat, completed : Nat]]
    BY DEF ClientInv, TypeOK
  <2>. QED
    BY <1>1, <1>3, <1>7, <2>1
<1>10. TypeOK'
  <2>1. \A kind \in Kinds : buff_'[kind] \in [DOMAIN buff_'[kind] -> Seq(Nat)]
    BY <1>5 DEF Queue
  <2>. QED
    BY <1>1, <1>5, <1>8, <1>9, <2>1 DEF ClientInv, TypeOK, flags, dispatch, threads
<1>11. TasksOK'
  BY <1>1, <1>6, <1>8 DEF ClientInv, TasksOK
<1>12. ThreadsOK'
  BY <1>1, <1>6 DEF ClientInv, ThreadsOK, AtWork, SortedOut, Distinct
<1>13. SubTasksOK'
  <2>1. \A j \in DOMAIN main_tasks_ : Span(main_tasks_'[j]) = Span(main_tasks_[j])
    BY <1>8 DEF Span
  <2>2. ASSUME NEW s \in DOMAIN sub_tasks_
        PROVE  /\ Distinct(sub_tasks_[s].mids)
               /\ sub_tasks_[s].mids = <<>> /\ sub_tasks_[s].main \in DOMAIN main_tasks_ =>
                     Span(main_tasks_'[sub_tasks_[s].main]) = {}
    BY <2>1 DEF ClientInv, SubTasksOK
  <2>. QED
    BY <1>1, <1>8, <2>2 DEF SubTasksOK, Distinct, Span
<1>14. QueuesOK'
  BY <1>1, <1>5 DEF ClientInv, QueuesOK, Kinds
<1>15. Referred'
  <2>1. /\ DOMAIN buff_'["ok"] \subseteq DOMAIN main_tasks_
        /\ DOMAIN buff_'["none"] \subseteq DOMAIN main_tasks_
    BY <1>5 DEF ClientInv, Referred, Kinds
  <2>. QED
    BY <1>1, <1>5, <1>8, <2>1 DEF ClientInv, Referred
<1>16. Apart(i) /\ Within(i) /\ Accounted(i)
  BY <1>3 DEF ClientInv, BooksKept, Books
<1>17. Apart(i)'
  BY <1>5, <1>16 DEF Apart
<1>18. Span(main_tasks_[i])' = Span(main_tasks_[i]) /\ Size(i)' = Size(i)
  BY <1>3, <1>8 DEF Span, Size
<1>19. Within(i)'
  <2>1. \A x \in Int : Place(i, x)' \subseteq Span(main_tasks_[i])
    BY <1>5, <1>16 DEF Within
  <2>. QED
    BY <1>18, <2>1 DEF Within
<1>20. Everywhere(i)' = Everywhere(i) \ R
  <2>1. ASSUME NEW m \in Nat, NEW x \in Int, m \in Place(i, x)'
        PROVE  m \in Everywhere(i) /\ m \notin R
    <3>1. m \in Place(i, x) /\ x # Kept(k)
      BY <1>5, <2>1
    <3>. QED
      BY <1>3, <1>16, <3>1 DEF Apart, Everywhere
  <2>2. ASSUME NEW m \in Nat, NEW x \in Int, m \in Place(i, x), m \notin R
        PROVE  m \in Place(i, x)'
    BY <1>3, <1>5, <2>2
  <2>. QED
    BY <2>1, <2>2 DEF Everywhere
<1>21. Accounted(i)'
  <2>1. main_tasks_[i].completed < Size(i)
    BY <1>3, <1>7
  <2>2. /\ main_tasks_[i].completed + Cardinality(Everywhere(i)) = Size(i)
        /\ Span(main_tasks_[i]) \ Everywhere(i) \subseteq Stored
    BY <1>16, <2>1 DEF Accounted
  <2>3. Cardinality(Everywhere(i) \ R) = Cardinality(Everywhere(i)) - Cardinality(R)
    <3>1. Everywhere(i) \cap R = R
      BY <1>3
    <3>. QED
      BY <1>7, <3>1, FS_Difference
  <2>4. main_tasks_'[i].completed + Cardinality(Everywhere(i)') = Size(i)
    BY <1>3, <1>7, <1>8, <1>20, <2>2, <2>3
  <2>5. Span(main_tasks_[i]) \ Everywhere(i)' \subseteq Stored
    BY <1>3, <1>20, <2>2
  <2>6. main_tasks_'[i].completed < Size(i)
    BY <1>3, <1>7, <1>8
  <2>. QED
    BY <1>6, <1>18, <2>4, <2>5, <2>6 DEF Accounted
<1>22. Books(i)'
  BY <1>17, <1>19, <1>21 DEF Books
<1>23. ASSUME NEW j \in DOMAIN main_tasks_, j # i
       PROVE  Books(j)'
  <2>1. \A x \in Int : Place(j, x)' = Place(j, x)
    BY <1>5, <1>23
  <2>2. main_tasks_'[j] = main_tasks_[j] /\ Stored \subseteq Stored' /\ Books(j)
    BY <1>6, <1>8, <1>23 DEF ClientInv, BooksKept
  <2>. QED
    BY <2>1, <2>2, BooksSame
<1>24. BooksKept'
  BY <1>8, <1>22, <1>23 DEF BooksKept
<1>. QED
  BY <1>5, <1>10, <1>11, <1>12, <1>13, <1>14, <1>15, <1>24 DEF ClientInv

(* When a main task is committed, nothing of it is left in the client, but    *)
(* the sub task that is being handed back.                                    *)
LEMMA NothingIsLeft ==
    ASSUME ClientInv, NEW i, NEW k, NEW R, ToCount(i, k, R), IsCompleted
    PROVE  /\ i \notin DOMAIN error_mids_
           /\ \A kind \in Kinds : kind # k => i \notin DOMAIN buff_[kind]
           /\ \A s \in DOMAIN sub_tasks_ : sub_tasks_[s].main = i =>
                 s \in Ending /\ InHand(s) = {}
           /\ ~(current_main_task_.id = i /\ current_mid_ < current_main_task_.mid_end)
<1>1. /\ \A p \in Int \ {Kept(k)} : Place(i, p) = {}
      /\ i \in DOMAIN main_tasks_ /\ k \in Kinds /\ R # {} /\ R = Place(i, Kept(k))
      /\ Kept(k) \in Int
  BY CompletedIs DEF ToCount
<1>2. Place(i, Failed) = {} /\ Place(i, Front) = {}
  BY <1>1 DEF Failed, Front, Kept
<1>3. i \notin DOMAIN error_mids_
  <2>. SUFFICES ASSUME i \in DOMAIN error_mids_
       PROVE  FALSE
    OBVIOUS
  <2>1. error_mids_[i] \in Seq(Nat) /\ error_mids_[i] # <<>>
    BY DEF ClientInv, QueuesOK, Queue
  <2>2. Place(i, Failed) = Range(error_mids_[i])
    BY PlaceIs DEF InQueue
  <2>. QED
    BY <1>2, <2>1, <2>2, RangeIs
<1>4. ASSUME NEW kind \in Kinds, kind # k, i \in DOMAIN buff_[kind]
      PROVE  FALSE
  <2>1. buff_[kind][i] \in Seq(Nat) /\ buff_[kind][i] # <<>>
    BY <1>4 DEF ClientInv, QueuesOK, Queue, Kinds
  <2>2. Place(i, Kept(kind)) = Range(buff_[kind][i])
    BY <1>4, PlaceIs DEF InQueue, Kinds
  <2>3. Kept(kind) \in Int \ {Kept(k)}
    BY <1>1, <1>4 DEF Kept, Kinds
  <2>. QED
    BY <1>1, <2>1, <2>2, <2>3, RangeIs
<1>5. ASSUME NEW s \in DOMAIN sub_tasks_, sub_tasks_[s].main = i
      PROVE  s \in Ending /\ InHand(s) = {}
  <2>1. s \in Nat /\ sub_tasks_[s].mids \in Seq(Nat)
    BY DEF ClientInv, TypeOK
  <2>2. s # Kept(k)
    BY <2>1 DEF Kept
  <2>3. InHand(s) = {}
    <3>1. Place(i, s) = {}
      BY <1>1, <2>1, <2>2
    <3>2. Place(i, s) = InHand(s)
      BY <1>5, <2>1 DEF Place, Front, Failed
    <3>. QED
      BY <3>1, <3>2
  <2>4. ASSUME s \notin Ending
        PROVE  FALSE
    <3>1. sub_tasks_[s].mids = <<>>
      BY <2>1, <2>3, <2>4, RangeIs DEF InHand
    <3>2. Span(main_tasks_[i]) = {}
      BY <1>1, <1>5, <3>1 DEF ClientInv, SubTasksOK
    <3>3. R \subseteq Span(main_tasks_[i])
      BY <1>1 DEF ClientInv, BooksKept, Books, Within
    <3>. QED
      BY <1>1, <3>2, <3>3
  <2>. QED
    BY <2>3, <2>4
<1>6. ASSUME current_main_task_.id = i, current_mid_ < current_main_task_.mid_end
      PROVE  FALSE
  <2>1. Ahead(i) = {}
    BY <1>2, PlaceIs
  <2>2. current_mid_ \in Nat /\ current_main_task_.mid_end \in Nat
    BY TasksAssumption DEF ClientInv, TypeOK, MainTask
  <2>3. current_mid_ \in Ahead(i)
    BY <1>6, <2>2 DEF Ahead
  <2>. QED
    BY <2>1, <2>3
<1>. QED
  BY <1>3, <1>4, <1>5, <1>6

LEMMA CommitMainTaskKeeps ==
    ASSUME ClientInv, NEW i, CommitMainTask(i)
    PROVE  ClientInv'
<1>0. PICK k, R : k = Kind /\ R = Range(buff_[k][i])
  OBVIOUS
<1>1. /\ Counts(i) /\ IsCompleted
      /\ main_tasks_' = Drop(main_tasks_, i)
      /\ buff_' = [buff_ EXCEPT ![k] = Drop(@, i)]
      /\ reported' = reported \cup {i}
      /\ UNCHANGED <<dispatch, sub_tasks_, error_mids_, commit_error, threads, pool, db, mutex_>>
      /\ g_shouldStop' \in BOOLEAN /\ g_forceStop' \in BOOLEAN
  BY <1>0 DEF CommitMainTask, Counts, g_stop, ClientInv, TypeOK
<1>2. ToCount(i, k, R)
  BY <1>0, <1>1, CountsIs
<1>3. k \in Kinds /\ i \in DOMAIN main_tasks_
  BY <1>2 DEF ToCount
<1>4. RecordsGone(i, k)
  BY <1>1, <1>2, RecordsLeave
<1>5. /\ DOMAIN buff_' = Kinds
      /\ \A kind \in Kinds : Queue(buff_'[kind]) /\ DOMAIN buff_'[kind] \subseteq DOMAIN buff_[kind]
      /\ i \notin DOMAIN buff_'[k]
      /\ CallOK' /\ UNCHANGED Ending /\ \A s : InHand(s)' = InHand(s)
      /\ \A j : \A x \in Int :
            Place(j, x)' = IF j = i /\ x = Kept(k) THEN {} ELSE Place(j, x)
  BY <1>4 DEF RecordsGone
<1>6. UNCHANGED <<current_main_task_, current_mid_, pc, job, Stored>>
  BY <1>1 DEF dispatch, threads, Stored
<1>7. /\ DOMAIN main_tasks_' = DOMAIN main_tasks_ \ {i}
      /\ main_tasks_' = [j \in DOMAIN main_tasks_' |-> main_tasks_'[j]]
      /\ \A j \in DOMAIN main_tasks_' : main_tasks_'[j] = main_tasks_[j]
  BY <1>1 DEF Drop, Restrict
<1>8. /\ i \notin DOMAIN error_mids_
      /\ \A kind \in Kinds : kind # k => i \notin DOMAIN buff_[kind]
      /\ \A s \in DOMAIN sub_tasks_ : sub_tasks_[s].main = i => s \in Ending /\ InHand(s) = {}
      /\ ~(current_main_task_.id = i /\ current_mid_ < current_main_task_.mid_end)
  BY <1>1, <1>2, NothingIsLeft
<1>9. TypeOK'
  <2>1. \A kind \in Kinds : buff_'[kind] \in [DOMAIN buff_'[kind] -> Seq(Nat)]
    BY <1>5 DEF Queue
  <2>2. /\ main_tasks_' \in [DOMAIN main_tasks_' ->
                               [mid_start : Nat, mid_end : Nat, completed : Nat]]
        /\ DOMAIN main_tasks_' \subseteq {t.id : t \in Tasks}
    BY <1>7 DEF ClientInv, TypeOK
  <2>3. reported' \subseteq {t.id : t \in Tasks}
    BY <1>1, <1>3 DEF ClientInv, TypeOK
  <2>. QED
    BY <1>1, <1>5, <2>1, <2>2, <2>3 DEF ClientInv, TypeOK, dispatch, threads
<1>10. TasksOK'
  <2>1. current_mid_ < current_main_task_.mid_end =>
           current_main_task_.id \in DOMAIN main_tasks_'
    BY <1>7, <1>8 DEF ClientInv, TasksOK
  <2>2. \A t \in Tasks : t.id \in DOMAIN main_tasks_' =>
           /\ main_tasks_'[t.id].mid_start = t.mid_start
           /\ main_tasks_'[t.id].mid_end = t.mid_end
           /\ t \notin pool
    BY <1>7 DEF ClientInv, TasksOK
  <2>3. current_main_task_.mid_start <= current_mid_
    BY DEF ClientInv, TasksOK
  <2>. QED
    BY <1>1, <1>6, <2>1, <2>2, <2>3 DEF TasksOK
<1>11. ThreadsOK'
  BY <1>1, <1>6 DEF ClientInv, ThreadsOK, AtWork, SortedOut, Distinct
<1>12. SubTasksOK'
  <2>1. ASSUME NEW s \in DOMAIN sub_tasks_
        PROVE  /\ Distinct(sub_tasks_[s].mids)
               /\ sub_tasks_[s].mids = <<>> /\ sub_tasks_[s].main \in DOMAIN main_tasks_' =>
                     Span(main_tasks_'[sub_tasks_[s].main]) = {}
    BY <1>7, <2>1 DEF ClientInv, SubTasksOK
  <2>. QED
    BY <1>1, <2>1 DEF SubTasksOK, Distinct, Span
<1>13. QueuesOK'
  BY <1>1, <1>5 DEF ClientInv, QueuesOK, Kinds
<1>14. Referred'
  <2>1. /\ DOMAIN buff_'["ok"] \subseteq DOMAIN main_tasks_'
        /\ DOMAIN buff_'["none"] \subseteq DOMAIN main_tasks_'
    BY <1>3, <1>5, <1>7, <1>8 DEF ClientInv, Referred, Kinds
  <2>2. DOMAIN error_mids_ \subseteq DOMAIN main_tasks_'
    BY <1>7, <1>8 DEF ClientInv, Referred
  <2>3. \A s \in DOMAIN sub_tasks_ :
           \/ sub_tasks_[s].main \in DOMAIN main_tasks_'
           \/ s \in Ending /\ InHand(s) = {}
    BY <1>7, <1>8 DEF ClientInv, Referred
  <2>. QED
    BY <1>1, <1>5, <2>1, <2>2, <2>3 DEF Referred
<1>15. ASSUME NEW j \in DOMAIN main_tasks_'
       PROVE  Books(j)'
  <2>1. j \in DOMAIN main_tasks_ /\ j # i
    BY <1>7, <1>15
  <2>2. \A x \in Int : Place(j, x)' = Place(j, x)
    BY <1>5, <2>1
  <2>3. main_tasks_'[j] = main_tasks_[j] /\ Stored \subseteq Stored' /\ Books(j)
    BY <1>6, <1>7, <2>1 DEF ClientInv, BooksKept
  <2>. QED
    BY <2>2, <2>3, BooksSame
<1>16. BooksKept'
  BY <1>15 DEF BooksKept
<1>. QED
  BY <1>5, <1>9, <1>10, <1>11, <1>12, <1>13, <1>14, <1>16 DEF ClientInv

(* The records that stay in the buffer although they are counted. *)
LEMMA CommitMainTaskFailsKeeps ==
    ASSUME ClientInv, NEW i, CommitMainTaskFails(i)
    PROVE  ClientInv'
<1>0. PICK k, R : k = Kind /\ R = Range(buff_[k][i])
  OBVIOUS
<1>1. /\ Counts(i) /\ IsCompleted /\ Proceed /\ At("count")
      /\ main_tasks_' = [main_tasks_ EXCEPT ![i].completed = Completed]
      /\ reported' \in {reported} \cup {reported \cup {i}}
      /\ UNCHANGED <<dispatch, sub_tasks_, error_mids_, commit_error, threads, pool, db, buff_>>
      /\ g_shouldStop' \in BOOLEAN /\ g_forceStop' \in BOOLEAN
  BY DEF CommitMainTaskFails, Counts, WriteReturnsFalse, g_stop, ClientInv, TypeOK
<1>2. ToCount(i, k, R)
  BY <1>0, <1>1, CountsIs
<1>3. /\ k \in Kinds /\ i \in DOMAIN main_tasks_ /\ Completed >= Size(i)
      /\ Cardinality(R) \in Nat /\ Completed = main_tasks_[i].completed + Cardinality(R)
  BY <1>1, <1>2 DEF ToCount
<1>4. UNCHANGED <<current_main_task_, current_mid_, pc, job, Stored>>
  BY <1>1 DEF dispatch, threads, Stored
<1>5. /\ mutex_' \in Call /\ UNCHANGED Ending /\ CallOK'
      /\ \A s \in DOMAIN sub_tasks_ : InHand(s)' = InHand(s)
  BY <1>1, <1>4, ProceedIs
<1>6. \A j : \A x \in Int : Place(j, x)' = Place(j, x)
  BY <1>1, <1>4, <1>5 DEF Place, Ahead, InQueue
<1>7. /\ main_tasks_[i] \in [mid_start : Nat, mid_end : Nat, completed : Nat]
      /\ Size(i) \in Int /\ Completed \in Nat
  BY <1>3, PlacesAreFinite
<1>8. /\ DOMAIN main_tasks_' = DOMAIN main_tasks_
      /\ \A j \in DOMAIN main_tasks_ :
            /\ main_tasks_'[j].mid_start = main_tasks_[j].mid_start
            /\ main_tasks_'[j].mid_end = main_tasks_[j].mid_end
            /\ j # i => main_tasks_'[j] = main_tasks_[j]
      /\ main_tasks_'[i].completed = Completed
  BY <1>1, <1>3 DEF ClientInv, TypeOK
<1>9. main_tasks_' \in [DOMAIN main_tasks_' ->
                          [mid_start : Nat, mid_end : Nat, completed : Nat]]
  <2>1. main_tasks_ \in [DOMAIN main_tasks_ ->
                           [mid_start : Nat, mid_end : Nat, completed : Nat]]
    BY DEF ClientInv, TypeOK
  <2>. QED
    BY <1>1, <1>3, <1>7, <2>1
<1>10. TypeOK'
  <2>1. reported' \subseteq {t.id : t \in Tasks}
    BY <1>1, <1>3 DEF ClientInv, TypeOK
  <2>. QED
    BY <1>1, <1>5, <1>8, <1>9, <2>1 DEF ClientInv, TypeOK, Call, dispatch, threads
<1>11. TasksOK'
  BY <1>1, <1>4, <1>8 DEF ClientInv, TasksOK
<1>12. ThreadsOK'
  BY <1>1, <1>4 DEF ClientInv, ThreadsOK, AtWork, SortedOut, Distinct
<1>13. SubTasksOK'
  <2>1. \A j \in DOMAIN main_tasks_ : Span(main_tasks_'[j]) = Span(main_tasks_[j])
    BY <1>8 DEF Span
  <2>2. ASSUME NEW s \in DOMAIN sub_tasks_
        PROVE  /\ Distinct(sub_tasks_[s].mids)
               /\ sub_tasks_[s].mids = <<>> /\ sub_tasks_[s].main \in DOMAIN main_tasks_ =>
                     Span(main_tasks_'[sub_tasks_[s].main]) = {}
    BY <2>1 DEF ClientInv, SubTasksOK
  <2>. QED
    BY <1>1, <1>8, <2>2 DEF SubTasksOK, Distinct, Span
<1>14. QueuesOK'
  BY <1>1 DEF ClientInv, QueuesOK
<1>15. Referred'
  BY <1>1, <1>5, <1>8 DEF ClientInv, Referred
<1>16. Apart(i) /\ Within(i)
  BY <1>3 DEF ClientInv, BooksKept, Books
<1>17. Span(main_tasks_[i])' = Span(main_tasks_[i]) /\ Size(i)' = Size(i)
  BY <1>3, <1>8 DEF Span, Size
<1>18. Apart(i)' /\ Within(i)'
  BY <1>6, <1>16, <1>17 DEF Apart, Within
<1>19. Accounted(i)'
  <2>1. /\ Span(main_tasks_[i]) \subseteq Stored
        /\ \A p \in Int \ {Kept(k)} : Place(i, p) = {}
    BY <1>1, <1>2, CompletedIs
  <2>2. ~(main_tasks_'[i].completed < Size(i)')
    BY <1>3, <1>7, <1>8, <1>17
  <2>3. \E kind \in Kinds : \A p \in Int \ {Kept(kind)} : Place(i, p)' = {}
    BY <1>3, <1>6, <2>1
  <2>. QED
    BY <1>4, <1>17, <2>1, <2>2, <2>3 DEF Accounted
<1>20. Books(i)'
  BY <1>18, <1>19 DEF Books
<1>21. ASSUME NEW j \in DOMAIN main_tasks_, j # i
       PROVE  Books(j)'
  <2>1. main_tasks_'[j] = main_tasks_[j] /\ Stored \subseteq Stored' /\ Books(j)
    BY <1>4, <1>8, <1>21 DEF ClientInv, BooksKept
  <2>. QED
    BY <1>6, <2>1, BooksSame
<1>22. BooksKept'
  BY <1>8, <1>20, <1>21 DEF BooksKept
<1>. QED
  BY <1>5, <1>10, <1>11, <1>12, <1>13, <1>14, <1>15, <1>22 DEF ClientInv
-----------------------------------------------------------------------------
(* The invariant.                                                          *)

LEMMA InitClient == Init => ClientInv
<1>. SUFFICES ASSUME Init
     PROVE  ClientInv
  OBVIOUS
<1>1. /\ main_tasks_ = [i \in {} |-> i] /\ sub_tasks_ = [i \in {} |-> i]
      /\ error_mids_ = [i \in {} |-> i]
      /\ buff_ = [kind \in Kinds |-> [i \in {} |-> i]]
      /\ mutex_ = NoCall /\ pc = [t \in Threads |-> "idle"]
      /\ current_main_task_ = [id |-> -1, mid_start |-> 0, mid_end |-> 0]
      /\ current_mid_ = 0
  BY DEF Init
<1>2. TypeOK
  <2>1. NoJob \in [id : Nat \cup {-1}, mids : Seq(Nat), ok : Seq(Nat), none : Seq(Nat),
                   error : Seq(Nat)]
    BY EmptySeq DEF NoJob
  <2>2. job \in [Threads -> [id : Nat \cup {-1}, mids : Seq(Nat), ok : Seq(Nat),
                             none : Seq(Nat), error : Seq(Nat)]]
    BY <2>1 DEF Init
  <2>. QED
    BY <2>2 DEF Init, TypeOK
<1>3. ThreadsOK /\ CallOK
  BY <1>1 DEF ThreadsOK, AtWork, CallOK, At, Kind, NoCall
<1>4. TasksOK /\ Referred /\ SubTasksOK /\ BooksKept
  BY <1>1 DEF TasksOK, Referred, SubTasksOK, BooksKept, Kinds
<1>5. QueuesOK
  BY <1>1 DEF QueuesOK, Queue, Kinds
<1>. QED
  BY <1>2, <1>3, <1>4, <1>5 DEF ClientInv

LEMMA NextKeepsClientInv == ClientInv /\ [Next]_vars => ClientInv'
<1>. SUFFICES ASSUME ClientInv, [Next]_vars
     PROVE  ClientInv'
  OBVIOUS
<1>1. ASSUME NEW t \in Threads, ThreadStep(t)
      PROVE  ClientInv'
  <2>1. \/ GetErrorMids(t) \/ GetFreshMids(t) \/ GetMainTask(t) \/ GetMainTaskFails(t)
        \/ Flush(t) \/ Crawl(t) \/ Abandon(t) \/ ExitOrRetry(t) \/ CommitSubTask(t)
    BY <1>1 DEF ThreadStep, GetSubTask
  <2>. QED
    BY <2>1, GetErrorMidsKeeps, GetFreshMidsKeeps, GetMainTaskKeeps, RefusalKeeps, FlushKeeps,
       CrawlKeeps, AbandonKeeps, CommitSubTaskKeeps
<1>2. ASSUME NEW i, CountRecords(i) \/ CommitMainTask(i) \/ CommitMainTaskFails(i)
      PROVE  ClientInv'
  BY <1>2, CountRecordsKeeps, CommitMainTaskKeeps, CommitMainTaskFailsKeeps
<1>3. CASE CallSteps
  BY <1>2, <1>3, BufferKeeps, WriteKeeps, CountEndsKeeps, CommitReturnsKeeps, FlushReturnsKeeps
     DEF CallSteps
<1>4. CASE (\E mode \in {"smooth", "force"} : Stop(mode)) \/ UNCHANGED vars
  BY <1>4, StopKeeps
<1>. QED
  BY <1>1, <1>3, <1>4 DEF Next

(* In every state of the client, each mid of a main task it has leased is in  *)
(* one place at most, the counts and the mids agree, and nothing refers to a  *)
(* main task that is forgotten.                                               *)
THEOREM BooksAreKept == Spec => []ClientInv
<1>1. Init => ClientInv
  BY InitClient
<1>2. ClientInv /\ [Next]_vars => ClientInv'
  BY NextKeepsClientInv
<1>. QED
  BY <1>1, <1>2, PTL DEF Spec

(* The critical errors of commitSubTask, writeOkToDb_ and writeNoneToDb_ that *)
(* the code marks "Won't get here" are never met: whatever a sub task, a queue *)
(* of failed mids or a buffer refers to is a main task the client still has.   *)
THEOREM NothingIsStray == Spec => []NothingStray
<1>1. ClientInv => NothingStray
  <2>. SUFFICES ASSUME ClientInv
       PROVE  NothingStray
    OBVIOUS
  <2>1. \A s \in DOMAIN sub_tasks_ \ Ending : sub_tasks_[s].main \in DOMAIN main_tasks_
    BY DEF ClientInv, Referred
  <2>2. \A t \in Threads : pc[t] = "crawled" => job[t].id \in DOMAIN sub_tasks_
    BY DEF ClientInv, ThreadsOK, AtWork
  <2>3. DOMAIN error_mids_ \subseteq DOMAIN main_tasks_
    BY DEF ClientInv, Referred
  <2>4. \A kind \in Kinds : DOMAIN buff_[kind] \subseteq DOMAIN main_tasks_
    BY DEF ClientInv, Referred, Kinds
  <2>. QED
    BY <2>1, <2>2, <2>3, <2>4 DEF NothingStray, ClientInv
<1>. QED
  BY <1>1, BooksAreKept, PTL

(* Between two calls, what the count of a main task lacks is exactly as many  *)
(* mids as are still ahead, in sub tasks, queued again or buffered: none is    *)
(* lost and none is counted twice; and what is nowhere any more is stored.    *)
THEOREM CountsAreExact == Spec => []CountIsExact
<1>1. ClientInv => CountIsExact
  <2>. SUFFICES ASSUME ClientInv, mutex_ = NoCall, NEW i \in DOMAIN main_tasks_
       PROVE  LET m == main_tasks_[i]
              IN IF m.completed < m.mid_end - m.mid_start
                   THEN /\ m.completed + Cardinality(Pending(i)) = m.mid_end - m.mid_start
                        /\ Span(m) \ Pending(i) \subseteq Stored
                   ELSE Span(m) \subseteq Stored
    BY DEF CountIsExact
  <2>1. Accounted(i) /\ Within(i)
    BY DEF ClientInv, BooksKept, Books
  <2>2. Pending(i) = Everywhere(i)
    <3>1. \A s : InHand(s) = Range(sub_tasks_[s].mids)
      BY NoCallNoEnding
    <3>2. DOMAIN sub_tasks_ \subseteq Nat
      BY DEF ClientInv, TypeOK
    <3>3. /\ \A x \in Int : Place(i, x) \subseteq Nat
          /\ Front \in Int /\ Failed \in Int /\ Kept("ok") \in Int /\ Kept("none") \in Int
      <4>1. main_tasks_[i].mid_start \in Nat /\ main_tasks_[i].mid_end \in Nat
        BY DEF ClientInv, TypeOK
      <4>2. Span(main_tasks_[i]) \subseteq Nat
        BY <4>1 DEF Span
      <4>. QED
        BY <2>1, <4>2 DEF Within, Front, Failed, Kept
    <3>4. \A m : m \in InSubTasks(i) <=>
             \E s \in DOMAIN sub_tasks_ : sub_tasks_[s].main = i /\ m \in InHand(s)
      BY <3>1 DEF InSubTasks
    <3>5. \A s \in DOMAIN sub_tasks_ :
             Place(i, s) = IF sub_tasks_[s].main = i THEN InHand(s) ELSE {}
      BY <3>2 DEF Place, Front, Failed
    <3>6. ASSUME NEW m \in Pending(i)
          PROVE  \E x \in Int : m \in Place(i, x)
      <4>1. CASE m \in InSubTasks(i)
        <5>1. PICK s \in DOMAIN sub_tasks_ : sub_tasks_[s].main = i /\ m \in InHand(s)
          BY <3>4, <4>1
        <5>. QED
          BY <3>2, <3>5, <5>1
      <4>2. CASE m \notin InSubTasks(i)
        BY <3>3, <4>2, PlaceIs DEF Pending
      <4>. QED
        BY <4>1, <4>2
    <3>7. ASSUME NEW x \in Int, NEW m \in Place(i, x)
          PROVE  m \in Pending(i)
      <4>1. CASE x \in {-1, -2, -3, -4}
        BY <3>7, <4>1 DEF Place, Front, Failed, Pending
      <4>2. CASE x \notin {-1, -2, -3, -4}
        <5>1. x \in DOMAIN sub_tasks_ /\ sub_tasks_[x].main = i /\ m \in InHand(x)
          BY <3>7, <4>2 DEF Place, Front, Failed
        <5>. QED
          BY <3>4, <5>1 DEF Pending
      <4>. QED
        BY <4>1, <4>2
    <3>. QED
      BY <3>3, <3>6, <3>7 DEF Everywhere
  <2>3. Size(i) = main_tasks_[i].mid_end - main_tasks_[i].mid_start
    BY DEF Size
  <2>. QED
    BY <2>1, <2>2, <2>3 DEF Accounted
<1>. QED
  BY <1>1, BooksAreKept, PTL
-----------------------------------------------------------------------------
(* The client implements CrawlContract: the tasks it has taken and not done   *)
(* with are its main tasks, and the mids stored those in the two tables.      *)

LEMMA TaskOfIs ==
    ASSUME ClientInv, NEW i \in DOMAIN main_tasks_
    PROVE  /\ \E t \in Tasks : t.id = i
           /\ TaskOf(i) \in Tasks /\ TaskOf(i).id = i
           /\ Span(main_tasks_[i]) = Span(TaskOf(i))
<1>1. \E t \in Tasks : t.id = i
  <2>1. DOMAIN main_tasks_ \subseteq {t.id : t \in Tasks}
    BY DEF ClientInv, TypeOK
  <2>. QED
    BY <2>1
<1>2. TaskOf(i) \in Tasks /\ TaskOf(i).id = i
  BY <1>1 DEF TaskOf
<1>3. /\ main_tasks_[i].mid_start = TaskOf(i).mid_start
      /\ main_tasks_[i].mid_end = TaskOf(i).mid_end
  BY <1>2 DEF ClientInv, TasksOK
<1>. QED
  BY <1>1, <1>2, <1>3 DEF Span

LEMMA ContractInit == Init => Contract!Init
  BY DEF Init, Contract!Init, Stored, Kinds

LEMMA GetMainTaskTakes ==
    ASSUME ClientInv, NEW t \in Threads, GetMainTask(t)
    PROVE  Contract!Next
<1>1. PICK m \in pool :
         /\ main_tasks_' = IF m.id \in DOMAIN main_tasks_ THEN main_tasks_
               ELSE Put(main_tasks_, m.id, [mid_start |-> m.mid_start,
                                            mid_end |-> m.mid_end, completed |-> 0])
         /\ HandOutFresh(t, m, m.mid_start)
  BY DEF GetMainTask
<1>2. m \in Tasks /\ m.id \notin DOMAIN main_tasks_
  BY DEF ClientInv, TypeOK, TasksOK
<1>3. DOMAIN main_tasks_' = DOMAIN main_tasks_ \cup {m.id}
  BY <1>1, <1>2 DEF Put
<1>4. UNCHANGED <<Stored, reported>>
  BY <1>1 DEF HandOutFresh, HandOut, Stored
<1>5. Contract!Take(m.id)
  BY <1>2, <1>3, <1>4 DEF Contract!Take
<1>. QED
  BY <1>2, <1>5 DEF Contract!Next

LEMMA WriteStores ==
    ASSUME ClientInv, Write \/ WriteFails
    PROVE  Contract!Next
<1>1. mutex_ \in Call
  BY WriteKeeps
<1>2. Kind \in Kinds /\ DOMAIN db = Kinds
  BY <1>1 DEF Call, Kind, ClientInv, TypeOK
<1>3. PICK W \in SUBSET Buffered(Kind) : db' = [db EXCEPT ![Kind] = @ \cup W]
  BY DEF Write, WriteFails
<1>4. UNCHANGED <<main_tasks_, reported>>
  BY DEF Write, WriteFails
<1>5. Stored' = Stored \cup W
  BY <1>2, <1>3 DEF Stored, Kinds
<1>6. W \subseteq UNION {Span(t) : t \in Tasks}
  <2>. SUFFICES ASSUME NEW m \in W
       PROVE  \E t \in Tasks : m \in Span(t)
    OBVIOUS
  <2>1. PICK i \in DOMAIN main_tasks_ : m \in Span(main_tasks_[i])
    BY <1>2, BufferedIs
  <2>. QED
    BY <2>1, TaskOfIs
<1>7. Contract!Store(W)
  BY <1>4, <1>5 DEF Contract!Store
<1>. QED
  BY <1>6, <1>7 DEF Contract!Next

LEMMA CommitReports ==
    ASSUME ClientInv, NEW i, CommitMainTask(i) \/ CommitMainTaskFails(i)
    PROVE  [Contract!Next]_(Contract!vars)
<1>0. PICK k, R : k = Kind /\ R = Range(buff_[k][i])
  OBVIOUS
<1>1. Counts(i) /\ IsCompleted /\ UNCHANGED db
  BY DEF CommitMainTask, CommitMainTaskFails, Counts
<1>2. ToCount(i, k, R)
  BY <1>0, <1>1, CountsIs
<1>3. i \in DOMAIN main_tasks_ /\ Span(main_tasks_[i]) \subseteq Stored
  BY <1>1, <1>2, CompletedIs DEF ToCount
<1>4. /\ \E t \in Tasks : t.id = i
      /\ MidsOfTask(i) \subseteq Stored
  BY <1>3, TaskOfIs DEF MidsOfTask
<1>5. UNCHANGED Stored
  BY <1>1 DEF Stored
<1>6. CASE CommitMainTask(i)
  <2>1. DOMAIN main_tasks_' = DOMAIN main_tasks_ \ {i} /\ reported' = reported \cup {i}
    BY <1>6 DEF CommitMainTask, Drop, Restrict
  <2>2. Contract!Report(i)
    BY <1>3, <1>4, <1>5, <2>1 DEF Contract!Report
  <2>. QED
    BY <1>4, <2>2 DEF Contract!Next
<1>7. CASE CommitMainTaskFails(i)
  <2>1. DOMAIN main_tasks_' = DOMAIN main_tasks_
    BY <1>3, <1>7 DEF CommitMainTaskFails
  <2>2. CASE reported' = reported \cup {i}
    <3>1. Contract!Report(i)
      BY <1>3, <1>4, <1>5, <2>1, <2>2 DEF Contract!Report
    <3>. QED
      BY <1>4, <3>1 DEF Contract!Next
  <2>3. CASE reported' = reported
    BY <1>5, <2>1, <2>3 DEF Contract!vars
  <2>. QED
    BY <1>7, <2>2, <2>3 DEF CommitMainTaskFails
<1>. QED
  BY <1>6, <1>7

LEMMA OthersAreSilent ==
    ASSUME ClientInv,
           \/ CallSteps /\ ~Write /\ ~WriteFails
                /\ ~(\E t \in Tasks : CommitMainTask(t.id) \/ CommitMainTaskFails(t.id))
           \/ \E t \in Threads : ThreadStep(t) /\ ~GetMainTask(t)
           \/ \E mode \in {"smooth", "force"} : Stop(mode)
           \/ UNCHANGED vars
    PROVE  UNCHANGED Contract!vars
<1>1. UNCHANGED <<DOMAIN main_tasks_, db, reported>>
  <2>1. ASSUME NEW t \in Threads, ThreadStep(t), ~GetMainTask(t)
        PROVE  UNCHANGED <<main_tasks_, db, reported>>
    <3>1. CASE GetErrorMids(t) \/ GetFreshMids(t)
      BY <3>1 DEF GetErrorMids, GetFreshMids, HandOutFresh, HandOut
    <3>2. CASE GetMainTaskFails(t) \/ Flush(t)
      BY <3>2 DEF GetMainTaskFails, Flush, outside
    <3>3. CASE Crawl(t) \/ Abandon(t) \/ ExitOrRetry(t) \/ CommitSubTask(t)
      BY <3>3 DEF Crawl, Abandon, ExitOrRetry, CommitSubTask, outside
    <3>. QED
      BY <2>1, <3>1, <3>2, <3>3 DEF ThreadStep, GetSubTask
  <2>2. ASSUME NEW i, CountRecords(i)
        PROVE  UNCHANGED <<DOMAIN main_tasks_, db, reported>>
    <3>1. main_tasks_' = [main_tasks_ EXCEPT ![i].completed = Completed]
      BY <2>2 DEF CountRecords
    <3>2. DOMAIN main_tasks_' = DOMAIN main_tasks_
      BY <3>1 DEF ClientInv, TypeOK
    <3>. QED
      BY <2>2, <3>2 DEF CountRecords, Counts
  <2>3. CASE Buffer \/ CountEnds \/ CommitReturns \/ FlushReturns
    BY <2>3 DEF Buffer, CountEnds, CommitReturns, FlushReturns, outside
  <2>4. CASE (\E mode \in {"smooth", "force"} : Stop(mode)) \/ UNCHANGED vars
    BY <2>4 DEF Stop, vars, outside
  <2>. QED
    BY <2>1, <2>2, <2>3, <2>4 DEF CallSteps
<1>. QED
  BY <1>1 DEF Contract!vars, Stored

(* A client takes a task it does not have, reports a task as done only when   *)
(* all its mids are in the database, and forgets it only by a report: what    *)
(* the server's commitTask relies on when it moves a task to the history.     *)
THEOREM ContractIsKept == Spec => KeepsContract
<1>1. Init => Contract!Init
  BY ContractInit
<1>2. ClientInv /\ [Next]_vars => [Contract!Next]_(Contract!vars)
  <2>. SUFFICES ASSUME ClientInv, [Next]_vars
       PROVE  [Contract!Next]_(Contract!vars)
    OBVIOUS
  <2>1. ASSUME NEW t \in Threads, GetMainTask(t)
        PROVE  Contract!Next
    BY <2>1, GetMainTaskTakes
  <2>2. ASSUME NEW i, CommitMainTask(i) \/ CommitMainTaskFails(i)
        PROVE  [Contract!Next]_(Contract!vars)
    BY <2>2, CommitReports
  <2>3. CASE Write \/ WriteFails
    BY <2>3, WriteStores
  <2>. QED
    BY <2>1, <2>2, <2>3, OthersAreSilent DEF Next
<1>. QED
  BY <1>1, <1>2, BooksAreKept, PTL DEF Spec, KeepsContract, Contract!Spec
=============================================================================
