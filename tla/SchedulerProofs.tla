--------------------------- MODULE SchedulerProofs ---------------------------
(***************************************************************************)
(* Proofs about Scheduler for any number of CPUs and tasks: lemmas about   *)
(* the queue operations, then the inductive invariant SchedulerInv and the *)
(* properties it implies; and, after them, proofs about Semaphore, which   *)
(* extends the scheduler and rests on the same lemmas.                     *)
(***************************************************************************)
EXTENDS Semaphore, FiniteSetTheorems, SequenceTheorems, WellFoundedInduction, TLAPS

-----------------------------------------------------------------------------
(* Any set of natural numbers that is not empty has a smallest element.    *)
LEMMA LessThanOnNat == \A x, y \in Nat : x < y => <<x, y>> \in OpToRel(<, Nat)
  BY SMT DEF OpToRel

LEMMA SmallestElement ==
  ASSUME NEW T \in SUBSET Nat, T # {}
  PROVE  \E x \in T : \A y \in T : x <= y
<1>1. PICK x \in T : \A y \in T : <<y, x>> \notin OpToRel(<, Nat)
  BY WFMin, NatLessThanWellFounded, Zenon
<1>2. \A y \in T : ~(y < x)
  BY <1>1, LessThanOnNat
<1>3. QED
  BY <1>2

(* The loop of enqueue_task stops: Place is a position of the queue or the *)
(* one after it, everything before it is smaller and nothing there is.     *)
LEMMA PlaceProperties ==
  ASSUME NEW q \in Seq(Tasks), NEW vr \in [Tasks -> Nat], NEW v \in Nat
  PROVE  /\ Place(q, vr, v) \in 1 .. Len(q) + 1
         /\ \A j \in 1 .. Place(q, vr, v) - 1 : vr[q[j]] < v
         /\ Place(q, vr, v) <= Len(q) => vr[q[Place(q, vr, v)]] >= v
<1> DEFINE Stop == {i \in 1 .. Len(q) + 1 : i <= Len(q) => vr[q[i]] >= v}
<1>0. /\ Len(q) \in Nat
      /\ \A i \in 1 .. Len(q) : q[i] \in Tasks
  BY LenProperties, ElementOfSeq
<1>1. Stop \in SUBSET Nat
  BY <1>0
<1>2. Len(q) + 1 \in Stop
  BY <1>0
<1>3. PICK m \in Stop : \A y \in Stop : m <= y
  BY <1>1, <1>2, SmallestElement
<1>4. \A j \in 1 .. m - 1 : vr[q[j]] < v
  <2> SUFFICES ASSUME NEW j \in 1 .. m - 1
               PROVE  vr[q[j]] < v
    OBVIOUS
  <2>1. j \in 1 .. Len(q) /\ j < m
    BY <1>0, <1>1, <1>3
  <2>2. j \notin Stop
    BY <1>0, <1>1, <1>3, <2>1
  <2>3. QED
    BY <1>0, <2>1, <2>2
<1>5. \E i \in 1 .. Len(q) + 1 :
        /\ \A j \in 1 .. i - 1 : vr[q[j]] < v
        /\ i <= Len(q) => vr[q[i]] >= v
  BY <1>3, <1>4
<1>6. QED
  BY <1>5 DEF Place

(* Insert keeps the other tasks in their order and adds one.               *)
LEMMA InsertProperties ==
  ASSUME NEW q \in Seq(Tasks), NEW i \in 1 .. Len(q) + 1, NEW t \in Tasks
  PROVE  /\ Insert(q, i, t) \in Seq(Tasks)
         /\ Len(Insert(q, i, t)) = Len(q) + 1
         /\ \A j \in 1 .. Len(q) + 1 :
              Insert(q, i, t)[j] =
                IF j < i THEN q[j] ELSE IF j = i THEN t ELSE q[j - 1]
<1>0. /\ Len(q) \in Nat
      /\ \A j \in 1 .. Len(q) : q[j] \in Tasks
  BY LenProperties, ElementOfSeq
<1>1. Insert(q, i, t) \in [1 .. Len(q) + 1 -> Tasks]
  BY <1>0 DEF Insert
<1>2. Insert(q, i, t) \in Seq(Tasks)
  BY <1>0, <1>1, SeqDef
<1>3. DOMAIN Insert(q, i, t) = 1 .. Len(Insert(q, i, t))
  BY <1>2, LenProperties
<1>4. Len(Insert(q, i, t)) = Len(q) + 1
  BY <1>0, <1>1, <1>2, <1>3, LenProperties
<1>5. QED
  BY <1>1, <1>2, <1>4 DEF Insert

\* A queue in the order of virtual run time, without repetition.
InOrder(q, vr) ==
  \A i, j \in 1 .. Len(q) : i < j => vr[q[i]] <= vr[q[j]]

NoRepeat(q) == \A i, j \in 1 .. Len(q) : q[i] = q[j] => i = j

Members(q) == {q[i] : i \in 1 .. Len(q)}

(* enqueue_task adds the task and nothing else, counts it, and keeps the   *)
(* queue in order and free of repetitions.                                 *)
LEMMA EnqueueProperties ==
  ASSUME NEW s \in CPUs, NEW q \in Seq(Tasks), NEW vr \in [Tasks -> Nat],
         NEW t \in Tasks
  PROVE  /\ enqueue_task(s, q, vr, t) \in Seq(Tasks)
         /\ Len(enqueue_task(s, q, vr, t)) = Len(q) + Enqueued(s, t)
         /\ Members(enqueue_task(s, q, vr, t)) =
              IF t = InitTask[s] THEN Members(q) ELSE Members(q) \cup {t}
         /\ InOrder(q, vr) => InOrder(enqueue_task(s, q, vr, t), vr)
         /\ NoRepeat(q) /\ t \notin Members(q)
              => NoRepeat(enqueue_task(s, q, vr, t))
<1>0. /\ Len(q) \in Nat
      /\ \A j \in 1 .. Len(q) : q[j] \in Tasks
  BY LenProperties, ElementOfSeq
<1>1. CASE t = InitTask[s]
  BY <1>0, <1>1 DEF enqueue_task, Enqueued
<1>2. CASE t # InitTask[s]
  <2> DEFINE i == Place(q, vr, vr[t])
             e == Insert(q, i, t)
  <2>1. vr[t] \in Nat
    OBVIOUS
  <2>2. /\ i \in 1 .. Len(q) + 1
        /\ \A j \in 1 .. i - 1 : vr[q[j]] < vr[t]
        /\ i <= Len(q) => vr[q[i]] >= vr[t]
    BY <2>1, PlaceProperties
  <2> HIDE DEF i
  <2>3. /\ e \in Seq(Tasks)
        /\ Len(e) = Len(q) + 1
        /\ \A j \in 1 .. Len(q) + 1 :
             e[j] = IF j < i THEN q[j] ELSE IF j = i THEN t ELSE q[j - 1]
    BY <2>2, InsertProperties
  <2> HIDE DEF e
  <2>30. /\ Len(q) \in Nat /\ i \in 1 .. Len(q) + 1
         /\ Len(e) = Len(q) + 1
    BY <1>0, <2>2, <2>3
  <2>31. \A j \in 1 .. Len(e) : j < i => j \in 1 .. Len(q) /\ e[j] = q[j]
    BY <2>3, <2>30
  <2>32. e[i] = t /\ i \in 1 .. Len(e)
    BY <2>3, <2>30
  <2>33. \A j \in 1 .. Len(e) :
           j > i => j - 1 \in 1 .. Len(q) /\ e[j] = q[j - 1]
    BY <2>3, <2>30
  <2>4. Members(e) = Members(q) \cup {t}
    <3>1. ASSUME NEW j \in 1 .. Len(e) PROVE e[j] \in Members(q) \cup {t}
      <4>1. \/ j \in 1 .. Len(q) /\ e[j] = q[j]
            \/ e[j] = t
            \/ j - 1 \in 1 .. Len(q) /\ e[j] = q[j - 1]
        <5>1. j < i \/ j = i \/ j > i
          BY <2>30
        <5>2. QED
          BY <2>31, <2>32, <2>33, <5>1
      <4>2. QED
        BY <4>1 DEF Members
    <3>2. ASSUME NEW j \in 1 .. Len(q) PROVE q[j] \in Members(e)
      <4>1. CASE j < i
        <5>1. j \in 1 .. Len(q) + 1 /\ j \in 1 .. Len(e)
          BY <1>0, <2>3
        <5>2. e[j] = q[j]
          BY <2>3, <4>1, <5>1
        <5>3. QED
          BY <5>1, <5>2 DEF Members
      <4>2. CASE j >= i
        <5>1. /\ j + 1 \in 1 .. Len(e)
              /\ e[j + 1] = q[j]
          <6>1. j + 1 \in 1 .. Len(e) /\ j + 1 > i /\ (j + 1) - 1 = j
            BY <2>30, <4>2
          <6>2. QED
            BY <2>33, <6>1
        <5>2. QED
          BY <5>1 DEF Members
      <4>3. QED
        BY <1>0, <2>2, <4>1, <4>2
    <3>3. t \in Members(e)
      BY <2>32 DEF Members
    <3>4. QED
      BY <3>1, <3>2, <3>3 DEF Members
  <2>5. ASSUME InOrder(q, vr) PROVE InOrder(e, vr)
    <3> SUFFICES ASSUME NEW j \in 1 .. Len(e), NEW k \in 1 .. Len(e), j < k
                 PROVE  vr[e[j]] <= vr[e[k]]
      BY DEF InOrder
    <3>1. CASE k < i
      <4>1. /\ j \in 1 .. Len(q) /\ k \in 1 .. Len(q)
            /\ e[j] = q[j] /\ e[k] = q[k]
        <5>1. j < i
          BY <2>30, <3>1
        <5>2. QED
          BY <2>31, <3>1, <5>1
      <4>2. QED
        BY <2>5, <4>1 DEF InOrder
    <3>2. CASE k = i
      <4>1. /\ j \in 1 .. i - 1 /\ j \in 1 .. Len(q)
            /\ e[j] = q[j] /\ e[k] = t
        <5>1. j < i /\ j \in 1 .. i - 1
          BY <2>30, <3>2
        <5>2. QED
          BY <2>31, <2>32, <3>2, <5>1
      <4>2. QED
        BY <1>0, <2>1, <2>2, <4>1
    <3>3. CASE k > i
      <4>1. /\ k - 1 \in 1 .. Len(q) /\ e[k] = q[k - 1]
            /\ i \in 1 .. Len(q) /\ i <= k - 1
        <5>1. k - 1 \in 1 .. Len(q) /\ e[k] = q[k - 1]
          BY <2>33, <3>3
        <5>2. QED
          BY <2>30, <3>3, <5>1
      <4>2. vr[q[i]] <= vr[q[k - 1]] /\ vr[t] <= vr[q[k - 1]]
        <5>1. vr[q[i]] \in Nat /\ vr[q[k - 1]] \in Nat
          BY <1>0, <4>1
        <5>2. i < k - 1 \/ i = k - 1
          BY <2>30, <4>1
        <5>3. vr[q[i]] <= vr[q[k - 1]]
          BY <2>5, <4>1, <5>1, <5>2 DEF InOrder
        <5>4. vr[q[i]] >= vr[t]
          BY <2>2, <2>30, <4>1
        <5>5. QED
          BY <2>1, <5>1, <5>3, <5>4
      <4>3. CASE j < i
        <5>1. j \in 1 .. Len(q) /\ e[j] = q[j]
          BY <2>31, <4>3
        <5>2. j \in 1 .. i - 1
          BY <2>30, <4>3
        <5>3. vr[q[j]] < vr[t] /\ vr[q[j]] \in Nat /\ vr[q[k - 1]] \in Nat
          BY <1>0, <2>2, <4>1, <5>1, <5>2
        <5>4. vr[q[j]] <= vr[q[k - 1]]
          BY <2>1, <4>2, <5>3
        <5>5. QED
          BY <4>1, <5>1, <5>4
      <4>4. CASE j = i
        BY <2>32, <4>1, <4>2, <4>4
      <4>5. CASE j > i
        <5>1. /\ j - 1 \in 1 .. Len(q) /\ e[j] = q[j - 1]
              /\ j - 1 < k - 1
          <6>1. j - 1 \in 1 .. Len(q) /\ e[j] = q[j - 1]
            BY <2>33, <4>5
          <6>2. QED
            BY <2>30, <6>1
        <5>2. QED
          BY <2>5, <4>1, <5>1 DEF InOrder
      <4>6. QED
        BY <2>30, <4>3, <4>4, <4>5
    <3>4. QED
      BY <2>30, <3>1, <3>2, <3>3
  <2>6. ASSUME NoRepeat(q), t \notin Members(q) PROVE NoRepeat(e)
    <3>1. \A j \in 1 .. Len(q) : q[j] # t
      BY <2>6 DEF Members
    <3>2. \A j, k \in 1 .. Len(q) : q[j] = q[k] => j = k
      BY <2>6 DEF NoRepeat
    <3>3. ASSUME NEW j \in 1 .. Len(e), NEW k \in 1 .. Len(e), e[j] = e[k]
          PROVE  j = k
      <4>1. CASE j < i
        <5>1. j \in 1 .. Len(q) /\ e[j] = q[j]
          BY <2>31, <4>1
        <5>2. CASE k < i
          <6>1. k \in 1 .. Len(q) /\ e[k] = q[k]
            BY <2>31, <5>2
          <6>2. QED
            BY <3>2, <3>3, <5>1, <6>1
        <5>3. CASE k = i
          BY <2>32, <3>1, <3>3, <5>1, <5>3
        <5>4. CASE k > i
          <6>1. k - 1 \in 1 .. Len(q) /\ e[k] = q[k - 1]
            BY <2>33, <5>4
          <6>2. j = k - 1
            BY <3>2, <3>3, <5>1, <6>1
          <6>3. QED
            BY <2>30, <4>1, <5>4, <6>2
        <5>5. QED
          BY <2>30, <5>2, <5>3, <5>4
      <4>2. CASE j = i
        <5>1. CASE k < i
          BY <2>31, <2>32, <3>1, <3>3, <4>2, <5>1
        <5>2. CASE k > i
          BY <2>32, <2>33, <3>1, <3>3, <4>2, <5>2
        <5>3. QED
          BY <2>30, <4>2, <5>1, <5>2
      <4>3. CASE j > i
        <5>1. j - 1 \in 1 .. Len(q) /\ e[j] = q[j - 1]
          BY <2>33, <4>3
        <5>2. CASE k < i
          <6>1. k \in 1 .. Len(q) /\ e[k] = q[k]
            BY <2>31, <5>2
          <6>2. j - 1 = k
            BY <3>2, <3>3, <5>1, <6>1
          <6>3. QED
            BY <2>30, <4>3, <5>2, <6>2
        <5>3. CASE k = i
          BY <2>32, <3>1, <3>3, <5>1, <5>3
        <5>4. CASE k > i
          <6>1. k - 1 \in 1 .. Len(q) /\ e[k] = q[k - 1]
            BY <2>33, <5>4
          <6>2. j - 1 = k - 1
            BY <3>2, <3>3, <5>1, <6>1
          <6>3. QED
            BY <2>30, <6>2
        <5>5. QED
          BY <2>30, <5>2, <5>3, <5>4
      <4>4. QED
        BY <2>30, <4>1, <4>2, <4>3
    <3>4. QED
      BY <3>3 DEF NoRepeat
  <2>7. enqueue_task(s, q, vr, t) = e /\ Enqueued(s, t) = 1
    BY <1>2 DEF enqueue_task, Enqueued, e, i
  <2>8. QED
    BY <1>2, <2>3, <2>4, <2>5, <2>6, <2>7
<1>3. QED
  BY <1>1, <1>2

(* pick_next_task takes the smallest task of an ordered queue, or idle     *)
(* when it is empty, and leaves the rest as it was.                        *)
LEMMA PickProperties ==
  ASSUME NEW s \in CPUs, NEW q \in Seq(Tasks), NEW vr \in [Tasks -> Nat]
  PROVE  /\ Picked(s, q) \in Tasks
         /\ Remaining(q) \in Seq(Tasks)
         /\ Len(Remaining(q)) = Len(q) - PickedCount(q)
         /\ Members(Remaining(q)) \subseteq Members(q)
         /\ Members(q) \subseteq Members(Remaining(q)) \cup {Picked(s, q)}
         /\ q # <<>> => Picked(s, q) \in Members(q)
         /\ q = <<>> => Picked(s, q) = InitTask[s]
         /\ InOrder(q, vr) =>
              /\ InOrder(Remaining(q), vr)
              /\ \A t \in Members(Remaining(q)) : vr[Picked(s, q)] <= vr[t]
         /\ NoRepeat(q) =>
              /\ NoRepeat(Remaining(q))
              /\ q # <<>> => Picked(s, q) \notin Members(Remaining(q))
<1>0. /\ Len(q) \in Nat
      /\ \A j \in 1 .. Len(q) : q[j] \in Tasks
  BY LenProperties, ElementOfSeq
<1>1. CASE q = <<>>
  <2>1. Len(q) = 0 /\ Members(q) = {}
    BY <1>1, EmptySeq DEF Members
  <2>2. QED
    BY <1>1, <2>1, SchedulerAssumption
       DEF Picked, Remaining, PickedCount, InOrder, NoRepeat
<1>2. CASE q # <<>>
  <2> DEFINE r == Tail(q)
  <2>1. /\ Len(q) > 0
        /\ Head(q) = q[1]
    BY <1>0, <1>2, EmptySeq
  <2>2. /\ r \in Seq(Tasks)
        /\ Len(r) = Len(q) - 1
        /\ \A i \in 1 .. Len(r) : r[i] = q[i + 1]
    BY <1>2, HeadTailProperties
  <2> HIDE DEF r
  <2>3. \A i \in 1 .. Len(r) : i + 1 \in 1 .. Len(q) /\ i + 1 > 1
    BY <1>0, <2>2
  <2>4. Members(r) \subseteq Members(q)
    BY <2>2, <2>3 DEF Members
  <2>5. Members(q) \subseteq Members(r) \cup {q[1]}
    <3> SUFFICES ASSUME NEW j \in 1 .. Len(q), j # 1
                 PROVE  q[j] \in Members(r)
      BY DEF Members
    <3>1. j - 1 \in 1 .. Len(r) /\ r[j - 1] = q[j]
      BY <1>0, <2>2
    <3>2. QED
      BY <3>1 DEF Members
  <2>6. q[1] \in Members(q)
    BY <1>0, <2>1 DEF Members
  <2>7. ASSUME InOrder(q, vr)
        PROVE  /\ InOrder(r, vr)
               /\ \A t \in Members(r) : vr[q[1]] <= vr[t]
    <3>1. ASSUME NEW i \in 1 .. Len(r), NEW j \in 1 .. Len(r), i < j
          PROVE  vr[r[i]] <= vr[r[j]]
      <4>1. i + 1 \in 1 .. Len(q) /\ j + 1 \in 1 .. Len(q) /\ i + 1 < j + 1
        BY <2>3, <3>1
      <4>2. QED
        BY <2>2, <2>7, <4>1 DEF InOrder
    <3>2. ASSUME NEW i \in 1 .. Len(r) PROVE vr[q[1]] <= vr[r[i]]
      <4>1. 1 \in 1 .. Len(q) /\ i + 1 \in 1 .. Len(q) /\ 1 < i + 1
        BY <1>0, <2>1, <2>3
      <4>2. QED
        BY <2>2, <2>7, <4>1 DEF InOrder
    <3>3. QED
      BY <3>1, <3>2 DEF InOrder, Members
  <2>8. ASSUME NoRepeat(q)
        PROVE  NoRepeat(r) /\ q[1] \notin Members(r)
    <3>1. ASSUME NEW i \in 1 .. Len(r), NEW j \in 1 .. Len(r), r[i] = r[j]
          PROVE  i = j
      <4>1. i + 1 \in 1 .. Len(q) /\ j + 1 \in 1 .. Len(q)
        BY <2>3
      <4>2. i + 1 = j + 1
        BY <2>2, <2>8, <3>1, <4>1 DEF NoRepeat
      <4>3. QED
        BY <4>2
    <3>2. ASSUME NEW i \in 1 .. Len(r) PROVE r[i] # q[1]
      <4>1. 1 \in 1 .. Len(q) /\ i + 1 \in 1 .. Len(q) /\ 1 # i + 1
        BY <1>0, <2>1, <2>3
      <4>2. QED
        BY <2>2, <2>8, <4>1 DEF NoRepeat
    <3>3. QED
      BY <3>1, <3>2 DEF NoRepeat, Members
  <2>9. /\ Picked(s, q) = q[1] /\ Remaining(q) = r /\ PickedCount(q) = 1
    BY <1>2, <2>1 DEF Picked, Remaining, PickedCount, r
  <2>10. q[1] \in Tasks
    BY <1>0, <2>1
  <2>11. QED
    BY <1>2, <2>2, <2>4, <2>5, <2>6, <2>7, <2>8, <2>9, <2>10
<1>3. QED
  BY <1>1, <1>2

-----------------------------------------------------------------------------
\* What TypeOK says of one run queue.
LEMMA QueueType ==
  ASSUME TypeOK, NEW c \in CPUs
  PROVE  /\ runqueue[c] \in Seq(Tasks)
         /\ DOMAIN runqueue[c] = 1 .. Len(runqueue[c])
         /\ Queued(c) = Members(runqueue[c])
         /\ Queued(c) \subseteq Tasks
         /\ current[c] \in Tasks
         /\ Held(c) \subseteq Tasks
<1>1. runqueue[c] \in Seq(Tasks) /\ current[c] \in Tasks
  BY DEF TypeOK
<1>2. DOMAIN runqueue[c] = 1 .. Len(runqueue[c])
  BY <1>1, LenProperties
<1>3. \A i \in 1 .. Len(runqueue[c]) : runqueue[c][i] \in Tasks
  BY <1>1, ElementOfSeq
<1>4. QED
  BY <1>1, <1>2, <1>3 DEF Queued, Held, Members

(* The slice init_timeslice leaves is never longer than LongestSlice.      *)
LEMMA TimesliceBound ==
  ASSUME TypeOK, NEW t \in Tasks, NEW left \in Int, left <= LongestSlice,
         NEW n \in Nat, n >= 1
  PROVE  /\ init_timeslice(t, left, n) \in Int
         /\ init_timeslice(t, left, n) <= LongestSlice
<1>1. 4 \div n \in 0 .. 4
  <2>1. CASE n > 4
    BY <2>1
  <2>2. CASE n \in 1 .. 4
    BY <2>2
  <2>3. QED
    BY <2>1, <2>2
<1>2. QED
  BY <1>1 DEF init_timeslice, LongestSlice

\* A tick charges the current task and no other.
LEMMA ChargeProperties ==
  ASSUME SchedulerInv, NEW c \in CPUs, TickCharges(c)
  PROVE  /\ SMP_cpu_id(c) = c
         /\ current[c] \in Tasks
         /\ Charge(current[c]) \in {1, 2}
         /\ SliceAfterTick(c) = CPU_exec_task_jiffies[c] - Charge(current[c])
         /\ SliceAfterTick(c) \in Int
         /\ SliceAfterTick(c) < LongestSlice
         /\ vruntime' \in [Tasks -> Nat]
         /\ vruntime'[current[c]] = vruntime[current[c]] + Charge(current[c])
         /\ \A t \in Tasks : t # current[c] => vruntime'[t] = vruntime[t]
         /\ \A d \in CPUs : current[c] \notin Queued(d)
         /\ Runnable(current[c])
<1>1. /\ current[c] \in Tasks
      /\ SMP_cpu_id(c) = c
  BY DEF SchedulerInv, TypeOK, LocalTasks, Held, SMP_cpu_id
<1>2. Charge(current[c]) \in {1, 2}
  BY DEF Charge
<1>3. CPU_exec_task_jiffies[c] \in Int /\ CPU_exec_task_jiffies[c] <= LongestSlice
  BY DEF SchedulerInv, TypeOK, Budget
<1>4. /\ SliceAfterTick(c) = CPU_exec_task_jiffies[c] - Charge(current[c])
      /\ SliceAfterTick(c) \in Int
      /\ SliceAfterTick(c) < LongestSlice
  BY <1>1, <1>2, <1>3 DEF SliceAfterTick, LongestSlice
<1>5. vruntime \in [Tasks -> Nat]
  BY DEF SchedulerInv, TypeOK
<1>6. /\ vruntime' \in [Tasks -> Nat]
      /\ vruntime'[current[c]] = vruntime[current[c]] + Charge(current[c])
      /\ \A t \in Tasks : t # current[c] => vruntime'[t] = vruntime[t]
  BY <1>1, <1>2, <1>5 DEF TickCharges
<1>7. \A d \in CPUs : current[c] \notin Queued(d)
  BY DEF SchedulerInv, OnePlace, Held
<1>8. Runnable(current[c])
  BY DEF SchedulerInv, OnePlace, Held
<1>9. QED
  BY <1>1, <1>2, <1>4, <1>6, <1>7, <1>8

(* What schedule() does to its own CPU at a tick: the CPU holds the same   *)
(* tasks (idle may come or go), none is both executed and queued, the      *)
(* queue stays in order, the counter follows it, and no queued task is     *)
(* behind the one that runs next.                                          *)
LEMMA ScheduleEffect ==
  ASSUME SchedulerInv, NEW c \in CPUs, TickSchedule(c)
  PROVE  /\ current' \in [CPUs -> Tasks]
         /\ runqueue' \in [CPUs -> Seq(Tasks)]
         /\ running_task_count' \in [CPUs -> Nat]
         /\ CPU_exec_task_jiffies' \in [CPUs -> Int]
         /\ need_schedule' \in [Tasks -> BOOLEAN]
         /\ \A t \in Tasks : t # current[c] => need_schedule'[t] = need_schedule[t]
         /\ \A d \in CPUs : d # c =>
              /\ current'[d] = current[d]
              /\ runqueue'[d] = runqueue[d]
              /\ running_task_count'[d] = running_task_count[d]
              /\ CPU_exec_task_jiffies'[d] = CPU_exec_task_jiffies[d]
         /\ running_task_count'[c] = 1 + Len(runqueue'[c])
         /\ CPU_exec_task_jiffies'[c] <= LongestSlice
         /\ InOrder(runqueue'[c], vruntime')
         /\ NoRepeat(runqueue'[c])
         /\ current'[c] \notin Members(runqueue'[c])
         /\ InitTask[c] \notin Members(runqueue'[c])
         /\ current'[c] \in Held(c) \cup {InitTask[c]}
         /\ Members(runqueue'[c]) \subseteq Held(c)
         /\ Held(c) \subseteq {current'[c], InitTask[c]} \cup Members(runqueue'[c])
         /\ \A t \in Members(runqueue'[c]) : vruntime'[current'[c]] <= vruntime'[t]
<1> DEFINE prev == current[c]
           q    == runqueue[c]
           tsk  == Picked(c, q)
           rest == Remaining(q)
           n    == running_task_count[c] - PickedCount(q)
           left == SliceAfterTick(c)
<1> USE DEF TickSchedule
<1>1. /\ SMP_cpu_id(c) = c
      /\ prev \in Tasks
      /\ left \in Int /\ left <= LongestSlice
      /\ vruntime' \in [Tasks -> Nat]
      /\ \A t \in Tasks : t # prev => vruntime'[t] = vruntime[t]
      /\ prev \notin Queued(c)
      /\ state[prev] = "RUNNING"
  BY ChargeProperties DEF Runnable, LongestSlice
<1>2. /\ TypeOK
      /\ q \in Seq(Tasks)
      /\ DOMAIN q = 1 .. Len(q)
      /\ Queued(c) = Members(q)
      /\ Held(c) = {prev} \cup Members(q)
      /\ Members(q) \subseteq Tasks
      /\ Len(q) \in Nat
  BY QueueType, LenProperties DEF SchedulerInv, Held
<1>3. /\ NoRepeat(q)
      /\ InitTask[c] \notin Members(q)
      /\ running_task_count[c] = 1 + Len(q)
      /\ InitTask[c] \in Tasks
  BY <1>2, SchedulerAssumption
     DEF SchedulerInv, OnePlace, CountIsQueueLength, NoRepeat
<1>4. \A i \in 1 .. Len(q) : q[i] \in Tasks /\ q[i] # prev
  BY <1>1, <1>2 DEF Members
<1>5. InOrder(q, vruntime')
  <2>1. InOrder(q, vruntime)
    BY <1>2 DEF SchedulerInv, Ordered, InOrder
  <2>2. QED
    BY <1>1, <1>4, <2>1 DEF InOrder
<1>6. /\ tsk \in Tasks
      /\ rest \in Seq(Tasks)
      /\ Len(rest) = Len(q) - PickedCount(q)
      /\ Members(rest) \subseteq Members(q)
      /\ Members(q) \subseteq Members(rest) \cup {tsk}
      /\ q # <<>> => tsk \in Members(q)
      /\ q = <<>> => tsk = InitTask[c]
      /\ InOrder(rest, vruntime')
      /\ \A t \in Members(rest) : vruntime'[tsk] <= vruntime'[t]
      /\ NoRepeat(rest)
      /\ q # <<>> => tsk \notin Members(rest)
  BY <1>1, <1>2, <1>3, <1>5, PickProperties
<1>7. /\ tsk \notin Members(rest)
      /\ prev \notin Members(rest)
      /\ InitTask[c] \notin Members(rest)
      /\ Len(rest) \in Nat
      /\ n = 1 + Len(rest)
  <2>1. /\ prev \notin Members(rest)
        /\ InitTask[c] \notin Members(rest)
    BY <1>1, <1>2, <1>3, <1>6
  <2>2. Len(rest) \in Nat /\ PickedCount(q) \in {0, 1}
    BY <1>6, LenProperties DEF PickedCount
  <2>3. QED
    BY <1>2, <1>3, <1>6, <2>1, <2>2
<1>8. schedule(c, vruntime', left)
  OBVIOUS
<1> HIDE DEF prev, q, tsk, rest, n, left
<1>9. need_schedule' = [need_schedule EXCEPT ![prev] = FALSE]
  BY <1>8 DEF schedule, prev
<1>10. CASE vruntime'[prev] >= vruntime'[tsk]
  <2> DEFINE nq == enqueue_task(c, rest, vruntime', prev)
             m  == n + Enqueued(c, prev)
  <2>1. /\ runqueue' = [runqueue EXCEPT ![c] = nq]
        /\ running_task_count' = [running_task_count EXCEPT ![c] = m]
        /\ CPU_exec_task_jiffies' = [CPU_exec_task_jiffies EXCEPT
             ![c] = init_timeslice(tsk, left, m)]
        /\ current' = [current EXCEPT ![c] = tsk]
    BY <1>1, <1>6, <1>8, <1>10 DEF schedule, prev, q, tsk, rest, n, left
  <2>2. /\ nq \in Seq(Tasks)
        /\ Len(nq) = Len(rest) + Enqueued(c, prev)
        /\ Members(nq) = IF prev = InitTask[c] THEN Members(rest)
                         ELSE Members(rest) \cup {prev}
        /\ InOrder(nq, vruntime')
        /\ NoRepeat(nq)
    <3>1. /\ rest \in Seq(Tasks) /\ vruntime' \in [Tasks -> Nat] /\ prev \in Tasks
          /\ InOrder(rest, vruntime') /\ NoRepeat(rest) /\ prev \notin Members(rest)
      BY <1>1, <1>6, <1>7
    <3>2. QED
      BY <3>1, EnqueueProperties
  <2>3. Enqueued(c, prev) \in {0, 1}
    BY DEF Enqueued
  <2>4. m \in Nat /\ m >= 1 /\ m = 1 + Len(nq)
    BY <1>7, <2>2, <2>3
  <2> HIDE DEF nq, m
  <2>5. /\ init_timeslice(tsk, left, m) \in Int
        /\ init_timeslice(tsk, left, m) <= LongestSlice
    BY <1>1, <1>2, <1>6, <2>4, TimesliceBound
  <2>6. /\ current' \in [CPUs -> Tasks]
        /\ runqueue' \in [CPUs -> Seq(Tasks)]
        /\ running_task_count' \in [CPUs -> Nat]
        /\ CPU_exec_task_jiffies' \in [CPUs -> Int]
        /\ current'[c] = tsk
        /\ runqueue'[c] = nq
        /\ running_task_count'[c] = m
        /\ CPU_exec_task_jiffies'[c] <= LongestSlice
        /\ \A d \in CPUs : d # c =>
              /\ current'[d] = current[d]
              /\ runqueue'[d] = runqueue[d]
              /\ running_task_count'[d] = running_task_count[d]
              /\ CPU_exec_task_jiffies'[d] = CPU_exec_task_jiffies[d]
    BY <1>2, <1>6, <2>1, <2>2, <2>4, <2>5 DEF TypeOK
  <2>7. tsk \notin Members(nq)
    <3>1. CASE q = <<>>
      BY <1>6, <1>7, <2>2, <3>1
    <3>2. CASE q # <<>>
      BY <1>1, <1>2, <1>6, <1>7, <2>2, <3>2
    <3>3. QED
      BY <3>1, <3>2
  <2>8. /\ InitTask[c] \notin Members(nq)
        /\ tsk \in Held(c) \cup {InitTask[c]}
        /\ Members(nq) \subseteq Held(c)
        /\ Held(c) \subseteq {tsk, InitTask[c]} \cup Members(nq)
    BY <1>2, <1>6, <1>7, <2>2
  <2>9. \A t \in Members(nq) : vruntime'[tsk] <= vruntime'[t]
    BY <1>1, <1>6, <1>10, <2>2
  <2>10. QED
    BY <1>2, <1>9, <2>2, <2>4, <2>6, <2>7, <2>8, <2>9 DEF TypeOK, prev
<1>11. CASE vruntime'[prev] < vruntime'[tsk]
  <2> DEFINE nq == enqueue_task(c, rest, vruntime', tsk)
             m  == n + Enqueued(c, tsk)
  <2>1. /\ runqueue' = [runqueue EXCEPT ![c] = nq]
        /\ running_task_count' = [running_task_count EXCEPT ![c] = m]
        /\ CPU_exec_task_jiffies' = [CPU_exec_task_jiffies EXCEPT
             ![c] = init_timeslice(prev, left, m)]
        /\ current' = current
    BY <1>1, <1>6, <1>8, <1>11 DEF schedule, prev, q, tsk, rest, n, left
  <2>2. /\ nq \in Seq(Tasks)
        /\ Len(nq) = Len(rest) + Enqueued(c, tsk)
        /\ Members(nq) = IF tsk = InitTask[c] THEN Members(rest)
                         ELSE Members(rest) \cup {tsk}
        /\ InOrder(nq, vruntime')
        /\ NoRepeat(nq)
    <3>1. /\ rest \in Seq(Tasks) /\ vruntime' \in [Tasks -> Nat] /\ tsk \in Tasks
          /\ InOrder(rest, vruntime') /\ NoRepeat(rest) /\ tsk \notin Members(rest)
      BY <1>1, <1>6, <1>7
    <3>2. QED
      BY <3>1, EnqueueProperties
  <2>3. Enqueued(c, tsk) \in {0, 1}
    BY DEF Enqueued
  <2>4. m \in Nat /\ m >= 1 /\ m = 1 + Len(nq)
    BY <1>7, <2>2, <2>3
  <2> HIDE DEF nq, m
  <2>5. /\ init_timeslice(prev, left, m) \in Int
        /\ init_timeslice(prev, left, m) <= LongestSlice
    BY <1>1, <1>2, <2>4, TimesliceBound
  <2>6. /\ current' \in [CPUs -> Tasks]
        /\ runqueue' \in [CPUs -> Seq(Tasks)]
        /\ running_task_count' \in [CPUs -> Nat]
        /\ CPU_exec_task_jiffies' \in [CPUs -> Int]
        /\ current'[c] = prev
        /\ runqueue'[c] = nq
        /\ running_task_count'[c] = m
        /\ CPU_exec_task_jiffies'[c] <= LongestSlice
        /\ \A d \in CPUs : d # c =>
              /\ current'[d] = current[d]
              /\ runqueue'[d] = runqueue[d]
              /\ running_task_count'[d] = running_task_count[d]
              /\ CPU_exec_task_jiffies'[d] = CPU_exec_task_jiffies[d]
    BY <1>2, <2>1, <2>2, <2>4, <2>5 DEF TypeOK, prev
  <2>7. prev # tsk
    BY <1>1, <1>6, <1>11
  <2>8. /\ prev \notin Members(nq)
        /\ InitTask[c] \notin Members(nq)
        /\ Members(nq) \subseteq Held(c)
        /\ Held(c) \subseteq {prev, InitTask[c]} \cup Members(nq)
    BY <1>1, <1>2, <1>3, <1>6, <1>7, <2>2, <2>7
  <2>9. \A t \in Members(nq) : vruntime'[prev] <= vruntime'[t]
    <3>1. ASSUME NEW t \in Members(nq) PROVE vruntime'[tsk] <= vruntime'[t]
      BY <1>1, <1>2, <1>6, <2>2
    <3>2. ASSUME NEW t \in Members(nq) PROVE t \in Tasks
      BY <1>2, <1>6, <2>2
    <3>3. QED
      BY <1>1, <1>6, <1>11, <3>1, <3>2
  <2>10. prev \in Held(c)
    BY <1>2
  <2>11. QED
    BY <1>2, <1>9, <2>2, <2>4, <2>6, <2>8, <2>9, <2>10 DEF TypeOK, prev
<1>12. QED
  BY <1>1, <1>6, <1>10, <1>11

-----------------------------------------------------------------------------
(* The invariant holds in the initial states.                              *)
LEMMA InitInv == Init => SchedulerInv
<1> SUFFICES ASSUME Init PROVE SchedulerInv
  OBVIOUS
<1> USE DEF Init
<1>1. TypeOK
  <2>1. cpu_id \in [Tasks -> CPUs]
    <3>1. ASSUME NEW t \in Tasks, t \in IdleTasks PROVE cpu_id[t] \in CPUs
      BY <3>1, SchedulerAssumption DEF IdleTasks
    <3>2. ASSUME NEW t \in Tasks, t \notin IdleTasks PROVE cpu_id[t] \in CPUs
      <4>1. (CHOOSE c \in CPUs : TRUE) \in CPUs
        BY SchedulerAssumption
      <4>2. QED
        BY <3>2, <4>1
    <3>3. \A t \in Tasks : cpu_id[t] \in CPUs
      BY <3>1, <3>2
    <3>4. QED
      BY <3>3
  <2>2. runqueue \in [CPUs -> Seq(Tasks)]
    BY EmptySeq
  <2>3. state \in [Tasks -> States]
    BY DEF States
  <2> HIDE DEF Init
  <2>4. /\ current \in [CPUs -> Tasks]
        /\ running_task_count \in [CPUs -> Nat]
        /\ CPU_exec_task_jiffies \in [CPUs -> Int]
        /\ priority \in [Tasks -> {0, 1, 2}]
        /\ vruntime \in [Tasks -> Nat]
        /\ need_schedule \in [Tasks -> BOOLEAN]
        /\ preempt_count \in [Tasks -> Nat]
        /\ if_flag \in [Tasks -> BOOLEAN]
        /\ child \in [Tasks -> Tasks \cup {NoTask}]
        /\ head_start \in [Tasks -> Nat]
    BY SchedulerAssumption DEF Init
  <2>5. QED
    BY <2>1, <2>2, <2>3, <2>4 DEF TypeOK
<1>2. \A c \in CPUs : Queued(c) = {} /\ Len(runqueue[c]) = 0
                     /\ DOMAIN runqueue[c] = {}
  BY EmptySeq DEF Queued
<1>3. \A c \in CPUs : cpu_id[InitTask[c]] = c
  BY SchedulerAssumption DEF IdleTasks
<1>4. OnePlace
  BY <1>2, SchedulerAssumption DEF OnePlace, Held, IdleTasks, Runnable
<1>5. CountIsQueueLength /\ Ordered
  BY <1>2 DEF CountIsQueueLength, Ordered
<1>6. LocalTasks
  BY <1>2, <1>3 DEF LocalTasks, Held
<1>7. ForksInProgress
  BY DEF ForksInProgress
<1>8. Budget
  BY <1>2 DEF Budget, LongestSlice
<1>9. QED
  BY <1>1, <1>4, <1>5, <1>6, <1>7, <1>8 DEF SchedulerInv

(* What a step that moves no task and changes no state does to OnePlace.   *)
LEMMA OnePlaceUnchanged ==
  ASSUME OnePlace, UNCHANGED <<current, runqueue, state>>
  PROVE  OnePlace'
<1>1. \A c \in CPUs : Queued(c)' = Queued(c)
  BY DEF Queued
<1>2. \A c \in CPUs : Held(c)' = Held(c)
  BY <1>1 DEF Held
<1>3. \A t : Runnable(t)' <=> Runnable(t)
  BY DEF Runnable
<1>4. \A t \in Tasks \ IdleTasks :
        Runnable(t)' => \E c \in CPUs : t \in Held(c)'
  BY <1>2, <1>3 DEF OnePlace
<1>5. ASSUME NEW c \in CPUs
      PROVE  /\ \A t \in Held(c)' \cup {InitTask[c]} : Runnable(t)'
             /\ current'[c] \notin Queued(c)'
             /\ \A i, j \in DOMAIN runqueue'[c] :
                  runqueue'[c][i] = runqueue'[c][j] => i = j
             /\ \A d \in CPUs : c # d => Held(c)' \cap Held(d)' = {}
             /\ \A d \in CPUs : /\ InitTask[c] \notin Queued(d)'
                                /\ current'[d] = InitTask[c] => c = d
  <2>1. \A t \in Held(c)' \cup {InitTask[c]} : Runnable(t)'
    BY <1>2, <1>3 DEF OnePlace
  <2>2. current'[c] \notin Queued(c)'
    BY <1>1 DEF OnePlace
  <2>3. \A i, j \in DOMAIN runqueue'[c] :
          runqueue'[c][i] = runqueue'[c][j] => i = j
    BY DEF OnePlace
  <2>4. \A d \in CPUs : c # d => Held(c)' \cap Held(d)' = {}
    BY <1>2 DEF OnePlace
  <2>5. \A d \in CPUs : /\ InitTask[c] \notin Queued(d)'
                        /\ current'[d] = InitTask[c] => c = d
    BY <1>1 DEF OnePlace
  <2>6. QED
    BY <2>1, <2>2, <2>3, <2>4, <2>5
<1>6. QED
  BY <1>4, <1>5 DEF OnePlace

(* The invariant survives the actions that touch neither queue nor clock.  *)
LEMMA FlagsInv ==
  ASSUME SchedulerInv, NEW c \in CPUs,
         SystemCall(c) \/ PreemptDisable(c) \/ PreemptEnable(c)
  PROVE  SchedulerInv'
<1>0. /\ current[c] \in Tasks
      /\ if_flag \in [Tasks -> BOOLEAN]
      /\ preempt_count \in [Tasks -> Nat]
  BY DEF SchedulerInv, TypeOK
<1>1. /\ UNCHANGED <<current, runqueue, running_task_count,
                     CPU_exec_task_jiffies, state, priority, vruntime,
                     need_schedule, cpu_id, child, head_start>>
      /\ if_flag' \in [Tasks -> BOOLEAN]
      /\ preempt_count' \in [Tasks -> Nat]
  <2>1. CASE SystemCall(c)
    BY <1>0, <2>1 DEF SystemCall, cpuVars
  <2>2. CASE PreemptDisable(c)
    BY <1>0, <2>2 DEF PreemptDisable, cpuVars
  <2>3. CASE PreemptEnable(c)
    <3>1. preempt_count[current[c]] - 1 \in Nat
      BY <1>0, <2>3 DEF PreemptEnable
    <3>2. QED
      BY <1>0, <2>3, <3>1 DEF PreemptEnable, cpuVars
  <2>4. QED
    BY <2>1, <2>2, <2>3
<1>2. TypeOK'
  BY <1>1 DEF SchedulerInv, TypeOK
<1>3. OnePlace'
  <2>1. OnePlace
    BY DEF SchedulerInv
  <2>2. UNCHANGED <<current, runqueue, state>>
    BY <1>1
  <2>3. QED
    BY <2>1, <2>2, OnePlaceUnchanged
<1>4. CountIsQueueLength' /\ Ordered' /\ LocalTasks'
  BY <1>1 DEF SchedulerInv, CountIsQueueLength, Ordered, LocalTasks, Held,
              Queued
<1>5. ForksInProgress' /\ Budget'
  BY <1>1 DEF SchedulerInv, ForksInProgress, Budget, Queued, Runnable
<1>6. QED
  BY <1>2, <1>3, <1>4, <1>5 DEF SchedulerInv

\* A child under construction is never the task a CPU executes.
LEMMA ChildNotHeld ==
  ASSUME SchedulerInv, NEW p \in Tasks, child[p] # NoTask
  PROVE  /\ child[p] \in Tasks
         /\ \A c \in CPUs : child[p] \notin Held(c)
  BY DEF SchedulerInv, TypeOK, OnePlace, ForksInProgress, Runnable

\* The vruntime of a child stays behind that of its parent over a tick.
LEMMA TickKeepsForks ==
  ASSUME SchedulerInv, NEW c \in CPUs, TickCharges(c)
  PROVE  ForksInProgress'
<1>1. /\ vruntime \in [Tasks -> Nat]
      /\ vruntime' \in [Tasks -> Nat]
      /\ \A t \in Tasks : vruntime'[t] >= vruntime[t]
  <2>1. vruntime \in [Tasks -> Nat]
    BY DEF SchedulerInv, TypeOK
  <2>2. QED
    BY <2>1, ChargeProperties
<1>2. state' = state /\ cpu_id' = cpu_id /\ child' = child
  BY DEF TickCharges
<1>3. ASSUME NEW p \in Tasks, child[p] # NoTask
      PROVE  vruntime'[child[p]] <= vruntime'[p]
  <2>1. child[p] \in Tasks /\ child[p] # current[c]
    BY <1>3, ChildNotHeld DEF Held
  <2>2. vruntime'[child[p]] = vruntime[child[p]]
    BY <2>1, ChargeProperties
  <2>3. vruntime[child[p]] <= vruntime[p]
    BY <1>3 DEF SchedulerInv, ForksInProgress
  <2>4. QED
    BY <1>1, <2>1, <2>2, <2>3
<1>4. QED
  BY <1>2, <1>3 DEF SchedulerInv, ForksInProgress, Runnable

(* A tick that returns to the task it interrupted.                         *)
LEMMA TickReturnInv ==
  ASSUME SchedulerInv, NEW c \in CPUs, TickReturn(c)
  PROVE  SchedulerInv'
<1> DEFINE prev == current[c]
<1>1. /\ TickCharges(c)
      /\ ~WantsSchedule(c) \/ preempt_count[prev] # 0
      /\ need_schedule' = [need_schedule EXCEPT ![prev] = WantsSchedule(c)]
      /\ CPU_exec_task_jiffies' = [CPU_exec_task_jiffies EXCEPT
                                     ![c] = SliceAfterTick(c)]
      /\ UNCHANGED <<current, runqueue, running_task_count>>
  <2>1. TickCharges(c)
    BY DEF TickReturn
  <2>2. QED
    BY <2>1, ChargeProperties DEF TickReturn
<1>2. /\ prev \in Tasks
      /\ SMP_cpu_id(c) = c
      /\ Charge(prev) \in {1, 2}
      /\ SliceAfterTick(c) = CPU_exec_task_jiffies[c] - Charge(prev)
      /\ SliceAfterTick(c) \in Int /\ SliceAfterTick(c) < LongestSlice
      /\ vruntime' \in [Tasks -> Nat]
      /\ vruntime'[prev] = vruntime[prev] + Charge(prev)
      /\ \A t \in Tasks : t # prev => vruntime'[t] = vruntime[t]
      /\ \A d \in CPUs : prev \notin Queued(d)
  BY <1>1, ChargeProperties
<1>3. UNCHANGED <<state, priority, preempt_count, cpu_id, if_flag, child,
                  head_start>>
  BY <1>1 DEF TickCharges
<1>4. WantsSchedule(c) \in BOOLEAN
  BY <1>2 DEF WantsSchedule, SchedulerInv, TypeOK
<1> HIDE DEF prev
<1>5. TypeOK'
  BY <1>1, <1>2, <1>3, <1>4 DEF SchedulerInv, TypeOK
<1>6. OnePlace' /\ LocalTasks'
  <2>1. OnePlace /\ LocalTasks
    BY DEF SchedulerInv
  <2>2. OnePlace'
    <3>1. UNCHANGED <<current, runqueue, state>>
      BY <1>1, <1>3
    <3>2. QED
      BY <2>1, <3>1 DEF OnePlace, Held, Queued, Runnable
  <2>3. LocalTasks'
    BY <1>1, <1>3, <2>1 DEF LocalTasks, Held, Queued
  <2>4. QED
    BY <2>2, <2>3
<1>7. CountIsQueueLength'
  BY <1>1 DEF SchedulerInv, CountIsQueueLength
<1>8. \A d \in CPUs : \A t \in Queued(d) :
        t \in Tasks /\ vruntime'[t] = vruntime[t]
  BY <1>2, QueueType DEF SchedulerInv
<1>9. Ordered'
  <2>1. ASSUME NEW d \in CPUs, NEW i \in DOMAIN runqueue[d]
        PROVE  vruntime'[runqueue[d][i]] = vruntime[runqueue[d][i]]
    BY <1>8 DEF Queued
  <2>2. QED
    BY <1>1, <2>1 DEF SchedulerInv, Ordered
<1>10. ForksInProgress'
  BY <1>1, TickKeepsForks
<1>11. Budget'
  <2> SUFFICES ASSUME NEW d \in CPUs
               PROVE  /\ CPU_exec_task_jiffies'[d] <= LongestSlice
                      /\ \A t \in Queued(d) :
                           vruntime'[current[d]] + CPU_exec_task_jiffies'[d]
                             <= vruntime'[t] + LongestSlice + head_start[t]
                      /\ ~need_schedule'[current[d]]
                         /\ CPU_exec_task_jiffies'[d] <= 0 =>
                           \A t \in Queued(d) :
                             vruntime'[current[d]] <= vruntime'[t] + head_start[t]
    BY <1>1, <1>3 DEF Budget, Queued
  <2>1. /\ CPU_exec_task_jiffies \in [CPUs -> Int]
        /\ vruntime \in [Tasks -> Nat]
        /\ head_start \in [Tasks -> Nat]
        /\ need_schedule \in [Tasks -> BOOLEAN]
        /\ current \in [CPUs -> Tasks]
    BY DEF SchedulerInv, TypeOK
  <2>2. /\ CPU_exec_task_jiffies[d] <= LongestSlice
        /\ \A t \in Queued(d) :
             vruntime[current[d]] + CPU_exec_task_jiffies[d]
               <= vruntime[t] + LongestSlice + head_start[t]
        /\ ~need_schedule[current[d]] /\ CPU_exec_task_jiffies[d] <= 0 =>
             \A t \in Queued(d) : vruntime[current[d]] <= vruntime[t] + head_start[t]
    BY DEF SchedulerInv, Budget
  <2>3. CASE d = c
    <3>1. CPU_exec_task_jiffies'[c] = SliceAfterTick(c)
      BY <1>1, <2>1
    <3>2. vruntime'[prev] + CPU_exec_task_jiffies'[c]
            = vruntime[prev] + CPU_exec_task_jiffies[c]
      BY <1>2, <2>1, <3>1
    <3>3. need_schedule'[prev] = WantsSchedule(c)
      BY <1>1, <1>2, <2>1
    <3>4. CPU_exec_task_jiffies'[c] <= 0 => need_schedule'[prev]
      BY <3>1, <3>3 DEF WantsSchedule
    <3>5. QED
      BY <1>2, <1>8, <2>2, <2>3, <3>1, <3>2, <3>4 DEF prev, LongestSlice
  <2>4. CASE d # c
    <3>1. /\ CPU_exec_task_jiffies'[d] = CPU_exec_task_jiffies[d]
          /\ current[d] # prev
          /\ current[d] \in Tasks
      BY <1>1, <2>1, <2>4 DEF SchedulerInv, OnePlace, Held, prev
    <3>2. /\ vruntime'[current[d]] = vruntime[current[d]]
          /\ need_schedule'[current[d]] = need_schedule[current[d]]
      BY <1>1, <1>2, <2>1, <3>1
    <3>3. QED
      BY <1>8, <2>2, <3>1, <3>2
  <2>5. QED
    BY <2>3, <2>4
<1>12. QED
  BY <1>5, <1>6, <1>7, <1>9, <1>10, <1>11 DEF SchedulerInv

(* A tick that reschedules.                                                *)
LEMMA TickScheduleInv ==
  ASSUME SchedulerInv, NEW c \in CPUs, TickSchedule(c)
  PROVE  SchedulerInv'
<1> DEFINE nq   == runqueue'[c]
           ncur == current'[c]
<1>1. /\ current' \in [CPUs -> Tasks]
      /\ runqueue' \in [CPUs -> Seq(Tasks)]
      /\ running_task_count' \in [CPUs -> Nat]
      /\ CPU_exec_task_jiffies' \in [CPUs -> Int]
      /\ need_schedule' \in [Tasks -> BOOLEAN]
      /\ \A t \in Tasks : t # current[c] => need_schedule'[t] = need_schedule[t]
      /\ \A d \in CPUs : d # c =>
           /\ current'[d] = current[d]
           /\ runqueue'[d] = runqueue[d]
           /\ running_task_count'[d] = running_task_count[d]
           /\ CPU_exec_task_jiffies'[d] = CPU_exec_task_jiffies[d]
      /\ running_task_count'[c] = 1 + Len(nq)
      /\ CPU_exec_task_jiffies'[c] <= LongestSlice
      /\ InOrder(nq, vruntime')
      /\ NoRepeat(nq)
      /\ ncur \notin Members(nq)
      /\ InitTask[c] \notin Members(nq)
      /\ ncur \in Held(c) \cup {InitTask[c]}
      /\ Members(nq) \subseteq Held(c)
      /\ Held(c) \subseteq {ncur, InitTask[c]} \cup Members(nq)
      /\ \A t \in Members(nq) : vruntime'[ncur] <= vruntime'[t]
  BY ScheduleEffect
<1>2. /\ TickCharges(c)
      /\ UNCHANGED <<state, priority, preempt_count, cpu_id, if_flag, child,
                     head_start>>
  BY DEF TickSchedule, TickCharges
<1>3. /\ vruntime' \in [Tasks -> Nat]
      /\ \A t \in Tasks : t # current[c] => vruntime'[t] = vruntime[t]
      /\ \A d \in CPUs : current[c] \notin Queued(d)
  BY <1>2, ChargeProperties
<1>4. TypeOK /\ OnePlace /\ LocalTasks
  BY DEF SchedulerInv
<1>5. /\ DOMAIN nq = 1 .. Len(nq)
      /\ Queued(c)' = Members(nq)
      /\ Held(c)' = {ncur} \cup Members(nq)
      /\ Members(nq) \subseteq Tasks
      /\ Held(c) \subseteq Tasks
  <2>1. nq \in Seq(Tasks)
    BY <1>1
  <2>2. DOMAIN nq = 1 .. Len(nq)
    BY <2>1, LenProperties
  <2>3. Held(c) \subseteq Tasks
    BY <1>4, QueueType
  <2>4. QED
    BY <1>1, <2>2, <2>3 DEF Queued, Held, Members
<1>6. \A d \in CPUs : d # c =>
        /\ Queued(d)' = Queued(d)
        /\ Held(d)' = Held(d)
  BY <1>1 DEF Queued, Held
<1>7. /\ \A d \in CPUs : /\ InitTask[d] \in Tasks
                         /\ cpu_id[InitTask[d]] = d
                         /\ Runnable(InitTask[d])
      /\ \A d, e \in CPUs : InitTask[d] = InitTask[e] => d = e
      /\ \A d, e \in CPUs : InitTask[d] \in Held(e) => d = e
  BY <1>4, SchedulerAssumption DEF OnePlace, LocalTasks, Held
<1> HIDE DEF nq, ncur
<1>8. TypeOK'
  BY <1>1, <1>2, <1>3, <1>4 DEF TypeOK
<1>9. /\ \A d, e \in CPUs : d # e => Held(d) \cap Held(e) = {}
      /\ \A d \in CPUs : \A t \in Held(d) : Runnable(t)
      /\ \A t \in Tasks \ IdleTasks :
           Runnable(t) => \E d \in CPUs : t \in Held(d)
      /\ \A d \in CPUs : current[d] \notin Queued(d)
      /\ \A d \in CPUs : \A i, j \in DOMAIN runqueue[d] :
           runqueue[d][i] = runqueue[d][j] => i = j
  BY <1>4 DEF OnePlace
<1>10. Held(c)' \subseteq Held(c) \cup {InitTask[c]}
  BY <1>1, <1>5
<1>11. OnePlace'
  <2>1. ASSUME NEW t \in Tasks \ IdleTasks, Runnable(t)'
        PROVE  \E d \in CPUs : t \in Held(d)'
    <3>1. PICK d \in CPUs : t \in Held(d)
      BY <1>2, <1>9, <2>1 DEF Runnable
    <3>2. t # InitTask[c]
      BY DEF IdleTasks
    <3>3. CASE d = c
      BY <1>1, <1>5, <3>1, <3>2, <3>3
    <3>4. CASE d # c
      BY <1>6, <3>1, <3>4
    <3>5. QED
      BY <3>3, <3>4
  <2>2. ASSUME NEW d \in CPUs, NEW t \in Held(d)' \cup {InitTask[d]}
        PROVE  Runnable(t)'
    <3>1. Runnable(t)
      BY <1>6, <1>7, <1>9, <1>10
    <3>2. QED
      BY <1>2, <3>1 DEF Runnable
  <2>3. ASSUME NEW d \in CPUs PROVE current'[d] \notin Queued(d)'
    <3>1. CASE d = c
      BY <1>1, <1>5, <3>1 DEF ncur
    <3>2. CASE d # c
      <4>1. current'[d] = current[d] /\ Queued(d)' = Queued(d)
        BY <1>1, <1>6, <3>2
      <4>2. QED
        BY <1>9, <4>1
    <3>3. QED
      BY <3>1, <3>2
  <2>4. ASSUME NEW d \in CPUs, NEW i \in DOMAIN runqueue'[d],
               NEW j \in DOMAIN runqueue'[d], runqueue'[d][i] = runqueue'[d][j]
        PROVE  i = j
    <3>1. CASE d = c
      <4>1. /\ i \in 1 .. Len(nq) /\ j \in 1 .. Len(nq)
            /\ nq[i] = nq[j]
        BY <1>5, <2>4, <3>1 DEF nq
      <4>2. NoRepeat(nq)
        BY <1>1
      <4>3. QED
        BY <4>1, <4>2 DEF NoRepeat
    <3>2. CASE d # c
      <4>1. runqueue'[d] = runqueue[d]
        BY <1>1, <3>2
      <4>2. QED
        BY <1>9, <2>4, <4>1
    <3>3. QED
      BY <3>1, <3>2
  <2>5. ASSUME NEW d \in CPUs, NEW e \in CPUs, d # e
        PROVE  Held(d)' \cap Held(e)' = {}
    BY <1>6, <1>7, <1>9, <1>10, <2>5
  <2>6. ASSUME NEW d \in CPUs, NEW e \in CPUs
        PROVE  /\ InitTask[d] \notin Queued(e)'
               /\ current'[e] = InitTask[d] => d = e
    <3>1. CASE e = c
      <4>1. InitTask[d] \notin Queued(e)'
        BY <1>1, <1>5, <1>7, <3>1
      <4>2. current'[e] = InitTask[d] => d = e
        BY <1>1, <1>7, <3>1 DEF ncur
      <4>3. QED
        BY <4>1, <4>2
    <3>2. CASE e # c
      BY <1>1, <1>4, <1>6, <3>2 DEF OnePlace
    <3>3. QED
      BY <3>1, <3>2
  <2>7. QED
    BY <2>1, <2>2, <2>3, <2>4, <2>5, <2>6 DEF OnePlace
<1>12. CountIsQueueLength'
  BY <1>1 DEF SchedulerInv, CountIsQueueLength, nq
<1>13. Ordered'
  <2> SUFFICES ASSUME NEW d \in CPUs, NEW i \in DOMAIN runqueue'[d],
                      NEW j \in DOMAIN runqueue'[d], i < j
               PROVE  vruntime'[runqueue'[d][i]] <= vruntime'[runqueue'[d][j]]
    BY DEF Ordered
  <2>1. CASE d = c
    BY <1>1, <1>5, <2>1 DEF InOrder, nq
  <2>2. CASE d # c
    <3>1. ASSUME NEW k \in DOMAIN runqueue[d]
          PROVE  vruntime'[runqueue[d][k]] = vruntime[runqueue[d][k]]
      BY <1>3, <1>4, QueueType DEF Queued
    <3>2. vruntime[runqueue[d][i]] <= vruntime[runqueue[d][j]]
      BY <1>1, <2>2 DEF SchedulerInv, Ordered
    <3>3. QED
      BY <1>1, <2>2, <3>1, <3>2
  <2>3. QED
    BY <2>1, <2>2
<1>14. LocalTasks'
  <2>1. ASSUME NEW d \in CPUs, NEW t \in Held(d)' \cup {InitTask[d]}
        PROVE  cpu_id[t] = d
    BY <1>4, <1>6, <1>7, <1>10 DEF LocalTasks
  <2>2. QED
    BY <1>2, <2>1 DEF LocalTasks
<1>15. ForksInProgress'
  BY <1>2, TickKeepsForks
<1>16. Budget'
  <2> SUFFICES ASSUME NEW d \in CPUs
               PROVE  /\ CPU_exec_task_jiffies'[d] <= LongestSlice
                      /\ \A t \in Queued(d)' :
                           vruntime'[current'[d]] + CPU_exec_task_jiffies'[d]
                             <= vruntime'[t] + LongestSlice + head_start[t]
                      /\ ~need_schedule'[current'[d]]
                         /\ CPU_exec_task_jiffies'[d] <= 0 =>
                           \A t \in Queued(d)' :
                             vruntime'[current'[d]] <= vruntime'[t] + head_start[t]
    BY <1>2 DEF Budget
  <2>1. /\ CPU_exec_task_jiffies \in [CPUs -> Int]
        /\ vruntime \in [Tasks -> Nat]
        /\ head_start \in [Tasks -> Nat]
        /\ current \in [CPUs -> Tasks]
    BY DEF SchedulerInv, TypeOK
  <2>2. CASE d = c
    <3>1. ASSUME NEW t \in Queued(d)'
          PROVE  /\ vruntime'[ncur] <= vruntime'[t]
                 /\ t \in Tasks
      BY <1>1, <1>5, <2>2
    <3>2. ncur \in Tasks
      BY <1>1 DEF ncur
    <3>3. /\ CPU_exec_task_jiffies'[c] \in Int
          /\ CPU_exec_task_jiffies'[c] <= 12
          /\ vruntime'[ncur] \in Nat
      BY <1>1, <1>3, <3>2 DEF LongestSlice
    <3>4. ASSUME NEW t \in Queued(d)'
          PROVE  /\ vruntime'[ncur] + CPU_exec_task_jiffies'[c]
                      <= vruntime'[t] + 12 + head_start[t]
                 /\ vruntime'[ncur] <= vruntime'[t] + head_start[t]
      <4>1. vruntime'[t] \in Nat /\ head_start[t] \in Nat
        BY <1>3, <2>1, <3>1
      <4>2. QED
        BY <3>1, <3>3, <4>1
    <3>5. QED
      BY <2>2, <3>3, <3>4 DEF ncur, LongestSlice
  <2>3. CASE d # c
    <3>1. /\ CPU_exec_task_jiffies[d] <= LongestSlice
          /\ \A t \in Queued(d) :
               vruntime[current[d]] + CPU_exec_task_jiffies[d]
                 <= vruntime[t] + LongestSlice + head_start[t]
          /\ ~need_schedule[current[d]] /\ CPU_exec_task_jiffies[d] <= 0 =>
               \A t \in Queued(d) :
                 vruntime[current[d]] <= vruntime[t] + head_start[t]
      BY DEF SchedulerInv, Budget
    <3>2. /\ CPU_exec_task_jiffies'[d] = CPU_exec_task_jiffies[d]
          /\ current'[d] = current[d]
          /\ current[d] # current[c]
          /\ current[d] \in Tasks
          /\ Queued(d)' = Queued(d)
      BY <1>1, <1>6, <1>9, <2>1, <2>3 DEF Held
    <3>3. /\ vruntime'[current[d]] = vruntime[current[d]]
          /\ need_schedule'[current[d]] = need_schedule[current[d]]
      BY <1>1, <1>3, <3>2
    <3>4. ASSUME NEW t \in Queued(d) PROVE vruntime'[t] = vruntime[t]
      BY <1>3, <1>4, QueueType
    <3>5. QED
      BY <3>1, <3>2, <3>3, <3>4
  <2>4. QED
    BY <2>2, <2>3
<1>17. QED
  BY <1>8, <1>11, <1>12, <1>13, <1>14, <1>15, <1>16 DEF SchedulerInv

(* do_fork copies its parent into a task that no CPU holds yet.            *)
LEMMA ForkCopyInv ==
  ASSUME SchedulerInv, NEW c \in CPUs, NEW t \in Tasks, ForkCopy(c, t)
  PROVE  SchedulerInv'
<1> DEFINE parent == current[c]
<1>1. /\ TypeOK /\ OnePlace /\ LocalTasks /\ ForksInProgress
      /\ CountIsQueueLength /\ Ordered /\ Budget
  BY DEF SchedulerInv
<1>2. /\ parent \in Tasks
      /\ Runnable(parent)
      /\ cpu_id[parent] = c
      /\ SMP_cpu_id(c) = c
  BY <1>1 DEF TypeOK, OnePlace, LocalTasks, Held, SMP_cpu_id
<1>3. /\ state[t] = "unused"
      /\ child[parent] = NoTask
      /\ state' = [state EXCEPT ![t] = "UNINTERRUPTIBLE"]
      /\ priority' = [priority EXCEPT ![t] = 2]
      /\ vruntime' = [vruntime EXCEPT ![t] = vruntime[parent]]
      /\ need_schedule' = [need_schedule EXCEPT ![t] = need_schedule[parent]]
      /\ preempt_count' = [preempt_count EXCEPT ![t] = 0]
      /\ cpu_id' = [cpu_id EXCEPT ![t] = c]
      /\ child' = [child EXCEPT ![parent] = t]
      /\ UNCHANGED <<current, runqueue, running_task_count,
                     CPU_exec_task_jiffies, if_flag, head_start>>
  BY <1>2 DEF ForkCopy, cpuVars
<1>4. /\ ~Runnable(t)
      /\ t \notin IdleTasks
      /\ \A d \in CPUs : t \notin Held(d) /\ t # InitTask[d]
  BY <1>1, <1>3 DEF Runnable, OnePlace, IdleTasks
<1>5. /\ parent # t
      /\ \A p \in Tasks : child[p] # t
  BY <1>1, <1>2, <1>3, <1>4, SchedulerAssumption DEF ForksInProgress, Runnable
<1> HIDE DEF parent
<1>6. /\ state' \in [Tasks -> States]
      /\ vruntime' \in [Tasks -> Nat]
      /\ \A u \in Tasks : u # t =>
           /\ state'[u] = state[u]
           /\ vruntime'[u] = vruntime[u]
           /\ need_schedule'[u] = need_schedule[u]
           /\ cpu_id'[u] = cpu_id[u]
      /\ state'[t] = "UNINTERRUPTIBLE"
      /\ vruntime'[t] = vruntime[parent]
      /\ cpu_id'[t] = c
  BY <1>1, <1>2, <1>3 DEF TypeOK, States
<1>7. TypeOK'
  BY <1>1, <1>2, <1>3, <1>6 DEF TypeOK
<1>8. \A d \in CPUs : /\ Held(d)' = Held(d)
                     /\ Queued(d)' = Queued(d)
                     /\ Held(d) \subseteq Tasks \ {t}
                     /\ Queued(d) \subseteq Held(d)
                     /\ current[d] \in Held(d)
                     /\ InitTask[d] \in Tasks \ {t}
  BY <1>1, <1>3, <1>4, QueueType, SchedulerAssumption DEF Held, Queued
<1>9. OnePlace'
  <2>1. ASSUME NEW u \in Tasks \ IdleTasks, Runnable(u)'
        PROVE  \E d \in CPUs : u \in Held(d)'
    <3>1. Runnable(u)
      BY <1>6, <2>1 DEF Runnable
    <3>2. QED
      BY <1>1, <1>8, <3>1 DEF OnePlace
  <2>2. ASSUME NEW d \in CPUs, NEW u \in Held(d)' \cup {InitTask[d]}
        PROVE  Runnable(u)'
    <3>1. u \in Tasks \ {t} /\ Runnable(u)
      BY <1>1, <1>8 DEF OnePlace
    <3>2. QED
      BY <1>6, <3>1 DEF Runnable
  <2>3. ASSUME NEW d \in CPUs
        PROVE  /\ current'[d] \notin Queued(d)'
               /\ \A i, j \in DOMAIN runqueue'[d] :
                    runqueue'[d][i] = runqueue'[d][j] => i = j
               /\ \A e \in CPUs : d # e => Held(d)' \cap Held(e)' = {}
               /\ \A e \in CPUs : /\ InitTask[d] \notin Queued(e)'
                                  /\ current'[e] = InitTask[d] => d = e
    <3>1. current' = current /\ runqueue' = runqueue
      BY <1>3
    <3>2. QED
      BY <1>1, <1>8, <3>1 DEF OnePlace
  <2>4. QED
    BY <2>1, <2>2, <2>3 DEF OnePlace
<1>10. CountIsQueueLength'
  BY <1>1, <1>3 DEF CountIsQueueLength
<1>11. Ordered'
  <2>1. ASSUME NEW d \in CPUs, NEW i \in DOMAIN runqueue[d]
        PROVE  vruntime'[runqueue[d][i]] = vruntime[runqueue[d][i]]
    <3>1. runqueue[d][i] \in Queued(d)
      BY DEF Queued
    <3>2. QED
      BY <1>6, <1>8, <3>1
  <2>2. QED
    BY <1>1, <1>3, <2>1 DEF Ordered
<1>12. LocalTasks'
  <2>1. ASSUME NEW d \in CPUs, NEW u \in Held(d)' \cup {InitTask[d]}
        PROVE  cpu_id'[u] = d
    <3>1. u \in Tasks \ {t} /\ cpu_id[u] = d
      BY <1>1, <1>8 DEF LocalTasks
    <3>2. QED
      BY <1>6, <3>1
  <2>2. QED
    BY <2>1 DEF LocalTasks
<1>13. ForksInProgress'
  <2> SUFFICES ASSUME NEW p \in Tasks, child'[p] # NoTask
               PROVE  /\ Runnable(p)'
                      /\ state'[child'[p]] = "UNINTERRUPTIBLE"
                      /\ child'[p] \notin IdleTasks
                      /\ cpu_id'[child'[p]] = cpu_id'[p]
                      /\ vruntime'[child'[p]] <= vruntime'[p]
                      /\ \A q \in Tasks : child'[q] = child'[p] => q = p
    BY DEF ForksInProgress
  <2>0. /\ child'[parent] = t
        /\ \A q \in Tasks : q # parent => child'[q] = child[q]
    BY <1>1, <1>2, <1>3 DEF TypeOK
  <2>1. CASE p = parent
    <3>1. vruntime[parent] \in Nat
      BY <1>1, <1>2 DEF TypeOK
    <3>2. QED
      BY <1>2, <1>4, <1>5, <1>6, <2>0, <2>1, <3>1 DEF Runnable
  <2>2. CASE p # parent
    <3>1. /\ child'[p] = child[p]
          /\ child[p] \in Tasks \ {t}
          /\ p # t
      <4>1. child'[p] = child[p]
        BY <2>0, <2>2
      <4>2. child[p] \in Tasks \ {t}
        BY <1>1, <1>5, <4>1 DEF TypeOK
      <4>3. Runnable(p)
        BY <1>1, <4>1 DEF ForksInProgress
      <4>4. QED
        BY <1>4, <4>1, <4>2, <4>3
    <3>2. /\ Runnable(p)
          /\ state[child[p]] = "UNINTERRUPTIBLE"
          /\ child[p] \notin IdleTasks
          /\ cpu_id[child[p]] = cpu_id[p]
          /\ vruntime[child[p]] <= vruntime[p]
          /\ \A q \in Tasks : child[q] = child[p] => q = p
      BY <1>1, <3>1 DEF ForksInProgress
    <3>3. \A q \in Tasks : child'[q] = child'[p] => q = p
      BY <2>0, <3>1, <3>2
    <3>4. QED
      BY <1>6, <3>1, <3>2, <3>3 DEF Runnable
  <2>3. QED
    BY <2>1, <2>2
<1>14. Budget'
  <2>1. ASSUME NEW d \in CPUs
        PROVE  /\ vruntime'[current[d]] = vruntime[current[d]]
               /\ need_schedule'[current[d]] = need_schedule[current[d]]
               /\ \A u \in Queued(d) : vruntime'[u] = vruntime[u]
    BY <1>6, <1>8
  <2>2. \A d \in CPUs : Queued(d)' = Queued(d)
    BY <1>8
  <2>3. UNCHANGED <<current, CPU_exec_task_jiffies, head_start>>
    BY <1>3
  <2>4. QED
    BY <1>1, <2>1, <2>2, <2>3 DEF Budget
<1>15. QED
  BY <1>7, <1>9, <1>10, <1>11, <1>12, <1>13, <1>14 DEF SchedulerInv

(* do_fork hands its child to the run queue of the parent's CPU.           *)
LEMMA ForkEnqueueInv ==
  ASSUME SchedulerInv, NEW c \in CPUs, ForkEnqueue(c)
  PROVE  SchedulerInv'
<1> DEFINE parent == current[c]
           t      == child[parent]
           q      == runqueue[c]
           nq     == enqueue_task(c, q, vruntime, t)
<1>1. /\ TypeOK /\ OnePlace /\ LocalTasks /\ ForksInProgress
      /\ CountIsQueueLength /\ Ordered /\ Budget
  BY DEF SchedulerInv
<1>2. /\ parent \in Tasks
      /\ Runnable(parent)
      /\ cpu_id[parent] = c
      /\ SMP_cpu_id(c) = c
  BY <1>1 DEF TypeOK, OnePlace, LocalTasks, Held, SMP_cpu_id
<1>3. /\ t # NoTask
      /\ t \in Tasks
      /\ \A d \in CPUs : t \notin Held(d)
      /\ state[t] = "UNINTERRUPTIBLE"
      /\ t \notin IdleTasks
      /\ cpu_id[t] = c
      /\ vruntime[t] <= vruntime[parent]
      /\ vruntime[t] \in Nat /\ vruntime[parent] \in Nat
      /\ \A p \in Tasks : child[p] = t => p = parent
  <2>1. t # NoTask
    BY DEF ForkEnqueue
  <2>2. t \in Tasks /\ \A d \in CPUs : t \notin Held(d)
    BY <1>2, <2>1, ChildNotHeld
  <2>3. /\ state[t] = "UNINTERRUPTIBLE"
        /\ t \notin IdleTasks
        /\ cpu_id[t] = cpu_id[parent]
        /\ vruntime[t] <= vruntime[parent]
        /\ \A p \in Tasks : child[p] = t => p = parent
    BY <1>1, <1>2, <2>1 DEF ForksInProgress
  <2>4. QED
    BY <1>1, <1>2, <2>1, <2>2, <2>3 DEF TypeOK
<1>4. \A d \in CPUs : t # InitTask[d]
  BY <1>3 DEF IdleTasks
<1>5. /\ state' = [state EXCEPT ![t] = "RUNNING"]
      /\ runqueue' = [runqueue EXCEPT ![c] = nq]
      /\ running_task_count' = [running_task_count EXCEPT ![c] = @ + 1]
      /\ child' = [child EXCEPT ![parent] = NoTask]
      /\ head_start' = [head_start EXCEPT ![t] = vruntime[parent] - vruntime[t]]
      /\ UNCHANGED <<current, CPU_exec_task_jiffies, priority, vruntime,
                     need_schedule, preempt_count, cpu_id, if_flag>>
  BY <1>1, <1>2, <1>4 DEF ForkEnqueue, Enqueued, TypeOK
<1>6. /\ q \in Seq(Tasks)
      /\ Len(q) \in Nat
      /\ Queued(c) = Members(q)
      /\ t \notin Members(q)
      /\ InOrder(q, vruntime)
      /\ NoRepeat(q)
  <2>1. /\ q \in Seq(Tasks)
        /\ DOMAIN q = 1 .. Len(q)
        /\ Queued(c) = Members(q)
    BY <1>1, QueueType
  <2>2. Len(q) \in Nat
    BY <2>1, LenProperties
  <2>3. t \notin Members(q)
    BY <1>3, <2>1 DEF Held
  <2>4. InOrder(q, vruntime) /\ NoRepeat(q)
    BY <1>1, <2>1 DEF InOrder, NoRepeat, Ordered, OnePlace
  <2>5. QED
    BY <2>1, <2>2, <2>3, <2>4
<1> HIDE DEF parent, t, q, nq
<1>7. /\ nq \in Seq(Tasks)
      /\ Len(nq) = Len(q) + 1
      /\ Members(nq) = Members(q) \cup {t}
      /\ InOrder(nq, vruntime)
      /\ NoRepeat(nq)
  <2>1. vruntime \in [Tasks -> Nat]
    BY <1>1 DEF TypeOK
  <2>2. Enqueued(c, t) = 1 /\ t # InitTask[c] /\ t \in Tasks
    BY <1>3, <1>4 DEF Enqueued
  <2>3. /\ enqueue_task(c, q, vruntime, t) \in Seq(Tasks)
        /\ Len(enqueue_task(c, q, vruntime, t)) = Len(q) + Enqueued(c, t)
        /\ Members(enqueue_task(c, q, vruntime, t)) =
             IF t = InitTask[c] THEN Members(q) ELSE Members(q) \cup {t}
        /\ InOrder(q, vruntime)
             => InOrder(enqueue_task(c, q, vruntime, t), vruntime)
        /\ NoRepeat(q) /\ t \notin Members(q)
             => NoRepeat(enqueue_task(c, q, vruntime, t))
    <3>1. q \in Seq(Tasks) /\ t \in Tasks
      BY <1>6, <2>2
    <3>2. QED
      BY <2>1, <3>1, EnqueueProperties
  <2>4. nq = enqueue_task(c, q, vruntime, t)
    BY DEF nq
  <2> HIDE DEF nq
  <2>5. QED
    BY <1>6, <2>2, <2>3, <2>4
<1>8. TypeOK'
  <2>1. vruntime[parent] - vruntime[t] \in Nat
    BY <1>3
  <2>2. head_start' \in [Tasks -> Nat]
    BY <1>1, <1>3, <1>5, <2>1 DEF TypeOK
  <2>3. runqueue' \in [CPUs -> Seq(Tasks)]
    BY <1>1, <1>5, <1>7 DEF TypeOK
  <2>4. running_task_count' \in [CPUs -> Nat]
    <3>1. running_task_count \in [CPUs -> Nat]
      BY <1>1 DEF TypeOK
    <3>2. running_task_count' =
            [running_task_count EXCEPT ![c] = running_task_count[c] + 1]
      BY <1>5
    <3>3. running_task_count[c] + 1 \in Nat
      BY <3>1
    <3>4. QED
      BY <3>1, <3>2, <3>3
  <2>5. state' \in [Tasks -> States] /\ child' \in [Tasks -> Tasks \cup {NoTask}]
    BY <1>1, <1>5 DEF TypeOK, States
  <2>6. UNCHANGED <<current, CPU_exec_task_jiffies, priority, vruntime,
                    need_schedule, preempt_count, cpu_id, if_flag>>
    BY <1>5
  <2>7. QED
    BY <1>1, <2>2, <2>3, <2>4, <2>5, <2>6 DEF TypeOK
<1>9. /\ runqueue'[c] = nq
      /\ running_task_count'[c] = running_task_count[c] + 1
      /\ \A d \in CPUs : d # c =>
            /\ runqueue'[d] = runqueue[d]
            /\ running_task_count'[d] = running_task_count[d]
      /\ state'[t] = "RUNNING"
      /\ \A u \in Tasks : u # t => state'[u] = state[u]
      /\ \A u \in Tasks : u # t => head_start'[u] = head_start[u]
      /\ head_start'[t] = vruntime[parent] - vruntime[t]
      /\ \A p \in Tasks : p # parent => child'[p] = child[p]
      /\ child'[parent] = NoTask
  BY <1>1, <1>2, <1>3, <1>5 DEF TypeOK
<1>10. /\ DOMAIN nq = 1 .. Len(nq)
       /\ Queued(c)' = Queued(c) \cup {t}
       /\ Held(c)' = Held(c) \cup {t}
       /\ \A d \in CPUs : d # c => Queued(d)' = Queued(d) /\ Held(d)' = Held(d)
       /\ current' = current
  <2>1. DOMAIN nq = 1 .. Len(nq)
    BY <1>7, LenProperties
  <2>2. Queued(c)' = Members(nq)
    BY <1>9, <2>1 DEF Queued, Members
  <2>3. current' = current
    BY <1>5
  <2>4. Queued(c)' = Queued(c) \cup {t}
    BY <1>6, <1>7, <2>2
  <2>5. \A d \in CPUs : d # c => Queued(d)' = Queued(d)
    BY <1>9 DEF Queued
  <2>6. QED
    BY <2>1, <2>3, <2>4, <2>5 DEF Held
<1>11. ASSUME NEW d \in CPUs
       PROVE  Held(d) \subseteq Tasks /\ Queued(d) \subseteq Held(d)
  BY <1>1, QueueType DEF Held
<1>12. OnePlace'
  <2>1. ASSUME NEW u \in Tasks \ IdleTasks, Runnable(u)'
        PROVE  \E d \in CPUs : u \in Held(d)'
    <3>1. CASE u = t
      BY <1>10, <3>1
    <3>2. CASE u # t
      <4>1. Runnable(u)
        BY <1>9, <2>1, <3>2 DEF Runnable
      <4>2. PICK d \in CPUs : u \in Held(d)
        BY <1>1, <4>1 DEF OnePlace
      <4>3. QED
        BY <1>10, <4>2
    <3>3. QED
      BY <3>1, <3>2
  <2>2. ASSUME NEW d \in CPUs, NEW u \in Held(d)' \cup {InitTask[d]}
        PROVE  Runnable(u)'
    <3>1. CASE u = t
      BY <1>9, <3>1 DEF Runnable
    <3>2. CASE u # t
      <4>1. u \in Held(d) \cup {InitTask[d]}
        BY <1>10, <2>2, <3>2
      <4>2. Runnable(u) /\ u \in Tasks
        BY <1>1, <1>11, <4>1, SchedulerAssumption DEF OnePlace
      <4>3. QED
        BY <1>9, <3>2, <4>2 DEF Runnable
    <3>3. QED
      BY <3>1, <3>2
  <2>3. ASSUME NEW d \in CPUs
        PROVE  current'[d] \notin Queued(d)'
    <3>1. current[d] \notin Queued(d) /\ current[d] # t
      BY <1>1, <1>3 DEF OnePlace, Held
    <3>2. QED
      BY <1>10, <3>1
  <2>4. ASSUME NEW d \in CPUs
        PROVE  \A i, j \in DOMAIN runqueue'[d] :
                 runqueue'[d][i] = runqueue'[d][j] => i = j
    <3>1. CASE d = c
      BY <1>7, <1>9, <1>10, <3>1 DEF NoRepeat
    <3>2. CASE d # c
      BY <1>1, <1>9, <3>2 DEF OnePlace
    <3>3. QED
      BY <3>1, <3>2
  <2>5. ASSUME NEW d \in CPUs, NEW e \in CPUs, d # e
        PROVE  Held(d)' \cap Held(e)' = {}
    <3>1. Held(d) \cap Held(e) = {} /\ t \notin Held(d) /\ t \notin Held(e)
      BY <1>1, <1>3, <2>5 DEF OnePlace
    <3>2. QED
      BY <1>10, <2>5, <3>1
  <2>6. ASSUME NEW d \in CPUs, NEW e \in CPUs
        PROVE  /\ InitTask[d] \notin Queued(e)'
               /\ current'[e] = InitTask[d] => d = e
    <3>1. /\ InitTask[d] \notin Queued(e)
          /\ current[e] = InitTask[d] => d = e
      BY <1>1 DEF OnePlace
    <3>2. QED
      BY <1>4, <1>10, <3>1
  <2>7. QED
    BY <2>1, <2>2, <2>3, <2>4, <2>5, <2>6 DEF OnePlace
<1>13. CountIsQueueLength'
  <2>1. ASSUME NEW d \in CPUs
        PROVE  running_task_count'[d] = 1 + Len(runqueue'[d])
    <3>1. running_task_count[d] = 1 + Len(runqueue[d])
      BY <1>1 DEF CountIsQueueLength
    <3>2. CASE d = c
      BY <1>6, <1>7, <1>9, <3>1, <3>2 DEF q
    <3>3. CASE d # c
      BY <1>9, <3>1, <3>3
    <3>4. QED
      BY <3>2, <3>3
  <2>2. QED
    BY <2>1 DEF CountIsQueueLength
<1>14. Ordered'
  <2>1. vruntime' = vruntime
    BY <1>5
  <2>2. ASSUME NEW d \in CPUs
        PROVE  \A i, j \in DOMAIN runqueue'[d] :
                 i < j => vruntime[runqueue'[d][i]] <= vruntime[runqueue'[d][j]]
    <3>1. CASE d = c
      BY <1>7, <1>9, <1>10, <3>1 DEF InOrder
    <3>2. CASE d # c
      BY <1>1, <1>9, <3>2 DEF Ordered
    <3>3. QED
      BY <3>1, <3>2
  <2>3. QED
    BY <2>1, <2>2 DEF Ordered
<1>15. LocalTasks'
  <2>1. cpu_id' = cpu_id
    BY <1>5
  <2>2. ASSUME NEW d \in CPUs, NEW u \in Held(d)' \cup {InitTask[d]}
        PROVE  cpu_id[u] = d
    <3>1. CASE d = c /\ u = t
      BY <1>3, <3>1
    <3>2. CASE u \in Held(d) \cup {InitTask[d]}
      BY <1>1, <3>2 DEF LocalTasks
    <3>3. QED
      BY <1>10, <3>1, <3>2
  <2>3. QED
    BY <2>1, <2>2 DEF LocalTasks
<1>16. ForksInProgress'
  <2>1. ASSUME NEW p \in Tasks, child'[p] # NoTask
        PROVE  /\ Runnable(p)'
               /\ state'[child'[p]] = "UNINTERRUPTIBLE"
               /\ child'[p] \notin IdleTasks
               /\ cpu_id[child'[p]] = cpu_id[p]
               /\ vruntime[child'[p]] <= vruntime[p]
               /\ \A r \in Tasks : child'[r] = child'[p] => r = p
    <3>1. p # parent /\ child'[p] = child[p]
      BY <1>9, <2>1
    <3>2. child[p] \in Tasks /\ child[p] # t
      BY <1>1, <1>3, <2>1, <3>1 DEF TypeOK
    <3>3. /\ Runnable(p)
          /\ state[child[p]] = "UNINTERRUPTIBLE"
          /\ child[p] \notin IdleTasks
          /\ cpu_id[child[p]] = cpu_id[p]
          /\ vruntime[child[p]] <= vruntime[p]
          /\ \A r \in Tasks : child[r] = child[p] => r = p
      BY <1>1, <2>1, <3>1 DEF ForksInProgress
    <3>4. p # t
      BY <1>3, <3>3 DEF Runnable
    <3>5. \A r \in Tasks : child'[r] = child'[p] => r = p
      BY <1>9, <2>1, <3>1, <3>3
    <3>6. QED
      BY <1>9, <3>1, <3>2, <3>3, <3>4, <3>5 DEF Runnable
  <2>2. cpu_id' = cpu_id /\ vruntime' = vruntime
    BY <1>5
  <2>3. QED
    BY <2>1, <2>2 DEF ForksInProgress
<1>17. Budget'
  <2>1. ASSUME NEW d \in CPUs
        PROVE  CPU_exec_task_jiffies[d] <= LongestSlice
    BY <1>1 DEF Budget
  <2>2. ASSUME NEW d \in CPUs, NEW u \in Queued(d)'
        PROVE  /\ vruntime[current[d]] + CPU_exec_task_jiffies[d]
                    <= vruntime[u] + LongestSlice + head_start'[u]
               /\ ~need_schedule[current[d]] /\ CPU_exec_task_jiffies[d] <= 0 =>
                    vruntime[current[d]] <= vruntime[u] + head_start'[u]
    <3>1. CASE d = c /\ u = t
      <4>1. current[d] = parent
        BY <3>1 DEF parent
      <4>2. vruntime[u] + head_start'[u] = vruntime[parent]
        BY <1>3, <1>9, <3>1
      <4>3. /\ CPU_exec_task_jiffies[d] \in Int
            /\ CPU_exec_task_jiffies[d] <= LongestSlice
            /\ vruntime[u] \in Nat
            /\ head_start'[u] = vruntime[parent] - vruntime[u]
        BY <1>1, <1>3, <1>9, <2>1, <3>1 DEF TypeOK
      <4>4. QED
        BY <1>3, <4>1, <4>2, <4>3 DEF LongestSlice
    <3>2. CASE u \in Queued(d)
      <4>1. u \in Tasks /\ u # t
        BY <1>3, <1>11, <3>2
      <4>2. head_start'[u] = head_start[u]
        BY <1>9, <4>1
      <4>3. QED
        BY <1>1, <3>2, <4>2 DEF Budget
    <3>3. QED
      BY <1>10, <3>1, <3>2
  <2>3. UNCHANGED <<current, CPU_exec_task_jiffies, vruntime, need_schedule>>
    BY <1>5
  <2>4. QED
    BY <2>1, <2>2, <2>3 DEF Budget
<1>18. QED
  BY <1>8, <1>12, <1>13, <1>14, <1>15, <1>16, <1>17 DEF SchedulerInv

-----------------------------------------------------------------------------
(* Every step of the scheduler keeps the invariant.                        *)
LEMMA NextInv == SchedulerInv /\ [Next]_vars => SchedulerInv'
<1> SUFFICES ASSUME SchedulerInv, [Next]_vars PROVE SchedulerInv'
  OBVIOUS
<1>1. CASE UNCHANGED vars
  <2>1. UNCHANGED <<current, runqueue, running_task_count,
                    CPU_exec_task_jiffies, state, priority, vruntime,
                    need_schedule, preempt_count, cpu_id, if_flag, child,
                    head_start>>
    BY <1>1 DEF vars, cpuVars, taskVars
  <2>2. TypeOK' /\ CountIsQueueLength' /\ Ordered' /\ LocalTasks'
    <3>1. TypeOK'
      BY <2>1 DEF SchedulerInv, TypeOK
    <3>2. CountIsQueueLength' /\ Ordered'
      BY <2>1 DEF SchedulerInv, CountIsQueueLength, Ordered
    <3>3. LocalTasks'
      BY <2>1 DEF SchedulerInv, LocalTasks, Held, Queued
    <3>4. QED
      BY <3>1, <3>2, <3>3
  <2>3. OnePlace'
    <3>1. OnePlace
      BY DEF SchedulerInv
    <3>2. UNCHANGED <<current, runqueue, state>>
      BY <2>1
    <3>3. QED
      BY <3>1, <3>2, OnePlaceUnchanged
  <2>4. ForksInProgress' /\ Budget'
    BY <2>1 DEF SchedulerInv, ForksInProgress, Budget, Queued, Runnable
  <2>5. QED
    BY <2>2, <2>3, <2>4 DEF SchedulerInv
<1>2. CASE Next
  <2>1. PICK c \in CPUs :
          \/ TickReturn(c)
          \/ TickSchedule(c)
          \/ \E t \in Tasks : ForkCopy(c, t)
          \/ ForkEnqueue(c)
          \/ SystemCall(c)
          \/ PreemptDisable(c)
          \/ PreemptEnable(c)
    BY <1>2 DEF Next
  <2>2. CASE TickReturn(c)
    BY <2>2, TickReturnInv
  <2>3. CASE TickSchedule(c)
    BY <2>3, TickScheduleInv
  <2>4. CASE \E t \in Tasks : ForkCopy(c, t)
    BY <2>4, ForkCopyInv
  <2>5. CASE ForkEnqueue(c)
    BY <2>5, ForkEnqueueInv
  <2>6. CASE SystemCall(c) \/ PreemptDisable(c) \/ PreemptEnable(c)
    BY <2>6, FlagsInv
  <2>7. QED
    BY <2>1, <2>2, <2>3, <2>4, <2>5, <2>6
<1>3. QED
  BY <1>1, <1>2

(* Whatever the number of CPUs and tasks, and in whatever order ticks,     *)
(* switches, forks and spin locks follow each other, the run queues, the   *)
(* counters and the time slices stay consistent: SchedulerInv always holds. *)
THEOREM SchedulerInvariant == Spec => []SchedulerInv
  BY InitInv, NextInv, PTL DEF Spec

(* Each CPU's share of the tasks: nothing is lost, nothing runs twice, and *)
(* SMP_cpu_id() always names the CPU it is evaluated on.                   *)
THEOREM TasksHaveOnePlace == Spec => [](OnePlace /\ LocalTasks)
<1>1. SchedulerInv => OnePlace /\ LocalTasks
  BY DEF SchedulerInv
<1>2. QED
  BY <1>1, SchedulerInvariant, PTL

(* The queue of every CPU is ordered and running_task_count follows it.    *)
THEOREM QueuesConsistent == Spec => [](Ordered /\ CountIsQueueLength)
<1>1. SchedulerInv => Ordered /\ CountIsQueueLength
  BY DEF SchedulerInv
<1>2. QED
  BY <1>1, SchedulerInvariant, PTL

(* With no reschedule pending, the running task of a CPU is at most one    *)
(* longest slice ahead of every queued one, apart from the head start of a *)
(* child whose parent ran on between the copy and the enqueue.             *)
THEOREM UnfairnessIsBounded == Spec => []BoundedLag
<1>1. SchedulerInv => BoundedLag
  <2> SUFFICES ASSUME SchedulerInv, NEW c \in CPUs,
                      ~need_schedule[current[c]], NEW t \in Queued(c)
               PROVE  vruntime[current[c]]
                        <= vruntime[t] + LongestSlice + head_start[t]
    BY DEF BoundedLag
  <2>1. /\ vruntime[current[c]] \in Nat
        /\ vruntime[t] \in Nat
        /\ head_start[t] \in Nat
        /\ CPU_exec_task_jiffies[c] \in Int
    <3>1. TypeOK
      BY DEF SchedulerInv
    <3>2. current[c] \in Tasks /\ t \in Tasks
      BY <3>1, QueueType
    <3>3. QED
      BY <3>1, <3>2 DEF TypeOK
  <2>2. /\ vruntime[current[c]] + CPU_exec_task_jiffies[c]
             <= vruntime[t] + LongestSlice + head_start[t]
        /\ CPU_exec_task_jiffies[c] <= 0 =>
             vruntime[current[c]] <= vruntime[t] + head_start[t]
    BY DEF SchedulerInv, Budget
  <2>3. QED
    BY <2>1, <2>2 DEF LongestSlice
<1>2. QED
  BY <1>1, SchedulerInvariant, PTL

(* A CPU never switches to a task while a smaller one waits in its queue.  *)
THEOREM SwitchesToTheSmallest == Spec => SwitchToSmallest
<1> DEFINE Smallest == \A c \in CPUs : current'[c] # current[c] =>
                         \A t \in Queued(c)' : vruntime'[current'[c]] <= vruntime'[t]
<1>1. ASSUME SchedulerInv, [Next]_vars PROVE [Smallest]_vars
  <2>1. CASE UNCHANGED vars
    BY <2>1
  <2>2. ASSUME NEW c \in CPUs, current'[c] # current[c], Next
        PROVE  \A t \in Queued(c)' : vruntime'[current'[c]] <= vruntime'[t]
    <3>1. TickSchedule(c)
      <4>1. PICK d \in CPUs :
              \/ TickSchedule(d)
              \/ current' = current
        BY <2>2 DEF Next, TickReturn, ForkCopy, ForkEnqueue, SystemCall,
                    PreemptDisable, PreemptEnable, cpuVars
      <4>2. TickSchedule(d) /\ (c # d => current'[c] = current[c])
        BY <1>1, <2>2, <4>1, ScheduleEffect
      <4>3. QED
        BY <2>2, <4>2
    <3>2. /\ \A t \in Members(runqueue'[c]) : vruntime'[current'[c]] <= vruntime'[t]
          /\ runqueue' \in [CPUs -> Seq(Tasks)]
      BY <1>1, <3>1, ScheduleEffect
    <3>3. DOMAIN runqueue'[c] = 1 .. Len(runqueue'[c])
      BY <3>2, LenProperties
    <3>4. QED
      BY <3>2, <3>3 DEF Queued, Members
  <2>3. QED
    BY <1>1, <2>1, <2>2
<1>2. QED
  BY <1>1, SchedulerInvariant, PTL DEF Spec, SwitchToSmallest

-----------------------------------------------------------------------------
(* Semaphore, for any number of tasks and units, on one processor and with *)
(* interrupts off inside semaphore_down and semaphore_up.  SchedulerInv    *)
(* does not hold here, since a blocked task is executed until it calls     *)
(* schedule(): what the semaphore needs of the run queue is stated, and    *)
(* proved, again.                                                          *)
\* The condition under which the two functions can do without a lock.
OneProcessor == \A c, d \in CPUs : c = d

Typed ==
  /\ current \in [CPUs -> Tasks]
  /\ runqueue \in [CPUs -> Seq(Tasks)]
  /\ state \in [Tasks -> States]
  /\ vruntime \in [Tasks -> Nat]
  /\ cpu_id \in [Tasks -> CPUs]
  /\ child \in [Tasks -> Tasks \cup {NoTask}]
  /\ SemTypeOK

Blocked == {"enlist", "sleep", "asleep", "dangling"}

\* The queue holds runnable tasks, each once; only the executed task may be
\* blocked, and only on its way through __down.
RunQueueOK ==
  \A c \in CPUs :
    /\ \A t \in Queued(c) : Runnable(t) /\ t \notin IdleTasks
    /\ current[c] \notin Queued(c)
    /\ NoRepeat(runqueue[c])
    /\ Runnable(InitTask[c])
    /\ state[current[c]] # "unused"
    /\ state[current[c]] = "UNINTERRUPTIBLE" => at[current[c]] \in Blocked

\* A task do_fork has not finished has nothing to do with the semaphore.
ForksOutside ==
  \A p \in Tasks : child[p] # NoTask =>
    /\ state[child[p]] = "UNINTERRUPTIBLE" /\ child[p] \notin IdleTasks
    /\ at[p] = "out" /\ at[child[p]] = "out"
    /\ \A q \in Tasks : child[q] = child[p] => q = p

Found(t) == t \in Waiting \/ \E c \in CPUs : t \in Held(c)

\* The state of a task, its place, the list of waiters and the units agree.
Standing ==
  \A t \in Tasks :
    /\ at[t] \notin Outside => \A c \in CPUs : current[c] = t
    /\ at[t] # "out" => t \notin IdleTasks /\ state[t] # "unused" /\ Found(t)
    /\ at[t] \in {"dec", "block", "in", "inc", "wake"} => Runnable(t)
    /\ at[t] \in {"enlist", "sleep", "dangling"} => state[t] = "UNINTERRUPTIBLE"
    /\ at[t] \in {"sleep", "dangling"} => t \in Waiting
    /\ at[t] = "asleep" /\ t \notin Waiting => Runnable(t)
    /\ t \in Waiting => at[t] \in {"sleep", "asleep", "dangling"}
                        /\ state[t] = "UNINTERRUPTIBLE"
    /\ t \in granted <=> \/ at[t] \in {"in", "inc", "wake"}
                         \/ at[t] = "asleep" /\ t \notin Waiting

\* The counter, and what a task has read of it, cannot change under it.
CounterOK ==
  /\ IsFiniteSet(granted) /\ counter + Cardinality(granted) = Units
  /\ NoRepeat(waiters)
  /\ NoIdleUnit
  /\ \A t \in Tasks :
       /\ at[t] = "dec" => counter > 0
       /\ at[t] \in {"block", "enlist"} => counter = 0
       /\ at[t] = "inc" => waiters = <<>>
       /\ at[t] = "wake" => waiters # <<>>

SleepInv == Typed /\ RunQueueOK /\ ForksOutside /\ Standing /\ CounterOK

USE SchedulerAssumption, SemaphoreAssumption

-----------------------------------------------------------------------------
(* On one processor every step is taken on the CPU named by cpu_id.        *)
LEMMA OnThisCPU ==
  ASSUME OneProcessor, Typed, NEW c \in CPUs
  PROVE  /\ SMP_cpu_id(c) = c
         /\ \A d \in CPUs : d = c
         /\ current[c] \in Tasks
         /\ Queued(c) = Members(runqueue[c])
         /\ Queued(c) \subseteq Tasks
         /\ Waiting = Members(waiters)
         /\ Waiting \subseteq Tasks
<1>1. runqueue[c] \in Seq(Tasks) /\ waiters \in Seq(Tasks)
  BY DEF Typed, SemTypeOK
<1>2. ASSUME NEW q \in Seq(Tasks)
      PROVE  DOMAIN q = 1 .. Len(q) /\ Members(q) \subseteq Tasks
  BY <1>2, LenProperties, ElementOfSeq DEF Members
<1>3. /\ Queued(c) = Members(runqueue[c]) /\ Queued(c) \subseteq Tasks
      /\ Waiting = Members(waiters) /\ Waiting \subseteq Tasks
  BY <1>1, <1>2 DEF Queued, Waiting, Members
<1>4. SMP_cpu_id(c) = c /\ current[c] \in Tasks
  BY DEF Typed, OneProcessor, SMP_cpu_id
<1>5. QED
  BY <1>3, <1>4 DEF OneProcessor

(* The task a CPU executes is not one do_fork is still working on.         *)
LEMMA CurrentIsNoChild ==
  ASSUME SleepInv, NEW c \in CPUs
  PROVE  \A p \in Tasks : child[p] # current[c]
<1> SUFFICES ASSUME NEW p \in Tasks, child[p] = current[c] PROVE FALSE
  OBVIOUS
<1>1. current[c] \in Tasks /\ child[p] # NoTask
  BY DEF SleepInv, Typed
<1>2. state[current[c]] = "UNINTERRUPTIBLE" /\ at[current[c]] = "out"
  BY <1>1 DEF SleepInv, ForksOutside
<1>3. QED
  BY <1>2 DEF SleepInv, RunQueueOK, Blocked

(* The list of waiters grows at its end and shrinks at its head.           *)
LEMMA WaiterAdded ==
  ASSUME NEW q \in Seq(Tasks), NEW t \in Tasks
  PROVE  /\ Append(q, t) \in Seq(Tasks)
         /\ Members(Append(q, t)) = Members(q) \cup {t}
         /\ NoRepeat(q) /\ t \notin Members(q) => NoRepeat(Append(q, t))
<1>1. /\ Append(q, t) \in Seq(Tasks)
      /\ Len(q) \in Nat
      /\ Len(Append(q, t)) = Len(q) + 1
      /\ \A i \in 1 .. Len(q) : Append(q, t)[i] = q[i]
      /\ Append(q, t)[Len(q) + 1] = t
  BY AppendProperties, LenProperties
<1>2. Members(Append(q, t)) = Members(q) \cup {t}
  BY <1>1 DEF Members
<1>3. NoRepeat(q) /\ t \notin Members(q) => NoRepeat(Append(q, t))
  BY <1>1 DEF Members, NoRepeat
<1>4. QED
  BY <1>1, <1>2, <1>3

LEMMA WaiterRemoved ==
  ASSUME NEW q \in Seq(Tasks), q # <<>>, NoRepeat(q)
  PROVE  /\ Tail(q) \in Seq(Tasks)
         /\ Head(q) \in Members(q) /\ Head(q) \in Tasks
         /\ Members(Tail(q)) = Members(q) \ {Head(q)}
         /\ NoRepeat(Tail(q))
<1>1. PICK s \in CPUs : TRUE
  OBVIOUS
<1>2. [t \in Tasks |-> 0] \in [Tasks -> Nat]
  OBVIOUS
<1>3. Picked(s, q) = Head(q) /\ Remaining(q) = Tail(q)
  BY DEF Picked, Remaining
<1>4. /\ Picked(s, q) \in Tasks
      /\ Remaining(q) \in Seq(Tasks)
      /\ Members(Remaining(q)) \subseteq Members(q)
      /\ Members(q) \subseteq Members(Remaining(q)) \cup {Picked(s, q)}
      /\ Picked(s, q) \in Members(q)
      /\ NoRepeat(Remaining(q))
      /\ Picked(s, q) \notin Members(Remaining(q))
  BY <1>2, PickProperties
<1>5. QED
  BY <1>3, <1>4

(* The steps that change a task's place, its unit or the list and leave    *)
(* the scheduler alone keep the run queue as it is.                        *)
LEMMA PlaceChange ==
  ASSUME OneProcessor, SleepInv, NEW c \in CPUs, NEW p, AtPlace(c, p),
         NEW place \in Places, Goto(current[c], place), UNCHANGED vars,
         place \in Blocked \/ Runnable(current[c])
  PROVE  /\ RunQueueOK' /\ ForksOutside'
         /\ UNCHANGED <<current, runqueue, state, vruntime, cpu_id, child>>
         /\ at' \in [Tasks -> Places]
         /\ at'[current[c]] = place
         /\ \A t \in Tasks : t # current[c] => at'[t] = at[t]
         /\ \A t \in Tasks : t # current[c] => at[t] \in Outside
         /\ \A d \in CPUs : Held(d)' = Held(d)
<1> DEFINE cur == current[c]
<1>1. UNCHANGED <<current, runqueue, state, vruntime, cpu_id, child>>
  BY DEF vars, cpuVars, taskVars
<1>2. /\ cur \in Tasks
      /\ at \in [Tasks -> Places]
      /\ child[cur] = NoTask
      /\ \A d \in CPUs : d = c
  BY OnThisCPU DEF SleepInv, Typed, SemTypeOK, AtPlace
<1>3. at' = [at EXCEPT ![cur] = place]
  BY DEF Goto
<1>4. /\ at' \in [Tasks -> Places]
      /\ at'[cur] = place
      /\ \A t \in Tasks : t # cur => at'[t] = at[t]
  BY <1>2, <1>3
<1>5. \A t \in Tasks : t # cur => at[t] \in Outside
  BY DEF SleepInv, Standing
<1> HIDE DEF cur
<1>6. \A d \in CPUs : Queued(d)' = Queued(d) /\ Held(d)' = Held(d)
  BY <1>1 DEF Queued, Held
<1>7. RunQueueOK'
  <2>1. state'[current'[c]] = "UNINTERRUPTIBLE" => at'[current'[c]] \in Blocked
    BY <1>1, <1>4 DEF Runnable, cur
  <2>2. QED
    BY <1>1, <1>2, <1>6, <2>1 DEF SleepInv, RunQueueOK, Runnable, OneProcessor
<1>8. ForksOutside'
  <2>1. \A r \in Tasks : child[r] # cur
    BY CurrentIsNoChild DEF cur
  <2>2. ASSUME NEW r \in Tasks, child[r] # NoTask
        PROVE  at'[r] = "out" /\ at'[child[r]] = "out"
    <3>1. r # cur /\ child[r] # cur /\ child[r] \in Tasks
      BY <1>2, <2>1, <2>2 DEF SleepInv, Typed
    <3>2. at[r] = "out" /\ at[child[r]] = "out"
      BY <2>2 DEF SleepInv, ForksOutside
    <3>3. QED
      BY <1>4, <3>1, <3>2
  <2>3. QED
    BY <1>1, <2>2 DEF SleepInv, ForksOutside
<1>9. QED
  BY <1>1, <1>4, <1>5, <1>6, <1>7, <1>8 DEF cur

(* semaphore_down reads the counter: what it read is still true when it    *)
(* acts, since nothing else runs.                                          *)
LEMMA DownSleep ==
  ASSUME OneProcessor, SleepInv, NEW c \in CPUs, Down(c)
  PROVE  SleepInv'
<1> DEFINE cur == current[c]
           place == IF counter > 0 THEN "dec" ELSE "block"
<1>1. AtPlace(c, "out") /\ Goto(cur, place) /\ UNCHANGED <<vars, counter, waiters, granted>>
  BY DEF Down
<1>2. Runnable(cur) /\ cur \in Tasks /\ cur \notin IdleTasks
  BY <1>1 DEF SleepInv, Typed, RunQueueOK, AtPlace, Runnable, States, Blocked
<1>3. /\ RunQueueOK' /\ ForksOutside'
      /\ UNCHANGED <<current, runqueue, state, vruntime, cpu_id, child>>
      /\ at' \in [Tasks -> Places]
      /\ at'[cur] = place
      /\ \A t \in Tasks : t # cur => at'[t] = at[t]
      /\ \A t \in Tasks : t # cur => at[t] \in Outside
      /\ \A d \in CPUs : Held(d)' = Held(d)
  BY <1>1, <1>2, PlaceChange DEF Places
<1>4. Typed'
  BY <1>1, <1>3 DEF SleepInv, Typed, SemTypeOK
<1>5. Waiting' = Waiting /\ at[cur] = "out" /\ cur \in Held(c)
  BY <1>1 DEF Waiting, AtPlace, Held
<1>6. \A d \in CPUs : current[d] = cur
  BY DEF OneProcessor
<1> HIDE DEF cur
<1>7. Standing'
  BY <1>1, <1>2, <1>3, <1>5, <1>6
     DEF SleepInv, Standing, Outside, Found, Runnable
<1>8. CounterOK'
  <2>1. UNCHANGED <<counter, waiters, granted>> /\ counter \in Nat
    BY <1>1 DEF SleepInv, Typed, SemTypeOK
  <2>2. ASSUME NEW t \in Tasks
        PROVE  /\ at'[t] = "dec" => counter > 0
               /\ at'[t] \in {"block", "enlist"} => counter = 0
               /\ at'[t] = "inc" => waiters = <<>>
               /\ at'[t] = "wake" => waiters # <<>>
    <3>1. CASE t = cur
      BY <1>3, <2>1, <3>1
    <3>2. CASE t # cur
      BY <1>3, <3>2 DEF Outside
    <3>3. QED
      BY <3>1, <3>2
  <2>3. QED
    BY <2>1, <2>2 DEF SleepInv, CounterOK, NoIdleUnit
<1>9. QED
  BY <1>3, <1>4, <1>7, <1>8 DEF SleepInv


(* The unit taken off the counter is the task's.                           *)
LEMMA DownDecSleep ==
  ASSUME OneProcessor, SleepInv, NEW c \in CPUs, DownDec(c)
  PROVE  SleepInv'
<1> DEFINE cur == current[c]
<1>1. /\ AtPlace(c, "dec") /\ Goto(cur, "in") /\ UNCHANGED <<vars, waiters>>
      /\ counter' = counter - 1 /\ granted' = granted \cup {cur}
      /\ at[cur] = "dec"
  BY DEF DownDec, AtPlace
<1>2. Runnable(cur) /\ cur \in Tasks /\ cur \notin IdleTasks /\ cur \notin granted
      /\ cur \notin Waiting
  <2>1. cur \in Tasks /\ cur \notin IdleTasks
    BY <1>1 DEF SleepInv, Typed, AtPlace
  <2>2. QED
    BY <1>1, <2>1 DEF SleepInv, Standing
<1>3. /\ RunQueueOK' /\ ForksOutside'
      /\ UNCHANGED <<current, runqueue, state, vruntime, cpu_id, child>>
      /\ at' \in [Tasks -> Places]
      /\ at'[cur] = "in"
      /\ \A t \in Tasks : t # cur => at'[t] = at[t]
      /\ \A t \in Tasks : t # cur => at[t] \in Outside
      /\ \A d \in CPUs : Held(d)' = Held(d)
  BY <1>1, <1>2, PlaceChange DEF Places, Outside
<1>4. counter \in Nat /\ counter > 0 /\ granted \subseteq Tasks
  BY <1>1, <1>2 DEF SleepInv, Typed, SemTypeOK, CounterOK
<1>5. Typed'
  <2>1. counter' \in Nat /\ granted' \subseteq Tasks
    BY <1>1, <1>2, <1>4
  <2>2. QED
    BY <1>1, <1>3, <2>1 DEF SleepInv, Typed, SemTypeOK
<1>6. Waiting' = Waiting /\ cur \in Held(c)
  BY <1>1 DEF Waiting, Held
<1>7. \A d \in CPUs : current[d] = cur
  BY DEF OneProcessor
<1> HIDE DEF cur
<1>8. Standing'
  BY <1>1, <1>2, <1>3, <1>6, <1>7
     DEF SleepInv, Standing, Outside, Found, Runnable
<1>9. CounterOK'
  <2>1. IsFiniteSet(granted') /\ Cardinality(granted') = Cardinality(granted) + 1
    BY <1>1, <1>2, FS_AddElement DEF SleepInv, CounterOK
  <2>2. counter' + Cardinality(granted') = Units
    <3>1. Cardinality(granted) \in Nat
      BY FS_CardinalityType DEF SleepInv, CounterOK
    <3>2. QED
      BY <1>1, <1>4, <2>1, <3>1 DEF SleepInv, CounterOK
  <2>3. NoIdleUnit' /\ NoRepeat(waiters')
    BY <1>1, <1>4 DEF SleepInv, CounterOK, NoIdleUnit
  <2>4. \A t \in Tasks : at'[t] \in {"in", "out", "asleep"}
    BY <1>3 DEF Outside
  <2>5. QED
    BY <2>1, <2>2, <2>3, <2>4 DEF CounterOK
<1>10. QED
  BY <1>3, <1>5, <1>8, <1>9 DEF SleepInv

(* The blocked task joins the end of the list.                             *)
LEMMA DownEnlistSleep ==
  ASSUME OneProcessor, SleepInv, NEW c \in CPUs, DownEnlist(c)
  PROVE  SleepInv'
<1> DEFINE cur == current[c]
<1>1. /\ AtPlace(c, "enlist") /\ Goto(cur, "sleep") /\ UNCHANGED <<vars, counter, granted>>
      /\ waiters' = Append(waiters, cur)
      /\ at[cur] = "enlist"
  BY DEF DownEnlist, AtPlace
<1>2. /\ cur \in Tasks /\ cur \notin IdleTasks /\ cur \notin granted
      /\ cur \notin Waiting /\ state[cur] = "UNINTERRUPTIBLE"
  <2>1. cur \in Tasks /\ cur \notin IdleTasks
    BY <1>1 DEF SleepInv, Typed, AtPlace
  <2>2. QED
    BY <1>1, <2>1 DEF SleepInv, Standing
<1>3. /\ RunQueueOK' /\ ForksOutside'
      /\ UNCHANGED <<current, runqueue, state, vruntime, cpu_id, child>>
      /\ at' \in [Tasks -> Places]
      /\ at'[cur] = "sleep"
      /\ \A t \in Tasks : t # cur => at'[t] = at[t]
      /\ \A t \in Tasks : t # cur => at[t] \in Outside
      /\ \A d \in CPUs : Held(d)' = Held(d)
  BY <1>1, <1>2, PlaceChange DEF Places, Blocked
<1>4. waiters \in Seq(Tasks) /\ Waiting = Members(waiters) /\ NoRepeat(waiters)
  BY OnThisCPU DEF SleepInv, Typed, SemTypeOK, CounterOK
<1>5. /\ waiters' \in Seq(Tasks) /\ NoRepeat(waiters')
      /\ Members(waiters') = Waiting \cup {cur}
  BY <1>1, <1>2, <1>4, WaiterAdded
<1>6. Typed'
  BY <1>1, <1>3, <1>5 DEF SleepInv, Typed, SemTypeOK
<1>7. Waiting' = Waiting \cup {cur}
  <2>1. DOMAIN waiters' = 1 .. Len(waiters')
    BY <1>5, LenProperties
  <2>2. QED
    BY <1>5, <2>1 DEF Waiting, Members
<1>8. \A d \in CPUs : current[d] = cur
  BY DEF OneProcessor
<1>9. cur \in Held(c)
  BY DEF Held
<1>10. counter = 0
  BY <1>1, <1>2 DEF SleepInv, CounterOK
<1> HIDE DEF cur
<1>11. Standing'
  BY <1>1, <1>2, <1>3, <1>7, <1>8, <1>9
     DEF SleepInv, Standing, Outside, Found, Runnable
<1>12. CounterOK'
  <2>1. \A t \in Tasks : at'[t] \in {"in", "out", "asleep", "sleep"}
    BY <1>3 DEF Outside
  <2>2. NoIdleUnit'
    BY <1>1, <1>10 DEF NoIdleUnit
  <2>3. QED
    BY <1>1, <1>5, <2>1, <2>2 DEF SleepInv, CounterOK
<1>13. QED
  BY <1>3, <1>6, <1>11, <1>12 DEF SleepInv

(* A task comes back from schedule(): it has a unit, or its waiter dangles. *)
LEMMA DownReturnSleep ==
  ASSUME OneProcessor, SleepInv, NEW c \in CPUs, DownReturn(c)
  PROVE  SleepInv'
<1> DEFINE cur == current[c]
           place == IF cur \in Waiting THEN "dangling" ELSE "in"
<1>1. /\ AtPlace(c, "asleep") /\ Goto(cur, place)
      /\ UNCHANGED <<vars, counter, waiters, granted>>
      /\ at[cur] = "asleep"
  <2>1. (\E i \in DOMAIN waiters : waiters[i] = cur) <=> cur \in Waiting
    BY DEF Waiting
  <2>2. QED
    BY <2>1 DEF DownReturn, AtPlace
<1>2. /\ cur \in Tasks /\ cur \notin IdleTasks
      /\ cur \notin Waiting => Runnable(cur) /\ cur \in granted
      /\ cur \in Waiting => state[cur] = "UNINTERRUPTIBLE" /\ cur \notin granted
  <2>1. cur \in Tasks /\ cur \notin IdleTasks
    BY <1>1 DEF SleepInv, Typed, AtPlace
  <2>2. QED
    BY <1>1, <2>1 DEF SleepInv, Standing
<1>3. /\ RunQueueOK' /\ ForksOutside'
      /\ UNCHANGED <<current, runqueue, state, vruntime, cpu_id, child>>
      /\ at' \in [Tasks -> Places]
      /\ at'[cur] = place
      /\ \A t \in Tasks : t # cur => at'[t] = at[t]
      /\ \A t \in Tasks : t # cur => at[t] \in Outside
      /\ \A d \in CPUs : Held(d)' = Held(d)
  BY <1>1, <1>2, PlaceChange DEF Places, Blocked, Outside
<1>4. Typed'
  BY <1>1, <1>3 DEF SleepInv, Typed, SemTypeOK
<1>5. Waiting' = Waiting /\ cur \in Held(c)
  BY <1>1 DEF Waiting, Held
<1>6. \A d \in CPUs : current[d] = cur
  BY DEF OneProcessor
<1> HIDE DEF cur
<1>7. Standing'
  BY <1>1, <1>2, <1>3, <1>5, <1>6
     DEF SleepInv, Standing, Outside, Found, Runnable
<1>8. CounterOK'
  <2>1. \A t \in Tasks : at'[t] \in {"in", "out", "asleep", "dangling"}
    BY <1>3 DEF Outside
  <2>2. QED
    BY <1>1, <2>1 DEF SleepInv, CounterOK, NoIdleUnit
<1>9. QED
  BY <1>3, <1>4, <1>7, <1>8 DEF SleepInv

(* semaphore_up looks at the list before it chooses its branch.            *)
LEMMA UpSleep ==
  ASSUME OneProcessor, SleepInv, NEW c \in CPUs, Up(c)
  PROVE  SleepInv'
<1> DEFINE cur == current[c]
           place == IF waiters = <<>> THEN "inc" ELSE "wake"
<1>1. /\ AtPlace(c, "in") /\ Goto(cur, place)
      /\ UNCHANGED <<vars, counter, waiters, granted>>
      /\ at[cur] = "in"
  BY DEF Up, AtPlace
<1>2. cur \in Tasks /\ cur \notin IdleTasks /\ Runnable(cur) /\ cur \in granted
      /\ cur \notin Waiting
  <2>1. cur \in Tasks /\ cur \notin IdleTasks
    BY <1>1 DEF SleepInv, Typed, AtPlace
  <2>2. QED
    BY <1>1, <2>1 DEF SleepInv, Standing
<1>3. /\ RunQueueOK' /\ ForksOutside'
      /\ UNCHANGED <<current, runqueue, state, vruntime, cpu_id, child>>
      /\ at' \in [Tasks -> Places]
      /\ at'[cur] = place
      /\ \A t \in Tasks : t # cur => at'[t] = at[t]
      /\ \A t \in Tasks : t # cur => at[t] \in Outside
      /\ \A d \in CPUs : Held(d)' = Held(d)
  BY <1>1, <1>2, PlaceChange DEF Places
<1>4. Typed'
  BY <1>1, <1>3 DEF SleepInv, Typed, SemTypeOK
<1>5. Waiting' = Waiting /\ cur \in Held(c)
  BY <1>1 DEF Waiting, Held
<1>6. \A d \in CPUs : current[d] = cur
  BY DEF OneProcessor
<1> HIDE DEF cur
<1>7. Standing'
  BY <1>1, <1>2, <1>3, <1>5, <1>6
     DEF SleepInv, Standing, Outside, Found, Runnable
<1>8. CounterOK'
  <2>1. \A t \in Tasks : t # cur => at'[t] \in {"in", "out", "asleep"}
    BY <1>3 DEF Outside
  <2>2. QED
    BY <1>1, <1>3, <2>1 DEF SleepInv, CounterOK, NoIdleUnit
<1>9. QED
  BY <1>3, <1>4, <1>7, <1>8 DEF SleepInv

(* The unit goes back to the counter only when nobody waits.               *)
LEMMA UpIncSleep ==
  ASSUME OneProcessor, SleepInv, NEW c \in CPUs, UpInc(c)
  PROVE  SleepInv'
<1> DEFINE cur == current[c]
<1>1. /\ AtPlace(c, "inc") /\ Goto(cur, "out") /\ UNCHANGED <<vars, waiters>>
      /\ counter' = counter + 1 /\ granted' = granted \ {cur}
      /\ at[cur] = "inc"
  BY DEF UpInc, AtPlace
<1>2. /\ cur \in Tasks /\ cur \notin IdleTasks /\ Runnable(cur) /\ cur \in granted
      /\ cur \notin Waiting /\ waiters = <<>>
  <2>1. cur \in Tasks /\ cur \notin IdleTasks
    BY <1>1 DEF SleepInv, Typed, AtPlace
  <2>2. QED
    BY <1>1, <2>1 DEF SleepInv, Standing, CounterOK
<1>3. /\ RunQueueOK' /\ ForksOutside'
      /\ UNCHANGED <<current, runqueue, state, vruntime, cpu_id, child>>
      /\ at' \in [Tasks -> Places]
      /\ at'[cur] = "out"
      /\ \A t \in Tasks : t # cur => at'[t] = at[t]
      /\ \A t \in Tasks : t # cur => at[t] \in Outside
      /\ \A d \in CPUs : Held(d)' = Held(d)
  BY <1>1, <1>2, PlaceChange DEF Places, Outside
<1>4. counter \in Nat /\ granted \subseteq Tasks
  BY DEF SleepInv, Typed, SemTypeOK
<1>5. Typed'
  <2>1. counter' \in Nat /\ granted' \subseteq Tasks
    BY <1>1, <1>4
  <2>2. QED
    BY <1>1, <1>3, <2>1 DEF SleepInv, Typed, SemTypeOK
<1>6. Waiting' = Waiting /\ cur \in Held(c)
  BY <1>1 DEF Waiting, Held
<1>7. \A d \in CPUs : current[d] = cur
  BY DEF OneProcessor
<1> HIDE DEF cur
<1>8. Standing'
  BY <1>1, <1>2, <1>3, <1>6, <1>7
     DEF SleepInv, Standing, Outside, Found, Runnable
<1>9. CounterOK'
  <2>1. IsFiniteSet(granted') /\ Cardinality(granted') = Cardinality(granted) - 1
    BY <1>1, <1>2, FS_RemoveElement DEF SleepInv, CounterOK
  <2>2. counter' + Cardinality(granted') = Units
    <3>1. Cardinality(granted) \in Nat
      BY FS_CardinalityType DEF SleepInv, CounterOK
    <3>2. QED
      BY <1>1, <1>4, <2>1, <3>1 DEF SleepInv, CounterOK
  <2>3. NoIdleUnit' /\ NoRepeat(waiters')
    BY <1>1, <1>2 DEF SleepInv, CounterOK, NoIdleUnit
  <2>4. \A t \in Tasks : at'[t] \in {"in", "out", "asleep"}
    BY <1>3 DEF Outside
  <2>5. QED
    BY <2>1, <2>2, <2>3, <2>4 DEF CounterOK
<1>10. QED
  BY <1>3, <1>5, <1>8, <1>9 DEF SleepInv


-----------------------------------------------------------------------------
(* The state of the task is changed before it is on the list: it is still  *)
(* the executed one.                                                       *)
LEMMA DownBlockSleep ==
  ASSUME OneProcessor, SleepInv, NEW c \in CPUs, DownBlock(c)
  PROVE  SleepInv'
<1> DEFINE cur == current[c]
<1>1. /\ UNCHANGED <<current, runqueue, vruntime, cpu_id, child, counter, waiters, granted>>
      /\ state' = [state EXCEPT ![cur] = "UNINTERRUPTIBLE"]
      /\ at' = [at EXCEPT ![cur] = "enlist"]
      /\ at[cur] = "block" /\ child[cur] = NoTask
      /\ cur \notin IdleTasks
  BY DEF DownBlock, AtPlace, Goto, cpuVars
<1>2. /\ cur \in Tasks /\ cur \notin Waiting /\ cur \notin granted
      /\ Runnable(cur)
      /\ at \in [Tasks -> Places] /\ state \in [Tasks -> States]
      /\ cur \notin Queued(c)
      /\ \A d \in CPUs : d = c
  <2>1. /\ cur \in Tasks /\ at \in [Tasks -> Places] /\ state \in [Tasks -> States]
        /\ \A d \in CPUs : d = c
    BY DEF SleepInv, Typed, SemTypeOK, OneProcessor
  <2>2. QED
    BY <1>1, <2>1 DEF SleepInv, Standing, RunQueueOK
<1>3. /\ at'[cur] = "enlist" /\ state'[cur] = "UNINTERRUPTIBLE"
      /\ \A t \in Tasks : t # cur => at'[t] = at[t] /\ state'[t] = state[t]
      /\ at' \in [Tasks -> Places] /\ state' \in [Tasks -> States]
  BY <1>1, <1>2 DEF Places, States
<1>4. /\ \A d \in CPUs : Queued(d)' = Queued(d) /\ Held(d)' = Held(d)
      /\ Waiting' = Waiting
  BY <1>1 DEF Queued, Held, Waiting
<1>5. /\ Queued(c) \subseteq Tasks
      /\ InitTask[c] \in Tasks /\ InitTask[c] # cur
  BY <1>1, OnThisCPU DEF SleepInv, IdleTasks
<1>6. cur \in Held(c) /\ \A d \in CPUs : current[d] = cur
  BY DEF Held, OneProcessor
<1>7. Typed'
  BY <1>1, <1>3 DEF SleepInv, Typed, SemTypeOK
<1>8. \A p \in Tasks : child[p] # cur
  BY CurrentIsNoChild
<1>9. \A t \in Tasks : t # cur => at[t] \in Outside
  BY DEF SleepInv, Standing
<1> HIDE DEF cur
<1>10. RunQueueOK'
  <2>1. \A t \in Queued(c) : state'[t] = "RUNNING" /\ t \notin IdleTasks
    BY <1>2, <1>3, <1>5 DEF SleepInv, RunQueueOK, Runnable
  <2>2. state'[InitTask[c]] = "RUNNING"
    BY <1>3, <1>5 DEF SleepInv, RunQueueOK, Runnable
  <2>3. current' = current /\ runqueue' = runqueue /\ current[c] = cur
    BY <1>1 DEF cur
  <2>4. QED
    BY <1>2, <1>3, <1>4, <2>1, <2>2, <2>3 DEF SleepInv, RunQueueOK, Runnable, Blocked
<1>11. ForksOutside'
  <2>1. ASSUME NEW p \in Tasks, child[p] # NoTask
        PROVE  p # cur /\ child[p] # cur /\ child[p] \in Tasks
    BY <1>1, <1>8, <2>1 DEF SleepInv, Typed
  <2>2. QED
    BY <1>1, <1>3, <2>1 DEF SleepInv, ForksOutside
<1>12. Standing'
  BY <1>1, <1>2, <1>3, <1>4, <1>6
     DEF SleepInv, Standing, Outside, Found, Runnable
<1>13. CounterOK'
  <2>1. \A t \in Tasks : t # cur => at'[t] \in {"in", "out", "asleep"}
    BY <1>3, <1>9 DEF Outside
  <2>2. counter = 0
    BY <1>1, <1>2 DEF SleepInv, CounterOK
  <2>3. QED
    BY <1>1, <1>3, <2>1, <2>2 DEF SleepInv, CounterOK, NoIdleUnit
<1>14. QED
  BY <1>7, <1>10, <1>11, <1>12, <1>13 DEF SleepInv

(* The unit goes from the waker to the first waiter, which becomes         *)
(* runnable and is queued; it was in no queue.                             *)
LEMMA UpWakeSleep ==
  ASSUME OneProcessor, SleepInv, NEW c \in CPUs, UpWake(c)
  PROVE  SleepInv'
<1> DEFINE cur == current[c]
           t   == Head(waiters)
           q   == runqueue[c]
           nq  == enqueue_task(c, q, vruntime, t)
<1>1. /\ UNCHANGED <<current, vruntime, cpu_id, child, counter>>
      /\ waiters # <<>> /\ waiters' = Tail(waiters)
      /\ state' = [state EXCEPT ![t] = "RUNNING"]
      /\ runqueue' = [runqueue EXCEPT ![c] = nq]
      /\ granted' = (granted \ {cur}) \cup {t}
      /\ at' = [at EXCEPT ![cur] = "out"]
      /\ at[cur] = "wake" /\ child[cur] = NoTask
      /\ cur \notin IdleTasks
  BY OnThisCPU DEF UpWake, AtPlace, Goto, SleepInv
<1>2. /\ cur \in Tasks /\ q \in Seq(Tasks) /\ waiters \in Seq(Tasks)
      /\ vruntime \in [Tasks -> Nat]
      /\ at \in [Tasks -> Places] /\ state \in [Tasks -> States]
      /\ runqueue \in [CPUs -> Seq(Tasks)]
      /\ \A d \in CPUs : d = c
      /\ NoRepeat(waiters)
      /\ Waiting = Members(waiters) /\ Queued(c) = Members(q) /\ Queued(c) \subseteq Tasks
  BY OnThisCPU DEF SleepInv, Typed, SemTypeOK, CounterOK, OneProcessor
<1>3. /\ Tail(waiters) \in Seq(Tasks)
      /\ t \in Waiting /\ t \in Tasks
      /\ Members(Tail(waiters)) = Waiting \ {t}
      /\ NoRepeat(Tail(waiters))
  BY <1>1, <1>2, WaiterRemoved
<1>4. /\ cur \notin Waiting /\ cur \in granted /\ Runnable(cur) /\ t # cur
      /\ state[t] = "UNINTERRUPTIBLE" /\ t \notin granted
      /\ at[t] \in {"sleep", "asleep", "dangling"} /\ at[t] # "out"
      /\ t \notin IdleTasks
  <2>1. cur \notin Waiting /\ cur \in granted /\ Runnable(cur)
    BY <1>1, <1>2 DEF SleepInv, Standing
  <2>2. QED
    BY <1>3, <2>1 DEF SleepInv, Standing
<1>5. at[t] = "asleep" /\ \A u \in Tasks : u # cur => at[u] \in Outside
  <2>1. \A u \in Tasks : u # cur => at[u] \in Outside
    BY DEF SleepInv, Standing
  <2>2. QED
    BY <1>3, <1>4, <2>1 DEF Outside
<1>6. t \notin Members(q) /\ NoRepeat(q)
  BY <1>2, <1>4 DEF SleepInv, RunQueueOK, Runnable
<1>7. nq \in Seq(Tasks) /\ Members(nq) = Members(q) \cup {t} /\ NoRepeat(nq)
  <2>1. t # InitTask[c]
    BY <1>4 DEF IdleTasks
  <2>2. q \in Seq(Tasks) /\ t \in Tasks /\ vruntime \in [Tasks -> Nat]
    BY <1>2, <1>3
  <2> HIDE DEF q, t
  <2>3. /\ enqueue_task(c, q, vruntime, t) \in Seq(Tasks)
        /\ Members(enqueue_task(c, q, vruntime, t)) = Members(q) \cup {t}
        /\ NoRepeat(enqueue_task(c, q, vruntime, t))
    BY <1>6, <2>1, <2>2, EnqueueProperties
  <2>4. QED
    BY <2>3 DEF nq
<1>8. \A p \in Tasks : child[p] # cur
  BY CurrentIsNoChild
<1>9. cur \in Held(c) /\ current[c] = cur
  BY DEF Held
<1> HIDE DEF cur, t, q, nq
<1>10. /\ at'[cur] = "out" /\ state'[t] = "RUNNING"
       /\ \A u \in Tasks : u # cur => at'[u] = at[u]
       /\ \A u \in Tasks : u # t => state'[u] = state[u]
       /\ at' \in [Tasks -> Places] /\ state' \in [Tasks -> States]
       /\ runqueue' \in [CPUs -> Seq(Tasks)] /\ runqueue'[c] = nq
  BY <1>1, <1>2, <1>3, <1>7 DEF Places, Outside, States
<1>11. /\ Queued(c)' = Queued(c) \cup {t} /\ Held(c)' = Held(c) \cup {t}
       /\ Waiting' = Waiting \ {t}
  <2>1. DOMAIN nq = 1 .. Len(nq) /\ DOMAIN waiters' = 1 .. Len(waiters')
    BY <1>1, <1>3, <1>7, LenProperties
  <2>2. Queued(c)' = Members(nq) /\ Waiting' = Members(waiters')
    BY <1>10, <2>1 DEF Queued, Waiting, Members
  <2>3. QED
    BY <1>1, <1>2, <1>3, <1>7, <2>2 DEF Held
<1>12. Typed'
  <2>1. counter' \in Nat /\ granted' \subseteq Tasks /\ waiters' \in Seq(Tasks)
    BY <1>1, <1>3 DEF SleepInv, Typed, SemTypeOK
  <2>2. QED
    BY <1>1, <1>10, <2>1 DEF SleepInv, Typed, SemTypeOK
<1>13. RunQueueOK'
  <2>1. \A u \in Queued(c)' : state'[u] = "RUNNING" /\ u \notin IdleTasks
    BY <1>2, <1>4, <1>10, <1>11 DEF SleepInv, RunQueueOK, Runnable
  <2>2. state'[InitTask[c]] = "RUNNING"
    BY <1>10 DEF SleepInv, RunQueueOK, Runnable
  <2>3. cur \notin Queued(c)' /\ state'[cur] = "RUNNING"
    BY <1>2, <1>4, <1>9, <1>10, <1>11 DEF SleepInv, RunQueueOK, Runnable
  <2>4. NoRepeat(runqueue'[c])
    BY <1>7, <1>10
  <2>5. QED
    BY <1>1, <1>2, <1>9, <2>1, <2>2, <2>3, <2>4 DEF RunQueueOK, Runnable
<1>14. ForksOutside'
  <2>1. ASSUME NEW p \in Tasks, child[p] # NoTask
        PROVE  p # cur /\ child[p] # cur /\ child[p] \in Tasks /\ child[p] # t
    BY <1>1, <1>4, <1>8, <2>1 DEF SleepInv, Typed, ForksOutside
  <2>2. QED
    BY <1>1, <1>10, <2>1 DEF SleepInv, ForksOutside
<1>15. Standing'
  <2>1. \A u \in Tasks : (at'[u] \in Outside)
    BY <1>5, <1>10 DEF Outside
  <2>2. ASSUME NEW u \in Tasks
        PROVE  /\ at'[u] # "out" => u \notin IdleTasks /\ state'[u] # "unused" /\ Found(u)'
               /\ at'[u] = "in" => state'[u] = "RUNNING"
               /\ at'[u] = "asleep" /\ u \notin Waiting' => state'[u] = "RUNNING"
               /\ u \in Waiting' => at'[u] = "asleep" /\ state'[u] = "UNINTERRUPTIBLE"
               /\ u \in granted' <=> \/ at'[u] \in {"in", "inc", "wake"}
                                     \/ at'[u] = "asleep" /\ u \notin Waiting'
    <3>1. CASE u = cur
      BY <1>1, <1>4, <1>10, <1>11, <3>1
    <3>2. CASE u = t
      BY <1>1, <1>4, <1>5, <1>10, <1>11, <3>2 DEF Found
    <3>3. CASE u # cur /\ u # t
      <4>1. at'[u] = at[u] /\ state'[u] = state[u] /\ at[u] \in Outside
        BY <1>5, <1>10, <3>3
      <4>2. u \in Waiting' <=> u \in Waiting
        BY <1>11, <3>3
      <4>3. u \in granted' <=> u \in granted
        BY <1>1, <3>3
      <4>4. Found(u) => Found(u)'
        BY <1>2, <1>11, <4>2 DEF Found
      <4>5. QED
        BY <4>1, <4>2, <4>3, <4>4 DEF SleepInv, Standing, Runnable, Outside
    <3>4. QED
      BY <3>1, <3>2, <3>3
  <2>3. QED
    BY <2>1, <2>2 DEF Standing, Outside, Runnable
<1>16. CounterOK'
  <2>1. IsFiniteSet(granted') /\ Cardinality(granted') = Cardinality(granted)
    <3>1. IsFiniteSet(granted) /\ Cardinality(granted) \in Nat
      BY FS_CardinalityType DEF SleepInv, CounterOK
    <3>2. /\ IsFiniteSet(granted \ {cur})
          /\ Cardinality(granted \ {cur}) = Cardinality(granted) - 1
      BY <1>4, <3>1, FS_RemoveElement
    <3>3. t \notin granted \ {cur}
      BY <1>4
    <3>4. /\ IsFiniteSet((granted \ {cur}) \cup {t})
          /\ Cardinality((granted \ {cur}) \cup {t}) = Cardinality(granted \ {cur}) + 1
      BY <3>2, <3>3, FS_AddElement
    <3>5. QED
      BY <1>1, <3>1, <3>2, <3>4
  <2>2. \A u \in Tasks : at'[u] \in {"in", "out", "asleep"}
    BY <1>5, <1>10 DEF Outside
  <2>3. NoIdleUnit' /\ NoRepeat(waiters')
    BY <1>1, <1>3 DEF SleepInv, CounterOK, NoIdleUnit
  <2>4. QED
    BY <1>1, <2>1, <2>2, <2>3 DEF SleepInv, CounterOK
<1>17. QED
  BY <1>12, <1>13, <1>14, <1>15, <1>16 DEF SleepInv


-----------------------------------------------------------------------------
(* schedule() on this processor: what is left in the queue are tasks it    *)
(* held before, all runnable; only a blocked task, or idle, is let go of.  *)
LEMMA ScheduleKeeps ==
  ASSUME OneProcessor, SleepInv, NEW c \in CPUs, NEW vr \in [Tasks -> Nat],
         NEW left, schedule(c, vr, left)
  PROVE  /\ current' \in [CPUs -> Tasks]
         /\ runqueue' \in [CPUs -> Seq(Tasks)]
         /\ Queued(c)' \subseteq Held(c)
         /\ \A t \in Queued(c)' : Runnable(t) /\ t \notin IdleTasks
         /\ current'[c] \notin Queued(c)'
         /\ NoRepeat(runqueue'[c])
         /\ current'[c] # current[c] => Runnable(current'[c])
         /\ \A t \in Held(c) : t \in Held(c)' \/ t \in IdleTasks \/ ~Runnable(t)
<1> DEFINE prev == current[c]
           q    == runqueue[c]
           tsk  == Picked(c, q)
           rest == Remaining(q)
           back == enqueue_task(c, rest, vr, prev)
           stay == enqueue_task(c, rest, vr, tsk)
<1>1. /\ SMP_cpu_id(c) = c
      /\ prev \in Tasks /\ q \in Seq(Tasks)
      /\ current \in [CPUs -> Tasks] /\ runqueue \in [CPUs -> Seq(Tasks)]
      /\ Queued(c) = Members(q) /\ Queued(c) \subseteq Tasks
      /\ \A d \in CPUs : d = c
  BY OnThisCPU DEF SleepInv, Typed
<1>2. /\ \A t \in Members(q) : Runnable(t) /\ t \notin IdleTasks
      /\ prev \notin Members(q) /\ NoRepeat(q) /\ Runnable(InitTask[c])
      /\ InitTask[c] \notin Members(q)
  BY <1>1 DEF SleepInv, RunQueueOK, IdleTasks
<1>3. \/ /\ runqueue' = [runqueue EXCEPT ![c] = IF state[prev] = "RUNNING" THEN back ELSE rest]
         /\ current' = [current EXCEPT ![c] = tsk]
      \/ /\ runqueue' = [runqueue EXCEPT ![c] = stay]
         /\ current' = current
  BY <1>1 DEF schedule
<1>4. Held(c) = {prev} \cup Members(q)
  BY <1>1 DEF Held
<1>5. \A d \in CPUs : d = c => \A t : t = InitTask[d] => t \in IdleTasks
  BY DEF IdleTasks
<1> HIDE DEF prev, q
<1>6. /\ tsk \in Tasks /\ rest \in Seq(Tasks)
      /\ Members(rest) \subseteq Members(q)
      /\ Members(q) \subseteq Members(rest) \cup {tsk}
      /\ NoRepeat(rest)
      /\ (tsk \in Members(q) /\ tsk \notin Members(rest)) \/ tsk = InitTask[c]
  BY <1>1, <1>2, PickProperties
<1>7. tsk \notin Members(rest) /\ Runnable(tsk) /\ (tsk \in IdleTasks => tsk = InitTask[c])
  BY <1>2, <1>6
<1> HIDE DEF tsk, rest
<1>8. /\ back \in Seq(Tasks)
      /\ Members(back) = IF prev = InitTask[c] THEN Members(rest) ELSE Members(rest) \cup {prev}
      /\ NoRepeat(back)
  <2>1. prev \notin Members(rest)
    BY <1>2, <1>6
  <2>2. prev \in Tasks /\ rest \in Seq(Tasks) /\ NoRepeat(rest)
    BY <1>1, <1>6
  <2>3. back \in Seq(Tasks)
    BY <2>2, EnqueueProperties
  <2>4. Members(back) = IF prev = InitTask[c] THEN Members(rest) ELSE Members(rest) \cup {prev}
    <3>1. CASE prev = InitTask[c]
      BY <2>2, <3>1, EnqueueProperties
    <3>2. CASE prev # InitTask[c]
      BY <2>2, <3>2, EnqueueProperties
    <3>3. QED
      BY <3>1, <3>2
  <2>5. NoRepeat(back)
    BY <2>1, <2>2, EnqueueProperties
  <2>6. QED
    BY <2>3, <2>4, <2>5
<1>9. /\ stay \in Seq(Tasks)
      /\ Members(stay) = IF tsk = InitTask[c] THEN Members(rest) ELSE Members(rest) \cup {tsk}
      /\ NoRepeat(stay)
  <2>1. tsk \in Tasks /\ tsk \notin Members(rest) /\ rest \in Seq(Tasks) /\ NoRepeat(rest)
    BY <1>6, <1>7
  <2>2. stay \in Seq(Tasks)
    BY <2>1, EnqueueProperties
  <2>3. Members(stay) = IF tsk = InitTask[c] THEN Members(rest) ELSE Members(rest) \cup {tsk}
    <3>1. CASE tsk = InitTask[c]
      BY <2>1, <3>1, EnqueueProperties
    <3>2. CASE tsk # InitTask[c]
      BY <2>1, <3>2, EnqueueProperties
    <3>3. QED
      BY <3>1, <3>2
  <2>4. NoRepeat(stay)
    BY <2>1, EnqueueProperties
  <2>5. QED
    BY <2>2, <2>3, <2>4
<1>10. prev \in IdleTasks => prev = InitTask[c]
  BY <1>1 DEF IdleTasks
<1> HIDE DEF back, stay
<1>11. ASSUME NEW nq \in Seq(Tasks), runqueue' = [runqueue EXCEPT ![c] = nq]
       PROVE  runqueue' \in [CPUs -> Seq(Tasks)] /\ runqueue'[c] = nq
              /\ Queued(c)' = Members(nq)
  <2>1. runqueue' \in [CPUs -> Seq(Tasks)] /\ runqueue'[c] = nq
    BY <1>1, <1>11
  <2>2. DOMAIN nq = 1 .. Len(nq)
    BY LenProperties
  <2>3. QED
    BY <2>1, <2>2 DEF Queued, Members
<1>12. current[c] = prev
  BY DEF prev
<1>13. CASE /\ runqueue' = [runqueue EXCEPT ![c] = back]
            /\ current' = [current EXCEPT ![c] = tsk]
            /\ state[prev] = "RUNNING"
  <2>1. /\ current' \in [CPUs -> Tasks] /\ current'[c] = tsk
        /\ runqueue' \in [CPUs -> Seq(Tasks)] /\ runqueue'[c] = back
        /\ Queued(c)' = Members(back) /\ Held(c)' = {tsk} \cup Members(back)
    BY <1>1, <1>6, <1>8, <1>11, <1>13 DEF Held
  <2>2. tsk \notin Members(back)
    BY <1>2, <1>6, <1>7, <1>8
  <2>3. QED
    BY <1>2, <1>4, <1>5, <1>6, <1>7, <1>8, <1>10, <1>12, <1>13, <2>1, <2>2 DEF Runnable
<1>14. CASE /\ runqueue' = [runqueue EXCEPT ![c] = rest]
            /\ current' = [current EXCEPT ![c] = tsk]
            /\ state[prev] # "RUNNING"
  <2>1. /\ current' \in [CPUs -> Tasks] /\ current'[c] = tsk
        /\ runqueue' \in [CPUs -> Seq(Tasks)] /\ runqueue'[c] = rest
        /\ Queued(c)' = Members(rest) /\ Held(c)' = {tsk} \cup Members(rest)
    BY <1>1, <1>6, <1>11, <1>14 DEF Held
  <2>2. QED
    BY <1>2, <1>4, <1>6, <1>7, <1>12, <1>14, <2>1 DEF Runnable
<1>15. CASE runqueue' = [runqueue EXCEPT ![c] = stay] /\ current' = current
  <2>1. /\ current' \in [CPUs -> Tasks] /\ current'[c] = prev
        /\ runqueue' \in [CPUs -> Seq(Tasks)] /\ runqueue'[c] = stay
        /\ Queued(c)' = Members(stay) /\ Held(c)' = {prev} \cup Members(stay)
    BY <1>1, <1>9, <1>11, <1>12, <1>15 DEF Held
  <2>2. \A t \in Members(stay) : t \in Members(q)
    BY <1>6, <1>9
  <2>3. Members(q) \subseteq Members(stay)
    BY <1>2, <1>6, <1>9
  <2>4. QED
    BY <1>2, <1>4, <1>9, <1>12, <2>1, <2>2, <2>3
<1>16. QED
  BY <1>3, <1>13, <1>14, <1>15


(* What the scheduler's own steps share: the places, the list, the counter *)
(* and the units stay, tasks in the list stay blocked, and a task in use   *)
(* of the semaphore is still found.                                        *)
LEMMA SemaphoreUntouched ==
  ASSUME OneProcessor, SleepInv, NEW c \in CPUs, UNCHANGED semVars, Sound,
         \A t \in Tasks : at[t] \notin Outside => current'[c] = t,
         \A t \in Tasks : at[t] # "out" => state'[t] = state[t],
         \A t \in Held(c) : t \in Held(c)' \/ t \in IdleTasks \/ ~Runnable(t)
  PROVE  SemTypeOK' /\ Standing' /\ CounterOK'
<1>1. UNCHANGED <<counter, waiters, at, granted>>
  BY DEF semVars
<1>2. SemTypeOK' /\ CounterOK' /\ Waiting' = Waiting
  <2>1. SemTypeOK'
    BY <1>1 DEF SleepInv, Typed, SemTypeOK
  <2>2. CounterOK'
    BY <1>1 DEF SleepInv, CounterOK, NoIdleUnit
  <2>3. Waiting' = Waiting
    BY <1>1 DEF Waiting
  <2>4. QED
    BY <2>1, <2>2, <2>3
<1>3. \A d \in CPUs : d = c
  BY DEF OneProcessor
<1>4. ASSUME NEW t \in Tasks, at[t] # "out"
      PROVE  t \notin IdleTasks /\ Found(t)'
  <2>1. t \notin IdleTasks /\ Found(t)
    BY <1>4 DEF SleepInv, Standing
  <2>2. CASE t \in Waiting
    BY <1>2, <2>1, <2>2 DEF Found
  <2>3. CASE t \notin Waiting /\ Runnable(t)
    <3>1. t \in Held(c)
      BY <1>3, <2>1, <2>3 DEF Found
    <3>2. t \in Held(c)'
      BY <2>1, <2>3, <3>1
    <3>3. QED
      BY <2>1, <3>2 DEF Found
  <2>4. CASE t \notin Waiting /\ ~Runnable(t)
    <3>1. at[t] = "enlist"
      BY <1>4, <2>4 DEF SleepInv, Standing, Typed, SemTypeOK, Places, Outside
    <3>2. current'[c] = t
      BY <3>1 DEF Outside
    <3>3. QED
      BY <2>1, <3>2 DEF Found, Held
  <2>5. QED
    BY <2>2, <2>3, <2>4
<1>5. ASSUME NEW t \in Tasks, t \in Waiting
      PROVE  at[t] # "out"
  BY <1>5 DEF SleepInv, Standing
<1>6. Standing'
  BY <1>1, <1>2, <1>3, <1>4, <1>5 DEF SleepInv, Standing, Runnable
<1>7. QED
  BY <1>2, <1>6

(* The waiter gives up the processor: it is blocked and on the list.       *)
LEMMA DownScheduleSleep ==
  ASSUME OneProcessor, SleepInv, NEW c \in CPUs, DownSchedule(c)
  PROVE  SleepInv'
<1> DEFINE cur == current[c]
<1>1. /\ schedule(c, vruntime, CPU_exec_task_jiffies[SMP_cpu_id(c)])
      /\ UNCHANGED <<state, vruntime, cpu_id, child, counter, waiters, granted>>
      /\ at' = [at EXCEPT ![cur] = "asleep"]
      /\ at[cur] = "sleep" /\ child[cur] = NoTask /\ cur \notin IdleTasks
  BY DEF DownSchedule, AtPlace, Goto
<1>2. /\ cur \in Tasks /\ at \in [Tasks -> Places] /\ vruntime \in [Tasks -> Nat]
      /\ \A d \in CPUs : d = c
  BY DEF SleepInv, Typed, SemTypeOK, OneProcessor
<1>3. cur \in Waiting /\ state[cur] = "UNINTERRUPTIBLE" /\ cur \notin granted
      /\ \A t \in Tasks : t # cur => at[t] \in Outside
  <2>1. cur \in Waiting /\ state[cur] = "UNINTERRUPTIBLE" /\ cur \notin granted
    BY <1>1, <1>2 DEF SleepInv, Standing
  <2>2. QED
    BY <2>1 DEF SleepInv, Standing
<1>4. /\ current' \in [CPUs -> Tasks]
      /\ runqueue' \in [CPUs -> Seq(Tasks)]
      /\ Queued(c)' \subseteq Held(c)
      /\ \A t \in Queued(c)' : Runnable(t) /\ t \notin IdleTasks
      /\ current'[c] \notin Queued(c)'
      /\ NoRepeat(runqueue'[c])
      /\ current'[c] # current[c] => Runnable(current'[c])
      /\ \A t \in Held(c) : t \in Held(c)' \/ t \in IdleTasks \/ ~Runnable(t)
  BY <1>1, <1>2, ScheduleKeeps
<1>5. \A p \in Tasks : child[p] # cur
  BY CurrentIsNoChild
<1>6. Waiting' = Waiting
  BY <1>1 DEF Waiting
<1>7. Runnable(InitTask[c])
  BY DEF SleepInv, RunQueueOK
<1>8. current[c] = cur
  OBVIOUS
<1> HIDE DEF cur
<1>9. /\ at'[cur] = "asleep" /\ at' \in [Tasks -> Places]
      /\ \A t \in Tasks : t # cur => at'[t] = at[t]
      /\ \A t \in Tasks : at'[t] \in Outside
  BY <1>1, <1>2, <1>3 DEF Places, Outside
<1>10. Typed'
  BY <1>1, <1>4, <1>9 DEF SleepInv, Typed, SemTypeOK
<1>11. RunQueueOK'
  BY <1>1, <1>2, <1>3, <1>4, <1>7, <1>8, <1>9 DEF RunQueueOK, Runnable, Blocked
<1>12. ForksOutside'
  <2>1. ASSUME NEW p \in Tasks, child[p] # NoTask
        PROVE  p # cur /\ child[p] # cur /\ child[p] \in Tasks
    BY <1>1, <1>5, <2>1 DEF SleepInv, Typed
  <2>2. QED
    BY <1>1, <1>9, <2>1 DEF SleepInv, ForksOutside
<1>13. ASSUME NEW t \in Tasks, t = cur \/ at[t] # "out"
       PROVE  Found(t)'
  <2>1. CASE t \in Waiting
    BY <1>6, <2>1 DEF Found
  <2>2. CASE t \notin Waiting
    <3>1. Runnable(t) /\ t \notin IdleTasks /\ t \in Held(c)
      <4>1. t # cur /\ at[t] # "out" /\ at[t] \in Outside
        BY <1>3, <1>13, <2>2
      <4>2. QED
        BY <1>2, <2>2, <4>1 DEF SleepInv, Standing, Outside, Found
    <3>2. QED
      BY <1>4, <3>1 DEF Found
  <2>3. QED
    BY <2>1, <2>2
<1>14. Standing'
  <2>1. UNCHANGED <<state, granted>> /\ Waiting' = Waiting
    BY <1>1, <1>6
  <2>2. ASSUME NEW t \in Tasks
        PROVE  /\ at'[t] # "out" => t \notin IdleTasks /\ state[t] # "unused" /\ Found(t)'
               /\ at'[t] = "in" => Runnable(t)
               /\ at'[t] = "asleep" /\ t \notin Waiting => Runnable(t)
               /\ t \in Waiting => at'[t] = "asleep" /\ state[t] = "UNINTERRUPTIBLE"
               /\ t \in granted <=> \/ at'[t] \in {"in", "inc", "wake"}
                                    \/ at'[t] = "asleep" /\ t \notin Waiting
    <3>1. CASE t = cur
      BY <1>1, <1>3, <1>9, <1>13, <3>1
    <3>2. CASE t # cur
      <4>1. at'[t] = at[t] /\ at[t] \in Outside
        BY <1>3, <1>9, <3>2
      <4>2. QED
        BY <1>13, <4>1 DEF SleepInv, Standing, Outside
    <3>3. QED
      BY <3>1, <3>2
  <2>3. QED
    BY <1>9, <2>1, <2>2 DEF Standing, Outside, Runnable
<1>16. CounterOK'
  <2>1. \A t \in Tasks : at'[t] \in {"in", "out", "asleep"}
    BY <1>9 DEF Outside
  <2>2. QED
    BY <1>1, <2>1 DEF SleepInv, CounterOK, NoIdleUnit
<1>17. QED
  BY <1>10, <1>11, <1>12, <1>14, <1>16 DEF SleepInv


(* A tick charges the current task; it comes only when no semaphore        *)
(* function is under way.                                                  *)
LEMMA TickSleep ==
  ASSUME OneProcessor, Masked, SleepInv, NEW c \in CPUs, Sound, UNCHANGED semVars,
         at[current[c]] \in Outside, TickReturn(c) \/ TickSchedule(c)
  PROVE  SleepInv'
<1>1. /\ UNCHANGED <<state, cpu_id, child, at, counter, waiters, granted>>
      /\ vruntime' = [vruntime EXCEPT ![current[c]] = @ + Charge(current[c])]
  BY DEF TickReturn, TickSchedule, TickCharges, semVars
<1>2. /\ vruntime \in [Tasks -> Nat] /\ current[c] \in Tasks
      /\ \A d \in CPUs : d = c
  BY DEF SleepInv, Typed, OneProcessor
<1>3. vruntime' \in [Tasks -> Nat]
  <2>1. vruntime[current[c]] + Charge(current[c]) \in Nat
    BY <1>2 DEF Charge
  <2>2. QED
    BY <1>1, <1>2, <2>1
<1>4. \A t \in Tasks : at[t] \in Outside
  <2>1. \A t \in Tasks : at[t] \notin Outside => current[c] = t
    BY DEF SleepInv, Standing
  <2>2. QED
    BY <2>1
<1>5. /\ current' \in [CPUs -> Tasks]
      /\ runqueue' \in [CPUs -> Seq(Tasks)]
      /\ \A t \in Queued(c)' : Runnable(t) /\ t \notin IdleTasks
      /\ current'[c] \notin Queued(c)'
      /\ NoRepeat(runqueue'[c])
      /\ current'[c] # current[c] => Runnable(current'[c])
      /\ \A t \in Held(c) : t \in Held(c)' \/ t \in IdleTasks \/ ~Runnable(t)
  <2>1. CASE TickReturn(c)
    <3>1. UNCHANGED <<current, runqueue>>
      BY <2>1 DEF TickReturn
    <3>2. Queued(c)' = Queued(c) /\ Held(c)' = Held(c)
      BY <3>1 DEF Queued, Held
    <3>3. current \in [CPUs -> Tasks] /\ runqueue \in [CPUs -> Seq(Tasks)]
      BY DEF SleepInv, Typed
    <3>4. QED
      BY <3>1, <3>2, <3>3 DEF SleepInv, RunQueueOK
  <2>2. CASE TickSchedule(c)
    <3>1. schedule(c, vruntime', SliceAfterTick(c))
      BY <2>2 DEF TickSchedule
    <3>2. QED
      BY <1>3, <3>1, ScheduleKeeps
  <2>3. QED
    BY <2>1, <2>2
<1>6. SemTypeOK' /\ Standing' /\ CounterOK'
  BY <1>1, <1>4, <1>5, SemaphoreUntouched
<1>7. Typed'
  BY <1>1, <1>3, <1>5, <1>6 DEF SleepInv, Typed
<1>8. RunQueueOK'
  <2>1. /\ Runnable(InitTask[c]) /\ state[current[c]] # "unused"
        /\ state[current[c]] = "UNINTERRUPTIBLE" => at[current[c]] \in Blocked
    BY DEF SleepInv, RunQueueOK
  <2>2. QED
    BY <1>1, <1>2, <1>5, <2>1 DEF RunQueueOK, Runnable
<1>9. ForksOutside'
  BY <1>1 DEF SleepInv, ForksOutside
<1>10. QED
  BY <1>6, <1>7, <1>8, <1>9 DEF SleepInv

(* do_fork takes a task_struct that is in no use.                          *)
LEMMA ForkCopySleep ==
  ASSUME OneProcessor, SleepInv, NEW c \in CPUs, NEW t \in Tasks, Sound,
         UNCHANGED semVars, at[current[c]] = "out", ForkCopy(c, t)
  PROVE  SleepInv'
<1> DEFINE cur == current[c]
<1>1. /\ UNCHANGED <<current, runqueue, at, waiters>>
      /\ state' = [state EXCEPT ![t] = "UNINTERRUPTIBLE"]
      /\ vruntime' = [vruntime EXCEPT ![t] = vruntime[cur]]
      /\ cpu_id' = [cpu_id EXCEPT ![t] = c]
      /\ child' = [child EXCEPT ![cur] = t]
      /\ state[t] = "unused" /\ child[cur] = NoTask
      /\ at[cur] = "out"
  BY OnThisCPU DEF ForkCopy, cpuVars, semVars, SleepInv
<1>2. /\ cur \in Tasks /\ state \in [Tasks -> States] /\ vruntime \in [Tasks -> Nat]
      /\ cpu_id \in [Tasks -> CPUs] /\ child \in [Tasks -> Tasks \cup {NoTask}]
      /\ \A d \in CPUs : d = c
      /\ Queued(c) \subseteq Tasks
  BY OnThisCPU DEF SleepInv, Typed, OneProcessor
<1>3. at[t] = "out" /\ t # cur /\ t # InitTask[c] /\ t \notin Queued(c)
  BY <1>1 DEF SleepInv, Standing, RunQueueOK, Runnable
<1>4. t \notin IdleTasks
  BY <1>2, <1>3 DEF IdleTasks
<1>5. Queued(c)' = Queued(c) /\ Held(c)' = Held(c)
  BY <1>1 DEF Queued, Held
<1>6. \A u \in Tasks : at[u] \in Outside
  <2>1. \A u \in Tasks : at[u] \notin Outside => cur = u
    BY DEF SleepInv, Standing
  <2>2. QED
    BY <1>1, <2>1 DEF Outside
<1>7. \A p \in Tasks : child[p] # cur /\ child[p] # t
  <2>1. \A p \in Tasks : child[p] # cur
    BY CurrentIsNoChild
  <2>2. \A p \in Tasks : child[p] # t
    BY <1>1 DEF SleepInv, ForksOutside
  <2>3. QED
    BY <2>1, <2>2
<1>8. cur \in Held(c) /\ current[c] = cur
  BY DEF Held
<1> HIDE DEF cur
<1>9. /\ state' \in [Tasks -> States] /\ vruntime' \in [Tasks -> Nat]
      /\ cpu_id' \in [Tasks -> CPUs] /\ child' \in [Tasks -> Tasks \cup {NoTask}]
      /\ state'[t] = "UNINTERRUPTIBLE" /\ child'[cur] = t
      /\ \A u \in Tasks : u # t => state'[u] = state[u]
      /\ \A p \in Tasks : p # cur => child'[p] = child[p]
  BY <1>1, <1>2 DEF States
<1>10. SemTypeOK' /\ Standing' /\ CounterOK'
  <2>1. /\ \A u \in Tasks : at[u] \notin Outside => current'[c] = u
        /\ \A u \in Tasks : at[u] # "out" => state'[u] = state[u]
        /\ \A u \in Held(c) : u \in Held(c)' \/ u \in IdleTasks \/ ~Runnable(u)
    BY <1>3, <1>5, <1>6, <1>9
  <2>2. QED
    BY <2>1, SemaphoreUntouched
<1>11. Typed'
  BY <1>1, <1>9, <1>10 DEF SleepInv, Typed
<1>12. RunQueueOK'
  <2>1. \A u \in Queued(c) \cup {InitTask[c], cur} : u # t /\ u \in Tasks
    BY <1>2, <1>3
  <2>2. \A u \in Queued(c) \cup {InitTask[c], cur} : state'[u] = state[u]
    BY <1>9, <2>1
  <2>3. QED
    BY <1>1, <1>2, <1>5, <1>8, <2>2 DEF SleepInv, RunQueueOK, Runnable
<1>13. ForksOutside'
  <2>1. ASSUME NEW p \in Tasks, child'[p] # NoTask
        PROVE  /\ state'[child'[p]] = "UNINTERRUPTIBLE" /\ child'[p] \notin IdleTasks
               /\ at[p] = "out" /\ at[child'[p]] = "out"
               /\ \A q \in Tasks : child'[q] = child'[p] => q = p
    <3>1. CASE p = cur
      BY <1>1, <1>3, <1>4, <1>7, <1>9, <3>1
    <3>2. CASE p # cur
      <4>1. /\ child'[p] = child[p] /\ child[p] \in Tasks /\ child[p] # t
            /\ state[child[p]] = "UNINTERRUPTIBLE" /\ child[p] \notin IdleTasks
            /\ at[p] = "out" /\ at[child[p]] = "out"
            /\ \A q \in Tasks : child[q] = child[p] => q = p
        BY <1>2, <1>7, <1>9, <2>1, <3>2 DEF SleepInv, ForksOutside
      <4>2. QED
        BY <1>9, <4>1
    <3>3. QED
      BY <3>1, <3>2
  <2>2. QED
    BY <1>1, <2>1 DEF ForksOutside
<1>14. QED
  BY <1>10, <1>11, <1>12, <1>13 DEF SleepInv

(* The child enters the run queue, which held it nowhere.                  *)
LEMMA ForkEnqueueSleep ==
  ASSUME OneProcessor, SleepInv, NEW c \in CPUs, Sound, UNCHANGED semVars,
         at[current[c]] = "out", ForkEnqueue(c)
  PROVE  SleepInv'
<1> DEFINE cur == current[c]
           t   == child[cur]
           q   == runqueue[c]
           nq  == enqueue_task(c, q, vruntime, t)
<1>1. /\ UNCHANGED <<current, vruntime, cpu_id, at, waiters>>
      /\ t # NoTask
      /\ state' = [state EXCEPT ![t] = "RUNNING"]
      /\ runqueue' = [runqueue EXCEPT ![c] = nq]
      /\ child' = [child EXCEPT ![cur] = NoTask]
      /\ at[cur] = "out"
  BY OnThisCPU DEF ForkEnqueue, semVars, SleepInv
<1>2. /\ cur \in Tasks /\ t \in Tasks /\ q \in Seq(Tasks)
      /\ state \in [Tasks -> States] /\ vruntime \in [Tasks -> Nat]
      /\ child \in [Tasks -> Tasks \cup {NoTask}]
      /\ runqueue \in [CPUs -> Seq(Tasks)]
      /\ \A d \in CPUs : d = c
      /\ Queued(c) \subseteq Tasks /\ Queued(c) = Members(q)
  BY <1>1, OnThisCPU DEF SleepInv, Typed, OneProcessor
<1>3. /\ state[t] = "UNINTERRUPTIBLE" /\ t \notin IdleTasks /\ at[t] = "out"
      /\ \A p \in Tasks : child[p] = t => p = cur
  BY <1>1, <1>2 DEF SleepInv, ForksOutside
<1>4. t # cur
  BY <1>2, CurrentIsNoChild
<1>5. t \notin Members(q) /\ NoRepeat(q)
  BY <1>2, <1>3 DEF SleepInv, RunQueueOK, Runnable
<1>6. \A u \in Tasks : at[u] \in Outside
  <2>1. \A u \in Tasks : at[u] \notin Outside => cur = u
    BY DEF SleepInv, Standing
  <2>2. QED
    BY <1>1, <2>1 DEF Outside
<1>7. cur \in Held(c) /\ current[c] = cur
  BY DEF Held
<1> HIDE DEF cur, t, q
<1>8. nq \in Seq(Tasks) /\ Members(nq) = Members(q) \cup {t} /\ NoRepeat(nq)
  <2>1. t # InitTask[c]
    BY <1>3 DEF IdleTasks
  <2>2. /\ enqueue_task(c, q, vruntime, t) \in Seq(Tasks)
        /\ Members(enqueue_task(c, q, vruntime, t)) = Members(q) \cup {t}
        /\ NoRepeat(enqueue_task(c, q, vruntime, t))
    <3>1. q \in Seq(Tasks) /\ t \in Tasks /\ vruntime \in [Tasks -> Nat]
      BY <1>2
    <3>2. QED
      BY <1>5, <2>1, <3>1, EnqueueProperties
  <2>3. QED
    BY <2>2 DEF nq
<1> HIDE DEF nq
<1>9. /\ state' \in [Tasks -> States] /\ child' \in [Tasks -> Tasks \cup {NoTask}]
      /\ runqueue' \in [CPUs -> Seq(Tasks)] /\ runqueue'[c] = nq
      /\ state'[t] = "RUNNING" /\ child'[cur] = NoTask
      /\ \A u \in Tasks : u # t => state'[u] = state[u]
      /\ \A p \in Tasks : p # cur => child'[p] = child[p]
  BY <1>1, <1>2, <1>8 DEF States
<1>10. Queued(c)' = Queued(c) \cup {t} /\ Held(c)' = Held(c) \cup {t}
  <2>1. DOMAIN nq = 1 .. Len(nq)
    BY <1>8, LenProperties
  <2>2. Queued(c)' = Members(nq)
    BY <1>9, <2>1 DEF Queued, Members
  <2>3. QED
    BY <1>1, <1>2, <1>8, <2>2 DEF Held
<1>11. SemTypeOK' /\ Standing' /\ CounterOK'
  <2>1. /\ \A u \in Tasks : at[u] \notin Outside => current'[c] = u
        /\ \A u \in Tasks : at[u] # "out" => state'[u] = state[u]
        /\ \A u \in Held(c) : u \in Held(c)' \/ u \in IdleTasks \/ ~Runnable(u)
    BY <1>3, <1>6, <1>9, <1>10
  <2>2. QED
    BY <2>1, SemaphoreUntouched
<1>12. Typed'
  BY <1>1, <1>9, <1>11 DEF SleepInv, Typed
<1>13. RunQueueOK'
  <2>1. \A u \in Queued(c)' : state'[u] = "RUNNING" /\ u \notin IdleTasks
    BY <1>2, <1>3, <1>9, <1>10 DEF SleepInv, RunQueueOK, Runnable
  <2>2. state'[InitTask[c]] = "RUNNING"
    BY <1>9 DEF SleepInv, RunQueueOK, Runnable
  <2>3. cur \notin Queued(c)' /\ state'[cur] = state[cur]
    BY <1>2, <1>4, <1>7, <1>9, <1>10 DEF SleepInv, RunQueueOK
  <2>4. NoRepeat(runqueue'[c])
    BY <1>8, <1>9
  <2>5. QED
    BY <1>1, <1>2, <1>7, <2>1, <2>2, <2>3, <2>4 DEF SleepInv, RunQueueOK, Runnable
<1>14. ForksOutside'
  <2>1. ASSUME NEW p \in Tasks, child'[p] # NoTask
        PROVE  /\ child'[p] = child[p] /\ child[p] # t /\ child[p] \in Tasks
               /\ \A r \in Tasks : child'[r] = child[p] => r = p
    <3>1. p # cur /\ child'[p] = child[p] /\ child[p] \in Tasks
      BY <1>2, <1>9, <2>1
    <3>2. \A r \in Tasks : child[r] = child[p] => r = p
      BY <2>1, <3>1 DEF SleepInv, ForksOutside
    <3>3. QED
      BY <1>3, <1>9, <3>1, <3>2
  <2>2. QED
    BY <1>1, <1>9, <2>1 DEF SleepInv, ForksOutside
<1>15. QED
  BY <1>11, <1>12, <1>13, <1>14 DEF SleepInv


-----------------------------------------------------------------------------
(* At the start nobody uses the semaphore.                                 *)
LEMMA SemInitSleep == SemInit => SleepInv
<1> SUFFICES ASSUME SemInit PROVE SleepInv
  OBVIOUS
<1>1. /\ current = InitTask
      /\ runqueue = [c \in CPUs |-> <<>>]
      /\ state = [t \in Tasks |-> IF t \in IdleTasks THEN "RUNNING" ELSE "unused"]
      /\ vruntime = [t \in Tasks |-> 0]
      /\ child = [t \in Tasks |-> NoTask]
      /\ counter = Units /\ waiters = <<>> /\ granted = {}
      /\ at = [t \in Tasks |-> "out"]
  BY DEF SemInit, Init
<1>2. cpu_id \in [Tasks -> CPUs]
  <2>1. \A t \in IdleTasks : (CHOOSE c \in CPUs : InitTask[c] = t) \in CPUs
    BY DEF IdleTasks
  <2>2. (CHOOSE c \in CPUs : TRUE) \in CPUs
    OBVIOUS
  <2>3. QED
    BY <2>1, <2>2 DEF SemInit, Init
<1>3. Typed
  <2>1. SemTypeOK
    BY <1>1 DEF SemTypeOK, Places, Outside
  <2>2. QED
    BY <1>1, <1>2, <2>1 DEF Typed, States
<1>4. \A c \in CPUs : Queued(c) = {} /\ NoRepeat(runqueue[c])
                      /\ current[c] \in IdleTasks /\ InitTask[c] \in IdleTasks
  BY <1>1 DEF Queued, NoRepeat, IdleTasks
<1>5. RunQueueOK
  BY <1>1, <1>4 DEF RunQueueOK, Runnable, IdleTasks
<1>6. Waiting = {}
  BY <1>1 DEF Waiting
<1>7. Standing /\ ForksOutside
  BY <1>1, <1>6 DEF Standing, Outside, ForksOutside
<1>8. CounterOK
  <2>1. IsFiniteSet(granted) /\ Cardinality(granted) = 0
    BY <1>1, FS_EmptySet
  <2>2. NoRepeat(waiters) /\ NoIdleUnit
    BY <1>1 DEF NoRepeat, NoIdleUnit
  <2>3. QED
    BY <1>1, <2>1, <2>2 DEF CounterOK
<1>9. QED
  BY <1>3, <1>5, <1>7, <1>8 DEF SleepInv

(* A system call of a new thread changes nothing the semaphore sees.       *)
LEMMA UnchangedSleep ==
  ASSUME SleepInv, UNCHANGED semVars,
         UNCHANGED <<current, runqueue, state, vruntime, cpu_id, child>>
  PROVE  SleepInv'
<1>1. UNCHANGED <<counter, waiters, at, granted>>
  BY DEF semVars
<1>2. Waiting' = Waiting /\ \A c \in CPUs : Queued(c)' = Queued(c) /\ Held(c)' = Held(c)
  BY <1>1 DEF Waiting, Queued, Held
<1>3. SemTypeOK'
  BY <1>1 DEF SleepInv, Typed, SemTypeOK
<1>4. Typed'
  BY <1>3 DEF SleepInv, Typed
<1>5. RunQueueOK'
  BY <1>1, <1>2 DEF SleepInv, RunQueueOK, Runnable
<1>6. ForksOutside'
  BY <1>1 DEF SleepInv, ForksOutside
<1>7. Standing'
  BY <1>1, <1>2 DEF SleepInv, Standing, Found, Runnable
<1>8. CounterOK'
  BY <1>1 DEF SleepInv, CounterOK, NoIdleUnit
<1>9. QED
  BY <1>4, <1>5, <1>6, <1>7, <1>8 DEF SleepInv

(* Every step keeps the invariant.                                         *)
LEMMA SemNextSleep ==
  OneProcessor /\ Masked /\ SleepInv /\ [SemNext]_allVars => SleepInv'
<1> SUFFICES ASSUME OneProcessor, Masked, SleepInv, [SemNext]_allVars
             PROVE  SleepInv'
  OBVIOUS
<1>1. CASE UNCHANGED allVars
  <2>1. UNCHANGED semVars /\ UNCHANGED <<current, runqueue, state, vruntime, cpu_id, child>>
    BY <1>1 DEF allVars, vars, cpuVars, taskVars
  <2>2. QED
    BY <2>1, UnchangedSleep
<1>2. ASSUME NEW c \in CPUs, SemStep(c)
      PROVE  SleepInv'
  BY <1>2, DownSleep, DownDecSleep, DownBlockSleep, DownEnlistSleep,
     DownScheduleSleep, DownReturnSleep, UpSleep, UpIncSleep, UpWakeSleep
     DEF SemStep
<1>3. ASSUME NEW c \in CPUs, SchedulerStep(c)
      PROVE  SleepInv'
  <2>1. Sound /\ UNCHANGED semVars
    BY <1>3 DEF SchedulerStep
  <2>2. CASE at[current[c]] \in Outside /\ (TickReturn(c) \/ TickSchedule(c))
    BY <2>1, <2>2, TickSleep
  <2>3. CASE at[current[c]] = "out" /\ \E t \in Tasks : ForkCopy(c, t)
    BY <2>1, <2>3, ForkCopySleep
  <2>4. CASE at[current[c]] = "out" /\ ForkEnqueue(c)
    BY <2>1, <2>4, ForkEnqueueSleep
  <2>5. CASE SystemCall(c)
    <3>1. UNCHANGED <<current, runqueue, state, vruntime, cpu_id, child>>
      BY <2>5 DEF SystemCall, cpuVars
    <3>2. QED
      BY <2>1, <3>1, UnchangedSleep
  <2>6. QED
    BY <1>3, <2>2, <2>3, <2>4, <2>5 DEF SchedulerStep
<1>4. QED
  BY <1>1, <1>2, <1>3 DEF SemNext

(* On one processor, with interrupts off in the semaphore's functions and  *)
(* for any tasks and units: no unit is lost or made, and none lies idle    *)
(* while a task waits.                                                     *)
THEOREM UnitsAreConserved ==
  ASSUME OneProcessor, Masked
  PROVE  SemSpec => []SemaphoreInv
<1>1. SleepInv => SemaphoreInv
  <2>1. SleepInv => UnitsConserved
    BY DEF SleepInv, CounterOK, Standing, UnitsConserved
  <2>2. QED
    BY <2>1 DEF SleepInv, Typed, CounterOK, SemaphoreInv
<1>2. OneProcessor /\ Masked /\ SleepInv /\ [SemNext]_allVars => SleepInv'
  BY SemNextSleep
<1>3. QED
  BY <1>1, <1>2, SemInitSleep, PTL DEF SemSpec

(* Under the same conditions a task that gives up the processor in __down  *)
(* can always be found again: it is on the list, or semaphore_up has put   *)
(* it into a run queue, never both.                                        *)
THEOREM WaitersAreFound ==
  ASSUME OneProcessor, Masked
  PROVE  SemSpec => []NobodyLost
<1>1. SleepInv => NobodyLost
  <2> SUFFICES ASSUME SleepInv PROVE NobodyLost
    OBVIOUS
  <2>1. ASSUME NEW c \in CPUs PROVE Waiting \cap Queued(c) = {}
    <3>1. \A t \in Waiting : t \in Tasks
      BY DEF SleepInv, Typed, SemTypeOK, Waiting
    <3>2. \A t \in Waiting : ~Runnable(t)
      BY <3>1 DEF SleepInv, Standing, Runnable
    <3>3. QED
      BY <3>2 DEF SleepInv, RunQueueOK
  <2>2. QED
    BY <2>1 DEF SleepInv, Standing, Found, NobodyLost
<1>2. OneProcessor /\ Masked /\ SleepInv /\ [SemNext]_allVars => SleepInv'
  BY SemNextSleep
<1>3. QED
  BY <1>1, <1>2, SemInitSleep, PTL DEF SemSpec
=============================================================================
