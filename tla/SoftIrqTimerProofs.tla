-------------------------- MODULE SoftIrqTimerProofs --------------------------
(***************************************************************************)
(* Proofs about SoftIrqTimer and the linked list of KernelList, for any    *)
(* tasks, timers, clock and depth of nesting.  The circular list is at     *)
(* every moment the links of a sequence of timers, and the two list        *)
(* functions do to it what they are named for, through interrupts inside   *)
(* do_softirq and the tasks they switch to, for as long as none of them    *)
(* overtakes a call that holds a pointer it has read from the list.        *)
(***************************************************************************)
EXTENDS SoftIrqTimer, FiniteSetTheorems, SequenceTheorems,
        WellFoundedInduction, TLAPS

Lists == [next : [Nodes -> Nodes], prev : [Nodes -> Nodes]]
Calls == [at : SoftirqPoints \cup AddPoints, tmp : Nodes, new : Nodes]

\* The i-th node of the circle whose timers are s; the head comes before
\* and behind them.
Node(s, i) == IF i \in 1 .. Len(s) THEN s[i] ELSE timerList

Linked(L, s) ==
  \A i \in 0 .. Len(s) : /\ L.next[Node(s, i)] = Node(s, i + 1)
                         /\ L.prev[Node(s, i + 1)] = Node(s, i)

Elements(s) == {s[i] : i \in 1 .. Len(s)}
Distinct(s) == \A i, j \in 1 .. Len(s) : s[i] = s[j] => i = j
Sorted(s)   == \A i, j \in 1 .. Len(s) :
                 i < j => expire_jiffies[s[i]] <= expire_jiffies[s[j]]

InsertedAt(s, k, t) ==
  [j \in 1 .. Len(s) + 1 |-> IF j < k THEN s[j] ELSE IF j = k THEN t ELSE s[j - 1]]

USE SoftIrqTimerAssumption

-----------------------------------------------------------------------------
(* list_init touches the pointers of its node only.                        *)
LEMMA ListInit ==
  ASSUME NEW L \in Lists, NEW n \in Nodes
  PROVE  /\ list_init(L, n) \in Lists
         /\ \A x \in Nodes : x # n => /\ list_init(L, n).next[x] = L.next[x]
                                      /\ list_init(L, n).prev[x] = L.prev[x]
<1> DEFINE L1 == SetPrev(L, n, n)
<1>1. /\ L1 \in Lists /\ L1.next = L.next
      /\ \A x \in Nodes : x # n => L1.prev[x] = L.prev[x]
  BY DEF Lists, SetNext, SetPrev
<1> HIDE DEF L1
<1>2. /\ SetNext(L1, n, n) \in Lists /\ SetNext(L1, n, n).prev = L1.prev
      /\ \A x \in Nodes : x # n => SetNext(L1, n, n).next[x] = L1.next[x]
  BY <1>1 DEF Lists, SetNext, SetPrev
<1>3. QED
  BY <1>1, <1>2 DEF list_init, L1

(* What list_add_to_before leaves behind, pointer by pointer, when the     *)
(* node is not one of the two it goes between.                             *)
LEMMA ListAdd ==
  ASSUME NEW L \in Lists, NEW entry \in Nodes, NEW new \in Nodes,
         new # entry, new # L.prev[entry]
  PROVE  LET R == list_add_to_before(L, entry, new)
             before == L.prev[entry]
         IN /\ R \in Lists
            /\ R.next[new] = entry /\ R.prev[new] = before
            /\ R.next[before] = new /\ R.prev[entry] = new
            /\ \A x \in Nodes : x # new /\ x # before => R.next[x] = L.next[x]
            /\ \A x \in Nodes : x # new /\ x # entry => R.prev[x] = L.prev[x]
<1> DEFINE before == L.prev[entry]
           A == SetNext(L, new, entry)
           B == SetPrev(A, new, before)
           C == SetNext(B, before, new)
           R == SetPrev(C, entry, new)
<1>0. before \in Nodes
  BY DEF Lists
<1> HIDE DEF before
<1>1. /\ A \in Lists /\ A.prev = L.prev /\ A.next[new] = entry
      /\ \A x \in Nodes : x # new => A.next[x] = L.next[x]
  BY DEF Lists, SetNext, SetPrev
<1> HIDE DEF A
<1>2. /\ B \in Lists /\ B.next = A.next /\ B.prev[new] = before
      /\ \A x \in Nodes : x # new => B.prev[x] = A.prev[x]
  BY <1>0, <1>1 DEF Lists, SetNext, SetPrev
<1> HIDE DEF B
<1>3. /\ C \in Lists /\ C.prev = B.prev /\ C.next[before] = new
      /\ \A x \in Nodes : x # before => C.next[x] = B.next[x]
  BY <1>0, <1>2 DEF Lists, SetNext, SetPrev
<1> HIDE DEF C
<1>4. /\ R \in Lists /\ R.next = C.next /\ R.prev[entry] = new
      /\ \A x \in Nodes : x # entry => R.prev[x] = C.prev[x]
  BY <1>3 DEF Lists, SetNext, SetPrev
<1>5. R = list_add_to_before(L, entry, new)
  BY <1>2 DEF list_add_to_before, A, B, C, before
<1> HIDE DEF R
<1>6. new # before
  BY DEF before
<1>7. /\ R \in Lists
      /\ R.next[new] = entry /\ R.prev[new] = before
      /\ R.next[before] = new /\ R.prev[entry] = new
      /\ \A x \in Nodes : x # new /\ x # before => R.next[x] = L.next[x]
      /\ \A x \in Nodes : x # new /\ x # entry => R.prev[x] = L.prev[x]
  BY <1>0, <1>1, <1>2, <1>3, <1>4, <1>6
<1>8. QED
  BY <1>5, <1>7 DEF before

(* list_del links the neighbours of its node to each other.                *)
LEMMA ListDel ==
  ASSUME NEW L \in Lists, NEW entry \in Nodes,
         L.prev[L.next[entry]] = entry, L.next[L.prev[entry]] = entry,
         L.next[entry] # entry
  PROVE  LET R == list_del(L, entry)
             before == L.prev[entry]
             behind == L.next[entry]
         IN /\ R \in Lists
            /\ R.next[before] = behind /\ R.prev[behind] = before
            /\ \A x \in Nodes : x # before => R.next[x] = L.next[x]
            /\ \A x \in Nodes : x # behind => R.prev[x] = L.prev[x]
<1> DEFINE before == L.prev[entry]
           behind == L.next[entry]
           A == SetPrev(L, behind, before)
           R == SetNext(A, before, behind)
<1>0. before \in Nodes /\ behind \in Nodes /\ behind # entry
  BY DEF Lists
<1> HIDE DEF before, behind
<1>1. /\ A \in Lists /\ A.next = L.next /\ A.prev[behind] = before
      /\ \A x \in Nodes : x # behind => A.prev[x] = L.prev[x]
  BY <1>0 DEF Lists, SetNext, SetPrev
<1> HIDE DEF A
<1>2. /\ R \in Lists /\ R.prev = A.prev /\ R.next[before] = behind
      /\ \A x \in Nodes : x # before => R.next[x] = A.next[x]
  BY <1>0, <1>1 DEF Lists, SetNext, SetPrev
<1>3. A.prev[entry] = before /\ A.next[entry] = behind
  BY <1>0, <1>1 DEF before, behind
<1>4. R = list_del(L, entry)
  BY <1>3 DEF list_del, A, before, behind
<1> HIDE DEF R
<1>5. QED
  BY <1>1, <1>2, <1>4 DEF before, behind

-----------------------------------------------------------------------------
(* The places of the circle: the head in front and behind, the timers      *)
(* between, and no node at two of them.                                    *)
LEMMA Places ==
  ASSUME NEW s \in Seq(Timers)
  PROVE  /\ Len(s) \in Nat
         /\ Node(s, 0) = timerList /\ Node(s, Len(s) + 1) = timerList
         /\ \A i \in 1 .. Len(s) : Node(s, i) = s[i] /\ s[i] \in Timers
         /\ \A i \in Int : Node(s, i) \in Nodes
<1>1. Len(s) \in Nat /\ \A i \in 1 .. Len(s) : s[i] \in Timers
  OBVIOUS
<1>2. QED
  BY <1>1 DEF Node, Nodes

LEMMA PlacesDiffer ==
  ASSUME NEW s \in Seq(Timers), Distinct(s)
  PROVE  /\ \A i, j \in 0 .. Len(s) : i # j => Node(s, i) # Node(s, j)
         /\ \A i, j \in 1 .. Len(s) + 1 : i # j => Node(s, i) # Node(s, j)
<1>1. /\ Len(s) \in Nat
      /\ \A i \in 1 .. Len(s) : s[i] \in Timers /\ s[i] # timerList
  OBVIOUS
<1>2. ASSUME NEW i \in 0 .. Len(s), NEW j \in 0 .. Len(s), i # j
      PROVE  Node(s, i) # Node(s, j)
  BY <1>1, <1>2 DEF Node, Distinct
<1>3. ASSUME NEW i \in 1 .. Len(s) + 1, NEW j \in 1 .. Len(s) + 1, i # j
      PROVE  Node(s, i) # Node(s, j)
  BY <1>1, <1>3 DEF Node, Distinct
<1>4. QED
  BY <1>2, <1>3

(* The head points to the first timer, and back to the last.               *)
LEMMA LinkedEnds ==
  ASSUME NEW L \in Lists, NEW s \in Seq(Timers), Linked(L, s)
  PROVE  /\ L.next[timerList] = Node(s, 1)
         /\ L.prev[timerList] = Node(s, Len(s))
         /\ list_is_empty(L, timerList) <=> s = <<>>
<1>1. L.next[timerList] = Node(s, 1) /\ L.prev[timerList] = Node(s, Len(s))
  BY Places DEF Linked
<1>2. CASE s = <<>>
  BY <1>1, <1>2 DEF Node, list_is_empty
<1>3. CASE s # <<>>
  <2>1. Len(s) >= 1 /\ s[1] \in Timers
    BY <1>3
  <2>2. QED
    BY <1>1, <1>3, <2>1 DEF Node, list_is_empty
<1>4. QED
  BY <1>1, <1>2, <1>3

(* Pointers of nodes that are not in the circle do not matter to it.       *)
LEMMA LinkedElsewhere ==
  ASSUME NEW L \in Lists, NEW s \in Seq(Timers), Linked(L, s),
         NEW t \in Timers \ Elements(s)
  PROVE  list_init(L, t) \in Lists /\ Linked(list_init(L, t), s)
<1>1. \A i \in 0 .. Len(s) + 1 : Node(s, i) \in Nodes /\ Node(s, i) # t
  BY Places DEF Elements, Node
<1>2. t \in Nodes /\ Len(s) \in Nat
  BY Places DEF Nodes
<1>3. ASSUME NEW i \in 0 .. Len(s)
      PROVE  /\ list_init(L, t).next[Node(s, i)] = L.next[Node(s, i)]
             /\ list_init(L, t).prev[Node(s, i + 1)] = L.prev[Node(s, i + 1)]
  <2>1. i \in 0 .. Len(s) + 1 /\ i + 1 \in 0 .. Len(s) + 1
    BY <1>2
  <2>2. QED
    BY <1>1, <1>2, <2>1, ListInit
<1>4. QED
  BY <1>2, <1>3, ListInit DEF Linked

(* Deleting the first timer leaves the links of the others.                *)
LEMMA LinkedTail ==
  ASSUME NEW L \in Lists, NEW s \in Seq(Timers), Linked(L, s), Distinct(s),
         s # <<>>
  PROVE  list_del(L, s[1]) \in Lists /\ Linked(list_del(L, s[1]), Tail(s))
<1> DEFINE z == Tail(s)
           R == list_del(L, s[1])
<1>1. /\ Len(s) \in Nat /\ Len(s) >= 1 /\ s[1] \in Timers
      /\ z \in Seq(Timers) /\ Len(z) = Len(s) - 1
      /\ \A i \in 1 .. Len(s) - 1 : z[i] = s[i + 1]
  OBVIOUS
<1> HIDE DEF z
<1>2. /\ Node(z, 0) = timerList
      /\ \A i \in 1 .. Len(s) : Node(z, i) = Node(s, i + 1)
  BY <1>1 DEF Node
<1>3. Node(s, 0) = timerList /\ Node(s, 1) = s[1] /\ \A i \in Int : Node(s, i) \in Nodes
  BY <1>1, Places
<1>4. L.prev[s[1]] = timerList /\ L.next[s[1]] = Node(s, 2)
  <2>1. L.prev[Node(s, 0 + 1)] = Node(s, 0) /\ L.next[Node(s, 1)] = Node(s, 1 + 1)
    BY <1>1 DEF Linked
  <2>2. QED
    BY <1>3, <2>1
<1>5. L.next[timerList] = s[1] /\ L.prev[Node(s, 2)] = s[1]
  <2>1. L.next[Node(s, 0)] = Node(s, 0 + 1) /\ L.prev[Node(s, 1 + 1)] = Node(s, 1)
    BY <1>1 DEF Linked
  <2>2. QED
    BY <1>3, <2>1
<1>6. Node(s, 2) # s[1]
  <2>1. 1 \in 1 .. Len(s) + 1 /\ 2 \in 1 .. Len(s) + 1
    BY <1>1
  <2>2. QED
    BY <2>1, <1>3, PlacesDiffer
<1>7. /\ R \in Lists
      /\ R.next[timerList] = Node(s, 2) /\ R.prev[Node(s, 2)] = timerList
      /\ \A x \in Nodes : x # timerList => R.next[x] = L.next[x]
      /\ \A x \in Nodes : x # Node(s, 2) => R.prev[x] = L.prev[x]
  <2>1. s[1] \in Nodes
    BY <1>1 DEF Nodes
  <2>2. QED
    BY <2>1, <1>4, <1>5, <1>6, ListDel
<1> HIDE DEF R
<1>8. ASSUME NEW i \in 0 .. Len(z)
      PROVE  R.next[Node(z, i)] = Node(z, i + 1) /\ R.prev[Node(z, i + 1)] = Node(z, i)
  <2>1. CASE i = 0
    BY <2>1, <1>1, <1>2, <1>7
  <2>2. CASE i # 0
    <3>1. /\ i \in 1 .. Len(s) - 1 /\ i + 1 \in 1 .. Len(s)
          /\ i + 1 \in 0 .. Len(s) /\ i + 2 \in 1 .. Len(s) + 1
      BY <2>2, <1>1
    <3>2. /\ Node(z, i) = Node(s, i + 1) /\ Node(z, i + 1) = Node(s, i + 2)
      BY <3>1, <1>2
    <3>3. Node(s, i + 1) # timerList /\ Node(s, i + 2) # Node(s, 2)
      <4>1. 0 \in 0 .. Len(s) /\ 2 \in 1 .. Len(s) + 1 /\ i + 1 # 0 /\ i + 2 # 2
        BY <1>1, <2>2
      <4>2. QED
        BY <4>1, <3>1, <1>3, PlacesDiffer
    <3>4. L.next[Node(s, i + 1)] = Node(s, i + 2) /\ L.prev[Node(s, i + 2)] = Node(s, i + 1)
      BY <3>1 DEF Linked
    <3>5. QED
      BY <3>1, <3>2, <3>3, <3>4, <1>3, <1>7
  <2>3. QED
    BY <2>1, <2>2
<1>9. QED
  BY <1>7, <1>8 DEF Linked, R, z

(* Inserting a timer in front of the k-th node links it at place k.        *)
LEMMA LinkedInserted ==
  ASSUME NEW L \in Lists, NEW s \in Seq(Timers), Linked(L, s), Distinct(s),
         NEW t \in Timers \ Elements(s), NEW k \in 1 .. Len(s) + 1
  PROVE  LET R == list_add_to_before(L, Node(s, k), t)
         IN R \in Lists /\ Linked(R, InsertedAt(s, k, t))
<1> DEFINE z == InsertedAt(s, k, t)
           R == list_add_to_before(L, Node(s, k), t)
<1>1. /\ Len(s) \in Nat /\ Len(z) = Len(s) + 1
      /\ \A j \in 1 .. Len(s) + 1 :
           z[j] = IF j < k THEN s[j] ELSE IF j = k THEN t ELSE s[j - 1]
  BY DEF InsertedAt
<1> HIDE DEF z
<1>2. /\ \A i \in 0 .. k - 1 : Node(z, i) = Node(s, i)
      /\ Node(z, k) = t
      /\ \A i \in k + 1 .. Len(s) + 2 : Node(z, i) = Node(s, i - 1)
  BY <1>1 DEF Node
<1>3. \A i \in 0 .. Len(s) + 1 : Node(s, i) \in Nodes /\ Node(s, i) # t
  BY Places DEF Elements, Node
<1>4. L.prev[Node(s, k)] = Node(s, k - 1)
  <2>1. k - 1 \in 0 .. Len(s) /\ (k - 1) + 1 = k
    BY <1>1
  <2>2. QED
    BY <2>1 DEF Linked
<1>5. /\ R \in Lists
      /\ R.next[t] = Node(s, k) /\ R.prev[t] = Node(s, k - 1)
      /\ R.next[Node(s, k - 1)] = t /\ R.prev[Node(s, k)] = t
      /\ \A x \in Nodes : x # t /\ x # Node(s, k - 1) => R.next[x] = L.next[x]
      /\ \A x \in Nodes : x # t /\ x # Node(s, k) => R.prev[x] = L.prev[x]
  <2>1. /\ Node(s, k) \in Nodes /\ t \in Nodes
        /\ t # Node(s, k) /\ t # Node(s, k - 1)
    BY <1>1, <1>3 DEF Nodes
  <2>2. QED
    BY <2>1, <1>4, ListAdd
<1> HIDE DEF R
<1>6. ASSUME NEW i \in 0 .. Len(s), i # k - 1
      PROVE  /\ R.next[Node(s, i)] = Node(s, i + 1)
             /\ R.prev[Node(s, i + 1)] = Node(s, i)
  <2>1. /\ k - 1 \in 0 .. Len(s) /\ i + 1 \in 1 .. Len(s) + 1 /\ i + 1 # k
        /\ i \in 0 .. Len(s) + 1 /\ i + 1 \in 0 .. Len(s) + 1
    BY <1>1, <1>6
  <2>2. Node(s, i) # Node(s, k - 1) /\ Node(s, i + 1) # Node(s, k)
    BY <1>6, <2>1, PlacesDiffer
  <2>3. L.next[Node(s, i)] = Node(s, i + 1) /\ L.prev[Node(s, i + 1)] = Node(s, i)
    BY DEF Linked
  <2>4. QED
    BY <2>1, <2>2, <2>3, <1>3, <1>5
<1>7. ASSUME NEW i \in 0 .. Len(z)
      PROVE  R.next[Node(z, i)] = Node(z, i + 1) /\ R.prev[Node(z, i + 1)] = Node(z, i)
  <2>1. CASE i < k - 1
    <3>1. i \in 0 .. Len(s) /\ i # k - 1 /\ i \in 0 .. k - 1 /\ i + 1 \in 0 .. k - 1
      BY <2>1, <1>1
    <3>2. QED
      BY <3>1, <1>2, <1>6
  <2>2. CASE i = k - 1
    <3>1. i \in 0 .. k - 1 /\ i + 1 = k
      BY <2>2, <1>1
    <3>2. QED
      BY <3>1, <2>2, <1>2, <1>5
  <2>3. CASE i = k
    <3>1. i + 1 \in k + 1 .. Len(s) + 2 /\ (i + 1) - 1 = k
      BY <2>3, <1>1
    <3>2. QED
      BY <3>1, <2>3, <1>2, <1>5
  <2>4. CASE i > k
    <3>1. /\ i \in k + 1 .. Len(s) + 2 /\ i + 1 \in k + 1 .. Len(s) + 2
          /\ i - 1 \in 0 .. Len(s) /\ i - 1 # k - 1
          /\ (i + 1) - 1 = (i - 1) + 1
      BY <2>4, <1>1
    <3>2. Node(z, i) = Node(s, i - 1) /\ Node(z, i + 1) = Node(s, (i - 1) + 1)
      BY <3>1, <1>2
    <3>3. QED
      BY <3>1, <3>2, <1>6
  <2>5. QED
    BY <1>1, <2>1, <2>2, <2>3, <2>4
<1>8. QED
  BY <1>5, <1>7 DEF Linked, R, z

(* The sequence itself: what an insertion adds and where it keeps order.   *)
LEMMA Inserted ==
  ASSUME NEW s \in Seq(Timers), Distinct(s),
         NEW t \in Timers \ Elements(s), NEW k \in 1 .. Len(s) + 1
  PROVE  LET z == InsertedAt(s, k, t)
         IN /\ z \in Seq(Timers) /\ Distinct(z)
            /\ Elements(z) = Elements(s) \cup {t}
<1> DEFINE z == InsertedAt(s, k, t)
<1>1. /\ Len(s) \in Nat /\ \A j \in 1 .. Len(s) : s[j] \in Timers /\ s[j] # t
  BY DEF Elements
<1>2. /\ z \in Seq(Timers) /\ Len(z) = Len(s) + 1
      /\ \A j \in 1 .. Len(s) + 1 :
           z[j] = IF j < k THEN s[j] ELSE IF j = k THEN t ELSE s[j - 1]
  BY <1>1 DEF InsertedAt
<1> HIDE DEF z
<1>3. Distinct(z)
  <2>1. ASSUME NEW i \in 1 .. Len(s) + 1, NEW j \in 1 .. Len(s) + 1, i < j
        PROVE  z[i] # z[j]
    <3>1. CASE i = k \/ j = k
      <4>1. CASE i = k
        <5>1. z[i] = t /\ j - 1 \in 1 .. Len(s) /\ z[j] = s[j - 1]
          BY <1>1, <1>2, <2>1, <4>1
        <5>2. QED
          BY <5>1, <1>1
      <4>2. CASE j = k
        <5>1. z[j] = t /\ i \in 1 .. Len(s) /\ z[i] = s[i]
          BY <1>1, <1>2, <2>1, <4>2
        <5>2. QED
          BY <5>1, <1>1
      <4>3. QED
        BY <3>1, <4>1, <4>2
    <3>2. CASE i # k /\ j # k
      <4>1. PICK a \in 1 .. Len(s), b \in 1 .. Len(s) :
              z[i] = s[a] /\ z[j] = s[b] /\ a # b
        <5>1. CASE j < k
          <6>1. i \in 1 .. Len(s) /\ j \in 1 .. Len(s) /\ i < k /\ i # j
            BY <1>1, <2>1, <5>1
          <6>2. z[i] = s[i] /\ z[j] = s[j]
            BY <1>2, <2>1, <5>1, <6>1
          <6>3. QED
            BY <6>1, <6>2
        <5>2. CASE i < k /\ k < j
          <6>1. i \in 1 .. Len(s) /\ j - 1 \in 1 .. Len(s) /\ i # j - 1
            BY <1>1, <2>1, <5>2
          <6>2. QED
            BY <1>2, <5>2, <6>1
        <5>3. CASE k < i
          <6>1. /\ i - 1 \in 1 .. Len(s) /\ j - 1 \in 1 .. Len(s) /\ i - 1 # j - 1
                /\ ~(i < k) /\ i # k /\ ~(j < k) /\ j # k
            BY <1>1, <2>1, <5>3
          <6>2. z[i] = s[i - 1] /\ z[j] = s[j - 1]
            BY <1>2, <2>1, <6>1
          <6>3. QED
            BY <6>1, <6>2
        <5>4. QED
          BY <2>1, <3>2, <5>1, <5>2, <5>3
      <4>2. QED
        BY <4>1 DEF Distinct
    <3>3. QED
      BY <3>1, <3>2
  <2>2. ASSUME NEW i \in 1 .. Len(s) + 1, NEW j \in 1 .. Len(s) + 1, z[i] = z[j]
        PROVE  i = j
    <3>1. ~(i < j) /\ ~(j < i)
      BY <2>1, <2>2
    <3>2. QED
      BY <3>1
  <2>3. QED
    BY <1>2, <2>2 DEF Distinct
<1>4. ASSUME NEW x \in Elements(z) PROVE x \in Elements(s) \cup {t}
  <2>1. PICK j \in 1 .. Len(s) + 1 : x = z[j]
    BY <1>2 DEF Elements
  <2>2. CASE j < k
    <3>1. j \in 1 .. Len(s) /\ x = s[j]
      BY <1>1, <1>2, <2>1, <2>2
    <3>2. QED
      BY <3>1 DEF Elements
  <2>3. CASE j = k
    BY <1>2, <2>1, <2>3
  <2>4. CASE k < j
    <3>1. j - 1 \in 1 .. Len(s) /\ x = s[j - 1]
      BY <1>1, <1>2, <2>1, <2>4
    <3>2. QED
      BY <3>1 DEF Elements
  <2>5. QED
    BY <1>1, <2>1, <2>2, <2>3, <2>4
<1>5. t \in Elements(z)
  BY <1>1, <1>2 DEF Elements
<1>6. ASSUME NEW i \in 1 .. Len(s) PROVE s[i] \in Elements(z)
  <2>1. CASE i < k
    <3>1. i \in 1 .. Len(z) /\ z[i] = s[i]
      BY <1>1, <1>2, <2>1
    <3>2. QED
      BY <3>1 DEF Elements
  <2>2. CASE i >= k
    <3>1. i + 1 \in 1 .. Len(z) /\ z[i + 1] = s[i]
      BY <1>1, <1>2, <2>2
    <3>2. QED
      BY <3>1 DEF Elements
  <2>3. QED
    BY <1>1, <2>1, <2>2
<1>7. Elements(s) \subseteq Elements(z)
  BY <1>6 DEF Elements
<1>8. Elements(z) = Elements(s) \cup {t}
  BY <1>4, <1>5, <1>7
<1>9. QED
  BY <1>2, <1>3, <1>8 DEF z

(* The first timer taken away.                                             *)
LEMMA TakenAway ==
  ASSUME NEW s \in Seq(Timers), Distinct(s), s # <<>>
  PROVE  /\ Tail(s) \in Seq(Timers) /\ Distinct(Tail(s))
         /\ s[1] \in Timers \ Elements(Tail(s))
         /\ Elements(s) = Elements(Tail(s)) \cup {s[1]}
<1> DEFINE z == Tail(s)
<1>1. /\ Len(s) \in Nat /\ Len(s) >= 1 /\ s[1] \in Timers
      /\ z \in Seq(Timers) /\ Len(z) = Len(s) - 1
      /\ \A i \in 1 .. Len(s) - 1 : z[i] = s[i + 1]
  OBVIOUS
<1> HIDE DEF z
<1>2. Distinct(z)
  BY <1>1 DEF Distinct
<1>3. s[1] \notin Elements(z)
  BY <1>1 DEF Distinct, Elements
<1>4. ASSUME NEW i \in 1 .. Len(s) PROVE s[i] \in Elements(z) \cup {s[1]}
  <2>1. CASE i = 1
    BY <2>1
  <2>2. CASE i # 1
    <3>1. i - 1 \in 1 .. Len(z) /\ z[i - 1] = s[i]
      BY <1>1, <2>2
    <3>2. QED
      BY <3>1 DEF Elements
  <2>3. QED
    BY <2>1, <2>2
<1>5. ASSUME NEW i \in 1 .. Len(z) PROVE z[i] \in Elements(s)
  BY <1>1 DEF Elements
<1>6. s[1] \in Elements(s)
  BY <1>1 DEF Elements
<1>7. Elements(s) = Elements(z) \cup {s[1]}
  BY <1>4, <1>5, <1>6 DEF Elements
<1>8. QED
  BY <1>1, <1>2, <1>3, <1>7 DEF z

-----------------------------------------------------------------------------

-----------------------------------------------------------------------------
(* The stacks hold calls.                                                  *)
LEMMA CallsTyped ==
  ASSUME NEW k \in [Tasks -> Seq(Calls)]
  PROVE  \A t \in Tasks : \A i \in DOMAIN k[t] :
           k[t][i] \in [at : SoftirqPoints \cup AddPoints,
                        tmp : Nodes, new : Nodes]
<1>1. \A q \in Seq(Calls) : \A i \in DOMAIN q : q[i] \in Calls
  OBVIOUS
<1>2. QED
  BY <1>1 DEF Calls

(***************************************************************************)
(* However deep the interrupts nest: whether a soft interrupt can be       *)
(* pending in task code.  A do_softirq is open on the stack of the running *)
(* task whenever one is pending.                                           *)
(***************************************************************************)
Serving(t) == \E i \in DOMAIN stack[t] : stack[t][i].at \in SoftirqPoints

NestedInv ==
  /\ TypeOK
  /\ stack \in [Tasks -> Seq(Calls)]
  /\ softirq_status => Serving(current)

(* No do_softirq is counted exactly when none is open.                     *)
LEMMA CountsTheOpen ==
  ASSUME NEW q \in Seq(Calls)
  PROVE  Cardinality({i \in DOMAIN q : q[i].at \in SoftirqPoints}) = 0
           <=> ~(\E i \in DOMAIN q : q[i].at \in SoftirqPoints)
<1> DEFINE S == {i \in DOMAIN q : q[i].at \in SoftirqPoints}
<1>1. IsFiniteSet(DOMAIN q)
  <2>1. DOMAIN q = 1 .. Len(q) /\ 1 \in Int /\ Len(q) \in Int
    OBVIOUS
  <2>2. QED
    BY <2>1, FS_Interval
<1>2. IsFiniteSet(S)
  BY <1>1, FS_Subset
<1>3. Cardinality(S) = 0 <=> S = {}
  BY <1>2, FS_EmptySet
<1>4. QED
  BY <1>3

(* What a call leaves on the stack when it moves: the calls below it, and  *)
(* itself on top.                                                          *)
LEMMA MovesOnTop ==
  ASSUME NEW q \in Seq(Calls), q # <<>>, NEW c \in Calls, NEW below, NEW moved
  PROVE  below = SubSeq(q, 1, Len(q) - 1) /\ moved = Append(below, c) =>
         /\ Len(q) \in DOMAIN q /\ below \in Seq(Calls) /\ moved \in Seq(Calls)
         /\ \A i \in DOMAIN q : i # Len(q) =>
              /\ i \in DOMAIN below /\ below[i] = q[i]
              /\ i \in DOMAIN moved /\ moved[i] = q[i]
         /\ \E i \in DOMAIN moved : moved[i] = c
<1>1. SUFFICES ASSUME below = SubSeq(q, 1, Len(q) - 1), moved = Append(below, c)
               PROVE  /\ Len(q) \in DOMAIN q
                      /\ below \in Seq(Calls) /\ moved \in Seq(Calls)
                      /\ \A i \in DOMAIN q : i # Len(q) =>
                           /\ i \in DOMAIN below /\ below[i] = q[i]
                           /\ i \in DOMAIN moved /\ moved[i] = q[i]
                      /\ \E i \in DOMAIN moved : moved[i] = c
  OBVIOUS
<1>2. \A p \in Seq(Calls) :
        /\ Len(p) \in Nat /\ DOMAIN p = 1 .. Len(p)
        /\ p # <<>> => Len(p) >= 1
  OBVIOUS
<1>3. Len(q) \in Nat /\ Len(q) >= 1 /\ DOMAIN q = 1 .. Len(q)
  BY <1>2
<1>4. below \in Seq(Calls) /\ Len(below) = Len(q) - 1
      /\ \A i \in 1 .. Len(q) - 1 : below[i] = q[i]
  BY <1>1, <1>3
<1>5. /\ moved \in Seq(Calls) /\ Len(moved) = Len(below) + 1
      /\ \A i \in 1 .. Len(below) : moved[i] = below[i]
      /\ moved[Len(below) + 1] = c
  BY <1>1, <1>4, AppendProperties
<1>6. /\ Len(below) = Len(q) - 1 /\ Len(moved) = Len(q) /\ moved[Len(q)] = c
      /\ DOMAIN below = 1 .. Len(q) - 1 /\ DOMAIN moved = 1 .. Len(q)
  <2>1. Len(below) + 1 = Len(q)
    BY <1>3, <1>4
  <2>2. QED
    BY <2>1, <1>2, <1>4, <1>5
<1>7. ASSUME NEW i \in DOMAIN q, i # Len(q)
      PROVE  /\ i \in DOMAIN below /\ below[i] = q[i]
             /\ i \in DOMAIN moved /\ moved[i] = q[i]
  <2>1. i \in 1 .. Len(q) - 1 /\ i \in 1 .. Len(q) /\ i \in 1 .. Len(below)
    BY <1>3, <1>6, <1>7
  <2>2. QED
    BY <2>1, <1>4, <1>5, <1>6
<1>8. \E i \in DOMAIN moved : moved[i] = c
  <2>1. Len(q) \in DOMAIN moved
    BY <1>3, <1>6
  <2>2. QED
    BY <2>1, <1>6
<1>9. QED
  BY <1>3, <1>4, <1>5, <1>7, <1>8

LEMMA ListDelTyped ==
  ASSUME NEW L \in Lists, NEW entry \in Nodes
  PROVE  list_del(L, entry) \in Lists
<1> DEFINE A == SetPrev(L, L.next[entry], L.prev[entry])
<1>1. A \in Lists
  BY DEF SetPrev, Lists
<1> HIDE DEF A
<1>2. SetNext(A, A.prev[entry], A.next[entry]) \in Lists
  BY <1>1 DEF SetNext, Lists
<1>3. QED
  BY <1>2 DEF list_del, A

LEMMA ListAddTyped ==
  ASSUME NEW L \in Lists, NEW entry \in Nodes, NEW new \in Nodes
  PROVE  list_add_to_before(L, entry, new) \in Lists
<1> DEFINE A == SetNext(L, new, entry)
           B == SetPrev(A, new, L.prev[entry])
           C == SetNext(B, B.prev[new], new)
<1>1. A \in Lists
  BY DEF SetNext, Lists
<1> HIDE DEF A
<1>2. B \in Lists
  BY <1>1 DEF SetPrev, Lists
<1> HIDE DEF B
<1>3. C \in Lists
  BY <1>2 DEF SetNext, Lists
<1> HIDE DEF C
<1>4. SetPrev(C, entry, new) \in Lists
  BY <1>3 DEF SetPrev, Lists
<1>5. QED
  BY <1>4 DEF list_add_to_before, A, B, C

LEMMA NestedInit ==
  ASSUME Init
  PROVE  NestedInv
<1>1. /\ current \in Tasks /\ stack = [t \in Tasks |-> <<>>]
      /\ list = [next |-> [n \in Nodes |-> n], prev |-> [n \in Nodes |-> n]]
      /\ expire_jiffies = [n \in Nodes |-> IF n = timerList THEN Never ELSE 0]
      /\ pending = [t \in Timers |-> 0]
      /\ jiffies = 0 /\ softirq_status = FALSE /\ caught = FALSE
  BY DEF Init
<1>2. Never \in 0 .. Never /\ 0 \in 0 .. Never /\ 0 \in 0 .. MaxJiffies
  BY DEF Never
<1>3. expire_jiffies \in [Nodes -> 0 .. Never] /\ pending \in [Timers -> Int]
  BY <1>1, <1>2
<1>4. \A t \in Tasks : DOMAIN stack[t] = {}
  BY <1>1
<1>5. list \in [next : [Nodes -> Nodes], prev : [Nodes -> Nodes]]
  BY <1>1
<1>6. <<>> \in Seq(Calls)
  OBVIOUS
<1>7. stack \in [Tasks -> Seq(Calls)]
  BY <1>1, <1>6
<1>8. TypeOK
  BY <1>1, <1>2, <1>3, <1>4, <1>5 DEF TypeOK
<1>9. QED
  BY <1>1, <1>7, <1>8 DEF NestedInv

LEMMA NestedNext ==
  ASSUME NestedInv, [Next]_vars
  PROVE  NestedInv'
<1>1. /\ current \in Tasks /\ stack \in [Tasks -> Seq(Calls)] /\ list \in Lists
      /\ jiffies \in 0 .. MaxJiffies /\ expire_jiffies \in [Nodes -> 0 .. Never]
      /\ softirq_status \in BOOLEAN /\ pending \in [Timers -> Int]
      /\ caught \in BOOLEAN
      /\ softirq_status => Serving(current)
  BY DEF NestedInv, TypeOK, Lists
<1>2. ASSUME current' \in Tasks, stack' \in [Tasks -> Seq(Calls)], list' \in Lists,
             jiffies' \in 0 .. MaxJiffies, expire_jiffies' \in [Nodes -> 0 .. Never],
             softirq_status' \in BOOLEAN, pending' \in [Timers -> Int],
             caught' \in BOOLEAN, softirq_status' => Serving(current)'
      PROVE  NestedInv'
  <2>1. \A t \in Tasks : \A i \in DOMAIN stack'[t] :
          stack'[t][i] \in [at : SoftirqPoints \cup AddPoints,
                            tmp : Nodes, new : Nodes]
    BY <1>2, CallsTyped
  <2>2. QED
    BY <1>2, <2>1 DEF NestedInv, TypeOK, Lists, Never
(* What a call does by going on: Serving once it stands in do_softirq, and *)
(* as before when it is an add_timer.                                      *)
<1>3. ASSUME stack[current] # <<>>, NEW c \in Calls, Goto(c), current' = current
      PROVE  /\ stack' \in [Tasks -> Seq(Calls)]
             /\ c.at \in SoftirqPoints => Serving(current)'
             /\ InAdd /\ Serving(current) => Serving(current)'
  <2> DEFINE q == stack[current]
             below == SubSeq(q, 1, Len(q) - 1)
             moved == Append(below, c)
  <2>1. /\ moved \in Seq(Calls)
        /\ \A i \in DOMAIN q : i # Len(q) => i \in DOMAIN moved /\ moved[i] = q[i]
        /\ \E i \in DOMAIN moved : moved[i] = c
    <3>1. q \in Seq(Calls) /\ q # <<>>
      BY <1>1, <1>3
    <3> HIDE DEF q
    <3>2. below = SubSeq(q, 1, Len(q) - 1) /\ moved = Append(below, c)
      OBVIOUS
    <3> HIDE DEF below, moved
    <3>3. /\ Len(q) \in DOMAIN q /\ below \in Seq(Calls) /\ moved \in Seq(Calls)
          /\ \A i \in DOMAIN q : i # Len(q) =>
               /\ i \in DOMAIN below /\ below[i] = q[i]
               /\ i \in DOMAIN moved /\ moved[i] = q[i]
          /\ \E i \in DOMAIN moved : moved[i] = c
      <4>1. c \in Calls
        BY <1>3
      <4>2. QED
        BY <3>1, <3>2, <4>1, MovesOnTop
    <3>4. QED
      BY <3>3
  <2>2. stack' = [stack EXCEPT ![current] = moved]
    BY <1>3 DEF Goto, Below
  <2> HIDE DEF moved, below
  <2>3. stack' \in [Tasks -> Seq(Calls)] /\ stack'[current'] = moved
    BY <1>1, <1>3, <2>1, <2>2
  <2>4. c.at \in SoftirqPoints => Serving(current)'
    BY <2>1, <2>3 DEF Serving
  <2>5. ASSUME InAdd, Serving(current) PROVE Serving(current)'
    <3>1. PICK i \in DOMAIN stack[current] : stack[current][i].at \in SoftirqPoints
      BY <2>5 DEF Serving
    <3>2. i # Len(stack[current])
      BY <2>5, <3>1 DEF InAdd, Top, AddPoints, SoftirqPoints
    <3>3. QED
      BY <2>1, <2>3, <3>1, <3>2 DEF Serving
  <2>6. QED
    BY <2>3, <2>4, <2>5
<1>4. ASSUME stack[current] # <<>> PROVE Top \in Calls
  <2>1. \A q \in Seq(Calls) : q # <<>> => q[Len(q)] \in Calls
    OBVIOUS
  <2>2. QED
    BY <1>1, <1>4, <2>1 DEF Top
<1>5. ASSUME NEW status \in BOOLEAN, ret_from_intr(status), softirq_status' = status,
             jiffies' \in 0 .. MaxJiffies, caught' \in BOOLEAN,
             UNCHANGED <<list, expire_jiffies, pending>>
      PROVE  NestedInv'
  <2>1. CASE /\ status
             /\ stack' = [stack EXCEPT ![current] =
                            Append(@, Call("loop", timerList, timerList))]
             /\ UNCHANGED current
    <3> DEFINE c == Call("loop", timerList, timerList)
               q == Append(stack[current], c)
    <3>1. c \in Calls /\ c.at \in SoftirqPoints
      BY DEF Call, Calls, SoftirqPoints, Nodes
    <3> HIDE DEF c
    <3>2. q \in Seq(Calls) /\ \E i \in DOMAIN q : q[i] = c
      <4>1. stack[current] \in Seq(Calls)
        BY <1>1
      <4>2. /\ q \in Seq(Calls) /\ Len(q) = Len(stack[current]) + 1
            /\ q[Len(stack[current]) + 1] = c
        BY <3>1, <4>1, AppendProperties
      <4> HIDE DEF q
      <4>3. Len(q) \in DOMAIN q
        BY <4>1, <4>2
      <4>4. QED
        BY <4>2, <4>3
    <3>3. stack' = [stack EXCEPT ![current] = q]
      BY <2>1 DEF c
    <3> HIDE DEF q
    <3>4. stack' \in [Tasks -> Seq(Calls)] /\ stack'[current'] = q
      BY <1>1, <2>1, <3>2, <3>3
    <3>5. Serving(current)'
      BY <3>1, <3>2, <3>4 DEF Serving
    <3>6. QED
      BY <1>1, <1>2, <1>5, <2>1, <3>4, <3>5
  <2>2. CASE ~status /\ current' \in Tasks /\ UNCHANGED stack
    BY <1>1, <1>2, <1>5, <2>2
  <2>3. QED
    BY <1>5, <2>1, <2>2 DEF ret_from_intr
<1>6. CASE HPET_handler
  <2> DEFINE due == expire_jiffies[list.next[timerList]] <= Ticked
  <2>1. /\ ret_from_intr(softirq_status \/ due) /\ softirq_status' = (softirq_status \/ due)
        /\ jiffies' = Ticked /\ caught' = (caught \/ Overtaken)
        /\ UNCHANGED <<list, expire_jiffies, pending>>
    BY <1>6 DEF HPET_handler
  <2>2. (softirq_status \/ due) \in BOOLEAN /\ jiffies' \in 0 .. MaxJiffies
        /\ caught' \in BOOLEAN
    BY <1>1, <2>1 DEF Ticked
  <2> HIDE DEF due
  <2>3. QED
    BY <1>5, <2>1, <2>2
<1>7. CASE OtherInterrupt
  <2>1. /\ ret_from_intr(softirq_status) /\ softirq_status' = softirq_status
        /\ UNCHANGED <<jiffies, list, expire_jiffies, pending>>
        /\ caught' = (caught \/ Overtaken)
    BY <1>7 DEF OtherInterrupt
  <2>2. caught' \in BOOLEAN
    BY <1>1, <2>1
  <2>3. QED
    BY <1>1, <1>5, <2>1, <2>2
<1>8. CASE Serve \/ Clear
  <2>1. PICK p \in {"loop", "first"} : Goto([Top EXCEPT !.at = p])
    BY <1>8 DEF Serve, Clear
  <2>2. /\ stack[current] # <<>> /\ current' = current /\ softirq_status' \in BOOLEAN
        /\ UNCHANGED <<jiffies, list, expire_jiffies, pending, caught>>
    BY <1>1, <1>8 DEF Serve, Clear, InSoftirq
  <2> DEFINE c == [Top EXCEPT !.at = p]
  <2>3. c \in Calls /\ c.at \in SoftirqPoints
    BY <1>4, <2>2 DEF Calls, SoftirqPoints
  <2> HIDE DEF c
  <2>4. stack' \in [Tasks -> Seq(Calls)] /\ Serving(current)'
    BY <1>3, <2>1, <2>2, <2>3 DEF c
  <2>5. QED
    BY <1>1, <1>2, <2>2, <2>4
<1>9. CASE Return
  <2>1. /\ stack[current] # <<>> /\ ~softirq_status /\ current' \in Tasks
        /\ stack' = [stack EXCEPT ![current] = Below]
        /\ UNCHANGED <<jiffies, list, expire_jiffies, softirq_status, pending, caught>>
    BY <1>9 DEF Return, InSoftirq
  <2>2. Below \in Seq(Calls)
    <3>1. PICK c : c \in Calls
      BY <1>4, <2>1
    <3>2. QED
      BY <1>1, <2>1, <3>1, MovesOnTop DEF Below
  <2>3. stack' \in [Tasks -> Seq(Calls)]
    BY <1>1, <2>1, <2>2
  <2>4. QED
    BY <1>1, <1>2, <2>1, <2>3
<1>10. CASE First \/ Check \/ Delete \/ Fire
  <2>1. /\ stack[current] # <<>> /\ current' = current /\ Top \in Calls
        /\ UNCHANGED <<jiffies, expire_jiffies, softirq_status, caught>>
    BY <1>4, <1>10 DEF First, Check, Delete, Fire, InSoftirq
  <2>2. PICK c \in Calls : Goto(c) /\ c.at \in SoftirqPoints
    <3>1. CASE First
      <4>1. list.next[timerList] \in Nodes
        BY <1>1 DEF Lists, Nodes
      <4>2. [Top EXCEPT !.at = "check", !.tmp = list.next[timerList]] \in Calls
        BY <2>1, <4>1 DEF Calls, SoftirqPoints
      <4>3. [Top EXCEPT !.at = "check", !.tmp = list.next[timerList]].at = "check"
        BY <2>1 DEF Calls
      <4>4. QED
        BY <3>1, <4>2, <4>3 DEF First, SoftirqPoints
    <3>2. CASE Check \/ Delete \/ Fire
      <4>1. PICK p \in SoftirqPoints : Goto([Top EXCEPT !.at = p])
        <5>1. CASE Check
          <6>1. PICK due \in BOOLEAN :
                  Goto([Top EXCEPT !.at = IF due THEN "del" ELSE "clear"])
            BY <5>1 DEF Check
          <6>2. (IF due THEN "del" ELSE "clear") \in SoftirqPoints
            BY DEF SoftirqPoints
          <6>3. QED
            BY <6>1, <6>2
        <5>2. CASE Delete
          BY <5>2 DEF Delete, SoftirqPoints
        <5>3. CASE Fire
          BY <5>3 DEF Fire, SoftirqPoints
        <5>4. QED
          BY <3>2, <5>1, <5>2, <5>3
      <4>2. [Top EXCEPT !.at = p] \in Calls /\ [Top EXCEPT !.at = p].at = p
        BY <2>1 DEF Calls
      <4>3. QED
        BY <4>1, <4>2
    <3>3. QED
      BY <1>10, <3>1, <3>2
  <2>3. stack' \in [Tasks -> Seq(Calls)] /\ Serving(current)'
    BY <1>3, <2>1, <2>2
  <2>4. Top.tmp \in Nodes
    BY <2>1 DEF Calls
  <2>5. list' \in Lists
    <3>1. CASE Delete
      BY <1>1, <2>4, <3>1, ListDelTyped DEF Delete
    <3>2. CASE First \/ Check \/ Fire
      BY <1>1, <3>2 DEF First, Check, Fire
    <3>3. QED
      BY <1>10, <3>1, <3>2
  <2>6. pending' \in [Timers -> Int]
    <3>1. CASE Fire
      <4>1. pending' = [pending EXCEPT ![Top.tmp] = pending[Top.tmp] - 1]
        BY <3>1 DEF Fire
      <4>2. CASE Top.tmp \in Timers
        BY <1>1, <4>1, <4>2
      <4>3. CASE Top.tmp \notin Timers
        BY <1>1, <4>1, <4>3
      <4>4. QED
        BY <4>2, <4>3
    <3>2. CASE First \/ Check \/ Delete
      BY <1>1, <3>2 DEF First, Check, Delete
    <3>3. QED
      BY <1>10, <3>1, <3>2
  <2>7. QED
    BY <1>1, <1>2, <2>1, <2>3, <2>5, <2>6
<1>11. CASE Walk
  <2>1. /\ stack[current] # <<>> /\ InAdd /\ current' = current /\ Top \in Calls
        /\ UNCHANGED <<jiffies, list, expire_jiffies, softirq_status, pending, caught>>
    BY <1>4, <1>11 DEF Walk, InAdd
  <2>2. PICK c \in Calls : Goto(c)
    <3>1. /\ [Top EXCEPT !.tmp = list.next[Top.tmp]] \in Calls
          /\ [Top EXCEPT !.at = "link"] \in Calls
      BY <1>1, <2>1 DEF Calls, Lists, AddPoints
    <3>2. Goto([Top EXCEPT !.tmp = list.next[@]]) =>
            Goto([Top EXCEPT !.tmp = list.next[Top.tmp]])
      BY DEF Goto
    <3>3. QED
      BY <1>11, <3>1, <3>2 DEF Walk
  <2>3. /\ stack' \in [Tasks -> Seq(Calls)]
        /\ Serving(current) => Serving(current)'
    BY <1>3, <2>1, <2>2
  <2>4. QED
    BY <1>1, <1>2, <2>1, <2>3
<1>12. CASE Link
  <2>1. /\ stack[current] # <<>> /\ InAdd /\ current' = current /\ Top \in Calls
        /\ stack' = [stack EXCEPT ![current] = Below]
        /\ list' = list_add_to_before(list, Top.tmp, Top.new)
        /\ pending' = [pending EXCEPT ![Top.new] = @ + 1]
        /\ UNCHANGED <<jiffies, expire_jiffies, softirq_status, caught>>
    BY <1>4, <1>12 DEF Link, InAdd
  <2>2. /\ Below \in Seq(Calls)
        /\ \A i \in DOMAIN stack[current] : i # Len(stack[current]) =>
             i \in DOMAIN Below /\ Below[i] = stack[current][i]
    BY <1>1, <2>1, MovesOnTop DEF Below
  <2>3. stack' \in [Tasks -> Seq(Calls)] /\ stack'[current'] = Below
    BY <1>1, <2>1, <2>2
  <2>4. Serving(current) => Serving(current)'
    <3>1. SUFFICES ASSUME NEW i \in DOMAIN stack[current],
                          stack[current][i].at \in SoftirqPoints
                   PROVE  Serving(current)'
      BY DEF Serving
    <3>2. i # Len(stack[current])
      BY <2>1, <3>1 DEF InAdd, Top, AddPoints, SoftirqPoints
    <3>3. QED
      BY <2>2, <2>3, <3>1, <3>2 DEF Serving
  <2>5. list' \in Lists
    BY <1>1, <2>1, ListAddTyped DEF Calls
  <2>6. pending' \in [Timers -> Int]
    <3>1. CASE Top.new \in Timers
      BY <1>1, <2>1, <3>1
    <3>2. CASE Top.new \notin Timers
      BY <1>1, <2>1, <3>2
    <3>3. QED
      BY <3>1, <3>2
  <2>7. QED
    BY <1>1, <1>2, <2>1, <2>3, <2>4, <2>5, <2>6
<1>13. CASE \E new \in Timers, expire \in jiffies .. MaxJiffies :
              AddTimer(new, expire)
  <2>1. PICK new \in Timers, expire \in Int :
          /\ expire \in jiffies .. MaxJiffies
          /\ AddTimer(new, expire)
    BY <1>13
  <2> DEFINE c == Call(IF list_is_empty(list, timerList) THEN "link" ELSE "walk",
                       list.next[timerList], new)
  <2>2. /\ stack[current] = <<>> /\ current' = current
        /\ expire_jiffies' = [expire_jiffies EXCEPT ![new] = expire]
        /\ list' = list_init(list, new)
        /\ stack' = [stack EXCEPT ![current] = <<c>>]
        /\ UNCHANGED <<jiffies, softirq_status, pending, caught>>
    BY <2>1 DEF AddTimer
  <2>3. c \in Calls
    BY <1>1 DEF c, Call, Calls, AddPoints, Nodes, Lists
  <2> HIDE DEF c
  <2>4. stack' \in [Tasks -> Seq(Calls)]
    <3>1. <<c>> \in Seq(Calls)
      BY <2>3
    <3>2. QED
      BY <1>1, <2>2, <3>1
  <2>5. ~softirq_status
    BY <1>1, <2>2 DEF Serving
  <2>6. list' \in Lists
    BY <1>1, <2>2, ListInit DEF Nodes
  <2>7. expire_jiffies' \in [Nodes -> 0 .. Never]
    <3>1. expire \in 0 .. Never
      BY <1>1, <2>1 DEF Never
    <3>2. QED
      BY <1>1, <2>2, <3>1
  <2>8. QED
    BY <1>1, <1>2, <2>2, <2>4, <2>5, <2>6, <2>7
<1>14. CASE UNCHANGED vars
  BY <1>1, <1>2, <1>14 DEF vars, Serving
<1>15. QED
  BY <1>6, <1>7, <1>8, <1>9, <1>10, <1>11, <1>12, <1>13, <1>14 DEF Next, CallStep

(* Whatever interrupts nest, and whatever tasks the inner ones switch to,  *)
(* no task code runs with a soft interrupt pending: ret_from_intr serves   *)
(* before it considers a switch, and do_softirq does not return before the *)
(* bit is clear (idt/entry.S, softirq.c).                                  *)
THEOREM RaisesAreServed == Spec => [](TypeOK /\ ServedBeforeTaskCode)
<1>1. Init => NestedInv
  BY NestedInit
<1>2. NestedInv /\ [Next]_vars => NestedInv'
  BY NestedNext
<1>3. NestedInv => TypeOK /\ ServedBeforeTaskCode
  <2>1. SUFFICES ASSUME NestedInv PROVE ServedBeforeTaskCode
    BY DEF NestedInv
  <2>2. stack[current] \in Seq(Calls)
    <3>1. current \in Tasks /\ stack \in [Tasks -> Seq(Calls)]
      BY <2>1 DEF NestedInv, TypeOK
    <3>2. QED
      BY <3>1
  <2>3. Nesting(current) = 0 <=> ~Serving(current)
    BY <2>2, CountsTheOpen DEF Nesting, Serving
  <2>4. softirq_status => Serving(current)
    BY <2>1 DEF NestedInv
  <2>5. QED
    BY <2>3, <2>4 DEF ServedBeforeTaskCode
<1>4. QED
  BY <1>1, <1>2, <1>3, PTL DEF Spec


-----------------------------------------------------------------------------
(***************************************************************************)
(* The inductive invariant, up to the first interrupt that overtakes a     *)
(* call.  The circle is at every step the links of some sequence s of      *)
(* timers that is ordered by expiry and holds the timers that are added    *)
(* and have not run, but for those some do_timer, interrupted or not, has  *)
(* taken off; these are due, and nobody else has taken them.  Only the     *)
(* call on top of the running task holds a pointer of the list, which is a *)
(* place of s.                                                             *)
(***************************************************************************)
At(p) == stack[current] # <<>> /\ Top.at = p

\* The i-th call on the stack of a task has taken a timer off the list.
Takes(t, i, timer) ==
  i \in DOMAIN stack[t] /\ stack[t][i].at = "func" /\ stack[t][i].tmp = timer

Bounded ==
  /\ expire_jiffies[timerList] = Never
  /\ pending \in [Timers -> 0 .. 1]

Settled ==
  \A t \in Tasks : \A i \in DOMAIN stack[t] :
    stack[t][i].at \in ReadPoints => t = current /\ i = Len(stack[t])

TakenOnce ==
  /\ \A t \in Tasks, i \in Nat, x \in Nodes :
       Takes(t, i, x) => x \in Timers /\ expire_jiffies[x] <= jiffies
  /\ \A t, u \in Tasks, i, j \in Nat, x \in Nodes :
       Takes(t, i, x) /\ Takes(u, j, x) => t = u /\ i = j

Holds(s) ==
  /\ Linked(list, s) /\ Distinct(s) /\ Sorted(s)
  /\ \A t \in Timers : pending[t] = 1 <=> t \in Elements(s) \/ t \in Taken
  /\ \A t \in Taken : /\ t \notin Elements(s)
                      /\ \A u \in Elements(s) : expire_jiffies[t] <= expire_jiffies[u]

FiresFirst(s) ==
  /\ At("check") => Top.tmp = Node(s, 1)
  /\ At("del") => s # <<>> /\ Top.tmp = s[1] /\ expire_jiffies[s[1]] <= jiffies

Between(s, k) ==
  /\ Top.tmp = Node(s, k)
  /\ \A j \in 1 .. Len(s) :
       j < k => expire_jiffies[s[j]] <= expire_jiffies[Top.new]
  /\ At("link") /\ k <= Len(s) =>
       expire_jiffies[Top.new] <= expire_jiffies[s[k]]

AddsInOrder(s) ==
  InAdd => /\ Top.new \in Timers \ (Elements(s) \cup Taken)
           /\ expire_jiffies[Top.new] < Never
           /\ \A t \in Taken : expire_jiffies[t] <= expire_jiffies[Top.new]
           /\ \E k \in 1 .. Len(s) + 1 : Between(s, k)

TimersQueued ==
  \E s \in Seq(Timers) : Holds(s) /\ FiresFirst(s) /\ AddsInOrder(s)

Orderly == Bounded /\ Settled /\ TakenOnce /\ TimersQueued

TInv == NestedInv /\ (~caught => Orderly)

-----------------------------------------------------------------------------
(* A stack whose top call is replaced, and one whose top call is gone.     *)
LEMMA TopGone ==
  ASSUME NEW q \in Seq(Calls), q # <<>>, NEW below,
         below = SubSeq(q, 1, Len(q) - 1)
  PROVE  /\ Len(q) \in Nat /\ Len(q) >= 1
         /\ below \in Seq(Calls) /\ Len(below) = Len(q) - 1
         /\ DOMAIN below = 1 .. Len(q) - 1
         /\ \A i \in 1 .. Len(q) - 1 : below[i] = q[i]
<1>1. \A p \in Seq(Calls) :
        /\ Len(p) \in Nat /\ DOMAIN p = 1 .. Len(p)
        /\ p # <<>> => Len(p) >= 1
  OBVIOUS
<1>2. Len(q) \in Nat /\ Len(q) >= 1 /\ DOMAIN q = 1 .. Len(q)
  BY <1>1
<1>3. below \in Seq(Calls) /\ Len(below) = Len(q) - 1
      /\ \A i \in 1 .. Len(q) - 1 : below[i] = q[i]
  BY <1>2
<1>4. DOMAIN below = 1 .. Len(q) - 1
  BY <1>1, <1>3
<1>5. QED
  BY <1>2, <1>3, <1>4

Replaced(moved, q, c) ==
  /\ moved \in Seq(Calls) /\ moved # <<>> /\ Len(moved) = Len(q)
  /\ DOMAIN moved = 1 .. Len(q)
  /\ moved[Len(q)] = c
  /\ \A i \in 1 .. Len(q) : i # Len(q) => moved[i] = q[i]

LEMMA TopReplaced ==
  ASSUME NEW q \in Seq(Calls), q # <<>>, NEW c \in Calls, NEW moved,
         moved = Append(SubSeq(q, 1, Len(q) - 1), c)
  PROVE  Replaced(moved, q, c)
<1>1. PICK below : below = SubSeq(q, 1, Len(q) - 1)
  OBVIOUS
<1>2. /\ Len(q) \in Nat /\ Len(q) >= 1
      /\ below \in Seq(Calls) /\ Len(below) = Len(q) - 1
      /\ \A i \in 1 .. Len(q) - 1 : below[i] = q[i]
  BY <1>1, TopGone
<1>3. moved = Append(below, c)
  BY <1>1
<1>4. /\ moved \in Seq(Calls) /\ Len(moved) = Len(below) + 1
      /\ \A i \in 1 .. Len(below) : moved[i] = below[i]
      /\ moved[Len(below) + 1] = c
  BY <1>2, <1>3, AppendProperties
<1>5. Len(moved) = Len(q) /\ moved[Len(q)] = c
  <2>1. Len(below) + 1 = Len(q)
    BY <1>2
  <2>2. QED
    BY <2>1, <1>4
<1>6. moved # <<>> /\ DOMAIN moved = 1 .. Len(q)
  <2>1. \A p \in Seq(Calls) : DOMAIN p = 1 .. Len(p) /\ (Len(p) # 0 => p # <<>>)
    OBVIOUS
  <2>2. QED
    BY <2>1, <1>2, <1>4, <1>5
<1>7. ASSUME NEW i \in 1 .. Len(q), i # Len(q) PROVE moved[i] = q[i]
  <2>1. i \in 1 .. Len(q) - 1 /\ i \in 1 .. Len(below)
    BY <1>2, <1>7
  <2>2. QED
    BY <2>1, <1>2, <1>4
<1>8. QED
  BY <1>4, <1>5, <1>6, <1>7 DEF Replaced

(* The top call is one of the calls of its stack.                          *)
LEMMA TheCall ==
  ASSUME NestedInv, stack[current] # <<>>
  PROVE  /\ stack[current] \in Seq(Calls) /\ current \in Tasks
         /\ Len(stack[current]) \in Nat /\ Len(stack[current]) >= 1
         /\ DOMAIN stack[current] = 1 .. Len(stack[current])
         /\ Top = stack[current][Len(stack[current])] /\ Top \in Calls
<1>1. stack[current] \in Seq(Calls) /\ current \in Tasks
  BY DEF NestedInv, TypeOK
<1>2. \A q \in Seq(Calls) : q # <<>> =>
        /\ Len(q) \in Nat /\ Len(q) >= 1 /\ DOMAIN q = 1 .. Len(q)
        /\ q[Len(q)] \in Calls
  OBVIOUS
<1>3. QED
  BY <1>1, <1>2 DEF Top

(* Who has taken a timer is on some stack.                                 *)
LEMMA TakenIs ==
  ASSUME stack \in [Tasks -> Seq(Calls)], NEW x
  PROVE  x \in Taken <=>
           x \in Timers /\ \E t \in Tasks, i \in Nat : Takes(t, i, x)
<1>1. \A t \in Tasks : DOMAIN stack[t] \subseteq Nat
  <2>1. \A q \in Seq(Calls) : DOMAIN q \subseteq Nat
    OBVIOUS
  <2>2. QED
    BY <2>1
<1>2. QED
  BY <1>1 DEF Taken, Takes

(* Where nobody takes or gives back a timer, the same ones are taken.      *)
LEMMA SameTaken ==
  ASSUME NestedInv, NestedInv', TakenOnce,
         \A t \in Tasks, i \in Nat, x \in Nodes : Takes(t, i, x)' <=> Takes(t, i, x),
         \A x \in Taken : expire_jiffies'[x] = expire_jiffies[x],
         jiffies' >= jiffies
  PROVE  TakenOnce' /\ Taken' = Taken
<1>1. /\ stack \in [Tasks -> Seq(Calls)] /\ stack' \in [Tasks -> Seq(Calls)]
      /\ expire_jiffies \in [Nodes -> 0 .. Never]
      /\ jiffies \in Nat /\ jiffies' \in Nat
  BY DEF NestedInv, TypeOK
<1>2. \A x : x \in Taken' <=>
        x \in Timers /\ \E t \in Tasks, i \in Nat : Takes(t, i, x)'
  BY <1>1, TakenIs DEF Taken, Takes
<1>3. \A x : x \in Taken' <=> x \in Taken
  BY <1>1, <1>2, TakenIs DEF Nodes
<1>4. Taken' = Taken
  BY <1>3, Zenon DEF Taken
<1>5. ASSUME NEW t \in Tasks, NEW i \in Nat, NEW x \in Nodes, Takes(t, i, x)'
      PROVE  x \in Timers /\ expire_jiffies'[x] <= jiffies'
  <2>1. Takes(t, i, x) /\ x \in Timers /\ expire_jiffies[x] <= jiffies
    BY <1>5 DEF TakenOnce
  <2>2. x \in Taken
    BY <1>1, <2>1, TakenIs
  <2>3. expire_jiffies[x] \in 0 .. Never /\ expire_jiffies'[x] = expire_jiffies[x]
    BY <1>1, <2>2
  <2>4. QED
    BY <1>1, <2>1, <2>3 DEF Never
<1>6. ASSUME NEW t \in Tasks, NEW u \in Tasks, NEW i \in Nat, NEW j \in Nat,
             NEW x \in Nodes, Takes(t, i, x)', Takes(u, j, x)'
      PROVE  t = u /\ i = j
  <2>1. Takes(t, i, x) /\ Takes(u, j, x)
    BY <1>6
  <2>2. QED
    BY <2>1, Zenon DEF TakenOnce
<1>7. TakenOnce'
  BY <1>5, <1>6, Zenon DEF TakenOnce
<1>8. QED
  BY <1>4, <1>7

(* A call that goes on: only the top of the stack is another.              *)
LEMMA CallGoes ==
  ASSUME NestedInv, Settled, stack[current] # <<>>, NEW c \in Calls, Goto(c),
         UNCHANGED current
  PROVE  /\ Settled' /\ Top' = c
         /\ \A p : At(p)' <=> c.at = p
         /\ InAdd' <=> c.at \in AddPoints
         /\ \A t \in Tasks, i \in Nat, x \in Nodes :
              Takes(t, i, x)' <=> IF t = current /\ i = Len(stack[current])
                                  THEN c.at = "func" /\ c.tmp = x
                                  ELSE Takes(t, i, x)
<1> DEFINE q == stack[current]
           moved == Append(SubSeq(q, 1, Len(q) - 1), c)
<1>1. /\ q \in Seq(Calls) /\ q # <<>> /\ current \in Tasks
      /\ Len(q) \in Nat /\ Len(q) >= 1 /\ DOMAIN q = 1 .. Len(q)
  BY TheCall
<1>2. stack' = [stack EXCEPT ![current] = moved]
  BY DEF Goto, Below
<1>3. stack \in [Tasks -> Seq(Calls)]
  BY DEF NestedInv
<1>4. \A t \in Tasks : t # current => stack'[t] = stack[t]
  BY <1>2, <1>3
<1>5. stack'[current] = moved
  BY <1>1, <1>2, <1>3
<1> HIDE DEF q, moved
<1>6. /\ moved \in Seq(Calls) /\ moved # <<>> /\ Len(moved) = Len(q)
      /\ DOMAIN moved = 1 .. Len(q) /\ moved[Len(q)] = c
      /\ \A i \in 1 .. Len(q) : i # Len(q) => moved[i] = q[i]
  <2>1. q \in Seq(Calls) /\ q # <<>>
    BY <1>1
  <2>2. moved = Append(SubSeq(q, 1, Len(q) - 1), c)
    BY DEF moved
  <2>3. Replaced(moved, q, c)
    BY <2>1, <2>2, TopReplaced, Zenon
  <2>4. QED
    BY <2>3 DEF Replaced
<1>7. DOMAIN moved = 1 .. Len(q) /\ Len(q) \in 1 .. Len(q)
  <2>1. \A n \in Nat : n >= 1 => n \in 1 .. n
    OBVIOUS
  <2>2. QED
    BY <2>1, <1>1, <1>6
<1>8. Settled'
  <2>1. SUFFICES ASSUME NEW t \in Tasks, NEW i \in DOMAIN stack'[t],
                        stack'[t][i].at \in ReadPoints
                 PROVE  t = current' /\ i = Len(stack'[t])
    BY DEF Settled
  <2>2. CASE t # current
    BY <2>1, <2>2, <1>4 DEF Settled
  <2>3. CASE t = current /\ i # Len(q)
    <3>1. i \in DOMAIN q /\ stack'[t][i] = q[i]
      BY <2>1, <2>3, <1>1, <1>5, <1>6, <1>7
    <3>2. QED
      BY <2>1, <2>3, <3>1 DEF Settled, q
  <2>4. CASE t = current /\ i = Len(q)
    BY <2>4, <1>5, <1>6
  <2>5. QED
    BY <2>2, <2>3, <2>4
<1>9. Top' = c
  BY <1>5, <1>6 DEF Top
<1>10. (\A p : At(p)' <=> c.at = p) /\ (InAdd' <=> c.at \in AddPoints)
  BY <1>5, <1>6, <1>9 DEF At, InAdd
<1>11. ASSUME NEW t \in Tasks, NEW i \in Nat, NEW x \in Nodes
       PROVE  Takes(t, i, x)' <=> IF t = current /\ i = Len(q)
                                  THEN c.at = "func" /\ c.tmp = x
                                  ELSE Takes(t, i, x)
  <2>1. CASE t # current
    BY <2>1, <1>4 DEF Takes
  <2>2. CASE t = current /\ i = Len(q)
    BY <2>2, <1>5, <1>6, <1>7 DEF Takes
  <2>3. CASE t = current /\ i # Len(q)
    <3>1. i \in DOMAIN moved <=> i \in DOMAIN q
      BY <1>1, <1>7
    <3>2. i \in DOMAIN q => moved[i] = q[i]
      BY <2>3, <1>1, <1>6
    <3>3. QED
      BY <2>3, <3>1, <3>2, <1>5 DEF Takes, q
  <2>4. QED
    BY <2>1, <2>2, <2>3
<1>12. QED
  BY <1>8, <1>9, <1>10, <1>11 DEF q

(* A call that goes on and is not about to run a timer, before or after.   *)
LEMMA CallStays ==
  ASSUME NestedInv, NestedInv', Orderly, stack[current] # <<>>,
         NEW c \in Calls, Goto(c), Top.at # "func", c.at # "func",
         UNCHANGED <<jiffies, expire_jiffies, current>>
  PROVE  /\ Settled' /\ TakenOnce' /\ Taken' = Taken /\ Top' = c
         /\ \A p : At(p)' <=> c.at = p
         /\ InAdd' <=> c.at \in AddPoints
<1>1. Settled /\ TakenOnce
  BY DEF Orderly
<1>2. /\ Settled' /\ Top' = c
      /\ \A p : At(p)' <=> c.at = p
      /\ InAdd' <=> c.at \in AddPoints
      /\ \A t \in Tasks, i \in Nat, x \in Nodes :
           Takes(t, i, x)' <=> IF t = current /\ i = Len(stack[current])
                               THEN c.at = "func" /\ c.tmp = x
                               ELSE Takes(t, i, x)
  BY <1>1, CallGoes
<1>3. \A x : ~Takes(current, Len(stack[current]), x)
  BY DEF Takes, Top
<1>4. \A t \in Tasks, i \in Nat, x \in Nodes : Takes(t, i, x)' <=> Takes(t, i, x)
  BY <1>2, <1>3
<1>5. jiffies' >= jiffies
  BY DEF NestedInv, TypeOK
<1>6. TakenOnce' /\ Taken' = Taken
  BY <1>1, <1>4, <1>5, SameTaken
<1>7. QED
  BY <1>2, <1>6

(* A call that ends, and is not about to run a timer.                      *)
LEMMA CallEnds ==
  ASSUME NestedInv, NestedInv', Orderly, stack[current] # <<>>,
         stack' = [stack EXCEPT ![current] = Below], Top.at # "func",
         UNCHANGED <<jiffies, expire_jiffies>>
  PROVE  /\ Settled' /\ TakenOnce' /\ Taken' = Taken
         /\ ~HoldsNode'
<1> DEFINE q == stack[current]
           below == SubSeq(q, 1, Len(q) - 1)
<1>1. /\ q \in Seq(Calls) /\ q # <<>> /\ current \in Tasks
      /\ Len(q) \in Nat /\ Len(q) >= 1 /\ DOMAIN q = 1 .. Len(q)
      /\ Settled /\ TakenOnce /\ current' \in Tasks
  BY TheCall DEF Orderly, NestedInv, TypeOK
<1>2. stack' = [stack EXCEPT ![current] = below]
  BY DEF Below
<1>3. stack \in [Tasks -> Seq(Calls)] /\ stack' \in [Tasks -> Seq(Calls)]
  BY DEF NestedInv
<1>4. \A t \in Tasks : t # current => stack'[t] = stack[t]
  BY <1>2, <1>3
<1>5. stack'[current] = below
  BY <1>1, <1>2, <1>3
<1> HIDE DEF q
<1>6. /\ below \in Seq(Calls) /\ Len(below) = Len(q) - 1
      /\ DOMAIN below = 1 .. Len(q) - 1
      /\ \A i \in 1 .. Len(q) - 1 : below[i] = q[i]
  BY <1>1, TopGone
<1> HIDE DEF below
<1>7. DOMAIN below = 1 .. Len(q) - 1
  BY <1>6
<1>8. \A t \in Tasks : \A i \in DOMAIN stack'[t] : stack'[t][i].at \notin ReadPoints
  <2>1. SUFFICES ASSUME NEW t \in Tasks, NEW i \in DOMAIN stack'[t]
                 PROVE  stack'[t][i].at \notin ReadPoints
    OBVIOUS
  <2>2. CASE t # current
    BY <2>1, <2>2, <1>1, <1>4 DEF Settled
  <2>3. CASE t = current
    <3>1. i \in DOMAIN q /\ i # Len(q) /\ stack'[t][i] = q[i]
      BY <2>1, <2>3, <1>1, <1>5, <1>6, <1>7
    <3>2. QED
      BY <2>3, <3>1, <1>1 DEF Settled, q
  <2>4. QED
    BY <2>2, <2>3
<1>9. Settled'
  BY <1>8 DEF Settled
<1>10. ~HoldsNode'
  <2>1. stack'[current'] # <<>> => Len(stack'[current']) \in DOMAIN stack'[current']
    <3>1. \A z \in Seq(Calls) : z # <<>> => Len(z) \in DOMAIN z
      OBVIOUS
    <3>2. QED
      BY <3>1, <1>1, <1>3
  <2>2. QED
    BY <2>1, <1>1, <1>8 DEF HoldsNode, Top
<1>11. ASSUME NEW t \in Tasks, NEW i \in Nat, NEW x \in Nodes
       PROVE  Takes(t, i, x)' <=> Takes(t, i, x)
  <2>1. CASE t # current
    BY <2>1, <1>4 DEF Takes
  <2>2. CASE t = current /\ i = Len(q)
    <3>1. i \notin DOMAIN below
      BY <2>2, <1>1, <1>7
    <3>2. q[i].at # "func"
      BY <2>2 DEF Top, q
    <3>3. QED
      BY <2>2, <3>1, <3>2, <1>5 DEF Takes, q
  <2>3. CASE t = current /\ i # Len(q)
    <3>1. i \in DOMAIN below <=> i \in DOMAIN q
      <4>1. \A n \in Nat : i # n => (i \in 1 .. n - 1 <=> i \in 1 .. n)
        OBVIOUS
      <4>2. QED
        BY <4>1, <2>3, <1>1, <1>7
    <3>2. i \in DOMAIN below => below[i] = q[i]
      BY <1>6, <1>7
    <3>3. QED
      BY <2>3, <3>1, <3>2, <1>5 DEF Takes, q
  <2>4. QED
    BY <2>1, <2>2, <2>3
<1>12. jiffies' >= jiffies
  BY DEF NestedInv, TypeOK
<1>13. TakenOnce' /\ Taken' = Taken
  BY <1>1, <1>11, <1>12, SameTaken
<1>14. QED
  BY <1>9, <1>10, <1>13

(* Nothing of what the list knows depends on anything but the pointers,    *)
(* the expiries, who is added and who is taken.                            *)
LEMMA StillHolds ==
  ASSUME NEW s \in Seq(Timers), Holds(s),
         UNCHANGED <<list, expire_jiffies, pending>>, Taken' = Taken
  PROVE  Holds(s)'
<1>1. (Linked(list, s) /\ Distinct(s) /\ Sorted(s))'
  BY DEF Holds, Linked, Distinct, Sorted, Node
<1>2. Elements(s)' = Elements(s)
  BY DEF Elements
<1>3. QED
  BY <1>1, <1>2 DEF Holds

(* A call that holds no pointer.                                           *)
LEMMA NothingToKnow ==
  ASSUME NEW s \in Seq(Timers), ~HoldsNode'
  PROVE  FiresFirst(s)' /\ AddsInOrder(s)'
  BY DEF FiresFirst, AddsInOrder, HoldsNode, At, InAdd, ReadPoints, AddPoints

LEMMA BoundedAgain ==
  ASSUME Bounded, UNCHANGED <<expire_jiffies, pending>>
  PROVE  Bounded'
  BY DEF Bounded, Never

-----------------------------------------------------------------------------
(* Interrupts that overtake nobody: the interrupted call goes on at once,  *)
(* or no call holds a pointer.                                             *)
LEMMA InterruptKeeps ==
  ASSUME NestedInv, NestedInv', Orderly, NEW status \in BOOLEAN,
         ret_from_intr(status), ~Overtaken, jiffies' >= jiffies,
         UNCHANGED <<list, expire_jiffies, pending>>
  PROVE  Orderly'
<1>1. /\ current \in Tasks /\ stack \in [Tasks -> Seq(Calls)]
      /\ Bounded /\ Settled /\ TakenOnce /\ expire_jiffies \in [Nodes -> 0 .. Never]
      /\ jiffies \in Int /\ jiffies' \in Int
  BY DEF NestedInv, TypeOK, Orderly
<1>2. PICK s \in Seq(Timers) : Holds(s) /\ FiresFirst(s) /\ AddsInOrder(s)
  BY DEF Orderly, TimersQueued
<1>3. Bounded'
  BY <1>1, BoundedAgain
<1>4. ASSUME ~HoldsNode
      PROVE  \A t \in Tasks : \A i \in DOMAIN stack[t] : stack[t][i].at \notin ReadPoints
  <2>1. SUFFICES ASSUME NEW t \in Tasks, NEW i \in DOMAIN stack[t],
                        stack[t][i].at \in ReadPoints
                 PROVE  FALSE
    OBVIOUS
  <2>2. t = current /\ i = Len(stack[t])
    BY <1>1, <2>1 DEF Settled
  <2>3. stack[current] # <<>>
    BY <2>1, <2>2
  <2>4. QED
    BY <1>4, <2>1, <2>2, <2>3 DEF HoldsNode, Top
<1>5. CASE /\ stack' = [stack EXCEPT ![current] =
                          Append(@, Call("loop", timerList, timerList))]
           /\ UNCHANGED current
  <2> DEFINE c == Call("loop", timerList, timerList)
             q == stack[current]
             more == Append(q, c)
  <2>1. c \in Calls /\ c.at = "loop"
    BY DEF Call, Calls, SoftirqPoints, Nodes
  <2>2. stack' = [stack EXCEPT ![current] = more]
    BY <1>5
  <2>3. q \in Seq(Calls) /\ \A t \in Tasks : t # current => stack'[t] = stack[t]
    BY <1>1, <2>2
  <2>4. stack'[current'] = more
    BY <1>1, <1>5, <2>2
  <2> HIDE DEF q, c
  <2>5. /\ more \in Seq(Calls) /\ Len(more) = Len(q) + 1 /\ Len(q) \in Nat
        /\ \A i \in 1 .. Len(q) : more[i] = q[i]
        /\ more[Len(q) + 1] = c
    BY <2>1, <2>3, AppendProperties
  <2> HIDE DEF more
  <2>6. /\ DOMAIN more = 1 .. Len(q) + 1 /\ more # <<>> /\ DOMAIN q = 1 .. Len(q)
        /\ more # q
    <3>1. \A p \in Seq(Calls) : DOMAIN p = 1 .. Len(p) /\ (Len(p) # 0 => p # <<>>)
      OBVIOUS
    <3>2. QED
      BY <3>1, <2>3, <2>5
  <2>7. ~HoldsNode
    <3>1. stack' # stack
      BY <2>4, <2>6, <1>5 DEF q
    <3>2. QED
      BY <3>1 DEF Overtaken
  <2>8. Top' = c
    BY <2>4, <2>5 DEF Top
  <2>9. ~HoldsNode'
    BY <2>1, <2>8 DEF HoldsNode, ReadPoints
  <2>10. Settled'
    <3>1. SUFFICES ASSUME NEW t \in Tasks, NEW i \in DOMAIN stack'[t]
                   PROVE  stack'[t][i].at \notin ReadPoints
      BY DEF Settled
    <3>2. CASE t # current
      BY <3>1, <3>2, <2>3, <2>7, <1>4
    <3>3. CASE t = current /\ i = Len(q) + 1
      BY <3>3, <1>5, <2>1, <2>4, <2>5 DEF ReadPoints
    <3>4. CASE t = current /\ i # Len(q) + 1
      <4>1. i \in 1 .. Len(q)
        BY <3>1, <3>4, <1>5, <2>4, <2>5, <2>6
      <4>2. stack'[t][i] = stack[t][i] /\ i \in DOMAIN stack[t]
        BY <4>1, <3>4, <1>5, <2>4, <2>5, <2>6 DEF q
      <4>3. QED
        BY <4>2, <2>7, <1>4
    <3>5. QED
      BY <3>2, <3>3, <3>4
  <2>11. ASSUME NEW t \in Tasks, NEW i \in Nat, NEW x \in Nodes
         PROVE  Takes(t, i, x)' <=> Takes(t, i, x)
    <3>1. CASE t # current
      BY <3>1, <2>3 DEF Takes
    <3>2. CASE t = current /\ i = Len(q) + 1
      <4>1. i \notin DOMAIN q
        BY <3>2, <2>5, <2>6
      <4>2. QED
        BY <3>2, <4>1, <1>5, <2>1, <2>4, <2>5 DEF Takes, q
    <3>3. CASE t = current /\ i # Len(q) + 1
      <4>1. i \in DOMAIN more <=> i \in DOMAIN q
        <5>1. \A n \in Nat : i # n + 1 => (i \in 1 .. n + 1 <=> i \in 1 .. n)
          OBVIOUS
        <5>2. QED
          BY <5>1, <3>3, <2>5, <2>6
      <4>2. i \in DOMAIN q => more[i] = q[i]
        BY <2>5, <2>6
      <4>3. QED
        BY <3>3, <4>1, <4>2, <1>5, <2>4 DEF Takes, q
    <3>4. QED
      BY <3>1, <3>2, <3>3
  <2>12. TakenOnce' /\ Taken' = Taken
    BY <1>1, <2>11, SameTaken
  <2>13. TimersQueued'
    BY <1>2, <2>9, <2>12, StillHolds, NothingToKnow DEF TimersQueued
  <2>14. QED
    BY <1>3, <2>10, <2>12, <2>13 DEF Orderly
<1>6. CASE current' \in Tasks /\ UNCHANGED stack
  <2>1. \A t \in Tasks, i \in Nat, x \in Nodes : Takes(t, i, x)' <=> Takes(t, i, x)
    BY <1>6 DEF Takes
  <2>2. TakenOnce' /\ Taken' = Taken
    BY <1>1, <2>1, SameTaken
  <2>3. Holds(s)'
    BY <1>2, <2>2, StillHolds
  <2>4. CASE current' = current
    <3>1. Top' = Top /\ (InAdd' <=> InAdd) /\ \A p : At(p)' <=> At(p)
      BY <1>6, <2>4 DEF Top, InAdd, At
    <3>2. Settled'
      BY <1>1, <1>6, <2>4 DEF Settled
    <3>3. FiresFirst(s)'
      <4>1. At("del") => expire_jiffies[s[1]] <= jiffies'
        <5>1. SUFFICES ASSUME At("del") PROVE expire_jiffies[s[1]] <= jiffies'
          OBVIOUS
        <5>2. s # <<>> /\ expire_jiffies[s[1]] <= jiffies
          BY <1>2, <5>1 DEF FiresFirst
        <5>3. s[1] \in Nodes
          BY <5>2 DEF Nodes
        <5>4. expire_jiffies[s[1]] \in Int
          BY <5>3, <1>1 DEF Never
        <5>5. QED
          BY <5>2, <5>4, <1>1
      <4>2. QED
        BY <1>2, <3>1, <4>1 DEF FiresFirst, Node
    <3>4. AddsInOrder(s)'
      BY <1>2, <2>2, <3>1 DEF AddsInOrder, Between, Elements, Node, Never
    <3>5. QED
      BY <1>3, <2>2, <2>3, <3>2, <3>3, <3>4 DEF Orderly, TimersQueued
  <2>5. CASE current' # current
    <3>1. ~HoldsNode
      BY <2>5 DEF Overtaken
    <3>2. Settled'
      BY <1>4, <1>6, <3>1 DEF Settled
    <3>3. ~HoldsNode'
      <4>1. stack[current'] # <<>> => Len(stack[current']) \in DOMAIN stack[current']
        <5>1. \A z \in Seq(Calls) : z # <<>> => Len(z) \in DOMAIN z
          OBVIOUS
        <5>2. QED
          BY <5>1, <1>1, <1>6
      <4>2. QED
        BY <4>1, <1>4, <1>6, <3>1 DEF HoldsNode, Top
    <3>4. TimersQueued'
      BY <2>3, <3>3, NothingToKnow DEF TimersQueued
    <3>5. QED
      BY <1>3, <2>2, <3>2, <3>4 DEF Orderly
  <2>6. QED
    BY <2>4, <2>5
<1>7. QED
  BY <1>5, <1>6 DEF ret_from_intr

LEMMA HPETKeeps ==
  ASSUME NestedInv, NestedInv', Orderly, HPET_handler, ~caught'
  PROVE  Orderly'
<1> DEFINE due == expire_jiffies[list.next[timerList]] <= Ticked
<1>1. /\ UNCHANGED <<list, expire_jiffies, pending>> /\ jiffies' = Ticked
      /\ ret_from_intr(softirq_status \/ due) /\ ~Overtaken
  BY DEF HPET_handler
<1>2. jiffies' >= jiffies /\ (softirq_status \/ due) \in BOOLEAN
  BY <1>1 DEF NestedInv, TypeOK, Ticked
<1> HIDE DEF due
<1>3. QED
  BY <1>1, <1>2, InterruptKeeps

LEMMA OtherInterruptKeeps ==
  ASSUME NestedInv, NestedInv', Orderly, OtherInterrupt, ~caught'
  PROVE  Orderly'
<1>1. /\ UNCHANGED <<jiffies, list, expire_jiffies, pending>>
      /\ ret_from_intr(softirq_status) /\ ~Overtaken
  BY DEF OtherInterrupt
<1>2. jiffies' >= jiffies /\ softirq_status \in BOOLEAN
  BY <1>1 DEF NestedInv, TypeOK
<1>3. QED
  BY <1>1, <1>2, InterruptKeeps

(* The steps of do_softirq around the list change only where the call      *)
(* stands.                                                                 *)
LEMMA OutsideKeeps ==
  ASSUME NestedInv, NestedInv', Orderly, InSoftirq, Top.at \in {"loop", "clear"},
         NEW p \in {"loop", "first"}, Goto([Top EXCEPT !.at = p]),
         UNCHANGED <<jiffies, list, expire_jiffies, current, pending>>
  PROVE  Orderly'
<1> DEFINE c == [Top EXCEPT !.at = p]
<1>1. stack[current] # <<>> /\ Top.at # "func"
  BY DEF InSoftirq
<1>2. c \in Calls /\ c.at = p /\ c.at # "func"
  BY <1>1, TheCall DEF Calls, SoftirqPoints
<1> HIDE DEF c
<1>3. Goto(c)
  BY DEF c
<1>4. /\ Settled' /\ TakenOnce' /\ Taken' = Taken
      /\ \A q : At(q)' <=> c.at = q
  BY <1>1, <1>2, <1>3, CallStays
<1>5. ~HoldsNode'
  BY <1>2, <1>4 DEF HoldsNode, At, ReadPoints
<1>6. PICK s \in Seq(Timers) : Holds(s)
  BY DEF Orderly, TimersQueued
<1>7. TimersQueued'
  BY <1>4, <1>5, <1>6, StillHolds, NothingToKnow DEF TimersQueued
<1>8. Bounded'
  BY BoundedAgain DEF Orderly
<1>9. QED
  BY <1>4, <1>7, <1>8 DEF Orderly

LEMMA ServeKeeps ==
  ASSUME NestedInv, NestedInv', Orderly, Serve
  PROVE  Orderly'
  BY OutsideKeeps DEF Serve

LEMMA ClearKeeps ==
  ASSUME NestedInv, NestedInv', Orderly, Clear
  PROVE  Orderly'
  BY OutsideKeeps DEF Clear

(* When a call ends, what it stood on holds no pointer.                    *)
LEMMA ReturnKeeps ==
  ASSUME NestedInv, NestedInv', Orderly, Return
  PROVE  Orderly'
<1>1. /\ stack[current] # <<>> /\ Top.at # "func"
      /\ stack' = [stack EXCEPT ![current] = Below]
      /\ UNCHANGED <<jiffies, list, expire_jiffies, pending>>
  BY DEF Return, InSoftirq
<1>2. Settled' /\ TakenOnce' /\ Taken' = Taken /\ ~HoldsNode'
  BY <1>1, CallEnds
<1>3. PICK s \in Seq(Timers) : Holds(s)
  BY DEF Orderly, TimersQueued
<1>4. TimersQueued'
  BY <1>1, <1>2, <1>3, StillHolds, NothingToKnow DEF TimersQueued
<1>5. Bounded'
  BY <1>1, BoundedAgain DEF Orderly
<1>6. QED
  BY <1>2, <1>4, <1>5 DEF Orderly

(* do_timer looks at the first timer of the list.                          *)
LEMMA FirstKeeps ==
  ASSUME NestedInv, NestedInv', Orderly, First
  PROVE  Orderly'
<1> DEFINE c == [Top EXCEPT !.at = "check", !.tmp = list.next[timerList]]
<1>1. /\ stack[current] # <<>> /\ Top.at # "func" /\ list \in Lists /\ Goto(c)
      /\ UNCHANGED <<jiffies, list, expire_jiffies, current, pending>>
  BY DEF First, InSoftirq, NestedInv, TypeOK, Lists
<1>2. PICK s \in Seq(Timers) : Holds(s)
  BY DEF Orderly, TimersQueued
<1>3. list.next[timerList] = Node(s, 1) /\ Node(s, 1) \in Nodes
  BY <1>1, <1>2, LinkedEnds, Places DEF Holds
<1>4. c \in Calls /\ c.at = "check" /\ c.at # "func" /\ c.tmp = Node(s, 1)
  BY <1>1, <1>3, TheCall DEF Calls, SoftirqPoints
<1> HIDE DEF c
<1>5. /\ Settled' /\ TakenOnce' /\ Taken' = Taken /\ Top' = c
      /\ \A q : At(q)' <=> c.at = q
      /\ InAdd' <=> c.at \in AddPoints
  BY <1>1, <1>4, CallStays
<1>6. ~InAdd' /\ ~At("del")'
  BY <1>4, <1>5 DEF AddPoints
<1>7. Holds(s)'
  BY <1>1, <1>2, <1>5, StillHolds
<1>8. FiresFirst(s)' /\ AddsInOrder(s)'
  BY <1>4, <1>5, <1>6 DEF FiresFirst, AddsInOrder, Node
<1>9. Bounded'
  BY <1>1, BoundedAgain DEF Orderly
<1>10. QED
  BY <1>5, <1>7, <1>8, <1>9 DEF Orderly, TimersQueued

(* A timer that is due is in the list: the head expires never.             *)
LEMMA CheckKeeps ==
  ASSUME NestedInv, NestedInv', Orderly, Check
  PROVE  Orderly'
<1> DEFINE due == /\ ~list_is_empty(list, timerList)
                  /\ expire_jiffies[Top.tmp] <= jiffies
           c == [Top EXCEPT !.at = IF due THEN "del" ELSE "clear"]
<1>1. /\ stack[current] # <<>> /\ Top.at # "func" /\ At("check")
      /\ list \in Lists /\ Goto(c)
      /\ UNCHANGED <<jiffies, list, expire_jiffies, current, pending>>
  BY DEF Check, InSoftirq, NestedInv, TypeOK, At, Lists
<1>2. PICK s \in Seq(Timers) : Holds(s) /\ FiresFirst(s)
  BY DEF Orderly, TimersQueued
<1>3. Top.tmp = Node(s, 1) /\ (list_is_empty(list, timerList) <=> s = <<>>)
  BY <1>1, <1>2, LinkedEnds DEF Holds, FiresFirst
<1>4. due => s # <<>> /\ Top.tmp = s[1] /\ expire_jiffies[s[1]] <= jiffies
  <2>1. \A q \in Seq(Timers) : q # <<>> => 1 \in 1 .. Len(q)
    OBVIOUS
  <2>2. s # <<>> => Node(s, 1) = s[1]
    BY <2>1 DEF Node
  <2>3. QED
    BY <1>3, <2>2
<1>5. /\ c \in Calls /\ c.tmp = Top.tmp /\ c.at \in {"del", "clear"}
      /\ c.at = "del" =>
           s # <<>> /\ Top.tmp = s[1] /\ expire_jiffies[s[1]] <= jiffies
  <2>1. Top \in Calls
    BY <1>1, TheCall
  <2>2. CASE due
    BY <1>4, <2>1, <2>2 DEF Calls, SoftirqPoints
  <2>3. CASE ~due
    BY <2>1, <2>3 DEF Calls, SoftirqPoints
  <2>4. QED
    BY <2>2, <2>3
<1> HIDE DEF c, due
<1>6. c.at # "func" /\ c.at \notin AddPoints /\ c.at # "check"
  BY <1>5 DEF AddPoints
<1>7. /\ Settled' /\ TakenOnce' /\ Taken' = Taken /\ Top' = c
      /\ \A q : At(q)' <=> c.at = q
      /\ InAdd' <=> c.at \in AddPoints
  BY <1>1, <1>5, <1>6, CallStays
<1>8. Holds(s)'
  BY <1>1, <1>2, <1>7, StillHolds
<1>9. FiresFirst(s)' /\ AddsInOrder(s)'
  BY <1>1, <1>5, <1>6, <1>7 DEF FiresFirst, AddsInOrder
<1>10. Bounded'
  BY <1>1, BoundedAgain DEF Orderly
<1>11. QED
  BY <1>7, <1>8, <1>9, <1>10 DEF Orderly, TimersQueued

(* del_timer takes the first timer, which none of the others precedes.     *)
LEMMA DeleteKeeps ==
  ASSUME NestedInv, NestedInv', Orderly, Delete
  PROVE  Orderly'
<1> DEFINE c == [Top EXCEPT !.at = "func"]
           n == Len(stack[current])
<1>1. /\ stack[current] # <<>> /\ At("del") /\ Top.at = "del"
      /\ list \in Lists /\ Goto(c) /\ list' = list_del(list, Top.tmp)
      /\ UNCHANGED <<jiffies, expire_jiffies, current, pending>>
      /\ stack \in [Tasks -> Seq(Calls)] /\ stack' \in [Tasks -> Seq(Calls)]
      /\ Settled /\ TakenOnce /\ current \in Tasks
  BY DEF Delete, InSoftirq, NestedInv, TypeOK, At, Lists, Orderly
<1>2. PICK s \in Seq(Timers) : Holds(s) /\ FiresFirst(s)
  BY DEF Orderly, TimersQueued
<1>3. /\ s # <<>> /\ Top.tmp = s[1] /\ Distinct(s) /\ Linked(list, s)
      /\ expire_jiffies[s[1]] <= jiffies
  BY <1>1, <1>2 DEF Holds, FiresFirst
<1> DEFINE z == Tail(s)
<1>4. /\ z \in Seq(Timers) /\ Distinct(z) /\ s[1] \in Timers \ Elements(z)
      /\ Elements(s) = Elements(z) \cup {s[1]}
      /\ list' \in Lists /\ Linked(list', z)
  BY <1>1, <1>3, TakenAway, LinkedTail
<1>5. /\ Len(s) \in Nat /\ Len(s) >= 1 /\ Len(z) = Len(s) - 1
      /\ \A i \in 1 .. Len(s) - 1 : z[i] = s[i + 1]
  BY <1>3
<1>6. \A i, j \in 1 .. Len(s) : i < j => expire_jiffies[s[i]] <= expire_jiffies[s[j]]
  BY <1>2 DEF Holds, Sorted
<1> HIDE DEF z
<1>7. Sorted(z) /\ \A t \in Elements(z) : expire_jiffies[s[1]] <= expire_jiffies[t]
  <2>1. \A i \in 1 .. Len(z) : i + 1 \in 1 .. Len(s) /\ 1 < i + 1 /\ z[i] = s[i + 1]
    BY <1>5
  <2>2. ASSUME NEW i \in 1 .. Len(z), NEW j \in 1 .. Len(z), i < j
        PROVE  expire_jiffies[z[i]] <= expire_jiffies[z[j]]
    <3>1. i + 1 < j + 1
      BY <1>5, <2>2
    <3>2. QED
      BY <3>1, <2>1, <1>6
  <2>3. ASSUME NEW i \in 1 .. Len(z)
        PROVE  expire_jiffies[s[1]] <= expire_jiffies[z[i]]
    <3>1. 1 \in 1 .. Len(s)
      BY <1>5
    <3>2. QED
      BY <3>1, <2>1, <1>6
  <2>4. QED
    BY <2>2, <2>3 DEF Sorted, Elements
<1>8. c \in Calls /\ c.at = "func" /\ c.tmp = s[1]
  BY <1>1, <1>3, TheCall DEF Calls, SoftirqPoints
<1> HIDE DEF c
<1>9. /\ Settled' /\ Top' = c
      /\ \A p : At(p)' <=> c.at = p
      /\ InAdd' <=> c.at \in AddPoints
      /\ \A t \in Tasks, i \in Nat, x \in Nodes :
           Takes(t, i, x)' <=> IF t = current /\ i = n
                               THEN c.at = "func" /\ c.tmp = x
                               ELSE Takes(t, i, x)
  BY <1>1, <1>8, CallGoes
<1>10. n \in Nat /\ s[1] \in Nodes /\ \A x : ~Takes(current, n, x)
  <2>1. \A x : ~Takes(current, n, x)
    BY <1>1 DEF Takes, Top
  <2>2. QED
    BY <1>1, <1>4, <2>1, TheCall DEF Nodes
<1> HIDE DEF n
<1>11. s[1] \notin Taken
  <2>1. s[1] \in Elements(s)
    BY <1>4
  <2>2. QED
    BY <1>2, <2>1 DEF Holds
<1>12. \A t \in Tasks, i \in Nat : ~Takes(t, i, s[1])
  BY <1>1, <1>4, <1>11, TakenIs
<1>13. ASSUME NEW t \in Tasks, NEW i \in Nat, NEW x \in Nodes
       PROVE  Takes(t, i, x)' <=> Takes(t, i, x) \/ (t = current /\ i = n /\ x = s[1])
  BY <1>8, <1>9, <1>10
<1>14. Taken' = Taken \cup {s[1]}
  <2>1. \A x : x \in Taken' <=>
          x \in Timers /\ \E t \in Tasks, i \in Nat : Takes(t, i, x)'
    BY <1>1, TakenIs DEF Taken, Takes
  <2>2. ASSUME NEW x \in Timers
        PROVE  x \in Taken' <=> x \in Taken \/ x = s[1]
    <3>1. x \in Nodes
      BY DEF Nodes
    <3>2. x \in Taken <=> \E t \in Tasks, i \in Nat : Takes(t, i, x)
      BY <1>1, TakenIs
    <3>3. CASE x = s[1]
      BY <3>1, <3>3, <2>1, <1>1, <1>10, <1>13
    <3>4. CASE x # s[1]
      BY <3>1, <3>2, <3>4, <2>1, <1>13
    <3>5. QED
      BY <3>3, <3>4
  <2>3. Taken' \subseteq Timers /\ Taken \subseteq Timers
    BY DEF Taken
  <2>4. QED
    BY <1>4, <2>2, <2>3
<1>15. TakenOnce'
  <2>1. ASSUME NEW t \in Tasks, NEW i \in Nat, NEW x \in Nodes, Takes(t, i, x)'
        PROVE  x \in Timers /\ expire_jiffies'[x] <= jiffies'
    <3>1. CASE x = s[1]
      BY <1>1, <1>3, <1>4, <3>1
    <3>2. CASE Takes(t, i, x)
      BY <1>1, <3>2 DEF TakenOnce
    <3>3. QED
      BY <2>1, <3>1, <3>2, <1>13
  <2>2. ASSUME NEW t \in Tasks, NEW u \in Tasks, NEW i \in Nat, NEW j \in Nat,
               NEW x \in Nodes, Takes(t, i, x)', Takes(u, j, x)'
        PROVE  t = u /\ i = j
    <3>1. CASE x = s[1]
      BY <2>2, <3>1, <1>12, <1>13
    <3>2. CASE x # s[1]
      <4>1. Takes(t, i, x) /\ Takes(u, j, x)
        BY <2>2, <3>2, <1>13
      <4>2. QED
        BY <4>1, <1>1, Zenon DEF TakenOnce
    <3>3. QED
      BY <3>1, <3>2
  <2>3. QED
    BY <2>1, <2>2, Zenon DEF TakenOnce
<1>16. Holds(z)'
  <2>1. Sorted(z)' /\ Elements(z)' = Elements(z)
    BY <1>1, <1>7 DEF Sorted, Elements
  <2>2. ASSUME NEW t \in Timers
        PROVE  pending'[t] = 1 <=> t \in Elements(z) \/ t \in Taken'
    <3>1. pending[t] = 1 <=> t \in Elements(s) \/ t \in Taken
      BY <1>2 DEF Holds
    <3>2. QED
      BY <1>1, <1>4, <1>14, <3>1
  <2>3. ASSUME NEW t \in Taken'
        PROVE  /\ t \notin Elements(z)
               /\ \A u \in Elements(z) : expire_jiffies'[t] <= expire_jiffies'[u]
    <3>1. CASE t = s[1]
      BY <3>1, <1>1, <1>4, <1>7
    <3>2. CASE t \in Taken
      BY <3>2, <1>1, <1>2, <1>4 DEF Holds
    <3>3. QED
      BY <3>1, <3>2, <1>14
  <2>4. (Linked(list, z) /\ Distinct(z))'
    BY <1>4 DEF Linked, Distinct, Node
  <2>5. QED
    BY <2>1, <2>2, <2>3, <2>4 DEF Holds
<1>17. FiresFirst(z)' /\ AddsInOrder(z)'
  BY <1>8, <1>9 DEF FiresFirst, AddsInOrder, AddPoints
<1>18. Bounded'
  BY <1>1, BoundedAgain DEF Orderly
<1>19. QED
  BY <1>4, <1>9, <1>15, <1>16, <1>17, <1>18 DEF Orderly, TimersQueued

(* The timer that runs is one that was added and is not in the list, and   *)
(* nobody else is about to run it.                                         *)
LEMMA FireKeeps ==
  ASSUME NestedInv, NestedInv', Orderly, Fire
  PROVE  Orderly'
<1> DEFINE c == [Top EXCEPT !.at = "first"]
           n == Len(stack[current])
           x == Top.tmp
<1>1. /\ stack[current] # <<>> /\ At("func") /\ Top.at = "func"
      /\ Goto(c) /\ pending' = [pending EXCEPT ![x] = @ - 1]
      /\ pending \in [Timers -> 0 .. 1]
      /\ UNCHANGED <<jiffies, list, expire_jiffies, current>>
      /\ stack \in [Tasks -> Seq(Calls)] /\ stack' \in [Tasks -> Seq(Calls)]
      /\ Bounded /\ Settled /\ TakenOnce /\ current \in Tasks
  BY DEF Fire, InSoftirq, NestedInv, TypeOK, At, Orderly, Bounded
<1>2. PICK s \in Seq(Timers) : Holds(s)
  BY DEF Orderly, TimersQueued
<1>3. n \in Nat /\ x \in Nodes /\ Takes(current, n, x) /\ Top \in Calls
  <2>1. n \in 1 .. n /\ n \in Nat /\ DOMAIN stack[current] = 1 .. n
        /\ Top = stack[current][n] /\ Top \in Calls
    BY <1>1, TheCall
  <2>2. QED
    BY <1>1, <2>1 DEF Takes, Calls
<1>4. x \in Timers /\ x \in Taken
  <2>1. x \in Timers
    BY <1>1, <1>3 DEF TakenOnce
  <2>2. QED
    BY <1>1, <1>3, <2>1, TakenIs
<1>5. pending[x] = 1 /\ x \notin Elements(s)
  BY <1>2, <1>4 DEF Holds
<1>6. /\ pending' \in [Timers -> 0 .. 1] /\ pending'[x] = 0
      /\ \A t \in Timers : t # x => pending'[t] = pending[t]
  BY <1>1, <1>4, <1>5
<1>7. c \in Calls /\ c.at = "first"
  BY <1>3 DEF Calls, SoftirqPoints
<1> HIDE DEF c
<1>8. /\ Settled'
      /\ \A p : At(p)' <=> c.at = p
      /\ \A t \in Tasks, i \in Nat, y \in Nodes :
           Takes(t, i, y)' <=> IF t = current /\ i = n
                               THEN c.at = "func" /\ c.tmp = y
                               ELSE Takes(t, i, y)
  BY <1>1, <1>7, CallGoes
<1> HIDE DEF n, x
<1>9. \A t \in Tasks, i \in Nat, y \in Nodes :
        Takes(t, i, y)' <=> Takes(t, i, y) /\ ~(t = current /\ i = n)
  BY <1>7, <1>8
<1>10. \A t \in Tasks, i \in Nat : Takes(t, i, x) => t = current /\ i = n
  BY <1>1, <1>3, Zenon DEF TakenOnce
<1>11. \A y : Takes(current, n, y) => y = x
  BY <1>3 DEF Takes
<1>12. Taken' = Taken \ {x}
  <2>1. \A y : y \in Taken' <=>
          y \in Timers /\ \E t \in Tasks, i \in Nat : Takes(t, i, y)'
    BY <1>1, TakenIs DEF Taken, Takes
  <2>2. ASSUME NEW y \in Timers
        PROVE  y \in Taken' <=> y \in Taken /\ y # x
    <3>1. y \in Nodes
      BY DEF Nodes
    <3>2. y \in Taken <=> \E t \in Tasks, i \in Nat : Takes(t, i, y)
      BY <1>1, TakenIs
    <3>3. CASE y = x
      BY <3>1, <3>3, <2>1, <1>9, <1>10
    <3>4. CASE y # x
      BY <3>1, <3>2, <3>4, <2>1, <1>9, <1>11
    <3>5. QED
      BY <3>3, <3>4
  <2>3. Taken' \subseteq Timers /\ Taken \subseteq Timers
    BY DEF Taken
  <2>4. QED
    BY <2>2, <2>3
<1>13. TakenOnce'
  <2>1. ASSUME NEW t \in Tasks, NEW i \in Nat, NEW y \in Nodes, Takes(t, i, y)'
        PROVE  y \in Timers /\ expire_jiffies'[y] <= jiffies'
    <3>1. Takes(t, i, y)
      BY <2>1, <1>9
    <3>2. QED
      BY <3>1, <1>1 DEF TakenOnce
  <2>2. ASSUME NEW t \in Tasks, NEW u \in Tasks, NEW i \in Nat, NEW j \in Nat,
               NEW y \in Nodes, Takes(t, i, y)', Takes(u, j, y)'
        PROVE  t = u /\ i = j
    <3>1. Takes(t, i, y) /\ Takes(u, j, y)
      BY <2>2, <1>9
    <3>2. QED
      BY <3>1, <1>1, Zenon DEF TakenOnce
  <2>3. QED
    BY <2>1, <2>2, Zenon DEF TakenOnce
<1>14. ~HoldsNode'
  BY <1>7, <1>8 DEF HoldsNode, At, ReadPoints
<1>15. Holds(s)'
  <2>1. (Linked(list, s) /\ Distinct(s) /\ Sorted(s))' /\ Elements(s)' = Elements(s)
    BY <1>1, <1>2 DEF Holds, Linked, Distinct, Sorted, Node, Elements
  <2>2. ASSUME NEW t \in Timers
        PROVE  pending'[t] = 1 <=> t \in Elements(s) \/ t \in Taken'
    <3>1. pending[t] = 1 <=> t \in Elements(s) \/ t \in Taken
      BY <1>2 DEF Holds
    <3>2. QED
      BY <3>1, <1>5, <1>6, <1>12
  <2>3. ASSUME NEW t \in Taken'
        PROVE  /\ t \notin Elements(s)
               /\ \A u \in Elements(s) : expire_jiffies'[t] <= expire_jiffies'[u]
    BY <1>1, <1>2, <1>12 DEF Holds
  <2>4. QED
    BY <2>1, <2>2, <2>3 DEF Holds
<1>16. Bounded'
  BY <1>1, <1>6 DEF Bounded, Never
<1>17. QED
  BY <1>8, <1>13, <1>14, <1>15, <1>16, NothingToKnow DEF Orderly, TimersQueued

(* A task begins to add a timer that is not in the list, and that nobody   *)
(* is about to run: it expires no earlier than any that is taken.          *)
LEMMA AddTimerKeeps ==
  ASSUME NestedInv, NestedInv', Orderly, NEW new \in Timers,
         NEW expire \in jiffies .. MaxJiffies, AddTimer(new, expire)
  PROVE  Orderly'
<1> DEFINE c == Call(IF list_is_empty(list, timerList) THEN "link" ELSE "walk",
                     list.next[timerList], new)
<1>1. /\ stack[current] = <<>> /\ current \in Tasks /\ current' = current
      /\ list \in Lists /\ pending[new] = 0
      /\ expire_jiffies' = [expire_jiffies EXCEPT ![new] = expire]
      /\ list' = list_init(list, new)
      /\ stack' = [stack EXCEPT ![current] = <<c>>]
      /\ UNCHANGED <<jiffies, pending>>
      /\ expire_jiffies \in [Nodes -> 0 .. Never] /\ jiffies \in 0 .. MaxJiffies
      /\ stack \in [Tasks -> Seq(Calls)]
      /\ Bounded /\ Settled /\ TakenOnce
  BY DEF AddTimer, NestedInv, TypeOK, Lists, Orderly
<1>2. PICK s \in Seq(Timers) : Holds(s)
  BY DEF Orderly, TimersQueued
<1>3. new \in Timers \ (Elements(s) \cup Taken) /\ Linked(list, s)
  <2>1. 0 # 1
    OBVIOUS
  <2>2. QED
    BY <1>1, <1>2, <2>1 DEF Holds
<1>4. list' \in Lists /\ Linked(list', s)
  BY <1>1, <1>3, LinkedElsewhere
<1>5. /\ list.next[timerList] = Node(s, 1) /\ Node(s, 1) \in Nodes
      /\ list_is_empty(list, timerList) <=> s = <<>>
  BY <1>1, <1>3, LinkedEnds, Places
<1>6. /\ c \in Calls /\ c.at \in AddPoints /\ c.tmp = Node(s, 1) /\ c.new = new
      /\ c.at = "link" => s = <<>>
  BY <1>5 DEF c, Call, Calls, AddPoints, Nodes
<1> HIDE DEF c
<1>7. <<c>> \in Seq(Calls) /\ Len(<<c>>) = 1 /\ <<c>>[1] = c /\ <<c>> # <<>>
      /\ DOMAIN <<c>> = {1} /\ DOMAIN stack[current] = {}
  <2>1. DOMAIN <<c>> = 1 .. 1 /\ 1 .. 1 = {1}
    OBVIOUS
  <2>2. QED
    BY <1>1, <1>6, <2>1
<1>8. /\ stack'[current] = <<c>>
      /\ \A t \in Tasks : t # current => stack'[t] = stack[t]
  BY <1>1
<1>9. Top' = c
  BY <1>1, <1>7, <1>8 DEF Top
<1>10. c.at # "func" /\ c.at # "check" /\ c.at # "del"
  BY <1>6 DEF AddPoints
<1>11. InAdd' /\ ~At("check")' /\ ~At("del")' /\ (At("link")' => s = <<>>)
  BY <1>1, <1>6, <1>7, <1>8, <1>9, <1>10 DEF InAdd, At
<1>12. Settled'
  <2>1. SUFFICES ASSUME NEW t \in Tasks, NEW i \in DOMAIN stack'[t],
                        stack'[t][i].at \in ReadPoints
                 PROVE  t = current' /\ i = Len(stack'[t])
    BY DEF Settled
  <2>2. CASE t = current
    BY <2>1, <2>2, <1>1, <1>7, <1>8
  <2>3. CASE t # current
    BY <2>1, <2>3, <1>1, <1>8 DEF Settled
  <2>4. QED
    BY <2>2, <2>3
<1>13. ASSUME NEW t \in Tasks, NEW i \in Nat, NEW x \in Nodes
       PROVE  Takes(t, i, x)' <=> Takes(t, i, x)
  <2>1. CASE t = current
    BY <2>1, <1>7, <1>8, <1>10 DEF Takes
  <2>2. CASE t # current
    BY <2>2, <1>8 DEF Takes
  <2>3. QED
    BY <2>1, <2>2
<1>14. /\ expire_jiffies'[timerList] = Never
       /\ expire_jiffies'[new] = expire /\ expire < Never
       /\ \A t \in Elements(s) \cup Taken : expire_jiffies'[t] = expire_jiffies[t]
  <2>1. new \in Nodes /\ new # timerList
    BY DEF Nodes
  <2>2. expire < Never
    BY <1>1 DEF Never
  <2>3. Elements(s) \subseteq Nodes /\ Taken \subseteq Nodes
    BY Places DEF Elements, Nodes, Taken
  <2>4. QED
    BY <1>1, <1>3, <2>1, <2>2, <2>3 DEF Bounded
<1>15. TakenOnce' /\ Taken' = Taken
  <2>1. jiffies' >= jiffies /\ \A x \in Taken : expire_jiffies'[x] = expire_jiffies[x]
    BY <1>1, <1>14
  <2>2. QED
    BY <1>1, <1>13, <2>1, SameTaken
<1>16. Holds(s)'
  <2>1. Sorted(s)'
    <3>1. \A i \in 1 .. Len(s) : expire_jiffies'[s[i]] = expire_jiffies[s[i]]
      BY <1>14 DEF Elements
    <3>2. QED
      BY <1>2, <3>1 DEF Holds, Sorted
  <2>2. (Linked(list, s) /\ Distinct(s))' /\ Elements(s)' = Elements(s)
    BY <1>2, <1>4 DEF Holds, Linked, Distinct, Node, Elements
  <2>3. QED
    BY <1>1, <1>2, <1>14, <1>15, <2>1, <2>2 DEF Holds
<1>17. AddsInOrder(s)'
  <2>1. 1 \in 1 .. Len(s) + 1 /\ ~(\E j \in 1 .. Len(s) : j < 1)
        /\ (s = <<>> => ~(1 <= Len(s)))
    BY Places
  <2>2. Between(s, 1)'
    BY <1>6, <1>9, <1>11, <2>1 DEF Between, Node
  <2>3. /\ Top'.new \in Timers \ (Elements(s) \cup Taken')
        /\ expire_jiffies'[Top'.new] < Never
    BY <1>3, <1>6, <1>9, <1>14, <1>15
  <2>4. ASSUME NEW t \in Taken' PROVE expire_jiffies'[t] <= expire_jiffies'[Top'.new]
    <3>1. t \in Taken /\ t \in Nodes /\ expire_jiffies'[t] = expire_jiffies[t]
      BY <1>14, <1>15, <2>4 DEF Taken, Nodes
    <3>2. expire_jiffies[t] <= jiffies
      <4>1. \E u \in Tasks, i \in Nat : Takes(u, i, t)
        BY <1>1, <3>1, TakenIs
      <4>2. QED
        BY <1>1, <3>1, <4>1 DEF TakenOnce
    <3>3. expire_jiffies[t] \in 0 .. Never /\ jiffies <= expire
      BY <1>1, <3>1
    <3>4. expire_jiffies[t] <= expire
      BY <3>2, <3>3, <1>1 DEF Never
    <3>5. QED
      BY <3>1, <3>4, <1>6, <1>9, <1>14
  <2>5. QED
    BY <2>1, <2>2, <2>3, <2>4 DEF AddsInOrder, Elements
<1>18. FiresFirst(s)'
  BY <1>11 DEF FiresFirst
<1>19. Bounded'
  BY <1>1, <1>14 DEF Bounded, Never
<1>20. QED
  BY <1>12, <1>15, <1>16, <1>17, <1>18, <1>19 DEF Orderly, TimersQueued

(* add_timer passes the timers that expire before the new one, and never   *)
(* the head.                                                               *)
LEMMA WalkKeeps ==
  ASSUME NestedInv, NestedInv', Orderly, Walk
  PROVE  Orderly'
<1> DEFINE passes == expire_jiffies[Top.tmp] < expire_jiffies[Top.new]
           c == IF passes THEN [Top EXCEPT !.tmp = list.next[Top.tmp]]
                          ELSE [Top EXCEPT !.at = "link"]
<1>1. /\ stack[current] # <<>> /\ current \in Tasks
      /\ InAdd /\ Top.at = "walk" /\ list \in Lists
      /\ UNCHANGED <<jiffies, list, expire_jiffies, current, pending>>
      /\ Top \in Calls
  <2>1. stack[current] # <<>>
    BY DEF Walk, InAdd
  <2>2. QED
    BY <2>1, TheCall DEF Walk, NestedInv, TypeOK, Lists
<1>2. Goto(c)
  <2>1. CASE passes
    BY <2>1, <1>1 DEF Walk, Goto
  <2>2. CASE ~passes
    BY <2>2, <1>1 DEF Walk, Goto
  <2>3. QED
    BY <2>1, <2>2
<1>3. PICK s \in Seq(Timers) : Holds(s) /\ AddsInOrder(s)
  BY DEF Orderly, TimersQueued
<1>4. /\ Linked(list, s) /\ Top.new \in Timers \ (Elements(s) \cup Taken)
      /\ expire_jiffies[Top.new] < Never
      /\ \A t \in Taken : expire_jiffies[t] <= expire_jiffies[Top.new]
  BY <1>1, <1>3 DEF Holds, AddsInOrder
<1>5. PICK k \in 1 .. Len(s) + 1 : Between(s, k)
  BY <1>1, <1>3 DEF AddsInOrder
<1>6. /\ Len(s) \in Nat /\ Top.tmp = Node(s, k)
      /\ \A j \in 1 .. Len(s) :
           j < k => expire_jiffies[s[j]] <= expire_jiffies[Top.new]
  BY <1>5, Places DEF Between
<1>7. /\ \A n \in Nodes : expire_jiffies[n] \in Int
      /\ Never \in Int /\ expire_jiffies[timerList] = Never
      /\ \A j \in 1 .. Len(s) : s[j] \in Nodes
      /\ Top.new \in Nodes
  BY <1>4, Places DEF Orderly, NestedInv, Bounded, TypeOK, Nodes, Never
<1>8. PICK m \in 1 .. Len(s) + 1 :
        /\ c.tmp = Node(s, m)
        /\ \A j \in 1 .. Len(s) :
             j < m => expire_jiffies[s[j]] <= expire_jiffies[Top.new]
        /\ c.at = "link" /\ m <= Len(s) =>
             expire_jiffies[Top.new] <= expire_jiffies[s[m]]
        /\ c \in Calls /\ c.new = Top.new /\ c.at \in AddPoints
  <2>1. CASE passes
    <3>1. k \in 1 .. Len(s) /\ Top.tmp = s[k]
      <4>1. Top.tmp # timerList
        BY <2>1, <1>4, <1>7
      <4>2. QED
        BY <4>1, <1>6 DEF Node
    <3>2. k + 1 \in 1 .. Len(s) + 1 /\ k \in 0 .. Len(s)
      BY <3>1, <1>6
    <3>3. list.next[Top.tmp] = Node(s, k + 1) /\ Node(s, k + 1) \in Nodes
      BY <1>4, <1>6, <3>2, Places DEF Linked
    <3>4. /\ c.tmp = Node(s, k + 1) /\ c \in Calls /\ c.new = Top.new
          /\ c.at = "walk"
      BY <2>1, <3>3, <1>1 DEF Calls
    <3>5. \A j \in 1 .. Len(s) :
            j < k + 1 => expire_jiffies[s[j]] <= expire_jiffies[Top.new]
      <4>1. expire_jiffies[s[k]] <= expire_jiffies[Top.new]
        BY <2>1, <3>1, <1>7
      <4>2. \A j \in 1 .. Len(s) : j < k + 1 => j < k \/ j = k
        OBVIOUS
      <4>3. QED
        BY <4>1, <4>2, <1>6
    <3>6. QED
      BY <3>2, <3>4, <3>5 DEF AddPoints
  <2>2. CASE ~passes
    <3>1. /\ c.tmp = Node(s, k) /\ c \in Calls /\ c.new = Top.new /\ c.at = "link"
      BY <2>2, <1>1, <1>6 DEF Calls, AddPoints
    <3>2. k <= Len(s) => expire_jiffies[Top.new] <= expire_jiffies[s[k]]
      <4>1. k <= Len(s) => Top.tmp = s[k] /\ k \in 1 .. Len(s)
        BY <1>6 DEF Node
      <4>2. expire_jiffies[Top.tmp] \in Int
        BY <1>1, <1>7 DEF Calls
      <4>3. QED
        BY <4>1, <4>2, <2>2, <1>7
    <3>3. QED
      BY <3>1, <3>2, <1>6 DEF AddPoints
  <2>3. QED
    BY <2>1, <2>2
<1> HIDE DEF c, passes
<1>9. /\ Settled' /\ TakenOnce' /\ Taken' = Taken /\ Top' = c
      /\ \A q : At(q)' <=> c.at = q
      /\ InAdd' <=> c.at \in AddPoints
  <2>1. Top.at # "func" /\ c.at # "func"
    BY <1>1, <1>8 DEF AddPoints
  <2>2. QED
    BY <1>1, <1>2, <1>8, <2>1, CallStays
<1>10. ~At("check")' /\ ~At("del")'
  BY <1>8, <1>9 DEF AddPoints
<1>11. Holds(s)' /\ FiresFirst(s)'
  BY <1>1, <1>3, <1>9, <1>10, StillHolds DEF FiresFirst
<1>12. Between(s, m)'
  BY <1>1, <1>8, <1>9 DEF Between, Node
<1>13. AddsInOrder(s)'
  BY <1>1, <1>4, <1>8, <1>9, <1>12 DEF AddsInOrder, Elements, Never
<1>14. Bounded'
  BY <1>1, BoundedAgain DEF Orderly
<1>15. QED
  BY <1>9, <1>11, <1>13, <1>14 DEF Orderly, TimersQueued

(* add_timer links the new timer where the order is kept.                  *)
LEMMA LinkKeeps ==
  ASSUME NestedInv, NestedInv', Orderly, Link
  PROVE  Orderly'
<1>1. /\ stack[current] # <<>> /\ current \in Tasks
      /\ InAdd /\ At("link") /\ Top.at = "link" /\ list \in Lists
      /\ list' = list_add_to_before(list, Top.tmp, Top.new)
      /\ pending' = [pending EXCEPT ![Top.new] = @ + 1]
      /\ Bounded /\ pending \in [Timers -> 0 .. 1]
      /\ stack' = [stack EXCEPT ![current] = Below]
      /\ UNCHANGED <<jiffies, expire_jiffies, current>>
  BY DEF Link, InAdd, Orderly, NestedInv, Bounded, TypeOK, At, Lists
<1>2. PICK s \in Seq(Timers) : Holds(s) /\ AddsInOrder(s)
  BY DEF Orderly, TimersQueued
<1> DEFINE new == Top.new
<1>3. /\ Linked(list, s) /\ Distinct(s) /\ new \in Timers \ Elements(s)
      /\ new \notin Taken /\ expire_jiffies[new] < Never
      /\ \A t \in Taken : expire_jiffies[t] <= expire_jiffies[new]
      /\ \A t \in Timers : pending[t] = 1 <=> t \in Elements(s) \/ t \in Taken
  BY <1>1, <1>2 DEF Holds, AddsInOrder
<1>4. PICK k \in 1 .. Len(s) + 1 : Between(s, k)
  BY <1>1, <1>2 DEF AddsInOrder
<1>5. /\ Len(s) \in Nat /\ Top.tmp = Node(s, k)
      /\ \A j \in 1 .. Len(s) :
           j < k => expire_jiffies[s[j]] <= expire_jiffies[new]
      /\ k <= Len(s) => expire_jiffies[new] <= expire_jiffies[s[k]]
  BY <1>1, <1>4, Places DEF Between
<1>6. /\ \A n \in Nodes : expire_jiffies[n] \in Int
      /\ \A j \in 1 .. Len(s) : s[j] \in Nodes
      /\ new \in Nodes
  BY <1>3, Places DEF NestedInv, TypeOK, Nodes, Never
<1> HIDE DEF new
<1>7. PICK z \in Seq(Timers) : z = InsertedAt(s, k, new)
  BY <1>3, Inserted
<1>8. /\ z \in Seq(Timers) /\ Distinct(z)
      /\ Elements(z) = Elements(s) \cup {new}
      /\ list' \in Lists /\ Linked(list', z)
  <2>1. list' = list_add_to_before(list, Node(s, k), new)
    BY <1>1, <1>5 DEF new
  <2>2. QED
    BY <1>1, <1>3, <1>7, <2>1, Inserted, LinkedInserted
<1>9. /\ Len(z) = Len(s) + 1
      /\ \A j \in 1 .. Len(s) + 1 :
           z[j] = IF j < k THEN s[j] ELSE IF j = k THEN new ELSE s[j - 1]
  BY <1>5, <1>7 DEF InsertedAt
<1>10. \A i, j \in 1 .. Len(s) : i < j => expire_jiffies[s[i]] <= expire_jiffies[s[j]]
  BY <1>2 DEF Holds, Sorted
<1>11. \A j \in 1 .. Len(s) : j >= k => expire_jiffies[new] <= expire_jiffies[s[j]]
  <2>1. SUFFICES ASSUME NEW j \in 1 .. Len(s), j >= k
                 PROVE  expire_jiffies[new] <= expire_jiffies[s[j]]
    OBVIOUS
  <2>2. k \in 1 .. Len(s) /\ expire_jiffies[new] <= expire_jiffies[s[k]]
    BY <2>1, <1>5
  <2>3. CASE j = k
    BY <2>2, <2>3
  <2>4. CASE j > k
    <3>1. expire_jiffies[s[k]] <= expire_jiffies[s[j]]
      BY <2>2, <2>4, <1>10
    <3>2. QED
      BY <3>1, <2>2, <1>6
  <2>5. QED
    BY <2>1, <2>3, <2>4, <1>5
<1>12. Sorted(z)
  <2>1. ASSUME NEW i \in 1 .. Len(s) + 1, NEW j \in 1 .. Len(s) + 1, i < j
        PROVE  expire_jiffies[z[i]] <= expire_jiffies[z[j]]
    <3>1. CASE j < k
      <4>1. i \in 1 .. Len(s) /\ j \in 1 .. Len(s) /\ i < k
        BY <3>1, <2>1, <1>5
      <4>2. z[i] = s[i] /\ z[j] = s[j]
        BY <1>9, <3>1, <4>1
      <4>3. QED
        BY <2>1, <4>1, <4>2, <1>10
    <3>2. CASE j = k
      <4>1. i \in 1 .. Len(s) /\ i < k
        BY <3>2, <2>1, <1>5
      <4>2. z[i] = s[i] /\ z[j] = new
        BY <1>9, <3>2, <4>1
      <4>3. QED
        BY <4>1, <4>2, <1>5
    <3>3. CASE j > k
      <4>1. j - 1 \in 1 .. Len(s) /\ j - 1 >= k /\ ~(j < k) /\ j # k
        BY <3>3, <2>1, <1>5
      <4>2. z[j] = s[j - 1]
        BY <1>9, <2>1, <4>1
      <4>3. CASE i < k
        <5>1. i \in 1 .. Len(s) /\ i < j - 1
          BY <4>1, <4>3, <2>1, <1>5
        <5>2. z[i] = s[i]
          BY <1>9, <2>1, <4>3
        <5>3. QED
          BY <4>1, <4>2, <5>1, <5>2, <1>10
      <4>4. CASE i = k
        <5>1. z[i] = new
          BY <1>9, <2>1, <4>4
        <5>2. QED
          BY <4>1, <4>2, <5>1, <1>11
      <4>5. CASE i > k
        <5>1. i - 1 \in 1 .. Len(s) /\ i - 1 < j - 1 /\ ~(i < k) /\ i # k
          BY <4>5, <2>1, <1>5
        <5>2. z[i] = s[i - 1]
          BY <1>9, <2>1, <5>1
        <5>3. QED
          BY <4>1, <4>2, <5>1, <5>2, <1>10
      <4>6. QED
        BY <4>3, <4>4, <4>5
    <3>4. QED
      BY <3>1, <3>2, <3>3
  <2>2. QED
    BY <1>9, <2>1 DEF Sorted
<1>13. Settled' /\ TakenOnce' /\ Taken' = Taken /\ ~HoldsNode'
  <2>1. Top.at # "func"
    BY <1>1
  <2>2. QED
    BY <1>1, <2>1, CallEnds
<1>14. /\ pending' \in [Timers -> 0 .. 1] /\ pending'[new] = 1
       /\ \A t \in Timers : t # new => pending'[t] = pending[t]
  <2>1. pending[new] = 0
    BY <1>1, <1>3
  <2>2. QED
    BY <1>1, <1>3, <2>1 DEF new
<1>15. Bounded'
  BY <1>1, <1>14 DEF Bounded, Never
<1>16. Holds(z)'
  <2>1. Sorted(z)' /\ Elements(z)' = Elements(z)
    BY <1>1, <1>12 DEF Sorted, Elements
  <2>2. ASSUME NEW t \in Timers
        PROVE  pending'[t] = 1 <=> t \in Elements(z) \/ t \in Taken'
    BY <1>3, <1>8, <1>13, <1>14
  <2>3. ASSUME NEW t \in Taken'
        PROVE  /\ t \notin Elements(z)
               /\ \A u \in Elements(z) : expire_jiffies'[t] <= expire_jiffies'[u]
    <3>1. t \in Taken /\ t \notin Elements(s) /\ t # new
      BY <2>3, <1>2, <1>3, <1>13 DEF Holds
    <3>2. \A u \in Elements(s) : expire_jiffies[t] <= expire_jiffies[u]
      BY <3>1, <1>2 DEF Holds
    <3>3. expire_jiffies[t] <= expire_jiffies[new]
      BY <3>1, <1>3
    <3>4. QED
      BY <3>1, <3>2, <3>3, <1>1, <1>8
  <2>4. (Linked(list, z) /\ Distinct(z))'
    BY <1>8 DEF Linked, Distinct, Node
  <2>5. QED
    BY <2>1, <2>2, <2>3, <2>4 DEF Holds
<1>17. QED
  BY <1>8, <1>13, <1>15, <1>16, NothingToKnow DEF Orderly, TimersQueued

-----------------------------------------------------------------------------
(* The invariant holds of the whole machine.                               *)
LEMMA TInvInit ==
  ASSUME Init
  PROVE  TInv
<1>1. /\ current \in Tasks /\ stack = [t \in Tasks |-> <<>>]
      /\ list = [next |-> [n \in Nodes |-> n], prev |-> [n \in Nodes |-> n]]
      /\ expire_jiffies = [n \in Nodes |-> IF n = timerList THEN Never ELSE 0]
      /\ pending = [t \in Timers |-> 0]
  BY DEF Init
<1>2. NestedInv
  BY NestedInit
<1>3. Bounded
  BY <1>1 DEF Bounded, Nodes
<1>4. stack[current] = <<>> /\ \A t \in Tasks : DOMAIN stack[t] = {}
  BY <1>1
<1>5. Settled /\ TakenOnce /\ Taken = {}
  BY <1>4 DEF Settled, TakenOnce, Taken, Takes
<1>6. ~InAdd /\ ~At("check") /\ ~At("del")
  BY <1>4 DEF InAdd, At
<1> DEFINE s == <<>>
<1>7. s \in Seq(Timers) /\ Len(s) = 0 /\ 1 .. Len(s) = {}
  OBVIOUS
<1> HIDE DEF s
<1>8. \A i \in Int : Node(s, i) = timerList
  BY <1>7 DEF Node
<1>9. Linked(list, s)
  BY <1>1, <1>7, <1>8 DEF Linked, Nodes
<1>10. Distinct(s) /\ Sorted(s) /\ Elements(s) = {}
  BY <1>7 DEF Distinct, Sorted, Elements
<1>11. Holds(s)
  BY <1>1, <1>5, <1>9, <1>10 DEF Holds
<1>12. FiresFirst(s) /\ AddsInOrder(s)
  BY <1>6 DEF FiresFirst, AddsInOrder
<1>13. QED
  BY <1>2, <1>3, <1>5, <1>7, <1>11, <1>12 DEF TInv, Orderly, TimersQueued

LEMMA OrderlyNext ==
  ASSUME NestedInv, NestedInv', Orderly, [Next]_vars, ~caught'
  PROVE  Orderly'
<1>1. CASE HPET_handler
  BY <1>1, HPETKeeps
<1>2. CASE OtherInterrupt
  BY <1>2, OtherInterruptKeeps
<1>3. CASE CallStep
  <2>1. CASE Serve  BY <2>1, ServeKeeps
  <2>2. CASE Return BY <2>2, ReturnKeeps
  <2>3. CASE First  BY <2>3, FirstKeeps
  <2>4. CASE Check  BY <2>4, CheckKeeps
  <2>5. CASE Delete BY <2>5, DeleteKeeps
  <2>6. CASE Fire   BY <2>6, FireKeeps
  <2>7. CASE Clear  BY <2>7, ClearKeeps
  <2>8. CASE Walk   BY <2>8, WalkKeeps
  <2>9. CASE Link   BY <2>9, LinkKeeps
  <2>10. QED
    BY <1>3, <2>1, <2>2, <2>3, <2>4, <2>5, <2>6, <2>7, <2>8, <2>9 DEF CallStep
<1>4. CASE \E new \in Timers, expire \in jiffies .. MaxJiffies :
             AddTimer(new, expire)
  BY <1>4, AddTimerKeeps
<1>5. CASE UNCHANGED vars
  <2>1. UNCHANGED <<jiffies, list, expire_jiffies, softirq_status, current, stack,
                    pending>>
    BY <1>5 DEF vars
  <2>2. Bounded' /\ Settled' /\ TakenOnce' /\ Taken' = Taken
    BY <2>1 DEF Orderly, Bounded, Settled, TakenOnce, Takes, Taken, Never
  <2>3. PICK s \in Seq(Timers) : Holds(s) /\ FiresFirst(s) /\ AddsInOrder(s)
    BY DEF Orderly, TimersQueued
  <2>4. Top' = Top /\ (InAdd' <=> InAdd) /\ \A p : At(p)' <=> At(p)
    BY <2>1 DEF Top, InAdd, At
  <2>5. Holds(s)'
    BY <2>1, <2>2, <2>3, StillHolds
  <2>6. FiresFirst(s)'
    BY <2>1, <2>3, <2>4 DEF FiresFirst, Node
  <2>7. AddsInOrder(s)'
    BY <2>1, <2>2, <2>3, <2>4 DEF AddsInOrder, Between, Elements, Node, Never
  <2>8. QED
    BY <2>2, <2>5, <2>6, <2>7 DEF Orderly, TimersQueued
<1>6. QED
  BY <1>1, <1>2, <1>3, <1>4, <1>5 DEF Next

(* Once an interrupt has overtaken a call that is never taken back.        *)
LEMMA CaughtStays ==
  ASSUME [Next]_vars, caught
  PROVE  caught'
  BY DEF Next, vars, CallStep, HPET_handler, OtherInterrupt, Serve, Return, First,
         Check, Delete, Fire, Clear, Walk, Link, AddTimer

LEMMA TInvNext ==
  ASSUME TInv, [Next]_vars
  PROVE  TInv'
<1>1. NestedInv'
  BY NestedNext DEF TInv
<1>2. ASSUME ~caught' PROVE Orderly'
  <2>1. ~caught
    BY <1>2, CaughtStays
  <2>2. QED
    BY <1>1, <1>2, <2>1, OrderlyNext DEF TInv
<1>3. QED
  BY <1>1, <1>2 DEF TInv

LEMMA TInvAlways == Spec => []TInv
<1>1. Init => TInv
  BY TInvInit
<1>2. TInv /\ [Next]_vars => TInv'
  BY TInvNext
<1>3. QED
  BY <1>1, <1>2, PTL DEF Spec

(* The function of a timer runs at most once for each add_timer, with      *)
(* interrupts nested to any depth in do_softirq and any task scheduled at  *)
(* their ends, until one overtakes a call that holds a pointer of the      *)
(* list: do_timer takes the timer out of the list before it calls the      *)
(* function, and nobody else takes it (timer.c, do_timer and add_timer).   *)
THEOREM RunsOncePerAdd == Spec => []FiresOnce
<1>1. TInv => FiresOnce
  BY DEF TInv, Orderly, Bounded, FiresOnce
<1>2. QED
  BY <1>1, TInvAlways, PTL

-----------------------------------------------------------------------------
(* What the traversal of KernelList returns, for a list of any length: the *)
(* timers of the circle and then the head.                                 *)
LEMMA Least ==
  ASSUME NEW T \in SUBSET Nat, T # {}
  PROVE  \E x \in T : \A y \in T : x <= y
<1>1. PICK x \in T : \A y \in T : <<y, x>> \notin OpToRel(<, Nat)
  BY WFMin, NatLessThanWellFounded, Zenon
<1>2. \A y, z \in Nat : y < z => <<y, z>> \in OpToRel(<, Nat)
  BY SMT DEF OpToRel
<1>3. \A y \in T : ~(y < x)
  BY <1>1, <1>2
<1>4. QED
  BY <1>3

Passed(s, k) == [i \in 1 .. (IF k < Len(s) THEN k ELSE Len(s)) + 1 |-> Node(s, i)]

LEMMA Traversal ==
  ASSUME NEW L \in Lists, NEW s \in Seq(Timers), Linked(L, s),
         NEW n \in Nat, Len(s) <= n
  PROVE  NodesFrom(L, timerList, n) = Passed(s, n)
<1> DEFINE body(g, k) ==
             IF k = 0 THEN <<L.next[timerList]>>
             ELSE IF g[k - 1][Len(g[k - 1])] = timerList THEN g[k - 1]
             ELSE Append(g[k - 1], L.next[g[k - 1][Len(g[k - 1])]])
           f == CHOOSE h : h = [k \in 0 .. n |-> body(h, k)]
<1>1. NodesFrom(L, timerList, n) = f[n]
  BY DEF NodesFrom
<1>2. /\ Len(s) \in Nat /\ Node(s, Len(s) + 1) = timerList
      /\ \A i \in 1 .. Len(s) : Node(s, i) # timerList
      /\ \A i \in Int : Node(s, i) \in Nodes
  <2>1. \A i \in 1 .. Len(s) : s[i] \in Timers /\ s[i] # timerList
    OBVIOUS
  <2>2. QED
    BY <2>1, Places DEF Node
<1>3. \A k \in 0 .. n :
        /\ Passed(s, k) \in Seq(Nodes)
        /\ Len(Passed(s, k)) = (IF k < Len(s) THEN k ELSE Len(s)) + 1
        /\ \A i \in 1 .. Len(Passed(s, k)) : Passed(s, k)[i] = Node(s, i)
  BY <1>2 DEF Passed
<1>4. body([k \in 0 .. n |-> Passed(s, k)], 0) = Passed(s, 0)
  <2>1. L.next[timerList] = Node(s, 1)
    BY LinkedEnds
  <2>2. Passed(s, 0) = <<Node(s, 1)>>
    BY <1>2 DEF Passed
  <2>3. QED
    BY <2>1, <2>2
<1>5. ASSUME NEW k \in 1 .. n, NEW g, g[k - 1] = Passed(s, k - 1)
      PROVE  body(g, k) = Passed(s, k)
  <2> DEFINE p == Passed(s, k - 1)
             m == (IF k - 1 < Len(s) THEN k - 1 ELSE Len(s)) + 1
  <2>1. /\ p \in Seq(Nodes) /\ Len(p) = m /\ m \in 1 .. Len(s) + 1
        /\ \A i \in 1 .. m : p[i] = Node(s, i)
    BY <1>2, <1>3
  <2>2. p[Len(p)] = Node(s, m)
    BY <2>1
  <2>3. CASE k - 1 >= Len(s)
    <3>1. m = Len(s) + 1 /\ Passed(s, k) = p
      BY <1>2, <2>3 DEF Passed
    <3>2. QED
      BY <1>2, <1>5, <2>2, <3>1
  <2>4. CASE k - 1 < Len(s)
    <3>1. m = k /\ Node(s, k) # timerList /\ k \in 0 .. Len(s)
      BY <1>2, <2>4
    <3>2. L.next[Node(s, k)] = Node(s, k + 1)
      BY <3>1 DEF Linked
    <3>3. body(g, k) = Append(p, Node(s, k + 1))
      BY <1>5, <2>2, <3>1, <3>2
    <3>4. /\ Passed(s, k) \in Seq(Nodes) /\ Len(Passed(s, k)) = k + 1
          /\ \A i \in 1 .. k + 1 : Passed(s, k)[i] = Node(s, i)
      <4>1. Len(Passed(s, k)) = k + 1
        BY <1>2, <1>3, <2>4
      <4>2. /\ Passed(s, k) \in Seq(Nodes)
            /\ \A i \in 1 .. Len(Passed(s, k)) : Passed(s, k)[i] = Node(s, i)
        BY <1>3
      <4>3. QED
        BY <4>1, <4>2
    <3>5. /\ Append(p, Node(s, k + 1)) \in Seq(Nodes)
          /\ Len(Append(p, Node(s, k + 1))) = k + 1
          /\ \A i \in 1 .. k + 1 : Append(p, Node(s, k + 1))[i] = Node(s, i)
      BY <1>2, <2>1, <3>1
    <3>6. Append(p, Node(s, k + 1)) = Passed(s, k)
      BY <3>4, <3>5
    <3>7. QED
      BY <3>3, <3>6
  <2>5. QED
    BY <1>2, <2>3, <2>4
<1>6. f = [k \in 0 .. n |-> body(f, k)]
  <2> DEFINE G == [k \in 0 .. n |-> Passed(s, k)]
  <2>1. ASSUME NEW k \in 0 .. n PROVE body(G, k) = G[k]
    <3>1. CASE k = 0
      BY <3>1, <1>4
    <3>2. CASE k # 0
      <4>1. k \in 1 .. n /\ k - 1 \in 0 .. n
        BY <3>2
      <4>2. G[k - 1] = Passed(s, k - 1) /\ G[k] = Passed(s, k)
        BY <4>1
      <4> HIDE DEF G, body
      <4>3. QED
        BY <4>1, <4>2, <1>5
    <3>3. QED
      BY <3>1, <3>2
  <2> HIDE DEF body
  <2>2. G = [k \in 0 .. n |-> body(G, k)]
    BY <2>1
  <2> HIDE DEF G
  <2>3. QED
    BY <2>2
<1> HIDE DEF f
<1>7. \A k \in 0 .. n : f[k] = body(f, k)
  <2> HIDE DEF body
  <2>1. QED
    BY <1>6
<1>8. \A k \in 0 .. n : f[k] = Passed(s, k)
  <2>1. SUFFICES ASSUME \E k \in 0 .. n : f[k] # Passed(s, k) PROVE FALSE
    OBVIOUS
  <2> DEFINE T == {k \in 0 .. n : f[k] # Passed(s, k)}
  <2>2. T \in SUBSET Nat /\ T # {}
    BY <2>1
  <2>3. PICK k \in T : \A y \in T : k <= y
    BY <2>2, Least
  <2>4. k \in 0 .. n /\ f[k] # Passed(s, k)
    BY <2>3
  <2>5. CASE k = 0
    <3>1. body(f, 0) = body([i \in 0 .. n |-> Passed(s, i)], 0)
      OBVIOUS
    <3>2. QED
      BY <2>4, <2>5, <3>1, <1>4, <1>7
  <2>6. CASE k # 0
    <3>1. k \in 1 .. n /\ k - 1 \in 0 .. n /\ k - 1 < k
      BY <2>4, <2>6
    <3>2. f[k - 1] = Passed(s, k - 1)
      BY <2>3, <3>1
    <3> HIDE DEF body
    <3>3. QED
      BY <2>4, <3>1, <3>2, <1>5, <1>7
  <2>7. QED
    BY <2>5, <2>6
<1>9. QED
  BY <1>1, <1>8

(* No more timers than there are: the traversal is never cut short.        *)
LEMMA FewEnough ==
  ASSUME NEW s \in Seq(Timers), Distinct(s)
  PROVE  Cardinality(Timers) \in Nat /\ Len(s) <= Cardinality(Timers)
<1>1. /\ Len(s) \in Nat /\ s \in [1 .. Len(s) -> Timers]
      /\ Cardinality(Timers) \in Nat
  BY FS_CardinalityType
<1>2. IsFiniteSet(1 .. Len(s)) /\ Cardinality(1 .. Len(s)) = Len(s)
  <2>1. 1 \in Int /\ Len(s) \in Int
    BY <1>1
  <2>2. /\ IsFiniteSet(1 .. Len(s))
        /\ Cardinality(1 .. Len(s)) = IF 1 > Len(s) THEN 0 ELSE Len(s) - 1 + 1
    BY <2>1, FS_Interval
  <2>3. QED
    BY <1>1, <2>2
<1>3. SUFFICES ASSUME Cardinality(Timers) < Cardinality(1 .. Len(s)) PROVE FALSE
  BY <1>1, <1>2
<1>4. \E x, y \in 1 .. Len(s) : x # y /\ s[x] = s[y]
  BY <1>1, <1>2, <1>3, FS_PigeonHole
<1>5. QED
  BY <1>4 DEF Distinct

(* So that what the invariant says of the links is what the traversal      *)
(* finds.                                                                  *)
LEMMA QueueIs ==
  ASSUME NestedInv, NEW s \in Seq(Timers), Holds(s)
  PROVE  /\ WellLinked(list, timerList, Cardinality(Timers))
         /\ Queued = s /\ Listed = Elements(s)
<1> DEFINE n == Cardinality(Timers)
           p == NodesFrom(list, timerList, n)
           q == ListNodes(list, timerList, n)
<1>1. list \in Lists
  BY DEF NestedInv, TypeOK, Lists
<1>3. Linked(list, s) /\ Distinct(s)
  BY DEF Holds
<1>4. n \in Nat /\ Len(s) \in Nat /\ Len(s) <= n
  BY <1>3, FewEnough
<1> HIDE DEF n
<1>5. p = Passed(s, n)
  BY <1>1, <1>3, <1>4, Traversal
<1>6. /\ p \in Seq(Nodes) /\ Len(p) = Len(s) + 1
      /\ \A i \in 1 .. Len(s) + 1 : p[i] = Node(s, i)
  <2>1. (IF n < Len(s) THEN n ELSE Len(s)) = Len(s)
    BY <1>4
  <2>2. p = [i \in 1 .. Len(s) + 1 |-> Node(s, i)]
    BY <1>5, <2>1 DEF Passed
  <2>3. \A i \in 1 .. Len(s) + 1 : Node(s, i) \in Nodes
    BY <1>4, Places
  <2>4. QED
    BY <1>4, <2>2, <2>3
<1>7. WellLinked(list, timerList, n)
  <2>1. p[Len(p)] = timerList
    BY <1>4, <1>6, Places
  <2>2. \A i \in 0 .. Len(s) : list.prev[Node(s, i + 1)] = Node(s, i)
    BY <1>3 DEF Linked
  <2>3. list.prev[p[1]] = timerList
    <3>1. 0 \in 0 .. Len(s) /\ 1 \in 1 .. Len(s) + 1 /\ 0 + 1 = 1
      BY <1>4
    <3>2. list.prev[Node(s, 1)] = Node(s, 0)
      BY <2>2, <3>1
    <3>3. QED
      BY <3>1, <3>2, <1>6, Places
  <2>4. ASSUME NEW i \in 2 .. Len(p) PROVE list.prev[p[i]] = p[i - 1]
    <3>1. /\ i \in 1 .. Len(s) + 1 /\ i - 1 \in 1 .. Len(s) + 1
          /\ i - 1 \in 0 .. Len(s) /\ (i - 1) + 1 = i
      BY <1>4, <1>6
    <3>2. list.prev[Node(s, i)] = Node(s, i - 1)
      BY <2>2, <3>1
    <3>3. QED
      BY <3>1, <3>2, <1>6
  <2>5. QED
    BY <2>1, <2>3, <2>4 DEF WellLinked
<1>8. q = s
  <2>1. q = SubSeq(p, 1, Len(p) - 1)
    BY DEF ListNodes
  <2> HIDE DEF p, q
  <2>2. q \in Seq(Nodes) /\ Len(q) = Len(s) /\ \A i \in 1 .. Len(s) : q[i] = p[i]
    BY <1>4, <1>6, <2>1
  <2>3. \A i \in 1 .. Len(s) : q[i] = s[i]
    <3>1. \A i \in 1 .. Len(s) : i \in 1 .. Len(s) + 1 /\ Node(s, i) = s[i]
      BY <1>4, Places
    <3>2. QED
      BY <1>6, <2>2, <3>1
  <2>4. QED
    BY <2>2, <2>3
<1>9. DOMAIN s = 1 .. Len(s)
  OBVIOUS
<1> HIDE DEF q, p
<1>10. Queued = s
  BY <1>8 DEF Queued, q, n
<1>11. Listed = Elements(s)
  BY <1>9, <1>10 DEF Listed, Elements
<1>12. QED
  BY <1>7, <1>10, <1>11 DEF n

(* At every moment, in whatever call interrupts may have left do_softirq   *)
(* half done, the list of timer.c, followed pointer by pointer as list.h   *)
(* does, leads through exactly the timers that were added, have not run    *)
(* and are not about to, in the order of their expiry, and back.           *)
THEOREM TimerListSound == Spec => []TimerInv
<1>1. ASSUME TInv PROVE TimerInv
  <2>1. TypeOK
    BY <1>1 DEF TInv, NestedInv
  <2>2. ASSUME ~caught PROVE ListIsPending
    <3>1. PICK s \in Seq(Timers) : Holds(s)
      BY <1>1, <2>2 DEF TInv, Orderly, TimersQueued
    <3>2. /\ WellLinked(list, timerList, Cardinality(Timers))
          /\ Queued = s /\ Listed = Elements(s)
      BY <1>1, <3>1, QueueIs DEF TInv
    <3>3. Listed = {timer \in Timers : pending[timer] = 1} \ Taken
      <4>1. /\ \A t \in Timers : pending[t] = 1 <=> t \in Elements(s) \/ t \in Taken
            /\ \A t \in Taken : t \notin Elements(s)
        BY <3>1 DEF Holds
      <4>2. Elements(s) \subseteq Timers
        BY Places DEF Elements
      <4>3. QED
        BY <3>2, <4>1, <4>2
    <3>4. \A i, j \in DOMAIN Queued :
            i < j => expire_jiffies[Queued[i]] <= expire_jiffies[Queued[j]]
      <4>1. DOMAIN s = 1 .. Len(s)
        OBVIOUS
      <4>2. QED
        BY <3>1, <3>2, <4>1 DEF Holds, Sorted
    <3>5. QED
      BY <3>2, <3>3, <3>4 DEF ListIsPending
  <2>3. QED
    BY <2>1, <2>2 DEF TimerInv
<1>2. QED
  BY <1>1, TInvAlways, PTL

(* The functions run in the order of expiry, whichever of the nested calls *)
(* of do_softirq runs them: add_timer keeps the list in order while it     *)
(* searches, do_timer takes the first, and what is added later expires     *)
(* later than what is already taken.                                       *)
THEOREM EarliestRunsFirst == Spec => EarliestFirst
<1> DEFINE Before ==
      ~caught => \A t \in Timers : pending'[t] < pending[t] =>
        \A u \in Listed : expire_jiffies[t] <= expire_jiffies[u]
<1>1. ASSUME TInv, [Next]_vars PROVE Before
  <2>1. SUFFICES ASSUME ~caught, NEW t \in Timers, pending'[t] < pending[t],
                        NEW u \in Listed
                 PROVE  expire_jiffies[t] <= expire_jiffies[u]
    OBVIOUS
  <2>2. NestedInv /\ Orderly /\ pending \in [Timers -> 0 .. 1]
    BY <1>1, <2>1 DEF TInv, Orderly, Bounded
  <2>3. CASE UNCHANGED pending
    BY <2>1, <2>2, <2>3
  <2>4. CASE Link
    <3>1. Top.new \in Timers /\ pending' = [pending EXCEPT ![Top.new] = @ + 1]
      BY <2>2, <2>4 DEF Link, Orderly, TimersQueued, AddsInOrder
    <3>2. \A x \in Timers : ~(pending'[x] < pending[x])
      BY <2>2, <3>1
    <3>3. QED
      BY <2>1, <3>2
  <2>5. CASE Fire
    <3>1. /\ stack[current] # <<>> /\ Top.at = "func"
          /\ pending' = [pending EXCEPT ![Top.tmp] = @ - 1]
      BY <2>5 DEF Fire, InSoftirq
    <3>2. PICK s \in Seq(Timers) : Holds(s)
      BY <2>2 DEF Orderly, TimersQueued
    <3>3. t = Top.tmp
      BY <2>1, <2>2, <3>1
    <3>4. t \in Taken
      <4>1. /\ Len(stack[current]) \in DOMAIN stack[current] /\ current \in Tasks
            /\ Top = stack[current][Len(stack[current])]
        BY <2>2, <3>1, TheCall
      <4>2. QED
        BY <2>1, <3>1, <3>3, <4>1 DEF Taken
    <3>5. Listed = Elements(s)
      BY <2>2, <3>2, QueueIs
    <3>6. QED
      BY <2>1, <3>2, <3>4, <3>5 DEF Holds
  <2>6. QED
    BY <1>1, <2>3, <2>4, <2>5
       DEF Next, vars, CallStep, HPET_handler, OtherInterrupt, Serve, Return,
           First, Check, Delete, Clear, Walk, AddTimer
<1>2. TInv /\ [Next]_vars => [Before]_vars
  BY <1>1
<1>3. QED
  BY <1>2, TInvAlways, PTL DEF Spec, EarliestFirst

=============================================================================
