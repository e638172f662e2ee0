--------------------------- MODULE HeapBootProofs ---------------------------
(***************************************************************************)
(* Proofs about the heap (Kmalloc and SlabCache) for any pools, capacities *)
(* and pages, and about the start of the processors (SmpBoot) for any      *)
(* number of them: the two things a processor needs before it runs, a      *)
(* stack that is nobody else's (main.c takes it with kmalloc) and the      *)
(* certainty that it is the one who reads where the stack is.              *)
(***************************************************************************)
EXTENDS SlabCache, SmpBoot, FiniteSetTheorems, SequenceTheorems,
        WellFoundedInduction, TLAPS

-----------------------------------------------------------------------------
(* A set of numbers has a least one.                                       *)
LEMMA LeastOf ==
  ASSUME NEW T \in SUBSET Nat, T # {}
  PROVE  \E x \in T : \A y \in T : x <= y
<1>1. PICK x \in T : \A y \in T : <<y, x>> \notin OpToRel(<, Nat)
  BY WFMin, NatLessThanWellFounded, Zenon
<1>2. \A y \in T : ~(y < x)
  BY <1>1 DEF OpToRel
<1>3. QED
  BY <1>2

(* What holds of 0 and of the successor of each number holds of all.       *)
LEMMA Succession ==
  ASSUME NEW S, 0 \in S, \A k \in Nat : k \in S => k + 1 \in S
  PROVE  Nat \subseteq S
<1> SUFFICES ASSUME Nat \ S # {} PROVE FALSE
  OBVIOUS
<1>1. PICK x \in Nat \ S : \A y \in Nat \ S : x <= y
  <2>1. Nat \ S \in SUBSET Nat
    OBVIOUS
  <2>2. QED
    BY <2>1, LeastOf
<1>2. x - 1 \in Nat
  BY <1>1
<1>3. x - 1 \in S
  BY <1>1, <1>2
<1>4. (x - 1) + 1 = x
  BY <1>1
<1>5. QED
  BY <1>1, <1>2, <1>3, <1>4

\* sum holds the sums of the first numbers of f.
Sums(sum, f, n) ==
  /\ sum \in [0 .. n -> Int]
  /\ sum[0] = 0
  /\ \A i \in 1 .. n : sum[i] = sum[i - 1] + f[i]

(* There are such sums,                                                    *)
LEMMA SumsExist ==
  ASSUME NEW n \in Nat, NEW f \in [1 .. n -> Int]
  PROVE  \E sum : Sums(sum, f, n)
<1> DEFINE S == {k \in Nat : k <= n => \E sum : Sums(sum, f, k)}
<1>1. 0 \in S
  <2>1. Sums([i \in 0 .. 0 |-> 0], f, 0)
    BY DEF Sums
  <2>2. QED
    BY <2>1
<1>2. ASSUME NEW k \in Nat, k \in S PROVE k + 1 \in S
  <2>1. CASE k + 1 <= n
    <3>1. PICK sum : Sums(sum, f, k)
      BY <1>2, <2>1
    <3>2. PICK e : e = sum[k] + f[k + 1]
      OBVIOUS
    <3>3. e \in Int
      BY <2>1, <3>1, <3>2 DEF Sums
    <3>4. PICK more : more = [i \in 0 .. k + 1 |-> IF i = k + 1 THEN e ELSE sum[i]]
      OBVIOUS
    <3>5. more \in [0 .. k + 1 -> Int]
      BY <3>1, <3>3, <3>4 DEF Sums
    <3>6. more[0] = 0
      BY <3>1, <3>4 DEF Sums
    <3>7. ASSUME NEW i \in 1 .. k + 1 PROVE more[i] = more[i - 1] + f[i]
      <4>1. i \in 0 .. k + 1 /\ i - 1 \in 0 .. k + 1 /\ i - 1 # k + 1
        OBVIOUS
      <4>2. more[i - 1] = sum[i - 1]
        BY <3>4, <4>1
      <4>3. CASE i = k + 1
        <5>1. more[i] = e /\ i - 1 = k
          BY <3>4, <4>1, <4>3
        <5>2. QED
          BY <3>2, <4>2, <4>3, <5>1
      <4>4. CASE i # k + 1
        <5>1. more[i] = sum[i] /\ i \in 1 .. k
          BY <3>4, <4>1, <4>4
        <5>2. QED
          BY <3>1, <4>2, <5>1 DEF Sums
      <4>5. QED
        BY <4>3, <4>4
    <3>8. Sums(more, f, k + 1)
      BY <3>5, <3>6, <3>7 DEF Sums
    <3>9. QED
      BY <3>8
  <2>2. QED
    BY <2>1
<1>3. Nat \subseteq S
  <2> HIDE DEF S
  <2>1. QED
    BY <1>1, <1>2, Succession
<1>4. QED
  BY <1>3

(* only one sequence of them,                                              *)
LEMMA SumsUnique ==
  ASSUME NEW n \in Nat, NEW f \in [1 .. n -> Int], NEW a, NEW b, Sums(a, f, n), Sums(b, f, n)
  PROVE  a[n] = b[n]
<1> DEFINE S == {k \in Nat : k <= n => a[k] = b[k]}
<1>1. 0 \in S
  BY DEF Sums
<1>2. ASSUME NEW k \in Nat, k \in S PROVE k + 1 \in S
  <2>1. CASE k + 1 <= n
    <3>1. k + 1 \in 1 .. n /\ (k + 1) - 1 = k
      BY <2>1
    <3>2. a[k + 1] = a[k] + f[k + 1] /\ b[k + 1] = b[k] + f[k + 1]
      BY <3>1 DEF Sums
    <3>3. a[k] = b[k]
      BY <1>2, <2>1
    <3>4. QED
      BY <3>2, <3>3
  <2>2. QED
    BY <2>1
<1>3. Nat \subseteq S
  <2> HIDE DEF S
  <2>1. QED
    BY <1>1, <1>2, Succession
<1>4. QED
  BY <1>3

(* and Total is the last of them.                                          *)
LEMMA TotalIsSum ==
  ASSUME NEW n \in Nat, NEW f \in [1 .. n -> Int], NEW sum, Sums(sum, f, n)
  PROVE  Total(f) = sum[n] /\ Total(f) \in Int
<1>1. Len(f) = n
  OBVIOUS
<1> DEFINE R(g) == g = [i \in 0 .. n |-> IF i = 0 THEN 0 ELSE g[i - 1] + f[i]]
<1>2. R(sum)
  <2>1. sum = [i \in 0 .. n |-> sum[i]]
    BY DEF Sums
  <2>2. \A i \in 0 .. n : sum[i] = IF i = 0 THEN 0 ELSE sum[i - 1] + f[i]
    BY DEF Sums
  <2>3. QED
    BY <2>1, <2>2
<1>3. PICK g : R(g) /\ Total(f) = g[n]
  <2>1. R(CHOOSE g : R(g))
    BY <1>2
  <2>2. Total(f) = (CHOOSE g : R(g))[n]
    BY <1>1 DEF Total
  <2>3. QED
    BY <2>1, <2>2
<1>4. DOMAIN g = 0 .. n /\ \A i \in 0 .. n : g[i] = IF i = 0 THEN 0 ELSE g[i - 1] + f[i]
  BY <1>3
<1> DEFINE S == {k \in Nat : k <= n => g[k] = sum[k]}
<1>5. 0 \in S
  BY <1>4 DEF Sums
<1>6. ASSUME NEW k \in Nat, k \in S PROVE k + 1 \in S
  <2>1. CASE k + 1 <= n
    <3>1. k + 1 \in 1 .. n /\ (k + 1) - 1 = k /\ k + 1 \in 0 .. n /\ k + 1 # 0
      BY <2>1
    <3>2. sum[k + 1] = sum[k] + f[k + 1]
      BY <3>1 DEF Sums
    <3>3. g[k + 1] = g[k] + f[k + 1]
      BY <1>4, <3>1
    <3>4. g[k] = sum[k]
      BY <1>6, <2>1
    <3>5. QED
      BY <3>2, <3>3, <3>4
  <2>2. QED
    BY <2>1
<1>7. Nat \subseteq S
  <2> HIDE DEF S
  <2>1. QED
    BY <1>5, <1>6, Succession
<1>8. g[n] = sum[n]
  BY <1>7
<1>9. sum[n] \in Int
  BY DEF Sums
<1>10. QED
  BY <1>3, <1>8, <1>9

(* One number more, wherever it is put, adds to the total.                 *)
LEMMA TotalInsert ==
  ASSUME NEW n \in Nat, NEW f \in [1 .. n -> Int], NEW i \in 1 .. n + 1,
         NEW g \in [1 .. n + 1 -> Int],
         \A k \in 1 .. i - 1 : g[k] = f[k], \A k \in i .. n : g[k + 1] = f[k]
  PROVE  Total(g) = Total(f) + g[i] /\ Total(f) \in Int /\ Total(g) \in Int
<1>1. PICK sum : Sums(sum, f, n)
  BY SumsExist
<1>2. sum \in [0 .. n -> Int] /\ sum[0] = 0 /\ \A k \in 1 .. n : sum[k] = sum[k - 1] + f[k]
  BY <1>1 DEF Sums
<1>3. PICK e : e = g[i] /\ e \in Int
  OBVIOUS
<1>4. PICK more : more = [k \in 0 .. n + 1 |-> IF k < i THEN sum[k] ELSE sum[k - 1] + e]
  OBVIOUS
<1>5. more \in [0 .. n + 1 -> Int]
  <2>1. ASSUME NEW k \in 0 .. n + 1
        PROVE  (IF k < i THEN sum[k] ELSE sum[k - 1] + e) \in Int
    <3>1. CASE k < i
      <4>1. k \in 0 .. n
        BY <3>1
      <4>2. QED
        BY <1>2, <3>1, <4>1
    <3>2. CASE ~(k < i)
      <4>1. k - 1 \in 0 .. n
        BY <3>2
      <4>2. sum[k - 1] \in Int
        BY <1>2, <4>1
      <4>3. QED
        BY <1>3, <3>2, <4>2
    <3>3. QED
      BY <3>1, <3>2
  <2>2. QED
    BY <1>4, <2>1
<1>6. more[0] = 0
  BY <1>2, <1>4
<1>7. ASSUME NEW k \in 1 .. n + 1 PROVE more[k] = more[k - 1] + g[k]
  <2>0. k \in 0 .. n + 1 /\ k - 1 \in 0 .. n + 1
    OBVIOUS
  <2>1. CASE k < i
    <3>1. more[k] = sum[k] /\ more[k - 1] = sum[k - 1] /\ g[k] = f[k] /\ k \in 1 .. n
      BY <1>4, <2>0, <2>1
    <3>2. QED
      BY <1>2, <3>1
  <2>2. CASE k = i
    <3>1. more[k] = sum[k - 1] + e /\ more[k - 1] = sum[k - 1]
      BY <1>4, <2>0, <2>2
    <3>2. QED
      BY <1>3, <2>2, <3>1
  <2>3. CASE k > i
    <3>1. PICK j : j = k - 1
      OBVIOUS
    <3>2. j \in i .. n /\ j \in 1 .. n /\ k = j + 1 /\ ~(j < i) /\ ~(k < i) /\ j \in 0 .. n + 1 /\ j - 1 \in 0 .. n
      BY <2>3, <3>1
    <3>3. more[k] = sum[j] + e /\ more[j] = sum[j - 1] + e
      BY <1>4, <2>0, <3>1, <3>2
    <3>4. g[k] = f[j]
      BY <3>2
    <3>5. sum[j] = sum[j - 1] + f[j] /\ sum[j - 1] \in Int /\ f[j] \in Int
      BY <1>2, <3>2
    <3>6. QED
      BY <1>3, <3>1, <3>3, <3>4, <3>5
  <2>4. QED
    BY <2>1, <2>2, <2>3
<1>8. Sums(more, g, n + 1)
  BY <1>5, <1>6, <1>7 DEF Sums
<1>9. more[n + 1] = sum[n] + e
  <2>1. n + 1 \in 0 .. n + 1 /\ ~(n + 1 < i) /\ (n + 1) - 1 = n
    OBVIOUS
  <2>2. QED
    BY <1>4, <2>1
<1>10. Total(f) = sum[n] /\ Total(f) \in Int
  BY <1>1, TotalIsSum
<1>11. Total(g) = more[n + 1] /\ Total(g) \in Int
  BY <1>8, TotalIsSum
<1>12. QED
  BY <1>3, <1>9, <1>10, <1>11

(* Another number in the place of one.                                     *)
LEMMA TotalChange ==
  ASSUME NEW n \in Nat, NEW f \in [1 .. n -> Int], NEW i \in 1 .. n,
         NEW g \in [1 .. n -> Int], \A k \in 1 .. n \ {i} : g[k] = f[k]
  PROVE  Total(g) = (Total(f) + g[i]) - f[i] /\ Total(f) \in Int
<1>1. PICK m : m = n - 1
  OBVIOUS
<1>2. m \in Nat /\ m + 1 = n
  BY <1>1
<1>3. PICK r : r = [k \in 1 .. m |-> IF k < i THEN f[k] ELSE f[k + 1]]
  OBVIOUS
<1>4. r \in [1 .. m -> Int]
  BY <1>2, <1>3
<1>5. f \in [1 .. m + 1 -> Int] /\ g \in [1 .. m + 1 -> Int] /\ i \in 1 .. m + 1
  BY <1>2
<1>6. /\ \A k \in 1 .. i - 1 : f[k] = r[k] /\ g[k] = r[k]
      /\ \A k \in i .. m : f[k + 1] = r[k] /\ g[k + 1] = r[k]
  BY <1>2, <1>3
<1>61. m \in Nat
  BY <1>2
<1>62. /\ \A k \in 1 .. i - 1 : f[k] = r[k]
       /\ \A k \in i .. m : f[k + 1] = r[k]
       /\ \A k \in 1 .. i - 1 : g[k] = r[k]
       /\ \A k \in i .. m : g[k + 1] = r[k]
  BY <1>6
<1>7. Total(f) = Total(r) + f[i] /\ Total(r) \in Int /\ Total(f) \in Int
  <2>1. f \in [1 .. m + 1 -> Int] /\ i \in 1 .. m + 1
    BY <1>5
  <2>2. (\A k \in 1 .. i - 1 : f[k] = r[k]) /\ (\A k \in i .. m : f[k + 1] = r[k])
    BY <1>62
  <2>3. QED
    BY <1>4, <1>61, <2>1, <2>2, TotalInsert
<1>8. Total(g) = Total(r) + g[i]
  <2>1. g \in [1 .. m + 1 -> Int] /\ i \in 1 .. m + 1
    BY <1>5
  <2>2. (\A k \in 1 .. i - 1 : g[k] = r[k]) /\ (\A k \in i .. m : g[k + 1] = r[k])
    BY <1>62
  <2>3. QED
    BY <1>4, <1>61, <2>1, <2>2, TotalInsert
<1>9. f[i] \in Int /\ g[i] \in Int
  OBVIOUS
<1>10. QED
  BY <1>7, <1>8, <1>9

(* Numbers without a sign have a total without one, and none is above it.  *)
LEMMA TotalNat ==
  ASSUME NEW n \in Nat, NEW f \in [1 .. n -> Nat]
  PROVE  Total(f) \in Nat
<1>0. f \in [1 .. n -> Int]
  OBVIOUS
<1>1. PICK sum : Sums(sum, f, n)
  BY <1>0, SumsExist
<1>2. sum \in [0 .. n -> Int] /\ sum[0] = 0 /\ \A k \in 1 .. n : sum[k] = sum[k - 1] + f[k]
  BY <1>1 DEF Sums
<1> DEFINE S == {k \in Nat : k <= n => sum[k] \in Nat}
<1>3. 0 \in S
  BY <1>2
<1>4. ASSUME NEW k \in Nat, k \in S PROVE k + 1 \in S
  <2>1. CASE k + 1 <= n
    <3>1. k + 1 \in 1 .. n /\ (k + 1) - 1 = k
      BY <2>1
    <3>2. sum[k + 1] = sum[k] + f[k + 1] /\ f[k + 1] \in Nat
      BY <1>2, <3>1
    <3>3. sum[k] \in Nat
      BY <1>4, <2>1
    <3>4. QED
      BY <3>2, <3>3
  <2>2. QED
    BY <2>1
<1>5. Nat \subseteq S
  <2> HIDE DEF S
  <2>1. QED
    BY <1>3, <1>4, Succession
<1>6. Total(f) = sum[n]
  BY <1>0, <1>1, TotalIsSum
<1>7. QED
  BY <1>5, <1>6

(* Nothing adds up to nothing.                                             *)
LEMMA TotalOfZeros ==
  ASSUME NEW n \in Nat, NEW f \in [1 .. n -> Int], \A i \in 1 .. n : f[i] = 0
  PROVE  Total(f) = 0
<1>1. PICK sum : sum = [k \in 0 .. n |-> 0]
  OBVIOUS
<1>2. Sums(sum, f, n)
  BY <1>1 DEF Sums
<1>3. QED
  BY <1>1, <1>2, TotalIsSum

(* A total is not below any of its numbers, nor below two together.        *)
LEMMA TotalAbove ==
  ASSUME NEW n \in Nat, NEW f \in [1 .. n -> Nat], NEW i \in 1 .. n
  PROVE  /\ Total(f) >= f[i] /\ Total(f) \in Nat
         /\ \A j \in 1 .. n \ {i} : Total(f) >= f[i] + f[j]
<1>0. f \in [1 .. n -> Int] /\ 0 \in Int
  OBVIOUS
<1>1. PICK g : g = [f EXCEPT ![i] = 0]
  OBVIOUS
<1>2. g \in [1 .. n -> Nat] /\ g \in [1 .. n -> Int] /\ g[i] = 0
      /\ \A k \in 1 .. n \ {i} : g[k] = f[k]
  BY <1>1
<1>3. Total(g) = (Total(f) + g[i]) - f[i]
  BY <1>0, <1>2, TotalChange
<1>4. Total(g) \in Nat /\ Total(f) \in Nat /\ f[i] \in Nat
  BY <1>2, TotalNat
<1>41. g[i] = 0
  BY <1>2
<1>5. ASSUME NEW j \in 1 .. n \ {i} PROVE Total(f) >= f[i] + f[j]
  <2>1. PICK r : r = [g EXCEPT ![j] = 0]
    OBVIOUS
  <2>2. r \in [1 .. n -> Nat] /\ r \in [1 .. n -> Int] /\ r[j] = 0
        /\ \A k \in 1 .. n \ {j} : r[k] = g[k]
    BY <1>2, <2>1
  <2>3. Total(r) = (Total(g) + r[j]) - g[j]
    BY <1>0, <1>2, <2>2, TotalChange
  <2>4. Total(r) \in Nat
    BY <2>2, TotalNat
  <2>5. g[j] = f[j] /\ f[j] \in Nat
    BY <1>1
  <2>6. QED
    <3>1. r[j] = 0
      BY <2>2
    <3>2. QED
      BY <1>3, <1>4, <1>41, <2>3, <2>4, <2>5, <3>1
<1>6. QED
  BY <1>3, <1>4, <1>41, <1>5

-----------------------------------------------------------------------------
\* Where slabs have their objects, the objects, the slabs and the heaps.
Places  == Pages \cup Caches \cup {0}
Objects == Places \X Nat
Slot    == Objects \cup {NoObject}
SlabSet ==
  [page : Places, using_count : Nat, free_count : Nat, color_count : Nat \ {0},
   color_map : SUBSET Nat, header : Slot, map : Slot]
HeapSet ==
  [pool : [Caches -> Seq(SlabSet)], total_using : [Caches -> Int],
   total_free : [Caches -> Int], pages : SUBSET Pages]

OnPage(U, p) == {u \in U : u[1] = p}

\* The slab kmalloc_slab_init made, and the objects in each slab of a cache.
Static(c, i) == i = 1 /\ c \notin Created
Color(c, i)  == IF c \in Small /\ i # 1 THEN SmallCapacity[c] ELSE Capacity[c]

\* Only kmalloc_create leaves bits set that no object stands for.
Exact(c, i) == c \notin Small \/ Static(c, i)

\* Slab i of cache c when the objects U are in use.
Good(s, U, c, i) ==
  /\ s.color_count = Color(c, i)
  /\ s.color_map \subseteq Bits(s.color_count)
  /\ \A u \in OnPage(U, s.page) : u[2] \in s.color_map
  /\ s.using_count = Cardinality(OnPage(U, s.page))
  /\ s.using_count + s.free_count = s.color_count
  /\ Exact(c, i) => \A b \in s.color_map : <<s.page, b>> \in U
  /\ Static(c, i) => s.page = IF c \in Unplaced THEN 0 ELSE c
  /\ ~Static(c, i) => s.page \in Pages
  /\ s.header = NoObject <=> (c \in Small \/ Static(c, i))
  /\ s.map = NoObject <=> (c \in Small \/ Static(c, i))

\* A slab with bit j set, and with it clear.
Taken(s, j) ==
  [s EXCEPT !.color_map = @ \cup {j}, !.using_count = @ + 1, !.free_count = @ - 1]
Freed(s, j) ==
  [s EXCEPT !.color_map = SymDiff(@, {j}), !.free_count = @ + 1, !.using_count = @ - 1]

(* The constants.                                                          *)
LEMMA TheCaches ==
  /\ Places \subseteq Nat /\ Pages \subseteq Places /\ Caches \subseteq Places
  /\ Caches \subseteq Nat \ {0}
  /\ Pages \cap (Caches \cup {0}) = {} /\ Pages \subseteq Nat \ {0}
  /\ Small \subseteq Caches /\ Created \subseteq Caches /\ Created \cap Small = {}
  /\ NoObject \notin Objects /\ Wild \notin Objects
  /\ \A c \in Caches : \A i : Color(c, i) \in Nat \ {0}
<1>1. Caches \subseteq Nat \ {0}
  <2>1. Cardinality(Caches) \in Nat /\ Caches = 1 .. Cardinality(Caches)
    BY KmallocAssumption, FS_CardinalityType DEF KmallocAssumption
  <2>2. PICK n : n = Cardinality(Caches)
    OBVIOUS
  <2>3. n \in Nat /\ Caches = 1 .. n
    BY <2>1, <2>2, Zenon
  <2>4. \A c \in Caches : c \in Nat \ {0}
    BY <2>3
  <2>5. QED
    BY <2>4
<1>2. Pages \subseteq Nat \ {0} /\ Pages \cap (Caches \cup {0}) = {}
  <2>1. Cardinality(Caches) \in Nat /\ Caches = 1 .. Cardinality(Caches)
        /\ \A p \in Pages : p \in Nat /\ p > Cardinality(Caches)
    BY KmallocAssumption, FS_CardinalityType DEF KmallocAssumption
  <2>2. PICK n : n = Cardinality(Caches)
    OBVIOUS
  <2>3. n \in Nat /\ Caches = 1 .. n /\ \A p \in Pages : p \in Nat /\ p > n
    BY <2>1, <2>2, Zenon
  <2>4. \A p \in Pages : p \in Nat \ {0} /\ p \notin Caches /\ p # 0
    BY <2>3
  <2>5. QED
    BY <2>4
<1>3. Small \subseteq Caches /\ Created \subseteq Caches /\ Created \cap Small = {}
  BY KmallocAssumption DEF KmallocAssumption
<1>4. Places \subseteq Nat /\ Pages \subseteq Places /\ Caches \subseteq Places
  BY <1>1, <1>2 DEF Places
<1>5. NoObject \notin Objects /\ Wild \notin Objects
  <2>1. NoObject \notin Nat \X Nat /\ Wild \notin Nat \X Nat
    BY KmallocAssumption DEF KmallocAssumption
  <2>2. QED
    BY <1>4, <2>1 DEF Objects
<1>6. \A c \in Caches : \A i : Color(c, i) \in Nat \ {0}
  <2>1. /\ Capacity \in [Caches -> Nat \ {0}]
        /\ SmallCapacity \in [Small -> Nat \ {0}]
    BY KmallocAssumption DEF KmallocAssumption
  <2>2. QED
    BY <2>1 DEF Color
<1>7. QED
  BY <1>1, <1>2, <1>3, <1>4, <1>5, <1>6, Zenon

\* The objects on page p have their bits in map M of k bits: at most k, and k
\* only when the map is full; all it names when it names no other.
CountedBy(U, p, k, M) ==
  /\ IsFiniteSet(OnPage(U, p)) /\ Cardinality(OnPage(U, p)) \in Nat
  /\ Cardinality(OnPage(U, p)) <= k
  /\ Cardinality(OnPage(U, p)) = k => M = Bits(k)
  /\ (\A b \in M : <<p, b>> \in U) /\ M = Bits(k) => Cardinality(OnPage(U, p)) = k

(* The number of objects of a page.                                        *)
LEMMA PageCount ==
  ASSUME NEW U \in SUBSET Objects, NEW p, NEW k \in Nat, NEW M \in SUBSET Bits(k),
         \A u \in OnPage(U, p) : u[2] \in M
  PROVE  CountedBy(U, p, k, M)
<1>1. PICK T, B, S : T = {p} \X B /\ B = 0 .. k - 1 /\ S = OnPage(U, p)
  OBVIOUS
<1>2. B = Bits(k)
  BY <1>1 DEF Bits
<1>3. IsFiniteSet(B) /\ Cardinality(B) = k
  <2>1. 0 \in Int /\ k - 1 \in Int
    OBVIOUS
  <2>2. IsFiniteSet(B) /\ Cardinality(B) = IF 0 > k - 1 THEN 0 ELSE ((k - 1) - 0) + 1
    BY <1>1, <2>1, FS_Interval
  <2>3. QED
    BY <2>2
<1>4. IsFiniteSet(T) /\ Cardinality(T) = k
  <2>1. IsFiniteSet({p}) /\ Cardinality({p}) = 1
    BY FS_Singleton
  <2>2. IsFiniteSet({p} \X B) /\ Cardinality({p} \X B) = Cardinality({p}) * Cardinality(B)
    BY <1>3, <2>1, FS_Product
  <2>3. Cardinality(T) = 1 * k
    BY <1>1, <1>3, <2>1, <2>2, Zenon
  <2>4. QED
    BY <1>1, <2>2, <2>3
<1>5. \A u \in S : u[1] = p /\ u[2] \in B /\ u = <<p, u[2]>>
  BY <1>1, <1>2 DEF OnPage, Objects
<1>6. S \in SUBSET T
  BY <1>1, <1>5
<1>7. IsFiniteSet(S) /\ Cardinality(S) <= Cardinality(T) /\ (Cardinality(T) = Cardinality(S) => T = S)
  BY <1>4, <1>6, FS_Subset
<1>8. Cardinality(S) \in Nat
  BY <1>7, FS_CardinalityType
<1>9. ASSUME Cardinality(S) = k PROVE M = Bits(k)
  <2>1. T = S
    BY <1>4, <1>7, <1>9
  <2>2. ASSUME NEW b \in B PROVE b \in M
    <3>1. <<p, b>> \in S
      BY <1>1, <2>1
    <3>2. QED
      BY <1>1, <3>1
  <2>3. QED
    BY <1>2, <2>2
<1>10. ASSUME \A b \in M : <<p, b>> \in U, M = Bits(k) PROVE Cardinality(S) = k
  <2>1. ASSUME NEW t \in T PROVE t \in S
    <3>1. t = <<p, t[2]>> /\ t[1] = p /\ t[2] \in B
      BY <1>1
    <3>2. t \in U
      BY <1>2, <1>10, <3>1
    <3>3. QED
      BY <1>1, <3>1, <3>2 DEF OnPage
  <2>2. T = S
    BY <1>6, <2>1
  <2>3. QED
    BY <1>4, <2>2
<1>11. QED
  BY <1>1, <1>4, <1>7, <1>8, <1>9, <1>10 DEF CountedBy

(* What the counters of a slab say of its map.                             *)
LEMMA GoodCounts ==
  ASSUME NEW U \in SUBSET Objects, NEW c \in Caches, NEW i \in Nat, NEW s \in SlabSet,
         Good(s, U, c, i)
  PROVE  /\ s.color_map \subseteq Bits(s.color_count)
         /\ Bits(s.color_count) \ s.color_map # {} => s.free_count > 0
         /\ c \notin Small /\ s.free_count # 0 => Bits(s.color_count) \ s.color_map # {}
         /\ s.using_count = 0 <=> OnPage(U, s.page) = {}
         /\ s.using_count = 0 <=> s.free_count = s.color_count
         /\ IsFiniteSet(OnPage(U, s.page))
         /\ OnPage(U, s.page) # {} => s.using_count >= 1
<1>1. PICK k, M, p, n, m : k = s.color_count /\ M = s.color_map /\ p = s.page
                           /\ n = s.using_count /\ m = s.free_count
  OBVIOUS
<1>2. k \in Nat \ {0} /\ n \in Nat /\ m \in Nat
  BY <1>1 DEF SlabSet
<1>3. /\ M \in SUBSET Bits(k) /\ \A u \in OnPage(U, p) : u[2] \in M
      /\ n = Cardinality(OnPage(U, p)) /\ n + m = k
      /\ c \notin Small => \A b \in M : <<p, b>> \in U
  BY <1>1 DEF Good, Exact
<1>4. /\ IsFiniteSet(OnPage(U, p))
      /\ n = k => M = Bits(k)
      /\ (\A b \in M : <<p, b>> \in U) /\ M = Bits(k) => n = k
  <2>1. k \in Nat /\ M \in SUBSET Bits(k) /\ \A u \in OnPage(U, p) : u[2] \in M
    BY <1>2, <1>3
  <2>2. CountedBy(U, p, k, M)
    BY <2>1, PageCount, Zenon
  <2>3. QED
    BY <1>3, <2>2 DEF CountedBy
<1>5. Bits(k) \ M # {} => m > 0
  <2>1. Bits(k) \ M # {} => n # k
    BY <1>4
  <2>2. QED
    BY <1>2, <1>3, <2>1
<1>6. c \notin Small /\ m # 0 => Bits(k) \ M # {}
  <2>1. m # 0 => n # k
    BY <1>2, <1>3
  <2>2. c \notin Small /\ M = Bits(k) => n = k
    BY <1>3, <1>4
  <2>3. M # Bits(k) => Bits(k) \ M # {}
    BY <1>3
  <2>4. QED
    BY <2>1, <2>2, <2>3
<1>7. n = 0 <=> OnPage(U, p) = {}
  BY <1>3, <1>4, FS_EmptySet
<1>8. n = 0 <=> m = k
  BY <1>2, <1>3
<1>9. OnPage(U, p) # {} => n >= 1
  BY <1>2, <1>7
<1>10. QED
  BY <1>1, <1>3, <1>4, <1>5, <1>6, <1>7, <1>8, <1>9

(* A slab does not notice what happens on the other pages.                 *)
LEMMA GoodOther ==
  ASSUME NEW U, NEW U2, NEW c, NEW i, NEW s,
         \A u : u[1] = s.page => (u \in U <=> u \in U2), Good(s, U, c, i)
  PROVE  Good(s, U2, c, i)
<1>1. OnPage(U2, s.page) = OnPage(U, s.page)
  BY DEF OnPage
<1>2. \A b : <<s.page, b>> \in U <=> <<s.page, b>> \in U2
  OBVIOUS
<1>3. QED
  BY <1>1, <1>2, Zenon DEF Good

(* nor where it stands, except for the first of a static cache.            *)
LEMMA GoodMoves ==
  ASSUME NEW U, NEW c \in Caches, NEW i, NEW j, NEW s, Good(s, U, c, i),
         c \in Created \/ (i # 1 /\ j # 1)
  PROVE  Good(s, U, c, j)
<1>1. (Static(c, i) <=> Static(c, j)) /\ Color(c, i) = Color(c, j)
  BY TheCaches DEF Static, Color
<1>2. QED
  BY <1>1, Zenon DEF Good, Exact

(* The fields of a slab when a bit is set,                                 *)
LEMMA TakenIs ==
  ASSUME NEW s \in SlabSet, NEW j \in Nat, s.free_count > 0
  PROVE  /\ Taken(s, j) \in SlabSet
         /\ Taken(s, j).page = s.page /\ Taken(s, j).color_count = s.color_count
         /\ Taken(s, j).header = s.header /\ Taken(s, j).map = s.map
         /\ Taken(s, j).color_map = s.color_map \cup {j}
         /\ Taken(s, j).using_count = s.using_count + 1
         /\ Taken(s, j).free_count = s.free_count - 1
<1>1. PICK m, n, f : m = s.color_map \cup {j} /\ n = s.using_count + 1 /\ f = s.free_count - 1
  OBVIOUS
<1>2. s.color_map \in SUBSET Nat /\ s.using_count \in Nat /\ s.free_count \in Nat
  BY DEF SlabSet
<1>3. m \in SUBSET Nat /\ n \in Nat /\ f \in Nat
  BY <1>1, <1>2
<1>4. Taken(s, j) = [s EXCEPT !.color_map = m, !.using_count = n, !.free_count = f]
  BY <1>1 DEF Taken, SlabSet
<1>5. QED
  BY <1>1, <1>3, <1>4 DEF SlabSet

(* and when a bit that was set is clear.                                   *)
LEMMA FreedIs ==
  ASSUME NEW s \in SlabSet, NEW j \in s.color_map, s.using_count >= 1
  PROVE  /\ Freed(s, j) \in SlabSet
         /\ Freed(s, j).page = s.page /\ Freed(s, j).color_count = s.color_count
         /\ Freed(s, j).header = s.header /\ Freed(s, j).map = s.map
         /\ Freed(s, j).color_map = s.color_map \ {j}
         /\ Freed(s, j).using_count = s.using_count - 1
         /\ Freed(s, j).free_count = s.free_count + 1
<1>1. PICK m, n, f : m = s.color_map \ {j} /\ n = s.using_count - 1 /\ f = s.free_count + 1
  OBVIOUS
<1>2. s.color_map \in SUBSET Nat /\ s.using_count \in Nat /\ s.free_count \in Nat
  BY DEF SlabSet
<1>3. m \in SUBSET Nat /\ n \in Nat /\ f \in Nat
  BY <1>1, <1>2
<1>31. SymDiff(s.color_map, {j}) = m
  BY <1>1 DEF SymDiff
<1>4. Freed(s, j) = [s EXCEPT !.color_map = m, !.using_count = n, !.free_count = f]
  BY <1>1, <1>31 DEF Freed, SlabSet
<1>5. QED
  BY <1>1, <1>3, <1>4 DEF SlabSet

(* An object whose bit was clear is taken,                                 *)
LEMMA TakenGood ==
  ASSUME NEW U \in SUBSET Objects, NEW c \in Caches, NEW i \in Nat, NEW s \in SlabSet,
         Good(s, U, c, i), NEW j \in Bits(s.color_count) \ s.color_map
  PROVE  /\ <<s.page, j>> \in Objects /\ <<s.page, j>> \notin U
         /\ Good(Taken(s, j), U \cup {<<s.page, j>>}, c, i)
         /\ Taken(s, j).using_count >= 1 /\ s.free_count > 0
<1>1. PICK p, u, t, V : p = s.page /\ u = <<s.page, j>> /\ t = Taken(s, j)
                        /\ V = U \cup {<<s.page, j>>}
  OBVIOUS
<1>2. p \in Places /\ s.using_count \in Nat /\ s.free_count \in Nat
  BY <1>1 DEF SlabSet
<1>3. j \in Nat /\ u = <<p, j>> /\ u[1] = p /\ u[2] = j /\ u \in Objects
  BY <1>1, <1>2 DEF Bits, Objects
<1>4. s.free_count > 0 /\ IsFiniteSet(OnPage(U, p))
  BY <1>1, GoodCounts
<1>5. u \notin U
  BY <1>1, <1>3 DEF Good, OnPage
<1>6. /\ t \in SlabSet /\ t.page = p /\ t.color_count = s.color_count
      /\ t.header = s.header /\ t.map = s.map /\ t.color_map = s.color_map \cup {j}
      /\ t.using_count = s.using_count + 1 /\ t.free_count = s.free_count - 1
  BY <1>1, <1>3, <1>4, TakenIs
<1>7. OnPage(V, p) = OnPage(U, p) \cup {u} /\ u \notin OnPage(U, p)
  BY <1>1, <1>3, <1>5 DEF OnPage
<1>8. t.using_count = Cardinality(OnPage(V, p))
  <2>1. Cardinality(OnPage(U, p) \cup {u}) = Cardinality(OnPage(U, p)) + 1
    BY <1>4, <1>7, FS_AddElement
  <2>2. Cardinality(OnPage(U, p)) = s.using_count
    BY <1>1 DEF Good
  <2>3. QED
    BY <1>6, <1>7, <2>1, <2>2
<1>9. t.using_count + t.free_count = t.color_count /\ t.using_count >= 1
  <2>1. s.using_count + s.free_count = s.color_count
    BY DEF Good
  <2>2. QED
    BY <1>2, <1>6, <2>1
<1>10. t.color_map \subseteq Bits(t.color_count)
  BY <1>6 DEF Good
<1>11. \A w \in OnPage(V, p) : w[2] \in t.color_map
  BY <1>1, <1>3, <1>6, <1>7 DEF Good
<1>12. Exact(c, i) => \A b \in t.color_map : <<p, b>> \in V
  BY <1>1, <1>3, <1>6 DEF Good
<1>13. /\ Static(c, i) => p = IF c \in Unplaced THEN 0 ELSE c
       /\ ~Static(c, i) => p \in Pages
       /\ t.header = NoObject <=> (c \in Small \/ Static(c, i))
       /\ t.map = NoObject <=> (c \in Small \/ Static(c, i))
       /\ t.color_count = Color(c, i)
  BY <1>1, <1>6 DEF Good
<1>14. Good(t, V, c, i)
  BY <1>6, <1>8, <1>9, <1>10, <1>11, <1>12, <1>13, Zenon DEF Good
<1>15. QED
  BY <1>1, <1>3, <1>4, <1>5, <1>9, <1>14, Zenon

(* and one in use is given back.                                           *)
LEMMA FreedGood ==
  ASSUME NEW U \in SUBSET Objects, NEW c \in Caches, NEW i \in Nat, NEW s \in SlabSet,
         Good(s, U, c, i), NEW u \in U, u[1] = s.page
  PROVE  /\ u[2] \in s.color_map /\ s.using_count >= 1
         /\ Good(Freed(s, u[2]), U \ {u}, c, i)
<1>1. PICK p, j, t, V : p = s.page /\ j = u[2] /\ t = Freed(s, u[2]) /\ V = U \ {u}
  OBVIOUS
<1>2. p \in Places /\ s.using_count \in Nat /\ s.free_count \in Nat
  BY <1>1 DEF SlabSet
<1>3. u \in OnPage(U, p) /\ u = <<p, j>>
  BY <1>1 DEF OnPage, Objects
<1>4. s.using_count >= 1 /\ IsFiniteSet(OnPage(U, p))
  BY <1>1, <1>3, GoodCounts
<1>5. j \in s.color_map
  BY <1>1, <1>3 DEF Good
<1>6. /\ t \in SlabSet /\ t.page = p /\ t.color_count = s.color_count
      /\ t.header = s.header /\ t.map = s.map /\ t.color_map = s.color_map \ {j}
      /\ t.using_count = s.using_count - 1 /\ t.free_count = s.free_count + 1
  BY <1>1, <1>4, <1>5, FreedIs
<1>7. OnPage(V, p) = OnPage(U, p) \ {u}
  BY <1>1 DEF OnPage
<1>8. t.using_count = Cardinality(OnPage(V, p))
  <2>1. Cardinality(OnPage(U, p) \ {u}) = Cardinality(OnPage(U, p)) - 1
    BY <1>3, <1>4, FS_RemoveElement
  <2>2. Cardinality(OnPage(U, p)) = s.using_count
    BY <1>1 DEF Good
  <2>3. QED
    BY <1>6, <1>7, <2>1, <2>2
<1>9. t.using_count + t.free_count = t.color_count
  <2>1. s.using_count + s.free_count = s.color_count
    BY DEF Good
  <2>2. QED
    BY <1>2, <1>6, <2>1
<1>10. t.color_map \subseteq Bits(t.color_count)
  BY <1>6 DEF Good
<1>11. ASSUME NEW w \in OnPage(V, p) PROVE w[2] \in t.color_map
  <2>1. w \in OnPage(U, p) /\ w # u /\ w \in Objects /\ w[1] = p
    BY <1>7, <1>11 DEF OnPage
  <2>2. w[2] \in s.color_map
    BY <1>1, <2>1 DEF Good
  <2>3. w = <<p, w[2]>>
    BY <2>1 DEF Objects
  <2>4. QED
    BY <1>3, <1>6, <2>1, <2>2, <2>3
<1>12. ASSUME Exact(c, i), NEW b \in t.color_map PROVE <<p, b>> \in V
  <2>1. b \in s.color_map /\ b # j
    BY <1>6, <1>12
  <2>2. <<p, b>> \in U
    BY <1>1, <1>12, <2>1 DEF Good
  <2>3. <<p, b>> # u
    BY <1>3, <2>1
  <2>4. QED
    BY <1>1, <2>2, <2>3
<1>13. /\ Static(c, i) => p = IF c \in Unplaced THEN 0 ELSE c
       /\ ~Static(c, i) => p \in Pages
       /\ t.header = NoObject <=> (c \in Small \/ Static(c, i))
       /\ t.map = NoObject <=> (c \in Small \/ Static(c, i))
       /\ t.color_count = Color(c, i)
  BY <1>1, <1>6 DEF Good
<1>14. Good(t, V, c, i)
  BY <1>6, <1>8, <1>9, <1>10, <1>11, <1>12, <1>13, Zenon DEF Good
<1>15. QED
  BY <1>1, <1>4, <1>5, <1>14, Zenon

-----------------------------------------------------------------------------
\* The pools of a heap.
Pools == [Caches -> Seq(SlabSet)]

PagesOf(P) == {p \in Places : \E c \in Caches : \E i \in 1 .. Len(P[c]) : P[c][i].page = p}
Apart(P) ==
  \A c, d \in Caches : \A i \in 1 .. Len(P[c]) : \A j \in 1 .. Len(P[d]) :
    P[c][i].page = P[d][j].page => c = d /\ i = j

\* The slabs of large classes, with the objects they are described by.
Labels(P) ==
  {l \in Places \X Objects \X Objects :
     \E c \in Caches : \E i \in 1 .. Len(P[c]) :
       l = <<P[c][i].page, P[c][i].header, P[c][i].map>>}
Own(B) == {l[2] : l \in B} \cup {l[3] : l \in B}

InSmall(P, u) == \E c \in Small : \E i \in 1 .. Len(P[c]) : P[c][i].page = u[1]

\* What the slabs of a pool count.
Using(pool) == [i \in DOMAIN pool |-> pool[i].using_count]
Left(pool)  == [i \in DOMAIN pool |-> pool[i].free_count]

\* Slabs stay where they are, on the same pages, with the same descriptions.
SameShape(P, Q) ==
  /\ Q \in Pools
  /\ \A d \in Caches : Len(Q[d]) = Len(P[d])
  /\ \A d \in Caches : \A k \in 1 .. Len(P[d]) :
       Q[d][k].page = P[d][k].page /\ Q[d][k].header = P[d][k].header
       /\ Q[d][k].map = P[d][k].map

(* Then the pages and the descriptions are the same as before.             *)
LEMMA ShapeSame ==
  ASSUME NEW P \in Pools, NEW Q, SameShape(P, Q)
  PROVE  /\ PagesOf(Q) = PagesOf(P) /\ Labels(Q) = Labels(P)
         /\ \A u : InSmall(Q, u) <=> InSmall(P, u)
         /\ Apart(P) => Apart(Q)
<1>1. PagesOf(Q) = PagesOf(P)
  BY DEF SameShape, PagesOf
<1>2. Labels(Q) = Labels(P)
  <2>1. \A c \in Caches : \A i \in 1 .. Len(P[c]) :
          /\ Len(Q[c]) = Len(P[c])
          /\ <<Q[c][i].page, Q[c][i].header, Q[c][i].map>>
               = <<P[c][i].page, P[c][i].header, P[c][i].map>>
    BY DEF SameShape
  <2>2. \A l : (\E c \in Caches : \E i \in 1 .. Len(P[c]) :
                  l = <<P[c][i].page, P[c][i].header, P[c][i].map>>)
               <=> (\E c \in Caches : \E i \in 1 .. Len(Q[c]) :
                      l = <<Q[c][i].page, Q[c][i].header, Q[c][i].map>>)
    <3> SUFFICES ASSUME NEW l
                 PROVE (\E c \in Caches : \E i \in 1 .. Len(P[c]) :
                          l = <<P[c][i].page, P[c][i].header, P[c][i].map>>)
                       <=> (\E c \in Caches : \E i \in 1 .. Len(Q[c]) :
                              l = <<Q[c][i].page, Q[c][i].header, Q[c][i].map>>)
      OBVIOUS
    <3>1. ASSUME NEW c \in Caches, NEW i \in 1 .. Len(P[c]),
                 l = <<P[c][i].page, P[c][i].header, P[c][i].map>>
          PROVE  \E i2 \in 1 .. Len(Q[c]) : l = <<Q[c][i2].page, Q[c][i2].header, Q[c][i2].map>>
      <4>1. i \in 1 .. Len(Q[c]) /\ l = <<Q[c][i].page, Q[c][i].header, Q[c][i].map>>
        BY <2>1, <3>1
      <4>2. QED
        BY <4>1
    <3>2. ASSUME NEW c \in Caches, NEW i \in 1 .. Len(Q[c]),
                 l = <<Q[c][i].page, Q[c][i].header, Q[c][i].map>>
          PROVE  \E i2 \in 1 .. Len(P[c]) : l = <<P[c][i2].page, P[c][i2].header, P[c][i2].map>>
      <4>0. i \in 1 .. Len(P[c])
        <5>1. Len(Q[c]) = Len(P[c])
          BY DEF SameShape
        <5>2. QED
          BY <3>2, <5>1, Zenon
      <4>01. <<Q[c][i].page, Q[c][i].header, Q[c][i].map>>
               = <<P[c][i].page, P[c][i].header, P[c][i].map>>
        BY <2>1, <4>0, Zenon
      <4>1. i \in 1 .. Len(P[c]) /\ l = <<P[c][i].page, P[c][i].header, P[c][i].map>>
        BY <3>2, <4>0, <4>01, Zenon
      <4>2. QED
        BY <4>1
    <3>3. QED
      BY <3>1, <3>2, Zenon
  <2>3. QED
    BY <2>2, Zenon DEF Labels
<1>3. \A u : InSmall(Q, u) <=> InSmall(P, u)
  BY TheCaches DEF SameShape, InSmall
<1>4. Apart(P) => Apart(Q)
  BY DEF SameShape, Apart
<1>5. QED
  BY <1>1, <1>2, <1>3, <1>4

(* The counts of a pool, slab by slab.                                     *)
LEMMA CountsOf ==
  ASSUME NEW q \in Seq(SlabSet)
  PROVE  /\ Using(q) \in [1 .. Len(q) -> Nat] /\ Using(q) \in [1 .. Len(q) -> Int]
         /\ Left(q) \in [1 .. Len(q) -> Nat] /\ Left(q) \in [1 .. Len(q) -> Int]
         /\ \A k \in 1 .. Len(q) : Using(q)[k] = q[k].using_count /\ Left(q)[k] = q[k].free_count
         /\ \A k \in 1 .. Len(q) : q[k] \in SlabSet
<1>1. DOMAIN q = 1 .. Len(q) /\ Len(q) \in Nat /\ \A k \in 1 .. Len(q) : q[k] \in SlabSet
  BY ElementOfSeq
<1>2. \A k \in 1 .. Len(q) : q[k].using_count \in Nat /\ q[k].free_count \in Nat
  BY <1>1 DEF SlabSet
<1>3. QED
  BY <1>1, <1>2 DEF Using, Left

\* Slab i of cache c becomes s.
Replaced(P, c, i, s) == [P EXCEPT ![c] = [P[c] EXCEPT ![i] = s]]

\* All other slabs stay, and the counters follow.
ReplacedAt(P, Q, c, i, s) ==
  /\ SameShape(P, Q) /\ Q \in Pools /\ Q[c][i] = s
  /\ \A d \in Caches : d # c => Q[d] = P[d]
  /\ \A d \in Caches : \A k \in 1 .. Len(P[d]) : d # c \/ k # i => Q[d][k] = P[d][k]
  /\ Total(Using(Q[c])) = (Total(Using(P[c])) + s.using_count) - P[c][i].using_count
  /\ Total(Left(Q[c])) = (Total(Left(P[c])) + s.free_count) - P[c][i].free_count

(* A slab stays where it is and keeps its description.                     *)
LEMMA ReplacedIs ==
  ASSUME NEW P \in Pools, NEW c \in Caches, NEW i \in 1 .. Len(P[c]), NEW s \in SlabSet,
         s.page = P[c][i].page, s.header = P[c][i].header, s.map = P[c][i].map
  PROVE  ReplacedAt(P, Replaced(P, c, i, s), c, i, s)
<1>1. PICK q, r, n, Q : q = P[c] /\ r = [q EXCEPT ![i] = s] /\ n = Len(q)
                        /\ Q = Replaced(P, c, i, s)
  OBVIOUS
<1>2. q \in Seq(SlabSet) /\ n \in Nat /\ n = Len(q) /\ DOMAIN q = 1 .. n /\ i \in 1 .. n
  BY <1>1 DEF Pools
<1>3. /\ r \in Seq(SlabSet) /\ Len(r) = n /\ DOMAIN r = 1 .. n /\ r[i] = s
      /\ \A k \in 1 .. n : k # i => r[k] = q[k]
  BY <1>1, <1>2
<1>4. /\ Q \in Pools /\ Q[c] = r /\ \A d \in Caches : d # c => Q[d] = P[d]
  BY <1>1, <1>3 DEF Pools, Replaced
<1>5. \A d \in Caches : \A k \in 1 .. Len(P[d]) : d # c \/ k # i => Q[d][k] = P[d][k]
  <2> SUFFICES ASSUME NEW d \in Caches, NEW k \in 1 .. Len(P[d]), d # c \/ k # i
               PROVE  Q[d][k] = P[d][k]
    OBVIOUS
  <2>1. CASE d # c
    BY <1>4, <2>1
  <2>2. CASE d = c
    BY <1>1, <1>2, <1>3, <1>4, <2>2
  <2>3. QED
    BY <2>1, <2>2
<1>6. \A d \in Caches : Len(Q[d]) = Len(P[d])
  BY <1>1, <1>3, <1>4
<1>7. SameShape(P, Q)
  <2> SUFFICES ASSUME NEW d \in Caches, NEW k \in 1 .. Len(P[d])
               PROVE  Q[d][k].page = P[d][k].page /\ Q[d][k].header = P[d][k].header
                      /\ Q[d][k].map = P[d][k].map
    BY <1>4, <1>6 DEF SameShape
  <2>1. CASE d = c /\ k = i
    <3>1. Q[d][k] = s
      BY <1>3, <1>4, <2>1
    <3>2. QED
      BY <2>1, <3>1
  <2>2. CASE d # c \/ k # i
    <3>1. Q[d][k] = P[d][k]
      BY <1>5, <2>2
    <3>2. QED
      BY <3>1
  <2>3. QED
    BY <2>1, <2>2
<1>9. Total(Using(r)) = (Total(Using(q)) + s.using_count) - q[i].using_count
  <2>1. PICK f, g : f = Using(q) /\ g = Using(r)
    OBVIOUS
  <2>2. /\ f \in [1 .. n -> Int] /\ g \in [1 .. n -> Int]
        /\ f[i] = q[i].using_count /\ g[i] = s.using_count
        /\ \A k \in 1 .. n \ {i} : g[k] = f[k]
    <3>1. /\ f \in [1 .. n -> Int] /\ \A k \in 1 .. n : f[k] = q[k].using_count
          /\ g \in [1 .. n -> Int] /\ \A k \in 1 .. n : g[k] = r[k].using_count
      BY <1>2, <1>3, <2>1, CountsOf
    <3>2. QED
      BY <1>2, <1>3, <3>1
  <2>3. Total(g) = (Total(f) + g[i]) - f[i]
    BY <1>2, <2>2, TotalChange
  <2>4. QED
    BY <2>1, <2>2, <2>3, Zenon
<1>10. Total(Left(r)) = (Total(Left(q)) + s.free_count) - q[i].free_count
  <2>1. PICK f, g : f = Left(q) /\ g = Left(r)
    OBVIOUS
  <2>2. /\ f \in [1 .. n -> Int] /\ g \in [1 .. n -> Int]
        /\ f[i] = q[i].free_count /\ g[i] = s.free_count
        /\ \A k \in 1 .. n \ {i} : g[k] = f[k]
    <3>1. /\ f \in [1 .. n -> Int] /\ \A k \in 1 .. n : f[k] = q[k].free_count
          /\ g \in [1 .. n -> Int] /\ \A k \in 1 .. n : g[k] = r[k].free_count
      BY <1>2, <1>3, <2>1, CountsOf
    <3>2. QED
      BY <1>2, <1>3, <3>1
  <2>3. Total(g) = (Total(f) + g[i]) - f[i]
    BY <1>2, <2>2, TotalChange
  <2>4. QED
    BY <2>1, <2>2, <2>3, Zenon
<1>11. QED
  BY <1>1, <1>3, <1>4, <1>5, <1>7, <1>9, <1>10, Zenon DEF ReplacedAt

\* Slab s is put into a pool as number i.
Inserted(q, r, i, s) ==
  /\ r \in Seq(SlabSet) /\ Len(r) = Len(q) + 1 /\ i \in 1 .. Len(q) + 1 /\ r[i] = s
  /\ \A k \in 1 .. i - 1 : r[k] = q[k]
  /\ \A k \in i .. Len(q) : r[k + 1] = q[k]

\* The same, of the pools, the others of which stay.
Put(P, Q, c, i, s) ==
  /\ Q \in Pools /\ Inserted(P[c], Q[c], i, s)
  /\ \A d \in Caches : d # c => Q[d] = P[d]

(* Append, InsertAt and RemoveAt put and take out one slab.                *)
LEMMA InsertionsAre ==
  ASSUME NEW q \in Seq(SlabSet), NEW s \in SlabSet
  PROVE  /\ Inserted(q, Append(q, s), Len(q) + 1, s)
         /\ Len(q) >= 1 => Inserted(q, InsertAt(q, 2, s), 2, s)
         /\ \A i \in 1 .. Len(q) :
              RemoveAt(q, i) \in Seq(SlabSet) /\ Inserted(RemoveAt(q, i), q, i, q[i])
<1>1. PICK n : n = Len(q)
  OBVIOUS
<1>2. n \in Nat /\ \A k \in 1 .. n : q[k] \in SlabSet
  BY <1>1, ElementOfSeq
<1>3. Inserted(q, Append(q, s), n + 1, s)
  <2>1. PICK r : r = Append(q, s)
    OBVIOUS
  <2>2. /\ r \in Seq(SlabSet) /\ Len(r) = n + 1 /\ r[n + 1] = s
        /\ \A k \in 1 .. n : r[k] = q[k]
    BY <1>1, <2>1, AppendProperties
  <2>3. n + 1 \in 1 .. n + 1 /\ \A k \in 1 .. (n + 1) - 1 : k \in 1 .. n
    BY <1>2
  <2>4. \A k \in n + 1 .. n : r[k + 1] = q[k]
    BY <1>2
  <2>5. QED
    BY <1>1, <2>1, <2>2, <2>3, <2>4, Zenon DEF Inserted
<1>4. ASSUME n >= 1 PROVE Inserted(q, InsertAt(q, 2, s), 2, s)
  <2>1. PICK a, b, e, r, t : a = SubSeq(q, 1, 2 - 1) /\ b = SubSeq(q, 2, n) /\ e = <<s>>
                             /\ t = a \o e /\ r = t \o b
    OBVIOUS
  <2>2. r = InsertAt(q, 2, s)
    BY <1>1, <2>1 DEF InsertAt
  <2>3. a \in Seq(SlabSet) /\ Len(a) = 1 /\ a[1] = q[1]
    <3>1. 2 - 1 = 1 /\ \A k \in 1 .. 1 : q[k] \in SlabSet
      BY <1>2, <1>4
    <3>2. /\ SubSeq(q, 1, 1) \in Seq(SlabSet)
          /\ Len(SubSeq(q, 1, 1)) = IF 1 <= 1 THEN (1 - 1) + 1 ELSE 0
          /\ \A k \in 1 .. (1 - 1) + 1 : SubSeq(q, 1, 1)[k] = q[(1 + k) - 1]
      BY <3>1, SubSeqProperties
    <3>3. a = SubSeq(q, 1, 1)
      BY <2>1, <3>1
    <3>4. QED
      BY <3>2, <3>3
  <2>4. b \in Seq(SlabSet) /\ Len(b) = n - 1 /\ \A k \in 1 .. n - 1 : b[k] = q[k + 1]
    <3>1. \A k \in 2 .. n : q[k] \in SlabSet
      BY <1>2
    <3>2. /\ SubSeq(q, 2, n) \in Seq(SlabSet)
          /\ Len(SubSeq(q, 2, n)) = IF 2 <= n THEN (n - 2) + 1 ELSE 0
          /\ \A k \in 1 .. (n - 2) + 1 : SubSeq(q, 2, n)[k] = q[(2 + k) - 1]
      BY <1>2, <3>1, SubSeqProperties
    <3>3. (n - 2) + 1 = n - 1 /\ \A k \in 1 .. n - 1 : (2 + k) - 1 = k + 1
      BY <1>2
    <3>4. Len(b) = n - 1
      BY <1>2, <1>4, <2>1, <3>2
    <3>5. QED
      BY <2>1, <3>2, <3>3, <3>4
  <2>5. e \in Seq(SlabSet) /\ Len(e) = 1 /\ e[1] = s
    BY <2>1
  <2>6. /\ t \in Seq(SlabSet) /\ Len(t) = Len(a) + Len(e)
        /\ \A k \in 1 .. Len(a) + Len(e) : t[k] = IF k <= Len(a) THEN a[k] ELSE e[k - Len(a)]
    BY <2>1, <2>3, <2>5, ConcatProperties
  <2>7. Len(t) = 2 /\ t[1] = q[1] /\ t[2] = s
    BY <2>3, <2>5, <2>6
  <2>8. /\ r \in Seq(SlabSet) /\ Len(r) = Len(t) + Len(b)
        /\ \A k \in 1 .. Len(t) + Len(b) : r[k] = IF k <= Len(t) THEN t[k] ELSE b[k - Len(t)]
    BY <2>1, <2>4, <2>6, ConcatProperties
  <2>9. Len(r) = n + 1 /\ \A k \in 1 .. n + 1 : r[k] = IF k <= 2 THEN t[k] ELSE b[k - 2]
    <3>1. Len(t) + Len(b) = n + 1
      BY <1>2, <2>4, <2>7
    <3>2. QED
      BY <2>7, <2>8, <3>1, Zenon
  <2>10. r[2] = s /\ 2 \in 1 .. n + 1 /\ \A k \in 1 .. 2 - 1 : r[k] = q[k]
    <3>1. 1 \in 1 .. n + 1 /\ 2 \in 1 .. n + 1
      BY <1>2, <1>4
    <3>2. r[1] = t[1] /\ r[2] = t[2]
      BY <2>9, <3>1
    <3>3. \A k \in 1 .. 2 - 1 : k = 1
      OBVIOUS
    <3>4. QED
      BY <2>7, <3>1, <3>2, <3>3
  <2>11. ASSUME NEW k \in 2 .. n PROVE r[k + 1] = q[k]
    <3>1. PICK m : m = k - 1
      OBVIOUS
    <3>2. m \in 1 .. n - 1 /\ m + 1 = k /\ k + 1 \in 1 .. n + 1 /\ ~(k + 1 <= 2) /\ (k + 1) - 2 = m
      BY <1>2, <3>1
    <3>3. r[k + 1] = b[m]
      BY <2>9, <3>2
    <3>4. b[m] = q[k]
      BY <2>4, <3>2
    <3>5. QED
      BY <3>3, <3>4
  <2>12. QED
    BY <1>1, <2>2, <2>8, <2>9, <2>10, <2>11, Zenon DEF Inserted
<1>5. ASSUME NEW i \in 1 .. n
      PROVE  RemoveAt(q, i) \in Seq(SlabSet) /\ Inserted(RemoveAt(q, i), q, i, q[i])
  <2>1. PICK a, b, r : a = SubSeq(q, 1, i - 1) /\ b = SubSeq(q, i + 1, n) /\ r = a \o b
    OBVIOUS
  <2>2. r = RemoveAt(q, i)
    BY <1>1, <2>1 DEF RemoveAt
  <2>3. a \in Seq(SlabSet) /\ Len(a) = i - 1 /\ \A k \in 1 .. i - 1 : a[k] = q[k]
    <3>1. PICK m : m = i - 1
      OBVIOUS
    <3>2. m \in Nat /\ m \in Int /\ 1 \in Int /\ \A k \in 1 .. m : q[k] \in SlabSet
      BY <1>2, <3>1
    <3>3. /\ SubSeq(q, 1, m) \in Seq(SlabSet)
          /\ Len(SubSeq(q, 1, m)) = IF 1 <= m THEN (m - 1) + 1 ELSE 0
          /\ \A k \in 1 .. (m - 1) + 1 : SubSeq(q, 1, m)[k] = q[(1 + k) - 1]
      BY <3>2, SubSeqProperties
    <3>4. (m - 1) + 1 = m /\ \A k \in 1 .. m : (1 + k) - 1 = k
      BY <3>2
    <3>5. Len(SubSeq(q, 1, m)) = m
      BY <3>2, <3>3
    <3>6. QED
      BY <2>1, <3>1, <3>3, <3>4, <3>5
  <2>4. b \in Seq(SlabSet) /\ Len(b) = n - i /\ \A k \in 1 .. n - i : b[k] = q[i + k]
    <3>1. PICK m : m = i + 1
      OBVIOUS
    <3>2. m \in Int /\ n \in Int /\ \A k \in m .. n : q[k] \in SlabSet
      BY <1>2, <3>1
    <3>3. /\ SubSeq(q, m, n) \in Seq(SlabSet)
          /\ Len(SubSeq(q, m, n)) = IF m <= n THEN (n - m) + 1 ELSE 0
          /\ \A k \in 1 .. (n - m) + 1 : SubSeq(q, m, n)[k] = q[(m + k) - 1]
      BY <3>2, SubSeqProperties
    <3>4. (n - m) + 1 = n - i /\ \A k \in 1 .. n - i : (m + k) - 1 = i + k
      BY <1>2, <3>1
    <3>5. Len(SubSeq(q, m, n)) = n - i
      BY <1>2, <3>1, <3>3
    <3>6. QED
      BY <2>1, <3>1, <3>3, <3>4, <3>5
  <2>5. /\ r \in Seq(SlabSet) /\ Len(r) = Len(a) + Len(b)
        /\ \A k \in 1 .. Len(a) + Len(b) : r[k] = IF k <= Len(a) THEN a[k] ELSE b[k - Len(a)]
    <3>1. a \in Seq(SlabSet) /\ b \in Seq(SlabSet)
      BY <2>3, <2>4
    <3>2. /\ a \o b \in Seq(SlabSet) /\ Len(a \o b) = Len(a) + Len(b)
          /\ \A k \in 1 .. Len(a) + Len(b) :
               (a \o b)[k] = IF k <= Len(a) THEN a[k] ELSE b[k - Len(a)]
      BY <3>1, ConcatProperties
    <3>3. QED
      BY <2>1, <3>2, Zenon
  <2>6. Len(r) = n - 1 /\ \A k \in 1 .. n - 1 : r[k] = IF k <= i - 1 THEN a[k] ELSE b[k - (i - 1)]
    <3>1. Len(a) + Len(b) = n - 1
      BY <1>2, <2>3, <2>4
    <3>2. QED
      BY <2>3, <2>5, <3>1, Zenon
  <2>7. \A k \in 1 .. i - 1 : q[k] = r[k]
    <3> SUFFICES ASSUME NEW k \in 1 .. i - 1 PROVE q[k] = r[k]
      OBVIOUS
    <3>1. k \in 1 .. n - 1 /\ k <= i - 1
      BY <1>2
    <3>2. r[k] = a[k]
      BY <2>6, <3>1
    <3>3. QED
      BY <2>3, <3>2
  <2>8. \A k \in i .. n - 1 : q[k + 1] = r[k]
    <3> SUFFICES ASSUME NEW k \in i .. n - 1 PROVE q[k + 1] = r[k]
      OBVIOUS
    <3>1. PICK m : m = k - (i - 1)
      OBVIOUS
    <3>2. k \in 1 .. n - 1 /\ ~(k <= i - 1) /\ m \in 1 .. n - i /\ i + m = k + 1
      BY <1>2, <3>1
    <3>3. r[k] = b[m]
      BY <2>6, <3>1, <3>2
    <3>4. b[m] = q[i + m]
      BY <2>4, <3>2
    <3>5. QED
      BY <3>2, <3>3, <3>4, Zenon
  <2>9. n = (n - 1) + 1 /\ i \in 1 .. (n - 1) + 1
    BY <1>2
  <2>10. Inserted(r, q, i, q[i])
    BY <1>1, <2>6, <2>7, <2>8, <2>9, Zenon DEF Inserted
  <2>11. QED
    BY <2>2, <2>5, <2>10, Zenon
<1>6. QED
  BY <1>1, <1>3, <1>4, <1>5, Zenon

\* Where slab k of cache d is after a slab was put into c as number i.
Moved(d, c, i, k) == IF d = c /\ k >= i THEN k + 1 ELSE k

\* The slabs of Q are those of P, moved, and the new one.
Shifted(P, Q, c, i, s) ==
  /\ i \in 1 .. Len(Q[c]) /\ Q[c][i] = s /\ s \in SlabSet /\ i \in Nat \ {0}
  /\ \A d \in Caches : \A k \in 1 .. Len(P[d]) :
       /\ Moved(d, c, i, k) \in 1 .. Len(Q[d]) /\ Q[d][Moved(d, c, i, k)] = P[d][k]
       /\ ~(d = c /\ Moved(d, c, i, k) = i)
  /\ \A d \in Caches : \A k \in 1 .. Len(Q[d]) :
       (d = c /\ k = i) \/ \E m \in 1 .. Len(P[d]) : k = Moved(d, c, i, m)
  /\ \A d : \A k, m \in Nat : Moved(d, c, i, k) = Moved(d, c, i, m) => k = m
  /\ \A d : \A k \in Nat : i # 1 => (k = 1 <=> Moved(d, c, i, k) = 1)

(* The slabs are the ones from before and the new one.                     *)
LEMMA PutSlabs ==
  ASSUME NEW P \in Pools, NEW Q, NEW c \in Caches, NEW i, NEW s, Put(P, Q, c, i, s)
  PROVE  Shifted(P, Q, c, i, s)
<1>1. PICK q, r, n : q = P[c] /\ r = Q[c] /\ n = Len(P[c])
  OBVIOUS
<1>2. /\ q \in Seq(SlabSet) /\ n = Len(q) /\ n \in Nat
      /\ \A d \in Caches : P[d] \in Seq(SlabSet)
  BY <1>1 DEF Pools
<1>3. /\ r \in Seq(SlabSet) /\ Len(r) = n + 1 /\ i \in 1 .. n + 1 /\ r[i] = s
      /\ \A k \in 1 .. i - 1 : r[k] = q[k]
      /\ \A k \in i .. n : r[k + 1] = q[k]
      /\ \A d \in Caches : d # c => Q[d] = P[d]
  <2>1. Inserted(q, r, i, s) /\ \A d \in Caches : d # c => Q[d] = P[d]
    BY <1>1 DEF Put
  <2>2. QED
    BY <1>2, <2>1 DEF Inserted
<1>4. i \in 1 .. Len(Q[c]) /\ Q[c][i] = s /\ s \in SlabSet /\ i \in Nat \ {0}
  <2>1. i \in 1 .. Len(r) /\ i \in Nat \ {0}
    BY <1>2, <1>3
  <2>2. s \in SlabSet
    BY <1>3, <2>1, ElementOfSeq
  <2>3. QED
    BY <1>1, <1>3, <2>1, <2>2
<1>5. ASSUME NEW d \in Caches, NEW k \in 1 .. Len(P[d])
      PROVE  /\ Moved(d, c, i, k) \in 1 .. Len(Q[d]) /\ Q[d][Moved(d, c, i, k)] = P[d][k]
             /\ ~(d = c /\ Moved(d, c, i, k) = i)
  <2>1. CASE d # c
    <3>1. Moved(d, c, i, k) = k /\ Q[d] = P[d]
      BY <1>3, <2>1 DEF Moved
    <3>2. QED
      BY <2>1, <3>1
  <2>2. CASE d = c
    <3>1. k \in 1 .. n /\ P[d] = q /\ Q[d] = r
      BY <1>1, <2>2
    <3>2. CASE k >= i
      <4>1. Moved(d, c, i, k) = k + 1
        BY <2>2, <3>2 DEF Moved
      <4>2. k \in i .. n /\ k + 1 \in 1 .. n + 1 /\ k + 1 # i
        BY <1>2, <1>3, <3>1, <3>2
      <4>3. r[k + 1] = q[k]
        BY <1>3, <4>2
      <4>4. QED
        BY <1>3, <3>1, <4>1, <4>2, <4>3
    <3>3. CASE ~(k >= i)
      <4>1. Moved(d, c, i, k) = k
        BY <2>2, <3>3 DEF Moved
      <4>2. k \in 1 .. i - 1 /\ k \in 1 .. n + 1 /\ k # i
        BY <1>2, <1>3, <3>1, <3>3
      <4>3. r[k] = q[k]
        BY <1>3, <4>2
      <4>4. QED
        BY <1>3, <3>1, <4>1, <4>2, <4>3
    <3>4. QED
      BY <3>2, <3>3
  <2>3. QED
    BY <2>1, <2>2
<1>6. ASSUME NEW d \in Caches, NEW k \in 1 .. Len(Q[d])
      PROVE  (d = c /\ k = i) \/ \E m \in 1 .. Len(P[d]) : k = Moved(d, c, i, m)
  <2>1. CASE d # c
    <3>1. k \in 1 .. Len(P[d]) /\ k = Moved(d, c, i, k)
      BY <1>3, <2>1 DEF Moved
    <3>2. QED
      BY <3>1
  <2>2. CASE d = c
    <3>1. k \in 1 .. n + 1 /\ Len(P[d]) = n
      BY <1>1, <1>3, <2>2
    <3>2. CASE k > i
      <4>1. PICK m : m = k - 1
        OBVIOUS
      <4>2. m \in 1 .. n /\ m >= i /\ m + 1 = k
        BY <1>2, <1>3, <3>1, <3>2, <4>1
      <4>3. k = Moved(d, c, i, m)
        BY <2>2, <4>2 DEF Moved
      <4>4. QED
        BY <3>1, <4>2, <4>3
    <3>3. CASE k < i
      <4>1. k \in 1 .. n /\ ~(k >= i)
        BY <1>2, <1>3, <3>1, <3>3
      <4>2. k = Moved(d, c, i, k)
        BY <4>1 DEF Moved
      <4>3. QED
        BY <3>1, <4>1, <4>2
    <3>4. k > i \/ k < i \/ k = i
      BY <1>2, <1>3, <3>1
    <3>5. QED
      BY <2>2, <3>2, <3>3, <3>4
  <2>3. QED
    BY <2>1, <2>2
<1>7. \A d : \A k, m \in Nat : Moved(d, c, i, k) = Moved(d, c, i, m) => k = m
  BY <1>4 DEF Moved
<1>8. \A d : \A k \in Nat : i # 1 => (k = 1 <=> Moved(d, c, i, k) = 1)
  BY <1>4 DEF Moved
<1>9. QED
  BY <1>4, <1>5, <1>6, <1>7, <1>8 DEF Shifted

\* What a slab is described by, if it is.
LabelOf(s) == {l \in Places \X Objects \X Objects : l = <<s.page, s.header, s.map>>}

(* Pages, descriptions and counters grow by those of the slab.             *)
LEMMA PutIs ==
  ASSUME NEW P \in Pools, NEW Q, NEW c \in Caches, NEW i, NEW s, Put(P, Q, c, i, s)
  PROVE  /\ PagesOf(Q) = PagesOf(P) \cup {s.page} /\ s.page \in Places
         /\ Labels(Q) = Labels(P) \cup LabelOf(s)
         /\ \A u : InSmall(Q, u) <=> InSmall(P, u) \/ (c \in Small /\ s.page = u[1])
         /\ Apart(Q) <=> Apart(P) /\ s.page \notin PagesOf(P)
         /\ Total(Using(Q[c])) = Total(Using(P[c])) + s.using_count
         /\ Total(Left(Q[c])) = Total(Left(P[c])) + s.free_count
<1>0. Shifted(P, Q, c, i, s)
  BY PutSlabs
<1>1. i \in 1 .. Len(Q[c]) /\ Q[c][i] = s /\ s \in SlabSet /\ i \in Nat \ {0}
  BY <1>0 DEF Shifted
<1>11. ASSUME NEW d \in Caches, NEW k \in 1 .. Len(P[d])
       PROVE  /\ Moved(d, c, i, k) \in 1 .. Len(Q[d]) /\ Q[d][Moved(d, c, i, k)] = P[d][k]
              /\ ~(d = c /\ Moved(d, c, i, k) = i)
  BY <1>0, Zenon DEF Shifted
<1>12. ASSUME NEW d \in Caches, NEW k \in 1 .. Len(Q[d])
       PROVE  (d = c /\ k = i) \/ \E m \in 1 .. Len(P[d]) : k = Moved(d, c, i, m)
  BY <1>0, Zenon DEF Shifted
<1>13. \A d : \A k, m \in Nat : Moved(d, c, i, k) = Moved(d, c, i, m) => k = m
  BY <1>0, Zenon DEF Shifted
<1>2. s.page \in Places
  BY <1>1 DEF SlabSet
<1>3. \A d \in Caches : \A k \in 1 .. Len(P[d]) :
        \E m \in 1 .. Len(Q[d]) : Q[d][m] = P[d][k]
  BY <1>11, Zenon
<1>4. \A d \in Caches : \A k \in 1 .. Len(Q[d]) :
        (d = c /\ Q[d][k] = s) \/ \E m \in 1 .. Len(P[d]) : Q[d][k] = P[d][m]
  <2> SUFFICES ASSUME NEW d \in Caches, NEW k \in 1 .. Len(Q[d])
               PROVE  (d = c /\ Q[d][k] = s) \/ \E m \in 1 .. Len(P[d]) : Q[d][k] = P[d][m]
    OBVIOUS
  <2>1. CASE d = c /\ k = i
    BY <1>1, <2>1
  <2>2. CASE \E m \in 1 .. Len(P[d]) : k = Moved(d, c, i, m)
    BY <1>11, <2>2, Zenon
  <2>3. QED
    BY <1>12, <2>1, <2>2
<1>5. PagesOf(Q) = PagesOf(P) \cup {s.page}
  <2>1. ASSUME NEW p \in PagesOf(Q) PROVE p \in PagesOf(P) \cup {s.page}
    <3>1. p \in Places /\ \E d \in Caches : \E k \in 1 .. Len(Q[d]) : Q[d][k].page = p
      BY <2>1 DEF PagesOf
    <3>20. PICK d \in Caches : \E k \in 1 .. Len(Q[d]) : Q[d][k].page = p
      BY <3>1
    <3>2. PICK k \in 1 .. Len(Q[d]) : Q[d][k].page = p
      BY <3>20
    <3>3. (d = c /\ Q[d][k] = s) \/ \E m \in 1 .. Len(P[d]) : Q[d][k] = P[d][m]
      BY <1>4
    <3>4. p = s.page \/ \E m \in 1 .. Len(P[d]) : P[d][m].page = p
      BY <3>2, <3>3
    <3>5. QED
      BY <3>1, <3>4 DEF PagesOf
  <2>2. ASSUME NEW p \in PagesOf(P) PROVE p \in PagesOf(Q)
    <3>1. p \in Places /\ \E d \in Caches : \E k \in 1 .. Len(P[d]) : P[d][k].page = p
      BY <2>2 DEF PagesOf
    <3>20. PICK d \in Caches : \E k \in 1 .. Len(P[d]) : P[d][k].page = p
      BY <3>1
    <3>2. PICK k \in 1 .. Len(P[d]) : P[d][k].page = p
      BY <3>20
    <3>3. \E m \in 1 .. Len(Q[d]) : Q[d][m] = P[d][k]
      BY <1>3
    <3>4. QED
      BY <3>1, <3>2, <3>3 DEF PagesOf
  <2>3. s.page \in PagesOf(Q)
    BY <1>1, <1>2 DEF PagesOf
  <2>4. QED
    BY <2>1, <2>2, <2>3
<1>6. Labels(Q) = Labels(P) \cup LabelOf(s)
  <2>1. ASSUME NEW l \in Labels(Q) PROVE l \in Labels(P) \cup LabelOf(s)
    <3>1. /\ l \in Places \X Objects \X Objects
          /\ \E d \in Caches : \E k \in 1 .. Len(Q[d]) :
               l = <<Q[d][k].page, Q[d][k].header, Q[d][k].map>>
      BY <2>1 DEF Labels
    <3>20. PICK d \in Caches : \E k \in 1 .. Len(Q[d]) :
            l = <<Q[d][k].page, Q[d][k].header, Q[d][k].map>>
      BY <3>1
    <3>2. PICK k \in 1 .. Len(Q[d]) :
            l = <<Q[d][k].page, Q[d][k].header, Q[d][k].map>>
      BY <3>20
    <3>3. (d = c /\ Q[d][k] = s) \/ \E m \in 1 .. Len(P[d]) : Q[d][k] = P[d][m]
      BY <1>4
    <3>4. CASE Q[d][k] = s
      BY <3>1, <3>2, <3>4 DEF LabelOf
    <3>5. CASE \E m \in 1 .. Len(P[d]) : Q[d][k] = P[d][m]
      <4>1. PICK m \in 1 .. Len(P[d]) : Q[d][k] = P[d][m]
        BY <3>5
      <4>2. l = <<P[d][m].page, P[d][m].header, P[d][m].map>>
        BY <3>2, <4>1
      <4>3. QED
        BY <3>1, <4>2 DEF Labels
    <3>6. QED
      BY <3>3, <3>4, <3>5
  <2>2. ASSUME NEW l \in Labels(P) PROVE l \in Labels(Q)
    <3>1. /\ l \in Places \X Objects \X Objects
          /\ \E d \in Caches : \E k \in 1 .. Len(P[d]) :
               l = <<P[d][k].page, P[d][k].header, P[d][k].map>>
      BY <2>2 DEF Labels
    <3>20. PICK d \in Caches : \E k \in 1 .. Len(P[d]) :
            l = <<P[d][k].page, P[d][k].header, P[d][k].map>>
      BY <3>1
    <3>2. PICK k \in 1 .. Len(P[d]) :
            l = <<P[d][k].page, P[d][k].header, P[d][k].map>>
      BY <3>20
    <3>3. PICK m \in 1 .. Len(Q[d]) : Q[d][m] = P[d][k]
      BY <1>3
    <3>4. l = <<Q[d][m].page, Q[d][m].header, Q[d][m].map>>
      BY <3>2, <3>3
    <3>5. QED
      BY <3>1, <3>4 DEF Labels
  <2>3. ASSUME NEW l \in LabelOf(s) PROVE l \in Labels(Q)
    <3>1. l \in Places \X Objects \X Objects /\ l = <<Q[c][i].page, Q[c][i].header, Q[c][i].map>>
      BY <1>1, <2>3 DEF LabelOf
    <3>2. QED
      BY <1>1, <3>1 DEF Labels
  <2>4. QED
    BY <2>1, <2>2, <2>3
<1>7. ASSUME NEW u
      PROVE  InSmall(Q, u) <=> InSmall(P, u) \/ (c \in Small /\ s.page = u[1])
  <2>1. Small \subseteq Caches
    BY TheCaches
  <2>2. ASSUME InSmall(Q, u) PROVE InSmall(P, u) \/ (c \in Small /\ s.page = u[1])
    <3>10. PICK d \in Small : \E k \in 1 .. Len(Q[d]) : Q[d][k].page = u[1]
      BY <2>2 DEF InSmall
    <3>1. PICK k \in 1 .. Len(Q[d]) : Q[d][k].page = u[1]
      BY <3>10
    <3>2. (d = c /\ Q[d][k] = s) \/ \E m \in 1 .. Len(P[d]) : Q[d][k] = P[d][m]
      BY <1>4, <2>1
    <3>3. QED
      BY <3>1, <3>2 DEF InSmall
  <2>3. ASSUME InSmall(P, u) PROVE InSmall(Q, u)
    <3>10. PICK d \in Small : \E k \in 1 .. Len(P[d]) : P[d][k].page = u[1]
      BY <2>3 DEF InSmall
    <3>1. PICK k \in 1 .. Len(P[d]) : P[d][k].page = u[1]
      BY <3>10
    <3>2. \E m \in 1 .. Len(Q[d]) : Q[d][m] = P[d][k]
      BY <1>3, <2>1
    <3>3. QED
      BY <3>1, <3>2 DEF InSmall
  <2>4. ASSUME c \in Small, s.page = u[1] PROVE InSmall(Q, u)
    BY <1>1, <2>4 DEF InSmall
  <2>5. QED
    BY <2>2, <2>3, <2>4
<1>8. \A d \in Caches : \A k \in 1 .. Len(P[d]) : k \in Nat
  BY DEF Pools
<1>9. ASSUME Apart(Q) PROVE Apart(P) /\ s.page \notin PagesOf(P)
  <2>1. ASSUME NEW d \in Caches, NEW e \in Caches, NEW k \in 1 .. Len(P[d]),
               NEW m \in 1 .. Len(P[e]), P[d][k].page = P[e][m].page
        PROVE  d = e /\ k = m
    <3>1. PICK x, y : x = Moved(d, c, i, k) /\ y = Moved(e, c, i, m)
      OBVIOUS
    <3>2. /\ x \in 1 .. Len(Q[d]) /\ Q[d][x] = P[d][k]
          /\ y \in 1 .. Len(Q[e]) /\ Q[e][y] = P[e][m]
      BY <1>11, <3>1, Zenon
    <3>21. Q[d][x].page = Q[e][y].page
      BY <2>1, <3>2, Zenon
    <3>3. d = e /\ x = y
      <4>1. x \in 1 .. Len(Q[d]) /\ y \in 1 .. Len(Q[e])
        BY <3>2
      <4>2. QED
        BY <1>9, <3>21, <4>1, Zenon DEF Apart
    <3>31. k \in Nat /\ m \in Nat
      BY <1>8
    <3>4. k = m
      BY <1>13, <3>1, <3>3, <3>31, Zenon
    <3>5. QED
      BY <3>3, <3>4
  <2>2. ASSUME s.page \in PagesOf(P) PROVE FALSE
    <3>10. PICK d \in Caches : \E k \in 1 .. Len(P[d]) : P[d][k].page = s.page
      BY <2>2 DEF PagesOf
    <3>1. PICK k \in 1 .. Len(P[d]) : P[d][k].page = s.page
      BY <3>10
    <3>2. PICK x : x = Moved(d, c, i, k)
      OBVIOUS
    <3>3. x \in 1 .. Len(Q[d]) /\ Q[d][x].page = s.page /\ ~(d = c /\ x = i)
      BY <1>11, <3>1, <3>2, Zenon
    <3>4. d = c /\ x = i
      BY <1>1, <1>9, <3>3 DEF Apart
    <3>5. QED
      BY <3>3, <3>4
  <2>3. QED
    BY <2>1, <2>2 DEF Apart
<1>10. ASSUME Apart(P), s.page \notin PagesOf(P) PROVE Apart(Q)
  <2> SUFFICES ASSUME NEW d \in Caches, NEW e \in Caches, NEW x \in 1 .. Len(Q[d]),
                      NEW y \in 1 .. Len(Q[e]), Q[d][x].page = Q[e][y].page
               PROVE  d = e /\ x = y
    BY DEF Apart
  <2>1. \A f \in Caches : \A k \in 1 .. Len(P[f]) : P[f][k].page # s.page
    BY <1>2, <1>10 DEF PagesOf
  <2>2. (d = c /\ x = i) \/ \E k \in 1 .. Len(P[d]) : x = Moved(d, c, i, k) /\ Q[d][x] = P[d][k]
    <3>1. (d = c /\ x = i) \/ \E k \in 1 .. Len(P[d]) : x = Moved(d, c, i, k)
      BY <1>12
    <3>2. \A k \in 1 .. Len(P[d]) : Q[d][Moved(d, c, i, k)] = P[d][k]
      BY <1>11
    <3>3. QED
      BY <3>1, <3>2, Zenon
  <2>3. (e = c /\ y = i) \/ \E k \in 1 .. Len(P[e]) : y = Moved(e, c, i, k) /\ Q[e][y] = P[e][k]
    <3>1. (e = c /\ y = i) \/ \E k \in 1 .. Len(P[e]) : y = Moved(e, c, i, k)
      BY <1>12
    <3>2. \A k \in 1 .. Len(P[e]) : Q[e][Moved(e, c, i, k)] = P[e][k]
      BY <1>11
    <3>3. QED
      BY <3>1, <3>2, Zenon
  <2>4. CASE d = c /\ x = i
    <3>1. Q[d][x] = s
      BY <1>1, <2>4
    <3>2. CASE e = c /\ y = i
      BY <2>4, <3>2
    <3>3. CASE \E k \in 1 .. Len(P[e]) : y = Moved(e, c, i, k) /\ Q[e][y] = P[e][k]
      BY <2>1, <3>1, <3>3
    <3>4. QED
      BY <2>3, <3>2, <3>3
  <2>5. CASE \E k \in 1 .. Len(P[d]) : x = Moved(d, c, i, k) /\ Q[d][x] = P[d][k]
    <3>1. PICK k \in 1 .. Len(P[d]) : x = Moved(d, c, i, k) /\ Q[d][x] = P[d][k]
      BY <2>5
    <3>2. CASE e = c /\ y = i
      <4>1. Q[e][y] = s
        BY <1>1, <3>2
      <4>2. QED
        BY <2>1, <3>1, <4>1
    <3>3. CASE \E m \in 1 .. Len(P[e]) : y = Moved(e, c, i, m) /\ Q[e][y] = P[e][m]
      <4>1. PICK m \in 1 .. Len(P[e]) : y = Moved(e, c, i, m) /\ Q[e][y] = P[e][m]
        BY <3>3
      <4>2. P[d][k].page = P[e][m].page
        BY <3>1, <4>1
      <4>3. d = e /\ k = m
        BY <1>10, <4>2 DEF Apart
      <4>4. QED
        BY <3>1, <4>1, <4>3
    <3>4. QED
      BY <2>3, <3>2, <3>3
  <2>6. QED
    BY <2>2, <2>4, <2>5
<1>14. /\ Total(Using(Q[c])) = Total(Using(P[c])) + s.using_count
       /\ Total(Left(Q[c])) = Total(Left(P[c])) + s.free_count
  <2>1. PICK q, r, n : q = P[c] /\ r = Q[c] /\ n = Len(P[c])
    OBVIOUS
  <2>2. q \in Seq(SlabSet) /\ n = Len(q) /\ n \in Nat
    BY <2>1 DEF Pools
  <2>3. /\ r \in Seq(SlabSet) /\ Len(r) = n + 1 /\ i \in 1 .. n + 1 /\ r[i] = s
        /\ \A k \in 1 .. i - 1 : r[k] = q[k]
        /\ \A k \in i .. n : r[k + 1] = q[k]
    BY <2>1, <2>2, Zenon DEF Put, Inserted
  <2>4. \A k \in 1 .. i - 1 : k \in 1 .. n /\ k \in 1 .. n + 1
    BY <2>2, <2>3
  <2>5. \A k \in i .. n : k \in 1 .. n /\ k + 1 \in 1 .. n + 1
    BY <2>2, <2>3
  <2>6. Total(Using(r)) = Total(Using(q)) + s.using_count
    <3>1. PICK f, g : f = Using(q) /\ g = Using(r)
      OBVIOUS
    <3>2. /\ f \in [1 .. n -> Int] /\ \A k \in 1 .. n : f[k] = q[k].using_count
          /\ g \in [1 .. n + 1 -> Int] /\ \A k \in 1 .. n + 1 : g[k] = r[k].using_count
      BY <2>2, <2>3, <3>1, CountsOf, Zenon
    <3>3. g[i] = s.using_count
      BY <2>3, <3>2, Zenon
    <3>4. (\A k \in 1 .. i - 1 : g[k] = f[k]) /\ (\A k \in i .. n : g[k + 1] = f[k])
      BY <2>3, <2>4, <2>5, <3>2, Zenon
    <3>5. Total(g) = Total(f) + g[i]
      BY <2>2, <2>3, <3>2, <3>4, TotalInsert
    <3>6. QED
      BY <3>1, <3>3, <3>5, Zenon
  <2>7. Total(Left(r)) = Total(Left(q)) + s.free_count
    <3>1. PICK f, g : f = Left(q) /\ g = Left(r)
      OBVIOUS
    <3>2. /\ f \in [1 .. n -> Int] /\ \A k \in 1 .. n : f[k] = q[k].free_count
          /\ g \in [1 .. n + 1 -> Int] /\ \A k \in 1 .. n + 1 : g[k] = r[k].free_count
      BY <2>2, <2>3, <3>1, CountsOf, Zenon
    <3>3. g[i] = s.free_count
      BY <2>3, <3>2, Zenon
    <3>4. (\A k \in 1 .. i - 1 : g[k] = f[k]) /\ (\A k \in i .. n : g[k + 1] = f[k])
      BY <2>3, <2>4, <2>5, <3>2, Zenon
    <3>5. Total(g) = Total(f) + g[i]
      BY <2>2, <2>3, <3>2, <3>4, TotalInsert
    <3>6. QED
      BY <3>1, <3>3, <3>5, Zenon
  <2>8. QED
    BY <2>1, <2>6, <2>7, Zenon
<1>15. QED
  BY <1>2, <1>5, <1>6, <1>7, <1>9, <1>10, <1>14, Zenon

\* Every slab is good for the objects in use.
AllGood(P, U) == \A d \in Caches : \A k \in 1 .. Len(P[d]) : Good(P[d][k], U, d, k)

(* A slab that does not become a static one leaves the others good.        *)
LEMMA PutGood ==
  ASSUME NEW P \in Pools, NEW Q, NEW c \in Caches, NEW i, NEW s, Put(P, Q, c, i, s),
         i # 1 \/ c \in Created, NEW U
  PROVE  AllGood(Q, U) <=> AllGood(P, U) /\ Good(s, U, c, i)
<1>0. Shifted(P, Q, c, i, s)
  BY PutSlabs
<1>1. /\ i \in 1 .. Len(Q[c]) /\ Q[c][i] = s
      /\ \A d : \A k \in Nat : i # 1 => (k = 1 <=> Moved(d, c, i, k) = 1)
  BY <1>0, Zenon DEF Shifted
<1>11. ASSUME NEW d \in Caches, NEW k \in 1 .. Len(P[d])
       PROVE  Moved(d, c, i, k) \in 1 .. Len(Q[d]) /\ Q[d][Moved(d, c, i, k)] = P[d][k]
  BY <1>0, Zenon DEF Shifted
<1>12. ASSUME NEW d \in Caches, NEW k \in 1 .. Len(Q[d])
       PROVE  (d = c /\ k = i) \/ \E m \in 1 .. Len(P[d]) : k = Moved(d, c, i, m)
  BY <1>0, Zenon DEF Shifted
<1>2. ASSUME NEW d \in Caches, NEW k \in 1 .. Len(P[d])
      PROVE  \/ Moved(d, c, i, k) = k
             \/ d \in Created \/ (k # 1 /\ Moved(d, c, i, k) # 1)
  <2>1. k \in Nat
    BY DEF Pools
  <2>2. CASE d # c
    BY <2>2 DEF Moved
  <2>3. CASE d = c /\ c \in Created
    BY <2>3
  <2>4. CASE d = c /\ i # 1
    <3>1. CASE k = 1
      <4>1. Moved(d, c, i, k) = 1
        BY <1>1, <2>1, <2>4, <3>1, Zenon
      <4>2. QED
        BY <3>1, <4>1
    <3>2. CASE k # 1
      BY <1>1, <2>1, <2>4, <3>2, Zenon
    <3>3. QED
      BY <3>1, <3>2
  <2>5. QED
    BY <2>2, <2>3, <2>4
<1>3. ASSUME AllGood(Q, U) PROVE AllGood(P, U) /\ Good(s, U, c, i)
  <2>1. Good(s, U, c, i)
    BY <1>1, <1>3 DEF AllGood
  <2>2. ASSUME NEW d \in Caches, NEW k \in 1 .. Len(P[d]) PROVE Good(P[d][k], U, d, k)
    <3>1. PICK x, t : x = Moved(d, c, i, k) /\ t = P[d][k]
      OBVIOUS
    <3>2. x \in 1 .. Len(Q[d]) /\ Q[d][x] = t
      BY <1>11, <3>1, Zenon
    <3>3. Good(t, U, d, x)
      BY <1>3, <3>2 DEF AllGood
    <3>4. x = k \/ d \in Created \/ (k # 1 /\ x # 1)
      BY <1>2, <3>1, Zenon
    <3>5. CASE x = k
      BY <3>1, <3>3, <3>5
    <3>6. CASE d \in Created \/ (x # 1 /\ k # 1)
      <4>1. Good(t, U, d, k)
        BY <3>3, <3>6, GoodMoves, Zenon
      <4>2. QED
        BY <3>1, <4>1
    <3>7. QED
      BY <3>4, <3>5, <3>6
  <2>3. QED
    BY <2>1, <2>2 DEF AllGood
<1>4. ASSUME AllGood(P, U), Good(s, U, c, i) PROVE AllGood(Q, U)
  <2> SUFFICES ASSUME NEW d \in Caches, NEW x \in 1 .. Len(Q[d]) PROVE Good(Q[d][x], U, d, x)
    BY DEF AllGood
  <2>1. CASE d = c /\ x = i
    BY <1>1, <1>4, <2>1
  <2>2. CASE \E m \in 1 .. Len(P[d]) : x = Moved(d, c, i, m)
    <3>1. PICK k \in 1 .. Len(P[d]) : x = Moved(d, c, i, k)
      BY <2>2
    <3>2. PICK t : t = P[d][k]
      OBVIOUS
    <3>3. Q[d][x] = t
      BY <1>11, <3>1, <3>2, Zenon
    <3>4. Good(t, U, d, k)
      BY <1>4, <3>2 DEF AllGood
    <3>5. x = k \/ d \in Created \/ (k # 1 /\ x # 1)
      BY <1>2, <3>1, Zenon
    <3>6. CASE x = k
      BY <3>3, <3>4, <3>6
    <3>7. CASE d \in Created \/ (k # 1 /\ x # 1)
      <4>1. Good(t, U, d, x)
        BY <3>4, <3>7, GoodMoves, Zenon
      <4>2. QED
        BY <3>3, <4>1
    <3>8. QED
      BY <3>5, <3>6, <3>7
  <2>3. QED
    BY <1>12, <2>1, <2>2, Zenon
<1>5. QED
  BY <1>3, <1>4

(* The heap, when the objects U are in use and the pages F neither free    *)
(* nor in a slab.                                                          *)
Sound(h, U, F) ==
  /\ h \in HeapSet /\ U \in SUBSET Objects /\ F \in SUBSET Pages
  /\ AllGood(h.pool, U) /\ Apart(h.pool)
  /\ \A u \in U : u[1] \in PagesOf(h.pool)
  /\ PagesOf(h.pool) \cap (h.pages \cup F) = {} /\ F \cap h.pages = {}
  /\ Pages \subseteq PagesOf(h.pool) \cup h.pages \cup F
  /\ \A d \in Caches : /\ h.total_using[d] = Total(Using(h.pool[d]))
                       /\ h.total_free[d] = Total(Left(h.pool[d]))
  /\ \A d \in Caches \ Created : Len(h.pool[d]) >= 1

\* Slab i of pool c becomes s, and the pool counts what it counts.
Changed(h, g, c, i, s) ==
  /\ g \in HeapSet /\ g.pool = Replaced(h.pool, c, i, s) /\ g.pages = h.pages
  /\ g.total_using[c] = (h.total_using[c] + s.using_count) - h.pool[c][i].using_count
  /\ g.total_free[c] = (h.total_free[c] + s.free_count) - h.pool[c][i].free_count
  /\ \A d \in Caches : d # c => /\ g.total_using[d] = h.total_using[d]
                                /\ g.total_free[d] = h.total_free[d]

(* The fields of a heap.                                                   *)
LEMMA TheHeap ==
  ASSUME NEW h \in HeapSet
  PROVE  /\ h.pool \in Pools /\ h.total_using \in [Caches -> Int]
         /\ h.total_free \in [Caches -> Int] /\ h.pages \in SUBSET Pages
         /\ \A c \in Caches : /\ h.pool[c] \in Seq(SlabSet) /\ Len(h.pool[c]) \in Nat
                              /\ DOMAIN h.pool[c] = 1 .. Len(h.pool[c])
         /\ \A c \in Caches : \A i \in 1 .. Len(h.pool[c]) : h.pool[c][i] \in SlabSet /\ i \in Nat
<1>1. /\ h.pool \in Pools /\ h.total_using \in [Caches -> Int]
      /\ h.total_free \in [Caches -> Int] /\ h.pages \in SUBSET Pages
  BY DEF HeapSet, Pools
<1>2. ASSUME NEW c \in Caches
      PROVE  /\ h.pool[c] \in Seq(SlabSet) /\ Len(h.pool[c]) \in Nat
             /\ DOMAIN h.pool[c] = 1 .. Len(h.pool[c])
  BY <1>1 DEF Pools
<1>3. ASSUME NEW c \in Caches, NEW i \in 1 .. Len(h.pool[c])
      PROVE  h.pool[c][i] \in SlabSet /\ i \in Nat
  BY <1>2, ElementOfSeq
<1>4. QED
  BY <1>1, <1>2, <1>3

(* Taking an object and giving one back change one slab.                   *)
LEMMA TakeChanges ==
  ASSUME NEW h \in HeapSet, NEW c \in Caches, NEW i \in 1 .. Len(h.pool[c]),
         Bits(h.pool[c][i].color_count) \ h.pool[c][i].color_map # {},
         h.pool[c][i].free_count > 0
  PROVE  \E j \in Bits(h.pool[c][i].color_count) \ h.pool[c][i].color_map :
           /\ Changed(h, DoSlabMalloc(h, c, i).heap, c, i, Taken(h.pool[c][i], j))
           /\ DoSlabMalloc(h, c, i).obj = Address(h.pool[c][i].page, j)
<1>1. PICK s, clear, j : s = h.pool[c][i] /\ clear = Bits(s.color_count) \ s.color_map
                         /\ j = Min(clear)
  OBVIOUS
<1>2. s \in SlabSet /\ i \in Nat /\ s.free_count > 0
  BY <1>1, TheHeap
<1>3. j \in clear
  <2>1. clear \in SUBSET Nat
    BY <1>1 DEF Bits
  <2>2. \E x \in clear : \A y \in clear : x <= y
    BY <1>1, <2>1, LeastOf
  <2>3. QED
    BY <1>1, <2>2 DEF Min
<1>4. j \in Nat
  BY <1>1, <1>3 DEF Bits
<1>5. PICK t : t = Taken(s, j)
  OBVIOUS
<1>6. t \in SlabSet /\ t.using_count = s.using_count + 1 /\ t.free_count = s.free_count - 1
      /\ s.using_count \in Nat /\ s.free_count \in Nat
      /\ t.page = s.page /\ t.header = s.header /\ t.map = s.map
  BY <1>2, <1>4, <1>5, TakenIs DEF SlabSet
<1>7. PICK g : g = [h EXCEPT
             !.pool[c][i].color_map = @ \cup {j},
             !.pool[c][i].using_count = @ + 1,
             !.pool[c][i].free_count = @ - 1,
             !.total_using[c] = @ + 1,
             !.total_free[c] = @ - 1]
  OBVIOUS
<1>8. DoSlabMalloc(h, c, i) = [heap |-> g, obj |-> Address(s.page, j)]
  BY <1>1, <1>7 DEF DoSlabMalloc
<1>9. /\ h.pool \in [Caches -> Seq(SlabSet)] /\ h.total_using \in [Caches -> Int]
      /\ h.total_free \in [Caches -> Int] /\ h.pages \in SUBSET Pages
      /\ DOMAIN h = {"pool", "total_using", "total_free", "pages"}
  BY DEF HeapSet
<1>10. PICK P, Q, q : P = h.pool /\ Q = g.pool /\ q = h.pool[c]
  OBVIOUS
<1>11. /\ P \in [Caches -> Seq(SlabSet)] /\ P[c] = q /\ q[i] = s
       /\ q \in Seq(SlabSet) /\ i \in DOMAIN q
  BY <1>1, <1>9, <1>10, TheHeap
<1>12. g.pool = [h.pool EXCEPT ![c][i].color_map = @ \cup {j}, ![c][i].using_count = @ + 1, ![c][i].free_count = @ - 1]
  BY <1>7, <1>9
<1>13. Q = [P EXCEPT ![c][i].color_map = @ \cup {j}, ![c][i].using_count = @ + 1, ![c][i].free_count = @ - 1]
  BY <1>10, <1>12, Zenon
<1>14. Q = [d \in Caches |-> Q[d]] /\ \A d \in Caches : d # c => Q[d] = P[d]
  BY <1>11, <1>13
<1>15. Q[c] = [q EXCEPT ![i].color_map = @ \cup {j}, ![i].using_count = @ + 1, ![i].free_count = @ - 1]
  BY <1>11, <1>13
<1>16. [q EXCEPT ![i].color_map = @ \cup {j}, ![i].using_count = @ + 1, ![i].free_count = @ - 1]
         = [q EXCEPT ![i] = t]
  BY <1>1, <1>5, <1>11 DEF Taken, SlabSet
<1>17. Q[c] = [q EXCEPT ![i] = t]
  BY <1>15, <1>16, Zenon
<1>18. Q = [P EXCEPT ![c] = [q EXCEPT ![i] = t]]
  BY <1>11, <1>14, <1>17
<1>19. g.pool = Replaced(h.pool, c, i, t)
  BY <1>10, <1>18, Zenon DEF Replaced
<1>20. Replaced(h.pool, c, i, t) \in Pools
  <2>1. h.pool \in Pools /\ t \in SlabSet /\ t.page = h.pool[c][i].page
        /\ t.header = h.pool[c][i].header /\ t.map = h.pool[c][i].map
    BY <1>1, <1>6, TheHeap
  <2>2. QED
    BY <2>1, ReplacedIs, Zenon DEF ReplacedAt
<1>21. /\ g.total_using \in [Caches -> Int] /\ g.total_using[c] = h.total_using[c] + 1
       /\ \A d \in Caches : d # c => g.total_using[d] = h.total_using[d]
  BY <1>7, <1>9
<1>22. /\ g.total_free \in [Caches -> Int] /\ g.total_free[c] = h.total_free[c] - 1
       /\ \A d \in Caches : d # c => g.total_free[d] = h.total_free[d]
  BY <1>7, <1>9
<1>23. g.pages = h.pages
  BY <1>7, <1>9
<1>24. g \in HeapSet
  <2>1. g = [pool |-> g.pool, total_using |-> g.total_using, total_free |-> g.total_free,
             pages |-> g.pages]
    BY <1>7, <1>9 DEF HeapSet
  <2>2. g.pool \in [Caches -> Seq(SlabSet)] /\ g.pages \in SUBSET Pages
    BY <1>9, <1>19, <1>20, <1>23 DEF Pools
  <2>3. QED
    BY <1>21, <1>22, <2>1, <2>2 DEF HeapSet
<1>25. /\ g.total_using[c] = (h.total_using[c] + t.using_count) - s.using_count
       /\ g.total_free[c] = (h.total_free[c] + t.free_count) - s.free_count
  <2>1. h.total_using[c] \in Int /\ h.total_free[c] \in Int
    BY <1>9
  <2>2. g.total_using[c] = h.total_using[c] + 1 /\ g.total_free[c] = h.total_free[c] - 1
    BY <1>21, <1>22, Zenon
  <2>3. PICK a, b, n, m : a = h.total_using[c] /\ b = h.total_free[c] /\ n = s.using_count
                          /\ m = s.free_count
    OBVIOUS
  <2>4. a \in Int /\ b \in Int /\ n \in Nat /\ m \in Nat
    BY <1>6, <2>1, <2>3
  <2>5. a + 1 = (a + (n + 1)) - n /\ b - 1 = (b + (m - 1)) - m
    BY <2>4
  <2>6. QED
    BY <1>6, <2>2, <2>3, <2>5, Zenon
<1>26. Changed(h, g, c, i, t)
  BY <1>1, <1>19, <1>21, <1>22, <1>23, <1>24, <1>25, Zenon DEF Changed
<1>27. QED
  BY <1>1, <1>3, <1>5, <1>8, <1>26

(* Giving an object back changes one slab and the counters of its cache.   *)
LEMMA FreeChanges ==
  ASSUME NEW h \in HeapSet, NEW c \in Caches, NEW i \in 1 .. Len(h.pool[c]), NEW j,
         j \in h.pool[c][i].color_map, h.pool[c][i].using_count >= 1
  PROVE  Changed(h, Release(h, c, i, j), c, i, Freed(h.pool[c][i], j))
<1>1. PICK s : s = h.pool[c][i]
  OBVIOUS
<1>2. s \in SlabSet /\ i \in Nat /\ j \in s.color_map /\ s.using_count >= 1
  BY <1>1, TheHeap
<1>4. j \in Nat
  BY <1>2 DEF SlabSet
<1>5. PICK t : t = Freed(s, j)
  OBVIOUS
<1>6. /\ t \in SlabSet /\ t.using_count = s.using_count - 1 /\ t.free_count = s.free_count + 1
      /\ s.using_count \in Nat /\ s.free_count \in Nat
      /\ t.page = s.page /\ t.header = s.header /\ t.map = s.map
  BY <1>2, <1>4, <1>5, FreedIs DEF SlabSet
<1>7. PICK g : g = [h EXCEPT
            !.pool[c][i].color_map = SymDiff(@, {j}),
            !.pool[c][i].free_count = @ + 1,
            !.pool[c][i].using_count = @ - 1,
            !.total_free[c] = @ + 1,
            !.total_using[c] = @ - 1]
  OBVIOUS
<1>8. Release(h, c, i, j) = g
  BY <1>7 DEF Release
<1>9. /\ h.pool \in [Caches -> Seq(SlabSet)] /\ h.total_using \in [Caches -> Int]
      /\ h.total_free \in [Caches -> Int] /\ h.pages \in SUBSET Pages
      /\ DOMAIN h = {"pool", "total_using", "total_free", "pages"}
  BY DEF HeapSet
<1>10. PICK P, Q, q : P = h.pool /\ Q = g.pool /\ q = h.pool[c]
  OBVIOUS
<1>11. /\ P \in [Caches -> Seq(SlabSet)] /\ P[c] = q /\ q[i] = s
       /\ q \in Seq(SlabSet) /\ i \in DOMAIN q
  BY <1>1, <1>9, <1>10, TheHeap
<1>12. g.pool = [h.pool EXCEPT ![c][i].color_map = SymDiff(@, {j}), ![c][i].free_count = @ + 1, ![c][i].using_count = @ - 1]
  BY <1>7, <1>9
<1>13. Q = [P EXCEPT ![c][i].color_map = SymDiff(@, {j}), ![c][i].free_count = @ + 1, ![c][i].using_count = @ - 1]
  BY <1>10, <1>12, Zenon
<1>14. Q = [d \in Caches |-> Q[d]] /\ \A d \in Caches : d # c => Q[d] = P[d]
  BY <1>11, <1>13
<1>15. Q[c] = [q EXCEPT ![i].color_map = SymDiff(@, {j}), ![i].free_count = @ + 1, ![i].using_count = @ - 1]
  BY <1>11, <1>13
<1>16. [q EXCEPT ![i].color_map = SymDiff(@, {j}), ![i].free_count = @ + 1, ![i].using_count = @ - 1]
         = [q EXCEPT ![i] = t]
  BY <1>1, <1>5, <1>11 DEF Freed, SlabSet
<1>17. Q[c] = [q EXCEPT ![i] = t]
  BY <1>15, <1>16, Zenon
<1>18. Q = [P EXCEPT ![c] = [q EXCEPT ![i] = t]]
  BY <1>11, <1>14, <1>17
<1>19. g.pool = Replaced(h.pool, c, i, t)
  BY <1>10, <1>18, Zenon DEF Replaced
<1>20. Replaced(h.pool, c, i, t) \in Pools
  <2>1. h.pool \in Pools /\ t \in SlabSet /\ t.page = h.pool[c][i].page
        /\ t.header = h.pool[c][i].header /\ t.map = h.pool[c][i].map
    BY <1>1, <1>6, TheHeap
  <2>2. QED
    BY <2>1, ReplacedIs, Zenon DEF ReplacedAt
<1>21. /\ g.total_using \in [Caches -> Int] /\ g.total_using[c] = h.total_using[c] - 1
       /\ \A d \in Caches : d # c => g.total_using[d] = h.total_using[d]
  BY <1>7, <1>9
<1>22. /\ g.total_free \in [Caches -> Int] /\ g.total_free[c] = h.total_free[c] + 1
       /\ \A d \in Caches : d # c => g.total_free[d] = h.total_free[d]
  BY <1>7, <1>9
<1>23. g.pages = h.pages
  BY <1>7, <1>9
<1>24. g \in HeapSet
  <2>1. g = [pool |-> g.pool, total_using |-> g.total_using, total_free |-> g.total_free,
             pages |-> g.pages]
    BY <1>7, <1>9 DEF HeapSet
  <2>2. g.pool \in [Caches -> Seq(SlabSet)] /\ g.pages \in SUBSET Pages
    BY <1>9, <1>19, <1>20, <1>23 DEF Pools
  <2>3. QED
    BY <1>21, <1>22, <2>1, <2>2 DEF HeapSet
<1>25. /\ g.total_using[c] = (h.total_using[c] + t.using_count) - s.using_count
       /\ g.total_free[c] = (h.total_free[c] + t.free_count) - s.free_count
  <2>1. h.total_using[c] \in Int /\ h.total_free[c] \in Int
    BY <1>9
  <2>2. g.total_using[c] = h.total_using[c] - 1 /\ g.total_free[c] = h.total_free[c] + 1
    BY <1>21, <1>22, Zenon
  <2>3. PICK a, b, n, m : a = h.total_using[c] /\ b = h.total_free[c] /\ n = s.using_count
                          /\ m = s.free_count
    OBVIOUS
  <2>4. a \in Int /\ b \in Int /\ n \in Nat /\ m \in Nat
    BY <1>6, <2>1, <2>3
  <2>5. a - 1 = (a + (n - 1)) - n /\ b + 1 = (b + (m + 1)) - m
    BY <2>4
  <2>6. QED
    BY <1>6, <2>2, <2>3, <2>5, Zenon
<1>26. Changed(h, g, c, i, t)
  BY <1>1, <1>19, <1>21, <1>22, <1>23, <1>24, <1>25, Zenon DEF Changed
<1>27. QED
  BY <1>1, <1>5, <1>8, <1>26

(* A slab that stays on its page may change with the objects of that page. *)
LEMMA ChangedSound ==
  ASSUME NEW h, NEW U, NEW F, Sound(h, U, F), NEW g, NEW c \in Caches,
         NEW i \in 1 .. Len(h.pool[c]), NEW s \in SlabSet, Changed(h, g, c, i, s),
         s.page = h.pool[c][i].page, s.header = h.pool[c][i].header, s.map = h.pool[c][i].map,
         NEW U2 \in SUBSET Objects, Good(s, U2, c, i),
         \A u : u[1] # s.page => (u \in U <=> u \in U2)
  PROVE  Sound(g, U2, F) /\ SameShape(h.pool, g.pool)
<1>1. h \in HeapSet /\ h.pool \in Pools /\ g \in HeapSet
  BY TheHeap DEF Sound, Changed
<1>20. ReplacedAt(h.pool, g.pool, c, i, s)
  <2>1. ReplacedAt(h.pool, Replaced(h.pool, c, i, s), c, i, s)
    BY <1>1, ReplacedIs, Zenon
  <2>2. QED
    BY <2>1, Zenon DEF Changed
<1>2. /\ SameShape(h.pool, g.pool) /\ g.pool[c][i] = s
      /\ \A d \in Caches : d # c => g.pool[d] = h.pool[d]
      /\ \A d \in Caches : \A k \in 1 .. Len(h.pool[d]) :
           d # c \/ k # i => g.pool[d][k] = h.pool[d][k]
      /\ Total(Using(g.pool[c])) = (Total(Using(h.pool[c])) + s.using_count) - h.pool[c][i].using_count
      /\ Total(Left(g.pool[c])) = (Total(Left(h.pool[c])) + s.free_count) - h.pool[c][i].free_count
  BY <1>20, Zenon DEF ReplacedAt
<1>3. /\ PagesOf(g.pool) = PagesOf(h.pool) /\ Apart(g.pool)
  BY <1>1, <1>2, ShapeSame DEF Sound
<1>4. \A d \in Caches : Len(g.pool[d]) = Len(h.pool[d])
  BY <1>2 DEF SameShape
<1>5. \A d \in Caches : /\ g.total_using[d] = Total(Using(g.pool[d]))
                        /\ g.total_free[d] = Total(Left(g.pool[d]))
  <2> SUFFICES ASSUME NEW d \in Caches
               PROVE  g.total_using[d] = Total(Using(g.pool[d]))
                      /\ g.total_free[d] = Total(Left(g.pool[d]))
    OBVIOUS
  <2>1. h.total_using[d] = Total(Using(h.pool[d])) /\ h.total_free[d] = Total(Left(h.pool[d]))
    BY DEF Sound
  <2>2. CASE d # c
    <3>1. g.total_using[d] = h.total_using[d] /\ g.total_free[d] = h.total_free[d]
      BY <2>2, Zenon DEF Changed
    <3>2. g.pool[d] = h.pool[d]
      BY <1>2, <2>2
    <3>3. QED
      BY <2>1, <3>1, <3>2, Zenon
  <2>3. CASE d = c
    <3>1. /\ g.total_using[c] = (h.total_using[c] + s.using_count) - h.pool[c][i].using_count
          /\ g.total_free[c] = (h.total_free[c] + s.free_count) - h.pool[c][i].free_count
      BY Zenon DEF Changed
    <3>2. QED
      BY <1>2, <2>1, <2>3, <3>1, Zenon
  <2>4. QED
    BY <2>2, <2>3
<1>6. AllGood(g.pool, U2)
  <2> SUFFICES ASSUME NEW d \in Caches, NEW k \in 1 .. Len(g.pool[d])
               PROVE  Good(g.pool[d][k], U2, d, k)
    BY DEF AllGood
  <2>1. k \in 1 .. Len(h.pool[d])
    BY <1>4, Zenon
  <2>2. CASE d = c /\ k = i
    BY <1>2, <2>2, Zenon
  <2>3. CASE d # c \/ k # i
    <3>1. PICK t : t = h.pool[d][k]
      OBVIOUS
    <3>2. g.pool[d][k] = t /\ Good(t, U, d, k)
      BY <1>2, <2>1, <2>3, <3>1, Zenon DEF Sound, AllGood
    <3>3. t.page # s.page
      <4>1. ASSUME t.page = s.page PROVE FALSE
        <5>1. h.pool[d][k].page = h.pool[c][i].page
          BY <3>1, <4>1
        <5>2. Apart(h.pool)
          BY DEF Sound
        <5>3. d = c /\ k = i
          BY <2>1, <5>1, <5>2 DEF Apart
        <5>4. QED
          BY <2>3, <5>3
      <4>2. QED
        BY <4>1
    <3>4. \A u : u[1] = t.page => (u \in U <=> u \in U2)
      BY <3>3
    <3>5. Good(t, U2, d, k)
      BY <3>2, <3>4, GoodOther, Zenon
    <3>6. QED
      BY <3>2, <3>5, Zenon
  <2>4. QED
    BY <2>2, <2>3
<1>7. \A u \in U2 : u[1] \in PagesOf(g.pool)
  <2> SUFFICES ASSUME NEW u \in U2 PROVE u[1] \in PagesOf(h.pool)
    BY <1>3
  <2>1. CASE u[1] # s.page
    BY <2>1 DEF Sound
  <2>2. CASE u[1] = s.page
    <3>1. h.pool[c][i].page = u[1] /\ u[1] \in Places
      BY <2>2 DEF SlabSet
    <3>2. QED
      BY <3>1 DEF PagesOf
  <2>3. QED
    BY <2>1, <2>2
<1>8. g.pages = h.pages
  BY DEF Changed
<1>9. Sound(g, U2, F)
  <2>1. /\ F \in SUBSET Pages
        /\ PagesOf(g.pool) \cap (g.pages \cup F) = {} /\ F \cap g.pages = {}
        /\ Pages \subseteq PagesOf(g.pool) \cup g.pages \cup F
    BY <1>3, <1>8 DEF Sound
  <2>2. \A d \in Caches \ Created : Len(g.pool[d]) >= 1
    BY <1>4 DEF Sound
  <2>3. QED
    BY <1>1, <1>3, <1>5, <1>6, <1>7, <2>1, <2>2, Zenon DEF Sound
<1>10. QED
  BY <1>2, <1>9

\* An object u of slab i of pool c was taken.
TakenFrom(h, g, c, i, u, U, F) ==
  /\ u \in Objects \ U /\ u[1] = h.pool[c][i].page
  /\ Sound(g, U \cup {u}, F) /\ SameShape(h.pool, g.pool)
  /\ \A d \in Caches : d # c => g.pool[d] = h.pool[d]
  /\ \A k \in 1 .. Len(h.pool[c]) : k # i => g.pool[c][k] = h.pool[c][k]
  /\ g.pool[c][i].using_count >= 1 /\ g.pages = h.pages

(* kmalloc hands out an object that was not in use,                        *)
LEMMA TakeSound ==
  ASSUME NEW h, NEW U, NEW F, Sound(h, U, F), NEW c \in Caches,
         NEW i \in 1 .. Len(h.pool[c]),
         Bits(h.pool[c][i].color_count) \ h.pool[c][i].color_map # {}
  PROVE  \E u \in Objects : /\ TakenFrom(h, DoSlabMalloc(h, c, i).heap, c, i, u, U, F)
                            /\ DoSlabMalloc(h, c, i).obj = Address(u[1], u[2])
<1>1. PICK s, r : s = h.pool[c][i] /\ r = DoSlabMalloc(h, c, i)
  OBVIOUS
<1>2. h \in HeapSet /\ U \in SUBSET Objects /\ i \in Nat /\ s \in SlabSet /\ Good(s, U, c, i)
      /\ h.pool \in Pools
  BY <1>1, TheHeap DEF Sound, AllGood
<1>3. s.free_count > 0
  BY <1>1, <1>2, GoodCounts
<1>4. PICK j \in Bits(s.color_count) \ s.color_map :
        Changed(h, r.heap, c, i, Taken(s, j)) /\ r.obj = Address(s.page, j)
  BY <1>1, <1>2, <1>3, TakeChanges, Zenon
<1>5. PICK u, t, g : u = <<s.page, j>> /\ t = Taken(s, j) /\ g = r.heap
  OBVIOUS
<1>6. /\ u \in Objects /\ u \notin U /\ Good(t, U \cup {u}, c, i) /\ t.using_count >= 1
  BY <1>2, <1>5, TakenGood
<1>7. j \in Nat
  BY <1>4 DEF Bits
<1>8. t \in SlabSet /\ t.page = s.page /\ t.header = s.header /\ t.map = s.map
  BY <1>2, <1>3, <1>5, <1>7, TakenIs
<1>9. u[1] = s.page /\ u[2] = j
  BY <1>5
<1>10. \A w : w[1] # t.page => (w \in U <=> w \in U \cup {u})
  BY <1>8, <1>9
<1>11. Changed(h, g, c, i, t)
  BY <1>4, <1>5
<1>12. Sound(g, U \cup {u}, F) /\ SameShape(h.pool, g.pool)
  <2>1. U \cup {u} \in SUBSET Objects
    BY <1>2, <1>6
  <2>2. t.page = h.pool[c][i].page /\ t.header = h.pool[c][i].header /\ t.map = h.pool[c][i].map
    BY <1>1, <1>8
  <2>3. QED
    BY <1>6, <1>8, <1>10, <1>11, <2>1, <2>2, ChangedSound, Zenon
<1>13. /\ \A d \in Caches : d # c => g.pool[d] = h.pool[d]
       /\ \A k \in 1 .. Len(h.pool[c]) : k # i => g.pool[c][k] = h.pool[c][k]
       /\ g.pool[c][i] = t
  <2>1. g.pool = Replaced(h.pool, c, i, t)
    BY <1>11 DEF Changed
  <2>2. t.page = h.pool[c][i].page /\ t.header = h.pool[c][i].header /\ t.map = h.pool[c][i].map
    BY <1>1, <1>8
  <2>3. ReplacedAt(h.pool, g.pool, c, i, t)
    BY <1>2, <1>8, <2>1, <2>2, ReplacedIs, Zenon
  <2>4. QED
    BY <2>3, Zenon DEF ReplacedAt
<1>14. g.pages = h.pages
  BY <1>11 DEF Changed
<1>15. TakenFrom(h, g, c, i, u, U, F)
  BY <1>1, <1>6, <1>9, <1>12, <1>13, <1>14 DEF TakenFrom
<1>16. QED
  BY <1>1, <1>4, <1>5, <1>6, <1>9, <1>15

\* Object u of slab i of pool c was given back.
FreedFrom(h, g, c, i, u, U, F) ==
  /\ Sound(g, U \ {u}, F) /\ SameShape(h.pool, g.pool)
  /\ \A d \in Caches : d # c => g.pool[d] = h.pool[d]
  /\ \A k \in 1 .. Len(h.pool[c]) : k # i => g.pool[c][k] = h.pool[c][k]
  /\ g.pages = h.pages

(* and kfree takes back one that was.                                      *)
LEMMA FreeSound ==
  ASSUME NEW h, NEW U, NEW F, Sound(h, U, F), NEW c \in Caches,
         NEW i \in 1 .. Len(h.pool[c]), NEW u \in U, u[1] = h.pool[c][i].page
  PROVE  FreedFrom(h, Release(h, c, i, u[2]), c, i, u, U, F)
<1>1. PICK s, g, t : s = h.pool[c][i] /\ g = Release(h, c, i, u[2]) /\ t = Freed(s, u[2])
  OBVIOUS
<1>2. h \in HeapSet /\ U \in SUBSET Objects /\ i \in Nat /\ s \in SlabSet /\ Good(s, U, c, i)
      /\ h.pool \in Pools
  BY <1>1, TheHeap DEF Sound, AllGood
<1>3. u[2] \in s.color_map /\ s.using_count >= 1 /\ Good(t, U \ {u}, c, i)
  BY <1>1, <1>2, FreedGood
<1>4. Changed(h, g, c, i, t)
  BY <1>1, <1>2, <1>3, FreeChanges
<1>5. t \in SlabSet /\ t.page = s.page /\ t.header = s.header /\ t.map = s.map
  <2>1. u[2] \in Nat
    BY <1>2, <1>3 DEF SlabSet
  <2>2. QED
    BY <1>1, <1>2, <1>3, <2>1, FreedIs
<1>6. t.page = h.pool[c][i].page /\ t.header = h.pool[c][i].header /\ t.map = h.pool[c][i].map
  BY <1>1, <1>5
<1>7. \A w : w[1] # t.page => (w \in U <=> w \in U \ {u})
  BY <1>1, <1>5
<1>8. Sound(g, U \ {u}, F) /\ SameShape(h.pool, g.pool)
  <2>1. U \ {u} \in SUBSET Objects
    BY <1>2
  <2>2. QED
    BY <1>3, <1>4, <1>5, <1>6, <1>7, <2>1, ChangedSound, Zenon
<1>9. /\ \A d \in Caches : d # c => g.pool[d] = h.pool[d]
      /\ \A k \in 1 .. Len(h.pool[c]) : k # i => g.pool[c][k] = h.pool[c][k]
  <2>1. g.pool = Replaced(h.pool, c, i, t)
    BY <1>4 DEF Changed
  <2>2. ReplacedAt(h.pool, g.pool, c, i, t)
    BY <1>2, <1>5, <1>6, <2>1, ReplacedIs, Zenon
  <2>3. QED
    BY <2>2, Zenon DEF ReplacedAt
<1>10. g.pages = h.pages
  BY <1>4 DEF Changed
<1>11. QED
  BY <1>1, <1>8, <1>9, <1>10, Zenon DEF FreedFrom

\* Slab s, without an object in use, is in g but not in h.
Grown(h, g, c, i, s) ==
  /\ h \in HeapSet /\ g \in HeapSet /\ Put(h.pool, g.pool, c, i, s) /\ s.using_count = 0
  /\ i # 1 \/ c \in Created
  /\ g.total_using[c] = h.total_using[c] /\ g.total_free[c] = h.total_free[c] + s.free_count
  /\ \A d \in Caches : d # c => /\ g.total_using[d] = h.total_using[d]
                                /\ g.total_free[d] = h.total_free[d]

(* A slab that is linked, and one that is dropped.                         *)
LEMMA GrownSound ==
  ASSUME NEW h, NEW g, NEW c \in Caches, NEW i, NEW s, Grown(h, g, c, i, s),
         NEW U, NEW F
  PROVE  /\ Sound(h, U, F) /\ g.pages = h.pages /\ s.page \in F /\ Good(s, U, c, i)
              => Sound(g, U, F \ {s.page})
         /\ Sound(g, U, F) /\ h.pages = g.pages \cup {s.page} => Sound(h, U, F)
<1>1. PICK P, Q : P = h.pool /\ Q = g.pool
  OBVIOUS
<1>2. P \in Pools /\ Q \in Pools /\ Put(P, Q, c, i, s)
  BY <1>1, TheHeap DEF Grown
<1>3. /\ PagesOf(Q) = PagesOf(P) \cup {s.page} /\ s.page \in Places
      /\ Apart(Q) <=> Apart(P) /\ s.page \notin PagesOf(P)
      /\ Total(Using(Q[c])) = Total(Using(P[c])) + s.using_count
      /\ Total(Left(Q[c])) = Total(Left(P[c])) + s.free_count
  BY <1>2, PutIs
<1>4. AllGood(Q, U) <=> AllGood(P, U) /\ Good(s, U, c, i)
  BY <1>2, PutGood DEF Grown
<1>5. \A d \in Caches : d # c => Q[d] = P[d]
  BY <1>2 DEF Put
<1>6. Total(Using(Q[c])) = Total(Using(P[c]))
  <2>1. s.using_count = 0
    BY DEF Grown
  <2>2. Total(Using(P[c])) \in Int
    <3>1. P[c] \in Seq(SlabSet)
      BY <1>2 DEF Pools
    <3>2. Len(P[c]) \in Nat /\ Using(P[c]) \in [1 .. Len(P[c]) -> Nat]
      BY <3>1, CountsOf
    <3>3. Total(Using(P[c])) \in Nat
      BY <3>2, TotalNat
    <3>4. QED
      BY <3>3
  <2>3. QED
    BY <1>3, <2>1, <2>2
<1>7. Total(Left(P[c])) \in Int /\ s.free_count \in Int
  <2>1. P[c] \in Seq(SlabSet)
    BY <1>2 DEF Pools
  <2>2. Len(P[c]) \in Nat /\ Left(P[c]) \in [1 .. Len(P[c]) -> Nat]
    BY <2>1, CountsOf
  <2>3. Total(Left(P[c])) \in Nat
    BY <2>2, TotalNat
  <2>4. Q[c] \in Seq(SlabSet) /\ i \in 1 .. Len(Q[c]) /\ Q[c][i] = s
    <3>1. Shifted(P, Q, c, i, s)
      BY <1>2, PutSlabs
    <3>2. Q[c] \in Seq(SlabSet)
      BY <1>2 DEF Pools
    <3>3. QED
      BY <3>1, <3>2 DEF Shifted
  <2>5. s \in SlabSet
    BY <2>4, ElementOfSeq
  <2>6. QED
    BY <2>3, <2>5 DEF SlabSet
<1>8. (\A d \in Caches : /\ g.total_using[d] = Total(Using(Q[d]))
                         /\ g.total_free[d] = Total(Left(Q[d])))
      <=> (\A d \in Caches : /\ h.total_using[d] = Total(Using(P[d]))
                             /\ h.total_free[d] = Total(Left(P[d])))
  <2> SUFFICES ASSUME NEW d \in Caches
               PROVE  (/\ g.total_using[d] = Total(Using(Q[d]))
                       /\ g.total_free[d] = Total(Left(Q[d])))
                      <=> (/\ h.total_using[d] = Total(Using(P[d]))
                           /\ h.total_free[d] = Total(Left(P[d])))
    OBVIOUS
  <2>1. CASE d # c
    <3>1. g.total_using[d] = h.total_using[d] /\ g.total_free[d] = h.total_free[d]
      BY <2>1, Zenon DEF Grown
    <3>2. QED
      BY <1>5, <2>1, <3>1, Zenon
  <2>2. CASE d = c
    <3>1. PICK x, y, a, n : x = h.total_free[c] /\ y = g.total_free[c] /\ a = Total(Left(P[c]))
                            /\ n = s.free_count
      OBVIOUS
    <3>2. x \in Int /\ a \in Int /\ n \in Int /\ y = x + n /\ Total(Left(Q[c])) = a + n
      <4>1. x \in Int
        <5>1. h \in HeapSet
          BY DEF Grown
        <5>2. h.total_free \in [Caches -> Int]
          BY <5>1, TheHeap
        <5>3. QED
          BY <3>1, <5>2
      <4>2. y = x + n
        BY <3>1, Zenon DEF Grown
      <4>3. QED
        BY <1>3, <1>7, <3>1, <4>1, <4>2
    <3>3. y = a + n <=> x = a
      BY <3>2
    <3>4. g.total_free[c] = Total(Left(Q[c])) <=> h.total_free[c] = Total(Left(P[c]))
      BY <3>1, <3>2, <3>3, Zenon
    <3>5. g.total_using[c] = h.total_using[c]
      BY Zenon DEF Grown
    <3>6. QED
      BY <1>6, <2>2, <3>4, <3>5, Zenon
  <2>3. QED
    BY <2>1, <2>2
<1>9. Len(Q[c]) = Len(P[c]) + 1 /\ Len(P[c]) \in Nat /\ i \in 1 .. Len(P[c]) + 1
  <2>1. Inserted(P[c], Q[c], i, s)
    BY <1>2 DEF Put
  <2>2. P[c] \in Seq(SlabSet)
    BY <1>2 DEF Pools
  <2>3. QED
    BY <2>1, <2>2 DEF Inserted
<1>10. (\A d \in Caches \ Created : Len(Q[d]) >= 1)
       <=> (\A d \in Caches \ Created : Len(P[d]) >= 1)
  <2> SUFFICES ASSUME NEW d \in Caches \ Created PROVE Len(Q[d]) >= 1 <=> Len(P[d]) >= 1
    OBVIOUS
  <2>1. CASE d # c
    BY <1>5, <2>1
  <2>2. CASE d = c
    <3>1. i # 1
      BY <2>2 DEF Grown
    <3>2. QED
      BY <1>9, <2>2, <3>1
  <2>3. QED
    BY <2>1, <2>2
<1>11. ASSUME Sound(h, U, F), g.pages = h.pages, s.page \in F, Good(s, U, c, i)
       PROVE  Sound(g, U, F \ {s.page})
  <2>1. s.page \notin PagesOf(P)
    BY <1>1, <1>11 DEF Sound
  <2>2. /\ g \in HeapSet /\ U \in SUBSET Objects /\ F \ {s.page} \in SUBSET Pages
        /\ AllGood(Q, U) /\ Apart(Q)
    BY <1>1, <1>3, <1>4, <1>11, <2>1 DEF Sound, Grown
  <2>3. \A u \in U : u[1] \in PagesOf(Q)
    BY <1>1, <1>3, <1>11 DEF Sound
  <2>4. /\ PagesOf(Q) \cap (g.pages \cup (F \ {s.page})) = {} /\ (F \ {s.page}) \cap g.pages = {}
        /\ Pages \subseteq PagesOf(Q) \cup g.pages \cup (F \ {s.page})
    BY <1>1, <1>3, <1>11 DEF Sound
  <2>5. \A d \in Caches : /\ g.total_using[d] = Total(Using(Q[d]))
                          /\ g.total_free[d] = Total(Left(Q[d]))
    BY <1>1, <1>8, <1>11, Zenon DEF Sound
  <2>6. \A d \in Caches \ Created : Len(Q[d]) >= 1
    BY <1>1, <1>10, <1>11, Zenon DEF Sound
  <2>7. QED
    BY <1>1, <2>2, <2>3, <2>4, <2>5, <2>6, Zenon DEF Sound
<1>12. ASSUME Sound(g, U, F), h.pages = g.pages \cup {s.page}
       PROVE  Sound(h, U, F)
  <2>1. Good(s, U, c, i) /\ AllGood(P, U) /\ Apart(P) /\ s.page \notin PagesOf(P)
        /\ U \in SUBSET Objects
    BY <1>1, <1>3, <1>4, <1>12 DEF Sound
  <2>2. OnPage(U, s.page) = {}
    <3>1. s \in SlabSet /\ i \in Nat
      <4>1. Shifted(P, Q, c, i, s)
        BY <1>2, PutSlabs
      <4>2. QED
        BY <4>1 DEF Shifted
    <3>2. s.using_count = 0
      BY DEF Grown
    <3>3. QED
      BY <2>1, <3>1, <3>2, GoodCounts
  <2>3. \A u \in U : u[1] \in PagesOf(P)
    <3>1. \A u \in U : u[1] # s.page
      BY <2>2 DEF OnPage
    <3>2. \A u \in U : u[1] \in PagesOf(Q)
      BY <1>1, <1>12 DEF Sound
    <3>3. QED
      BY <1>3, <3>1, <3>2
  <2>4. s.page \notin F /\ s.page \in PagesOf(Q)
    BY <1>1, <1>3, <1>12 DEF Sound
  <2>5. /\ PagesOf(P) \cap (h.pages \cup F) = {} /\ F \cap h.pages = {}
        /\ Pages \subseteq PagesOf(P) \cup h.pages \cup F /\ F \in SUBSET Pages
    BY <1>1, <1>3, <1>12, <2>1, <2>4 DEF Sound
  <2>6. \A d \in Caches : /\ h.total_using[d] = Total(Using(P[d]))
                          /\ h.total_free[d] = Total(Left(P[d]))
    BY <1>1, <1>8, <1>12, Zenon DEF Sound
  <2>7. \A d \in Caches \ Created : Len(P[d]) >= 1
    BY <1>1, <1>10, <1>12, Zenon DEF Sound
  <2>8. h \in HeapSet
    BY DEF Grown
  <2>9. QED
    BY <1>1, <2>1, <2>3, <2>5, <2>6, <2>7, <2>8, Zenon DEF Sound
<1>13. QED
  BY <1>11, <1>12

(* The page alloc_pages gives,                                             *)
LEMMA PageTaken ==
  ASSUME NEW h, NEW U, NEW F, Sound(h, U, F), h.pages # {}
  PROVE  /\ Min(h.pages) \in h.pages /\ Min(h.pages) \in Pages
         /\ Sound(WithoutPage(h), U, F \cup {Min(h.pages)})
         /\ WithoutPage(h).pool = h.pool /\ WithoutPage(h) \in HeapSet
         /\ WithoutPage(h).total_free = h.total_free
<1>1. PICK p, g : p = Min(h.pages) /\ g = WithoutPage(h)
  OBVIOUS
<1>2. h \in HeapSet /\ h.pages \in SUBSET Pages
  BY TheHeap DEF Sound
<1>3. p \in h.pages
  <2>1. h.pages \in SUBSET Nat
    BY <1>2, TheCaches
  <2>2. \E x \in h.pages : \A y \in h.pages : x <= y
    BY <2>1, LeastOf
  <2>3. QED
    BY <1>1, <2>2 DEF Min
<1>4. g = [h EXCEPT !.pages = @ \ {p}]
  BY <1>1 DEF WithoutPage
<1>5. /\ g \in HeapSet /\ g.pool = h.pool /\ g.total_using = h.total_using
      /\ g.total_free = h.total_free /\ g.pages = h.pages \ {p}
  BY <1>2, <1>4 DEF HeapSet
<1>6. /\ F \cup {p} \in SUBSET Pages
      /\ PagesOf(g.pool) \cap (g.pages \cup (F \cup {p})) = {} /\ (F \cup {p}) \cap g.pages = {}
      /\ Pages \subseteq PagesOf(g.pool) \cup g.pages \cup (F \cup {p})
  BY <1>2, <1>3, <1>5 DEF Sound
<1>7. Sound(g, U, F \cup {p})
  BY <1>5, <1>6, Zenon DEF Sound
<1>8. QED
  BY <1>1, <1>2, <1>3, <1>5, <1>7

(* and one given back.                                                     *)
LEMMA PageGiven ==
  ASSUME NEW h, NEW U, NEW F, Sound(h, U, F), NEW p \in F
  PROVE  /\ Sound([h EXCEPT !.pages = @ \cup {p}], U, F \ {p})
         /\ [h EXCEPT !.pages = @ \cup {p}].pool = h.pool
<1>1. PICK g : g = [h EXCEPT !.pages = @ \cup {p}]
  OBVIOUS
<1>2. h \in HeapSet /\ h.pages \in SUBSET Pages
  BY TheHeap DEF Sound
<1>3. p \in Pages
  BY DEF Sound
<1>5. /\ g \in HeapSet /\ g.pool = h.pool /\ g.total_using = h.total_using
      /\ g.total_free = h.total_free /\ g.pages = h.pages \cup {p}
  BY <1>1, <1>2, <1>3 DEF HeapSet
<1>6. /\ F \ {p} \in SUBSET Pages
      /\ PagesOf(g.pool) \cap (g.pages \cup (F \ {p})) = {} /\ (F \ {p}) \cap g.pages = {}
      /\ Pages \subseteq PagesOf(g.pool) \cup g.pages \cup (F \ {p})
  BY <1>2, <1>3, <1>5 DEF Sound
<1>7. Sound(g, U, F \ {p})
  BY <1>5, <1>6, Zenon DEF Sound
<1>8. QED
  BY <1>1, <1>5, <1>7

(* kfree finds an address in the only slab on its page.                    *)
LEMMA HomeIs ==
  ASSUME NEW h \in HeapSet, Apart(h.pool), NEW c \in Caches, NEW i \in 1 .. Len(h.pool[c]), NEW obj,
         h.pool[c][i].page = obj[1]
  PROVE  Home(h, obj) = [cache |-> c, slab |-> i]
<1>1. PICK D : D = {d \in Caches : \E k \in DOMAIN h.pool[d] : h.pool[d][k].page = obj[1]}
  OBVIOUS
<1>2. \A d \in Caches : DOMAIN h.pool[d] = 1 .. Len(h.pool[d])
  BY TheHeap
<1>3. \A d \in Caches : \A k \in 1 .. Len(h.pool[d]) :
        h.pool[d][k].page = obj[1] => d = c /\ k = i
  BY DEF Apart
<1>4. D = {c}
  BY <1>1, <1>2, <1>3
<1>5. c \in Nat /\ i \in Nat
  BY TheCaches, TheHeap
<1>6. Min(D) = c
  BY <1>4, <1>5 DEF Min
<1>7. {k \in DOMAIN h.pool[c] : h.pool[c][k].page = obj[1]} = {i}
  BY <1>2, <1>3
<1>8. Min({i}) = i
  BY <1>5 DEF Min
<1>9. QED
  BY <1>1, <1>6, <1>7, <1>8, Zenon DEF Home

(* A pool that counts a free object has a slab that does.                  *)
LEMMA FreeIsThere ==
  ASSUME NEW h, NEW U, NEW F, Sound(h, U, F), NEW c \in Caches
  PROVE  /\ h.total_free[c] # 0 =>
              /\ SlabWithFree(h.pool[c]) \in 1 .. Len(h.pool[c])
              /\ h.pool[c][SlabWithFree(h.pool[c])].free_count # 0
         /\ h.total_free[c] = 0 => \A i \in 1 .. Len(h.pool[c]) : h.pool[c][i].using_count # 0
         /\ h.total_using[c] = 0 => \A i \in 1 .. Len(h.pool[c]) : h.pool[c][i].using_count = 0
         /\ h.total_free[c] \in Nat /\ h.total_using[c] \in Nat
<1>1. PICK q, n, f, e : q = h.pool[c] /\ n = Len(h.pool[c]) /\ f = Left(h.pool[c])
                        /\ e = Using(h.pool[c])
  OBVIOUS
<1>2. h \in HeapSet /\ q \in Seq(SlabSet) /\ n = Len(q) /\ n \in Nat /\ DOMAIN q = 1 .. n
      /\ f = Left(q) /\ e = Using(q)
  BY <1>1, TheHeap DEF Sound
<1>3. /\ f \in [1 .. n -> Nat] /\ \A k \in 1 .. n : f[k] = q[k].free_count
      /\ e \in [1 .. n -> Nat] /\ \A k \in 1 .. n : e[k] = q[k].using_count
  BY <1>2, CountsOf
<1>4. h.total_free[c] = Total(f) /\ h.total_using[c] = Total(e)
  BY <1>1, Zenon DEF Sound
<1>5. Total(f) \in Nat /\ Total(e) \in Nat
  BY <1>2, <1>3, TotalNat
<1>6. ASSUME h.total_free[c] # 0
      PROVE  SlabWithFree(q) \in 1 .. n /\ q[SlabWithFree(q)].free_count # 0
  <2>1. PICK free : free = {k \in DOMAIN q : q[k].free_count # 0}
    OBVIOUS
  <2>2. ASSUME free = {} PROVE FALSE
    <3>1. \A k \in 1 .. n : f[k] = 0
      BY <1>2, <1>3, <2>1, <2>2
    <3>2. f = [k \in 1 .. n |-> 0]
      BY <1>3, <3>1
    <3>3. Total(f) = 0
      BY <1>2, <3>2, TotalOfZeros
    <3>4. QED
      BY <1>4, <1>6, <3>3
  <2>3. free \in SUBSET Nat /\ free # {}
    BY <1>2, <2>1, <2>2
  <2>4. \E x \in free : \A y \in free : x <= y
    BY <2>3, LeastOf
  <2>5. Min(free) \in free
    BY <2>4 DEF Min
  <2>6. SlabWithFree(q) = Min(free)
    BY <2>1, <2>3 DEF SlabWithFree
  <2>7. QED
    BY <1>2, <2>1, <2>5, <2>6
<1>7. ASSUME h.total_free[c] = 0, NEW i \in 1 .. n PROVE q[i].using_count # 0
  <2>1. Total(f) >= f[i]
    BY <1>2, <1>3, TotalAbove
  <2>2. f[i] = 0
    BY <1>3, <1>4, <1>7, <2>1
  <2>3. q[i].free_count = 0
    BY <1>3, <2>2
  <2>4. Good(q[i], U, c, i) /\ q[i] \in SlabSet /\ i \in Nat /\ U \in SUBSET Objects
    BY <1>1, <1>2, ElementOfSeq DEF Sound, AllGood
  <2>5. q[i].color_count \in Nat \ {0}
    BY <2>4 DEF SlabSet
  <2>6. q[i].using_count = 0 <=> q[i].free_count = q[i].color_count
    BY <2>4, GoodCounts
  <2>7. QED
    BY <2>3, <2>5, <2>6
<1>8. ASSUME h.total_using[c] = 0, NEW i \in 1 .. n PROVE q[i].using_count = 0
  <2>1. Total(e) >= e[i]
    BY <1>2, <1>3, TotalAbove
  <2>2. e[i] = 0
    BY <1>3, <1>4, <1>8, <2>1
  <2>3. QED
    BY <1>3, <2>2
<1>9. QED
  BY <1>1, <1>4, <1>5, <1>6, <1>7, <1>8, Zenon

-----------------------------------------------------------------------------
\* Each description is of one slab, and no object is in two of them.
Unshared(B) ==
  /\ \A l \in B, m \in B : l[2] # m[3] /\ (l[2] = m[2] => l = m) /\ (l[3] = m[3] => l = m)
  /\ \A l \in B : l[2] # <<0, 0>> /\ l[3] # <<0, 0>>

(* The objects in use are V, those of small caches W, and those the slabs  *)
(* of large classes are described by.                                      *)
Fit(h, V, W, F) ==
  /\ Sound(h, V \cup W \cup Own(Labels(h.pool)), F)
  /\ V \cap W = {} /\ (V \cup W) \cap Own(Labels(h.pool)) = {}
  /\ Unshared(Labels(h.pool))
  /\ \A u \in W \cup Own(Labels(h.pool)) : InSmall(h.pool, u)

\* A pool of kmalloc has no two unused slabs beside its first one.
Tidy(P) ==
  \A c \in Caches \ Created : \A i, j \in 2 .. Len(P[c]) :
    P[c][i].using_count = 0 /\ P[c][j].using_count = 0 => i = j

Ok(h, V, W, F) == Fit(h, V, W, F) /\ Tidy(h.pool)

(* Objects held for a caller may be given to it.                           *)
LEMMA FitHanded ==
  ASSUME NEW h, NEW V, NEW W, NEW F, NEW u \in W, Fit(h, V, W, F)
  PROVE  Fit(h, V \cup {u}, W \ {u}, F)
<1>1. (V \cup {u}) \cup (W \ {u}) = V \cup W
  OBVIOUS
<1>2. (V \cup {u}) \cap (W \ {u}) = {}
  BY DEF Fit
<1>3. \A x \in (W \ {u}) \cup Own(Labels(h.pool)) : InSmall(h.pool, x)
  BY DEF Fit
<1>4. QED
  BY <1>1, <1>2, <1>3, Zenon DEF Fit

\* Slabs may keep their objects in use, and lose others.
Took(h, g, c, i, u, V, W, F) ==
  /\ u \in Objects /\ u \notin V \cup W \cup Own(Labels(h.pool)) /\ u[1] = h.pool[c][i].page
  /\ Fit(g, V \cup {u}, W, F) /\ (c \in Small => Fit(g, V, W \cup {u}, F))
  /\ Tidy(h.pool) => Tidy(g.pool)
  /\ \A d \in Caches : d # c => g.pool[d] = h.pool[d]
  /\ Len(g.pool[c]) = Len(h.pool[c])
  /\ \A k \in 1 .. Len(h.pool[c]) : k # i => g.pool[c][k] = h.pool[c][k]
  /\ g.pool[c][i].using_count >= 1

(* __do_slab_malloc of a slab with a clear bit.                            *)
LEMMA TakeFit ==
  ASSUME NEW h, NEW V, NEW W, NEW F, Fit(h, V, W, F), NEW c \in Caches,
         NEW i \in 1 .. Len(h.pool[c]),
         Bits(h.pool[c][i].color_count) \ h.pool[c][i].color_map # {}
  PROVE  \E u \in Objects : /\ Took(h, DoSlabMalloc(h, c, i).heap, c, i, u, V, W, F)
                            /\ DoSlabMalloc(h, c, i).obj = Address(u[1], u[2])
<1>1. PICK O, U, r : O = Own(Labels(h.pool)) /\ U = V \cup W \cup O /\ r = DoSlabMalloc(h, c, i)
  OBVIOUS
<1>2. Sound(h, U, F) /\ V \cap W = {} /\ (V \cup W) \cap O = {} /\ Unshared(Labels(h.pool))
      /\ \A u \in W \cup O : InSmall(h.pool, u)
  BY <1>1 DEF Fit
<1>3. PICK u \in Objects : TakenFrom(h, r.heap, c, i, u, U, F) /\ r.obj = Address(u[1], u[2])
  <2>1. Sound(h, U, F)
    BY <1>2
  <2>2. \E u \in Objects : /\ TakenFrom(h, DoSlabMalloc(h, c, i).heap, c, i, u, U, F)
                           /\ DoSlabMalloc(h, c, i).obj = Address(u[1], u[2])
    BY <2>1, TakeSound
  <2>3. QED
    BY <1>1, <2>2, Zenon
<1>4. PICK g : g = r.heap
  OBVIOUS
<1>5. /\ u \notin U /\ u[1] = h.pool[c][i].page
      /\ Sound(g, U \cup {u}, F) /\ SameShape(h.pool, g.pool)
      /\ \A d \in Caches : d # c => g.pool[d] = h.pool[d]
      /\ \A k \in 1 .. Len(h.pool[c]) : k # i => g.pool[c][k] = h.pool[c][k]
      /\ g.pool[c][i].using_count >= 1
  BY <1>3, <1>4 DEF TakenFrom
<1>6. h.pool \in Pools /\ h \in HeapSet
  BY <1>2, TheHeap DEF Sound
<1>7. Labels(g.pool) = Labels(h.pool) /\ \A x : InSmall(g.pool, x) <=> InSmall(h.pool, x)
  BY <1>5, <1>6, ShapeSame
<1>8. Own(Labels(g.pool)) = O
  BY <1>1, <1>7
<1>9. Fit(g, V \cup {u}, W, F)
  <2>1. (V \cup {u}) \cup W \cup O = U \cup {u}
    BY <1>1
  <2>2. (V \cup {u}) \cap W = {} /\ ((V \cup {u}) \cup W) \cap O = {}
    BY <1>1, <1>2, <1>5
  <2>3. QED
    BY <1>2, <1>5, <1>7, <1>8, <2>1, <2>2, Zenon DEF Fit
<1>10. ASSUME c \in Small PROVE Fit(g, V, W \cup {u}, F)
  <2>1. V \cup (W \cup {u}) \cup O = U \cup {u}
    BY <1>1
  <2>2. V \cap (W \cup {u}) = {} /\ (V \cup (W \cup {u})) \cap O = {}
    BY <1>1, <1>2, <1>5
  <2>3. InSmall(h.pool, u)
    BY <1>5, <1>10 DEF InSmall
  <2>4. \A x \in (W \cup {u}) \cup O : InSmall(g.pool, x)
    BY <1>2, <1>7, <2>3
  <2>5. QED
    BY <1>2, <1>5, <1>7, <1>8, <2>1, <2>2, <2>4, Zenon DEF Fit
<1>11. \A d \in Caches : Len(g.pool[d]) = Len(h.pool[d])
  BY <1>5 DEF SameShape
<1>12. ASSUME Tidy(h.pool) PROVE Tidy(g.pool)
  <2>1. ASSUME NEW d \in Caches, NEW k \in 2 .. Len(g.pool[d]), g.pool[d][k].using_count = 0
        PROVE  k \in 2 .. Len(h.pool[d]) /\ h.pool[d][k].using_count = 0
    <3>1. k \in 2 .. Len(h.pool[d]) /\ k \in 1 .. Len(h.pool[d])
      BY <1>6, <1>11, TheHeap
    <3>2. CASE d # c \/ k # i
      BY <1>5, <2>1, <3>1, <3>2
    <3>3. CASE d = c /\ k = i
      BY <1>5, <2>1, <3>3
    <3>4. QED
      BY <3>1, <3>2, <3>3
  <2>2. QED
    BY <1>12, <2>1 DEF Tidy
<1>13. Took(h, g, c, i, u, V, W, F)
  BY <1>1, <1>5, <1>9, <1>10, <1>11, <1>12 DEF Took
<1>14. QED
  BY <1>1, <1>3, <1>4, <1>13, Zenon

\* Slab i of pool c lost an object.
Gave(h, g, c, i, u, V, W, F) ==
  /\ Fit(g, V \ {u}, W \ {u}, F)
  /\ \A d \in Caches : d # c => g.pool[d] = h.pool[d]
  /\ Len(g.pool[c]) = Len(h.pool[c])
  /\ \A k \in 1 .. Len(h.pool[c]) : k # i => g.pool[c][k] = h.pool[c][k]

(* kfree, before the slab is looked at.                                    *)
LEMMA FreeFit ==
  ASSUME NEW h, NEW V, NEW W, NEW F, Fit(h, V, W, F), NEW c \in Caches,
         NEW i \in 1 .. Len(h.pool[c]), NEW u \in V \cup W, u[1] = h.pool[c][i].page
  PROVE  Gave(h, Release(h, c, i, u[2]), c, i, u, V, W, F)
<1>1. PICK O, U, g : /\ O = Own(Labels(h.pool)) /\ U = V \cup W \cup O
                     /\ g = Release(h, c, i, u[2])
  OBVIOUS
<1>2. Sound(h, U, F) /\ V \cap W = {} /\ (V \cup W) \cap O = {} /\ Unshared(Labels(h.pool))
      /\ \A x \in W \cup O : InSmall(h.pool, x)
  BY <1>1 DEF Fit
<1>3. FreedFrom(h, g, c, i, u, U, F)
  <2>1. u \in U
    BY <1>1
  <2>2. QED
    BY <1>1, <1>2, <2>1, FreeSound, Zenon
<1>4. /\ Sound(g, U \ {u}, F) /\ SameShape(h.pool, g.pool)
      /\ \A d \in Caches : d # c => g.pool[d] = h.pool[d]
      /\ \A k \in 1 .. Len(h.pool[c]) : k # i => g.pool[c][k] = h.pool[c][k]
  BY <1>3 DEF FreedFrom
<1>5. h.pool \in Pools
  BY <1>2, TheHeap DEF Sound
<1>6. Labels(g.pool) = Labels(h.pool) /\ \A x : InSmall(g.pool, x) <=> InSmall(h.pool, x)
  BY <1>4, <1>5, ShapeSame
<1>7. Own(Labels(g.pool)) = O
  BY <1>1, <1>6
<1>8. Fit(g, V \ {u}, W \ {u}, F)
  <2>1. (V \ {u}) \cup (W \ {u}) \cup O = U \ {u}
    BY <1>1, <1>2
  <2>2. (V \ {u}) \cap (W \ {u}) = {} /\ ((V \ {u}) \cup (W \ {u})) \cap O = {}
    BY <1>2
  <2>3. \A x \in (W \ {u}) \cup O : InSmall(g.pool, x)
    BY <1>2, <1>6
  <2>4. QED
    BY <1>2, <1>4, <1>6, <1>7, <2>1, <2>2, <2>3, Zenon DEF Fit
<1>9. Len(g.pool[c]) = Len(h.pool[c])
  BY <1>4 DEF SameShape
<1>10. QED
  BY <1>1, <1>4, <1>8, <1>9 DEF Gave

(* The heap without an unused slab.                                        *)
LEMMA DropIs ==
  ASSUME NEW h \in HeapSet, NEW c \in Caches, NEW i \in 1 .. Len(h.pool[c]), NEW s,
         s = h.pool[c][i], s.using_count = 0, s.free_count = s.color_count, ~Static(c, i),
         s.page \in Pages
  PROVE  /\ Grown(DropSlab(h, c, i), h, c, i, s)
         /\ DropSlab(h, c, i).pages = h.pages \cup {s.page}
<1>1. PICK q, n, g : q = RemoveAt(h.pool[c], i) /\ n = s.color_count /\ g = DropSlab(h, c, i)
  OBVIOUS
<1>2. /\ h.pool \in [Caches -> Seq(SlabSet)] /\ h.total_using \in [Caches -> Int]
      /\ h.total_free \in [Caches -> Int] /\ h.pages \in SUBSET Pages
      /\ DOMAIN h = {"pool", "total_using", "total_free", "pages"}
  BY DEF HeapSet
<1>3. h.pool[c] \in Seq(SlabSet) /\ i \in 1 .. Len(h.pool[c]) /\ i \in Nat /\ s \in SlabSet
  BY TheHeap
<1>4. q \in Seq(SlabSet) /\ Inserted(q, h.pool[c], i, s)
  <2>1. RemoveAt(h.pool[c], i) \in Seq(SlabSet)
        /\ Inserted(RemoveAt(h.pool[c], i), h.pool[c], i, h.pool[c][i])
    BY <1>3, InsertionsAre, Zenon
  <2>2. QED
    BY <1>1, <2>1, Zenon
<1>5. n \in Int
  <2>1. s \in SlabSet
    BY <1>3
  <2>2. s.color_count \in Nat \ {0}
    BY <2>1 DEF SlabSet
  <2>3. QED
    BY <1>1, <2>2
<1>6. g = [h EXCEPT !.pool[c] = q, !.total_free[c] = @ - n, !.pages = @ \cup {s.page}]
  BY <1>1, Zenon DEF DropSlab
<1>7. g.pool = [h.pool EXCEPT ![c] = q] /\ g.total_using = h.total_using
      /\ g.total_free = [h.total_free EXCEPT ![c] = @ - n] /\ g.pages = h.pages \cup {s.page}
  BY <1>2, <1>6
<1>8. g = [pool |-> g.pool, total_using |-> g.total_using, total_free |-> g.total_free,
           pages |-> g.pages]
  BY <1>6 DEF HeapSet
<1>9. /\ g.pool \in [Caches -> Seq(SlabSet)] /\ g.total_using \in [Caches -> Int]
      /\ g.total_free \in [Caches -> Int] /\ g.pages \in SUBSET Pages
  BY <1>2, <1>4, <1>5, <1>7
<1>10. g \in HeapSet
  BY <1>8, <1>9 DEF HeapSet
<1>11. Put(g.pool, h.pool, c, i, s)
  <2>1. g.pool[c] = q /\ \A d \in Caches : d # c => h.pool[d] = g.pool[d]
    BY <1>2, <1>7
  <2>2. h.pool \in Pools
    BY <1>2 DEF Pools
  <2>3. QED
    BY <1>4, <2>1, <2>2, Zenon DEF Put
<1>12. h.total_free[c] = g.total_free[c] + s.free_count
  <2>1. PICK x : x = h.total_free[c]
    OBVIOUS
  <2>2. x \in Int /\ g.total_free[c] = x - n
    BY <1>2, <1>7, <2>1
  <2>3. x = (x - n) + n
    BY <1>5, <2>2
  <2>4. QED
    BY <1>1, <2>1, <2>2, <2>3, Zenon
<1>13. \A d \in Caches : d # c => /\ h.total_using[d] = g.total_using[d]
                                  /\ h.total_free[d] = g.total_free[d]
  BY <1>2, <1>7
<1>14. h.total_using[c] = g.total_using[c] /\ (i # 1 \/ c \in Created)
  BY <1>7 DEF Static
<1>15. Grown(g, h, c, i, s)
  BY <1>10, <1>11, <1>12, <1>13, <1>14, Zenon DEF Grown
<1>16. QED
  BY <1>1, <1>7, <1>15

\* The objects a slab is described by.
Held(s) == Own(LabelOf(s))

\* The slab is gone, and the objects that described it are held.
Dropped(h, g, c, i, V, W, F) ==
  /\ Fit(g, V, W \cup Held(h.pool[c][i]), F)
  /\ Held(h.pool[c][i]) \cap (V \cup W) = {}
  /\ Put(g.pool, h.pool, c, i, h.pool[c][i])

(* An unused slab is dropped.                                              *)
LEMMA DropFit ==
  ASSUME NEW h, NEW V, NEW W, NEW F, Fit(h, V, W, F), NEW c \in Caches,
         NEW i \in 1 .. Len(h.pool[c]), h.pool[c][i].using_count = 0, ~Static(c, i)
  PROVE  Dropped(h, DropSlab(h, c, i), c, i, V, W, F)
<1>1. PICK s, g, O, U : /\ s = h.pool[c][i] /\ g = DropSlab(h, c, i)
                        /\ O = Own(Labels(h.pool)) /\ U = V \cup W \cup O
  OBVIOUS
<1>2. Sound(h, U, F) /\ V \cap W = {} /\ (V \cup W) \cap O = {} /\ Unshared(Labels(h.pool))
      /\ \A x \in W \cup O : InSmall(h.pool, x)
  BY <1>1 DEF Fit
<1>3. h \in HeapSet /\ s \in SlabSet /\ i \in Nat /\ Good(s, U, c, i) /\ U \in SUBSET Objects
  BY <1>1, <1>2, TheHeap DEF Sound, AllGood
<1>4. s.using_count = 0 /\ s.free_count = s.color_count /\ OnPage(U, s.page) = {}
  <2>1. s.using_count = 0
    BY <1>1
  <2>2. /\ s.using_count = 0 <=> OnPage(U, s.page) = {}
        /\ s.using_count = 0 <=> s.free_count = s.color_count
    BY <1>3, GoodCounts
  <2>3. QED
    BY <2>1, <2>2
<1>5. s.page \in Pages
  BY <1>3 DEF Good
<1>6. Grown(g, h, c, i, s) /\ g.pages = h.pages \cup {s.page}
  BY <1>1, <1>3, <1>4, <1>5, DropIs
<1>7. Sound(g, U, F)
  BY <1>2, <1>6, GrownSound
<1>8. Put(g.pool, h.pool, c, i, s) /\ g.pool \in Pools
  BY <1>6, TheHeap DEF Grown
<1>9. /\ PagesOf(h.pool) = PagesOf(g.pool) \cup {s.page}
      /\ Labels(h.pool) = Labels(g.pool) \cup LabelOf(s)
      /\ \A u : InSmall(h.pool, u) <=> InSmall(g.pool, u) \/ (c \in Small /\ s.page = u[1])
      /\ Apart(h.pool) <=> Apart(g.pool) /\ s.page \notin PagesOf(g.pool)
  BY <1>8, PutIs
<1>10. PICK B, K, E : B = Labels(g.pool) /\ K = LabelOf(s) /\ E = Own(K)
  OBVIOUS
<1>11. O = Own(B) \cup E
  BY <1>1, <1>9, <1>10 DEF Own
<1>12. Unshared(B)
  BY <1>2, <1>9, <1>10 DEF Unshared
<1>13. s.page \notin PagesOf(g.pool)
  BY <1>2, <1>9 DEF Sound
<1>14. ASSUME NEW l \in B PROVE l[1] # s.page
  <2>1. /\ l \in Places \X Objects \X Objects
        /\ \E d \in Caches : \E k \in 1 .. Len(g.pool[d]) :
             l = <<g.pool[d][k].page, g.pool[d][k].header, g.pool[d][k].map>>
    BY <1>10 DEF Labels
  <2>2. l[1] \in Places /\ \E d \in Caches : \E k \in 1 .. Len(g.pool[d]) : g.pool[d][k].page = l[1]
    BY <2>1
  <2>3. l[1] \in PagesOf(g.pool)
    BY <2>2 DEF PagesOf
  <2>4. QED
    BY <1>13, <2>3
<1>15. \A l \in K : l[1] = s.page
  BY <1>10 DEF LabelOf
<1>16. Own(B) \cap E = {}
  <2>1. \A l \in B, m \in K : l[2] # m[3] /\ m[2] # l[3] /\ l # m
        /\ (l[2] = m[2] => l = m) /\ (l[3] = m[3] => l = m)
    BY <1>2, <1>9, <1>10, <1>14, <1>15 DEF Unshared
  <2>2. QED
    BY <1>10, <2>1 DEF Own
<1>17. U = V \cup (W \cup E) \cup Own(B)
  BY <1>1, <1>11
<1>18. V \cap (W \cup E) = {} /\ (V \cup (W \cup E)) \cap Own(B) = {} /\ E \cap (V \cup W) = {}
  BY <1>2, <1>11, <1>16
<1>19. \A x \in (W \cup E) \cup Own(B) : InSmall(g.pool, x)
  <2> SUFFICES ASSUME NEW x \in (W \cup E) \cup Own(B) PROVE InSmall(g.pool, x)
    OBVIOUS
  <2>1. InSmall(h.pool, x) /\ x \in U
    BY <1>1, <1>2, <1>11
  <2>2. x[1] # s.page
    BY <1>4, <2>1 DEF OnPage
  <2>3. QED
    BY <1>9, <2>1, <2>2, Zenon
<1>20. Fit(g, V, W \cup E, F)
  BY <1>7, <1>10, <1>12, <1>17, <1>18, <1>19, Zenon DEF Fit
<1>21. QED
  BY <1>1, <1>8, <1>10, <1>18, <1>20, Zenon DEF Dropped, Held

(* A new slab is linked, and describes itself with objects that were held. *)
LEMMA LinkFit ==
  ASSUME NEW h, NEW g, NEW c \in Caches, NEW i, NEW s, Grown(h, g, c, i, s),
         NEW V, NEW W, NEW F, Fit(h, V, W \cup Held(s), F), W \cap Held(s) = {},
         Unshared(LabelOf(s)),
         g.pages = h.pages, s.page \in F,
         Good(s, {}, c, i)
  PROVE  Fit(g, V, W, F \ {s.page})
<1>1. PICK B, K, E, O, U : /\ B = Labels(h.pool) /\ K = LabelOf(s) /\ E = Own(K)
                           /\ O = Own(B) /\ U = V \cup (W \cup E) \cup O
  OBVIOUS
<1>2. E = Held(s)
  BY <1>1 DEF Held
<1>3. /\ Sound(h, U, F) /\ V \cap (W \cup E) = {} /\ (V \cup (W \cup E)) \cap O = {} /\ Unshared(B)
      /\ \A x \in (W \cup E) \cup O : InSmall(h.pool, x)
  BY <1>1, <1>2, Zenon DEF Fit
<1>4. h.pool \in Pools /\ Put(h.pool, g.pool, c, i, s)
  BY TheHeap DEF Grown
<1>5. /\ Labels(g.pool) = B \cup K
      /\ \A u : InSmall(g.pool, u) <=> InSmall(h.pool, u) \/ (c \in Small /\ s.page = u[1])
  <2>1. PICK P, Q : P = h.pool /\ Q = g.pool
    OBVIOUS
  <2>2. P \in Pools /\ Put(P, Q, c, i, s)
    BY <1>4, <2>1
  <2>3. /\ Labels(Q) = Labels(P) \cup LabelOf(s)
        /\ \A u : InSmall(Q, u) <=> InSmall(P, u) \/ (c \in Small /\ s.page = u[1])
    BY <2>2, PutIs
  <2>4. QED
    BY <1>1, <2>1, <2>3, Zenon
<1>6. s.page \notin PagesOf(h.pool)
  BY <1>3 DEF Sound
<1>7. \A u : u[1] = s.page => (u \in {} <=> u \in U)
  BY <1>3, <1>6 DEF Sound
<1>8. Good(s, U, c, i)
  BY <1>7, GoodOther, Zenon
<1>9. Sound(g, U, F \ {s.page})
  BY <1>3, <1>8, GrownSound
<1>10. Own(Labels(g.pool)) = O \cup E
  BY <1>1, <1>5 DEF Own
<1>11. Unshared(B \cup K)
  <2>1. Unshared(B) /\ Unshared(K)
    BY <1>1, <1>3
  <2>2. ASSUME NEW l \in B, NEW m \in K
        PROVE  l[2] # m[3] /\ m[2] # l[3] /\ l[2] # m[2] /\ l[3] # m[3]
    <3>1. l[2] \in O /\ l[3] \in O /\ m[2] \in E /\ m[3] \in E
      BY <1>1 DEF Own
    <3>2. QED
      BY <1>3, <3>1
  <2>3. QED
    BY <2>1, <2>2 DEF Unshared
<1>12. U = V \cup W \cup (O \cup E)
  BY <1>1
<1>13. V \cap W = {} /\ (V \cup W) \cap (O \cup E) = {}
  BY <1>2, <1>3
<1>14. \A x \in W \cup (O \cup E) : InSmall(g.pool, x)
  BY <1>3, <1>5
<1>15. QED
  BY <1>5, <1>9, <1>10, <1>11, <1>12, <1>13, <1>14, Zenon DEF Fit

\* The heap with another list of slabs in pool c.
Relisted(h, c, q, m) == [h EXCEPT !.pool[c] = q, !.total_free[c] = m]

(* The heap with one more slab.                                            *)
LEMMA AddIs ==
  ASSUME NEW h \in HeapSet, NEW c \in Caches, NEW i, NEW s \in SlabSet, NEW q,
         Inserted(h.pool[c], q, i, s), NEW m, m = h.total_free[c] + s.free_count,
         s.using_count = 0, ~Static(c, i)
  PROVE  /\ Grown(h, Relisted(h, c, q, m), c, i, s)
         /\ Relisted(h, c, q, m).pages = h.pages
<1>0. PICK g : g = Relisted(h, c, q, m)
  OBVIOUS
<1>1. g = [h EXCEPT !.pool[c] = q, !.total_free[c] = m]
  BY <1>0 DEF Relisted
<1>2. /\ h.pool \in [Caches -> Seq(SlabSet)] /\ h.total_using \in [Caches -> Int]
      /\ h.total_free \in [Caches -> Int] /\ h.pages \in SUBSET Pages
      /\ DOMAIN h = {"pool", "total_using", "total_free", "pages"}
  BY DEF HeapSet
<1>3. q \in Seq(SlabSet)
  BY DEF Inserted
<1>4. m \in Int
  <2>1. h.total_free[c] \in Int /\ s.free_count \in Nat
    BY <1>2 DEF SlabSet
  <2>2. QED
    BY <2>1
<1>5. g.pool = [h.pool EXCEPT ![c] = q] /\ g.total_using = h.total_using
      /\ g.total_free = [h.total_free EXCEPT ![c] = m] /\ g.pages = h.pages
  BY <1>1, <1>2
<1>6. g = [pool |-> g.pool, total_using |-> g.total_using, total_free |-> g.total_free,
           pages |-> g.pages]
  BY <1>1 DEF HeapSet
<1>7. /\ g.pool \in [Caches -> Seq(SlabSet)] /\ g.total_using \in [Caches -> Int]
      /\ g.total_free \in [Caches -> Int] /\ g.pages \in SUBSET Pages
  BY <1>2, <1>3, <1>4, <1>5
<1>8. g \in HeapSet
  BY <1>6, <1>7 DEF HeapSet
<1>9. Put(h.pool, g.pool, c, i, s)
  <2>1. g.pool[c] = q /\ \A d \in Caches : d # c => g.pool[d] = h.pool[d]
    BY <1>2, <1>5
  <2>2. g.pool \in Pools
    BY <1>7 DEF Pools
  <2>3. QED
    BY <2>1, <2>2, Zenon DEF Put
<1>10. g.total_free[c] = h.total_free[c] + s.free_count /\ g.total_using[c] = h.total_using[c]
  <2>1. g.total_free[c] = m
    BY <1>2, <1>5
  <2>2. QED
    BY <1>5, <2>1
<1>11. \A d \in Caches : d # c => /\ g.total_using[d] = h.total_using[d]
                                  /\ g.total_free[d] = h.total_free[d]
  BY <1>2, <1>5
<1>12. i # 1 \/ c \in Created
  BY DEF Static
<1>13. QED
  BY <1>0, <1>5, <1>8, <1>9, <1>10, <1>11, <1>12, Zenon DEF Grown

(* A new slab has no object in use.                                        *)
LEMMA NewGood ==
  ASSUME NEW c \in Caches, NEW i, ~Static(c, i), NEW p \in Pages, NEW n, n = Color(c, i),
         NEW set \in SUBSET Bits(n), c \notin Small => set = {},
         NEW header \in Slot, header = NoObject <=> c \in Small,
         NEW map \in Slot, map = NoObject <=> c \in Small
  PROVE  /\ Slab(p, n, set, header, map) \in SlabSet
         /\ Good(Slab(p, n, set, header, map), {}, c, i)
<1>1. PICK s : s = Slab(p, n, set, header, map)
  OBVIOUS
<1>2. n \in Nat \ {0} /\ p \in Places /\ set \in SUBSET Nat
  BY TheCaches DEF Bits
<1>3. s \in SlabSet
  BY <1>1, <1>2 DEF Slab, SlabSet
<1>4. /\ s.page = p /\ s.using_count = 0 /\ s.free_count = n /\ s.color_count = n
      /\ s.color_map = set /\ s.header = header /\ s.map = map
  BY <1>1 DEF Slab
<1>5. OnPage({}, p) = {} /\ Cardinality({}) = 0
  BY FS_EmptySet DEF OnPage
<1>6. 0 + n = n
  BY <1>2
<1>7. Good(s, {}, c, i)
  BY <1>4, <1>5, <1>6 DEF Good, Exact
<1>8. QED
  BY <1>1, <1>3, <1>7

-----------------------------------------------------------------------------
(* A new slab is the only one that is unused.                              *)
LEMMA PutTidy ==
  ASSUME NEW P \in Pools, NEW Q, NEW c \in Caches, NEW i, NEW s, Put(P, Q, c, i, s), Tidy(P),
         c \in Created \/ (\A k \in 1 .. Len(P[c]) : P[c][k].using_count # 0)
  PROVE  Tidy(Q)
<1>1. Shifted(P, Q, c, i, s)
  BY PutSlabs
<1>2. \A d \in Caches : d # c => Q[d] = P[d]
  BY DEF Put
<1>3. Q[c] \in Seq(SlabSet)
  BY DEF Put, Pools
<1>4. ASSUME NEW k \in 2 .. Len(Q[c]), Q[c][k].using_count = 0, c \notin Created PROVE k = i
  <2>1. k \in 1 .. Len(Q[c])
    BY <1>3
  <2>2. CASE \E m \in 1 .. Len(P[c]) : k = Moved(c, c, i, m)
    <3>1. PICK m \in 1 .. Len(P[c]) : k = Moved(c, c, i, m)
      BY <2>2
    <3>2. Q[c][k] = P[c][m]
      BY <1>1, <3>1, Zenon DEF Shifted
    <3>3. QED
      BY <1>4, <3>1, <3>2
  <2>3. k = i \/ \E m \in 1 .. Len(P[c]) : k = Moved(c, c, i, m)
    BY <1>1, <2>1, Zenon DEF Shifted
  <2>4. QED
    BY <2>2, <2>3
<1>5. ASSUME NEW d \in Caches \ Created, NEW k \in 2 .. Len(Q[d]), NEW m \in 2 .. Len(Q[d]),
             Q[d][k].using_count = 0, Q[d][m].using_count = 0
      PROVE  k = m
  <2>1. CASE d = c
    BY <1>4, <1>5, <2>1
  <2>2. CASE d # c
    <3>1. Q[d] = P[d]
      BY <1>2, <2>2
    <3>2. QED
      BY <1>5, <3>1 DEF Tidy
  <2>3. QED
    BY <2>1, <2>2
<1>6. QED
  BY <1>5 DEF Tidy

\* The pools are tidy, when slab i of pool c is dropped if it is to spare.
TidySpared(g, c, i) ==
  /\ ~Spare(g, c, i) => Tidy(g.pool)
  /\ \A P \in Pools : Put(P, g.pool, c, i, g.pool[c][i]) /\ i # 1 => Tidy(P)

(* An unused slab that is kept is the only one, or the first.              *)
LEMMA SparedTidy ==
  ASSUME NEW h, NEW U, NEW F, NEW g, Tidy(h.pool), Sound(g, U, F), h.pool \in Pools,
         NEW c \in Caches \ Created, NEW i \in 1 .. Len(h.pool[c]),
         \A d \in Caches : d # c => g.pool[d] = h.pool[d],
         Len(g.pool[c]) = Len(h.pool[c]),
         \A k \in 1 .. Len(h.pool[c]) : k # i => g.pool[c][k] = h.pool[c][k]
  PROVE  TidySpared(g, c, i)
<1>1. PICK q, r, n : q = h.pool[c] /\ r = g.pool[c] /\ n = Len(h.pool[c])
  OBVIOUS
<1>2. /\ g \in HeapSet /\ U \in SUBSET Objects /\ r \in Seq(SlabSet) /\ Len(r) = n /\ n \in Nat
      /\ i \in 1 .. n /\ \A k \in 1 .. n : k # i => r[k] = q[k]
      /\ \A k \in 1 .. n : r[k] \in SlabSet /\ Good(r[k], U, c, k)
  <2>1. g \in HeapSet /\ U \in SUBSET Objects
    BY DEF Sound
  <2>2. r \in Seq(SlabSet) /\ Len(r) = n
    BY <1>1, <2>1, TheHeap
  <2>3. n \in Nat /\ i \in 1 .. n /\ \A k \in 1 .. n : k # i => r[k] = q[k]
    BY <1>1, <2>2
  <2>4. ASSUME NEW k \in 1 .. n PROVE r[k] \in SlabSet /\ Good(r[k], U, c, k)
    <3>1. r[k] \in SlabSet
      BY <2>2, ElementOfSeq
    <3>2. Good(r[k], U, c, k)
      BY <1>1, <2>2 DEF Sound, AllGood
    <3>3. QED
      BY <3>1, <3>2
  <2>5. QED
    BY <2>1, <2>2, <2>3, <2>4
<1>3. \A k, m \in 2 .. n : q[k].using_count = 0 /\ q[m].using_count = 0 => k = m
  BY <1>1 DEF Tidy
<1>4. \A d \in Caches \ Created : d # c => \A k, m \in 2 .. Len(g.pool[d]) :
        g.pool[d][k].using_count = 0 /\ g.pool[d][m].using_count = 0 => k = m
  BY DEF Tidy
<1>5. ASSUME NEW k \in 2 .. n, k # i, i # 1, r[k].using_count = 0, r[i].using_count = 0
      PROVE  Spare(g, c, i)
  <2>1. k \in 1 .. n /\ k # 1 /\ k \in Nat /\ i \in Nat
    BY <1>2
  <2>2. PICK x : x = Color(c, i)
    OBVIOUS
  <2>3. x \in Nat \ {0} /\ Color(c, k) = x
    BY <1>5, <2>1, <2>2, TheCaches DEF Color
  <2>4. r[i].free_count = x /\ r[k].free_count = x /\ r[i].color_count = x
    <3>1. r[i].using_count = 0 <=> r[i].free_count = r[i].color_count
      <4>1. PICK s : s = r[i]
        OBVIOUS
      <4>2. s \in SlabSet /\ Good(s, U, c, i) /\ i \in Nat /\ U \in SUBSET Objects
        BY <1>2, <2>1, <4>1
      <4>3. s.using_count = 0 <=> s.free_count = s.color_count
        BY <4>2, GoodCounts
      <4>4. QED
        BY <4>1, <4>3, Zenon
    <3>2. r[k].using_count = 0 <=> r[k].free_count = r[k].color_count
      <4>1. PICK s : s = r[k]
        OBVIOUS
      <4>2. s \in SlabSet /\ Good(s, U, c, k) /\ k \in Nat /\ U \in SUBSET Objects
        BY <1>2, <2>1, <4>1
      <4>3. s.using_count = 0 <=> s.free_count = s.color_count
        BY <4>2, GoodCounts
      <4>4. QED
        BY <4>1, <4>3, Zenon
    <3>3. r[i].color_count = x /\ r[k].color_count = x
      BY <1>2, <2>1, <2>2, <2>3 DEF Good
    <3>4. QED
      BY <1>5, <3>1, <3>2, <3>3
  <2>5. PICK f : f = Left(r)
    OBVIOUS
  <2>6. f \in [1 .. n -> Nat] /\ f[i] = x /\ f[k] = x
    <3>1. f \in [1 .. n -> Nat] /\ \A y \in 1 .. n : f[y] = r[y].free_count
      BY <1>2, <2>5, CountsOf
    <3>2. QED
      BY <1>2, <2>1, <2>4, <3>1
  <2>7. Total(f) >= f[i] + f[k] /\ Total(f) \in Nat
    <3>1. k \in 1 .. n \ {i}
      BY <1>5, <2>1
    <3>2. QED
      BY <1>2, <2>6, <3>1, TotalAbove
  <2>8. g.total_free[c] = Total(f)
    BY <1>1, <2>5, Zenon DEF Sound
  <2>9. PICK y : y = g.total_free[c]
    OBVIOUS
  <2>10. y \in Nat /\ y >= x + x
    BY <2>6, <2>7, <2>8, <2>9
  <2>11. y >= (x * 3) \div 2
    BY <2>3, <2>10
  <2>12. r[i].using_count = 0 /\ r[i].color_count = x
    BY <1>5, <2>4
  <2>13. QED
    BY <1>1, <1>5, <2>9, <2>11, <2>12 DEF Spare
<1>6. ASSUME ~Spare(g, c, i) PROVE Tidy(g.pool)
  <2>1. ASSUME NEW k \in 2 .. n, NEW m \in 2 .. n, r[k].using_count = 0, r[m].using_count = 0
        PROVE  k = m
    <3>1. k \in 1 .. n /\ m \in 1 .. n /\ k # 1 /\ m # 1
      BY <1>2
    <3>2. CASE k # i /\ m # i
      BY <1>2, <1>3, <2>1, <3>1, <3>2
    <3>3. CASE k = i /\ m # i
      BY <1>5, <1>6, <2>1, <3>1, <3>3
    <3>4. CASE k # i /\ m = i
      BY <1>5, <1>6, <2>1, <3>1, <3>4
    <3>5. QED
      BY <3>2, <3>3, <3>4
  <2>2. \A d \in Caches \ Created : \A k, m \in 2 .. Len(g.pool[d]) :
          g.pool[d][k].using_count = 0 /\ g.pool[d][m].using_count = 0 => k = m
    <3> SUFFICES ASSUME NEW d \in Caches \ Created, NEW k \in 2 .. Len(g.pool[d]),
                        NEW m \in 2 .. Len(g.pool[d]),
                        g.pool[d][k].using_count = 0, g.pool[d][m].using_count = 0
                 PROVE  k = m
      OBVIOUS
    <3>1. CASE d = c
      BY <1>1, <1>2, <2>1, <3>1
    <3>2. CASE d # c
      BY <1>4, <3>2
    <3>3. QED
      BY <3>1, <3>2
  <2>3. QED
    BY <2>2 DEF Tidy
<1>7. ASSUME NEW P \in Pools, Put(P, g.pool, c, i, g.pool[c][i]), i # 1 PROVE Tidy(P)
  <2>1. Shifted(P, g.pool, c, i, r[i])
    BY <1>1, <1>7, PutSlabs
  <2>2. \A d \in Caches : d # c => g.pool[d] = P[d]
    BY <1>7 DEF Put
  <2>3. ASSUME NEW k \in 2 .. Len(P[c]), NEW m \in 2 .. Len(P[c]),
               P[c][k].using_count = 0, P[c][m].using_count = 0
        PROVE  k = m
    <3>1. k \in 1 .. Len(P[c]) /\ m \in 1 .. Len(P[c]) /\ k # 1 /\ m # 1 /\ k \in Nat /\ m \in Nat
      <4>1. P[c] \in Seq(SlabSet)
        BY <1>7 DEF Pools
      <4>2. QED
        BY <4>1
    <3>2. PICK x, y : x = Moved(c, c, i, k) /\ y = Moved(c, c, i, m)
      OBVIOUS
    <3>3. /\ x \in 1 .. Len(r) /\ r[x] = P[c][k] /\ x # i
          /\ y \in 1 .. Len(r) /\ r[y] = P[c][m] /\ y # i
      BY <1>1, <2>1, <3>1, <3>2, Zenon DEF Shifted
    <3>4. x # 1 /\ y # 1
      BY <1>7, <2>1, <3>1, <3>2, Zenon DEF Shifted
    <3>5. x \in 2 .. n /\ y \in 2 .. n /\ r[x] = q[x] /\ r[y] = q[y]
      BY <1>2, <3>3, <3>4
    <3>6. x = y
      BY <1>3, <2>3, <3>3, <3>5
    <3>7. Moved(c, c, i, k) = Moved(c, c, i, m)
      BY <3>2, <3>6
    <3>8. QED
      BY <2>1, <3>1, <3>7, Zenon DEF Shifted
  <2>4. \A d \in Caches \ Created : \A k, m \in 2 .. Len(P[d]) :
          P[d][k].using_count = 0 /\ P[d][m].using_count = 0 => k = m
    <3> SUFFICES ASSUME NEW d \in Caches \ Created, NEW k \in 2 .. Len(P[d]),
                        NEW m \in 2 .. Len(P[d]),
                        P[d][k].using_count = 0, P[d][m].using_count = 0
                 PROVE  k = m
      OBVIOUS
    <3>1. CASE d = c
      BY <2>3, <3>1
    <3>2. CASE d # c
      <4>1. g.pool[d] = P[d]
        BY <2>2, <3>2
      <4>2. QED
        BY <1>4, <3>2, <4>1
    <3>3. QED
      BY <3>1, <3>2
  <2>5. QED
    BY <2>4 DEF Tidy
<1>8. QED
  BY <1>6, <1>7 DEF TidySpared

(* A slab of a small class is described in its own page.                   *)
LEMMA SmallHolds ==
  ASSUME NEW s, s.header = NoObject
  PROVE  LabelOf(s) = {} /\ Held(s) = {}
<1>1. NoObject \notin Objects
  BY TheCaches
<1>2. LabelOf(s) = {}
  BY <1>1 DEF LabelOf
<1>3. QED
  BY <1>2 DEF Held, Own

\* What kmalloc of a small class leaves, and what it returns.
KmallocLeaves(h, g, obj, V, W, F) ==
  /\ obj = NoObject => Ok(g, V, W, F) \/ Ok(g, V \cup {<<0, 0>>}, W, F)
  /\ obj # NoObject => /\ obj \in Objects /\ obj \notin V \cup W /\ obj # <<0, 0>>
                       /\ Ok(g, V, W \cup {obj}, F)
  /\ \A d \in Caches \ Small : g.pool[d] = h.pool[d]

(* An object from one slab,                                                *)
LEMMA MallocSmallSlab ==
  ASSUME NEW h, NEW V, NEW W, NEW F, Ok(h, V, W, F), NEW c \in Small,
         NEW i \in 1 .. Len(h.pool[c])
  PROVE  KmallocLeaves(h, DoSlabMalloc(h, c, i).heap, DoSlabMalloc(h, c, i).obj, V, W, F)
<1>1. PICK r, clear : r = DoSlabMalloc(h, c, i)
        /\ clear = Bits(h.pool[c][i].color_count) \ h.pool[c][i].color_map
  OBVIOUS
<1>2. Fit(h, V, W, F) /\ Tidy(h.pool) /\ c \in Caches
  BY TheCaches DEF Ok
<1>3. CASE clear = {}
  <2>1. r = [heap |-> h, obj |-> NoObject]
    BY <1>1, <1>3 DEF DoSlabMalloc
  <2>2. r.heap = h /\ r.obj = NoObject
    BY <2>1
  <2>3. QED
    BY <1>1, <2>2 DEF KmallocLeaves
<1>4. CASE clear # {}
  <2>1. \E u \in Objects : /\ Took(h, DoSlabMalloc(h, c, i).heap, c, i, u, V, W, F)
                           /\ DoSlabMalloc(h, c, i).obj = Address(u[1], u[2])
    BY <1>1, <1>2, <1>4, TakeFit
  <2>2. PICK u \in Objects : Took(h, r.heap, c, i, u, V, W, F) /\ r.obj = Address(u[1], u[2])
    BY <1>1, <2>1, Zenon
  <2>3. /\ Ok(r.heap, V \cup {u}, W, F) /\ Ok(r.heap, V, W \cup {u}, F)
        /\ u \notin V \cup W
    BY <1>2, <2>2 DEF Took, Ok
  <2>4. \A d \in Caches \ Small : r.heap.pool[d] = h.pool[d]
    BY <2>2 DEF Took
  <2>5. u = <<u[1], u[2]>> /\ u # NoObject
    BY TheCaches DEF Objects
  <2>6. r.obj = IF u = <<0, 0>> THEN NoObject ELSE u
    BY <2>2, <2>5 DEF Address
  <2>7. CASE u = <<0, 0>>
    BY <1>1, <2>3, <2>4, <2>6, <2>7 DEF KmallocLeaves
  <2>8. CASE u # <<0, 0>>
    BY <1>1, <2>3, <2>4, <2>5, <2>6, <2>8 DEF KmallocLeaves
  <2>9. QED
    BY <2>7, <2>8
<1>5. QED
  BY <1>3, <1>4

(* A new page for a small class.                                           *)
LEMMA LinkSmall ==
  ASSUME NEW h, NEW V, NEW W, NEW F, Ok(h, V, W, F), NEW c \in Small, h.total_free[c] = 0,
         h.pages # {}, NEW set \in SUBSET Bits(SmallCapacity[c])
  PROVE  LET slab == Slab(Min(h.pages), SmallCapacity[c], set, NoObject, NoObject)
             r == LinkAndMalloc(WithoutPage(h), c, slab)
         IN KmallocLeaves(h, r.heap, r.obj, V, W, F)
<1>1. PICK n, p, s, k, U, i :
        /\ n = SmallCapacity[c] /\ p = Min(h.pages) /\ s = Slab(p, n, set, NoObject, NoObject)
        /\ k = WithoutPage(h) /\ U = V \cup W \cup Own(Labels(h.pool)) /\ i = Len(h.pool[c]) + 1
  OBVIOUS
<1>2. Fit(h, V, W, F) /\ Tidy(h.pool) /\ c \in Caches /\ c \notin Created /\ Sound(h, U, F)
  BY <1>1, TheCaches DEF Ok, Fit
<1>3. /\ p \in h.pages /\ p \in Pages /\ Sound(k, U, F \cup {p}) /\ k.pool = h.pool
      /\ k \in HeapSet /\ k.total_free = h.total_free
  BY <1>1, <1>2, PageTaken
<1>4. Fit(k, V, W, F \cup {p}) /\ p \notin F
  <2>1. Fit(k, V, W, F \cup {p})
    BY <1>1, <1>2, <1>3, Zenon DEF Fit
  <2>2. F \cap h.pages = {}
    BY <1>2 DEF Sound
  <2>3. QED
    BY <1>3, <2>1, <2>2
<1>5. h.pool[c] \in Seq(SlabSet) /\ Len(h.pool[c]) >= 1 /\ Len(h.pool[c]) \in Nat
  BY <1>2, TheHeap DEF Sound
<1>6. i \in Nat /\ i # 1 /\ i >= 2
  BY <1>1, <1>5
<1>7. ~Static(c, i) /\ n = Color(c, i)
  BY <1>1, <1>6 DEF Static, Color
<1>8. s \in SlabSet /\ Good(s, {}, c, i)
  <2>1. set \in SUBSET Bits(n) /\ NoObject \in Slot /\ c \in Small
    BY <1>1 DEF Slot
  <2>2. /\ Slab(p, n, set, NoObject, NoObject) \in SlabSet
        /\ Good(Slab(p, n, set, NoObject, NoObject), {}, c, i)
    BY <1>2, <1>3, <1>7, <2>1, NewGood
  <2>3. QED
    BY <1>1, <2>2, Zenon
<1>9. s.page = p /\ s.header = NoObject /\ s.using_count = 0 /\ s.free_count = n /\ s.color_count = n
  BY <1>1 DEF Slab
<1>10. PICK q, m, g : /\ q = Append(h.pool[c], s) /\ m = k.total_free[c] + s.free_count
                      /\ g = [k EXCEPT !.pool[c] = q, !.total_free[c] = m]
  OBVIOUS
<1>11. Inserted(k.pool[c], q, i, s)
  <2>1. Inserted(h.pool[c], Append(h.pool[c], s), Len(h.pool[c]) + 1, s)
    BY <1>5, <1>8, InsertionsAre
  <2>2. QED
    BY <1>1, <1>3, <1>10, <2>1, Zenon
<1>12. Grown(k, g, c, i, s) /\ g.pages = k.pages
  <2>1. k \in HeapSet /\ s \in SlabSet /\ m = k.total_free[c] + s.free_count /\ s.using_count = 0
    BY <1>3, <1>8, <1>9, <1>10
  <2>2. /\ Grown(k, Relisted(k, c, q, m), c, i, s)
        /\ Relisted(k, c, q, m).pages = k.pages
    BY <1>2, <1>7, <1>11, <2>1, AddIs
  <2>3. QED
    BY <1>10, <2>2, Zenon DEF Relisted
<1>13. Fit(g, V, W, F)
  <2>1. LabelOf(s) = {} /\ Held(s) = {}
    BY <1>9, SmallHolds
  <2>2. /\ W \cup Held(s) = W /\ W \cap Held(s) = {} /\ Unshared(LabelOf(s))
        /\ (F \cup {p}) \ {s.page} = F /\ s.page \in F \cup {p}
    BY <1>4, <1>9, <2>1 DEF Unshared
  <2>3. Fit(k, V, W \cup Held(s), F \cup {p})
    BY <1>4, <2>2, Zenon
  <2>4. Fit(g, V, W, (F \cup {p}) \ {s.page})
    BY <1>2, <1>8, <1>12, <2>2, <2>3, LinkFit, Zenon
  <2>5. QED
    BY <2>2, <2>4, Zenon
<1>14. Put(h.pool, g.pool, c, i, s) /\ h.pool \in Pools
  BY <1>2, <1>3, <1>12, TheHeap DEF Grown, Sound
<1>15. Tidy(g.pool)
  <2>1. \A x \in 1 .. Len(h.pool[c]) : h.pool[c][x].using_count # 0
    BY <1>2, FreeIsThere
  <2>2. QED
    BY <1>2, <1>14, <2>1, PutTidy, Zenon
<1>16. i \in 1 .. Len(g.pool[c])
  <2>1. Shifted(h.pool, g.pool, c, i, s)
    BY <1>2, <1>14, PutSlabs
  <2>2. QED
    BY <2>1 DEF Shifted
<1>17. PICK r : r = DoSlabMalloc(g, c, i)
  OBVIOUS
<1>18. KmallocLeaves(g, r.heap, r.obj, V, W, F)
  <2>1. Ok(g, V, W, F)
    BY <1>13, <1>15 DEF Ok
  <2>2. QED
    BY <1>16, <1>17, <2>1, MallocSmallSlab, Zenon
<1>19. \A d \in Caches \ Small : g.pool[d] = h.pool[d]
  BY <1>14 DEF Put
<1>20. KmallocLeaves(h, r.heap, r.obj, V, W, F)
  BY <1>18, <1>19 DEF KmallocLeaves
<1>21. r = LinkAndMalloc(k, c, s)
  <2>1. k.pool \in [Caches -> Seq(SlabSet)] /\ k.total_free \in [Caches -> Int]
    BY <1>3 DEF HeapSet
  <2>2. g = [k EXCEPT !.pool[c] = Append(@, s), !.total_free[c] = @ + s.color_count]
    BY <1>2, <1>3, <1>9, <1>10, <2>1 DEF HeapSet
  <2>3. QED
    BY <1>1, <1>3, <1>17, <2>2 DEF LinkAndMalloc
<1>22. QED
  BY <1>1, <1>20, <1>21, Zenon

(* kmalloc of a small class.                                               *)
LEMMA KmallocSmallOk ==
  ASSUME NEW h, NEW V, NEW W, NEW F, Ok(h, V, W, F), NEW c \in Small,
         NEW r \in KmallocSmall(h, c), r.obj # Wild
  PROVE  KmallocLeaves(h, r.heap, r.obj, V, W, F)
<1>1. CASE h.total_free[c] # 0
  <2>1. PICK i : i = SlabWithFree(h.pool[c])
    OBVIOUS
  <2>2. r = DoSlabMalloc(h, c, i)
    BY <1>1, <2>1 DEF KmallocSmall
  <2>3. i \in 1 .. Len(h.pool[c])
    BY <1>1, <2>1, FreeIsThere, TheCaches DEF Ok, Fit
  <2>4. QED
    BY <2>2, <2>3, MallocSmallSlab, Zenon
<1>2. CASE ~(h.total_free[c] # 0) /\ h.pages = {}
  <2>1. r = [heap |-> h, obj |-> Wild]
    BY <1>2 DEF KmallocSmall, GoneAstray
  <2>2. r.obj = Wild
    BY <2>1
  <2>3. QED
    BY <2>2
<1>3. CASE ~(h.total_free[c] # 0) /\ h.pages # {}
  <2>0. ASSUME r = [heap |-> WithoutPage(h), obj |-> Wild] PROVE FALSE
    BY <2>0
  <2>1. r \in {LinkAndMalloc(WithoutPage(h), c,
                 Slab(Min(h.pages), SmallCapacity[c], set, NoObject, NoObject)) :
                 set \in SUBSET Bits(SmallCapacity[c])}
    BY <1>3, <2>0, Zenon DEF KmallocSmall, GoneAstray
  <2>2. PICK set \in SUBSET Bits(SmallCapacity[c]) :
          r = LinkAndMalloc(WithoutPage(h), c,
                Slab(Min(h.pages), SmallCapacity[c], set, NoObject, NoObject))
    BY <2>1
  <2>3. h.total_free[c] = 0 /\ h.pages # {}
    BY <1>3
  <2>4. QED
    BY <2>2, <2>3, LinkSmall, Zenon
<1>4. QED
  BY <1>1, <1>2, <1>3

\* What kfree of an object of a small class leaves.
KfreeLeaves(h, g, u, V, W, F) ==
  Ok(g, V, W \ {u}, F) /\ \A d \in Caches \ Small : g.pool[d] = h.pool[d]

(* kfree of an object of a small class.                                    *)
LEMMA KfreeSmallOk ==
  ASSUME NEW h, NEW V, NEW W, NEW F, Ok(h, V, W, F), NEW u \in W
  PROVE  KfreeLeaves(h, KfreeSmall(h, u), u, V, W, F)
<1>1. PICK U : U = V \cup W \cup Own(Labels(h.pool))
  OBVIOUS
<1>2. Fit(h, V, W, F) /\ Tidy(h.pool) /\ Sound(h, U, F)
  BY <1>1 DEF Ok, Fit
<1>20. h \in HeapSet /\ Apart(h.pool) /\ h.pool \in Pools
  BY <1>2, TheHeap DEF Sound
<1>3. PICK c \in Small : \E i \in 1 .. Len(h.pool[c]) : h.pool[c][i].page = u[1]
  BY <1>2 DEF Fit, InSmall
<1>4. PICK i \in 1 .. Len(h.pool[c]) : h.pool[c][i].page = u[1]
  BY <1>3
<1>5. c \in Caches /\ c \in Caches \ Created
  BY TheCaches
<1>6. Home(h, u) = [cache |-> c, slab |-> i]
  BY <1>4, <1>5, <1>20, HomeIs
<1>7. PICK g : g = Release(h, c, i, u[2])
  OBVIOUS
<1>8. Gave(h, g, c, i, u, V, W, F)
  <2>1. u \in V \cup W /\ u[1] = h.pool[c][i].page
    BY <1>4
  <2>2. QED
    BY <1>2, <1>5, <1>7, <2>1, FreeFit, Zenon
<1>9. V \ {u} = V
  BY <1>2 DEF Fit
<1>10. /\ Fit(g, V, W \ {u}, F)
       /\ \A d \in Caches : d # c => g.pool[d] = h.pool[d]
       /\ Len(g.pool[c]) = Len(h.pool[c])
       /\ \A k \in 1 .. Len(h.pool[c]) : k # i => g.pool[c][k] = h.pool[c][k]
  BY <1>8, <1>9 DEF Gave
<1>11. PICK O : O = V \cup (W \ {u}) \cup Own(Labels(g.pool))
  OBVIOUS
<1>12. Sound(g, O, F) /\ g \in HeapSet
  BY <1>10, <1>11 DEF Fit, Sound
<1>13. /\ ~Spare(g, c, i) => Tidy(g.pool)
       /\ \A P \in Pools : Put(P, g.pool, c, i, g.pool[c][i]) /\ i # 1 => Tidy(P)
  <2>1. TidySpared(g, c, i)
    BY <1>2, <1>5, <1>10, <1>12, <1>20, SparedTidy, Zenon
  <2>2. QED
    BY <2>1, Zenon DEF TidySpared
<1>14. KfreeSmall(h, u) = IF Spare(g, c, i) THEN DropSlab(g, c, i) ELSE g
  BY <1>6, <1>7 DEF KfreeSmall
<1>15. CASE ~Spare(g, c, i)
  <2>1. KfreeSmall(h, u) = g
    BY <1>14, <1>15
  <2>2. Ok(g, V, W \ {u}, F)
    BY <1>10, <1>13, <1>15 DEF Ok
  <2>3. QED
    BY <1>10, <2>1, <2>2 DEF KfreeLeaves
<1>16. CASE Spare(g, c, i)
  <2>1. g.pool[c][i].using_count = 0 /\ i # 1
    BY <1>16 DEF Spare
  <2>2. ~Static(c, i) /\ i \in 1 .. Len(g.pool[c])
    BY <1>10, <2>1 DEF Static
  <2>3. PICK s, k : s = g.pool[c][i] /\ k = DropSlab(g, c, i)
    OBVIOUS
  <2>4. Dropped(g, k, c, i, V, W \ {u}, F)
    BY <1>5, <1>10, <2>1, <2>2, <2>3, DropFit, Zenon
  <2>5. s.header = NoObject
    <3>1. Good(s, O, c, i)
      BY <1>5, <1>12, <2>2, <2>3 DEF Sound, AllGood
    <3>2. QED
      BY <3>1 DEF Good
  <2>6. Held(s) = {}
    BY <2>5, SmallHolds
  <2>7. Fit(k, V, W \ {u}, F)
    <3>1. Fit(k, V, (W \ {u}) \cup Held(s), F)
      BY <2>3, <2>4 DEF Dropped
    <3>2. (W \ {u}) \cup Held(s) = W \ {u}
      BY <2>6
    <3>3. QED
      BY <3>1, <3>2, Zenon
  <2>8. Put(k.pool, g.pool, c, i, g.pool[c][i])
    BY <2>4 DEF Dropped
  <2>9. k.pool \in Pools
    BY <2>7, TheHeap DEF Fit, Sound
  <2>10. Tidy(k.pool)
    BY <1>13, <2>1, <2>8, <2>9
  <2>11. \A d \in Caches \ Small : k.pool[d] = h.pool[d]
    BY <1>10, <2>8 DEF Put
  <2>12. KfreeSmall(h, u) = k
    BY <1>14, <1>16, <2>3
  <2>13. QED
    BY <2>7, <2>10, <2>11, <2>12 DEF KfreeLeaves, Ok
<1>17. QED
  BY <1>15, <1>16

(* __do_Slab_destory: the slab, its bitmap and its struct are given back.  *)
LEMMA DestroyOk ==
  ASSUME NEW h, NEW V, NEW W, NEW F, Fit(h, V, W, F), NEW c \in Caches \ Small,
         NEW i \in 1 .. Len(h.pool[c]), h.pool[c][i].using_count = 0, ~Static(c, i),
         \A P \in Pools : Put(P, h.pool, c, i, h.pool[c][i]) => Tidy(P)
  PROVE  /\ Ok(DestroySlab(h, c, i), V, W, F)
         /\ \A d \in Caches \ Small : d # c => DestroySlab(h, c, i).pool[d] = h.pool[d]
         /\ DestroySlab(h, c, i).pool[c] = RemoveAt(h.pool[c], i)
<1>1. PICK s, g, a, b : /\ s = h.pool[c][i] /\ g = DropSlab(h, c, i)
                        /\ a = KfreeSmall(g, s.map) /\ b = KfreeSmall(a, s.header)
  OBVIOUS
<1>2. PICK U : U = V \cup W \cup Own(Labels(h.pool))
  OBVIOUS
<1>3. Sound(h, U, F) /\ h \in HeapSet /\ s \in SlabSet /\ Good(s, U, c, i) /\ Unshared(Labels(h.pool))
  BY <1>1, <1>2, TheHeap DEF Fit, Sound, AllGood
<1>4. Dropped(h, g, c, i, V, W, F)
  BY <1>1, DropFit, Zenon
<1>5. /\ Fit(g, V, W \cup Held(s), F) /\ Held(s) \cap (V \cup W) = {}
      /\ Put(g.pool, h.pool, c, i, s)
  BY <1>1, <1>4 DEF Dropped
<1>6. s.header \in Objects /\ s.map \in Objects
  <2>1. s.header # NoObject /\ s.map # NoObject
    BY <1>3 DEF Good
  <2>2. QED
    BY <1>3, <2>1 DEF SlabSet, Slot
<1>7. Held(s) = {s.header, s.map} /\ s.header # s.map
  <2>1. PICK l : l = <<s.page, s.header, s.map>>
    OBVIOUS
  <2>2. l \in Places \X Objects \X Objects
    BY <1>3, <1>6, <2>1 DEF SlabSet
  <2>3. LabelOf(s) = {l} /\ l[2] = s.header /\ l[3] = s.map
    BY <2>1, <2>2 DEF LabelOf
  <2>4. l \in Labels(h.pool)
    BY <1>1, <2>1, <2>2 DEF Labels
  <2>5. l[2] # l[3]
    BY <1>3, <2>4 DEF Unshared
  <2>6. QED
    BY <2>3, <2>5 DEF Held, Own
<1>8. Ok(g, V, W \cup {s.header, s.map}, F)
  <2>1. g.pool \in Pools
    BY <1>5, TheHeap DEF Fit, Sound
  <2>2. Tidy(g.pool)
    BY <1>1, <1>5, <2>1
  <2>3. QED
    BY <1>5, <1>7, <2>2, Zenon DEF Ok
<1>9. KfreeLeaves(g, a, s.map, V, W \cup {s.header, s.map}, F)
  <2>1. s.map \in W \cup {s.header, s.map}
    OBVIOUS
  <2>2. QED
    BY <1>1, <1>8, <2>1, KfreeSmallOk, Zenon
<1>10. (W \cup {s.header, s.map}) \ {s.map} = W \cup {s.header}
  BY <1>5, <1>7
<1>11. Ok(a, V, W \cup {s.header}, F)
  BY <1>9, <1>10 DEF KfreeLeaves
<1>12. KfreeLeaves(a, b, s.header, V, W \cup {s.header}, F)
  <2>1. s.header \in W \cup {s.header}
    OBVIOUS
  <2>2. QED
    BY <1>1, <1>11, <2>1, KfreeSmallOk, Zenon
<1>13. (W \cup {s.header}) \ {s.header} = W
  BY <1>5, <1>7
<1>14. Ok(b, V, W, F)
  BY <1>12, <1>13 DEF KfreeLeaves
<1>15. \A d \in Caches \ Small : b.pool[d] = g.pool[d]
  BY <1>9, <1>12 DEF KfreeLeaves
<1>16. \A d \in Caches : d # c => g.pool[d] = h.pool[d]
  BY <1>5 DEF Put
<1>17. g.pool[c] = RemoveAt(h.pool[c], i)
  <2>1. h.pool \in [Caches -> Seq(SlabSet)]
    BY <1>3 DEF HeapSet
  <2>2. g.pool[c] = [h.pool EXCEPT ![c] = RemoveAt(@, i)][c]
    BY <1>1, <1>3 DEF DropSlab, HeapSet
  <2>3. QED
    BY <2>1, <2>2
<1>18. DestroySlab(h, c, i) = b
  BY <1>1 DEF DestroySlab
<1>19. QED
  BY <1>14, <1>15, <1>16, <1>17, <1>18

\* What is in use but <<0, 0>>, which was taken and not handed out.
OkOrLost(h, V, W, F) == Ok(h, V, W, F) \/ Ok(h, V \cup {<<0, 0>>}, W, F)

\* What get_new_Slab leaves, and what it returns.
NewSlabLeaves(h, g, slab, c, V, W) ==
  /\ slab = NoObject => OkOrLost(g, V, W, {})
  /\ slab # NoObject =>
       \E p \in Pages : \E header, map \in Objects \ (V \cup W \cup {<<0, 0>>}) :
         /\ header # map /\ slab = Slab(p, Capacity[c], {}, header, map)
         /\ Ok(g, V, W \cup {header, map}, {p})
  /\ \A d \in Caches \ Small : g.pool[d] = h.pool[d]

(* A page is taken,                                                        *)
LEMMA OkWithoutPage ==
  ASSUME NEW h, NEW V, NEW W, Ok(h, V, W, {}), h.pages # {}
  PROVE  /\ Min(h.pages) \in Pages /\ Ok(WithoutPage(h), V, W, {Min(h.pages)})
         /\ WithoutPage(h).pool = h.pool
<1>1. PICK U, p : U = V \cup W \cup Own(Labels(h.pool)) /\ p = Min(h.pages)
  OBVIOUS
<1>2. Sound(h, U, {})
  BY <1>1 DEF Ok, Fit
<1>3. /\ Min(h.pages) \in Pages /\ Sound(WithoutPage(h), U, {} \cup {Min(h.pages)})
      /\ WithoutPage(h).pool = h.pool
  BY <1>2, PageTaken
<1>4. {} \cup {Min(h.pages)} = {Min(h.pages)}
  OBVIOUS
<1>5. Ok(WithoutPage(h), V, W, {Min(h.pages)})
  BY <1>1, <1>3, <1>4, Zenon DEF Ok, Fit
<1>6. QED
  BY <1>3, <1>5

(* and given back.                                                         *)
LEMMA OkWithPage ==
  ASSUME NEW h, NEW V, NEW W, NEW p, Ok(h, V, W, {p})
  PROVE  /\ Ok([h EXCEPT !.pages = @ \cup {p}], V, W, {})
         /\ [h EXCEPT !.pages = @ \cup {p}].pool = h.pool
<1>1. PICK U, g : U = V \cup W \cup Own(Labels(h.pool)) /\ g = [h EXCEPT !.pages = @ \cup {p}]
  OBVIOUS
<1>2. Sound(h, U, {p})
  BY <1>1 DEF Ok, Fit
<1>3. Sound(g, U, {p} \ {p}) /\ g.pool = h.pool
  BY <1>1, <1>2, PageGiven
<1>4. {p} \ {p} = {}
  OBVIOUS
<1>5. Ok(g, V, W, {})
  BY <1>1, <1>3, <1>4, Zenon DEF Ok, Fit
<1>6. QED
  BY <1>1, <1>3, <1>5

\* What is left when an object that was held was given back.
StructFreed(h, g, V, W) ==
  OkOrLost(g, V, W, {}) /\ \A d \in Caches \ Small : g.pool[d] = h.pool[d]

(* A struct that was held is given back.                                   *)
LEMMA KfreeHeld ==
  ASSUME NEW h, NEW V, NEW W, NEW u, u \notin W, OkOrLost(h, V, W \cup {u}, {})
  PROVE  StructFreed(h, KfreeSmall(h, u), V, W)
<1>1. (W \cup {u}) \ {u} = W /\ u \in W \cup {u}
  OBVIOUS
<1>2. ASSUME NEW X, Ok(h, X, W \cup {u}, {})
      PROVE  /\ Ok(KfreeSmall(h, u), X, W, {})
             /\ \A d \in Caches \ Small : KfreeSmall(h, u).pool[d] = h.pool[d]
  <2>1. KfreeLeaves(h, KfreeSmall(h, u), u, X, W \cup {u}, {})
    BY <1>1, <1>2, KfreeSmallOk, Zenon
  <2>2. QED
    BY <1>1, <2>1 DEF KfreeLeaves
<1>3. CASE Ok(h, V, W \cup {u}, {})
  BY <1>2, <1>3 DEF OkOrLost, StructFreed
<1>4. CASE Ok(h, V \cup {<<0, 0>>}, W \cup {u}, {})
  BY <1>2, <1>4 DEF OkOrLost, StructFreed
<1>5. QED
  BY <1>3, <1>4 DEF OkOrLost

(* get_new_Slab from the third step on.                                    *)
LEMMA WithBitmapOk ==
  ASSUME NEW h, NEW V, NEW W, NEW header \in Objects, NEW p \in Pages,
         header \notin V \cup W, header # <<0, 0>>, Ok(h, V, W \cup {header}, {p}),
         NEW c \in Caches \ (Small \cup Missing), NEW r \in WithBitmap(h, header, p, c),
         r.slab # Wild
  PROVE  NewSlabLeaves(h, r.heap, r.slab, c, V, W)
<1>0. PICK m \in KmallocSmall(h, MapCache[c]) :
        r = IF m.obj = NoObject
            THEN [heap |-> KfreeSmall([m.heap EXCEPT !.pages = @ \cup {p}], header),
                  slab |-> NoObject]
            ELSE [heap |-> m.heap,
                  slab |-> IF m.obj = Wild THEN Wild
                           ELSE Slab(p, Capacity[c], {}, header, m.obj)]
  BY DEF WithBitmap
<1>1. /\ m.obj # Wild
      /\ r = IF m.obj = NoObject
             THEN [heap |-> KfreeSmall([m.heap EXCEPT !.pages = @ \cup {p}], header),
                   slab |-> NoObject]
             ELSE [heap |-> m.heap, slab |-> Slab(p, Capacity[c], {}, header, m.obj)]
  <2>1. NoObject # Wild
    BY KmallocAssumption DEF KmallocAssumption
  <2>2. ASSUME m.obj = Wild PROVE FALSE
    <3>1. r = [heap |-> m.heap, slab |-> Wild]
      BY <1>0, <2>1, <2>2
    <3>2. QED
      BY <3>1
  <2>3. QED
    BY <1>0, <2>2
<1>2. MapCache[c] \in Small
  BY KmallocAssumption DEF KmallocAssumption
<1>3. PICK e : e = MapCache[c]
  OBVIOUS
<1>4. KmallocLeaves(h, m.heap, m.obj, V, W \cup {header}, {p})
  <2>1. e \in Small /\ m \in KmallocSmall(h, e) /\ m.obj # Wild
    BY <1>1, <1>2, <1>3
  <2>2. QED
    BY <2>1, KmallocSmallOk, Zenon
<1>5. CASE m.obj = NoObject
  <2>1. PICK g, k : g = [m.heap EXCEPT !.pages = @ \cup {p}] /\ k = KfreeSmall(g, header)
    OBVIOUS
  <2>2. r.heap = k /\ r.slab = NoObject
    BY <1>1, <1>5, <2>1
  <2>3. OkOrLost(g, V, W \cup {header}, {}) /\ g.pool = m.heap.pool
    <3>1. CASE Ok(m.heap, V, W \cup {header}, {p})
      <4>1. Ok(g, V, W \cup {header}, {}) /\ g.pool = m.heap.pool
        BY <2>1, <3>1, OkWithPage
      <4>2. QED
        BY <4>1 DEF OkOrLost
    <3>2. CASE Ok(m.heap, V \cup {<<0, 0>>}, W \cup {header}, {p})
      <4>1. Ok(g, V \cup {<<0, 0>>}, W \cup {header}, {}) /\ g.pool = m.heap.pool
        BY <2>1, <3>2, OkWithPage
      <4>2. QED
        BY <4>1 DEF OkOrLost
    <3>3. QED
      BY <1>4, <1>5, <3>1, <3>2 DEF KmallocLeaves
  <2>4. OkOrLost(k, V, W, {}) /\ \A d \in Caches \ Small : k.pool[d] = g.pool[d]
    <3>1. header \notin W
      OBVIOUS
    <3>2. StructFreed(g, k, V, W)
      BY <2>1, <2>3, <3>1, KfreeHeld, Zenon
    <3>3. QED
      BY <3>2, Zenon DEF StructFreed
  <2>5. \A d \in Caches \ Small : k.pool[d] = h.pool[d]
    BY <1>4, <2>3, <2>4 DEF KmallocLeaves
  <2>6. QED
    BY <2>2, <2>4, <2>5 DEF NewSlabLeaves
<1>6. CASE m.obj # NoObject
  <2>1. PICK map : map = m.obj
    OBVIOUS
  <2>2. r.heap = m.heap /\ r.slab = Slab(p, Capacity[c], {}, header, map)
    BY <1>1, <1>6, <2>1
  <2>3. /\ map \in Objects /\ map \notin V \cup (W \cup {header}) /\ map # <<0, 0>>
        /\ Ok(m.heap, V, (W \cup {header}) \cup {map}, {p})
        /\ \A d \in Caches \ Small : m.heap.pool[d] = h.pool[d]
    BY <1>4, <1>6, <2>1 DEF KmallocLeaves
  <2>4. (W \cup {header}) \cup {map} = W \cup {header, map}
    OBVIOUS
  <2>5. header # map /\ header \in Objects \ (V \cup W \cup {<<0, 0>>})
      /\ map \in Objects \ (V \cup W \cup {<<0, 0>>})
    BY <2>3
  <2>6. Ok(m.heap, V, W \cup {header, map}, {p})
    BY <2>3, <2>4, Zenon
  <2>7. r.slab # NoObject
    <3>1. NoObject \notin [page : Nat, using_count : Nat, free_count : Nat, color_count : Nat,
                     color_map : SUBSET Nat, header : Nat \X Nat, map : Nat \X Nat]
      BY KmallocAssumption DEF KmallocAssumption
    <3>2. p \in Nat /\ Capacity[c] \in Nat /\ header \in Nat \X Nat /\ map \in Nat \X Nat
      <4>1. Capacity \in [Caches -> Nat \ {0}]
        BY KmallocAssumption DEF KmallocAssumption
      <4>2. Places \subseteq Nat /\ Pages \subseteq Places
        BY TheCaches
      <4>3. QED
        BY <2>3, <4>1, <4>2 DEF Objects
    <3>3. r.slab \in [page : Nat, using_count : Nat, free_count : Nat, color_count : Nat,
                     color_map : SUBSET Nat, header : Nat \X Nat, map : Nat \X Nat]
      BY <2>2, <3>2 DEF Slab
    <3>4. QED
      BY <3>1, <3>3
  <2>8. QED
    BY <2>2, <2>3, <2>5, <2>6, <2>7 DEF NewSlabLeaves
<1>7. QED
  BY <1>5, <1>6

(* get_new_Slab: a slab, with all it needs, or nothing kept.               *)
LEMMA GetNewSlabOk ==
  ASSUME NEW h, NEW V, NEW W, Ok(h, V, W, {}),
         NEW c \in Caches \ (Small \cup Missing), NEW r \in GetNewSlab(h, c),
         r.slab # Wild
  PROVE  NewSlabLeaves(h, r.heap, r.slab, c, V, W)
<1>1. PICK x \in KmallocSmall(h, HeaderCache) :
        r \in IF x.obj \in {NoObject, Wild} THEN {[heap |-> x.heap, slab |-> x.obj]}
              ELSE IF x.heap.pages = {} THEN {[heap |-> x.heap, slab |-> Wild]}
              ELSE WithBitmap(WithoutPage(x.heap), x.obj, Min(x.heap.pages), c)
  BY DEF GetNewSlab
<1>2. HeaderCache \in Small /\ x.obj # Wild
  <2>1. ASSUME x.obj = Wild PROVE FALSE
    <3>1. r = [heap |-> x.heap, slab |-> Wild]
      BY <1>1, <2>1
    <3>2. QED
      BY <3>1
  <2>2. QED
    BY <2>1, KmallocAssumption DEF KmallocAssumption
<1>3. KmallocLeaves(h, x.heap, x.obj, V, W, {})
  BY <1>2, KmallocSmallOk, Zenon
<1>4. CASE x.obj = NoObject
  <2>1. r = [heap |-> x.heap, slab |-> NoObject]
    BY <1>1, <1>4
  <2>2. r.heap = x.heap /\ r.slab = NoObject
    BY <2>1
  <2>3. QED
    BY <1>3, <1>4, <2>2 DEF KmallocLeaves, NewSlabLeaves, OkOrLost
<1>5. ASSUME x.obj # NoObject PROVE NewSlabLeaves(h, r.heap, r.slab, c, V, W)
  <2>1. PICK header, k : header = x.obj /\ k = x.heap
    OBVIOUS
  <2>2. /\ header \in Objects /\ header \notin V \cup W /\ Ok(k, V, W \cup {header}, {})
        /\ header # <<0, 0>>
        /\ \A d \in Caches \ Small : k.pool[d] = h.pool[d]
    BY <1>3, <1>5, <2>1 DEF KmallocLeaves
  <2>3. CASE k.pages = {}
    <3>1. r = [heap |-> k, slab |-> Wild]
      BY <1>1, <1>2, <1>5, <2>1, <2>3
    <3>2. QED
      BY <3>1
  <2>4. CASE k.pages # {}
    <3>1. PICK p, g : p = Min(k.pages) /\ g = WithoutPage(k)
      OBVIOUS
    <3>2. r \in WithBitmap(g, header, p, c)
      BY <1>1, <1>2, <1>5, <2>1, <2>4, <3>1
    <3>3. p \in Pages /\ Ok(g, V, W \cup {header}, {p}) /\ g.pool = k.pool
      BY <2>2, <2>4, <3>1, OkWithoutPage
    <3>4. NewSlabLeaves(g, r.heap, r.slab, c, V, W)
      BY <2>2, <3>2, <3>3, WithBitmapOk, Zenon
    <3>5. \A d \in Caches \ Small : g.pool[d] = h.pool[d]
      BY <2>2, <3>3
    <3>6. QED
      BY <3>4, <3>5 DEF NewSlabLeaves
  <2>5. QED
    BY <2>3, <2>4
<1>6. QED
  BY <1>4, <1>5

\* The heap g is h with slab s linked as number i of pool c.
LinkedLarge(h, g, c, i, s, V, W) ==
  /\ Ok(g, V, W, {}) /\ Put(h.pool, g.pool, c, i, s) /\ h.pool \in Pools
  /\ s.free_count # 0 /\ Bits(s.color_count) \ s.color_map # {}
  /\ g.total_free[c] = h.total_free[c] + s.free_count
  /\ h.total_free[c] \in Nat /\ s.free_count \in Nat

(* A new slab of a large class is linked as number i.                      *)
LEMMA LinkLarge ==
  ASSUME NEW h, NEW V, NEW W, NEW p \in Pages, NEW header \in Objects \ (V \cup W \cup {<<0, 0>>}),
         NEW map \in Objects \ (V \cup W \cup {<<0, 0>>}), header # map, Ok(h, V, W \cup {header, map}, {p}),
         NEW c \in Caches \ Small, NEW i, ~Static(c, i), NEW s,
         s = Slab(p, Capacity[c], {}, header, map), NEW q, Inserted(h.pool[c], q, i, s),
         NEW m, m = h.total_free[c] + s.free_count,
         c \in Created \/ (\A k \in 1 .. Len(h.pool[c]) : h.pool[c][k].using_count # 0)
  PROVE  LinkedLarge(h, Relisted(h, c, q, m), c, i, s, V, W)
<1>1. PICK n, g, U : /\ n = Capacity[c] /\ g = Relisted(h, c, q, m)
                     /\ U = V \cup (W \cup {header, map}) \cup Own(Labels(h.pool))
  OBVIOUS
<1>2. /\ Fit(h, V, W \cup {header, map}, {p}) /\ Tidy(h.pool) /\ Sound(h, U, {p})
      /\ h \in HeapSet /\ h.pool \in Pools
  BY <1>1, TheHeap DEF Ok, Fit, Sound
<1>3. n = Color(c, i)
  BY <1>1 DEF Color
<1>4. s \in SlabSet /\ Good(s, {}, c, i)
  <2>1. {} \in SUBSET Bits(n) /\ header \in Slot /\ map \in Slot /\ header # NoObject /\ map # NoObject
    BY TheCaches DEF Slot
  <2>2. /\ Slab(p, n, {}, header, map) \in SlabSet
        /\ Good(Slab(p, n, {}, header, map), {}, c, i)
    BY <1>3, <2>1, NewGood
  <2>3. QED
    BY <1>1, <2>2, Zenon
<1>5. /\ s.page = p /\ s.header = header /\ s.map = map /\ s.using_count = 0 /\ s.free_count = n
      /\ s.color_count = n /\ s.color_map = {}
  BY <1>1 DEF Slab
<1>6. Grown(h, g, c, i, s) /\ g.pages = h.pages
  <2>1. /\ Grown(h, Relisted(h, c, q, m), c, i, s)
        /\ Relisted(h, c, q, m).pages = h.pages
    BY <1>2, <1>4, <1>5, AddIs
  <2>2. QED
    BY <1>1, <2>1, Zenon
<1>7. Held(s) = {header, map} /\ Unshared(LabelOf(s))
  <2>1. PICK l : l = <<p, header, map>>
    OBVIOUS
  <2>2. l \in Places \X Objects \X Objects /\ l[2] = header /\ l[3] = map
    BY <2>1, TheCaches
  <2>3. LabelOf(s) = {l}
    BY <1>5, <2>1, <2>2 DEF LabelOf
  <2>4. QED
    BY <2>2, <2>3 DEF Held, Own, Unshared
<1>8. Fit(g, V, W, {})
  <2>1. W \cap Held(s) = {} /\ {p} \ {s.page} = {} /\ s.page \in {p}
    BY <1>5, <1>7
  <2>2. Fit(h, V, W \cup Held(s), {p})
    BY <1>2, <1>7, Zenon
  <2>3. Fit(g, V, W, {p} \ {s.page})
    BY <1>4, <1>6, <1>7, <2>1, <2>2, LinkFit, Zenon
  <2>4. QED
    BY <2>1, <2>3, Zenon
<1>9. Put(h.pool, g.pool, c, i, s)
  BY <1>6 DEF Grown
<1>10. Tidy(g.pool)
  <2>1. PICK P, Q : P = h.pool /\ Q = g.pool
    OBVIOUS
  <2>2. /\ P \in Pools /\ Put(P, Q, c, i, s) /\ Tidy(P)
        /\ c \in Created \/ (\A k \in 1 .. Len(P[c]) : P[c][k].using_count # 0)
    BY <1>2, <1>9, <2>1, Zenon
  <2>3. Tidy(Q)
    BY <2>2, PutTidy
  <2>4. QED
    BY <2>1, <2>3, Zenon
<1>11. n \in Nat \ {0} /\ Bits(n) # {}
  <2>1. n \in Nat \ {0}
    BY <1>3, TheCaches
  <2>2. 0 \in Bits(n)
    BY <2>1 DEF Bits
  <2>3. QED
    BY <2>1, <2>2
<1>12. g.total_free[c] = h.total_free[c] + s.free_count
  BY <1>6 DEF Grown
<1>13. h.total_free[c] \in Nat
  BY <1>2, FreeIsThere
<1>14. QED
  BY <1>1, <1>2, <1>5, <1>8, <1>9, <1>10, <1>11, <1>12, <1>13 DEF Ok, LinkedLarge

(* A slab of a large class that counts a free object has one.              *)
LEMMA FreeOfLarge ==
  ASSUME NEW h, NEW V, NEW W, Ok(h, V, W, {}), NEW c \in Caches \ Small, h.total_free[c] # 0
  PROVE  LET i == SlabWithFree(h.pool[c])
         IN i \in 1 .. Len(h.pool[c])
            /\ Bits(h.pool[c][i].color_count) \ h.pool[c][i].color_map # {}
<1>1. PICK U, i : U = V \cup W \cup Own(Labels(h.pool)) /\ i = SlabWithFree(h.pool[c])
  OBVIOUS
<1>2. Sound(h, U, {}) /\ h \in HeapSet /\ U \in SUBSET Objects
  BY <1>1 DEF Ok, Fit, Sound
<1>3. i \in 1 .. Len(h.pool[c]) /\ h.pool[c][i].free_count # 0
  BY <1>1, <1>2, FreeIsThere
<1>4. PICK s : s = h.pool[c][i]
  OBVIOUS
<1>5. s \in SlabSet /\ i \in Nat /\ Good(s, U, c, i) /\ s.free_count # 0 /\ c \notin Small
  BY <1>2, <1>3, <1>4, TheHeap DEF Sound, AllGood
<1>6. Bits(s.color_count) \ s.color_map # {}
  BY <1>2, <1>5, GoodCounts
<1>7. QED
  BY <1>1, <1>3, <1>4, <1>6

\* What kmalloc leaves, and what it returns.
AnyLeaves(h, g, obj, V, W) ==
  /\ obj = NoObject => OkOrLost(g, V, W, {})
  /\ obj # NoObject => /\ obj \in Objects /\ obj \notin V \cup W /\ obj # <<0, 0>>
                       /\ Ok(g, V \cup {obj}, W, {})
  /\ \A d \in Created : g.pool[d] = h.pool[d]

(* kmalloc takes an object of a slab of a large class,                     *)
LEMMA TakeLarge ==
  ASSUME NEW h, NEW V, NEW W, Ok(h, V, W, {}), NEW c \in Caches \ Created,
         NEW i \in 1 .. Len(h.pool[c]),
         Bits(h.pool[c][i].color_count) \ h.pool[c][i].color_map # {}
  PROVE  AnyLeaves(h, DoSlabMalloc(h, c, i).heap, DoSlabMalloc(h, c, i).obj, V, W)
<1>1. PICK r : r = DoSlabMalloc(h, c, i)
  OBVIOUS
<1>2. Fit(h, V, W, {}) /\ Tidy(h.pool) /\ c \in Caches
  BY DEF Ok
<1>3. \E u \in Objects : /\ Took(h, DoSlabMalloc(h, c, i).heap, c, i, u, V, W, {})
                         /\ DoSlabMalloc(h, c, i).obj = Address(u[1], u[2])
  BY <1>2, TakeFit
<1>4. PICK u \in Objects : Took(h, r.heap, c, i, u, V, W, {}) /\ r.obj = Address(u[1], u[2])
  BY <1>1, <1>3, Zenon
<1>5. Ok(r.heap, V \cup {u}, W, {}) /\ u \notin V \cup W
  BY <1>2, <1>4 DEF Took, Ok
<1>6. \A d \in Created : r.heap.pool[d] = h.pool[d]
  BY <1>4, TheCaches DEF Took
<1>7. u = <<u[1], u[2]>> /\ u # NoObject
  BY TheCaches DEF Objects
<1>8. r.obj = IF u = <<0, 0>> THEN NoObject ELSE u
  BY <1>4, <1>7 DEF Address
<1>9. CASE u = <<0, 0>>
  <2>1. r.obj = NoObject /\ Ok(r.heap, V \cup {<<0, 0>>}, W, {})
    BY <1>5, <1>8, <1>9
  <2>2. QED
    BY <1>1, <1>6, <2>1 DEF AnyLeaves, OkOrLost
<1>10. CASE u # <<0, 0>>
  BY <1>1, <1>5, <1>6, <1>7, <1>8, <1>10 DEF AnyLeaves
<1>11. QED
  BY <1>9, <1>10

(* of a new slab,                                                          *)
LEMMA TakeNew ==
  ASSUME NEW h, NEW V, NEW W, Ok(h, V, W, {}), NEW c \in Caches \ (Small \cup Missing),
         c \notin Created, h.total_free[c] = 0, NEW new \in GetNewSlab(h, c),
         new.slab # NoObject, new.slab # Wild,
         NEW r, r = LinkAndMalloc(new.heap, c, new.slab)
  PROVE  AnyLeaves(h, r.heap, r.obj, V, W)
<1>1. PICK k, s : k = new.heap /\ s = new.slab
  OBVIOUS
<1>2. NewSlabLeaves(h, k, s, c, V, W) /\ s # NoObject
  BY <1>1, GetNewSlabOk, Zenon
<1>3. PICK p \in Pages : \E header, map \in Objects \ (V \cup W \cup {<<0, 0>>}) :
         /\ header # map /\ s = Slab(p, Capacity[c], {}, header, map)
         /\ Ok(k, V, W \cup {header, map}, {p})
  BY <1>2, Zenon DEF NewSlabLeaves
<1>4. PICK header, map \in Objects \ (V \cup W \cup {<<0, 0>>}) :
         /\ header # map /\ s = Slab(p, Capacity[c], {}, header, map)
         /\ Ok(k, V, W \cup {header, map}, {p})
  BY <1>3
<1>5. /\ k.pool[c] = h.pool[c] /\ \A d \in Caches \ Small : k.pool[d] = h.pool[d]
  BY <1>2 DEF NewSlabLeaves
<1>6. PICK q, m, i, g : /\ q = Append(k.pool[c], s) /\ m = k.total_free[c] + s.free_count
                        /\ i = Len(k.pool[c]) + 1 /\ g = Relisted(k, c, q, m)
  OBVIOUS
<1>7. k \in HeapSet /\ k.pool[c] \in Seq(SlabSet) /\ Len(k.pool[c]) >= 1 /\ Len(k.pool[c]) \in Nat
  <2>1. k \in HeapSet /\ Len(k.pool[c]) >= 1
    BY <1>4 DEF Ok, Fit, Sound
  <2>2. QED
    BY <2>1, TheHeap
<1>8. ~Static(c, i)
  BY <1>6, <1>7 DEF Static
<1>9. s \in SlabSet
  <2>1. {} \in SUBSET Bits(Capacity[c]) /\ header \in Slot /\ map \in Slot
        /\ header # NoObject /\ map # NoObject /\ Capacity[c] = Color(c, i)
    BY TheCaches DEF Slot, Color
  <2>2. Slab(p, Capacity[c], {}, header, map) \in SlabSet
    BY <1>8, <2>1, NewGood
  <2>3. QED
    BY <1>4, <2>2, Zenon
<1>10. Inserted(k.pool[c], q, i, s)
  BY <1>6, <1>7, <1>9, InsertionsAre
<1>11. \A x \in 1 .. Len(k.pool[c]) : k.pool[c][x].using_count # 0
  <2>1. \A x \in 1 .. Len(h.pool[c]) : h.pool[c][x].using_count # 0
    BY FreeIsThere DEF Ok, Fit
  <2>2. QED
    BY <1>5, <2>1, Zenon
<1>12. /\ Ok(g, V, W, {}) /\ Put(k.pool, g.pool, c, i, s) /\ k.pool \in Pools
       /\ Bits(s.color_count) \ s.color_map # {}
  <2>1. c \in Caches \ Small
    OBVIOUS
  <2>2. LinkedLarge(k, Relisted(k, c, q, m), c, i, s, V, W)
    BY <1>4, <1>6, <1>8, <1>10, <1>11, <2>1, LinkLarge, Zenon
  <2>3. QED
    BY <1>6, <2>2, Zenon DEF LinkedLarge
<1>13. i \in 1 .. Len(g.pool[c]) /\ g.pool[c][i] = s
  <2>1. Shifted(k.pool, g.pool, c, i, s)
    BY <1>12, PutSlabs
  <2>2. QED
    BY <2>1 DEF Shifted
<1>14. r = DoSlabMalloc(g, c, i)
  <2>1. s.color_count = s.free_count
    BY <1>4 DEF Slab
  <2>2. k.pool \in [Caches -> Seq(SlabSet)] /\ k.total_free \in [Caches -> Int]
    BY <1>7 DEF HeapSet
  <2>3. g = [k EXCEPT !.pool[c] = Append(@, s), !.total_free[c] = @ + s.color_count]
    BY <1>6, <1>7, <2>1, <2>2 DEF HeapSet, Relisted
  <2>4. QED
    BY <1>1, <1>6, <2>3 DEF LinkAndMalloc
<1>15. AnyLeaves(g, r.heap, r.obj, V, W)
  BY <1>12, <1>13, <1>14, TakeLarge, Zenon
<1>16. \A d \in Created : g.pool[d] = h.pool[d]
  BY <1>5, <1>12, TheCaches DEF Put
<1>17. QED
  BY <1>15, <1>16 DEF AnyLeaves

(* or of a small class, or none.                                           *)
LEMMA KmallocAnyOk ==
  ASSUME NEW h, NEW V, NEW W, Ok(h, V, W, {}), NEW c \in Caches \ Created,
         NEW r \in KmallocAny(h, c), r.obj # Wild
  PROVE  AnyLeaves(h, r.heap, r.obj, V, W)
<1>1. CASE c \in Small
  <2>1. r \in KmallocSmall(h, c)
    BY <1>1 DEF KmallocAny
  <2>2. KmallocLeaves(h, r.heap, r.obj, V, W, {})
    BY <1>1, <2>1, KmallocSmallOk, Zenon
  <2>3. \A d \in Created : r.heap.pool[d] = h.pool[d]
    BY <2>2, TheCaches DEF KmallocLeaves
  <2>4. ASSUME r.obj # NoObject PROVE Ok(r.heap, V \cup {r.obj}, W, {})
    <3>1. PICK u : u = r.obj
      OBVIOUS
    <3>2. Ok(r.heap, V, W \cup {u}, {}) /\ u \notin V \cup W
      BY <2>2, <2>4, <3>1 DEF KmallocLeaves
    <3>3. u \in W \cup {u} /\ (W \cup {u}) \ {u} = W
      BY <3>2
    <3>4. Fit(r.heap, V \cup {u}, (W \cup {u}) \ {u}, {})
      BY <3>2, <3>3, FitHanded, Zenon DEF Ok
    <3>5. QED
      BY <3>1, <3>2, <3>3, <3>4, Zenon DEF Ok
  <2>5. QED
    BY <2>2, <2>3, <2>4 DEF KmallocLeaves, AnyLeaves, OkOrLost
<1>2. CASE c \notin Small /\ h.total_free[c] # 0
  <2>1. PICK i : i = SlabWithFree(h.pool[c])
    OBVIOUS
  <2>2. r = DoSlabMalloc(h, c, i)
    BY <1>2, <2>1 DEF KmallocAny
  <2>3. i \in 1 .. Len(h.pool[c])
        /\ Bits(h.pool[c][i].color_count) \ h.pool[c][i].color_map # {}
    BY <1>2, <2>1, FreeOfLarge
  <2>4. QED
    BY <2>2, <2>3, TakeLarge, Zenon
<1>3. CASE c \notin Small /\ ~(h.total_free[c] # 0) /\ c \in Missing
  <2>1. r = [heap |-> h, obj |-> NoObject]
    BY <1>3 DEF KmallocAny
  <2>2. r.heap = h /\ r.obj = NoObject
    BY <2>1
  <2>3. QED
    BY <2>2 DEF AnyLeaves, OkOrLost
<1>4. CASE c \notin Small /\ ~(h.total_free[c] # 0) /\ c \notin Missing
  <2>1. PICK new \in GetNewSlab(h, c) :
          r = IF new.slab \in {NoObject, Wild} THEN [heap |-> new.heap, obj |-> new.slab]
              ELSE LinkAndMalloc(new.heap, c, new.slab)
    BY <1>4 DEF KmallocAny
  <2>0. ASSUME new.slab = Wild PROVE FALSE
    <3>1. r = [heap |-> new.heap, obj |-> Wild]
      BY <2>0, <2>1
    <3>2. QED
      BY <3>1
  <2>2. c \in Caches \ (Small \cup Missing) /\ c \notin Created /\ h.total_free[c] = 0
    BY <1>4
  <2>3. CASE new.slab = NoObject
    <3>1. r.heap = new.heap /\ r.obj = NoObject
      BY <2>1, <2>3
    <3>2. NewSlabLeaves(h, new.heap, new.slab, c, V, W)
      BY <2>0, <2>2, GetNewSlabOk, Zenon
    <3>3. QED
      BY <2>3, <3>1, <3>2, TheCaches DEF NewSlabLeaves, AnyLeaves
  <2>4. CASE new.slab # NoObject
    <3>1. r = LinkAndMalloc(new.heap, c, new.slab)
      BY <2>0, <2>1, <2>4
    <3>2. QED
      BY <2>0, <2>2, <2>4, <3>1, TakeNew, Zenon
  <2>5. QED
    BY <2>3, <2>4
<1>5. QED
  BY <1>1, <1>2, <1>3, <1>4

(* An object a caller has may be held for it, if it is of a small class.   *)
LEMMA FitHeld ==
  ASSUME NEW h, NEW V, NEW W, NEW F, NEW u \in V, Fit(h, V, W, F), InSmall(h.pool, u)
  PROVE  Fit(h, V \ {u}, W \cup {u}, F)
<1>1. (V \ {u}) \cup (W \cup {u}) = V \cup W
  OBVIOUS
<1>2. (V \ {u}) \cap (W \cup {u}) = {}
  BY DEF Fit
<1>3. \A x \in (W \cup {u}) \cup Own(Labels(h.pool)) : InSmall(h.pool, x)
  BY DEF Fit
<1>4. QED
  BY <1>1, <1>2, <1>3, Zenon DEF Fit

\* What kfree leaves of an object that is not of a created cache.
KfreedAny(h, g, u, V, W) ==
  Ok(g, V \ {u}, W, {}) /\ \A d \in Created : g.pool[d] = h.pool[d]

(* The slab an object in use is in.                                        *)
LEMMA HomeOf ==
  ASSUME NEW h, NEW V, NEW W, NEW F, Fit(h, V, W, F), NEW u \in V \cup W
  PROVE  /\ \E c \in Caches : \E i \in 1 .. Len(h.pool[c]) :
              h.pool[c][i].page = u[1] /\ Home(h, u) = [cache |-> c, slab |-> i]
         /\ u \in Objects
<1>1. PICK U : U = V \cup W \cup Own(Labels(h.pool))
  OBVIOUS
<1>2. /\ h \in HeapSet /\ Apart(h.pool) /\ u[1] \in PagesOf(h.pool) /\ u \in Objects
  BY <1>1 DEF Fit, Sound
<1>3. \E c \in Caches : \E i \in 1 .. Len(h.pool[c]) : h.pool[c][i].page = u[1]
  BY <1>2 DEF PagesOf
<1>4. PICK c \in Caches : \E i \in 1 .. Len(h.pool[c]) : h.pool[c][i].page = u[1]
  BY <1>3
<1>5. PICK i \in 1 .. Len(h.pool[c]) : h.pool[c][i].page = u[1]
  BY <1>4
<1>6. Home(h, u) = [cache |-> c, slab |-> i]
  BY <1>2, <1>5, HomeIs
<1>7. QED
  BY <1>2, <1>5, <1>6

(* kfree.                                                                  *)
LEMMA KfreeAnyOk ==
  ASSUME NEW h, NEW V, NEW W, Ok(h, V, W, {}), NEW u \in V, Home(h, u).cache \notin Created
  PROVE  KfreedAny(h, KfreeAny(h, u), u, V, W)
<1>1. Fit(h, V, W, {}) /\ Tidy(h.pool)
  BY DEF Ok
<1>2. \E c \in Caches : \E i \in 1 .. Len(h.pool[c]) :
        h.pool[c][i].page = u[1] /\ Home(h, u) = [cache |-> c, slab |-> i]
  BY <1>1, HomeOf
<1>3. PICK c \in Caches : \E i \in 1 .. Len(h.pool[c]) :
        h.pool[c][i].page = u[1] /\ Home(h, u) = [cache |-> c, slab |-> i]
  BY <1>2
<1>4. PICK i \in 1 .. Len(h.pool[c]) :
        h.pool[c][i].page = u[1] /\ Home(h, u) = [cache |-> c, slab |-> i]
  BY <1>3
<1>5. c \in Caches \ Created /\ Home(h, u).cache = c /\ Home(h, u).slab = i
  BY <1>4
<1>6. u \notin W /\ W \ {u} = W
  BY <1>1 DEF Fit
<1>7. PICK g, k : g = Release(h, c, i, u[2]) /\ k = KfreeAny(h, u)
  OBVIOUS
<1>8. k = IF c \in Small THEN KfreeSmall(h, u)
          ELSE IF Spare(g, c, i) THEN DestroySlab(g, c, i) ELSE g
  BY <1>5, <1>7 DEF KfreeAny
<1>9. CASE c \in Small
  <2>1. InSmall(h.pool, u)
    BY <1>4, <1>9 DEF InSmall
  <2>2. Ok(h, V \ {u}, W \cup {u}, {})
    BY <1>1, <2>1, FitHeld, Zenon DEF Ok
  <2>3. u \in W \cup {u} /\ (W \cup {u}) \ {u} = W
    BY <1>6
  <2>4. KfreeLeaves(h, KfreeSmall(h, u), u, V \ {u}, W \cup {u}, {})
    BY <2>2, <2>3, KfreeSmallOk, Zenon
  <2>5. Ok(k, V \ {u}, W, {}) /\ \A d \in Caches \ Small : k.pool[d] = h.pool[d]
    BY <1>8, <1>9, <2>3, <2>4 DEF KfreeLeaves
  <2>6. QED
    BY <1>7, <2>5, TheCaches DEF KfreedAny
<1>10. CASE c \notin Small
  <2>1. Gave(h, g, c, i, u, V, W, {})
    <3>1. u \in V \cup W /\ u[1] = h.pool[c][i].page
      BY <1>4
    <3>2. QED
      BY <1>1, <1>7, <3>1, FreeFit, Zenon
  <2>2. /\ Fit(g, V \ {u}, W, {})
        /\ \A d \in Caches : d # c => g.pool[d] = h.pool[d]
        /\ Len(g.pool[c]) = Len(h.pool[c])
        /\ \A m \in 1 .. Len(h.pool[c]) : m # i => g.pool[c][m] = h.pool[c][m]
    BY <1>6, <2>1 DEF Gave
  <2>3. PICK O : O = (V \ {u}) \cup W \cup Own(Labels(g.pool))
    OBVIOUS
  <2>4. Sound(g, O, {}) /\ h.pool \in Pools
    BY <1>1, <2>2, <2>3, TheHeap DEF Fit, Sound
  <2>5. TidySpared(g, c, i)
    BY <1>1, <1>5, <2>2, <2>4, SparedTidy, Zenon
  <2>6. \A d \in Created : g.pool[d] = h.pool[d]
    BY <1>5, <2>2, TheCaches
  <2>7. CASE ~Spare(g, c, i)
    <3>1. k = g /\ Tidy(g.pool)
      BY <1>8, <1>10, <2>5, <2>7 DEF TidySpared
    <3>2. QED
      BY <1>7, <2>2, <2>6, <3>1 DEF KfreedAny, Ok
  <2>8. CASE Spare(g, c, i)
    <3>1. k = DestroySlab(g, c, i)
      BY <1>8, <1>10, <2>8
    <3>2. g.pool[c][i].using_count = 0 /\ i # 1
      BY <2>8 DEF Spare
    <3>3. ~Static(c, i) /\ i \in 1 .. Len(g.pool[c]) /\ c \in Caches \ Small
      BY <1>10, <2>2, <3>2 DEF Static
    <3>4. \A P \in Pools : Put(P, g.pool, c, i, g.pool[c][i]) => Tidy(P)
      BY <2>5, <3>2 DEF TidySpared
    <3>5. /\ Ok(DestroySlab(g, c, i), V \ {u}, W, {})
          /\ \A d \in Caches \ Small : d # c => DestroySlab(g, c, i).pool[d] = g.pool[d]
      BY <2>2, <3>2, <3>3, <3>4, DestroyOk
    <3>6. \A d \in Created : k.pool[d] = h.pool[d]
      BY <1>5, <2>6, <3>1, <3>5, TheCaches
    <3>7. QED
      BY <1>7, <3>1, <3>5, <3>6 DEF KfreedAny
  <2>9. QED
    BY <2>7, <2>8
<1>11. QED
  BY <1>9, <1>10

(* The struct Slab_caches, and what the callers hold beside them.          *)
Structs(ca) == {ca[c] : c \in Created} \ {NoObject}

Serving(h, V, lv, ca) ==
  /\ Ok(h, V, Structs(ca), {}) /\ <<0, 0>> \notin Structs(ca)
  /\ lv = (V \cup Structs(ca)) \ {<<0, 0>>} /\ IsFiniteSet(lv)

\* Each created cache has its own struct, and slabs as long as it has it.
OwnStruct(ca) ==
  /\ ca \in [Created -> Slot]
  /\ \A c, d \in Created : ca[c] = ca[d] /\ ca[c] # NoObject => c = d
Matched(P, ca) == \A c \in Created : ca[c] = NoObject <=> P[c] = <<>>

\* A created cache has one unused slab beside its first at most, and none
\* as long as every slab_free has returned.
Lean(q, loop) ==
  /\ \A i, j \in 2 .. Len(q) : q[i].using_count = 0 /\ q[j].using_count = 0 => i = j
  /\ loop = {} => \A i \in 2 .. Len(q) : q[i].using_count # 0

SlabIs(h, lv, ca, loop) ==
  /\ \E V : Serving(h, V, lv, ca)
  /\ OwnStruct(ca) /\ Matched(h.pool, ca)
  /\ \A c \in Created : Lean(h.pool[c], loop)

(* A call that leaves the created caches alone, and hands out nothing or an*)
(* object of its own.                                                      *)
LEMMA OthersStay ==
  ASSUME NEW P, NEW Q, NEW ca, NEW loop, \A d \in Created : Q[d] = P[d],
         Matched(P, ca), \A c \in Created : Lean(P[c], loop)
  PROVE  Matched(Q, ca) /\ \A c \in Created : Lean(Q[c], loop)
BY DEF Matched

(* kmalloc_slab_init.                                                      *)
LEMMA ServingStays ==
  ASSUME NEW g, NEW V, NEW lv, NEW ca, OkOrLost(g, V, Structs(ca), {}),
         <<0, 0>> \notin Structs(ca), lv = (V \cup Structs(ca)) \ {<<0, 0>>}, IsFiniteSet(lv)
  PROVE  \E X : Serving(g, X, lv, ca)
<1>1. CASE Ok(g, V, Structs(ca), {})
  BY <1>1 DEF Serving
<1>2. CASE Ok(g, V \cup {<<0, 0>>}, Structs(ca), {})
  <2>1. lv = ((V \cup {<<0, 0>>}) \cup Structs(ca)) \ {<<0, 0>>}
    OBVIOUS
  <2>2. Serving(g, V \cup {<<0, 0>>}, lv, ca)
    BY <1>2, <2>1, Zenon DEF Serving
  <2>3. QED
    BY <2>2
<1>3. QED
  BY <1>1, <1>2 DEF OkOrLost

(* kmalloc and kfree.                                                      *)
LEMMA KmallocStep ==
  ASSUME SlabIs(heap, live, cache, looping), NEW c \in Caches \ Created, kmalloc(c),
         UNCHANGED <<cache, looping>>, ~astray'
  PROVE  SlabIs(heap, live, cache, looping)'
<1>1. PICK V : Serving(heap, V, live, cache)
  BY DEF SlabIs
<1>2. PICK r \in KmallocAny(heap, c) :
        /\ heap' = r.heap /\ r.obj # Wild
        /\ live' = IF r.obj \in {NoObject, Wild} THEN live ELSE live \cup {r.obj}
  BY DEF kmalloc
<1>3. PICK W : W = Structs(cache)
  OBVIOUS
<1>4. Ok(heap, V, W, {}) /\ <<0, 0>> \notin W /\ live = (V \cup W) \ {<<0, 0>>} /\ IsFiniteSet(live)
  BY <1>1, <1>3 DEF Serving
<1>5. AnyLeaves(heap, r.heap, r.obj, V, W)
  BY <1>2, <1>4, KmallocAnyOk, Zenon
<1>6. \A d \in Created : heap'.pool[d] = heap.pool[d]
  BY <1>2, <1>5 DEF AnyLeaves
<1>7. Matched(heap'.pool, cache) /\ \A d \in Created : Lean(heap'.pool[d], looping)
  <2>1. PICK P, Q : P = heap.pool /\ Q = heap'.pool
    OBVIOUS
  <2>2. (\A d \in Created : Q[d] = P[d]) /\ Matched(P, cache) /\ \A d \in Created : Lean(P[d], looping)
    BY <1>6, <2>1 DEF SlabIs
  <2>3. Matched(Q, cache) /\ \A d \in Created : Lean(Q[d], looping)
    BY <2>2, OthersStay, Zenon
  <2>4. QED
    BY <2>1, <2>3
<1>8. \E X : Serving(heap', X, live', cache)
  <2>1. CASE r.obj = NoObject
    <3>1. OkOrLost(heap', V, W, {}) /\ live' = live
      BY <1>2, <1>5, <2>1 DEF AnyLeaves
    <3>2. QED
      BY <1>3, <1>4, <3>1, ServingStays, Zenon
  <2>2. CASE r.obj # NoObject
    <3>1. PICK u : u = r.obj
      OBVIOUS
    <3>2. u # <<0, 0>> /\ Ok(heap', V \cup {u}, W, {}) /\ live' = live \cup {u}
      BY <1>2, <1>5, <2>2, <3>1 DEF AnyLeaves
    <3>3. live' = ((V \cup {u}) \cup W) \ {<<0, 0>>}
      BY <1>4, <3>2
    <3>4. IsFiniteSet(live')
      BY <1>4, <3>2, FS_AddElement
    <3>5. Serving(heap', V \cup {u}, live', cache)
      BY <1>3, <1>4, <3>2, <3>3, <3>4, Zenon DEF Serving
    <3>6. QED
      BY <3>5
  <2>3. QED
    BY <2>1, <2>2
<1>9. QED
  BY <1>7, <1>8 DEF SlabIs

(* kfree of an object kmalloc gave keeps the invariant.                    *)
LEMMA KfreeStep ==
  ASSUME SlabIs(heap, live, cache, looping), NEW u \in Kmallocd, kfree(u),
         UNCHANGED <<cache, looping>>
  PROVE  SlabIs(heap, live, cache, looping)'
<1>1. PICK V : Serving(heap, V, live, cache)
  BY DEF SlabIs
<1>2. heap' = KfreeAny(heap, u) /\ live' = live \ {u}
  BY DEF kfree
<1>3. PICK W : W = Structs(cache)
  OBVIOUS
<1>4. Ok(heap, V, W, {}) /\ <<0, 0>> \notin W /\ live = (V \cup W) \ {<<0, 0>>} /\ IsFiniteSet(live)
  BY <1>1, <1>3 DEF Serving
<1>5. u \in V /\ u \notin W /\ Home(heap, u).cache \notin Created
  BY <1>3, <1>4 DEF Kmallocd, Structs
<1>6. KfreedAny(heap, KfreeAny(heap, u), u, V, W)
  BY <1>4, <1>5, KfreeAnyOk, Zenon
<1>7. Ok(heap', V \ {u}, W, {}) /\ \A d \in Created : heap'.pool[d] = heap.pool[d]
  BY <1>2, <1>6 DEF KfreedAny
<1>8. Matched(heap'.pool, cache) /\ \A d \in Created : Lean(heap'.pool[d], looping)
  <2>1. PICK P, Q : P = heap.pool /\ Q = heap'.pool
    OBVIOUS
  <2>2. (\A d \in Created : Q[d] = P[d]) /\ Matched(P, cache) /\ \A d \in Created : Lean(P[d], looping)
    BY <1>7, <2>1 DEF SlabIs
  <2>3. Matched(Q, cache) /\ \A d \in Created : Lean(Q[d], looping)
    BY <2>2, OthersStay, Zenon
  <2>4. QED
    BY <2>1, <2>3
<1>9. live' = ((V \ {u}) \cup W) \ {<<0, 0>>}
  BY <1>2, <1>4, <1>5
<1>10. IsFiniteSet(live')
  BY <1>2, <1>4, FS_RemoveElement
<1>11. Serving(heap', V \ {u}, live', cache)
  BY <1>3, <1>4, <1>7, <1>9, <1>10, Zenon DEF Serving
<1>12. QED
  BY <1>8, <1>11 DEF SlabIs

\* Cache c has the struct u in cb, and the others have theirs.
Assigned(ca, cb, c, u) ==
  /\ OwnStruct(cb) /\ Structs(cb) = Structs(ca) \cup {u} /\ cb[c] # NoObject
  /\ \A d \in Created : d # c => cb[d] = ca[d]

(* A struct is taken for cache c,                                          *)
LEMMA StructTaken ==
  ASSUME NEW ca, OwnStruct(ca), NEW c \in Created, ca[c] = NoObject,
         NEW u \in Objects \ Structs(ca), NEW cb, cb = [ca EXCEPT ![c] = u]
  PROVE  Assigned(ca, cb, c, u)
<1>1. u # NoObject /\ u \in Slot
  BY TheCaches DEF Slot
<1>2. ca \in [Created -> Slot] /\ \A d, e \in Created : ca[d] = ca[e] /\ ca[d] # NoObject => d = e
  BY DEF OwnStruct
<1>3. cb \in [Created -> Slot] /\ cb[c] = u /\ \A d \in Created : d # c => cb[d] = ca[d]
  BY <1>1, <1>2
<1>4. \A d \in Created : ca[d] # u
  BY <1>1 DEF Structs
<1>5. OwnStruct(cb)
  BY <1>1, <1>2, <1>3, <1>4 DEF OwnStruct
<1>6. Structs(cb) = Structs(ca) \cup {u}
  BY <1>1, <1>3 DEF Structs
<1>7. QED
  BY <1>1, <1>3, <1>5, <1>6 DEF Assigned

\* It has none, and its old one is no longer any cache's.
Returned(ca, cb, c) ==
  /\ OwnStruct(cb) /\ Structs(cb) = Structs(ca) \ {ca[c]} /\ cb[c] = NoObject
  /\ ca[c] \in Structs(ca)
  /\ \A d \in Created : d # c => cb[d] = ca[d]

(* and given back.                                                         *)
LEMMA StructGiven ==
  ASSUME NEW ca, OwnStruct(ca), NEW c \in Created, ca[c] # NoObject,
         NEW cb, cb = [ca EXCEPT ![c] = NoObject]
  PROVE  Returned(ca, cb, c)
<1>1. ca \in [Created -> Slot] /\ \A d, e \in Created : ca[d] = ca[e] /\ ca[d] # NoObject => d = e
  BY DEF OwnStruct
<1>2. NoObject \in Slot
  BY DEF Slot
<1>3. cb \in [Created -> Slot] /\ cb[c] = NoObject /\ \A d \in Created : d # c => cb[d] = ca[d]
  BY <1>1, <1>2
<1>4. OwnStruct(cb)
  BY <1>1, <1>3 DEF OwnStruct
<1>5. Structs(cb) = Structs(ca) \ {ca[c]}
  BY <1>1, <1>3 DEF Structs
<1>6. QED
  BY <1>3, <1>4, <1>5 DEF Structs, Returned

(* A pool without slabs counts no free object.                             *)
LEMMA EmptyPool ==
  ASSUME NEW h, NEW U, NEW F, Sound(h, U, F), NEW c \in Caches, h.pool[c] = <<>>
  PROVE  h.total_free[c] = 0
<1>1. PICK q : q = h.pool[c]
  OBVIOUS
<1>2. q = <<>> /\ q \in Seq(SlabSet) /\ Len(q) = 0
  BY <1>1
<1>3. Left(q) \in [1 .. 0 -> Int]
  BY <1>2, CountsOf
<1>4. Total(Left(q)) = 0
  <2>1. PICK f : f = Left(q)
    OBVIOUS
  <2>2. 0 \in Nat /\ f \in [1 .. 0 -> Int] /\ \A i \in 1 .. 0 : f[i] = 0
    BY <1>3, <2>1
  <2>3. Total(f) = 0
    BY <2>2, TotalOfZeros, Zenon
  <2>4. QED
    BY <2>1, <2>3
<1>5. QED
  BY <1>1, <1>4 DEF Sound

\* The first slab of a created cache.
FirstSlab(h, c, s) == [h EXCEPT !.pool[c] = <<s>>, !.total_free[c] = s.free_count]

\* The pool c of k has that slab only, and the others are as in h.
Opened(h, k, c, V, W) ==
  /\ Ok(k, V, W, {}) /\ Len(k.pool[c]) = 1
  /\ \A d \in Created : d # c => k.pool[d] = h.pool[d]

(* A cache that had no slab and gets its first one.                        *)
LEMMA FirstSlabOk ==
  ASSUME NEW h, NEW k, NEW V, NEW W, NEW c \in Created, NEW s, s # NoObject,
         NewSlabLeaves(h, k, s, c, V, W), h.pool[c] = <<>>
  PROVE  Opened(h, FirstSlab(k, c, s), c, V, W)
<1>1. PICK p \in Pages : \E header, map \in Objects \ (V \cup W \cup {<<0, 0>>}) :
         /\ header # map /\ s = Slab(p, Capacity[c], {}, header, map)
         /\ Ok(k, V, W \cup {header, map}, {p})
  BY Zenon DEF NewSlabLeaves
<1>2. PICK header, map \in Objects \ (V \cup W \cup {<<0, 0>>}) :
         /\ header # map /\ s = Slab(p, Capacity[c], {}, header, map)
         /\ Ok(k, V, W \cup {header, map}, {p})
  BY <1>1
<1>3. c \in Caches \ Small
  BY TheCaches
<1>4. k.pool[c] = <<>> /\ \A d \in Created : k.pool[d] = h.pool[d]
  BY <1>3, TheCaches DEF NewSlabLeaves
<1>5. PICK U : U = V \cup (W \cup {header, map}) \cup Own(Labels(k.pool))
  OBVIOUS
<1>6. Sound(k, U, {p}) /\ k \in HeapSet
  BY <1>2, <1>5 DEF Ok, Fit, Sound
<1>7. k.total_free[c] = 0
  BY <1>3, <1>4, <1>6, EmptyPool
<1>8. ~Static(c, 1)
  BY DEF Static
<1>9. s \in SlabSet
  <2>1. {} \in SUBSET Bits(Capacity[c]) /\ header \in Slot /\ map \in Slot
        /\ header # NoObject /\ map # NoObject /\ Capacity[c] = Color(c, 1)
    BY <1>3, TheCaches DEF Slot, Color
  <2>2. Slab(p, Capacity[c], {}, header, map) \in SlabSet
    BY <1>3, <1>8, <2>1, NewGood
  <2>3. QED
    BY <1>2, <2>2, Zenon
<1>10. PICK q, m : q = <<s>> /\ m = k.total_free[c] + s.free_count
  OBVIOUS
<1>11. Inserted(k.pool[c], q, 1, s)
  BY <1>4, <1>9, <1>10 DEF Inserted
<1>12. m = s.free_count
  <2>1. s.free_count \in Nat
    BY <1>9 DEF SlabSet
  <2>2. QED
    BY <1>7, <1>10, <2>1
<1>13. FirstSlab(k, c, s) = Relisted(k, c, q, m)
  BY <1>10, <1>12, Zenon DEF FirstSlab, Relisted
<1>14. LinkedLarge(k, Relisted(k, c, q, m), c, 1, s, V, W)
  BY <1>2, <1>3, <1>8, <1>10, <1>11, LinkLarge, Zenon
<1>15. PICK g : g = FirstSlab(k, c, s)
  OBVIOUS
<1>16. Ok(g, V, W, {}) /\ Put(k.pool, g.pool, c, 1, s)
  BY <1>13, <1>14, <1>15, Zenon DEF LinkedLarge
<1>17. Len(g.pool[c]) = 1
  BY <1>4, <1>16 DEF Put, Inserted
<1>18. \A d \in Created : d # c => g.pool[d] = h.pool[d]
  BY <1>4, <1>16, TheCaches DEF Put
<1>19. QED
  BY <1>15, <1>16, <1>17, <1>18 DEF Opened

(* slab_create.                                                            *)
LEMMA CreateStep ==
  ASSUME SlabIs(heap, live, cache, looping), NEW c \in Created, slab_create(c), ~astray'
  PROVE  SlabIs(heap, live, cache, looping)'
<1>1. PICK V : Serving(heap, V, live, cache)
  BY DEF SlabIs
<1>2. PICK W : W = Structs(cache)
  OBVIOUS
<1>3. Ok(heap, V, W, {}) /\ <<0, 0>> \notin W /\ live = (V \cup W) \ {<<0, 0>>} /\ IsFiniteSet(live)
  BY <1>1, <1>2 DEF Serving
<1>4. /\ cache[c] = NoObject /\ heap.pool[c] = <<>> /\ OwnStruct(cache) /\ Matched(heap.pool, cache)
      /\ \A d \in Created : Lean(heap.pool[d], looping)
  BY DEF SlabIs, slab_create, Matched
<1>0. PICK x \in KmallocSmall(heap, StructCache) :
        \E new \in IF x.obj \in {NoObject, Wild} THEN {[heap |-> x.heap, self |-> x.obj]}
                   ELSE WithSlab(x.heap, c, x.obj) :
           /\ heap' = new.heap /\ new.self # Wild
           /\ IF new.self \in {NoObject, Wild} THEN UNCHANGED <<cache, live>>
              ELSE /\ cache' = [cache EXCEPT ![c] = new.self]
                   /\ live' = live \cup {new.self}
  <2>1. slab_create(c) /\ ~astray'
    OBVIOUS
  <2>2. QED
    BY <2>1, Zenon DEF slab_create
<1>5. /\ x.obj # Wild
      /\ x.obj = NoObject => heap' = x.heap /\ cache' = cache /\ live' = live
      /\ x.obj # NoObject =>
           \E new \in WithSlab(x.heap, c, x.obj) :
              /\ heap' = new.heap /\ new.self # Wild
              /\ IF new.self = NoObject THEN cache' = cache /\ live' = live
                 ELSE /\ cache' = [cache EXCEPT ![c] = new.self]
                      /\ live' = live \cup {new.self}
  <2>1. CASE x.obj \in {NoObject, Wild}
    <3>1. PICK new : /\ new = [heap |-> x.heap, self |-> x.obj]
                     /\ heap' = new.heap /\ new.self # Wild
                     /\ IF new.self \in {NoObject, Wild} THEN UNCHANGED <<cache, live>>
                        ELSE /\ cache' = [cache EXCEPT ![c] = new.self]
                             /\ live' = live \cup {new.self}
      BY <1>0, <2>1
    <3>2. new.heap = x.heap /\ new.self = x.obj
      BY <3>1
    <3>3. QED
      BY <2>1, <3>1, <3>2
  <2>2. CASE x.obj \notin {NoObject, Wild}
    BY <1>0, <2>2
  <2>3. QED
    BY <2>1, <2>2
<1>6. looping' = looping
  BY DEF slab_create
<1>7. KmallocLeaves(heap, x.heap, x.obj, V, W, {})
  <2>1. StructCache \in Small
    BY SlabCacheAssumption DEF SlabCacheAssumption
  <2>2. QED
    BY <1>3, <1>5, <2>1, KmallocSmallOk, Zenon
<1>8. \A d \in Created : x.heap.pool[d] = heap.pool[d]
  BY <1>7, TheCaches DEF KmallocLeaves
<1>9. ASSUME cache' = cache, live' = live, OkOrLost(heap', V, W, {}),
             \A d \in Created : heap'.pool[d] = heap.pool[d]
      PROVE  SlabIs(heap, live, cache, looping)'
  <2>1. \E X : Serving(heap', X, live, cache)
    BY <1>2, <1>3, <1>9, ServingStays, Zenon
  <2>2. PICK P, Q : P = heap.pool /\ Q = heap'.pool
    OBVIOUS
  <2>3. (\A d \in Created : Q[d] = P[d]) /\ Matched(P, cache) /\ \A d \in Created : Lean(P[d], looping)
    BY <1>4, <1>9, <2>2
  <2>4. Matched(Q, cache) /\ \A d \in Created : Lean(Q[d], looping)
    BY <2>3, OthersStay, Zenon
  <2>5. QED
    BY <1>4, <1>6, <1>9, <2>1, <2>2, <2>4 DEF SlabIs
<1>10. CASE x.obj = NoObject
  <2>1. heap' = x.heap /\ cache' = cache /\ live' = live
    BY <1>5, <1>10
  <2>2. OkOrLost(heap', V, W, {})
    BY <1>7, <1>10, <2>1 DEF KmallocLeaves, OkOrLost
  <2>3. QED
    BY <1>8, <1>9, <2>1, <2>2
<1>11. CASE x.obj # NoObject
  <2>1. PICK k, u : k = x.heap /\ u = x.obj
    OBVIOUS
  <2>2. /\ u \in Objects /\ u \notin V \cup W /\ u # <<0, 0>> /\ u # NoObject
        /\ Ok(k, V, W \cup {u}, {})
    BY <1>7, <1>11, <2>1 DEF KmallocLeaves
  <2>3. PICK r \in WithSlab(k, c, u) :
          /\ heap' = r.heap /\ r.self # Wild
          /\ IF r.self = NoObject THEN cache' = cache /\ live' = live
             ELSE /\ cache' = [cache EXCEPT ![c] = r.self]
                  /\ live' = live \cup {r.self}
    BY <1>5, <1>11, <2>1
  <2>0. PICK new \in GetNewSlab(k, c) :
          r = IF new.slab = NoObject
              THEN [heap |-> KfreeSmall(new.heap, u), self |-> NoObject]
              ELSE IF new.slab = Wild THEN [heap |-> new.heap, self |-> Wild]
              ELSE [heap |-> FirstSlab(new.heap, c, new.slab), self |-> u]
    BY <2>3, Zenon DEF WithSlab, FirstSlab
  <2>4. /\ new.slab # Wild
        /\ r = IF new.slab = NoObject
               THEN [heap |-> KfreeSmall(new.heap, u), self |-> NoObject]
               ELSE [heap |-> FirstSlab(new.heap, c, new.slab), self |-> u]
    <3>1. NoObject # Wild
      BY KmallocAssumption DEF KmallocAssumption
    <3>2. ASSUME new.slab = Wild PROVE FALSE
      <4>1. r = [heap |-> new.heap, self |-> Wild]
        BY <2>0, <3>1, <3>2
      <4>2. r.self = Wild
        BY <4>1
      <4>3. QED
        BY <2>3, <4>2
    <3>3. QED
      BY <2>0, <3>2
  <2>5. c \in Caches \ (Small \cup Missing)
    BY KmallocAssumption DEF KmallocAssumption
  <2>6. PICK Y : Y = W \cup {u}
    OBVIOUS
  <2>7. NewSlabLeaves(k, new.heap, new.slab, c, V, Y)
    BY <2>2, <2>4, <2>5, <2>6, GetNewSlabOk, Zenon
  <2>8. k.pool[c] = <<>>
    BY <1>4, <1>8, <2>1
  <2>9. CASE new.slab = NoObject
    <3>1. r.heap = KfreeSmall(new.heap, u) /\ r.self = NoObject
      BY <2>4, <2>9
    <3>2. cache' = cache /\ live' = live
      BY <2>3, <3>1
    <3>3. OkOrLost(new.heap, V, W \cup {u}, {}) /\ \A d \in Caches \ Small : new.heap.pool[d] = k.pool[d]
      BY <2>6, <2>7, <2>9 DEF NewSlabLeaves
    <3>4. StructFreed(new.heap, KfreeSmall(new.heap, u), V, W)
      BY <2>2, <3>3, KfreeHeld, Zenon
    <3>5. OkOrLost(heap', V, W, {}) /\ \A d \in Caches \ Small : heap'.pool[d] = new.heap.pool[d]
      BY <2>3, <3>1, <3>4 DEF StructFreed
    <3>6. \A d \in Created : heap'.pool[d] = heap.pool[d]
      BY <1>8, <2>1, <3>3, <3>5, TheCaches
    <3>7. QED
      BY <1>9, <3>2, <3>5, <3>6
  <2>10. CASE new.slab # NoObject
    <3>1. r.heap = FirstSlab(new.heap, c, new.slab) /\ r.self = u
      BY <2>4, <2>10
    <3>2. Opened(k, FirstSlab(new.heap, c, new.slab), c, V, Y)
      BY <2>7, <2>8, <2>10, FirstSlabOk, Zenon
    <3>3. /\ Ok(heap', V, Y, {}) /\ Len(heap'.pool[c]) = 1
          /\ \A d \in Created : d # c => heap'.pool[d] = heap.pool[d]
      BY <1>8, <2>1, <2>3, <3>1, <3>2 DEF Opened
    <3>4. cache' = [cache EXCEPT ![c] = u] /\ live' = live \cup {u}
      BY <2>2, <2>3, <3>1
    <3>5. /\ OwnStruct(cache') /\ Structs(cache') = Y /\ cache'[c] # NoObject
          /\ \A d \in Created : d # c => cache'[d] = cache[d]
      <4>1. u \in Objects \ Structs(cache)
        BY <1>2, <2>2
      <4>2. Assigned(cache, cache', c, u)
        BY <1>4, <3>4, <4>1, StructTaken, Zenon
      <4>3. QED
        BY <1>2, <2>6, <4>2 DEF Assigned
    <3>6. live' = (V \cup Y) \ {<<0, 0>>} /\ <<0, 0>> \notin Y
      BY <1>3, <2>2, <2>6, <3>4
    <3>7. IsFiniteSet(live')
      BY <1>3, <3>4, FS_AddElement
    <3>8. Serving(heap', V, live', cache')
      BY <3>3, <3>5, <3>6, <3>7, Zenon DEF Serving
    <3>9. Matched(heap'.pool, cache')
      BY <1>4, <3>3, <3>5 DEF Matched
    <3>10. \A d \in Created : Lean(heap'.pool[d], looping)
      BY <1>4, <3>3 DEF Lean
    <3>11. QED
      BY <1>6, <3>5, <3>8, <3>9, <3>10 DEF SlabIs
  <2>11. QED
    BY <2>9, <2>10
<1>12. QED
  BY <1>10, <1>11

(* A cache with one slab loses it,                                         *)
LEMMA OneSlab ==
  ASSUME NEW h, NEW c, Len(h.pool[c]) = 1
  PROVE  WithoutSlabs(h, c) = DestroySlab(h, c, 1)
<1>1. PICK D : D = DestroySlab(h, c, 1)
  OBVIOUS
<1> DEFINE R(g) == g = [n \in 0 .. Len(h.pool[c]) |->
                          IF n = 0 THEN h ELSE DestroySlab(g[n - 1], c, 1)]
<1>2. \E g : R(g)
  <2>1. PICK g : g = [n \in 0 .. 1 |-> IF n = 0 THEN h ELSE D]
    OBVIOUS
  <2>2. g[0] = h
    BY <2>1
  <2>3. \A n \in 0 .. 1 : (IF n = 0 THEN h ELSE D) = (IF n = 0 THEN h ELSE DestroySlab(g[n - 1], c, 1))
    <3> SUFFICES ASSUME NEW n \in 0 .. 1
                 PROVE  (IF n = 0 THEN h ELSE D)
                        = (IF n = 0 THEN h ELSE DestroySlab(g[n - 1], c, 1))
      OBVIOUS
    <3>1. n = 0 \/ n - 1 = 0
      OBVIOUS
    <3>2. QED
      BY <1>1, <2>2, <3>1
  <2>4. g = [n \in 0 .. 1 |-> IF n = 0 THEN h ELSE DestroySlab(g[n - 1], c, 1)]
    BY <2>1, <2>3, Zenon
  <2>5. QED
    BY <2>4
<1>3. PICK after : after = CHOOSE g : R(g)
  OBVIOUS
<1>4. R(after)
  BY <1>2, <1>3
<1>5. after[0] = h /\ after[1] = DestroySlab(after[0], c, 1)
  <2>1. 0 \in 0 .. Len(h.pool[c]) /\ 1 \in 0 .. Len(h.pool[c]) /\ 1 # 0 /\ 1 - 1 = 0
    OBVIOUS
  <2>2. QED
    BY <1>4, <2>1
<1>6. WithoutSlabs(h, c) = after[1]
  BY <1>3 DEF WithoutSlabs
<1>7. QED
  BY <1>5, <1>6

\* The heap without the last slab of cache c.
Closed(h, k, c, V, W) ==
  /\ Ok(k, V, W, {}) /\ k.pool[c] = <<>>
  /\ \A d \in Created : d # c => k.pool[d] = h.pool[d]

(* A cache whose unused slabs are all destroyed has none left.             *)
LEMMA LastSlabOk ==
  ASSUME NEW h, NEW V, NEW W, Ok(h, V, W, {}), NEW c \in Created, h.pool[c] # <<>>,
         h.total_using[c] = 0, \A i \in 2 .. Len(h.pool[c]) : h.pool[c][i].using_count # 0
  PROVE  Closed(h, WithoutSlabs(h, c), c, V, W)
<1>1. PICK q, k, U : /\ q = h.pool[c] /\ k = WithoutSlabs(h, c)
                     /\ U = V \cup W \cup Own(Labels(h.pool))
  OBVIOUS
<1>2. Fit(h, V, W, {}) /\ Tidy(h.pool) /\ Sound(h, U, {}) /\ h \in HeapSet
  BY <1>1 DEF Ok, Fit, Sound
<1>3. c \in Caches \ Small /\ q \in Seq(SlabSet) /\ Len(q) \in Nat
  BY <1>1, <1>2, TheCaches, TheHeap
<1>4. \A i \in 1 .. Len(h.pool[c]) : h.pool[c][i].using_count = 0
  BY <1>2, <1>3, FreeIsThere
<1>5. Len(q) = 1
  <2>1. PICK n : n = Len(q)
    OBVIOUS
  <2>2. n \in Nat /\ n # 0
    BY <1>1, <1>3, <2>1, EmptySeq
  <2>3. ~(n >= 2)
    <3> SUFFICES ASSUME n >= 2 PROVE FALSE
      OBVIOUS
    <3>1. 2 \in 2 .. n /\ 2 \in 1 .. n
      BY <2>2
    <3>2. QED
      BY <1>1, <1>4, <2>1, <3>1
  <2>4. n = 1
    BY <2>2, <2>3
  <2>5. QED
    BY <2>1, <2>4
<1>6. k = DestroySlab(h, c, 1)
  BY <1>1, <1>5, OneSlab
<1>7. 1 \in 1 .. Len(q) /\ q[1].using_count = 0 /\ ~Static(c, 1) /\ q[1] \in SlabSet
  BY <1>1, <1>2, <1>3, <1>4, <1>5, TheHeap DEF Static
<1>8. \A P \in Pools : Put(P, h.pool, c, 1, h.pool[c][1]) => Tidy(P)
  <2> SUFFICES ASSUME NEW P \in Pools, Put(P, h.pool, c, 1, h.pool[c][1]) PROVE Tidy(P)
    OBVIOUS
  <2>1. \A d \in Caches \ Created : P[d] = h.pool[d]
    BY DEF Put
  <2>2. QED
    BY <1>2, <2>1 DEF Tidy
<1>9. /\ Ok(k, V, W, {}) /\ k.pool[c] = RemoveAt(q, 1)
      /\ \A d \in Caches \ Small : d # c => k.pool[d] = h.pool[d]
  <2>1. /\ Ok(DestroySlab(h, c, 1), V, W, {})
        /\ \A d \in Caches \ Small : d # c => DestroySlab(h, c, 1).pool[d] = h.pool[d]
        /\ DestroySlab(h, c, 1).pool[c] = RemoveAt(h.pool[c], 1)
    BY <1>1, <1>2, <1>3, <1>7, <1>8, DestroyOk
  <2>2. QED
    BY <1>1, <1>6, <2>1
<1>10. RemoveAt(q, 1) = <<>>
  <2>1. PICK r : r = RemoveAt(q, 1)
    OBVIOUS
  <2>2. r \in Seq(SlabSet) /\ Inserted(r, q, 1, q[1])
    BY <1>3, <1>7, <2>1, InsertionsAre
  <2>3. Len(q) = Len(r) + 1 /\ Len(r) \in Nat
    BY <2>2 DEF Inserted
  <2>4. Len(r) = 0
    BY <1>5, <2>3
  <2>5. QED
    BY <2>1, <2>2, <2>4, EmptySeq
<1>11. QED
  BY <1>1, <1>9, <1>10, TheCaches DEF Closed

(* slab_destory, while every slab_free has returned.                       *)
LEMMA DestroyStep ==
  ASSUME SlabIs(heap, live, cache, looping), looping = {}, NEW c \in Created, slab_destory(c)
  PROVE  SlabIs(heap, live, cache, looping)'
<1>1. PICK V : Serving(heap, V, live, cache)
  BY DEF SlabIs
<1>2. PICK W, u : W = Structs(cache) /\ u = cache[c]
  OBVIOUS
<1>3. Ok(heap, V, W, {}) /\ <<0, 0>> \notin W /\ live = (V \cup W) \ {<<0, 0>>} /\ IsFiniteSet(live)
  BY <1>1, <1>2 DEF Serving
<1>4. /\ u # NoObject /\ heap.total_using[c] = 0
      /\ heap' = KfreeSmall(WithoutSlabs(heap, c), u) /\ live' = live \ {u}
      /\ cache' = [cache EXCEPT ![c] = NoObject] /\ looping' = looping
  BY <1>2 DEF slab_destory
<1>5. /\ heap.pool[c] # <<>> /\ OwnStruct(cache) /\ Matched(heap.pool, cache)
      /\ \A d \in Created : Lean(heap.pool[d], looping)
  BY <1>2, <1>4 DEF SlabIs, Matched
<1>6. /\ OwnStruct(cache') /\ Structs(cache') = W \ {u} /\ cache'[c] = NoObject /\ u \in W
      /\ \A d \in Created : d # c => cache'[d] = cache[d]
  <2>1. Returned(cache, cache', c)
    BY <1>2, <1>4, <1>5, StructGiven, Zenon
  <2>2. QED
    BY <1>2, <2>1 DEF Returned
<1>7. PICK k : k = WithoutSlabs(heap, c)
  OBVIOUS
<1>8. Closed(heap, k, c, V, W)
  <2>1. \A i \in 2 .. Len(heap.pool[c]) : heap.pool[c][i].using_count # 0
    BY <1>5 DEF Lean
  <2>2. QED
    BY <1>3, <1>4, <1>5, <1>7, <2>1, LastSlabOk, Zenon
<1>9. KfreeLeaves(k, heap', u, V, W, {})
  BY <1>4, <1>6, <1>7, <1>8, KfreeSmallOk, Zenon DEF Closed
<1>10. Ok(heap', V, W \ {u}, {}) /\ \A d \in Created : heap'.pool[d] = k.pool[d]
  BY <1>9, TheCaches DEF KfreeLeaves
<1>11. heap'.pool[c] = <<>> /\ \A d \in Created : d # c => heap'.pool[d] = heap.pool[d]
  BY <1>8, <1>10 DEF Closed
<1>12. u \notin V
  BY <1>3, <1>6 DEF Ok, Fit
<1>13. live' = (V \cup (W \ {u})) \ {<<0, 0>>} /\ <<0, 0>> \notin W \ {u}
  BY <1>3, <1>4, <1>12
<1>14. IsFiniteSet(live')
  BY <1>3, <1>4, FS_RemoveElement
<1>15. Serving(heap', V, live', cache')
  BY <1>6, <1>10, <1>13, <1>14, Zenon DEF Serving
<1>16. Matched(heap'.pool, cache')
  BY <1>5, <1>6, <1>11 DEF Matched
<1>17. \A d \in Created : Lean(heap'.pool[d], looping)
  <2>1. Lean(<<>>, looping)
    BY DEF Lean
  <2>2. QED
    BY <1>5, <1>11, <2>1
<1>18. QED
  BY <1>4, <1>6, <1>15, <1>16, <1>17 DEF SlabIs

\* r hands out an object of slab i of the created cache c.
Served(h, r, c, i, V, W) ==
  /\ r.obj \in Objects \ (V \cup W) /\ r.obj # <<0, 0>> /\ Ok(r.heap, V \cup {r.obj}, W, {})
  /\ \A d \in Caches : d # c => r.heap.pool[d] = h.pool[d]
  /\ Len(r.heap.pool[c]) = Len(h.pool[c])
  /\ \A k \in 1 .. Len(h.pool[c]) : k # i => r.heap.pool[c][k] = h.pool[c][k]
  /\ r.heap.pool[c][i].using_count >= 1

(* An object of a slab of a created cache, whose page alloc_pages gave.    *)
LEMMA TakeOfCreated ==
  ASSUME NEW h, NEW V, NEW W, Ok(h, V, W, {}), NEW c \in Created,
         NEW i \in 1 .. Len(h.pool[c]),
         Bits(h.pool[c][i].color_count) \ h.pool[c][i].color_map # {}
  PROVE  Served(h, DoSlabMalloc(h, c, i), c, i, V, W)
<1>1. PICK r, U : r = DoSlabMalloc(h, c, i) /\ U = V \cup W \cup Own(Labels(h.pool))
  OBVIOUS
<1>2. Fit(h, V, W, {}) /\ Tidy(h.pool) /\ Sound(h, U, {}) /\ c \in Caches
  BY <1>1, TheCaches DEF Ok, Fit
<1>3. \E u \in Objects : /\ Took(h, DoSlabMalloc(h, c, i).heap, c, i, u, V, W, {})
                         /\ DoSlabMalloc(h, c, i).obj = Address(u[1], u[2])
  BY <1>2, TakeFit
<1>4. PICK u \in Objects : Took(h, r.heap, c, i, u, V, W, {}) /\ r.obj = Address(u[1], u[2])
  BY <1>1, <1>3, Zenon
<1>5. u[1] \in Pages
  <2>1. Good(h.pool[c][i], U, c, i)
    BY <1>2 DEF Sound, AllGood
  <2>2. h.pool[c][i].page \in Pages
    BY <2>1 DEF Good, Static
  <2>3. QED
    BY <1>4, <2>2 DEF Took
<1>6. u = <<u[1], u[2]>> /\ u[1] # 0
  BY <1>5, TheCaches DEF Objects
<1>7. u # <<0, 0>> /\ r.obj = u
  BY <1>4, <1>6 DEF Address
<1>8. Ok(r.heap, V \cup {u}, W, {}) /\ u \in Objects \ (V \cup W)
  BY <1>2, <1>4 DEF Took, Ok
<1>9. /\ \A d \in Caches : d # c => r.heap.pool[d] = h.pool[d]
      /\ Len(r.heap.pool[c]) = Len(h.pool[c])
      /\ \A k \in 1 .. Len(h.pool[c]) : k # i => r.heap.pool[c][k] = h.pool[c][k]
      /\ r.heap.pool[c][i].using_count >= 1
  BY <1>4 DEF Took
<1>10. QED
  BY <1>1, <1>7, <1>8, <1>9 DEF Served

\* The slabs of q behind the first are in use.
Busy(q) == \A i \in 2 .. Len(q) : q[i].using_count # 0

\* The second slab of cache c is a new one, and has a free object.
LinkedSecond(h, g, c, V, W) ==
  /\ Ok(g, V, W, {}) /\ g.total_free[c] # 0 /\ 2 \in 1 .. Len(g.pool[c])
  /\ Bits(g.pool[c][2].color_count) \ g.pool[c][2].color_map # {}
  /\ \A d \in Created : d # c => g.pool[d] = h.pool[d]
  /\ \A i \in 2 .. Len(g.pool[c]) : i # 2 => g.pool[c][i].using_count # 0

(* The new slab is put behind the first, and the object is taken from it.  *)
LEMMA LinkSecond ==
  ASSUME NEW h, NEW k, NEW V, NEW W, NEW c \in Created, NEW s, s # NoObject,
         NewSlabLeaves(h, k, s, c, V, W), Busy(h.pool[c]), h.pool[c] # <<>>,
         NEW g, g = Link(k, c, s)
  PROVE  LinkedSecond(h, g, c, V, W)
<1>1. PICK p \in Pages : \E header, map \in Objects \ (V \cup W \cup {<<0, 0>>}) :
         /\ header # map /\ s = Slab(p, Capacity[c], {}, header, map)
         /\ Ok(k, V, W \cup {header, map}, {p})
  BY Zenon DEF NewSlabLeaves
<1>2. PICK header, map \in Objects \ (V \cup W \cup {<<0, 0>>}) :
         /\ header # map /\ s = Slab(p, Capacity[c], {}, header, map)
         /\ Ok(k, V, W \cup {header, map}, {p})
  BY <1>1
<1>3. c \in Caches \ Small
  BY TheCaches
<1>4. k.pool[c] = h.pool[c] /\ \A d \in Created : k.pool[d] = h.pool[d]
  BY <1>3, TheCaches DEF NewSlabLeaves
<1>5. PICK U : U = V \cup (W \cup {header, map}) \cup Own(Labels(k.pool))
  OBVIOUS
<1>6. Sound(k, U, {p}) /\ k \in HeapSet
  BY <1>2, <1>5 DEF Ok, Fit, Sound
<1>7. k.pool[c] \in Seq(SlabSet) /\ Len(k.pool[c]) \in Nat /\ k.pool \in Pools
  BY <1>3, <1>6, TheHeap
<1>8. Len(k.pool[c]) >= 1
  <2>1. PICK n : n = Len(k.pool[c])
    OBVIOUS
  <2>2. n # 0
    BY <1>4, <1>7, <2>1, EmptySeq
  <2>3. QED
    BY <1>7, <2>1, <2>2
<1>9. ~Static(c, 2)
  BY DEF Static
<1>10. s \in SlabSet /\ s.color_count = s.free_count
  <2>1. {} \in SUBSET Bits(Capacity[c]) /\ header \in Slot /\ map \in Slot
        /\ header # NoObject /\ map # NoObject /\ Capacity[c] = Color(c, 2)
    BY <1>3, TheCaches DEF Slot, Color
  <2>2. Slab(p, Capacity[c], {}, header, map) \in SlabSet
    BY <1>3, <1>9, <2>1, NewGood
  <2>3. s \in SlabSet
    BY <1>2, <2>2, Zenon
  <2>4. QED
    BY <1>2, <2>3 DEF Slab
<1>11. PICK q, m : q = InsertAt(k.pool[c], 2, s) /\ m = k.total_free[c] + s.free_count
  OBVIOUS
<1>12. Inserted(k.pool[c], q, 2, s)
  BY <1>7, <1>8, <1>10, <1>11, InsertionsAre
<1>13. g = Relisted(k, c, q, m)
  <2>1. k.pool \in [Caches -> Seq(SlabSet)] /\ k.total_free \in [Caches -> Int]
    BY <1>6 DEF HeapSet
  <2>2. g = [k EXCEPT !.pool[c] = InsertAt(@, 2, s), !.total_free[c] = @ + s.free_count]
    BY <1>10 DEF Link
  <2>3. QED
    BY <1>3, <1>6, <1>11, <2>1, <2>2 DEF HeapSet, Relisted
<1>14. LinkedLarge(k, Relisted(k, c, q, m), c, 2, s, V, W)
  BY <1>2, <1>3, <1>9, <1>11, <1>12, LinkLarge, Zenon
<1>15. /\ Ok(g, V, W, {}) /\ Put(k.pool, g.pool, c, 2, s)
       /\ s.free_count # 0 /\ Bits(s.color_count) \ s.color_map # {}
       /\ g.total_free[c] = k.total_free[c] + s.free_count
       /\ k.total_free[c] \in Nat /\ s.free_count \in Nat
  BY <1>13, <1>14, Zenon DEF LinkedLarge
<1>16. g.total_free[c] # 0
  <2>1. PICK x, y, z : x = g.total_free[c] /\ y = k.total_free[c] /\ z = s.free_count
    OBVIOUS
  <2>2. x = y + z /\ y \in Nat /\ z \in Nat /\ z # 0
    BY <1>15, <2>1
  <2>3. x # 0
    BY <2>2
  <2>4. QED
    BY <2>1, <2>3
<1>17. Shifted(k.pool, g.pool, c, 2, s)
  BY <1>3, <1>7, <1>15, PutSlabs
<1>18. 2 \in 1 .. Len(g.pool[c]) /\ g.pool[c][2] = s
  BY <1>17 DEF Shifted
<1>19. \A d \in Created : d # c => g.pool[d] = h.pool[d]
  BY <1>4, <1>15, TheCaches DEF Put
<1>20. ASSUME NEW i \in 2 .. Len(g.pool[c]), i # 2 PROVE g.pool[c][i].using_count # 0
  <2>1. PICK a, b, n : a = k.pool[c] /\ b = g.pool[c] /\ n = Len(k.pool[c])
    OBVIOUS
  <2>2. /\ Len(b) = n + 1 /\ n \in Nat
        /\ \A x \in 2 .. n : b[x + 1] = a[x]
    BY <1>7, <1>15, <2>1 DEF Put, Inserted
  <2>3. PICK x : x = i - 1
    OBVIOUS
  <2>4. i \in 2 .. n + 1
    BY <1>20, <2>1, <2>2
  <2>5. x \in 2 .. n /\ x + 1 = i
    BY <1>20, <2>2, <2>3, <2>4
  <2>6. b[i] = a[x]
    BY <2>2, <2>5
  <2>7. a[x].using_count # 0
    BY <1>4, <2>1, <2>5 DEF Busy
  <2>8. QED
    BY <2>1, <2>6, <2>7
<1>21. QED
  BY <1>15, <1>16, <1>18, <1>19, <1>20 DEF LinkedSecond

(* slab_malloc, while every slab_free has returned.                        *)
LEMMA MallocStep ==
  ASSUME SlabIs(heap, live, cache, looping), looping = {}, NEW c \in Created, slab_malloc(c),
         ~astray'
  PROVE  SlabIs(heap, live, cache, looping)'
<1>1. PICK V : Serving(heap, V, live, cache)
  BY DEF SlabIs
<1>2. PICK W : W = Structs(cache)
  OBVIOUS
<1>3. Ok(heap, V, W, {}) /\ <<0, 0>> \notin W /\ live = (V \cup W) \ {<<0, 0>>} /\ IsFiniteSet(live)
  BY <1>1, <1>2 DEF Serving
<1>4. cache[c] # NoObject /\ cache' = cache /\ looping' = looping
  BY DEF slab_malloc
<1>5. /\ heap.pool[c] # <<>> /\ OwnStruct(cache) /\ Matched(heap.pool, cache)
      /\ \A d \in Created : Lean(heap.pool[d], looping)
  BY <1>4 DEF SlabIs, Matched
<1>6. Busy(heap.pool[c]) /\ c \in Caches \ Small /\ c \in Caches \ (Small \cup Missing)
  BY <1>5, TheCaches, KmallocAssumption DEF Lean, Busy, KmallocAssumption
<1>7. ASSUME NEW h, NEW i \in 1 .. Len(h.pool[c]), Ok(h, V, W, {}),
             Bits(h.pool[c][i].color_count) \ h.pool[c][i].color_map # {},
             \A d \in Created : d # c => h.pool[d] = heap.pool[d],
             \A k \in 2 .. Len(h.pool[c]) : k # i => h.pool[c][k].using_count # 0,
             NEW r, r = DoSlabMalloc(h, c, i), heap' = r.heap,
             live' = IF r.obj \in {NoObject, Wild} THEN live ELSE live \cup {r.obj}
      PROVE  SlabIs(heap, live, cache, looping)'
  <2>1. PICK u : u = r.obj
    OBVIOUS
  <2>2. Served(h, r, c, i, V, W)
    BY <1>7, <2>1, TakeOfCreated, Zenon
  <2>3. /\ u \in Objects \ (V \cup W) /\ u # <<0, 0>> /\ Ok(heap', V \cup {u}, W, {})
        /\ live' = live \cup {u}
        /\ \A d \in Caches : d # c => heap'.pool[d] = h.pool[d]
        /\ Len(heap'.pool[c]) = Len(h.pool[c])
        /\ \A k \in 1 .. Len(h.pool[c]) : k # i => heap'.pool[c][k] = h.pool[c][k]
        /\ heap'.pool[c][i].using_count >= 1
    BY <1>7, <2>1, <2>2, TheCaches DEF Served
  <2>4. live' = ((V \cup {u}) \cup W) \ {<<0, 0>>}
    BY <1>3, <2>3
  <2>5. IsFiniteSet(live')
    BY <1>3, <2>3, FS_AddElement
  <2>6. Serving(heap', V \cup {u}, live', cache)
    BY <1>2, <1>3, <2>3, <2>4, <2>5, Zenon DEF Serving
  <2>7. \A d \in Created : d # c => heap'.pool[d] = heap.pool[d]
    BY <1>7, <2>3, TheCaches
  <2>8. heap'.pool[c] # <<>>
    <3>1. i \in 1 .. Len(heap'.pool[c])
      BY <1>7, <2>3
    <3>2. QED
      BY <3>1
  <2>9. Matched(heap'.pool, cache)
    BY <1>4, <1>5, <2>7, <2>8 DEF Matched
  <2>10. Lean(heap'.pool[c], looping)
    <3>1. ASSUME NEW k \in 2 .. Len(heap'.pool[c]) PROVE heap'.pool[c][k].using_count # 0
      <4>1. CASE k = i
        BY <2>3, <4>1
      <4>2. CASE k # i
        <5>1. k \in 2 .. Len(h.pool[c])
          BY <2>3
        <5>2. PICK n : n = Len(h.pool[c])
          OBVIOUS
        <5>3. k \in 1 .. Len(h.pool[c])
          BY <5>1
        <5>4. QED
          BY <1>7, <2>3, <4>2, <5>1, <5>3
      <4>3. QED
        BY <4>1, <4>2
    <3>2. QED
      BY <3>1 DEF Lean
  <2>11. \A d \in Created : Lean(heap'.pool[d], looping)
    BY <1>5, <2>7, <2>10
  <2>12. QED
    BY <1>4, <1>5, <2>6, <2>9, <2>11 DEF SlabIs
<1>8. PICK r \in IF heap.total_free[c] = 0 THEN MallocNew(heap, c)
                 ELSE {DoSlabMalloc(heap, c, SlabWithFree(heap.pool[c]))} :
        /\ heap' = r.heap /\ r.obj # Wild
        /\ live' = IF r.obj \in {NoObject, Wild} THEN live ELSE live \cup {r.obj}
  BY DEF slab_malloc
<1>9. CASE heap.total_free[c] # 0
  <2>2. PICK i : i = SlabWithFree(heap.pool[c])
    OBVIOUS
  <2>3. r = DoSlabMalloc(heap, c, i)
    BY <1>8, <1>9, <2>2
  <2>4. /\ i \in 1 .. Len(heap.pool[c])
        /\ Bits(heap.pool[c][i].color_count) \ heap.pool[c][i].color_map # {}
    BY <1>3, <1>6, <1>9, <2>2, FreeOfLarge
  <2>5. QED
    BY <1>3, <1>6, <1>7, <1>8, <2>3, <2>4 DEF Busy
<1>10. CASE heap.total_free[c] = 0
  <2>0. PICK new \in GetNewSlab(heap, c) :
          r = IF new.slab \in {NoObject, Wild} THEN [heap |-> new.heap, obj |-> new.slab]
              ELSE DoSlabMalloc(Link(new.heap, c, new.slab), c, 2)
    BY <1>8, <1>10 DEF MallocNew
  <2>1. new.slab # Wild
    <3>1. ASSUME new.slab = Wild PROVE FALSE
      <4>1. r = [heap |-> new.heap, obj |-> Wild]
        BY <2>0, <3>1
      <4>2. r.obj = Wild
        BY <4>1
      <4>3. QED
        BY <1>8, <4>2
    <3>2. QED
      BY <3>1
  <2>2. NewSlabLeaves(heap, new.heap, new.slab, c, V, W)
    BY <1>3, <1>6, <2>1, GetNewSlabOk, Zenon
  <2>3. CASE new.slab = NoObject
    <3>1. PICK k : k = new.heap
      OBVIOUS
    <3>2. OkOrLost(k, V, W, {}) /\ \A d \in Caches \ Small : k.pool[d] = heap.pool[d]
      BY <2>2, <2>3, <3>1 DEF NewSlabLeaves
    <3>3. r.heap = k /\ r.obj = NoObject
      BY <2>0, <2>3, <3>1
    <3>4. heap' = k /\ live' = live
      BY <1>8, <3>3
    <3>5. \E X : Serving(heap', X, live', cache)
      BY <1>2, <1>3, <3>2, <3>4, ServingStays, Zenon
    <3>6. Matched(heap'.pool, cache) /\ \A d \in Created : Lean(heap'.pool[d], looping)
      <4>1. PICK P, Q : P = heap.pool /\ Q = heap'.pool
        OBVIOUS
      <4>2. (\A d \in Created : Q[d] = P[d]) /\ Matched(P, cache) /\ \A d \in Created : Lean(P[d], looping)
        BY <1>5, <3>2, <3>4, <4>1, TheCaches
      <4>3. Matched(Q, cache) /\ \A d \in Created : Lean(Q[d], looping)
        BY <4>2, OthersStay, Zenon
      <4>4. QED
        BY <4>1, <4>3
    <3>7. QED
      BY <1>4, <1>5, <3>5, <3>6 DEF SlabIs
  <2>4. CASE new.slab # NoObject
    <3>1. PICK g : g = Link(new.heap, c, new.slab)
      OBVIOUS
    <3>2. /\ Ok(g, V, W, {}) /\ g.total_free[c] # 0 /\ 2 \in 1 .. Len(g.pool[c])
          /\ Bits(g.pool[c][2].color_count) \ g.pool[c][2].color_map # {}
          /\ \A d \in Created : d # c => g.pool[d] = heap.pool[d]
          /\ \A i \in 2 .. Len(g.pool[c]) : i # 2 => g.pool[c][i].using_count # 0
      <4>1. LinkedSecond(heap, g, c, V, W)
        BY <1>5, <1>6, <2>2, <2>4, <3>1, LinkSecond, Zenon
      <4>2. QED
        BY <4>1, Zenon DEF LinkedSecond
    <3>3. r = DoSlabMalloc(g, c, 2)
      BY <2>0, <2>1, <2>4, <3>1
    <3>4. QED
      BY <1>7, <1>8, <3>2, <3>3
  <2>5. QED
    BY <2>3, <2>4
<1>11. QED
  BY <1>9, <1>10

(* slab_free, the first turn of its loop.                                  *)
LEMMA FreeStep ==
  ASSUME SlabIs(heap, live, cache, looping), looping = {}, NEW c \in Created,
         NEW u \in live, slab_free(c, u)
  PROVE  SlabIs(heap, live, cache, looping)'
<1>1. PICK V : Serving(heap, V, live, cache)
  BY DEF SlabIs
<1>2. PICK W : W = Structs(cache)
  OBVIOUS
<1>3. Ok(heap, V, W, {}) /\ <<0, 0>> \notin W /\ live = (V \cup W) \ {<<0, 0>>} /\ IsFiniteSet(live)
  BY <1>1, <1>2 DEF Serving
<1>4. PICK i : i = Home(heap, u).slab
  OBVIOUS
<1>5. PICK g : g = Release(heap, c, i, u[2])
  OBVIOUS
<1>6. /\ Home(heap, u).cache = c /\ heap' = g /\ live' = live \ {u} /\ cache' = cache
      /\ IF Returns(g, c, i) THEN looping' = looping ELSE looping' = looping \cup {c}
  BY <1>4, <1>5 DEF slab_free
<1>7. /\ OwnStruct(cache) /\ Matched(heap.pool, cache)
      /\ \A d \in Created : Lean(heap.pool[d], looping)
  BY DEF SlabIs
<1>8. u \in V \cup W /\ Fit(heap, V, W, {}) /\ Tidy(heap.pool)
  BY <1>3 DEF Ok
<1>9. i \in 1 .. Len(heap.pool[c]) /\ heap.pool[c][i].page = u[1]
  <2>1. \E d \in Caches : \E k \in 1 .. Len(heap.pool[d]) :
          heap.pool[d][k].page = u[1] /\ Home(heap, u) = [cache |-> d, slab |-> k]
    BY <1>8, HomeOf
  <2>2. PICK d \in Caches : \E k \in 1 .. Len(heap.pool[d]) :
          heap.pool[d][k].page = u[1] /\ Home(heap, u) = [cache |-> d, slab |-> k]
    BY <2>1
  <2>3. PICK k \in 1 .. Len(heap.pool[d]) :
          heap.pool[d][k].page = u[1] /\ Home(heap, u) = [cache |-> d, slab |-> k]
    BY <2>2
  <2>4. d = c /\ k = i
    BY <1>4, <1>6, <2>3
  <2>5. QED
    BY <2>3, <2>4
<1>10. u \notin W
  <2> SUFFICES ASSUME u \in W PROVE FALSE
    OBVIOUS
  <2>1. InSmall(heap.pool, u)
    BY <1>8 DEF Fit
  <2>2. PICK d \in Small : \E k \in 1 .. Len(heap.pool[d]) : heap.pool[d][k].page = u[1]
    BY <2>1 DEF InSmall
  <2>3. PICK k \in 1 .. Len(heap.pool[d]) : heap.pool[d][k].page = u[1]
    BY <2>2
  <2>4. heap \in HeapSet /\ Apart(heap.pool) /\ d \in Caches
    BY <1>8, TheCaches DEF Fit, Sound
  <2>5. Home(heap, u) = [cache |-> d, slab |-> k]
    BY <2>3, <2>4, HomeIs
  <2>6. d = c
    BY <1>6, <2>5
  <2>7. QED
    BY <2>6, TheCaches
<1>11. u \in V /\ W \ {u} = W
  BY <1>8, <1>10
<1>12. Gave(heap, g, c, i, u, V, W, {})
  <2>1. c \in Caches /\ u[1] = heap.pool[c][i].page
    BY <1>9, TheCaches
  <2>2. QED
    BY <1>5, <1>8, <1>9, <2>1, FreeFit, Zenon
<1>13. /\ Fit(g, V \ {u}, W, {})
       /\ \A d \in Caches : d # c => g.pool[d] = heap.pool[d]
       /\ Len(g.pool[c]) = Len(heap.pool[c])
       /\ \A m \in 1 .. Len(heap.pool[c]) : m # i => g.pool[c][m] = heap.pool[c][m]
  BY <1>11, <1>12 DEF Gave
<1>14. Tidy(g.pool)
  BY <1>8, <1>13 DEF Tidy
<1>15. live' = ((V \ {u}) \cup W) \ {<<0, 0>>}
  BY <1>3, <1>6, <1>10
<1>16. IsFiniteSet(live')
  BY <1>3, <1>6, FS_RemoveElement
<1>17. Ok(heap', V \ {u}, W, {})
  BY <1>6, <1>13, <1>14 DEF Ok
<1>18. Serving(heap', V \ {u}, live', cache)
  BY <1>2, <1>3, <1>15, <1>16, <1>17, Zenon DEF Serving
<1>19. \A d \in Created : d # c => heap'.pool[d] = heap.pool[d]
  BY <1>6, <1>13, TheCaches
<1>20. Matched(heap'.pool, cache)
  <2>1. heap.pool[c] # <<>>
    BY <1>9
  <2>2. heap'.pool[c] # <<>>
    <3>1. i \in 1 .. Len(heap'.pool[c])
      BY <1>6, <1>9, <1>13
    <3>2. QED
      BY <3>1
  <2>3. QED
    BY <1>7, <1>19, <2>1, <2>2 DEF Matched
<1>21. PICK q, r, n : q = heap.pool[c] /\ r = g.pool[c] /\ n = Len(heap.pool[c])
  OBVIOUS
<1>22. /\ \A k \in 2 .. n : q[k].using_count # 0
       /\ Len(r) = n /\ n \in Nat /\ \A k \in 1 .. n : k # i => r[k] = q[k]
  <2>1. Lean(q, {})
    BY <1>7, <1>21
  <2>2. heap \in HeapSet
    BY <1>8 DEF Fit, Sound
  <2>3. n \in Nat
    BY <1>21, <2>2, TheHeap, TheCaches
  <2>4. QED
    BY <1>13, <1>21, <2>1, <2>3 DEF Lean
<1>23. \A k \in 2 .. n : k # i => r[k].using_count # 0
  <2> SUFFICES ASSUME NEW k \in 2 .. n, k # i PROVE r[k].using_count # 0
    OBVIOUS
  <2>1. k \in 1 .. n
    BY <1>22
  <2>2. r[k] = q[k]
    BY <1>22, <2>1
  <2>3. QED
    BY <1>22, <2>2
<1>24. Lean(r, looping')
  <2>1. \A k, m \in 2 .. n : r[k].using_count = 0 /\ r[m].using_count = 0 => k = m
    BY <1>23
  <2>2. CASE Returns(g, c, i)
    <3>1. i = 1
      BY <2>2 DEF Returns
    <3>2. \A k \in 2 .. n : r[k].using_count # 0
      BY <1>22, <1>23, <3>1
    <3>3. QED
      BY <1>22, <2>1, <3>2 DEF Lean
  <2>3. CASE ~Returns(g, c, i)
    <3>1. looping' # {}
      BY <1>6, <2>3
    <3>2. QED
      BY <1>22, <2>1, <3>1 DEF Lean
  <2>4. QED
    BY <2>2, <2>3
<1>25. ASSUME NEW d \in Created PROVE Lean(heap'.pool[d], looping')
  <2>1. CASE d = c
    BY <1>6, <1>21, <1>24, <2>1
  <2>2. CASE d # c
    <3>1. Lean(heap.pool[d], {})
      BY <1>7
    <3>2. Lean(heap.pool[d], looping')
      BY <3>1 DEF Lean
    <3>3. QED
      BY <1>19, <2>2, <3>2
  <2>3. QED
    BY <2>1, <2>2
<1>26. QED
  BY <1>6, <1>7, <1>18, <1>20, <1>25 DEF SlabIs

(* One number adds up to itself.                                           *)
LEMMA TotalOfOne ==
  ASSUME NEW f \in [1 .. 1 -> Int]
  PROVE  Total(f) = f[1]
<1>1. PICK sum : sum = [k \in 0 .. 1 |-> IF k = 0 THEN 0 ELSE f[1]]
  OBVIOUS
<1>2. sum \in [0 .. 1 -> Int] /\ sum[0] = 0 /\ sum[1] = f[1] /\ f[1] \in Int
  BY <1>1
<1>3. Sums(sum, f, 1)
  BY <1>2 DEF Sums
<1>4. QED
  BY <1>2, <1>3, TotalIsSum

\* At most one class is left without a page: as when the kernel and its
\* tables end below 2 MB, where the loop at slab.c:331 begins with class 1.
\* Two classes would both hand out objects from address 0 upwards.
OnePlaceless == \A c, d \in Unplaced : c = d

\* The slab of class c at boot.
BootSlab(c) == Slab(IF c \in Unplaced THEN 0 ELSE c, Capacity[c], {}, NoObject, NoObject)

(* The fields of the heap at boot.                                         *)
LEMMA AtBoot ==
  ASSUME kmalloc_slab_init
  PROVE  /\ heap \in HeapSet /\ heap.pages = Pages
         /\ \A c \in Created : /\ heap.pool[c] = <<>> /\ heap.total_using[c] = 0
                               /\ heap.total_free[c] = 0
         /\ \A c \in Caches \ Created :
              /\ heap.pool[c] = <<BootSlab(c)>> /\ BootSlab(c) \in SlabSet
              /\ heap.total_using[c] = 0 /\ heap.total_free[c] = Capacity[c]
<1>1. PICK P, T, F : /\ P = [c \in Caches |-> IF c \in Created THEN <<>> ELSE <<BootSlab(c)>>]
                     /\ T = [c \in Caches |-> 0]
                     /\ F = [c \in Caches |-> IF c \in Created THEN 0 ELSE Capacity[c]]
  OBVIOUS
<1>2. heap = [pool |-> P, total_using |-> T, total_free |-> F, pages |-> Pages]
  BY <1>1, Zenon DEF kmalloc_slab_init, BootSlab
<1>3. heap.pool = P /\ heap.total_using = T /\ heap.total_free = F /\ heap.pages = Pages
  BY <1>2
<1>4. ASSUME NEW c \in Caches PROVE BootSlab(c) \in SlabSet /\ Capacity[c] \in Nat
  <2>1. Capacity[c] \in Nat \ {0}
    BY KmallocAssumption DEF KmallocAssumption
  <2>2. (IF c \in Unplaced THEN 0 ELSE c) \in Places /\ NoObject \in Slot
    BY DEF Places, Slot
  <2>3. QED
    BY <2>1, <2>2 DEF BootSlab, Slab, SlabSet
<1>5. P \in [Caches -> Seq(SlabSet)]
  <2>1. ASSUME NEW c \in Caches
        PROVE  (IF c \in Created THEN <<>> ELSE <<BootSlab(c)>>) \in Seq(SlabSet)
    BY <1>4
  <2>2. QED
    BY <1>1, <2>1
<1>6. T \in [Caches -> Int] /\ F \in [Caches -> Int]
  BY <1>1, <1>4
<1>7. heap \in HeapSet
  BY <1>2, <1>5, <1>6 DEF HeapSet
<1>8. ASSUME NEW c \in Created
      PROVE  /\ heap.pool[c] = <<>> /\ heap.total_using[c] = 0 /\ heap.total_free[c] = 0
  BY <1>1, <1>3, TheCaches
<1>9. ASSUME NEW c \in Caches \ Created
      PROVE  /\ heap.pool[c] = <<BootSlab(c)>>
             /\ heap.total_using[c] = 0 /\ heap.total_free[c] = Capacity[c]
  BY <1>1, <1>3
<1>10. QED
  BY <1>3, <1>4, <1>7, <1>8, <1>9

(* The slabs and the totals at boot.                                       *)
LEMMA BootPools ==
  ASSUME kmalloc_slab_init
  PROVE  /\ \A c \in Caches : \A i \in 1 .. Len(heap.pool[c]) :
              i = 1 /\ c \notin Created /\ heap.pool[c][i] = BootSlab(c)
         /\ \A c \in Caches : /\ heap.total_using[c] = Total(Using(heap.pool[c]))
                              /\ heap.total_free[c] = Total(Left(heap.pool[c]))
         /\ \A c \in Caches \ Created : Len(heap.pool[c]) = 1
<1>1. ASSUME NEW c \in Created
      PROVE  /\ Len(heap.pool[c]) = 0
             /\ heap.total_using[c] = Total(Using(heap.pool[c]))
             /\ heap.total_free[c] = Total(Left(heap.pool[c]))
  <2>1. PICK q, f, e : q = heap.pool[c] /\ f = Left(q) /\ e = Using(q)
    OBVIOUS
  <2>2. q = <<>> /\ q \in Seq(SlabSet) /\ Len(q) = 0
    <3>1. heap.pool[c] = <<>>
      BY AtBoot
    <3>2. q = <<>>
      BY <2>1, <3>1, Zenon
    <3>3. QED
      BY <3>2
  <2>3. f \in [1 .. 0 -> Int] /\ e \in [1 .. 0 -> Int] /\ 0 \in Nat
    BY <2>1, <2>2, CountsOf
  <2>4. (\A i \in 1 .. 0 : f[i] = 0) /\ (\A i \in 1 .. 0 : e[i] = 0)
    OBVIOUS
  <2>5. Total(f) = 0 /\ Total(e) = 0
    BY <2>3, <2>4, TotalOfZeros, Zenon
  <2>6. QED
    BY <2>1, <2>2, <2>5, AtBoot
<1>2. ASSUME NEW c \in Caches \ Created
      PROVE  /\ Len(heap.pool[c]) = 1 /\ heap.pool[c][1] = BootSlab(c)
             /\ heap.total_using[c] = Total(Using(heap.pool[c]))
             /\ heap.total_free[c] = Total(Left(heap.pool[c]))
  <2>1. PICK q, f, e, s : q = heap.pool[c] /\ f = Left(q) /\ e = Using(q) /\ s = BootSlab(c)
    OBVIOUS
  <2>2. q = <<s>> /\ s \in SlabSet /\ heap.total_using[c] = 0 /\ heap.total_free[c] = Capacity[c]
    BY <2>1, AtBoot
  <2>3. q \in Seq(SlabSet) /\ Len(q) = 1 /\ q[1] = s
    BY <2>2
  <2>4. f \in [1 .. 1 -> Int] /\ e \in [1 .. 1 -> Int]
        /\ \A k \in 1 .. 1 : e[k] = q[k].using_count /\ f[k] = q[k].free_count
    BY <2>1, <2>3, CountsOf
  <2>5. s.using_count = 0 /\ s.free_count = Capacity[c]
    BY <2>1 DEF BootSlab, Slab
  <2>6. f[1] = Capacity[c] /\ e[1] = 0
    BY <2>3, <2>4, <2>5
  <2>7. Total(f) = f[1] /\ Total(e) = e[1]
    BY <2>4, TotalOfOne
  <2>8. QED
    BY <2>1, <2>2, <2>3, <2>6, <2>7
<1>3. ASSUME NEW c \in Caches, NEW i \in 1 .. Len(heap.pool[c])
      PROVE  i = 1 /\ c \notin Created /\ heap.pool[c][i] = BootSlab(c)
  <2>1. c \notin Created
    BY <1>1, <1>3
  <2>2. i \in 1 .. 1
    BY <1>2, <1>3, <2>1
  <2>3. QED
    BY <1>2, <2>1, <2>2
<1>4. QED
  BY <1>1, <1>2, <1>3

(* kmalloc_slab_init.                                                      *)
LEMMA InitIs ==
  ASSUME SlabInit, OnePlaceless
  PROVE  SlabIs(heap, live, cache, looping)
<1>1. kmalloc_slab_init /\ live = {} /\ cache = [c \in Created |-> NoObject] /\ looping = {}
  BY DEF SlabInit, kmalloc_slab_init
<1>2. heap \in HeapSet /\ heap.pages = Pages
  BY <1>1, AtBoot
<1>3. \A c \in Caches : \A i \in 1 .. Len(heap.pool[c]) :
        i = 1 /\ c \notin Created /\ heap.pool[c][i] = BootSlab(c)
  BY <1>1, BootPools
<1>4. ASSUME NEW c \in Caches
      PROVE  /\ BootSlab(c).page = IF c \in Unplaced THEN 0 ELSE c
             /\ BootSlab(c).page \in Caches \cup {0}
             /\ BootSlab(c).header = NoObject /\ BootSlab(c).map = NoObject
             /\ BootSlab(c).using_count = 0 /\ BootSlab(c).color_map = {}
             /\ BootSlab(c).color_count = Capacity[c] /\ BootSlab(c).free_count = Capacity[c]
  BY DEF BootSlab, Slab
<1>5. Labels(heap.pool) = {}
  <2> SUFFICES ASSUME NEW l \in Labels(heap.pool) PROVE FALSE
    OBVIOUS
  <2>1. l[2] \in Objects /\ \E c \in Caches : \E i \in 1 .. Len(heap.pool[c]) :
          l = <<heap.pool[c][i].page, heap.pool[c][i].header, heap.pool[c][i].map>>
    BY DEF Labels
  <2>2. PICK c \in Caches : \E i \in 1 .. Len(heap.pool[c]) :
          l = <<heap.pool[c][i].page, heap.pool[c][i].header, heap.pool[c][i].map>>
    BY <2>1
  <2>3. PICK i \in 1 .. Len(heap.pool[c]) :
          l = <<heap.pool[c][i].page, heap.pool[c][i].header, heap.pool[c][i].map>>
    BY <2>2
  <2>4. l[2] = heap.pool[c][i].header /\ heap.pool[c][i].header = NoObject
    BY <1>3, <1>4, <2>3
  <2>5. QED
    BY <2>1, <2>4, TheCaches
<1>6. Own(Labels(heap.pool)) = {} /\ Unshared(Labels(heap.pool))
  BY <1>5 DEF Own, Unshared
<1>7. Structs(cache) = {}
  BY <1>1 DEF Structs
<1>8. AllGood(heap.pool, {})
  <2> SUFFICES ASSUME NEW c \in Caches, NEW i \in 1 .. Len(heap.pool[c])
               PROVE  Good(heap.pool[c][i], {}, c, i)
    BY DEF AllGood
  <2>1. PICK s : s = BootSlab(c)
    OBVIOUS
  <2>2. i = 1 /\ c \notin Created /\ heap.pool[c][i] = s
    BY <1>3, <2>1
  <2>3. /\ s.page = (IF c \in Unplaced THEN 0 ELSE c) /\ s.header = NoObject /\ s.map = NoObject
        /\ s.using_count = 0 /\ s.color_map = {} /\ s.color_count = Capacity[c]
        /\ s.free_count = Capacity[c]
    BY <1>4, <2>1
  <2>4. Color(c, i) = Capacity[c] /\ Static(c, i) /\ Capacity[c] \in Nat
    BY <2>2, TheCaches DEF Color, Static
  <2>5. OnPage({}, s.page) = {} /\ Cardinality({}) = 0
    BY FS_EmptySet DEF OnPage
  <2>6. 0 + Capacity[c] = Capacity[c]
    BY <2>4
  <2>7. Good(s, {}, c, i)
    BY <2>3, <2>4, <2>5, <2>6 DEF Good, Exact
  <2>8. QED
    BY <2>2, <2>7
<1>9. Apart(heap.pool)
  <2> SUFFICES ASSUME NEW c \in Caches, NEW d \in Caches, NEW i \in 1 .. Len(heap.pool[c]),
                      NEW j \in 1 .. Len(heap.pool[d]),
                      heap.pool[c][i].page = heap.pool[d][j].page
               PROVE  c = d /\ i = j
    BY DEF Apart
  <2>1. i = 1 /\ j = 1 /\ heap.pool[c][i] = BootSlab(c) /\ heap.pool[d][j] = BootSlab(d)
    BY <1>3
  <2>2. (IF c \in Unplaced THEN 0 ELSE c) = (IF d \in Unplaced THEN 0 ELSE d)
    BY <1>4, <2>1
  <2>3. c # 0 /\ d # 0
    BY TheCaches
  <2>4. c = d
    BY <2>2, <2>3 DEF OnePlaceless
  <2>5. QED
    BY <2>1, <2>4
<1>10. PagesOf(heap.pool) \cap Pages = {}
  <2>1. PagesOf(heap.pool) \subseteq Caches \cup {0}
    BY <1>3, <1>4 DEF PagesOf
  <2>2. QED
    BY <2>1, TheCaches
<1>11. Sound(heap, {}, {})
  <2>1. \A d \in Caches : /\ heap.total_using[d] = Total(Using(heap.pool[d]))
                          /\ heap.total_free[d] = Total(Left(heap.pool[d]))
    BY <1>1, BootPools
  <2>2. \A d \in Caches \ Created : Len(heap.pool[d]) >= 1
    BY <1>1, BootPools
  <2>3. /\ {} \in SUBSET Objects /\ {} \in SUBSET Pages
        /\ \A u \in {} : u[1] \in PagesOf(heap.pool)
        /\ PagesOf(heap.pool) \cap (heap.pages \cup {}) = {} /\ {} \cap heap.pages = {}
        /\ Pages \subseteq PagesOf(heap.pool) \cup heap.pages \cup {}
    BY <1>2, <1>10
  <2>4. QED
    BY <1>2, <1>8, <1>9, <2>1, <2>2, <2>3, Zenon DEF Sound
<1>12. Fit(heap, {}, {}, {})
  BY <1>6, <1>11 DEF Fit
<1>13. Tidy(heap.pool)
  <2> SUFFICES ASSUME NEW c \in Caches \ Created, NEW i \in 2 .. Len(heap.pool[c]) PROVE FALSE
    BY DEF Tidy
  <2>1. Len(heap.pool[c]) = 1
    BY <1>1, BootPools
  <2>2. QED
    BY <2>1
<1>14. Serving(heap, {}, live, cache)
  <2>1. Ok(heap, {}, Structs(cache), {}) /\ <<0, 0>> \notin Structs(cache)
    BY <1>7, <1>12, <1>13 DEF Ok
  <2>2. live = ({} \cup Structs(cache)) \ {<<0, 0>>} /\ IsFiniteSet(live)
    BY <1>1, <1>7, FS_EmptySet
  <2>3. QED
    BY <2>1, <2>2 DEF Serving
<1>15. OwnStruct(cache)
  BY <1>1 DEF OwnStruct, Slot
<1>16. \A c \in Created : heap.pool[c] = <<>> /\ cache[c] = NoObject
  BY <1>1, AtBoot
<1>17. Matched(heap.pool, cache) /\ \A c \in Created : Lean(heap.pool[c], looping)
  BY <1>16 DEF Matched, Lean
<1>18. QED
  BY <1>14, <1>15, <1>17 DEF SlabIs

SlabInvariant == SlabIs(heap, live, cache, looping)

(* Every step of the caches.                                               *)
LEMMA SlabStep ==
  ASSUME astray \/ SlabInvariant, [SlabNext]_slabVars, ~astray'
  PROVE  SlabInvariant'
<1>1. CASE UNCHANGED slabVars
  BY <1>1 DEF SlabInvariant, slabVars
<1>2. CASE SlabNext
  <2>1. looping = {} /\ ~astray' /\ SlabIs(heap, live, cache, looping)
    BY <1>2 DEF SlabNext, SlabInvariant
  <2>2. ASSUME NEW c \in Created, slab_create(c) PROVE SlabInvariant'
    BY <2>1, <2>2, CreateStep, Zenon DEF SlabInvariant
  <2>3. ASSUME NEW c \in Created, slab_destory(c) PROVE SlabInvariant'
    BY <2>1, <2>3, DestroyStep, Zenon DEF SlabInvariant
  <2>4. ASSUME NEW c \in Created, slab_malloc(c) PROVE SlabInvariant'
    BY <2>1, <2>4, MallocStep, Zenon DEF SlabInvariant
  <2>5. ASSUME NEW c \in Created, NEW obj \in live, slab_free(c, obj) PROVE SlabInvariant'
    BY <2>1, <2>5, FreeStep, Zenon DEF SlabInvariant
  <2>6. ASSUME NEW c \in Caches \ Created, kmalloc(c), UNCHANGED <<cache, looping>>
        PROVE  SlabInvariant'
    BY <2>1, <2>6, KmallocStep, Zenon DEF SlabInvariant
  <2>7. ASSUME NEW obj \in Kmallocd, kfree(obj), UNCHANGED <<cache, looping>>
        PROVE  SlabInvariant'
    BY <2>1, <2>7, KfreeStep, Zenon DEF SlabInvariant
  <2>8. QED
    BY <1>2, <2>2, <2>3, <2>4, <2>5, <2>6, <2>7, Zenon DEF SlabNext
<1>3. QED
  BY <1>1, <1>2

(* The invariant of kmalloc and the created caches: through every call,    *)
(* with the calls of kmalloc inside it and every failure that comes back to*)
(* it, until a call uses a pointer that alloc_pages never returned.        *)
THEOREM SlabsAreSound == OnePlaceless => (SlabSpec => [](astray \/ SlabInvariant))
<1>1. OnePlaceless /\ SlabInit => astray \/ SlabInvariant
  BY InitIs DEF SlabInvariant
<1>2. (astray \/ SlabInvariant) /\ [SlabNext]_slabVars => (astray \/ SlabInvariant)'
  BY SlabStep
<1>3. QED
  BY <1>1, <1>2, PTL DEF SlabSpec

-----------------------------------------------------------------------------
(* What the invariant says of the counters and the pages.                  *)
LEMMA SlabsAre ==
  \A c \in Caches : Slabs(c) = {heap.pool[c][i] : i \in DOMAIN heap.pool[c]}
BY DEF Slabs

(* The slabs of all pools.                                                 *)
LEMMA AllSlabsAre ==
  ASSUME heap \in HeapSet
  PROVE  /\ \A s : s \in AllSlabs <=>
               \E c \in Caches : \E i \in 1 .. Len(heap.pool[c]) : s = heap.pool[c][i]
         /\ \A c \in Caches : \A s : s \in Slabs(c) <=>
               \E i \in 1 .. Len(heap.pool[c]) : s = heap.pool[c][i]
         /\ {s.page : s \in AllSlabs} = PagesOf(heap.pool)
         /\ AllSlabs \subseteq SlabSet
<1>1. \A c \in Caches : DOMAIN heap.pool[c] = 1 .. Len(heap.pool[c])
  BY TheHeap
<1>2. \A c \in Caches : \A s : s \in Slabs(c) <=>
        \E i \in 1 .. Len(heap.pool[c]) : s = heap.pool[c][i]
  BY <1>1 DEF Slabs
<1>3. \A s : s \in AllSlabs <=>
        \E c \in Caches : \E i \in 1 .. Len(heap.pool[c]) : s = heap.pool[c][i]
  BY <1>2 DEF AllSlabs
<1>4. AllSlabs \subseteq SlabSet
  <2> SUFFICES ASSUME NEW s \in AllSlabs PROVE s \in SlabSet
    OBVIOUS
  <2>1. PICK c \in Caches : \E i \in 1 .. Len(heap.pool[c]) : s = heap.pool[c][i]
    BY <1>3
  <2>2. PICK i \in 1 .. Len(heap.pool[c]) : s = heap.pool[c][i]
    BY <2>1
  <2>3. QED
    BY <2>2, TheHeap
<1>5. {s.page : s \in AllSlabs} = PagesOf(heap.pool)
  <2>1. \A s \in AllSlabs : s.page \in Places
    BY <1>4 DEF SlabSet
  <2>2. ASSUME NEW p \in {s.page : s \in AllSlabs} PROVE p \in PagesOf(heap.pool)
    BY <1>3, <2>1 DEF PagesOf
  <2>3. ASSUME NEW p \in PagesOf(heap.pool) PROVE p \in {s.page : s \in AllSlabs}
    BY <1>3 DEF PagesOf
  <2>4. QED
    BY <2>2, <2>3
<1>6. QED
  BY <1>2, <1>3, <1>4, <1>5

(* The counters agree and the pages are each in one place.                 *)
LEMMA HeapIsSound ==
  ASSUME SlabInvariant
  PROVE  PoolsTyped /\ CountersAgree /\ PagesOwned
<1>1. PICK V : Serving(heap, V, live, cache)
  BY DEF SlabInvariant, SlabIs
<1>2. PICK W, U : W = Structs(cache) /\ U = V \cup W \cup Own(Labels(heap.pool))
  OBVIOUS
<1>3. /\ Sound(heap, U, {}) /\ heap \in HeapSet /\ U \in SUBSET Objects
      /\ live \subseteq V \cup W
  BY <1>1, <1>2 DEF Serving, Ok, Fit, Sound
<1>4. ASSUME NEW c \in Caches, NEW s \in Slabs(c)
      PROVE  /\ s \in SlabSet /\ s.color_map \subseteq Bits(s.color_count)
             /\ s.using_count + s.free_count = s.color_count
  <2>1. PICK i \in 1 .. Len(heap.pool[c]) : s = heap.pool[c][i]
    BY <1>3, AllSlabsAre
  <2>2. Good(s, U, c, i) /\ s \in SlabSet
    BY <1>3, <2>1, TheHeap DEF Sound, AllGood
  <2>3. QED
    BY <2>2 DEF Good
<1>5. PoolsTyped
  <2>1. \A c \in Caches : \A s \in Slabs(c) :
          /\ s.page \in Pages \cup Caches \cup {0}
          /\ s.using_count \in Nat /\ s.free_count \in Nat
          /\ s.color_map \subseteq Bits(s.color_count)
          /\ s.header \in Slot /\ s.map \in Slot
    BY <1>4 DEF SlabSet, Places
  <2>2. heap.total_using \in [Caches -> Nat] /\ heap.total_free \in [Caches -> Nat]
    <3>1. heap.total_using \in [Caches -> Int] /\ heap.total_free \in [Caches -> Int]
      BY <1>3, TheHeap
    <3>2. \A c \in Caches : heap.total_using[c] \in Nat /\ heap.total_free[c] \in Nat
      BY <1>3, FreeIsThere
    <3>3. QED
      BY <3>1, <3>2
  <2>3. heap.pages \subseteq Pages
    BY <1>3, TheHeap
  <2>4. live \subseteq Objects
    BY <1>2, <1>3
  <2>5. QED
    BY <2>1, <2>2, <2>3, <2>4 DEF PoolsTyped, Objects, Slot, Places
<1>6. CountersAgree
  <2> SUFFICES ASSUME NEW c \in Caches
               PROVE  /\ \A s \in Slabs(c) : s.using_count + s.free_count = s.color_count
                      /\ heap.total_using[c] = Total([i \in DOMAIN heap.pool[c] |->
                                                        heap.pool[c][i].using_count])
                      /\ heap.total_free[c] = Total([i \in DOMAIN heap.pool[c] |->
                                                       heap.pool[c][i].free_count])
    BY DEF CountersAgree
  <2>1. heap.total_using[c] = Total(Using(heap.pool[c])) /\ heap.total_free[c] = Total(Left(heap.pool[c]))
    BY <1>3 DEF Sound
  <2>2. QED
    BY <1>4, <2>1 DEF Using, Left
<1>7. PagesOwned
  <2>1. \A c \in Caches : DOMAIN heap.pool[c] = 1 .. Len(heap.pool[c])
    BY <1>3, TheHeap
  <2>2. ASSUME NEW c \in Caches, NEW d \in Caches, NEW i \in DOMAIN heap.pool[c],
               NEW j \in DOMAIN heap.pool[d], heap.pool[c][i].page = heap.pool[d][j].page
        PROVE  c = d /\ i = j
    <3>1. i \in 1 .. Len(heap.pool[c]) /\ j \in 1 .. Len(heap.pool[d])
      BY <2>1
    <3>2. Apart(heap.pool)
      BY <1>3 DEF Sound
    <3>3. QED
      BY <2>2, <3>1, <3>2, Zenon DEF Apart
  <2>3. {s.page : s \in AllSlabs} = PagesOf(heap.pool)
    BY <1>3, AllSlabsAre
  <2>4. PagesOf(heap.pool) \cap heap.pages = {} /\ Pages \subseteq PagesOf(heap.pool) \cup heap.pages
    BY <1>3 DEF Sound
  <2>5. QED
    BY <2>2, <2>3, <2>4 DEF PagesOwned
<1>8. QED
  BY <1>5, <1>6, <1>7

(* A set whose members are all the same has one at most.                   *)
LEMMA OneAtMost ==
  ASSUME NEW S, \A x, y \in S : x = y
  PROVE  Cardinality(S) <= 1
<1>1. CASE S = {}
  BY <1>1, FS_EmptySet
<1>2. CASE S # {}
  <2>1. PICK x : S = {x}
    BY <1>2
  <2>2. Cardinality({x}) = 1
    BY FS_Singleton
  <2>3. QED
    BY <2>1, <2>2
<1>3. QED
  BY <1>1, <1>2

(* A pool keeps one unused slab beside its first.                          *)
LEMMA OneIsSpare ==
  ASSUME SlabInvariant
  PROVE  AtMostOneSpare
<1>1. PICK V : Serving(heap, V, live, cache)
  BY DEF SlabInvariant, SlabIs
<1>2. Tidy(heap.pool) /\ heap \in HeapSet /\ \A c \in Created : Lean(heap.pool[c], looping)
  BY <1>1 DEF SlabInvariant, SlabIs, Serving, Ok, Fit, Sound
<1>3. ASSUME NEW c \in Caches
      PROVE  Cardinality({i \in DOMAIN heap.pool[c] \ {1} : heap.pool[c][i].using_count = 0}) <= 1
  <2>1. PICK n, S : /\ n = Len(heap.pool[c])
                    /\ S = {i \in DOMAIN heap.pool[c] \ {1} : heap.pool[c][i].using_count = 0}
    OBVIOUS
  <2>2. n \in Nat /\ DOMAIN heap.pool[c] = 1 .. n
    BY <1>2, <2>1, TheHeap
  <2>3. \A i, j \in 2 .. n : heap.pool[c][i].using_count = 0 /\ heap.pool[c][j].using_count = 0 => i = j
    BY <1>2, <2>1 DEF Tidy, Lean
  <2>4. \A i \in S : i \in 2 .. n /\ heap.pool[c][i].using_count = 0
    BY <2>1, <2>2
  <2>5. \A i, j \in S : i = j
    BY <2>3, <2>4
  <2>6. Cardinality(S) <= 1
    BY <2>5, OneAtMost, Zenon
  <2>7. QED
    BY <2>1, <2>6
<1>4. QED
  BY <1>3 DEF AtMostOneSpare

(* The pools, their counters and the pages under them agree: no page under *)
(* two slabs, none both free and under a slab, every total the sum of its  *)
(* slabs (kmalloc, kfree, slab_malloc, slab_free and what they call).      *)
THEOREM HeapStaysSound == OnePlaceless => (SlabSpec => []HeapInv)
<1>1. astray \/ SlabInvariant => HeapInv
  BY HeapIsSound DEF HeapInv
<1>2. QED
  BY <1>1, SlabsAreSound, PTL

(* The thresholds of kfree and slab_free never leave a created cache with  *)
(* two unused slabs, with whatever capacities the slabs have.              *)
THEOREM OneSlabToSpare == OnePlaceless => (SlabSpec => []AtMostOneSpare)
<1>1. astray \/ SlabInvariant => AtMostOneSpare
  BY OneIsSpare DEF AtMostOneSpare
<1>2. QED
  BY <1>1, SlabsAreSound, PTL

(* An image of a finite set, under a function that tells its members apart.*)
LEMMA ImageOf ==
  ASSUME NEW S, IsFiniteSet(S), NEW f, DOMAIN f = S, NEW T,
         \A t : t \in T <=> \E x \in S : t = f[x]
  PROVE  /\ IsFiniteSet(T)
         /\ (\A x, y \in S : f[x] = f[y] => x = y) => Cardinality(T) = Cardinality(S)
<1>1. PICK g : g = [x \in S |-> f[x]]
  OBVIOUS
<1>2. g \in [S -> T] /\ \A x \in S : g[x] = f[x]
  BY <1>1
<1>3. g \in Surjection(S, T)
  BY <1>2 DEF Surjection
<1>4. IsFiniteSet(T)
  BY <1>3, FS_Surjection
<1>5. ASSUME \A x, y \in S : f[x] = f[y] => x = y PROVE Cardinality(T) = Cardinality(S)
  <2>1. g \in Injection(S, T)
    BY <1>2, <1>5 DEF Injection, IsInjective
  <2>2. QED
    BY <1>3, <2>1, FS_Surjection
<1>6. QED
  BY <1>4, <1>5

(* There are finitely many slabs.                                          *)
LEMMA SlabsFinite ==
  ASSUME heap \in HeapSet
  PROVE  IsFiniteSet(AllSlabs)
<1>1. ASSUME NEW c \in Caches PROVE IsFiniteSet(Slabs(c))
  <2>1. PICK n, q : n = Len(heap.pool[c]) /\ q = heap.pool[c]
    OBVIOUS
  <2>2. n \in Nat /\ DOMAIN q = 1 .. n
    BY <2>1, TheHeap
  <2>3. IsFiniteSet(1 .. n)
    BY <2>2, FS_Interval
  <2>4. PICK T : T = {q[i] : i \in DOMAIN q}
    OBVIOUS
  <2>5. \A t : t \in T <=> \E x \in 1 .. n : t = q[x]
    BY <2>2, <2>4
  <2>6. IsFiniteSet(T)
    BY <2>2, <2>3, <2>5, ImageOf
  <2>7. QED
    BY <2>1, <2>4, <2>6 DEF Slabs
<1>2. IsFiniteSet({Slabs(c) : c \in Caches})
  <2>1. IsFiniteSet(Caches)
    BY KmallocAssumption DEF KmallocAssumption
  <2>2. PICK f, T : f = [c \in Caches |-> Slabs(c)] /\ T = {Slabs(c) : c \in Caches}
    OBVIOUS
  <2>3. DOMAIN f = Caches /\ \A t : t \in T <=> \E x \in Caches : t = f[x]
    BY <2>2
  <2>4. IsFiniteSet(T)
    BY <2>1, <2>3, ImageOf
  <2>5. QED
    BY <2>2, <2>4
<1>3. \A T \in {Slabs(c) : c \in Caches} : IsFiniteSet(T)
  BY <1>1
<1>4. QED
  BY <1>2, <1>3, FS_UNION DEF AllSlabs

(* Two sets with nothing in common.                                        *)
LEMMA SumOfTwo ==
  ASSUME NEW S, NEW T, IsFiniteSet(S), IsFiniteSet(T), S \cap T = {}
  PROVE  /\ IsFiniteSet(S \cup T)
         /\ Cardinality(S \cup T) = Cardinality(S) + Cardinality(T)
         /\ Cardinality(S) \in Nat /\ Cardinality(T) \in Nat
<1>1. /\ IsFiniteSet(S \cup T)
      /\ Cardinality(S \cup T) = Cardinality(S) + Cardinality(T) - Cardinality(S \cap T)
  BY FS_Union
<1>2. Cardinality(S \cap T) = 0
  BY FS_EmptySet
<1>3. Cardinality(S) \in Nat /\ Cardinality(T) \in Nat
  BY FS_CardinalityType
<1>4. QED
  BY <1>1, <1>2, <1>3

\* Every object is used for one thing, and each one of U is used.
UsedFor(U, O) ==
  /\ Headers \cup Bitmaps = O /\ InUse = U /\ Headers \cap Bitmaps = {}
  /\ (live \cup Lost) \cap (Headers \cup Bitmaps) = {} /\ live \cap Lost = {}
  /\ \A s, t \in Described : s.header = t.header \/ s.map = t.map => s = t
  /\ IsFiniteSet(live)

(* What each object is used for.                                           *)
LEMMA UsesAre ==
  ASSUME SlabInvariant
  PROVE  \E U, O : Sound(heap, U, {}) /\ UsedFor(U, O)
<1>1. PICK V : Serving(heap, V, live, cache)
  BY DEF SlabInvariant, SlabIs
<1>2. PICK L, O, W, U : /\ L = Labels(heap.pool) /\ O = Own(L) /\ W = Structs(cache)
                        /\ U = V \cup W \cup O
  OBVIOUS
<1>3. /\ Sound(heap, U, {}) /\ V \cap W = {} /\ (V \cup W) \cap O = {} /\ Unshared(L)
      /\ live = (V \cup W) \ {<<0, 0>>} /\ <<0, 0>> \notin W /\ IsFiniteSet(live)
  BY <1>1, <1>2 DEF Serving, Ok, Fit
<1>4. heap \in HeapSet /\ U \in SUBSET Objects /\ Apart(heap.pool)
  BY <1>3 DEF Sound
<1>5. \A s : s \in AllSlabs <=>
        \E c \in Caches : \E i \in 1 .. Len(heap.pool[c]) : s = heap.pool[c][i]
  BY <1>4, AllSlabsAre
<1>6. ASSUME NEW c \in Caches, NEW i \in 1 .. Len(heap.pool[c])
      PROVE  /\ Good(heap.pool[c][i], U, c, i) /\ heap.pool[c][i] \in SlabSet
             /\ heap.pool[c][i].header = NoObject <=> heap.pool[c][i].map = NoObject
  <2>1. Good(heap.pool[c][i], U, c, i)
    BY <1>3 DEF Sound, AllGood
  <2>2. heap.pool[c][i] \in SlabSet
    BY <1>4, TheHeap
  <2>3. QED
    BY <2>1, <2>2 DEF Good
<1>7. ASSUME NEW s \in Described
      PROVE  /\ <<s.page, s.header, s.map>> \in L
             /\ s.header \in Objects /\ s.map \in Objects /\ s.page \in Places
  <2>1. s \in AllSlabs /\ s.header # NoObject
    BY DEF Described
  <2>2. PICK c \in Caches : \E i \in 1 .. Len(heap.pool[c]) : s = heap.pool[c][i]
    BY <1>5, <2>1
  <2>3. PICK i \in 1 .. Len(heap.pool[c]) : s = heap.pool[c][i]
    BY <2>2
  <2>4. s \in SlabSet /\ s.map # NoObject
    BY <1>6, <2>1, <2>3
  <2>5. s.header \in Objects /\ s.map \in Objects /\ s.page \in Places
    BY <2>1, <2>4 DEF SlabSet, Slot
  <2>6. <<s.page, s.header, s.map>> \in Places \X Objects \X Objects
    BY <2>5
  <2>7. QED
    BY <1>2, <2>3, <2>5, <2>6 DEF Labels
<1>8. ASSUME NEW l \in L PROVE \E s \in Described : l[2] = s.header /\ l[3] = s.map
  <2>1. l[2] \in Objects /\ \E c \in Caches : \E i \in 1 .. Len(heap.pool[c]) :
          l = <<heap.pool[c][i].page, heap.pool[c][i].header, heap.pool[c][i].map>>
    BY <1>2 DEF Labels
  <2>2. PICK c \in Caches : \E i \in 1 .. Len(heap.pool[c]) :
          l = <<heap.pool[c][i].page, heap.pool[c][i].header, heap.pool[c][i].map>>
    BY <2>1
  <2>3. PICK i \in 1 .. Len(heap.pool[c]) :
          l = <<heap.pool[c][i].page, heap.pool[c][i].header, heap.pool[c][i].map>>
    BY <2>2
  <2>4. PICK s : s = heap.pool[c][i]
    OBVIOUS
  <2>5. l[2] = s.header /\ l[3] = s.map /\ s.header # NoObject /\ s \in AllSlabs
    BY <1>5, <2>1, <2>3, <2>4, TheCaches
  <2>6. QED
    BY <2>5 DEF Described
<1>9. Headers \cup Bitmaps = O
  <2>1. \A x \in Headers \cup Bitmaps : x \in O
    <3> SUFFICES ASSUME NEW x \in Headers \cup Bitmaps PROVE x \in O
      OBVIOUS
    <3>1. PICK s \in Described : x = s.header \/ x = s.map
      BY DEF Headers, Bitmaps
    <3>2. PICK l : l = <<s.page, s.header, s.map>>
      OBVIOUS
    <3>3. l \in L /\ (x = l[2] \/ x = l[3])
      BY <1>7, <3>1, <3>2
    <3>4. QED
      BY <1>2, <3>3 DEF Own
  <2>2. \A x \in O : x \in Headers \cup Bitmaps
    <3> SUFFICES ASSUME NEW x \in O PROVE x \in Headers \cup Bitmaps
      OBVIOUS
    <3>1. PICK l \in L : x = l[2] \/ x = l[3]
      BY <1>2 DEF Own
    <3>2. PICK s \in Described : l[2] = s.header /\ l[3] = s.map
      BY <1>8
    <3>3. QED
      BY <3>1, <3>2 DEF Headers, Bitmaps
  <2>3. QED
    BY <2>1, <2>2
<1>10. ASSUME NEW s \in Described, NEW t \in Described
       PROVE  s.header # t.map /\ (s.header = t.header \/ s.map = t.map => s = t)
  <2>1. PICK l, m : l = <<s.page, s.header, s.map>> /\ m = <<t.page, t.header, t.map>>
    OBVIOUS
  <2>2. /\ l \in L /\ m \in L /\ l[1] = s.page /\ l[2] = s.header /\ l[3] = s.map
        /\ m[1] = t.page /\ m[2] = t.header /\ m[3] = t.map
    BY <1>7, <2>1
  <2>3. l[2] # m[3] /\ (l[2] = m[2] \/ l[3] = m[3] => l = m)
    BY <1>3, <2>2 DEF Unshared
  <2>4. s.page = t.page => s = t
    <3>1. s \in AllSlabs /\ t \in AllSlabs
      BY DEF Described
    <3>2. PICK c \in Caches : \E i \in 1 .. Len(heap.pool[c]) : s = heap.pool[c][i]
      BY <1>5, <3>1
    <3>3. PICK i \in 1 .. Len(heap.pool[c]) : s = heap.pool[c][i]
      BY <3>2
    <3>4. PICK d \in Caches : \E j \in 1 .. Len(heap.pool[d]) : t = heap.pool[d][j]
      BY <1>5, <3>1
    <3>5. PICK j \in 1 .. Len(heap.pool[d]) : t = heap.pool[d][j]
      BY <3>4
    <3>6. s.page = t.page => c = d /\ i = j
      BY <1>4, <3>3, <3>5 DEF Apart
    <3>7. QED
      BY <3>3, <3>5, <3>6
  <2>5. QED
    BY <2>2, <2>3, <2>4
<1>11. Headers \cap Bitmaps = {}
  BY <1>10 DEF Headers, Bitmaps
<1>12. <<0, 0>> \notin O
  BY <1>2, <1>3 DEF Own, Unshared
<1>13. Lost = {<<0, 0>>} \cap U
  <2>1. PICK z : z = <<0, 0>>
    OBVIOUS
  <2>2. z[1] = 0 /\ z[2] = 0
    BY <2>1
  <2>3. z \in Lost <=> \E s \in AllSlabs : s.page = 0 /\ 0 \in s.color_map
    BY <2>1, <2>2 DEF Lost
  <2>4. ASSUME z \in U PROVE \E s \in AllSlabs : s.page = 0 /\ 0 \in s.color_map
    <3>1. 0 \in PagesOf(heap.pool)
      BY <1>3, <2>2, <2>4 DEF Sound
    <3>2. PICK c \in Caches : \E i \in 1 .. Len(heap.pool[c]) : heap.pool[c][i].page = 0
      BY <3>1 DEF PagesOf
    <3>3. PICK i \in 1 .. Len(heap.pool[c]) : heap.pool[c][i].page = 0
      BY <3>2
    <3>4. PICK s : s = heap.pool[c][i]
      OBVIOUS
    <3>5. s.page = 0 /\ s \in AllSlabs /\ Good(s, U, c, i) /\ z \in OnPage(U, 0)
      BY <1>5, <1>6, <2>2, <2>4, <3>3, <3>4 DEF OnPage
    <3>6. z[2] \in s.color_map
      BY <3>5 DEF Good
    <3>7. QED
      BY <2>2, <3>5, <3>6
  <2>5. ASSUME NEW s \in AllSlabs, s.page = 0, 0 \in s.color_map PROVE z \in U
    <3>1. PICK c \in Caches : \E i \in 1 .. Len(heap.pool[c]) : s = heap.pool[c][i]
      BY <1>5, <2>5
    <3>2. PICK i \in 1 .. Len(heap.pool[c]) : s = heap.pool[c][i]
      BY <3>1
    <3>3. Good(s, U, c, i)
      BY <1>6, <3>2
    <3>4. Static(c, i)
      <4>1. ~Static(c, i) => s.page \in Pages
        BY <3>3 DEF Good
      <4>2. 0 \notin Pages
        BY TheCaches
      <4>3. QED
        BY <2>5, <4>1, <4>2
    <3>5. \A b \in s.color_map : <<s.page, b>> \in U
      BY <3>3, <3>4 DEF Good, Exact
    <3>6. QED
      BY <2>1, <2>5, <3>5
  <2>6. z \in Lost <=> z \in U
    BY <2>3, <2>4, <2>5
  <2>7. Lost \subseteq {z}
    BY <2>1 DEF Lost
  <2>8. QED
    BY <2>1, <2>6, <2>7
<1>14. InUse = U
  <2>1. InUse = live \cup O \cup Lost
    BY <1>9 DEF InUse
  <2>2. QED
    BY <1>2, <1>3, <1>12, <1>13, <2>1
<1>15. (live \cup Lost) \cap (Headers \cup Bitmaps) = {} /\ live \cap Lost = {}
  <2>1. live \cap O = {} /\ Lost \cap O = {} /\ live \cap Lost = {}
    BY <1>3, <1>12, <1>13
  <2>2. QED
    BY <1>9, <2>1
<1>16. QED
  BY <1>3, <1>9, <1>10, <1>11, <1>14, <1>15 DEF UsedFor

(* Nothing is used twice, and what is used is what the slabs count.        *)
LEMMA UsedOnceHolds ==
  ASSUME SlabInvariant
  PROVE  OneUseEach
<1>1. PICK U, O : Sound(heap, U, {}) /\ UsedFor(U, O)
  BY UsesAre
<1>2. heap \in HeapSet /\ InUse = U
  BY <1>1 DEF Sound, UsedFor
<1>3. \A s : s \in AllSlabs <=>
        \E c \in Caches : \E i \in 1 .. Len(heap.pool[c]) : s = heap.pool[c][i]
  BY <1>2, AllSlabsAre
<1>4. IsFiniteSet(Described)
  <2>1. IsFiniteSet(AllSlabs) /\ Described \subseteq AllSlabs
    BY <1>2, SlabsFinite DEF Described
  <2>2. QED
    BY <2>1, FS_Subset
<1>5. IsFiniteSet(Headers) /\ Cardinality(Headers) = Cardinality(Described)
  <2>1. PICK f : f = [s \in Described |-> s.header]
    OBVIOUS
  <2>2. /\ DOMAIN f = Described /\ \A t : t \in Headers <=> \E x \in Described : t = f[x]
        /\ \A x, y \in Described : f[x] = f[y] => x = y
    BY <1>1, <2>1 DEF Headers, UsedFor
  <2>3. QED
    BY <1>4, <2>2, ImageOf
<1>6. IsFiniteSet(Bitmaps) /\ Cardinality(Bitmaps) = Cardinality(Described)
  <2>1. PICK f : f = [s \in Described |-> s.map]
    OBVIOUS
  <2>2. /\ DOMAIN f = Described /\ \A t : t \in Bitmaps <=> \E x \in Described : t = f[x]
        /\ \A x, y \in Described : f[x] = f[y] => x = y
    BY <1>1, <2>1 DEF Bitmaps, UsedFor
  <2>3. QED
    BY <1>4, <2>2, ImageOf
<1>7. IsFiniteSet(Lost) /\ IsFiniteSet(live)
  <2>1. Lost \subseteq {<<0, 0>>} /\ IsFiniteSet({<<0, 0>>})
    BY FS_Singleton DEF Lost
  <2>2. QED
    BY <1>1, <2>1, FS_Subset DEF UsedFor
<1>8. Cardinality(InUse) = Cardinality(live) + 2 * Cardinality(Described) + Cardinality(Lost)
  <2>1. PICK A, B, a, b, d, l : /\ A = live \cup Lost /\ B = Headers \cup Bitmaps
                                /\ a = Cardinality(live) /\ l = Cardinality(Lost)
                                /\ d = Cardinality(Described) /\ b = Cardinality(Headers)
    OBVIOUS
  <2>2. IsFiniteSet(A) /\ Cardinality(A) = a + l /\ a \in Nat /\ l \in Nat
    <3>1. live \cap Lost = {}
      BY <1>1 DEF UsedFor
    <3>2. QED
      BY <1>7, <2>1, <3>1, SumOfTwo
  <2>3. IsFiniteSet(B) /\ Cardinality(B) = d + d /\ d \in Nat
    <3>1. Headers \cap Bitmaps = {}
      BY <1>1 DEF UsedFor
    <3>2. /\ IsFiniteSet(Headers \cup Bitmaps)
          /\ Cardinality(Headers \cup Bitmaps) = Cardinality(Headers) + Cardinality(Bitmaps)
      BY <1>5, <1>6, <3>1, SumOfTwo, Zenon
    <3>3. Cardinality(Headers) = d /\ Cardinality(Bitmaps) = d /\ B = Headers \cup Bitmaps
      BY <1>5, <1>6, <2>1
    <3>4. d \in Nat
      BY <1>4, <2>1, FS_CardinalityType
    <3>5. QED
      BY <3>2, <3>3, <3>4
  <2>4. Cardinality(A \cup B) = Cardinality(A) + Cardinality(B)
    <3>1. A \cap B = {}
      BY <1>1, <2>1 DEF UsedFor
    <3>2. QED
      BY <2>2, <2>3, <3>1, SumOfTwo
  <2>5. InUse = A \cup B
    BY <2>1 DEF InUse
  <2>6. Cardinality(InUse) = (a + l) + (d + d)
    BY <2>2, <2>3, <2>4, <2>5
  <2>7. (a + l) + (d + d) = a + 2 * d + l
    BY <2>2, <2>3
  <2>8. QED
    BY <2>1, <2>6, <2>7
<1>9. ASSUME NEW obj \in InUse PROVE \E s \in AllSlabs : s.page = obj[1] /\ obj[2] \in s.color_map
  <2>1. obj \in U /\ obj[1] \in PagesOf(heap.pool)
    BY <1>1, <1>2 DEF Sound
  <2>2. PICK c \in Caches : \E i \in 1 .. Len(heap.pool[c]) : heap.pool[c][i].page = obj[1]
    BY <2>1 DEF PagesOf
  <2>3. PICK i \in 1 .. Len(heap.pool[c]) : heap.pool[c][i].page = obj[1]
    BY <2>2
  <2>4. PICK s : s = heap.pool[c][i]
    OBVIOUS
  <2>5. s \in AllSlabs /\ s.page = obj[1] /\ Good(s, U, c, i)
    BY <1>1, <1>3, <2>3, <2>4 DEF Sound, AllGood
  <2>6. obj \in OnPage(U, s.page)
    BY <2>1, <2>5 DEF OnPage
  <2>7. obj[2] \in s.color_map
    BY <2>5, <2>6 DEF Good
  <2>8. QED
    BY <2>5, <2>7
<1>10. ASSUME NEW s \in AllSlabs
       PROVE  s.using_count = Cardinality({obj \in InUse : obj[1] = s.page})
  <2>1. PICK c \in Caches : \E i \in 1 .. Len(heap.pool[c]) : s = heap.pool[c][i]
    BY <1>3
  <2>2. PICK i \in 1 .. Len(heap.pool[c]) : s = heap.pool[c][i]
    BY <2>1
  <2>3. Good(s, U, c, i)
    BY <1>1, <2>2 DEF Sound, AllGood
  <2>4. s.using_count = Cardinality(OnPage(U, s.page))
    BY <2>3 DEF Good
  <2>5. OnPage(U, s.page) = {obj \in InUse : obj[1] = s.page}
    BY <1>2 DEF OnPage
  <2>6. QED
    BY <2>4, <2>5
<1>11. QED
  BY <1>8, <1>9, <1>10 DEF OneUseEach

(* No object is used twice: not by two callers, and not by a caller and as *)
(* the struct or the bitmap of a slab.                                     *)
THEOREM ObjectsUsedOnce == OnePlaceless => (SlabSpec => []UsedOnce)
<1>1. astray \/ SlabInvariant => UsedOnce
  BY UsedOnceHolds DEF UsedOnce
<1>2. QED
  BY <1>1, SlabsAreSound, PTL

-----------------------------------------------------------------------------
BspPlaces == {"lock", "prepare", "ipi", "next", "printing", "task_init", "idle"}
ApPlaces  == {"off", "pcb", "ltr", "unlock", "zero", "task_init", "idle"}

\* The last processor the BSP has sent a Start-up IPI to.
LastSent == IF pc[0] = "next" THEN global_i ELSE global_i - 1

\* The BSP starts the processors in order, each with its own stack.
ServedInOrder ==
  /\ pc[0] \in BspPlaces /\ \A c \in APs : pc[c] \in ApPlaces
  /\ started = 1 .. LastSent
  /\ \A c \in APs : pc[c] # "off" => c \in started
  /\ pc[0] \in {"prepare", "ipi", "next"} => global_i < NR_CPUS
  /\ pc[0] \in {"ipi", "next"} => stack_start = global_i
  /\ pc[0] \in {"prepare", "ipi"} => SMP_lock = 0

\* A processor on its way up is the last one, the stack on offer is its own,
\* and the BSP cannot get past the lock.
HandedToOne ==
  \A c \in Starting : /\ c = LastSent
                      /\ stack_start = c
                      /\ SMP_lock = 0
                      /\ pc[0] \notin {"prepare", "ipi"}

\* What each processor has read was its own.
OwnTask ==
  \A c \in APs :
    /\ stack[c] = IF pc[c] = "off" THEN None ELSE c
    /\ rsp0[c] = IF pc[c] \in {"off", "pcb"} THEN None ELSE c
    /\ pc[c] \notin {"off", "pcb"} => init_task[c] = c

HandOverInv == TypeOK /\ ServedInOrder /\ HandedToOne /\ OwnTask

USE SmpBootAssumption DEF CPUs, APs, BspPlaces, ApPlaces

(* Nobody is started when the loop begins.                                 *)
LEMMA InitHandOver == Init => HandOverInv
  BY DEF Init, Unset, HandOverInv, TypeOK, ServedInOrder, HandedToOne,
         OwnTask, LastSent, Starting

(* A step of the BSP's loop keeps the hand-over sound: it gets past the    *)
(* lock only when nobody is on the way up.                                 *)
LEMMA BspHandOver ==
  ASSUME HandOverInv, BspLock \/ BspPrepare \/ BspStartUp \/ BspIncrement
  PROVE  HandOverInv'
<1> USE DEF HandOverInv, Goto, LastSent
<1>0. UNCHANGED <<stack, rsp0, init_task, tr>>
      /\ \A c \in APs : pc'[c] = pc[c]
  BY DEF TypeOK, BspLock, BspPrepare, BspStartUp, BspIncrement
<1>1. OwnTask'
  BY <1>0 DEF OwnTask
<1> DEFINE Steps == {"lock", "prepare", "ipi", "next", "printing", "task_init",
                      "off", "pcb", "ltr", "unlock", "zero", "idle"}
<1>7. \A p \in Steps : Goto(0, p) => pc' \in [CPUs -> Steps]
  <2>1. pc \in [CPUs -> Steps]
    BY DEF TypeOK
  <2> HIDE DEF Steps
  <2>2. QED
    BY <2>1
<1>2. CASE BspLock
  <2>1. Starting = {}
    BY <1>2 DEF BspLock, spin_lock, HandedToOne
  <2>2. TypeOK' /\ ServedInOrder'
    <3>1. TypeOK'
      BY <1>2, <1>7 DEF BspLock, spin_lock, TypeOK
    <3>2. ServedInOrder'
      BY <1>2 DEF BspLock, spin_lock, TypeOK, ServedInOrder
    <3>3. QED
      BY <3>1, <3>2
  <2>3. Starting' = {}
    BY <1>2, <2>1 DEF BspLock, TypeOK, Starting
  <2>4. QED
    BY <1>1, <2>2, <2>3 DEF HandedToOne
<1>3. CASE BspPrepare
  <2>1. Starting = {}
    BY <1>3 DEF BspPrepare, HandedToOne
  <2>2. TypeOK' /\ ServedInOrder'
    BY <1>3 DEF BspPrepare, TypeOK, ServedInOrder
  <2>3. Starting' = {}
    BY <1>3, <2>1 DEF BspPrepare, TypeOK, Starting
  <2>4. QED
    BY <1>1, <2>2, <2>3 DEF HandedToOne
<1>4. CASE BspStartUp
  <2>1. Starting = {} /\ SMP_lock = 0 /\ stack_start = global_i
    BY <1>4 DEF BspStartUp, HandedToOne, ServedInOrder
  <2>2. TypeOK' /\ ServedInOrder'
    <3>1. TypeOK'
      <4>1. global_i \in APs /\ started \cup {global_i} \in SUBSET APs
        BY <1>4 DEF BspStartUp, TypeOK, ServedInOrder
      <4>2. QED
        BY <1>4, <1>7, <4>1 DEF BspStartUp, TypeOK
    <3>2. ServedInOrder'
      BY <1>4 DEF BspStartUp, TypeOK, ServedInOrder
    <3>3. QED
      BY <3>1, <3>2
  <2>3. Starting' \subseteq {global_i}
    BY <1>0, <1>4, <2>1 DEF BspStartUp, Starting
  <2>4. QED
    BY <1>1, <1>4, <2>1, <2>2, <2>3 DEF BspStartUp, HandedToOne, TypeOK
<1>5. CASE BspIncrement
  <2>1. TypeOK' /\ ServedInOrder'
    BY <1>5 DEF BspIncrement, TypeOK, ServedInOrder
  <2>2. Starting' = Starting /\ LastSent' = LastSent
    BY <1>0, <1>5 DEF BspIncrement, Starting, TypeOK
  <2>3. QED
    BY <1>1, <1>5, <2>1, <2>2 DEF BspIncrement, HandedToOne, TypeOK
<1>6. QED
  BY <1>2, <1>3, <1>4, <1>5

(* What the BSP does behind the loop, and task_init on whichever processor *)
(* calls it, concern counters only.                                        *)
LEMMA CounterHandOver ==
  ASSUME HandOverInv,
         BspPrint \/ BspPrinted \/ \E c \in CPUs : TaskInit(c)
  PROVE  HandOverInv'
<1> USE DEF HandOverInv, Goto, LastSent
<1>1. UNCHANGED <<global_i, stack_start, SMP_lock, tss, started, stack, rsp0,
                  init_task, tr>>
  BY DEF BspPrint, BspPrinted, TaskInit
<1>2. PICK c \in CPUs, place \in {"printing", "task_init", "idle"} :
        /\ pc' = [pc EXCEPT ![c] = place]
        /\ c = 0 => pc[c] \in {"lock", "printing", "task_init"}
        /\ c # 0 => pc[c] = "task_init" /\ place = "idle"
  BY DEF BspPrint, BspPrinted, TaskInit
<1>3. TypeOK'
  <2>1. preempt_count' \in [CPUs -> Int]
    <3>1. PICK n \in Int : preempt_count' = [preempt_count EXCEPT ![0] = n]
      BY DEF TypeOK, BspPrint, BspPrinted, TaskInit
    <3>2. QED
      BY <3>1 DEF TypeOK
  <2>2. pc' \in [CPUs -> {"lock", "prepare", "ipi", "next", "printing",
                         "task_init", "off", "pcb", "ltr", "unlock", "zero",
                         "idle"}]
    BY <1>2 DEF TypeOK
  <2>3. QED
    BY <1>1, <2>1, <2>2 DEF TypeOK
<1>4. /\ LastSent' = LastSent
      /\ pc'[0] \in BspPlaces
      /\ pc'[0] \in {"prepare", "ipi", "next"} => pc[0] = pc'[0]
  BY <1>1, <1>2 DEF TypeOK, ServedInOrder
<1>5. Starting' = Starting
  BY <1>1, <1>2 DEF TypeOK, Starting
<1>6. ServedInOrder'
  BY <1>1, <1>2, <1>4 DEF TypeOK, ServedInOrder
<1>7. HandedToOne'
  BY <1>1, <1>4, <1>5 DEF HandedToOne
<1>8. OwnTask'
  BY <1>1, <1>2 DEF TypeOK, OwnTask
<1>9. QED
  BY <1>3, <1>6, <1>7, <1>8

(* A processor on its way up reads _stack_start twice; both times the BSP  *)
(* still waits for the lock, and so the stack on offer is its own.         *)
LEMMA ApHandOver ==
  ASSUME HandOverInv, NEW c \in APs,
         ApEntry(c) \/ ApTask(c) \/ ApLoadTR(c) \/ ApUnlock(c) \/ ApEnable(c)
  PROVE  HandOverInv'
<1> USE DEF HandOverInv, Goto, LastSent
<1>0. /\ UNCHANGED <<global_i, stack_start, tss, started>>
      /\ pc'[0] = pc[0]
      /\ LastSent' = LastSent
  BY DEF TypeOK, ApEntry, ApTask, ApLoadTR, ApUnlock, ApEnable
<1>1. ASSUME c \in Starting
      PROVE  c = LastSent /\ stack_start = c /\ SMP_lock = 0 /\ pc[0] \notin {"prepare", "ipi"}
  BY <1>1 DEF HandedToOne
<1>2. CASE ApEntry(c)
  <2>1. c \in Starting
    BY <1>2 DEF ApEntry, Starting
  <2>2. Starting' = Starting
    BY <1>0, <1>2 DEF ApEntry, Starting, TypeOK
  <2>3. TypeOK' /\ OwnTask'
    BY <1>1, <1>2, <2>1 DEF ApEntry, TypeOK, OwnTask
  <2>4. ServedInOrder' /\ HandedToOne'
    BY <1>0, <1>2, <2>2 DEF ApEntry, TypeOK, ServedInOrder, HandedToOne
  <2>5. QED
    BY <2>3, <2>4
<1>3. CASE ApTask(c)
  <2>1. c \in Starting /\ stack[c] = c
    BY <1>3 DEF ApTask, Starting, ServedInOrder, OwnTask
  <2>2. Starting' = Starting
    BY <1>0, <1>3 DEF ApTask, Starting, TypeOK
  <2>3. TypeOK' /\ OwnTask'
    BY <1>1, <1>3, <2>1 DEF ApTask, TypeOK, OwnTask
  <2>4. ServedInOrder' /\ HandedToOne'
    BY <1>0, <1>3, <2>2 DEF ApTask, TypeOK, ServedInOrder, HandedToOne
  <2>5. QED
    BY <2>3, <2>4
<1>4. CASE ApLoadTR(c)
  <2>1. Starting' = Starting
    BY <1>0, <1>4 DEF ApLoadTR, Starting, TypeOK
  <2>2. TypeOK' /\ OwnTask'
    BY <1>4 DEF ApLoadTR, TypeOK, OwnTask
  <2>3. ServedInOrder' /\ HandedToOne'
    BY <1>0, <1>4, <2>1 DEF ApLoadTR, TypeOK, ServedInOrder, HandedToOne
  <2>4. QED
    BY <2>2, <2>3
<1>5. CASE ApUnlock(c)
  <2>1. c \in Starting /\ stack[c] = c
    BY <1>5 DEF ApUnlock, Starting, ServedInOrder, OwnTask
  <2>2. Starting' = {}
    BY <1>0, <1>1, <1>5, <2>1 DEF ApUnlock, Starting, TypeOK, HandedToOne
  <2>3. TypeOK' /\ OwnTask'
    BY <1>5, <2>1 DEF ApUnlock, spin_unlock, TypeOK, OwnTask
  <2>4. ServedInOrder' /\ HandedToOne'
    BY <1>0, <1>1, <1>5, <2>1, <2>2
       DEF ApUnlock, spin_unlock, TypeOK, ServedInOrder, HandedToOne
  <2>5. QED
    BY <2>3, <2>4
<1>6. CASE ApEnable(c)
  <2>1. Starting' = Starting
    BY <1>0, <1>6 DEF ApEnable, Starting, TypeOK
  <2>2. TypeOK' /\ OwnTask'
    BY <1>6 DEF ApEnable, TypeOK, OwnTask
  <2>3. ServedInOrder' /\ HandedToOne'
    BY <1>0, <1>6, <2>1 DEF ApEnable, TypeOK, ServedInOrder, HandedToOne
  <2>4. QED
    BY <2>2, <2>3
<1>7. QED
  BY <1>2, <1>3, <1>4, <1>5, <1>6

(* HandOverInv is inductive.                                               *)
LEMMA NextHandOver == HandOverInv /\ [Next]_vars => HandOverInv'
<1> SUFFICES ASSUME HandOverInv, [Next]_vars PROVE HandOverInv'
  OBVIOUS
<1>1. CASE UNCHANGED vars
  BY <1>1 DEF vars, HandOverInv, TypeOK, ServedInOrder, HandedToOne, OwnTask,
              LastSent, Starting
<1>2. CASE BspNext
  BY <1>2, BspHandOver, CounterHandOver DEF BspNext
<1>3. ASSUME NEW c \in APs, ApNext(c) PROVE HandOverInv'
  BY <1>3, ApHandOver, CounterHandOver DEF ApNext
<1>4. QED
  BY <1>1, <1>2, <1>3 DEF Next

(* What is handed over reaches the processor it is meant for.              *)
THEOREM HandOverInvariant == Spec => []HandOverInv
  BY InitHandOver, NextHandOver, PTL DEF Spec

(* Every processor runs on its own stack and is the idle task of its own   *)
(* run queue, with however many processors there are.                      *)
THEOREM EachOnItsOwnStack == Spec => []OwnStack
<1>1. HandOverInv => OwnStack
  BY DEF HandOverInv, OwnTask, OwnStack
<1>2. QED
  BY <1>1, HandOverInvariant, PTL

(* The processors come up one at a time and in order, behind the lock.     *)
THEOREM OneComesUpAtATime == Spec => []BootInv
<1>1. HandOverInv => Cardinality(Starting) <= 1
  <2> SUFFICES ASSUME HandOverInv PROVE Cardinality(Starting) <= 1
    OBVIOUS
  <2>1. Starting \in SUBSET {LastSent}
    BY DEF HandOverInv, HandedToOne
  <2>2. IsFiniteSet({LastSent}) /\ Cardinality({LastSent}) = 1
    BY FS_Singleton
  <2>3. QED
    BY <2>1, <2>2, FS_Subset
<1>2. HandOverInv => BootInv
  <2> SUFFICES ASSUME HandOverInv PROVE BootInv
    OBVIOUS
  <2>1. TypeOK /\ Cardinality(Starting) <= 1
    BY <1>1 DEF HandOverInv
  <2>2. SMP_lock = 1 => pc[0] \notin {"prepare", "ipi"}
    BY DEF HandOverInv, ServedInOrder
  <2>3. ASSUME NEW c \in Starting, NEW d \in 1 .. c - 1
        PROVE  SMP_lock = 0 /\ d \in started \ Starting
    <3>1. c = LastSent /\ SMP_lock = 0 /\ started = 1 .. LastSent /\ LastSent \in Int
      BY DEF HandOverInv, HandedToOne, ServedInOrder, LastSent, TypeOK
    <3>2. d # LastSent /\ d \in started
      BY <3>1
    <3>3. QED
      BY <3>1, <3>2 DEF HandOverInv, HandedToOne
  <2>4. \A c \in Starting : SMP_lock = 0
    BY DEF HandOverInv, HandedToOne
  <2>5. QED
    BY <2>1, <2>2, <2>3, <2>4 DEF BootInv, OneAtATime
<1>3. QED
  BY <1>2, HandOverInvariant, PTL
=============================================================================
