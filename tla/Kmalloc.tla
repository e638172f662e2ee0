------------------------------- MODULE Kmalloc -------------------------------
(***************************************************************************)
(* kmalloc and kfree (mm/mm.c, mm/slab.c): pools of objects of one size,   *)
(* each pool a list of slabs, each slab one page with a bitmap.            *)
(*                                                                         *)
(* The slab of a small size class keeps its struct Slab and its bitmap in  *)
(* its own page.  Those of a large class are objects of small classes:     *)
(* kmalloc and kfree call themselves for them, and a call can fail with    *)
(* some of them taken.                                                     *)
(*                                                                         *)
(* Calls are functions from one state of the heap to the next: the kernel  *)
(* calls kmalloc and kfree from task code of the boot processor only.  An  *)
(* operator that calls alloc_pages or reads uninitialised memory returns   *)
(* the set of its outcomes.                                                *)
(***************************************************************************)
EXTENDS Integers, Sequences, FiniteSets, SequencesExt, FiniteSetsExt

CONSTANTS Caches,       \* the size classes: 1 .. n, by growing size
          Small,        \* those of at most 512 bytes
          Created,      \* those slab_create makes, at their numbers' end
          Missing,      \* the class of 65536, which kmalloc_create forgets
          Unplaced,     \* classes whose first slab is given no page at boot
          Capacity,     \* objects of a class that fit in a page
          SmallCapacity,\* the same, beside the struct Slab and the bitmap
          HeaderCache,  \* the class kmalloc takes for a struct Slab
          MapCache,     \* the class kmalloc takes for a bitmap, by class
          Pages,        \* the pages free when kmalloc_slab_init is done
          MaxObjects,   \* bound: objects handed out at a time
          NoObject,     \* NULL, for an object or a slab
          Wild          \* no answer that means anything: see KmallocSmall

(* Slabs of large classes are described by objects of small ones, and a    *)
(* struct Slab is kept inside a page at the cost of some objects.          *)
ASSUME KmallocAssumption ==
  /\ IsFiniteSet(Caches) /\ Caches = 1 .. Cardinality(Caches)
  /\ Small \subseteq Caches /\ Missing \subseteq Caches \ Small
  /\ Created \subseteq Caches \ (Small \cup Missing)
  /\ Unplaced \subseteq Caches
  /\ Capacity \in [Caches -> Nat \ {0}]
  /\ SmallCapacity \in [Small -> Nat \ {0}]
  /\ \A c \in Small : SmallCapacity[c] < Capacity[c]
  /\ HeaderCache \in Small
  /\ MapCache \in [Caches \ (Small \cup Missing) -> Small]
  /\ IsFiniteSet(Pages) /\ \A p \in Pages : p \in Nat /\ p > Cardinality(Caches)
  /\ MaxObjects \in Nat
  /\ NoObject # Wild
  /\ {NoObject, Wild} \cap (Nat \X Nat) = {}
  /\ \A s \in {NoObject, Wild} :
       s \notin [page : Nat, using_count : Nat, free_count : Nat, color_count : Nat,
                 color_map : SUBSET Nat, header : Nat \X Nat, map : Nat \X Nat]

VARIABLES heap,  \* pools with their totals, and the pages that are free
          live,  \* history: the objects callers hold
          astray \* history: did a call go on with a pointer without meaning

\* An object is named by the page of its slab and its index there.  The
\* first object of page 0 has address 0.
Address(page, j) == IF <<page, j>> = <<0, 0>> THEN NoObject ELSE <<page, j>>

Bits(n) == 0 .. n - 1

\* A struct Slab; `header` and `map` are the objects of small classes that
\* hold it and its bitmap, if they are such objects.
Slab(page, count, map_bits, header, map) ==
  [page |-> page, using_count |-> 0, free_count |-> count,
   color_count |-> count, color_map |-> map_bits, header |-> header,
   map |-> map]

-----------------------------------------------------------------------------
(* __do_slab_malloc: the first clear bit of slab i of pool c.              *)
DoSlabMalloc(h, c, i) ==
  LET slab  == h.pool[c][i]
      clear == Bits(slab.color_count) \ slab.color_map
      j     == Min(clear)
  IN IF clear = {}
     THEN [heap |-> h, obj |-> NoObject]
     ELSE [heap |-> [h EXCEPT
             !.pool[c][i].color_map = @ \cup {j},
             !.pool[c][i].using_count = @ + 1,
             !.pool[c][i].free_count = @ - 1,
             !.total_using[c] = @ + 1,
             !.total_free[c] = @ - 1],
           obj |-> Address(slab.page, j)]

(* The slab kmalloc settles on when the pool counts a free object: the     *)
(* first with one, or the first of all when the walk has come around.      *)
SlabWithFree(pool) ==
  LET free == {i \in DOMAIN pool : pool[i].free_count # 0}
  IN IF free = {} THEN 1 ELSE Min(free)

(* kmalloc links a new slab before the first one, at the end of the ring,  *)
(* and takes an object from it.                                            *)
LinkAndMalloc(h, c, slab) ==
  DoSlabMalloc([h EXCEPT !.pool[c] = Append(@, slab),
                         !.total_free[c] = @ + slab.color_count],
               c, Len(h.pool[c]) + 1)

\* alloc_pages(ZONE_NORMAL, 1, 0) takes the first free page.
WithoutPage(h) == [h EXCEPT !.pages = @ \ {Min(@)}]

\* A call that leaves what the model can say of it, the heap being h then.
GoneAstray(h) == {[heap |-> h, obj |-> Wild]}

(* kmalloc for a small class.  Where no zone has a free page, alloc_pages  *)
(* ends without a return statement, and kmalloc_create writes through what *)
(* the register holds.  kmalloc_create also computes the length of the     *)
(* bitmap from the color_count it finds in the page: memset may reach any  *)
(* part of it, or run past the page.  What it does not reach keeps what    *)
(* was there.                                                              *)
KmallocSmall(h, c) ==
  IF h.total_free[c] # 0
  THEN {DoSlabMalloc(h, c, SlabWithFree(h.pool[c]))}
  ELSE IF h.pages = {} THEN GoneAstray(h)
  ELSE GoneAstray(WithoutPage(h)) \cup
       {LinkAndMalloc(WithoutPage(h), c,
          Slab(Min(h.pages), SmallCapacity[c], set, NoObject, NoObject)) :
            set \in SUBSET Bits(SmallCapacity[c])}

\* The cache and the slab an address is found in by kfree: pools are
\* searched in order for a slab with that page.
Home(h, obj) ==
  LET c == Min({d \in Caches : \E i \in DOMAIN h.pool[d] :
                                 h.pool[d][i].page = obj[1]})
  IN [cache |-> c,
      slab  |-> Min({i \in DOMAIN h.pool[c] : h.pool[c][i].page = obj[1]})]

\* Mutated: an unused slab is kept until there are two to spare.
Spare_two(h, c, i) ==
  /\ h.pool[c][i].using_count = 0
  /\ h.total_free[c] > h.pool[c][i].color_count * 2
  /\ i # 1

(* The slab i is unused, the pool has enough without it, and it is not the *)
(* first, which was never allocated.                                       *)
Spare(h, c, i) ==
  /\ h.pool[c][i].using_count = 0
  /\ h.total_free[c] >= (h.pool[c][i].color_count * 3) \div 2
  /\ i # 1

(* kfree up to the decision about the slab: the bit is inverted.           *)
Release(h, c, i, j) ==
  [h EXCEPT !.pool[c][i].color_map = SymDiff(@, {j}),
            !.pool[c][i].free_count = @ + 1,
            !.pool[c][i].using_count = @ - 1,
            !.total_free[c] = @ + 1,
            !.total_using[c] = @ - 1]

\* Mutated: the pool goes on counting the objects of the slab.
DropSlab_counted(h, c, i) ==
  [h EXCEPT !.pool[c] = RemoveAt(@, i),
            !.pages = @ \cup {h.pool[c][i].page}]

(* The slab leaves the list and the count; its page is free again.         *)
DropSlab(h, c, i) ==
  [h EXCEPT !.pool[c] = RemoveAt(@, i),
            !.total_free[c] = @ - h.pool[c][i].color_count,
            !.pages = @ \cup {h.pool[c][i].page}]

(* kfree of an object of a small class.                                    *)
KfreeSmall(h, obj) ==
  LET at == Home(h, obj)
      g  == Release(h, at.cache, at.slab, obj[2])
  IN IF Spare(g, at.cache, at.slab) THEN DropSlab(g, at.cache, at.slab) ELSE g

(* __do_Slab_destory, after total_free was reduced: bitmap, page, struct.  *)
DestroySlab(h, c, i) ==
  LET slab == h.pool[c][i]
  IN KfreeSmall(KfreeSmall(DropSlab(h, c, i), slab.map), slab.header)

(* kfree.  The switch on the size tells the small classes from the others. *)
KfreeAny(h, obj) ==
  LET at == Home(h, obj)
      g  == Release(h, at.cache, at.slab, obj[2])
  IN IF at.cache \in Small THEN KfreeSmall(h, obj)
     ELSE IF Spare(g, at.cache, at.slab) THEN DestroySlab(g, at.cache, at.slab)
     ELSE g

(* get_new_Slab from the third step on: the bitmap, and the way back.      *)
WithBitmap(h, header, page, c) ==
  {IF map.obj = NoObject
   THEN [heap |-> KfreeSmall([map.heap EXCEPT !.pages = @ \cup {page}], header),
         slab |-> NoObject]
   ELSE [heap |-> map.heap,
         slab |-> IF map.obj = Wild THEN Wild
                  ELSE Slab(page, Capacity[c], {}, header, map.obj)] :
     map \in KmallocSmall(h, MapCache[c])}

(* get_new_Slab: the struct, the page and the bitmap, and on the way back  *)
(* whatever was taken before the first failure.  The page, if there is     *)
(* none, is no failure it would notice: see KmallocSmall.                  *)
GetNewSlab(h, c) ==
  UNION {IF header.obj \in {NoObject, Wild}
         THEN {[heap |-> header.heap, slab |-> header.obj]}
         ELSE IF header.heap.pages = {} THEN {[heap |-> header.heap, slab |-> Wild]}
         ELSE WithBitmap(WithoutPage(header.heap), header.obj,
                         Min(header.heap.pages), c) :
           header \in KmallocSmall(h, HeaderCache)}

(* kmalloc for any class.                                                  *)
KmallocAny(h, c) ==
  IF c \in Small THEN KmallocSmall(h, c)
  ELSE IF h.total_free[c] # 0
  THEN {DoSlabMalloc(h, c, SlabWithFree(h.pool[c]))}
  ELSE IF c \in Missing THEN {[heap |-> h, obj |-> NoObject]}
  ELSE {IF new.slab \in {NoObject, Wild} THEN [heap |-> new.heap, obj |-> new.slab]
        ELSE LinkAndMalloc(new.heap, c, new.slab) : new \in GetNewSlab(h, c)}

-----------------------------------------------------------------------------
(* kmalloc_slab_init: one slab for each class, in static memory.  The loop *)
(* that gives the slabs their pages goes on with the index the loop before *)
(* it ended with: the classes below it keep Vaddress 0.                    *)
kmalloc_slab_init ==
  /\ heap = [pool |-> [c \in Caches |->
                        IF c \in Created THEN <<>>
                        ELSE <<Slab(IF c \in Unplaced THEN 0 ELSE c,
                                    Capacity[c], {}, NoObject, NoObject)>>],
             total_using |-> [c \in Caches |-> 0],
             total_free |-> [c \in Caches |-> IF c \in Created THEN 0 ELSE Capacity[c]],
             pages |-> Pages]
  /\ live = {}
  /\ astray = FALSE

kmalloc(c) ==
  /\ Cardinality(live) < MaxObjects
  /\ \E new \in KmallocAny(heap, c) :
       /\ heap' = new.heap
       /\ live' = IF new.obj \in {NoObject, Wild} THEN live ELSE live \cup {new.obj}
       /\ astray' = (new.obj = Wild)

kfree(obj) ==
  /\ heap' = KfreeAny(heap, obj)
  /\ live' = live \ {obj}
  /\ UNCHANGED astray

-----------------------------------------------------------------------------
Slabs(c) == {heap.pool[c][i] : i \in DOMAIN heap.pool[c]}
AllSlabs == UNION {Slabs(c) : c \in Caches}

\* The objects the slabs of the large classes are described with.
Described  == {s \in AllSlabs : s.header # NoObject}
Headers    == {s.header : s \in Described}
Bitmaps    == {s.map : s \in Described}
\* The first object of the class without a page, once it was taken: its
\* address is 0, and kmalloc returned NULL.
Lost       == {obj \in {<<0, 0>>} : \E s \in AllSlabs : s.page = obj[1] /\ obj[2] \in s.color_map}
InUse      == live \cup Headers \cup Bitmaps \cup Lost

PoolsTyped ==
  LET Objects == (Pages \cup Caches \cup {0}) \X Nat
      Slot    == Objects \cup {NoObject}
  IN /\ \A c \in Caches : \A s \in Slabs(c) :
          /\ s.page \in Pages \cup Caches \cup {0}
          /\ s.using_count \in Nat /\ s.free_count \in Nat
          /\ s.color_map \subseteq Bits(s.color_count)
          /\ s.header \in Slot /\ s.map \in Slot
     /\ heap.total_using \in [Caches -> Nat]
     /\ heap.total_free \in [Caches -> Nat]
     /\ heap.pages \subseteq Pages
     /\ live \subseteq Objects

\* Each object in use is in use for one thing, lies in a slab that exists,
\* with its bit set, and is counted there.
OneUseEach ==
  /\ Cardinality(InUse) = Cardinality(live) + 2 * Cardinality(Described) + Cardinality(Lost)
  /\ \A obj \in InUse : \E s \in AllSlabs :
       s.page = obj[1] /\ obj[2] \in s.color_map
  /\ \A s \in AllSlabs :
       s.using_count = Cardinality({obj \in InUse : obj[1] = s.page})

(* No object is handed out twice, whether to a caller or to describe a     *)
(* slab, and each lies in a slab that still exists, with its bit set: a    *)
(* slab counts as used exactly the objects on its page that are in use,    *)
(* whatever was in the page when kmalloc_create took it, and the one of    *)
(* address 0 once it was taken.  A call that fails half way because        *)
(* kmalloc answered NULL for a struct or a bitmap has kept nothing else.   *)
(* This holds until a call runs out of pages or its memset runs past the   *)
(* page, which is not a failure but the end of what can be said.           *)
UsedOnce == ~astray => OneUseEach

\* What the numbers of a sequence add up to.
Total(numbers) ==
  LET sum[i \in 0 .. Len(numbers)] == IF i = 0 THEN 0 ELSE sum[i - 1] + numbers[i]
  IN sum[Len(numbers)]

\* The counters kept in three places agree: of the slab, of the pool, and
\* the capacity.  total_free alone decides whether a slab is made.
CountersAgree ==
  \A c \in Caches :
    LET pool == heap.pool[c]
    IN /\ \A s \in Slabs(c) : s.using_count + s.free_count = s.color_count
       /\ heap.total_using[c] = Total([i \in DOMAIN pool |-> pool[i].using_count])
       /\ heap.total_free[c] = Total([i \in DOMAIN pool |-> pool[i].free_count])

\* A page is free or belongs to one slab, and none gets lost on the way back
\* from a failure or in a nested kfree.
PagesOwned ==
  /\ \A c, d \in Caches : \A i \in DOMAIN heap.pool[c], j \in DOMAIN heap.pool[d] :
       heap.pool[c][i].page = heap.pool[d][j].page => c = d /\ i = j
  /\ {s.page : s \in AllSlabs} \cap heap.pages = {}
  /\ Pages \subseteq {s.page : s \in AllSlabs} \cup heap.pages

(* The pools, their counters and the pages under them are sound after      *)
(* every sequence of calls, those included that fail half way because      *)
(* kmalloc answered NULL for a struct or a bitmap, until a call goes       *)
(* astray as in UsedOnce.                                                  *)
HeapInv == ~astray => PoolsTyped /\ CountersAgree /\ PagesOwned

(* Unused memory goes back: apart from the first slab a pool never keeps   *)
(* two that are unused (mm.c:644, "released when the slab is free and the  *)
(* pool has enough").                                                      *)
AtMostOneSpare ==
  ~astray => \A c \in Caches :
    Cardinality({i \in DOMAIN heap.pool[c] \ {1} :
                   heap.pool[c][i].using_count = 0}) <= 1

(* kmalloc fails only when there is no page for a new slab (mm.c:497,      *)
(* "as long as there is a page an object can be allocated").  The code     *)
(* does not keep this.                                                     *)
FailsOnlyWithoutPage ==
  ~astray => \A c \in Caches \ Created : \A new \in KmallocAny(heap, c) :
    new.obj = NoObject => heap.pages = {}

(* Every object a slab counts as used is in use (mm.c:580, kmalloc gives   *)
(* "the start of the memory it got").  The code does not keep this for the *)
(* first object of a class without a page: its address is NULL.            *)
NothingLost == Lost = {}
=============================================================================
