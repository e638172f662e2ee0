----------------------------- MODULE SlabCache ------------------------------
(***************************************************************************)
(* Object caches of any size beside those of kmalloc: slab_create,         *)
(* slab_malloc, slab_free and slab_destory (mm/slab.c).  A cache is a pool *)
(* as in Kmalloc; its struct Slab_cache, and the struct and the bitmap of  *)
(* each of its slabs, are objects kmalloc hands out, so that every call    *)
(* may fail half way and take or give back slabs of other pools.           *)
(***************************************************************************)
EXTENDS Kmalloc

CONSTANTS StructCache,   \* the class kmalloc takes for a struct Slab_cache
          FreesReturning \* whether callers free only where slab_free returns

ASSUME SlabCacheAssumption == StructCache \in Small /\ FreesReturning \in BOOLEAN

VARIABLES cache,  \* the struct Slab_cache of each created pool, or NoObject
          looping \* pools in which a slab_free does not return

slabVars == <<heap, live, astray, cache, looping>>

SlabInit ==
  /\ kmalloc_slab_init
  /\ cache = [c \in Created |-> NoObject]
  /\ looping = {}

\* Mutated: the struct Slab_cache is kept when there is no slab.
WithSlab_kept(h, c, self) ==
  {IF new.slab \in {NoObject, Wild} THEN [heap |-> new.heap, self |-> new.slab]
   ELSE [heap |-> [new.heap EXCEPT !.pool[c] = <<new.slab>>,
                                   !.total_free[c] = new.slab.free_count],
         self |-> self] : new \in GetNewSlab(h, c)}

\* slab_create from the second step on: the first slab, or failure.
WithSlab(h, c, self) ==
  {IF new.slab = NoObject
   THEN [heap |-> KfreeSmall(new.heap, self), self |-> NoObject]
   ELSE IF new.slab = Wild THEN [heap |-> new.heap, self |-> Wild]
   ELSE [heap |-> [new.heap EXCEPT !.pool[c] = <<new.slab>>,
                                   !.total_free[c] = new.slab.free_count],
         self |-> self] : new \in GetNewSlab(h, c)}

slab_create(c) ==
  /\ cache[c] = NoObject
  /\ Cardinality(live) < MaxObjects
  /\ \E struct \in KmallocSmall(heap, StructCache) :
     \E new \in IF struct.obj \in {NoObject, Wild}
                THEN {[heap |-> struct.heap, self |-> struct.obj]}
                ELSE WithSlab(struct.heap, c, struct.obj) :
       /\ heap' = new.heap
       /\ astray' = (new.self = Wild)
       /\ IF new.self \in {NoObject, Wild} THEN UNCHANGED <<cache, live>>
          ELSE /\ cache' = [cache EXCEPT ![c] = new.self]
               /\ live' = live \cup {new.self}
  /\ UNCHANGED looping

\* The heap when the first slab of the cache was destroyed as often as it
\* had slabs.
WithoutSlabs(h, c) ==
  LET after[n \in 0 .. Len(h.pool[c])] ==
        IF n = 0 THEN h ELSE DestroySlab(after[n - 1], c, 1)
  IN after[Len(h.pool[c])]

(* slab_destory of an empty cache: all its slabs, then the struct.         *)
slab_destory(c) ==
  /\ cache[c] # NoObject
  /\ heap.total_using[c] = 0
  /\ heap' = KfreeSmall(WithoutSlabs(heap, c), cache[c])
  /\ live' = live \ {cache[c]}
  /\ cache' = [cache EXCEPT ![c] = NoObject]
  /\ UNCHANGED <<looping, astray>>

\* A new slab is linked behind the first one.
Link(h, c, slab) ==
  [h EXCEPT !.pool[c] = InsertAt(@, 2, slab), !.total_free[c] = @ + slab.color_count]

\* slab_malloc of a cache that counts no free object: from a new slab, whose
\* bitmap get_new_Slab has cleared.
MallocNew(h, c) ==
  {IF new.slab \in {NoObject, Wild} THEN [heap |-> new.heap, obj |-> new.slab]
   ELSE DoSlabMalloc(Link(new.heap, c, new.slab), c, 2) : new \in GetNewSlab(h, c)}

(* slab_malloc.                                                            *)
slab_malloc(c) ==
  /\ cache[c] # NoObject
  /\ Cardinality(live) < MaxObjects
  /\ \E new \in IF heap.total_free[c] = 0 THEN MallocNew(heap, c)
                 ELSE {DoSlabMalloc(heap, c, SlabWithFree(heap.pool[c]))} :
       /\ heap' = new.heap
       /\ live' = IF new.obj \in {NoObject, Wild} THEN live ELSE live \cup {new.obj}
       /\ astray' = (new.obj = Wild)
  /\ UNCHANGED <<cache, looping>>

\* Condition 4 of slab_free, after the object was released.
Surplus(h, c, i) ==
  /\ h.pool[c][i].using_count = 0
  /\ h.total_free[c] >= (h.pool[c][i].color_count * 3) \div 2

\* slab_free goes on with the slab it has just worked on, until that is the
\* first one: it leaves the loop only if it is and stays.
Returns(h, c, i) == i = 1 /\ ~Surplus(h, c, i)

(* slab_free.  Where it does not return, the first turn of its loop is     *)
(* what there is to say.                                                   *)
slab_free(c, obj) ==
  LET i == Home(heap, obj).slab
      h == Release(heap, c, i, obj[2])
  IN /\ Home(heap, obj).cache = c
     /\ heap' = h
     /\ live' = live \ {obj}
     /\ IF Returns(h, c, i) THEN UNCHANGED looping
        ELSE ~FreesReturning /\ looping' = looping \cup {c}
     /\ UNCHANGED <<cache, astray>>

\* Objects their holders give to kfree: not those of a cache, nor its struct.
Kmallocd ==
  {obj \in live : Home(heap, obj).cache \notin Created
                   /\ obj \notin {cache[c] : c \in Created}}

\* A call that does not return, or that has gone astray, is the end of what
\* is modelled.
SlabNext ==
  /\ looping = {} /\ ~astray
  /\ \/ \E c \in Created :
          \/ slab_create(c) \/ slab_destory(c) \/ slab_malloc(c)
          \/ \E obj \in live : slab_free(c, obj)
     \/ /\ \/ \E c \in Caches \ Created : kmalloc(c)
           \/ \E obj \in Kmallocd : kfree(obj)
        /\ UNCHANGED <<cache, looping>>

SlabSpec == SlabInit /\ [][SlabNext]_slabVars

-----------------------------------------------------------------------------
(* slab_free comes back to its caller (slab.c:223, "0 = failure, 1 =       *)
(* success").  The code does not keep this for an object that is not in    *)
(* the first slab, or that is the last in use of a slab to spare.          *)
SlabFreeReturns == looping = {}
=============================================================================
