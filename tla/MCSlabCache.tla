---------------------------- MODULE MCSlabCache -----------------------------
(* Five pools.  Class 1 is the 32 bytes of a bitmap of class 3, and has no *)
(* page at boot; class 2 is the 128 bytes of a struct Slab; class 3 stands *)
(* for 1MB; class 4 for 65536, which has no case in kmalloc_create; pool 5 *)
(* is one slab_create makes.                                               *)
EXTENDS SlabCache

MCCapacity      == <<2, 3, 2, 1, 2>>
MCSmallCapacity == <<1, 2>>
MCMapCache      == [c \in {3, 5} |-> 1]
=============================================================================
