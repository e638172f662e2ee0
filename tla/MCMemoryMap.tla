---------------------------- MODULE MCMemoryMap -----------------------------
(* Firmware maps for MemoryMap: three machines, each with its descriptors  *)
(* in several orders.  A page is two units; the first one has a hole, as   *)
(* below 1MB on a PC, and is no zone's.                                    *)
EXTENDS MemoryMap

D(type, start, length) == [type |-> type, start |-> start, length |-> length]

\* Low memory, in which the kernel lies, up to page 5.
Low == <<D("EfiLoaderData", 1, 1), D("EfiConventionalMemory", 2, 10)>>

\* A zone of its own, whose first page two descriptors share.
Middle == <<D("EfiBootServicesData", 16, 1), D("EfiConventionalMemory", 17, 5)>>

\* Memory above 4GB, with a page that is no memory before it.
High == <<D("EfiACPIMemoryNVS", 46, 1), D("EfiRuntimeServicesData", 48, 4),
          D("EfiConventionalMemory", 57, 5)>>

Small  == Low \o <<D("EfiACPIReclaimMemory", 14, 1), D("EfiMemoryMappedIO", 30, 2)>>
Large  == Low \o <<D("Other", 15, 1)>> \o Middle \o High
Broken == Low \o Middle \o
            <<D("EfiConventionalMemory", 40, 0), D("EfiUnusableMemory", 52, 3)>> \o High

Rotated(s, n) == SubSeq(s, n + 1, Len(s)) \o SubSeq(s, 1, n)

\* Every order that follows the addresses, or goes against them, from any
\* descriptor on.
Orders(s) == {Rotated(t, n) : t \in {s, Reverse(s)}, n \in 0 .. Len(s) - 1}

Machines == Orders(Small) \cup Orders(Large) \cup Orders(Broken)
=============================================================================
