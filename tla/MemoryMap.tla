----------------------------- MODULE MemoryMap ------------------------------
(***************************************************************************)
(* From the firmware's memory map to the page allocator and the page       *)
(* tables.  The UEFI loader turns the firmware's descriptors into an E820  *)
(* table and sorts it (UEFIbootloader/BootLoader.c); init_memory makes     *)
(* zones and a bitmap of it, kmalloc_slab_init takes the pages of the      *)
(* first slabs (mm/mm.c, mm/slab.c); then the linear mapping of head.S is  *)
(* completed, by three functions of which each makes the tables it misses  *)
(* (debug/printk.c, mm/mm.c, device/pic/APIC.c).  From then on pages are   *)
(* allocated and freed, as PageAllocator says.                             *)
(*                                                                         *)
(* Addresses of the memory map are in units, a fraction of a 2MB page.     *)
(* Everything before the allocator is in use is one call after the other   *)
(* on the boot processor.                                                  *)
(***************************************************************************)
EXTENDS PageAllocator, SequencesExt

CONSTANTS PAGE,          \* units of a 2MB page
          Maps,          \* the maps firmware may give: sequences of
                         \* [type, start, length], in units
          EndPages,      \* pages in which the kernel with its memory
                         \* management structures may end
          Pools,         \* pools of kmalloc, 16 in the code
          GIG,           \* entries of a page directory table, 512
          Gigs,          \* such tables of the linear mapping
          FourGB,        \* the page at that address
          Early,         \* pages head.S maps to themselves
          EarlyWindow,   \* first of the pages it maps to the frame buffer
          FrameBuffer,   \* pages of the frame buffer
          IOAPIC,        \* the page of the I/O APIC's registers
          Absent, Junk   \* an entry that is not present; one never written

\* The types of UEFI, as the loader turns them into those of E820.
MemType(type) ==
  CASE type \in {"EfiReservedMemoryType", "EfiMemoryMappedIO",
                 "EfiMemoryMappedIOPortSpace", "EfiPalCode"} -> 2
    [] type = "EfiUnusableMemory" -> 5
    [] type = "EfiACPIReclaimMemory" -> 3
    [] type \in {"EfiLoaderCode", "EfiLoaderData", "EfiBootServicesCode",
                 "EfiBootServicesData", "EfiRuntimeServicesCode",
                 "EfiRuntimeServicesData", "EfiConventionalMemory",
                 "EfiPersistentMemory"} -> 1
    [] type = "EfiACPIMemoryNVS" -> 4
    [] OTHER -> 0

Extent(d)    == d.start .. d.start + d.length - 1
Units(p)     == p * PAGE .. (p + 1) * PAGE - 1
PageOf(g, s) == g * GIG + s
Slots        == 0 .. GIG - 1
Entry(page, cached) == [page |-> page, cached |-> cached]

Covered(table, t) ==
  UNION {Extent(table[i]) : i \in {n \in DOMAIN table : table[n].type = t}}

Typed(map) == [i \in DOMAIN map |-> [map[i] EXCEPT !.type = MemType(@)]]
Ram(map)   == Covered(Typed(map), 1)

\* The pages kmalloc_slab_init takes for the slabs when its structs end in
\* page `last`: one for each pool the third loop comes to, which goes on with
\* the index of the second one.
PoolPages(last) == {last + i + 1 : i \in last + 1 .. Pools - 1}

\* All the pages the kernel may take before it allocates any.
KernelPages ==
  UNION {1 .. last \cup PoolPages(last) : last \in EndPages \cup {e + 1 : e \in EndPages}}

FB_first == CHOOSE p \in FrameBuffer : \A q \in FrameBuffer : p <= q

\* The firmware's map has no overlaps.
ASSUME MemoryMapAssumption ==
  /\ PAGE \in Nat \ {0} /\ Pools \in Nat /\ EndPages \subseteq Nat
  /\ \A map \in Maps :
       /\ map \in Seq([type : STRING, start : Nat, length : Nat])
       /\ \A i, j \in DOMAIN map :
            i # j => Extent(map[i]) \cap Extent(map[j]) = {}

(* The machine is one the kernel can run on: the pages it takes lie in one *)
(* range of RAM, below anything unusable, and page 0 is no whole page of   *)
(* RAM, as on a PC, where there is a hole below 1MB.                       *)
ASSUME KernelAssumption ==
  \A map \in Maps :
    /\ \E i \in DOMAIN map :
         /\ MemType(map[i].type) = 1
         /\ \A p \in KernelPages : Units(p) \subseteq Extent(map[i])
    /\ \A u \in Units(1), v \in Covered(Typed(map), 5) : u < v
    /\ ~(Units(0) \subseteq Ram(map))

(* head.S maps the pages the kernel takes, and a window as large as the    *)
(* frame buffer.  This lies within one page directory table, as a PCI      *)
(* device aligned to its size does.  Devices are no RAM, nor is the end of *)
(* the first 4GB, where a PC has its BIOS.                                 *)
ASSUME MappingAssumption ==
  /\ GIG \in Nat \ {0} /\ FourGB \in Nat \ {0, 1} /\ EarlyWindow \in Nat
  /\ Gigs \subseteq Nat /\ {p \div GIG : p \in 0 .. FourGB - 1} \subseteq Gigs
  /\ KernelPages \subseteq Early /\ Early \subseteq Slots
  /\ FrameBuffer \subseteq Nat /\ IOAPIC \in Nat
  /\ \A p \in FrameBuffer : EarlyWindow + p - FB_first \in Slots \ Early
  /\ \A p, q \in FrameBuffer : p \div GIG = q \div GIG
  /\ FrameBuffer \cap (Early \cup {IOAPIC}) = {}
  /\ \A p \in FrameBuffer \cup {IOAPIC} : p \div GIG \in Gigs
  /\ \A map \in Maps :
       /\ \A p \in FrameBuffer \cup {IOAPIC} : ~(Units(p) \subseteq Ram(map))
       /\ FourGB * PAGE - 1 \notin Ram(map)
  /\ NULL \notin [Slots -> [page : Nat, cached : BOOLEAN] \cup {Absent, Junk}]

VARIABLES stage,        \* what is called next
          firmware,     \* descriptors the loader has not converted yet
          given,        \* history: the units of each type in the whole map
          e820,         \* the table it makes, later that of the kernel
          LastEndAddr,
          sorting,      \* i and j of its sort
          entry,        \* i of the loop of init_memory that makes zones
          end_of_struct,\* the page in which the kernel's memory ends
          pdt,          \* the page directory tables, NULL where there is none
          FB_addr       \* first of the pages the console writes to

boot    == <<firmware, given, e820, LastEndAddr, sorting, entry>>
mapping == <<pdt, FB_addr>>
pages   == <<mms, bits_map, page_free_count, page_using_count>>
calls   == <<call, held, answer>>
allVars == <<stage, boot, end_of_struct, mapping, pages, calls>>

\* The table head.S holds: pages mapped to themselves, then the window onto
\* the frame buffer.
EarlyTable ==
  [s \in Slots |->
     IF s \in Early THEN Entry(s, TRUE)
     ELSE IF s - EarlyWindow + FB_first \in FrameBuffer
     THEN Entry(s - EarlyWindow + FB_first, TRUE)
     ELSE Absent]

MapInit ==
  /\ stage = "convert"
  /\ firmware \in Maps
  /\ given = [t \in 1 .. 5 |-> Covered(Typed(firmware), t)]
  /\ e820 = <<>>
  /\ LastEndAddr = 0
  /\ sorting = <<1, 2>>
  /\ entry = 1
  /\ end_of_struct \in EndPages
  /\ pdt = [g \in Gigs |-> IF g = 0 THEN EarlyTable ELSE NULL]
  /\ FB_addr = EarlyWindow
  /\ Ready([bits |-> 0, zones |-> <<>>, kernel |-> {}, ZONE_UNMAPED_INDEX |-> 1])

-----------------------------------------------------------------------------
(* One turn of the loader's loop: the descriptor is skipped, lengthens the *)
(* entry before it, or becomes an entry.                                   *)
Converting ==
  /\ stage = "convert" /\ firmware # <<>>
  /\ firmware' = Tail(firmware)
  /\ UNCHANGED <<stage, given, sorting, entry, end_of_struct, mapping, pages,
                 calls>>

Valid(d) == d.length # 0 /\ MemType(d.type) # 0

SkipDescriptor ==
  /\ Converting
  /\ ~Valid(Head(firmware))
  /\ UNCHANGED <<e820, LastEndAddr>>

\* Mutated: the entry is lengthened although the descriptor lies elsewhere.
Continues_type(d) == e820 # <<>> /\ Last(e820).type = MemType(d.type)

Continues(d) ==
  /\ e820 # <<>> /\ Last(e820).type = MemType(d.type)
  /\ d.start = LastEndAddr

MergeDescriptor ==
  LET d == Head(firmware)
  IN /\ Converting
     /\ Valid(d) /\ Continues(d)
     /\ e820' = [e820 EXCEPT ![Len(e820)].length = @ + d.length]
     /\ LastEndAddr' = LastEndAddr + d.length

NewEntry ==
  LET d == Head(firmware)
  IN /\ Converting
     /\ Valid(d) /\ ~Continues(d)
     /\ e820' = Append(e820, [d EXCEPT !.type = MemType(@)])
     /\ LastEndAddr' = d.start + d.length

Converted ==
  /\ stage = "convert" /\ firmware = <<>>
  /\ stage' = "sort"
  /\ UNCHANGED <<boot, end_of_struct, mapping, pages, calls>>

(* One comparison of the exchange sort.                                    *)
SortStep ==
  LET i == sorting[1]
      j == sorting[2]
  IN /\ stage = "sort"
     /\ IF i > Len(e820)
        THEN stage' = "init_memory" /\ UNCHANGED <<e820, sorting>>
        ELSE IF j > Len(e820)
        THEN sorting' = <<i + 1, i + 2>> /\ UNCHANGED <<stage, e820>>
        ELSE /\ sorting' = <<i, j + 1>>
             /\ e820' = IF e820[i].start > e820[j].start
                        THEN [e820 EXCEPT ![i] = e820[j], ![j] = e820[i]]
                        ELSE e820
             /\ UNCHANGED stage
     /\ UNCHANGED <<firmware, given, LastEndAddr, entry, end_of_struct, mapping,
                    pages, calls>>

-----------------------------------------------------------------------------
\* The entries init_memory reads: the first, and those behind it as long as
\* they are of type 1-4.
Read ==
  LET invalid == {i \in DOMAIN e820 : i > 1 /\ e820[i].type \notin 1 .. 4}
  IN IF invalid = {} THEN e820 ELSE SubSeq(e820, 1, Min(invalid) - 1)

\* Mutated: the start is rounded down.
WholePages_down(e) ==
  [start |-> e.start \div PAGE, end |-> (e.start + e.length) \div PAGE]

\* Both ends of an entry are rounded to pages, inwards.
WholePages(e) ==
  [start |-> (e.start + PAGE - 1) \div PAGE, end |-> (e.start + e.length) \div PAGE]

(* init_memory: the bitmap reaches to the end of the last entry, in whole  *)
(* words, all of them set.                                                 *)
init_memory ==
  LET phymmend == Last(Read).start + Last(Read).length
      bits     == ((phymmend \div PAGE + WORD - 1) \div WORD) * WORD
  IN /\ stage = "init_memory"
     /\ mms' = [mms EXCEPT !.bits = bits]
     /\ bits_map' = 0 .. bits - 1
     /\ stage' = "zones"
     /\ UNCHANGED <<boot, end_of_struct, mapping, page_free_count,
                    page_using_count, calls>>

(* One turn of its loop over the entries: whole pages of RAM make a zone,  *)
(* whose bits are inverted.                                                *)
InitZone ==
  LET z == WholePages(e820[entry])
  IN /\ stage = "zones" /\ entry <= Len(Read)
     /\ entry' = entry + 1
     /\ IF e820[entry].type = 1 /\ z.end > z.start
        THEN /\ mms' = [mms EXCEPT !.zones = Append(@, z)]
             /\ bits_map' = SymDiff(bits_map, z.start .. z.end - 1)
             /\ page_free_count' = Append(page_free_count, z.end - z.start)
             /\ page_using_count' = Append(page_using_count, 0)
        ELSE UNCHANGED pages
     /\ UNCHANGED <<stage, firmware, given, e820, LastEndAddr, sorting,
                    end_of_struct, mapping, calls>>

\* Pages the kernel takes: the bits are set, and each page counts for its
\* own zone.
Take(taken) ==
  LET Own(i) == Cardinality(ZonePages(i) \cap taken)
  IN /\ bits_map' = bits_map \cup taken
     /\ page_free_count' = [i \in DOMAIN Zones |-> page_free_count[i] - Own(i)]
     /\ page_using_count' = [i \in DOMAIN Zones |-> page_using_count[i] + Own(i)]

(* The end of init_memory: the first zone above 4GB, and the pages up to   *)
(* the one in which the kernel ends, except page 0, which is in no zone.   *)
InitKernelPages ==
  LET kernel == 1 .. end_of_struct
      above  == {i \in DOMAIN Zones \ {1} : Zones[i].start >= FourGB}
  IN /\ stage = "zones" /\ entry > Len(Read)
     /\ mms' = [mms EXCEPT !.kernel = kernel,
          !.ZONE_UNMAPED_INDEX = IF above = {} THEN 1 ELSE Min(above)]
     /\ Take(kernel)
     /\ stage' = "slab"
     /\ UNCHANGED <<boot, end_of_struct, mapping, calls>>

(* The structs of kmalloc's first slabs may reach into the next page.      *)
kmalloc_slab_init ==
  /\ stage = "slab"
  /\ \E last \in end_of_struct .. end_of_struct + 1 :
       LET taken == end_of_struct + 1 .. last \cup PoolPages(last)
       IN /\ end_of_struct' = last
          /\ mms' = [mms EXCEPT !.kernel = @ \cup taken]
          /\ Take(taken)
  /\ stage' = "frame_buffer"
  /\ UNCHANGED <<boot, mapping, calls>>

-----------------------------------------------------------------------------
\* Pages mapped to themselves.  A table that is missing comes from kmalloc,
\* with every entry as `fresh` says.
Mapped(P, cached, fresh) ==
  [g \in Gigs |->
     IF \A s \in Slots : PageOf(g, s) \notin P THEN pdt[g]
     ELSE [s \in Slots |-> IF PageOf(g, s) \in P THEN Entry(PageOf(g, s), cached)
                           ELSE IF pdt[g] = NULL THEN fresh
                           ELSE pdt[g][s]]]

\* Mutated: the console goes on writing to the old window.
frame_buffer_init_window ==
  /\ stage = "frame_buffer"
  /\ pdt' = Mapped(FrameBuffer, FALSE, Absent)
  /\ stage' = "pagetable"
  /\ UNCHANGED <<boot, end_of_struct, FB_addr, pages, calls>>

(* frame_buffer_init clears a table it makes.  FrameBuffer may have any    *)
(* number of pages: the 3MB Pos starts with (printk.c:30) take two, the    *)
(* 1440 x 900 of init_Pos three.  That YPosition is set to 0 is left out:  *)
(* the cursor is no part of the tables.                                    *)
frame_buffer_init ==
  /\ stage = "frame_buffer"
  /\ pdt' = Mapped(FrameBuffer, FALSE, Absent)
  /\ FB_addr' = FB_first
  /\ stage' = "pagetable"
  /\ UNCHANGED <<boot, end_of_struct, pages, calls>>

\* The zones pagetable_init gets to.
Reached ==
  {i \in DOMAIN Zones : mms.ZONE_UNMAPED_INDEX # 1 => i < mms.ZONE_UNMAPED_INDEX}

(* pagetable_init does not clear the tables it makes.                      *)
pagetable_init ==
  /\ stage = "pagetable"
  /\ pdt' = Mapped(UNION {ZonePages(i) : i \in Reached}, TRUE, Junk)
  /\ stage' = "IOAPIC"
  /\ UNCHANGED <<boot, end_of_struct, FB_addr, pages, calls>>

(* Nor does IOAPIC_pagetable_remap.                                        *)
IOAPIC_pagetable_remap ==
  /\ stage = "IOAPIC"
  /\ pdt' = Mapped({IOAPIC}, FALSE, Junk)
  /\ stage' = "up"
  /\ UNCHANGED <<boot, end_of_struct, FB_addr, pages, calls>>

(* The kernel runs: calls of alloc_pages and free_pages.                   *)
Allocate ==
  /\ stage = "up"
  /\ Next
  /\ UNCHANGED <<stage, boot, end_of_struct, mapping>>

MapNext ==
  \/ SkipDescriptor \/ MergeDescriptor \/ NewEntry \/ Converted \/ SortStep
  \/ init_memory \/ InitZone \/ InitKernelPages \/ kmalloc_slab_init
  \/ frame_buffer_init \/ pagetable_init \/ IOAPIC_pagetable_remap
  \/ Allocate

MapSpec == MapInit /\ [][MapNext]_allVars

-----------------------------------------------------------------------------
Ordered(table) ==
  \A i \in DOMAIN table : i > 1 =>
    table[i - 1].start + table[i - 1].length <= table[i].start

(* The loader loses nothing: the entries made so far and the descriptors   *)
(* still to come hold the units of each type the firmware gave, each once, *)
(* through merging and every exchange of the sort; what the kernel is      *)
(* given is in the order of addresses, which init_memory relies on when it *)
(* takes the end of the last entry for the end of memory.                  *)
MapKept ==
  /\ \A t \in 1 .. 5 :
       Covered(e820, t) \cup Covered(Typed(firmware), t) = given[t]
  /\ \A i, j \in DOMAIN e820 : i # j => Extent(e820[i]) \cap Extent(e820[j]) = {}
  /\ stage \notin {"convert", "sort"} => Ordered(e820)

(* Only memory is handed out: a page whose bit is clear, or that is in     *)
(* use, is entirely RAM in the map the firmware gave, and not one of those *)
(* that hold the kernel, its structures or the slabs of kmalloc.           *)
HandsOutRam ==
  \A p \in (PageIds \ bits_map) \cup HeldPages :
    /\ Units(p) \subseteq given[1]
    /\ stage # "zones" => p \notin 0 .. end_of_struct \cup mms.kernel

Translation(p) ==
  LET table == pdt[p \div GIG] IN IF table = NULL THEN Absent ELSE table[p % GIG]

Identity(p, cached) == Translation(p) = Entry(p, cached)

(* What the kernel touches is mapped when it touches it: the console's     *)
(* pages lead to the frame buffer at every stage, although the tables are  *)
(* rewritten under them; the slabs' pages are in use before pagetable_init *)
(* maps them; later every page of a zone the kernel allocates from for     *)
(* itself is there, cached, and the devices are there, not cached.         *)
KernelMapped ==
  /\ \A p \in FrameBuffer :
       /\ Translation(FB_addr + p - FB_first) \in {Entry(p, TRUE), Entry(p, FALSE)}
       /\ stage \in {"pagetable", "IOAPIC", "up"} => Identity(p, FALSE)
  /\ \A p \in mms.kernel : Identity(p, TRUE)
  /\ stage \in {"IOAPIC", "up"} =>
       \A i \in ZoneRange("ZONE_NORMAL") \cup Reached : \A p \in ZonePages(i) :
         Identity(p, TRUE)
  /\ stage = "up" => Identity(IOAPIC, FALSE)

(* A page the kernel has mapped nothing to cannot be reached.  The code    *)
(* does not keep this: only frame_buffer_init clears its new tables.       *)
NothingElseMapped ==
  \A g \in Gigs : pdt[g] # NULL => \A s \in Slots : pdt[g][s] # Junk
=============================================================================
