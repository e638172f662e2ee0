---------------------------- MODULE PageAllocator ----------------------------
(***************************************************************************)
(* The physical page allocator (mm/mm.c): the page bitmap and the zone     *)
(* counters as init_memory leaves them, alloc_pages and free_pages.        *)
(*                                                                         *)
(* alloc_pages takes no lock.  A call is cut where another processor can   *)
(* come between its parts with an effect: the scan of the bitmap, then the *)
(* marking of the pages it found one by one.                               *)
(***************************************************************************)
EXTENDS Integers, Sequences, FiniteSets

CONSTANTS Callers,            \* processors that call the allocator
          WORD,               \* bits of a bitmap word, 64 in the code
          MaxNumber,          \* bound: pages one request asks for
          NULL

ASSUME PageAllocatorAssumption ==
  /\ WORD \in Nat \ {0, 1}
  /\ MaxNumber \in 1 .. WORD - 1
  /\ NULL \notin Int

VARIABLES mms,              \* memory_management_struct: the zones as [start,
                            \* end) in pages, the bits of the bitmap, the
                            \* first zone above 4GB (1 if none), and history:
                            \* the pages the kernel took while it started
          bits_map,         \* the pages whose bit is set
          page_free_count,  \* of each zone
          page_using_count,
          call,             \* the alloc_pages call of each caller
          held,             \* history: the runs [page, number] handed out
          answer            \* history: what the last request got

vars == <<mms, bits_map, page_free_count, page_using_count, call, held, answer>>

Zones   == mms.zones
PageIds == 0 .. mms.bits - 1
ZonePages(i) == Zones[i].start .. Zones[i].end - 1
AllZonePages == UNION {ZonePages(i) : i \in DOMAIN Zones}

Run(page, n) == page .. page + n - 1
Idle == [at |-> "idle"]

ZoneOf(p) == CHOOSE i \in DOMAIN Zones : p \in ZonePages(i)

\* The zones a request may be served from: ZONE_DMA_INDEX and
\* ZONE_NORMAL_INDEX are both the first one.
ZoneRange(zone_select) ==
  IF zone_select = "ZONE_UNMAPED" THEN mms.ZONE_UNMAPED_INDEX .. Len(Zones)
                                  ELSE 1 .. 1

-----------------------------------------------------------------------------
\* What init_memory and kmalloc_slab_init leave behind: all bits set, those
\* of the zones clear, those of the kernel's pages set again.
Ready(m) ==
  /\ mms = m
  /\ bits_map = (PageIds \ AllZonePages) \cup m.kernel
  /\ page_free_count = [i \in DOMAIN Zones |-> Cardinality(ZonePages(i) \ m.kernel)]
  /\ page_using_count = [i \in DOMAIN Zones |-> Cardinality(ZonePages(i) \cap m.kernel)]
  /\ call = [c \in Callers |-> Idle]
  /\ held = {}
  /\ answer = [for |-> {}, number |-> 0, page |-> NULL]

\* Mutated: a word too far, and a word short.
Scanned_over(i)  == Zones[i].start .. (Zones[i].end \div WORD + 2) * WORD - 1
Scanned_short(i) == Zones[i].start .. (Zones[i].end \div WORD) * WORD - 1

\* The scan goes from the first page of the zone to the last bit of the
\* word its end address falls in.
Scanned(i) == Zones[i].start .. (Zones[i].end \div WORD + 1) * WORD - 1

\* Mutated: the mask is a bit short.
Fits_short(i, n, beyond) ==
  {p \in Scanned(i) : \A q \in Run(p, n - 1) :
     IF q \in PageIds THEN q \notin bits_map ELSE beyond}

\* The pages from which n bits are clear.  The memory behind the bitmap may
\* hold anything: `beyond` says whether it reads as free.
Fits(i, n, beyond) ==
  {p \in Scanned(i) : \A q \in Run(p, n) :
     IF q \in PageIds THEN q \notin bits_map ELSE beyond}

\* alloc_pages up to the page it finds: the first zone of the range that
\* counts enough free pages is scanned, and no other.  A number outside
\* 1 .. 63 and an unknown zone_select are refused with NULL before anything
\* is read or written (mm.c:352, :377): no step of the allocator.
AllocScan(c, zone_select, n) ==
  LET range  == ZoneRange(zone_select)
      enough == {i \in range : page_free_count[i] >= n}
      Answer(page) == [for |-> range, number |-> n, page |-> page]
  IN
  /\ call[c] = Idle
  /\ \/ \* No zone counts enough pages: the function ends without a return
        \* and its caller uses what %rax holds, the loop index.
        /\ enough = {}
        /\ answer' = Answer(-1)
        /\ UNCHANGED call
     \/ \E i \in enough, beyond \in BOOLEAN :
        LET fits == Fits(i, n, beyond) IN
        /\ \A j \in enough : i <= j
        /\ \/ /\ fits = {}
              /\ answer' = Answer(NULL)
              /\ UNCHANGED call
           \/ \E p \in fits :
                /\ \A q \in fits : p <= q
                /\ call' = [call EXCEPT ![c] =
                     [at |-> "mark", zone |-> i, page |-> p, number |-> n, l |-> 0]]
                /\ answer' = Answer(p)
  /\ UNCHANGED <<mms, bits_map, page_free_count, page_using_count, held>>

\* The marking of one page of the run; the counters are those of the zone
\* that was scanned.  A page that does not exist has no bit.
AllocMark(c) ==
  LET a == call[c]
      p == a.page + a.l
  IN
  /\ a.at = "mark"
  /\ p \in PageIds
  /\ bits_map' = bits_map \cup {p}
  /\ page_free_count' = [page_free_count EXCEPT ![a.zone] = @ - 1]
  /\ page_using_count' = [page_using_count EXCEPT ![a.zone] = @ + 1]
  /\ IF a.l + 1 < a.number
     THEN /\ call' = [call EXCEPT ![c].l = @ + 1]
          /\ UNCHANGED held
     ELSE /\ call' = [call EXCEPT ![c] = Idle]
          /\ held' = held \cup {[page |-> a.page, number |-> a.number, by |-> c]}
  /\ UNCHANGED <<mms, answer>>

\* Mutated: only the first page is freed, but all of them are counted.
FreePages_first(c, run) ==
  LET pages == Run(run.page, run.number)
      Freed(i) == Cardinality({p \in pages : ZoneOf(p) = i})
  IN
  /\ call[c] = Idle
  /\ run.by = c
  /\ pages \subseteq AllZonePages
  /\ bits_map' = bits_map \ {run.page}
  /\ page_free_count' = [i \in DOMAIN Zones |-> page_free_count[i] + Freed(i)]
  /\ page_using_count' = [i \in DOMAIN Zones |-> page_using_count[i] - Freed(i)]
  /\ held' = held \ {run}
  /\ UNCHANGED <<mms, call, answer>>

\* free_pages of a run that was handed out; each page counts for its own
\* zone.
FreePages(c, run) ==
  LET pages == Run(run.page, run.number)
      Freed(i) == Cardinality({p \in pages : ZoneOf(p) = i})
  IN
  /\ call[c] = Idle
  /\ run.by = c
  /\ pages \subseteq AllZonePages
  /\ bits_map' = bits_map \ pages
  /\ page_free_count' = [i \in DOMAIN Zones |-> page_free_count[i] + Freed(i)]
  /\ page_using_count' = [i \in DOMAIN Zones |-> page_using_count[i] - Freed(i)]
  /\ held' = held \ {run}
  /\ UNCHANGED <<mms, call, answer>>

Next ==
  \E c \in Callers :
    \/ \E zone_select \in {"ZONE_NORMAL", "ZONE_UNMAPED"}, n \in 1 .. MaxNumber :
         AllocScan(c, zone_select, n)
    \/ AllocMark(c)
    \/ \E run \in held : FreePages(c, run)


-----------------------------------------------------------------------------
\* The zones are apart from each other and within the bitmap, and so are the
\* kernel's pages.
WellFormed(m) ==
  /\ m.bits \in Nat
  /\ m.zones \in Seq([start : Nat, end : Nat])
  /\ m.kernel \subseteq 0 .. m.bits - 1
  /\ m.ZONE_UNMAPED_INDEX \in Nat \ {0}
  /\ \A i, j \in DOMAIN m.zones :
       LET Pages(k) == m.zones[k].start .. m.zones[k].end - 1
       IN Pages(i) \subseteq 0 .. m.bits - 1 /\ (i # j => Pages(i) \cap Pages(j) = {})

TypeOK ==
  /\ WellFormed(mms)
  /\ bits_map \subseteq PageIds
  /\ page_free_count \in [DOMAIN Zones -> Nat]
  /\ page_using_count \in [DOMAIN Zones -> Nat]
  /\ \A c \in Callers : call[c].at \in {"idle", "mark"}

\* The pages of the runs handed out, and those a call has marked so far.
HeldPages   == UNION {Run(r.page, r.number) : r \in held}
MarkedPages == UNION {IF call[c] = Idle THEN {} ELSE Run(call[c].page, call[c].l) :
                        c \in Callers}

(* No page is handed out twice: the runs in use never overlap, nor does a  *)
(* run that is being marked overlap one in use.                            *)
NoDoubleAllocation ==
  /\ \A r, s \in held : r # s => Run(r.page, r.number) \cap Run(s.page, s.number) = {}
  /\ \A c \in Callers : call[c] # Idle =>
       Run(call[c].page, call[c].number) \cap HeldPages = {}

\* The bitmap is the truth: a bit is set exactly for the pages in use, the
\* kernel's own and those that are no memory at all, whatever was taken and
\* given back before.
BitmapIsUsage ==
  bits_map = (PageIds \ AllZonePages) \cup mms.kernel
               \cup HeldPages \cup MarkedPages

\* The counters of a zone agree with its bits.
CountersMatchBitmap ==
  \A i \in DOMAIN Zones :
    /\ page_free_count[i] = Cardinality(ZonePages(i) \ bits_map)
    /\ page_using_count[i] = Cardinality(ZonePages(i) \cap bits_map)

(* The bitmap and the counters kept beside it are sound.                   *)
PagesInv == TypeOK /\ BitmapIsUsage /\ CountersMatchBitmap

(* The pages alloc_pages marks, counts and sets up were free (mm.c:427).   *)
(* The code does not keep this when two processors call it: the boot       *)
(* processor and the AP that runs task_init both fork.                     *)
MarksFreePages ==
  [][\A c \in Callers : call[c] # Idle /\ call'[c] # call[c] =>
       call[c].page + call[c].l \notin bits_map]_vars

(* alloc_pages serves a request from a zone it was asked for (mm.c:336).   *)
(* The code does not keep this when two zones share a bitmap word.         *)
FromSelectedZone ==
  answer.page \in Nat =>
    \E i \in answer.for : Run(answer.page, answer.number) \subseteq ZonePages(i)

(* A request is refused only when no zone it may be served from has a run  *)
(* of that many free pages (mm.c:383).  The code does not keep this: it    *)
(* gives up after the first zone that counts enough pages.                 *)
TriesEveryZone ==
  [][answer' # answer /\ answer'.page = NULL =>
       \A i \in answer'.for, p \in PageIds :
         ~(Run(p, answer'.number) \subseteq ZonePages(i) \ bits_map)]_vars

(* Within the zone it scans, alloc_pages finds a run whenever there is     *)
(* one: a request for which every zone of the range counts enough pages is *)
(* refused only when the first of them is fragmented.                      *)
FindsWhatIsThere ==
  [][answer' # answer /\ answer'.page = NULL =>
       \E i \in answer'.for :
         /\ page_free_count[i] >= answer'.number
         /\ \A p \in PageIds :
              ~(Run(p, answer'.number) \subseteq ZonePages(i) \ bits_map)]_vars

(* A request that cannot be met is answered with NULL, which the callers   *)
(* test for (slab.c, mm.c:kmalloc_create).  The code does not keep this:   *)
(* alloc_pages ends without a return when no zone counts enough pages.     *)
RefusalIsNull == answer.page # -1
=============================================================================
