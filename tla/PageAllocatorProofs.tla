------------------------- MODULE PageAllocatorProofs -------------------------
(***************************************************************************)
(* Proofs about PageAllocator for any well-formed layout of the memory and *)
(* requests of any sizes, as long as one processor calls the allocator;    *)
(* then about MemoryMap, which makes such a layout of any firmware's map.  *)
(***************************************************************************)
EXTENDS MemoryMap, FiniteSetTheorems, SequenceTheorems, WellFoundedInduction, TLAPS

\* The condition under which alloc_pages can be called without a lock.
OneCaller == \A c, d \in Callers : c = d

\* A zone shares its last bitmap word with no other, and the bitmap has a
\* bit behind it.
Fenced(m) ==
  \A i \in DOMAIN m.zones :
    \A p \in m.zones[i].end .. (m.zones[i].end \div WORD + 1) * WORD - 1 :
      /\ p < m.bits
      /\ \A j \in DOMAIN m.zones : p \notin m.zones[j].start .. m.zones[j].end - 1

Runs  == [page : Nat, number : 1 .. MaxNumber, by : Callers]
Marks == [at : {"mark"}, zone : DOMAIN Zones, page : Nat,
          number : 1 .. MaxNumber, l : Nat]

CallsOK ==
  /\ held \subseteq Runs
  /\ call \in [Callers -> {Idle} \cup Marks]
  /\ \A c \in Callers : call[c] # Idle => call[c].l < call[c].number

\* Pages that nobody may be given.
Kept == (PageIds \ AllZonePages) \cup mms.kernel

\* What a call still has to mark is free, and no run holds a page that is
\* kept.
Reserved ==
  /\ HeldPages \cap Kept = {} /\ HeldPages \subseteq PageIds
  /\ \A c \in Callers : call[c] # Idle =>
       /\ Run(call[c].page, call[c].number) \cap Kept = {}
       /\ Run(call[c].page, call[c].l) \subseteq PageIds
       /\ \A q \in PageIds : q >= call[c].page + call[c].l
                             /\ q < call[c].page + call[c].number => q \notin bits_map

RunsInv ==
  /\ WellFormed(mms) /\ Zones # <<>>
  /\ CallsOK /\ NoDoubleAllocation /\ BitmapIsUsage /\ Reserved

USE PageAllocatorAssumption

(* An idle call is none that marks pages.                                  *)
LEMMA MarkIsNotIdle == \A a \in Marks : a # Idle /\ a.at = "mark"
<1>1. SUFFICES ASSUME NEW a \in Marks PROVE a # Idle /\ a.at = "mark"
  OBVIOUS
<1>2. a.at = "mark" /\ Idle.at = "idle"
  BY DEF Marks, Idle
<1>3. QED
  BY <1>2

(* With one caller, the pages marked so far are those of its call.         *)
LEMMA MarkedByOne ==
  ASSUME OneCaller, NEW c \in Callers
  PROVE  MarkedPages = IF call[c] = Idle THEN {} ELSE Run(call[c].page, call[c].l)
  BY DEF OneCaller, MarkedPages

(* Only mms says where the zones are.                                      *)
LEMMA LayoutStays ==
  ASSUME mms' = mms
  PROVE  /\ PageIds' = PageIds /\ Zones' = Zones /\ AllZonePages' = AllZonePages
         /\ Kept' = Kept /\ Marks' = Marks
         /\ \A i : ZonePages(i)' = ZonePages(i)
  BY DEF PageIds, Zones, AllZonePages, ZonePages, Kept, Marks

(* A layout that is ready has nothing handed out.                          *)
LEMMA ReadyRuns ==
  ASSUME NEW m, WellFormed(m), m.zones # <<>>, Ready(m)
  PROVE  RunsInv
<1>1. mms = m /\ Zones # <<>> /\ held = {} /\ \A c \in Callers : call[c] = Idle
  BY DEF Ready, Zones
<1>2. HeldPages = {} /\ MarkedPages = {}
  BY <1>1 DEF HeldPages, MarkedPages
<1>3. BitmapIsUsage
  BY <1>2, <1>1 DEF Ready, BitmapIsUsage
<1>4. CallsOK
  BY <1>1 DEF CallsOK, Ready
<1>5. NoDoubleAllocation /\ Reserved
  BY <1>1, <1>2 DEF NoDoubleAllocation, Reserved
<1>6. QED
  BY <1>1, <1>3, <1>4, <1>5 DEF RunsInv

(* A zone a request is served from exists and has pages above 0.           *)
LEMMA RangeIsZones ==
  ASSUME WellFormed(mms), Zones # <<>>, NEW zone_select
  PROVE  /\ ZoneRange(zone_select) \subseteq DOMAIN Zones
         /\ DOMAIN Zones = 1 .. Len(Zones)
         /\ \A i \in DOMAIN Zones : Zones[i].start \in Nat /\ Zones[i].end \in Nat
<1>1. /\ Zones \in Seq([start : Nat, end : Nat])
      /\ mms.ZONE_UNMAPED_INDEX \in Nat \ {0}
  BY DEF WellFormed, Zones
<1>2. Len(Zones) \in Nat \ {0} /\ DOMAIN Zones = 1 .. Len(Zones)
  BY <1>1
<1>3. \A i \in DOMAIN Zones : Zones[i] \in [start : Nat, end : Nat]
  <2> DEFINE Z == [start : Nat, end : Nat]
  <2>1. Zones \in Seq(Z)
    BY <1>1
  <2> HIDE DEF Z
  <2>2. \A i \in 1 .. Len(Zones) : Zones[i] \in Z
    BY <2>1
  <2>3. QED
    BY <1>2, <2>2 DEF Z
<1>4. QED
  BY <1>1, <1>2, <1>3 DEF ZoneRange

(* What is kept has its bit set.                                           *)
LEMMA KeptIsSet ==
  ASSUME RunsInv
  PROVE  Kept \subseteq PageIds /\ Kept \subseteq bits_map
  BY DEF RunsInv, WellFormed, BitmapIsUsage, Kept, PageIds

(* The bits of a run the scan has found are clear, as far as it has any.   *)
LEMMA FitsAreFree ==
  ASSUME RunsInv, NEW i \in DOMAIN Zones, NEW n \in 1 .. MaxNumber,
         NEW beyond \in BOOLEAN, NEW p \in Fits(i, n, beyond)
  PROVE  /\ p \in Nat
         /\ \A q \in Run(p, n) \cap PageIds : q \notin bits_map
<1>1. Zones[i].start \in Nat /\ p \in Scanned(i)
  BY RangeIsZones DEF RunsInv, Fits
<1>2. (Zones[i].end \div WORD + 1) * WORD - 1 \in Int
  BY RangeIsZones DEF RunsInv
<1>3. p \in Nat
  BY <1>1, <1>2 DEF Scanned
<1>4. QED
  BY <1>3 DEF Fits

(* A scan reserves a run none of whose pages is in use.                    *)
LEMMA ScanRuns ==
  ASSUME OneCaller, RunsInv, NEW c \in Callers,
         NEW zone_select, NEW n \in 1 .. MaxNumber, AllocScan(c, zone_select, n)
  PROVE  RunsInv'
<1>1. UNCHANGED <<mms, bits_map, held>> /\ call[c] = Idle
  BY DEF AllocScan
<1>2. WellFormed(mms)' /\ (Zones # <<>>)' /\ HeldPages' = HeldPages /\ bits_map' = bits_map
  BY <1>1 DEF RunsInv, HeldPages, Zones
<1>3. CASE UNCHANGED call
  <2>1. MarkedPages' = MarkedPages
    BY <1>3 DEF MarkedPages
  <2>2. CallsOK'
    BY <1>1, <1>3, LayoutStays DEF RunsInv, CallsOK
  <2>3. NoDoubleAllocation'
    BY <1>1, <1>2, <1>3 DEF RunsInv, NoDoubleAllocation
  <2>4. BitmapIsUsage'
    BY <1>1, <1>2, <2>1, LayoutStays DEF RunsInv, BitmapIsUsage
  <2>5. Reserved'
    BY <1>1, <1>2, <1>3, LayoutStays DEF RunsInv, Reserved
  <2>6. QED
    BY <1>2, <2>2, <2>3, <2>4, <2>5 DEF RunsInv
<1>4. CASE call' # call
  <2>1. PICK i \in DOMAIN Zones, beyond \in BOOLEAN :
          \E p \in Fits(i, n, beyond) :
            call' = [call EXCEPT ![c] =
              [at |-> "mark", zone |-> i, page |-> p, number |-> n, l |-> 0]]
    BY <1>4, RangeIsZones DEF AllocScan, RunsInv
  <2>2. PICK p \in Fits(i, n, beyond) :
          call' = [call EXCEPT ![c] =
            [at |-> "mark", zone |-> i, page |-> p, number |-> n, l |-> 0]]
    BY <2>1
  <2> DEFINE a == [at |-> "mark", zone |-> i, page |-> p, number |-> n, l |-> 0]
  <2>3. p \in Nat /\ \A q \in Run(p, n) \cap PageIds : q \notin bits_map
    BY FitsAreFree
  <2>4. a \in Marks /\ a # Idle
    BY <2>3, MarkIsNotIdle DEF Marks
  <2>5. /\ call \in [Callers -> {Idle} \cup Marks]
        /\ call' = [call EXCEPT ![c] = a]
        /\ \A d \in Callers : d = c
    BY <2>2 DEF RunsInv, CallsOK, OneCaller
  <2>6. call'[c] = a /\ a.page = p /\ a.number = n /\ a.l = 0
    BY <2>5
  <2> HIDE DEF a
  <2>7. Run(p, 0) = {}
    BY <2>3 DEF Run
  <2>8. MarkedPages = {} /\ MarkedPages' = {}
    <3>1. MarkedPages = {}
      BY <1>1, <2>5 DEF MarkedPages
    <3>2. MarkedPages' = {}
      BY <2>5, <2>6, <2>7 DEF MarkedPages
    <3>3. QED
      BY <3>1, <3>2
  <2>9. CallsOK'
    BY <1>1, <2>4, <2>5, <2>6, LayoutStays DEF RunsInv, CallsOK
  <2>10. BitmapIsUsage'
    BY <1>1, <1>2, <2>8, LayoutStays DEF RunsInv, BitmapIsUsage
  <2>11. Run(p, n) \cap HeldPages = {}
    <3>1. HeldPages \subseteq bits_map \cap PageIds
      BY DEF RunsInv, BitmapIsUsage, Reserved
    <3>2. QED
      BY <2>3, <3>1
  <2>12. Run(p, n) \cap Kept = {}
    BY <2>3, KeptIsSet
  <2>13. NoDoubleAllocation'
    BY <1>1, <1>2, <2>5, <2>6, <2>11 DEF RunsInv, NoDoubleAllocation
  <2>14. Reserved'
    <3>1. ASSUME NEW q \in PageIds, q >= p + 0, q < p + n
          PROVE  q \notin bits_map
      <4>1. q \in Run(p, n)
        BY <2>3, <3>1 DEF Run, PageIds, WellFormed, RunsInv
      <4>2. QED
        BY <2>3, <4>1
    <3>2. QED
      BY <1>1, <1>2, <2>5, <2>6, <2>7, <2>12, <3>1, LayoutStays
         DEF RunsInv, Reserved
  <2>15. QED
    BY <1>2, <2>9, <2>10, <2>13, <2>14 DEF RunsInv
<1>5. QED
  BY <1>3, <1>4

(* A run grows by its last page.                                           *)
LEMMA RunGrows ==
  \A page, l \in Nat : Run(page, l + 1) = Run(page, l) \cup {page + l}
  BY DEF Run

(* Marking a page keeps the runs apart: the page was free, and the last    *)
(* one makes the run one in use.                                           *)
LEMMA MarkRuns ==
  ASSUME OneCaller, RunsInv, NEW c \in Callers, AllocMark(c)
  PROVE  RunsInv' /\ call[c].page + call[c].l \notin bits_map
<1> DEFINE a == call[c]
           p == a.page + a.l
<1>1. /\ UNCHANGED mms
      /\ p \in PageIds
      /\ bits_map' = bits_map \cup {p}
      /\ a.at = "mark"
  BY DEF AllocMark
<1>2. /\ a \in Marks /\ a # Idle
      /\ \A d \in Callers : d = c
      /\ call \in [Callers -> {Idle} \cup Marks]
  <2>1. a # Idle
    BY <1>1 DEF Idle
  <2>2. QED
    BY <2>1 DEF RunsInv, CallsOK, OneCaller
<1>3. /\ a.page \in Nat /\ a.number \in 1 .. MaxNumber /\ a.l \in Nat
      /\ a.l < a.number
      /\ a.number \in Nat
  BY <1>2 DEF Marks, RunsInv, CallsOK
<1>4. /\ Run(a.page, a.number) \cap Kept = {}
      /\ Run(a.page, a.number) \cap HeldPages = {}
      /\ Run(a.page, a.l) \subseteq PageIds
      /\ \A q \in PageIds : q >= a.page + a.l /\ q < a.page + a.number => q \notin bits_map
  BY <1>2 DEF RunsInv, Reserved, NoDoubleAllocation
<1>5. p \notin bits_map
  BY <1>1, <1>3, <1>4
<1>6. Run(a.page, a.l + 1) = Run(a.page, a.l) \cup {p}
  BY <1>3, RunGrows
<1>7. MarkedPages = Run(a.page, a.l)
  BY <1>2, MarkedByOne
<1>8. bits_map = (PageIds \ AllZonePages) \cup mms.kernel \cup HeldPages \cup Run(a.page, a.l)
  BY <1>7 DEF RunsInv, BitmapIsUsage
<1>9. PageIds \subseteq Int
  BY DEF PageIds
<1>10. WellFormed(mms)' /\ (Zones # <<>>)'
  BY <1>1 DEF RunsInv, Zones
<1>11. CASE a.l + 1 < a.number
  <2> DEFINE b == [a EXCEPT !.l = @ + 1]
  <2>1. held' = held /\ call' = [call EXCEPT ![c] = b]
    BY <1>11, <1>2 DEF AllocMark
  <2>2. /\ b \in Marks /\ b.page = a.page /\ b.number = a.number /\ b.l = a.l + 1
        /\ b # Idle
    <3>1. /\ b \in Marks /\ b.page = a.page /\ b.number = a.number /\ b.l = a.l + 1
      BY <1>2, <1>3 DEF Marks
    <3>2. QED
      BY <3>1, MarkIsNotIdle
  <2>3. call'[c] = b
    BY <1>2, <2>1
  <2> HIDE DEF a, b, p
  <2>4. HeldPages' = HeldPages
    BY <2>1 DEF HeldPages
  <2>5. MarkedPages' = Run(a.page, a.l) \cup {p}
    <3>1. MarkedPages' = Run(b.page, b.l)
      BY <1>2, <2>2, <2>3 DEF MarkedPages
    <3>2. QED
      BY <1>6, <2>2, <3>1
  <2>6. CallsOK'
    BY <1>1, <1>2, <1>3, <1>11, <2>1, <2>2, <2>3, LayoutStays DEF RunsInv, CallsOK
  <2>7. NoDoubleAllocation'
    BY <1>2, <1>4, <2>1, <2>2, <2>3, <2>4 DEF RunsInv, NoDoubleAllocation
  <2>8. BitmapIsUsage'
    BY <1>1, <1>8, <2>4, <2>5, LayoutStays DEF BitmapIsUsage
  <2>9. Reserved'
    <3>1. Run(b.page, b.l) \subseteq PageIds
      BY <1>1, <1>4, <1>6, <2>2
    <3>2. \A q \in PageIds : q >= b.page + b.l /\ q < b.page + b.number => q \notin bits_map'
      BY <1>1, <1>3, <1>4, <1>9, <2>2 DEF p
    <3>3. \A d \in Callers : call'[d] = b
      BY <1>2, <2>3
    <3>4. HeldPages' \cap Kept = {} /\ HeldPages' \subseteq PageIds
      BY <2>4 DEF RunsInv, Reserved
    <3>5. Run(b.page, b.number) \cap Kept = {}
      BY <1>4, <2>2
    <3>6. QED
      BY <1>1, <3>1, <3>2, <3>3, <3>4, <3>5, LayoutStays DEF Reserved
  <2>10. QED
    BY <1>5, <1>10, <2>6, <2>7, <2>8, <2>9 DEF RunsInv, p, a
<1>12. CASE ~(a.l + 1 < a.number)
  <2> DEFINE r == [page |-> a.page, number |-> a.number, by |-> c]
  <2>1. held' = held \cup {r} /\ call' = [call EXCEPT ![c] = Idle]
    BY <1>12, <1>2 DEF AllocMark
  <2>2. r \in Runs /\ r.page = a.page /\ r.number = a.number
    BY <1>3 DEF Runs
  <2>3. \A d \in Callers : call'[d] = Idle
    BY <1>2, <2>1
  <2> HIDE DEF a, r, p
  <2>4. a.l + 1 = a.number
    BY <1>3, <1>12
  <2>5. HeldPages' = HeldPages \cup Run(a.page, a.number)
    BY <2>1, <2>2 DEF HeldPages
  <2>6. MarkedPages' = {}
    BY <2>3 DEF MarkedPages
  <2>7. CallsOK'
    BY <1>1, <1>2, <2>1, <2>2, <2>3, LayoutStays DEF RunsInv, CallsOK
  <2>8. NoDoubleAllocation'
    <3>1. ASSUME NEW s \in held PROVE Run(s.page, s.number) \cap Run(r.page, r.number) = {}
      <4>1. Run(s.page, s.number) \subseteq HeldPages
        BY DEF HeldPages
      <4>2. QED
        BY <1>4, <2>2, <4>1
    <3>2. QED
      BY <2>1, <2>3, <3>1 DEF RunsInv, NoDoubleAllocation
  <2>9. BitmapIsUsage'
    BY <1>1, <1>6, <1>8, <2>4, <2>5, <2>6, LayoutStays DEF BitmapIsUsage
  <2>10. Reserved'
    <3>1. Run(a.page, a.number) \subseteq PageIds
      BY <1>1, <1>4, <1>6, <2>4
    <3>2. QED
      BY <1>1, <1>4, <2>3, <2>5, <3>1, LayoutStays DEF RunsInv, Reserved
  <2>11. QED
    BY <1>5, <1>10, <2>7, <2>8, <2>9, <2>10 DEF RunsInv, p, a
<1>13. QED
  BY <1>11, <1>12

(* free_pages gives back a run's own pages and no others.                  *)
LEMMA FreeRuns ==
  ASSUME OneCaller, RunsInv, NEW c \in Callers, NEW run \in held, FreePages(c, run)
  PROVE  RunsInv'
<1> DEFINE freed == Run(run.page, run.number)
<1>1. /\ UNCHANGED <<mms, call>>
      /\ bits_map' = bits_map \ freed
      /\ held' = held \ {run}
      /\ freed \subseteq AllZonePages
      /\ call[c] = Idle
  BY DEF FreePages
<1>2. \A d \in Callers : call[d] = Idle
  BY <1>1 DEF OneCaller
<1>3. MarkedPages = {} /\ MarkedPages' = {}
  BY <1>1, <1>2 DEF MarkedPages
<1>4. freed \cap Kept = {} /\ freed \subseteq HeldPages
  BY DEF RunsInv, Reserved, HeldPages
<1> HIDE DEF freed
<1>5. HeldPages' = HeldPages \ freed
  <2>1. \A s \in held : s # run => Run(s.page, s.number) \cap freed = {}
    BY DEF RunsInv, NoDoubleAllocation, freed
  <2>2. \A s \in held \ {run} : Run(s.page, s.number) \cap freed = {}
    BY <2>1
  <2>3. HeldPages = freed \cup UNION {Run(s.page, s.number) : s \in held \ {run}}
    BY DEF HeldPages, freed
  <2>4. HeldPages' = UNION {Run(s.page, s.number) : s \in held \ {run}}
    BY <1>1 DEF HeldPages
  <2>5. QED
    BY <2>2, <2>3, <2>4
<1>6. CallsOK' /\ NoDoubleAllocation'
  BY <1>1, <1>2, LayoutStays DEF RunsInv, CallsOK, NoDoubleAllocation
<1>7. BitmapIsUsage'
  <2>1. (PageIds \ AllZonePages) \cup mms.kernel = Kept
    BY DEF Kept
  <2>2. bits_map = Kept \cup HeldPages
    BY <1>3, <2>1 DEF RunsInv, BitmapIsUsage
  <2>3. bits_map' = Kept \cup HeldPages'
    BY <1>1, <1>4, <1>5, <2>2
  <2>4. QED
    BY <1>1, <1>3, <2>1, <2>3, LayoutStays DEF BitmapIsUsage
<1>8. Reserved'
  BY <1>1, <1>2, <1>5, LayoutStays DEF RunsInv, Reserved
<1>9. WellFormed(mms)' /\ (Zones # <<>>)'
  BY <1>1 DEF RunsInv, Zones
<1>10. QED
  BY <1>6, <1>7, <1>8, <1>9 DEF RunsInv

(* Every step of the allocator keeps the runs apart.                       *)
LEMMA NextRuns == OneCaller /\ RunsInv /\ [Next]_vars => RunsInv'
<1> SUFFICES ASSUME OneCaller, RunsInv, [Next]_vars PROVE RunsInv'
  OBVIOUS
<1>1. CASE UNCHANGED vars
  <2>1. UNCHANGED <<mms, bits_map, call, held>>
    BY <1>1 DEF vars
  <2>2. HeldPages' = HeldPages /\ MarkedPages' = MarkedPages
    BY <2>1 DEF HeldPages, MarkedPages
  <2>3. WellFormed(mms)' /\ (Zones # <<>>)'
    BY <2>1 DEF RunsInv, Zones
  <2>4. CallsOK' /\ NoDoubleAllocation' /\ BitmapIsUsage' /\ Reserved'
    BY <2>1, <2>2, LayoutStays
       DEF RunsInv, CallsOK, NoDoubleAllocation, BitmapIsUsage, Reserved
  <2>5. QED
    BY <2>3, <2>4 DEF RunsInv
<1>2. CASE Next
  BY <1>2, ScanRuns, MarkRuns, FreeRuns DEF Next
<1>3. QED
  BY <1>1, <1>2

(* For one caller and any layout: no page is handed out twice, and the     *)
(* bitmap is exactly the set of the pages in use.                          *)
THEOREM NoPageTwice ==
  ASSUME OneCaller, NEW m, WellFormed(m), m.zones # <<>>
  PROVE  Ready(m) /\ [][Next]_vars => [](NoDoubleAllocation /\ BitmapIsUsage)
<1>1. Ready(m) => RunsInv
  BY ReadyRuns
<1>2. RunsInv /\ [Next]_vars => RunsInv'
  BY NextRuns
<1>3. RunsInv => NoDoubleAllocation /\ BitmapIsUsage
  BY DEF RunsInv
<1>4. QED
  BY <1>1, <1>2, <1>3, PTL

(* For one caller every page alloc_pages marks is free when it is marked:  *)
(* MarksFreePages, which two processors break, holds without a lock.       *)
THEOREM OneCallerMarksFreePages ==
  ASSUME OneCaller, NEW m, WellFormed(m), m.zones # <<>>
  PROVE  Ready(m) /\ [][Next]_vars => MarksFreePages
<1> DEFINE Free == \A c \in Callers : call[c] # Idle /\ call'[c] # call[c] =>
                     call[c].page + call[c].l \notin bits_map
<1>1. Ready(m) => RunsInv
  BY ReadyRuns
<1>2. RunsInv /\ [Next]_vars => RunsInv'
  BY NextRuns
<1>3. RunsInv /\ [Next]_vars => [Free]_vars
  <2> SUFFICES ASSUME RunsInv, Next, NEW c \in Callers,
                      call[c] # Idle, call'[c] # call[c]
               PROVE  call[c].page + call[c].l \notin bits_map
    OBVIOUS
  <2>1. \A d \in Callers : d = c
    BY DEF OneCaller
  <2>2. AllocMark(c)
    BY <2>1 DEF Next, AllocScan, FreePages
  <2>3. QED
    BY <2>2, MarkRuns
<1>4. QED
  BY <1>1, <1>2, <1>3, PTL DEF MarksFreePages

-----------------------------------------------------------------------------
\* What the counters need besides: a call marks pages of the zone it
\* scanned, and counts for that one.
MarksItsZone ==
  \A c \in Callers : call[c] # Idle =>
    Run(call[c].page, call[c].number) \subseteq ZonePages(call[c].zone)

CountersInv ==
  /\ RunsInv /\ Fenced(mms)
  /\ bits_map \subseteq PageIds
  /\ page_free_count \in [DOMAIN Zones -> Nat]
  /\ page_using_count \in [DOMAIN Zones -> Nat]
  /\ CountersMatchBitmap
  /\ MarksItsZone
  /\ FromSelectedZone

(* The pages of a zone are finitely many, and in no other zone.            *)
LEMMA ZonesAreApart ==
  ASSUME WellFormed(mms)
  PROVE  /\ \A i \in DOMAIN Zones : IsFiniteSet(ZonePages(i))
         /\ \A i \in DOMAIN Zones : ZonePages(i) \subseteq AllZonePages \cap PageIds
         /\ \A i, j \in DOMAIN Zones : i # j => ZonePages(i) \cap ZonePages(j) = {}
<1>1. \A i \in DOMAIN Zones : ZonePages(i) \subseteq PageIds
  BY DEF WellFormed, ZonePages, Zones, PageIds
<1>2. IsFiniteSet(PageIds)
  <2>1. mms.bits - 1 \in Int
    BY DEF WellFormed
  <2>2. QED
    BY <2>1, FS_Interval DEF PageIds
<1>3. \A i \in DOMAIN Zones : IsFiniteSet(ZonePages(i))
  BY <1>1, <1>2, FS_Subset
<1>4. \A i \in DOMAIN Zones : ZonePages(i) \subseteq AllZonePages
  BY DEF AllZonePages
<1>5. QED
  BY <1>1, <1>3, <1>4 DEF WellFormed, ZonePages, Zones

(* The pages of a run that start in the words of a zone and are free       *)
(* belong to that zone: it is fenced off.                                  *)
LEMMA FitsInZone ==
  ASSUME RunsInv, Fenced(mms), NEW i \in DOMAIN Zones, NEW n \in 1 .. MaxNumber,
         NEW beyond \in BOOLEAN, NEW p \in Fits(i, n, beyond)
  PROVE  Run(p, n) \subseteq ZonePages(i)
<1> DEFINE z == Zones[i]
           last == (z.end \div WORD + 1) * WORD - 1
<1>1. /\ z.start \in Nat /\ z.end \in Nat
      /\ p \in Nat /\ n \in Nat \ {0}
      /\ \A q \in Run(p, n) \cap PageIds : q \notin bits_map
  BY FitsAreFree, RangeIsZones DEF RunsInv
<1>2. p \in z.start .. last
  BY DEF Fits, Scanned
<1>3. \A q \in z.end .. last : q \in Kept
  <2>1. \A q \in z.end .. last : q < mms.bits /\ q \notin AllZonePages /\ q >= z.end
    BY DEF Fenced, AllZonePages, ZonePages, Zones
  <2>2. \A q \in z.end .. last : q \in 0 .. mms.bits - 1
    BY <1>1, <2>1 DEF RunsInv, WellFormed
  <2>3. QED
    BY <2>1, <2>2 DEF Kept, PageIds
<1>4. \A q \in z.end .. last : q \notin Run(p, n)
  BY <1>1, <1>3, KeptIsSet
<1>5. z.end <= last /\ last \in Int
  BY <1>1
<1> HIDE DEF last, z
<1>6. p < z.end
  <2>1. p \in Run(p, n)
    BY <1>1 DEF Run
  <2>2. QED
    BY <1>1, <1>2, <1>4, <1>5, <2>1
<1>7. p + n <= z.end
  <2>1. z.end \notin Run(p, n)
    BY <1>1, <1>4, <1>5
  <2>2. QED
    BY <1>1, <1>6, <2>1 DEF Run
<1>8. Run(p, n) \subseteq z.start .. z.end - 1
  BY <1>1, <1>2, <1>5, <1>7 DEF Run
<1>9. QED
  BY <1>8 DEF ZonePages, z

(* A layout that is ready counts its pages right.                          *)
LEMMA ReadyCounters ==
  ASSUME NEW m, WellFormed(m), m.zones # <<>>, Fenced(m), Ready(m)
  PROVE  CountersInv
<1>1. RunsInv /\ mms = m /\ WellFormed(mms)
  BY ReadyRuns DEF Ready
<1>2. /\ bits_map = Kept
      /\ page_free_count = [i \in DOMAIN Zones |-> Cardinality(ZonePages(i) \ mms.kernel)]
      /\ page_using_count = [i \in DOMAIN Zones |-> Cardinality(ZonePages(i) \cap mms.kernel)]
      /\ \A c \in Callers : call[c] = Idle
      /\ answer.page = NULL
  BY DEF Ready, Kept
<1>3. ASSUME NEW i \in DOMAIN Zones
      PROVE  /\ ZonePages(i) \ bits_map = ZonePages(i) \ mms.kernel
             /\ ZonePages(i) \cap bits_map = ZonePages(i) \cap mms.kernel
             /\ IsFiniteSet(ZonePages(i) \ mms.kernel)
             /\ IsFiniteSet(ZonePages(i) \cap mms.kernel)
  <2>1. ZonePages(i) \subseteq AllZonePages \cap PageIds /\ IsFiniteSet(ZonePages(i))
    BY <1>1, ZonesAreApart
  <2>2. IsFiniteSet(ZonePages(i) \ mms.kernel) /\ IsFiniteSet(ZonePages(i) \cap mms.kernel)
    BY <2>1, FS_Subset
  <2>3. QED
    BY <1>2, <2>1, <2>2 DEF Kept
<1>4. /\ page_free_count \in [DOMAIN Zones -> Nat]
      /\ page_using_count \in [DOMAIN Zones -> Nat]
  BY <1>2, <1>3, FS_CardinalityType
<1>5. CountersMatchBitmap
  BY <1>2, <1>3 DEF CountersMatchBitmap
<1>6. MarksItsZone /\ FromSelectedZone
  BY <1>2 DEF MarksItsZone, FromSelectedZone
<1>7. bits_map \subseteq PageIds
  BY <1>1, <1>2, KeptIsSet
<1>8. QED
  BY <1>1, <1>4, <1>5, <1>6, <1>7 DEF CountersInv

(* The scan counts nothing; what it finds is in the zone it was asked for. *)
LEMMA ScanCounters ==
  ASSUME OneCaller, CountersInv, NEW c \in Callers,
         NEW zone_select, NEW n \in 1 .. MaxNumber, AllocScan(c, zone_select, n)
  PROVE  CountersInv'
<1>1. UNCHANGED <<mms, bits_map, page_free_count, page_using_count>>
  BY DEF AllocScan
<1>2. RunsInv' /\ RunsInv
  BY ScanRuns DEF CountersInv
<1>3. /\ Fenced(mms)' /\ CountersMatchBitmap'
      /\ page_free_count' \in [DOMAIN Zones' -> Nat]
      /\ page_using_count' \in [DOMAIN Zones' -> Nat]
      /\ bits_map' \subseteq PageIds'
  BY <1>1, LayoutStays DEF CountersInv, CountersMatchBitmap, Fenced
<1>4. CASE UNCHANGED call /\ answer'.page \notin Nat
  BY <1>1, <1>2, <1>3, <1>4, LayoutStays DEF CountersInv, MarksItsZone, FromSelectedZone
<1>5. ASSUME NEW i \in ZoneRange(zone_select), NEW beyond \in BOOLEAN,
             NEW p \in Fits(i, n, beyond),
             call' = [call EXCEPT ![c] =
               [at |-> "mark", zone |-> i, page |-> p, number |-> n, l |-> 0]],
             answer' = [for |-> ZoneRange(zone_select), number |-> n, page |-> p]
      PROVE  MarksItsZone' /\ FromSelectedZone'
  <2>1. i \in DOMAIN Zones
    BY <1>2, RangeIsZones DEF RunsInv
  <2>2. Run(p, n) \subseteq ZonePages(i)
    BY <1>2, <2>1, FitsInZone DEF CountersInv
  <2>3. call'[c].page = p /\ call'[c].number = n /\ call'[c].zone = i
    BY <1>2, <1>5 DEF RunsInv, CallsOK
  <2>4. MarksItsZone'
    BY <1>1, <2>2, <2>3, LayoutStays DEF MarksItsZone, OneCaller
  <2>5. FromSelectedZone'
    BY <1>1, <1>5, <2>2, LayoutStays DEF FromSelectedZone
  <2>6. QED
    BY <2>4, <2>5
<1>6. NULL \notin Nat /\ -1 \notin Nat
  OBVIOUS
<1>7. CASE ~(UNCHANGED call /\ answer'.page \notin Nat)
  <2>1. PICK i \in ZoneRange(zone_select), beyond \in BOOLEAN :
          \E p \in Fits(i, n, beyond) :
            /\ call' = [call EXCEPT ![c] =
                 [at |-> "mark", zone |-> i, page |-> p, number |-> n, l |-> 0]]
            /\ answer' = [for |-> ZoneRange(zone_select), number |-> n, page |-> p]
    BY <1>6, <1>7 DEF AllocScan
  <2>2. MarksItsZone' /\ FromSelectedZone'
    BY <1>5, <2>1
  <2>3. QED
    BY <1>2, <1>3, <2>2 DEF CountersInv
<1>8. QED
  BY <1>4, <1>7

(* Each page that is marked moves one from the free to the used of its own *)
(* zone.                                                                   *)
LEMMA MarkCounters ==
  ASSUME OneCaller, CountersInv, NEW c \in Callers, AllocMark(c)
  PROVE  CountersInv'
<1> DEFINE a == call[c]
           p == a.page + a.l
           z == a.zone
<1>1. /\ UNCHANGED <<mms, answer>>
      /\ bits_map' = bits_map \cup {p}
      /\ page_free_count' = [page_free_count EXCEPT ![z] = @ - 1]
      /\ page_using_count' = [page_using_count EXCEPT ![z] = @ + 1]
      /\ a.at = "mark"
      /\ p \in PageIds
  BY DEF AllocMark
<1>2. RunsInv /\ RunsInv' /\ p \notin bits_map /\ WellFormed(mms)
  BY MarkRuns DEF CountersInv, RunsInv
<1>3. a \in Marks /\ a # Idle /\ a.l < a.number
  BY <1>1, <1>2 DEF RunsInv, CallsOK, Idle
<1>4. a.page \in Nat /\ a.number \in 1 .. MaxNumber /\ a.l \in Nat /\ z \in DOMAIN Zones
  BY <1>3 DEF Marks
<1>5. p \in ZonePages(z)
  <2>1. p \in Run(a.page, a.number)
    BY <1>3, <1>4 DEF Run
  <2>2. QED
    BY <1>3, <2>1 DEF CountersInv, MarksItsZone
<1>6. \A d \in Callers : call'[d] # Idle =>
        call'[d].page = a.page /\ call'[d].number = a.number /\ call'[d].zone = z
  <2>1. \A d \in Callers : d = c
    BY DEF OneCaller
  <2>2. call \in [Callers -> {Idle} \cup Marks]
    BY <1>2 DEF RunsInv, CallsOK
  <2>3. CASE call' = [call EXCEPT ![c].l = @ + 1]
    BY <1>3, <2>1, <2>2, <2>3 DEF Marks
  <2>4. CASE call' = [call EXCEPT ![c] = Idle]
    BY <2>1, <2>2, <2>4
  <2>5. QED
    BY <2>3, <2>4 DEF AllocMark
<1>7. MarksItsZone'
  BY <1>1, <1>3, <1>6, LayoutStays DEF CountersInv, MarksItsZone
<1>8. FromSelectedZone' /\ Fenced(mms)'
  BY <1>1, LayoutStays DEF CountersInv, FromSelectedZone, Fenced
<1> HIDE DEF a, p, z
<1>9. ASSUME NEW i \in DOMAIN Zones
      PROVE  /\ page_free_count'[i] = Cardinality(ZonePages(i) \ bits_map')
             /\ page_using_count'[i] = Cardinality(ZonePages(i) \cap bits_map')
             /\ page_free_count'[i] \in Nat /\ page_using_count'[i] \in Nat
  <2> DEFINE clear == ZonePages(i) \ bits_map
             set   == ZonePages(i) \cap bits_map
  <2>1. /\ page_free_count[i] = Cardinality(clear)
        /\ page_using_count[i] = Cardinality(set)
        /\ page_free_count \in [DOMAIN Zones -> Nat]
        /\ page_using_count \in [DOMAIN Zones -> Nat]
    BY DEF CountersInv, CountersMatchBitmap
  <2>2. IsFiniteSet(clear) /\ IsFiniteSet(set)
    BY <1>2, ZonesAreApart, FS_Subset
  <2>3. CASE i = z
    <3>1. ZonePages(i) \ bits_map' = clear \ {p} /\ ZonePages(i) \cap bits_map' = set \cup {p}
      BY <1>1, <1>5, <2>3
    <3>2. p \in clear /\ p \notin set
      BY <1>2, <1>5, <2>3
    <3> HIDE DEF clear, set
    <3>3. /\ Cardinality(clear \ {p}) = Cardinality(clear) - 1
          /\ Cardinality(set \cup {p}) = Cardinality(set) + 1
      BY <2>2, <3>2, FS_RemoveElement, FS_AddElement
    <3>4. IsFiniteSet(clear \ {p}) /\ IsFiniteSet(set \cup {p})
      BY <2>2, FS_RemoveElement, FS_AddElement
    <3>5. page_free_count'[i] = page_free_count[i] - 1
          /\ page_using_count'[i] = page_using_count[i] + 1
      BY <1>1, <2>1, <2>3
    <3>6. Cardinality(clear \ {p}) \in Nat /\ Cardinality(set \cup {p}) \in Nat
      BY <3>4, FS_CardinalityType
    <3>7. QED
      BY <2>1, <3>1, <3>3, <3>5, <3>6
  <2>4. CASE i # z
    <3>1. p \notin ZonePages(i)
      BY <1>2, <1>4, <1>5, <2>4, ZonesAreApart
    <3>2. ZonePages(i) \ bits_map' = clear /\ ZonePages(i) \cap bits_map' = set
      BY <1>1, <3>1
    <3> HIDE DEF clear, set
    <3>3. QED
      BY <1>1, <2>1, <2>4, <3>2
  <2>5. QED
    BY <2>3, <2>4
<1>10. CountersMatchBitmap'
  BY <1>1, <1>9, LayoutStays DEF CountersMatchBitmap
<1>11. page_free_count' \in [DOMAIN Zones -> Nat]
       /\ page_using_count' \in [DOMAIN Zones -> Nat]
  BY <1>1, <1>9 DEF CountersInv
<1>12. bits_map' \subseteq PageIds
  BY <1>1 DEF CountersInv
<1>13. QED
  BY <1>1, <1>2, <1>7, <1>8, <1>10, <1>11, <1>12, LayoutStays DEF CountersInv

(* Each page that is freed moves one from the used to the free of the zone *)
(* it lies in, whatever zones the run reaches.                             *)
LEMMA FreeCounters ==
  ASSUME OneCaller, CountersInv, NEW c \in Callers, NEW run \in held,
         FreePages(c, run)
  PROVE  CountersInv'
<1> DEFINE freed == Run(run.page, run.number)
           Freed(i) == Cardinality({p \in freed : ZoneOf(p) = i})
<1>1. /\ UNCHANGED <<mms, call, answer>>
      /\ bits_map' = bits_map \ freed
      /\ page_free_count' = [i \in DOMAIN Zones |-> page_free_count[i] + Freed(i)]
      /\ page_using_count' = [i \in DOMAIN Zones |-> page_using_count[i] - Freed(i)]
      /\ freed \subseteq AllZonePages
  BY DEF FreePages
<1>2. RunsInv /\ RunsInv' /\ WellFormed(mms)
  BY FreeRuns DEF CountersInv, RunsInv
<1>3. freed \subseteq bits_map
  BY <1>2 DEF RunsInv, BitmapIsUsage, HeldPages
<1>4. MarksItsZone' /\ FromSelectedZone' /\ Fenced(mms)'
  BY <1>1, LayoutStays DEF CountersInv, MarksItsZone, FromSelectedZone, Fenced
<1>5. ASSUME NEW p \in freed, NEW i \in DOMAIN Zones
      PROVE  ZoneOf(p) = i <=> p \in ZonePages(i)
  <2>1. \E j \in DOMAIN Zones : p \in ZonePages(j)
    BY <1>1 DEF AllZonePages
  <2>2. ZoneOf(p) \in DOMAIN Zones /\ p \in ZonePages(ZoneOf(p))
    BY <2>1 DEF ZoneOf
  <2>3. QED
    BY <1>2, <2>2, ZonesAreApart
<1> HIDE DEF freed
<1>6. ASSUME NEW i \in DOMAIN Zones
      PROVE  /\ page_free_count'[i] = Cardinality(ZonePages(i) \ bits_map')
             /\ page_using_count'[i] = Cardinality(ZonePages(i) \cap bits_map')
             /\ page_free_count'[i] \in Nat /\ page_using_count'[i] \in Nat
  <2> DEFINE clear == ZonePages(i) \ bits_map
             set   == ZonePages(i) \cap bits_map
             own   == {p \in freed : ZoneOf(p) = i}
             rest  == set \ own
  <2>1. /\ page_free_count[i] = Cardinality(clear)
        /\ page_using_count[i] = Cardinality(set)
    BY DEF CountersInv, CountersMatchBitmap
  <2>2. own = freed \cap ZonePages(i) /\ own \subseteq set
    BY <1>3, <1>5
  <2>3. IsFiniteSet(clear) /\ IsFiniteSet(set)
    BY <1>2, ZonesAreApart, FS_Subset
  <2>4. /\ ZonePages(i) \ bits_map' = clear \cup own
        /\ ZonePages(i) \cap bits_map' = rest
        /\ clear \cap own = {}
        /\ set = rest \cup own /\ rest \cap own = {}
    BY <1>1, <2>2
  <2>5. /\ page_free_count'[i] = page_free_count[i] + Cardinality(own)
        /\ page_using_count'[i] = page_using_count[i] - Cardinality(own)
    BY <1>1
  <2> HIDE DEF clear, set, own, rest
  <2>6. IsFiniteSet(own) /\ IsFiniteSet(rest)
    BY <2>3, <2>4, FS_Subset
  <2>7. /\ Cardinality(clear \cup own) = Cardinality(clear) + Cardinality(own)
        /\ Cardinality(set) = Cardinality(rest) + Cardinality(own)
    <3>1. /\ Cardinality(clear \cup own) =
               Cardinality(clear) + Cardinality(own) - Cardinality({})
          /\ Cardinality(set) = Cardinality(rest) + Cardinality(own) - Cardinality({})
      BY <2>3, <2>4, <2>6, FS_Union
    <3>2. Cardinality({}) = 0
      BY FS_EmptySet
    <3>3. Cardinality(clear) \in Nat /\ Cardinality(own) \in Nat /\ Cardinality(rest) \in Nat
      BY <2>3, <2>6, FS_CardinalityType
    <3>4. QED
      BY <3>1, <3>2, <3>3
  <2>8. Cardinality(clear) \in Nat /\ Cardinality(own) \in Nat /\ Cardinality(rest) \in Nat
    BY <2>3, <2>6, FS_CardinalityType
  <2>9. /\ page_free_count'[i] = Cardinality(clear \cup own)
        /\ page_using_count'[i] = Cardinality(rest)
    BY <2>1, <2>5, <2>7, <2>8
  <2>10. page_free_count'[i] \in Nat /\ page_using_count'[i] \in Nat
    BY <2>7, <2>8, <2>9
  <2>11. QED
    BY <2>4, <2>9, <2>10
<1>7. CountersMatchBitmap'
  BY <1>1, <1>6, LayoutStays DEF CountersMatchBitmap
<1>8. page_free_count' \in [DOMAIN Zones -> Nat]
      /\ page_using_count' \in [DOMAIN Zones -> Nat]
  BY <1>1, <1>6
<1>9. bits_map' \subseteq PageIds
  BY <1>1 DEF CountersInv
<1>10. QED
  BY <1>1, <1>2, <1>4, <1>7, <1>8, <1>9, LayoutStays DEF CountersInv

(* Every step of the allocator keeps the counters.                         *)
LEMMA NextCounters == OneCaller /\ CountersInv /\ [Next]_vars => CountersInv'
<1> SUFFICES ASSUME OneCaller, CountersInv, [Next]_vars PROVE CountersInv'
  OBVIOUS
<1>1. CASE UNCHANGED vars
  <2>1. UNCHANGED <<mms, bits_map, call, held, page_free_count,
                    page_using_count, answer>>
    BY <1>1 DEF vars
  <2>2. RunsInv'
    BY NextRuns DEF CountersInv
  <2>3. CountersMatchBitmap' /\ MarksItsZone' /\ FromSelectedZone' /\ Fenced(mms)'
    <3>1. CountersMatchBitmap'
      BY <2>1, LayoutStays DEF CountersInv, CountersMatchBitmap
    <3>2. MarksItsZone'
      BY <2>1, LayoutStays DEF CountersInv, MarksItsZone
    <3>3. FromSelectedZone'
      BY <2>1, LayoutStays DEF CountersInv, FromSelectedZone
    <3>4. Fenced(mms)'
      BY <2>1 DEF CountersInv, Fenced
    <3>5. QED
      BY <3>1, <3>2, <3>3, <3>4
  <2>4. /\ bits_map' \subseteq PageIds'
        /\ page_free_count' \in [DOMAIN Zones' -> Nat]
        /\ page_using_count' \in [DOMAIN Zones' -> Nat]
    BY <2>1, LayoutStays DEF CountersInv
  <2>5. QED
    BY <2>2, <2>3, <2>4 DEF CountersInv
<1>2. CASE Next
  BY <1>2, ScanCounters, MarkCounters, FreeCounters DEF Next
<1>3. QED
  BY <1>1, <1>2

(* The counters of CountersInv are right through any sequence of requests  *)
(* and releases.                                                           *)
LEMMA CountersAlways ==
  ASSUME OneCaller, NEW m, WellFormed(m), m.zones # <<>>, Fenced(m)
  PROVE  Ready(m) /\ [][Next]_vars => []CountersInv
<1>1. Ready(m) => CountersInv
  BY ReadyCounters
<1>2. CountersInv /\ [Next]_vars => CountersInv'
  BY NextCounters
<1>3. QED
  BY <1>1, <1>2, PTL

(* What the counters' invariant says is what is promised of them.          *)
LEMMA CountersSound == CountersInv => PagesInv /\ FromSelectedZone
<1> SUFFICES ASSUME CountersInv PROVE PagesInv /\ FromSelectedZone
  OBVIOUS
<1>1. \A c \in Callers : call[c].at \in {"idle", "mark"}
  BY MarkIsNotIdle DEF CountersInv, RunsInv, CallsOK, Idle
<1>2. TypeOK
  BY <1>1 DEF TypeOK, CountersInv, RunsInv
<1>3. QED
  BY <1>2 DEF PagesInv, CountersInv, RunsInv

(* For one caller and any fenced layout: the counters of every zone agree  *)
(* with its bits through any sequence of requests and releases.            *)
THEOREM CountersFollowBitmap ==
  ASSUME OneCaller, NEW m, WellFormed(m), m.zones # <<>>, Fenced(m)
  PROVE  Ready(m) /\ [][Next]_vars => []PagesInv
<1>1. CountersInv => PagesInv
  BY CountersSound
<1>2. QED
  BY <1>1, CountersAlways, PTL

(* For one caller and any fenced layout: what a request gets lies in one   *)
(* zone it may be served from, although the scan tests whole words.        *)
THEOREM ServedFromItsZone ==
  ASSUME OneCaller, NEW m, WellFormed(m), m.zones # <<>>, Fenced(m)
  PROVE  Ready(m) /\ [][Next]_vars => []FromSelectedZone
<1>1. CountersInv => FromSelectedZone
  BY DEF CountersInv
<1>2. QED
  BY <1>1, CountersAlways, PTL

(* A number is below the end of the word it falls in.                      *)
LEMMA WordContains ==
  \A e \in Nat : e <= (e \div WORD + 1) * WORD - 1
<1> SUFFICES ASSUME NEW e \in Nat PROVE e < (e \div WORD + 1) * WORD
  OBVIOUS
<1>1. e < WORD * (e \div WORD + 1)
  OBVIOUS
<1>2. QED
  BY <1>1

(* A run of free pages of a zone starts where the scan of it looks.        *)
LEMMA FreeRunsFit ==
  ASSUME WellFormed(mms), NEW i \in DOMAIN Zones, NEW beyond \in BOOLEAN,
         NEW n \in 1 .. MaxNumber, NEW p \in PageIds,
         Run(p, n) \subseteq ZonePages(i) \ bits_map
  PROVE  p \in Fits(i, n, beyond)
<1>1. p \in Nat /\ p \in Run(p, n)
  BY DEF PageIds, WellFormed, Run
<1>2. /\ Zones[i].start \in Nat /\ Zones[i].end \in Nat
      /\ ZonePages(i) \subseteq PageIds
  <2>1. Zones # <<>>
    BY DEF WellFormed, Zones
  <2>2. QED
    BY <2>1, RangeIsZones, ZonesAreApart
<1>3. p \in Zones[i].start .. Zones[i].end - 1
  BY <1>1 DEF ZonePages
<1>4. Zones[i].end <= (Zones[i].end \div WORD + 1) * WORD - 1
  BY <1>2, WordContains
<1>5. p \in Scanned(i)
  BY <1>1, <1>2, <1>3, <1>4 DEF Scanned
<1>6. QED
  BY <1>2, <1>5 DEF Fits

\* What FindsWhatIsThere says of a step.
Found ==
  answer' # answer /\ answer'.page = NULL =>
    \E i \in answer'.for :
      /\ page_free_count[i] >= answer'.number
      /\ \A p \in PageIds :
           ~(Run(p, answer'.number) \subseteq ZonePages(i) \ bits_map)

(* A request is refused by NULL when the zone that was scanned has no such *)
(* run.                                                                    *)
LEMMA NextFinds ==
  ASSUME WellFormed(mms), Zones # <<>>, Next
  PROVE  Found
<1> SUFFICES ASSUME answer' # answer, answer'.page = NULL
             PROVE  \E i \in answer'.for :
                      /\ page_free_count[i] >= answer'.number
                      /\ \A p \in PageIds :
                           ~(Run(p, answer'.number) \subseteq ZonePages(i) \ bits_map)
  BY DEF Found
<1>1. PICK c \in Callers, zone_select \in {"ZONE_NORMAL", "ZONE_UNMAPED"},
           n \in 1 .. MaxNumber : AllocScan(c, zone_select, n)
  BY DEF Next, AllocMark, FreePages
<1>2. NULL # -1 /\ \A p \in Nat : p # NULL
  OBVIOUS
<1>3. PICK i \in ZoneRange(zone_select), beyond \in BOOLEAN :
        /\ page_free_count[i] >= n
        /\ answer'.for = ZoneRange(zone_select) /\ answer'.number = n
        /\ \/ Fits(i, n, beyond) = {}
           \/ \E p \in Fits(i, n, beyond) : answer'.page = p
  BY <1>1, <1>2 DEF AllocScan
<1>4. i \in DOMAIN Zones
  BY RangeIsZones
<1>5. \A p \in Fits(i, n, beyond) : p \in Nat
  <2>1. Zones[i].start \in Nat /\ (Zones[i].end \div WORD + 1) * WORD - 1 \in Int
    BY <1>4, RangeIsZones
  <2>2. QED
    BY <2>1 DEF Fits, Scanned
<1>6. Fits(i, n, beyond) = {}
  BY <1>2, <1>3, <1>5
<1>7. QED
  BY <1>3, <1>4, <1>6, FreeRunsFit

(* In any layout, and with any number of callers: alloc_pages refuses a    *)
(* request by NULL only when the first zone of its range that counts       *)
(* enough pages has no run of that many.                                   *)
THEOREM RefusesWhatIsNotThere ==
  ASSUME NEW m, WellFormed(m), m.zones # <<>>
  PROVE  Ready(m) /\ [][Next]_vars => FindsWhatIsThere
<1> DEFINE Layout0 == WellFormed(mms) /\ Zones # <<>>
<1>1. Ready(m) => Layout0
  BY DEF Ready, Zones
<1>2. Layout0 /\ [Next]_vars => Layout0'
  BY DEF Next, AllocScan, AllocMark, FreePages, vars, Zones
<1>3. Layout0 /\ [Next]_vars => [Found]_vars
  BY NextFinds
<1>4. QED
  BY <1>1, <1>2, <1>3, PTL DEF FindsWhatIsThere, Found

-----------------------------------------------------------------------------
(***************************************************************************)
(* The start: from the firmware's descriptors to a layout that is ready    *)
(* and a linear mapping that is complete, on any machine the assumptions   *)
(* of MemoryMap describe.                                                  *)
(***************************************************************************)
\* A descriptor of the firmware, and an entry of the loader's table.
Desc       == [type : STRING, start : Nat, length : Nat]
TableEntry == [type : 1 .. 5, start : Nat, length : Nat \ {0}]

Stages == {"convert", "sort", "init_memory", "zones", "slab", "frame_buffer",
           "pagetable", "IOAPIC", "up"}
Before == {"convert", "sort", "init_memory"}

\* Something that holds all the pages the kernel takes.
Holds(X) == \A p \in KernelPages : Units(p) \subseteq X

Apart(s) == \A i, j \in DOMAIN s : i # j => Extent(s[i]) \cap Extent(s[j]) = {}

NoOverlap(f, e) ==
  /\ Apart(f) /\ Apart(e)
  /\ \A i \in DOMAIN f, j \in DOMAIN e : Extent(f[i]) \cap Extent(e[j]) = {}

\* The descriptor or the entry that holds the kernel's pages.
KernelIn(f, e) ==
  \/ \E i \in DOMAIN f : MemType(f[i].type) = 1 /\ Holds(Extent(f[i]))
  \/ \E i \in DOMAIN e : e[i].type = 1 /\ Holds(Extent(e[i]))

\* The entries from i on start no lower than those before i, and than entry
\* i up to the one before j.
SortedUpTo(i, j) ==
  /\ \A a, b \in DOMAIN e820 : a < b /\ a < i => e820[a].start <= e820[b].start
  /\ \A b \in DOMAIN e820 : i < b /\ b < j => e820[i].start <= e820[b].start

\* The table the loader makes.
TableInv ==
  /\ stage \in Stages
  /\ firmware \in Seq(Desc) /\ e820 \in Seq(TableEntry)
  /\ NoOverlap(firmware, e820)
  /\ \A t \in 1 .. 5 : Covered(e820, t) \cup Covered(Typed(firmware), t) = given[t]
  /\ stage = "convert" =>
       /\ e820 # <<>> => LastEndAddr = Last(e820).start + Last(e820).length
       /\ sorting = <<1, 2>>
  /\ stage # "convert" => firmware = <<>>
  /\ stage = "sort" =>
       /\ sorting \in (Nat \ {0}) \X Nat /\ sorting[1] < sorting[2]
       /\ SortedUpTo(sorting[1], sorting[2])
  /\ stage \notin {"convert", "sort"} =>
       \A a, b \in DOMAIN e820 : a < b => e820[a].start <= e820[b].start

\* What the machine is like, said of the whole map.
GivenInv ==
  /\ ~(Units(0) \subseteq given[1])
  /\ \A u \in Units(1), v \in given[5] : u < v
  /\ \A p \in FrameBuffer \cup {IOAPIC} : ~(Units(p) \subseteq given[1])
  /\ FourGB * PAGE - 1 \notin given[1]

KernelThere == 1 \in KernelPages /\ KernelIn(firmware, e820)

Zone    == [start : Nat, end : Nat]
Layouts == [bits : Nat, zones : Seq(Zone), kernel : SUBSET Nat,
            ZONE_UNMAPED_INDEX : Nat \ {0}]

EndPage(e) == (e.start + e.length) \div PAGE

\* The zones are the whole pages of the entries of RAM read so far, in their
\* order, and the bitmap reaches to the end of each.
ZonesInv ==
  /\ mms \in Layouts /\ entry \in Nat \ {0}
  /\ stage \in Before => Zones = <<>> /\ mms.kernel = {} /\ entry = 1
  /\ stage \notin Before => \A a \in DOMAIN Read : EndPage(e820[a]) <= mms.bits
  /\ \A k \in DOMAIN Zones : \E a \in DOMAIN Read :
       a < entry /\ e820[a].type = 1 /\ Zones[k] = WholePages(e820[a])
  /\ \A k, l \in DOMAIN Zones : k < l => Zones[k].end <= Zones[l].start
  /\ \A a \in DOMAIN Read :
       a < entry /\ e820[a].type = 1 /\ WholePages(e820[a]).start < WholePages(e820[a]).end
         => \E k \in DOMAIN Zones : Zones[k] = WholePages(e820[a])

\* The pages the kernel has taken.
KernelInv ==
  /\ mms.kernel \subseteq KernelPages
  /\ stage \in Before \cup {"zones", "slab"} => end_of_struct \in EndPages
  /\ stage \in Before \cup {"zones"} => mms.kernel = {} /\ mms.ZONE_UNMAPED_INDEX = 1
  /\ stage = "slab" => mms.kernel = 1 .. end_of_struct
  /\ stage \notin Before \cup {"zones"} =>
       /\ entry > Len(Read)
       /\ 1 .. end_of_struct \subseteq mms.kernel
       /\ mms.ZONE_UNMAPED_INDEX \in Nat \ {0}
       /\ \A i \in Reached : i # 1 => Zones[i].start < FourGB

MapInv == TableInv /\ KernelThere /\ GivenInv /\ ZonesInv /\ KernelInv

\* The allocator's own invariant holds from the moment it is in use.
AllocInv ==
  /\ stage # "up" => Ready(mms)
  /\ stage = "up" => RunsInv

\* A page table, and a page that is mapped to itself.
Tables == [Slots -> [page : Nat, cached : BOOLEAN] \cup {Absent, Junk}]

Present(p, cached) ==
  /\ p \div GIG \in Gigs /\ pdt[p \div GIG] # NULL
  /\ pdt[p \div GIG][p % GIG] = Entry(p, cached)

\* What is mapped at each stage.
MappingInv ==
  /\ pdt \in [Gigs -> {NULL} \cup Tables]
  /\ stage \notin {"pagetable", "IOAPIC", "up"} =>
       /\ pdt = [g \in Gigs |-> IF g = 0 THEN EarlyTable ELSE NULL]
       /\ FB_addr = EarlyWindow
  /\ stage \in {"pagetable", "IOAPIC", "up"} =>
       /\ FB_addr = FB_first
       /\ \A p \in FrameBuffer : Present(p, FALSE)
       /\ \A p \in mms.kernel : Present(p, TRUE)
  /\ stage \in {"IOAPIC", "up"} =>
       \A i \in Reached : \A p \in ZonePages(i) : Present(p, TRUE)
  /\ stage = "up" => Present(IOAPIC, FALSE)

USE MemoryMapAssumption

(* The loader knows the types 1 to 5, and 0 for what it skips.             *)
LEMMA MemTypeRange == \A x : MemType(x) \in 0 .. 5
  BY DEF MemType

(* What is in a table.                                                     *)
LEMMA InCovered ==
  ASSUME NEW e, NEW t, NEW u
  PROVE  u \in Covered(e, t) <=> \E i \in DOMAIN e : e[i].type = t /\ u \in Extent(e[i])
  BY DEF Covered

(* The descriptors, seen as entries.                                       *)
LEMMA InTyped ==
  ASSUME NEW f \in Seq(Desc), NEW t, NEW u
  PROVE  u \in Covered(Typed(f), t) <=>
           \E i \in DOMAIN f : MemType(f[i].type) = t /\ u \in Extent(f[i])
<1>1. PICK g : g = Typed(f)
  OBVIOUS
<1>2. DOMAIN g = DOMAIN f /\ \A i \in DOMAIN f : g[i].type = MemType(f[i].type)
                                            /\ Extent(g[i]) = Extent(f[i])
  <2>1. DOMAIN g = DOMAIN f /\ \A i \in DOMAIN f : g[i] = [f[i] EXCEPT !.type = MemType(@)]
    BY <1>1 DEF Typed
  <2>2. \A i \in DOMAIN f : f[i] \in Desc
    OBVIOUS
  <2>3. \A d \in Desc : LET h == [d EXCEPT !.type = MemType(@)]
                        IN h.type = MemType(d.type) /\ h.start = d.start /\ h.length = d.length
    BY DEF Desc
  <2>4. QED
    BY <2>1, <2>2, <2>3 DEF Extent
<1>3. u \in Covered(g, t) <=> \E i \in DOMAIN g : g[i].type = t /\ u \in Extent(g[i])
  BY InCovered
<1>4. QED
  BY <1>1, <1>2, <1>3

(* The first descriptor and the others.                                    *)
LEMMA HeadAndTail ==
  ASSUME NEW f \in Seq(Desc), f # <<>>
  PROVE  /\ Head(f) \in Desc /\ Tail(f) \in Seq(Desc)
         /\ 1 \in DOMAIN f /\ f[1] = Head(f)
         /\ \A i \in DOMAIN Tail(f) : i + 1 \in DOMAIN f /\ i + 1 # 1 /\ f[i + 1] = Tail(f)[i]
         /\ \A i \in DOMAIN f : i # 1 => i - 1 \in DOMAIN Tail(f) /\ Tail(f)[i - 1] = f[i]
  OBVIOUS

(* What a descriptor leaves behind when it becomes part of entry m, new or *)
(* not.                                                                    *)
Addition(f, e, c, m) ==
  /\ f \in Seq(Desc) /\ f # <<>> /\ e \in Seq(TableEntry) /\ c \in Seq(TableEntry)
  /\ NoOverlap(f, e) /\ m \in DOMAIN c
  /\ DOMAIN e \subseteq DOMAIN c /\ DOMAIN c \subseteq DOMAIN e \cup {m}
  /\ c[m].type = MemType(Head(f).type)
  /\ \A j \in DOMAIN e : c[j].type = e[j].type
  /\ \A j \in DOMAIN c : j # m => Extent(c[j]) = Extent(e[j])
  /\ Extent(c[m]) = Extent(Head(f)) \cup (IF m \in DOMAIN e THEN Extent(e[m]) ELSE {})

LEMMA Added ==
  ASSUME NEW f, NEW e, NEW c, NEW m, Addition(f, e, c, m)
  PROVE  /\ NoOverlap(Tail(f), c)
         /\ \A t \in 1 .. 5 : Covered(c, t) \cup Covered(Typed(Tail(f)), t)
                                = Covered(e, t) \cup Covered(Typed(f), t)
         /\ KernelIn(f, e) => KernelIn(Tail(f), c)
<1> SUFFICES
      ASSUME f \in Seq(Desc), f # <<>>, e \in Seq(TableEntry), c \in Seq(TableEntry),
             NoOverlap(f, e), m \in DOMAIN c,
             DOMAIN e \subseteq DOMAIN c, DOMAIN c \subseteq DOMAIN e \cup {m},
             c[m].type = MemType(Head(f).type),
             \A j \in DOMAIN e : c[j].type = e[j].type,
             \A j \in DOMAIN c : j # m => Extent(c[j]) = Extent(e[j]),
             Extent(c[m]) = Extent(Head(f)) \cup (IF m \in DOMAIN e THEN Extent(e[m]) ELSE {})
      PROVE  /\ NoOverlap(Tail(f), c)
             /\ \A t \in 1 .. 5 : Covered(c, t) \cup Covered(Typed(Tail(f)), t)
                                    = Covered(e, t) \cup Covered(Typed(f), t)
             /\ KernelIn(f, e) => KernelIn(Tail(f), c)
  BY DEF Addition
<1>1. PICK d, g : d = Head(f) /\ g = Tail(f)
  OBVIOUS
<1>2. /\ g \in Seq(Desc) /\ 1 \in DOMAIN f /\ f[1] = d
      /\ \A i \in DOMAIN g : i + 1 \in DOMAIN f /\ i + 1 # 1 /\ f[i + 1] = g[i]
      /\ \A i \in DOMAIN f : i # 1 => i - 1 \in DOMAIN g /\ g[i - 1] = f[i]
  BY <1>1, HeadAndTail
<1>3. \A i \in DOMAIN g : Extent(g[i]) \cap Extent(d) = {}
  BY <1>2 DEF NoOverlap, Apart
<1>4. \A i \in DOMAIN g, j \in DOMAIN e : Extent(g[i]) \cap Extent(e[j]) = {}
  BY <1>2 DEF NoOverlap
<1>5. \A j \in DOMAIN e : Extent(d) \cap Extent(e[j]) = {}
  BY <1>2 DEF NoOverlap
<1>6. Apart(g)
  <2>1. SUFFICES ASSUME NEW i \in DOMAIN g, NEW j \in DOMAIN g, i # j
                 PROVE  Extent(g[i]) \cap Extent(g[j]) = {}
    BY DEF Apart
  <2>2. i + 1 # j + 1
    BY <1>2, <2>1
  <2>3. QED
    BY <1>2, <2>2 DEF NoOverlap, Apart
<1>7. Apart(c)
  <2>1. SUFFICES ASSUME NEW i \in DOMAIN c, NEW j \in DOMAIN c, i # j
                 PROVE  Extent(c[i]) \cap Extent(c[j]) = {}
    BY DEF Apart
  <2>2. \A a, b \in DOMAIN e : a # b => Extent(e[a]) \cap Extent(e[b]) = {}
    BY DEF NoOverlap, Apart
  <2>3. CASE i # m /\ j # m
    BY <2>1, <2>2, <2>3
  <2>4. CASE i = m
    BY <1>1, <1>5, <2>1, <2>2, <2>4
  <2>5. CASE j = m
    BY <1>1, <1>5, <2>1, <2>2, <2>5
  <2>6. QED
    BY <2>3, <2>4, <2>5
<1>8. \A i \in DOMAIN g, j \in DOMAIN c : Extent(g[i]) \cap Extent(c[j]) = {}
  <2>1. SUFFICES ASSUME NEW i \in DOMAIN g, NEW j \in DOMAIN c
                 PROVE  Extent(g[i]) \cap Extent(c[j]) = {}
    OBVIOUS
  <2>2. CASE j = m
    BY <1>1, <1>3, <1>4, <2>2
  <2>3. CASE j # m
    BY <1>4, <2>3
  <2>4. QED
    BY <2>2, <2>3
<1>9. ASSUME NEW t \in 1 .. 5, NEW u
      PROVE  u \in Covered(c, t) \/ u \in Covered(Typed(g), t)
             <=> u \in Covered(e, t) \/ u \in Covered(Typed(f), t)
  <2>1. u \in Covered(c, t) <=> \E i \in DOMAIN c : c[i].type = t /\ u \in Extent(c[i])
    BY DEF Covered
  <2>2. u \in Covered(e, t) <=> \E i \in DOMAIN e : e[i].type = t /\ u \in Extent(e[i])
    BY InCovered
  <2>3. u \in Covered(Typed(f), t) <=>
          \E i \in DOMAIN f : MemType(f[i].type) = t /\ u \in Extent(f[i])
    BY InTyped
  <2>4. u \in Covered(Typed(g), t) <=>
          \E i \in DOMAIN g : MemType(g[i].type) = t /\ u \in Extent(g[i])
    BY <1>2, InTyped
  <2>5. (\E i \in DOMAIN f : MemType(f[i].type) = t /\ u \in Extent(f[i])) <=>
          \/ MemType(d.type) = t /\ u \in Extent(d)
          \/ \E i \in DOMAIN g : MemType(g[i].type) = t /\ u \in Extent(g[i])
    BY <1>2
  <2>6. (\E i \in DOMAIN c : c[i].type = t /\ u \in Extent(c[i])) <=>
          \/ MemType(d.type) = t /\ u \in Extent(d)
          \/ \E i \in DOMAIN e : e[i].type = t /\ u \in Extent(e[i])
    <3>1. c[m].type = MemType(d.type) /\ Extent(c[m]) = Extent(d) \cup (IF m \in DOMAIN e THEN Extent(e[m]) ELSE {})
      BY <1>1
    <3>2. ASSUME NEW i \in DOMAIN c, c[i].type = t, u \in Extent(c[i])
          PROVE  \/ MemType(d.type) = t /\ u \in Extent(d)
                 \/ \E j \in DOMAIN e : e[j].type = t /\ u \in Extent(e[j])
      <4>1. CASE i = m
        BY <3>1, <3>2, <4>1
      <4>2. CASE i # m
        BY <3>2, <4>2
      <4>3. QED
        BY <4>1, <4>2
    <3>3. ASSUME MemType(d.type) = t, u \in Extent(d)
          PROVE  \E i \in DOMAIN c : c[i].type = t /\ u \in Extent(c[i])
      BY <3>1, <3>3
    <3>4. ASSUME NEW i \in DOMAIN e, e[i].type = t, u \in Extent(e[i])
          PROVE  \E j \in DOMAIN c : c[j].type = t /\ u \in Extent(c[j])
      BY <3>1, <3>4
    <3>5. QED
      BY <3>2, <3>3, <3>4
  <2>7. QED
    BY <2>1, <2>2, <2>3, <2>4, <2>5, <2>6
<1>10. ASSUME KernelIn(f, e) PROVE KernelIn(g, c)
  <2>1. \A X, Y : Holds(X) /\ X \subseteq Y => Holds(Y)
    BY DEF Holds
  <2>2. CASE \E i \in DOMAIN e : e[i].type = 1 /\ Holds(Extent(e[i]))
    <3>1. PICK i \in DOMAIN e : e[i].type = 1 /\ Holds(Extent(e[i]))
      BY <2>2
    <3>2. i \in DOMAIN c /\ c[i].type = 1 /\ Extent(e[i]) \subseteq Extent(c[i])
      BY <3>1
    <3>3. QED
      BY <2>1, <3>1, <3>2 DEF KernelIn
  <2>3. CASE \E i \in DOMAIN f : MemType(f[i].type) = 1 /\ Holds(Extent(f[i]))
    <3>1. PICK i \in DOMAIN f : MemType(f[i].type) = 1 /\ Holds(Extent(f[i]))
      BY <2>3
    <3>2. CASE i = 1
      <4>1. c[m].type = 1 /\ Extent(f[i]) \subseteq Extent(c[m])
        BY <1>1, <1>2, <3>1, <3>2
      <4>2. QED
        BY <2>1, <3>1, <4>1 DEF KernelIn
    <3>3. CASE i # 1
      BY <1>2, <3>1, <3>3 DEF KernelIn
    <3>4. QED
      BY <3>2, <3>3
  <2>4. QED
    BY <1>10, <2>2, <2>3 DEF KernelIn
<1>11. QED
  BY <1>1, <1>6, <1>7, <1>8, <1>9, <1>10 DEF NoOverlap

(* What a turn of the loader's loop does to the table.                     *)
Conversion(m) ==
  LET d == Head(firmware)
  IN /\ m \in DOMAIN e820'
     /\ DOMAIN e820 \subseteq DOMAIN e820' /\ DOMAIN e820' \subseteq DOMAIN e820 \cup {m}
     /\ e820'[m].type = MemType(d.type)
     /\ \A j \in DOMAIN e820 : e820'[j].type = e820[j].type
     /\ \A j \in DOMAIN e820' : j # m => Extent(e820'[j]) = Extent(e820[j])
     /\ Extent(e820'[m]) = Extent(d) \cup (IF m \in DOMAIN e820 THEN Extent(e820[m]) ELSE {})
     /\ e820' # <<>> /\ LastEndAddr' = Last(e820').start + Last(e820').length

(* A new entry holds what its descriptor held.                             *)
LEMMA NewConversion ==
  ASSUME TableInv, NewEntry
  PROVE  e820' \in Seq(TableEntry) /\ \E m \in Nat : Conversion(m)
<1>1. PICK d, n : d = Head(firmware) /\ n = [d EXCEPT !.type = MemType(@)]
  OBVIOUS
<1>2. /\ firmware # <<>> /\ d.length # 0 /\ MemType(d.type) # 0
      /\ e820' = Append(e820, n) /\ LastEndAddr' = d.start + d.length
  BY <1>1 DEF NewEntry, Converting, Valid
<1>3. d \in Desc /\ e820 \in Seq(TableEntry)
  BY <1>1, <1>2, HeadAndTail DEF TableInv
<1>4. n.type = MemType(d.type) /\ n.start = d.start /\ n.length = d.length
      /\ n = [type |-> MemType(d.type), start |-> d.start, length |-> d.length]
  BY <1>1, <1>3 DEF Desc
<1>5. n \in TableEntry
  BY <1>2, <1>3, <1>4, MemTypeRange DEF Desc, TableEntry
<1>6. PICK m \in Nat \ {0} : m = Len(e820) + 1
  BY <1>3
<1>7. /\ e820' \in Seq(TableEntry) /\ DOMAIN e820' = 1 .. m /\ DOMAIN e820 = 1 .. m - 1
      /\ e820'[m] = n /\ \A j \in 1 .. m - 1 : e820'[j] = e820[j]
      /\ Len(e820') = m
  BY <1>2, <1>3, <1>5, <1>6
<1>8. Last(e820') = n /\ e820' # <<>>
  BY <1>6, <1>7 DEF Last
<1>9. Extent(n) = Extent(d)
  BY <1>4 DEF Extent
<1>10. m \notin DOMAIN e820 /\ m \in DOMAIN e820'
  BY <1>6, <1>7
<1>11. Conversion(m)
  <2>1. \A j \in DOMAIN e820' : j # m => Extent(e820'[j]) = Extent(e820[j])
    BY <1>7
  <2>2. LastEndAddr' = Last(e820').start + Last(e820').length
    BY <1>2, <1>4, <1>8
  <2>3. DOMAIN e820 \subseteq DOMAIN e820' /\ DOMAIN e820' \subseteq DOMAIN e820 \cup {m}
    BY <1>6, <1>7
  <2>4. e820'[m].type = MemType(d.type) /\ \A j \in DOMAIN e820 : e820'[j].type = e820[j].type
    BY <1>4, <1>7
  <2>5. QED
    BY <1>1, <1>7, <1>8, <1>9, <1>10, <2>1, <2>2, <2>3, <2>4 DEF Conversion
<1>12. QED
  BY <1>7, <1>11

(* An entry that is lengthened holds what it held and what the descriptor  *)
(* did: the descriptor starts where the entry ends.                        *)
LEMMA MergeConversion ==
  ASSUME TableInv, MergeDescriptor
  PROVE  e820' \in Seq(TableEntry) /\ \E m \in Nat : Conversion(m)
<1>1. PICK d : d = Head(firmware)
  OBVIOUS
<1>2. PICK m : m = Len(e820)
  OBVIOUS
<1>3. /\ firmware # <<>> /\ stage = "convert"
      /\ e820 # <<>> /\ Last(e820).type = MemType(d.type) /\ d.start = LastEndAddr
      /\ e820' = [e820 EXCEPT ![m].length = @ + d.length]
      /\ LastEndAddr' = LastEndAddr + d.length
  BY <1>1, <1>2 DEF MergeDescriptor, Converting, Continues
<1>4. d \in Desc /\ e820 \in Seq(TableEntry)
  BY <1>1, <1>3, HeadAndTail DEF TableInv
<1>5. m \in Nat \ {0} /\ DOMAIN e820 = 1 .. m /\ Last(e820) = e820[m] /\ e820[m] \in TableEntry
  BY <1>2, <1>3, <1>4 DEF Last
<1>6. PICK o, n : o = e820[m] /\ n = [o EXCEPT !.length = @ + d.length]
  OBVIOUS
<1>7. /\ o \in TableEntry /\ o.start \in Nat /\ o.length \in Nat \ {0} /\ d.length \in Nat
      /\ n \in TableEntry /\ n.type = o.type /\ n.start = o.start /\ n.length = o.length + d.length
  <2>1. /\ o \in TableEntry /\ o.type \in 1 .. 5 /\ o.start \in Nat /\ o.length \in Nat \ {0}
        /\ d.length \in Nat
    BY <1>4, <1>5, <1>6 DEF TableEntry, Desc
  <2>2. /\ n.type = o.type /\ n.start = o.start /\ n.length = o.length + d.length
        /\ n = [type |-> o.type, start |-> o.start, length |-> o.length + d.length]
    BY <1>6, <2>1 DEF TableEntry
  <2>3. o.length + d.length \in Nat \ {0}
    BY <2>1
  <2>4. n \in TableEntry
    BY <2>1, <2>2, <2>3 DEF TableEntry
  <2>5. QED
    BY <2>1, <2>2, <2>4
<1>8. /\ e820' \in Seq(TableEntry) /\ DOMAIN e820' = 1 .. m /\ Len(e820') = m
      /\ e820'[m] = n /\ \A j \in 1 .. m : j # m => e820'[j] = e820[j]
  <2>1. e820' = [e820 EXCEPT ![m] = n]
    BY <1>3, <1>6
  <2>2. QED
    BY <1>2, <1>4, <1>5, <1>7, <2>1
<1>9. Last(e820') = n /\ e820' # <<>>
  BY <1>5, <1>8 DEF Last
<1>10. d.start = o.start + o.length
  BY <1>3, <1>5, <1>6 DEF TableInv
<1>11. Extent(n) = Extent(d) \cup Extent(o)
  BY <1>7, <1>10 DEF Extent
<1>12. LastEndAddr' = n.start + n.length
  BY <1>3, <1>7, <1>10
<1>13. Conversion(m)
  <2>1. m \in DOMAIN e820' /\ m \in DOMAIN e820 /\ DOMAIN e820' = DOMAIN e820
    BY <1>5, <1>8
  <2>2. e820'[m].type = MemType(d.type)
    BY <1>3, <1>5, <1>6, <1>7, <1>8
  <2>3. \A j \in DOMAIN e820 : e820'[j].type = e820[j].type
    BY <1>5, <1>6, <1>7, <1>8
  <2>4. \A j \in DOMAIN e820' : j # m => Extent(e820'[j]) = Extent(e820[j])
    BY <1>8
  <2>5. QED
    BY <1>1, <1>6, <1>8, <1>9, <1>11, <1>12, <2>1, <2>2, <2>3, <2>4 DEF Conversion
<1>14. QED
  BY <1>5, <1>8, <1>13

(* Each turn of the loader's loop keeps what the table says.               *)
LEMMA ConvertStep ==
  ASSUME TableInv, KernelThere, SkipDescriptor \/ MergeDescriptor \/ NewEntry
  PROVE  TableInv' /\ KernelThere'
<1>1. /\ stage = "convert" /\ firmware # <<>> /\ firmware' = Tail(firmware)
      /\ UNCHANGED <<stage, given, sorting>>
  BY DEF SkipDescriptor, MergeDescriptor, NewEntry, Converting
<1>2. /\ firmware \in Seq(Desc) /\ e820 \in Seq(TableEntry) /\ NoOverlap(firmware, e820)
      /\ \A t \in 1 .. 5 : Covered(e820, t) \cup Covered(Typed(firmware), t) = given[t]
      /\ sorting = <<1, 2>>
      /\ e820 # <<>> => LastEndAddr = Last(e820).start + Last(e820).length
  BY <1>1 DEF TableInv
<1>3. firmware' \in Seq(Desc)
  BY <1>1, <1>2, HeadAndTail
<1>4. /\ e820' \in Seq(TableEntry) /\ NoOverlap(firmware, e820)'
      /\ \A t \in 1 .. 5 : Covered(e820, t)' \cup Covered(Typed(firmware), t)' = given[t]
      /\ KernelThere'
      /\ e820' # <<>> => LastEndAddr' = Last(e820').start + Last(e820').length
  <2>1. CASE MergeDescriptor \/ NewEntry
    <3>1. e820' \in Seq(TableEntry)
      BY <2>1, NewConversion, MergeConversion
    <3>2. PICK m \in Nat : Conversion(m)
      BY <2>1, NewConversion, MergeConversion
    <3>3. /\ NoOverlap(Tail(firmware), e820')
          /\ \A t \in 1 .. 5 : Covered(e820', t) \cup Covered(Typed(Tail(firmware)), t)
                                 = Covered(e820, t) \cup Covered(Typed(firmware), t)
          /\ KernelIn(firmware, e820) => KernelIn(Tail(firmware), e820')
      <4>1. PICK c, e, f : c = e820' /\ e = e820 /\ f = firmware
        OBVIOUS
      <4>2. /\ m \in DOMAIN c /\ DOMAIN e \subseteq DOMAIN c /\ DOMAIN c \subseteq DOMAIN e \cup {m}
            /\ c[m].type = MemType(Head(f).type)
            /\ \A j \in DOMAIN e : c[j].type = e[j].type
            /\ \A j \in DOMAIN c : j # m => Extent(c[j]) = Extent(e[j])
            /\ Extent(c[m]) = Extent(Head(f)) \cup (IF m \in DOMAIN e THEN Extent(e[m]) ELSE {})
        BY <3>2, <4>1 DEF Conversion
      <4>3. f \in Seq(Desc) /\ f # <<>> /\ e \in Seq(TableEntry) /\ c \in Seq(TableEntry) /\ NoOverlap(f, e)
        BY <1>1, <1>2, <3>1, <4>1
      <4>4. /\ NoOverlap(Tail(f), c)
            /\ \A t \in 1 .. 5 : Covered(c, t) \cup Covered(Typed(Tail(f)), t)
                                   = Covered(e, t) \cup Covered(Typed(f), t)
            /\ KernelIn(f, e) => KernelIn(Tail(f), c)
        <5>1. Addition(f, e, c, m)
          BY <4>2, <4>3 DEF Addition
        <5>2. QED
          BY <5>1, Added
      <4>5. QED
        BY <4>1, <4>4
    <3>4. QED
      BY <1>1, <1>2, <3>1, <3>2, <3>3 DEF KernelThere, Conversion
  <2>2. CASE SkipDescriptor
    <3>1. e820' = e820 /\ LastEndAddr' = LastEndAddr /\ ~Valid(Head(firmware))
      BY <2>2 DEF SkipDescriptor
    <3>2. PICK d, g : d = Head(firmware) /\ g = Tail(firmware)
      OBVIOUS
    <3>3. /\ d \in Desc /\ g \in Seq(Desc) /\ 1 \in DOMAIN firmware /\ firmware[1] = d
          /\ \A i \in DOMAIN g : i + 1 \in DOMAIN firmware /\ i + 1 # 1 /\ firmware[i + 1] = g[i]
          /\ \A i \in DOMAIN firmware : i # 1 => i - 1 \in DOMAIN g /\ g[i - 1] = firmware[i]
      BY <1>1, <1>2, <3>2, HeadAndTail
    <3>4. \A t \in 1 .. 5 : MemType(d.type) = t => Extent(d) = {}
      BY <3>1, <3>2, <3>3 DEF Valid, Desc, Extent
    <3>5. NoOverlap(g, e820)
      <4>1. Apart(g)
        <5>1. SUFFICES ASSUME NEW i \in DOMAIN g, NEW j \in DOMAIN g, i # j
                       PROVE  Extent(g[i]) \cap Extent(g[j]) = {}
          BY DEF Apart
        <5>2. i + 1 # j + 1
          BY <3>3, <5>1
        <5>3. QED
          BY <1>2, <3>3, <5>2 DEF NoOverlap, Apart
      <4>2. QED
        BY <1>2, <3>3, <4>1 DEF NoOverlap
    <3>6. \A t \in 1 .. 5 : Covered(Typed(g), t) = Covered(Typed(firmware), t)
      <4>1. SUFFICES ASSUME NEW t \in 1 .. 5, NEW u
                     PROVE  u \in Covered(Typed(g), t) <=> u \in Covered(Typed(firmware), t)
        OBVIOUS
      <4>2. u \in Covered(Typed(firmware), t) <=>
              \E i \in DOMAIN firmware : MemType(firmware[i].type) = t /\ u \in Extent(firmware[i])
        BY <1>2, InTyped
      <4>3. u \in Covered(Typed(g), t) <=>
              \E i \in DOMAIN g : MemType(g[i].type) = t /\ u \in Extent(g[i])
        BY <3>3, InTyped
      <4>4. QED
        BY <3>3, <3>4, <4>2, <4>3
    <3>7. KernelIn(g, e820)
      <4>1. KernelIn(firmware, e820) /\ 1 \in KernelPages
        BY DEF KernelThere
      <4>2. CASE \E i \in DOMAIN e820 : e820[i].type = 1 /\ Holds(Extent(e820[i]))
        BY <4>2 DEF KernelIn
      <4>3. CASE \E i \in DOMAIN firmware :
                   MemType(firmware[i].type) = 1 /\ Holds(Extent(firmware[i]))
        <5>1. PICK i \in DOMAIN firmware :
                     MemType(firmware[i].type) = 1 /\ Holds(Extent(firmware[i]))
          BY <4>3
        <5>2. PAGE \in Extent(firmware[i])
          <6>1. Units(1) \subseteq Extent(firmware[i])
            BY <4>1, <5>1 DEF Holds
          <6>2. PAGE \in Units(1)
            BY DEF Units
          <6>3. QED
            BY <6>1, <6>2
        <5>3. i # 1
          BY <3>3, <3>4, <5>1, <5>2
        <5>4. QED
          BY <3>3, <5>1, <5>3 DEF KernelIn
      <4>4. QED
        BY <4>1, <4>2, <4>3 DEF KernelIn
    <3>8. QED
      BY <1>1, <1>2, <3>1, <3>2, <3>5, <3>6, <3>7 DEF KernelThere
  <2>3. QED
    BY <2>1, <2>2
<1>5. QED
  BY <1>1, <1>2, <1>3, <1>4 DEF TableInv

(* An exchange of two entries.                                             *)
Exchange(e, c, i, j) ==
  /\ i \in DOMAIN e /\ j \in DOMAIN e /\ i # j
  /\ DOMAIN c = DOMAIN e /\ c[i] = e[j] /\ c[j] = e[i]
  /\ \A a \in DOMAIN e : a # i /\ a # j => c[a] = e[a]

LEMMA Exchanged ==
  ASSUME NEW e, NEW c, NEW i, NEW j, Exchange(e, c, i, j)
  PROVE  /\ Apart(e) => Apart(c)
         /\ \A t : Covered(c, t) = Covered(e, t)
         /\ \A f : KernelIn(f, e) => KernelIn(f, c)
<1>1. /\ i \in DOMAIN e /\ j \in DOMAIN e /\ i # j
      /\ DOMAIN c = DOMAIN e /\ c[i] = e[j] /\ c[j] = e[i]
      /\ \A a \in DOMAIN e : a # i /\ a # j => c[a] = e[a]
  BY DEF Exchange
<1>2. \A a \in DOMAIN e : \E b \in DOMAIN c : c[b] = e[a]
  BY <1>1
<1>3. \A a \in DOMAIN c : \E b \in DOMAIN e : c[a] = e[b]
  BY <1>1
<1>4. ASSUME Apart(e) PROVE Apart(c)
  <2>1. SUFFICES ASSUME NEW a \in DOMAIN c, NEW b \in DOMAIN c, a # b
                 PROVE  Extent(c[a]) \cap Extent(c[b]) = {}
    BY DEF Apart
  <2>2. PICK x, y : /\ x \in DOMAIN e /\ y \in DOMAIN e /\ x # y
                    /\ c[a] = e[x] /\ c[b] = e[y]
    <3>1. CASE a = i
      <4>1. CASE b = j
        BY <1>1, <2>1, <3>1, <4>1
      <4>2. CASE b # j
        BY <1>1, <2>1, <3>1, <4>2
      <4>3. QED
        BY <4>1, <4>2
    <3>2. CASE a = j
      <4>1. CASE b = i
        BY <1>1, <2>1, <3>2, <4>1
      <4>2. CASE b # i
        BY <1>1, <2>1, <3>2, <4>2
      <4>3. QED
        BY <4>1, <4>2
    <3>3. CASE a # i /\ a # j
      <4>1. CASE b = i
        BY <1>1, <2>1, <3>3, <4>1
      <4>2. CASE b = j
        BY <1>1, <2>1, <3>3, <4>2
      <4>3. CASE b # i /\ b # j
        BY <1>1, <2>1, <3>3, <4>3
      <4>4. QED
        BY <4>1, <4>2, <4>3
    <3>4. QED
      BY <3>1, <3>2, <3>3
  <2>3. QED
    BY <1>4, <2>2 DEF Apart
<1>5. \A t : Covered(c, t) = Covered(e, t)
  <2>1. SUFFICES ASSUME NEW t
                 PROVE  \A u : u \in Covered(c, t) <=> u \in Covered(e, t)
    BY DEF Covered
  <2>0. TAKE u
  <2>2. u \in Covered(c, t) <=> \E a \in DOMAIN c : c[a].type = t /\ u \in Extent(c[a])
    BY DEF Covered
  <2>3. u \in Covered(e, t) <=> \E a \in DOMAIN e : e[a].type = t /\ u \in Extent(e[a])
    BY InCovered
  <2>4. QED
    BY <1>2, <1>3, <2>2, <2>3
<1>6. ASSUME NEW f, KernelIn(f, e) PROVE KernelIn(f, c)
  BY <1>2, <1>6 DEF KernelIn
<1>7. QED
  BY <1>1, <1>4, <1>5, <1>6

(* The sort keeps what the table holds, and puts it in order.              *)
LEMMA SortStepKeeps ==
  ASSUME TableInv, KernelThere, SortStep
  PROVE  TableInv' /\ KernelThere'
<1>1. PICK i, j : i = sorting[1] /\ j = sorting[2]
  OBVIOUS
<1>2. /\ stage = "sort" /\ firmware = <<>> /\ firmware' = firmware /\ given' = given
      /\ sorting \in (Nat \ {0}) \X Nat /\ SortedUpTo(i, j)
      /\ i \in Nat \ {0} /\ j \in Nat /\ i < j
      /\ e820 \in Seq(TableEntry) /\ NoOverlap(firmware, e820)
      /\ \A t \in 1 .. 5 : Covered(e820, t) \cup Covered(Typed(firmware), t) = given[t]
      /\ 1 \in KernelPages /\ KernelIn(firmware, e820)
  BY <1>1 DEF SortStep, TableInv, KernelThere
<1>3. CASE i > Len(e820)
  <2>1. stage' = "init_memory" /\ e820' = e820 /\ sorting' = sorting
    BY <1>1, <1>3 DEF SortStep
  <2>2. \A a, b \in DOMAIN e820 : a < b => e820[a].start <= e820[b].start
    BY <1>2, <1>3 DEF SortedUpTo
  <2>3. QED
    BY <1>2, <2>1, <2>2 DEF TableInv, KernelThere, Stages
<1>4. CASE ~(i > Len(e820)) /\ j > Len(e820)
  <2>1. stage' = stage /\ e820' = e820 /\ sorting' = <<i + 1, i + 2>>
    BY <1>1, <1>4 DEF SortStep
  <2>2. SortedUpTo(i + 1, i + 2)
    BY <1>2, <1>4 DEF SortedUpTo
  <2>3. SortedUpTo(sorting[1], sorting[2])'
    BY <2>1, <2>2 DEF SortedUpTo
  <2>4. sorting' \in (Nat \ {0}) \X Nat /\ sorting'[1] < sorting'[2]
    BY <1>2, <2>1
  <2>5. QED
    BY <1>2, <2>1, <2>3, <2>4 DEF TableInv, KernelThere, Stages
<1>5. CASE i <= Len(e820) /\ j <= Len(e820)
  <2>1. /\ stage' = stage /\ sorting' = <<i, j + 1>>
        /\ e820' = IF e820[i].start > e820[j].start
                   THEN [e820 EXCEPT ![i] = e820[j], ![j] = e820[i]] ELSE e820
    BY <1>1, <1>2, <1>5 DEF SortStep
  <2>2. sorting' \in (Nat \ {0}) \X Nat /\ sorting'[1] < sorting'[2]
        /\ sorting'[1] = i /\ sorting'[2] = j + 1
    BY <1>2, <2>1
  <2>3. i \in DOMAIN e820 /\ j \in DOMAIN e820 /\ i # j
    BY <1>2, <1>5
  <2>4. \A a \in DOMAIN e820 : e820[a].start \in Nat
    <3>1. \A a \in DOMAIN e820 : e820[a] \in TableEntry
      BY <1>2
    <3>2. QED
      BY <3>1 DEF TableEntry
  <2>5. CASE ~(e820[i].start > e820[j].start)
    <3>1. e820' = e820
      BY <2>1, <2>5
    <3>2. SortedUpTo(i, j + 1)
      BY <1>2, <2>3, <2>4, <2>5 DEF SortedUpTo
    <3>3. SortedUpTo(sorting[1], sorting[2])'
      BY <2>2, <3>1, <3>2 DEF SortedUpTo
    <3>4. QED
      BY <1>2, <2>1, <2>2, <3>1, <3>3 DEF TableInv, KernelThere, Stages
  <2>6. CASE e820[i].start > e820[j].start
    <3>1. PICK c : c = [e820 EXCEPT ![i] = e820[j], ![j] = e820[i]]
      OBVIOUS
    <3>2. e820' = c
      BY <2>1, <2>6, <3>1
    <3>0. PICK e, f : e = e820 /\ f = firmware
      OBVIOUS
    <3>3. /\ c \in Seq(TableEntry) /\ Len(c) = Len(e820)
          /\ c[i] = e820[j] /\ c[j] = e820[i]
          /\ \A a \in DOMAIN e820 : a # i /\ a # j => c[a] = e820[a]
          /\ Apart(e820) => Apart(c)
          /\ \A t : Covered(c, t) = Covered(e820, t)
          /\ KernelIn(firmware, e820) => KernelIn(firmware, c)
      <4>1. /\ e \in Seq(TableEntry) /\ i \in DOMAIN e /\ j \in DOMAIN e /\ i # j
            /\ c = [e EXCEPT ![i] = e[j], ![j] = e[i]]
        BY <1>2, <2>3, <3>0, <3>1
      <4>2. /\ c \in Seq(TableEntry) /\ Len(c) = Len(e)
            /\ c[i] = e[j] /\ c[j] = e[i]
            /\ \A a \in DOMAIN e : a # i /\ a # j => c[a] = e[a]
            /\ Apart(e) => Apart(c)
            /\ \A t : Covered(c, t) = Covered(e, t)
            /\ KernelIn(f, e) => KernelIn(f, c)
        <5>1. /\ c \in Seq(TableEntry) /\ Len(c) = Len(e) /\ DOMAIN c = DOMAIN e
              /\ c[i] = e[j] /\ c[j] = e[i]
              /\ \A a \in DOMAIN e : a # i /\ a # j => c[a] = e[a]
          BY <4>1
        <5>2. /\ Apart(e) => Apart(c)
              /\ \A t : Covered(c, t) = Covered(e, t)
              /\ \A g : KernelIn(g, e) => KernelIn(g, c)
          <6>1. Exchange(e, c, i, j)
            BY <4>1, <5>1 DEF Exchange
          <6>2. QED
            BY <6>1, Exchanged
        <5>3. QED
          BY <5>1, <5>2
      <4>3. QED
        BY <3>0, <4>2
    <3>4. DOMAIN c = DOMAIN e820
      BY <1>2, <3>3
    <3>5. NoOverlap(firmware, c)
      <4>1. DOMAIN firmware = {}
        BY <1>2
      <4>2. QED
        BY <1>2, <3>3, <4>1 DEF NoOverlap
    <3>6. \A a, b \in DOMAIN c : a < b /\ a < i => c[a].start <= c[b].start
      <4>1. SUFFICES ASSUME NEW a \in DOMAIN c, NEW b \in DOMAIN c, a < b, a < i
                     PROVE  c[a].start <= c[b].start
        OBVIOUS
      <4>2. /\ c[a] = e820[a] /\ a \in Nat /\ b \in Nat
        <5>1. a \in Nat /\ b \in Nat /\ a # i /\ a # j
          BY <1>2, <3>3, <4>1
        <5>2. QED
          BY <3>3, <3>4, <5>1
      <4>3. PICK x : x \in DOMAIN e820 /\ a < x /\ c[b] = e820[x]
        <5>1. CASE b = i
          <6>1. a < j /\ c[b] = e820[j]
            BY <1>2, <3>3, <4>1, <4>2, <5>1
          <6>2. QED
            BY <2>3, <6>1
        <5>2. CASE b = j
          BY <1>2, <2>3, <3>3, <4>1, <4>2, <5>2
        <5>3. CASE b # i /\ b # j
          BY <3>3, <3>4, <4>1, <5>3
        <5>4. QED
          BY <5>1, <5>2, <5>3
      <4>4. QED
        BY <1>2, <3>4, <4>1, <4>2, <4>3 DEF SortedUpTo
    <3>7. \A b \in DOMAIN c : i < b /\ b < j + 1 => c[i].start <= c[b].start
      <4>1. SUFFICES ASSUME NEW b \in DOMAIN c, i < b, b < j + 1
                     PROVE  c[i].start <= c[b].start
        OBVIOUS
      <4>2. b \in Nat
        BY <1>2, <3>3
      <4>3. CASE b = j
        BY <2>3, <2>4, <2>6, <3>3, <4>3
      <4>4. CASE b # j
        <5>1. c[b] = e820[b] /\ b < j
          BY <1>2, <3>3, <3>4, <4>1, <4>2, <4>4
        <5>2. e820[i].start <= e820[b].start
          BY <1>2, <3>4, <4>1, <5>1 DEF SortedUpTo
        <5>3. QED
          BY <2>3, <2>4, <2>6, <3>3, <3>4, <5>1, <5>2
      <4>5. QED
        BY <4>3, <4>4
    <3>8. SortedUpTo(sorting[1], sorting[2])'
      BY <2>2, <3>2, <3>6, <3>7 DEF SortedUpTo
    <3>9. QED
      <4>1. KernelThere'
        BY <1>2, <3>2, <3>3 DEF KernelThere
      <4>2. \A t \in 1 .. 5 : Covered(e820, t)' \cup Covered(Typed(firmware), t)' = given'[t]
        BY <1>2, <3>2, <3>3
      <4>3. e820' \in Seq(TableEntry) /\ NoOverlap(firmware, e820)' /\ stage' \in Stages
        BY <1>2, <2>1, <3>2, <3>3, <3>5 DEF Stages
      <4>4. QED
        BY <1>2, <2>1, <2>2, <3>8, <4>1, <4>2, <4>3 DEF TableInv
  <2>7. QED
    BY <2>5, <2>6
<1>6. QED
  BY <1>2, <1>3, <1>4, <1>5

(* The other steps leave the table alone.                                  *)
LEMMA TableStays ==
  ASSUME TableInv, KernelThere, stage' \in Stages,
         \/ stage' = stage
         \/ stage = "convert" /\ stage' = "sort" /\ firmware = <<>>
         \/ stage \notin {"convert", "sort"} /\ stage' \notin {"convert", "sort"},
         UNCHANGED <<firmware, given, e820, LastEndAddr, sorting>>
  PROVE  TableInv' /\ KernelThere'
<1>1. KernelThere'
  BY DEF KernelThere
<1>2. /\ firmware' \in Seq(Desc) /\ e820' \in Seq(TableEntry) /\ NoOverlap(firmware, e820)'
      /\ \A t \in 1 .. 5 : Covered(e820', t) \cup Covered(Typed(firmware'), t) = given'[t]
      /\ stage' # "convert" => firmware' = <<>>
  BY DEF TableInv
<1>3. stage' = "sort" =>
       /\ sorting' \in (Nat \ {0}) \X Nat /\ sorting'[1] < sorting'[2]
       /\ SortedUpTo(sorting[1], sorting[2])'
  <2>1. CASE stage = "sort" /\ stage' = "sort"
    BY <2>1 DEF TableInv, SortedUpTo
  <2>2. CASE stage = "convert" /\ stage' = "sort"
    <3>1. sorting' = <<1, 2>> /\ e820' \in Seq(TableEntry)
      BY <1>2, <2>2 DEF TableInv
    <3>2. SortedUpTo(1, 2)'
      BY <3>1 DEF SortedUpTo
    <3>3. QED
      BY <3>1, <3>2
  <2>3. QED
    BY <2>1, <2>2
<1>4. /\ stage' = "convert" =>
           /\ e820' # <<>> => LastEndAddr' = Last(e820').start + Last(e820').length
           /\ sorting' = <<1, 2>>
      /\ stage' \notin {"convert", "sort"} =>
           \A a, b \in DOMAIN e820' : a < b => e820'[a].start <= e820'[b].start
  <2>1. e820' = e820 /\ LastEndAddr' = LastEndAddr /\ sorting' = sorting
    OBVIOUS
  <2>2. CASE stage' = "convert"
    <3>1. stage = "convert"
      BY <2>2
    <3>2. QED
      BY <2>1, <2>2, <3>1 DEF TableInv
  <2>3. CASE stage' \notin {"convert", "sort"} /\ stage \notin {"convert", "sort"}
    BY <2>1, <2>3 DEF TableInv
  <2>4. stage' \notin {"convert", "sort"} => stage \notin {"convert", "sort"}
    OBVIOUS
  <2>5. QED
    BY <2>2, <2>3, <2>4
<1>5. QED
  BY <1>1, <1>2, <1>3, <1>4 DEF TableInv

(* At the start everything is still in the firmware's map.                 *)
LEMMA TableInit == MapInit => TableInv /\ KernelThere /\ GivenInv
<1>1. SUFFICES ASSUME MapInit PROVE TableInv /\ KernelThere /\ GivenInv
  OBVIOUS
<1>2. /\ stage = "convert" /\ firmware \in Maps /\ e820 = <<>> /\ sorting = <<1, 2>>
      /\ end_of_struct \in EndPages
      /\ given = [t \in 1 .. 5 |-> Covered(Typed(firmware), t)]
  BY <1>1 DEF MapInit
<1>3. DOMAIN e820 = {} /\ e820 \in Seq(TableEntry)
  BY <1>2
<1>4. firmware \in Seq(Desc) /\ Apart(firmware)
  BY <1>2 DEF Desc, Apart
<1>5. TableInv
  <2>1. NoOverlap(firmware, e820)
    BY <1>3, <1>4 DEF NoOverlap, Apart
  <2>2. \A t \in 1 .. 5 : Covered(e820, t) \cup Covered(Typed(firmware), t) = given[t]
    <3>1. \A t : Covered(e820, t) = {}
      BY <1>3 DEF Covered
    <3>2. QED
      BY <1>2, <3>1
  <2>3. QED
    BY <1>2, <1>3, <1>4, <2>1, <2>2 DEF TableInv, Stages
<1>6. KernelThere
  <2>1. 1 \in KernelPages
    <3>1. PICK last : last = end_of_struct + 1
      OBVIOUS
    <3>2. 1 \in 1 .. last /\ last \in {e + 1 : e \in EndPages}
      BY <1>2, <3>1
    <3>3. QED
      BY <3>2 DEF KernelPages
  <2>2. \E i \in DOMAIN firmware : MemType(firmware[i].type) = 1 /\ Holds(Extent(firmware[i]))
    BY <1>2, KernelAssumption DEF Holds
  <2>3. QED
    BY <2>1, <2>2 DEF KernelThere, KernelIn
<1>7. GivenInv
  <2>1. given[1] = Ram(firmware) /\ given[5] = Covered(Typed(firmware), 5)
    BY <1>2 DEF Ram
  <2>2. ~(Units(0) \subseteq Ram(firmware))
        /\ \A u \in Units(1), v \in Covered(Typed(firmware), 5) : u < v
    BY <1>2, KernelAssumption
  <2>3. /\ \A p \in FrameBuffer \cup {IOAPIC} : ~(Units(p) \subseteq Ram(firmware))
        /\ FourGB * PAGE - 1 \notin Ram(firmware)
    BY <1>2, MappingAssumption
  <2>4. QED
    BY <2>1, <2>2, <2>3 DEF GivenInv
<1>8. QED
  BY <1>5, <1>6, <1>7

\* A step of the kernel: the table is made.
KernelStep ==
  \/ init_memory \/ InitZone \/ InitKernelPages \/ kmalloc_slab_init
  \/ frame_buffer_init \/ pagetable_init \/ IOAPIC_pagetable_remap
  \/ Allocate

(* The kernel does not change the table.                                   *)
LEMMA KernelStepStays ==
  ASSUME KernelStep
  PROVE  /\ stage \notin {"convert", "sort"} /\ stage' \in Stages \ {"convert", "sort"}
         /\ UNCHANGED <<firmware, given, e820, LastEndAddr, sorting>>
<1>1. CASE init_memory
  BY <1>1 DEF init_memory, boot, Stages
<1>2. CASE InitZone
  BY <1>2 DEF InitZone, Stages
<1>3. CASE InitKernelPages
  BY <1>3 DEF InitKernelPages, boot, Stages
<1>4. CASE kmalloc_slab_init
  BY <1>4 DEF kmalloc_slab_init, boot, Stages
<1>5. CASE frame_buffer_init
  BY <1>5 DEF frame_buffer_init, boot, Stages
<1>6. CASE pagetable_init
  BY <1>6 DEF pagetable_init, boot, Stages
<1>7. CASE IOAPIC_pagetable_remap
  BY <1>7 DEF IOAPIC_pagetable_remap, boot, Stages
<1>8. CASE Allocate
  BY <1>8 DEF Allocate, boot, Stages
<1>9. QED
  BY <1>1, <1>2, <1>3, <1>4, <1>5, <1>6, <1>7, <1>8 DEF KernelStep

(* Every step keeps what the table says.                                   *)
LEMMA TableStep ==
  ASSUME TableInv, KernelThere, GivenInv, [MapNext]_allVars
  PROVE  TableInv' /\ KernelThere' /\ GivenInv'
<1>1. given' = given /\ (GivenInv')
  <2>1. given' = given
    <3>1. CASE SkipDescriptor \/ MergeDescriptor \/ NewEntry \/ Converted \/ SortStep
      BY <3>1 DEF SkipDescriptor, MergeDescriptor, NewEntry, Converting, Converted,
        SortStep, boot
    <3>2. CASE KernelStep
      BY <3>2, KernelStepStays
    <3>3. CASE UNCHANGED allVars
      BY <3>3 DEF allVars, boot
    <3>4. QED
      BY <3>1, <3>2, <3>3 DEF MapNext, KernelStep
  <2>2. QED
    BY <2>1 DEF GivenInv
<1>2. CASE SkipDescriptor \/ MergeDescriptor \/ NewEntry
  BY <1>1, <1>2, ConvertStep
<1>3. CASE Converted
  <2>1. /\ stage = "convert" /\ stage' = "sort" /\ firmware = <<>>
        /\ UNCHANGED <<firmware, given, e820, LastEndAddr, sorting>>
    BY <1>3 DEF Converted, boot
  <2>2. QED
    BY <1>1, <2>1, TableStays DEF Stages
<1>4. CASE SortStep
  BY <1>1, <1>4, SortStepKeeps
<1>5. CASE KernelStep
  BY <1>1, <1>5, KernelStepStays, TableStays
<1>6. CASE UNCHANGED allVars
  <2>1. stage' = stage /\ UNCHANGED <<firmware, given, e820, LastEndAddr, sorting>>
    BY <1>6 DEF allVars, boot
  <2>2. stage \in Stages
    BY DEF TableInv
  <2>3. QED
    BY <1>1, <2>1, <2>2, TableStays
<1>7. QED
  BY <1>2, <1>3, <1>4, <1>5, <1>6 DEF MapNext, KernelStep

(* A sorted table without overlaps: each entry ends before the next        *)
(* begins.                                                                 *)
LEMMA InOrder ==
  ASSUME TableInv, stage \notin {"convert", "sort"}
  PROVE  \A a, b \in DOMAIN e820 : a < b =>
           e820[a].start + e820[a].length <= e820[b].start
<1>1. SUFFICES ASSUME NEW a \in DOMAIN e820, NEW b \in DOMAIN e820, a < b
               PROVE  e820[a].start + e820[a].length <= e820[b].start
  OBVIOUS
<1>2. e820 \in Seq(TableEntry) /\ a # b
  BY <1>1 DEF TableInv
<1>3. PICK d, e : d = e820[a] /\ e = e820[b]
  OBVIOUS
<1>4. d \in TableEntry /\ e \in TableEntry
  BY <1>2, <1>3
<1>5. Extent(d) \cap Extent(e) = {} /\ d.start <= e.start
  BY <1>1, <1>2, <1>3 DEF TableInv, NoOverlap, Apart
<1>6. /\ d.start \in Nat /\ e.start \in Nat
      /\ d.length \in Nat /\ e.length \in Nat /\ e.length # 0
  BY <1>4 DEF TableEntry
<1>7. e.start \in Extent(e)
  BY <1>6 DEF Extent
<1>8. e.start \notin Extent(d)
  BY <1>5, <1>7
<1>9. d.start + d.length <= e.start
  BY <1>5, <1>6, <1>8 DEF Extent
<1>10. QED
  BY <1>3, <1>9

(* What the invariant says of the table is what is promised of it.         *)
LEMMA TableIsMap == TableInv => MapKept
<1>1. SUFFICES ASSUME TableInv PROVE MapKept
  OBVIOUS
<1>2. /\ \A t \in 1 .. 5 : Covered(e820, t) \cup Covered(Typed(firmware), t) = given[t]
      /\ Apart(e820) /\ e820 \in Seq(TableEntry)
  BY <1>1 DEF TableInv, NoOverlap
<1>3. ASSUME stage \notin {"convert", "sort"} PROVE Ordered(e820)
  <2>1. SUFFICES ASSUME NEW i \in DOMAIN e820, i > 1
                 PROVE  e820[i - 1].start + e820[i - 1].length <= e820[i].start
    BY DEF Ordered
  <2>2. i - 1 \in DOMAIN e820 /\ i - 1 < i
    BY <1>2, <2>1
  <2>3. QED
    BY <1>1, <1>3, <2>2, InOrder
<1>4. QED
  BY <1>2, <1>3 DEF MapKept, Apart

(* The loader loses nothing of the firmware's map, whatever the map, and   *)
(* gives the kernel a table in the order of addresses.                     *)
THEOREM MapIsKept == MapSpec => []MapKept
<1>1. MapInit => TableInv /\ KernelThere /\ GivenInv
  BY TableInit
<1>2. TableInv /\ KernelThere /\ GivenInv /\ [MapNext]_allVars
        => TableInv' /\ KernelThere' /\ GivenInv'
  BY TableStep
<1>3. TableInv => MapKept
  BY TableIsMap
<1>4. QED
  BY <1>1, <1>2, <1>3, PTL DEF MapSpec

-----------------------------------------------------------------------------
(* A number lies in the page its quotient names.                           *)
LEMMA PageContains ==
  ASSUME NEW x \in Nat
  PROVE  /\ x \div PAGE \in Nat
         /\ PAGE * (x \div PAGE) <= x /\ x < PAGE * (x \div PAGE + 1)
  OBVIOUS

(* The next page starts a page further on.                                 *)
LEMMA PageStep ==
  ASSUME NEW a \in Int, NEW b \in Int, a < b
  PROVE  PAGE * a + PAGE <= PAGE * b
<1>1. PICK k \in Nat : b = a + 1 + k
  <2>1. b - a - 1 \in Nat /\ b = a + 1 + (b - a - 1)
    OBVIOUS
  <2>2. QED
    BY <2>1
<1>2. PAGE * b = PAGE * a + PAGE + PAGE * k
  BY <1>1
<1>3. PAGE * k >= 0 /\ PAGE * a \in Int /\ PAGE * k \in Int
  OBVIOUS
<1>4. QED
  BY <1>2, <1>3

(* The first and the last unit of a page.                                  *)
LEMMA UnitsAre ==
  ASSUME NEW p \in Int
  PROVE  /\ Units(p) = PAGE * p .. PAGE * p + PAGE - 1 /\ PAGE * p \in Int
         /\ PAGE * p \in Units(p) /\ PAGE * p + PAGE - 1 \in Units(p)
<1>1. p * PAGE = PAGE * p /\ (p + 1) * PAGE = PAGE * p + PAGE /\ PAGE * p \in Int
  OBVIOUS
<1>2. QED
  BY <1>1 DEF Units

(* The pages of a zone are those that lie within the entry.                *)
LEMMA ZoneIsRange ==
  ASSUME NEW e, e.start \in Nat, e.length \in Nat
  PROVE  /\ WholePages(e).start \in Nat /\ WholePages(e).end \in Nat
         /\ \A p \in Int : p \in WholePages(e).start .. WholePages(e).end - 1
                             <=> Units(p) \subseteq Extent(e)
<1>1. PICK s, t : s = e.start + PAGE - 1 /\ t = e.start + e.length
  OBVIOUS
<1>2. s \in Nat /\ t \in Nat
  BY <1>1
<1>3. PICK b, f : b = s \div PAGE /\ f = t \div PAGE
  OBVIOUS
<1>4. WholePages(e).start = b /\ WholePages(e).end = f
  BY <1>1, <1>3 DEF WholePages
<1>5. /\ b \in Nat /\ PAGE * b <= s /\ s < PAGE * (b + 1)
      /\ f \in Nat /\ PAGE * f <= t /\ t < PAGE * (f + 1)
  BY <1>2, <1>3, PageContains
<1>6. PAGE * (b + 1) = PAGE * b + PAGE /\ PAGE * (f + 1) = PAGE * f + PAGE
      /\ PAGE * b \in Int /\ PAGE * f \in Int
  BY <1>5
<1>7. ASSUME NEW p \in Int
      PROVE  p \in b .. f - 1 <=> Units(p) \subseteq Extent(e)
  <2>1. Units(p) = PAGE * p .. PAGE * p + PAGE - 1 /\ PAGE * p \in Int
        /\ PAGE * p \in Units(p) /\ PAGE * p + PAGE - 1 \in Units(p)
    BY UnitsAre
  <2>2. ASSUME p \in b .. f - 1 PROVE Units(p) \subseteq Extent(e)
    <3>1. PAGE * b <= PAGE * p
      <4>1. b <= p /\ b \in Int
        BY <1>5, <2>2
      <4>2. CASE b = p
        BY <1>6, <4>2
      <4>3. CASE b < p
        BY <1>6, <2>1, <4>1, <4>3, PageStep
      <4>4. QED
        BY <4>1, <4>2, <4>3
    <3>2. PAGE * p + PAGE <= PAGE * f
      BY <1>5, <2>2, PageStep
    <3>3. e.start <= PAGE * p /\ PAGE * p + PAGE <= e.start + e.length
      <4>1. \A B, F, P \in Int : s < B + PAGE /\ F <= t /\ B <= P /\ P + PAGE <= F
              => e.start <= P /\ P + PAGE <= e.start + e.length
        BY <1>1
      <4>2. s < PAGE * b + PAGE
        BY <1>5, <1>6
      <4>3. QED
        BY <1>5, <1>6, <2>1, <3>1, <3>2, <4>1, <4>2
    <3>4. QED
      BY <2>1, <3>3 DEF Extent
  <2>3. ASSUME Units(p) \subseteq Extent(e) PROVE p \in b .. f - 1
    <3>1. e.start <= PAGE * p /\ PAGE * p + PAGE <= e.start + e.length
      <4>1. PAGE * p \in Extent(e) /\ PAGE * p + PAGE - 1 \in Extent(e)
        BY <2>1, <2>3
      <4>2. QED
        BY <2>1, <4>1 DEF Extent
    <3>2. b <= p
      <4>1. SUFFICES ASSUME p < b PROVE FALSE
        BY <1>5
      <4>2. PAGE * p + PAGE <= PAGE * b
        BY <1>5, <4>1, PageStep
      <4>3. \A B, P \in Int : ~(B <= s /\ e.start <= P /\ P + PAGE <= B)
        BY <1>1
      <4>4. QED
        BY <1>5, <1>6, <2>1, <3>1, <4>2, <4>3
    <3>3. p < f
      <4>1. SUFFICES ASSUME f <= p PROVE FALSE
        BY <1>5
      <4>2. PAGE * f <= PAGE * p
        <5>1. CASE f = p
          BY <1>6, <5>1
        <5>2. CASE f < p
          BY <1>5, <1>6, <2>1, <5>2, PageStep
        <5>3. QED
          BY <4>1, <1>5, <5>1, <5>2
      <4>3. \A F, P \in Int : ~(t < F + PAGE /\ P + PAGE <= e.start + e.length /\ F <= P)
        BY <1>1
      <4>4. t < PAGE * f + PAGE
        BY <1>5, <1>6
      <4>5. QED
        BY <1>5, <1>6, <2>1, <3>1, <4>2, <4>3, <4>4
    <3>4. QED
      BY <1>5, <3>2, <3>3
  <2>4. QED
    BY <2>2, <2>3
<1>8. QED
  BY <1>4, <1>5, <1>7

(* Rounding keeps the order.                                               *)
LEMMA QuotientOrder ==
  ASSUME NEW x \in Nat, NEW y \in Nat, x <= y
  PROVE  x \div PAGE <= y \div PAGE
<1>1. PICK a, b : a = x \div PAGE /\ b = y \div PAGE
  OBVIOUS
<1>2. /\ a \in Nat /\ PAGE * a <= x
      /\ b \in Nat /\ y < PAGE * (b + 1)
  BY <1>1, PageContains
<1>3. PAGE * (b + 1) = PAGE * b + PAGE /\ PAGE * b \in Int /\ PAGE * a \in Int
  BY <1>2
<1>4. ~(b < a)
  <2>1. SUFFICES ASSUME b < a PROVE FALSE
    OBVIOUS
  <2>2. PAGE * b + PAGE <= PAGE * a
    BY <1>2, <2>1, PageStep
  <2>3. QED
    BY <1>2, <1>3, <2>2
<1>5. QED
  BY <1>1, <1>2, <1>4

(* The zones of two entries lie as the entries do.                         *)
LEMMA ZonesOrdered ==
  ASSUME NEW d, d.start \in Nat, d.length \in Nat, NEW e, e.start \in Nat, e.length \in Nat,
         d.start + d.length <= e.start
  PROVE  WholePages(d).end <= WholePages(e).start
<1>1. PICK x, y : x = d.start + d.length /\ y = e.start + PAGE - 1
  OBVIOUS
<1>2. x \in Nat /\ y \in Nat /\ x <= y
  BY <1>1
<1>3. QED
  BY <1>1, <1>2, QuotientOrder DEF WholePages

(* A set of numbers has a least one.                                       *)
LEMMA LeastIs ==
  ASSUME NEW S \in SUBSET Nat, S # {}
  PROVE  Min(S) \in S /\ \A x \in S : Min(S) <= x
<1>1. PICK x \in S : \A y \in S : <<y, x>> \notin OpToRel(<, Nat)
  BY WFMin, NatLessThanWellFounded, Zenon
<1>2. \A y, z \in Nat : y < z => <<y, z>> \in OpToRel(<, Nat)
  BY SMT DEF OpToRel
<1>3. \A y \in S : x <= y
  <2>1. \A y \in S : ~(y < x)
    BY <1>1, <1>2
  <2>2. QED
    BY <2>1
<1>4. \E h \in S : \A w \in S : h <= w
  BY <1>3
<1>5. QED
  BY <1>4 DEF Min

(* What init_memory reads of the table is the beginning of it, and holds   *)
(* the entry with the kernel's pages.                                      *)
LEMMA ReadIsPrefix ==
  ASSUME TableInv, e820 # <<>>
  PROVE  /\ Read \in Seq(TableEntry) /\ Len(Read) \in 1 .. Len(e820)
         /\ \A a \in DOMAIN Read : a \in DOMAIN e820 /\ Read[a] = e820[a]
         /\ \A i \in DOMAIN e820 :
              (\A a \in DOMAIN e820 : a <= i => e820[a].type \in 1 .. 4) => i \in DOMAIN Read
<1>1. PICK n : n = Len(e820)
  OBVIOUS
<1>2. e820 \in Seq(TableEntry) /\ n \in Nat \ {0} /\ DOMAIN e820 = 1 .. n
  BY <1>1 DEF TableInv
<1>3. PICK invalid : invalid = {i \in DOMAIN e820 : i > 1 /\ e820[i].type \notin 1 .. 4}
  OBVIOUS
<1>4. CASE invalid = {}
  <2>1. Read = e820
    BY <1>3, <1>4 DEF Read
  <2>2. QED
    BY <1>1, <1>2, <2>1
<1>5. CASE invalid # {}
  <2>1. PICK m : m = Min(invalid)
    OBVIOUS
  <2>2. invalid \in SUBSET Nat
    BY <1>2, <1>3
  <2>3. m \in invalid
    BY <1>5, <2>1, <2>2, LeastIs
  <2>4. m \in 2 .. n
    BY <1>2, <1>3, <2>3
  <2>5. Read = SubSeq(e820, 1, m - 1)
    BY <1>3, <1>5, <2>1 DEF Read
  <2>6. Read \in Seq(TableEntry) /\ Len(Read) = m - 1 /\ \A a \in 1 .. m - 1 : Read[a] = e820[a]
    BY <1>1, <1>2, <2>4, <2>5
  <2>7. DOMAIN Read = 1 .. m - 1
    BY <2>6
  <2>8. \A i \in DOMAIN e820 :
          (\A a \in DOMAIN e820 : a <= i => e820[a].type \in 1 .. 4) => i < m
    BY <1>2, <1>3, <2>3, <2>4
  <2>9. QED
    BY <1>1, <1>2, <2>4, <2>6, <2>7, <2>8
<1>6. QED
  BY <1>4, <1>5

(* The entry with the kernel's pages is one of those init_memory reads.    *)
LEMMA KernelEntry ==
  ASSUME TableInv, KernelThere, GivenInv, stage \notin {"convert", "sort"}
  PROVE  /\ e820 # <<>> /\ 1 \in KernelPages
         /\ \E i \in DOMAIN Read : e820[i].type = 1 /\ Holds(Extent(e820[i]))
<1>1. /\ firmware = <<>> /\ e820 \in Seq(TableEntry)
      /\ 1 \in KernelPages /\ KernelIn(firmware, e820)
  BY DEF TableInv, KernelThere
<1>2. PICK i \in DOMAIN e820 : e820[i].type = 1 /\ Holds(Extent(e820[i]))
  BY <1>1 DEF KernelIn
<1>3. PICK d : d = e820[i]
  OBVIOUS
<1>4. e820 # <<>> /\ d \in TableEntry
  BY <1>1, <1>2, <1>3
<1>5. PAGE \in Extent(d) /\ PAGE \in Units(1)
  <2>1. PAGE * 1 = PAGE /\ PAGE * 1 \in Units(1)
    BY UnitsAre
  <2>2. QED
    BY <1>1, <1>2, <1>3, <2>1 DEF Holds
<1>6. \A a \in DOMAIN e820 : a <= i => e820[a].type \in 1 .. 4
  <2>1. SUFFICES ASSUME NEW a \in DOMAIN e820, a <= i, e820[a].type \notin 1 .. 4
                 PROVE  FALSE
    OBVIOUS
  <2>2. PICK e : e = e820[a]
    OBVIOUS
  <2>3. e \in TableEntry /\ e.type = 5 /\ e.start \in Nat /\ e.length \in Nat \ {0}
    <3>1. e \in TableEntry
      BY <1>1, <2>1, <2>2
    <3>2. QED
      BY <2>1, <2>2, <3>1 DEF TableEntry
  <2>4. e.start \in Extent(e)
    BY <2>3 DEF Extent
  <2>5. e.start \in given[5]
    <3>1. e.start \in Covered(e820, 5)
      BY <2>1, <2>2, <2>3, <2>4 DEF Covered
    <3>2. 5 \in 1 .. 5
      OBVIOUS
    <3>3. Covered(e820, 5) \subseteq given[5]
      BY <3>2 DEF TableInv
    <3>4. QED
      BY <3>1, <3>3
  <2>6. PAGE < e.start
    BY <1>5, <2>5 DEF GivenInv
  <2>7. e.start <= d.start
    <3>1. CASE a = i
      BY <1>3, <2>2, <2>3, <3>1
    <3>2. CASE a # i
      <4>1. a < i
        BY <1>1, <1>2, <2>1, <3>2
      <4>2. QED
        BY <1>2, <1>3, <2>1, <2>2, <4>1 DEF TableInv
    <3>3. QED
      BY <3>1, <3>2
  <2>8. d.start <= PAGE
    <3>1. d.start \in Nat /\ d.length \in Nat
      BY <1>4 DEF TableEntry
    <3>2. QED
      BY <1>5, <3>1 DEF Extent
  <2>9. QED
    <3>1. d.start \in Nat
      BY <1>4 DEF TableEntry
    <3>2. QED
      BY <2>3, <2>6, <2>7, <2>8, <3>1
<1>7. i \in DOMAIN Read
  BY <1>2, <1>4, <1>6, ReadIsPrefix
<1>8. QED
  BY <1>1, <1>2, <1>4, <1>7

(* The parts of a layout.                                                  *)
LEMMA LayoutParts ==
  ASSUME NEW m \in Layouts
  PROVE  /\ m.bits \in Nat /\ m.zones \in Seq(Zone) /\ m.kernel \subseteq Nat
         /\ m.ZONE_UNMAPED_INDEX \in Nat \ {0}
         /\ \A i \in DOMAIN m.zones : m.zones[i].start \in Nat /\ m.zones[i].end \in Nat
<1>1. /\ m.bits \in Nat /\ m.zones \in Seq(Zone) /\ m.kernel \subseteq Nat
      /\ m.ZONE_UNMAPED_INDEX \in Nat \ {0}
  BY DEF Layouts
<1>2. \A i \in DOMAIN m.zones : m.zones[i] \in Zone
  BY <1>1
<1>3. QED
  BY <1>1, <1>2 DEF Zone

(* The fields of a layout of which some are set.                           *)
LEMMA LayoutFields ==
  ASSUME NEW m \in Layouts, NEW n,
         \/ \E b : n = [m EXCEPT !.bits = b]
         \/ \E z : n = [m EXCEPT !.zones = Append(@, z)]
         \/ \E k : n = [m EXCEPT !.kernel = k]
         \/ \E k, x : n = [m EXCEPT !.kernel = k, !.ZONE_UNMAPED_INDEX = x]
  PROVE  n = [bits |-> n.bits, zones |-> n.zones, kernel |-> n.kernel,
              ZONE_UNMAPED_INDEX |-> n.ZONE_UNMAPED_INDEX]
<1>1. CASE \E b : n = [m EXCEPT !.bits = b]
  BY <1>1 DEF Layouts
<1>2. CASE \E z : n = [m EXCEPT !.zones = Append(@, z)]
  BY <1>2 DEF Layouts
<1>3. CASE \E k : n = [m EXCEPT !.kernel = k]
  BY <1>3 DEF Layouts
<1>4. CASE \E k, x : n = [m EXCEPT !.kernel = k, !.ZONE_UNMAPED_INDEX = x]
  BY <1>4 DEF Layouts
<1>5. QED
  BY <1>1, <1>2, <1>3, <1>4

(* The loop of init_memory counts from 1.                                  *)
LEMMA ReadIndices == TableInv => \A a \in DOMAIN Read : a \in Nat \ {0}
<1>1. SUFFICES ASSUME TableInv PROVE \A a \in DOMAIN Read : a \in Nat \ {0}
  OBVIOUS
<1>2. CASE e820 = <<>>
  <2>1. DOMAIN e820 = {}
    BY <1>2
  <2>2. Read = e820
    BY <2>1 DEF Read
  <2>3. QED
    BY <2>1, <2>2
<1>3. CASE e820 # <<>>
  BY <1>1, <1>3, ReadIsPrefix
<1>4. QED
  BY <1>2, <1>3

(* No zones yet.                                                           *)
NoneYet ==
  TableInv /\ mms \in Layouts /\ Zones = <<>> /\ mms.kernel = {} /\ entry = 1
    /\ stage \in Before

LEMMA NoZones == NoneYet => ZonesInv
<1> SUFFICES ASSUME TableInv, mms \in Layouts, Zones = <<>>, mms.kernel = {}, entry = 1,
                    stage \in Before
             PROVE  ZonesInv
  BY DEF NoneYet
<1>1. DOMAIN Zones = {}
  OBVIOUS
<1>2. \A a \in DOMAIN Read : ~(a < entry)
  BY ReadIndices
<1>3. QED
  BY <1>1, <1>2 DEF ZonesInv

(* The same of the next state.                                             *)
LEMMA NoZonesThen == NoneYet' => ZonesInv'
  BY NoZones, PTL

(* The bitmap is rounded up to whole words.                                *)
LEMMA RoundUp ==
  ASSUME NEW x \in Nat
  PROVE  ((x + WORD - 1) \div WORD) * WORD \in Nat /\ x <= ((x + WORD - 1) \div WORD) * WORD
<1>1. PICK y, q : y = x + WORD - 1 /\ q = y \div WORD
  OBVIOUS
<1>2. y \in Nat
  BY <1>1
<1>3. q \in Nat /\ y < WORD * (q + 1)
  BY <1>1, <1>2
<1>4. WORD * (q + 1) = q * WORD + WORD /\ q * WORD \in Nat
  BY <1>3
<1>5. \A Q \in Nat : y < Q + WORD => x <= Q
  BY <1>1
<1>6. QED
  BY <1>1, <1>3, <1>4, <1>5

(* init_memory makes the bitmap long enough for every entry it reads.      *)
LEMMA BitmapReaches ==
  ASSUME TableInv, KernelThere, GivenInv, ZonesInv, init_memory
  PROVE  /\ mms'.bits \in Nat /\ \A a \in DOMAIN Read : EndPage(e820[a]) <= mms'.bits
<1>1. stage = "init_memory" /\ e820 # <<>>
  BY KernelEntry DEF init_memory
<1>2. PICK n : n = Len(Read)
  OBVIOUS
<1>3. /\ Read \in Seq(TableEntry) /\ n \in 1 .. Len(e820) /\ DOMAIN Read = 1 .. n
      /\ \A a \in DOMAIN Read : a \in DOMAIN e820 /\ Read[a] = e820[a]
      /\ e820 \in Seq(TableEntry)
  BY <1>1, <1>2, ReadIsPrefix DEF TableInv
<1>4. PICK l, e : l = e820[n] /\ e = l.start + l.length
  OBVIOUS
<1>5. Last(Read) = l /\ l \in TableEntry
  <2>1. n \in DOMAIN Read
    BY <1>3
  <2>2. QED
    BY <1>2, <1>3, <1>4, <2>1 DEF Last
<1>6. e \in Nat /\ e \div PAGE \in Nat
  <2>1. e \in Nat
    BY <1>4, <1>5 DEF TableEntry
  <2>2. QED
    BY <2>1, PageContains
<1>7. PICK bits : bits = ((e \div PAGE + WORD - 1) \div WORD) * WORD
  OBVIOUS
<1>8. mms' = [mms EXCEPT !.bits = bits]
  BY <1>4, <1>5, <1>7 DEF init_memory
<1>9. mms'.bits = bits
  BY <1>8 DEF ZonesInv, Layouts
<1>10. bits \in Nat /\ e \div PAGE <= bits
  BY <1>6, <1>7, RoundUp
<1>11. ASSUME NEW a \in DOMAIN Read PROVE EndPage(e820[a]) <= bits
  <2>1. PICK d, f : d = e820[a] /\ f = d.start + d.length
    OBVIOUS
  <2>2. a \in DOMAIN e820 /\ d \in TableEntry /\ a <= n /\ n \in DOMAIN e820
    BY <1>3, <1>11, <2>1
  <2>3. d.start \in Nat /\ d.length \in Nat /\ f \in Nat
        /\ l.start \in Nat /\ l.length \in Nat
    BY <1>5, <2>1, <2>2 DEF TableEntry
  <2>4. f <= e
    <3>1. CASE a = n
      BY <1>4, <2>1, <2>3, <3>1
    <3>2. CASE a # n
      <4>1. a < n
        BY <1>3, <2>2, <3>2
      <4>2. f <= l.start
        BY <1>1, <1>4, <2>1, <2>2, <4>1, InOrder
      <4>3. QED
        BY <1>4, <2>3, <4>2
    <3>3. QED
      BY <3>1, <3>2
  <2>5. f \div PAGE <= e \div PAGE /\ f \div PAGE \in Nat
    BY <1>6, <2>3, <2>4, QuotientOrder, PageContains
  <2>6. EndPage(e820[a]) = f \div PAGE
    BY <2>1 DEF EndPage
  <2>7. QED
    BY <1>6, <1>10, <2>5, <2>6
<1>12. QED
  BY <1>9, <1>10, <1>11

(* The entries that are read make zones of numbers.                        *)
LEMMA ReadEntries ==
  ASSUME TableInv
  PROVE  \A a \in DOMAIN Read :
           /\ a \in DOMAIN e820 /\ e820[a].start \in Nat /\ e820[a].length \in Nat
           /\ WholePages(e820[a]) \in Zone
<1>1. e820 \in Seq(TableEntry)
  BY DEF TableInv
<1>2. \A a \in DOMAIN Read : a \in DOMAIN e820
  <2>1. CASE e820 = <<>>
    <3>1. Read = e820
      BY <2>1 DEF Read
    <3>2. QED
      BY <3>1
  <2>2. CASE e820 # <<>>
    BY <2>2, ReadIsPrefix
  <2>3. QED
    BY <2>1, <2>2
<1>3. SUFFICES ASSUME NEW a \in DOMAIN Read
               PROVE  /\ a \in DOMAIN e820 /\ e820[a].start \in Nat /\ e820[a].length \in Nat
                      /\ WholePages(e820[a]) \in Zone
  OBVIOUS
<1>4. PICK d : d = e820[a]
  OBVIOUS
<1>5. d \in TableEntry
  BY <1>1, <1>2, <1>4
<1>6. d.start \in Nat /\ d.length \in Nat
  BY <1>5 DEF TableEntry
<1>7. WholePages(d).start \in Nat /\ WholePages(d).end \in Nat
  BY <1>6, ZoneIsRange
<1>8. WholePages(d) \in Zone
  BY <1>7 DEF WholePages, Zone
<1>9. QED
  BY <1>2, <1>4, <1>6, <1>8

(* What a turn of the loop of init_memory does to the layout.              *)
LEMMA ZoneMade ==
  ASSUME TableInv, KernelThere, GivenInv, ZonesInv, InitZone
  PROVE  /\ stage = "zones" /\ stage' = "zones" /\ e820' = e820
         /\ entry \in DOMAIN Read /\ entry' = entry + 1
         /\ LET z == WholePages(e820[entry])
            IN IF e820[entry].type = 1 /\ z.end > z.start
               THEN mms' = [mms EXCEPT !.zones = Append(@, z)]
                    /\ mms' \in Layouts /\ Zones' = Append(Zones, z)
                    /\ mms'.bits = mms.bits /\ mms'.kernel = mms.kernel
                    /\ mms'.ZONE_UNMAPED_INDEX = mms.ZONE_UNMAPED_INDEX
               ELSE mms' = mms
<1>1. /\ stage = "zones" /\ stage' = "zones" /\ e820' = e820
      /\ entry <= Len(Read) /\ entry' = entry + 1
  BY DEF InitZone
<1>2. entry \in DOMAIN Read
  <2>1. Read \in Seq(TableEntry) /\ entry \in Nat \ {0}
    BY <1>1, KernelEntry, ReadIsPrefix DEF ZonesInv
  <2>2. QED
    BY <1>1, <2>1
<1>3. PICK z : z = WholePages(e820[entry])
  OBVIOUS
<1>4. z \in Zone
  BY <1>2, <1>3, ReadEntries
<1>5. CASE e820[entry].type = 1 /\ z.end > z.start
  <2>1. mms' = [mms EXCEPT !.zones = Append(@, z)]
    BY <1>3, <1>5 DEF InitZone
  <2>2. mms \in Layouts
    BY DEF ZonesInv
  <2>3. /\ mms'.zones = Append(mms.zones, z) /\ mms'.bits = mms.bits
        /\ mms'.kernel = mms.kernel /\ mms'.ZONE_UNMAPED_INDEX = mms.ZONE_UNMAPED_INDEX
    BY <2>1, <2>2 DEF Layouts
  <2>4. /\ mms.bits \in Nat /\ mms.zones \in Seq(Zone) /\ mms.kernel \subseteq Nat
        /\ mms.ZONE_UNMAPED_INDEX \in Nat \ {0}
    BY <2>2, LayoutParts
  <2>5. mms'.zones \in Seq(Zone)
    BY <1>4, <2>3, <2>4
  <2>6. PICK m, n : m = mms /\ n = mms'
    OBVIOUS
  <2>7. n = [bits |-> n.bits, zones |-> n.zones, kernel |-> n.kernel,
             ZONE_UNMAPED_INDEX |-> n.ZONE_UNMAPED_INDEX]
    <3>1. m \in Layouts /\ n = [m EXCEPT !.zones = Append(@, z)]
      BY <2>1, <2>2, <2>6
    <3>2. QED
      BY <3>1 DEF Layouts
  <2>8. /\ n.bits \in Nat /\ n.zones \in Seq(Zone) /\ n.kernel \in SUBSET Nat
        /\ n.ZONE_UNMAPED_INDEX \in Nat \ {0}
    BY <2>3, <2>4, <2>5, <2>6
  <2>9. n \in Layouts
    BY <2>7, <2>8 DEF Layouts
  <2>10. QED
    BY <1>1, <1>2, <1>3, <1>5, <2>1, <2>3, <2>6, <2>9 DEF Zones
<1>6. CASE ~(e820[entry].type = 1 /\ z.end > z.start)
  <2>1. mms' = mms
    BY <1>3, <1>6 DEF InitZone, pages
  <2>2. QED
    BY <1>1, <1>2, <1>3, <1>6, <2>1
<1>7. QED
  BY <1>5, <1>6

(* A turn of the loop of init_memory keeps the zones in order: they follow *)
(* the entries.                                                            *)
LEMMA InitZoneKeeps ==
  ASSUME TableInv, KernelThere, GivenInv, ZonesInv, InitZone
  PROVE  ZonesInv'
<1>1. PICK z : z = WholePages(e820[entry])
  OBVIOUS
<1>2. /\ stage = "zones" /\ stage' = "zones" /\ e820' = e820
      /\ entry \in DOMAIN Read /\ entry' = entry + 1
      /\ stage' \notin Before /\ stage \notin Before
  BY ZoneMade DEF Before
<1>3. Read' = Read
  BY <1>2 DEF Read
<1>4. PICK n : n = Len(Zones)
  OBVIOUS
<1>5. /\ Zones \in Seq(Zone) /\ n \in Nat /\ DOMAIN Zones = 1 .. n
      /\ entry \in Nat \ {0} /\ entry' \in Nat \ {0} /\ mms \in Layouts
      /\ \A a \in DOMAIN Read : EndPage(e820[a]) <= mms.bits
  BY <1>2, <1>4, LayoutParts DEF ZonesInv, Zones
<1>6. \A a \in DOMAIN Read : a \in Nat /\ (a < entry' <=> a < entry \/ a = entry)
  <2>1. \A a \in DOMAIN Read : a \in Nat
    BY ReadIndices
  <2>2. QED
    BY <1>2, <1>5, <2>1
<1>7. CASE e820[entry].type = 1 /\ z.end > z.start
  <2>1. mms' \in Layouts /\ Zones' = Append(Zones, z) /\ mms'.bits = mms.bits
    BY <1>1, <1>7, ZoneMade
  <2>2. PICK Y : Y = Append(Zones, z)
    OBVIOUS
  <2>3. /\ DOMAIN Y = 1 .. n + 1 /\ Y[n + 1] = z /\ Zones' = Y
        /\ \A k \in 1 .. n : Y[k] = Zones[k]
    BY <1>4, <1>5, <2>1, <2>2
  <2>4. ASSUME NEW k \in 1 .. n + 1
        PROVE  \E a \in DOMAIN Read :
                 a < entry' /\ e820[a].type = 1 /\ Y[k] = WholePages(e820[a])
    <3>1. CASE k = n + 1
      BY <1>1, <1>2, <1>6, <1>7, <2>3, <3>1
    <3>2. CASE k \in 1 .. n
      <4>1. PICK a \in DOMAIN Read : a < entry /\ e820[a].type = 1 /\ Zones[k] = WholePages(e820[a])
        BY <1>5, <3>2 DEF ZonesInv
      <4>2. QED
        BY <1>6, <2>3, <3>2, <4>1
    <3>3. QED
      BY <1>5, <2>4, <3>1, <3>2
  <2>5. ASSUME NEW k \in 1 .. n + 1, NEW l \in 1 .. n + 1, k < l
        PROVE  Y[k].end <= Y[l].start
    <3>1. CASE l = n + 1
      <4>1. k \in 1 .. n
        BY <1>5, <2>5, <3>1
      <4>2. PICK a \in DOMAIN Read : a < entry /\ e820[a].type = 1 /\ Zones[k] = WholePages(e820[a])
        BY <1>5, <4>1 DEF ZonesInv
      <4>3. PICK d, e : d = e820[a] /\ e = e820[entry]
        OBVIOUS
      <4>4. /\ d.start \in Nat /\ d.length \in Nat /\ e.start \in Nat /\ e.length \in Nat
            /\ a \in DOMAIN e820 /\ entry \in DOMAIN e820
        BY <1>2, <4>3, ReadEntries
      <4>5. d.start + d.length <= e.start
        <5>1. stage \notin {"convert", "sort"}
          BY <1>2
        <5>2. QED
          BY <4>2, <4>3, <4>4, <5>1, InOrder
      <4>6. WholePages(d).end <= WholePages(e).start
        BY <4>4, <4>5, ZonesOrdered
      <4>7. QED
        BY <1>1, <2>3, <3>1, <4>1, <4>2, <4>3, <4>6
    <3>2. CASE l \in 1 .. n
      <4>1. k \in 1 .. n
        BY <1>5, <2>5, <3>2
      <4>2. Zones[k].end <= Zones[l].start
        BY <1>5, <2>5, <3>2, <4>1 DEF ZonesInv
      <4>3. QED
        BY <2>3, <3>2, <4>1, <4>2
    <3>3. QED
      BY <1>5, <2>5, <3>1, <3>2
  <2>6. ASSUME NEW a \in DOMAIN Read, a < entry', e820[a].type = 1,
               WholePages(e820[a]).start < WholePages(e820[a]).end
        PROVE  \E k \in 1 .. n + 1 : Y[k] = WholePages(e820[a])
    <3>1. CASE a = entry
      BY <1>1, <1>5, <2>3, <3>1
    <3>2. CASE a < entry
      <4>1. PICK k \in 1 .. n : Zones[k] = WholePages(e820[a])
        BY <1>5, <2>6, <3>2 DEF ZonesInv
      <4>2. QED
        BY <1>5, <2>3, <4>1
    <3>3. QED
      BY <1>6, <2>6, <3>1, <3>2
  <2>7. QED
    <3>1. \A k \in DOMAIN Zones' : \E a \in DOMAIN Read' :
            a < entry' /\ e820'[a].type = 1 /\ Zones'[k] = WholePages(e820'[a])
      BY <1>2, <1>3, <2>3, <2>4
    <3>2. \A k, l \in DOMAIN Zones' : k < l => Zones'[k].end <= Zones'[l].start
      BY <2>3, <2>5
    <3>3. \A a \in DOMAIN Read' :
            a < entry' /\ e820'[a].type = 1
              /\ WholePages(e820'[a]).start < WholePages(e820'[a]).end
              => \E k \in DOMAIN Zones' : Zones'[k] = WholePages(e820'[a])
      BY <1>2, <1>3, <2>3, <2>6
    <3>4. \A a \in DOMAIN Read' : EndPage(e820'[a]) <= mms'.bits
      BY <1>2, <1>3, <1>5, <2>1
    <3>5. mms' \in Layouts /\ entry' \in Nat \ {0} /\ stage' \notin Before
      BY <1>2, <1>5, <2>1
    <3>6. QED
      BY <3>1, <3>2, <3>3, <3>4, <3>5 DEF ZonesInv
<1>8. CASE ~(e820[entry].type = 1 /\ z.end > z.start)
  <2>1. mms' = mms /\ Zones' = Zones
    BY <1>1, <1>8, ZoneMade DEF Zones
  <2>2. \A k \in DOMAIN Zones : \E a \in DOMAIN Read :
          a < entry' /\ e820[a].type = 1 /\ Zones[k] = WholePages(e820[a])
    BY <1>6 DEF ZonesInv
  <2>3. z.start \in Nat /\ z.end \in Nat
    <3>1. z \in Zone
      BY <1>1, <1>2, ReadEntries
    <3>2. QED
      BY <3>1 DEF Zone
  <2>4. ASSUME NEW a \in DOMAIN Read, a < entry', e820[a].type = 1,
               WholePages(e820[a]).start < WholePages(e820[a]).end
        PROVE  \E k \in DOMAIN Zones : Zones[k] = WholePages(e820[a])
    <3>1. CASE a = entry
      BY <1>1, <1>8, <2>3, <2>4, <3>1
    <3>2. CASE a < entry
      BY <2>4, <3>2 DEF ZonesInv
    <3>3. QED
      BY <1>6, <2>4, <3>1, <3>2
  <2>5. \A k, l \in DOMAIN Zones : k < l => Zones[k].end <= Zones[l].start
    BY DEF ZonesInv
  <2>6. QED
    BY <1>2, <1>3, <1>5, <2>1, <2>2, <2>4, <2>5 DEF ZonesInv, EndPage
<1>9. QED
  BY <1>7, <1>8

(* The zones stay when the kernel takes pages, maps them or allocates.     *)
LEMMA ZonesStay ==
  ASSUME ZonesInv, stage \notin Before, stage' \notin Before,
         mms' \in Layouts, mms'.bits = mms.bits, Zones' = Zones,
         entry' = entry, e820' = e820
  PROVE  ZonesInv'
<1>1. Read' = Read
  BY DEF Read
<1>2. /\ \A k \in DOMAIN Zones' : \E a \in DOMAIN Read' :
           a < entry' /\ e820'[a].type = 1 /\ Zones'[k] = WholePages(e820'[a])
      /\ \A k, l \in DOMAIN Zones' : k < l => Zones'[k].end <= Zones'[l].start
      /\ \A a \in DOMAIN Read' :
           a < entry' /\ e820'[a].type = 1
             /\ WholePages(e820'[a]).start < WholePages(e820'[a]).end
             => \E k \in DOMAIN Zones' : Zones'[k] = WholePages(e820'[a])
  BY <1>1 DEF ZonesInv
<1>3. \A a \in DOMAIN Read' : EndPage(e820'[a]) <= mms'.bits
  <2>1. \A a \in DOMAIN Read : EndPage(e820[a]) <= mms.bits
    BY DEF ZonesInv
  <2>2. QED
    BY <1>1, <2>1 DEF EndPage
<1>4. entry' \in Nat \ {0}
  BY DEF ZonesInv
<1>5. QED
  BY <1>2, <1>3, <1>4 DEF ZonesInv

(* The pages the kernel takes are numbers.                                 *)
LEMMA KernelPagesAre ==
  /\ KernelPages \subseteq Nat
  /\ \A last \in EndPages \cup {e + 1 : e \in EndPages} :
       last \in Nat /\ 1 .. last \subseteq KernelPages /\ PoolPages(last) \subseteq KernelPages
       /\ \A p \in PoolPages(last) : p > last
<1>1. \A last \in EndPages \cup {e + 1 : e \in EndPages} : last \in Nat
  OBVIOUS
<1>2. \A last \in Nat : /\ PoolPages(last) \subseteq Nat
                        /\ \A p \in PoolPages(last) : p > last
  BY DEF PoolPages
<1>3. KernelPages \subseteq Nat
  <2>1. SUFFICES ASSUME NEW p \in KernelPages PROVE p \in Nat
    OBVIOUS
  <2>2. PICK last \in EndPages \cup {e + 1 : e \in EndPages} :
               p \in 1 .. last \cup PoolPages(last)
    BY <2>1 DEF KernelPages
  <2>3. QED
    BY <1>1, <1>2, <2>2
<1>4. \A last \in EndPages \cup {e + 1 : e \in EndPages} :
        1 .. last \subseteq KernelPages /\ PoolPages(last) \subseteq KernelPages
  BY DEF KernelPages
<1>5. QED
  BY <1>1, <1>2, <1>3, <1>4

(* A layout of which only the kernel's pages, the first zone above 4GB or  *)
(* the length of the bitmap are set.                                       *)
LEMMA LayoutSet ==
  ASSUME NEW m \in Layouts, NEW n,
         \/ \E b \in Nat : n = [m EXCEPT !.bits = b]
         \/ \E k \in SUBSET Nat : n = [m EXCEPT !.kernel = k]
         \/ \E k \in SUBSET Nat, x \in Nat \ {0} :
              n = [m EXCEPT !.kernel = k, !.ZONE_UNMAPED_INDEX = x]
  PROVE  n \in Layouts /\ n.zones = m.zones
<1>1. /\ m.bits \in Nat /\ m.zones \in Seq(Zone) /\ m.kernel \subseteq Nat
      /\ m.ZONE_UNMAPED_INDEX \in Nat \ {0}
  BY LayoutParts
<1>2. n = [bits |-> n.bits, zones |-> n.zones, kernel |-> n.kernel,
           ZONE_UNMAPED_INDEX |-> n.ZONE_UNMAPED_INDEX]
  BY LayoutFields
<1>3. /\ n.bits \in Nat /\ n.zones = m.zones /\ n.kernel \in SUBSET Nat
      /\ n.ZONE_UNMAPED_INDEX \in Nat \ {0}
  <2>1. CASE \E b \in Nat : n = [m EXCEPT !.bits = b]
    BY <1>1, <2>1 DEF Layouts
  <2>2. CASE \E k \in SUBSET Nat : n = [m EXCEPT !.kernel = k]
    BY <1>1, <2>2 DEF Layouts
  <2>3. CASE \E k \in SUBSET Nat, x \in Nat \ {0} :
               n = [m EXCEPT !.kernel = k, !.ZONE_UNMAPED_INDEX = x]
    BY <1>1, <2>3 DEF Layouts
  <2>4. QED
    BY <2>1, <2>2, <2>3
<1>4. n.zones \in Seq(Zone)
  BY <1>1, <1>3
<1>5. QED
  BY <1>2, <1>3, <1>4 DEF Layouts

(* Nothing is taken before the zones are made.                             *)
LEMMA EarlyKernel ==
  ASSUME KernelInv, stage \in Before \cup {"zones"}, stage' \in Before \cup {"zones"},
         mms'.kernel = mms.kernel, mms'.ZONE_UNMAPED_INDEX = mms.ZONE_UNMAPED_INDEX,
         end_of_struct' = end_of_struct
  PROVE  KernelInv'
  BY DEF KernelInv, Before

(* Nothing is taken once the first slabs are there.                        *)
LEMMA LaterKernel ==
  ASSUME KernelInv, stage \notin Before \cup {"zones"}, stage' \notin Before \cup {"zones"},
         stage' = "slab" => stage = "slab",
         mms' = mms, end_of_struct' = end_of_struct, entry' = entry, e820' = e820
  PROVE  KernelInv'
<1>1. Read' = Read /\ Zones' = Zones /\ Reached' = Reached
  BY DEF Read, Zones, Reached
<1>2. QED
  BY <1>1 DEF KernelInv, Before

(* The steps that take pages for the kernel take pages it has not.         *)
Taken(taken) ==
  /\ taken \in SUBSET Nat /\ taken \cap mms.kernel = {}
  /\ Take(taken)
  /\ mms' \in Layouts /\ mms'.bits = mms.bits /\ Zones' = Zones
  /\ mms'.kernel = mms.kernel \cup taken

(* The end of init_memory.                                                 *)
LEMMA InitKernelTakes ==
  ASSUME ZonesInv, KernelInv, InitKernelPages
  PROVE  KernelInv' /\ \E taken : Taken(taken)
<1>1. PICK kernel, above, x :
        /\ kernel = 1 .. end_of_struct
        /\ above = {i \in DOMAIN Zones \ {1} : Zones[i].start >= FourGB}
        /\ x = IF above = {} THEN 1 ELSE Min(above)
  OBVIOUS
<1>2. /\ stage = "zones" /\ stage' = "slab" /\ entry > Len(Read)
      /\ mms' = [mms EXCEPT !.kernel = kernel, !.ZONE_UNMAPED_INDEX = x]
      /\ Take(kernel) /\ end_of_struct' = end_of_struct
      /\ entry' = entry /\ e820' = e820
  BY <1>1 DEF InitKernelPages, boot
<1>3. /\ mms \in Layouts /\ mms.kernel = {} /\ end_of_struct \in EndPages
  BY <1>2 DEF ZonesInv, KernelInv
<1>4. end_of_struct \in Nat /\ kernel \in SUBSET Nat
  BY <1>1, <1>3
<1>5. /\ mms'.kernel = kernel /\ mms'.ZONE_UNMAPED_INDEX = x /\ mms'.bits = mms.bits
      /\ Zones' = Zones
  BY <1>2, <1>3 DEF Layouts, Zones
<1>6. Zones \in Seq(Zone)
  BY <1>3, LayoutParts DEF Zones
<1>7. /\ x \in Nat \ {0} /\ \A i \in Reached' : i # 1 => Zones'[i].start < FourGB
  <2>1. PICK Z : Z = Zones
    OBVIOUS
  <2>2. Zones' \in Seq(Zone) /\ above = {i \in DOMAIN Zones' \ {1} : Zones'[i].start >= FourGB}
    BY <1>1, <1>5, <1>6
  <2>3. mms'.ZONE_UNMAPED_INDEX = IF above = {} THEN 1 ELSE Min(above)
    BY <1>1, <1>5
  <2>4. \A i \in DOMAIN Z : i \in Nat \ {0} /\ Z[i].start \in Nat
    <3>1. \A i \in DOMAIN Z : i \in Nat \ {0} /\ Z[i] \in Zone
      BY <1>6, <2>1
    <3>2. QED
      BY <3>1 DEF Zone
  <2>5. FourGB \in Nat
    BY MappingAssumption
  <2>6. Reached' = {i \in DOMAIN Z : x # 1 => i < x}
    BY <1>5, <2>1 DEF Reached
  <2>7. CASE above = {}
    BY <1>1, <1>5, <2>1, <2>4, <2>5, <2>6, <2>7
  <2>8. CASE above # {}
    <3>1. above \in SUBSET Nat
      BY <1>1, <2>1, <2>4
    <3>2. x \in above /\ \A i \in above : x <= i
      BY <1>1, <2>8, <3>1, LeastIs
    <3>3. x \in Nat \ {0} /\ x # 1
      BY <1>1, <2>1, <2>4, <3>2
    <3>4. ASSUME NEW i \in Reached', i # 1 PROVE Z[i].start < FourGB
      <4>1. i \in DOMAIN Z /\ i < x
        BY <2>6, <3>3, <3>4
      <4>2. i \notin above
        BY <2>4, <3>2, <3>3, <4>1
      <4>3. QED
        BY <1>1, <2>1, <2>4, <2>5, <3>4, <4>1, <4>2
    <3>5. QED
      BY <1>5, <2>1, <3>3, <3>4
  <2>9. QED
    BY <2>7, <2>8
<1>8. mms' \in Layouts
  <2>1. PICK m, n : m = mms /\ n = mms'
    OBVIOUS
  <2>2. m \in Layouts /\ n = [m EXCEPT !.kernel = kernel, !.ZONE_UNMAPED_INDEX = x]
    BY <1>2, <1>3, <2>1
  <2>3. n \in Layouts
    BY <1>4, <1>7, <2>2, LayoutSet
  <2>4. QED
    BY <2>1, <2>3
<1>9. kernel \subseteq KernelPages
  BY <1>1, <1>3, KernelPagesAre
<1>10. KernelInv'
  <2>1. Read' = Read
    BY <1>2 DEF Read
  <2>2. QED
    BY <1>1, <1>2, <1>3, <1>5, <1>7, <1>9, <2>1 DEF KernelInv, Before
<1>11. Taken(kernel)
  BY <1>2, <1>3, <1>4, <1>5, <1>8 DEF Taken
<1>12. QED
  BY <1>10, <1>11

(* The first slabs get pages the kernel has not taken yet.                 *)
LEMMA SlabTakes ==
  ASSUME ZonesInv, KernelInv, kmalloc_slab_init
  PROVE  KernelInv' /\ \E taken : Taken(taken)
<1>1. PICK last \in end_of_struct .. end_of_struct + 1 :
        LET taken == end_of_struct + 1 .. last \cup PoolPages(last)
        IN /\ end_of_struct' = last
           /\ mms' = [mms EXCEPT !.kernel = @ \cup taken]
           /\ Take(taken)
  BY DEF kmalloc_slab_init
<1>2. PICK taken : taken = end_of_struct + 1 .. last \cup PoolPages(last)
  OBVIOUS
<1>3. /\ stage = "slab" /\ stage' = "frame_buffer" /\ end_of_struct' = last
      /\ mms' = [mms EXCEPT !.kernel = @ \cup taken] /\ Take(taken)
      /\ entry' = entry /\ e820' = e820
  BY <1>1, <1>2 DEF kmalloc_slab_init, boot
<1>4. /\ mms \in Layouts /\ mms.kernel = 1 .. end_of_struct /\ end_of_struct \in EndPages
      /\ entry > Len(Read) /\ mms.ZONE_UNMAPED_INDEX \in Nat \ {0}
      /\ \A i \in Reached : i # 1 => Zones[i].start < FourGB
  BY <1>3 DEF ZonesInv, KernelInv, Before
<1>5. end_of_struct \in Nat /\ last \in EndPages \cup {e + 1 : e \in EndPages}
  BY <1>4
<1>6. /\ last \in Nat /\ 1 .. last \subseteq KernelPages /\ PoolPages(last) \subseteq KernelPages
      /\ \A p \in PoolPages(last) : p > last
      /\ KernelPages \subseteq Nat
  BY <1>5, KernelPagesAre
<1>7. taken \in SUBSET Nat /\ taken \subseteq KernelPages /\ taken \cap (1 .. end_of_struct) = {}
      /\ 1 .. last \subseteq (1 .. end_of_struct) \cup taken
  <2>1. end_of_struct + 1 .. last \subseteq 1 .. last
    BY <1>5, <1>6
  <2>2. taken \subseteq KernelPages
    BY <1>2, <1>6, <2>1
  <2>3. \A p \in taken : p > end_of_struct
    BY <1>2, <1>5, <1>6
  <2>4. taken \cap (1 .. end_of_struct) = {}
    BY <1>5, <1>6, <2>2, <2>3
  <2>5. 1 .. last \subseteq (1 .. end_of_struct) \cup taken
    BY <1>2, <1>5, <1>6
  <2>6. QED
    BY <1>6, <2>2, <2>4, <2>5
<1>8. PICK k : k = mms.kernel \cup taken
  OBVIOUS
<1>9. /\ mms' = [mms EXCEPT !.kernel = k] /\ k \in SUBSET Nat /\ k \subseteq KernelPages
      /\ 1 .. last \subseteq k
  <2>1. 1 .. end_of_struct \subseteq KernelPages
    BY <1>4, KernelPagesAre
  <2>2. QED
    BY <1>3, <1>4, <1>6, <1>7, <1>8, <2>1
<1>10. /\ mms'.kernel = k /\ mms'.bits = mms.bits /\ Zones' = Zones
       /\ mms'.ZONE_UNMAPED_INDEX = mms.ZONE_UNMAPED_INDEX
  BY <1>4, <1>9 DEF Layouts, Zones
<1>11. mms' \in Layouts
  <2>1. PICK m, n : m = mms /\ n = mms'
    OBVIOUS
  <2>2. m \in Layouts /\ n = [m EXCEPT !.kernel = k]
    BY <1>4, <1>9, <2>1
  <2>3. n \in Layouts
    BY <1>9, <2>2, LayoutSet
  <2>4. QED
    BY <2>1, <2>3
<1>12. KernelInv'
  <2>1. Read' = Read /\ Reached' = Reached
    BY <1>3, <1>10 DEF Read, Reached
  <2>2. QED
    BY <1>3, <1>4, <1>9, <1>10, <2>1 DEF KernelInv, Before
<1>13. Taken(taken)
  BY <1>3, <1>4, <1>7, <1>8, <1>10, <1>11 DEF Taken
<1>14. QED
  BY <1>12, <1>13

(* At the start there is no zone.                                          *)
LEMMA ZonesInit == MapInit => ZonesInv /\ KernelInv
<1>1. SUFFICES ASSUME MapInit PROVE ZonesInv /\ KernelInv
  OBVIOUS
<1>2. /\ stage = "convert" /\ entry = 1 /\ end_of_struct \in EndPages
      /\ mms = [bits |-> 0, zones |-> <<>>, kernel |-> {}, ZONE_UNMAPED_INDEX |-> 1]
  BY <1>1 DEF MapInit, Ready
<1>3. mms \in Layouts /\ Zones = <<>> /\ mms.kernel = {} /\ mms.ZONE_UNMAPED_INDEX = 1
  <2>1. <<>> \in Seq(Zone)
    OBVIOUS
  <2>2. QED
    BY <1>2, <2>1 DEF Layouts, Zones
<1>4. ZonesInv
  BY <1>1, <1>2, <1>3, TableInit, NoZones DEF NoneYet, Before
<1>5. KernelInv
  BY <1>2, <1>3 DEF KernelInv, Before
<1>6. QED
  BY <1>4, <1>5

(* The allocator leaves the layout alone.                                  *)
LEMMA AllocateKeepsLayout == Next => mms' = mms
  BY DEF Next, AllocScan, AllocMark, FreePages

(* Every step keeps the zones and the kernel's pages.                      *)
LEMMA ZonesStep ==
  ASSUME TableInv, KernelThere, GivenInv, ZonesInv, KernelInv, [MapNext]_allVars
  PROVE  ZonesInv' /\ KernelInv'
<1>1. TableInv' /\ mms \in Layouts
  BY TableStep DEF ZonesInv
<1>2. CASE SkipDescriptor \/ MergeDescriptor \/ NewEntry \/ Converted \/ SortStep
  <2>1. /\ mms' = mms /\ entry' = entry /\ end_of_struct' = end_of_struct
        /\ stage \in Before /\ stage' \in Before
    BY <1>2 DEF SkipDescriptor, MergeDescriptor, NewEntry, Converting, Converted,
      SortStep, boot, pages, Before
  <2>2. Zones = <<>> /\ mms.kernel = {} /\ entry = 1
    BY <2>1 DEF ZonesInv
  <2>3. mms' \in Layouts /\ Zones' = <<>> /\ mms'.kernel = {} /\ entry' = 1
    BY <1>1, <2>1, <2>2 DEF Zones
  <2>4. NoneYet'
    BY <1>1, <2>1, <2>3 DEF NoneYet
  <2>5. ZonesInv'
    BY <2>4, NoZonesThen
  <2>6. KernelInv'
    BY <2>1, EarlyKernel
  <2>7. QED
    BY <2>5, <2>6
<1>3. CASE init_memory
  <2>1. /\ stage = "init_memory" /\ stage' = "zones" /\ entry' = entry /\ e820' = e820
        /\ end_of_struct' = end_of_struct
    BY <1>3 DEF init_memory, boot
  <2>2. PICK b : mms' = [mms EXCEPT !.bits = b]
    BY <1>3 DEF init_memory
  <2>3. /\ mms'.bits = b /\ Zones' = Zones /\ mms'.kernel = mms.kernel
        /\ mms'.ZONE_UNMAPED_INDEX = mms.ZONE_UNMAPED_INDEX
    BY <1>1, <2>2 DEF Layouts, Zones
  <2>4. b \in Nat /\ \A a \in DOMAIN Read : EndPage(e820[a]) <= b
    BY <1>3, <2>3, BitmapReaches
  <2>5. mms' \in Layouts
    <3>1. PICK m, n : m = mms /\ n = mms'
      OBVIOUS
    <3>2. m \in Layouts /\ n = [m EXCEPT !.bits = b]
      BY <1>1, <2>2, <3>1
    <3>3. n \in Layouts
      BY <2>4, <3>2, LayoutSet
    <3>4. QED
      BY <3>1, <3>3
  <2>6. KernelInv'
    BY <2>1, <2>3, EarlyKernel DEF Before
  <2>7. Zones = <<>> /\ entry = 1
    BY <2>1 DEF ZonesInv, Before
  <2>8. Read' = Read /\ DOMAIN Zones' = {} /\ stage' \notin Before
    BY <2>1, <2>3, <2>7 DEF Read, Before
  <2>9. \A a \in DOMAIN Read : ~(a < entry')
    BY <2>1, <2>7, ReadIndices
  <2>10. \A a \in DOMAIN Read' : EndPage(e820'[a]) <= mms'.bits
    BY <2>1, <2>3, <2>4, <2>8
  <2>11. ZonesInv'
    BY <2>1, <2>5, <2>7, <2>8, <2>9, <2>10 DEF ZonesInv
  <2>12. QED
    BY <2>6, <2>11
<1>4. CASE InitZone
  <2>1. ZonesInv'
    BY <1>4, InitZoneKeeps
  <2>2. /\ stage = "zones" /\ stage' = "zones" /\ end_of_struct' = end_of_struct
        /\ mms'.kernel = mms.kernel /\ mms'.ZONE_UNMAPED_INDEX = mms.ZONE_UNMAPED_INDEX
    BY <1>4, ZoneMade DEF InitZone
  <2>3. KernelInv'
    BY <2>2, EarlyKernel
  <2>4. QED
    BY <2>1, <2>3
<1>5. CASE InitKernelPages \/ kmalloc_slab_init
  <2>1. KernelInv' /\ \E taken : Taken(taken)
    BY <1>5, InitKernelTakes, SlabTakes
  <2>2. /\ stage \notin Before /\ stage' \notin Before /\ entry' = entry /\ e820' = e820
    BY <1>5 DEF InitKernelPages, kmalloc_slab_init, boot, Before
  <2>3. mms' \in Layouts /\ mms'.bits = mms.bits /\ Zones' = Zones
    BY <2>1 DEF Taken
  <2>4. QED
    BY <2>1, <2>2, <2>3, ZonesStay
<1>6. CASE frame_buffer_init \/ pagetable_init \/ IOAPIC_pagetable_remap \/ Allocate
  <2>1. /\ mms' = mms /\ entry' = entry /\ e820' = e820 /\ end_of_struct' = end_of_struct
        /\ stage \notin Before \cup {"zones"} /\ stage' \notin Before \cup {"zones"}
        /\ stage' # "slab"
    <3>1. CASE frame_buffer_init \/ pagetable_init \/ IOAPIC_pagetable_remap
      BY <3>1 DEF frame_buffer_init, pagetable_init, IOAPIC_pagetable_remap, boot, pages,
        Before
    <3>2. CASE Allocate
      BY <3>2, AllocateKeepsLayout DEF Allocate, boot, Before
    <3>3. QED
      BY <1>6, <3>1, <3>2
  <2>2. KernelInv'
    BY <2>1, LaterKernel
  <2>3. Zones' = Zones
    BY <2>1 DEF Zones
  <2>4. ZonesInv'
    BY <1>1, <2>1, <2>3, ZonesStay
  <2>5. QED
    BY <2>2, <2>4
<1>7. CASE UNCHANGED allVars
  <2>1. UNCHANGED <<stage, mms, entry, e820, end_of_struct>>
    BY <1>7 DEF allVars, boot, pages
  <2>2. Zones' = Zones /\ Read' = Read /\ Reached' = Reached
    BY <2>1 DEF Zones, Read, Reached
  <2>3. KernelInv'
    BY <2>1, <2>2 DEF KernelInv
  <2>4. ZonesInv'
    BY <2>1, <2>2 DEF ZonesInv
  <2>5. QED
    BY <2>3, <2>4
<1>8. QED
  BY <1>2, <1>3, <1>4, <1>5, <1>6, <1>7 DEF MapNext

-----------------------------------------------------------------------------
(* A function on 1 .. n is a sequence, and what Append makes of it.        *)
LEMMA AppendIs ==
  ASSUME NEW n \in Nat, NEW f \in [1 .. n -> Nat], NEW x \in Nat
  PROVE  Append(f, x) = [i \in 1 .. n + 1 |-> IF i = n + 1 THEN x ELSE f[i]]
<1>1. f \in Seq(Nat) /\ Len(f) = n
  OBVIOUS
<1>2. PICK g : g = Append(f, x)
  OBVIOUS
<1>3. /\ g \in Seq(Nat) /\ Len(g) = n + 1 /\ g[n + 1] = x
      /\ \A i \in 1 .. n : g[i] = f[i]
  BY <1>1, <1>2, AppendProperties
<1>4. g = [i \in 1 .. n + 1 |-> g[i]]
  BY <1>3
<1>5. \A i \in 1 .. n + 1 : g[i] = IF i = n + 1 THEN x ELSE f[i]
  BY <1>3
<1>6. QED
  BY <1>2, <1>4, <1>5

(* Before the loop of init_memory the bitmap is all ones.                  *)
LEMMA BitmapReady ==
  ASSUME ZonesInv, init_memory, Ready(mms)
  PROVE  Ready(mms)'
<1>1. mms \in Layouts /\ Zones = <<>> /\ mms.kernel = {}
  BY DEF ZonesInv, init_memory, Before
<1>2. PICK b : /\ mms' = [mms EXCEPT !.bits = b] /\ bits_map' = 0 .. b - 1
               /\ UNCHANGED <<page_free_count, page_using_count, call, held, answer>>
  BY DEF init_memory, calls
<1>3. mms'.bits = b /\ Zones' = <<>> /\ mms'.kernel = {}
  BY <1>1, <1>2 DEF Layouts, Zones
<1>4. DOMAIN Zones = {} /\ DOMAIN Zones' = {} /\ AllZonePages' = {}
  BY <1>1, <1>3 DEF AllZonePages
<1>5. bits_map' = (PageIds' \ AllZonePages') \cup mms'.kernel
  BY <1>2, <1>3, <1>4 DEF PageIds
<1>6. page_free_count' = [i \in DOMAIN Zones' |-> Cardinality(ZonePages(i)' \ mms'.kernel)]
  BY <1>2, <1>4 DEF Ready
<1>7. page_using_count' = [i \in DOMAIN Zones' |-> Cardinality(ZonePages(i)' \cap mms'.kernel)]
  BY <1>2, <1>4 DEF Ready
<1>8. QED
  BY <1>2, <1>5, <1>6, <1>7 DEF Ready

(* The zones are apart and within the bitmap at every turn of the loop.    *)
Within ==
  /\ Zones \in Seq(Zone)
  /\ \A k \in DOMAIN Zones : Zones[k].start \in Nat /\ Zones[k].end \in Nat
                             /\ ZonePages(k) \subseteq PageIds
  /\ \A k, l \in DOMAIN Zones : k # l => ZonePages(k) \cap ZonePages(l) = {}

Zoned == TableInv /\ ZonesInv /\ stage \notin Before

LEMMA ZonesWithin == Zoned => Within
<1> SUFFICES ASSUME TableInv, ZonesInv, stage \notin Before PROVE Within
  BY DEF Zoned
<1>1. mms \in Layouts /\ mms.bits \in Nat /\ Zones \in Seq(Zone)
      /\ \A k \in DOMAIN Zones : k \in Nat /\ Zones[k].start \in Nat /\ Zones[k].end \in Nat
  <2>1. mms \in Layouts
    BY DEF ZonesInv
  <2>2. QED
    BY <2>1, LayoutParts DEF Zones
<1>2. ASSUME NEW k \in DOMAIN Zones PROVE ZonePages(k) \subseteq PageIds
  <2>1. PICK a \in DOMAIN Read : Zones[k] = WholePages(e820[a])
    BY DEF ZonesInv
  <2>2. EndPage(e820[a]) <= mms.bits
    BY DEF ZonesInv
  <2>3. Zones[k].end = EndPage(e820[a])
    BY <2>1 DEF WholePages, EndPage
  <2>4. QED
    BY <1>1, <2>2, <2>3 DEF ZonePages, PageIds
<1>3. ASSUME NEW k \in DOMAIN Zones, NEW l \in DOMAIN Zones, k # l
      PROVE  ZonePages(k) \cap ZonePages(l) = {}
  <2>1. k < l \/ l < k
    BY <1>1, <1>3
  <2>2. Zones[k].end <= Zones[l].start \/ Zones[l].end <= Zones[k].start
    BY <2>1 DEF ZonesInv
  <2>3. QED
    BY <1>1, <2>2 DEF ZonePages
<1>4. QED
  BY <1>1, <1>2, <1>3 DEF Within

(* The same of the next state.                                             *)
LEMMA ZonesWithinThen == Zoned' => Within'
  BY ZonesWithin, PTL

(* A turn of the loop of init_memory counts the pages of the zone it makes *)
(* and clears their bits, which were set.                                  *)
LEMMA ZoneReady ==
  ASSUME TableInv, KernelThere, GivenInv, ZonesInv, KernelInv, TableInv', ZonesInv',
         InitZone, Ready(mms)
  PROVE  Ready(mms)'
<1>1. PICK z, n : z = WholePages(e820[entry]) /\ n = Len(Zones)
  OBVIOUS
<1>2. /\ stage = "zones" /\ stage' = "zones" /\ stage \notin Before /\ stage' \notin Before
      /\ UNCHANGED <<call, held, answer>> /\ mms.kernel = {}
  BY DEF InitZone, calls, Before, KernelInv
<1>3. CASE ~(e820[entry].type = 1 /\ z.end > z.start)
  <2>1. UNCHANGED <<mms, bits_map, page_free_count, page_using_count>>
    BY <1>1, <1>3 DEF InitZone, pages
  <2>2. QED
    BY <1>2, <2>1, LayoutStays DEF Ready
<1>4. CASE e820[entry].type = 1 /\ z.end > z.start
  <2>1. /\ Zones' = Append(Zones, z) /\ mms'.bits = mms.bits /\ mms'.kernel = {}
    BY <1>1, <1>2, <1>4, ZoneMade
  <2>2. /\ bits_map' = SymDiff(bits_map, z.start .. z.end - 1)
        /\ page_free_count' = Append(page_free_count, z.end - z.start)
        /\ page_using_count' = Append(page_using_count, 0)
    BY <1>1, <1>4 DEF InitZone
  <2>3. z \in Zone /\ z.start \in Nat /\ z.end \in Nat
    <3>1. z \in Zone
      BY <1>1, ZoneMade, ReadEntries
    <3>2. QED
      BY <3>1 DEF Zone
  <2>4. /\ Zones \in Seq(Zone) /\ n \in Nat /\ DOMAIN Zones = 1 .. n
        /\ \A k \in DOMAIN Zones : ZonePages(k) \subseteq PageIds
    BY <1>1, <1>2, ZonesWithin DEF Within, Zoned
  <2>5. /\ DOMAIN Zones' = 1 .. n + 1 /\ Zones'[n + 1] = z
        /\ \A k \in 1 .. n : Zones'[k] = Zones[k]
    BY <1>1, <2>1, <2>3, <2>4
  <2>6. PICK P : P = z.start .. z.end - 1
    OBVIOUS
  <2>7. /\ ZonePages(n + 1)' = P
        /\ \A k \in 1 .. n : ZonePages(k)' = ZonePages(k)
    BY <2>5, <2>6 DEF ZonePages
  <2>8. /\ \A k \in DOMAIN Zones' : ZonePages(k)' \subseteq PageIds'
        /\ \A k, l \in DOMAIN Zones' : k # l => ZonePages(k)' \cap ZonePages(l)' = {}
    BY <1>2, ZonesWithinThen DEF Within, Zoned
  <2>9. P \subseteq PageIds /\ P \cap AllZonePages = {} /\ AllZonePages' = AllZonePages \cup P
    <3>1. P \subseteq PageIds' /\ \A k \in 1 .. n : P \cap ZonePages(k) = {}
      <4>1. ASSUME NEW k \in 1 .. n PROVE P \cap ZonePages(k) = {}
        <5>1. k \in DOMAIN Zones' /\ n + 1 \in DOMAIN Zones' /\ k # n + 1
          BY <2>4, <2>5
        <5>2. ZonePages(k)' \cap ZonePages(n + 1)' = {}
          BY <2>8, <5>1
        <5>3. QED
          BY <2>7, <5>2
      <4>2. n + 1 \in DOMAIN Zones'
        BY <2>4, <2>5
      <4>3. QED
        BY <2>7, <2>8, <4>1, <4>2
    <3>2. PageIds' = PageIds
      BY <2>1 DEF PageIds
    <3>3. AllZonePages = UNION {ZonePages(k) : k \in 1 .. n}
      BY <2>4 DEF AllZonePages
    <3>4. AllZonePages' = UNION {ZonePages(k)' : k \in 1 .. n + 1}
      BY <2>5 DEF AllZonePages
    <3>5. AllZonePages' = AllZonePages \cup P
      <4>1. ASSUME NEW x \in AllZonePages' PROVE x \in AllZonePages \cup P
        <5>1. PICK k \in 1 .. n + 1 : x \in ZonePages(k)'
          BY <3>4, <4>1
        <5>2. CASE k = n + 1
          BY <2>7, <5>1, <5>2
        <5>3. CASE k # n + 1
          <6>1. k \in 1 .. n
            BY <2>4, <5>1, <5>3
          <6>2. QED
            BY <2>7, <3>3, <5>1, <6>1
        <5>4. QED
          BY <5>2, <5>3
      <4>2. ASSUME NEW x \in AllZonePages PROVE x \in AllZonePages'
        <5>1. PICK k \in 1 .. n : x \in ZonePages(k)
          BY <3>3, <4>2
        <5>2. k \in 1 .. n + 1
          BY <2>4, <5>1
        <5>3. QED
          BY <2>7, <3>4, <5>1, <5>2
      <4>3. P \subseteq AllZonePages'
        BY <2>4, <2>7, <3>4
      <4>4. QED
        BY <4>1, <4>2, <4>3
    <3>6. P \cap AllZonePages = {}
      BY <3>1, <3>3
    <3>7. QED
      BY <3>1, <3>2, <3>5, <3>6
  <2>10. bits_map' = (PageIds' \ AllZonePages') \cup mms'.kernel
    <3>1. bits_map = PageIds \ AllZonePages /\ PageIds' = PageIds
      BY <1>2, <2>1 DEF Ready, PageIds
    <3>2. bits_map' = (bits_map \ P) \cup (P \ bits_map)
      BY <2>2, <2>6 DEF SymDiff
    <3>3. QED
      BY <2>1, <2>9, <3>1, <3>2
  <2>11. /\ IsFiniteSet(P) /\ Cardinality(P) = z.end - z.start
         /\ z.end - z.start \in Nat /\ Cardinality({}) = 0
    <3>1. z.start \in Int /\ z.end - 1 \in Int
      BY <2>3
    <3>2. /\ IsFiniteSet(P)
          /\ Cardinality(P) = IF z.start > z.end - 1 THEN 0 ELSE z.end - 1 - z.start + 1
      BY <2>6, <3>1, FS_Interval
    <3>3. Cardinality(P) = z.end - z.start /\ z.end - z.start \in Nat
      BY <1>4, <2>3, <3>2
    <3>4. QED
      BY <3>2, <3>3, FS_EmptySet
  <2>12. /\ page_free_count = [i \in 1 .. n |-> Cardinality(ZonePages(i))]
         /\ page_using_count = [i \in 1 .. n |-> 0]
    <3>1. page_free_count = [i \in 1 .. n |-> Cardinality(ZonePages(i) \ {})]
          /\ page_using_count = [i \in 1 .. n |-> Cardinality(ZonePages(i) \cap {})]
      BY <1>2, <2>4 DEF Ready
    <3>2. \A i : ZonePages(i) \ {} = ZonePages(i) /\ ZonePages(i) \cap {} = {}
      OBVIOUS
    <3>3. QED
      BY <2>11, <3>1, <3>2
  <2>13. page_free_count \in [1 .. n -> Nat] /\ page_using_count \in [1 .. n -> Nat]
    <3>1. \A i \in 1 .. n : Cardinality(ZonePages(i)) \in Nat
      <4>1. SUFFICES ASSUME NEW i \in 1 .. n PROVE Cardinality(ZonePages(i)) \in Nat
        OBVIOUS
      <4>2. Zones[i].start \in Nat /\ Zones[i].end \in Nat
        BY <1>2, <2>4, ZonesWithin DEF Within, Zoned
      <4>3. IsFiniteSet(ZonePages(i))
        BY <4>2, FS_Interval DEF ZonePages
      <4>4. QED
        BY <4>3, FS_CardinalityType
    <3>2. QED
      BY <2>12, <3>1
  <2>14. page_free_count' = [i \in DOMAIN Zones' |-> Cardinality(ZonePages(i)' \ mms'.kernel)]
    <3>1. page_free_count' = [i \in 1 .. n + 1 |-> IF i = n + 1 THEN z.end - z.start
                                                   ELSE page_free_count[i]]
      BY <2>2, <2>4, <2>11, <2>13, AppendIs
    <3>2. \A i \in 1 .. n + 1 : Cardinality(ZonePages(i)' \ mms'.kernel)
            = IF i = n + 1 THEN z.end - z.start ELSE page_free_count[i]
      <4>1. SUFFICES ASSUME NEW i \in 1 .. n + 1
                     PROVE  Cardinality(ZonePages(i)' \ mms'.kernel)
                              = IF i = n + 1 THEN z.end - z.start ELSE page_free_count[i]
        OBVIOUS
      <4>2. ZonePages(i)' \ mms'.kernel = ZonePages(i)'
        BY <2>1
      <4>3. CASE i = n + 1
        BY <2>7, <2>11, <4>2, <4>3
      <4>4. CASE i # n + 1
        <5>1. i \in 1 .. n
          BY <2>4, <4>4
        <5>2. QED
          BY <2>7, <2>12, <4>2, <4>4, <5>1
      <4>5. QED
        BY <4>3, <4>4
    <3>3. QED
      BY <2>5, <3>1, <3>2
  <2>15. page_using_count' = [i \in DOMAIN Zones' |-> Cardinality(ZonePages(i)' \cap mms'.kernel)]
    <3>1. page_using_count' = [i \in 1 .. n + 1 |-> IF i = n + 1 THEN 0 ELSE page_using_count[i]]
      BY <2>2, <2>4, <2>13, AppendIs
    <3>2. \A i \in 1 .. n + 1 : Cardinality(ZonePages(i)' \cap mms'.kernel)
            = IF i = n + 1 THEN 0 ELSE page_using_count[i]
      <4>1. \A i : ZonePages(i)' \cap mms'.kernel = {}
        BY <2>1
      <4>2. \A i \in 1 .. n : page_using_count[i] = 0
        BY <2>12
      <4>3. \A i \in 1 .. n + 1 : i # n + 1 => i \in 1 .. n
        BY <2>4
      <4>4. QED
        BY <2>11, <4>1, <4>2, <4>3
    <3>3. QED
      BY <2>5, <3>1, <3>2
  <2>16. call = [c \in Callers |-> Idle] /\ held = {}
         /\ answer = [for |-> {}, number |-> 0, page |-> NULL]
    BY DEF Ready
  <2>17. QED
    BY <1>2, <2>10, <2>14, <2>15, <2>16 DEF Ready
<1>5. QED
  BY <1>3, <1>4

(* Pages taken from the zones move from one counter to the other.          *)
Disjoint(T, K) == T \cap K = {}
Moved(Z, K, T) ==
  /\ Cardinality(Z \ (K \cup T)) = Cardinality(Z \ K) - Cardinality(Z \cap T)
  /\ Cardinality(Z \cap (K \cup T)) = Cardinality(Z \cap K) + Cardinality(Z \cap T)

LEMMA TakenCount ==
  ASSUME NEW Z, IsFiniteSet(Z), NEW K, NEW T, Disjoint(T, K)
  PROVE  Moved(Z, K, T)
<1>1. IsFiniteSet(Z \ K) /\ IsFiniteSet(Z \cap K) /\ IsFiniteSet(Z \cap T)
  BY FS_Subset
<1>2. Z \ (K \cup T) = (Z \ K) \ T /\ (Z \ K) \cap T = Z \cap T
  BY DEF Disjoint
<1>3. Z \cap (K \cup T) = (Z \cap K) \cup (Z \cap T) /\ (Z \cap K) \cap (Z \cap T) = {}
  BY DEF Disjoint
<1>4. Cardinality((Z \ K) \ T) = Cardinality(Z \ K) - Cardinality((Z \ K) \cap T)
  BY <1>1, FS_Difference
<1>5. Cardinality((Z \cap K) \cup (Z \cap T))
        = Cardinality(Z \cap K) + Cardinality(Z \cap T) - Cardinality((Z \cap K) \cap (Z \cap T))
  BY <1>1, FS_Union
<1>6. Cardinality({}) = 0 /\ Cardinality(Z \cap K) \in Nat /\ Cardinality(Z \cap T) \in Nat
  BY <1>1, FS_EmptySet, FS_CardinalityType
<1>7. Cardinality(Z \ (K \cup T)) = Cardinality(Z \ K) - Cardinality(Z \cap T)
  BY <1>2, <1>4
<1>8. Cardinality(Z \cap (K \cup T)) = Cardinality(Z \cap K) + Cardinality(Z \cap T)
  <2>1. Cardinality((Z \cap K) \cap (Z \cap T)) = 0
    BY <1>3, <1>6
  <2>2. Cardinality((Z \cap K) \cup (Z \cap T)) = Cardinality(Z \cap K) + Cardinality(Z \cap T)
    BY <1>5, <1>6, <2>1
  <2>3. QED
    BY <1>3, <2>2
<1>9. QED
  BY <1>7, <1>8 DEF Moved

(* The pages the kernel takes are counted, each for its zone.              *)
LEMMA TakeReady ==
  ASSUME Within, Ready(mms), NEW taken, Taken(taken), UNCHANGED calls
  PROVE  Ready(mms)'
<1>1. PICK K : K = mms.kernel
  OBVIOUS
<1>2. /\ K \cap taken = {} /\ mms'.kernel = K \cup taken /\ Zones' = Zones
      /\ mms'.bits = mms.bits
      /\ bits_map' = bits_map \cup taken
      /\ page_free_count' = [i \in DOMAIN Zones |->
           page_free_count[i] - Cardinality(ZonePages(i) \cap taken)]
      /\ page_using_count' = [i \in DOMAIN Zones |->
           page_using_count[i] + Cardinality(ZonePages(i) \cap taken)]
  BY <1>1 DEF Taken, Take
<1>3. PageIds' = PageIds /\ AllZonePages' = AllZonePages /\ \A i : ZonePages(i)' = ZonePages(i)
  BY <1>2 DEF PageIds, AllZonePages, ZonePages
<1>4. /\ bits_map = (PageIds \ AllZonePages) \cup K
      /\ page_free_count = [i \in DOMAIN Zones |-> Cardinality(ZonePages(i) \ K)]
      /\ page_using_count = [i \in DOMAIN Zones |-> Cardinality(ZonePages(i) \cap K)]
      /\ call = [c \in Callers |-> Idle] /\ held = {}
      /\ answer = [for |-> {}, number |-> 0, page |-> NULL]
  BY <1>1 DEF Ready
<1>5. \A i \in DOMAIN Zones : IsFiniteSet(ZonePages(i))
  <2>1. SUFFICES ASSUME NEW i \in DOMAIN Zones PROVE IsFiniteSet(ZonePages(i))
    OBVIOUS
  <2>2. Zones[i].start \in Nat /\ Zones[i].end \in Nat
    BY DEF Within
  <2>3. QED
    BY <2>2, FS_Interval DEF ZonePages
<1>6. bits_map' = (PageIds' \ AllZonePages') \cup mms'.kernel
  BY <1>2, <1>3, <1>4
<1>7. ASSUME NEW i \in DOMAIN Zones
      PROVE  /\ page_free_count'[i] = Cardinality(ZonePages(i) \ (K \cup taken))
             /\ page_using_count'[i] = Cardinality(ZonePages(i) \cap (K \cup taken))
  <2>1. PICK Z : Z = ZonePages(i)
    OBVIOUS
  <2>2. /\ page_free_count'[i] = Cardinality(Z \ K) - Cardinality(Z \cap taken)
        /\ page_using_count'[i] = Cardinality(Z \cap K) + Cardinality(Z \cap taken)
    BY <1>2, <1>4, <2>1
  <2>3. IsFiniteSet(Z) /\ taken \cap K = {}
    BY <1>2, <1>5, <2>1
  <2>4. /\ Cardinality(Z \ (K \cup taken)) = Cardinality(Z \ K) - Cardinality(Z \cap taken)
        /\ Cardinality(Z \cap (K \cup taken)) = Cardinality(Z \cap K) + Cardinality(Z \cap taken)
    <3>1. IsFiniteSet(Z) /\ Disjoint(taken, K)
      BY <2>3 DEF Disjoint
    <3>2. Moved(Z, K, taken)
      BY <3>1, TakenCount, Zenon
    <3>3. QED
      BY <3>2 DEF Moved
  <2>5. QED
    BY <2>1, <2>2, <2>4
<1>8. page_free_count' = [i \in DOMAIN Zones' |-> Cardinality(ZonePages(i)' \ mms'.kernel)]
  BY <1>2, <1>3, <1>7
<1>9. page_using_count' = [i \in DOMAIN Zones' |-> Cardinality(ZonePages(i)' \cap mms'.kernel)]
  BY <1>2, <1>3, <1>7
<1>10. UNCHANGED <<call, held, answer>>
  BY DEF calls
<1>11. QED
  BY <1>4, <1>6, <1>8, <1>9, <1>10 DEF Ready

(* When the zones are made, the kernel's pages lie in one of them: the     *)
(* allocator gets a layout it can work with.                               *)
LEMMA LaidOut ==
  ASSUME TableInv, KernelThere, GivenInv, ZonesInv, KernelInv,
         stage \notin Before \cup {"zones"}
  PROVE  /\ WellFormed(mms) /\ Zones # <<>>
         /\ mms.kernel \subseteq UNION {ZonePages(k) : k \in DOMAIN Zones}
<1>1. PICK i \in DOMAIN Read : e820[i].type = 1 /\ Holds(Extent(e820[i]))
  BY KernelEntry DEF Before
<1>2. PICK e, z : e = e820[i] /\ z = WholePages(e)
  OBVIOUS
<1>3. /\ 1 \in KernelPages /\ mms.kernel \subseteq KernelPages /\ KernelPages \subseteq Nat
      /\ entry > Len(Read) /\ e820 # <<>>
  BY KernelEntry, KernelPagesAre DEF KernelInv, Before
<1>4. e.start \in Nat /\ e.length \in Nat /\ z.start \in Nat /\ z.end \in Nat
  <2>1. e.start \in Nat /\ e.length \in Nat
    BY <1>2, ReadEntries
  <2>2. QED
    BY <1>2, <2>1, ZoneIsRange
<1>5. \A p \in KernelPages : p \in z.start .. z.end - 1
  <2>1. SUFFICES ASSUME NEW p \in KernelPages PROVE p \in z.start .. z.end - 1
    OBVIOUS
  <2>2. p \in Int /\ Units(p) \subseteq Extent(e)
    BY <1>1, <1>2, <1>3 DEF Holds
  <2>3. QED
    BY <1>2, <1>4, <2>2, ZoneIsRange
<1>6. i < entry
  <2>1. Read \in Seq(TableEntry) /\ entry \in Nat
    BY <1>3, ReadIsPrefix DEF ZonesInv
  <2>2. QED
    BY <1>3, <2>1
<1>7. PICK k \in DOMAIN Zones : Zones[k] = z
  <2>1. z.start < z.end
    BY <1>3, <1>4, <1>5
  <2>2. QED
    BY <1>1, <1>2, <1>6, <2>1 DEF ZonesInv
<1>8. Within
  BY ZonesWithin DEF Zoned
<1>9. Zones # <<>>
  BY <1>7
<1>10. mms.kernel \subseteq ZonePages(k)
  BY <1>3, <1>5, <1>7 DEF ZonePages
<1>11. WellFormed(mms)
  <2>1. /\ mms.bits \in Nat /\ mms.zones \in Seq([start : Nat, end : Nat])
        /\ mms.ZONE_UNMAPED_INDEX \in Nat \ {0}
    BY LayoutParts DEF ZonesInv, Zone
  <2>2. mms.kernel \subseteq 0 .. mms.bits - 1
    BY <1>8, <1>10 DEF Within, PageIds
  <2>3. QED
    BY <1>8, <2>1, <2>2 DEF WellFormed, Within, Zones, ZonePages, PageIds
<1>12. QED
  BY <1>9, <1>10, <1>11

(* The invariant of the start holds at its start, and is kept.             *)
LEMMA MapInvInit == MapInit => MapInv
  BY TableInit, ZonesInit DEF MapInv

LEMMA MapInvStep == MapInv /\ [MapNext]_allVars => MapInv'
  BY TableStep, ZonesStep DEF MapInv

(* Before the first zone there is nothing to allocate.                     *)
LEMMA AllocInit == MapInit => AllocInv
  BY DEF MapInit, AllocInv, Ready

(* The allocator's invariant starts where the last page table is made.     *)
LEMMA AllocStarts ==
  ASSUME OneCaller, MapInv, AllocInv, stage \notin Before \cup {"zones", "up"},
         UNCHANGED vars
  PROVE  RunsInv'
<1>1. Ready(mms) /\ WellFormed(mms) /\ mms.zones # <<>>
  BY LaidOut DEF AllocInv, MapInv, Zones
<1>2. PICK m : m = mms
  OBVIOUS
<1>3. RunsInv
  <2>1. WellFormed(m) /\ m.zones # <<>> /\ Ready(m)
    BY <1>1, <1>2
  <2>2. QED
    BY <2>1, ReadyRuns
<1>4. QED
  BY <1>3, NextRuns

(* The layout is ready at every stage of the start, and the allocator      *)
(* keeps its invariant from there on.                                      *)
LEMMA AllocStep ==
  ASSUME OneCaller, MapInv, MapInv', AllocInv, [MapNext]_allVars
  PROVE  AllocInv'
<1>1. /\ TableInv /\ KernelThere /\ GivenInv /\ ZonesInv /\ KernelInv
      /\ TableInv' /\ ZonesInv'
  BY DEF MapInv
<1>2. ASSUME Ready(mms), UNCHANGED <<pages, calls>> PROVE Ready(mms)'
  <2>1. UNCHANGED <<mms, bits_map, page_free_count, page_using_count, call, held, answer>>
    BY <1>2 DEF pages, calls
  <2>2. QED
    BY <1>2, <2>1, LayoutStays DEF Ready
<1>3. CASE SkipDescriptor \/ MergeDescriptor \/ NewEntry \/ Converted \/ SortStep
             \/ frame_buffer_init \/ pagetable_init
  <2>1. stage # "up" /\ stage' # "up" /\ UNCHANGED <<pages, calls>>
    <3>1. CASE SkipDescriptor \/ MergeDescriptor \/ NewEntry \/ Converted
      BY <3>1 DEF SkipDescriptor, MergeDescriptor, NewEntry, Converting, Converted
    <3>2. CASE SortStep
      BY <3>2 DEF SortStep
    <3>3. CASE frame_buffer_init \/ pagetable_init
      BY <3>3 DEF frame_buffer_init, pagetable_init
    <3>4. QED
      BY <1>3, <3>1, <3>2, <3>3
  <2>2. QED
    BY <1>2, <2>1 DEF AllocInv
<1>4. CASE init_memory
  <2>1. stage # "up" /\ stage' # "up"
    BY <1>4 DEF init_memory
  <2>2. Ready(mms)'
    BY <1>1, <1>4, <2>1, BitmapReady DEF AllocInv
  <2>3. QED
    BY <2>1, <2>2 DEF AllocInv
<1>5. CASE InitZone
  <2>1. stage # "up" /\ stage' # "up"
    BY <1>1, <1>5, ZoneMade
  <2>2. Ready(mms)'
    BY <1>1, <1>5, <2>1, ZoneReady DEF AllocInv
  <2>3. QED
    BY <2>1, <2>2 DEF AllocInv
<1>6. CASE InitKernelPages \/ kmalloc_slab_init
  <2>1. stage # "up" /\ stage' # "up" /\ stage \notin Before /\ UNCHANGED calls
    BY <1>6 DEF InitKernelPages, kmalloc_slab_init, Before
  <2>2. PICK taken : Taken(taken)
    BY <1>1, <1>6, InitKernelTakes, SlabTakes
  <2>3. Ready(mms)'
    BY <1>1, <2>1, <2>2, ZonesWithin, TakeReady DEF AllocInv, Zoned
  <2>4. QED
    BY <2>1, <2>3 DEF AllocInv
<1>7. CASE IOAPIC_pagetable_remap
  <2>1. /\ stage = "IOAPIC" /\ stage' = "up"
        /\ UNCHANGED <<mms, bits_map, page_free_count, page_using_count, call, held, answer>>
    BY <1>7 DEF IOAPIC_pagetable_remap, pages, calls
  <2>2. RunsInv'
    BY <2>1, AllocStarts DEF vars, Before
  <2>3. QED
    BY <2>1, <2>2 DEF AllocInv
<1>8. CASE Allocate
  <2>1. stage = "up" /\ stage' = "up" /\ Next
    BY <1>8 DEF Allocate
  <2>2. RunsInv'
    BY <2>1, NextRuns DEF AllocInv
  <2>3. QED
    BY <2>1, <2>2 DEF AllocInv
<1>9. CASE UNCHANGED allVars
  <2>1. stage' = stage /\ UNCHANGED <<pages, calls>>
    BY <1>9 DEF allVars
  <2>2. CASE stage # "up"
    BY <1>2, <2>1, <2>2 DEF AllocInv
  <2>3. CASE stage = "up"
    <3>1. UNCHANGED vars
      BY <2>1 DEF vars, pages, calls
    <3>2. RunsInv'
      BY <2>3, <3>1, NextRuns DEF AllocInv
    <3>3. QED
      BY <2>1, <2>3, <3>2 DEF AllocInv
  <2>4. QED
    BY <2>2, <2>3
<1>10. QED
  BY <1>3, <1>4, <1>5, <1>6, <1>7, <1>8, <1>9 DEF MapNext

(* A page that is free or handed out is one of a zone, and not the         *)
(* kernel's.                                                               *)
LEMMA FreeInZones ==
  ASSUME AllocInv
  PROVE  (PageIds \ bits_map) \cup HeldPages \subseteq AllZonePages \ mms.kernel
<1>1. CASE stage # "up"
  <2>1. bits_map = (PageIds \ AllZonePages) \cup mms.kernel /\ held = {}
    BY <1>1 DEF AllocInv, Ready
  <2>2. QED
    BY <2>1 DEF HeldPages
<1>2. CASE stage = "up"
  BY <1>2 DEF AllocInv, RunsInv, BitmapIsUsage, Reserved, Kept
<1>3. QED
  BY <1>1, <1>2

(* A page of a zone is whole RAM in the firmware's map.                    *)
LEMMA ZonePagesAreRam ==
  ASSUME MapInv, NEW p \in AllZonePages
  PROVE  Units(p) \subseteq given[1]
<1>1. TableInv /\ ZonesInv
  BY DEF MapInv
<1>2. PICK k \in DOMAIN Zones : p \in ZonePages(k)
  BY DEF AllZonePages
<1>3. PICK a \in DOMAIN Read : e820[a].type = 1 /\ Zones[k] = WholePages(e820[a])
  BY <1>1 DEF ZonesInv
<1>4. PICK e : e = e820[a]
  OBVIOUS
<1>5. /\ a \in DOMAIN e820 /\ e.start \in Nat /\ e.length \in Nat
      /\ WholePages(e).start \in Nat /\ WholePages(e).end \in Nat
  <2>1. a \in DOMAIN e820 /\ e.start \in Nat /\ e.length \in Nat
    BY <1>1, <1>4, ReadEntries
  <2>2. QED
    BY <2>1, ZoneIsRange
<1>6. p \in WholePages(e).start .. WholePages(e).end - 1
  BY <1>2, <1>3, <1>4 DEF ZonePages
<1>7. Units(p) \subseteq Extent(e)
  BY <1>5, <1>6, ZoneIsRange
<1>8. Extent(e) \subseteq Covered(e820, 1)
  BY <1>3, <1>4, <1>5 DEF Covered
<1>9. Covered(e820, 1) \subseteq given[1]
  <2>1. 1 \in 1 .. 5
    OBVIOUS
  <2>2. QED
    BY <1>1, <2>1 DEF TableInv
<1>10. QED
  BY <1>7, <1>8, <1>9

(* So is a page that is free or in use, and it is not the kernel's.        *)
LEMMA HandsOut == MapInv /\ AllocInv => HandsOutRam
<1>1. SUFFICES ASSUME MapInv, AllocInv, NEW p \in (PageIds \ bits_map) \cup HeldPages
               PROVE  /\ Units(p) \subseteq given[1]
                      /\ stage # "zones" => p \notin 0 .. end_of_struct \cup mms.kernel
  BY DEF HandsOutRam
<1>2. p \in AllZonePages /\ p \notin mms.kernel
  BY <1>1, FreeInZones
<1>3. Units(p) \subseteq given[1]
  BY <1>1, <1>2, ZonePagesAreRam
<1>4. p # 0
  BY <1>1, <1>3 DEF MapInv, GivenInv
<1>5. ASSUME stage # "zones" PROVE p \notin 0 .. end_of_struct
  <2>1. CASE stage \in Before
    <3>1. Zones = <<>>
      BY <1>1, <2>1 DEF MapInv, ZonesInv
    <3>2. QED
      BY <1>2, <3>1 DEF AllZonePages
  <2>2. CASE stage \notin Before
    <3>1. 1 .. end_of_struct \subseteq mms.kernel
      BY <1>1, <1>5, <2>2 DEF MapInv, KernelInv
    <3>2. \A q \in 0 .. end_of_struct : q = 0 \/ q \in 1 .. end_of_struct
      OBVIOUS
    <3>3. QED
      BY <1>2, <1>4, <3>1, <3>2
  <2>3. QED
    BY <2>1, <2>2
<1>6. QED
  BY <1>2, <1>3, <1>5

(* For one caller, on any machine the kernel can run on: a page that is    *)
(* free or in use is whole RAM in the map the firmware gave, and none of   *)
(* the kernel's.                                                           *)
THEOREM HandsOutOnlyRam ==
  ASSUME OneCaller
  PROVE  MapSpec => []HandsOutRam
<1>1. MapInit => MapInv /\ AllocInv
  BY MapInvInit, AllocInit
<1>2. MapInv /\ AllocInv /\ [MapNext]_allVars => MapInv' /\ AllocInv'
  BY MapInvStep, AllocStep
<1>3. MapInv /\ AllocInv => HandsOutRam
  BY HandsOut
<1>4. QED
  BY <1>1, <1>2, <1>3, PTL DEF MapSpec

-----------------------------------------------------------------------------
(* A page has one place in the tables.                                     *)
LEMMA PageSlot ==
  ASSUME NEW p \in Nat
  PROVE  /\ p \div GIG \in Nat /\ p % GIG \in Slots /\ PageOf(p \div GIG, p % GIG) = p
<1>1. GIG \in Nat \ {0}
  BY MappingAssumption
<1>2. PICK q, r : q = p \div GIG /\ r = p % GIG
  OBVIOUS
<1>3. q \in Nat /\ r \in 0 .. GIG - 1 /\ GIG * q + r = p
  BY <1>1, <1>2
<1>4. q * GIG + r = p
  BY <1>1, <1>3
<1>5. QED
  BY <1>2, <1>3, <1>4 DEF Slots, PageOf

(* The first table holds the first pages.                                  *)
LEMMA LowSlot ==
  ASSUME NEW s \in Slots
  PROVE  s \div GIG = 0 /\ s % GIG = s /\ 0 \in Gigs /\ s \in Nat
<1>1. GIG \in Nat \ {0} /\ FourGB \in Nat \ {0, 1} /\ {p \div GIG : p \in 0 .. FourGB - 1} \subseteq Gigs
  BY MappingAssumption
<1>2. s \in 0 .. GIG - 1
  BY DEF Slots
<1>3. s \div GIG = 0 /\ s % GIG = s
  BY <1>1, <1>2
<1>4. 0 \in 0 .. FourGB - 1 /\ 0 \div GIG = 0
  BY <1>1
<1>5. 0 \in Gigs
  BY <1>1, <1>4
<1>6. QED
  BY <1>2, <1>3, <1>5

(* What is mapped is there afterwards, and the rest stays as it was.       *)
Mapping(P, cached) ==
  /\ pdt' \in [Gigs -> {NULL} \cup Tables]
  /\ \A p \in P : p \in Nat /\ p \div GIG \in Gigs => Present(p, cached)'
  /\ \A p \in Nat \ P, c \in BOOLEAN : Present(p, c) => Present(p, c)'

(* What Mapped does is what is said of it.                                 *)
LEMMA MappedIs ==
  ASSUME pdt \in [Gigs -> {NULL} \cup Tables], NEW P, NEW cached \in BOOLEAN,
         NEW fresh \in {Absent, Junk}, pdt' = Mapped(P, cached, fresh)
  PROVE  Mapping(P, cached)
<1>1. /\ Gigs \subseteq Nat /\ GIG \in Nat \ {0} /\ NULL \notin Tables
  BY MappingAssumption DEF Tables
<1>2. PICK Table \in [Gigs -> [Slots -> [page : Nat, cached : BOOLEAN] \cup {Absent, Junk}]] :
        \A g \in Gigs : \A s \in Slots :
          Table[g][s] = IF PageOf(g, s) \in P THEN Entry(PageOf(g, s), cached)
                        ELSE IF pdt[g] = NULL THEN fresh ELSE pdt[g][s]
  <2>1. PICK T : T = [g \in Gigs |-> [s \in Slots |->
                      IF PageOf(g, s) \in P THEN Entry(PageOf(g, s), cached)
                      ELSE IF pdt[g] = NULL THEN fresh ELSE pdt[g][s]]]
    OBVIOUS
  <2>2. ASSUME NEW g \in Gigs, NEW s \in Slots
        PROVE  (IF PageOf(g, s) \in P THEN Entry(PageOf(g, s), cached)
                ELSE IF pdt[g] = NULL THEN fresh ELSE pdt[g][s])
                 \in [page : Nat, cached : BOOLEAN] \cup {Absent, Junk}
    <3>1. Entry(PageOf(g, s), cached) \in [page : Nat, cached : BOOLEAN]
      <4>1. PageOf(g, s) \in Nat
        BY <1>1 DEF PageOf, Slots
      <4>2. QED
        BY <4>1 DEF Entry
    <3>2. pdt[g] # NULL => pdt[g][s] \in [page : Nat, cached : BOOLEAN] \cup {Absent, Junk}
      <4>1. pdt[g] \in {NULL} \cup Tables
        OBVIOUS
      <4>2. QED
        BY <4>1 DEF Tables
    <3>3. QED
      BY <3>1, <3>2
  <2>3. \A g \in Gigs : \A s \in Slots :
          T[g][s] = IF PageOf(g, s) \in P THEN Entry(PageOf(g, s), cached)
                    ELSE IF pdt[g] = NULL THEN fresh ELSE pdt[g][s]
    BY <2>1
  <2>4. T \in [Gigs -> [Slots -> [page : Nat, cached : BOOLEAN] \cup {Absent, Junk}]]
    BY <2>1, <2>2
  <2>5. QED
    BY <2>3, <2>4
<1>3. \A g \in Gigs : Table[g] \in Tables
  BY <1>2 DEF Tables
<1>4. \A g \in Gigs : pdt'[g] = IF \A s \in Slots : PageOf(g, s) \notin P THEN pdt[g] ELSE Table[g]
  <2>1. SUFFICES ASSUME NEW g \in Gigs
                 PROVE  pdt'[g] = IF \A s \in Slots : PageOf(g, s) \notin P THEN pdt[g] ELSE Table[g]
    OBVIOUS
  <2>2. Table[g] = [s \in Slots |-> IF PageOf(g, s) \in P THEN Entry(PageOf(g, s), cached)
                                    ELSE IF pdt[g] = NULL THEN fresh ELSE pdt[g][s]]
    BY <1>2
  <2>3. QED
    BY <2>2 DEF Mapped
<1>5. pdt' \in [Gigs -> {NULL} \cup Tables]
  <2>1. pdt' = [g \in Gigs |-> pdt'[g]]
    BY DEF Mapped
  <2>2. \A g \in Gigs : pdt[g] \in {NULL} \cup Tables
    OBVIOUS
  <2>3. \A g \in Gigs : pdt'[g] \in {NULL} \cup Tables
    BY <1>3, <1>4, <2>2
  <2>4. QED
    BY <2>1, <2>3
<1>6. ASSUME NEW p \in P, p \in Nat, p \div GIG \in Gigs
      PROVE  Present(p, cached)'
  <2>1. PICK g, s : g = p \div GIG /\ s = p % GIG
    OBVIOUS
  <2>2. g \in Gigs /\ s \in Slots /\ PageOf(g, s) = p
    BY <1>6, <2>1, PageSlot
  <2>3. pdt'[g] = Table[g] /\ Table[g][s] = Entry(p, cached) /\ pdt'[g] # NULL
    BY <1>1, <1>2, <1>3, <1>4, <1>6, <2>2
  <2>4. QED
    BY <2>1, <2>2, <2>3 DEF Present
<1>7. ASSUME NEW p \in Nat \ P, NEW c \in BOOLEAN, Present(p, c)
      PROVE  Present(p, c)'
  <2>1. PICK g, s : g = p \div GIG /\ s = p % GIG
    OBVIOUS
  <2>2. g \in Gigs /\ s \in Slots /\ PageOf(g, s) = p
        /\ pdt[g] # NULL /\ pdt[g][s] = Entry(p, c)
    BY <1>7, <2>1, PageSlot DEF Present
  <2>3. pdt'[g] # NULL /\ pdt'[g][s] = Entry(p, c)
    <3>1. CASE \A t \in Slots : PageOf(g, t) \notin P
      BY <1>4, <2>2, <3>1
    <3>2. CASE ~(\A t \in Slots : PageOf(g, t) \notin P)
      BY <1>1, <1>2, <1>3, <1>4, <2>2, <3>2
    <3>3. QED
      BY <3>1, <3>2
  <2>4. QED
    BY <2>1, <2>2, <2>3 DEF Present
<1>8. QED
  BY <1>5, <1>6, <1>7 DEF Mapping

(* What head.S maps: the kernel's pages and the window.                    *)
LEMMA EarlyMapped ==
  ASSUME pdt = [g \in Gigs |-> IF g = 0 THEN EarlyTable ELSE NULL]
  PROVE  /\ pdt \in [Gigs -> {NULL} \cup Tables]
         /\ \A p \in KernelPages : p \in Nat /\ Present(p, TRUE)
         /\ \A p \in FrameBuffer :
              /\ pdt[0] # NULL /\ EarlyWindow + p - FB_first \in Slots
              /\ pdt[0][EarlyWindow + p - FB_first] = Entry(p, TRUE)
<1>1. /\ GIG \in Nat \ {0} /\ EarlyWindow \in Nat /\ Gigs \subseteq Nat
      /\ KernelPages \subseteq Early /\ Early \subseteq Slots /\ FrameBuffer \subseteq Nat
      /\ \A p \in FrameBuffer : EarlyWindow + p - FB_first \in Slots \ Early
      /\ NULL \notin Tables
  BY MappingAssumption DEF Tables
<1>2. EarlyTable \in Tables
  <2>1. ASSUME NEW s \in Slots
        PROVE  (IF s \in Early THEN Entry(s, TRUE)
                ELSE IF s - EarlyWindow + FB_first \in FrameBuffer
                THEN Entry(s - EarlyWindow + FB_first, TRUE) ELSE Absent)
                 \in [page : Nat, cached : BOOLEAN] \cup {Absent, Junk}
    <3>1. s \in Nat
      BY LowSlot
    <3>2. \A q \in Nat : Entry(q, TRUE) \in [page : Nat, cached : BOOLEAN]
      BY DEF Entry
    <3>3. QED
      BY <1>1, <3>1, <3>2
  <2>2. QED
    BY <2>1 DEF EarlyTable, Tables
<1>3. pdt \in [Gigs -> {NULL} \cup Tables]
  BY <1>2
<1>4. ASSUME NEW s \in Slots
      PROVE  pdt[0] # NULL /\ pdt[0] = EarlyTable /\ s \div GIG = 0 /\ s % GIG = s
             /\ 0 \in Gigs
  BY <1>1, <1>2, LowSlot
<1>5. ASSUME NEW p \in KernelPages PROVE p \in Nat /\ Present(p, TRUE)
  <2>1. p \in Slots /\ p \in Early
    BY <1>1
  <2>2. EarlyTable[p] = Entry(p, TRUE)
    BY <2>1 DEF EarlyTable
  <2>3. QED
    BY <1>4, <2>1, <2>2, LowSlot DEF Present
<1>6. ASSUME NEW p \in FrameBuffer
      PROVE  /\ pdt[0] # NULL /\ EarlyWindow + p - FB_first \in Slots
             /\ pdt[0][EarlyWindow + p - FB_first] = Entry(p, TRUE)
  <2>1. PICK s : s = EarlyWindow + p - FB_first
    OBVIOUS
  <2>2. s \in Slots /\ s \notin Early
    BY <1>1, <2>1
  <2>3. FB_first \in Nat
    <3>1. FrameBuffer \in SUBSET Nat /\ FrameBuffer # {}
      BY <1>1
    <3>2. PICK x \in FrameBuffer : \A q \in FrameBuffer : x <= q
      BY <3>1, LeastIs
    <3>3. FB_first \in FrameBuffer
      BY <3>2 DEF FB_first
    <3>4. QED
      BY <3>1, <3>3
  <2>4. s - EarlyWindow + FB_first = p
    BY <1>1, <2>1, <2>3
  <2>5. EarlyTable[s] = Entry(p, TRUE)
    BY <2>2, <2>4 DEF EarlyTable
  <2>6. QED
    BY <1>4, <2>1, <2>2, <2>5
<1>7. QED
  BY <1>3, <1>5, <1>6

\* Stages in which the tables are those of head.S.
HeadStages == Before \cup {"zones", "slab", "frame_buffer"}

(* At the start there is the mapping of head.S.                            *)
LEMMA MappingInit == MapInit => MappingInv
<1>1. SUFFICES ASSUME MapInit PROVE MappingInv
  OBVIOUS
<1>2. /\ stage = "convert" /\ FB_addr = EarlyWindow
      /\ pdt = [g \in Gigs |-> IF g = 0 THEN EarlyTable ELSE NULL]
  BY <1>1 DEF MapInit
<1>3. QED
  BY <1>2, EarlyMapped DEF MappingInv

(* The pages of the zones pagetable_init reaches lie below 4GB.            *)
LEMMA ReachedBelow ==
  ASSUME MapInv, stage \notin Before \cup {"zones"}, NEW i \in Reached, NEW p \in ZonePages(i)
  PROVE  p \in Nat /\ p < FourGB /\ p \div GIG \in Gigs
<1>1. TableInv /\ KernelThere /\ GivenInv /\ ZonesInv /\ KernelInv
  BY DEF MapInv
<1>2. FourGB \in Nat \ {0, 1} /\ {q \div GIG : q \in 0 .. FourGB - 1} \subseteq Gigs
  BY MappingAssumption
<1>3. /\ Zones \in Seq(Zone)
      /\ \A k \in DOMAIN Zones : k \in Nat \ {0} /\ Zones[k].start \in Nat /\ Zones[k].end \in Nat
  BY <1>1, ZonesWithin DEF Zoned, Within
<1>4. i \in DOMAIN Zones /\ p \in Zones[i].start .. Zones[i].end - 1
  BY DEF Reached, ZonePages
<1>5. p \in Nat
  BY <1>3, <1>4
<1>6. Zones[i].start < FourGB
  <2>1. CASE i # 1
    BY <1>1, <2>1 DEF KernelInv
  <2>2. CASE i = 1
    <3>2. PICK a \in DOMAIN Read : e820[a].type = 1 /\ Holds(Extent(e820[a]))
      BY <1>1, KernelEntry DEF Before
    <3>3. PICK e, z : e = e820[a] /\ z = WholePages(e)
      OBVIOUS
    <3>4. e.start \in Nat /\ e.length \in Nat /\ z.start \in Nat /\ z.end \in Nat
      <4>1. e.start \in Nat /\ e.length \in Nat
        BY <1>1, <3>3, ReadEntries
      <4>2. QED
        BY <3>3, <4>1, ZoneIsRange
    <3>5. 1 \in z.start .. z.end - 1
      <4>1. Units(1) \subseteq Extent(e)
        BY <1>1, <3>2, <3>3 DEF Holds, KernelThere
      <4>2. QED
        BY <3>3, <3>4, <4>1, ZoneIsRange
    <3>6. a < entry
      <4>1. Read \in Seq(TableEntry) /\ entry \in Nat /\ entry > Len(Read)
        BY <1>1, KernelEntry, ReadIsPrefix DEF ZonesInv, KernelInv, Before
      <4>2. QED
        BY <4>1
    <3>7. PICK k \in DOMAIN Zones : Zones[k] = z
      <4>1. z.start < z.end
        BY <3>4, <3>5
      <4>2. QED
        BY <1>1, <3>2, <3>3, <3>6, <4>1 DEF ZonesInv
    <3>8. CASE k = 1
      BY <1>2, <1>3, <2>2, <3>4, <3>5, <3>7, <3>8
    <3>9. CASE k # 1
      <4>1. 1 < k
        BY <1>3, <3>7, <3>9
      <4>2. Zones[1].end <= Zones[k].start
        BY <1>1, <1>4, <2>2, <3>7, <4>1 DEF ZonesInv
      <4>3. QED
        BY <1>2, <1>3, <1>4, <2>2, <3>4, <3>5, <3>7, <4>2
    <3>10. QED
      BY <3>8, <3>9
  <2>3. QED
    BY <2>1, <2>2
<1>7. p < FourGB
  <2>1. SUFFICES ASSUME FourGB <= p PROVE FALSE
    BY <1>2, <1>5
  <2>2. PICK q : q = FourGB - 1
    OBVIOUS
  <2>3. q \in ZonePages(i)
    BY <1>2, <1>3, <1>4, <1>6, <2>1, <2>2 DEF ZonePages
  <2>4. Units(q) \subseteq given[1]
    <3>1. q \in AllZonePages
      BY <1>4, <2>3 DEF AllZonePages
    <3>2. QED
      BY <3>1, ZonePagesAreRam
  <2>5. FourGB * PAGE - 1 \in Units(q)
    <3>1. q \in Int /\ q + 1 = FourGB
      BY <1>2, <2>2
    <3>2. PAGE * q + PAGE - 1 \in Units(q)
      BY <3>1, UnitsAre
    <3>3. PAGE * q + PAGE = FourGB * PAGE
      <4>1. PAGE * (q + 1) = PAGE * q + PAGE
        BY <3>1
      <4>2. PAGE * FourGB = FourGB * PAGE
        BY <1>2
      <4>3. QED
        BY <3>1, <4>1, <4>2
    <3>4. PICK Q, F : Q = PAGE * q /\ F = FourGB * PAGE
      OBVIOUS
    <3>5. Q \in Int /\ F = Q + PAGE /\ Q + PAGE - 1 \in Units(q)
      BY <3>1, <3>2, <3>3, <3>4
    <3>6. F - 1 = Q + PAGE - 1
      BY <3>5
    <3>7. F - 1 \in Units(q)
      BY <3>5, <3>6
    <3>8. QED
      BY <3>4, <3>7
  <2>6. QED
    BY <1>1, <2>4, <2>5 DEF GivenInv
<1>8. p \div GIG \in Gigs
  BY <1>2, <1>5, <1>7
<1>9. QED
  BY <1>5, <1>7, <1>8

(* The kernel's pages are mapped at every stage.                           *)
LEMMA KernelIsEarly ==
  ASSUME MapInv, MappingInv
  PROVE  \A p \in mms.kernel : p \in Nat /\ Present(p, TRUE)
<1>1. mms.kernel \subseteq KernelPages /\ KernelPages \subseteq Nat
  BY KernelPagesAre DEF MapInv, KernelInv
<1>2. CASE stage \notin {"pagetable", "IOAPIC", "up"}
  BY <1>1, <1>2, EarlyMapped DEF MappingInv
<1>3. CASE stage \in {"pagetable", "IOAPIC", "up"}
  BY <1>1, <1>3 DEF MappingInv
<1>4. QED
  BY <1>2, <1>3

(* What is no memory is in no zone.                                        *)
LEMMA DeviceInNoZone ==
  ASSUME MapInv, NEW p \in FrameBuffer \cup {IOAPIC}
  PROVE  p \notin AllZonePages
  BY ZonePagesAreRam DEF MapInv, GivenInv

(* Each of the three functions that map pages maps its own and leaves      *)
(* those of the others: devices are no RAM.                                *)
LEMMA MappingStep ==
  ASSUME MapInv, MappingInv, [MapNext]_allVars
  PROVE  MappingInv'
<1>1. pdt \in [Gigs -> {NULL} \cup Tables]
  BY DEF MappingInv
<1>2. /\ FrameBuffer \subseteq Nat /\ IOAPIC \in Nat
      /\ FrameBuffer \cap (Early \cup {IOAPIC}) = {}
      /\ \A p \in FrameBuffer \cup {IOAPIC} : p \div GIG \in Gigs
      /\ KernelPages \subseteq Early
  BY MappingAssumption
<1>3. /\ \A p \in mms.kernel : p \in Nat /\ p \in KernelPages /\ Present(p, TRUE)
  BY KernelIsEarly DEF MapInv, KernelInv
<1>4. CASE SkipDescriptor \/ MergeDescriptor \/ NewEntry \/ Converted \/ SortStep
             \/ init_memory \/ InitZone \/ InitKernelPages \/ kmalloc_slab_init
  <2>1. /\ stage \notin {"pagetable", "IOAPIC", "up"} /\ stage' \notin {"pagetable", "IOAPIC", "up"}
        /\ pdt' = pdt /\ FB_addr' = FB_addr
    <3>1. CASE SkipDescriptor \/ MergeDescriptor \/ NewEntry \/ Converted
      BY <3>1 DEF SkipDescriptor, MergeDescriptor, NewEntry, Converting, Converted, mapping
    <3>2. CASE SortStep
      BY <3>2 DEF SortStep, mapping
    <3>3. CASE init_memory \/ InitZone \/ InitKernelPages \/ kmalloc_slab_init
      BY <3>3 DEF init_memory, InitZone, InitKernelPages, kmalloc_slab_init, mapping
    <3>4. QED
      BY <1>4, <3>1, <3>2, <3>3
  <2>2. QED
    BY <2>1 DEF MappingInv
<1>5. CASE frame_buffer_init
  <2>1. /\ stage = "frame_buffer" /\ stage' = "pagetable" /\ FB_addr' = FB_first
        /\ pdt' = Mapped(FrameBuffer, FALSE, Absent) /\ mms' = mms
    BY <1>5 DEF frame_buffer_init, pages
  <2>2. Mapping(FrameBuffer, FALSE)
    BY <1>1, <2>1, MappedIs
  <2>3. \A p \in FrameBuffer : Present(p, FALSE)'
    BY <1>2, <2>2 DEF Mapping
  <2>4. \A p \in mms.kernel : Present(p, TRUE)'
    BY <1>2, <1>3, <2>2 DEF Mapping
  <2>5. pdt' \in [Gigs -> {NULL} \cup Tables]
    BY <2>2 DEF Mapping
  <2>6. QED
    BY <2>1, <2>3, <2>4, <2>5 DEF MappingInv
<1>6. CASE pagetable_init
  <2>1. PICK P : P = UNION {ZonePages(i) : i \in Reached}
    OBVIOUS
  <2>2. /\ stage = "pagetable" /\ stage' = "IOAPIC" /\ FB_addr' = FB_addr
        /\ pdt' = Mapped(P, TRUE, Junk) /\ mms' = mms
    BY <1>6, <2>1 DEF pagetable_init, pages
  <2>3. Mapping(P, TRUE)
    BY <1>1, <2>2, MappedIs
  <2>4. /\ FB_addr = FB_first
        /\ \A p \in FrameBuffer : Present(p, FALSE)
    BY <2>2 DEF MappingInv
  <2>5. P \subseteq AllZonePages
    BY <2>1 DEF Reached, AllZonePages
  <2>6. \A p \in FrameBuffer : Present(p, FALSE)'
    <3>1. \A p \in FrameBuffer : p \in Nat \ P
      BY <1>2, <2>5, DeviceInNoZone
    <3>2. QED
      BY <2>3, <2>4, <3>1 DEF Mapping
  <2>7. \A p \in P : p \in Nat /\ p \div GIG \in Gigs
    <3>1. stage \notin Before \cup {"zones"}
      BY <2>2 DEF Before
    <3>2. QED
      BY <2>1, <3>1, ReachedBelow
  <2>8. \A p \in P : Present(p, TRUE)'
    BY <2>3, <2>7 DEF Mapping
  <2>9. \A p \in mms.kernel : Present(p, TRUE)'
    BY <1>3, <2>3, <2>8 DEF Mapping
  <2>10. pdt' \in [Gigs -> {NULL} \cup Tables]
    BY <2>3 DEF Mapping
  <2>11. \A i \in Reached' : \A p \in ZonePages(i)' : Present(p, TRUE)'
    <3>1. Reached' = Reached /\ \A i : ZonePages(i)' = ZonePages(i)
      BY <2>2 DEF Reached, ZonePages, Zones
    <3>2. QED
      BY <2>1, <2>8, <3>1
  <2>12. QED
    BY <2>2, <2>4, <2>6, <2>9, <2>10, <2>11 DEF MappingInv
<1>7. CASE IOAPIC_pagetable_remap
  <2>1. /\ stage = "IOAPIC" /\ stage' = "up" /\ FB_addr' = FB_addr
        /\ pdt' = Mapped({IOAPIC}, FALSE, Junk) /\ mms' = mms
    BY <1>7 DEF IOAPIC_pagetable_remap, pages
  <2>2. Mapping({IOAPIC}, FALSE)
    BY <1>1, <2>1, MappedIs
  <2>3. /\ FB_addr = FB_first
        /\ \A p \in FrameBuffer : Present(p, FALSE)
        /\ \A i \in Reached : \A p \in ZonePages(i) : Present(p, TRUE)
    BY <2>1 DEF MappingInv
  <2>4. \A p \in FrameBuffer : Present(p, FALSE)'
    BY <1>2, <2>2, <2>3 DEF Mapping
  <2>5. stage \notin Before \cup {"zones"}
    BY <2>1 DEF Before
  <2>6. \A p \in mms.kernel : Present(p, TRUE)'
    <3>1. mms.kernel \subseteq AllZonePages
      BY <2>5, LaidOut DEF MapInv, AllZonePages
    <3>2. \A p \in mms.kernel : p \in Nat \ {IOAPIC}
      BY <1>3, <3>1, DeviceInNoZone
    <3>3. QED
      BY <1>3, <2>2, <3>2 DEF Mapping
  <2>7. \A i \in Reached' : \A p \in ZonePages(i)' : Present(p, TRUE)'
    <3>1. Reached' = Reached /\ \A i : ZonePages(i)' = ZonePages(i)
      BY <2>1 DEF Reached, ZonePages, Zones
    <3>2. ASSUME NEW i \in Reached, NEW p \in ZonePages(i) PROVE Present(p, TRUE)'
      <4>1. p \in Nat
        BY <2>5, <3>2, ReachedBelow
      <4>2. p \in AllZonePages
        BY <3>2 DEF Reached, AllZonePages
      <4>3. p \in Nat \ {IOAPIC}
        BY <4>1, <4>2, DeviceInNoZone
      <4>4. QED
        BY <2>2, <2>3, <4>3 DEF Mapping
    <3>3. QED
      BY <3>1, <3>2
  <2>8. Present(IOAPIC, FALSE)'
    BY <1>2, <2>2 DEF Mapping
  <2>9. pdt' \in [Gigs -> {NULL} \cup Tables]
    BY <2>2 DEF Mapping
  <2>10. QED
    BY <2>1, <2>3, <2>4, <2>6, <2>7, <2>8, <2>9 DEF MappingInv
<1>8. CASE Allocate \/ UNCHANGED allVars
  <2>1. /\ stage' = stage /\ pdt' = pdt /\ FB_addr' = FB_addr /\ mms' = mms
    BY <1>8, AllocateKeepsLayout DEF Allocate, allVars, mapping, pages
  <2>2. Reached' = Reached /\ \A i : ZonePages(i)' = ZonePages(i)
    BY <2>1 DEF Reached, ZonePages, Zones
  <2>3. \A p, c : Present(p, c)' <=> Present(p, c)
    BY <2>1 DEF Present
  <2>4. QED
    BY <2>1, <2>2, <2>3 DEF MappingInv
<1>9. QED
  BY <1>4, <1>5, <1>6, <1>7, <1>8 DEF MapNext

(* What the invariant says of the tables is what is promised of them.      *)
LEMMA MappedAsNeeded == MapInv /\ MappingInv => KernelMapped
<1>1. SUFFICES ASSUME MapInv, MappingInv PROVE KernelMapped
  OBVIOUS
<1>2. /\ FrameBuffer \subseteq Nat /\ IOAPIC \in Nat
  BY MappingAssumption
<1>3. \A p, c : Present(p, c) => Identity(p, c)
  BY DEF Present, Identity, Translation
<1>4. ASSUME NEW p \in FrameBuffer
      PROVE  /\ Translation(FB_addr + p - FB_first) \in {Entry(p, TRUE), Entry(p, FALSE)}
             /\ stage \in {"pagetable", "IOAPIC", "up"} => Identity(p, FALSE)
  <2>1. CASE stage \in {"pagetable", "IOAPIC", "up"}
    <3>1. Identity(p, FALSE) /\ FB_addr = FB_first
      BY <1>1, <1>3, <2>1 DEF MappingInv
    <3>2. FB_first \in Nat
      <4>1. FrameBuffer \in SUBSET Nat /\ FrameBuffer # {}
        BY <1>2
      <4>2. PICK x \in FrameBuffer : \A q \in FrameBuffer : x <= q
        BY <4>1, LeastIs
      <4>3. FB_first \in FrameBuffer
        BY <4>2 DEF FB_first
      <4>4. QED
        BY <4>1, <4>3
    <3>3. FB_addr + p - FB_first = p
      BY <1>2, <3>1, <3>2
    <3>4. QED
      BY <3>1, <3>3 DEF Identity
  <2>2. CASE stage \notin {"pagetable", "IOAPIC", "up"}
    <3>1. FB_addr = EarlyWindow /\ pdt = [g \in Gigs |-> IF g = 0 THEN EarlyTable ELSE NULL]
      BY <1>1, <2>2 DEF MappingInv
    <3>2. PICK s : s = EarlyWindow + p - FB_first
      OBVIOUS
    <3>3. pdt[0] # NULL /\ s \in Slots /\ pdt[0][s] = Entry(p, TRUE)
      BY <3>1, <3>2, EarlyMapped
    <3>4. s \div GIG = 0 /\ s % GIG = s
      BY <3>3, LowSlot
    <3>5. Translation(s) = Entry(p, TRUE)
      BY <3>3, <3>4 DEF Translation
    <3>6. QED
      BY <2>2, <3>1, <3>2, <3>5
  <2>3. QED
    BY <2>1, <2>2
<1>5. \A p \in mms.kernel : Identity(p, TRUE)
  BY <1>1, <1>3, KernelIsEarly
<1>6. ASSUME stage \in {"IOAPIC", "up"}, NEW i \in ZoneRange("ZONE_NORMAL") \cup Reached,
             NEW p \in ZonePages(i)
      PROVE  Identity(p, TRUE)
  <2>1. i \in Reached
    <3>1. CASE i \in ZoneRange("ZONE_NORMAL")
      <4>1. i = 1
        BY <3>1 DEF ZoneRange
      <4>2. stage \notin Before \cup {"zones"}
        BY <1>6 DEF Before
      <4>3. WellFormed(mms) /\ Zones # <<>>
        BY <1>1, <4>2, LaidOut DEF MapInv
      <4>4. 1 \in DOMAIN Zones /\ mms.ZONE_UNMAPED_INDEX \in Nat \ {0}
        BY <4>3 DEF WellFormed, Zones
      <4>5. QED
        BY <4>1, <4>4 DEF Reached
    <3>2. QED
      BY <1>6, <3>1
  <2>2. QED
    BY <1>1, <1>3, <1>6, <2>1 DEF MappingInv
<1>7. stage = "up" => Identity(IOAPIC, FALSE)
  BY <1>1, <1>3 DEF MappingInv
<1>8. QED
  BY <1>4, <1>5, <1>6, <1>7 DEF KernelMapped

(* On any machine the kernel can run on, and with any number of callers:   *)
(* what the kernel touches is mapped when it touches it.                   *)
THEOREM KernelIsMapped == MapSpec => []KernelMapped
<1>1. MapInit => MapInv /\ MappingInv
  BY MapInvInit, MappingInit
<1>2. MapInv /\ MappingInv /\ [MapNext]_allVars => MapInv' /\ MappingInv'
  BY MapInvStep, MappingStep
<1>3. MapInv /\ MappingInv => KernelMapped
  BY MappedAsNeeded
<1>4. QED
  BY <1>1, <1>2, <1>3, PTL DEF MapSpec

-----------------------------------------------------------------------------
(* What the allocator keeps, for the layouts this start makes of the       *)
(* firmware's maps.                                                        *)
LEMMA MapWellFormed == MapInv => WellFormed(mms)
<1>1. SUFFICES ASSUME MapInv PROVE WellFormed(mms)
  OBVIOUS
<1>2. TableInv /\ ZonesInv /\ KernelInv
  BY <1>1 DEF MapInv
<1>3. /\ mms.bits \in Nat /\ mms.zones \in Seq([start : Nat, end : Nat])
      /\ mms.ZONE_UNMAPED_INDEX \in Nat \ {0}
  BY <1>2, LayoutParts DEF ZonesInv, Zone
<1>4. CASE stage \in Before
  <2>1. mms.zones = <<>> /\ mms.kernel = {}
    BY <1>2, <1>4 DEF ZonesInv, Zones
  <2>2. DOMAIN mms.zones = {}
    BY <2>1
  <2>3. QED
    BY <1>3, <2>1, <2>2 DEF WellFormed
<1>5. CASE stage = "zones"
  <2>1. Within
    BY <1>2, <1>5, ZonesWithin DEF Zoned, Before
  <2>2. mms.kernel = {}
    BY <1>2, <1>5 DEF KernelInv
  <2>3. QED
    BY <1>3, <2>1, <2>2 DEF WellFormed, Within, Zones, ZonePages, PageIds
<1>6. CASE stage \notin Before \cup {"zones"}
  BY <1>1, <1>6, LaidOut DEF MapInv
<1>7. QED
  BY <1>4, <1>5, <1>6

(* A layout that is ready is sound.                                        *)
LEMMA ReadyPages ==
  ASSUME WellFormed(mms), Ready(mms)
  PROVE  PagesInv /\ FromSelectedZone /\ NoDoubleAllocation
<1>1. /\ bits_map = Kept
      /\ page_free_count = [i \in DOMAIN Zones |-> Cardinality(ZonePages(i) \ mms.kernel)]
      /\ page_using_count = [i \in DOMAIN Zones |-> Cardinality(ZonePages(i) \cap mms.kernel)]
      /\ \A c \in Callers : call[c] = Idle
      /\ answer.page = NULL /\ held = {}
  BY DEF Ready, Kept
<1>2. ASSUME NEW i \in DOMAIN Zones
      PROVE  /\ ZonePages(i) \ bits_map = ZonePages(i) \ mms.kernel
             /\ ZonePages(i) \cap bits_map = ZonePages(i) \cap mms.kernel
             /\ IsFiniteSet(ZonePages(i) \ mms.kernel)
             /\ IsFiniteSet(ZonePages(i) \cap mms.kernel)
  <2>1. ZonePages(i) \subseteq AllZonePages \cap PageIds /\ IsFiniteSet(ZonePages(i))
    BY ZonesAreApart
  <2>2. IsFiniteSet(ZonePages(i) \ mms.kernel) /\ IsFiniteSet(ZonePages(i) \cap mms.kernel)
    BY <2>1, FS_Subset
  <2>3. QED
    BY <1>1, <2>1, <2>2 DEF Kept
<1>3. /\ page_free_count \in [DOMAIN Zones -> Nat]
      /\ page_using_count \in [DOMAIN Zones -> Nat]
  BY <1>1, <1>2, FS_CardinalityType
<1>4. CountersMatchBitmap
  BY <1>1, <1>2 DEF CountersMatchBitmap
<1>5. HeldPages = {} /\ MarkedPages = {}
  BY <1>1 DEF HeldPages, MarkedPages
<1>6. BitmapIsUsage
  BY <1>1, <1>5 DEF BitmapIsUsage, Kept
<1>7. TypeOK
  <2>1. bits_map \subseteq PageIds
    BY <1>1 DEF Kept, WellFormed, PageIds
  <2>2. \A c \in Callers : call[c].at \in {"idle", "mark"}
    BY <1>1 DEF Idle
  <2>3. QED
    BY <1>3, <2>1, <2>2 DEF TypeOK
<1>8. FromSelectedZone
  BY <1>1 DEF FromSelectedZone
<1>9. NoDoubleAllocation
  BY <1>1 DEF NoDoubleAllocation
<1>10. QED
  BY <1>4, <1>6, <1>7, <1>8, <1>9 DEF PagesInv

(* For one caller, on any machine the kernel can run on: no page is handed *)
(* out twice.                                                              *)
THEOREM NoPageTwiceOnMap ==
  ASSUME OneCaller
  PROVE  MapSpec => []NoDoubleAllocation
<1>1. MapInit => MapInv /\ AllocInv
  BY MapInvInit, AllocInit
<1>2. MapInv /\ AllocInv /\ [MapNext]_allVars => MapInv' /\ AllocInv'
  BY MapInvStep, AllocStep
<1>3. MapInv /\ AllocInv => NoDoubleAllocation
  BY MapWellFormed, ReadyPages DEF AllocInv, RunsInv
<1>4. QED
  BY <1>1, <1>2, <1>3, PTL DEF MapSpec

\* The zones share no word of the bitmap when pages are allocated.
FencedMap == stage = "up" => Fenced(mms)

MapCounters == stage = "up" => CountersInv

(* The counters are right from the moment the allocator is in use.         *)
LEMMA CountersStep ==
  ASSUME OneCaller, MapInv, AllocInv, MapCounters, FencedMap', [MapNext]_allVars
  PROVE  MapCounters'
<1>1. CASE stage = "up"
  <2>1. CountersInv /\ [Next]_vars
    BY <1>1 DEF MapCounters, MapNext, SkipDescriptor, MergeDescriptor, NewEntry,
      Converting, Converted, SortStep, init_memory, InitZone, InitKernelPages,
      kmalloc_slab_init, frame_buffer_init, pagetable_init, IOAPIC_pagetable_remap,
      Allocate, allVars, vars, pages, calls
  <2>2. CountersInv'
    BY <2>1, NextCounters
  <2>3. QED
    BY <2>2 DEF MapCounters
<1>2. CASE stage # "up" /\ stage' = "up"
  <2>1. IOAPIC_pagetable_remap
    <3>1. CASE KernelStep
      BY <1>2, <3>1 DEF KernelStep, init_memory, InitZone, InitKernelPages,
        kmalloc_slab_init, frame_buffer_init, pagetable_init, Allocate
    <3>2. CASE SkipDescriptor \/ MergeDescriptor \/ NewEntry \/ Converted \/ SortStep
      BY <1>2, <3>2 DEF SkipDescriptor, MergeDescriptor, NewEntry, Converting, Converted,
        SortStep
    <3>3. CASE UNCHANGED allVars
      BY <1>2, <3>3 DEF allVars
    <3>4. QED
      BY <3>1, <3>2, <3>3 DEF MapNext, KernelStep
  <2>2. stage = "IOAPIC" /\ UNCHANGED <<pages, calls>>
    BY <2>1 DEF IOAPIC_pagetable_remap
  <2>3. UNCHANGED vars /\ mms' = mms
    BY <2>2 DEF vars, pages, calls
  <2>4. Fenced(mms)
    <3>1. Fenced(mms)'
      BY <1>2 DEF FencedMap
    <3>2. QED
      BY <2>3, <3>1 DEF Fenced
  <2>5. WellFormed(mms) /\ mms.zones # <<>> /\ Ready(mms)
    BY <1>2, <2>2, LaidOut DEF MapInv, AllocInv, Before, Zones
  <2>6. PICK m : m = mms
    OBVIOUS
  <2>7. CountersInv
    <3>1. WellFormed(m) /\ m.zones # <<>> /\ Fenced(m) /\ Ready(m)
      BY <2>4, <2>5, <2>6
    <3>2. QED
      BY <3>1, ReadyCounters
  <2>8. CountersInv'
    BY <2>3, <2>7, NextCounters
  <2>9. QED
    BY <2>8 DEF MapCounters
<1>3. CASE stage' # "up"
  BY <1>3 DEF MapCounters
<1>4. QED
  BY <1>1, <1>2, <1>3

(* The same, when no two zones share a word of the bitmap: the bitmap is   *)
(* the truth, the counters agree with it, and a request is served from a   *)
(* zone it may be served from, from the first step of the start on.        *)
THEOREM PagesSoundOnMap ==
  ASSUME OneCaller
  PROVE  MapSpec /\ []FencedMap => []PagesInv /\ []FromSelectedZone
<1>1. MapInit => MapInv /\ AllocInv /\ MapCounters
  BY MapInvInit, AllocInit DEF MapInit, MapCounters
<1>2. MapInv /\ AllocInv /\ MapCounters /\ FencedMap' /\ [MapNext]_allVars
        => MapInv' /\ AllocInv' /\ MapCounters'
  BY MapInvStep, AllocStep, CountersStep
<1>3. MapInv /\ AllocInv /\ MapCounters => PagesInv /\ FromSelectedZone
  BY MapWellFormed, ReadyPages, CountersSound DEF AllocInv, MapCounters
<1>4. QED
  BY <1>1, <1>2, <1>3, PTL DEF MapSpec

(* On any machine the kernel can run on, and with any number of callers:   *)
(* alloc_pages refuses a request by NULL only when the first zone of its   *)
(* range that counts enough pages has no run of that many.                 *)
THEOREM RefusesWhatIsNotThereOnMap == MapSpec => FindsWhatIsThere
<1>1. MapInit => MapInv
  BY MapInvInit
<1>2. MapInv /\ [MapNext]_allVars => MapInv'
  BY MapInvStep
<1>3. MapInv /\ [MapNext]_allVars => [Found]_vars
  <2>1. SUFFICES ASSUME MapInv, [MapNext]_allVars PROVE Found \/ UNCHANGED vars
    OBVIOUS
  <2>2. CASE Allocate
    <3>1. Next /\ stage \notin Before \cup {"zones"}
      BY <2>2 DEF Allocate, Before
    <3>2. QED
      BY <2>1, <3>1, LaidOut, NextFinds DEF MapInv
  <2>3. CASE answer' = answer
    BY <2>3 DEF Found
  <2>4. QED
    BY <2>1, <2>2, <2>3 DEF MapNext, SkipDescriptor, MergeDescriptor, NewEntry,
      Converting, Converted, SortStep, init_memory, InitZone, InitKernelPages,
      kmalloc_slab_init, frame_buffer_init, pagetable_init, IOAPIC_pagetable_remap,
      allVars, calls
<1>4. QED
  BY <1>1, <1>2, <1>3, PTL DEF MapSpec, FindsWhatIsThere, Found
=============================================================================
