--------------------------- MODULE MCPageAllocator ---------------------------
(* Memory layouts for PageAllocator alone.  In the first one no two zones  *)
(* share a bitmap word and the last one ends before the bitmap does; in    *)
(* the second one the first two zones meet in the middle of a word.        *)
EXTENDS PageAllocator

CONSTANT Layout

Zone(first, last) == [start |-> first, end |-> last + 1]

LayoutOf(zs) ==
  [bits |-> 16, zones |-> zs, kernel |-> {1}, ZONE_UNMAPED_INDEX |-> 2]

ZonesApart    == LayoutOf(<<Zone(1, 4), Zone(8, 10), Zone(12, 13)>>)
ZonesAdjacent == LayoutOf(<<Zone(1, 5), Zone(6, 9)>>)

Init == Ready(Layout)
Spec == Init /\ [][Next]_vars
=============================================================================
