----------------------------- MODULE KernelList ------------------------------
(***************************************************************************)
(* The circular doubly linked list of include/list.h, pointer by pointer:  *)
(* a list state is a record of the functions next and prev on the nodes,   *)
(* head nodes included.  Each operator does the assignments of the C       *)
(* function of its name in their order, so that it also says what happens  *)
(* to a node that is not, or no longer, in a list.                         *)
(***************************************************************************)
LOCAL INSTANCE Naturals
LOCAL INSTANCE Sequences

SetNext(L, n, m) == [L EXCEPT !.next[n] = m]
SetPrev(L, n, m) == [L EXCEPT !.prev[n] = m]

list_init(L, n) == SetNext(SetPrev(L, n, n), n, n)

\* Mutated: the node in front of the new one does not learn of it.
list_add_to_before_half(L, entry, new) ==
  SetPrev(SetPrev(SetNext(L, new, entry), new, L.prev[entry]), entry, new)

\* new->next = entry; new->prev = entry->prev; new->prev->next = new;
\* entry->prev = new.
list_add_to_before(L, entry, new) ==
  LET L1 == SetPrev(SetNext(L, new, entry), new, L.prev[entry])
      L2 == SetNext(L1, L1.prev[new], new)
  IN SetPrev(L2, entry, new)

\* Mutated: the node stays.
list_del_not(L, entry) == L

\* entry->next->prev = entry->prev; entry->prev->next = entry->next.
list_del(L, entry) ==
  LET L1 == SetPrev(L, L.next[entry], L.prev[entry])
  IN SetNext(L1, L1.prev[entry], L1.next[entry])

list_is_empty(L, entry) == L.next[entry] = entry /\ L.prev[entry] = entry

\* The nodes behind the head, in the order of the next pointers, at most n.
NodesFrom(L, head, n) ==
  LET f[k \in 0 .. n] ==
        IF k = 0 THEN <<L.next[head]>>
        ELSE IF f[k - 1][Len(f[k - 1])] = head THEN f[k - 1]
        ELSE Append(f[k - 1], L.next[f[k - 1][Len(f[k - 1])]])
  IN f[n]

\* A list of at most n nodes is well formed: the next pointers lead back to
\* the head, and the prev pointers are their inverse.
WellLinked(L, head, n) ==
  LET s == NodesFrom(L, head, n)
  IN /\ s[Len(s)] = head
     /\ L.prev[s[1]] = head
     /\ \A i \in 2 .. Len(s) : L.prev[s[i]] = s[i - 1]

\* Its nodes, in order, the head left out.
ListNodes(L, head, n) ==
  LET s == NodesFrom(L, head, n) IN SubSeq(s, 1, Len(s) - 1)
=============================================================================
