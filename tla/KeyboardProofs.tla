--------------------------- MODULE KeyboardProofs ----------------------------
(***************************************************************************)
(* Proofs about Keyboard for every size of the ring and every set of keys, *)
(* as long as the reader is never more than a buffer behind.               *)
(***************************************************************************)
EXTENDS Keyboard, SequenceTheorems, TLAPS

Byte  == 0 .. 255
Slots == 0 .. KB_BUF_SIZE - 1

\* The bound under which the ring is one: the reader keeps up.
KeepsUp == MaxUnread <= KB_BUF_SIZE

\* Where the n-th unread scancode lies.
Slot(n) == LET p == Wrapped(tail) + n - 1
           IN IF p < KB_BUF_SIZE THEN p ELSE p - KB_BUF_SIZE

\* Scancodes are bytes, and the reader is at most MaxUnread behind.
WireOK ==
  /\ wire \in Seq(Byte) /\ unread \in Seq(Byte) /\ got \in Seq(Byte)
  /\ Len(unread) <= MaxUnread
  /\ reader \in [at : {"wait", "load", "store"}, loaded : Nat, ret : Byte \cup {None}]

\* RingHoldsUnread without a modulus.
RingSound ==
  /\ Wrapped(head) = Slot(Len(unread) + 1)
  /\ \A n \in 1 .. Len(unread) : buf[Slot(n)] = unread[n]

\* The reader counts what is there, and holds the oldest scancode.
ReaderSound ==
  /\ count <= Len(unread)
  /\ reader.at = "load" => count > 0
  /\ reader.at = "store" => /\ reader.loaded > 0 /\ reader.loaded <= count
                            /\ tail < KB_BUF_SIZE
                            /\ reader.ret = unread[1]

RingInv == TypeOK /\ WireOK /\ RingSound /\ ReaderSound

(* What a keyboard sends are bytes.                                        *)
LEMMA ScancodesAreBytes ==
  ASSUME NEW k \in Keys, NEW down \in BOOLEAN
  PROVE  Scancodes(k, down) \in Seq(Byte)
<1> USE KeyboardAssumption
<1>1. CASE k \in {"pause", "printscreen"}
  <2>1. /\ pausebreak_scode \in Seq(Byte)
        /\ printscreen_press \in Seq(Byte)
        /\ printscreen_release \in Seq(Byte)
    BY DEF pausebreak_scode, printscreen_press, printscreen_release, E0, E1, Byte
  <2>2. QED
    BY <1>1, <2>1 DEF Scancodes
<1>2. CASE k \in DOMAIN Plain
  <2>1. Plain[k] \in 0 .. 127 /\ k \notin {"pause", "printscreen"}
    BY <1>2 DEF Plain
  <2>2. Plain[k] + (IF down THEN 0 ELSE FLAG_BREAK) \in Byte
    BY <2>1 DEF FLAG_BREAK, Byte
  <2>3. QED
    BY <1>2, <2>1, <2>2 DEF Scancodes
<1>3. CASE k \in DOMAIN Extended
  <2>1. /\ Extended[k] \in 0 .. 127 /\ k \notin {"pause", "printscreen"}
        /\ k \notin DOMAIN Plain
    BY <1>3 DEF Extended, Plain
  <2>2. Extended[k] + (IF down THEN 0 ELSE FLAG_BREAK) \in Byte /\ E0 \in Byte
    BY <2>1 DEF FLAG_BREAK, Byte, E0
  <2>3. QED
    BY <2>1, <2>2 DEF Scancodes
<1>4. QED
  BY <1>1, <1>2, <1>3

(* Where a position within a group lies.                                   *)
LEMMA Within ==
  \A a, j, l, N \in Nat : 1 <= j /\ j <= l /\ a + l <= N => a + j \in 1 .. N
  OBVIOUS

(* A sequence is a strict prefix when it is shorter and agrees as far.     *)
LEMMA StrictPrefixes ==
  ASSUME NEW s \in Seq(Byte), NEW t \in Seq(Byte)
  PROVE  IsStrictPrefix(s, t) <=>
           Len(s) < Len(t) /\ \A i \in 1 .. Len(s) : s[i] = t[i]
<1>1. IsPrefix(s, t) <=> Len(s) <= Len(t) /\ \A i \in 1 .. Len(s) : s[i] = t[i]
  BY DEF IsPrefix
<1>2. QED
  BY <1>1 DEF IsStrictPrefix

(* analysis_keycode never stops after a first byte 0xE0.                   *)
LEMMA PrefixReadsOn ==
  ASSUME NEW codes \in Seq(Byte), codes # <<>>, codes[1] = E0, ~Incomplete(codes)
  PROVE  Len(codes) >= 2
<1>1. /\ printscreen_press \in Seq(Byte) /\ Len(printscreen_press) = 4
      /\ printscreen_press[1] = E0
  BY DEF printscreen_press, E0, Byte
<1>2. ASSUME Len(codes) = 1
      PROVE  FALSE
  <2>1. \A i \in 1 .. Len(codes) : codes[i] = printscreen_press[i]
    BY <1>1, <1>2
  <2>2. Len(codes) < Len(printscreen_press)
    BY <1>1, <1>2
  <2>3. IsStrictPrefix(codes, printscreen_press)
    BY <1>1, <2>1, <2>2, StrictPrefixes
  <2>4. QED
    BY <2>3 DEF Incomplete, Special
<1>3. PICK n \in Nat : n = Len(codes) /\ n # 0
  BY EmptySeq
<1>4. QED
  BY <1>2, <1>3

(* The modifier flags stay flags.                                          *)
LEMMA FlagsAreBoolean ==
  ASSUME flags \in [Modifiers -> BOOLEAN],
         NEW codes \in Seq(Byte), codes # <<>>, ~Incomplete(codes)
  PROVE  FlagsAfter(codes) \in [Modifiers -> BOOLEAN]
<1>1. ASSUME NEW x \in Byte
      PROVE  Ordinary(x) \in [Modifiers -> BOOLEAN]
  <2>1. (x < FLAG_BREAK) \in BOOLEAN
    BY DEF Byte, FLAG_BREAK
  <2>2. \A m \in Modifiers : flags[m] \in BOOLEAN
    OBVIOUS
  <2>3. QED
    BY <2>1, <2>2, Zenon DEF Ordinary
<1>2. ASSUME NEW x
      PROVE  Prefixed(x) \in [Modifiers -> BOOLEAN]
  <2>1. \A m \in Modifiers : flags[m] \in BOOLEAN
    OBVIOUS
  <2>2. QED
    BY <2>1, Zenon DEF Prefixed
<1>3. codes[1] \in Byte /\ (codes[1] = E0 => codes[2] \in Byte)
  BY PrefixReadsOn
<1>4. QED
  BY <1>1, <1>2, <1>3 DEF FlagsAfter

USE KeyboardAssumption

(* The ring is empty at first.                                             *)
LEMMA InitRing == Init => RingInv
  BY DEF Init, RingInv, TypeOK, WireOK, RingSound, ReaderSound, Wrapped,
         Slot, Byte

(* The handler fills the slot behind the last unread scancode, which is    *)
(* none of theirs.                                                         *)
LEMMA HandlerRing ==
  ASSUME KeepsUp, RingInv, keyboard_handler
  PROVE  RingInv'
<1> USE DEF RingInv
<1>1. PICK x \in Byte : /\ x = Head(wire)
                        /\ Tail(wire) \in Seq(Byte)
  BY DEF keyboard_handler, WireOK
<1>2. /\ unread' = Append(unread, x)
      /\ unread' \in Seq(Byte)
      /\ Len(unread') = Len(unread) + 1
      /\ unread'[Len(unread) + 1] = x
      /\ \A n \in 1 .. Len(unread) : unread'[n] = unread[n]
  BY <1>1 DEF keyboard_handler, WireOK
<1>3. /\ Len(unread) \in 0 .. KB_BUF_SIZE - 1
      /\ Len(unread') <= MaxUnread
  BY <1>2 DEF keyboard_handler, KeepsUp, WireOK
<1>4. Wrapped(head) \in Slots /\ Wrapped(tail) \in Slots
  BY DEF Wrapped, TypeOK, Slots
<1>5. /\ buf' = [buf EXCEPT ![Wrapped(head)] = x]
      /\ buf \in [Slots -> Byte]
      /\ tail' = tail /\ head' = Wrapped(head) + 1
      /\ count' = count + 1 /\ reader' = reader
      /\ wire' = Tail(wire) /\ UNCHANGED <<pressed, got, flags>>
  BY <1>1 DEF keyboard_handler, TypeOK, Slots, Byte
<1>6. Wrapped(head) = Slot(Len(unread) + 1)
  BY DEF RingSound
<1>7. \A n \in 1 .. Len(unread) + 2 : Slot(n) \in Slots /\ Slot(n)' = Slot(n)
  <2>1. Wrapped(tail)' = Wrapped(tail)
    BY <1>5 DEF Wrapped
  <2>2. QED
    BY <1>3, <1>4, <2>1 DEF Slot, Slots
<1>8. \A n \in 1 .. Len(unread) : Slot(n) # Wrapped(head)
  BY <1>3, <1>4, <1>6 DEF Slot, Slots
<1>9. TypeOK'
  <2>1. buf' \in [Slots -> Byte]
    BY <1>4, <1>5
  <2>2. QED
    BY <1>4, <1>5, <2>1 DEF TypeOK, Slots, Byte
<1>10. WireOK'
  BY <1>1, <1>2, <1>3, <1>5 DEF WireOK
<1>11. RingSound'
  <2>1. Wrapped(head)' = Slot(Len(unread) + 2)
    <3>1. Wrapped(head)' = IF Wrapped(head) + 1 = KB_BUF_SIZE THEN 0 ELSE Wrapped(head) + 1
      BY <1>5 DEF Wrapped
    <3>2. QED
      BY <1>3, <1>4, <1>6, <3>1 DEF Slot, Slots
  <2>2. Slot(Len(unread) + 1)' = Slot(Len(unread) + 2)
    <3>1. Wrapped(tail)' = Wrapped(tail)
      BY <1>5 DEF Wrapped
    <3>2. QED
      BY <1>2, <1>3, <1>4, <3>1 DEF Slot, Slots
  <2>3. ASSUME NEW n \in 1 .. Len(unread')
        PROVE  buf'[Slot(n)'] = unread'[n]
    <3>1. CASE n = Len(unread) + 1
      BY <1>2, <1>4, <1>5, <1>6, <1>7, <3>1
    <3>2. CASE n \in 1 .. Len(unread)
      BY <1>2, <1>5, <1>7, <1>8, <3>2 DEF RingSound
    <3>3. QED
      BY <1>2, <1>3, <3>1, <3>2
  <2>4. QED
    BY <2>1, <2>2, <2>3 DEF RingSound
<1>12. ReaderSound'
  <2>1. reader.at = "store" => unread'[1] = unread[1]
    BY <1>2, <1>3 DEF ReaderSound, WireOK, TypeOK
  <2>2. QED
    BY <1>2, <1>3, <1>5, <2>1 DEF ReaderSound, WireOK, TypeOK
<1>13. QED
  BY <1>9, <1>10, <1>11, <1>12

(* get_scancode takes the oldest scancode, and counts down from a number   *)
(* that was not too large when it was loaded.                              *)
LEMMA ReaderRing ==
  ASSUME KeepsUp, RingInv, Wait \/ Load \/ Store
  PROVE  RingInv'
<1> USE DEF RingInv
<1>1. Len(unread) \in 0 .. KB_BUF_SIZE
  BY DEF WireOK, KeepsUp
<1>2. CASE Wait
  <2>1. /\ reader' = [reader EXCEPT !.at = "load"] /\ reader.at = "wait" /\ count # 0
        /\ UNCHANGED <<wire, pressed, head, tail, count, buf, got, flags, unread>>
    BY <1>2 DEF Wait
  <2>2. TypeOK' /\ WireOK'
    BY <2>1 DEF TypeOK, WireOK
  <2>3. RingSound'
    BY <2>1 DEF RingSound, Slot, Wrapped
  <2>4. ReaderSound'
    BY <2>1 DEF ReaderSound, TypeOK, WireOK
  <2>5. QED
    BY <2>2, <2>3, <2>4
<1>3. CASE Load
  <2>1. /\ tail' = Wrapped(tail) /\ tail' \in Slots
        /\ Wrapped(tail)' = Wrapped(tail)
    BY <1>3 DEF Load, Wrapped, TypeOK, Slots
  <2>2. UNCHANGED <<wire, pressed, head, count, buf, got, flags, unread>>
    BY <1>3 DEF Load
  <2>3. \A n \in Nat : Slot(n)' = Slot(n)
    BY <2>1 DEF Slot
  <2>4. Len(unread) > 0
    BY <1>1, <1>3 DEF Load, ReaderSound, TypeOK
  <2>5. Slot(1) = Wrapped(tail)
    BY <2>1 DEF Slot, Slots
  <2>6. /\ reader' = [at |-> "store", loaded |-> count, ret |-> unread[1]]
        /\ unread[1] \in Byte
    <3>1. buf[Slot(1)] = unread[1]
      BY <2>4 DEF RingSound, WireOK
    <3>2. unread[1] \in Byte
      BY <2>4 DEF WireOK
    <3>3. reader' = [at |-> "store", loaded |-> count, ret |-> buf[Wrapped(tail)]]
      BY <1>3 DEF Load
    <3>4. QED
      BY <2>5, <3>1, <3>2, <3>3
  <2>7. TypeOK' /\ WireOK'
    BY <2>1, <2>2, <2>6 DEF TypeOK, WireOK, Slots
  <2>8. RingSound'
    <3>1. /\ Wrapped(head)' = Slot(Len(unread) + 1)'
          /\ UNCHANGED <<unread, buf>>
      <4>1. Slot(Len(unread) + 1)' = Slot(Len(unread) + 1)
        BY <1>1, <2>2, <2>3
      <4>2. QED
        BY <2>2, <4>1 DEF RingSound, Wrapped
    <3>2. \A n \in 1 .. Len(unread) : Slot(n)' = Slot(n)
      BY <1>1, <2>3
    <3>3. QED
      BY <3>1, <3>2 DEF RingSound
  <2>9. ReaderSound'
    BY <1>3, <2>1, <2>2, <2>6 DEF Load, ReaderSound, TypeOK, Slots
  <2>10. QED
    BY <2>7, <2>8, <2>9
<1>4. CASE Store
  <2>1. /\ reader.loaded > 0 /\ reader.loaded <= count /\ count <= Len(unread)
        /\ tail \in Slots /\ tail' = tail + 1
        /\ reader.loaded \in Nat /\ count \in Nat
    BY <1>4 DEF Store, ReaderSound, TypeOK, WireOK, Slots
  <2>2. /\ count' = reader.loaded - 1
        /\ reader' = [at |-> "wait", loaded |-> 0, ret |-> None]
        /\ UNCHANGED <<wire, pressed, head, buf>>
    BY <1>4 DEF Store
  <2>3. /\ unread' = Tail(unread) /\ unread' \in Seq(Byte)
        /\ Len(unread') = Len(unread) - 1
        /\ \A n \in 1 .. Len(unread) - 1 : unread'[n] = unread[n + 1]
    BY <1>1, <1>4, <2>1 DEF Store, WireOK
  <2>4. \A n \in 1 .. Len(unread) : Slot(n)' = Slot(n + 1)
    BY <1>1, <2>1 DEF Slot, Wrapped, Slots
  <2>5. flags' \in [Modifiers -> BOOLEAN] /\ got' \in Seq(Byte)
    <3> DEFINE codes == Append(got, reader.ret)
    <3>1. codes \in Seq(Byte) /\ codes # <<>>
      <4>1. got \in Seq(Byte) /\ reader.ret \in Byte
        BY <1>1, <1>4, <2>1 DEF Store, ReaderSound, WireOK
      <4>2. QED
        BY <4>1, AppendProperties
    <3>2. flags \in [Modifiers -> BOOLEAN]
      BY DEF TypeOK
    <3>3. CASE Incomplete(codes)
      BY <1>4, <3>1, <3>2, <3>3 DEF Store
    <3>4. CASE ~Incomplete(codes)
      <4>1. FlagsAfter(codes) \in [Modifiers -> BOOLEAN]
        BY <3>1, <3>2, <3>4, FlagsAreBoolean
      <4>2. QED
        BY <1>4, <3>4, <4>1, EmptySeq DEF Store
    <3>5. QED
      BY <3>3, <3>4
  <2>6. TypeOK'
    BY <2>1, <2>2, <2>5 DEF TypeOK, Slots
  <2>7. WireOK'
    BY <2>2, <2>3, <2>5 DEF WireOK
  <2>8. RingSound'
    <3>1. Wrapped(head)' = Slot(Len(unread) + 1)'
      <4>1. Slot(Len(unread) + 1)' = Slot(Len(unread) + 1)
        BY <1>1, <2>1, <2>3 DEF Slot, Wrapped, Slots
      <4>2. QED
        BY <2>2, <4>1 DEF RingSound, Wrapped
    <3>2. ASSUME NEW n \in 1 .. Len(unread')
          PROVE  buf'[Slot(n)'] = unread'[n]
      BY <1>1, <2>2, <2>3, <2>4 DEF RingSound
    <3>3. QED
      BY <3>1, <3>2 DEF RingSound
  <2>9. ReaderSound'
    BY <2>1, <2>2, <2>3 DEF ReaderSound
  <2>10. QED
    BY <2>6, <2>7, <2>8, <2>9
<1>5. QED
  BY <1>2, <1>3, <1>4

(* RingInv is inductive.                                                   *)
LEMMA NextRing == ASSUME KeepsUp PROVE RingInv /\ [Next]_vars => RingInv'
<1> SUFFICES ASSUME RingInv, [Next]_vars PROVE RingInv'
  OBVIOUS
<1>1. CASE UNCHANGED vars
  BY <1>1 DEF vars, RingInv, TypeOK, WireOK, RingSound, ReaderSound, Slot, Wrapped
<1>2. ASSUME NEW k \in Keys, KeyEvent(k) PROVE RingInv'
  <2>1. wire' \in Seq(Byte)
    BY <1>2, ScancodesAreBytes DEF KeyEvent
  <2>2. QED
    BY <1>2, <2>1
       DEF KeyEvent, RingInv, TypeOK, WireOK, RingSound, ReaderSound, Slot, Wrapped
<1>3. QED
  BY <1>1, <1>2, HandlerRing, ReaderRing DEF Next

(* The inductive form of the two invariants implies them.                  *)
LEMMA RingIsSound ==
  ASSUME KeepsUp, RingInv
  PROVE  KeyboardInv
<1>1. /\ head \in 0 .. KB_BUF_SIZE /\ tail \in 0 .. KB_BUF_SIZE
      /\ Len(unread) \in 0 .. KB_BUF_SIZE
  BY DEF RingInv, TypeOK, WireOK, KeepsUp
<1>2. (head - tail - Len(unread)) % KB_BUF_SIZE = 0
  <2>1. Wrapped(head) = Slot(Len(unread) + 1)
    BY DEF RingInv, RingSound
  <2>2. head - tail - Len(unread) \in {0, KB_BUF_SIZE, -KB_BUF_SIZE, -(2 * KB_BUF_SIZE)}
    BY <1>1, <2>1 DEF Slot, Wrapped
  <2>3. QED
    BY <2>2
<1>3. ASSUME NEW n \in 1 .. Len(unread)
      PROVE  buf[(tail + n - 1) % KB_BUF_SIZE] = unread[n]
  <2>1. (tail + n - 1) % KB_BUF_SIZE = Slot(n)
    BY <1>1 DEF Slot, Wrapped
  <2>2. QED
    BY <2>1 DEF RingInv, RingSound
<1>4. CountIsCovered
  <2>1. count <= Len(unread) /\ (reader.at # "wait" => Len(unread) > 0)
    BY <1>1 DEF RingInv, ReaderSound, TypeOK, WireOK
  <2>2. QED
    BY <2>1 DEF CountIsCovered
<1>5. QED
  BY <1>2, <1>3, <1>4 DEF RingInv, KeyboardInv, RingHoldsUnread

(* For a ring of any size: the reader takes every scancode once and in the *)
(* order of their arrival, wherever the interrupts fall and whatever       *)
(* increments of count they lose.                                          *)
THEOREM RingIsAQueue == ASSUME KeepsUp PROVE Spec => []KeyboardInv
<1>1. Init => RingInv
  BY InitRing
<1>2. RingInv /\ [Next]_vars => RingInv'
  BY NextRing
<1>3. RingInv => KeyboardInv
  BY RingIsSound
<1>4. QED
  BY <1>1, <1>2, <1>3, PTL DEF Spec

-----------------------------------------------------------------------------
(***************************************************************************)
(* The modifier flags.  What is on its way, from the scancodes of an       *)
(* unfinished group to those still in the keyboard, is the scancodes of a  *)
(* sequence of key events.                                                 *)
(***************************************************************************)
Events == [key : Keys, down : BOOLEAN]
Group(e) == Scancodes(e.key, e.down)

\* The i-th scancode on its way, and how many there are.
Total == Len(got) + Len(unread) + Len(wire)
Code(i) == IF i <= Len(got) THEN got[i]
           ELSE IF i <= Len(got) + Len(unread) THEN unread[i - Len(got)]
           ELSE wire[i - Len(got) - Len(unread)]

\* The group of es[i] lies behind st[i - 1] and ends at st[i].
Split(es, st) ==
  /\ st[0] = 0 /\ st[Len(es)] = Total
  /\ \A i, j \in 0 .. Len(es) : i <= j => st[i] <= st[j]
  /\ \A i \in 1 .. Len(es) :
       /\ st[i] = st[i - 1] + Len(Group(es[i]))
       /\ \A j \in 1 .. Len(Group(es[i])) : Code(st[i - 1] + j) = Group(es[i])[j]

\* A group begun is the first one, and it is not complete.
Begun(es) == got # <<>> => es # <<>> /\ Len(got) < Len(Group(es[1]))

\* A modifier is as the last event of it says, or as its flag if there is none.
Silent(es, m) == \A i \in 1 .. Len(es) : es[i].key # m
LastOf(es, m, i) ==
  es[i].key = m /\ \A j \in 1 .. Len(es) : i < j => es[j].key # m

Settles(es) ==
  \A m \in Modifiers :
    \/ Silent(es, m) /\ (m \in pressed <=> flags[m])
    \/ \E i \in 1 .. Len(es) : LastOf(es, m, i) /\ (m \in pressed <=> es[i].down)

OnItsWay ==
  \E es \in Seq(Events) : \E st \in [0 .. Len(es) -> Nat] :
    Split(es, st) /\ Begun(es) /\ Settles(es)

FlagsInv == RingInv /\ wire \in Seq(Byte) /\ OnItsWay

\* What an event does to the flags.
FlagsSet(k, down) == [m \in Modifiers |-> IF m = k THEN down ELSE flags[m]]

(* analysis_keycode reads on inside the groups of pause and printscreen.   *)
LEMMA SpecialGroups ==
  ASSUME flags \in [Modifiers -> BOOLEAN], NEW g \in Special
  PROVE  /\ g \in Seq(Byte) /\ Len(g) \in 4 .. 6 /\ ~Incomplete(g)
         /\ FlagsAfter(g) = flags
         /\ \A c \in Seq(Byte) :
              Len(c) < Len(g) /\ (\A i \in 1 .. Len(c) : c[i] = g[i]) => Incomplete(c)
<1>1. /\ pausebreak_scode \in Seq(Byte) /\ Len(pausebreak_scode) = 6
      /\ pausebreak_scode[1] = E1
      /\ printscreen_press \in Seq(Byte) /\ Len(printscreen_press) = 4
      /\ printscreen_press[1] = E0 /\ E0 # E1
      /\ printscreen_release \in Seq(Byte) /\ Len(printscreen_release) = 4
      /\ printscreen_release[1] = E0
  BY DEF pausebreak_scode, printscreen_press, printscreen_release, E0, E1, Byte
<1>2. \A s \in Special : s \in Seq(Byte) /\ Len(s) \in 4 .. 6
  BY <1>1 DEF Special
<1>3. ASSUME NEW s \in Special, IsStrictPrefix(g, s) PROVE FALSE
  <2>1. Len(g) < Len(s) /\ g[1] = s[1]
    BY <1>2, <1>3, StrictPrefixes
  <2>2. QED
    BY <1>1, <2>1 DEF Special
<1>4. \A c \in Seq(Byte) :
        Len(c) < Len(g) /\ (\A i \in 1 .. Len(c) : c[i] = g[i]) => Incomplete(c)
  BY <1>2, StrictPrefixes DEF Incomplete
<1>5. QED
  BY <1>2, <1>3, <1>4 DEF Incomplete, FlagsAfter

(* An ordinary key has one scancode, which tells its press from its        *)
(* release and it from every other ordinary key.                           *)
LEMMA PlainGroups ==
  ASSUME flags \in [Modifiers -> BOOLEAN],
         NEW k \in DOMAIN Plain, NEW down \in BOOLEAN
  PROVE  /\ Len(Scancodes(k, down)) = 1 /\ ~Incomplete(Scancodes(k, down))
         /\ FlagsAfter(Scancodes(k, down)) = FlagsSet(k, down)
<1> DEFINE x == Plain[k] + (IF down THEN 0 ELSE FLAG_BREAK)
<1>1. /\ Plain[k] \in 0 .. 56 /\ k \notin {"pause", "printscreen"}
      /\ \A m \in DOMAIN Plain : Plain[m] = Plain[k] => m = k
  BY DEF Plain
<1>2. /\ x \in Byte /\ x # E0 /\ x # E1
      /\ (x < FLAG_BREAK) = down /\ x % FLAG_BREAK = Plain[k]
  BY <1>1 DEF FLAG_BREAK, Byte, E0, E1
<1>3. Scancodes(k, down) = <<x>>
  BY <1>1 DEF Scancodes
<1> HIDE DEF x
<1> DEFINE g == <<x>>
<1>4. g \in Seq(Byte) /\ Len(g) = 1 /\ g[1] = x
  BY <1>2
<1> HIDE DEF g
<1>5. \A s \in Special : s \in Seq(Byte) /\ Len(s) \in 4 .. 6 /\ s[1] \in {E0, E1}
  <2>1. \A s \in Special : s \in Seq(Byte) /\ Len(s) \in 4 .. 6
    BY SpecialGroups
  <2>2. \A s \in Special : s[1] \in {E0, E1}
    BY DEF Special, pausebreak_scode, printscreen_press, printscreen_release
  <2>3. QED
    BY <2>1, <2>2
<1>6. ~Incomplete(g)
  <2>1. ASSUME NEW s \in Special, IsStrictPrefix(g, s) PROVE FALSE
    <3>1. s \in Seq(Byte)
      BY <1>5
    <3>2. g[1] = s[1]
      BY <1>4, <2>1, <3>1, StrictPrefixes
    <3>3. QED
      BY <1>2, <1>4, <1>5, <3>2
  <2>2. QED
    BY <2>1 DEF Incomplete
<1>7. g \notin Special
  <2>1. Len(g) \notin 4 .. 6
    BY <1>4
  <2>2. QED
    BY <1>5, <2>1
<1>8. Ordinary(x) = FlagsSet(k, down)
  <2>1. \A m \in Modifiers :
          (m \in DOMAIN Plain /\ Plain[m] = x % FLAG_BREAK) <=> m = k
    BY <1>1, <1>2
  <2>2. QED
    BY <1>2, <2>1 DEF Ordinary, FlagsSet
<1>9. QED
  BY <1>2, <1>3, <1>4, <1>6, <1>7, <1>8 DEF FlagsAfter, g

(* A key with the prefix 0xE0 has two scancodes, which are not those with  *)
(* which printscreen begins.                                               *)
LEMMA ExtendedGroups ==
  ASSUME flags \in [Modifiers -> BOOLEAN],
         NEW k \in DOMAIN Extended, NEW down \in BOOLEAN
  PROVE  LET g == Scancodes(k, down)
         IN /\ Len(g) = 2 /\ ~Incomplete(g)
            /\ FlagsAfter(g) = FlagsSet(k, down)
            /\ \A c \in Seq(Byte) : Len(c) = 1 /\ c[1] = g[1] => Incomplete(c)
<1> DEFINE x == Extended[k] + (IF down THEN 0 ELSE FLAG_BREAK)
<1>1. /\ Extended[k] \in {75, 29, 56}
      /\ k \notin {"pause", "printscreen"} /\ k \notin DOMAIN Plain
      /\ \A m \in DOMAIN Extended : Extended[m] \in {75, 29, 56}
      /\ \A m \in DOMAIN Extended : Extended[m] = Extended[k] => m = k
  BY DEF Extended, Plain
<1>2. /\ x \in Byte /\ E0 \in Byte /\ x # 42 /\ x # 183
      /\ \A m \in DOMAIN Extended :
           /\ x = Extended[m] <=> m = k /\ down
           /\ x = Extended[m] + FLAG_BREAK <=> m = k /\ ~down
  BY <1>1 DEF FLAG_BREAK, Byte, E0
<1>3. Scancodes(k, down) = <<E0, x>>
  BY <1>1 DEF Scancodes
<1> HIDE DEF x
<1> DEFINE g == <<E0, x>>
<1>4. g \in Seq(Byte) /\ Len(g) = 2 /\ g[1] = E0 /\ g[2] = x
  BY <1>2
<1>5. \A s \in Special : s \in Seq(Byte) /\ Len(s) \in 4 .. 6
  BY SpecialGroups
<1>6. \A s \in Special : s[1] = E0 => s[2] \in {42, 183}
  BY DEF Special, pausebreak_scode, printscreen_press, printscreen_release, E0, E1
<1> HIDE DEF g
<1>7. ~Incomplete(g)
  <2>1. ASSUME NEW s \in Special, IsStrictPrefix(g, s) PROVE FALSE
    <3>1. g \in Seq(Byte) /\ s \in Seq(Byte)
      BY <1>4, <1>5
    <3>2. \A i \in 1 .. Len(g) : g[i] = s[i]
      BY <2>1, <3>1, StrictPrefixes
    <3>3. g[1] = s[1] /\ g[2] = s[2]
      BY <1>4, <3>2
    <3>4. QED
      BY <1>2, <1>4, <1>6, <3>3
  <2>2. QED
    BY <2>1 DEF Incomplete
<1>8. g \notin Special
  <2>1. Len(g) \notin 4 .. 6
    BY <1>4
  <2>2. QED
    BY <1>5, <2>1
<1>9. Prefixed(x) = FlagsSet(k, down)
  <2>1. ASSUME NEW m \in Modifiers PROVE Prefixed(x)[m] = FlagsSet(k, down)[m]
    <3>1. CASE m = k /\ down
      BY <1>2, <3>1 DEF Prefixed, FlagsSet
    <3>2. CASE m = k /\ ~down
      BY <1>2, <3>2 DEF Prefixed, FlagsSet
    <3>3. CASE m # k
      BY <1>2, <3>3 DEF Prefixed, FlagsSet
    <3>4. QED
      BY <3>1, <3>2, <3>3
  <2>2. QED
    BY <2>1 DEF Prefixed, FlagsSet
<1>10. ASSUME NEW c \in Seq(Byte), Len(c) = 1, c[1] = E0 PROVE Incomplete(c)
  <2>1. /\ printscreen_press \in Special /\ printscreen_press[1] = E0
        /\ printscreen_press \in Seq(Byte) /\ Len(printscreen_press) >= 4
    BY <1>5 DEF Special, printscreen_press
  <2>2. IsStrictPrefix(c, printscreen_press)
    <3> DEFINE p == printscreen_press
    <3>1. Len(c) < Len(p) /\ \A i \in 1 .. Len(c) : c[i] = p[i]
      BY <1>10, <2>1
    <3>2. p \in Seq(Byte)
      BY <2>1
    <3> HIDE DEF p
    <3>3. IsStrictPrefix(c, p)
      BY <1>10, <3>1, <3>2, StrictPrefixes
    <3>4. QED
      BY <3>3 DEF p
  <2>3. QED
    BY <2>1, <2>2 DEF Incomplete
<1>11. QED
  BY <1>3, <1>4, <1>7, <1>8, <1>9, <1>10 DEF FlagsAfter, g

(* What a press or a release sends is one group: analysis_keycode reads on *)
(* until it has it all, and then sets the flag of the key, if it has one.  *)
LEMMA GroupsAreEvents ==
  ASSUME flags \in [Modifiers -> BOOLEAN], NEW e \in Events
  PROVE  /\ Group(e) \in Seq(Byte) /\ Len(Group(e)) \in 1 .. 6
         /\ ~Incomplete(Group(e))
         /\ FlagsAfter(Group(e)) = FlagsSet(e.key, e.down)
         /\ \A c \in Seq(Byte) :
              /\ Len(c) \in 1 .. Len(Group(e)) - 1
              /\ \A i \in 1 .. Len(c) : c[i] = Group(e)[i]
              => Incomplete(c)
<1> DEFINE k == e.key
           d == e.down
           g == Scancodes(k, d)
<1>1. k \in Keys /\ d \in BOOLEAN /\ Group(e) = g
  BY DEF Events, Group
<1> HIDE DEF k, d
<1>2. g \in Seq(Byte)
  BY <1>1, ScancodesAreBytes
<1>3. CASE k \in {"pause", "printscreen"}
  <2>1. g \in Special
    BY <1>3 DEF Scancodes, Special
  <2>2. FlagsSet(k, d) = flags
    BY <1>3 DEF FlagsSet, Modifiers
  <2> HIDE DEF g
  <2>3. QED
    BY <1>1, <1>2, <2>1, <2>2, SpecialGroups DEF k, d
<1>4. CASE k \in DOMAIN Plain
  <2>1. Len(g) = 1 /\ ~Incomplete(g) /\ FlagsAfter(g) = FlagsSet(k, d)
    BY <1>1, <1>4, PlainGroups
  <2> HIDE DEF g
  <2>2. QED
    BY <1>1, <1>2, <2>1 DEF k, d
<1>5. CASE k \in DOMAIN Extended
  <2>1. /\ Len(g) = 2 /\ ~Incomplete(g) /\ FlagsAfter(g) = FlagsSet(k, d)
        /\ \A c \in Seq(Byte) : Len(c) = 1 /\ c[1] = g[1] => Incomplete(c)
    BY <1>1, <1>5, ExtendedGroups
  <2> HIDE DEF g
  <2>2. ASSUME NEW c \in Seq(Byte), Len(c) \in 1 .. Len(g) - 1,
               \A i \in 1 .. Len(c) : c[i] = g[i]
        PROVE  Incomplete(c)
    <3>1. Len(c) = 1
      BY <2>1, <2>2
    <3>2. c[1] = g[1]
      BY <2>2, <3>1
    <3>3. QED
      BY <2>1, <3>1, <3>2
  <2>3. QED
    BY <1>1, <1>2, <2>1, <2>2 DEF k, d
<1>6. QED
  BY <1>1, <1>3, <1>4, <1>5

(* A scancode that moves on is still the same one of those on their way.   *)
LEMMA SplitMovesOn ==
  ASSUME NEW es \in Seq(Events), NEW st \in [0 .. Len(es) -> Nat], Split(es, st),
         flags \in [Modifiers -> BOOLEAN],
         Total' = Total, \A i \in 1 .. Total : Code(i)' = Code(i)
  PROVE  Split(es, st)'
<1>1. st[0] = 0 /\ st[Len(es)] = Total /\ Total' = Total /\ Len(es) \in Nat
  BY DEF Split
<1>2. \A i, j \in 0 .. Len(es) : i <= j => st[i] <= st[j]
  BY DEF Split
<1>3. ASSUME NEW i \in 1 .. Len(es), NEW j \in 1 .. Len(Group(es[i]))
      PROVE  Code(st[i - 1] + j)' = Group(es[i])[j]
  <2>1. Len(Group(es[i])) \in 1 .. 6
    <3>1. es[i] \in Events
      OBVIOUS
    <3>2. QED
      BY <3>1, GroupsAreEvents
  <2>2. /\ st[i] = st[i - 1] + Len(Group(es[i])) /\ st[i] <= st[Len(es)]
        /\ Code(st[i - 1] + j) = Group(es[i])[j]
        /\ st[i - 1] \in Nat /\ st[i] \in Nat
    <3>1. /\ i - 1 \in 0 .. Len(es) /\ i \in 0 .. Len(es)
          /\ Len(es) \in 0 .. Len(es) /\ i <= Len(es)
      BY <1>1
    <3>2. st[i - 1] \in Nat /\ st[i] \in Nat /\ st[i] <= st[Len(es)]
      BY <1>2, <3>1
    <3>3. QED
      BY <3>2 DEF Split
  <2> DEFINE n == st[i - 1] + j
  <2>3. n \in 1 .. Total
    <3>1. j \in Int /\ 1 <= j /\ j <= Len(Group(es[i]))
      BY <2>1
    <3>2. st[Len(es)] \in Nat /\ Total \in Nat
      BY <1>1
    <3> HIDE DEF Total
    <3>3. n <= st[i] /\ n >= 1 /\ n \in Int
      BY <2>1, <2>2, <3>1
    <3>4. QED
      BY <1>1, <2>2, <3>2, <3>3
  <2>4. Code(n)' = Code(n)
    BY <2>3
  <2>5. QED
    BY <2>2, <2>4
<1>4. \A i \in 1 .. Len(es) : st[i] = st[i - 1] + Len(Group(es[i]))
  BY DEF Split
<1>5. QED
  BY <1>1, <1>2, <1>3, <1>4 DEF Split

(* A modifier keeps its standing as long as nothing touches it.            *)
LEMMA SettlesStill ==
  ASSUME NEW es, Settles(es), UNCHANGED <<pressed, flags>>
  PROVE  Settles(es)'
  BY DEF Settles, LastOf, Silent

(* Nothing is on its way at first.                                         *)
LEMMA InitFlags == Init => FlagsInv
<1> SUFFICES ASSUME Init PROVE FlagsInv
  OBVIOUS
<1> DEFINE st == [i \in 0 .. 0 |-> 0]
<1>1. wire = <<>> /\ unread = <<>> /\ got = <<>> /\ pressed = {}
      /\ flags = [m \in Modifiers |-> FALSE]
  BY DEF Init
<1>2. Total = 0 /\ Len(<<>>) = 0 /\ <<>> \in Seq(Events) /\ wire \in Seq(Byte)
  BY <1>1 DEF Total
<1>3. st \in [0 .. Len(<<>>) -> Nat]
  BY <1>2
<1>4. Split(<<>>, st)
  BY <1>2 DEF Split
<1>5. Begun(<<>>) /\ Settles(<<>>)
  BY <1>1, <1>2 DEF Begun, Settles, Silent
<1>6. OnItsWay
  BY <1>2, <1>3, <1>4, <1>5 DEF OnItsWay
<1>7. QED
  BY <1>2, <1>6, InitRing DEF FlagsInv

(* The handler moves a scancode from the keyboard to the unread ones.      *)
LEMMA HandlerFlags ==
  ASSUME FlagsInv, keyboard_handler
  PROVE  wire' \in Seq(Byte) /\ OnItsWay'
<1>1. /\ unread \in Seq(Byte) /\ got \in Seq(Byte) /\ wire \in Seq(Byte)
      /\ flags \in [Modifiers -> BOOLEAN]
  BY DEF FlagsInv, RingInv, WireOK, TypeOK
<1>2. /\ wire # <<>> /\ wire' = Tail(wire) /\ unread' = Append(unread, Head(wire))
      /\ UNCHANGED <<got, pressed, flags>>
  BY DEF keyboard_handler
<1>3. /\ Len(wire) \in Nat \ {0} /\ wire' \in Seq(Byte) /\ Len(wire') = Len(wire) - 1
      /\ \A i \in 1 .. Len(wire) - 1 : wire'[i] = wire[i + 1]
      /\ Head(wire) = wire[1] /\ wire[1] \in Byte
  <2>1. Len(wire) # 0
    BY <1>1, <1>2, EmptySeq
  <2>2. QED
    BY <1>1, <1>2, <2>1
<1>4. /\ Len(unread) \in Nat /\ Len(unread') = Len(unread) + 1
      /\ \A i \in 1 .. Len(unread) : unread'[i] = unread[i]
      /\ unread'[Len(unread) + 1] = wire[1]
  BY <1>1, <1>2, <1>3, AppendProperties
<1>5. Len(got) \in Nat
  BY <1>1
<1>6. Total' = Total /\ \A i \in 1 .. Total : Code(i)' = Code(i)
  BY <1>2, <1>3, <1>4, <1>5 DEF Total, Code
<1>7. PICK es \in Seq(Events) : \E st \in [0 .. Len(es) -> Nat] :
        Split(es, st) /\ Begun(es) /\ Settles(es)
  BY DEF FlagsInv, OnItsWay
<1>8. PICK st \in [0 .. Len(es) -> Nat] : Split(es, st) /\ Begun(es) /\ Settles(es)
  BY <1>7
<1>9. Split(es, st)'
  BY <1>1, <1>6, <1>8, SplitMovesOn
<1>10. Begun(es)' /\ Settles(es)'
  BY <1>2, <1>8, SettlesStill DEF Begun
<1>11. QED
  BY <1>3, <1>9, <1>10 DEF OnItsWay

(* A key sends its group when the one before it has left the keyboard.     *)
LEMMA KeyEventFlags ==
  ASSUME FlagsInv, NEW k \in Keys, KeyEvent(k)
  PROVE  wire' \in Seq(Byte) /\ OnItsWay'
<1>1. /\ unread \in Seq(Byte) /\ got \in Seq(Byte) /\ wire = <<>>
      /\ flags \in [Modifiers -> BOOLEAN]
  BY DEF FlagsInv, RingInv, WireOK, TypeOK, KeyEvent
<1>2. PICK e \in Events : e.key = k /\ e.down = (k \notin pressed)
  <2>1. [key |-> k, down |-> k \notin pressed] \in Events
    BY DEF Events
  <2>2. QED
    BY <2>1
<1> DEFINE g == Group(e)
<1>3. wire' = g
  BY <1>2 DEF KeyEvent, Group
<1>4. /\ UNCHANGED <<unread, got, flags>>
      /\ pressed' = IF k = "pause" THEN pressed
                    ELSE IF k \in pressed THEN pressed \ {k} ELSE pressed \cup {k}
  BY DEF KeyEvent
<1>5. g \in Seq(Byte) /\ Len(g) \in 1 .. 6
  BY <1>1, <1>2, GroupsAreEvents
<1> HIDE DEF g
<1>6. Len(got) \in Nat /\ Len(unread) \in Nat /\ Len(wire) = 0
  BY <1>1
<1>7. PICK N \in Nat :
        /\ Total = N /\ Total' = N + Len(g) /\ Len(g) \in Nat
        /\ \A i \in 1 .. N : Code(i)' = Code(i)
        /\ \A j \in 1 .. Len(g) : Code(N + j)' = g[j]
  <2>1. PICK N \in Nat : N = Len(got) + Len(unread)
    BY <1>6
  <2>2. Total = N /\ Total' = N + Len(g) /\ Len(g) \in Nat
    BY <1>3, <1>4, <1>5, <1>6, <2>1 DEF Total
  <2>3. ASSUME NEW i \in 1 .. N PROVE Code(i)' = Code(i)
    BY <1>4, <1>6, <2>1, <2>3 DEF Code
  <2>4. ASSUME NEW j \in 1 .. Len(g) PROVE Code(N + j)' = g[j]
    <3>1. /\ ~(N + j <= Len(got)) /\ ~(N + j <= Len(got) + Len(unread))
          /\ N + j - Len(got) - Len(unread) = j
      BY <1>6, <2>1, <2>2, <2>4
    <3>2. Code(N + j)' = wire'[N + j - Len(got) - Len(unread)]
      BY <1>4, <3>1 DEF Code
    <3>3. QED
      BY <1>3, <3>1, <3>2
  <2>5. QED
    BY <2>2, <2>3, <2>4
<1>8. PICK es \in Seq(Events) : \E st \in [0 .. Len(es) -> Nat] :
        Split(es, st) /\ Begun(es) /\ Settles(es)
  BY DEF FlagsInv, OnItsWay
<1>9. PICK st \in [0 .. Len(es) -> Nat] : Split(es, st) /\ Begun(es) /\ Settles(es)
  BY <1>8
<1> DEFINE fs == Append(es, e)
           n  == Len(es)
           ft == [i \in 0 .. n + 1 |-> IF i <= n THEN st[i] ELSE st[n] + Len(g)]
<1>10. /\ fs \in Seq(Events) /\ Len(fs) = n + 1 /\ n \in Nat
       /\ \A i \in 1 .. n : fs[i] = es[i]
       /\ fs[n + 1] = e
  BY <1>2, <1>8, AppendProperties
<1>11. /\ st[0] = 0 /\ st[n] = N
       /\ \A i, j \in 0 .. n : i <= j => st[i] <= st[j]
       /\ \A i \in 0 .. n : st[i] \in 0 .. N
       /\ \A i \in 1 .. n : i - 1 \in 0 .. n /\ st[i] = st[i - 1] + Len(Group(es[i]))
  <2>1. /\ st[0] = 0 /\ st[n] = N
        /\ \A i, j \in 0 .. n : i <= j => st[i] <= st[j]
        /\ \A i \in 1 .. n : st[i] = st[i - 1] + Len(Group(es[i]))
    BY <1>7, <1>9 DEF Split
  <2>2. ASSUME NEW i \in 0 .. n PROVE st[i] \in 0 .. N
    <3>1. i <= n /\ n \in 0 .. n /\ i \in 0 .. Len(es)
      BY <1>10
    <3>2. st[i] \in Nat /\ st[i] <= st[n] /\ st[n] = N
      BY <2>1, <3>1
    <3>3. QED
      BY <1>7, <3>2
  <2>3. QED
    BY <1>10, <2>1, <2>2
<1>12. /\ ft \in [0 .. n + 1 -> Nat]
       /\ \A i \in 0 .. n : ft[i] = st[i]
       /\ ft[n + 1] = N + Len(g)
  BY <1>7, <1>9, <1>10, <1>11
<1> HIDE DEF fs, ft
<1>13. \A i \in 1 .. n : \A j \in 1 .. Len(Group(es[i])) :
         Code(st[i - 1] + j) = Group(es[i])[j]
  BY <1>9 DEF Split
<1> HIDE DEF n
<1>14. Split(fs, ft)'
  <2>1. ft[0] = 0 /\ ft[Len(fs)] = Total'
    BY <1>7, <1>10, <1>11, <1>12
  <2>2. ASSUME NEW i \in 0 .. n + 1, NEW j \in 0 .. n + 1, i <= j
        PROVE  ft[i] <= ft[j]
    <3>1. CASE j \in 0 .. n
      <4>1. i \in 0 .. n
        BY <1>10, <2>2, <3>1
      <4>2. QED
        BY <1>11, <1>12, <2>2, <3>1, <4>1
    <3>2. CASE j = n + 1 /\ i \in 0 .. n
      <4>1. ft[i] \in 0 .. N /\ ft[j] = N + Len(g)
        BY <1>11, <1>12, <3>2
      <4>2. QED
        BY <1>7, <4>1
    <3>3. CASE j = n + 1 /\ i = n + 1
      BY <1>7, <1>12, <3>3
    <3>4. QED
      BY <1>10, <2>2, <3>1, <3>2, <3>3
  <2>3. ASSUME NEW i \in 1 .. n
        PROVE  /\ ft[i] = ft[i - 1] + Len(Group(fs[i]))
               /\ \A j \in 1 .. Len(Group(fs[i])) :
                    Code(ft[i - 1] + j)' = Group(fs[i])[j]
    <3> DEFINE h == Group(es[i])
    <3>0. i \in 0 .. n /\ i - 1 \in 0 .. n
      BY <1>10
    <3>1. fs[i] = es[i] /\ ft[i] = st[i] /\ ft[i - 1] = st[i - 1]
      BY <1>10, <1>12, <3>0
    <3>2. st[i] = st[i - 1] + Len(h) /\ st[i] \in 0 .. N /\ st[i - 1] \in 0 .. N
      BY <1>11, <3>0
    <3>3. Len(h) \in 1 .. 6
      <4>1. es[i] \in Events
        BY <1>8 DEF n
      <4>2. QED
        BY <1>1, <4>1, GroupsAreEvents
    <3>4. \A j \in 1 .. Len(h) : Code(st[i - 1] + j) = h[j]
      BY <1>13
    <3> HIDE DEF h
    <3>5. ASSUME NEW j \in 1 .. Len(h) PROVE st[i - 1] + j \in 1 .. N
      <4>1. st[i - 1] \in Nat /\ st[i - 1] + Len(h) <= N
        BY <1>7, <3>2
      <4>2. j \in Nat /\ 1 <= j /\ j <= Len(h) /\ Len(h) \in Nat
        BY <3>3
      <4>3. QED
        BY <1>7, <4>1, <4>2, Within
    <3>6. QED
      BY <1>7, <3>1, <3>2, <3>4, <3>5 DEF h
  <2>4. /\ ft[n + 1] = ft[n] + Len(Group(fs[n + 1])) /\ ft[n] = N
        /\ \A j \in 1 .. Len(Group(fs[n + 1])) :
             Code(ft[n] + j)' = Group(fs[n + 1])[j]
    <3>1. ft[n] = N /\ Group(fs[n + 1]) = g
      BY <1>10, <1>11, <1>12 DEF g
    <3>2. QED
      BY <1>7, <1>12, <3>1
  <2>5. ASSUME NEW i \in 1 .. n + 1
        PROVE  /\ ft[i] = ft[i - 1] + Len(Group(fs[i]))
               /\ \A j \in 1 .. Len(Group(fs[i])) :
                    Code(ft[i - 1] + j)' = Group(fs[i])[j]
    <3>1. CASE i \in 1 .. n
      BY <2>3, <3>1
    <3>2. CASE i = n + 1
      BY <1>10, <2>4, <3>2
    <3>3. QED
      BY <1>10, <3>1, <3>2
  <2>6. QED
    BY <1>10, <2>1, <2>2, <2>5 DEF Split
<1>15. Begun(fs)'
  <2>1. SUFFICES ASSUME got # <<>> PROVE fs # <<>> /\ Len(got) < Len(Group(fs[1]))
    BY <1>4 DEF Begun
  <2>2. es # <<>> /\ Len(got) < Len(Group(es[1]))
    BY <1>9, <2>1 DEF Begun
  <2>3. n \in Nat \ {0}
    BY <1>8, <2>2, EmptySeq DEF n
  <2>4. fs[1] = es[1] /\ Len(fs) # 0
    BY <1>10, <2>3
  <2>5. QED
    BY <2>2, <2>4
<1>16. Settles(fs)'
  <2>1. SUFFICES ASSUME NEW m \in Modifiers
                 PROVE  \/ Silent(fs, m) /\ (m \in pressed' <=> flags[m])
                        \/ \E i \in 1 .. n + 1 :
                             LastOf(fs, m, i) /\ (m \in pressed' <=> fs[i].down)
    BY <1>4, <1>10 DEF Settles, Silent, LastOf
  <2>2. CASE m = k
    <3>1. LastOf(fs, m, n + 1)
      BY <1>2, <1>10, <2>2 DEF LastOf
    <3>2. m \in pressed' <=> fs[n + 1].down
      BY <1>2, <1>4, <1>10, <2>2 DEF Modifiers
    <3>3. QED
      BY <1>10, <3>1, <3>2
  <2>3. CASE m # k
    <3>1. m \in pressed' <=> m \in pressed
      BY <1>4, <2>3
    <3>2. CASE Silent(es, m) /\ (m \in pressed <=> flags[m])
      <4>1. Silent(fs, m)
        BY <1>2, <1>10, <2>3, <3>2 DEF Silent, n
      <4>2. QED
        BY <3>1, <3>2, <4>1
    <3>3. ASSUME NEW i \in 1 .. n, LastOf(es, m, i), m \in pressed <=> es[i].down
          PROVE  \E j \in 1 .. n + 1 :
                   LastOf(fs, m, j) /\ (m \in pressed' <=> fs[j].down)
      <4>1. LastOf(fs, m, i)
        <5>1. fs[i].key = m /\ \A j \in 1 .. n : i < j => fs[j].key # m
          BY <1>10, <3>3 DEF LastOf, n
        <5>2. \A j \in 1 .. n + 1 : j \in 1 .. n \/ j = n + 1
          BY <1>10
        <5>3. fs[n + 1].key # m
          BY <1>2, <1>10, <2>3
        <5>4. QED
          BY <1>10, <5>1, <5>2, <5>3 DEF LastOf
      <4>2. QED
        BY <1>10, <3>1, <3>3, <4>1
    <3>4. QED
      BY <1>9, <3>2, <3>3 DEF Settles, n
  <2>4. QED
    BY <2>2, <2>3
<1>17. ft \in [0 .. Len(fs) -> Nat]
  BY <1>10, <1>12
<1>18. QED
  BY <1>3, <1>5, <1>10, <1>14, <1>15, <1>16, <1>17 DEF OnItsWay

(* Where a scancode lies when the b-th before it has moved by d.           *)
LEMMA Shift ==
  \A a, b, d, j, l, N \in Nat :
    1 <= j /\ j <= l /\ a = b - d /\ b + l <= N
    => a + j \in 1 .. N - d /\ (a + j) + d = b + j
  OBVIOUS

(* A group that is complete leaves: the others move up by its scancodes.   *)
LEMMA SplitLeaves ==
  ASSUME NEW es \in Seq(Events), NEW st \in [0 .. Len(es) -> Nat], NEW N \in Nat,
         flags \in [Modifiers -> BOOLEAN],
         NEW fs, NEW n, NEW ft
  PROVE  /\ es # <<>> /\ Split(es, st)
         /\ N = Total /\ Total' = N - st[1]
         /\ \A i \in 1 .. N - st[1] : Code(i)' = Code(i + st[1])
         /\ fs = Tail(es) /\ n = Len(es) - 1
         /\ ft = [i \in 0 .. n |-> st[i + 1] - st[1]]
         => ft \in [0 .. Len(fs) -> Nat] /\ Split(fs, ft)'
<1>0. SUFFICES ASSUME es # <<>>, Split(es, st),
                      N = Total, Total' = N - st[1],
                      \A i \in 1 .. N - st[1] : Code(i)' = Code(i + st[1]),
                      fs = Tail(es), n = Len(es) - 1,
                      ft = [i \in 0 .. n |-> st[i + 1] - st[1]]
               PROVE  ft \in [0 .. Len(fs) -> Nat] /\ Split(fs, ft)'
  OBVIOUS
<1>1. Len(es) \in Nat \ {0}
  BY <1>0, EmptySeq
<1>2. /\ n \in Nat /\ fs \in Seq(Events) /\ Len(fs) = n
      /\ \A i \in 1 .. n : fs[i] = es[i + 1] /\ es[i + 1] \in Events
  BY <1>0, <1>1
<1>3. /\ st[Len(es)] = N
      /\ \A i, j \in 0 .. Len(es) : i <= j => st[i] <= st[j]
      /\ \A i \in 1 .. Len(es) : st[i] = st[i - 1] + Len(Group(es[i]))
  BY <1>0 DEF Split
<1>4. \A i \in 0 .. n : /\ st[i + 1] \in Nat /\ st[1] \in Nat
                        /\ st[1] <= st[i + 1] /\ st[i + 1] <= N
  <2>1. ASSUME NEW i \in 0 .. n
        PROVE  /\ i + 1 \in 0 .. Len(es) /\ 1 \in 0 .. Len(es) /\ 1 <= i + 1
               /\ Len(es) \in 0 .. Len(es) /\ i + 1 <= Len(es)
    BY <1>0, <1>1
  <2>2. ASSUME NEW i \in 0 .. n
        PROVE  /\ st[i + 1] \in Nat /\ st[1] \in Nat
               /\ st[1] <= st[i + 1] /\ st[i + 1] <= N
    BY <1>3, <2>1
  <2>3. QED
    BY <2>2
<1>5. ft \in [0 .. n -> Nat] /\ \A i \in 0 .. n : ft[i] = st[i + 1] - st[1]
  BY <1>0, <1>4
<1>6. ft[0] = 0 /\ ft[Len(fs)] = Total'
  <2>1. 0 \in 0 .. n /\ n \in 0 .. n /\ 0 + 1 = 1 /\ n + 1 = Len(es)
    BY <1>0, <1>1, <1>2
  <2>2. ft[0] = st[1] - st[1] /\ ft[n] = st[Len(es)] - st[1] /\ st[1] \in Nat
    BY <1>4, <1>5, <2>1
  <2>3. QED
    BY <1>0, <1>2, <1>3, <2>2
<1>7. ASSUME NEW i \in 0 .. n, NEW j \in 0 .. n, i <= j PROVE ft[i] <= ft[j]
  <2>1. i + 1 \in 0 .. Len(es) /\ j + 1 \in 0 .. Len(es) /\ i + 1 <= j + 1
    BY <1>0, <1>1, <1>7
  <2>2. st[i + 1] <= st[j + 1]
    BY <1>3, <2>1
  <2>3. QED
    BY <1>4, <1>5, <2>2
<1>8. ASSUME NEW i \in 1 .. n
      PROVE  /\ ft[i] = ft[i - 1] + Len(Group(fs[i]))
             /\ \A j \in 1 .. Len(Group(fs[i])) :
                  Code(ft[i - 1] + j)' = Group(fs[i])[j]
  <2> DEFINE h == Group(fs[i])
  <2>1. /\ i \in 0 .. n /\ i - 1 \in 0 .. n /\ i + 1 \in 1 .. Len(es)
        /\ (i - 1) + 1 = i /\ (i + 1) - 1 = i
    BY <1>0, <1>1, <1>2
  <2>2. /\ ft[i] = st[i + 1] - st[1] /\ ft[i - 1] = st[i] - st[1]
        /\ st[i + 1] \in Nat /\ st[i] \in Nat /\ st[1] \in Nat
        /\ st[1] <= st[i] /\ st[i + 1] <= N
    BY <1>4, <1>5, <2>1
  <2>3. fs[i] = es[i + 1] /\ fs[i] \in Events
    BY <1>0, <1>2
  <2>4. st[i + 1] = st[i] + Len(h)
    BY <1>3, <2>1, <2>3
  <2>5. \A j \in 1 .. Len(h) : Code(st[i] + j) = h[j]
    BY <1>0, <2>1, <2>3 DEF Split
  <2>6. Len(h) \in 1 .. 6
    BY <2>3, GroupsAreEvents
  <2> HIDE DEF h
  <2>7. ASSUME NEW j \in 1 .. Len(h) PROVE Code(ft[i - 1] + j)' = h[j]
    <3>1. j \in Nat /\ 1 <= j /\ j <= Len(h)
      BY <2>6
    <3>2. /\ ft[i - 1] \in Nat /\ st[i] \in Nat /\ st[1] \in Nat /\ Len(h) \in Nat
          /\ ft[i - 1] = st[i] - st[1] /\ st[i] + Len(h) <= N
      <4>1. /\ ft[i - 1] = st[i] - st[1] /\ st[i] \in Nat /\ st[1] \in Nat
            /\ Len(h) \in Nat
        BY <2>2, <2>6
      <4>2. ft[i - 1] \in Nat
        BY <1>5, <2>1
      <4>3. st[i] + Len(h) <= N
        BY <2>2, <2>4
      <4>4. QED
        BY <4>1, <4>2, <4>3
    <3>3. /\ ft[i - 1] + j \in 1 .. N - st[1]
          /\ (ft[i - 1] + j) + st[1] = st[i] + j
      BY <3>1, <3>2, Shift
    <3>4. QED
      BY <1>0, <2>5, <3>3
  <2>8. ft[i] = ft[i - 1] + Len(h)
    BY <2>2, <2>4, <2>6
  <2>9. QED
    BY <2>7, <2>8 DEF h
<1>9. QED
  BY <1>0, <1>2, <1>5, <1>6, <1>7, <1>8 DEF Split

(* The event of the group that is complete has set its flag.               *)
LEMMA SettlesWithout ==
  ASSUME NEW es \in Seq(Events), es # <<>>, Settles(es), pressed' = pressed,
         flags \in [Modifiers -> BOOLEAN], flags' = FlagsSet(es[1].key, es[1].down)
  PROVE  Settles(Tail(es))'
<1> DEFINE fs == Tail(es)
           n  == Len(es) - 1
<1>1. /\ Len(es) \in Nat \ {0} /\ n \in Nat /\ Len(fs) = n
      /\ \A i \in 1 .. n : fs[i] = es[i + 1] /\ i + 1 \in 1 .. Len(es)
  <2>1. Len(es) \in Nat \ {0}
    BY EmptySeq
  <2>2. QED
    BY <2>1
<1>2. es[1] \in Events
  BY <1>1
<1> HIDE DEF fs
<1>3. ASSUME NEW m \in Modifiers
      PROVE  \/ Silent(fs, m) /\ (m \in pressed <=> flags'[m])
             \/ \E i \in 1 .. n : LastOf(fs, m, i) /\ (m \in pressed <=> fs[i].down)
  <2>1. flags'[m] = IF m = es[1].key THEN es[1].down ELSE flags[m]
    BY DEF FlagsSet
  <2>2. CASE Silent(es, m) /\ (m \in pressed <=> flags[m])
    <3>1. Silent(fs, m) /\ m # es[1].key
      BY <1>1, <2>2 DEF Silent
    <3>2. QED
      BY <2>1, <2>2, <3>1
  <2>3. ASSUME NEW i \in 1 .. Len(es), LastOf(es, m, i), m \in pressed <=> es[i].down
        PROVE  \/ Silent(fs, m) /\ (m \in pressed <=> flags'[m])
               \/ \E j \in 1 .. n : LastOf(fs, m, j) /\ (m \in pressed <=> fs[j].down)
    <3>1. CASE i = 1
      <4>1. m = es[1].key
        BY <2>3, <3>1 DEF LastOf
      <4>2. \A j \in 1 .. n : 1 < j + 1
        BY <1>1
      <4>3. Silent(fs, m)
        BY <1>1, <2>3, <3>1, <4>2 DEF Silent, LastOf
      <4>4. QED
        BY <2>1, <2>3, <3>1, <4>1, <4>3
    <3>2. CASE i # 1
      <4>1. i - 1 \in 1 .. n /\ fs[i - 1] = es[i]
        BY <1>1, <3>2
      <4>2. \A j \in 1 .. n : i - 1 < j => i < j + 1 /\ fs[j] = es[j + 1]
        BY <1>1
      <4>3. LastOf(fs, m, i - 1)
        BY <1>1, <2>3, <4>1, <4>2 DEF LastOf
      <4>4. QED
        BY <2>3, <4>1, <4>3
    <3>3. QED
      BY <3>1, <3>2
  <2>4. QED
    BY <2>2, <2>3 DEF Settles
<1>4. QED
  BY <1>1, <1>3 DEF Settles, Silent, LastOf, fs

(* analysis_keycode takes the next scancode of the first group, and when   *)
(* it has them all that event is done.                                     *)
LEMMA StoreFlags ==
  ASSUME FlagsInv, Store
  PROVE  wire' \in Seq(Byte) /\ OnItsWay'
<1>1. /\ unread \in Seq(Byte) /\ got \in Seq(Byte) /\ wire \in Seq(Byte)
      /\ flags \in [Modifiers -> BOOLEAN]
  BY DEF FlagsInv, RingInv, WireOK, TypeOK
<1>2. Len(unread) \in Nat \ {0} /\ Len(got) \in Nat /\ Len(wire) \in Nat
      /\ reader.ret = unread[1] /\ unread[1] \in Byte
  <2>1. /\ reader.loaded > 0 /\ reader.loaded <= count /\ count <= Len(unread)
        /\ reader.loaded \in Nat /\ count \in Nat /\ reader.ret = unread[1]
    BY DEF FlagsInv, RingInv, Store, ReaderSound, TypeOK, WireOK
  <2>2. Len(unread) \in Nat \ {0}
    BY <1>1, <2>1
  <2>3. QED
    BY <1>1, <2>1, <2>2
<1>3. PICK codes : /\ codes = Append(got, unread[1])
                   /\ got' = IF Incomplete(codes) THEN codes ELSE <<>>
                   /\ flags' = IF Incomplete(codes) THEN flags ELSE FlagsAfter(codes)
                   /\ unread' = Tail(unread) /\ UNCHANGED <<wire, pressed>>
  BY <1>2 DEF Store
<1>4. PICK c \in Nat : c = Len(got)
  BY <1>2
<1>5. /\ codes \in Seq(Byte) /\ Len(codes) = c + 1 /\ codes[c + 1] = unread[1]
      /\ \A i \in 1 .. c : codes[i] = got[i]
  BY <1>1, <1>2, <1>3, <1>4, AppendProperties
<1>6. /\ unread' \in Seq(Byte) /\ Len(unread') = Len(unread) - 1
      /\ \A i \in 1 .. Len(unread) - 1 : unread'[i] = unread[i + 1]
  BY <1>1, <1>2, <1>3
<1>7. PICK N \in Nat : N = Total /\ N = c + Len(unread) + Len(wire)
  BY <1>2, <1>4 DEF Total
<1>8. \A i \in 1 .. c + 1 : Code(i) = codes[i]
  BY <1>2, <1>4, <1>5 DEF Code
<1>9. PICK es \in Seq(Events) : \E st \in [0 .. Len(es) -> Nat] :
        Split(es, st) /\ Begun(es) /\ Settles(es)
  BY DEF FlagsInv, OnItsWay
<1>10. PICK st \in [0 .. Len(es) -> Nat] : Split(es, st) /\ Begun(es) /\ Settles(es)
  BY <1>9
<1>11. es # <<>> /\ Len(es) \in Nat \ {0}
  <2>1. st[0] = 0 /\ st[Len(es)] = N /\ Len(es) \in Nat
    <3>1. st[0] = 0 /\ st[Len(es)] = Total
      BY <1>10 DEF Split
    <3>2. Len(es) \in Nat
      BY <1>9
    <3>3. QED
      BY <1>7, <3>1, <3>2
  <2>2. N # 0
    BY <1>2, <1>7
  <2>3. QED
    BY <2>1, <2>2, EmptySeq
<1>12. PICK g : g = Group(es[1]) /\ g = Scancodes(es[1].key, es[1].down)
  BY DEF Group
<1>13. /\ es[1] \in Events /\ g \in Seq(Byte) /\ Len(g) \in 1 .. 6
       /\ ~Incomplete(g) /\ FlagsAfter(g) = FlagsSet(es[1].key, es[1].down)
       /\ \A d \in Seq(Byte) :
            /\ Len(d) \in 1 .. Len(g) - 1
            /\ \A i \in 1 .. Len(d) : d[i] = g[i]
            => Incomplete(d)
  <2>1. es[1] \in Events
    BY <1>11
  <2>2. flags \in [Modifiers -> BOOLEAN]
    BY <1>1
  <2>3. /\ Group(es[1]) \in Seq(Byte) /\ Len(Group(es[1])) \in 1 .. 6
        /\ ~Incomplete(Group(es[1]))
        /\ FlagsAfter(Group(es[1])) = FlagsSet(es[1].key, es[1].down)
        /\ \A d \in Seq(Byte) :
             /\ Len(d) \in 1 .. Len(Group(es[1])) - 1
             /\ \A i \in 1 .. Len(d) : d[i] = Group(es[1])[i]
             => Incomplete(d)
    BY <2>1, <2>2, GroupsAreEvents
  <2>4. QED
    BY <1>12, <2>1, <2>3
<1>14. st[1] = Len(g) /\ st[1] <= N /\ \A i \in 1 .. Len(g) : Code(i) = g[i]
  <2>1. 1 \in 1 .. Len(es) /\ 1 \in 0 .. Len(es) /\ Len(es) \in 0 .. Len(es) /\ 1 - 1 = 0
    BY <1>11
  <2>2. /\ st[0] = 0 /\ st[1] = st[0] + Len(g) /\ st[1] <= st[Len(es)]
        /\ \A i \in 1 .. Len(g) : Code(st[0] + i) = g[i]
    <3>1. st[0] = 0 /\ st[1] <= st[Len(es)]
      BY <1>10, <1>11, <2>1 DEF Split
    <3>2. /\ st[1] = st[1 - 1] + Len(Group(es[1]))
          /\ \A i \in 1 .. Len(Group(es[1])) : Code(st[1 - 1] + i) = Group(es[1])[i]
      BY <1>10, <2>1 DEF Split
    <3>3. QED
      BY <1>12, <2>1, <3>1, <3>2
  <2>3. \A i \in 1 .. Len(g) : st[0] + i = i
    BY <1>13, <2>2
  <2>4. st[Len(es)] = N
    BY <1>7, <1>10 DEF Split
  <2>5. QED
    BY <1>13, <2>2, <2>3, <2>4
<1>15. c < Len(g)
  <2>1. CASE got = <<>>
    BY <1>4, <1>13, <2>1
  <2>2. CASE got # <<>>
    BY <1>4, <1>10, <1>12, <2>2 DEF Begun
  <2>3. QED
    BY <2>1, <2>2
<1>16. \A i \in 1 .. Len(codes) : codes[i] = g[i]
  <2>1. \A i \in 1 .. Len(codes) : i \in 1 .. c + 1 /\ i \in 1 .. Len(g)
    BY <1>5, <1>13, <1>15
  <2>2. QED
    BY <1>8, <1>14, <2>1
<1>17. CASE Len(codes) < Len(g)
  <2>1. Incomplete(codes)
    <3>1. Len(codes) \in 1 .. Len(g) - 1
      BY <1>5, <1>13, <1>17
    <3>2. QED
      BY <1>5, <1>13, <1>16, <3>1
  <2>2. got' = codes /\ flags' = flags
    BY <1>3, <2>1
  <2>3. Total' = Total
    BY <1>2, <1>3, <1>4, <1>5, <1>6, <2>2 DEF Total
  <2>4. ASSUME NEW i \in 1 .. N PROVE Code(i)' = Code(i)
    <3>1. CASE i <= c
      BY <1>2, <1>4, <1>5, <2>2, <3>1 DEF Code
    <3>2. CASE i = c + 1
      BY <1>2, <1>4, <1>5, <2>2, <3>2 DEF Code
    <3>3. CASE c + 1 < i
      <4>1. /\ ~(i <= c) /\ ~(i <= c + 1)
            /\ c + 1 + Len(unread') = c + Len(unread)
            /\ i - (c + 1) + 1 = i - c
            /\ i - (c + 1) - Len(unread') = i - c - Len(unread)
        BY <1>2, <1>6, <3>3
      <4>2. CASE i <= c + Len(unread)
        <5>1. Code(i) = unread[i - c] /\ Code(i)' = unread'[i - (c + 1)]
          BY <1>4, <1>5, <2>2, <4>1, <4>2 DEF Code
        <5>2. i - (c + 1) \in 1 .. Len(unread) - 1
          BY <1>2, <3>3, <4>2
        <5>3. QED
          BY <1>6, <4>1, <5>1, <5>2
      <4>3. CASE ~(i <= c + Len(unread))
        <5>1. Code(i) = wire[i - c - Len(unread)]
          BY <1>4, <4>1, <4>3 DEF Code
        <5>2. ~(i <= c + 1 + Len(unread'))
          BY <4>1, <4>3
        <5>3. Code(i)' = wire'[i - (c + 1) - Len(unread')]
          BY <1>5, <2>2, <4>1, <5>2 DEF Code
        <5>4. QED
          BY <1>3, <4>1, <5>1, <5>3
      <4>4. QED
        BY <4>2, <4>3
    <3>4. QED
      BY <3>1, <3>2, <3>3
  <2>5. Split(es, st)'
    BY <1>1, <1>7, <1>10, <2>3, <2>4, SplitMovesOn
  <2>6. Begun(es)'
    BY <1>11, <1>12, <1>17, <2>2 DEF Begun
  <2>7. Settles(es)'
    BY <1>3, <1>10, <2>2, SettlesStill
  <2>8. QED
    BY <1>1, <1>3, <1>10, <2>5, <2>6, <2>7 DEF OnItsWay
<1>18. CASE Len(codes) = Len(g)
  <2>1. codes = g
    BY <1>5, <1>13, <1>16, <1>18
  <2>2. got' = <<>> /\ flags' = FlagsSet(es[1].key, es[1].down)
    BY <1>3, <1>13, <2>1
  <2>3. Total' = N - st[1]
    <3>1. Total' = Len(unread') + Len(wire)
      <4>1. Len(got') = 0 /\ Len(unread') \in Nat /\ wire' = wire
        BY <1>2, <1>3, <1>6, <2>2
      <4>2. QED
        BY <1>2, <4>1 DEF Total
    <3>2. st[1] = c + 1
      BY <1>5, <1>14, <1>18
    <3>3. QED
      BY <1>2, <1>6, <1>7, <3>1, <3>2
  <2>4. ASSUME NEW i \in 1 .. N - st[1] PROVE Code(i)' = Code(i + st[1])
    <3>1. /\ st[1] = c + 1 /\ i \in Nat /\ 1 <= i
          /\ ~(i + st[1] <= c) /\ ~(i <= 0)
          /\ i + st[1] - c = i + 1
      <4>1. st[1] = c + 1
        BY <1>5, <1>14, <1>18
      <4>2. i \in Nat /\ 1 <= i
        BY <1>7, <2>4, <4>1
      <4>3. QED
        BY <4>1, <4>2
    <3>2. CASE i <= Len(unread) - 1
      <4>1. i + st[1] <= c + Len(unread) /\ i <= 0 + Len(unread') /\ i - 0 = i
        BY <1>2, <1>6, <3>1, <3>2
      <4>2. Code(i + st[1]) = unread[i + st[1] - c]
        BY <1>4, <3>1, <4>1 DEF Code
      <4>3. Code(i)' = unread'[i]
        BY <2>2, <3>1, <4>1 DEF Code
      <4>4. i \in 1 .. Len(unread) - 1
        BY <1>2, <3>1, <3>2
      <4>5. QED
        BY <1>6, <3>1, <4>2, <4>3, <4>4
    <3>3. CASE ~(i <= Len(unread) - 1)
      <4>1. /\ ~(i + st[1] <= c + Len(unread)) /\ ~(i <= 0 + Len(unread'))
            /\ i + st[1] - c - Len(unread) = i - 0 - Len(unread')
        BY <1>2, <1>6, <3>1, <3>3
      <4>2. Code(i + st[1]) = wire[i + st[1] - c - Len(unread)]
        BY <1>4, <3>1, <4>1 DEF Code
      <4>3. Code(i)' = wire[i - 0 - Len(unread')]
        BY <1>3, <2>2, <3>1, <4>1 DEF Code
      <4>4. QED
        BY <4>1, <4>2, <4>3
    <3>4. QED
      BY <3>2, <3>3
  <2>5. PICK n : n = Len(es) - 1
    OBVIOUS
  <2>6. PICK fs : fs = Tail(es) /\ fs \in Seq(Events)
    BY <1>9, <1>11
  <2>7. PICK ft : ft = [i \in 0 .. n |-> st[i + 1] - st[1]]
    OBVIOUS
  <2>8. ft \in [0 .. Len(fs) -> Nat] /\ Split(fs, ft)'
    BY <1>1, <1>7, <1>9, <1>10, <1>11, <2>3, <2>4, <2>5, <2>6, <2>7, SplitLeaves
  <2>9. Settles(fs)'
    BY <1>1, <1>3, <1>10, <1>11, <2>2, <2>6, SettlesWithout
  <2>10. Begun(fs)'
    BY <2>2 DEF Begun
  <2>11. QED
    BY <1>1, <1>3, <2>6, <2>8, <2>9, <2>10 DEF OnItsWay
<1>19. QED
  BY <1>5, <1>13, <1>15, <1>17, <1>18

(* FlagsInv is inductive.                                                  *)
LEMMA NextFlags == ASSUME KeepsUp PROVE FlagsInv /\ [Next]_vars => FlagsInv'
<1> SUFFICES ASSUME FlagsInv, [Next]_vars PROVE FlagsInv'
  OBVIOUS
<1>1. RingInv'
  BY NextRing DEF FlagsInv
<1>2. ASSUME UNCHANGED <<wire, unread, got, pressed, flags>>
      PROVE  wire' \in Seq(Byte) /\ OnItsWay'
  <2>1. PICK es \in Seq(Events) : \E st \in [0 .. Len(es) -> Nat] :
          Split(es, st) /\ Begun(es) /\ Settles(es)
    BY DEF FlagsInv, OnItsWay
  <2>2. PICK st \in [0 .. Len(es) -> Nat] : Split(es, st) /\ Begun(es) /\ Settles(es)
    BY <2>1
  <2>3. Split(es, st)' /\ Begun(es)' /\ Settles(es)'
    <3>1. Total' = Total /\ \A i : Code(i)' = Code(i)
      BY <1>2 DEF Total, Code
    <3>2. Split(es, st)'
      BY <2>2, <3>1 DEF Split
    <3>3. QED
      BY <1>2, <2>2, <3>2, SettlesStill DEF Begun
  <2>4. QED
    BY <1>2, <2>3 DEF FlagsInv, OnItsWay
<1>3. wire' \in Seq(Byte) /\ OnItsWay'
  <2>1. CASE UNCHANGED vars \/ Wait \/ Load
    BY <1>2, <2>1 DEF vars, Wait, Load
  <2>2. QED
    BY <2>1, KeyEventFlags, HandlerFlags, StoreFlags DEF Next
<1>4. QED
  BY <1>1, <1>3 DEF FlagsInv

(* Whatever keys are pressed and released in whatever order, and however   *)
(* far analysis_keycode is behind: when it has read all, the flags say     *)
(* which modifier keys are down.                                           *)
THEOREM FlagsFollow == ASSUME KeepsUp PROVE Spec => []FlagsFollowKeys
<1>1. FlagsInv => FlagsFollowKeys
  <2> SUFFICES ASSUME FlagsInv, unread = <<>>, wire = <<>>
               PROVE  got = <<>> /\ \A m \in Modifiers : flags[m] <=> m \in pressed
    BY DEF FlagsFollowKeys
  <2>1. PICK es \in Seq(Events) : \E st \in [0 .. Len(es) -> Nat] :
          Split(es, st) /\ Begun(es) /\ Settles(es)
    BY DEF FlagsInv, OnItsWay
  <2>2. PICK st \in [0 .. Len(es) -> Nat] : Split(es, st) /\ Begun(es) /\ Settles(es)
    BY <2>1
  <2>3. got \in Seq(Byte) /\ flags \in [Modifiers -> BOOLEAN]
    BY DEF FlagsInv, RingInv, WireOK, TypeOK
  <2>4. Total = Len(got) /\ Len(got) \in Nat
    BY <2>3 DEF Total
  <2>5. ASSUME es # <<>> PROVE FALSE
    <3>1. Len(es) \in Nat \ {0} /\ es[1] \in Events
      BY <2>5, EmptySeq
    <3>2. Len(Group(es[1])) \in 1 .. 6
      BY <2>3, <3>1, GroupsAreEvents
    <3>3. /\ 1 \in 1 .. Len(es) /\ 1 \in 0 .. Len(es) /\ Len(es) \in 0 .. Len(es)
          /\ 1 - 1 = 0
      BY <3>1
    <3>4. /\ st[0] = 0 /\ st[1] = st[0] + Len(Group(es[1]))
          /\ st[1] <= st[Len(es)] /\ st[Len(es)] = Len(got)
      BY <2>2, <2>4, <3>1, <3>3 DEF Split
    <3>5. Len(got) >= Len(Group(es[1]))
      BY <2>4, <3>2, <3>4
    <3>6. got # <<>>
      <4>1. Len(got) # 0
        BY <2>4, <3>2, <3>5
      <4>2. QED
        BY <4>1
    <3>7. Len(got) < Len(Group(es[1]))
      BY <2>2, <3>6 DEF Begun
    <3>8. QED
      BY <2>4, <3>2, <3>5, <3>7
  <2>6. Len(es) = 0
    BY <2>5
  <2>7. got = <<>>
    BY <2>2, <2>5 DEF Begun
  <2>8. QED
    BY <2>2, <2>6, <2>7 DEF Settles
<1>2. QED
  BY <1>1, InitFlags, NextFlags, PTL DEF Spec
=============================================================================
