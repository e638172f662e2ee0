------------------------------ MODULE Keyboard -------------------------------
(***************************************************************************)
(* The keyboard driver (device/keyboard.c): the interrupt handler puts the *)
(* scancodes into a ring buffer, analysis_keycode takes them out with      *)
(* get_scancode, groups them into key events and keeps the state of the    *)
(* modifier keys.                                                          *)
(*                                                                         *)
(* The interrupt goes to the boot processor, and the reader is a task of   *)
(* that processor, executed with interrupts on: the handler runs between   *)
(* any two instructions of the reader, never the other way round.  No      *)
(* lock is taken.  The kernel is built without optimisation, so that       *)
(* count-- is a load and a store.                                          *)
(***************************************************************************)
EXTENDS Integers, Sequences, SequencesExt

CONSTANTS KB_BUF_SIZE, \* 100 in the code
          Keys,        \* the keys that are pressed and released
          MaxUnread,   \* bound: scancodes the reader is behind
          None         \* no scancode read

\* The prefix bytes and the scancodes of the keys, make and break.
E0 == 224
E1 == 225
FLAG_BREAK == 128
Plain    == [a |-> 30, shift_l |-> 42, shift_r |-> 54, ctrl_l |-> 29, alt_l |-> 56]
Extended == [left |-> 75, ctrl_r |-> 29, alt_r |-> 56]

pausebreak_scode    == <<E1, 29, 69, E1, 157, 197>>
printscreen_press   == <<E0, 42, E0, 55>>
printscreen_release == <<E0, 183, E0, 170>>

Modifiers == {"shift_l", "shift_r", "ctrl_l", "ctrl_r", "alt_l", "alt_r"}

ASSUME KeyboardAssumption ==
  /\ KB_BUF_SIZE \in Nat \ {0}
  /\ Keys \subseteq DOMAIN Plain \cup DOMAIN Extended \cup {"pause", "printscreen"}
  /\ MaxUnread \in Nat
  /\ None \notin Int

VARIABLES wire,    \* scancodes of the last key event, still in the controller
          pressed, \* keys that are down
          head,    \* p_head - buf
          tail,    \* p_tail - buf
          count,
          buf,
          reader,  \* where get_scancode stands, the count it has loaded
          got,     \* scancodes this call of analysis_keycode has read
          flags,   \* shift_l .. alt_r
          unread   \* history: scancodes received and not returned, in order

vars == <<wire, pressed, head, tail, count, buf, reader, got, flags, unread>>

-----------------------------------------------------------------------------
\* The scancodes a PS/2 keyboard sends when a key goes down or up.
Scancodes(k, down) ==
  LET brk == IF down THEN 0 ELSE FLAG_BREAK IN
  IF k = "pause" THEN pausebreak_scode
  ELSE IF k = "printscreen"
       THEN IF down THEN printscreen_press ELSE printscreen_release
  ELSE IF k \in DOMAIN Plain THEN <<Plain[k] + brk>>
  ELSE <<E0, Extended[k] + brk>>

\* keyboard_init.
Init ==
  /\ wire = <<>>
  /\ pressed = {}
  /\ head = 0 /\ tail = 0 /\ count = 0
  /\ buf = [i \in 0 .. KB_BUF_SIZE - 1 |-> 0]
  /\ reader = [at |-> "wait", loaded |-> 0, ret |-> None]
  /\ got = <<>>
  /\ flags = [m \in Modifiers |-> FALSE]
  /\ unread = <<>>

\* A key is pressed or released; pause sends everything at once.
KeyEvent(k) ==
  /\ wire = <<>>
  /\ wire' = Scancodes(k, k \notin pressed)
  /\ pressed' = IF k = "pause" THEN pressed
                ELSE IF k \in pressed THEN pressed \ {k} ELSE pressed \cup {k}
  /\ UNCHANGED <<head, tail, count, buf, reader, got, flags, unread>>

\* p == p_kb->buf + KB_BUF_SIZE goes back to the start of the buffer.
Wrapped(p) == IF p = KB_BUF_SIZE THEN 0 ELSE p

\* keyboard_handler, with interrupts off.  It wraps the head around but
\* does not look whether the buffer is full.
keyboard_handler ==
  /\ wire # <<>>
  /\ Len(unread) < MaxUnread
  /\ buf' = [buf EXCEPT ![Wrapped(head)] = Head(wire)]
  /\ count' = count + 1
  /\ head' = Wrapped(head) + 1
  /\ wire' = Tail(wire)
  /\ unread' = Append(unread, Head(wire))
  /\ UNCHANGED <<pressed, tail, reader, got, flags>>

\* get_scancode: the busy wait ends.
Wait ==
  /\ reader.at = "wait"
  /\ count # 0
  /\ reader' = [reader EXCEPT !.at = "load"]
  /\ UNCHANGED <<wire, pressed, head, tail, count, buf, got, flags, unread>>

\* get_scancode: the scancode is read, and the count loaded to decrement it.
Load ==
  /\ reader.at = "load"
  /\ tail' = Wrapped(tail)
  /\ reader' = [at |-> "store", loaded |-> count, ret |-> buf[Wrapped(tail)]]
  /\ UNCHANGED <<wire, pressed, head, count, buf, got, flags, unread>>

-----------------------------------------------------------------------------
\* analysis_keycode reads on after these scancodes: the first byte is a
\* prefix, and pause and printscreen may still come.
Special == {pausebreak_scode, printscreen_press, printscreen_release}
Incomplete(codes) == \E s \in Special : IsStrictPrefix(codes, s)

\* Mutated: a release is taken for a press.
Ordinary_make(x) ==
  [m \in Modifiers |->
     IF m \in DOMAIN Plain /\ Plain[m] = x % FLAG_BREAK THEN TRUE ELSE flags[m]]

\* The ordinary keys: x with FLAG_BREAK says release.
Ordinary(x) ==
  LET make == x < FLAG_BREAK
      key  == x % FLAG_BREAK
  IN [m \in Modifiers |->
        IF m \in DOMAIN Plain /\ Plain[m] = key THEN make ELSE flags[m]]

\* A key behind the prefix 0xE0: only the right ctrl and alt matter.
Prefixed(x) ==
  [m \in Modifiers |->
     IF m \in DOMAIN Extended /\ x = Extended[m] THEN TRUE
     ELSE IF m \in DOMAIN Extended /\ x = Extended[m] + FLAG_BREAK THEN FALSE
     ELSE flags[m]]

\* What the modifier flags become after a complete group of scancodes.  A
\* group that began like printscreen and went on differently is handled as
\* the ordinary key of its second byte.
FlagsAfter(codes) ==
  IF codes \in Special THEN flags
  ELSE IF codes[1] # E0 THEN Ordinary(codes[1])
  ELSE IF Len(codes) = 2 THEN Prefixed(codes[2])
  ELSE Ordinary(codes[2])

\* Mutated: the tail does not move.
Store_stay ==
  LET codes == Append(got, reader.ret) IN
  /\ reader.at = "store"
  /\ count' = reader.loaded - 1
  /\ reader' = [at |-> "wait", loaded |-> 0, ret |-> None]
  /\ got' = IF Incomplete(codes) THEN codes ELSE <<>>
  /\ flags' = IF Incomplete(codes) THEN flags ELSE FlagsAfter(codes)
  /\ unread' = Tail(unread)
  /\ UNCHANGED <<wire, pressed, head, tail, buf>>

\* get_scancode: count and tail; then analysis_keycode goes on with what it
\* got, and starts a new call when the group is complete.
Store ==
  LET codes == Append(got, reader.ret) IN
  /\ reader.at = "store"
  /\ count' = reader.loaded - 1
  /\ tail' = tail + 1
  /\ reader' = [at |-> "wait", loaded |-> 0, ret |-> None]
  /\ got' = IF Incomplete(codes) THEN codes ELSE <<>>
  /\ flags' = IF Incomplete(codes) THEN flags ELSE FlagsAfter(codes)
  /\ unread' = Tail(unread)
  /\ UNCHANGED <<wire, pressed, head, buf>>

Next == \/ \E k \in Keys : KeyEvent(k)
        \/ keyboard_handler
        \/ Wait
        \/ Load
        \/ Store

Spec == Init /\ [][Next]_vars

-----------------------------------------------------------------------------
TypeOK ==
  /\ pressed \subseteq Keys
  /\ head \in 0 .. KB_BUF_SIZE
  /\ tail \in 0 .. KB_BUF_SIZE
  /\ count \in Nat
  /\ buf \in [0 .. KB_BUF_SIZE - 1 -> 0 .. 255]
  /\ reader.at \in {"wait", "load", "store"}
  /\ flags \in [Modifiers -> BOOLEAN]

(* As long as the reader is not more than a buffer behind, the ring holds  *)
(* the scancodes received and not yet returned, oldest first from the      *)
(* tail, whatever increments of count are lost: get_scancode returns every *)
(* scancode once and in order.                                             *)
RingHoldsUnread ==
  Len(unread) <= KB_BUF_SIZE =>
    /\ (head - tail - Len(unread)) % KB_BUF_SIZE = 0
    /\ \A i \in 1 .. Len(unread) : buf[(tail + i - 1) % KB_BUF_SIZE] = unread[i]

(* The count never promises more than the ring holds, so that the reader   *)
(* never takes a scancode that was not received.                           *)
CountIsCovered ==
  /\ count <= Len(unread)
  /\ reader.at # "wait" => unread # <<>>

(* The ring, its pointers and its count are sound.                         *)
KeyboardInv == TypeOK /\ RingHoldsUnread /\ CountIsCovered

(* When everything received is parsed, the modifier flags are the modifier *)
(* keys that are down: no sequence of presses and releases, of keys with   *)
(* one, two, four or six scancodes, leaves a flag behind.                  *)
FlagsFollowKeys ==
  unread = <<>> /\ wire = <<>> =>
    /\ got = <<>>
    /\ \A m \in Modifiers : flags[m] <=> m \in pressed

(* get_scancode waits only until there is an unparsed scancode             *)
(* (keyboard.c:35).  The code does not keep this: an interrupt between the *)
(* load and the store of count-- is not counted.                           *)
WaitsOnlyForCodes ==
  reader.at = "wait" /\ count = 0 => unread = <<>>

(* The buffer is a ring of KB_BUF_SIZE bytes (keyboard.h:7): it never      *)
(* counts more scancodes than it holds.  The code does not keep this: the  *)
(* handler goes on counting when the ring is full.                         *)
CountFitsRing == count <= KB_BUF_SIZE
=============================================================================
