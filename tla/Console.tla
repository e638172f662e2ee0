------------------------------- MODULE Console -------------------------------
(***************************************************************************)
(* color_printk (debug/printk.c): processors print through one text buffer *)
(* and one cursor.  A caller with interrupts on takes printk_lock; one     *)
(* with interrupts off is taken to be in an interrupt that may have hit    *)
(* the holder, and prints without the lock.                                *)
(*                                                                         *)
(* Each processor has a stack of frames: what it runs at the bottom, above *)
(* it the interrupts and exceptions in progress.  The top frame steps.     *)
(***************************************************************************)
EXTENDS Traps, SequencesExt

CONSTANTS CPUs,
          BSP,          \* the processor that boots
          Columns,      \* XResolution / XCharSize
          PageRows,     \* 50: the row at which the cursor goes back to the top
          ScreenRows,   \* YResolution / YCharSize
          XCharSize, YCharSize,
          TAB,          \* glyphs between tab stops, 8
          BufLen,       \* sizeof(buf), 4096
          BootMessages, \* what the BSP may print before it enables interrupts
          BootFaults,   \* exceptions the BSP may meet by then: [vector, code]
          Messages,     \* what anybody may print from then on
          Faults,       \* exceptions that may happen from then on
          FaultInPrint, \* whether they may happen inside color_printk
          HandlerFlags, \* values of IF a handler may print with; interrupt
                        \* handlers have FALSE, soft interrupts TRUE
          Rip,          \* where exceptions happen
          MaxCalls,     \* bound: messages a processor's bottom frame prints
          MaxEvents     \* bound: interrupts and exceptions in all

\* The text of a message.
Text(msg) == FlattenSeq([k \in DOMAIN msg |-> vsprintf(msg[k])])

\* The report of an exception on the stack its entry leaves.
ReportOf(e) ==
  Report(e.vector, Hardware(e.vector, e.code, Rip) \o Entry(e.vector), Rip)

Printed ==
  BootMessages \cup Messages
    \cup UNION {Range(ReportOf(e)) : e \in Faults \cup BootFaults}

\* color_printk and vsprintf do not test whether a text fits into the buffer.
ASSUME ConsoleAssumption ==
  /\ BSP \in CPUs
  /\ {Columns, PageRows, TAB, BufLen} \subseteq Nat \ {0}
  /\ {ScreenRows, XCharSize, YCharSize, Rip, ReportWidth} \subseteq Nat
  /\ PageRows < ScreenRows
  /\ HandlerFlags \subseteq BOOLEAN
  /\ Faults \cup BootFaults \subseteq [vector : Vectors, code : Nat]
  /\ \A m \in Printed : m \in Seq(Item) \ {<<>>} /\ Len(Text(m)) <= BufLen

VARIABLES printk_lock, \* Free, or the <<processor, depth>> of the holder
          buf,         \* the static buffer
          XPosition,
          YPosition,
          frames,      \* the stack of frames of each processor
          calls, events \* how many there were, for the bounds

vars == <<printk_lock, buf, XPosition, YPosition, frames, calls, events>>

Free  == <<>>
Blank == [k \in 1 .. BufLen |-> " "]

\* A frame: where it is in color_printk ("code" when outside), the items of
\* the format still to convert, the length of the text (i), the index of
\* the glyph (count), the blanks a tab still owes (tabSpace), and for an
\* exception the messages to print.  History: the message, where its first
\* glyph met the cursor, the cells drawn, and whether a printer that no
\* lock keeps apart has worked at the same time.
Frame(kind, IF_flag, todo, fault) ==
  [kind |-> kind, if |-> IF_flag, todo |-> todo, fault |-> fault,
   at |-> "code", fmt |-> <<>>, i |-> 0, count |-> 0, tabSpace |-> 0,
   msg |-> <<>>, start |-> <<0, 0>>, drawn |-> <<>>, disturbed |-> FALSE]
NoFault == [vector |-> -1, code |-> 0]

Depth(c) == Len(frames[c])
Top(c)   == frames[c][Depth(c)]
Printing(f) == f.at \in {"format", "put", "wrap", "end"}

\* The frames after the top one of c has become f.
WithTop(c, f) == [frames EXCEPT ![c][Depth(c)] = f]

\* Nothing is said of a disturbed message: its history is dropped.
Disturb(g) == [g EXCEPT !.disturbed = TRUE, !.start = <<0, 0>>, !.drawn = <<>>]
Draw(f, cell) == IF f.disturbed THEN f ELSE [f EXCEPT !.drawn = Append(@, cell)]

\* The same, when f has used the buffer or the cursor: whoever prints and
\* is not kept apart by the lock is disturbed.  A frame under the top one
\* of the same processor has been interrupted.
Working(c, f) ==
  [d \in CPUs |-> [k \in DOMAIN frames[d] |->
     IF d = c /\ k = Depth(c) THEN f
     ELSE LET g == frames[d][k] IN
          IF Printing(g) /\ ~(g.if /\ f.if) THEN Disturb(g) ELSE g]]

-----------------------------------------------------------------------------
Init ==
  /\ printk_lock = Free
  /\ buf = Blank
  /\ XPosition = 0
  /\ YPosition = 0
  /\ frames = [c \in CPUs |-> <<Frame("task", FALSE, <<>>, NoFault)>>]
  /\ calls = [c \in CPUs |-> 0]
  /\ events = 0

\* The BSP has enabled interrupts, and with that starts the others.
Booted == frames[BSP][1].if

\* sti, at the end of APIC_IOAPIC_init and of Start_SMP.  Bound: a BSP that
\* has printed a boot message does not go on.
EnableInterrupts(c) ==
  /\ Depth(c) = 1
  /\ Top(c).at = "code" /\ ~Top(c).if
  /\ c = BSP => calls[c] = 0
  /\ c # BSP => Booted
  /\ frames' = WithTop(c, [Top(c) EXCEPT !.if = TRUE])
  /\ UNCHANGED <<printk_lock, buf, XPosition, YPosition, calls, events>>

\* What the top frame of c may print now.
Candidates(c) ==
  LET f == Top(c) IN
  IF f.kind # "task" THEN IF f.todo = <<>> THEN {} ELSE {Head(f.todo)}
  ELSE IF calls[c] = MaxCalls THEN {}
  ELSE IF c = BSP /\ ~f.if THEN BootMessages
  ELSE IF Booted THEN Messages ELSE {}

\* Mutated: the lock is taken whatever IF is.
Call_locked(c) ==
  LET f == Top(c) IN
  /\ f.at = "code"
  /\ \E m \in Candidates(c) :
       frames' = WithTop(c, [f EXCEPT !.at = "lock",
         !.msg = m, !.fmt = m, !.todo = IF f.kind # "task" THEN Tail(@) ELSE @])
  /\ calls' = IF f.kind = "task" THEN [calls EXCEPT ![c] = @ + 1] ELSE calls
  /\ UNCHANGED <<printk_lock, buf, XPosition, YPosition, events>>

\* color_printk up to the test of IF.
Call(c) ==
  LET f == Top(c) IN
  /\ f.at = "code"
  /\ \E m \in Candidates(c) :
       frames' = WithTop(c, [f EXCEPT !.at = IF f.if THEN "lock" ELSE "format",
         !.msg = m, !.fmt = m, !.todo = IF f.kind # "task" THEN Tail(@) ELSE @])
  /\ calls' = IF f.kind = "task" THEN [calls EXCEPT ![c] = @ + 1] ELSE calls
  /\ UNCHANGED <<printk_lock, buf, XPosition, YPosition, events>>

\* spin_lock, which implements an abstract lock (module SpinLock).
Lock(c) ==
  /\ Top(c).at = "lock"
  /\ printk_lock = Free
  /\ printk_lock' = <<c, Depth(c)>>
  /\ frames' = WithTop(c, [Top(c) EXCEPT !.at = "format"])
  /\ UNCHANGED <<buf, XPosition, YPosition, calls, events>>

\* vsprintf: the next item of the format goes into the buffer.
Format(c) ==
  LET f    == Top(c)
      text == vsprintf(Head(f.fmt))
      rest == Tail(f.fmt)
      i    == f.i + Len(text)
  IN
  /\ f.at = "format"
  /\ buf' = [k \in 1 .. BufLen |-> IF k \in f.i + 1 .. i THEN text[k - f.i] ELSE buf[k]]
  /\ frames' = Working(c, [f EXCEPT !.fmt = rest, !.i = i,
       !.at = IF rest # <<>> THEN "format" ELSE IF i > 0 THEN "put" ELSE "end"])
  /\ UNCHANGED <<printk_lock, XPosition, YPosition, calls, events>>

\* The cell of the screen putchar draws to.
Cell(x, y, glyph) == <<x, y, glyph>>

\* One round of the loop up to the tests of the cursor: a new line, a step
\* back, the next blank of a tab, or a glyph.
Put(c) ==
  LET f == Top(c)
      here == IF f.count > 0 \/ f.drawn # <<>> \/ f.disturbed THEN [f EXCEPT !.at = "wrap"]
              ELSE IF XPosition < Columns /\ YPosition < PageRows
              THEN [f EXCEPT !.at = "wrap", !.start = <<XPosition, YPosition>>]
              ELSE Disturb([f EXCEPT !.at = "wrap"])
      glyph == buf[f.count + 1]
      owed == IF f.tabSpace > 0 THEN f.tabSpace
              ELSE IF glyph = "\t" THEN TAB - (XPosition % TAB) ELSE 0
      back == XPosition - 1 < 0
      x == IF ~back THEN XPosition - 1 ELSE (Columns - 1) * XCharSize
      y == IF ~back THEN YPosition
           ELSE IF YPosition - 1 < 0 THEN (ScreenRows - 1) * YCharSize ELSE YPosition - 1
  IN
  /\ f.at = "put"
  /\ \/ /\ owed > 0
        /\ frames' = Working(c, [Draw(here, Cell(XPosition, YPosition, " ")) EXCEPT !.tabSpace = owed - 1])
        /\ XPosition' = XPosition + 1
        /\ UNCHANGED YPosition
     \/ /\ owed = 0 /\ glyph = "\n"
        /\ frames' = Working(c, here)
        /\ XPosition' = 0
        /\ YPosition' = YPosition + 1
     \/ /\ owed = 0 /\ glyph = "BS"
        /\ frames' = Working(c, Draw(here, Cell(x, y, " ")))
        /\ XPosition' = x
        /\ YPosition' = y
     \/ /\ owed = 0 /\ glyph \notin {"\n", "BS"}
        /\ frames' = Working(c, Draw(here, Cell(XPosition, YPosition, glyph)))
        /\ XPosition' = XPosition + 1
        /\ UNCHANGED YPosition
  /\ UNCHANGED <<printk_lock, buf, calls, events>>

\* Mutated: the row is not tested when the column has not reached the end.
Wrap_column(c) ==
  LET f     == Top(c)
      count == IF f.tabSpace > 0 THEN f.count ELSE f.count + 1
      wide  == XPosition >= Columns
      y     == IF wide THEN YPosition + 1 ELSE YPosition
  IN
  /\ f.at = "wrap"
  /\ XPosition' = IF wide THEN 0 ELSE XPosition
  /\ YPosition' = IF wide /\ y >= PageRows THEN 0 ELSE y
  /\ frames' = Working(c, [f EXCEPT !.count = count,
       !.at = IF count < f.i \/ f.tabSpace > 0 THEN "put" ELSE "end"])
  /\ UNCHANGED <<printk_lock, buf, calls, events>>

\* The tests of the cursor at the end of a round, and count++.
Wrap(c) ==
  LET f     == Top(c)
      count == IF f.tabSpace > 0 THEN f.count ELSE f.count + 1
      wide  == XPosition >= Columns
      y     == IF wide THEN YPosition + 1 ELSE YPosition
  IN
  /\ f.at = "wrap"
  /\ XPosition' = IF wide THEN 0 ELSE XPosition
  /\ YPosition' = IF y >= PageRows THEN 0 ELSE y
  /\ frames' = Working(c, [f EXCEPT !.count = count,
       !.at = IF count < f.i \/ f.tabSpace > 0 THEN "put" ELSE "end"])
  /\ UNCHANGED <<printk_lock, buf, calls, events>>

\* Mutated: the lock is kept.
Finish_locked(c) ==
  LET f == Top(c) IN
  /\ f.at = "end"
  /\ frames' = WithTop(c, Frame(f.kind, f.if, f.todo, f.fault))
  /\ UNCHANGED <<printk_lock, buf, XPosition, YPosition, calls, events>>

\* IF is tested again.  What is left in the buffer is never read: it is
\* blanked when nobody prints.
Finish(c) ==
  LET f == Top(c)
      after == WithTop(c, Frame(f.kind, f.if, f.todo, f.fault))
  IN
  /\ f.at = "end"
  /\ printk_lock' = IF f.if THEN Free ELSE printk_lock
  /\ frames' = after
  /\ buf' = IF \E d \in CPUs : \E k \in DOMAIN after[d] : Printing(after[d][k])
            THEN buf ELSE Blank
  /\ UNCHANGED <<XPosition, YPosition, calls, events>>

-----------------------------------------------------------------------------
\* An interrupt whose handler prints, between any two steps of a frame that
\* has interrupts on.
Interrupt(c) ==
  /\ Top(c).if
  /\ events < MaxEvents
  /\ \E flag \in HandlerFlags, m \in Messages :
       frames' = [frames EXCEPT ![c] = Append(@, Frame("irq", flag, <<m>>, NoFault))]
  /\ events' = events + 1
  /\ UNCHANGED <<printk_lock, buf, XPosition, YPosition, calls>>

\* Its handler has printed and returns.
Return(c) ==
  /\ Top(c).kind = "irq"
  /\ Top(c).at = "code" /\ Top(c).todo = <<>>
  /\ frames' = [frames EXCEPT ![c] = Front(@)]
  /\ UNCHANGED <<printk_lock, buf, XPosition, YPosition, calls, events>>

\* An exception: the handler of its vector has the messages of its report
\* to print, and then loops for ever.
Fault(c) ==
  \E e \in IF Booted THEN Faults ELSE BootFaults :
    /\ Booted \/ c = BSP
    /\ events < MaxEvents
    /\ Top(c).kind # "trap"
    /\ FaultInPrint \/ Top(c).at = "code"
    /\ frames' = [frames EXCEPT ![c] = Append(@,
         Frame("trap", Gate[e.vector] = "trap" /\ Top(c).if, ReportOf(e), e))]
    /\ events' = events + 1
    /\ UNCHANGED <<printk_lock, buf, XPosition, YPosition, calls>>

Printer(c) == Call(c) \/ Lock(c) \/ Format(c) \/ Put(c) \/ Wrap(c) \/ Finish(c)

Next == \E c \in CPUs : Printer(c) \/ EnableInterrupts(c) \/ Interrupt(c) \/ Return(c) \/ Fault(c)

Spec == Init /\ [][Next]_vars

\* A processor goes on with what it is doing.
FairSpec == Spec /\ \A c \in CPUs : WF_vars(Printer(c)) /\ WF_vars(Return(c))
-----------------------------------------------------------------------------
TypeOK ==
  /\ XPosition \in Nat /\ YPosition \in Nat
  /\ \A c \in CPUs : \A k \in DOMAIN frames[c] :
       LET f == frames[c][k] IN
       /\ f.kind = (IF k = 1 THEN "task" ELSE f.kind)
       /\ f.at \in {"code", "lock", "format", "put", "wrap", "end"}
       /\ f.i \in 0 .. BufLen /\ f.count \in 0 .. f.i /\ f.tabSpace \in 0 .. TAB - 1

(* The lock is held by the one frame that prints with interrupts on: the   *)
(* two tests of IF in color_printk agree.                                  *)
LockMatches ==
  \A c \in CPUs : \A k \in DOMAIN frames[c] :
    (frames[c][k].if /\ Printing(frames[c][k])) <=> printk_lock = <<c, k>>

ConsoleInv == TypeOK /\ LockMatches

\* A text laid out from cell number p: cells are numbered along the rows,
\* and the page goes round.  Layout has the cursor and the cells drawn after
\* each glyph.
Page == Columns * PageRows
Blanks(p) == TAB - ((p % Columns) % TAB)
CellOf(p, g) == Cell(p % Columns, p \div Columns, g)
Lay(acc, g) ==
  CASE g = "\n" -> [acc EXCEPT !.p = ((acc.p \div Columns + 1) * Columns) % Page]
    [] g = "\t" -> [p |-> (acc.p + Blanks(acc.p)) % Page,
                    cells |-> acc.cells \o [k \in 1 .. Blanks(acc.p) |->
                                CellOf((acc.p + k - 1) % Page, " ")]]
    [] g = "BS" -> [p |-> (acc.p + Page - 1) % Page,
                    cells |-> Append(acc.cells, CellOf((acc.p + Page - 1) % Page, " "))]
    [] OTHER    -> [p |-> (acc.p + 1) % Page, cells |-> Append(acc.cells, CellOf(acc.p, g))]
Layout(glyphs, from) ==
  LET acc[k \in 0 .. Len(glyphs)] ==
        IF k = 0 THEN [p |-> from, cells |-> <<>>] ELSE Lay(acc[k - 1], glyphs[k])
  IN  acc
Drawn(glyphs, from) == Layout(glyphs, from)[Len(glyphs)]

(* A message is shown whole: the cells drawn for it are its text, laid out *)
(* one after the other from where the cursor was, and the cursor is left   *)
(* behind it.  The lock promises this to the callers that take it, and an  *)
(* interrupt handler has it on its own processor; a printer is disturbed   *)
(* only where another prints at the same time and one of them has          *)
(* interrupts off (printk.c:426).                                          *)
PrintedWhole ==
  \A c \in CPUs : \A k \in DOMAIN frames[c] :
    LET f == frames[c][k]
        page == Drawn(Text(f.msg), f.start[1] + Columns * f.start[2])
    IN f.at = "end" /\ ~f.disturbed =>
         /\ f.drawn = page.cells
         /\ k = Depth(c) /\ f.i > 0 =>
              <<XPosition, YPosition>> = <<page.p % Columns, page.p \div Columns>>

(* What is shown for an integer reads back as the number, in the field it  *)
(* was given (number, vsprintf).                                           *)
ConversionsRead ==
  \A c \in CPUs : \A k \in DOMAIN frames[c] :
    LET f == frames[c][k] IN
    f.at = "end" /\ ~f.disturbed /\ Len(f.msg) = 1 =>
      ReadsAs([j \in DOMAIN f.drawn |-> f.drawn[j][3]], f.msg[1])

(* d and i print signed decimal numbers (printk.c:375).  The code does not *)
(* keep this for an int: it is read as unsigned and extended with zeros.   *)
SignedDecimal ==
  \A c \in CPUs : \A k \in DOMAIN frames[c] :
    LET f == frames[c][k] IN
    f.at = "end" /\ Len(f.msg) = 1 /\ f.msg[1].conv \in {"d", "i"} =>
      LET d == f.msg[1]
          bits == IF d.long THEN LongBits ELSE IntBits
      IN  ((d.arg \div 2 ^ (bits - 1)) % 2 = 1) => \E j \in DOMAIN f.drawn : f.drawn[j][3] = "-"

(* The report of an exception begins with the handler of its vector, the   *)
(* error code the processor gave, zero when it gives none, and where it    *)
(* happened: all entries leave the same frame (entry.S:163-361), in which  *)
(* error_code finds what it calls and what it passes on.  The first        *)
(* message is the only one of four parts.                                  *)
FaultNamed ==
  \A c \in CPUs : \A k \in DOMAIN frames[c] :
    LET f == frames[c][k]
        code == IF f.fault.vector \in WithErrorCode THEN f.fault.code ELSE 0
    IN f.kind = "trap" /\ f.at = "end" /\ Len(f.msg) = 4 =>
         f.msg = <<Plain(Handler[f.fault.vector]), Hex(ReportWidth, code),
                   Hex(ReportWidth, Rip), Plain("\n")>>

\* A processor that an exception has stopped inside color_printk.
Stopped(c) ==
  /\ Top(c).kind = "trap"
  /\ \E k \in 1 .. Depth(c) - 1 : Printing(frames[c][k])

(* Everything gets printed: nobody waits for ever for printk_lock, and an  *)
(* exception reports all it has to say.  An exception that stops a         *)
(* processor in the middle of a message is excepted.                       *)
AllQuiet == \A c \in CPUs : \A k \in DOMAIN frames[c] : frames[c][k].at = "code"
EveryPrintEnds == ~AllQuiet ~> (AllQuiet \/ \E d \in CPUs : Stopped(d))
=============================================================================
