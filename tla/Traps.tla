-------------------------------- MODULE Traps --------------------------------
(***************************************************************************)
(* Exceptions: the gates of sys_vector_init (idt/trap.c), the frame an     *)
(* entry of idt/entry.S builds on the interrupt stack, and the messages    *)
(* the handlers print before they loop for ever.                           *)
(***************************************************************************)
EXTENDS Printk

CONSTANTS ReportWidth \* digits of %#018lx with its prefix

\* 15 is reserved.
Vectors == 0 .. 20 \ {15}

Handler == [v \in Vectors |->
  CASE v = 0  -> "do_divide_error"     [] v = 1  -> "do_debug"
    [] v = 2  -> "do_nmi"              [] v = 3  -> "do_int3"
    [] v = 4  -> "do_overflow"         [] v = 5  -> "do_bounds"
    [] v = 6  -> "do_undefined_opcode" [] v = 7  -> "do_dev_not_available"
    [] v = 8  -> "do_double_fault"     [] v = 9  -> "do_coprocessor_segment_overrun"
    [] v = 10 -> "do_invalid_TSS"      [] v = 11 -> "do_segment_not_present"
    [] v = 12 -> "do_stack_segment_fault" [] v = 13 -> "do_general_protection"
    [] v = 14 -> "do_page_fault"       [] v = 16 -> "do_x87_FPU_error"
    [] v = 17 -> "do_alignment_check"  [] v = 18 -> "do_machine_check"
    [] v = 19 -> "do_SIMD_exception"   [] v = 20 -> "do_virtualization_exception"]

\* An interrupt gate clears IF, a trap gate leaves it as it was.
Gate == [v \in Vectors |-> IF v = 2 THEN "intr" ELSE "trap"]

-----------------------------------------------------------------------------
\* What the processor pushes; some exceptions have an error code.
WithErrorCode == {8, 10, 11, 12, 13, 14, 17}
Hardware(v, code, rip) ==
  <<"SS", "RSP", "RFLAGS", "CS", rip>> \o IF v \in WithErrorCode THEN <<code>> ELSE <<>>

Saved == <<"RAX", "ES", "DS", "RBP", "RDI", "RSI", "RDX", "RCX", "RBX",
           "R8", "R9", "R10", "R11", "R12", "R13", "R14", "R15">>

\* Mutated: alignment_check pushes a zero too.
Entry_zero(v) ==
  LET placeholder == IF v \in WithErrorCode \ {17} THEN <<>> ELSE <<0>>
  IN  placeholder \o <<Handler[v]>> \o Saved

\* The entry of vector v: a zero in the place of a missing error code, the
\* handler, the registers.  nmi pushes rax in both places.
Entry(v) ==
  LET placeholder == IF v \in WithErrorCode THEN <<>>
                     ELSE IF v = 2 THEN <<"RAX">> ELSE <<0>>
      func == IF v = 2 THEN <<"RAX">> ELSE <<Handler[v]>>
  IN  placeholder \o func \o Saved

\* Offsets from the top of the stack, in words.
FUNC    == 17
ERRCODE == 18
RIP     == 19
Word(stack, offset) == stack[Len(stack) - offset]

-----------------------------------------------------------------------------
Hex(width, n) == Directive({"SPECIAL", "ZEROPAD"}, width, FALSE, FALSE, 0, TRUE, "x", n)
Bit(code, k)  == (code \div 2 ^ k) % 2 = 1
Say(glyph, when) == IF when THEN <<<<Plain(glyph), Plain("\n")>>>> ELSE <<>>
Tell(glyph, when) == IF when THEN <<<<Plain(glyph), Plain("\t")>>>> ELSE <<>>

\* The handler an entry calls: nmi names its own, all others go through
\* error_code, which calls what lies in the frame.
Callee(v, stack) == IF v = 2 THEN Handler[2] ELSE Word(stack, FUNC)

\* The first message of every handler, its name and what it finds in the
\* frame.
FirstMessage(v, stack) ==
  LET code == IF v = 2 THEN 0 ELSE Word(stack, ERRCODE)
  IN  <<Plain(Callee(v, stack)), Hex(ReportWidth, code), Hex(ReportWidth, Word(stack, RIP)), Plain("\n")>>

\* What the handlers of the selector faults make of the error code.
SelectorMessages(code) ==
  Say("external event", Bit(code, 0))
    \o Say("gate in the IDT", Bit(code, 1))
    \o Say("descriptor in the GDT or LDT", ~Bit(code, 1))
    \o Say("in the LDT", ~Bit(code, 1) /\ Bit(code, 2))
    \o Say("in the GDT", ~Bit(code, 1) /\ ~Bit(code, 2))
    \o <<<<Plain("index"), Hex(ReportWidth, (code \div 8) * 8), Plain("\n")>>>>

PageFaultMessages(code, cr2) ==
  Tell("Not-Present", ~Bit(code, 0))
    \o Tell("Write", Bit(code, 1)) \o Tell("Read", ~Bit(code, 1))
    \o Tell("user", Bit(code, 2)) \o Tell("supervisor", ~Bit(code, 2))
    \o Tell("Reserved Bit", Bit(code, 3))
    \o (IF Bit(code, 4) THEN <<<<Plain("Instruction fetch")>>>> ELSE <<>>)
    \o <<<<Plain("\n")>>, <<Plain("CR2"), Hex(ReportWidth, cr2), Plain("\n")>>>>

\* The messages after an exception of vector v, in their order.
Report(v, stack, cr2) ==
  LET code == Word(stack, ERRCODE)
      func == Callee(v, stack)
  IN
  <<FirstMessage(v, stack)>>
    \o CASE func \in {Handler[w] : w \in 10 .. 13} -> SelectorMessages(code)
         [] func = Handler[14]                     -> PageFaultMessages(code, cr2)
         [] OTHER                                  -> <<>>
=============================================================================
