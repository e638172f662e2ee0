------------------------------ MODULE IrqTable ------------------------------
(***************************************************************************)
(* The way of an interrupt: the I/O APIC's redirection entries, the local  *)
(* APICs, the tables of handlers, and do_IRQ (idt/interrupt.c,             *)
(* device/pic/APIC.c).  A driver registers its line by filling a           *)
(* descriptor and then writing the entry, 32 bits at a time and through a  *)
(* register that selects what is written; an interrupt may come between    *)
(* any two of these stores, and reads the same descriptor.                 *)
(*                                                                         *)
(* A processor runs task code, on top of which lie the interrupts it has   *)
(* taken: gates clear IF, so only the soft interrupts do_softirq runs on   *)
(* the way back can be interrupted in turn.                                *)
(***************************************************************************)
EXTENDS Integers, Sequences, FiniteSets

CONSTANTS CPU,       \* processors; 0 is the boot processor
          Keyboard,  \* vectors of the lines that have drivers
          HPET,
          IPIs,      \* vectors used between processors
          TickIPI,   \* the one the HPET interrupt is passed on with
          Drivers,   \* processors that register and unregister drivers later
          Leaving,   \* lines whose driver may unregister
          MaxEdges,  \* bound: interrupts of a device
          MaxDepth,  \* bound: interrupts on top of one another
          NULL

Lines   == {Keyboard, HPET}
Vectors == Lines \cup IPIs

\* Vectors below 0x80 come from the I/O APIC; 16 of them make a class.
External(nr) == (nr \div 128) % 2 = 0
Class(nr)    == nr \div 16

ASSUME IrqTableAssumption ==
  /\ IsFiniteSet(CPU) /\ {0, 1} \subseteq CPU
  /\ Keyboard # HPET
  /\ \A nr \in Lines : nr \in 32 .. 55 /\ External(nr)
  /\ IsFiniteSet(IPIs) /\ {TickIPI, TickIPI + 1} \subseteq IPIs
  /\ \A nr \in IPIs : nr \in 200 .. 209 /\ ~External(nr)
  /\ Drivers \subseteq CPU /\ Leaving \subseteq Lines
  /\ MaxEdges \in Nat /\ MaxDepth \in Nat \ {0}
  /\ NULL \notin Int

VARIABLES gates,   \* vectors with a gate in the IDT
          desc,    \* interrupt_desc and SMP_IPI_desc
          rte,     \* the redirection entries, each in two halves
          index,   \* the register that selects a half of an entry
          value,   \* of each processor: `value` of the ioapic_ functions
          script,  \* what is left of the call its task code is in
          apic,    \* processors with the local APIC switched on
          if,      \* processors whose task code runs with interrupts on
          irr, isr,\* vectors requested from and in service at a processor
          frames,  \* the interrupts a processor is in, the last one first
          soft,    \* softirq_status
          edges,   \* interrupts each device has raised
          left     \* history: lines a driver has unregistered

vars == <<gates, desc, rte, index, value, script, apic, if, irr, isr, frames,
          soft, edges, left>>
table    == <<gates, desc, rte, index, value, script, left>>
hardware == <<irr, isr, edges, apic, if>>

-----------------------------------------------------------------------------
\* A call of a driver is a sequence of accesses to memory and devices.
Access(do, irq, arg) == [do |-> do, irq |-> irq, arg |-> arg]

Set(irq, field, v) == Access(field, irq, v)

ioapic_rte_read(irq) ==
  <<Access("select", irq, "high"), Access("load", irq, NULL),
    Access("select", irq, "low"), Access("load", irq, NULL)>>

ioapic_rte_write(irq) ==
  <<Access("select", irq, "low"), Access("store", irq, NULL),
    Access("select", irq, "high"), Access("store", irq, NULL)>>

\* The arguments both drivers give: masked, physical destination 0.
Entry(irq) == [low |-> [vector |-> irq, masked |-> TRUE], high |-> 0]

\* The value IOAPIC_uninstall and IOAPIC_init write.
Masked(vector) == [low |-> [vector |-> vector, masked |-> TRUE], high |-> 0]

IOAPIC_install(irq) ==
  <<Access("value", irq, Entry(irq))>> \o ioapic_rte_write(irq)

IOAPIC_uninstall(irq) ==
  <<Access("value", irq, Masked(0))>> \o ioapic_rte_write(irq)

IOAPIC_enable(irq) ==
  ioapic_rte_read(irq) \o <<Access("mask", irq, FALSE)>> \o ioapic_rte_write(irq)

IOAPIC_disable(irq) ==
  ioapic_rte_read(irq) \o <<Access("mask", irq, TRUE)>> \o ioapic_rte_write(irq)

\* keyboard_init passes the buffer, HPET_init nothing.
Parameter(irq) == IF irq = HPET THEN NULL ELSE irq

\* Mutated: the line is opened before the descriptor is filled.
register_irq_open(irq) ==
  IOAPIC_install(irq) \o IOAPIC_enable(irq) \o
  <<Set(irq, "controller", irq), Set(irq, "handler", irq),
    Set(irq, "parameter", Parameter(irq))>>

\* Mutated: the parameter is stored when the line is open already.
register_irq_late(irq) ==
  <<Set(irq, "controller", irq), Set(irq, "handler", irq)>> \o
  IOAPIC_install(irq) \o IOAPIC_enable(irq) \o
  <<Set(irq, "parameter", Parameter(irq))>>

register_irq(irq) ==
  <<Set(irq, "controller", irq), Set(irq, "handler", irq),
    Set(irq, "parameter", Parameter(irq))>> \o
  IOAPIC_install(irq) \o IOAPIC_enable(irq)

unregister_irq(irq) ==
  IOAPIC_disable(irq) \o IOAPIC_uninstall(irq) \o
  <<Set(irq, "controller", NULL), Set(irq, "handler", NULL),
    Set(irq, "parameter", NULL)>>

register_IPI(nr) ==
  <<Set(nr, "controller", NULL), Set(nr, "parameter", NULL),
    Set(nr, "handler", nr)>>

\* keyboard_init, SMP_init, the loop that starts the APs, two interrupts
\* for processor 1, and HPET_init, in the order of Start_Kernel.
Boot ==
  register_irq(Keyboard) \o
  <<Access("gates", NULL, 200 .. 209)>> \o register_IPI(TickIPI) \o
  <<Access("wait", NULL, 1)>> \o
  [n \in 1 .. 2 |-> Access("send", TickIPI + n - 1, 1)] \o
  register_irq(HPET)

-----------------------------------------------------------------------------
(* The end of APIC_IOAPIC_init, with its sti.                              *)
Init ==
  /\ gates = 32 .. 55
  /\ desc = [nr \in Vectors |->
               [controller |-> NULL, handler |-> NULL, parameter |-> NULL]]
  /\ rte = [irq \in Lines |-> Masked(irq)]
  /\ index = <<HPET, "high">>
  /\ value = [c \in CPU |-> Masked(0)]
  /\ script = [c \in CPU |-> IF c = 0 THEN Boot ELSE <<>>]
  /\ apic = {0}
  /\ if = {0}
  /\ irr = [c \in CPU |-> {}]
  /\ isr = [c \in CPU |-> {}]
  /\ frames = [c \in CPU |-> <<>>]
  /\ soft = FALSE
  /\ edges = [irq \in Lines |-> 0]
  /\ left = {}

InTask(c) == frames[c] = <<>>
Top(c)    == Head(frames[c])

\* A local APIC that is switched off takes no requests.
Request(cpus, nr) ==
  irr' = [c \in CPU |-> IF c \in cpus \cap apic THEN irr[c] \cup {nr} ELSE irr[c]]

Half(c) == IF index[2] = "low" THEN value[c].low ELSE value[c].high

Accessing(c, do) ==
  /\ InTask(c)
  /\ script[c] # <<>>
  /\ Head(script[c]).do \in do
  /\ script' = [script EXCEPT ![c] = Tail(@)]

(* A store into a descriptor.                                              *)
StoreField(c) ==
  LET op == Head(script[c])
  IN /\ Accessing(c, {"controller", "handler", "parameter"})
     /\ desc' = [desc EXCEPT ![op.irq][op.do] = op.arg]
     /\ left' = IF op.do = "controller" /\ op.arg = NULL /\ External(op.irq)
                THEN left \cup {op.irq} ELSE left
     /\ UNCHANGED <<gates, rte, index, value, irr, isr, edges, apic, if,
                    frames, soft>>

(* An access to the index or the data register of the I/O APIC.            *)
Select(c) ==
  LET op == Head(script[c])
  IN /\ Accessing(c, {"select"})
     /\ index' = <<op.irq, op.arg>>
     /\ UNCHANGED <<gates, desc, rte, value, left, hardware, frames, soft>>

Load(c) ==
  /\ Accessing(c, {"load"})
  /\ value' = [value EXCEPT ![c][index[2]] = rte[index[1]][index[2]]]
  /\ UNCHANGED <<gates, desc, rte, index, left, hardware, frames, soft>>

Store(c) ==
  /\ Accessing(c, {"store"})
  /\ rte' = [rte EXCEPT ![index[1]][index[2]] = Half(c)]
  /\ UNCHANGED <<gates, desc, index, value, left, hardware, frames, soft>>

(* What the ioapic_ functions compute in between.                          *)
Compute(c) ==
  LET op == Head(script[c])
  IN /\ Accessing(c, {"value", "mask"})
     /\ value' = IF op.do = "value" THEN [value EXCEPT ![c] = op.arg]
                 ELSE [value EXCEPT ![c].low.masked = op.arg]
     /\ UNCHANGED <<gates, desc, rte, index, left, hardware, frames, soft>>

(* SMP_init sets the gates of the IPIs.                                    *)
SetGates(c) ==
  /\ Accessing(c, {"gates"})
  /\ gates' = gates \cup Head(script[c]).arg
  /\ UNCHANGED <<desc, rte, index, value, left, hardware, frames, soft>>

(* The boot processor takes SMP_lock for the next AP: the one before has   *)
(* given it back, and had switched its local APIC on by then.              *)
AwaitAP(c) ==
  /\ Accessing(c, {"wait"})
  /\ Head(script[c]).arg \in apic
  /\ UNCHANGED <<gates, desc, rte, index, value, left, hardware, frames, soft>>

SendIPI(c) ==
  LET op == Head(script[c])
  IN /\ Accessing(c, {"send"})
     /\ Request({op.arg}, op.irq)
     /\ UNCHANGED <<gates, desc, rte, index, value, left, isr, edges, apic, if,
                    frames, soft>>

(* Task code that calls register_irq or unregister_irq after the boot.     *)
Idle(c) == InTask(c) /\ c \in if \cap Drivers /\ script[c] = <<>>

Leave(c, irq) ==
  /\ Idle(c)
  /\ irq \in Leaving
  /\ desc[irq].controller # NULL
  /\ script' = [script EXCEPT ![c] = unregister_irq(irq)]
  /\ UNCHANGED <<gates, desc, rte, index, value, left, hardware, frames, soft>>

(* A driver comes back when no request from before is on its way.          *)
Enter(c, irq) ==
  /\ Idle(c)
  /\ irq \in left
  /\ desc[irq].controller = NULL
  /\ \A p \in CPU : irq \notin irr[p]
  /\ script' = [script EXCEPT ![c] = register_irq(irq)]
  /\ UNCHANGED <<gates, desc, rte, index, value, left, hardware, frames, soft>>

TaskStep(c) ==
  \/ StoreField(c) \/ Select(c) \/ Load(c) \/ Store(c) \/ Compute(c)
  \/ SetGates(c) \/ AwaitAP(c) \/ SendIPI(c)

-----------------------------------------------------------------------------
(* Start_SMP: an AP switches its local APIC on, and later sets IF.  It is  *)
(* started when the gates it shares with the boot processor are set.       *)
EnableAPIC(c) ==
  /\ c \notin apic
  /\ 200 \in gates
  /\ apic' = apic \cup {c}
  /\ UNCHANGED <<table, irr, isr, edges, if, frames, soft>>

Sti(c) ==
  /\ c \in apic \ if
  /\ if' = if \cup {c}
  /\ UNCHANGED <<table, irr, isr, edges, apic, frames, soft>>

(* A device raises its line: an edge at a masked entry is lost.            *)
Raise(irq) ==
  /\ edges[irq] < MaxEdges
  /\ ~rte[irq].low.masked
  /\ edges' = [edges EXCEPT ![irq] = @ + 1]
  /\ Request({rte[irq].high}, rte[irq].low.vector)
  /\ UNCHANGED <<table, isr, apic, if, frames, soft>>

\* The processor can be interrupted.
Open(c) ==
  IF InTask(c) THEN c \in if ELSE Top(c).at = "soft"

Highest(S) == CHOOSE nr \in S : \A other \in S : nr >= other

(* The local APIC hands over the highest request, if its class is above    *)
(* those in service.                                                       *)
Deliver(c) ==
  LET nr == Highest(irr[c])
  IN /\ Open(c)
     /\ irr[c] # {}
     /\ \A v \in isr[c] : Class(nr) > Class(v)
     /\ Len(frames[c]) < MaxDepth
     /\ irr' = [irr EXCEPT ![c] = @ \ {nr}]
     /\ isr' = [isr EXCEPT ![c] = @ \cup {nr}]
     /\ frames' = [frames EXCEPT ![c] =
                     <<[nr |-> nr, at |-> "entry", called |-> NULL,
                        parameter |-> NULL]>> \o @]
     /\ UNCHANGED <<table, edges, apic, if, soft>>

At(c, place) == ~InTask(c) /\ Top(c).at = place

Goto(c, place) == frames' = [frames EXCEPT ![c][1].at = place]

\* The end of interrupt clears the highest vector in service, whichever.
EOI(c) == isr' = [isr EXCEPT ![c] = @ \ {Highest(@)}]

\* Mutated: an IPI is acknowledged only if it has a handler.
do_IRQ_ipi_handled(c) ==
  /\ At(c, "entry") /\ ~External(Top(c).nr)
  /\ IF desc[Top(c).nr].handler # NULL
     THEN Goto(c, "call") /\ EOI(c)
     ELSE Goto(c, "return") /\ UNCHANGED isr
  /\ UNCHANGED <<table, irr, edges, apic, if, soft>>

(* do_IRQ for a vector from another processor: acknowledged first, then    *)
(* the handler, if there is one.                                           *)
do_IRQ_ipi(c) ==
  /\ At(c, "entry") /\ ~External(Top(c).nr)
  /\ EOI(c)
  /\ Goto(c, IF desc[Top(c).nr].handler # NULL THEN "call" ELSE "return")
  /\ UNCHANGED <<table, irr, edges, apic, if, soft>>

(* do_IRQ for a vector of the I/O APIC, up to the test of the handler.     *)
do_IRQ_external(c) ==
  /\ At(c, "entry") /\ External(Top(c).nr)
  /\ Goto(c, IF desc[Top(c).nr].handler # NULL THEN "call" ELSE "controller")
  /\ UNCHANGED <<table, hardware, soft>>

(* The call loads handler and parameter again.                             *)
CallHandler(c) ==
  /\ At(c, "call")
  /\ frames' = [frames EXCEPT ![c][1] =
                  [@ EXCEPT !.at = "handler",
                            !.called = desc[Top(c).nr].handler,
                            !.parameter = desc[Top(c).nr].parameter]]
  /\ UNCHANGED <<table, hardware, soft>>

(* The handlers: that of the HPET may raise the timers' soft interrupt,    *)
(* and passes the tick on to all other processors.                         *)
Handler(c) ==
  /\ At(c, "handler")
  /\ Goto(c, IF External(Top(c).nr) THEN "controller" ELSE "return")
  /\ IF Top(c).called = HPET
     THEN \E due \in BOOLEAN : soft' = (soft \/ due) /\ Request(CPU \ {c}, TickIPI)
     ELSE UNCHANGED <<soft, irr>>
  /\ UNCHANGED <<table, isr, edges, apic, if>>

(* The test of the controller.  The call of its ack loads it again.        *)
TestController(c) ==
  /\ At(c, "controller")
  /\ Goto(c, IF desc[Top(c).nr].controller # NULL THEN "ack" ELSE "return")
  /\ UNCHANGED <<table, hardware, soft>>

\* Mutated: the store that ends the interrupt is missing.
IOAPIC_edge_ack_none(c) ==
  /\ At(c, "ack")
  /\ Goto(c, "return")
  /\ UNCHANGED <<table, hardware, soft>>

IOAPIC_edge_ack(c) ==
  /\ At(c, "ack")
  /\ desc[Top(c).nr].controller # NULL
  /\ EOI(c)
  /\ Goto(c, "return")
  /\ UNCHANGED <<table, irr, edges, apic, if, soft>>

(* ret_from_intr, and do_softirq, which sets IF while it runs.             *)
ret_from_intr(c) ==
  /\ At(c, "return")
  /\ IF soft THEN Goto(c, "soft")
     ELSE frames' = [frames EXCEPT ![c] = Tail(@)]
  /\ UNCHANGED <<table, hardware, soft>>

do_softirq(c) ==
  /\ At(c, "soft")
  /\ IF soft THEN soft' = FALSE /\ UNCHANGED frames
     ELSE frames' = [frames EXCEPT ![c] = Tail(@)] /\ UNCHANGED soft
  /\ UNCHANGED <<table, hardware>>

InterruptStep(c) ==
  \/ do_IRQ_ipi(c) \/ do_IRQ_external(c) \/ CallHandler(c) \/ Handler(c)
  \/ TestController(c) \/ IOAPIC_edge_ack(c) \/ ret_from_intr(c) \/ do_softirq(c)

Next ==
  \/ \E c \in CPU : \/ TaskStep(c) \/ InterruptStep(c) \/ Deliver(c)
                    \/ EnableAPIC(c) \/ Sti(c)
                    \/ \E irq \in Lines : Leave(c, irq) \/ Enter(c, irq)
  \/ \E irq \in Lines : Raise(irq)

Spec == Init /\ [][Next]_vars

(* Processors run, a local APIC delivers what it may, and the APs are      *)
(* started; nothing obliges a device to interrupt or a driver to leave.    *)
Fairness ==
  \A c \in CPU : /\ WF_vars(TaskStep(c))
                 /\ WF_vars(InterruptStep(c))
                 /\ WF_vars(Deliver(c))
                 /\ WF_vars(EnableAPIC(c))
                 /\ WF_vars(Sti(c))

FairSpec == Spec /\ Fairness

-----------------------------------------------------------------------------
TypeOK ==
  LET Pointer == Vectors \cup {NULL}
      RTE     == [low : [vector : {0} \cup Lines, masked : BOOLEAN], high : {0}]
  IN /\ gates \subseteq 0 .. 255
     /\ desc \in [Vectors -> [controller : Pointer, handler : Pointer,
                              parameter : Pointer]]
     /\ rte \in [Lines -> RTE] /\ value \in [CPU -> RTE]
     /\ index \in Lines \X {"low", "high"}
     /\ irr \in [CPU -> SUBSET Vectors] /\ isr \in [CPU -> SUBSET Vectors]
     /\ apic \subseteq CPU /\ if \subseteq apic
     /\ left \subseteq Lines /\ soft \in BOOLEAN
     /\ \A c \in CPU : \A i \in DOMAIN frames[c] :
          /\ frames[c][i].nr \in Vectors
          /\ i > 1 => frames[c][i].at = "soft"

(* A line can interrupt only when everything it needs is there: its own    *)
(* vector in the entry, sent to a processor that is on, a descriptor with  *)
(* all its fields.  register_irq and unregister_irq take many stores, and  *)
(* an interrupt may come between any two of them.                          *)
OpenLineIsReady ==
  \A irq \in Lines : ~rte[irq].low.masked =>
    /\ rte[irq].low.vector = irq
    /\ rte[irq].high \in apic
    /\ desc[irq] = [controller |-> irq, handler |-> irq,
                    parameter |-> Parameter(irq)]

(* What is requested of a processor has a gate in the IDT.                 *)
HasGate == \A c \in CPU : irr[c] \cup isr[c] \subseteq gates

IrqInv == TypeOK /\ OpenLineIsReady /\ HasGate

(* The pointers do_IRQ has found set are still set when it follows them,   *)
(* and a handler is called for its own vector and with the parameter it    *)
(* was registered with, although its driver may be on its way out.         *)
FollowsNoNull ==
  \A c \in CPU : ~InTask(c) =>
    LET frame == Top(c)
    IN /\ frame.at = "call" => desc[frame.nr].handler # NULL
       /\ frame.at = "ack" => desc[frame.nr].controller # NULL
       /\ frame.at = "handler" =>
            /\ frame.called = frame.nr
            /\ External(frame.nr) => frame.parameter = Parameter(frame.nr)

\* In service, but do_IRQ is done with it.
Forgotten(c) ==
  {nr \in isr[c] : \A i \in DOMAIN frames[c] :
     frames[c][i].nr = nr => frames[c][i].at \in {"return", "soft"}}

(* No interrupt is left in service when a processor goes on with task code *)
(* or with soft interrupts: it would lock out its whole class for as long  *)
(* as that runs.  It happens only to a line whose driver unregistered.     *)
AckedBeforeReturn == \A c \in CPU : Forgotten(c) \subseteq left

(* The same without exception, which the code does not keep: an interrupt  *)
(* that arrives when its driver has unregistered is never acknowledged.    *)
AlwaysAcked == \A c \in CPU : Forgotten(c) = {}

(* Every interrupt that reaches a processor is served, unless one that was *)
(* not acknowledged stands in its way.                                     *)
EveryInterruptServed ==
  <>[](\A c \in CPU : irr[c] \cup isr[c] # {} => Forgotten(c) \cap left # {})
=============================================================================
