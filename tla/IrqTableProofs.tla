--------------------------- MODULE IrqTableProofs ----------------------------
(***************************************************************************)
(* Proofs about IrqTable for any number of processors, depth of nesting    *)
(* and interrupts of the devices, when drivers come and go on the boot     *)
(* processor only.                                                         *)
(***************************************************************************)
EXTENDS IrqTable, FiniteSetTheorems, SequenceTheorems, WellFoundedInduction, TLAPS

\* The condition: a second processor in register_irq or unregister_irq
\* would select under the stores of the first.
OneDriver == Drivers \subseteq {0}

Pointer == Vectors \cup {NULL}
Half0   == [vector : {0} \cup Lines, masked : BOOLEAN]
RTE     == [low : Half0, high : {0}]
Places  == {"entry", "call", "handler", "controller", "ack", "return", "soft"}
Frame   == [nr : Vectors, at : Places, called : Pointer, parameter : Pointer]
Ops     == [do : {"select", "load", "store", "value", "mask", "controller",
                  "handler", "parameter", "gates", "wait", "send"},
            irq : Pointer,
            arg : Pointer \cup {"low", "high", 1} \cup BOOLEAN \cup RTE
                  \cup {200 .. 209}]

\* The parts of the boot between the two drivers.
Gates  == <<Access("gates", NULL, 200 .. 209)>>
Await  == <<Access("wait", NULL, 1)>>
Sends  == [n \in 1 .. 2 |-> Access("send", TickIPI + n - 1, 1)]
Middle == Gates \o register_IPI(TickIPI) \o Await \o Sends

\* What is left of the call P when n accesses of it are done.
Rest(P, n) == SubSeq(P, n + 1, Len(P))

GatesSet == 200 .. 209 \subseteq gates

-----------------------------------------------------------------------------
\* do_IRQ has not come to the end of interrupt yet.
Unacked(c) ==
  /\ frames[c] # <<>>
  /\ IF External(Top(c).nr)
     THEN Top(c).at \in {"entry", "call", "handler", "controller", "ack"}
     ELSE Top(c).at = "entry"

\* An interrupt of the line is on its way or being handled.
InHand(irq) == irq \in irr[0] \/ (Unacked(0) /\ Top(0).nr = irq)

Quiet(irq) == rte[irq].low.masked /\ ~InHand(irq)

Typed ==
  /\ TypeOK
  /\ frames \in [CPU -> Seq(Frame)]
  /\ script \in [CPU -> Seq(Ops)]
  /\ edges \in [Lines -> Nat]
  /\ 0 \in apic
  /\ 32 .. 55 \subseteq gates
  /\ \A nr \in Vectors : desc[nr].handler \in {NULL, nr}

\* The HPET's handler uses an IPI: its driver comes after the gates.
GatesFirst ==
  \/ desc[HPET].controller # NULL \/ desc[HPET].handler # NULL \/ HPET \in left
  => GatesSet

\* What do_IRQ finds when it serves a line.
Servable ==
  \A irq \in Lines : InHand(irq) =>
    /\ desc[irq].controller # NULL \/ irq \in left
    /\ desc[irq].handler # NULL => desc[irq].parameter = Parameter(irq)

\* Lines interrupt the boot processor, and only it runs drivers.
BootOnly(c) ==
  c # 0 => /\ script[c] = <<>>
           /\ irr[c] \cap Lines = {}
           /\ \A i \in DOMAIN frames[c] : frames[c][i].nr \notin Lines

\* In service is what do_IRQ has in hand, above what nobody acknowledged.
Served(c) ==
  IF Unacked(c)
  THEN /\ Top(c).nr \in isr[c]
       /\ \A v \in isr[c] \ {Top(c).nr} : v \in left /\ Class(v) < Class(Top(c).nr)
  ELSE isr[c] \subseteq left

\* What do_IRQ has tested is still so.
Following(frame) ==
  /\ frame.at \in {"controller", "ack"} => External(frame.nr)
  /\ frame.at = "call" => desc[frame.nr].handler # NULL
  /\ frame.at = "ack" => desc[frame.nr].controller # NULL
  /\ frame.at = "handler" =>
       /\ frame.called = frame.nr
       /\ External(frame.nr) => frame.parameter = Parameter(frame.nr)
       /\ frame.nr = HPET => GatesSet

Processor(c) ==
  /\ BootOnly(c)
  /\ Served(c)
  /\ irr[c] \cup isr[c] \subseteq gates
  /\ ~InTask(c) => Following(Top(c))

\* register_irq with n accesses done.
Registering(irq, n) ==
  /\ n <= 14 => Quiet(irq)
  /\ n >= 1 => desc[irq].controller = irq
  /\ n >= 2 => desc[irq].handler = irq
  /\ n >= 3 => desc[irq].parameter = Parameter(irq)
  /\ n \in 4 .. 12 => value[0].low = [vector |-> irq, masked |-> TRUE]
  /\ n >= 13 => value[0].low = [vector |-> irq, masked |-> FALSE]
  /\ n \in 6 .. 14 => rte[irq].low = [vector |-> irq, masked |-> TRUE]
  /\ n \in {5, 6} \cup 11 .. 15 => index = <<irq, "low">>
  /\ n \in 7 .. 10 \cup {16} => index = <<irq, "high">>
  /\ irq = HPET => GatesSet

\* unregister_irq with n accesses done.
Unregistering(irq, n) ==
  /\ n >= 5 => value[0].low.masked
  /\ n >= 7 => rte[irq].low.masked
  /\ n \in 3 .. 7 \cup {11, 12} => index = <<irq, "low">>
  /\ n \in {1, 2} \cup 8 .. 10 \cup {13} => index = <<irq, "high">>
  /\ n >= 16 => desc[irq].handler = NULL
  /\ irq = HPET => GatesSet

\* What is left of the call of the boot processor, and how far it has got.
InScript ==
  \/ script[0] = <<>>
  \/ \E n \in 0 .. 16 :
       /\ script[0] = Rest(register_irq(Keyboard), n) \o (Middle \o register_irq(HPET))
       /\ Registering(Keyboard, n) /\ Quiet(HPET)
  \/ \E n \in 0 .. 6 :
       /\ script[0] = Rest(Middle, n) \o register_irq(HPET)
       /\ n >= 1 => GatesSet
       /\ Quiet(HPET)
  \/ \E irq \in Lines, n \in 0 .. 16 :
       script[0] = Rest(register_irq(irq), n) /\ Registering(irq, n)
  \/ \E irq \in Lines, n \in 0 .. 16 :
       script[0] = Rest(unregister_irq(irq), n) /\ Unregistering(irq, n)

Table == GatesFirst /\ Servable /\ OpenLineIsReady

IrqInd == Typed /\ Table /\ InScript /\ \A c \in CPU : Processor(c)

-----------------------------------------------------------------------------
(***************************************************************************)
(* The calls, access by access.                                            *)
(***************************************************************************)
\* The accesses that change the mask of the value.
Unmask(irq) == Access("mask", irq, FALSE)
Mask(irq)   == Access("mask", irq, TRUE)

Null == [vector |-> 0, masked |-> TRUE]
Shut(irq) == [vector |-> irq, masked |-> TRUE]

(* What the vectors are.                                                   *)
LEMMA VectorFacts ==
  /\ Lines \subseteq Nat /\ IPIs \subseteq Nat /\ Vectors \subseteq Int
  /\ NULL \notin Vectors /\ HPET \in Lines /\ Keyboard \in Lines /\ Keyboard # HPET
  /\ TickIPI \in IPIs /\ TickIPI + 1 \in IPIs
  /\ \A irq \in Lines : irq \in 32 .. 55 /\ irq \in Vectors /\ irq \notin IPIs
  /\ \A nr \in IPIs : nr \in 200 .. 209 /\ nr \in Vectors /\ nr \notin Lines
  /\ 0 \in CPU /\ 1 \in CPU
  BY IrqTableAssumption DEF Lines, Vectors

(* Which of them come from the I/O APIC.                                   *)
LEMMA Kinds ==
  /\ \A irq \in Lines : External(irq)
  /\ \A nr \in IPIs : ~External(nr)
  /\ \A nr \in Vectors : External(nr) <=> nr \in Lines
  BY IrqTableAssumption DEF Vectors

LEMMA Joined ==
  ASSUME NEW a \in Seq(Ops), NEW b \in Seq(Ops)
  PROVE  /\ a \o b \in Seq(Ops) /\ Len(a \o b) = Len(a) + Len(b)
         /\ \A i \in 1 .. Len(a) : (a \o b)[i] = a[i]
         /\ \A i \in 1 .. Len(b) : (a \o b)[Len(a) + i] = b[i]
  OBVIOUS

(* The accesses are such.                                                  *)
LEMMA OpFacts ==
  ASSUME NEW irq \in Vectors
  PROVE  /\ \A x \in {"low", "high"} : Access("select", irq, x) \in Ops
         /\ \A do \in {"store", "load"} : Access(do, irq, NULL) \in Ops
         /\ Mask(irq) \in Ops /\ Unmask(irq) \in Ops
         /\ \A x \in Pointer, do \in {"controller", "handler", "parameter"} :
              Access(do, irq, x) \in Ops
         /\ \A x \in RTE : Access("value", irq, x) \in Ops
         /\ irq \in Pointer /\ NULL \in Pointer /\ Parameter(irq) \in Pointer
  BY DEF Access, Ops, Pointer, Parameter, Mask, Unmask

LEMMA WriteOps ==
  ASSUME NEW irq \in Vectors
  PROVE  /\ ioapic_rte_write(irq) \in Seq(Ops) /\ Len(ioapic_rte_write(irq)) = 4
         /\ ioapic_rte_write(irq)[1] = Access("select", irq, "low")
         /\ ioapic_rte_write(irq)[2] = Access("store", irq, NULL)
         /\ ioapic_rte_write(irq)[3] = Access("select", irq, "high")
         /\ ioapic_rte_write(irq)[4] = Access("store", irq, NULL)
  BY OpFacts DEF ioapic_rte_write

LEMMA ReadOps ==
  ASSUME NEW irq \in Vectors
  PROVE  /\ ioapic_rte_read(irq) \in Seq(Ops) /\ Len(ioapic_rte_read(irq)) = 4
         /\ ioapic_rte_read(irq)[1] = Access("select", irq, "high")
         /\ ioapic_rte_read(irq)[2] = Access("load", irq, NULL)
         /\ ioapic_rte_read(irq)[3] = Access("select", irq, "low")
         /\ ioapic_rte_read(irq)[4] = Access("load", irq, NULL)
  BY OpFacts DEF ioapic_rte_read

LEMMA InstallOps ==
  ASSUME NEW irq \in Lines
  PROVE  /\ IOAPIC_install(irq) \in Seq(Ops) /\ Len(IOAPIC_install(irq)) = 5
         /\ IOAPIC_install(irq)[1] = Access("value", irq, Entry(irq))
         /\ IOAPIC_install(irq)[2] = Access("select", irq, "low")
         /\ IOAPIC_install(irq)[3] = Access("store", irq, NULL)
         /\ IOAPIC_install(irq)[4] = Access("select", irq, "high")
         /\ IOAPIC_install(irq)[5] = Access("store", irq, NULL)
<1>0. irq \in Vectors /\ Entry(irq) \in RTE /\ Masked(0) \in RTE
  BY VectorFacts DEF Entry, Masked, RTE, Half0
<1>1. PICK a : a = <<Access("value", irq, Entry(irq))>>
  OBVIOUS
<1>2. a \in Seq(Ops) /\ Len(a) = 1 /\ a[1] = Access("value", irq, Entry(irq))
  BY <1>0, <1>1, OpFacts
<1>3. PICK c : c = a \o ioapic_rte_write(irq)
  OBVIOUS
<1>4. /\ c \in Seq(Ops) /\ Len(c) = 1 + 4
      /\ \A i \in 1 .. 1 : c[i] = a[i]
      /\ \A i \in 1 .. 4 : c[1 + i] = ioapic_rte_write(irq)[i]
  <2>1. a \in Seq(Ops) /\ ioapic_rte_write(irq) \in Seq(Ops) /\ Len(a) = 1 /\ Len(ioapic_rte_write(irq)) = 4
    BY <1>0, <1>2, WriteOps
  <2>2. /\ c \in Seq(Ops) /\ Len(c) = Len(a) + Len(ioapic_rte_write(irq))
        /\ \A i \in 1 .. Len(a) : c[i] = a[i]
        /\ \A i \in 1 .. Len(ioapic_rte_write(irq)) : c[Len(a) + i] = ioapic_rte_write(irq)[i]
    BY <1>3, <2>1, Joined, Zenon
  <2>3. QED
    BY <2>1, <2>2
<1>5. IOAPIC_install(irq) = c
  BY <1>3, <1>1 DEF IOAPIC_install
<1>6. QED
  BY <1>0, <1>2, <1>4, WriteOps, <1>5

LEMMA UninstallOps ==
  ASSUME NEW irq \in Lines
  PROVE  /\ IOAPIC_uninstall(irq) \in Seq(Ops) /\ Len(IOAPIC_uninstall(irq)) = 5
         /\ IOAPIC_uninstall(irq)[1] = Access("value", irq, Masked(0))
         /\ IOAPIC_uninstall(irq)[2] = Access("select", irq, "low")
         /\ IOAPIC_uninstall(irq)[3] = Access("store", irq, NULL)
         /\ IOAPIC_uninstall(irq)[4] = Access("select", irq, "high")
         /\ IOAPIC_uninstall(irq)[5] = Access("store", irq, NULL)
<1>0. irq \in Vectors /\ Entry(irq) \in RTE /\ Masked(0) \in RTE
  BY VectorFacts DEF Entry, Masked, RTE, Half0
<1>1. PICK a : a = <<Access("value", irq, Masked(0))>>
  OBVIOUS
<1>2. a \in Seq(Ops) /\ Len(a) = 1 /\ a[1] = Access("value", irq, Masked(0))
  BY <1>0, <1>1, OpFacts
<1>3. PICK c : c = a \o ioapic_rte_write(irq)
  OBVIOUS
<1>4. /\ c \in Seq(Ops) /\ Len(c) = 1 + 4
      /\ \A i \in 1 .. 1 : c[i] = a[i]
      /\ \A i \in 1 .. 4 : c[1 + i] = ioapic_rte_write(irq)[i]
  <2>1. a \in Seq(Ops) /\ ioapic_rte_write(irq) \in Seq(Ops) /\ Len(a) = 1 /\ Len(ioapic_rte_write(irq)) = 4
    BY <1>0, <1>2, WriteOps
  <2>2. /\ c \in Seq(Ops) /\ Len(c) = Len(a) + Len(ioapic_rte_write(irq))
        /\ \A i \in 1 .. Len(a) : c[i] = a[i]
        /\ \A i \in 1 .. Len(ioapic_rte_write(irq)) : c[Len(a) + i] = ioapic_rte_write(irq)[i]
    BY <1>3, <2>1, Joined, Zenon
  <2>3. QED
    BY <2>1, <2>2
<1>5. IOAPIC_uninstall(irq) = c
  BY <1>3, <1>1 DEF IOAPIC_uninstall
<1>6. QED
  BY <1>0, <1>2, <1>4, WriteOps, <1>5

LEMMA EnableOps ==
  ASSUME NEW irq \in Lines
  PROVE  /\ IOAPIC_enable(irq) \in Seq(Ops) /\ Len(IOAPIC_enable(irq)) = 9
         /\ IOAPIC_enable(irq)[1] = Access("select", irq, "high")
         /\ IOAPIC_enable(irq)[2] = Access("load", irq, NULL)
         /\ IOAPIC_enable(irq)[3] = Access("select", irq, "low")
         /\ IOAPIC_enable(irq)[4] = Access("load", irq, NULL)
         /\ IOAPIC_enable(irq)[5] = Unmask(irq)
         /\ IOAPIC_enable(irq)[6] = Access("select", irq, "low")
         /\ IOAPIC_enable(irq)[7] = Access("store", irq, NULL)
         /\ IOAPIC_enable(irq)[8] = Access("select", irq, "high")
         /\ IOAPIC_enable(irq)[9] = Access("store", irq, NULL)
<1>0. irq \in Vectors
  BY VectorFacts
<1>1. PICK m : m = <<Unmask(irq)>>
  OBVIOUS
<1>2. m \in Seq(Ops) /\ Len(m) = 1 /\ m[1] = Unmask(irq)
  <2>1. Unmask(irq) \in Ops
    BY <1>0, OpFacts
  <2>2. QED
    BY <1>1, <2>1
<1>3. PICK a : a = ioapic_rte_read(irq) \o m
  OBVIOUS
<1>4. /\ a \in Seq(Ops) /\ Len(a) = 4 + 1
      /\ \A i \in 1 .. 4 : a[i] = ioapic_rte_read(irq)[i]
      /\ \A i \in 1 .. 1 : a[4 + i] = m[i]
  <2>1. ioapic_rte_read(irq) \in Seq(Ops) /\ m \in Seq(Ops) /\ Len(ioapic_rte_read(irq)) = 4 /\ Len(m) = 1
    BY <1>0, <1>2, ReadOps
  <2>2. /\ a \in Seq(Ops) /\ Len(a) = Len(ioapic_rte_read(irq)) + Len(m)
        /\ \A i \in 1 .. Len(ioapic_rte_read(irq)) : a[i] = ioapic_rte_read(irq)[i]
        /\ \A i \in 1 .. Len(m) : a[Len(ioapic_rte_read(irq)) + i] = m[i]
    BY <1>3, <2>1, Joined, Zenon
  <2>3. QED
    BY <2>1, <2>2
<1>5. PICK c : c = a \o ioapic_rte_write(irq)
  OBVIOUS
<1>6. /\ c \in Seq(Ops) /\ Len(c) = 5 + 4
      /\ \A i \in 1 .. 5 : c[i] = a[i]
      /\ \A i \in 1 .. 4 : c[5 + i] = ioapic_rte_write(irq)[i]
  <2>1. a \in Seq(Ops) /\ ioapic_rte_write(irq) \in Seq(Ops) /\ Len(a) = 5 /\ Len(ioapic_rte_write(irq)) = 4
    BY <1>0, <1>4, WriteOps
  <2>2. /\ c \in Seq(Ops) /\ Len(c) = Len(a) + Len(ioapic_rte_write(irq))
        /\ \A i \in 1 .. Len(a) : c[i] = a[i]
        /\ \A i \in 1 .. Len(ioapic_rte_write(irq)) : c[Len(a) + i] = ioapic_rte_write(irq)[i]
    BY <1>5, <2>1, Joined, Zenon
  <2>3. QED
    BY <2>1, <2>2
<1>7. IOAPIC_enable(irq) = c
  BY <1>5, <1>1, <1>3 DEF IOAPIC_enable, Unmask
<1>8. QED
  BY <1>0, <1>2, <1>4, <1>6, ReadOps, WriteOps, <1>7

LEMMA DisableOps ==
  ASSUME NEW irq \in Lines
  PROVE  /\ IOAPIC_disable(irq) \in Seq(Ops) /\ Len(IOAPIC_disable(irq)) = 9
         /\ IOAPIC_disable(irq)[1] = Access("select", irq, "high")
         /\ IOAPIC_disable(irq)[2] = Access("load", irq, NULL)
         /\ IOAPIC_disable(irq)[3] = Access("select", irq, "low")
         /\ IOAPIC_disable(irq)[4] = Access("load", irq, NULL)
         /\ IOAPIC_disable(irq)[5] = Mask(irq)
         /\ IOAPIC_disable(irq)[6] = Access("select", irq, "low")
         /\ IOAPIC_disable(irq)[7] = Access("store", irq, NULL)
         /\ IOAPIC_disable(irq)[8] = Access("select", irq, "high")
         /\ IOAPIC_disable(irq)[9] = Access("store", irq, NULL)
<1>0. irq \in Vectors
  BY VectorFacts
<1>1. PICK m : m = <<Mask(irq)>>
  OBVIOUS
<1>2. m \in Seq(Ops) /\ Len(m) = 1 /\ m[1] = Mask(irq)
  <2>1. Mask(irq) \in Ops
    BY <1>0, OpFacts
  <2>2. QED
    BY <1>1, <2>1
<1>3. PICK a : a = ioapic_rte_read(irq) \o m
  OBVIOUS
<1>4. /\ a \in Seq(Ops) /\ Len(a) = 4 + 1
      /\ \A i \in 1 .. 4 : a[i] = ioapic_rte_read(irq)[i]
      /\ \A i \in 1 .. 1 : a[4 + i] = m[i]
  <2>1. ioapic_rte_read(irq) \in Seq(Ops) /\ m \in Seq(Ops) /\ Len(ioapic_rte_read(irq)) = 4 /\ Len(m) = 1
    BY <1>0, <1>2, ReadOps
  <2>2. /\ a \in Seq(Ops) /\ Len(a) = Len(ioapic_rte_read(irq)) + Len(m)
        /\ \A i \in 1 .. Len(ioapic_rte_read(irq)) : a[i] = ioapic_rte_read(irq)[i]
        /\ \A i \in 1 .. Len(m) : a[Len(ioapic_rte_read(irq)) + i] = m[i]
    BY <1>3, <2>1, Joined, Zenon
  <2>3. QED
    BY <2>1, <2>2
<1>5. PICK c : c = a \o ioapic_rte_write(irq)
  OBVIOUS
<1>6. /\ c \in Seq(Ops) /\ Len(c) = 5 + 4
      /\ \A i \in 1 .. 5 : c[i] = a[i]
      /\ \A i \in 1 .. 4 : c[5 + i] = ioapic_rte_write(irq)[i]
  <2>1. a \in Seq(Ops) /\ ioapic_rte_write(irq) \in Seq(Ops) /\ Len(a) = 5 /\ Len(ioapic_rte_write(irq)) = 4
    BY <1>0, <1>4, WriteOps
  <2>2. /\ c \in Seq(Ops) /\ Len(c) = Len(a) + Len(ioapic_rte_write(irq))
        /\ \A i \in 1 .. Len(a) : c[i] = a[i]
        /\ \A i \in 1 .. Len(ioapic_rte_write(irq)) : c[Len(a) + i] = ioapic_rte_write(irq)[i]
    BY <1>5, <2>1, Joined, Zenon
  <2>3. QED
    BY <2>1, <2>2
<1>7. IOAPIC_disable(irq) = c
  BY <1>5, <1>1, <1>3 DEF IOAPIC_disable, Mask
<1>8. QED
  BY <1>0, <1>2, <1>4, <1>6, ReadOps, WriteOps, <1>7

LEMMA RegisterOps ==
  ASSUME NEW irq \in Lines
  PROVE  /\ register_irq(irq) \in Seq(Ops) /\ Len(register_irq(irq)) = 17
         /\ register_irq(irq)[1] = Access("controller", irq, irq)
         /\ register_irq(irq)[2] = Access("handler", irq, irq)
         /\ register_irq(irq)[3] = Access("parameter", irq, Parameter(irq))
         /\ register_irq(irq)[4] = Access("value", irq, Entry(irq))
         /\ register_irq(irq)[5] = Access("select", irq, "low")
         /\ register_irq(irq)[6] = Access("store", irq, NULL)
         /\ register_irq(irq)[7] = Access("select", irq, "high")
         /\ register_irq(irq)[8] = Access("store", irq, NULL)
         /\ register_irq(irq)[9] = Access("select", irq, "high")
         /\ register_irq(irq)[10] = Access("load", irq, NULL)
         /\ register_irq(irq)[11] = Access("select", irq, "low")
         /\ register_irq(irq)[12] = Access("load", irq, NULL)
         /\ register_irq(irq)[13] = Unmask(irq)
         /\ register_irq(irq)[14] = Access("select", irq, "low")
         /\ register_irq(irq)[15] = Access("store", irq, NULL)
         /\ register_irq(irq)[16] = Access("select", irq, "high")
         /\ register_irq(irq)[17] = Access("store", irq, NULL)
<1>0. irq \in Vectors
  BY VectorFacts
<1>1. PICK d : d = <<Access("controller", irq, irq), Access("handler", irq, irq),
                    Access("parameter", irq, Parameter(irq))>>
  OBVIOUS
<1>2. /\ d \in Seq(Ops) /\ Len(d) = 3
      /\ d[1] = Access("controller", irq, irq) /\ d[2] = Access("handler", irq, irq)
      /\ d[3] = Access("parameter", irq, Parameter(irq))
  BY <1>0, <1>1, OpFacts
<1>3. PICK a : a = d \o IOAPIC_install(irq)
  OBVIOUS
<1>4. /\ a \in Seq(Ops) /\ Len(a) = 3 + 5
      /\ \A i \in 1 .. 3 : a[i] = d[i]
      /\ \A i \in 1 .. 5 : a[3 + i] = IOAPIC_install(irq)[i]
  <2>1. d \in Seq(Ops) /\ IOAPIC_install(irq) \in Seq(Ops) /\ Len(d) = 3 /\ Len(IOAPIC_install(irq)) = 5
    BY <1>2, InstallOps
  <2>2. /\ a \in Seq(Ops) /\ Len(a) = Len(d) + Len(IOAPIC_install(irq))
        /\ \A i \in 1 .. Len(d) : a[i] = d[i]
        /\ \A i \in 1 .. Len(IOAPIC_install(irq)) : a[Len(d) + i] = IOAPIC_install(irq)[i]
    BY <1>3, <2>1, Joined, Zenon
  <2>3. QED
    BY <2>1, <2>2
<1>5. PICK c : c = a \o IOAPIC_enable(irq)
  OBVIOUS
<1>6. /\ c \in Seq(Ops) /\ Len(c) = 8 + 9
      /\ \A i \in 1 .. 8 : c[i] = a[i]
      /\ \A i \in 1 .. 9 : c[8 + i] = IOAPIC_enable(irq)[i]
  <2>1. a \in Seq(Ops) /\ IOAPIC_enable(irq) \in Seq(Ops) /\ Len(a) = 8 /\ Len(IOAPIC_enable(irq)) = 9
    BY <1>4, EnableOps
  <2>2. /\ c \in Seq(Ops) /\ Len(c) = Len(a) + Len(IOAPIC_enable(irq))
        /\ \A i \in 1 .. Len(a) : c[i] = a[i]
        /\ \A i \in 1 .. Len(IOAPIC_enable(irq)) : c[Len(a) + i] = IOAPIC_enable(irq)[i]
    BY <1>5, <2>1, Joined, Zenon
  <2>3. QED
    BY <2>1, <2>2
<1>7. register_irq(irq) = c
  BY <1>5, <1>1, <1>3 DEF register_irq, Set
<1>8. QED
  BY <1>2, <1>4, <1>6, InstallOps, EnableOps, <1>7

LEMMA UnregisterOps ==
  ASSUME NEW irq \in Lines
  PROVE  /\ unregister_irq(irq) \in Seq(Ops) /\ Len(unregister_irq(irq)) = 17
         /\ unregister_irq(irq)[1] = Access("select", irq, "high")
         /\ unregister_irq(irq)[2] = Access("load", irq, NULL)
         /\ unregister_irq(irq)[3] = Access("select", irq, "low")
         /\ unregister_irq(irq)[4] = Access("load", irq, NULL)
         /\ unregister_irq(irq)[5] = Mask(irq)
         /\ unregister_irq(irq)[6] = Access("select", irq, "low")
         /\ unregister_irq(irq)[7] = Access("store", irq, NULL)
         /\ unregister_irq(irq)[8] = Access("select", irq, "high")
         /\ unregister_irq(irq)[9] = Access("store", irq, NULL)
         /\ unregister_irq(irq)[10] = Access("value", irq, Masked(0))
         /\ unregister_irq(irq)[11] = Access("select", irq, "low")
         /\ unregister_irq(irq)[12] = Access("store", irq, NULL)
         /\ unregister_irq(irq)[13] = Access("select", irq, "high")
         /\ unregister_irq(irq)[14] = Access("store", irq, NULL)
         /\ unregister_irq(irq)[15] = Access("controller", irq, NULL)
         /\ unregister_irq(irq)[16] = Access("handler", irq, NULL)
         /\ unregister_irq(irq)[17] = Access("parameter", irq, NULL)
<1>0. irq \in Vectors
  BY VectorFacts
<1>1. PICK d : d = <<Access("controller", irq, NULL), Access("handler", irq, NULL),
                    Access("parameter", irq, NULL)>>
  OBVIOUS
<1>2. /\ d \in Seq(Ops) /\ Len(d) = 3
      /\ d[1] = Access("controller", irq, NULL) /\ d[2] = Access("handler", irq, NULL)
      /\ d[3] = Access("parameter", irq, NULL)
  BY <1>0, <1>1, OpFacts
<1>3. PICK a : a = IOAPIC_disable(irq) \o IOAPIC_uninstall(irq)
  OBVIOUS
<1>4. /\ a \in Seq(Ops) /\ Len(a) = 9 + 5
      /\ \A i \in 1 .. 9 : a[i] = IOAPIC_disable(irq)[i]
      /\ \A i \in 1 .. 5 : a[9 + i] = IOAPIC_uninstall(irq)[i]
  <2>1. IOAPIC_disable(irq) \in Seq(Ops) /\ IOAPIC_uninstall(irq) \in Seq(Ops) /\ Len(IOAPIC_disable(irq)) = 9 /\ Len(IOAPIC_uninstall(irq)) = 5
    BY DisableOps, UninstallOps
  <2>2. /\ a \in Seq(Ops) /\ Len(a) = Len(IOAPIC_disable(irq)) + Len(IOAPIC_uninstall(irq))
        /\ \A i \in 1 .. Len(IOAPIC_disable(irq)) : a[i] = IOAPIC_disable(irq)[i]
        /\ \A i \in 1 .. Len(IOAPIC_uninstall(irq)) : a[Len(IOAPIC_disable(irq)) + i] = IOAPIC_uninstall(irq)[i]
    BY <1>3, <2>1, Joined, Zenon
  <2>3. QED
    BY <2>1, <2>2
<1>5. PICK c : c = a \o d
  OBVIOUS
<1>6. /\ c \in Seq(Ops) /\ Len(c) = 14 + 3
      /\ \A i \in 1 .. 14 : c[i] = a[i]
      /\ \A i \in 1 .. 3 : c[14 + i] = d[i]
  <2>1. a \in Seq(Ops) /\ d \in Seq(Ops) /\ Len(a) = 14 /\ Len(d) = 3
    BY <1>2, <1>4
  <2>2. /\ c \in Seq(Ops) /\ Len(c) = Len(a) + Len(d)
        /\ \A i \in 1 .. Len(a) : c[i] = a[i]
        /\ \A i \in 1 .. Len(d) : c[Len(a) + i] = d[i]
    BY <1>5, <2>1, Joined, Zenon
  <2>3. QED
    BY <2>1, <2>2
<1>7. unregister_irq(irq) = c
  BY <1>5, <1>1, <1>3 DEF unregister_irq, Set
<1>8. QED
  BY <1>2, <1>4, <1>6, DisableOps, UninstallOps, <1>7

LEMMA MiddleParts ==
  /\ Gates \in Seq(Ops) /\ Len(Gates) = 1 /\ Gates[1] = Access("gates", NULL, 200 .. 209)
  /\ register_IPI(TickIPI) \in Seq(Ops) /\ Len(register_IPI(TickIPI)) = 3
  /\ register_IPI(TickIPI)[1] = Access("controller", TickIPI, NULL)
  /\ register_IPI(TickIPI)[2] = Access("parameter", TickIPI, NULL)
  /\ register_IPI(TickIPI)[3] = Access("handler", TickIPI, TickIPI)
  /\ Await \in Seq(Ops) /\ Len(Await) = 1 /\ Await[1] = Access("wait", NULL, 1)
  /\ Sends \in Seq(Ops) /\ Len(Sends) = 2
  /\ Sends[1] = Access("send", TickIPI, 1) /\ Sends[2] = Access("send", TickIPI + 1, 1)
<1>0. TickIPI \in Vectors /\ TickIPI + 1 \in Vectors /\ TickIPI \in Int
  BY VectorFacts
<1>1. Gates \in Seq(Ops) /\ Len(Gates) = 1 /\ Gates[1] = Access("gates", NULL, 200 .. 209)
  <2>1. Access("gates", NULL, 200 .. 209) \in Ops
    BY DEF Access, Ops, Pointer
  <2>2. QED
    BY <2>1 DEF Gates
<1>2. Await \in Seq(Ops) /\ Len(Await) = 1 /\ Await[1] = Access("wait", NULL, 1)
  <2>1. Access("wait", NULL, 1) \in Ops
    BY DEF Access, Ops, Pointer
  <2>2. QED
    BY <2>1 DEF Await
<1>3. /\ register_IPI(TickIPI) \in Seq(Ops) /\ Len(register_IPI(TickIPI)) = 3
      /\ register_IPI(TickIPI)[1] = Access("controller", TickIPI, NULL)
      /\ register_IPI(TickIPI)[2] = Access("parameter", TickIPI, NULL)
      /\ register_IPI(TickIPI)[3] = Access("handler", TickIPI, TickIPI)
  BY <1>0, OpFacts DEF register_IPI, Set
<1>4. PICK s : s = Sends
  OBVIOUS
<1>5. /\ s \in Seq(Ops) /\ Len(s) = 2
      /\ s[1] = Access("send", TickIPI, 1) /\ s[2] = Access("send", TickIPI + 1, 1)
  <2>1. \A nr \in Vectors : Access("send", nr, 1) \in Ops
    BY DEF Access, Ops, Pointer
  <2>2. /\ s[1] = Access("send", TickIPI, 1) /\ s[2] = Access("send", TickIPI + 1, 1)
        /\ \A n \in 1 .. 2 : n = 1 \/ n = 2
    BY <1>0, <1>4 DEF Sends
  <2>3. \A n \in 1 .. 2 : s[n] \in Ops
    BY <1>0, <2>1, <2>2
  <2>4. s \in [1 .. 2 -> Ops]
    BY <1>4, <2>3 DEF Sends
  <2>5. \A m \in Nat : \A q \in [1 .. m -> Ops] : q \in Seq(Ops) /\ Len(q) = m
    OBVIOUS
  <2>6. s \in Seq(Ops) /\ Len(s) = 2
    BY <2>4, <2>5, 2 \in Nat, Zenon
  <2>7. QED
    BY <2>2, <2>6
<1>6. QED
  BY <1>1, <1>2, <1>3, <1>4, <1>5

LEMMA MiddleOps ==
  /\ Middle \in Seq(Ops) /\ Len(Middle) = 7
  /\ Middle[1] = Access("gates", NULL, 200 .. 209)
  /\ Middle[2] = Access("controller", TickIPI, NULL)
  /\ Middle[3] = Access("parameter", TickIPI, NULL)
  /\ Middle[4] = Access("handler", TickIPI, TickIPI)
  /\ Middle[5] = Access("wait", NULL, 1)
  /\ Middle[6] = Access("send", TickIPI, 1)
  /\ Middle[7] = Access("send", TickIPI + 1, 1)
<1>1. PICK a : a = Gates \o register_IPI(TickIPI)
  OBVIOUS
<1>2. /\ a \in Seq(Ops) /\ Len(a) = 1 + 3
      /\ \A i \in 1 .. 1 : a[i] = Gates[i]
      /\ \A i \in 1 .. 3 : a[1 + i] = register_IPI(TickIPI)[i]
  <2>1. Gates \in Seq(Ops) /\ register_IPI(TickIPI) \in Seq(Ops) /\ Len(Gates) = 1 /\ Len(register_IPI(TickIPI)) = 3
    BY MiddleParts
  <2>2. /\ a \in Seq(Ops) /\ Len(a) = Len(Gates) + Len(register_IPI(TickIPI))
        /\ \A i \in 1 .. Len(Gates) : a[i] = Gates[i]
        /\ \A i \in 1 .. Len(register_IPI(TickIPI)) : a[Len(Gates) + i] = register_IPI(TickIPI)[i]
    BY <1>1, <2>1, Joined, Zenon
  <2>3. QED
    BY <2>1, <2>2
<1>3. PICK b : b = a \o Await
  OBVIOUS
<1>4. /\ b \in Seq(Ops) /\ Len(b) = 4 + 1
      /\ \A i \in 1 .. 4 : b[i] = a[i]
      /\ \A i \in 1 .. 1 : b[4 + i] = Await[i]
  <2>1. a \in Seq(Ops) /\ Await \in Seq(Ops) /\ Len(a) = 4 /\ Len(Await) = 1
    BY <1>2, MiddleParts
  <2>2. /\ b \in Seq(Ops) /\ Len(b) = Len(a) + Len(Await)
        /\ \A i \in 1 .. Len(a) : b[i] = a[i]
        /\ \A i \in 1 .. Len(Await) : b[Len(a) + i] = Await[i]
    BY <1>3, <2>1, Joined, Zenon
  <2>3. QED
    BY <2>1, <2>2
<1>5. Middle = b \o Sends
  BY <1>1, <1>3 DEF Middle
<1>6. /\ Middle \in Seq(Ops) /\ Len(Middle) = 5 + 2
      /\ \A i \in 1 .. 5 : Middle[i] = b[i]
      /\ \A i \in 1 .. 2 : Middle[5 + i] = Sends[i]
  <2>1. b \in Seq(Ops) /\ Sends \in Seq(Ops) /\ Len(b) = 5 /\ Len(Sends) = 2
    BY <1>4, MiddleParts
  <2>2. /\ Middle \in Seq(Ops) /\ Len(Middle) = Len(b) + Len(Sends)
        /\ \A i \in 1 .. Len(b) : Middle[i] = b[i]
        /\ \A i \in 1 .. Len(Sends) : Middle[Len(b) + i] = Sends[i]
    BY <1>5, <2>1, Joined, Zenon
  <2>3. QED
    BY <2>1, <2>2
<1>7. QED
  BY <1>2, <1>4, <1>6, MiddleParts

-----------------------------------------------------------------------------
LEMMA RestTails ==
  ASSUME NEW P \in Seq(Ops), NEW n \in 0 .. Len(P) - 1
  PROVE  /\ Tail(Rest(P, n)) = Rest(P, n + 1)
         /\ Rest(P, Len(P)) = <<>>
<1>1. PICK r, t : r = Rest(P, n) /\ t = Rest(P, n + 1)
  OBVIOUS
<1>2. /\ r \in Seq(Ops) /\ Len(r) = Len(P) - n /\ \A i \in 1 .. Len(P) - n : r[i] = P[n + i]
  BY <1>1 DEF Rest
<1>3. /\ t \in Seq(Ops) /\ Len(t) = Len(P) - n - 1
      /\ \A i \in 1 .. Len(P) - n - 1 : t[i] = P[n + 1 + i]
  BY <1>1 DEF Rest
<1>4. /\ Tail(r) \in Seq(Ops) /\ Len(Tail(r)) = Len(t)
      /\ \A i \in 1 .. Len(t) : Tail(r)[i] = t[i]
  <2>1. /\ Tail(r) \in Seq(Ops) /\ Len(Tail(r)) = Len(r) - 1
        /\ \A i \in 1 .. Len(r) - 1 : Tail(r)[i] = r[i + 1]
    <3>1. r # <<>>
      BY <1>2
    <3>2. \A q \in Seq(Ops) : q # <<>> =>
            /\ Tail(q) \in Seq(Ops) /\ Len(Tail(q)) = Len(q) - 1
            /\ \A i \in 1 .. Len(q) - 1 : Tail(q)[i] = q[i + 1]
      OBVIOUS
    <3>3. QED
      BY <1>2, <3>1, <3>2
  <2>2. Len(r) = Len(P) - n /\ Len(t) = Len(P) - n - 1
    BY <1>2, <1>3
  <2>3. \A i \in 1 .. Len(t) : i \in 1 .. Len(r) - 1 /\ i + 1 \in 1 .. Len(P) - n /\ n + (i + 1) = n + 1 + i
    BY <2>2
  <2>4. \A i \in 1 .. Len(t) : Tail(r)[i] = t[i]
    BY <1>2, <1>3, <2>1, <2>2, <2>3
  <2>5. QED
    BY <2>1, <2>2, <2>4
<1>5. Tail(r) = t
  BY <1>3, <1>4, SeqEqual
<1>6. Rest(P, Len(P)) = <<>>
  BY DEF Rest
<1>7. QED
  BY <1>1, <1>5, <1>6

(* The first of what is left goes.                                         *)
LEMMA RestSteps ==
  ASSUME NEW P \in Seq(Ops), NEW Q \in Seq(Ops), NEW n \in 0 .. Len(P) - 1
  PROVE  /\ Rest(P, n) \o Q \in Seq(Ops) /\ Rest(P, n) \o Q # <<>>
         /\ Head(Rest(P, n) \o Q) = P[n + 1]
         /\ Tail(Rest(P, n) \o Q) = Rest(P, n + 1) \o Q
<1>1. PICK r : r = Rest(P, n)
  OBVIOUS
<1>2. PICK t : t = Rest(P, n + 1)
  OBVIOUS
<1>3. /\ r \in Seq(Ops) /\ Len(r) = Len(P) - n /\ \A i \in 1 .. Len(P) - n : r[i] = P[n + i]
  BY <1>1 DEF Rest
<1>4. /\ t \in Seq(Ops) /\ Len(t) = Len(P) - n - 1
      /\ \A i \in 1 .. Len(P) - n - 1 : t[i] = P[n + 1 + i]
  BY <1>2 DEF Rest
<1>5. r # <<>> /\ r[1] = P[n + 1]
  BY <1>3
<1>6. t = Tail(r)
  BY <1>1, <1>2, RestTails
<1>7. /\ r \o Q \in Seq(Ops) /\ r \o Q # <<>>
      /\ Head(r \o Q) = r[1] /\ Tail(r \o Q) = Tail(r) \o Q
  BY <1>3, <1>5
<1>8. QED
  BY <1>1, <1>2, <1>5, <1>6, <1>7

LEMMA RestEnds ==
  ASSUME NEW P \in Seq(Ops), NEW Q \in Seq(Ops)
  PROVE  Rest(P, Len(P)) \o Q = Q /\ Rest(P, 0) = P /\ P \o <<>> = P
<1>1. Rest(P, Len(P)) = <<>> /\ <<>> \o Q = Q /\ P \o <<>> = P
  BY DEF Rest
<1>2. Rest(P, 0) = P
  BY DEF Rest
<1>3. QED
  BY <1>1, <1>2

(* The boot is one driver, the parts in between and the other driver.      *)
LEMMA BootParts ==
  /\ Boot = Rest(register_irq(Keyboard), 0) \o (Middle \o register_irq(HPET))
  /\ Middle \o register_irq(HPET) \in Seq(Ops)
<1>1. PICK r, g, p, w, s, h :
        /\ r = register_irq(Keyboard) /\ g = Gates /\ p = register_IPI(TickIPI)
        /\ w = Await /\ s = Sends /\ h = register_irq(HPET)
  OBVIOUS
<1>2. /\ r \in Seq(Ops) /\ g \in Seq(Ops) /\ p \in Seq(Ops) /\ w \in Seq(Ops)
      /\ s \in Seq(Ops) /\ h \in Seq(Ops)
  BY <1>1, VectorFacts, RegisterOps, MiddleParts
<1>3. Boot = ((((r \o g) \o p) \o w) \o s) \o h
  BY <1>1 DEF Boot, Gates, Await, Sends
<1>4. Middle = ((g \o p) \o w) \o s
  BY <1>1 DEF Middle
<1>5. \A x, y \in Seq(Ops) : x \o y \in Seq(Ops)
  OBVIOUS
<1>6. \A x, y, z \in Seq(Ops) : (x \o y) \o z = x \o (y \o z)
  <2>1. SUFFICES ASSUME NEW x \in Seq(Ops), NEW y \in Seq(Ops), NEW z \in Seq(Ops)
                 PROVE  (x \o y) \o z = x \o (y \o z)
    OBVIOUS
  <2>2. QED
    BY ConcatAssociative
<1>7. PICK gp, gpw, m : gp = g \o p /\ gpw = gp \o w /\ m = gpw \o s
  OBVIOUS
<1>8. gp \in Seq(Ops) /\ gpw \in Seq(Ops) /\ m \in Seq(Ops)
  BY <1>2, <1>5, <1>7
<1>9. (r \o g) \o p = r \o gp
  <2>1. r \in Seq(Ops) /\ g \in Seq(Ops) /\ p \in Seq(Ops)
    BY <1>2
  <2>2. (r \o g) \o p = r \o (g \o p)
    BY <1>6, <2>1, Zenon
  <2>3. QED
    BY <1>7, <2>2, Zenon
<1>10. (r \o gp) \o w = r \o gpw
  <2>1. r \in Seq(Ops) /\ gp \in Seq(Ops) /\ w \in Seq(Ops)
    BY <1>2, <1>8
  <2>2. (r \o gp) \o w = r \o (gp \o w)
    BY <1>6, <2>1, Zenon
  <2>3. QED
    BY <1>7, <2>2
<1>a. (r \o gpw) \o s = r \o m
  <2>1. r \in Seq(Ops) /\ gpw \in Seq(Ops) /\ s \in Seq(Ops)
    BY <1>2, <1>8
  <2>2. (r \o gpw) \o s = r \o (gpw \o s)
    BY <1>6, <2>1, Zenon
  <2>3. QED
    BY <1>7, <2>2
<1>b. (r \o m) \o h = r \o (m \o h) /\ m \o h \in Seq(Ops)
  <2>1. r \in Seq(Ops) /\ m \in Seq(Ops) /\ h \in Seq(Ops)
    BY <1>2, <1>8
  <2>2. (r \o m) \o h = r \o (m \o h)
    BY <1>6, <2>1, Zenon
  <2>3. QED
    BY <1>5, <2>1, <2>2
<1>11. Middle = m
  BY <1>4, <1>7
<1>12. Boot = r \o (m \o h)
  BY <1>3, <1>9, <1>10, <1>a, <1>b, Zenon
<1>13. Rest(register_irq(Keyboard), 0) = r
  BY <1>1, <1>2, RestEnds
<1>14. QED
  BY <1>1, <1>b, <1>11, <1>12, <1>13, Zenon

-----------------------------------------------------------------------------
(***************************************************************************)
(* The local APIC.                                                         *)
(***************************************************************************)
LEMMA HighestIs ==
  ASSUME NEW S \in SUBSET Vectors, S # {}
  PROVE  Highest(S) \in S /\ \A v \in S : Highest(S) >= v
<1> DEFINE T == {255 - v : v \in S}
<1>1. \A v \in S : v \in 0 .. 255
  BY VectorFacts DEF Vectors
<1>2. T \in SUBSET Nat /\ T # {}
  BY <1>1
<1>3. PICK x \in T : \A y \in T : <<y, x>> \notin OpToRel(<, Nat)
  BY <1>2, WFMin, NatLessThanWellFounded, Zenon
<1>4. \A y, z \in Nat : y < z => <<y, z>> \in OpToRel(<, Nat)
  BY SMT DEF OpToRel
<1>5. \A y \in T : ~(y < x)
  BY <1>2, <1>3, <1>4
<1>6. PICK v \in S : x = 255 - v
  BY <1>3
<1>7. \A w \in S : 255 - w \in T
  OBVIOUS
<1>8. \A w \in S : v >= w
  <2>1. SUFFICES ASSUME NEW w \in S PROVE v >= w
    OBVIOUS
  <2>2. ~(255 - w < x)
    BY <1>5, <1>7
  <2>3. v \in 0 .. 255 /\ w \in 0 .. 255
    BY <1>1
  <2>4. QED
    BY <1>6, <2>2, <2>3
<1>9. \E h \in S : \A w \in S : h >= w
  BY <1>8
<1>10. QED
  BY <1>9, Zenon DEF Highest

LEMMA Classes ==
  ASSUME NEW v \in Vectors, NEW w \in Vectors
  PROVE  /\ Class(v) \in Int
         /\ v >= w => ~(Class(v) < Class(w))
         /\ Class(v) > Class(w) => v > w
<1>1. v \in 0 .. 255 /\ w \in 0 .. 255
  BY VectorFacts DEF Vectors
<1>2. QED
  BY <1>1 DEF Class

(* The end of interrupt clears the vector do_IRQ has in hand: the others   *)
(* in service are of lower classes.                                        *)
LEMMA Acknowledged ==
  ASSUME NEW S \in SUBSET Vectors, NEW nr \in S,
         \A v \in S \ {nr} : Class(v) < Class(nr)
  PROVE  Highest(S) = nr
<1>1. Highest(S) \in S /\ Highest(S) >= nr
  BY HighestIs
<1>2. PICK h : h = Highest(S)
  OBVIOUS
<1>3. h \in Vectors /\ nr \in Vectors /\ ~(Class(h) < Class(nr))
  BY <1>1, <1>2, Classes
<1>4. QED
  BY <1>1, <1>2, <1>3

-----------------------------------------------------------------------------
(***************************************************************************)
(* What the actions do to the frames.                                      *)
(***************************************************************************)
LEMMA Pushed ==
  ASSUME NEW s \in Seq(Frame), NEW f \in Frame
  PROVE  /\ <<f>> \o s \in Seq(Frame) /\ <<f>> \o s # <<>> /\ Head(<<f>> \o s) = f
         /\ \A i \in DOMAIN (<<f>> \o s) :
              IF i = 1 THEN (<<f>> \o s)[i] = f
              ELSE i - 1 \in DOMAIN s /\ (<<f>> \o s)[i] = s[i - 1]
<1>1. PICK t : t = <<f>>
  OBVIOUS
<1>2. t \in Seq(Frame) /\ Len(t) = 1 /\ t[1] = f
  BY <1>1
<1>3. PICK u : u = t \o s
  OBVIOUS
<1>4. /\ u \in Seq(Frame) /\ Len(u) = Len(t) + Len(s)
      /\ \A i \in 1 .. Len(t) : u[i] = t[i]
      /\ \A i \in 1 .. Len(u) : i > Len(t) => u[i] = s[i - Len(t)]
  <2>1. \A a, b \in Seq(Frame) :
          /\ a \o b \in Seq(Frame) /\ Len(a \o b) = Len(a) + Len(b)
          /\ \A i \in 1 .. Len(a) : (a \o b)[i] = a[i]
          /\ \A i \in 1 .. Len(a \o b) : i > Len(a) => (a \o b)[i] = b[i - Len(a)]
    OBVIOUS
  <2>2. QED
    BY <1>2, <1>3, <2>1, Zenon
<1>5. u # <<>> /\ Head(u) = f
  BY <1>2, <1>4
<1>6. \A i \in DOMAIN u : IF i = 1 THEN u[i] = f
                          ELSE i - 1 \in DOMAIN s /\ u[i] = s[i - 1]
  BY <1>2, <1>4
<1>7. QED
  BY <1>1, <1>3, <1>4, <1>5, <1>6

LEMMA Popped ==
  ASSUME NEW s \in Seq(Frame), s # <<>>
  PROVE  /\ Tail(s) \in Seq(Frame)
         /\ \A i \in DOMAIN Tail(s) : i + 1 \in DOMAIN s /\ i + 1 > 1 /\ Tail(s)[i] = s[i + 1]
         /\ Tail(s) # <<>> => Head(Tail(s)) = s[2] /\ 2 \in DOMAIN s
  OBVIOUS

LEMMA Moved ==
  ASSUME NEW s \in Seq(Frame), s # <<>>, NEW place \in Places
  PROVE  LET t == [s EXCEPT ![1].at = place]
         IN  /\ t \in Seq(Frame) /\ t # <<>> /\ DOMAIN t = DOMAIN s
             /\ Head(t) = [Head(s) EXCEPT !.at = place]
             /\ \A i \in DOMAIN s : t[i].nr = s[i].nr /\ (i # 1 => t[i] = s[i])
<1>1. s[1] \in Frame /\ 1 \in DOMAIN s /\ Head(s) = s[1]
  OBVIOUS
<1>2. [s[1] EXCEPT !.at = place] \in Frame
  BY <1>1 DEF Frame
<1>3. [s EXCEPT ![1].at = place] = [s EXCEPT ![1] = [s[1] EXCEPT !.at = place]]
  BY <1>1
<1>4. PICK g : g = [s[1] EXCEPT !.at = place]
  OBVIOUS
<1>5. PICK t : t = [s EXCEPT ![1] = g]
  OBVIOUS
<1>6. /\ t \in Seq(Frame) /\ Len(t) = Len(s) /\ t[1] = g
      /\ \A i \in DOMAIN s : i # 1 => t[i] = s[i]
  BY <1>1, <1>2, <1>4, <1>5
<1>7. t # <<>> /\ DOMAIN t = DOMAIN s /\ Head(t) = g
  BY <1>1, <1>6
<1>8. g.nr = s[1].nr
  BY <1>1, <1>4 DEF Frame
<1>9. \A i \in DOMAIN s : t[i].nr = s[i].nr /\ (i # 1 => t[i] = s[i])
  BY <1>6, <1>8
<1>10. QED
  BY <1>1, <1>3, <1>4, <1>5, <1>6, <1>7, <1>9

-----------------------------------------------------------------------------
(***************************************************************************)
(* Steps that leave the tables or a processor alone.                       *)
(***************************************************************************)
LEMMA TableStays ==
  ASSUME Typed, Table, InScript, UNCHANGED table, apic \subseteq apic',
         \A irq \in Lines : InHand(irq)' => InHand(irq) \/ ~rte[irq].low.masked
  PROVE  Table' /\ InScript'
<1>1. \A irq \in Lines : Quiet(irq) => Quiet(irq)'
  BY DEF Quiet, table
<1>2. GatesSet' <=> GatesSet
  BY DEF GatesSet, table
<1>3. \A irq \in Lines, n \in 0 .. 16 : Registering(irq, n) => Registering(irq, n)'
  BY <1>1, <1>2 DEF Registering, table
<1>4. \A irq \in Lines, n \in 0 .. 16 : Unregistering(irq, n) => Unregistering(irq, n)'
  BY <1>2 DEF Unregistering, table
<1>5. Keyboard \in Lines /\ HPET \in Lines
  BY VectorFacts
<1>6. InScript'
  <2>1. script' = script
    BY DEF table
  <2>2. CASE script[0] = <<>>
    BY <2>1, <2>2 DEF InScript
  <2>3. ASSUME NEW n \in 0 .. 16,
               script[0] = Rest(register_irq(Keyboard), n) \o (Middle \o register_irq(HPET)),
               Registering(Keyboard, n), Quiet(HPET)
        PROVE  InScript'
    <3>1. Registering(Keyboard, n)' /\ Quiet(HPET)'
      BY <1>1, <1>3, <1>5, <2>3
    <3>2. script'[0] = Rest(register_irq(Keyboard), n) \o (Middle \o register_irq(HPET))
      BY <2>1, <2>3
    <3>3. QED
      BY <3>1, <3>2 DEF InScript
  <2>4. ASSUME NEW n \in 0 .. 6,
               script[0] = Rest(Middle, n) \o register_irq(HPET),
               n >= 1 => GatesSet, Quiet(HPET)
        PROVE  InScript'
    <3>1. (n >= 1 => GatesSet') /\ Quiet(HPET)'
      BY <1>1, <1>2, <1>5, <2>4
    <3>2. script'[0] = Rest(Middle, n) \o register_irq(HPET)
      BY <2>1, <2>4
    <3>3. QED
      BY <3>1, <3>2 DEF InScript
  <2>5. ASSUME NEW irq \in Lines, NEW n \in 0 .. 16,
               script[0] = Rest(register_irq(irq), n), Registering(irq, n)
        PROVE  InScript'
    <3>1. Registering(irq, n)' /\ script'[0] = Rest(register_irq(irq), n)
      BY <1>3, <2>1, <2>5
    <3>2. QED
      BY <3>1 DEF InScript
  <2>6. ASSUME NEW irq \in Lines, NEW n \in 0 .. 16,
               script[0] = Rest(unregister_irq(irq), n), Unregistering(irq, n)
        PROVE  InScript'
    <3>1. Unregistering(irq, n)' /\ script'[0] = Rest(unregister_irq(irq), n)
      BY <1>4, <2>1, <2>6
    <3>2. QED
      BY <3>1 DEF InScript
  <2>7. QED
    BY <2>2, <2>3, <2>4, <2>5, <2>6 DEF InScript
<1>7. GatesFirst'
  BY <1>2 DEF Table, GatesFirst, table
<1>8. Servable'
  <2>1. SUFFICES ASSUME NEW irq \in Lines, InHand(irq)'
                 PROVE  /\ desc[irq].controller # NULL \/ irq \in left
                        /\ desc[irq].handler # NULL => desc[irq].parameter = Parameter(irq)
    BY DEF Servable, table
  <2>2. CASE InHand(irq)
    BY <2>2 DEF Table, Servable
  <2>3. CASE ~rte[irq].low.masked
    <3>1. desc[irq] = [controller |-> irq, handler |-> irq, parameter |-> Parameter(irq)]
      BY <2>3 DEF Table, OpenLineIsReady
    <3>2. irq # NULL
      BY VectorFacts
    <3>3. QED
      BY <3>1, <3>2
  <2>4. QED
    BY <2>1, <2>2, <2>3
<1>9. OpenLineIsReady'
  BY DEF Table, OpenLineIsReady, table
<1>10. QED
  BY <1>6, <1>7, <1>8, <1>9 DEF Table

\* A frame is followed as before when the descriptors are the same.
LEMMA FollowStays ==
  ASSUME NEW f, Following(f), UNCHANGED desc, GatesSet => GatesSet'
  PROVE  Following(f)'
  BY DEF Following

LEMMA Elsewhere ==
  ASSUME Typed, NEW p \in CPU, Processor(p),
         frames'[p] = frames[p], isr'[p] = isr[p],
         irr'[p] \subseteq irr[p] \cup (IPIs \cap gates'),
         p # 0 => script'[p] = script[p],
         gates \subseteq gates', left \subseteq left',
         ~InTask(p) => Following(Top(p))'
  PROVE  Processor(p)'
<1>1. BootOnly(p)'
  <2>1. \A nr \in IPIs : nr \notin Lines
    BY VectorFacts
  <2>2. QED
    BY <2>1 DEF Processor, BootOnly
<1>2. Top(p)' = Top(p) /\ (Unacked(p)' <=> Unacked(p)) /\ (InTask(p)' <=> InTask(p))
  BY DEF Top, Unacked, InTask
<1>3. Served(p)'
  BY <1>2 DEF Processor, Served
<1>4. irr'[p] \cup isr'[p] \subseteq gates'
  BY DEF Processor
<1>5. QED
  BY <1>1, <1>2, <1>3, <1>4 DEF Processor

LEMMA GotoFacts ==
  ASSUME Typed, NEW c \in CPU, ~InTask(c), NEW place \in Places, Goto(c, place)
  PROVE  /\ frames' \in [CPU -> Seq(Frame)]
         /\ ~InTask(c)' /\ Top(c) \in Frame /\ Top(c)' = [Top(c) EXCEPT !.at = place]
         /\ \A p \in CPU : p # c => frames'[p] = frames[p]
         /\ \A p \in CPU : \A i \in DOMAIN frames'[p] :
              /\ i \in DOMAIN frames[p] /\ frames'[p][i].nr = frames[p][i].nr
              /\ i > 1 => frames'[p][i].at = "soft"
<1>1. PICK s : s = frames[c]
  OBVIOUS
<1>2. s \in Seq(Frame) /\ s # <<>> /\ \A i \in DOMAIN s : i > 1 => s[i].at = "soft"
  BY <1>1 DEF Typed, TypeOK, InTask
<1>3. PICK t : t = [s EXCEPT ![1].at = place]
  OBVIOUS
<1>4. /\ t \in Seq(Frame) /\ t # <<>> /\ DOMAIN t = DOMAIN s
      /\ Head(t) = [Head(s) EXCEPT !.at = place]
      /\ \A i \in DOMAIN s : t[i].nr = s[i].nr /\ (i # 1 => t[i] = s[i])
  BY <1>2, <1>3, Moved
<1>5. frames' = [frames EXCEPT ![c] = t]
  BY <1>1, <1>3 DEF Goto
<1>6. frames \in [CPU -> Seq(Frame)] /\ \A p \in CPU : \A i \in DOMAIN frames[p] :
        i > 1 => frames[p][i].at = "soft"
  BY DEF Typed, TypeOK
<1>7. frames' \in [CPU -> Seq(Frame)] /\ frames'[c] = t /\ \A p \in CPU : p # c => frames'[p] = frames[p]
  BY <1>4, <1>5, <1>6
<1>8. Head(s) \in Frame
  BY <1>2
<1>9. ~InTask(c)' /\ Top(c) \in Frame /\ Top(c)' = [Top(c) EXCEPT !.at = place]
  BY <1>1, <1>4, <1>7, <1>8 DEF InTask, Top
<1>10. \A i \in DOMAIN t : i \in DOMAIN s /\ t[i].nr = s[i].nr /\ (i > 1 => t[i].at = "soft")
  BY <1>2, <1>4
<1>11. \A p \in CPU : \A i \in DOMAIN frames'[p] :
         /\ i \in DOMAIN frames[p] /\ frames'[p][i].nr = frames[p][i].nr
         /\ i > 1 => frames'[p][i].at = "soft"
  <2>1. \A i \in DOMAIN frames'[c] :
          /\ i \in DOMAIN frames[c] /\ frames'[c][i].nr = frames[c][i].nr
          /\ i > 1 => frames'[c][i].at = "soft"
    BY <1>1, <1>7, <1>10
  <2>2. \A p \in CPU : p # c => \A i \in DOMAIN frames'[p] :
          /\ i \in DOMAIN frames[p] /\ frames'[p][i].nr = frames[p][i].nr
          /\ i > 1 => frames'[p][i].at = "soft"
    BY <1>6, <1>7
  <2>3. QED
    BY <2>1, <2>2
<1>12. QED
  BY <1>7, <1>9, <1>11

\* The types after a step that changes frames and what is in service.
LEMMA FramesTyped ==
  ASSUME Typed, UNCHANGED <<table, edges>>, apic \subseteq apic', apic' \subseteq CPU,
         if' \subseteq apic', frames' \in [CPU -> Seq(Frame)],
         \A p \in CPU : \A i \in DOMAIN frames'[p] : i > 1 => frames'[p][i].at = "soft",
         irr' \in [CPU -> SUBSET Vectors], isr' \in [CPU -> SUBSET Vectors], soft' \in BOOLEAN
  PROVE  Typed'
<1>1. \A p \in CPU : \A i \in DOMAIN frames'[p] : frames'[p][i].nr \in Vectors
  <2>1. \A q \in Seq(Frame) : \A i \in DOMAIN q : q[i] \in Frame
    OBVIOUS
  <2>2. \A f \in Frame : f.nr \in Vectors
    BY DEF Frame
  <2>3. QED
    BY <2>1, <2>2
<1>2. TypeOK'
  BY <1>1 DEF Typed, TypeOK, table
<1>3. QED
  BY <1>2 DEF Typed, table

LEMMA SameProcessors ==
  ASSUME Typed, NEW c \in CPU, \A p \in CPU : Processor(p), UNCHANGED table,
         \A p \in CPU : p # c => /\ frames'[p] = frames[p] /\ isr'[p] = isr[p]
                                 /\ irr'[p] \subseteq irr[p] \cup (IPIs \cap gates')
  PROVE  \A p \in CPU : p # c => Processor(p)'
<1>1. SUFFICES ASSUME NEW p \in CPU, p # c PROVE Processor(p)'
  OBVIOUS
<1>2. /\ frames'[p] = frames[p] /\ isr'[p] = isr[p]
      /\ irr'[p] \subseteq irr[p] \cup (IPIs \cap gates') /\ Processor(p)
  BY <1>1
<1>3. Top(p)' = Top(p) /\ UNCHANGED <<desc, gates, left, script>> /\ (GatesSet => GatesSet')
  BY <1>2 DEF Top, table, GatesSet
<1>4. ~InTask(p) => Following(Top(p))'
  <2>1. PICK f : f = Top(p)
    OBVIOUS
  <2>2. ~InTask(p) => Following(f)
    BY <1>2, <2>1 DEF Processor
  <2>3. ~InTask(p) => Following(f)'
    BY <1>3, <2>2, FollowStays
  <2>4. Following(Top(p))' <=> Following(f)'
    BY <1>3, <2>1 DEF Following
  <2>5. QED
    BY <2>3, <2>4
<1>5. QED
  BY <1>2, <1>3, <1>4, Elsewhere

-----------------------------------------------------------------------------
(***************************************************************************)
(* do_IRQ.                                                                 *)
(***************************************************************************)
\* What a processor that is in an interrupt knows.
LEMMA InInterrupt ==
  ASSUME IrqInd, NEW c \in CPU, ~InTask(c)
  PROVE  /\ Top(c) \in Frame /\ Top(c).nr \in Vectors /\ Top(c).at \in Places
         /\ (External(Top(c).nr) <=> Top(c).nr \in Lines)
         /\ External(Top(c).nr) => c = 0
         /\ isr[c] \in SUBSET Vectors /\ irr[c] \in SUBSET Vectors
         /\ desc[Top(c).nr].handler \in {NULL, Top(c).nr}
<1>1. /\ frames[c] \in Seq(Frame) /\ frames[c] # <<>> /\ BootOnly(c)
      /\ isr[c] \in SUBSET Vectors /\ irr[c] \in SUBSET Vectors
  BY DEF IrqInd, Typed, TypeOK, InTask, Processor
<1>2. Top(c) = frames[c][1] /\ 1 \in DOMAIN frames[c] /\ Top(c) \in Frame
  BY <1>1 DEF Top
<1>3. Top(c).nr \in Vectors /\ Top(c).at \in Places
  BY <1>2 DEF Frame
<1>4. Top(c).nr \in Lines => c = 0
  BY <1>1, <1>2 DEF BootOnly
<1>5. QED
  BY <1>1, <1>2, <1>3, <1>4, Kinds DEF IrqInd, Typed

\* From one place of do_IRQ to the next, perhaps with the end of interrupt.
Middles == {"entry", "call", "handler", "controller", "ack"}

LEMMA Onwards ==
  ASSUME IrqInd, NEW c \in CPU, ~InTask(c), NEW place \in Places \ {"entry"},
         Goto(c, place), UNCHANGED <<table, edges, apic, if>>, soft' \in BOOLEAN,
         irr' \in [CPU -> SUBSET Vectors], isr' \in [CPU -> SUBSET Vectors],
         \A p \in CPU : irr'[p] \subseteq irr[p] \cup (IPIs \cap gates),
         \A p \in CPU : p # c => isr'[p] = isr[p],
         isr'[c] \subseteq isr[c],
         IF External(Top(c).nr) /\ place \in Middles
         THEN Top(c).at \in Middles /\ isr'[c] = isr[c]
         ELSE isr'[c] \subseteq left,
         Following([Top(c) EXCEPT !.at = place])
  PROVE  IrqInd'
<1>1. /\ frames' \in [CPU -> Seq(Frame)]
      /\ ~InTask(c)' /\ Top(c)' = [Top(c) EXCEPT !.at = place]
      /\ \A p \in CPU : p # c => frames'[p] = frames[p]
      /\ \A p \in CPU : \A i \in DOMAIN frames'[p] :
           /\ i \in DOMAIN frames[p] /\ frames'[p][i].nr = frames[p][i].nr
           /\ i > 1 => frames'[p][i].at = "soft"
  BY GotoFacts DEF IrqInd
<1>2. Top(c)'.nr = Top(c).nr /\ Top(c)'.at = place /\ Top(c) \in Frame
  BY <1>1, InInterrupt DEF Frame
<1>3. Typed'
  <2>1. apic' \subseteq CPU /\ if' \subseteq apic'
    BY DEF IrqInd, Typed, TypeOK
  <2>2. QED
    BY <1>1, <2>1, FramesTyped DEF IrqInd
<1>4. Unacked(c)' => Unacked(c)
  BY <1>1, <1>2 DEF Unacked, InTask, Middles
<1>5. \A irq \in Lines : InHand(irq)' => InHand(irq)
  <2>1. c # 0 => Top(0)' = Top(0) /\ (Unacked(0)' <=> Unacked(0))
    BY <1>1, VectorFacts DEF Top, Unacked
  <2>2. \A irq \in Lines : irq \in irr'[0] => irq \in irr[0]
    BY VectorFacts
  <2>3. QED
    BY <1>2, <1>4, <2>1, <2>2 DEF InHand
<1>6. Table' /\ InScript'
  BY <1>5, TableStays DEF IrqInd
<1>7. \A p \in CPU : p # c => Processor(p)'
  <2>1. gates' = gates
    BY DEF table
  <2>2. QED
    BY <1>1, <2>1, SameProcessors DEF IrqInd
<1>8. Processor(c)'
  <2>1. /\ BootOnly(c) /\ Served(c) /\ irr[c] \cup isr[c] \subseteq gates
        /\ UNCHANGED <<gates, left, script, desc>>
    BY DEF IrqInd, Processor, table
  <2>2. BootOnly(c)'
    <3>1. \A nr \in IPIs : nr \notin Lines
      BY VectorFacts
    <3>2. QED
      BY <1>1, <2>1, <3>1 DEF BootOnly
  <2>3. Served(c)'
    BY <1>1, <1>2, <2>1 DEF Served, Unacked, InTask, Middles
  <2>4. Following(Top(c))'
    <3>1. PICK f : f = [Top(c) EXCEPT !.at = place]
      OBVIOUS
    <3>2. GatesSet => GatesSet'
      BY <2>1 DEF GatesSet
    <3>3. Following(f)'
      BY <2>1, <3>1, <3>2, FollowStays
    <3>4. Following(Top(c))' <=> Following(f)'
      BY <1>1, <3>1 DEF Following
    <3>5. QED
      BY <3>3, <3>4
  <2>5. irr'[c] \cup isr'[c] \subseteq gates'
    BY <2>1
  <2>6. QED
    BY <1>1, <2>2, <2>3, <2>4, <2>5 DEF Processor
<1>9. QED
  BY <1>3, <1>6, <1>7, <1>8 DEF IrqInd

\* The same with nothing changed but the place.
LEMMA Through ==
  ASSUME IrqInd, NEW c \in CPU, ~InTask(c), NEW place \in Places \ {"entry"},
         Goto(c, place), UNCHANGED <<table, hardware, soft>>,
         IF External(Top(c).nr) /\ place \in Middles
         THEN Top(c).at \in Middles
         ELSE isr[c] \subseteq left,
         Following([Top(c) EXCEPT !.at = place])
  PROVE  IrqInd'
<1>1. UNCHANGED <<irr, isr, edges, apic, if, soft, table>>
  BY DEF hardware
<1>2. /\ soft' \in BOOLEAN /\ irr' \in [CPU -> SUBSET Vectors]
      /\ isr' \in [CPU -> SUBSET Vectors]
  BY <1>1 DEF IrqInd, Typed, TypeOK
<1>3. QED
  BY <1>1, <1>2, Onwards

\* The end of interrupt of the vector in hand.
LEMMA Acked ==
  ASSUME IrqInd, NEW c \in CPU, Unacked(c), EOI(c)
  PROVE  /\ isr' \in [CPU -> SUBSET Vectors] /\ isr'[c] \subseteq isr[c]
         /\ isr'[c] \subseteq left /\ \A p \in CPU : p # c => isr'[p] = isr[p]
<1>1. /\ isr \in [CPU -> SUBSET Vectors]
      /\ Top(c).nr \in isr[c]
      /\ \A v \in isr[c] \ {Top(c).nr} : v \in left /\ Class(v) < Class(Top(c).nr)
  BY DEF IrqInd, Typed, TypeOK, Processor, Served
<1>2. Highest(isr[c]) = Top(c).nr
  BY <1>1, Acknowledged
<1>3. isr' = [isr EXCEPT ![c] = isr[c] \ {Top(c).nr}]
  BY <1>2 DEF EOI
<1>4. QED
  BY <1>1, <1>3

LEMMA ExternalStep ==
  ASSUME IrqInd, NEW c \in CPU, do_IRQ_external(c)
  PROVE  IrqInd'
<1>1. PICK place \in Places \ {"entry"} :
        /\ place = IF desc[Top(c).nr].handler # NULL THEN "call" ELSE "controller"
        /\ Goto(c, place) /\ place \in Middles
  BY DEF do_IRQ_external, Places, Middles
<1>2. ~InTask(c) /\ External(Top(c).nr) /\ Top(c).at \in Middles /\ Top(c) \in Frame
  BY InInterrupt DEF do_IRQ_external, At, Middles
<1>3. Following([Top(c) EXCEPT !.at = place])
  BY <1>1, <1>2 DEF Following, Frame
<1>4. UNCHANGED <<table, hardware, soft>>
  BY DEF do_IRQ_external
<1>5. QED
  BY <1>1, <1>2, <1>3, <1>4, Through

LEMMA IpiStep ==
  ASSUME IrqInd, NEW c \in CPU, do_IRQ_ipi(c)
  PROVE  IrqInd'
<1>1. PICK place \in Places \ {"entry"} :
        /\ place = IF desc[Top(c).nr].handler # NULL THEN "call" ELSE "return"
        /\ Goto(c, place)
  BY DEF do_IRQ_ipi, Places
<1>2. ~InTask(c) /\ ~External(Top(c).nr) /\ Top(c) \in Frame /\ Unacked(c)
  BY InInterrupt DEF do_IRQ_ipi, At, Unacked, InTask
<1>3. Following([Top(c) EXCEPT !.at = place])
  BY <1>1, <1>2 DEF Following, Frame
<1>4. /\ isr' \in [CPU -> SUBSET Vectors] /\ isr'[c] \subseteq isr[c]
      /\ isr'[c] \subseteq left /\ \A p \in CPU : p # c => isr'[p] = isr[p]
  BY <1>2, Acked DEF do_IRQ_ipi
<1>5. /\ UNCHANGED <<table, irr, edges, apic, if, soft>>
      /\ irr' \in [CPU -> SUBSET Vectors] /\ soft' \in BOOLEAN
  BY DEF do_IRQ_ipi, IrqInd, Typed, TypeOK
<1>6. QED
  BY <1>1, <1>2, <1>3, <1>4, <1>5, Onwards

LEMMA AckStep ==
  ASSUME IrqInd, NEW c \in CPU, IOAPIC_edge_ack(c)
  PROVE  IrqInd'
<1>1. PICK place \in Places \ {"entry"} : place = "return" /\ Goto(c, place)
  BY DEF IOAPIC_edge_ack, Places
<1>2. ~InTask(c) /\ Top(c).at = "ack" /\ Top(c) \in Frame
  BY InInterrupt DEF IOAPIC_edge_ack, At
<1>3. Unacked(c)
  BY <1>2 DEF IrqInd, Processor, Following, Unacked, InTask
<1>4. Following([Top(c) EXCEPT !.at = place])
  BY <1>1, <1>2 DEF Following, Frame
<1>5. /\ isr' \in [CPU -> SUBSET Vectors] /\ isr'[c] \subseteq isr[c]
      /\ isr'[c] \subseteq left /\ \A p \in CPU : p # c => isr'[p] = isr[p]
  BY <1>3, Acked DEF IOAPIC_edge_ack
<1>6. /\ UNCHANGED <<table, irr, edges, apic, if, soft>>
      /\ irr' \in [CPU -> SUBSET Vectors] /\ soft' \in BOOLEAN
  BY DEF IOAPIC_edge_ack, IrqInd, Typed, TypeOK
<1>7. place \notin Middles
  BY <1>1 DEF Middles
<1>8. QED
  BY <1>1, <1>2, <1>4, <1>5, <1>6, <1>7, Onwards

LEMMA ControllerStep ==
  ASSUME IrqInd, NEW c \in CPU, TestController(c)
  PROVE  IrqInd'
<1>1. PICK place \in Places \ {"entry"} :
        /\ place = IF desc[Top(c).nr].controller # NULL THEN "ack" ELSE "return"
        /\ Goto(c, place)
  BY DEF TestController, Places
<1>2. ~InTask(c) /\ Top(c).at = "controller" /\ Top(c) \in Frame
  BY InInterrupt DEF TestController, At
<1>3. External(Top(c).nr) /\ Unacked(c)
  BY <1>2 DEF IrqInd, Processor, Following, Unacked, InTask
<1>4. Following([Top(c) EXCEPT !.at = place])
  BY <1>1, <1>2, <1>3 DEF Following, Frame
<1>5. UNCHANGED <<table, hardware, soft>>
  BY DEF TestController
<1>6. CASE place = "ack"
  <2>1. place \in Middles /\ Top(c).at \in Middles
    BY <1>2, <1>6 DEF Middles
  <2>2. QED
    BY <1>1, <1>2, <1>3, <1>4, <1>5, <2>1, Through
<1>7. CASE place # "ack"
  <2>1. place \notin Middles /\ desc[Top(c).nr].controller = NULL
    BY <1>1, <1>7 DEF Middles
  <2>2. Top(c).nr \in left
    <3>1. c = 0 /\ Top(c).nr \in Lines
      BY <1>2, <1>3, InInterrupt
    <3>2. InHand(Top(c).nr)
      BY <1>3, <3>1 DEF InHand
    <3>3. QED
      BY <2>1, <3>1, <3>2 DEF IrqInd, Table, Servable
  <2>3. isr[c] \subseteq left
    BY <1>3, <2>2 DEF IrqInd, Processor, Served
  <2>4. QED
    BY <1>1, <1>2, <1>4, <1>5, <2>1, <2>3, Through
<1>8. QED
  BY <1>6, <1>7

LEMMA HandlerStep ==
  ASSUME IrqInd, NEW c \in CPU, Handler(c)
  PROVE  IrqInd'
<1>1. PICK place \in Places \ {"entry"} :
        /\ place = IF External(Top(c).nr) THEN "controller" ELSE "return"
        /\ Goto(c, place)
  BY DEF Handler, Places
<1>2. ~InTask(c) /\ Top(c).at = "handler" /\ Top(c) \in Frame
  BY InInterrupt DEF Handler, At
<1>3. Following([Top(c) EXCEPT !.at = place])
  BY <1>1, <1>2 DEF Following, Frame
<1>4. UNCHANGED <<table, isr, edges, apic, if>> /\ isr' \in [CPU -> SUBSET Vectors]
  BY DEF Handler, IrqInd, Typed, TypeOK
<1>5. /\ soft' \in BOOLEAN /\ irr' \in [CPU -> SUBSET Vectors]
      /\ \A p \in CPU : irr'[p] \subseteq irr[p] \cup (IPIs \cap gates)
  <2>1. irr \in [CPU -> SUBSET Vectors] /\ soft \in BOOLEAN
    BY DEF IrqInd, Typed, TypeOK
  <2>2. CASE Top(c).called # HPET
    BY <2>1, <2>2 DEF Handler
  <2>3. CASE Top(c).called = HPET
    <3>1. TickIPI \in gates /\ TickIPI \in IPIs /\ TickIPI \in Vectors
      <4>1. Following(Top(c))
        BY <1>2 DEF IrqInd, Processor
      <4>2. GatesSet
        BY <1>2, <2>3, <4>1 DEF Following
      <4>3. QED
        BY <4>2, VectorFacts DEF GatesSet
    <3>2. Request(CPU \ {c}, TickIPI) /\ soft' \in BOOLEAN
      BY <2>1, <2>3 DEF Handler
    <3>3. QED
      BY <2>1, <3>1, <3>2 DEF Request
  <2>4. QED
    BY <2>2, <2>3
<1>6. IF External(Top(c).nr) /\ place \in Middles
      THEN Top(c).at \in Middles ELSE isr[c] \subseteq left
  <2>1. CASE External(Top(c).nr)
    BY <1>1, <1>2, <2>1 DEF Middles
  <2>2. CASE ~External(Top(c).nr)
    BY <1>2, <2>2 DEF IrqInd, Processor, Served, Unacked
  <2>3. QED
    BY <2>1, <2>2
<1>7. QED
  BY <1>1, <1>2, <1>3, <1>4, <1>5, <1>6, Onwards

LEMMA CallStep ==
  ASSUME IrqInd, NEW c \in CPU, CallHandler(c)
  PROVE  IrqInd'
<1> DEFINE nr == Top(c).nr
           f == [Top(c) EXCEPT !.at = "handler", !.called = desc[nr].handler,
                               !.parameter = desc[nr].parameter]
<1>1. /\ ~InTask(c) /\ Top(c) \in Frame /\ Top(c).at = "call" /\ nr \in Vectors
      /\ desc[nr].handler = nr
      /\ External(nr) <=> nr \in Lines
      /\ External(nr) => c = 0
  <2>1. ~InTask(c) /\ Top(c).at = "call"
    BY DEF CallHandler, At
  <2>2. Following(Top(c))
    BY <2>1 DEF IrqInd, Processor
  <2>3. QED
    BY <2>1, <2>2, InInterrupt DEF Following
<1>2. External(nr) => desc[nr].parameter = Parameter(nr)
  <2>1. SUFFICES ASSUME External(nr) PROVE desc[nr].parameter = Parameter(nr)
    OBVIOUS
  <2>2. InHand(nr)
    BY <1>1, <2>1 DEF InHand, Unacked, InTask
  <2>3. nr \in Lines /\ desc[nr].handler # NULL
    BY <1>1, <2>1, VectorFacts
  <2>4. Servable
    BY DEF IrqInd, Table
  <2>5. QED
    BY <2>2, <2>3, <2>4 DEF Servable
<1>3. HPET = nr => GatesSet
  BY <1>1, VectorFacts DEF IrqInd, Table, GatesFirst
<1>4. PICK s, g, t : s = frames[c] /\ g = f /\ t = [s EXCEPT ![1] = g]
  OBVIOUS
<1>5. g \in Frame /\ g.nr = nr /\ g.at = "handler" /\ Following(g)
  <2>1. desc[nr].handler \in Pointer /\ desc[nr].parameter \in Pointer
    BY <1>1 DEF IrqInd, Typed, TypeOK, Pointer
  <2>2. /\ g \in Frame /\ g.nr = nr /\ g.at = "handler"
        /\ g.called = desc[nr].handler /\ g.parameter = desc[nr].parameter
    BY <1>1, <1>4, <2>1 DEF Frame, Places
  <2>3. QED
    BY <1>1, <1>2, <1>3, <2>2 DEF Following
<1>6. s \in Seq(Frame) /\ s # <<>> /\ s[1] = Top(c) /\ \A i \in DOMAIN s : i > 1 => s[i].at = "soft"
  <2>1. s \in Seq(Frame) /\ s # <<>> /\ \A i \in DOMAIN s : i > 1 => s[i].at = "soft"
    BY <1>1, <1>4 DEF IrqInd, Typed, TypeOK, InTask
  <2>2. QED
    BY <1>4, <2>1 DEF Top
<1>7. frames' = [frames EXCEPT ![c] = t]
  <2>1. frames' = [frames EXCEPT ![c][1] = [frames[c][1] EXCEPT !.at = "handler",
                                 !.called = desc[nr].handler,
                                 !.parameter = desc[nr].parameter]]
    BY DEF CallHandler
  <2>2. g = [s[1] EXCEPT !.at = "handler", !.called = desc[nr].handler,
                         !.parameter = desc[nr].parameter]
    BY <1>4, <1>6
  <2>3. QED
    BY <1>4, <2>1, <2>2
<1>8. /\ t \in Seq(Frame) /\ t # <<>> /\ DOMAIN t = DOMAIN s /\ Head(t) = g /\ t[1] = g
      /\ \A i \in DOMAIN s : i # 1 => t[i] = s[i]
  BY <1>4, <1>5, <1>6
<1>9. frames \in [CPU -> Seq(Frame)] /\ \A p \in CPU : \A i \in DOMAIN frames[p] :
        i > 1 => frames[p][i].at = "soft"
  BY DEF IrqInd, Typed, TypeOK
<1>10. /\ frames' \in [CPU -> Seq(Frame)] /\ frames'[c] = t
       /\ \A p \in CPU : p # c => frames'[p] = frames[p]
  BY <1>7, <1>8, <1>9
<1>11. Top(c)' = g /\ ~InTask(c)'
  BY <1>8, <1>10 DEF Top, InTask
<1>12. UNCHANGED <<irr, isr, edges, apic, if, soft, table>>
  BY DEF CallHandler, hardware
<1>13. Typed'
  <2>1. \A p \in CPU : \A i \in DOMAIN frames'[p] : i > 1 => frames'[p][i].at = "soft"
    <3>1. \A i \in DOMAIN t : i > 1 => t[i].at = "soft"
      BY <1>6, <1>8
    <3>2. QED
      BY <1>9, <1>10, <3>1
  <2>2. apic' \subseteq CPU /\ if' \subseteq apic' /\ irr' \in [CPU -> SUBSET Vectors]
        /\ isr' \in [CPU -> SUBSET Vectors] /\ soft' \in BOOLEAN
    BY <1>12 DEF IrqInd, Typed, TypeOK
  <2>3. QED
    BY <1>10, <1>12, <2>1, <2>2, FramesTyped DEF IrqInd
<1>14. Unacked(c)' <=> Unacked(c)
  BY <1>1, <1>5, <1>11 DEF Unacked, InTask
<1>15. \A irq \in Lines : InHand(irq)' => InHand(irq)
  <2>1. c # 0 => Top(0)' = Top(0) /\ (Unacked(0)' <=> Unacked(0))
    BY <1>10, VectorFacts DEF Top, Unacked
  <2>2. QED
    BY <1>5, <1>11, <1>12, <1>14, <2>1 DEF InHand
<1>16. Table' /\ InScript'
  BY <1>12, <1>15, TableStays DEF IrqInd
<1>17. \A p \in CPU : p # c => Processor(p)'
  BY <1>10, <1>12, SameProcessors DEF IrqInd
<1>18. Processor(c)'
  <2>1. /\ BootOnly(c) /\ Served(c) /\ irr[c] \cup isr[c] \subseteq gates
        /\ UNCHANGED <<irr, isr, gates, left, script, desc>>
    BY <1>12 DEF IrqInd, Processor, table
  <2>2. BootOnly(c)'
    <3>1. \A i \in DOMAIN t : i \in DOMAIN s /\ t[i].nr = s[i].nr
      BY <1>5, <1>6, <1>8
    <3>2. QED
      BY <1>4, <1>10, <2>1, <3>1 DEF BootOnly
  <2>3. Served(c)'
    BY <1>5, <1>11, <1>14, <2>1 DEF Served
  <2>4. Following(g)'
    <3>1. GatesSet => GatesSet'
      BY <2>1 DEF GatesSet
    <3>2. QED
      BY <1>5, <2>1, <3>1, FollowStays
  <2>5. Following(Top(c))' <=> Following(g)'
    BY <1>11 DEF Following
  <2>6. QED
    BY <2>1, <2>2, <2>3, <2>4, <2>5 DEF Processor
<1>19. QED
  BY <1>13, <1>16, <1>17, <1>18 DEF IrqInd

(* The way back: the last frame goes, and what lies under it is task code  *)
(* or the soft interrupts of another frame.                                *)
LEMMA Back ==
  ASSUME IrqInd, NEW c \in CPU, ~InTask(c), ~Unacked(c),
         frames' = [frames EXCEPT ![c] = Tail(@)],
         UNCHANGED <<table, hardware, soft>>
  PROVE  IrqInd'
<1>1. PICK s, t : s = frames[c] /\ t = Tail(s)
  OBVIOUS
<1>2. /\ s \in Seq(Frame) /\ s # <<>> /\ \A i \in DOMAIN s : i > 1 => s[i].at = "soft"
      /\ frames \in [CPU -> Seq(Frame)]
      /\ \A p \in CPU : \A i \in DOMAIN frames[p] : i > 1 => frames[p][i].at = "soft"
  BY <1>1 DEF IrqInd, Typed, TypeOK, InTask
<1>3. /\ t \in Seq(Frame)
      /\ \A i \in DOMAIN t : i + 1 \in DOMAIN s /\ i + 1 > 1 /\ t[i] = s[i + 1]
      /\ t # <<>> => Head(t) = s[2] /\ 2 \in DOMAIN s
  BY <1>1, <1>2, Popped
<1>4. /\ frames' \in [CPU -> Seq(Frame)] /\ frames'[c] = t
      /\ \A p \in CPU : p # c => frames'[p] = frames[p]
  BY <1>1, <1>2, <1>3
<1>5. \A i \in DOMAIN t : t[i].at = "soft"
  BY <1>2, <1>3
<1>6. t # <<>> => Head(t).at = "soft"
  BY <1>2, <1>3
<1>7. UNCHANGED <<irr, isr, edges, apic, if, soft, table>>
  BY DEF hardware
<1>8. Typed'
  <2>1. \A p \in CPU : \A i \in DOMAIN frames'[p] : i > 1 => frames'[p][i].at = "soft"
    BY <1>2, <1>4, <1>5
  <2>2. apic' \subseteq CPU /\ if' \subseteq apic' /\ irr' \in [CPU -> SUBSET Vectors]
        /\ isr' \in [CPU -> SUBSET Vectors] /\ soft' \in BOOLEAN
    BY <1>7 DEF IrqInd, Typed, TypeOK
  <2>3. QED
    BY <1>4, <1>7, <2>1, <2>2, FramesTyped DEF IrqInd
<1>9. ~Unacked(c)' /\ (~InTask(c)' => Top(c)'.at = "soft")
  BY <1>4, <1>6 DEF Unacked, InTask, Top
<1>10. \A irq \in Lines : InHand(irq)' => InHand(irq)
  <2>1. c # 0 => Top(0)' = Top(0) /\ (Unacked(0)' <=> Unacked(0))
    BY <1>4, VectorFacts DEF Top, Unacked
  <2>2. QED
    BY <1>7, <1>9, <2>1 DEF InHand
<1>11. Table' /\ InScript'
  BY <1>7, <1>10, TableStays DEF IrqInd
<1>12. \A p \in CPU : p # c => Processor(p)'
  BY <1>4, <1>7, SameProcessors DEF IrqInd
<1>13. Processor(c)'
  <2>1. /\ BootOnly(c) /\ Served(c) /\ irr[c] \cup isr[c] \subseteq gates
    BY DEF IrqInd, Processor
  <2>2. UNCHANGED <<irr, isr, gates, left, script, desc>>
    BY <1>7 DEF table
  <2>3. BootOnly(c)'
    BY <1>1, <1>3, <1>4, <2>1, <2>2 DEF BootOnly
  <2>4. Served(c)'
    BY <1>9, <2>1, <2>2 DEF Served
  <2>5. ~InTask(c)' => Following(Top(c))'
    BY <1>9 DEF Following
  <2>6. QED
    BY <2>1, <2>2, <2>3, <2>4, <2>5 DEF Processor
<1>14. QED
  BY <1>8, <1>11, <1>12, <1>13 DEF IrqInd

LEMMA ReturnStep ==
  ASSUME IrqInd, NEW c \in CPU, ret_from_intr(c)
  PROVE  IrqInd'
<1>1. ~InTask(c) /\ Top(c).at = "return" /\ Top(c) \in Frame /\ ~Unacked(c)
  BY InInterrupt DEF ret_from_intr, At, Unacked
<1>2. UNCHANGED <<table, hardware, soft>>
  BY DEF ret_from_intr
<1>3. CASE soft
  <2>1. PICK place \in Places \ {"entry"} : place = "soft" /\ Goto(c, place)
    BY <1>3 DEF ret_from_intr, Places
  <2>2. place \notin Middles /\ Following([Top(c) EXCEPT !.at = place])
    BY <1>1, <2>1 DEF Middles, Following, Frame
  <2>3. isr[c] \subseteq left
    BY <1>1 DEF IrqInd, Processor, Served
  <2>4. QED
    BY <1>1, <1>2, <2>1, <2>2, <2>3, Through
<1>4. CASE ~soft
  BY <1>1, <1>2, <1>4, Back DEF ret_from_intr
<1>5. QED
  BY <1>3, <1>4

LEMMA SoftirqStep ==
  ASSUME IrqInd, NEW c \in CPU, do_softirq(c)
  PROVE  IrqInd'
<1>1. ~InTask(c) /\ Top(c).at = "soft" /\ ~Unacked(c)
  BY DEF do_softirq, At, Unacked
<1>2. CASE soft
  <2>1. UNCHANGED <<table, hardware, frames>> /\ soft' = FALSE
    BY <1>2 DEF do_softirq
  <2>2. UNCHANGED <<irr, isr, edges, apic, if, table, frames>>
    BY <2>1 DEF hardware
  <2>3. Typed'
    <3>1. /\ frames' \in [CPU -> Seq(Frame)] /\ irr' \in [CPU -> SUBSET Vectors]
          /\ isr' \in [CPU -> SUBSET Vectors]
          /\ \A p \in CPU : \A i \in DOMAIN frames'[p] : i > 1 => frames'[p][i].at = "soft"
      BY <2>2 DEF IrqInd, Typed, TypeOK
    <3>2. apic' \subseteq CPU /\ if' \subseteq apic' /\ soft' \in BOOLEAN
      BY <2>1, <2>2 DEF IrqInd, Typed, TypeOK
    <3>3. QED
      BY <2>2, <3>1, <3>2, FramesTyped DEF IrqInd
  <2>4. \A p \in CPU : Top(p)' = Top(p) /\ (Unacked(p)' <=> Unacked(p)) /\ (InTask(p)' <=> InTask(p))
    BY <2>2 DEF Top, Unacked, InTask
  <2>5. \A irq \in Lines : InHand(irq)' => InHand(irq)
    BY <2>2, <2>4, VectorFacts DEF InHand
  <2>6. Table' /\ InScript'
    BY <2>2, <2>5, TableStays DEF IrqInd
  <2>7. \A p \in CPU : p # c => Processor(p)'
    BY <2>2, SameProcessors DEF IrqInd
  <2>8. Processor(c)'
    <3>1. Processor(c) /\ UNCHANGED <<gates, left, script, desc>>
      BY <2>2 DEF IrqInd, table
    <3>2. BootOnly(c)' /\ Served(c)'
      BY <2>2, <2>4, <3>1 DEF Processor, BootOnly, Served
    <3>3. Following(Top(c))'
      BY <1>1, <2>4 DEF Following
    <3>4. QED
      BY <2>2, <3>1, <3>2, <3>3 DEF Processor
  <2>9. QED
    BY <2>3, <2>6, <2>7, <2>8 DEF IrqInd
<1>3. CASE ~soft
  BY <1>1, <1>3, Back DEF do_softirq
<1>4. QED
  BY <1>2, <1>3

LEMMA InterruptSteps ==
  ASSUME IrqInd, NEW c \in CPU, InterruptStep(c)
  PROVE  IrqInd'
BY IpiStep, ExternalStep, CallStep, HandlerStep, ControllerStep, AckStep,
   ReturnStep, SoftirqStep DEF InterruptStep

-----------------------------------------------------------------------------
(***************************************************************************)
(* The hardware.                                                           *)
(***************************************************************************)
LEMMA DeliverStep ==
  ASSUME IrqInd, NEW c \in CPU, Deliver(c)
  PROVE  IrqInd'
<1>1. PICK nr, f :
        /\ nr = Highest(irr[c])
        /\ f = [nr |-> nr, at |-> "entry", called |-> NULL, parameter |-> NULL]
  OBVIOUS
<1>2. /\ irr \in [CPU -> SUBSET Vectors] /\ isr \in [CPU -> SUBSET Vectors]
      /\ irr[c] # {} /\ Open(c) /\ \A v \in isr[c] : Class(nr) > Class(v)
      /\ irr' = [irr EXCEPT ![c] = @ \ {nr}] /\ isr' = [isr EXCEPT ![c] = @ \cup {nr}]
      /\ frames' = [frames EXCEPT ![c] = <<f>> \o @]
      /\ UNCHANGED <<table, edges, apic, if, soft>>
  BY <1>1 DEF Deliver, IrqInd, Typed, TypeOK
<1>3. nr \in irr[c] /\ nr \in Vectors /\ nr \in gates
  <2>1. nr \in irr[c]
    BY <1>1, <1>2, HighestIs
  <2>2. QED
    BY <1>2, <2>1 DEF IrqInd, Processor
<1>4. f \in Frame /\ f.nr = nr /\ f.at = "entry"
  BY <1>1, <1>3 DEF Frame, Places, Pointer
<1>5. PICK s, t : s = frames[c] /\ t = <<f>> \o s
  OBVIOUS
<1>6. /\ s \in Seq(Frame) /\ \A i \in DOMAIN s : i > 1 => s[i].at = "soft"
      /\ frames \in [CPU -> Seq(Frame)]
      /\ \A p \in CPU : \A i \in DOMAIN frames[p] : i > 1 => frames[p][i].at = "soft"
  BY <1>5 DEF IrqInd, Typed, TypeOK
<1>7. s # <<>> => s[1].at = "soft" /\ ~Unacked(c)
  BY <1>2, <1>5, <1>6 DEF Open, InTask, Top, Unacked
<1>8. ~Unacked(c)
  BY <1>5, <1>7 DEF Unacked
<1>9. /\ t \in Seq(Frame) /\ t # <<>> /\ Head(t) = f
      /\ \A i \in DOMAIN t : IF i = 1 THEN t[i] = f ELSE i - 1 \in DOMAIN s /\ t[i] = s[i - 1]
  BY <1>4, <1>5, <1>6, Pushed
<1>10. /\ frames' \in [CPU -> Seq(Frame)] /\ frames'[c] = t
       /\ \A p \in CPU : p # c => frames'[p] = frames[p]
  BY <1>2, <1>5, <1>6, <1>9
<1>11. \A i \in DOMAIN t : i > 1 => t[i].at = "soft"
  <2>1. SUFFICES ASSUME NEW i \in DOMAIN t, i > 1 PROVE t[i].at = "soft"
    OBVIOUS
  <2>2. i - 1 \in DOMAIN s /\ t[i] = s[i - 1] /\ i \in Int /\ s # <<>>
    BY <1>6, <1>9, <2>1
  <2>3. i - 1 = 1 \/ i - 1 > 1
    BY <2>1, <2>2
  <2>4. QED
    BY <1>6, <1>7, <2>2, <2>3
<1>12. Typed'
  <2>1. \A p \in CPU : \A i \in DOMAIN frames'[p] : i > 1 => frames'[p][i].at = "soft"
    BY <1>6, <1>10, <1>11
  <2>2. apic' \subseteq CPU /\ if' \subseteq apic' /\ soft' \in BOOLEAN
    BY <1>2 DEF IrqInd, Typed, TypeOK
  <2>3. irr' \in [CPU -> SUBSET Vectors] /\ isr' \in [CPU -> SUBSET Vectors]
    BY <1>2, <1>3
  <2>4. QED
    BY <1>2, <1>10, <2>1, <2>2, <2>3, FramesTyped DEF IrqInd
<1>13. Top(c)' = f /\ ~InTask(c)' /\ Unacked(c)'
  BY <1>4, <1>9, <1>10 DEF Top, InTask, Unacked
<1>14. \A irq \in Lines : InHand(irq)' => InHand(irq)
  <2>1. c # 0 => /\ Top(0)' = Top(0) /\ (Unacked(0)' <=> Unacked(0)) /\ irr'[0] = irr[0]
    BY <1>2, <1>10, VectorFacts DEF Top, Unacked
  <2>2. c = 0 => irr'[0] \subseteq irr[0] /\ nr \in irr[0] /\ Top(0)'.nr = nr
    BY <1>2, <1>3, <1>4, <1>13
  <2>3. QED
    BY <2>1, <2>2 DEF InHand
<1>15. Table' /\ InScript'
  BY <1>2, <1>14, TableStays DEF IrqInd
<1>16. \A p \in CPU : p # c => Processor(p)'
  <2>1. \A p \in CPU : p # c => irr'[p] = irr[p] /\ isr'[p] = isr[p]
    BY <1>2
  <2>2. QED
    BY <1>2, <1>10, <2>1, SameProcessors DEF IrqInd
<1>17. Processor(c)'
  <2>1. /\ BootOnly(c) /\ Served(c) /\ irr[c] \cup isr[c] \subseteq gates
        /\ UNCHANGED <<gates, left, script, desc>>
    BY <1>2 DEF IrqInd, Processor, table
  <2>2. irr'[c] = irr[c] \ {nr} /\ isr'[c] = isr[c] \cup {nr}
    BY <1>2
  <2>3. BootOnly(c)'
    <3>1. c # 0 => nr \notin Lines
      BY <1>3, <2>1 DEF BootOnly
    <3>2. c # 0 => \A i \in DOMAIN t : t[i].nr \notin Lines
      BY <1>4, <1>5, <1>9, <2>1, <3>1 DEF BootOnly
    <3>3. QED
      BY <1>10, <2>1, <2>2, <3>2 DEF BootOnly
  <2>4. Served(c)'
    <3>1. isr[c] \subseteq left /\ isr[c] \subseteq Vectors
      BY <1>2, <1>8, <2>1 DEF Served
    <3>2. \A v \in isr'[c] \ {nr} : v \in left /\ Class(v) < Class(nr)
      BY <1>2, <1>3, <2>2, <3>1, Classes
    <3>3. QED
      BY <1>4, <1>13, <2>1, <2>2, <3>2 DEF Served
  <2>5. Following(Top(c))'
    BY <1>4, <1>13 DEF Following
  <2>6. irr'[c] \cup isr'[c] \subseteq gates'
    BY <1>3, <2>1, <2>2
  <2>7. QED
    BY <1>13, <2>3, <2>4, <2>5, <2>6 DEF Processor
<1>18. QED
  BY <1>12, <1>15, <1>16, <1>17 DEF IrqInd

(* A processor that starts: its local APIC or its IF is switched on.       *)
LEMMA Started ==
  ASSUME IrqInd, UNCHANGED <<table, irr, isr, edges, frames, soft>>,
         apic \subseteq apic', apic' \subseteq CPU, if' \subseteq apic'
  PROVE  IrqInd'
<1>1. /\ frames' \in [CPU -> Seq(Frame)] /\ irr' \in [CPU -> SUBSET Vectors]
      /\ isr' \in [CPU -> SUBSET Vectors] /\ soft' \in BOOLEAN
      /\ \A p \in CPU : \A i \in DOMAIN frames'[p] : i > 1 => frames'[p][i].at = "soft"
  BY DEF IrqInd, Typed, TypeOK
<1>2. Typed'
  BY <1>1, FramesTyped DEF IrqInd
<1>3. \A p \in CPU : Top(p)' = Top(p) /\ (Unacked(p)' <=> Unacked(p)) /\ (InTask(p)' <=> InTask(p))
  BY DEF Top, Unacked, InTask
<1>4. \A irq \in Lines : InHand(irq)' => InHand(irq)
  BY <1>3, VectorFacts DEF InHand
<1>5. Table' /\ InScript'
  BY <1>4, TableStays DEF IrqInd
<1>6. \A p \in CPU : Processor(p)'
  <2>1. SUFFICES ASSUME NEW p \in CPU PROVE Processor(p)'
    OBVIOUS
  <2>2. UNCHANGED <<gates, desc, left, script>> /\ (GatesSet => GatesSet') /\ Processor(p)
    BY DEF table, GatesSet, IrqInd
  <2>3. ~InTask(p) => Following(Top(p))'
    BY <1>3, <2>2 DEF Processor, Following
  <2>4. QED
    BY <2>2, <2>3, Elsewhere DEF IrqInd
<1>7. QED
  BY <1>2, <1>5, <1>6 DEF IrqInd

LEMMA EnableStep ==
  ASSUME IrqInd, NEW c \in CPU, EnableAPIC(c) \/ Sti(c)
  PROVE  IrqInd'
<1>1. apic \subseteq CPU /\ if \subseteq apic
  BY DEF IrqInd, Typed, TypeOK
<1>2. /\ UNCHANGED <<table, irr, isr, edges, frames, soft>>
      /\ apic \subseteq apic' /\ apic' \subseteq CPU /\ if' \subseteq apic'
  BY <1>1 DEF EnableAPIC, Sti
<1>3. QED
  BY <1>2, Started

LEMMA RaiseStep ==
  ASSUME IrqInd, NEW irq \in Lines, Raise(irq)
  PROVE  IrqInd'
<1>1. /\ ~rte[irq].low.masked /\ rte[irq].low.vector = irq /\ rte[irq].high = 0
      /\ 0 \in apic /\ irq \in Vectors /\ irq \in gates
      /\ irr \in [CPU -> SUBSET Vectors] /\ 0 \in CPU
  <2>1. ~rte[irq].low.masked /\ rte[irq].low.vector = irq
    BY DEF Raise, IrqInd, Table, OpenLineIsReady
  <2>2. rte[irq].high = 0
    BY DEF IrqInd, Typed, TypeOK
  <2>3. irq \in 32 .. 55 /\ irq \in Vectors /\ 0 \in CPU
    BY VectorFacts
  <2>4. QED
    BY <2>1, <2>2, <2>3 DEF IrqInd, Typed, TypeOK
<1>2. /\ UNCHANGED <<table, isr, apic, if, frames, soft>>
      /\ edges' \in [Lines -> Nat]
  <2>1. edges \in [Lines -> Nat] /\ edges' = [edges EXCEPT ![irq] = @ + 1]
    BY DEF Raise, IrqInd, Typed
  <2>2. QED
    BY <2>1 DEF Raise
<1>3. /\ irr' \in [CPU -> SUBSET Vectors] /\ irr'[0] = irr[0] \cup {irq}
      /\ \A p \in CPU : p # 0 => irr'[p] = irr[p]
  BY <1>1 DEF Raise, Request
<1>4. /\ frames' \in [CPU -> Seq(Frame)] /\ isr' \in [CPU -> SUBSET Vectors]
      /\ \A p \in CPU : \A i \in DOMAIN frames'[p] :
           i > 1 => frames'[p][i].at = "soft"
  BY <1>2 DEF IrqInd, Typed, TypeOK
<1>5. Typed'
  <2>1. TypeOK'
    <3>1. TypeOK /\ UNCHANGED <<gates, desc, rte, index, value, left, apic, if, soft, frames>>
      BY <1>2 DEF IrqInd, Typed, table
    <3>2. \A p \in CPU : \A i \in DOMAIN frames'[p] :
            frames'[p][i].nr \in Vectors /\ (i > 1 => frames'[p][i].at = "soft")
      BY <3>1 DEF TypeOK
    <3>3. QED
      BY <1>3, <1>4, <3>1, <3>2 DEF TypeOK
  <2>2. QED
    BY <1>2, <1>4, <2>1 DEF IrqInd, Typed, table
<1>6. \A p \in CPU : Top(p)' = Top(p) /\ (Unacked(p)' <=> Unacked(p)) /\ (InTask(p)' <=> InTask(p))
  BY <1>2 DEF Top, Unacked, InTask
<1>7. \A j \in Lines : InHand(j)' => InHand(j) \/ ~rte[j].low.masked
  BY <1>1, <1>3, <1>6 DEF InHand
<1>8. Table' /\ InScript'
  BY <1>2, <1>7, TableStays DEF IrqInd
<1>9. \A p \in CPU : p # 0 => Processor(p)'
  BY <1>1, <1>2, <1>3, SameProcessors DEF IrqInd
<1>10. Processor(0)'
  <2>1. /\ Processor(0) /\ UNCHANGED <<gates, left, script, desc>> /\ (GatesSet => GatesSet')
    BY <1>1, <1>2 DEF IrqInd, table, GatesSet
  <2>2. BootOnly(0)'
    BY DEF BootOnly
  <2>3. Served(0)'
    BY <1>1, <1>2, <1>6, <2>1 DEF Processor, Served
  <2>4. ~InTask(0)' => Following(Top(0))'
    BY <1>1, <1>6, <2>1 DEF Processor, Following
  <2>5. irr'[0] \cup isr'[0] \subseteq gates'
    BY <1>1, <1>2, <1>3, <2>1 DEF Processor
  <2>6. QED
    BY <2>2, <2>3, <2>4, <2>5 DEF Processor
<1>11. QED
  BY <1>5, <1>8, <1>9, <1>10 DEF IrqInd

-----------------------------------------------------------------------------
(***************************************************************************)
(* The calls of the drivers.                                               *)
(***************************************************************************)
Fields == {"controller", "handler", "parameter"}

(* Which accesses of register_irq are of which kind.                       *)
LEMMA RegisterKinds ==
  ASSUME NEW irq \in Lines, NEW n \in 0 .. 16
  PROVE  LET op == register_irq(irq)[n + 1]
         IN  /\ op.irq = irq
             /\ op.do \in Fields =>
                  \/ n = 0 /\ op.do = "controller" /\ op.arg = irq
                  \/ n = 1 /\ op.do = "handler" /\ op.arg = irq
                  \/ n = 2 /\ op.do = "parameter" /\ op.arg = Parameter(irq)
             /\ op.do = "select" => \/ n \in {4, 10, 13} /\ op.arg = "low"
                                    \/ n \in {6, 8, 15} /\ op.arg = "high"
             /\ op.do = "load" => n \in {9, 11}
             /\ op.do = "store" => n \in {5, 7, 14, 16}
             /\ op.do = "value" => n = 3 /\ op.arg = Entry(irq)
             /\ op.do = "mask" => n = 12 /\ op = Unmask(irq)
             /\ op.do \notin {"gates", "wait", "send"}
<1>1. PICK op : op = register_irq(irq)[n + 1]
  OBVIOUS
<1>2. ASSUME n = 0
      PROVE  op.do = "controller" /\ op.irq = irq /\ op.arg = irq
  <2>1. op = Access("controller", irq, irq)
    BY <1>1, <1>2, RegisterOps
  <2>2. QED
    BY <2>1 DEF Access
<1>3. ASSUME n = 1
      PROVE  op.do = "handler" /\ op.irq = irq /\ op.arg = irq
  <2>1. op = Access("handler", irq, irq)
    BY <1>1, <1>3, RegisterOps
  <2>2. QED
    BY <2>1 DEF Access
<1>4. ASSUME n = 2
      PROVE  op.do = "parameter" /\ op.irq = irq /\ op.arg = Parameter(irq)
  <2>1. op = Access("parameter", irq, Parameter(irq))
    BY <1>1, <1>4, RegisterOps
  <2>2. QED
    BY <2>1 DEF Access
<1>5. ASSUME n = 3
      PROVE  op.do = "value" /\ op.irq = irq /\ op.arg = Entry(irq)
  <2>1. op = Access("value", irq, Entry(irq))
    BY <1>1, <1>5, RegisterOps
  <2>2. QED
    BY <2>1 DEF Access
<1>6. ASSUME n = 4 \/ n = 10 \/ n = 13
      PROVE  op.do = "select" /\ op.irq = irq /\ op.arg = "low"
  <2>1. /\ register_irq(irq)[5] = Access("select", irq, "low")
        /\ register_irq(irq)[11] = Access("select", irq, "low")
        /\ register_irq(irq)[14] = Access("select", irq, "low")
    BY RegisterOps
  <2>2. n + 1 \in {5, 11, 14}
    BY <1>6
  <2>3. op = Access("select", irq, "low")
    BY <1>1, <2>1, <2>2
  <2>4. QED
    BY <2>3 DEF Access
<1>7. ASSUME n = 6 \/ n = 8 \/ n = 15
      PROVE  op.do = "select" /\ op.irq = irq /\ op.arg = "high"
  <2>1. /\ register_irq(irq)[7] = Access("select", irq, "high")
        /\ register_irq(irq)[9] = Access("select", irq, "high")
        /\ register_irq(irq)[16] = Access("select", irq, "high")
    BY RegisterOps
  <2>2. n + 1 \in {7, 9, 16}
    BY <1>7
  <2>3. op = Access("select", irq, "high")
    BY <1>1, <2>1, <2>2
  <2>4. QED
    BY <2>3 DEF Access
<1>8. ASSUME n = 5 \/ n = 7 \/ n = 14 \/ n = 16
      PROVE  op.do = "store" /\ op.irq = irq
  <2>1. /\ register_irq(irq)[6] = Access("store", irq, NULL)
        /\ register_irq(irq)[8] = Access("store", irq, NULL)
        /\ register_irq(irq)[15] = Access("store", irq, NULL)
        /\ register_irq(irq)[17] = Access("store", irq, NULL)
    BY RegisterOps
  <2>2. n + 1 \in {6, 8, 15, 17}
    BY <1>8
  <2>3. op = Access("store", irq, NULL)
    BY <1>1, <2>1, <2>2
  <2>4. QED
    BY <2>3 DEF Access
<1>9. ASSUME n = 9 \/ n = 11
      PROVE  op.do = "load" /\ op.irq = irq
  <2>1. /\ register_irq(irq)[10] = Access("load", irq, NULL)
        /\ register_irq(irq)[12] = Access("load", irq, NULL)
    BY RegisterOps
  <2>2. n + 1 \in {10, 12}
    BY <1>9
  <2>3. op = Access("load", irq, NULL)
    BY <1>1, <2>1, <2>2
  <2>4. QED
    BY <2>3 DEF Access
<1>10. ASSUME n = 12
      PROVE  op = Unmask(irq) /\ op.do = "mask" /\ op.irq = irq
  <2>1. op = Unmask(irq)
    BY <1>1, <1>10, RegisterOps
  <2>2. QED
    BY <2>1 DEF Access, Unmask
<1>11. /\ n \in 0 .. 16
      /\ \/ n = 0 \/ n = 1 \/ n = 2 \/ n = 3 \/ n = 4 \/ n = 5 \/ n = 6 \/ n = 7 \/ n = 8
         \/ n = 9 \/ n = 10 \/ n = 11 \/ n = 12 \/ n = 13 \/ n = 14 \/ n = 15 \/ n = 16
  OBVIOUS
<1>12. QED
  BY <1>1, <1>2, <1>3, <1>4, <1>5, <1>6, <1>7, <1>8, <1>9, <1>10, <1>11 DEF Fields

(* The same of unregister_irq.                                             *)
LEMMA UnregisterKinds ==
  ASSUME NEW irq \in Lines, NEW n \in 0 .. 16
  PROVE  LET op == unregister_irq(irq)[n + 1]
         IN  /\ op.irq = irq
             /\ op.do \in Fields => /\ op.arg = NULL
                                    /\ \/ n = 14 /\ op.do = "controller"
                                       \/ n = 15 /\ op.do = "handler"
                                       \/ n = 16 /\ op.do = "parameter"
             /\ op.do = "select" => \/ n \in {2, 5, 10} /\ op.arg = "low"
                                    \/ n \in {0, 7, 12} /\ op.arg = "high"
             /\ op.do = "load" => n \in {1, 3}
             /\ op.do = "store" => n \in {6, 8, 11, 13}
             /\ op.do = "value" => n = 9 /\ op.arg = Masked(0)
             /\ op.do = "mask" => n = 4 /\ op = Mask(irq)
             /\ op.do \notin {"gates", "wait", "send"}
<1>1. PICK op : op = unregister_irq(irq)[n + 1]
  OBVIOUS
<1>2. ASSUME n = 14
      PROVE  op.do = "controller" /\ op.irq = irq /\ op.arg = NULL
  <2>1. op = Access("controller", irq, NULL)
    BY <1>1, <1>2, UnregisterOps
  <2>2. QED
    BY <2>1 DEF Access
<1>3. ASSUME n = 15
      PROVE  op.do = "handler" /\ op.irq = irq /\ op.arg = NULL
  <2>1. op = Access("handler", irq, NULL)
    BY <1>1, <1>3, UnregisterOps
  <2>2. QED
    BY <2>1 DEF Access
<1>4. ASSUME n = 16
      PROVE  op.do = "parameter" /\ op.irq = irq /\ op.arg = NULL
  <2>1. op = Access("parameter", irq, NULL)
    BY <1>1, <1>4, UnregisterOps
  <2>2. QED
    BY <2>1 DEF Access
<1>5. ASSUME n = 9
      PROVE  op.do = "value" /\ op.irq = irq /\ op.arg = Masked(0)
  <2>1. op = Access("value", irq, Masked(0))
    BY <1>1, <1>5, UnregisterOps
  <2>2. QED
    BY <2>1 DEF Access, Mask
<1>6. ASSUME n = 2 \/ n = 5 \/ n = 10
      PROVE  op.do = "select" /\ op.irq = irq /\ op.arg = "low"
  <2>1. /\ unregister_irq(irq)[3] = Access("select", irq, "low")
        /\ unregister_irq(irq)[6] = Access("select", irq, "low")
        /\ unregister_irq(irq)[11] = Access("select", irq, "low")
    BY UnregisterOps
  <2>2. n + 1 \in {3, 6, 11}
    BY <1>6
  <2>3. op = Access("select", irq, "low")
    BY <1>1, <2>1, <2>2
  <2>4. QED
    BY <2>3 DEF Access
<1>7. ASSUME n = 0 \/ n = 7 \/ n = 12
      PROVE  op.do = "select" /\ op.irq = irq /\ op.arg = "high"
  <2>1. /\ unregister_irq(irq)[1] = Access("select", irq, "high")
        /\ unregister_irq(irq)[8] = Access("select", irq, "high")
        /\ unregister_irq(irq)[13] = Access("select", irq, "high")
    BY UnregisterOps
  <2>2. n + 1 \in {1, 8, 13}
    BY <1>7
  <2>3. op = Access("select", irq, "high")
    BY <1>1, <2>1, <2>2
  <2>4. QED
    BY <2>3 DEF Access
<1>8. ASSUME n = 6 \/ n = 8 \/ n = 11 \/ n = 13
      PROVE  op.do = "store" /\ op.irq = irq
  <2>1. /\ unregister_irq(irq)[7] = Access("store", irq, NULL)
        /\ unregister_irq(irq)[9] = Access("store", irq, NULL)
        /\ unregister_irq(irq)[12] = Access("store", irq, NULL)
        /\ unregister_irq(irq)[14] = Access("store", irq, NULL)
    BY UnregisterOps
  <2>2. n + 1 \in {7, 9, 12, 14}
    BY <1>8
  <2>3. op = Access("store", irq, NULL)
    BY <1>1, <2>1, <2>2
  <2>4. QED
    BY <2>3 DEF Access
<1>9. ASSUME n = 1 \/ n = 3
      PROVE  op.do = "load" /\ op.irq = irq
  <2>1. /\ unregister_irq(irq)[2] = Access("load", irq, NULL)
        /\ unregister_irq(irq)[4] = Access("load", irq, NULL)
    BY UnregisterOps
  <2>2. n + 1 \in {2, 4}
    BY <1>9
  <2>3. op = Access("load", irq, NULL)
    BY <1>1, <2>1, <2>2
  <2>4. QED
    BY <2>3 DEF Access
<1>10. ASSUME n = 4
      PROVE  op = Mask(irq) /\ op.do = "mask" /\ op.irq = irq
  <2>1. op = Mask(irq)
    BY <1>1, <1>10, UnregisterOps
  <2>2. QED
    BY <2>1 DEF Access, Mask
<1>11. /\ n \in 0 .. 16
      /\ \/ n = 0 \/ n = 1 \/ n = 2 \/ n = 3 \/ n = 4 \/ n = 5 \/ n = 6 \/ n = 7 \/ n = 8
         \/ n = 9 \/ n = 10 \/ n = 11 \/ n = 12 \/ n = 13 \/ n = 14 \/ n = 15 \/ n = 16
  OBVIOUS
<1>12. QED
  BY <1>1, <1>2, <1>3, <1>4, <1>5, <1>6, <1>7, <1>8, <1>9, <1>10, <1>11 DEF Fields

(* And of what the boot does between the two drivers.                      *)
LEMMA MiddleKinds ==
  ASSUME NEW n \in 0 .. 6
  PROVE  LET op == Middle[n + 1]
         IN  /\ op.do \in Fields => /\ op.irq = TickIPI /\ n \in 1 .. 3
                                    /\ op.arg = NULL \/ (op.do = "handler" /\ op.arg = TickIPI)
             /\ op.do = "gates" => n = 0 /\ op.arg = 200 .. 209
             /\ op.do = "wait" => n = 4
             /\ op.do = "send" => n \in {5, 6} /\ op.arg = 1 /\ op.irq \in IPIs
             /\ op.do \notin {"select", "load", "store", "value", "mask"}
<1>1. n = 0 \/ n = 1 \/ n = 2 \/ n = 3 \/ n = 4 \/ n = 5 \/ n = 6
  OBVIOUS
<1>2. TickIPI \in IPIs /\ TickIPI + 1 \in IPIs
  BY VectorFacts
<1>3. QED
  <2>1. CASE n = 0
    BY <2>1, MiddleOps DEF Access, Fields
  <2>2. CASE n \in 1 .. 3
    BY <2>2, MiddleOps DEF Access, Fields
  <2>3. CASE n = 4
    BY <2>3, MiddleOps DEF Access, Fields
  <2>4. CASE n \in {5, 6}
    BY <1>2, <2>4, MiddleOps DEF Access, Fields
  <2>5. QED
    BY <1>1, <2>1, <2>2, <2>3, <2>4

InRegister(irq, n)   == Head(script[0]) = register_irq(irq)[n + 1] /\ Registering(irq, n)
InUnregister(irq, n) == Head(script[0]) = unregister_irq(irq)[n + 1] /\ Unregistering(irq, n)
InMiddle(n)          == /\ Head(script[0]) = Middle[n + 1] /\ (n >= 1 => GatesSet)
                        /\ Quiet(HPET)

(* An access is one of a driver's call or of the boot, and belongs to the  *)
(* boot processor.                                                         *)
LEMMA Position ==
  ASSUME IrqInd, NEW c \in CPU, script[c] # <<>>
  PROVE  /\ c = 0
         /\ \/ \E irq \in Lines, n \in 0 .. 16 : InRegister(irq, n)
            \/ \E irq \in Lines, n \in 0 .. 16 : InUnregister(irq, n)
            \/ \E n \in 0 .. 6 : InMiddle(n)
<1>1. c = 0
  BY DEF IrqInd, Processor, BootOnly
<1>2. script[0] # <<>>
  BY <1>1
<1>3. Keyboard \in Lines /\ HPET \in Lines
  BY VectorFacts
<1>4. \A irq \in Lines : /\ register_irq(irq) \in Seq(Ops) /\ Len(register_irq(irq)) = 17
                         /\ unregister_irq(irq) \in Seq(Ops) /\ Len(unregister_irq(irq)) = 17
  BY RegisterOps, UnregisterOps
<1>5. \A P, Q \in Seq(Ops) : \A n \in 0 .. Len(P) - 1 : Head(Rest(P, n) \o Q) = P[n + 1]
  BY RestSteps
<1>6. \A P \in Seq(Ops) : \A n \in 0 .. Len(P) - 1 : Head(Rest(P, n)) = P[n + 1]
  BY DEF Rest
<1>7. CASE \E n \in 0 .. 16 :
             /\ script[0] = Rest(register_irq(Keyboard), n) \o (Middle \o register_irq(HPET))
             /\ Registering(Keyboard, n)
  <2>1. PICK n \in 0 .. 16 :
             /\ script[0] = Rest(register_irq(Keyboard), n) \o (Middle \o register_irq(HPET))
             /\ Registering(Keyboard, n)
    BY <1>7
  <2>2. Middle \o register_irq(HPET) \in Seq(Ops)
    BY BootParts
  <2>3. n \in 0 .. Len(register_irq(Keyboard)) - 1 /\ register_irq(Keyboard) \in Seq(Ops)
    <3>1. register_irq(Keyboard) \in Seq(Ops) /\ Len(register_irq(Keyboard)) = 17
      BY <1>3, <1>4
    <3>2. QED
      BY <3>1
  <2>4. Head(script[0]) = register_irq(Keyboard)[n + 1]
    BY <1>5, <2>1, <2>2, <2>3
  <2>5. QED
    BY <1>1, <1>3, <2>1, <2>4 DEF InRegister
<1>8. CASE \E n \in 0 .. 6 :
             /\ script[0] = Rest(Middle, n) \o register_irq(HPET)
             /\ n >= 1 => GatesSet
             /\ Quiet(HPET)
  <2>1. PICK n \in 0 .. 6 :
             /\ script[0] = Rest(Middle, n) \o register_irq(HPET)
             /\ n >= 1 => GatesSet
             /\ Quiet(HPET)
    BY <1>8
  <2>2. n \in 0 .. Len(Middle) - 1 /\ Middle \in Seq(Ops) /\ register_irq(HPET) \in Seq(Ops)
    BY <1>3, <1>4, MiddleOps
  <2>3. Head(script[0]) = Middle[n + 1]
    BY <1>5, <2>1, <2>2
  <2>4. QED
    BY <1>1, <2>1, <2>3 DEF InMiddle
<1>9. CASE \E irq \in Lines, n \in 0 .. 16 :
             script[0] = Rest(register_irq(irq), n) /\ Registering(irq, n)
  <2>1. PICK irq \in Lines, n \in 0 .. 16 :
             script[0] = Rest(register_irq(irq), n) /\ Registering(irq, n)
    BY <1>9
  <2>2. register_irq(irq) \in Seq(Ops) /\ Len(register_irq(irq)) = 17
    BY <1>4
  <2>3. n \in 0 .. Len(register_irq(irq)) - 1
    BY <2>2
  <2>4. Head(script[0]) = register_irq(irq)[n + 1]
    BY <1>6, <2>1, <2>2, <2>3
  <2>5. QED
    BY <1>1, <2>1, <2>4 DEF InRegister
<1>10. CASE \E irq \in Lines, n \in 0 .. 16 :
             script[0] = Rest(unregister_irq(irq), n) /\ Unregistering(irq, n)
  <2>1. PICK irq \in Lines, n \in 0 .. 16 :
             script[0] = Rest(unregister_irq(irq), n) /\ Unregistering(irq, n)
    BY <1>10
  <2>2. unregister_irq(irq) \in Seq(Ops) /\ Len(unregister_irq(irq)) = 17
    BY <1>4
  <2>3. n \in 0 .. Len(unregister_irq(irq)) - 1
    BY <2>2
  <2>4. Head(script[0]) = unregister_irq(irq)[n + 1]
    BY <1>6, <2>1, <2>2, <2>3
  <2>5. QED
    BY <1>1, <2>1, <2>4 DEF InUnregister
<1>11. QED
  BY <1>2, <1>7, <1>8, <1>9, <1>10 DEF IrqInd, InScript

(* An access done, the script is at the next place of the same call, or at *)
(* the beginning of what comes after it.                                   *)
LEMMA Advance ==
  ASSUME IrqInd, script[0] # <<>>, script' = [script EXCEPT ![0] = Tail(@)],
         \A irq \in Lines, n \in 0 .. 16 : InRegister(irq, n) =>
           /\ n < 16 => Registering(irq, n + 1)'
           /\ irq # HPET /\ Quiet(HPET) => Quiet(HPET)',
         \A irq \in Lines, n \in 0 .. 16 : InUnregister(irq, n) =>
           (n < 16 => Unregistering(irq, n + 1)'),
         \A n \in 0 .. 6 : InMiddle(n) => GatesSet' /\ Quiet(HPET)'
  PROVE  InScript'
<1>1. script'[0] = Tail(script[0])
  BY VectorFacts DEF IrqInd, Typed
<1>2. Keyboard \in Lines /\ HPET \in Lines /\ Keyboard # HPET
  BY VectorFacts
<1>3. \A irq \in Lines : /\ register_irq(irq) \in Seq(Ops) /\ Len(register_irq(irq)) = 17
                         /\ unregister_irq(irq) \in Seq(Ops) /\ Len(unregister_irq(irq)) = 17
  BY RegisterOps, UnregisterOps
<1>4. \A P \in Seq(Ops) : \A n \in 0 .. Len(P) - 1 :
        /\ Head(Rest(P, n)) = P[n + 1] /\ Tail(Rest(P, n)) = Rest(P, n + 1)
        /\ Rest(P, Len(P)) = <<>>
  <2>1. \A P \in Seq(Ops) : \A n \in 0 .. Len(P) - 1 : Head(Rest(P, n)) = P[n + 1]
    BY DEF Rest
  <2>2. QED
    BY <2>1, RestTails
<1>a. \A P, Q \in Seq(Ops) : \A n \in 0 .. Len(P) - 1 :
        Head(Rest(P, n) \o Q) = P[n + 1] /\ Tail(Rest(P, n) \o Q) = Rest(P, n + 1) \o Q
  BY RestSteps
<1>5. CASE \E n \in 0 .. 16 :
             /\ script[0] = Rest(register_irq(Keyboard), n) \o (Middle \o register_irq(HPET))
             /\ Registering(Keyboard, n) /\ Quiet(HPET)
  <2>1. PICK n \in 0 .. 16 :
             /\ script[0] = Rest(register_irq(Keyboard), n) \o (Middle \o register_irq(HPET))
             /\ Registering(Keyboard, n) /\ Quiet(HPET)
    BY <1>5
  <2>2. PICK P, Q : P = register_irq(Keyboard) /\ Q = Middle \o register_irq(HPET)
    OBVIOUS
  <2>3. P \in Seq(Ops) /\ Len(P) = 17 /\ Q \in Seq(Ops)
    BY <1>2, <1>3, <2>2, BootParts
  <2>4. n \in 0 .. Len(P) - 1
    BY <2>3
  <2>5. Head(script[0]) = P[n + 1] /\ script'[0] = Rest(P, n + 1) \o Q
    <3>1. script[0] = Rest(P, n) \o Q
      BY <2>1, <2>2
    <3>2. /\ Head(Rest(P, n) \o Q) = P[n + 1]
          /\ Tail(Rest(P, n) \o Q) = Rest(P, n + 1) \o Q
      BY <1>a, <2>3, <2>4, Zenon
    <3>3. QED
      BY <1>1, <3>1, <3>2, Zenon
  <2>6. InRegister(Keyboard, n)
    BY <2>1, <2>2, <2>5 DEF InRegister
  <2>7. (n < 16 => Registering(Keyboard, n + 1)') /\ Quiet(HPET)'
    BY <1>2, <2>1, <2>6
  <2>8. CASE n < 16
    <3>1. n + 1 \in 0 .. 16 /\ Registering(Keyboard, n + 1)'
      BY <2>7, <2>8
    <3>2. QED
      BY <2>2, <2>5, <2>7, <3>1 DEF InScript
  <2>9. CASE n = 16
    <3>1. script'[0] = Rest(P, Len(P)) \o Q
      <4>1. n + 1 = Len(P)
        BY <2>3, <2>9
      <4>2. QED
        BY <2>5, <4>1, Zenon
    <3>2. script'[0] = Q
      BY <2>3, <3>1, RestEnds
    <3>3. Rest(Middle, 0) = Middle
      BY MiddleOps, RestEnds
    <3>4. script'[0] = Rest(Middle, 0) \o register_irq(HPET)
      BY <2>2, <3>2, <3>3
    <3>5. 0 \in 0 .. 6 /\ ~(0 >= 1)
      OBVIOUS
    <3>6. QED
      BY <2>7, <3>4, <3>5 DEF InScript
  <2>10. QED
    BY <2>8, <2>9
<1>6. CASE \E n \in 0 .. 6 :
             /\ script[0] = Rest(Middle, n) \o register_irq(HPET)
             /\ n >= 1 => GatesSet
             /\ Quiet(HPET)
  <2>1. PICK n \in 0 .. 6 :
             /\ script[0] = Rest(Middle, n) \o register_irq(HPET)
             /\ n >= 1 => GatesSet
             /\ Quiet(HPET)
    BY <1>6
  <2>2. PICK P, Q : P = Middle /\ Q = register_irq(HPET)
    OBVIOUS
  <2>3. P \in Seq(Ops) /\ Len(P) = 7 /\ Q \in Seq(Ops)
    BY <1>2, <1>3, <2>2, MiddleOps
  <2>4. n \in 0 .. Len(P) - 1
    BY <2>3
  <2>5. Head(script[0]) = P[n + 1] /\ script'[0] = Rest(P, n + 1) \o Q
    <3>1. script[0] = Rest(P, n) \o Q
      BY <2>1, <2>2
    <3>2. /\ Head(Rest(P, n) \o Q) = P[n + 1]
          /\ Tail(Rest(P, n) \o Q) = Rest(P, n + 1) \o Q
      BY <1>a, <2>3, <2>4, Zenon
    <3>3. QED
      BY <1>1, <3>1, <3>2, Zenon
  <2>6. InMiddle(n)
    BY <2>1, <2>2, <2>5 DEF InMiddle
  <2>7. GatesSet' /\ Quiet(HPET)'
    BY <2>6
  <2>8. CASE n < 6
    <3>1. n + 1 \in 0 .. 6
      BY <2>8
    <3>2. QED
      BY <2>2, <2>5, <2>7, <3>1 DEF InScript
  <2>9. CASE n = 6
    <3>1. script'[0] = Rest(P, Len(P)) \o Q
      <4>1. n + 1 = Len(P)
        BY <2>3, <2>9
      <4>2. QED
        BY <2>5, <4>1, Zenon
    <3>2. script'[0] = Q
      BY <2>3, <3>1, RestEnds
    <3>3. script'[0] = Rest(register_irq(HPET), 0)
      BY <2>2, <2>3, <3>2, RestEnds
    <3>4. Registering(HPET, 0)'
      BY <2>7 DEF Registering
    <3>5. 0 \in 0 .. 16
      OBVIOUS
    <3>6. QED
      BY <1>2, <3>3, <3>4, <3>5 DEF InScript
  <2>10. QED
    BY <2>8, <2>9
<1>7. CASE \E irq \in Lines, n \in 0 .. 16 :
             script[0] = Rest(register_irq(irq), n) /\ Registering(irq, n)
  <2>1. PICK irq \in Lines, n \in 0 .. 16 :
             script[0] = Rest(register_irq(irq), n) /\ Registering(irq, n)
    BY <1>7
  <2>2. PICK P : P = register_irq(irq)
    OBVIOUS
  <2>3. P \in Seq(Ops) /\ Len(P) = 17 /\ n \in 0 .. Len(P) - 1
    <3>1. P \in Seq(Ops) /\ Len(P) = 17
      BY <1>3, <2>2
    <3>2. QED
      BY <3>1
  <2>4. Head(script[0]) = P[n + 1] /\ script'[0] = Rest(P, n + 1) /\ Rest(P, Len(P)) = <<>>
    BY <1>1, <1>4, <2>1, <2>2, <2>3
  <2>5. n < 16 => Registering(irq, n + 1)'
    BY <2>1, <2>2, <2>4 DEF InRegister
  <2>6. CASE n < 16
    <3>1. n + 1 \in 0 .. 16 /\ Registering(irq, n + 1)'
      BY <2>5, <2>6
    <3>2. QED
      BY <2>2, <2>4, <3>1 DEF InScript
  <2>7. CASE n = 16
    <3>1. script'[0] = <<>>
      BY <2>3, <2>4, <2>7
    <3>2. QED
      BY <3>1 DEF InScript
  <2>8. QED
    BY <2>6, <2>7
<1>8. CASE \E irq \in Lines, n \in 0 .. 16 :
             script[0] = Rest(unregister_irq(irq), n) /\ Unregistering(irq, n)
  <2>1. PICK irq \in Lines, n \in 0 .. 16 :
             script[0] = Rest(unregister_irq(irq), n) /\ Unregistering(irq, n)
    BY <1>8
  <2>2. PICK P : P = unregister_irq(irq)
    OBVIOUS
  <2>3. P \in Seq(Ops) /\ Len(P) = 17 /\ n \in 0 .. Len(P) - 1
    <3>1. P \in Seq(Ops) /\ Len(P) = 17
      BY <1>3, <2>2
    <3>2. QED
      BY <3>1
  <2>4. Head(script[0]) = P[n + 1] /\ script'[0] = Rest(P, n + 1) /\ Rest(P, Len(P)) = <<>>
    BY <1>1, <1>4, <2>1, <2>2, <2>3
  <2>5. n < 16 => Unregistering(irq, n + 1)'
    BY <2>1, <2>2, <2>4 DEF InUnregister
  <2>6. CASE n < 16
    <3>1. n + 1 \in 0 .. 16 /\ Unregistering(irq, n + 1)'
      BY <2>5, <2>6
    <3>2. QED
      BY <2>2, <2>4, <3>1 DEF InScript
  <2>7. CASE n = 16
    <3>1. script'[0] = <<>>
      BY <2>3, <2>4, <2>7
    <3>2. QED
      BY <3>1 DEF InScript
  <2>8. QED
    BY <2>6, <2>7
<1>9. QED
  BY <1>5, <1>6, <1>7, <1>8 DEF IrqInd, InScript

-----------------------------------------------------------------------------
LEMMA Accessed ==
  ASSUME IrqInd, NEW c \in CPU, NEW do, Accessing(c, do)
  PROVE  /\ c = 0 /\ frames[0] = <<>> /\ script[0] # <<>> /\ Head(script[0]).do \in do
         /\ script' = [script EXCEPT ![0] = Tail(@)]
         /\ script' \in [CPU -> Seq(Ops)]
         /\ \A p \in CPU : p # 0 => script'[p] = script[p]
         /\ \/ \E irq \in Lines, n \in 0 .. 16 : InRegister(irq, n)
            \/ \E irq \in Lines, n \in 0 .. 16 : InUnregister(irq, n)
            \/ \E n \in 0 .. 6 : InMiddle(n)
<1>1. script[c] # <<>> /\ frames[c] = <<>>
  BY DEF Accessing, InTask
<1>2. /\ c = 0
      /\ \/ \E irq \in Lines, n \in 0 .. 16 : InRegister(irq, n)
         \/ \E irq \in Lines, n \in 0 .. 16 : InUnregister(irq, n)
         \/ \E n \in 0 .. 6 : InMiddle(n)
  BY <1>1, Position
<1>3. script \in [CPU -> Seq(Ops)] /\ 0 \in CPU
  BY VectorFacts DEF IrqInd, Typed
<1>4. script' = [script EXCEPT ![0] = Tail(@)] /\ Tail(script[0]) \in Seq(Ops)
  BY <1>1, <1>2, <1>3 DEF Accessing
<1>5. QED
  BY <1>1, <1>2, <1>3, <1>4 DEF Accessing

\* The processors after an access: only task code has moved.
LEMMA TaskProcessors ==
  ASSUME IrqInd, UNCHANGED <<frames, isr>>,
         \A p \in CPU : irr'[p] \subseteq irr[p] \cup (IPIs \cap gates'),
         \A p \in CPU : p # 0 => script'[p] = script[p],
         gates \subseteq gates', left \subseteq left',
         \A p \in CPU : ~InTask(p) => Following(Top(p))'
  PROVE  \A p \in CPU : Processor(p)'
BY Elsewhere DEF IrqInd

LEMMA SameFollowing ==
  ASSUME IrqInd, UNCHANGED <<frames, desc>>, gates \subseteq gates'
  PROVE  \A p \in CPU : ~InTask(p) => Following(Top(p))'
<1>1. SUFFICES ASSUME NEW p \in CPU, ~InTask(p) PROVE Following(Top(p))'
  OBVIOUS
<1>2. Following(Top(p)) /\ Top(p)' = Top(p) /\ (GatesSet => GatesSet')
  BY <1>1 DEF IrqInd, Processor, Top, GatesSet
<1>3. QED
  BY <1>2 DEF Following

\* A step of task code that leaves descriptors, entries and interrupts alone.
LEMMA Calm ==
  ASSUME IrqInd,
         UNCHANGED <<gates, desc, rte, left, hardware, frames, soft>>,
         script' \in [CPU -> Seq(Ops)],
         \A p \in CPU : p # 0 => script'[p] = script[p],
         index' \in Lines \X {"low", "high"}, value' \in [CPU -> RTE],
         InScript'
  PROVE  IrqInd'
<1>1. UNCHANGED <<irr, isr, edges, apic, if>>
  BY DEF hardware
<1>2. Typed'
  <2>1. TypeOK'
    BY <1>1 DEF IrqInd, Typed, TypeOK, RTE, Half0
  <2>2. QED
    BY <1>1, <2>1 DEF IrqInd, Typed
<1>3. Table'
  <2>1. Unacked(0)' <=> Unacked(0)
    BY DEF Unacked, Top
  <2>2. GatesFirst'
    BY DEF IrqInd, Table, GatesFirst, GatesSet
  <2>3. Servable'
    BY <1>1, <2>1 DEF IrqInd, Table, Servable, InHand, Top
  <2>4. OpenLineIsReady'
    BY <1>1 DEF IrqInd, Table, OpenLineIsReady
  <2>5. QED
    BY <2>2, <2>3, <2>4 DEF Table
<1>4. \A p \in CPU : Processor(p)'
  <2>1. \A p \in CPU : ~InTask(p) => Following(Top(p))'
    BY SameFollowing
  <2>2. QED
    BY <1>1, <2>1, TaskProcessors
<1>5. QED
  BY <1>2, <1>3, <1>4 DEF IrqInd

LEMMA Private ==
  ASSUME IrqInd, NEW c \in CPU, NEW do, Accessing(c, do),
         UNCHANGED <<gates, desc, rte, left, hardware, frames, soft>>,
         index' \in Lines \X {"low", "high"}, value' \in [CPU -> RTE],
         InScript'
  PROVE  IrqInd'
BY Accessed, Calm

\* Lines are as quiet as before when the entries and requests are the same.
LEMMA SameQuiet ==
  ASSUME UNCHANGED <<rte, irr, frames>>, NEW irq
  PROVE  Quiet(irq)' <=> Quiet(irq)
BY DEF Quiet, InHand, Unacked, Top

LEMMA SelectStep ==
  ASSUME IrqInd, NEW c \in CPU, Select(c)
  PROVE  IrqInd'
<1>1. /\ c = 0 /\ script[0] # <<>> /\ script' = [script EXCEPT ![0] = Tail(@)]
      /\ Accessing(c, {"select"}) /\ Head(script[0]).do = "select"
      /\ \/ \E irq \in Lines, n \in 0 .. 16 : InRegister(irq, n)
         \/ \E irq \in Lines, n \in 0 .. 16 : InUnregister(irq, n)
         \/ \E n \in 0 .. 6 : InMiddle(n)
  BY Accessed DEF Select
<1>2. PICK op : op = Head(script[0])
  OBVIOUS
<1>3. /\ index' = <<op.irq, op.arg>> /\ op.do = "select"
      /\ UNCHANGED <<gates, desc, rte, value, left, hardware, frames, soft>>
      /\ UNCHANGED <<irr, isr, edges, apic, if>>
  BY <1>1, <1>2 DEF Select, hardware
<1>4. \A irq : Quiet(irq)' <=> Quiet(irq)
  BY <1>3, SameQuiet
<1>5. GatesSet' <=> GatesSet
  BY <1>3 DEF GatesSet
<1>6. ASSUME NEW irq \in Lines, NEW n \in 0 .. 16, InRegister(irq, n)
      PROVE  /\ op.irq = irq /\ op.arg \in {"low", "high"}
             /\ Registering(irq, n + 1)'
  <2>1. op = register_irq(irq)[n + 1] /\ Registering(irq, n)
    BY <1>2, <1>6 DEF InRegister
  <2>2. op.irq = irq /\ (\/ n \in {4, 10, 13} /\ op.arg = "low"
                         \/ n \in {6, 8, 15} /\ op.arg = "high")
    BY <1>3, <2>1, RegisterKinds
  <2>3. Registering(irq, n + 1)'
    BY <1>3, <1>4, <1>5, <2>1, <2>2 DEF Registering
  <2>4. QED
    BY <2>2, <2>3
<1>7. ASSUME NEW irq \in Lines, NEW n \in 0 .. 16, InUnregister(irq, n)
      PROVE  /\ op.irq = irq /\ op.arg \in {"low", "high"}
             /\ Unregistering(irq, n + 1)'
  <2>1. op = unregister_irq(irq)[n + 1] /\ Unregistering(irq, n)
    BY <1>2, <1>7 DEF InUnregister
  <2>2. op.irq = irq /\ (\/ n \in {2, 5, 10} /\ op.arg = "low"
                         \/ n \in {0, 7, 12} /\ op.arg = "high")
    BY <1>3, <2>1, UnregisterKinds
  <2>3. Unregistering(irq, n + 1)'
    BY <1>3, <1>5, <2>1, <2>2 DEF Unregistering
  <2>4. QED
    BY <2>2, <2>3
<1>8. \A n \in 0 .. 6 : ~InMiddle(n)
  BY <1>2, <1>3, MiddleKinds DEF InMiddle
<1>9. index' \in Lines \X {"low", "high"}
  BY <1>1, <1>3, <1>6, <1>7, <1>8
<1>10. InScript'
  BY <1>1, <1>4, <1>6, <1>7, <1>8, Advance
<1>11. value' \in [CPU -> RTE]
  BY <1>3 DEF IrqInd, Typed, TypeOK, RTE, Half0
<1>12. QED
  BY <1>1, <1>3, <1>9, <1>10, <1>11, Private

\* A half of an entry replaced.
LEMMA Halves ==
  ASSUME NEW e \in RTE, NEW half \in {"low", "high"}, NEW x,
         x \in IF half = "low" THEN Half0 ELSE {0}
  PROVE  LET d == [e EXCEPT ![half] = x]
         IN  /\ d \in RTE
             /\ half = "low" => d.low = x
             /\ half = "high" => d.low = e.low
<1>1. CASE half = "low"
  BY <1>1 DEF RTE
<1>2. CASE half = "high"
  BY <1>2 DEF RTE
<1>3. QED
  BY <1>1, <1>2

LEMMA LoadStep ==
  ASSUME IrqInd, NEW c \in CPU, Load(c)
  PROVE  IrqInd'
<1>1. /\ c = 0 /\ script[0] # <<>> /\ script' = [script EXCEPT ![0] = Tail(@)]
      /\ Accessing(c, {"load"}) /\ Head(script[0]).do = "load"
  BY Accessed DEF Load
<1>2. PICK line, half : line = index[1] /\ half = index[2]
  OBVIOUS
<1>3. /\ line \in Lines /\ half \in {"low", "high"} /\ value \in [CPU -> RTE]
      /\ rte \in [Lines -> RTE] /\ 0 \in CPU
  BY <1>2, VectorFacts DEF IrqInd, Typed, TypeOK, RTE, Half0
<1>4. PICK x, d : x = rte[line][half] /\ d = [value[0] EXCEPT ![half] = x]
  OBVIOUS
<1>5. x \in (IF half = "low" THEN Half0 ELSE {0}) /\ (half = "low" => x = rte[line].low)
  <2>1. rte[line] \in RTE
    BY <1>3
  <2>2. QED
    BY <1>3, <1>4, <2>1 DEF RTE
<1>6. /\ d \in RTE
      /\ half = "low" => d.low = rte[line].low
      /\ half = "high" => d.low = value[0].low
  BY <1>3, <1>4, <1>5, Halves
<1>7. value' = [value EXCEPT ![0] = d]
  BY <1>1, <1>2, <1>4 DEF Load
<1>8. value' \in [CPU -> RTE] /\ value'[0] = d
  BY <1>3, <1>6, <1>7
<1>9. /\ UNCHANGED <<gates, desc, rte, index, left, hardware, frames, soft>>
      /\ UNCHANGED <<irr, isr, edges, apic, if>>
  BY DEF Load, hardware
<1>10. \A irq : Quiet(irq)' <=> Quiet(irq)
  BY <1>9, SameQuiet
<1>11. GatesSet' <=> GatesSet
  BY <1>9 DEF GatesSet
<1>12. ASSUME NEW irq \in Lines, NEW n \in 0 .. 16, InRegister(irq, n)
       PROVE  Registering(irq, n + 1)'
  <2>1. Registering(irq, n) /\ n \in {9, 11}
    <3>1. PICK op : op = Head(script[0])
      OBVIOUS
    <3>2. op = register_irq(irq)[n + 1] /\ Registering(irq, n) /\ op.do = "load"
      BY <1>1, <1>12, <3>1 DEF InRegister
    <3>3. QED
      BY <3>2, RegisterKinds
  <2>2. CASE n = 9
    <3>1. index = <<irq, "high">> /\ value[0].low = Shut(irq)
      BY <2>1, <2>2 DEF Registering, Shut
    <3>2. value'[0].low = Shut(irq)
      BY <1>2, <1>6, <1>8, <3>1
    <3>3. QED
      BY <1>9, <1>10, <1>11, <2>1, <2>2, <3>1, <3>2 DEF Registering, Shut
  <2>3. CASE n = 11
    <3>1. index = <<irq, "low">> /\ rte[irq].low = Shut(irq)
      BY <2>1, <2>3 DEF Registering, Shut
    <3>2. value'[0].low = Shut(irq)
      BY <1>2, <1>6, <1>8, <3>1
    <3>3. QED
      BY <1>9, <1>10, <1>11, <2>1, <2>3, <3>1, <3>2 DEF Registering, Shut
  <2>4. QED
    BY <2>1, <2>2, <2>3
<1>13. ASSUME NEW irq \in Lines, NEW n \in 0 .. 16, InUnregister(irq, n)
       PROVE  Unregistering(irq, n + 1)'
  <2>1. Unregistering(irq, n) /\ n \in {1, 3}
    <3>1. PICK op : op = Head(script[0])
      OBVIOUS
    <3>2. op = unregister_irq(irq)[n + 1] /\ Unregistering(irq, n) /\ op.do = "load"
      BY <1>1, <1>13, <3>1 DEF InUnregister
    <3>3. QED
      BY <3>2, UnregisterKinds
  <2>2. QED
    BY <1>9, <1>11, <2>1 DEF Unregistering
<1>14. \A n \in 0 .. 6 : ~InMiddle(n)
  BY <1>1, MiddleKinds DEF InMiddle
<1>15. InScript'
  BY <1>1, <1>10, <1>12, <1>13, <1>14, Advance
<1>16. index' \in Lines \X {"low", "high"}
  BY <1>9 DEF IrqInd, Typed, TypeOK
<1>17. QED
  BY <1>1, <1>8, <1>9, <1>15, <1>16, Private

LEMMA ComputeStep ==
  ASSUME IrqInd, NEW c \in CPU, Compute(c)
  PROVE  IrqInd'
<1>1. /\ c = 0 /\ script[0] # <<>> /\ script' = [script EXCEPT ![0] = Tail(@)]
      /\ Accessing(c, {"value", "mask"}) /\ Head(script[0]).do \in {"value", "mask"}
      /\ \/ \E irq \in Lines, n \in 0 .. 16 : InRegister(irq, n)
         \/ \E irq \in Lines, n \in 0 .. 16 : InUnregister(irq, n)
         \/ \E n \in 0 .. 6 : InMiddle(n)
  BY Accessed DEF Compute
<1>2. PICK op : op = Head(script[0])
  OBVIOUS
<1>3. /\ op.do = "value" => value' = [value EXCEPT ![0] = op.arg]
      /\ op.do = "mask" => value' = [value EXCEPT ![0].low.masked = op.arg]
      /\ op.do \in {"value", "mask"}
      /\ value \in [CPU -> RTE] /\ 0 \in CPU
  BY <1>1, <1>2, VectorFacts DEF Compute, IrqInd, Typed, TypeOK, RTE, Half0
<1>4. /\ UNCHANGED <<gates, desc, rte, index, left, hardware, frames, soft>>
      /\ UNCHANGED <<irr, isr, edges, apic, if>>
  BY DEF Compute, hardware
<1>5. \A irq : Quiet(irq)' <=> Quiet(irq)
  BY <1>4, SameQuiet
<1>6. GatesSet' <=> GatesSet
  BY <1>4 DEF GatesSet
<1>7. ASSUME NEW irq \in Lines
      PROVE  /\ Entry(irq) \in RTE /\ Entry(irq).low = Shut(irq)
             /\ Masked(0) \in RTE /\ Masked(0).low.masked
  BY DEF Entry, Masked, RTE, Half0, Shut
<1>8. ASSUME NEW irq \in Lines, NEW n \in 0 .. 16, InRegister(irq, n)
      PROVE  value' \in [CPU -> RTE] /\ Registering(irq, n + 1)'
  <2>1. op = register_irq(irq)[n + 1] /\ Registering(irq, n)
    BY <1>2, <1>8 DEF InRegister
  <2>2. CASE op.do = "value"
    <3>1. n = 3 /\ op.arg = Entry(irq)
      BY <2>1, <2>2, RegisterKinds
    <3>2. value' \in [CPU -> RTE] /\ value'[0].low = Shut(irq)
      BY <1>3, <1>7, <2>2, <3>1
    <3>3. QED
      BY <1>4, <1>5, <1>6, <2>1, <3>1, <3>2 DEF Registering, Shut
  <2>3. CASE op.do = "mask"
    <3>1. n = 12 /\ op = Unmask(irq)
      BY <2>1, <2>3, RegisterKinds
    <3>2. value[0].low = Shut(irq) /\ value[0] \in RTE
      BY <1>3, <2>1, <3>1 DEF Registering, Shut
    <3>3. op.arg = FALSE
      BY <3>1 DEF Unmask, Access
    <3>4. PICK l, e : l = [vector |-> irq, masked |-> FALSE] /\ e = [value[0] EXCEPT !.low = l]
      OBVIOUS
    <3>5. value' = [value EXCEPT ![0] = e]
      BY <1>3, <2>3, <3>2, <3>3, <3>4 DEF Shut
    <3>6. e \in RTE /\ e.low = l
      BY <3>2, <3>4 DEF RTE, Half0
    <3>7. value' \in [CPU -> RTE] /\ value'[0].low = [vector |-> irq, masked |-> FALSE]
      BY <1>3, <3>4, <3>5, <3>6
    <3>8. QED
      BY <1>4, <1>5, <1>6, <2>1, <3>1, <3>7 DEF Registering
  <2>4. QED
    BY <1>3, <2>2, <2>3
<1>9. ASSUME NEW irq \in Lines, NEW n \in 0 .. 16, InUnregister(irq, n)
      PROVE  value' \in [CPU -> RTE] /\ Unregistering(irq, n + 1)'
  <2>1. op = unregister_irq(irq)[n + 1] /\ Unregistering(irq, n)
    BY <1>2, <1>9 DEF InUnregister
  <2>2. CASE op.do = "value"
    <3>1. n = 9 /\ op.arg = Masked(0)
      BY <2>1, <2>2, UnregisterKinds
    <3>2. value' \in [CPU -> RTE] /\ value'[0].low.masked
      BY <1>3, <1>7, <2>2, <3>1
    <3>3. QED
      BY <1>4, <1>6, <2>1, <3>1, <3>2 DEF Unregistering
  <2>3. CASE op.do = "mask"
    <3>1. n = 4 /\ op = Mask(irq)
      BY <2>1, <2>3, UnregisterKinds
    <3>2. value[0] \in RTE
      BY <1>3
    <3>3. op.arg = TRUE
      BY <3>1 DEF Mask, Access
    <3>4. PICK l, e : l = [value[0].low EXCEPT !.masked = TRUE] /\ e = [value[0] EXCEPT !.low = l]
      OBVIOUS
    <3>5. value' = [value EXCEPT ![0] = e]
      BY <1>3, <2>3, <3>3, <3>4
    <3>6. e \in RTE /\ e.low = l /\ l.masked
      BY <3>2, <3>4 DEF RTE, Half0
    <3>7. value' \in [CPU -> RTE] /\ value'[0].low.masked
      BY <1>3, <3>5, <3>6
    <3>8. QED
      BY <1>4, <1>6, <2>1, <3>1, <3>7 DEF Unregistering
  <2>4. QED
    BY <1>3, <2>2, <2>3
<1>10. \A n \in 0 .. 6 : ~InMiddle(n)
  BY <1>2, <1>3, MiddleKinds DEF InMiddle
<1>11. value' \in [CPU -> RTE]
  BY <1>1, <1>8, <1>9, <1>10
<1>12. InScript'
  BY <1>1, <1>5, <1>8, <1>9, <1>10, Advance
<1>13. index' \in Lines \X {"low", "high"}
  BY <1>4 DEF IrqInd, Typed, TypeOK
<1>14. QED
  BY <1>1, <1>4, <1>11, <1>12, <1>13, Private

LEMMA StoreStep ==
  ASSUME IrqInd, NEW c \in CPU, Store(c)
  PROVE  IrqInd'
<1>1. /\ c = 0 /\ script[0] # <<>> /\ script' = [script EXCEPT ![0] = Tail(@)]
      /\ Head(script[0]).do = "store"
      /\ script' \in [CPU -> Seq(Ops)]
      /\ \A p \in CPU : p # 0 => script'[p] = script[p]
      /\ \/ \E irq \in Lines, n \in 0 .. 16 : InRegister(irq, n)
         \/ \E irq \in Lines, n \in 0 .. 16 : InUnregister(irq, n)
         \/ \E n \in 0 .. 6 : InMiddle(n)
  BY Accessed DEF Store
<1>2. PICK line, half : line = index[1] /\ half = index[2]
  OBVIOUS
<1>3. /\ line \in Lines /\ half \in {"low", "high"} /\ value \in [CPU -> RTE]
      /\ rte \in [Lines -> RTE] /\ 0 \in CPU
  BY <1>2, VectorFacts DEF IrqInd, Typed, TypeOK, RTE, Half0
<1>4. PICK x, d : x = Half(0) /\ d = [rte[line] EXCEPT ![half] = x]
  OBVIOUS
<1>5. x \in (IF half = "low" THEN Half0 ELSE {0}) /\ (half = "low" => x = value[0].low)
  <2>1. value[0] \in RTE
    BY <1>3
  <2>2. QED
    BY <1>2, <1>3, <1>4, <2>1 DEF RTE, Half
<1>6. /\ d \in RTE
      /\ half = "low" => d.low = value[0].low
      /\ half = "high" => d.low = rte[line].low
  <2>1. PICK e : e = rte[line]
    OBVIOUS
  <2>2. /\ e \in RTE /\ half \in {"low", "high"} /\ d = [e EXCEPT ![half] = x]
        /\ x \in IF half = "low" THEN Half0 ELSE {0}
    BY <1>3, <1>4, <1>5, <2>1
  <2>3. /\ d \in RTE
        /\ half = "low" => d.low = x
        /\ half = "high" => d.low = e.low
    BY <2>2, Halves
  <2>4. QED
    BY <1>5, <2>1, <2>3
<1>7. rte' = [rte EXCEPT ![line] = d]
  BY <1>1, <1>2, <1>4 DEF Store
<1>8. /\ rte' \in [Lines -> RTE] /\ rte'[line] = d
      /\ \A irq \in Lines : irq # line => rte'[irq] = rte[irq]
      /\ half = "low" => rte'[line].low = value[0].low
      /\ half = "high" => rte'[line].low = rte[line].low
  BY <1>3, <1>6, <1>7
<1>9. /\ UNCHANGED <<gates, desc, index, value, left, hardware, frames, soft>>
      /\ UNCHANGED <<irr, isr, edges, apic, if>>
  BY DEF Store, hardware
<1>10. \A irq : (InHand(irq)' <=> InHand(irq)) /\ (Unacked(0)' <=> Unacked(0))
  BY <1>9 DEF InHand, Unacked, Top
<1>11. GatesSet' <=> GatesSet
  BY <1>9 DEF GatesSet
<1>12. ASSUME NEW irq \in Lines, NEW n \in 0 .. 16, InRegister(irq, n)
       PROVE  /\ line = irq /\ Registering(irq, n)
              /\ \/ n \in {5, 14} /\ half = "low"
                 \/ n \in {7, 16} /\ half = "high"
  <2>1. PICK op : op = Head(script[0])
    OBVIOUS
  <2>2. op = register_irq(irq)[n + 1] /\ Registering(irq, n) /\ op.do = "store"
    BY <1>1, <1>12, <2>1 DEF InRegister
  <2>3. n \in {5, 7, 14, 16}
    BY <2>2, RegisterKinds
  <2>4. QED
    BY <1>2, <2>2, <2>3 DEF Registering
<1>13. ASSUME NEW irq \in Lines, NEW n \in 0 .. 16, InUnregister(irq, n)
       PROVE  /\ line = irq /\ Unregistering(irq, n)
              /\ \/ n \in {6, 11} /\ half = "low"
                 \/ n \in {8, 13} /\ half = "high"
  <2>1. PICK op : op = Head(script[0])
    OBVIOUS
  <2>2. op = unregister_irq(irq)[n + 1] /\ Unregistering(irq, n) /\ op.do = "store"
    BY <1>1, <1>13, <2>1 DEF InUnregister
  <2>3. n \in {6, 8, 11, 13}
    BY <2>2, UnregisterKinds
  <2>4. QED
    BY <1>2, <2>2, <2>3 DEF Unregistering
<1>14. \A n \in 0 .. 6 : ~InMiddle(n)
  <2>1. PICK op : op = Head(script[0])
    OBVIOUS
  <2>2. QED
    BY <1>1, <2>1, MiddleKinds DEF InMiddle
<1>15. ASSUME NEW irq \in Lines, NEW n \in 0 .. 16, InRegister(irq, n)
       PROVE  /\ n < 16 => Registering(irq, n + 1)'
              /\ irq # HPET /\ Quiet(HPET) => Quiet(HPET)'
  <2>1. /\ line = irq /\ Registering(irq, n)
        /\ \/ n \in {5, 14} /\ half = "low"
           \/ n \in {7, 16} /\ half = "high"
    BY <1>12, <1>15
  <2>2. irq # HPET /\ Quiet(HPET) => Quiet(HPET)'
    BY <1>8, <1>10, <2>1, VectorFacts DEF Quiet
  <2>3. CASE n = 5
    <3>1. rte'[irq].low = Shut(irq) /\ value'[0].low = Shut(irq) /\ index' = <<irq, "low">>
      BY <1>8, <1>9, <2>1, <2>3 DEF Registering, Shut
    <3>2. Quiet(irq)'
      BY <1>10, <2>1, <2>3, <3>1 DEF Registering, Quiet, Shut
    <3>3. QED
      BY <1>9, <1>11, <2>1, <2>2, <2>3, <3>1, <3>2 DEF Registering, Shut
  <2>4. CASE n = 7
    <3>1. rte'[irq].low = Shut(irq) /\ value'[0].low = Shut(irq) /\ index' = <<irq, "high">>
      BY <1>8, <1>9, <2>1, <2>4 DEF Registering, Shut
    <3>2. Quiet(irq)'
      BY <1>10, <2>1, <2>4, <3>1 DEF Registering, Quiet, Shut
    <3>3. QED
      BY <1>9, <1>11, <2>1, <2>2, <2>4, <3>1, <3>2 DEF Registering, Shut
  <2>5. CASE n = 14
    <3>1. index' = <<irq, "low">>
      BY <1>9, <2>1, <2>5 DEF Registering
    <3>2. QED
      BY <1>9, <1>11, <2>1, <2>2, <2>5, <3>1 DEF Registering
  <2>6. QED
    BY <2>1, <2>2, <2>3, <2>4, <2>5
<1>16. ASSUME NEW irq \in Lines, NEW n \in 0 .. 16, InUnregister(irq, n)
       PROVE  /\ rte'[irq].low.masked
              /\ n < 16 => Unregistering(irq, n + 1)'
  <2>1. /\ line = irq /\ Unregistering(irq, n)
        /\ \/ n \in {6, 11} /\ half = "low"
           \/ n \in {8, 13} /\ half = "high"
    BY <1>13, <1>16
  <2>2. rte'[irq].low.masked
    BY <1>8, <2>1 DEF Unregistering
  <2>3. Unregistering(irq, n + 1)'
    BY <1>9, <1>11, <2>1, <2>2 DEF Unregistering
  <2>4. QED
    BY <2>2, <2>3
<1>17. InScript'
  BY <1>1, <1>14, <1>15, <1>16, Advance
<1>18. OpenLineIsReady'
  <2>1. SUFFICES ASSUME NEW irq \in Lines, ~rte'[irq].low.masked
                 PROVE  /\ rte'[irq].low.vector = irq
                        /\ rte'[irq].high \in apic
                        /\ desc[irq] = [controller |-> irq, handler |-> irq,
                                        parameter |-> Parameter(irq)]
    BY <1>9 DEF OpenLineIsReady
  <2>2. rte'[irq].high = 0 /\ 0 \in apic
    <3>1. rte'[irq] \in RTE
      BY <1>8
    <3>2. QED
      BY <3>1 DEF RTE, IrqInd, Typed
  <2>3. CASE ~rte[irq].low.masked /\ rte'[irq].low = rte[irq].low
    BY <2>2, <2>3 DEF IrqInd, Table, OpenLineIsReady
  <2>4. CASE rte'[irq].low # rte[irq].low
    <3>1. irq = line /\ half = "low" /\ rte'[irq].low = value[0].low
      BY <1>3, <1>8, <2>4
    <3>2. \A n \in 0 .. 16 : ~InUnregister(line, n)
      BY <1>3, <1>16, <2>1, <3>1
    <3>3. PICK n \in 0 .. 16 : InRegister(irq, n)
      BY <1>1, <1>12, <1>13, <1>14, <3>1, <3>2
    <3>4. Registering(irq, n) /\ n \in {5, 14}
      BY <1>12, <3>1, <3>3
    <3>5. n = 14
      BY <2>1, <3>1, <3>4 DEF Registering
    <3>6. /\ value[0].low.vector = irq /\ desc[irq].controller = irq
          /\ desc[irq].handler = irq /\ desc[irq].parameter = Parameter(irq)
      BY <3>4, <3>5 DEF Registering
    <3>7. desc[irq] \in [controller : Pointer, handler : Pointer, parameter : Pointer]
      BY VectorFacts DEF IrqInd, Typed, TypeOK, Pointer
    <3>8. QED
      BY <2>2, <3>1, <3>6, <3>7
  <2>5. QED
    BY <2>1, <2>3, <2>4
<1>19. Table'
  <2>1. GatesFirst'
    BY <1>9, <1>11 DEF IrqInd, Table, GatesFirst
  <2>2. Servable'
    BY <1>9, <1>10 DEF IrqInd, Table, Servable
  <2>3. QED
    BY <1>18, <2>1, <2>2 DEF Table
<1>20. Typed'
  <2>1. TypeOK'
    BY <1>8, <1>9 DEF IrqInd, Typed, TypeOK, RTE, Half0
  <2>2. QED
    BY <1>1, <1>9, <2>1 DEF IrqInd, Typed
<1>21. \A p \in CPU : Processor(p)'
  <2>1. \A p \in CPU : ~InTask(p) => Following(Top(p))'
    BY <1>9, SameFollowing
  <2>2. QED
    BY <1>1, <1>9, <2>1, TaskProcessors
<1>22. QED
  BY <1>17, <1>19, <1>20, <1>21 DEF IrqInd

\* A field of a descriptor stored.
LEMMA Stored ==
  ASSUME Typed, NEW i \in Vectors, NEW field \in Fields, NEW v \in Pointer
  PROVE  LET d == [desc EXCEPT ![i][field] = v]
         IN  /\ d \in [Vectors -> [controller : Pointer, handler : Pointer,
                                   parameter : Pointer]]
             /\ \A nr \in Vectors : nr # i => d[nr] = desc[nr]
             /\ d[i].controller = IF field = "controller" THEN v ELSE desc[i].controller
             /\ d[i].handler = IF field = "handler" THEN v ELSE desc[i].handler
             /\ d[i].parameter = IF field = "parameter" THEN v ELSE desc[i].parameter
<1>1. desc \in [Vectors -> [controller : Pointer, handler : Pointer, parameter : Pointer]]
  BY DEF Typed, TypeOK, Pointer
<1>2. PICK d, e : d = desc[i] /\ e = [d EXCEPT ![field] = v]
  OBVIOUS
<1>3. d \in [controller : Pointer, handler : Pointer, parameter : Pointer]
  BY <1>1, <1>2
<1>4. /\ e \in [controller : Pointer, handler : Pointer, parameter : Pointer]
      /\ e.controller = IF field = "controller" THEN v ELSE d.controller
      /\ e.handler = IF field = "handler" THEN v ELSE d.handler
      /\ e.parameter = IF field = "parameter" THEN v ELSE d.parameter
  <2>1. CASE field = "controller"
    BY <1>2, <1>3, <2>1
  <2>2. CASE field = "handler"
    BY <1>2, <1>3, <2>2
  <2>3. CASE field = "parameter"
    BY <1>2, <1>3, <2>3
  <2>4. QED
    BY <2>1, <2>2, <2>3 DEF Fields
<1>5. [desc EXCEPT ![i][field] = v] = [desc EXCEPT ![i] = e]
  BY <1>2
<1>6. QED
  BY <1>1, <1>2, <1>4, <1>5

LEMMA StoreFieldStep ==
  ASSUME IrqInd, NEW c \in CPU, StoreField(c)
  PROVE  IrqInd'
<1>1. /\ c = 0 /\ frames[0] = <<>> /\ script[0] # <<>>
      /\ script' = [script EXCEPT ![0] = Tail(@)]
      /\ Head(script[0]).do \in Fields
      /\ script' \in [CPU -> Seq(Ops)]
      /\ \A p \in CPU : p # 0 => script'[p] = script[p]
      /\ \/ \E irq \in Lines, n \in 0 .. 16 : InRegister(irq, n)
         \/ \E irq \in Lines, n \in 0 .. 16 : InUnregister(irq, n)
         \/ \E n \in 0 .. 6 : InMiddle(n)
  BY Accessed DEF StoreField, Fields
<1>2. PICK op, i, field, v : op = Head(script[0]) /\ i = op.irq /\ field = op.do /\ v = op.arg
  OBVIOUS
<1>3. /\ field \in Fields
      /\ desc' = [desc EXCEPT ![i][field] = v]
      /\ left' = IF field = "controller" /\ v = NULL /\ External(i)
                 THEN left \cup {i} ELSE left
      /\ UNCHANGED <<gates, rte, index, value, irr, isr, edges, apic, if, frames, soft>>
  BY <1>1, <1>2 DEF StoreField
<1>4. \A irq : (Quiet(irq)' <=> Quiet(irq)) /\ (InHand(irq)' <=> InHand(irq))
  BY <1>3 DEF Quiet, InHand, Unacked, Top
<1>5. GatesSet' <=> GatesSet
  BY <1>3 DEF GatesSet
<1>6. ASSUME NEW irq \in Lines, NEW n \in 0 .. 16, InRegister(irq, n)
      PROVE  /\ i = irq /\ Registering(irq, n) /\ v \in {irq, Parameter(irq)}
             /\ field = "handler" => v = i
             /\ \/ n = 0 /\ field = "controller" /\ v = irq
                \/ n = 1 /\ field = "handler" /\ v = irq
                \/ n = 2 /\ field = "parameter" /\ v = Parameter(irq)
  <2>1. op = register_irq(irq)[n + 1] /\ Registering(irq, n) /\ op.do \in Fields
    BY <1>1, <1>2, <1>6 DEF InRegister
  <2>2. QED
    BY <1>2, <2>1, RegisterKinds
<1>7. ASSUME NEW irq \in Lines, NEW n \in 0 .. 16, InUnregister(irq, n)
      PROVE  /\ i = irq /\ Unregistering(irq, n) /\ v = NULL
             /\ \/ n = 14 /\ field = "controller"
                \/ n = 15 /\ field = "handler"
                \/ n = 16 /\ field = "parameter"
  <2>1. op = unregister_irq(irq)[n + 1] /\ Unregistering(irq, n) /\ op.do \in Fields
    BY <1>1, <1>2, <1>7 DEF InUnregister
  <2>2. QED
    BY <1>2, <2>1, UnregisterKinds
<1>8. ASSUME NEW n \in 0 .. 6, InMiddle(n)
      PROVE  /\ i = TickIPI /\ GatesSet /\ Quiet(HPET)
             /\ v \in {NULL, i}
             /\ field = "handler" => v = i
  <2>1. op = Middle[n + 1] /\ op.do \in Fields /\ (n >= 1 => GatesSet) /\ Quiet(HPET)
    BY <1>1, <1>2, <1>8 DEF InMiddle
  <2>2. op.irq = TickIPI /\ n \in 1 .. 3 /\ (op.arg = NULL \/ (op.do = "handler" /\ op.arg = TickIPI))
    BY <2>1, MiddleKinds
  <2>3. op.do = "handler" => op.arg = TickIPI
    <3>1. n = 1 \/ n = 2 \/ n = 3
      BY <2>2
    <3>2. QED
      BY <2>1, <3>1, MiddleOps DEF Access
  <2>4. QED
    BY <1>2, <2>1, <2>2, <2>3
<1>9. /\ i \in Vectors /\ v \in Pointer
      /\ field = "handler" => v \in {NULL, i}
      /\ field = "handler" /\ v = NULL => i \in Lines
      /\ i \in left' => i \in left \/ i \in Lines
      /\ left \subseteq left' /\ left' \subseteq Lines
  <2>1. \A irq \in Lines : irq \in Vectors /\ Parameter(irq) \in Pointer /\ irq \in Pointer
    BY VectorFacts, OpFacts
  <2>2. TickIPI \in Vectors /\ NULL \in Pointer /\ TickIPI \in Pointer /\ TickIPI \notin Lines
    BY VectorFacts DEF Pointer
  <2>3. /\ i \in Vectors /\ v \in Pointer /\ (field = "handler" => v \in {NULL, i})
        /\ field = "handler" /\ v = NULL => i \in Lines
    <3>1. CASE \E irq \in Lines, n \in 0 .. 16 : InRegister(irq, n)
      BY <1>6, <2>1, <3>1
    <3>2. CASE \E irq \in Lines, n \in 0 .. 16 : InUnregister(irq, n)
      BY <1>7, <2>1, <2>2, <3>2
    <3>3. CASE \E n \in 0 .. 6 : InMiddle(n)
      <4>1. NULL # TickIPI
        BY <2>2, VectorFacts
      <4>2. QED
        BY <1>8, <2>2, <3>3, <4>1
    <3>4. QED
      BY <1>1, <3>1, <3>2, <3>3
  <2>4. left \subseteq left' /\ left' \subseteq Lines
    BY <1>3, <2>3, Kinds DEF IrqInd, Typed, TypeOK
  <2>5. QED
    BY <2>3, <2>4
<1>10. /\ desc' \in [Vectors -> [controller : Pointer, handler : Pointer, parameter : Pointer]]
       /\ \A nr \in Vectors : nr # i => desc'[nr] = desc[nr]
       /\ desc'[i].controller = IF field = "controller" THEN v ELSE desc[i].controller
       /\ desc'[i].handler = IF field = "handler" THEN v ELSE desc[i].handler
       /\ desc'[i].parameter = IF field = "parameter" THEN v ELSE desc[i].parameter
  <2>1. Typed
    BY DEF IrqInd
  <2>2. QED
    BY <1>3, <1>9, <2>1, Stored
<1>11. Typed'
  <2>1. TypeOK'
    <3>1. TypeOK
      BY DEF IrqInd, Typed
    <3>2. desc' \in [Vectors -> [controller : Vectors \cup {NULL}, handler : Vectors \cup {NULL},
                                 parameter : Vectors \cup {NULL}]]
      BY <1>10 DEF Pointer
    <3>3. QED
      BY <1>3, <1>9, <3>1, <3>2 DEF TypeOK
  <2>2. \A nr \in Vectors : desc'[nr].handler \in {NULL, nr}
    BY <1>9, <1>10 DEF IrqInd, Typed
  <2>3. QED
    BY <1>1, <1>3, <2>1, <2>2 DEF IrqInd, Typed
<1>12. /\ HPET \in Lines /\ HPET \in Vectors /\ TickIPI \notin Lines /\ Lines \subseteq Vectors
       /\ NULL \notin Vectors
  BY VectorFacts
<1>13. ASSUME NEW irq \in Lines, NEW n \in 0 .. 16, InRegister(irq, n)
       PROVE  /\ Table'
              /\ n < 16 => Registering(irq, n + 1)'
              /\ irq # HPET /\ Quiet(HPET) => Quiet(HPET)'
  <2>1. /\ i = irq /\ Registering(irq, n)
        /\ \/ n = 0 /\ field = "controller" /\ v = irq
           \/ n = 1 /\ field = "handler" /\ v = irq
           \/ n = 2 /\ field = "parameter" /\ v = Parameter(irq)
    BY <1>6, <1>13
  <2>2. left' = left
    BY <1>3, <1>12, <2>1
  <2>3. Quiet(irq) /\ Quiet(irq)'
    BY <1>4, <2>1 DEF Registering
  <2>4. GatesFirst'
    <3>1. CASE irq = HPET
      BY <1>5, <2>1, <3>1 DEF Registering, GatesFirst
    <3>2. CASE irq # HPET
      BY <1>5, <1>10, <1>12, <2>1, <2>2, <3>2 DEF IrqInd, Table, GatesFirst
    <3>3. QED
      BY <3>1, <3>2
  <2>5. Servable'
    <3>1. SUFFICES ASSUME NEW j \in Lines, InHand(j)
                   PROVE  /\ desc'[j].controller # NULL \/ j \in left'
                          /\ desc'[j].handler # NULL => desc'[j].parameter = Parameter(j)
      BY <1>4 DEF Servable
    <3>2. j # i /\ j \in Vectors
      BY <1>12, <2>1, <2>3, <3>1 DEF Quiet
    <3>3. QED
      BY <1>10, <2>2, <3>1, <3>2 DEF IrqInd, Table, Servable
  <2>6. OpenLineIsReady'
    BY <1>3, <1>10, <1>12, <2>1, <2>3 DEF IrqInd, Table, OpenLineIsReady, Quiet
  <2>7. Registering(irq, n + 1)'
    BY <1>3, <1>5, <1>10, <2>1, <2>3 DEF Registering
  <2>8. QED
    BY <1>4, <2>4, <2>5, <2>6, <2>7 DEF Table
<1>14. ASSUME NEW irq \in Lines, NEW n \in 0 .. 16, InUnregister(irq, n)
       PROVE  /\ Table'
              /\ n < 16 => Unregistering(irq, n + 1)'
  <2>1. /\ i = irq /\ Unregistering(irq, n) /\ v = NULL
        /\ \/ n = 14 /\ field = "controller"
           \/ n = 15 /\ field = "handler"
           \/ n = 16 /\ field = "parameter"
    BY <1>7, <1>14
  <2>2. left' = (IF n = 14 THEN left \cup {irq} ELSE left)
    BY <1>3, <2>1, Kinds
  <2>3. GatesFirst'
    <3>1. CASE irq = HPET
      BY <1>5, <2>1, <3>1 DEF Unregistering, GatesFirst
    <3>2. CASE irq # HPET
      BY <1>5, <1>10, <1>12, <2>1, <2>2, <3>2 DEF IrqInd, Table, GatesFirst
    <3>3. QED
      BY <3>1, <3>2
  <2>4. Servable'
    <3>1. SUFFICES ASSUME NEW j \in Lines, InHand(j)
                   PROVE  /\ desc'[j].controller # NULL \/ j \in left'
                          /\ desc'[j].handler # NULL => desc'[j].parameter = Parameter(j)
      BY <1>4 DEF Servable
    <3>2. /\ desc[j].controller # NULL \/ j \in left
          /\ desc[j].handler # NULL => desc[j].parameter = Parameter(j)
          /\ j \in Vectors
      BY <1>12, <3>1 DEF IrqInd, Table, Servable
    <3>3. CASE j # irq
      BY <1>10, <2>1, <2>2, <3>2, <3>3
    <3>4. CASE j = irq
      BY <1>10, <2>1, <2>2, <3>2, <3>4 DEF Unregistering
    <3>5. QED
      BY <3>3, <3>4
  <2>5. OpenLineIsReady'
    <3>1. rte[irq].low.masked
      BY <2>1 DEF Unregistering
    <3>2. QED
      BY <1>3, <1>10, <1>12, <2>1, <3>1 DEF IrqInd, Table, OpenLineIsReady
  <2>6. Unregistering(irq, n + 1)'
    BY <1>3, <1>5, <1>10, <2>1 DEF Unregistering
  <2>7. QED
    BY <2>3, <2>4, <2>5, <2>6 DEF Table
<1>15. ASSUME NEW n \in 0 .. 6, InMiddle(n)
       PROVE  Table' /\ GatesSet' /\ Quiet(HPET)'
  <2>1. i = TickIPI /\ GatesSet /\ Quiet(HPET)
    BY <1>8, <1>15
  <2>2. left' = left /\ \A j \in Lines : desc'[j] = desc[j]
    <3>1. ~External(i)
      BY <2>1, Kinds, VectorFacts
    <3>2. QED
      BY <1>3, <1>10, <1>12, <2>1, <3>1
  <2>3. GatesFirst'
    BY <1>5, <2>1 DEF GatesFirst
  <2>4. Servable'
    BY <1>4, <2>2 DEF IrqInd, Table, Servable
  <2>5. OpenLineIsReady'
    BY <1>3, <2>2 DEF IrqInd, Table, OpenLineIsReady
  <2>6. QED
    BY <1>4, <1>5, <2>1, <2>3, <2>4, <2>5 DEF Table
<1>16. Table'
  BY <1>1, <1>13, <1>14, <1>15
<1>17. InScript'
  BY <1>1, <1>13, <1>14, <1>15, Advance
<1>18. \A p \in CPU : Processor(p)'
  <2>1. ASSUME NEW p \in CPU, ~InTask(p)
        PROVE  Following(Top(p))'
    <3>1. p # 0
      BY <1>1, <2>1 DEF InTask
    <3>2. /\ Top(p).nr \in Vectors /\ ~External(Top(p).nr) /\ Top(p).nr \notin Lines
          /\ Following(Top(p)) /\ Top(p)' = Top(p)
      BY <1>3, <2>1, <3>1, InInterrupt DEF IrqInd, Processor, Top
    <3>3. desc[Top(p).nr].handler # NULL => desc'[Top(p).nr].handler # NULL
      BY <1>9, <1>10, <1>12, <3>2
    <3>4. QED
      BY <1>12, <3>2, <3>3 DEF Following
  <2>2. QED
    BY <1>1, <1>3, <1>9, <2>1, TaskProcessors
<1>19. QED
  BY <1>11, <1>16, <1>17, <1>18 DEF IrqInd

(* What the boot does between the drivers leaves the lines alone.          *)
LEMMA MiddleStep ==
  ASSUME IrqInd, NEW c \in CPU, NEW do \in {"gates", "wait", "send"}, Accessing(c, {do}),
         UNCHANGED <<desc, rte, index, value, left, isr, edges, apic, if, frames, soft>>,
         gates \subseteq gates', gates' \subseteq 0 .. 255, GatesSet',
         irr' \in [CPU -> SUBSET Vectors], irr'[0] = irr[0],
         \A p \in CPU : irr'[p] \subseteq irr[p] \cup (IPIs \cap gates')
  PROVE  IrqInd'
<1>1. /\ script[0] # <<>> /\ script' = [script EXCEPT ![0] = Tail(@)]
      /\ Head(script[0]).do \in {"gates", "wait", "send"}
      /\ script' \in [CPU -> Seq(Ops)]
      /\ \A p \in CPU : p # 0 => script'[p] = script[p]
  BY Accessed
<1>2. \A irq : (Quiet(irq)' <=> Quiet(irq)) /\ (InHand(irq)' <=> InHand(irq))
  BY DEF Quiet, InHand, Unacked, Top
<1>3. PICK op : op = Head(script[0])
  OBVIOUS
<1>4. \A irq \in Lines, n \in 0 .. 16 : ~InRegister(irq, n) /\ ~InUnregister(irq, n)
  <2>1. op.do \in {"gates", "wait", "send"}
    BY <1>1, <1>3
  <2>2. QED
    BY <1>3, <2>1, RegisterKinds, UnregisterKinds DEF InRegister, InUnregister
<1>5. \A n \in 0 .. 6 : InMiddle(n) => GatesSet' /\ Quiet(HPET)'
  BY <1>2 DEF InMiddle
<1>6. InScript'
  BY <1>1, <1>4, <1>5, Advance
<1>7. Typed'
  <2>1. TypeOK'
    BY DEF IrqInd, Typed, TypeOK
  <2>2. QED
    BY <1>1, <2>1 DEF IrqInd, Typed
<1>8. Table'
  <2>1. Servable'
    BY <1>2 DEF IrqInd, Table, Servable
  <2>2. OpenLineIsReady' /\ GatesFirst'
    BY DEF IrqInd, Table, OpenLineIsReady, GatesFirst
  <2>3. QED
    BY <2>1, <2>2 DEF Table
<1>9. \A p \in CPU : Processor(p)'
  <2>1. \A p \in CPU : ~InTask(p) => Following(Top(p))'
    BY SameFollowing
  <2>2. QED
    BY <1>1, <2>1, TaskProcessors
<1>10. QED
  BY <1>6, <1>7, <1>8, <1>9 DEF IrqInd

LEMMA MiddleSteps ==
  ASSUME IrqInd, NEW c \in CPU, SetGates(c) \/ AwaitAP(c) \/ SendIPI(c)
  PROVE  IrqInd'
<1>1. /\ gates \subseteq 0 .. 255 /\ irr \in [CPU -> SUBSET Vectors] /\ 0 \in CPU
      /\ \A nr \in IPIs : nr \in Vectors /\ nr \in 200 .. 209
  <2>1. gates \subseteq 0 .. 255 /\ irr \in [CPU -> SUBSET Vectors]
    BY DEF IrqInd, Typed, TypeOK
  <2>2. QED
    BY <2>1, VectorFacts
<1>2. PICK do \in {"gates", "wait", "send"} :
        /\ Accessing(c, {do})
        /\ do = "gates" => SetGates(c)
        /\ do = "wait" => AwaitAP(c)
        /\ do = "send" => SendIPI(c)
  BY DEF SetGates, AwaitAP, SendIPI
<1>3. PICK op : op = Head(script[0])
  OBVIOUS
<1>4. /\ c = 0 /\ op.do = do
      /\ \/ \E irq \in Lines, n \in 0 .. 16 : InRegister(irq, n)
         \/ \E irq \in Lines, n \in 0 .. 16 : InUnregister(irq, n)
         \/ \E n \in 0 .. 6 : InMiddle(n)
  BY <1>2, <1>3, Accessed
<1>5. \A irq \in Lines, n \in 0 .. 16 : ~InRegister(irq, n) /\ ~InUnregister(irq, n)
  <2>1. op.do \in {"gates", "wait", "send"}
    BY <1>4
  <2>2. \A irq \in Lines, n \in 0 .. 16 : ~InRegister(irq, n)
    BY <1>3, <2>1, RegisterKinds DEF InRegister
  <2>3. \A irq \in Lines, n \in 0 .. 16 : ~InUnregister(irq, n)
    BY <1>3, <2>1, UnregisterKinds DEF InUnregister
  <2>4. QED
    BY <2>2, <2>3
<1>6. PICK n \in 0 .. 6 : op = Middle[n + 1] /\ (n >= 1 => GatesSet)
  BY <1>3, <1>4, <1>5 DEF InMiddle
<1>7. /\ do = "gates" => op.arg = 200 .. 209
      /\ do = "wait" => n >= 1
      /\ do = "send" => n >= 1 /\ op.arg = 1 /\ op.irq \in IPIs
  BY <1>4, <1>6, MiddleKinds
<1>8. CASE do = "gates"
  <2>1. gates' = gates \cup 200 .. 209
    BY <1>2, <1>3, <1>4, <1>7, <1>8 DEF SetGates
  <2>2. GatesSet' /\ gates \subseteq gates' /\ gates' \subseteq 0 .. 255
    BY <1>1, <2>1 DEF GatesSet
  <2>3. UNCHANGED <<desc, rte, index, value, left, irr, isr, edges, apic, if, frames, soft>>
    BY <1>2, <1>8 DEF SetGates, hardware
  <2>4. QED
    BY <1>1, <1>2, <2>2, <2>3, MiddleStep
<1>9. CASE do = "wait"
  <2>1. UNCHANGED <<gates, desc, rte, index, value, left, irr, isr, edges, apic, if, frames, soft>>
    BY <1>2, <1>9 DEF AwaitAP, hardware
  <2>2. GatesSet'
    BY <1>6, <1>7, <1>9, <2>1 DEF GatesSet
  <2>3. QED
    BY <1>1, <1>2, <2>1, <2>2, MiddleStep
<1>10. CASE do = "send"
  <2>1. /\ UNCHANGED <<gates, desc, rte, index, value, left, isr, edges, apic, if, frames, soft>>
        /\ Request({op.arg}, op.irq)
    BY <1>2, <1>3, <1>4, <1>10 DEF SendIPI
  <2>2. GatesSet /\ op.irq \in IPIs /\ op.arg = 1
    BY <1>6, <1>7, <1>10
  <2>3. GatesSet' /\ op.irq \in gates
    BY <1>1, <2>1, <2>2 DEF GatesSet
  <2>4. /\ irr' \in [CPU -> SUBSET Vectors] /\ irr'[0] = irr[0]
        /\ \A p \in CPU : irr'[p] \subseteq irr[p] \cup (IPIs \cap gates')
    BY <1>1, <2>1, <2>2, <2>3 DEF Request
  <2>5. QED
    BY <1>1, <1>2, <2>1, <2>3, <2>4, MiddleStep
<1>11. QED
  BY <1>8, <1>9, <1>10

LEMMA TaskSteps ==
  ASSUME IrqInd, NEW c \in CPU, TaskStep(c)
  PROVE  IrqInd'
BY StoreFieldStep, SelectStep, LoadStep, StoreStep, ComputeStep, MiddleSteps DEF TaskStep

(* A driver goes: its line may be open, and an interrupt on its way.       *)
LEMMA LeaveStep ==
  ASSUME IrqInd, OneDriver, NEW c \in CPU, NEW irq \in Lines, Leave(c, irq)
  PROVE  IrqInd'
<1>1. c = 0 /\ script' = [script EXCEPT ![0] = unregister_irq(irq)]
  BY DEF OneDriver, Leave, Idle
<1>2. unregister_irq(irq) \in Seq(Ops) /\ Rest(unregister_irq(irq), 0) = unregister_irq(irq)
  <2>1. unregister_irq(irq) \in Seq(Ops)
    BY UnregisterOps
  <2>2. QED
    BY <2>1, RestEnds
<1>3. /\ script' \in [CPU -> Seq(Ops)] /\ script'[0] = Rest(unregister_irq(irq), 0)
      /\ \A p \in CPU : p # 0 => script'[p] = script[p]
  BY <1>1, <1>2, VectorFacts DEF IrqInd, Typed
<1>4. UNCHANGED <<gates, desc, rte, index, value, left, hardware, frames, soft>>
  BY DEF Leave
<1>5. irq = HPET => GatesSet'
  BY <1>4 DEF Leave, IrqInd, Table, GatesFirst, GatesSet
<1>6. Unregistering(irq, 0)'
  BY <1>5 DEF Unregistering
<1>7. InScript'
  <2>1. 0 \in 0 .. 16
    OBVIOUS
  <2>2. QED
    BY <1>3, <1>6, <2>1 DEF InScript
<1>8. index' \in Lines \X {"low", "high"} /\ value' \in [CPU -> RTE]
  BY <1>4 DEF IrqInd, Typed, TypeOK, RTE, Half0
<1>9. QED
  BY <1>3, <1>4, <1>7, <1>8, Calm

(* A driver comes back: its line is shut and nothing is left of before.    *)
LEMMA EnterStep ==
  ASSUME IrqInd, OneDriver, NEW c \in CPU, NEW irq \in Lines, Enter(c, irq)
  PROVE  IrqInd'
<1>1. c = 0 /\ script' = [script EXCEPT ![0] = register_irq(irq)] /\ frames[0] = <<>>
  BY DEF OneDriver, Enter, Idle, InTask
<1>2. register_irq(irq) \in Seq(Ops) /\ Rest(register_irq(irq), 0) = register_irq(irq)
  <2>1. register_irq(irq) \in Seq(Ops)
    BY RegisterOps
  <2>2. QED
    BY <2>1, RestEnds
<1>3. /\ script' \in [CPU -> Seq(Ops)] /\ script'[0] = Rest(register_irq(irq), 0)
      /\ \A p \in CPU : p # 0 => script'[p] = script[p]
  BY <1>1, <1>2, VectorFacts DEF IrqInd, Typed
<1>4. /\ UNCHANGED <<gates, desc, rte, index, value, left, hardware, frames, soft>>
      /\ UNCHANGED <<irr, isr, edges, apic, if>>
  BY DEF Enter, hardware
<1>5. irq = HPET => GatesSet'
  BY <1>4 DEF Enter, IrqInd, Table, GatesFirst, GatesSet
<1>6. Quiet(irq)
  <2>1. desc[irq].controller = NULL /\ irq \notin irr[0]
    BY VectorFacts DEF Enter
  <2>2. irq # NULL
    BY VectorFacts
  <2>3. rte[irq].low.masked
    <3>1. OpenLineIsReady
      BY DEF IrqInd, Table
    <3>2. ~rte[irq].low.masked =>
            desc[irq] = [controller |-> irq, handler |-> irq, parameter |-> Parameter(irq)]
      BY <3>1 DEF OpenLineIsReady
    <3>3. QED
      BY <2>1, <2>2, <3>2
  <2>4. QED
    BY <1>1, <2>1, <2>3 DEF Quiet, InHand, Unacked
<1>7. Quiet(irq)'
  BY <1>4, <1>6, SameQuiet
<1>8. Registering(irq, 0)'
  BY <1>5, <1>7 DEF Registering
<1>9. InScript'
  <2>1. 0 \in 0 .. 16
    OBVIOUS
  <2>2. QED
    BY <1>3, <1>8, <2>1 DEF InScript
<1>10. index' \in Lines \X {"low", "high"} /\ value' \in [CPU -> RTE]
  BY <1>4 DEF IrqInd, Typed, TypeOK, RTE, Half0
<1>11. QED
  BY <1>3, <1>4, <1>9, <1>10, Calm

-----------------------------------------------------------------------------
(***************************************************************************)
(* The invariant, and what follows from it.                                *)
(***************************************************************************)
LEMMA InitInd ==
  ASSUME Init
  PROVE  IrqInd
<1>1. HPET \in Lines /\ Keyboard \in Lines /\ Keyboard # HPET /\ 0 \in CPU /\ Lines \subseteq Vectors
      /\ NULL \notin Vectors
  BY VectorFacts
<1>2. /\ gates = 32 .. 55
      /\ desc = [nr \in Vectors |-> [controller |-> NULL, handler |-> NULL, parameter |-> NULL]]
      /\ rte = [irq \in Lines |-> Masked(irq)] /\ index = <<HPET, "high">>
      /\ value = [c \in CPU |-> Masked(0)]
      /\ script = [c \in CPU |-> IF c = 0 THEN Boot ELSE <<>>]
      /\ apic = {0} /\ if = {0}
      /\ irr = [c \in CPU |-> {}] /\ isr = [c \in CPU |-> {}]
      /\ frames = [c \in CPU |-> <<>>] /\ soft = FALSE
      /\ edges = [irq \in Lines |-> 0] /\ left = {}
  BY DEF Init
<1>3. /\ Boot = Rest(register_irq(Keyboard), 0) \o (Middle \o register_irq(HPET))
      /\ Boot \in Seq(Ops)
  <2>1. PICK P, Q : P = register_irq(Keyboard) /\ Q = Middle \o register_irq(HPET)
    OBVIOUS
  <2>2. P \in Seq(Ops) /\ Q \in Seq(Ops) /\ Boot = Rest(P, 0) \o Q
    BY <1>1, <2>1, RegisterOps, BootParts
  <2>3. Rest(P, 0) = P /\ P \o Q \in Seq(Ops)
    BY <2>2, RestEnds, Joined
  <2>4. QED
    BY <2>1, <2>2, <2>3
<1>4. \A irq \in Lines : /\ Masked(irq) \in [low : [vector : {0} \cup Lines, masked : BOOLEAN], high : {0}]
                         /\ Masked(irq).low.masked
  BY DEF Masked
<1>5. \A c \in CPU : /\ irr[c] = {} /\ isr[c] = {} /\ frames[c] = <<>> /\ ~Unacked(c)
                     /\ c # 0 => script[c] = <<>>
  BY <1>2 DEF Unacked
<1>6. \A irq \in Lines : rte[irq].low.masked /\ Quiet(irq) /\ ~InHand(irq)
  BY <1>1, <1>2, <1>4, <1>5 DEF Quiet, InHand
<1>7. Typed
  <2>1. TypeOK
    <3>1. \A c \in CPU : \A i \in DOMAIN frames[c] : FALSE
      BY <1>5
    <3>2. /\ gates \subseteq 0 .. 255 /\ apic \subseteq CPU /\ if \subseteq apic
          /\ left \subseteq Lines /\ soft \in BOOLEAN
          /\ irr \in [CPU -> SUBSET Vectors] /\ isr \in [CPU -> SUBSET Vectors]
          /\ index \in Lines \X {"low", "high"}
      BY <1>1, <1>2
    <3>3. /\ rte \in [Lines -> [low : [vector : {0} \cup Lines, masked : BOOLEAN], high : {0}]]
          /\ value \in [CPU -> [low : [vector : {0} \cup Lines, masked : BOOLEAN], high : {0}]]
      BY <1>2, <1>4 DEF Masked
    <3>4. desc \in [Vectors -> [controller : Vectors \cup {NULL}, handler : Vectors \cup {NULL},
                                parameter : Vectors \cup {NULL}]]
      BY <1>2
    <3>5. QED
      BY <3>1, <3>2, <3>3, <3>4 DEF TypeOK
  <2>2. frames \in [CPU -> Seq(Frame)] /\ script \in [CPU -> Seq(Ops)]
    BY <1>2, <1>3
  <2>3. edges \in [Lines -> Nat] /\ 0 \in apic /\ 32 .. 55 \subseteq gates
    BY <1>2
  <2>4. \A nr \in Vectors : desc[nr].handler \in {NULL, nr}
    BY <1>2
  <2>5. QED
    BY <2>1, <2>2, <2>3, <2>4 DEF Typed
<1>8. Table
  BY <1>1, <1>2, <1>6 DEF Table, GatesFirst, Servable, OpenLineIsReady
<1>9. InScript
  <2>1. Registering(Keyboard, 0)
    BY <1>1, <1>6 DEF Registering
  <2>2. script[0] = Boot /\ Quiet(HPET) /\ 0 \in 0 .. 16
    BY <1>1, <1>2, <1>6
  <2>3. QED
    BY <1>3, <2>1, <2>2 DEF InScript
<1>10. \A c \in CPU : Processor(c)
  BY <1>5 DEF Processor, BootOnly, Served, InTask
<1>11. QED
  BY <1>7, <1>8, <1>9, <1>10 DEF IrqInd

(* Every step keeps the invariant, if drivers run on one processor.        *)
LEMMA NextInd ==
  ASSUME OneDriver, IrqInd, [Next]_vars
  PROVE  IrqInd'
<1>1. CASE UNCHANGED vars
  <2>1. UNCHANGED <<table, irr, isr, edges, frames, soft>> /\ apic' = apic /\ if' = if
    BY <1>1 DEF vars, table
  <2>2. apic' \subseteq CPU /\ if' \subseteq apic'
    BY <2>1 DEF IrqInd, Typed, TypeOK
  <2>3. QED
    BY <2>1, <2>2, Started
<1>2. CASE \E c \in CPU : TaskStep(c) \/ InterruptStep(c)
  BY <1>2, TaskSteps, InterruptSteps
<1>3. CASE \E c \in CPU : Deliver(c)
  BY <1>3, DeliverStep
<1>4. CASE \E c \in CPU : EnableAPIC(c) \/ Sti(c)
  BY <1>4, EnableStep
<1>5. CASE \E c \in CPU : \E irq \in Lines : Leave(c, irq)
  BY <1>5, LeaveStep
<1>6. CASE \E c \in CPU : \E irq \in Lines : Enter(c, irq)
  BY <1>6, EnterStep
<1>7. CASE \E irq \in Lines : Raise(irq)
  BY <1>7, RaiseStep
<1>8. QED
  BY <1>1, <1>2, <1>3, <1>4, <1>5, <1>6, <1>7 DEF Next

(* The inductive invariant of IrqTable.                                    *)
THEOREM IrqIndAlways ==
  ASSUME OneDriver
  PROVE  Spec => []IrqInd
<1>1. Init => IrqInd
  BY InitInd
<1>2. IrqInd /\ [Next]_vars => IrqInd'
  BY NextInd
<1>3. QED
  BY <1>1, <1>2, PTL DEF Spec

(* A line that can interrupt has its own vector in the entry, a processor  *)
(* that is on and a whole descriptor, at every store of register_irq and   *)
(* unregister_irq; what is requested of a processor has a gate.            *)
THEOREM OpenLinesAreReady ==
  ASSUME OneDriver
  PROVE  Spec => []IrqInv
<1>1. IrqInd => IrqInv
  BY DEF IrqInd, Typed, Table, IrqInv, Processor, HasGate
<1>2. QED
  BY <1>1, IrqIndAlways, PTL

(* The pointers that do_IRQ has tested are still there when it follows     *)
(* them: it calls the handler of its own vector with the parameter it was  *)
(* registered with.                                                        *)
THEOREM PointersFollowed ==
  ASSUME OneDriver
  PROVE  Spec => []FollowsNoNull
<1>1. IrqInd => FollowsNoNull
  BY DEF IrqInd, Processor, Following, FollowsNoNull
<1>2. QED
  BY <1>1, IrqIndAlways, PTL

(* No vector stays in service behind do_IRQ, but that of a line whose      *)
(* driver has unregistered.                                                *)
THEOREM Acknowledgement ==
  ASSUME OneDriver
  PROVE  Spec => []AckedBeforeReturn
<1>1. IrqInd => AckedBeforeReturn
  <2>1. SUFFICES ASSUME IrqInd, NEW c \in CPU, NEW nr \in Forgotten(c)
                 PROVE  nr \in left
    BY DEF AckedBeforeReturn
  <2>2. /\ nr \in isr[c] /\ Served(c)
        /\ \A i \in DOMAIN frames[c] :
             frames[c][i].nr = nr => frames[c][i].at \in {"return", "soft"}
    BY <2>1 DEF Forgotten, IrqInd, Processor
  <2>3. CASE ~Unacked(c)
    BY <2>2, <2>3 DEF Served
  <2>4. CASE Unacked(c)
    <3>1. 1 \in DOMAIN frames[c] /\ Top(c) = frames[c][1]
      <4>1. frames[c] \in Seq(Frame)
        BY <2>1 DEF IrqInd, Typed
      <4>2. frames[c] # <<>>
        BY <2>4 DEF Unacked
      <4>3. QED
        BY <4>1, <4>2 DEF Top
    <3>2. Top(c).at \notin {"return", "soft"}
      BY <2>4 DEF Unacked
    <3>3. nr # Top(c).nr
      BY <2>2, <3>1, <3>2
    <3>4. QED
      BY <2>2, <2>4, <3>3 DEF Served
  <2>5. QED
    BY <2>3, <2>4
<1>2. QED
  BY <1>1, IrqIndAlways, PTL
=============================================================================
