------------------------------- MODULE SmpBoot -------------------------------
(***************************************************************************)
(* The boot processor brings up the application processors one after the   *)
(* other (init/main.c, init/head.S, init/SMP.c).  Everything an AP needs   *)
(* is handed over in two shared variables, _stack_start and global_i, and  *)
(* the spin lock SMP_lock is used as a semaphore: the BSP takes it for     *)
(* each AP, the AP gives it back when it is up.                            *)
(*                                                                         *)
(* A stack, its task_struct and the TSS set up for it are named by the     *)
(* number of the CPU they are made for; 0 is the boot processor.           *)
(***************************************************************************)
EXTENDS Integers, FiniteSets

CONSTANTS NR_CPUS,     \* processors, the boot processor included
          TaskInitCPU, \* the AP that calls task_init, 3 in the code
          None         \* a task register or pointer not loaded yet

ASSUME SmpBootAssumption ==
  /\ NR_CPUS \in Nat \ {0, 1}
  /\ TaskInitCPU \in Nat
  /\ None \notin Nat

VARIABLES global_i,
          stack_start,   \* _stack_start
          SMP_lock,      \* the lock word, 1 when free
          tss,           \* the TSS descriptors the BSP has set
          started,       \* CPUs a Start-up IPI was sent to
          pc,
          stack,         \* the stack each CPU runs on, hence `current`
          rsp0,          \* current->thread->rsp0
          init_task,
          tr,            \* the TSS each CPU has loaded
          preempt_count  \* of the task made for each CPU

vars == <<global_i, stack_start, SMP_lock, tss, started, pc, stack, rsp0,
          init_task, tr, preempt_count>>

CPUs == 0 .. NR_CPUS - 1
APs  == CPUs \ {0}

Unset == [c \in CPUs |-> IF c = 0 THEN 0 ELSE None]

Goto(c, place) == pc' = [pc EXCEPT ![c] = place]

\* Mutated: the lock is taken although it is held, and never given back.
spin_lock_free(t) ==
  /\ SMP_lock' = 0
  /\ preempt_count' = [preempt_count EXCEPT ![t] = @ + 1]

spin_unlock_not(t) ==
  /\ preempt_count' = [preempt_count EXCEPT ![t] = @ - 1]
  /\ UNCHANGED SMP_lock

\* spin_lock and spin_unlock by the task that runs on stack t, between the
\* decrement that succeeds and the store.
spin_lock(t) ==
  /\ SMP_lock = 1
  /\ SMP_lock' = 0
  /\ preempt_count' = [preempt_count EXCEPT ![t] = @ + 1]

spin_unlock(t) ==
  /\ SMP_lock' = 1
  /\ preempt_count' = [preempt_count EXCEPT ![t] = @ - 1]

-----------------------------------------------------------------------------
\* After SMP_init: the BSP is at the head of its loop, the APs are halted.
Init ==
  /\ global_i = 1
  /\ stack_start = 0
  /\ SMP_lock = 1
  /\ tss = {0}
  /\ started = {}
  /\ pc = [c \in CPUs |-> IF c = 0 THEN "lock" ELSE "off"]
  /\ stack = Unset
  /\ rsp0 = Unset
  /\ init_task = Unset
  /\ tr = Unset
  /\ preempt_count = [c \in CPUs |-> 0]

\* Start_Kernel: the loop takes the lock for AP number global_i.
BspLock ==
  /\ pc[0] = "lock"
  /\ global_i < NR_CPUS
  /\ spin_lock(0)
  /\ Goto(0, "prepare")
  /\ UNCHANGED <<global_i, stack_start, tss, started, stack, rsp0, init_task, tr>>

\* Its stack, its interrupt stack and its TSS.
BspPrepare ==
  /\ pc[0] = "prepare"
  /\ stack_start' = global_i
  /\ tss' = tss \cup {global_i}
  /\ Goto(0, "ipi")
  /\ UNCHANGED <<global_i, SMP_lock, started, stack, rsp0, init_task, tr,
                 preempt_count>>

\* Mutated: dest_shorthand still says all but self, as for the INIT IPI.
BspStartUp_all ==
  /\ pc[0] = "ipi"
  /\ started' = APs
  /\ Goto(0, "next")
  /\ UNCHANGED <<global_i, stack_start, SMP_lock, tss, stack, rsp0, init_task,
                 tr, preempt_count>>

\* The Start-up IPI, sent twice; a processor that runs ignores it.
BspStartUp ==
  /\ pc[0] = "ipi"
  /\ started' = started \cup {global_i}
  /\ Goto(0, "next")
  /\ UNCHANGED <<global_i, stack_start, SMP_lock, tss, stack, rsp0, init_task,
                 tr, preempt_count>>

BspIncrement ==
  /\ pc[0] = "next"
  /\ global_i' = global_i + 1
  /\ Goto(0, "lock")
  /\ UNCHANGED <<stack_start, SMP_lock, tss, started, stack, rsp0, init_task,
                 tr, preempt_count>>

\* The loop is over: the BSP prints its progress under printk_lock, which
\* is another spin lock.
BspPrint ==
  /\ pc[0] = "lock"
  /\ global_i >= NR_CPUS
  /\ preempt_count' = [preempt_count EXCEPT ![0] = @ + 1]
  /\ Goto(0, "printing")
  /\ UNCHANGED <<global_i, stack_start, SMP_lock, tss, started, stack, rsp0,
                 init_task, tr>>

BspPrinted ==
  /\ pc[0] = "printing"
  /\ preempt_count' = [preempt_count EXCEPT ![0] = @ - 1]
  /\ Goto(0, "task_init")
  /\ UNCHANGED <<global_i, stack_start, SMP_lock, tss, started, stack, rsp0,
                 init_task, tr>>

\* task_init resets the counter of the boot processor's idle task, whoever
\* calls it.
TaskInit(c) ==
  /\ pc[c] = "task_init"
  /\ preempt_count' = [preempt_count EXCEPT ![0] = 0]
  /\ Goto(c, "idle")
  /\ UNCHANGED <<global_i, stack_start, SMP_lock, tss, started, stack, rsp0,
                 init_task, tr>>

\* head.S: the AP takes its stack from _stack_start.
ApEntry(c) ==
  /\ pc[c] = "off"
  /\ c \in started
  /\ stack' = [stack EXCEPT ![c] = stack_start]
  /\ Goto(c, "pcb")
  /\ UNCHANGED <<global_i, stack_start, SMP_lock, tss, started, rsp0,
                 init_task, tr, preempt_count>>

\* Start_SMP: the task_struct of the idle task; cpu_id was set by the BSP.
ApTask(c) ==
  /\ pc[c] = "pcb"
  /\ rsp0' = [rsp0 EXCEPT ![c] = stack_start]
  /\ init_task' = [init_task EXCEPT ![stack[c]] = stack[c]]
  /\ Goto(c, "ltr")
  /\ UNCHANGED <<global_i, stack_start, SMP_lock, tss, started, stack, tr,
                 preempt_count>>

\* load_TR(10 + (global_i - 1) * 2).
ApLoadTR(c) ==
  /\ pc[c] = "ltr"
  /\ tr' = [tr EXCEPT ![c] = global_i - 1]
  /\ Goto(c, "unlock")
  /\ UNCHANGED <<global_i, stack_start, SMP_lock, tss, started, stack, rsp0,
                 init_task, preempt_count>>

ApUnlock(c) ==
  /\ pc[c] = "unlock"
  /\ spin_unlock(stack[c])
  /\ Goto(c, "zero")
  /\ UNCHANGED <<global_i, stack_start, tss, started, stack, rsp0, init_task, tr>>

\* current->preempt_count = 0; sti; and task_init on one of the APs.
ApEnable(c) ==
  /\ pc[c] = "zero"
  /\ preempt_count' = [preempt_count EXCEPT ![stack[c]] = 0]
  /\ Goto(c, IF stack[c] = TaskInitCPU THEN "task_init" ELSE "idle")
  /\ UNCHANGED <<global_i, stack_start, SMP_lock, tss, started, stack, rsp0,
                 init_task, tr>>

BspNext == \/ BspLock \/ BspPrepare \/ BspStartUp \/ BspIncrement
           \/ BspPrint \/ BspPrinted \/ TaskInit(0)

ApNext(c) == \/ ApEntry(c) \/ ApTask(c) \/ ApLoadTR(c) \/ ApUnlock(c)
             \/ ApEnable(c) \/ TaskInit(c)

Next == BspNext \/ \E c \in APs : ApNext(c)

Spec == Init /\ [][Next]_vars

FairSpec == Spec /\ WF_vars(BspNext) /\ \A c \in APs : WF_vars(ApNext(c))

-----------------------------------------------------------------------------
TypeOK ==
  /\ global_i \in 1 .. NR_CPUS
  /\ stack_start \in CPUs
  /\ SMP_lock \in {0, 1}
  /\ tss \in SUBSET CPUs
  /\ started \in SUBSET APs
  /\ pc \in [CPUs -> {"lock", "prepare", "ipi", "next", "printing",
                      "task_init", "off", "pcb", "ltr", "unlock", "zero",
                      "idle"}]
  /\ stack \in [CPUs -> CPUs \cup {None}]
  /\ rsp0 \in [CPUs -> CPUs \cup {None}]
  /\ init_task \in [CPUs -> CPUs \cup {None}]
  /\ tr \in [CPUs -> CPUs \cup {None}]
  /\ preempt_count \in [CPUs -> Int]

\* APs that were started and have not released the lock.
Starting == {c \in APs : c \in started /\ pc[c] \in {"off", "pcb", "ltr", "unlock"}}

(* _stack_start is handed from the BSP to one AP at a time: every AP runs  *)
(* on the stack made for it, records that same stack in its thread_struct  *)
(* although it reads _stack_start twice, and is the init_task of its CPU   *)
(* once it has released the lock.                                          *)
OwnStack ==
  \A c \in APs :
    /\ stack[c] \in {None, c}
    /\ rsp0[c] \in {None, c}
    /\ pc[c] \in {"zero", "task_init", "idle"} => init_task[c] = c

(* The APs are served one at a time and in order: at most one is between   *)
(* its Start-up IPI and its release of the lock, while it is the lock is   *)
(* taken, and all those before it have released it.                        *)
OneAtATime ==
  /\ Cardinality(Starting) <= 1
  /\ \A c \in Starting : SMP_lock = 0 /\ \A d \in 1 .. c - 1 : d \in started \ Starting
  /\ SMP_lock = 1 => pc[0] \notin {"prepare", "ipi"}

(* The hand-over from one processor to the next is sound.                  *)
BootInv == TypeOK /\ OneAtATime

(* An AP loads the TSS that belongs to it (SMP.c:128).  The code does not  *)
(* keep this: it counts on the BSP having incremented global_i already.    *)
OwnTSS == \A c \in APs : tr[c] \in {None, c}

(* A task that holds a spin lock is not preempted (README.md:110).  The    *)
(* code does not keep this for the BSP: the AP that calls task_init resets *)
(* the BSP's counter.                                                      *)
LockHolderNotPreempted == pc[0] = "printing" => preempt_count[0] > 0

(* Every processor comes up, in the end with preemption enabled, whoever   *)
(* took and released SMP_lock.                                             *)
AllUp ==
  <>[](\A c \in CPUs : pc[c] = "idle" /\ preempt_count[c] = 0)
=============================================================================
