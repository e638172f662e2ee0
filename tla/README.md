# sOS64 in TLA+

Models, model-checking runs and proofs for the sOS64 kernel (`src/kernel`), a small 64-bit SMP
kernel. Every definition of the models is translated from the C or assembly code named in its
comment and in the `map` of `PROJECT.json`; kernel paths below are relative to `src/src/kernel`.

## 1. The system

The boot loaders (`bootloader/`, `UEFIbootloader/`) leave a memory map and jump to `init/head.S`.
`Start_Kernel` (`init/main.c`) initialises memory, slabs, interrupts, scheduler, soft interrupts and
keyboard, starts three more processors, starts the timer and becomes the idle task of processor 0.
From then on everything happens in interrupts and in the threads `do_fork` makes.

| Component | State | Operations | Meets |
|---|---|---|---|
| Scheduler `sched/scheduler.c` | per CPU: run queue, its counter, what is left of the slice; per task: state, priority, vruntime, NEED_SCHEDULE | `update_cur_runtime`, `enqueue_task`, `pick_next_task`, `init_timeslice`, `schedule` | called by the interrupt return path, `do_fork`, the semaphore |
| Tasks `sched/task.c` | task_struct and thread_struct of each task | `do_fork`, `kernel_thread`, `do_execve`, `task_init`, `__switch_to`, `do_exit` | pages, scheduler |
| Interrupt return `idt/entry.S` | - | `ret_from_intr`: soft interrupts, `preempt_count`, NEED_SCHEDULE | soft interrupts, scheduler |
| Spin lock `lock/spinlock.h`, `preempt.h` | lock word, `preempt_count` of the task | `spin_lock`, `spin_unlock` | `preempt_count` is read by the return path |
| Soft interrupts `idt/softirq.c` | `softirq_status`, vector of 64 actions | raise, `do_softirq` | run with interrupts on: nest |
| Timers `timer/timer.c`, `device/HPET.c` | `jiffies`, ordered list of timers | `HPET_handler`, `do_timer`, `add_timer` | soft interrupt 0; forwards the tick to the APs as IPI 200 |
| SMP start-up `init/main.c`, `init/SMP.c`, `init/head.S` | `_stack_start`, `global_i`, `SMP_lock`, TSS descriptors | the loop of the BSP, `Start_SMP` of each AP | kmalloc, scheduler, `task_init` |
| Pages `mm/mm.c` | page bitmap, zones with counters | `init_memory`, `alloc_pages`, `free_pages` | fork, slabs; takes no lock |
| Slabs, kmalloc `mm/slab.c`, `mm/mm.c` | pools of slabs with bitmaps and counters | `slab_create`, `slab_malloc`, `slab_free`, `kmalloc`, `kfree` | pages |
| Memory map `UEFIbootloader/BootLoader.c`, `mm/mm.c` | firmware descriptors, E820 table, zones | conversion, merging and sorting in the loader; `init_memory` | pages |
| Page tables `mm/mm.c`, `debug/printk.c`, `device/pic/APIC.c` | the linear mapping | `frame_buffer_init`, `pagetable_init`, `IOAPIC_pagetable_remap`, once each | zones; kmalloc for new tables |
| Keyboard `device/keyboard.c` | ring buffer, modifier flags | `keyboard_handler`, `get_scancode`, `analysis_keycode` | interrupt 0x21 of the BSP |
| Semaphore `lock/semaphore.c` | counter, list of waiters | `semaphore_down`, `semaphore_up` | scheduler |
| Console `debug/printk.c` | cursor, shared buffer, `printk_lock` | `color_printk`, `vsprintf`, `number` | spin lock; called from everywhere |
| Interrupt tables `idt/interrupt.c`, `device/pic/*` | descriptors of lines and IPIs, redirection entries of the I/O APIC, in-service bits of the local APICs | `register_irq`, `unregister_irq`, `register_IPI`, the install, enable and disable functions, `do_IRQ`, `IOAPIC_edge_ack` | all drivers, the return path |
| Exceptions `idt/trap.c`, `idt/entry.S` | gates, the frame of each entry | 20 handlers, which print and loop | console |
| CPU information `cpu.c`, RTC `time.c` | - | read the hardware | - |

What is hard: ticks fall between any two steps of task code; soft interrupts run with interrupts on
and nest, with task switches inside; four processors share memory without a lock in the allocator,
the timers and the semaphore; a spin lock keeps its holder on its processor through a counter that
other code also writes; slices, bitmap words and ring indices have boundaries. `PROJECT.json` lists
each of these hazards with its line and the properties that cover it.

What makes each component correct:

- scheduler: no task lost or in two places, queue ordered and counted, the smallest virtual run time
  first, bounded unfairness, no starvation;
- spin lock: mutual exclusion, the holder is not descheduled, no processor waits for ever;
- soft interrupts and timers: no raise is forgotten, each timer runs once and in order, and does run;
- start-up: each AP gets its own stack and TSS, one AP at a time, all come up;
- memory map: no memory the firmware gives is lost, only whole pages of it are handed out;
- pages: no page twice, bitmap and counters agree, requests served from the right zone when possible;
- page tables: what the kernel touches is mapped, each page to itself;
- slabs: no object twice, counters agree with what is in use, no slab used after it is freed, no page lost, unused
  slabs given back;
- keyboard: scancodes once and in order, flags follow the keys;
- semaphore: units conserved, no lost wake-up, a task returns only with a unit;
- console: messages come out whole and one at a time, a conversion reads back as its argument, the cursor stays on the
  screen, nobody waits for `printk_lock` for ever;
- exceptions: the report names the exception, its error code and the place;
- interrupt tables: an open line is complete, no handler is called through a null pointer, every interrupt is
  acknowledged before its processor goes on and is served in the end.

## 2. Plan

Modelled and checked, in this order: `Scheduler`, `SpinLock` over `Mutex`, `KernelList` and `SoftIrqTimer`, `SmpBoot`,
`PageAllocator`, `Keyboard`, `Semaphore` over `Scheduler`, `Kmalloc`, `SlabCache` over `Kmalloc`, `Printk`, `Traps` and
`Console` over both, `IrqTable`, `MemoryMap` over `PageAllocator`. Proved: `Scheduler`, `SpinLock`, `SmpBoot`, `Keyboard`,
`PageAllocator`, `MemoryMap`, `Semaphore`, `SoftIrqTimer` with `KernelList`, `IrqTable`, `Console` with `Printk` and `Traps`,
`Kmalloc` with `SlabCache` (section 6).

To come:

1. `RunQueue`: the pointer-level queue over `KernelList`, with a tick inside `enqueue_task`, against
   the sequence of `Scheduler`.
2. `SoftIrqTimer` on two processors.
3. `do_execve`, which overwrites entry 0 of the top-level table (`sched/task.c:91`) through which an AP may still be
   running, and `do_exit`; a reader of the keyboard on another processor.

## 3. The modules

A module `X` has its state as VARIABLES, one action per operation or per part of one that other
actors can come between, and its properties at the end; `MCX` instantiates it for TLC; `X_run.cfg` is
a run; `XProofs` has its theorems, those of `MemoryMap` being in `PageAllocatorProofs` and those of `Semaphore` in
`SchedulerProofs`, on whose lemmas they rest; those of `SlabCache` and of `SmpBoot`, which takes its stacks from the heap, are
in `HeapBootProofs`. Operators whose comment says *Mutated* are wrong on purpose: with
the one of `PROJECT.json` in the place of the right one, TLC finds the property of that row violated.

**Scheduler.** `runqueue` is the sequence of the linked list, `CPU_exec_task_jiffies` the rest of the
slice, the task fields are functions. A tick is one action (`TickReturn`, `TickSchedule`): the top half
and the return path run with interrupts off, so nothing of that CPU can come between. `schedule` is
the function of that name, an operator on the virtual run times the caller has just charged. `do_fork`
is two actions, copy and insertion, since it runs with interrupts on. A new thread runs with interrupts
off (nothing restores its RFLAGS) until `SystemCall`. Run queues are chosen by `cpu_id` of the current
task, as `SMP_cpu_id()` does, not by the CPU: that they are the same is the invariant `LocalTasks`.
`head_start` is a history variable: what the parent ran between the two steps of a fork.
Abstracted: the insertion in the list is one step; register contexts; `do_exit`, which only loops.

**SpinLock, Mutex.** Each instruction that touches the word or the counter is an action: `Disable`,
`Decrement` (`lock decq; jns`), `Retry` (`cmpq; jle`), `Store`, `Enable`; `Preempt` is the scheduler seen
from here. `Mutex` is the abstract lock, implemented with `holder` mapped to the task inside.

**KernelList, SoftIrqTimer.** `KernelList` does the pointer assignments of `include/list.h`, so that it also says
what deleting a node twice does. In `SoftIrqTimer` each task has a stack of calls in progress:
`HPET_handler` and any other interrupt may arrive in task code, in `add_timer` and inside `do_softirq`, which runs with
interrupts on (`idt/softirq.c:47`), and push a nested `do_softirq` or switch tasks; so may `Return`. `do_timer` and `add_timer` are
cut at every read and write of the list. `caught` is a history variable: an interrupt has let other code run while the call
under it held a pointer it had read from the list and not yet used for the last time (`Overtaken`; the four stores of an insertion or
a deletion are one step, which is that last use, and an interrupt between them counts as one before it). From then on
the list may be anything, and the invariants claim nothing; before, they hold through every nesting, every switch in the
middle of `do_softirq` and every raise while an action runs. Time stands still at its bound. (Nothing in the kernel calls `add_timer` yet.)
`Tasks` of one processor; only soft interrupt 0, the one that is registered.

**SmpBoot.** The BSP's loop is four steps, the AP's path five, cut where the shared variables `_stack_start`,
`global_i`, `SMP_lock` and the counters are read or written; a stack, a task and a TSS are named by the
number they were made for, which is how `OwnStack` and `OwnTSS` can say whose is used.

**PageAllocator.** `mms` is the layout `init_memory` leaves: zones, bits of the bitmap, the first zone above 4GB;
`bits_map` is the set of pages whose bit is set. `AllocScan` is the search, `AllocMark` the marking of one page; in between
another processor may act. The search looks at the words the code looks at, which is up to the last
bit of the word the zone's end falls in; what the memory behind the bitmap reads as is a choice.
The last caller's answer is kept in `answer`; -1 there stands for the missing return statement.
Page attributes are left out, and the refusal of a number outside 1 to 63 or of an unknown zone, which changes nothing. `MCPageAllocator` starts it in layouts of its own, `MemoryMap` in those of the boot.

**MemoryMap.** One action per function of the boot, or per turn of its loop: the loader converts and merges the firmware's
descriptors and sorts them, `init_memory` sets the bitmap, makes a zone of each entry of RAM (`InitZone`, at `entry`) and takes the
kernel's pages (`InitKernelPages`), `kmalloc_slab_init` takes its own, then `frame_buffer_init`,
`pagetable_init` and `IOAPIC_pagetable_remap` complete the tables `head.S` starts with; from then on
`Allocate` is the next-state relation of `PageAllocator`. Addresses are in units, a fraction of a 2MB page, so that
ranges begin and end inside pages. The linear mapping is one level of tables of page entries; a new table's
entries are `Junk` until they are written, since nobody clears them. The frame buffer has any number of pages that
fits the window of `head.S`: two in the run, as for the 3MB `Pos` starts with, three with the 1440 x 900 of `init_Pos`.

**Kmalloc, SlabCache.** A call is a function from one `heap` to the next, set-valued where it reads what a page held before
(`kmalloc_create` computes the length of the bitmap from a field it has not set yet). Nested calls are nested
applications: a large class takes the struct and the bitmap of its slabs from small classes, which take nothing
from anybody, so that two levels are all there are. The ring of slabs is a sequence that starts at `cache_pool`;
the address of an object is the page of its slab and its index there. Sizes are classes already rounded up. `alloc_pages` gives the
first free page; when there is none it ends without a return (`mm/mm.c:384-449`), the caller tests and uses whatever %rax
holds, which the build (no `-O`) leaves the index of the last zone, and the answer is `Wild`. So is, as one possible outcome, that
of a new small slab, whose `memset` with a length made of junk (`mm/mm.c:518-522`) may run past its page. `Wild` is not NULL: no failure branch is
taken on it. A call that meets it sets `astray`, a history variable, and is the last one; until then the invariants hold. The failures half way that
are left, and are modelled, are those where `kmalloc` does answer NULL for a struct or a bitmap: for the first object of
address 0, and for a new slab whose bitmap has no clear bit. `Unplaced` are the classes that keep address 0 at boot, because
the last loop of `kmalloc_slab_init` does not start at 0: exactly one, the smallest, when the kernel and its tables end below 2 MB. It is the one
bitmaps of the large classes are taken from.
`SlabCache` adds the pools of `slab_create`, whose slabs are described by objects of kmalloc and freed like those of
a large class: `slab_create`, `slab_malloc`, `slab_free` and `slab_destory`, each with the failures half way and what
it then gives back or keeps. A cache counts a free object only where a slab has one, since `get_new_Slab` clears its
bitmaps. `FreesReturning` restricts callers to the frees that leave the loop of `slab_free`;
a free that does not puts its pool in `looping`. Constructors and destructors are left out, no caller gives one.

**Keyboard.** `keyboard_handler` is one action (interrupts are off on the processor that takes it),
`get_scancode` three, with the load and the store of `count--` apart since the kernel is compiled without
optimisation; `analysis_keycode` is the state `got` (scancodes of the group so far) and the functions that
say what a complete group does to the modifier flags. The keyboard itself is external: `KeyEvent` sends the
make and break codes of set 1. `unread` is a history variable, the scancodes received and not returned.
Kernel code never calls `analysis_keycode` yet; the reader of the model calls it again and again.

**Printk, Traps, Console.** `Printk` says what one directive of a format turns into: `number` with its flags, width,
precision and base over integers of `IntBits` and `LongBits`, and what `vsprintf` does per conversion letter. `Traps`
has the gates of `sys_vector_init`, what the processor and the entry of `entry.S` push for each vector, and the
messages of the handler that `error_code` then calls from that stack (`Callee`). In `Console` each processor has a stack of frames, what it runs at the bottom
and interrupts and exceptions above it. `Call` decides about the lock from IF, `Lock` takes it, `Format` fills the shared
buffer, `Put` and `Wrap` are one round of the loop, in which cursor and blanks owed change, `Finish` unlocks. The lock is
the abstract one `SpinLock` is shown to implement. `disturbed` is a history variable: whether a print
that no lock keeps apart has come between the steps of this one. Glyphs stand for the pixels of the font.

**IrqTable.** What a driver does is a script of accesses, one per store to a descriptor, to the I/O APIC's index register
or through its data register, since a 64-bit entry is written in two halves and an interrupt may come between any two.
`do_IRQ` is cut at each load of the descriptor it tests and then uses. The local APIC is external: request and
in-service bits, a new interrupt taken only above the class in service, and one kept pending per vector. Gates
clear IF, so nesting comes from the soft interrupts of the return path. `left` is a history variable, the lines whose
driver has ever unregistered. The tick's handler forwards IPI 200 as `HPET_handler` does.

**Semaphore.** Extends `Scheduler` with the steps of `semaphore_down` and `semaphore_up`; `schedule` is the
scheduler's, so that what a blocked task meets there is what the code does. `Masked` says that callers
disable interrupts. When a waiter is left dangling the list is corrupt and the model stops.

## 4. The runs

| Run | Bounds | States | Shows |
|---|---|---|---|
| Scheduler_one | 1 CPU, idle + 2, vruntime <= 16, 1 lock deep | 400k | `SchedulerInv`, `BoundedLag`, `SwitchToSmallest` |
| Scheduler_fair | 1 CPU, idle + 2, vruntime <= 18 | 25.8k | `NoStarvation` |
| SpinLock_three | 3 CPUs, 4 tasks | 270 | `LockInv`, `MutualExclusion`, `HolderRuns`, `WordBounded`, `ImplementsMutex`, `Progress` |
| SoftIrqTimer_nested | 2 tasks, 2 timers, 3 jiffies, 2 `do_softirq` deep on each stack | 89k | `TimerInv`, `FiresOnce`, `EarliestFirst`, `EveryTimerFires` |
| SmpBoot_four | 4 processors, the code's number | 998 | `OwnStack`, `BootInv`, `AllUp` |
| MemoryMap_boot | 3 machines' maps in many orders, pages of 2 units, words of 4 bits, 3 tables of 8 entries, runs of 1 to 3 | 227k | `MapKept`, `HandsOutRam`, `KernelMapped`, `NoDoubleAllocation`, `PagesInv`, `FromSelectedZone`, `FindsWhatIsThere` |
| SlabCache_objects | classes of 2, 3, 2 and 1 objects, the first at address 0, a cache of 2, 3 spare pages, 5 objects | 451k | `UsedOnce`, `HeapInv`, `AtMostOneSpare` |
| Keyboard_fifo | ring of 3, six keys, reader at most 3 behind | 1.3M | `KeyboardInv`, `FlagsFollowKeys` |
| Semaphore_masked | 1 CPU, idle + 3, 1 unit, vruntime <= 8 | 76k | `SemaphoreInv`, `NobodyLost` |
| Console_print | 2 CPUs, lines of 5, pages of 2, tabs of 2, 4-bit int, 6-bit long, one message each, one event | 131k | `ConsoleInv`, `PrintedWhole`, `ConversionsRead`, `FaultNamed`, `EveryPrintEnds` |
| IrqTable_serve | 2 CPUs, 2 lines, 2 IPIs, 2 edges per device, 2 interrupts deep, 1 leaving driver on CPU 0 | 719k | `IrqInv`, `FollowsNoNull`, `AckedBeforeReturn`, `EveryInterruptServed` |
| Semaphore_early | 1 CPU | - | *violated*: `ReturnsWhenWoken` |

An invariant `XInv` is the conjunction of the type invariant of module `X` and of its main invariants, named apart in
the module: `ListIsPending`; `BitmapIsUsage`, `CountersMatchBitmap`; `CountersAgree`, `PagesOwned`;
`RingHoldsUnread`, `CountIsCovered`; `UnitsConserved`, `NoIdleUnit`; `LockMatches`; `OpenLineIsReady`, `HasGate`.
`SchedulerInv` and `LockInv` are the inductive ones of section 6.

Further configurations, which are not among the runs of `PROJECT.json`, make TLC print a counterexample each to
properties the code does not keep, which section 7 explains: `Scheduler_slice`, `SoftIrqTimer_twice`,
`SmpBoot_promises`, `PageAllocator_adjacent`, `PageAllocator_promises`, `MemoryMap_stray`, `Kmalloc_promises` (of module
`MCSlabCache`), `SlabCache_loop`, `Keyboard_promises`, `Semaphore_smp`, `Console_soft`, `Console_promises`,
`IrqTable_leave`, `IrqTable_two`. Those named `_promises`, and `IrqTable_two`, have several properties, all of them violated;
`tlc -continue` goes on after the first.

Why the bounds are enough. A slice lasts 2 to 12 units of virtual run time and a tick costs 2, so 16 covers
a whole longest slice and the switch after it, with the overrun a lock causes; what happens later repeats with
larger numbers, and the theorems hold for any. Three forked tasks give queues where an insertion has a
front, a middle and an end. Two tasks on one of three processors is the smallest case in which a task waits
for a lock while another one wants its processor. With words of four bits and runs of three a run crosses a
word, starts and ends at its edges, and zones have one, three and four pages. A ring of three is smaller than
printscreen (four scancodes) and pause (six), so that groups wrap around it. In `SlabCache` class 1 is
the 32 bytes of a large class's bitmap, without a page at boot, class 2 the 128 bytes structs take, class 3 a large class, class 4 the one
without a case, pool 5 a created one; three pages allow two slabs of the large class with a new slab of a small one
under them, and every failure in between;
the real ratios (tens of thousands of objects in a slab) only add further objects of the same kind. Two nested `do_softirq` calls on
each of two stacks are the smallest nesting with a switch inside; deeper ones add further copies of the same step (three, and three timers, pass for the
invariants too). The run follows a behaviour to the interrupt that overtakes a call and not beyond (`Claimed`), where
none of its properties says anything. In `MemoryMap` two units a page are enough for a
range to begin and to end inside a page, to share one with its neighbour, and to hold none; the machines have
one zone, three zones with memory above 4GB, and descriptors of length zero or of unusable memory. In `Console`
a line end, a tab and the end of the page follow each other within two messages, every flag meets every other
one, and the numbers are the ends of their ranges and one with more digits than one; every vector is
reported. In `IrqTable` a second edge can arrive while the first is requested or in service, and two vectors of
different classes nest in both orders. Symmetry is used where the tasks or
timers are interchangeable and no liveness is checked.

Deadlock is checked except where the system or the bound stops: `SmpBoot` (the start-up ends),
`Scheduler_fair` (the bound on time), `SlabCache` (a call has gone astray, or does not return),
`Console` (every processor has printed its messages, or is in an exception handler, which loops for ever), `IrqTable` (the
devices have used up their interrupts),
`Keyboard` (a reader waiting for ever at the bound of `Keyboard_promises`), `Semaphore` (the model stops
at a dangling waiter).

## 5. Fairness

- `Scheduler`: the HPET interrupts periodically and is forwarded to every processor (weak fairness of a tick);
  a task that uses locks is not caught inside one by every single tick (strong fairness of `TickSchedule`);
  `do_fork` ends, locks are released, a new thread makes a system call. Nothing is assumed about who forks.
- `SpinLock`: a processor goes on executing its current task, and critical sections end. Since `preempt_count` keeps
  the task on its processor, weak fairness of its next instruction is what the hardware gives. A task is not
  forced to ask for the lock, and no fairness between takers is assumed: the lock has no queue.
- `SoftIrqTimer`: the HPET interrupts, and the call on top of the current stack goes on (weak fairness). Interrupts nest, so two things more: the
  scheduler, which the end of an interrupt or of `do_softirq` may call, comes back to every task (strong fairness of `ResumeOf`), and a call
  that may be interrupted again and again is not interrupted before every one of its steps for ever (strong fairness of `StepAt`),
  ticks being far apart.
- `Console`: a processor goes on with the print or the interrupt it is in. Nothing is assumed about who prints, and
  nothing about exceptions, whose handler stops the processor; `Console_print` has them outside color_printk only.
- `IrqTable`: processors go on, a local APIC delivers what it may, the APs come up and enable interrupts. Nothing
  obliges a device to interrupt or a driver to leave or to come back.
- `SmpBoot`: every processor goes on; a Start-up IPI is delivered.

## 6. What is proved

With TLAPS, for all values of the constants that satisfy the named assumptions. These say what the code fixes: each CPU
has its own idle task and the null pointer is no task (`SchedulerAssumption`); each task has a processor, and there are
finitely many of them (`SpinLockAssumption`); finitely many timers, none of which is the list head
(`SoftIrqTimerAssumption`); size classes in order with room for an object each, and pages that are none of the kernel's
(`KmallocAssumption`, `SlabCacheAssumption`); at least two processors (`SmpBootAssumption`); keys with a scancode and a ring with a slot
(`KeyboardAssumption`); requests shorter than a bitmap word, as `alloc_pages` demands (`PageAllocatorAssumption`);
at least two processors, the lines' vectors below 0x80 and the IPIs' above, the two IPIs of the boot among them
(`IrqTableAssumption`); integers of some width (`PrintkAssumption`, which spells out that powers of two are positive numbers,
since the provers know nothing of `^`), a page lower than the screen, and messages that fit into the buffer, which `color_printk` does not test
(`ConsoleAssumption`). For the boot: the firmware's map has no overlaps (`MemoryMapAssumption`); the pages the kernel takes
before it allocates any lie in one range of RAM, below anything unusable, and page 0 is not all RAM (`KernelAssumption`): `init_memory`
does not test either, and indexes the pages of a zone that may not be there; `head.S` maps those pages and the window, and
neither devices nor the end of the first 4GB, where a PC has its BIOS, are RAM (`MappingAssumption`).
Where a theorem has a further hypothesis it is the condition the code works under, and a configuration of section 7 shows
what happens without it.

| Module | Theorem | States | Under |
|---|---|---|---|
| SchedulerProofs | `SchedulerInvariant`, `TasksHaveOnePlace`, `QueuesConsistent` | `SchedulerInv` | - |
| | `UnfairnessIsBounded` | `BoundedLag` | - |
| | `SwitchesToTheSmallest` | `SwitchToSmallest` (action property) | - |
| | `UnitsAreConserved`, `WaitersAreFound` | `SemaphoreInv`, `NobodyLost` | `OneProcessor`, `Masked` |
| SpinLockProofs | `SpinLockInvariant`, `SpinLockExcludes`, `NobodySpinsForASleeper` | `LockInv`, `MutualExclusion`, `HolderRuns` | - |
| | `SpinLockImplementsMutex` | `ImplementsMutex` (refinement) | - |
| | `SpinLockWordBounded` | `WordBounded` | - |
| HeapBootProofs | `HeapStaysSound`, `ObjectsUsedOnce`, `OneSlabToSpare` | `HeapInv`, `UsedOnce`, `AtMostOneSpare` | `OnePlaceless` |
| | `HandOverInvariant`, `EachOnItsOwnStack`, `OneComesUpAtATime` | `HandOverInv`, `OwnStack`, `BootInv` | - |
| KeyboardProofs | `RingIsAQueue`, `FlagsFollow` | `KeyboardInv`, `FlagsFollowKeys` | `KeepsUp` |
| PageAllocatorProofs | `NoPageTwice` | `NoDoubleAllocation`, `BitmapIsUsage` | `OneCaller`, `WellFormed` |
| | `OneCallerMarksFreePages` | `MarksFreePages` (action property) | `OneCaller`, `WellFormed` |
| | `CountersFollowBitmap`, `ServedFromItsZone` | `PagesInv`, `FromSelectedZone` | the same, and `Fenced` |
| | `RefusesWhatIsNotThere` | `FindsWhatIsThere` (action property) | `WellFormed` |
| | `MapIsKept` | `MapKept` | - |
| | `HandsOutOnlyRam`, `NoPageTwiceOnMap` | `HandsOutRam`, `NoDoubleAllocation`, from the boot on | `OneCaller` |
| | `PagesSoundOnMap` | `PagesInv`, `FromSelectedZone`, from the boot on | `OneCaller`, `FencedMap` |
| | `KernelIsMapped`, `RefusesWhatIsNotThereOnMap` | `KernelMapped`; `FindsWhatIsThere` from the boot on | - |
| SoftIrqTimerProofs | `RunsOncePerAdd`, `TimerListSound` | `FiresOnce`, `TimerInv` | - |
| | `EarliestRunsFirst` | `EarliestFirst` (action property) | - |
| | `RaisesAreServed` | `ServedBeforeTaskCode` | - |
| IrqTableProofs | `OpenLinesAreReady`, `PointersFollowed`, `Acknowledgement` | `IrqInv`, `FollowsNoNull`, `AckedBeforeReturn` | `OneDriver` |
| ConsoleProofs | `ConsoleInvariant`, `FaultsAreNamed` | `ConsoleInv`, `FaultNamed` | - |
| | `PrintedIsWhole` | `PrintedWhole` | `NoBackspace` |
| | `ConversionsAreRead` | `ConversionsRead` | - |

**Scheduler.** `OnePlace`, `Ordered`, `CountIsQueueLength` and `BoundedLag` are not inductive. A fork in progress
must not be confused with a queued task (`ForksInProgress`), the run queue used must be the CPU's own
(`LocalTasks`), and the bound on unfairness needs a budget: virtual run time of the current task plus what is left
of its slice stays within one slice of every queued task, and a used-up slice without a pending reschedule
means the smallest task has just been picked (`Budget`). `SchedulerInv` is their conjunction. The lemmas are in layers:
insertion keeps a sequence ordered, without repetition and one longer (`EnqueueProperties`), picking takes
the smallest (`PickProperties`), `ScheduleEffect` says what a call of `schedule` does to one CPU's queue, then one lemma
per action.

**Spin lock.** `LockInv` adds to mutual exclusion that the word is positive exactly when nobody is inside and
that `preempt_count` is zero exactly outside, which is why the scheduler leaves the others on their processors.
For `WordBounded` the decrements are counted: every store of one forgets them, and those since then are of tasks inside
or in the waiting loop, each on a processor of its own (`WordCounts`).

**Start-up.** Neither `OwnStack` nor `BootInv` says why `_stack_start` is still the one meant when an AP reads it. The
invariant `HandOverInv` does: whoever is between its first instruction and `task_init` is the last one the BSP sent a Start-up
IPI to, and the BSP cannot get past `SMP_lock`, which it took before that IPI, until this one unlocks it.

**Heap.** A slab is good (`Good`) when its counters are the numbers of objects in use on its page and of those left, and its bits
cover the objects in use; in `Sound` all slabs are, no page is under two of them or under one and free, and the totals
are the sums over the slabs. Which objects are in use is the hard part, since kmalloc describes a slab of a large class with two
objects of small ones: `Fit` says that they are what the callers hold and the descriptions of the slabs there are (`Own`), and
no object is both or describes two slabs. So a `kfree` that drops a slab is three frees, of which the inner two release what
the outer one owned, and each finds the heap fit for the rest. `Tidy` and `Lean` are what the thresholds of kfree and of
slab_free keep: at most one unused slab beside the first, and in a created cache none as long as every `slab_free` has returned. The
loops over a cache's slabs (`Total`, `WithoutSlabs`) are recursive functions, of which `Succession` shows that they exist and what
they are. The theorems speak of the time until a call returns a pointer the code does not define (`astray`, section 3). `OnePlaceless`
lets at most one class lie at address 0, for two would both hand out its objects.

**Keyboard.** The bare ring is a queue because the slot after the last unread scancode is what `p_head` points to, with both
pointers wrapping around lazily, on the next access (`RingSound`). The lost increments of `count` do no harm to the order, but
the reader must never see more than there is: `count` and the value it has loaded stay at most the number of unread
scancodes (`ReaderSound`). `KeepsUp` says that at most a buffer of scancodes is ever unread; `keyboard_handler` does not test it,
and beyond it `Keyboard_promises` shows the counter exceed the ring. `FlagsFollowKeys` speaks of the moment when all is read; the
invariant behind it, `OnItsWay`, of every other one: the scancodes of the unfinished group, the unread ones and those still in the
keyboard are, cut at the right places (`Split`), the groups of a sequence of key events, and a modifier key is as its last event in
that sequence says, or as its flag if there is none (`Settles`). That `analysis_keycode` cuts at the same places is in `GroupsAreEvents`:
no group is a beginning of a special one, each shorter part of a group is, and only a modifier's own groups set its flag.

**Pages.** Runs handed out are apart and the bitmap is their union, but in the middle of a call some of its run is marked
and some is not. `Reserved` says that what it has still to mark stays free, which is where `OneCaller` comes
in: the allocator takes no lock, and with a second processor between the scan and the marking TLC finds the same page
marked twice. For the counters it must be known that a page lies in the zone its marking is counted in. The scan tests
whole words and so may look past the end of a zone; `Fenced` is the layout in which this does no harm, no other
zone in the last word of a zone and a bit of the bitmap behind it. `PageAllocator_adjacent` has the layout without it. The
layout is a variable that never changes, so the first theorems start at `Ready(m)`, any layout ready for use.

**The boot.** The theorems that name the map show that `MemoryMap` comes to such a state on any machine of the assumptions, and
carry what holds from there on back to the firmware's map. The argument has a part for each stage. `TableInv` goes with the loader:
whether a descriptor is skipped, merged or appended, entries and descriptors stay apart and cover what was given, and the exchange
sort has its prefix in order and no smaller than what follows (`SortedUpTo`). Entries that are apart and sorted by their start are sorted
by their end too, which `init_memory` needs when it takes the end of the last one for the end of memory. `ZonesInv`
says that the zones are the whole pages of the entries read so far, one by one in their order and inside the bitmap, so that each
inversion clears bits that are set. `KernelInv` says whose pages are taken: the entry that holds them (`KernelThere`)
comes before anything unusable, where reading stops, so each page counts for a zone that exists, and the bits,
counters and zones are those of `Ready` after every step. It follows that no zone has a page that is not all RAM. For the mapping
(`MappingInv`) what a function maps must not be undone by the next: the frame buffer and the I/O APIC are no RAM and so in no zone,
the window lies outside the pages mapped early, and the zones that `pagetable_init` reaches lie below 4GB, where there are
tables for them. `FencedMap` is the one condition that is not derived: that no two zones of the machine share
a bitmap word; the machines of `MemoryMap_boot` keep it.

**Semaphore.** `SchedulerInv` does not carry over, since a blocked task is executed until it calls `schedule()`. `SleepInv`
states what is left of it for one processor (`RunQueueOK`) and ties the place of each task to its state, to the list of waiters
and to the units: a task granted a unit is on its way in, or made runnable and off the list. A value of the counter a task has
tested stays true until it acts on it (`CounterOK`), which is what `Masked` and `OneProcessor` are for: without them the
FIXMEs of `lock/semaphore.c` apply, and `Semaphore_smp` shows a woken task in a queue that is not its CPU's.

**Timers.** The pointers of `KernelList` are shown to be, before and after every step, the circle of some sequence of timers
(`Linked`), each once and in order of expiry (`Holds`), and `FiresFirst` and `AddsInOrder` say where in that sequence the call
in progress stands: at its first timer, at one just taken out and not yet run, or behind those that expire no later than the new
one. The lemmas `ListAdd`, `ListDel`, `LinkedInserted` and `LinkedTail` say pointer by pointer what the list functions do,
`Traversal` that following `next` from the head visits just the elements. The interrupts that `do_softirq` lets in (`sti` at
`softirq/softirq.c:47`) may come at every point of it and of `add_timer`, nested to any depth and with switches of tasks inside, so timers
taken off the list and not yet run may wait on any stack: `TakenOnce` says that each of them does so in one call only. This lasts until an
interrupt overtakes a call that holds a pointer it has read from the list (`caught`). The invariant is therefore
`NestedInv /\ (~caught => Orderly)`, the theorems about the list are about the time before, as the properties are, and
`SoftIrqTimer_twice` shows what comes after. `RaisesAreServed` has no such condition: it is for
every depth of nesting: while a soft interrupt is pending there is a `do_softirq` on the running task's stack, which looks at
`softirq_status` again before it ends, whatever the task switches inside.

**Interrupts.** That an open line is ready depends on how far the driver has got. `InScript` says so: what is left of
the boot processor's script is the end of one of its calls, and for each number of accesses done
`Registering` and `Unregistering` say what the descriptor, the index register, the value and the entry hold by then. A driver that
registers needs more, that no interrupt of its line is on its way or in hand (`Quiet`), for `do_IRQ` would find a descriptor half made;
its entry is masked since its driver left, it comes back when no request from before is pending (a guard of `Enter`), and
task code, and so its next call, waits until every interrupt on top of it has returned. The same goes for pointers: what `do_IRQ` has tested stays so (`Following`), because the driver that could
change it lies below. `OneDriver` is what makes that true, that only the boot processor, which the lines interrupt, registers drivers
after the boot; without it `IrqTable_two` has the counterexamples. The handler of the HPET sends an IPI to the other
processors and needs its gate, so that its driver must come after the gates (`GatesFirst`). For the acknowledgement `Served` says which vectors may be
in service: the one `do_IRQ` has in hand, and below its class those of lines whose driver has left. The former is
therefore the highest, and an EOI, which names no vector, clears it.

**Console.** The invariant has two parts. `FramesInv` says of each frame where it is (`Placed`): outside `color_printk`, with the
items it has still to convert being the last ones of its message and `i` the length of what the others came to, or with
everything in the buffer; and of the lock that the one frame that prints with IF set has it (`Locked`). IF of a frame does not change while it
prints, and frames above one that prints do not take its lock without it, so both tests of IF agree. `ScreenInv` says of each frame
that no unlocked print has disturbed that the buffer begins with its text and that what it has drawn and where the cursor
is are what `Layout` has after as many glyphs, with `Tabbing` for the middle of a tab, whose blanks may go round the end of a line or of the
page. A step that uses buffer and cursor leaves nobody else undisturbed, so that only the frame that steps needs an argument; the rest is
the arithmetic of cells (`AtNext`, `AtLine`). The proof showed that `PrintedWhole` said too much of an empty
text, whose beginning nothing records: it now speaks of the cursor only when there was something in the buffer. `NoBackspace` says that no message has one: in
the kernel only `color_printk` knows the character, and at the beginning of a line it takes the cursor off the page (section 7).
For `ConversionsRead`, `number` lays its result out as blanks, sign and prefix, zeros, digits and blanks (`LaidOut`), which can be
cut at the same places again, and the digits of `Numeral` have the value they were made from (`NumeralIsRight`); it needs no
`NoBackspace`, since such a text has no special glyph. For `FaultNamed`, every entry leaves handler, code and place at the same offsets (`SameFrame`),
and no message but the first has four parts.
`Numeral`, `FlattenSeq` and `Layout` are recursive functions: the theorems of the library on induction take operators, but a least
element of a set of numbers (`LeastOf`) is enough to show that they exist and what they are.

Only model-checked:

- all liveness (`NoStarvation`, `Progress`, `EveryTimerFires`, `AllUp`, `EveryPrintEnds`, `EveryInterruptServed`), which
  TLAPS does not reach.

## 7. Where code and documentation disagree

Each name is a configuration whose counterexample shows the disagreement. One of them is a run, with the
line it contradicts under `findings` in `PROJECT.json`; the others are the further configurations of section 4.

- `Scheduler_slice`: once a slice is negative it is never renewed (`init_timeslice` tests for zero), and the CPU
  reschedules at every tick from then on.
- `SoftIrqTimer_twice` (`NeverTwice`): an interrupt between the choice of the first timer and its deletion runs `do_timer` on the
  same list, and one timer runs twice for one `add_timer` (`timer/timer.c:20`, "fires and deletes").
- `SmpBoot_promises`, `OwnTSS`: `global_i - 1` is the AP's number only after the BSP's increment.
- `SmpBoot_promises`, `LockHolderNotPreempted`: `task_init` on AP 3 clears a counter of the BSP's task.
- `PageAllocator_adjacent` (`FromSelectedZone`), `PageAllocator_promises` (`TriesEveryZone`, `RefusalIsNull`,
  `MarksFreePages`): the scan runs past the zone inside a word, gives up after the first zone, has
  a path without a return value, and takes no lock.
- `MemoryMap_stray` (`NothingElseMapped`): the tables `pagetable_init` (`mm/mm.c:718`) and `IOAPIC_pagetable_remap`
  (`device/pic/APIC.c:118`) take from kmalloc are not cleared; what they held is read as page entries.
- `Kmalloc_promises`, `FailsOnlyWithoutPage`: class 65536 has no case in `kmalloc_create`, and a new slab of a small class may count objects that
  its bitmap, only partly set up, never hands out; kmalloc fails with pages to spare.
- `Kmalloc_promises`, `NothingLost`: a class left at address 0 hands out its first object as NULL, and keeps it taken. On every
  boot this is what the first request for at most 32 bytes gets.
- `SlabCache_loop` (`SlabFreeReturns`): `slab_free` does not leave its loop when it has found the slab, but
  only when that slab is the first one and stays; otherwise it inverts the bit again, round after round, or goes on
  with a slab it has given back (`mm/slab.c:223`, `:236`).
- `Keyboard_promises`: an increment of `count` lost to `count--` leaves the reader waiting with scancodes there
  (`WaitsOnlyForCodes`), and a full ring is overwritten (`CountFitsRing`).
- `Semaphore_early`, `Semaphore_smp`: `schedule()` may return to a blocked task at once; a woken task changes
  queues but not `cpu_id`.
- `Console_soft` (`EveryPrintEnds`): a soft interrupt runs with interrupts on, so its color_printk takes part in the
  locking and spins on the lock the task below it holds (`debug/printk.c:424`).
- `Console_promises`: a backspace at the beginning of a line sets `XPosition` and `YPosition` in pixels where they count
  characters (`debug/printk.c:453`, `PrintedWhole`); `%d` of a negative int is printed as the unsigned number,
  since the argument is taken as an unsigned int (`:382`, `SignedDecimal`).
- `IrqTable_leave` (`AlwaysAcked`): an interrupt already accepted when its driver unregisters finds no controller and
  is never acknowledged (`idt/interrupt.c:163`); its class stays blocked on that processor.
- `IrqTable_two` (`FollowsNoNull`): a driver that unregisters on another processor takes the handler away between
  `do_IRQ`'s test and its call.
- `IrqTable_two` (`IrqInv`): two drivers at a time share the I/O APIC's index register, and one writes the other's entry.

Smaller ones seen in the code, and modelled as it is: `%#` puts its prefix before zero too, and a precision of zero
still prints the digit (`debug/printk.c:270`, `:241`), both unlike the C library's; the blanks of a tab that meets the
end of a line are owed on the next one.

## 8. What is not modelled

- The 8259A (the build uses the APIC), the registers `Local_APIC_init` programs, the level-triggered acknowledgement and
  `unregister_IPI`: without callers, or without state the kernel shares.
- `do_execve`, `do_exit` (which only loops) and the register contexts of task switches.
- CPU identification and the clock: read-only queries of the hardware.
- The BIOS loaders, the mode switches of `head.S` and `APU_boot.S`, and the rest of the UEFI loader: I/O without state the
  kernel shares. The identity mapping of low memory and the upper levels of the page tables.
- The pixels of the font, the parsing of the digits of a format, the wording of reports, the key map.
- Page attributes and reference counts; constructors and destructors of slab caches.

Uncovered hazards of modelled parts are in `PROJECT.json` with a note: a tick inside the list insertion of
`enqueue_task`, timers served by two processors, and a thread that ends with interrupts off; and those the code does
not withstand, for which the counterexample of section 7 stands in the place of a property.
