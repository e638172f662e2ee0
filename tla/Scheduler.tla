------------------------------ MODULE Scheduler ------------------------------
(***************************************************************************)
(* The per-CPU scheduler of sOS64 (kernel/sched/scheduler.c), driven by    *)
(* the timer interrupt (device/HPET.c on the boot processor, the forwarded *)
(* IPI 200 of init/SMP.c on the others), the interrupt return path of      *)
(* idt/entry.S and the creation of threads in sched/task.c.                *)
(*                                                                         *)
(* A CPU runs its `current` task and keeps the other runnable tasks in a   *)
(* queue ordered by virtual run time.  The idle task of a CPU (init_task)  *)
(* is never queued.  A timer tick charges the current task; when the slice *)
(* is used up the task is marked NEED_SCHEDULE and, unless it holds a spin *)
(* lock, the interrupt return path calls schedule().                       *)
(***************************************************************************)
EXTENDS Integers, Sequences, FiniteSets

CONSTANTS CPUs,        \* the processors, NR_CPUS in the code
          Tasks,       \* every task_struct that may exist, idle tasks included
          InitTask,    \* init_task[]: the idle task of each CPU
          NoTask,      \* the null task_struct pointer
          MaxVruntime, \* bound: ticks stop charging a task that would pass it
          MaxPreempt   \* bound: spin locks one task holds at the same time

ASSUME SchedulerAssumption ==
  /\ CPUs # {}
  /\ InitTask \in [CPUs -> Tasks]
  /\ \A c, d \in CPUs : InitTask[c] = InitTask[d] => c = d
  /\ NoTask \notin Tasks
  /\ MaxVruntime \in Nat
  /\ MaxPreempt \in Nat

VARIABLES current,               \* the task each CPU executes
          runqueue,              \* its queue, the order of the linked list
          running_task_count,    \* the counter kept beside the queue
          CPU_exec_task_jiffies, \* what is left of the current time slice
          state,                 \* task_struct fields, one function each
          priority,
          vruntime,
          need_schedule,         \* the NEED_SCHEDULE bit of flags
          preempt_count,
          cpu_id,
          if_flag,               \* RFLAGS.IF of a task: interrupts enabled
          child,                 \* the copy do_fork is still filling in
          head_start             \* history: see ForkEnqueue

cpuVars  == <<current, runqueue, running_task_count, CPU_exec_task_jiffies>>
taskVars == <<state, priority, vruntime, need_schedule, preempt_count, cpu_id,
              if_flag, child, head_start>>
vars     == <<cpuVars, taskVars>>

States == {"unused", "RUNNING", "UNINTERRUPTIBLE"}
IdleTasks == {InitTask[c] : c \in CPUs}

\* get_current()->cpu_id: the run queue a CPU works on is chosen by the task
\* it executes.
SMP_cpu_id(c) == cpu_id[current[c]]

\* The largest slice init_timeslice hands out: 4 / 1 * 3.
LongestSlice == 12

-----------------------------------------------------------------------------
\* Mutated: the switch has no default case.
Charge_nodefault(t) == IF priority[t] \in {0, 1} THEN 1 ELSE 0

\* What one tick costs a task, in slice and in virtual run time.
Charge(t) == IF priority[t] \in {0, 1} THEN 1 ELSE 2

\* Mutated: always at the end.
Place_last(q, vr, v) == Len(q) + 1

\* The place of a task of virtual run time v: before the first queued task
\* that is not smaller, at the end when there is none.
Place(q, vr, v) ==
  CHOOSE i \in 1 .. Len(q) + 1 :
    /\ \A j \in 1 .. i - 1 : vr[q[j]] < v
    /\ i <= Len(q) => vr[q[i]] >= v

Insert(q, i, t) ==
  [j \in 1 .. Len(q) + 1 |->
     IF j < i THEN q[j] ELSE IF j = i THEN t ELSE q[j - 1]]

\* enqueue_task(t) on the queue q of CPU s; the idle task is not inserted.
enqueue_task(s, q, vr, t) ==
  IF t = InitTask[s] THEN q ELSE Insert(q, Place(q, vr, vr[t]), t)

\* Mutated: idle counts as well.
Enqueued_idle(s, t) == 1

\* What enqueue_task adds to running_task_count.
Enqueued(s, t) == IF t = InitTask[s] THEN 0 ELSE 1

\* pick_next_task: the head of the queue, or idle; what is left of the queue.
Picked(s, q)    == IF q = <<>> THEN InitTask[s] ELSE Head(q)
Remaining(q)    == IF q = <<>> THEN q ELSE Tail(q)
PickedCount(q)  == IF q = <<>> THEN 0 ELSE 1

\* Mutated: multiplied by the length of the queue.
init_timeslice_times(t, left, count) == IF left # 0 THEN left ELSE 4 * count * 3

\* init_timeslice: a slice is handed out only when exactly nothing is left.
init_timeslice(t, left, count) ==
  IF left # 0 THEN left
  ELSE IF priority[t] \in {0, 1} THEN 4 \div count ELSE (4 \div count) * 3

\* schedule() on CPU c, with the virtual run times vr and the slice left as
\* the handler that calls it has just updated them.
schedule(c, vr, left) ==
  LET s    == SMP_cpu_id(c)
      prev == current[c]
      tsk  == Picked(s, runqueue[s])
      rest == Remaining(runqueue[s])
      n    == running_task_count[s] - PickedCount(runqueue[s])
  IN
  /\ need_schedule' = [need_schedule EXCEPT ![prev] = FALSE]
  /\ \/ /\ vr[prev] >= vr[tsk]                \* switch_to(current, tsk)
        /\ LET back == state[prev] = "RUNNING"
               m    == IF back THEN n + Enqueued(s, prev) ELSE n
           IN /\ runqueue' = [runqueue EXCEPT
                   ![s] = IF back THEN enqueue_task(s, rest, vr, prev)
                                  ELSE rest]
              /\ running_task_count' = [running_task_count EXCEPT ![s] = m]
              /\ CPU_exec_task_jiffies' = [CPU_exec_task_jiffies EXCEPT
                   ![s] = init_timeslice(tsk, left, m)]
              /\ current' = [current EXCEPT ![c] = tsk]
     \/ /\ vr[prev] < vr[tsk]                 \* current stays
        /\ runqueue' = [runqueue EXCEPT ![s] = enqueue_task(s, rest, vr, tsk)]
        /\ running_task_count' = [running_task_count EXCEPT
             ![s] = n + Enqueued(s, tsk)]
        /\ CPU_exec_task_jiffies' = [CPU_exec_task_jiffies EXCEPT
             ![s] = init_timeslice(prev, left, n + Enqueued(s, tsk))]
        /\ UNCHANGED current

-----------------------------------------------------------------------------
(* State after scheduler_init and the boot of every CPU: each one runs its *)
(* idle task, every queue is empty and idle is counted as one task.        *)
Init ==
  /\ current = InitTask
  /\ runqueue = [c \in CPUs |-> <<>>]
  /\ running_task_count = [c \in CPUs |-> 1]
  /\ CPU_exec_task_jiffies = [c \in CPUs |-> 4]
  /\ state = [t \in Tasks |-> IF t \in IdleTasks THEN "RUNNING" ELSE "unused"]
  /\ priority = [t \in Tasks |-> 2]
  /\ vruntime = [t \in Tasks |-> 0]
  /\ need_schedule = [t \in Tasks |-> FALSE]
  /\ preempt_count = [t \in Tasks |-> 0]
  /\ cpu_id = [t \in Tasks |-> IF t \in IdleTasks
                               THEN CHOOSE c \in CPUs : InitTask[c] = t
                               ELSE CHOOSE c \in CPUs : TRUE]
  /\ if_flag = [t \in Tasks |-> t \in IdleTasks]
  /\ child = [t \in Tasks |-> NoTask]
  /\ head_start = [t \in Tasks |-> 0]

(* A timer interrupt on CPU c up to the return of ret_from_intr.  The top  *)
(* half runs with interrupts off, so nothing on this CPU comes between the *)
(* charge and the decision to schedule.                                    *)
TickCharges(c) ==
  LET prev == current[c] IN
  /\ if_flag[prev]
  /\ vruntime[prev] + Charge(prev) <= MaxVruntime
  /\ vruntime' = [vruntime EXCEPT ![prev] = @ + Charge(prev)]
  /\ UNCHANGED <<state, priority, preempt_count, cpu_id, if_flag, child,
                 head_start>>

SliceAfterTick(c) ==
  CPU_exec_task_jiffies[SMP_cpu_id(c)] - Charge(current[c])

\* NEED_SCHEDULE at the return: set by this tick or left by an earlier one.
WantsSchedule(c) == SliceAfterTick(c) <= 0 \/ need_schedule[current[c]]

\* The slice is not used up, or a spin lock is held: no schedule().
TickReturn(c) ==
  LET prev == current[c]
      s    == SMP_cpu_id(c)
  IN
  /\ TickCharges(c)
  /\ ~WantsSchedule(c) \/ preempt_count[prev] # 0
  /\ need_schedule' = [need_schedule EXCEPT ![prev] = WantsSchedule(c)]
  /\ CPU_exec_task_jiffies' = [CPU_exec_task_jiffies EXCEPT
                                 ![s] = SliceAfterTick(c)]
  /\ UNCHANGED <<current, runqueue, running_task_count>>

\* NEED_SCHEDULE is set and no spin lock is held: schedule().
TickSchedule(c) ==
  /\ TickCharges(c)
  /\ WantsSchedule(c)
  /\ preempt_count[current[c]] = 0
  /\ schedule(c, vruntime', SliceAfterTick(c))

(* do_fork, in two steps with ticks between them: the copy of the parent's *)
(* task_struct, then the insertion of the child in the queue.              *)
ForkCopy(c, t) ==
  LET parent == current[c] IN
  /\ state[t] = "unused"
  /\ child[parent] = NoTask
  /\ state' = [state EXCEPT ![t] = "UNINTERRUPTIBLE"]
  /\ priority' = [priority EXCEPT ![t] = 2]
  /\ vruntime' = [vruntime EXCEPT ![t] = vruntime[parent]]
  /\ need_schedule' = [need_schedule EXCEPT ![t] = need_schedule[parent]]
  /\ preempt_count' = [preempt_count EXCEPT ![t] = 0]
  /\ cpu_id' = [cpu_id EXCEPT ![t] = SMP_cpu_id(c)]
  /\ child' = [child EXCEPT ![parent] = t]
  /\ UNCHANGED <<cpuVars, if_flag, head_start>>

\* head_start records how far the parent ran after it was copied: the child
\* enters the queue with a virtual run time that is that much too small.
ForkEnqueue(c) ==
  LET parent == current[c]
      t      == child[parent]
      s      == SMP_cpu_id(c)
  IN
  /\ t # NoTask
  /\ state' = [state EXCEPT ![t] = "RUNNING"]
  /\ runqueue' = [runqueue EXCEPT ![s] = enqueue_task(s, @, vruntime, t)]
  /\ running_task_count' = [running_task_count EXCEPT ![s] = @ + Enqueued(s, t)]
  /\ child' = [child EXCEPT ![parent] = NoTask]
  /\ head_start' = [head_start EXCEPT ![t] = vruntime[parent] - vruntime[t]]
  /\ UNCHANGED <<current, CPU_exec_task_jiffies, priority, vruntime,
                 need_schedule, preempt_count, cpu_id, if_flag>>

(* A new thread is entered by a jump out of schedule(), inside the handler *)
(* of the tick, and nothing restores its RFLAGS: it runs with interrupts   *)
(* off until its first sysenter reaches the sti of system_call.            *)
SystemCall(c) ==
  /\ ~if_flag[current[c]]
  /\ if_flag' = [if_flag EXCEPT ![current[c]] = TRUE]
  /\ UNCHANGED <<cpuVars, state, priority, vruntime, need_schedule,
                 preempt_count, cpu_id, child, head_start>>

(* spin_lock and spin_unlock of the current task, as far as the scheduler  *)
(* sees them.  Neither looks at NEED_SCHEDULE.                             *)
PreemptDisable(c) ==
  /\ preempt_count[current[c]] < MaxPreempt
  /\ child[current[c]] = NoTask
  /\ preempt_count' = [preempt_count EXCEPT ![current[c]] = @ + 1]
  /\ UNCHANGED <<cpuVars, state, priority, vruntime, need_schedule, cpu_id,
                 if_flag, child, head_start>>

PreemptEnable(c) ==
  /\ preempt_count[current[c]] > 0
  /\ preempt_count' = [preempt_count EXCEPT ![current[c]] = @ - 1]
  /\ UNCHANGED <<cpuVars, state, priority, vruntime, need_schedule, cpu_id,
                 if_flag, child, head_start>>

Next ==
  \E c \in CPUs :
    \/ TickReturn(c)
    \/ TickSchedule(c)
    \/ \E t \in Tasks : ForkCopy(c, t)
    \/ ForkEnqueue(c)
    \/ SystemCall(c)
    \/ PreemptDisable(c)
    \/ PreemptEnable(c)

Spec == Init /\ [][Next]_vars

-----------------------------------------------------------------------------
\* The run queue of c as a set.
Queued(c) == {runqueue[c][i] : i \in DOMAIN runqueue[c]}

Runnable(t) == state[t] = "RUNNING"

(* Every variable has its type; slices and head starts are integers of any *)
(* sign, the counters never go below zero.                                 *)
TypeOK ==
  /\ current \in [CPUs -> Tasks]
  /\ runqueue \in [CPUs -> Seq(Tasks)]
  /\ running_task_count \in [CPUs -> Nat]
  /\ CPU_exec_task_jiffies \in [CPUs -> Int]
  /\ state \in [Tasks -> States]
  /\ priority \in [Tasks -> {0, 1, 2}]
  /\ vruntime \in [Tasks -> Nat]
  /\ need_schedule \in [Tasks -> BOOLEAN]
  /\ preempt_count \in [Tasks -> Nat]
  /\ cpu_id \in [Tasks -> CPUs]
  /\ if_flag \in [Tasks -> BOOLEAN]
  /\ child \in [Tasks -> Tasks \cup {NoTask}]
  /\ head_start \in [Tasks -> Nat]

\* The tasks CPU c holds, executing or waiting in its queue.
Held(c) == {current[c]} \cup Queued(c)

(* No task is lost and none runs twice: a runnable task other than idle is *)
(* the current task of exactly one CPU, or stands exactly once in exactly  *)
(* one run queue; idle is never queued and runs on its own CPU only; a     *)
(* task do_fork has not finished is in neither place.                      *)
OnePlace ==
  /\ \A t \in Tasks \ IdleTasks : Runnable(t) => \E c \in CPUs : t \in Held(c)
  /\ \A c \in CPUs :
       /\ \A t \in Held(c) \cup {InitTask[c]} : Runnable(t)
       /\ current[c] \notin Queued(c)
       /\ \A i, j \in DOMAIN runqueue[c] :
            runqueue[c][i] = runqueue[c][j] => i = j
       /\ \A d \in CPUs : c # d => Held(c) \cap Held(d) = {}
       /\ \A d \in CPUs : /\ InitTask[c] \notin Queued(d)
                          /\ current[d] = InitTask[c] => c = d

(* The counter kept beside the queue, which divides the time slice, is one *)
(* more than the number of queued tasks whatever forks, ticks and switches *)
(* came before: pick_next_task and enqueue_task update it apart.           *)
CountIsQueueLength ==
  \A c \in CPUs : running_task_count[c] = 1 + Len(runqueue[c])

(* The queue is ordered by virtual run time, so that the head pick_next_   *)
(* task takes is the smallest (include/scheduler.h:10).                    *)
Ordered ==
  \A c \in CPUs : \A i, j \in DOMAIN runqueue[c] :
    i < j => vruntime[runqueue[c][i]] <= vruntime[runqueue[c][j]]

(* Every task a CPU runs or queues carries that CPU's number: SMP_cpu_id() *)
(* always names the CPU it is evaluated on.                                *)
LocalTasks ==
  \A c \in CPUs : \A t \in Held(c) \cup {InitTask[c]} : cpu_id[t] = c

(* Bounded unfairness.  As long as no reschedule is pending, the current   *)
(* task is at most one longest slice ahead of any queued task, apart from  *)
(* the head start do_fork gave to that task.                               *)
BoundedLag ==
  \A c \in CPUs : ~need_schedule[current[c]] =>
    \A t \in Queued(c) :
      vruntime[current[c]] <= vruntime[t] + LongestSlice + head_start[t]

(* What makes BoundedLag and the others inductive.  A child do_fork still  *)
(* works on belongs to one parent, on the same CPU, and is not ahead of    *)
(* it; the slice a CPU still has, added to the virtual run time of its     *)
(* task, stays within one slice of every queued task; and a CPU whose      *)
(* slice is used up without a reschedule pending has just picked its       *)
(* smallest task.                                                          *)
ForksInProgress ==
  \A p \in Tasks : child[p] # NoTask =>
    /\ Runnable(p)
    /\ state[child[p]] = "UNINTERRUPTIBLE"
    /\ child[p] \notin IdleTasks
    /\ cpu_id[child[p]] = cpu_id[p]
    /\ vruntime[child[p]] <= vruntime[p]
    /\ \A q \in Tasks : child[q] = child[p] => q = p

Budget ==
  \A c \in CPUs :
    /\ CPU_exec_task_jiffies[c] <= LongestSlice
    /\ \A t \in Queued(c) :
         vruntime[current[c]] + CPU_exec_task_jiffies[c]
           <= vruntime[t] + LongestSlice + head_start[t]
    /\ ~need_schedule[current[c]] /\ CPU_exec_task_jiffies[c] <= 0 =>
         \A t \in Queued(c) : vruntime[current[c]] <= vruntime[t] + head_start[t]

SchedulerInv ==
  /\ TypeOK
  /\ OnePlace
  /\ CountIsQueueLength
  /\ Ordered
  /\ LocalTasks
  /\ ForksInProgress
  /\ Budget

(* A CPU only ever switches to a task none of its queued tasks is behind.  *)
SwitchToSmallest ==
  [][\A c \in CPUs : current'[c] # current[c] =>
       \A t \in Queued(c)' : vruntime'[current'[c]] <= vruntime'[t]]_vars

(* A task that is switched in gets a time slice (scheduler.c:72 and 113,   *)
(* scheduler.h:9).  The code does not keep this: init_timeslice only acts  *)
(* when exactly zero is left.                                              *)
SwitchGivesSlice ==
  [][\A c \in CPUs : current'[c] # current[c] =>
       CPU_exec_task_jiffies'[c] > 0]_vars

-----------------------------------------------------------------------------
(* The HPET interrupts periodically and is forwarded to every CPU; do_fork *)
(* runs to its end; a new thread reaches its first system call; a spin     *)
(* lock is released, and is not held at every single tick.                 *)
Fairness ==
  \A c \in CPUs :
    /\ WF_vars(TickReturn(c) \/ TickSchedule(c))
    /\ SF_vars(TickSchedule(c))
    /\ WF_vars(ForkEnqueue(c))
    /\ WF_vars(SystemCall(c))
    /\ WF_vars(PreemptEnable(c))

FairSpec == Spec /\ Fairness

(* A queued task is executed in the end.  The antecedent keeps away from   *)
(* the bound on virtual run time: a CPU runs nobody past it for longer     *)
(* than one slice while the task waits.                                    *)
NoStarvation ==
  \A t \in Tasks \ IdleTasks :
    (/\ t \in Queued(cpu_id[t])
     /\ vruntime[t] + head_start[t] + LongestSlice + 2 <= MaxVruntime)
    ~> current[cpu_id[t]] = t
=============================================================================
