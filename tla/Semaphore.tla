------------------------------ MODULE Semaphore ------------------------------
(***************************************************************************)
(* The counting semaphore of lock/semaphore.c on top of the scheduler: a   *)
(* task that finds no unit puts itself on the list of waiters and calls    *)
(* schedule(); semaphore_up hands the unit to the first waiter and puts    *)
(* that task into a run queue.                                             *)
(*                                                                         *)
(* The functions take no lock (the FIXMEs at semaphore.c:33 and 60); Masked *)
(* says that their callers disable interrupts around them, which is all    *)
(* the protection one processor needs.  One semaphore, used by the forked  *)
(* tasks: the idle tasks never wait.                                       *)
(***************************************************************************)
EXTENDS Scheduler

CONSTANTS Units,  \* the count given to semaphore_init
          Masked  \* interrupts are off inside semaphore_down and _up

ASSUME SemaphoreAssumption ==
  /\ Units \in Nat \ {0}
  /\ Masked \in BOOLEAN

VARIABLES counter,
          waiters, \* the list behind waiter_head: the tasks, first to last
          at,      \* where each task stands
          granted  \* history: the tasks a unit was given to

semVars == <<counter, waiters, at, granted>>
allVars == <<vars, semVars>>

\* "out": does not use the semaphore.  "dec", "block": the two branches of
\* semaphore_down.  "enlist", "sleep", "asleep": in __down, before the
\* insertion, before schedule() and in it.  "in": back from semaphore_down.
\* "inc", "wake": the two branches of semaphore_up.  "dangling": back from
\* __down with its waiter, an object of that call, still in the list.
Outside == {"out", "in", "asleep"}
Places  == Outside \cup {"dec", "block", "enlist", "sleep", "inc", "wake", "dangling"}

Goto(t, place) == at' = [at EXCEPT ![t] = place]

\* Once a waiter is dangling the list is corrupt, and the model stops.
Sound == \A t \in Tasks : at[t] # "dangling"

SemInit ==
  /\ Init
  /\ counter = Units
  /\ waiters = <<>>
  /\ at = [t \in Tasks |-> "out"]
  /\ granted = {}

\* The task CPU c executes takes a step of its own, from place p.
AtPlace(c, p) ==
  /\ Sound
  /\ current[c] \notin IdleTasks
  /\ child[current[c]] = NoTask
  /\ at[current[c]] = p

\* semaphore_down: atomic_read(counter) > 0.
Down(c) ==
  /\ AtPlace(c, "out")
  /\ Goto(current[c], IF counter > 0 THEN "dec" ELSE "block")
  /\ UNCHANGED <<vars, counter, waiters, granted>>

\* semaphore_down: atomic_dec(counter).
DownDec(c) ==
  /\ AtPlace(c, "dec")
  /\ counter' = counter - 1
  /\ granted' = granted \cup {current[c]}
  /\ Goto(current[c], "in")
  /\ UNCHANGED <<vars, waiters>>

\* __down: current->state = TASK_UNINTERRUPTIBLE.
DownBlock(c) ==
  /\ AtPlace(c, "block")
  /\ state' = [state EXCEPT ![current[c]] = "UNINTERRUPTIBLE"]
  /\ Goto(current[c], "enlist")
  /\ UNCHANGED <<cpuVars, priority, vruntime, need_schedule, preempt_count,
                 cpu_id, if_flag, child, head_start, counter, waiters, granted>>

\* Mutated: the waiter is not inserted.
DownEnlist_not(c) ==
  /\ AtPlace(c, "enlist")
  /\ Goto(current[c], "sleep")
  /\ UNCHANGED <<vars, counter, waiters, granted>>

\* __down: list_add_to_before(waiter_head, waiter), at the end of the list.
DownEnlist(c) ==
  /\ AtPlace(c, "enlist")
  /\ waiters' = Append(waiters, current[c])
  /\ Goto(current[c], "sleep")
  /\ UNCHANGED <<vars, counter, granted>>

\* __down: schedule().
DownSchedule(c) ==
  /\ AtPlace(c, "sleep")
  /\ schedule(c, vruntime, CPU_exec_task_jiffies[SMP_cpu_id(c)])
  /\ Goto(current[c], "asleep")
  /\ UNCHANGED <<state, priority, vruntime, preempt_count, cpu_id, if_flag,
                 child, head_start, counter, waiters, granted>>

\* schedule() returns to __down: when the task is switched in again, or at
\* once when it did not switch.
DownReturn(c) ==
  /\ AtPlace(c, "asleep")
  /\ Goto(current[c], IF \E i \in DOMAIN waiters : waiters[i] = current[c]
                      THEN "dangling" ELSE "in")
  /\ UNCHANGED <<vars, counter, waiters, granted>>

\* semaphore_up: list_is_empty(waiter_head).
Up(c) ==
  /\ AtPlace(c, "in")
  /\ Goto(current[c], IF waiters = <<>> THEN "inc" ELSE "wake")
  /\ UNCHANGED <<vars, counter, waiters, granted>>

\* Mutated: incremented twice.
UpInc_twice(c) ==
  /\ AtPlace(c, "inc")
  /\ counter' = counter + 2
  /\ granted' = granted \ {current[c]}
  /\ Goto(current[c], "out")
  /\ UNCHANGED <<vars, waiters>>

\* semaphore_up: atomic_inc(counter).
UpInc(c) ==
  /\ AtPlace(c, "inc")
  /\ counter' = counter + 1
  /\ granted' = granted \ {current[c]}
  /\ Goto(current[c], "out")
  /\ UNCHANGED <<vars, waiters>>

\* __up: the first waiter leaves the list and enters the run queue of the
\* processor that executes semaphore_up.
UpWake(c) ==
  LET t == Head(waiters)
      s == SMP_cpu_id(c)
  IN
  /\ AtPlace(c, "wake")
  /\ waiters # <<>>
  /\ waiters' = Tail(waiters)
  /\ state' = [state EXCEPT ![t] = "RUNNING"]
  /\ runqueue' = [runqueue EXCEPT ![s] = enqueue_task(s, @, vruntime, t)]
  /\ running_task_count' = [running_task_count EXCEPT ![s] = @ + Enqueued(s, t)]
  /\ granted' = (granted \ {current[c]}) \cup {t}
  /\ Goto(current[c], "out")
  /\ UNCHANGED <<current, CPU_exec_task_jiffies, priority, vruntime,
                 need_schedule, preempt_count, cpu_id, if_flag, child,
                 head_start, counter>>

SemStep(c) == \/ Down(c) \/ DownDec(c) \/ DownBlock(c) \/ DownEnlist(c)
              \/ DownSchedule(c) \/ DownReturn(c) \/ Up(c) \/ UpInc(c)
              \/ UpWake(c)

\* Everything else that happens on CPU c; a tick comes between two steps of
\* a semaphore function unless interrupts are masked.
SchedulerStep(c) ==
  /\ Sound
  /\ \/ /\ Masked => at[current[c]] \in Outside
        /\ TickReturn(c) \/ TickSchedule(c)
     \/ /\ at[current[c]] = "out"
        /\ (\E t \in Tasks : ForkCopy(c, t)) \/ ForkEnqueue(c) \/ SystemCall(c)
  /\ UNCHANGED semVars

SemNext == \E c \in CPUs : SemStep(c) \/ SchedulerStep(c)

SemSpec == SemInit /\ [][SemNext]_allVars

-----------------------------------------------------------------------------
Waiting == {waiters[i] : i \in DOMAIN waiters}

SemTypeOK ==
  /\ counter \in Nat
  /\ waiters \in Seq(Tasks)
  /\ at \in [Tasks -> Places]
  /\ granted \subseteq Tasks

(* Units are neither lost nor made: those not given out and those given to *)
(* a task, by the counter or by hand-over to a waiter, are the ones there  *)
(* were at the start, and a task past semaphore_down has one.              *)
UnitsConserved ==
  /\ counter + Cardinality(granted) = Units
  /\ \A t \in Tasks : at[t] \in {"in", "inc", "wake"} => t \in granted

(* No unit lies idle while a task waits for one.                           *)
NoIdleUnit == counter > 0 => waiters = <<>>

(* The counter and the list of waiters are sound.                          *)
SemaphoreInv == SemTypeOK /\ UnitsConserved /\ NoIdleUnit

(* A task that gave up the processor can be found again: it is on the list *)
(* of waiters, or it is runnable and a CPU holds it; and no waiter is in a *)
(* run queue.                                                              *)
NobodyLost ==
  /\ \A t \in Tasks : at[t] # "out" =>
       (\E c \in CPUs : t \in Held(c)) \/ t \in Waiting
  /\ \A c \in CPUs : Waiting \cap Queued(c) = {}

(* A task comes back from __down by being scheduled again, when its waiter *)
(* has left the list (semaphore.c:46).  The code does not keep this:       *)
(* schedule() returns at once to a blocked task that is behind every       *)
(* queued one.                                                             *)
ReturnsWhenWoken == Sound
=============================================================================
