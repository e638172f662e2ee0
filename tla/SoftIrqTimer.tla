---------------------------- MODULE SoftIrqTimer -----------------------------
(***************************************************************************)
(* The bottom half of the timer interrupt on the boot processor: the       *)
(* interrupt return path (idt/entry.S), the soft interrupts                *)
(* (idt/softirq.c) and the timer list they work on (timer/timer.c).        *)
(*                                                                         *)
(* HPET_handler advances jiffies with interrupts off and raises the timer  *)
(* soft interrupt when the first timer is due; ret_from_intr then calls    *)
(* do_softirq, which runs with interrupts on: it can be interrupted, and   *)
(* the nested return path can call do_softirq again or switch to another   *)
(* task with the outer do_softirq half done.                               *)
(*                                                                         *)
(* The only soft interrupt the kernel registers is number 0, so that       *)
(* softirq_status is one bit here.                                         *)
(***************************************************************************)
EXTENDS Integers, Sequences, FiniteSets, KernelList

CONSTANTS Tasks,      \* the tasks of this processor
          Timers,     \* the struct timer objects
          timerList,  \* the head of the list
          MaxJiffies, \* bound: the clock stands still there
          MaxNesting, \* bound: do_softirq calls open on one task's stack
          MaxRefires  \* bound: calls of func without an add_timer

ASSUME SoftIrqTimerAssumption ==
  /\ IsFiniteSet(Timers) /\ timerList \notin Timers
  /\ MaxJiffies \in Nat
  /\ MaxNesting \in Nat \ {0}
  /\ MaxRefires \in Nat \ {0}

VARIABLES jiffies,
          list,           \* the list pointers of all timers and of the head
          expire_jiffies,
          softirq_status, \* is the TIMER_SIRQ bit set
          current,
          stack,          \* the kernel stack of each task: calls in progress
          pending,        \* history: add_timer calls minus func calls
          caught          \* history: see Overtaken

vars == <<jiffies, list, expire_jiffies, softirq_status, current, stack,
          pending, caught>>

Nodes == Timers \cup {timerList}
Never == MaxJiffies + 1  \* the expire_jiffies of timerList, -1UL in the code

\* A call in progress: where it stands, its local tmp, and the timer an
\* add_timer call inserts.
Call(at, tmp, new) == [at |-> at, tmp |-> tmp, new |-> new]
SoftirqPoints == {"loop", "first", "check", "del", "func", "clear"}
AddPoints     == {"walk", "link"}

\* Where a call stands between reading a pointer of the list into its tmp
\* and the last use of it: do_timer before its del_timer(tmp), add_timer
\* before its list_add_to_before(tmp, timer).
ReadPoints    == {"check", "del", "walk", "link"}

Top == stack[current][Len(stack[current])]
Below == SubSeq(stack[current], 1, Len(stack[current]) - 1)

\* do_softirq calls open on the stack of a task.
Nesting(t) == Cardinality({i \in DOMAIN stack[t] : stack[t][i].at \in SoftirqPoints})

\* The current call holds a pointer it has read from the list.
HoldsNode == stack[current] # <<>> /\ Top.at \in ReadPoints

InSoftirq == stack[current] # <<>> /\ Top.at \in SoftirqPoints
InAdd     == stack[current] # <<>> /\ Top.at \in AddPoints

-----------------------------------------------------------------------------
\* timer_init and softirq_init: an empty list, nothing raised.
Init ==
  /\ jiffies = 0
  /\ list = [next |-> [n \in Nodes |-> n], prev |-> [n \in Nodes |-> n]]
  /\ expire_jiffies = [n \in Nodes |-> IF n = timerList THEN Never ELSE 0]
  /\ softirq_status = FALSE
  /\ current \in Tasks
  /\ stack = [t \in Tasks |-> <<>>]
  /\ pending = [t \in Timers |-> 0]
  /\ caught = FALSE

\* RFLAGS.IF is on in task code, add_timer included, and in do_softirq.
Interruptible == Nesting(current) < MaxNesting

\* An interrupt that comes while the current call holds a pointer of the
\* list, and whose return path lets other code run before the call goes on:
\* a nested do_softirq, or another task.
Overtaken == HoldsNode /\ <<current, stack>>' # <<current, stack>>

\* ret_from_intr: pending soft interrupts are served before the switch to
\* another task is considered; which task runs next is the scheduler's.
ret_from_intr(status) ==
  \/ /\ status
     /\ stack' = [stack EXCEPT ![current] =
                    Append(@, Call("loop", timerList, timerList))]
     /\ UNCHANGED current
  \/ /\ ~status
     /\ current' \in Tasks
     /\ UNCHANGED stack

\* The clock after one more tick; at the bound it stands still.
Ticked == IF jiffies < MaxJiffies THEN jiffies + 1 ELSE jiffies

\* Mutated: raised at the very tick of the expiry only.
HPET_handler_exact ==
  LET due == expire_jiffies[list.next[timerList]] = jiffies + 1
  IN
  /\ Interruptible
  /\ jiffies' = Ticked
  /\ softirq_status' = (softirq_status \/ due)
  /\ ret_from_intr(softirq_status \/ due)
  /\ caught' = (caught \/ Overtaken)
  /\ UNCHANGED <<list, expire_jiffies, pending>>

\* HPET_handler, with interrupts off, and its return path.
HPET_handler ==
  LET due == expire_jiffies[list.next[timerList]] <= Ticked
  IN
  /\ Interruptible
  /\ jiffies' = Ticked
  /\ softirq_status' = (softirq_status \/ due)
  /\ ret_from_intr(softirq_status \/ due)
  /\ caught' = (caught \/ Overtaken)
  /\ UNCHANGED <<list, expire_jiffies, pending>>

\* Any other interrupt: its handler touches nothing here, but it returns
\* the same way.
OtherInterrupt ==
  /\ Interruptible
  /\ ret_from_intr(softirq_status)
  /\ caught' = (caught \/ Overtaken)
  /\ UNCHANGED <<jiffies, list, expire_jiffies, softirq_status, pending>>

\* The current call moves on, without touching anything but its own frame.
Goto(call) == stack' = [stack EXCEPT ![current] = Append(Below, call)]

\* do_softirq: while(softirq_status), and the test of the bit.
Serve ==
  /\ InSoftirq /\ Top.at = "loop"
  /\ softirq_status
  /\ Goto([Top EXCEPT !.at = "first"])
  /\ UNCHANGED <<jiffies, list, expire_jiffies, softirq_status, current,
                 pending, caught>>

\* do_softirq returns; back in entry.S the scheduler may be called.
Return ==
  /\ InSoftirq /\ Top.at = "loop"
  /\ ~softirq_status
  /\ stack' = [stack EXCEPT ![current] = Below]
  /\ current' \in Tasks
  /\ UNCHANGED <<jiffies, list, expire_jiffies, softirq_status, pending, caught>>

\* do_timer: tmp is the first node of the list.
First ==
  /\ InSoftirq /\ Top.at = "first"
  /\ Goto([Top EXCEPT !.at = "check", !.tmp = list.next[timerList]])
  /\ UNCHANGED <<jiffies, list, expire_jiffies, softirq_status, current,
                 pending, caught>>

\* do_timer: the condition of its loop.
Check ==
  /\ InSoftirq /\ Top.at = "check"
  /\ LET due == /\ ~list_is_empty(list, timerList)
                /\ expire_jiffies[Top.tmp] <= jiffies
     IN Goto([Top EXCEPT !.at = IF due THEN "del" ELSE "clear"])
  /\ UNCHANGED <<jiffies, list, expire_jiffies, softirq_status, current,
                 pending, caught>>

\* do_timer: del_timer(tmp).
Delete ==
  /\ InSoftirq /\ Top.at = "del"
  /\ list' = list_del(list, Top.tmp)
  /\ Goto([Top EXCEPT !.at = "func"])
  /\ UNCHANGED <<jiffies, expire_jiffies, softirq_status, current, pending, caught>>

\* do_timer: tmp->func(tmp->data).
Fire ==
  /\ InSoftirq /\ Top.at = "func"
  /\ pending[Top.tmp] > -MaxRefires
  /\ pending' = [pending EXCEPT ![Top.tmp] = @ - 1]
  /\ Goto([Top EXCEPT !.at = "first"])
  /\ UNCHANGED <<jiffies, list, expire_jiffies, softirq_status, current, caught>>

\* do_softirq: the bit is reset after the action.
Clear ==
  /\ InSoftirq /\ Top.at = "clear"
  /\ softirq_status' = FALSE
  /\ Goto([Top EXCEPT !.at = "loop"])
  /\ UNCHANGED <<jiffies, list, expire_jiffies, current, pending, caught>>

\* init_timer and the entry of add_timer: a task adds a timer that is not
\* in the list.
AddTimer(new, expire) ==
  LET first == list.next[timerList] IN
  /\ stack[current] = <<>>
  /\ pending[new] = 0
  /\ expire_jiffies' = [expire_jiffies EXCEPT ![new] = expire]
  /\ list' = list_init(list, new)
  /\ stack' = [stack EXCEPT ![current] =
       <<Call(IF list_is_empty(list, timerList) THEN "link" ELSE "walk",
              first, new)>>]
  /\ UNCHANGED <<jiffies, softirq_status, current, pending, caught>>

\* Mutated: always in front of the first timer.
Walk_not ==
  /\ InAdd /\ Top.at = "walk"
  /\ Goto([Top EXCEPT !.at = "link"])
  /\ UNCHANGED <<jiffies, list, expire_jiffies, softirq_status, current,
                 pending, caught>>

\* add_timer: to the first timer that does not expire before the new one.
Walk ==
  /\ InAdd /\ Top.at = "walk"
  /\ IF expire_jiffies[Top.tmp] < expire_jiffies[Top.new]
     THEN Goto([Top EXCEPT !.tmp = list.next[@]])
     ELSE Goto([Top EXCEPT !.at = "link"])
  /\ UNCHANGED <<jiffies, list, expire_jiffies, softirq_status, current,
                 pending, caught>>

\* add_timer: list_add_to_before(tmp, timer).
Link ==
  /\ InAdd /\ Top.at = "link"
  /\ list' = list_add_to_before(list, Top.tmp, Top.new)
  /\ pending' = [pending EXCEPT ![Top.new] = @ + 1]
  /\ stack' = [stack EXCEPT ![current] = Below]
  /\ UNCHANGED <<jiffies, expire_jiffies, softirq_status, current, caught>>

CallStep == \/ Serve \/ Return \/ First \/ Check \/ Delete \/ Fire \/ Clear
            \/ Walk \/ Link

Next == \/ HPET_handler
        \/ OtherInterrupt
        \/ CallStep
        \/ \E new \in Timers, expire \in jiffies .. MaxJiffies :
             AddTimer(new, expire)

Spec == Init /\ [][Next]_vars

-----------------------------------------------------------------------------
TypeOK ==
  /\ jiffies \in 0 .. MaxJiffies
  /\ list \in [next : [Nodes -> Nodes], prev : [Nodes -> Nodes]]
  /\ expire_jiffies \in [Nodes -> 0 .. Never]
  /\ softirq_status \in BOOLEAN
  /\ current \in Tasks
  /\ \A t \in Tasks : \A i \in DOMAIN stack[t] :
       stack[t][i] \in [at : SoftirqPoints \cup AddPoints,
                        tmp : Nodes, new : Nodes]
  /\ pending \in [Timers -> Int]
  /\ caught \in BOOLEAN

(* No task code ever runs with a soft interrupt pending: whatever          *)
(* interrupts nest and whatever task the nested ones switch to, the raise  *)
(* has been served when a processor is back in task code.                  *)
ServedBeforeTaskCode ==
  Nesting(current) = 0 => ~softirq_status

\* The timers of the list, in its order.
Queued == ListNodes(list, timerList, Cardinality(Timers))
Listed == {Queued[i] : i \in DOMAIN Queued}

\* The timers some do_timer has taken off the list and is about to run.
Taken == {timer \in Timers : \E t \in Tasks : \E i \in DOMAIN stack[t] :
            stack[t][i].at = "func" /\ stack[t][i].tmp = timer}

(* The list is well linked, ordered by expire_jiffies, and holds exactly   *)
(* the timers that were added and have not run, but for those some         *)
(* do_timer has taken off to run.                                          *)
ListIsPending ==
  /\ WellLinked(list, timerList, Cardinality(Timers))
  /\ Listed = {timer \in Timers : pending[timer] = 1} \ Taken
  /\ \A i, j \in DOMAIN Queued :
       i < j => expire_jiffies[Queued[i]] <= expire_jiffies[Queued[j]]

(* The timer list is sound through nested interrupts and task switches, as *)
(* long as none has overtaken a call that holds a pointer of the list.     *)
TimerInv == TypeOK /\ (~caught => ListIsPending)

(* do_softirq runs with interrupts on (softirq.c:47) and is entered again  *)
(* by the interrupts that come in it. Yet the function of a timer runs at  *)
(* most once for each add_timer (timer.c:20, "fires and deletes every      *)
(* timer that is due") for as long as no interrupt has overtaken a call    *)
(* between its reading a pointer of the list and the last use of it:       *)
(* everywhere else do_softirq may be interrupted, nested and left half     *)
(* done for another task.                                                  *)
FiresOnce == ~caught => \A t \in Timers : pending[t] >= 0

(* The same without the condition: what timer.c:20 says.                   *)
NeverTwice == \A t \in Timers : pending[t] >= 0

(* Up to there timers run in the order of their expiry: none runs, in      *)
(* whichever of the nested calls of do_softirq, while one that expires     *)
(* earlier is still in the list.                                           *)
EarliestFirst ==
  [][~caught => \A t \in Timers : pending'[t] < pending[t] =>
       \A u \in Listed : expire_jiffies[t] <= expire_jiffies[u]]_vars

\* The ends of an interrupt and of do_softirq, where entry.S may schedule.
ResumeOf(t) == (HPET_handler \/ Return) /\ current' = t

\* A step of the call that stands at a depth of the stack of a task.
StepAt(t, depth) == CallStep /\ current = t /\ Len(stack[t]) = depth

(* The HPET interrupts periodically; the scheduler, called again and       *)
(* again, gives every task the processor; and no call is interrupted at    *)
(* the same point for ever, as ticks are far apart.                        *)
Fairness ==
  /\ WF_vars(HPET_handler) /\ WF_vars(CallStep)
  /\ \A t \in Tasks :
       /\ SF_vars(ResumeOf(t))
       /\ \A depth \in 1 .. MaxNesting - 1 : SF_vars(StepAt(t, depth))

FairSpec == Spec /\ Fairness

(* Every timer that is added runs in the end, also when the do_softirq     *)
(* that took it off the list is left half done for another task.           *)
EveryTimerFires ==
  \A t \in Timers : pending[t] = 1 ~> pending[t] = 0 \/ caught
=============================================================================
