------------------------------ MODULE SpinLock -------------------------------
(***************************************************************************)
(* The spin lock of sOS64 (include/lock/spinlock.h), instruction by        *)
(* instruction, with the preemption counter (include/preempt.h) that keeps *)
(* the timer tick from descheduling a task that waits for or holds it.     *)
(*                                                                         *)
(* The lock word is 1 when free.  A taker decrements it atomically and has *)
(* the lock when the result is not negative; otherwise it reads the word   *)
(* until it is positive and tries again.  The holder stores 1.             *)
(***************************************************************************)
EXTENDS Integers, FiniteSets

CONSTANTS CPUs,    \* the processors
          Tasks,   \* the tasks that use the lock
          home,    \* the processor whose run queue a task is in
          NoTask   \* no holder, for the abstract lock

ASSUME SpinLockAssumption ==
  /\ IsFiniteSet(CPUs)
  /\ home \in [Tasks -> CPUs]
  /\ NoTask \notin Tasks

VARIABLES lock,          \* spinlock_T.lock
          pc,            \* where a task stands in spin_lock / spin_unlock
          preempt_count, \* task_struct.preempt_count
          current        \* the task each CPU executes

vars == <<lock, pc, preempt_count, current>>

\* "out": neither taking nor holding the lock.  "decq" and "pause": before
\* the atomic decrement (label 1) and in the waiting loop (label 2).
\* "inside": between spin_lock and spin_unlock.  "enable": the word is
\* stored, preempt_enable is not done.
Places == {"out", "decq", "pause", "inside", "enable"}

Running(t) == current[home[t]] = t

-----------------------------------------------------------------------------
Init ==
  /\ lock = 1
  /\ pc = [t \in Tasks |-> "out"]
  /\ preempt_count = [t \in Tasks |-> 0]
  /\ current \in [CPUs -> Tasks]
  /\ \A c \in CPUs : home[current[c]] = c

\* Mutated: preemption stays enabled.
Disable_not(t) ==
  /\ Running(t)
  /\ pc[t] = "out"
  /\ pc' = [pc EXCEPT ![t] = "decq"]
  /\ UNCHANGED <<lock, preempt_count, current>>

\* spin_lock: preempt_disable().
Disable(t) ==
  /\ Running(t)
  /\ pc[t] = "out"
  /\ preempt_count' = [preempt_count EXCEPT ![t] = @ + 1]
  /\ pc' = [pc EXCEPT ![t] = "decq"]
  /\ UNCHANGED <<lock, current>>

\* Mutated: the old value is tested, and the new one is not stored.
Decrement_old(t) ==
  /\ Running(t)
  /\ pc[t] = "decq"
  /\ lock' = lock - 1
  /\ pc' = [pc EXCEPT ![t] = IF lock >= 0 THEN "inside" ELSE "pause"]
  /\ UNCHANGED <<preempt_count, current>>

Decrement_unstored(t) ==
  /\ Running(t)
  /\ pc[t] = "decq"
  /\ pc' = [pc EXCEPT ![t] = IF lock - 1 >= 0 THEN "inside" ELSE "pause"]
  /\ UNCHANGED <<lock, preempt_count, current>>

\* lock decq; jns: the lock is taken when the result is not negative.
Decrement(t) ==
  /\ Running(t)
  /\ pc[t] = "decq"
  /\ lock' = lock - 1
  /\ pc' = [pc EXCEPT ![t] = IF lock - 1 >= 0 THEN "inside" ELSE "pause"]
  /\ UNCHANGED <<preempt_count, current>>

\* Mutated: it decrements again without waiting for a positive word.
Retry_blind(t) ==
  /\ Running(t)
  /\ pc[t] = "pause"
  /\ pc' = [pc EXCEPT ![t] = "decq"]
  /\ UNCHANGED <<lock, preempt_count, current>>

\* pause; cmpq $0; jle 2b: the loop ends when the word is read positive.
Retry(t) ==
  /\ Running(t)
  /\ pc[t] = "pause"
  /\ lock > 0
  /\ pc' = [pc EXCEPT ![t] = "decq"]
  /\ UNCHANGED <<lock, preempt_count, current>>

\* Mutated: an increment, the opposite of what the taker did.
Store_increment(t) ==
  /\ Running(t)
  /\ pc[t] = "inside"
  /\ lock' = lock + 1
  /\ pc' = [pc EXCEPT ![t] = "enable"]
  /\ UNCHANGED <<preempt_count, current>>

\* spin_unlock: movq $1.
Store(t) ==
  /\ Running(t)
  /\ pc[t] = "inside"
  /\ lock' = 1
  /\ pc' = [pc EXCEPT ![t] = "enable"]
  /\ UNCHANGED <<preempt_count, current>>

\* Mutated: preemption is not enabled again.
Enable_not(t) ==
  /\ Running(t)
  /\ pc[t] = "enable"
  /\ pc' = [pc EXCEPT ![t] = "out"]
  /\ UNCHANGED <<lock, preempt_count, current>>

\* spin_unlock: preempt_enable().
Enable(t) ==
  /\ Running(t)
  /\ pc[t] = "enable"
  /\ preempt_count' = [preempt_count EXCEPT ![t] = @ - 1]
  /\ pc' = [pc EXCEPT ![t] = "out"]
  /\ UNCHANGED <<lock, current>>

\* The tick's ret_from_intr: a task whose preempt_count is zero may be
\* replaced by any other task of its CPU.
Preempt(c, t) ==
  /\ preempt_count[current[c]] = 0
  /\ home[t] = c
  /\ current' = [current EXCEPT ![c] = t]
  /\ UNCHANGED <<lock, pc, preempt_count>>

LockStep(t) == Disable(t) \/ Decrement(t) \/ Retry(t) \/ Store(t) \/ Enable(t)

Next == \/ \E t \in Tasks : LockStep(t)
        \/ \E c \in CPUs, t \in Tasks : Preempt(c, t)

Spec == Init /\ [][Next]_vars

-----------------------------------------------------------------------------
\* The variables have their types; the counter follows the program counter.
TypeOK ==
  /\ lock \in Int
  /\ pc \in [Tasks -> Places]
  /\ preempt_count \in [Tasks -> Nat]
  /\ current \in [CPUs -> Tasks]

(* At most one task is between spin_lock and spin_unlock.                  *)
MutualExclusion ==
  \A t, u \in Tasks : pc[t] = "inside" /\ pc[u] = "inside" => t = u

(* The word says whether the lock is held: it is 1 exactly when nobody is  *)
(* inside, whatever number of failed decrements came before.               *)
WordTellsHolder ==
  /\ lock <= 1
  /\ lock <= 0 <=> \E t \in Tasks : pc[t] = "inside"

(* A task that waits for the lock or holds it is never descheduled, so     *)
(* that nobody spins for a task that does not run.                         *)
HolderRuns ==
  \A t \in Tasks : pc[t] # "out" => Running(t)

(* The word never goes below the number of the other processors: failed    *)
(* decrements do not pile up, and the 64-bit word cannot wrap around.      *)
WordBounded == lock >= 1 - Cardinality(CPUs)

\* With what makes them inductive: the counter is zero outside only.
LockInv ==
  /\ TypeOK
  /\ MutualExclusion
  /\ WordTellsHolder
  /\ HolderRuns
  /\ \A t \in Tasks : preempt_count[t] = IF pc[t] = "out" THEN 0 ELSE 1
  /\ \A c \in CPUs : home[current[c]] = c

-----------------------------------------------------------------------------
\* The spin lock implements the abstract lock: its holder is the task
\* inside.
Holder ==
  IF \E t \in Tasks : pc[t] = "inside"
  THEN CHOOSE t \in Tasks : pc[t] = "inside"
  ELSE NoTask

M == INSTANCE Mutex WITH holder <- Holder

(* Every behaviour of the instructions is one of the abstract lock.        *)
ImplementsMutex == M!Spec

(* A processor executes its task's next instruction, and the code between  *)
(* spin_lock and spin_unlock comes to its end.  Nobody is forced to ask    *)
(* for the lock.                                                           *)
Fairness ==
  \A t \in Tasks : WF_vars(Decrement(t) \/ Retry(t) \/ Store(t) \/ Enable(t))

FairSpec == Spec /\ Fairness

(* The processors do not all wait for each other: when some task waits,    *)
(* some task gets the lock, and a held lock is given back.  (A given task  *)
(* may starve: the lock has no queue.)                                     *)
Progress ==
  /\ (\E t \in Tasks : pc[t] \in {"decq", "pause"})
       ~> (\E t \in Tasks : pc[t] = "inside")
  /\ (\E t \in Tasks : pc[t] = "inside") ~> lock = 1
=============================================================================
