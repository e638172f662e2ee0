--------------------------- MODULE SpinLockProofs ----------------------------
(***************************************************************************)
(* Proofs about SpinLock for any number of processors and tasks: its       *)
(* inductive invariant, mutual exclusion, and that it implements Mutex.    *)
(***************************************************************************)
EXTENDS SpinLock, FiniteSetTheorems, TLAPS

(* The invariant holds at first: the word is 1 and nobody is inside.       *)
LEMMA InitInv == Init => LockInv
  BY SpinLockAssumption
     DEF Init, LockInv, TypeOK, Places, MutualExclusion, WordTellsHolder,
         HolderRuns

(* An instruction of spin_lock or spin_unlock keeps the invariant.         *)
LEMMA LockStepInv ==
  ASSUME LockInv, NEW t \in Tasks, LockStep(t)
  PROVE  LockInv'
<1> USE DEF Places
<1>1. /\ TypeOK /\ MutualExclusion /\ WordTellsHolder /\ HolderRuns
      /\ \A u \in Tasks : preempt_count[u] = IF pc[u] = "out" THEN 0 ELSE 1
      /\ \A c \in CPUs : home[current[c]] = c
  BY DEF LockInv
<1>2. /\ Running(t)
      /\ current' = current
  BY DEF LockStep, Disable, Decrement, Retry, Store, Enable
<1>3. CASE Disable(t)
  BY <1>1, <1>2, <1>3
     DEF Disable, LockInv, TypeOK, MutualExclusion, WordTellsHolder,
         HolderRuns, Running
<1>4. CASE Decrement(t)
  <2>1. lock' = lock - 1 /\ lock \in Int /\ lock <= 1
    BY <1>1, <1>4 DEF Decrement, TypeOK, WordTellsHolder
  <2>2. CASE lock = 1
    <3>1. \A u \in Tasks : pc[u] # "inside"
      BY <1>1, <2>2 DEF WordTellsHolder
    <3>2. pc' = [pc EXCEPT ![t] = "inside"] /\ preempt_count' = preempt_count
      BY <1>4, <2>2 DEF Decrement
    <3>3. /\ pc[t] = "decq" /\ lock' = 0
      BY <1>4, <2>1, <2>2 DEF Decrement
    <3>4. TypeOK' /\ MutualExclusion' /\ WordTellsHolder' /\ HolderRuns'
      BY <1>1, <1>2, <3>1, <3>2, <3>3
         DEF TypeOK, MutualExclusion, WordTellsHolder, HolderRuns, Running
    <3>5. QED
      BY <1>1, <1>2, <3>2, <3>3, <3>4 DEF LockInv, TypeOK
  <2>3. CASE lock <= 0
    <3>1. \E u \in Tasks : pc[u] = "inside"
      BY <1>1, <2>3 DEF WordTellsHolder
    <3>0. ~(lock - 1 >= 0)
      BY <2>1, <2>3
    <3>2. pc' = [pc EXCEPT ![t] = "pause"] /\ preempt_count' = preempt_count
      BY <1>4, <3>0 DEF Decrement
    <3>3. pc[t] = "decq" /\ lock' <= 0 /\ lock' \in Int
      BY <1>4, <2>1, <2>3 DEF Decrement
    <3>4. TypeOK' /\ MutualExclusion' /\ WordTellsHolder' /\ HolderRuns'
      BY <1>1, <1>2, <3>1, <3>2, <3>3
         DEF TypeOK, MutualExclusion, WordTellsHolder, HolderRuns, Running
    <3>5. QED
      BY <1>1, <1>2, <3>2, <3>3, <3>4 DEF LockInv, TypeOK
  <2>4. QED
    BY <2>1, <2>2, <2>3
<1>5. CASE Retry(t)
  BY <1>1, <1>2, <1>5
     DEF Retry, LockInv, TypeOK, MutualExclusion, WordTellsHolder, HolderRuns,
         Running
<1>6. CASE Store(t)
  <2>1. /\ pc[t] = "inside" /\ lock' = 1 /\ preempt_count' = preempt_count
        /\ pc' = [pc EXCEPT ![t] = "enable"]
    BY <1>6 DEF Store
  <2>2. \A u \in Tasks : pc'[u] # "inside"
    BY <1>1, <2>1 DEF TypeOK, MutualExclusion
  <2>3. TypeOK' /\ MutualExclusion' /\ WordTellsHolder' /\ HolderRuns'
    BY <1>1, <1>2, <2>1, <2>2
       DEF TypeOK, MutualExclusion, WordTellsHolder, HolderRuns, Running
  <2>4. QED
    BY <1>1, <1>2, <2>1, <2>3 DEF LockInv, TypeOK
<1>7. CASE Enable(t)
  BY <1>1, <1>2, <1>7
     DEF Enable, LockInv, TypeOK, MutualExclusion, WordTellsHolder,
         HolderRuns, Running
<1>8. QED
  BY <1>3, <1>4, <1>5, <1>6, <1>7 DEF LockStep

(* A reschedule only replaces a task that has nothing to do with the lock. *)
LEMMA PreemptInv ==
  ASSUME LockInv, NEW c \in CPUs, NEW t \in Tasks, Preempt(c, t)
  PROVE  LockInv'
<1>1. pc[current[c]] = "out" /\ current[c] \in Tasks
  BY DEF LockInv, TypeOK, Preempt
<1>2. HolderRuns'
  BY <1>1, SpinLockAssumption
     DEF LockInv, TypeOK, HolderRuns, Running, Preempt
<1>3. QED
  BY <1>2, SpinLockAssumption
     DEF LockInv, TypeOK, MutualExclusion, WordTellsHolder, Preempt

(* LockInv is inductive.                                                   *)
LEMMA NextInv == LockInv /\ [Next]_vars => LockInv'
<1> SUFFICES ASSUME LockInv, [Next]_vars PROVE LockInv'
  OBVIOUS
<1>1. CASE UNCHANGED vars
  BY <1>1 DEF vars, LockInv, TypeOK, MutualExclusion, WordTellsHolder,
              HolderRuns, Running
<1>2. CASE \E t \in Tasks : LockStep(t)
  BY <1>2, LockStepInv
<1>3. CASE \E c \in CPUs, t \in Tasks : Preempt(c, t)
  BY <1>3, PreemptInv
<1>4. QED
  BY <1>1, <1>2, <1>3 DEF Next

(* The word, the program counters and preempt_count stay consistent.       *)
THEOREM SpinLockInvariant == Spec => []LockInv
  BY InitInv, NextInv, PTL DEF Spec

(* Two tasks are never both between spin_lock and spin_unlock.             *)
THEOREM SpinLockExcludes == Spec => []MutualExclusion
<1>1. LockInv => MutualExclusion
  BY DEF LockInv
<1>2. QED
  BY <1>1, SpinLockInvariant, PTL

(* A task is never descheduled while it waits for or holds the lock.       *)
THEOREM NobodySpinsForASleeper == Spec => []HolderRuns
<1>1. LockInv => HolderRuns
  BY DEF LockInv
<1>2. QED
  BY <1>1, SpinLockInvariant, PTL

-----------------------------------------------------------------------------
\* The processors whose task has decremented the word since it read it as
\* positive: the holder's, and those in the waiting loop.  Each of them
\* accounts for at most one decrement below 1.
Decremented == {c \in CPUs : pc[current[c]] \in {"inside", "pause"}}

WordCounts == lock >= 1 - Cardinality(Decremented)

(* Processors are finitely many, and so are those that have decremented.   *)
LEMMA DecrementedFinite ==
  /\ IsFiniteSet(Decremented)
  /\ Cardinality(Decremented) \in 0 .. Cardinality(CPUs)
<1>1. IsFiniteSet(CPUs) /\ Decremented \in SUBSET CPUs
  BY SpinLockAssumption DEF Decremented
<1>2. /\ IsFiniteSet(Decremented)
      /\ Cardinality(Decremented) <= Cardinality(CPUs)
  BY <1>1, FS_Subset
<1>3. Cardinality(Decremented) \in Nat /\ Cardinality(CPUs) \in Nat
  BY <1>1, <1>2, FS_CardinalityType
<1>4. QED
  BY <1>2, <1>3

(* A decrement makes its processor one of them; the other instructions     *)
(* that may take a processor away leave the word positive.                 *)
LEMMA StepCounts ==
  ASSUME LockInv, WordCounts, [Next]_vars
  PROVE  WordCounts'
<1> USE DEF Places
<1>1. /\ lock \in Int /\ lock <= 1
      /\ pc \in [Tasks -> Places] /\ current \in [CPUs -> Tasks]
      /\ \A t \in Tasks : pc[t] # "out" => current[home[t]] = t
      /\ \A c \in CPUs : home[current[c]] = c
      /\ home \in [Tasks -> CPUs]
  BY SpinLockAssumption DEF LockInv, TypeOK, WordTellsHolder, HolderRuns, Running
<1>2. Cardinality(Decremented) \in Nat
  BY DecrementedFinite
<1>3. ASSUME Decremented' = Decremented, lock' = lock
      PROVE  WordCounts'
  BY <1>3 DEF WordCounts
<1>4. CASE UNCHANGED vars
  BY <1>3, <1>4 DEF vars, Decremented
<1>5. ASSUME NEW t \in Tasks, Disable(t) \/ Enable(t)
      PROVE  WordCounts'
  <2>1. Decremented' = Decremented
    BY <1>1, <1>5 DEF Disable, Enable, Decremented
  <2>2. QED
    BY <1>3, <1>5, <2>1 DEF Disable, Enable
<1>6. ASSUME NEW t \in Tasks, Decrement(t)
      PROVE  WordCounts'
  <2>1. Decremented' = Decremented \cup {home[t]} /\ home[t] \notin Decremented
    BY <1>1, <1>6 DEF Decrement, Decremented, Running
  <2>2. Cardinality(Decremented') = Cardinality(Decremented) + 1
    BY <2>1, DecrementedFinite, FS_AddElement
  <2>3. lock' = lock - 1
    BY <1>6 DEF Decrement
  <2>4. QED
    BY <1>1, <1>2, <2>2, <2>3 DEF WordCounts
<1>7. ASSUME NEW t \in Tasks, Retry(t) \/ Store(t)
      PROVE  WordCounts'
  <2>1. lock' = 1
    BY <1>1, <1>7 DEF Retry, Store
  <2>2. IsFiniteSet(Decremented')
    <3>1. IsFiniteSet(CPUs) /\ Decremented' \in SUBSET CPUs
      BY SpinLockAssumption DEF Decremented
    <3>2. QED
      BY <3>1, FS_Subset
  <2>3. Cardinality(Decremented') \in Nat
    BY <2>2, FS_CardinalityType
  <2>4. QED
    BY <2>1, <2>3 DEF WordCounts
<1>8. ASSUME NEW c \in CPUs, NEW t \in Tasks, Preempt(c, t)
      PROVE  WordCounts'
  <2>1. pc[current[c]] = "out" /\ pc[t] = "out"
    BY <1>1, <1>8 DEF LockInv, Preempt
  <2>2. Decremented' = Decremented
    BY <1>1, <1>8, <2>1 DEF Preempt, Decremented
  <2>3. QED
    BY <1>3, <1>8, <2>2 DEF Preempt
<1>9. QED
  BY <1>4, <1>5, <1>6, <1>7, <1>8 DEF Next, LockStep

(* Failed decrements do not pile up, however often and in whatever order   *)
(* the processors retry: the word stays above minus their number.          *)
THEOREM SpinLockWordBounded == Spec => []WordBounded
<1>1. Init => WordCounts
  <2>1. Cardinality(Decremented) \in Nat
    BY DecrementedFinite
  <2>2. QED
    BY <2>1 DEF Init, WordCounts
<1>2. LockInv /\ WordCounts /\ [Next]_vars => WordCounts'
  BY StepCounts
<1>3. LockInv /\ WordCounts => WordBounded
  <2>1. Cardinality(Decremented) \in 0 .. Cardinality(CPUs)
    BY DecrementedFinite
  <2>2. Cardinality(CPUs) \in Nat
    BY SpinLockAssumption, FS_CardinalityType
  <2>3. QED
    BY <2>1, <2>2 DEF LockInv, TypeOK, WordCounts, WordBounded
<1>4. QED
  BY <1>1, <1>2, <1>3, SpinLockInvariant, PTL DEF Spec

-----------------------------------------------------------------------------
\* Holder is the one task inside, when there is one.
LEMMA HolderValue ==
  ASSUME LockInv
  PROVE  /\ \A t \in Tasks : pc[t] = "inside" => Holder = t
         /\ (\A t \in Tasks : pc[t] # "inside") => Holder = NoTask
  BY DEF LockInv, MutualExclusion, Holder

(* Every step of the instructions is a step of the abstract lock or leaves *)
(* its holder alone.                                                       *)
LEMMA StepRefines ==
  ASSUME LockInv, LockInv', [Next]_vars
  PROVE  [M!Next]_Holder
<1>0. /\ \A t \in Tasks : pc'[t] = "inside" => Holder' = t
      /\ (\A t \in Tasks : pc'[t] # "inside") => Holder' = NoTask
  BY DEF LockInv, MutualExclusion, Holder
<1>1. CASE pc' = pc
  BY <1>1 DEF Holder
<1>2. ASSUME NEW t \in Tasks, Disable(t) \/ Retry(t) \/ Enable(t)
      PROVE  Holder' = Holder
  <2>1. \A u \in Tasks : pc'[u] = "inside" <=> pc[u] = "inside"
    BY <1>2 DEF Disable, Retry, Enable, LockInv, TypeOK
  <2>2. CASE \E u \in Tasks : pc[u] = "inside"
    BY <1>0, <2>1, <2>2, HolderValue
  <2>3. CASE \A u \in Tasks : pc[u] # "inside"
    BY <1>0, <2>1, <2>3, HolderValue
  <2>4. QED
    BY <2>2, <2>3
<1>3. ASSUME NEW t \in Tasks, Decrement(t)
      PROVE  [M!Next]_Holder
  <2>1. CASE lock - 1 >= 0
    <3>1. Holder = NoTask
      <4>1. ~(lock <= 0)
        BY <2>1 DEF LockInv, TypeOK
      <4>2. \A u \in Tasks : pc[u] # "inside"
        BY <4>1 DEF LockInv, WordTellsHolder
      <4>3. QED
        BY <4>2, HolderValue
    <3>2. pc'[t] = "inside"
      BY <1>3, <2>1 DEF Decrement, LockInv, TypeOK
    <3>3. QED
      BY <1>0, <3>1, <3>2 DEF M!Next, M!Acquire
  <2>2. CASE ~(lock - 1 >= 0)
    <3>1. \A u \in Tasks : pc'[u] = "inside" <=> pc[u] = "inside"
      BY <1>3, <2>2 DEF Decrement, LockInv, TypeOK
    <3>2. CASE \E u \in Tasks : pc[u] = "inside"
      BY <1>0, <3>1, <3>2, HolderValue
    <3>3. CASE \A u \in Tasks : pc[u] # "inside"
      BY <1>0, <3>1, <3>3, HolderValue
    <3>4. QED
      BY <3>2, <3>3
  <2>3. QED
    BY <2>1, <2>2
<1>4. ASSUME NEW t \in Tasks, Store(t)
      PROVE  [M!Next]_Holder
  <2>1. Holder = t
    BY <1>4, HolderValue DEF Store
  <2>2. \A u \in Tasks : pc'[u] # "inside"
    BY <1>4 DEF Store, LockInv, TypeOK, MutualExclusion
  <2>3. QED
    BY <1>0, <2>1, <2>2 DEF M!Next, M!Release
<1>5. ASSUME NEW c \in CPUs, NEW t \in Tasks, Preempt(c, t)
      PROVE  pc' = pc
  BY <1>5 DEF Preempt
<1>6. CASE UNCHANGED vars
  BY <1>1, <1>6 DEF vars
<1>7. CASE Next
  BY <1>1, <1>2, <1>3, <1>4, <1>5, <1>7 DEF Next, LockStep
<1>8. QED
  BY <1>6, <1>7

(* The instructions of spin_lock and spin_unlock implement a lock.         *)
THEOREM SpinLockImplementsMutex == Spec => ImplementsMutex
<1>1. Init => M!Init
  BY InitInv, HolderValue DEF Init, M!Init
<1>2. LockInv /\ LockInv' /\ [Next]_vars => [M!Next]_Holder
  BY StepRefines
<1>3. QED
  BY <1>1, <1>2, SpinLockInvariant, PTL DEF Spec, M!Spec, ImplementsMutex
=============================================================================
