--------------------------- MODULE SemEvent_proofs ---------------------------
(***************************************************************************)
(* Proofs about Semaphore and about Event, for any number of tasks,        *)
(* semaphores and events: the objects whose waiters have nothing to do     *)
(* with each other.                                                        *)
(*                                                                         *)
(* Every step with semaphores is a step of the scheduler or leaves it      *)
(* alone, so what is proved of Task holds here too.  That no unit lies     *)
(* idle needs one fact about the scheduler: apart from Pend, nothing puts  *)
(* a task on the list of an object (OnlyPendAdds).                         *)
(* That LOS_SemPend is honest (ResultHonest) needs more, that a task which *)
(* waits is on the list and one that does not is off it, and therefore     *)
(* ListInv.                                                                *)
(*                                                                         *)
(* An event is different: a write wakes many tasks in one critical         *)
(* section, which no step of Task does.  First it is shown that this keeps *)
(* lists, flags, delay list and calls in agreement (WakeAllKept), and so   *)
(* the invariants of the scheduler hold with events too (EventKernel).  On *)
(* top of them Asks says what a task in LOS_EventRead is after; no write   *)
(* misses a waiter (NoEventMissed), and who is woken finds its bits        *)
(* (WokenFind).                                                            *)
(***************************************************************************)
EXTENDS Semaphore, Event, Task_proofs
-----------------------------------------------------------------------------
(* Semaphores.                                                              *)

SemInv == TypeInv /\ SemTypeOK /\ NoIdleUnit

\* A step with semaphores is a step of Task.
LEMMA SemStepIsStep == TypeInv /\ [SemNext]_semAllVars => [Next]_vars
<1> SUFFICES ASSUME TypeInv, [SemNext]_semAllVars PROVE [Next]_vars
  OBVIOUS
<1>1. CASE UNCHANGED vars
  BY <1>1
<1>2. ASSUME NEW s \in Obj, NEW n \in Timeouts \cup {Forever}, SemPendBlock(s, n)
      PROVE  Next
  <2> DEFINE i == Len(Unlink(list, run)[s]) + 1
  <2>1. Unlink(list, run) \in Lists
    BY UnlinkType DEF TypeInv, TypeOK, Lists
  <2>2. i \in 1..Len(Unlink(list, run)[s]) + 1
    BY <2>1, Heads DEF Lists
  <2>3. Pend(s, n, i)
    BY <1>2 DEF SemPendBlock
  <2> QED  BY <2>2, <2>3 DEF Next, WaitStep
<1>3. ASSUME NEW s \in Obj, NEW c \in Context, SemPostWake(c, s) PROVE Next
  BY <1>3 DEF SemPostWake, Next, WaitStep
<1>4. CASE SemPendReturn
  BY <1>4 DEF SemPendReturn, Next, WaitStep
<1>5. CASE KernelStep
  BY <1>5 DEF KernelStep, Next, WaitStep
<1>6. ASSUME NEW c \in Context, NEW n, LOS_SemCreate(c, n) PROVE UNCHANGED vars
  BY <1>6 DEF LOS_SemCreate
<1>7. ASSUME NEW c \in Context, NEW s \in Obj,
             LOS_SemDelete(c, s) \/ SemPendTake(c, s) \/ SemPostCount(c, s)
      PROVE  UNCHANGED vars
  BY <1>7 DEF LOS_SemDelete, SemPendTake, SemPostCount
<1> QED
  BY <1>1, <1>2, <1>3, <1>4, <1>5, <1>6, <1>7 DEF SemNext, SemPost, semAllVars
-----------------------------------------------------------------------------
\* Every step keeps the counts in range.
LEMMA SemTypeStep == SemInv /\ [SemNext]_semAllVars => SemTypeOK'
<1> SUFFICES ASSUME SemInv, [SemNext]_semAllVars PROVE SemTypeOK'
  OBVIOUS
<1>0. /\ unusedSem \in Seq(Obj) /\ semCount \in [Obj -> 0..CountMax]
      /\ handed \in [Task -> BOOLEAN] /\ CountMax \in Nat /\ list \in Lists
  BY SemAssumption DEF SemInv, SemTypeOK, TypeInv, TypeOK, Lists
<1>1. CASE UNCHANGED semVars
  BY <1>1 DEF SemInv, SemTypeOK, semVars
<1>2. ASSUME NEW c \in Context, NEW n \in 0..CountMax, LOS_SemCreate(c, n) PROVE SemTypeOK'
  <2>1. Tail(unusedSem) \in Seq(Obj)
    BY <1>0, <1>2, HeadTailRange DEF LOS_SemCreate
  <2> QED  BY <1>0, <1>2, <2>1 DEF LOS_SemCreate, SemTypeOK
<1>3. ASSUME NEW c \in Context, NEW s \in Obj, LOS_SemDelete(c, s) PROVE SemTypeOK'
  <2>1. <<s>> \o unusedSem \in Seq(Obj)
    BY <1>0
  <2> QED  BY <1>0, <1>3, <2>1 DEF LOS_SemDelete, SemTypeOK
<1>4. ASSUME NEW c \in Context, NEW s \in Obj, SemPendTake(c, s) \/ SemPostCount(c, s)
      PROVE  SemTypeOK'
  <2>1. semCount' \in [Obj -> 0..CountMax]
    BY <1>0, <1>4 DEF SemPendTake, SemPostCount
  <2> QED  BY <1>0, <1>4, <2>1 DEF SemPendTake, SemPostCount, SemTypeOK
<1>5. ASSUME NEW s \in Obj, \/ \E c \in Context : SemPostWake(c, s)
                            \/ \E n \in Timeouts \cup {Forever} : SemPendBlock(s, n)
      PROVE  SemTypeOK'
  <2>1. /\ UNCHANGED <<unusedSem, semCount>>
        /\ \E t, b : handed' = [handed EXCEPT ![t] = b] /\ b \in BOOLEAN
    BY <1>5 DEF SemPostWake, SemPendBlock
  <2> QED  BY <1>0, <2>1 DEF SemTypeOK
<1>6. CASE SemPendReturn
  BY <1>0, <1>6 DEF SemPendReturn, SemTypeOK
<1> QED
  BY <1>1, <1>2, <1>3, <1>4, <1>5, <1>6 DEF SemNext, SemPost, semAllVars

\* Every step keeps the units where they are wanted: a task comes to wait only where no
\* unit is left, and a unit comes to be left, or the semaphore goes, only where none waits.
LEMMA NoIdleUnitStep == SemInv /\ [SemNext]_semAllVars => NoIdleUnit'
<1> SUFFICES ASSUME SemInv, [SemNext]_semAllVars, NEW s \in Obj, list'[s] # <<>>
             PROVE  (Used(s) /\ semCount[s] = 0)'
  BY DEF NoIdleUnit
<1>0. /\ list \in Lists /\ list' \in Lists /\ unusedSem \in Seq(Obj)
      /\ semCount \in [Obj -> 0..CountMax]
      /\ list[s] # <<>> => Used(s) /\ semCount[s] = 0
  BY SemStepIsStep, TypeStep
     DEF SemInv, SemTypeOK, TypeInv, TypeOK, Lists, NoIdleUnit
<1>1. CASE list[s] # <<>> /\ UNCHANGED <<unusedSem, semCount>>
  BY <1>0, <1>1 DEF Used
<1>2. ASSUME ToSet(list'[s]) \subseteq ToSet(list[s]) PROVE list[s] # <<>>
  <2>1. list'[s] \in Seq(Task)
    BY <1>0, Heads DEF Lists
  <2>2. ToSet(list'[s]) # {}
    BY <2>1, HeadTailRange
  <2> QED  BY <1>2, <2>2 DEF ToSet
<1>3. CASE UNCHANGED semAllVars
  BY <1>1, <1>3 DEF semAllVars, semVars, vars, taskVars
<1>4. CASE KernelStep /\ UNCHANGED semVars
  BY <1>1, <1>2, <1>4, OnlyPendAdds DEF semVars, SemInv
<1>5. CASE SemPendReturn
  BY <1>1, <1>5 DEF SemPendReturn, WaitReturn
<1>6. ASSUME NEW c \in Context, NEW n \in 0..CountMax, LOS_SemCreate(c, n)
      PROVE  (Used(s) /\ semCount[s] = 0)'
  <2>1. list[s] # <<>>
    BY <1>6 DEF LOS_SemCreate, vars, taskVars
  <2>2. Head(unusedSem) # s /\ s \notin ToSet(Tail(unusedSem))
    BY <1>0, <1>6, <2>1, HeadTailRange DEF LOS_SemCreate, Used
  <2> QED  BY <1>0, <1>6, <2>1, <2>2 DEF LOS_SemCreate, Used
<1>7. ASSUME NEW c \in Context, NEW o \in Obj, LOS_SemDelete(c, o)
      PROVE  (Used(s) /\ semCount[s] = 0)'
  <2>1. list[s] # <<>> /\ s # o
    BY <1>7 DEF LOS_SemDelete, vars, taskVars
  <2> DEFINE w == <<o>>
  <2>2. w \in Seq(Obj) /\ ToSet(w) = {o}
    BY SingletonRange
  <2>3. unusedSem' = w \o unusedSem /\ UNCHANGED semCount
    BY <1>7 DEF LOS_SemDelete
  <2> HIDE DEF w
  <2>4. ToSet(w \o unusedSem) = {o} \cup ToSet(unusedSem)
    BY <1>0, <2>2, ConcatRange
  <2> QED  BY <1>0, <2>1, <2>3, <2>4 DEF Used
<1>8. ASSUME NEW c \in Context, NEW o \in Obj, SemPendTake(c, o) \/ SemPostCount(c, o)
      PROVE  (Used(s) /\ semCount[s] = 0)'
  <2>1. list[s] # <<>> /\ s # o
    BY <1>0, <1>8 DEF SemPendTake, SemPostCount, vars, taskVars
  <2> QED  BY <1>0, <1>8, <2>1 DEF SemPendTake, SemPostCount, Used
<1>9. ASSUME NEW c \in Context, NEW o \in Obj, SemPostWake(c, o)
      PROVE  (Used(s) /\ semCount[s] = 0)'
  <2> DEFINE t == Head(list[o])
  <2>1. t \in Task /\ prio[t] \in Head_ \ Obj
    BY <1>0, <1>9, HeadTailRange, Heads
       DEF SemPostWake, Wake, Release, Hand, Lists, SemInv, TypeInv, TypeOK
  <2>2. \/ list' = Unlink(list, t)
        \/ list' = AddTail(Unlink(list, t), prio[t], t)
    BY <1>9 DEF SemPostWake, Wake, Release, Hand
  <2> HIDE DEF t
  <2>3. Fewer(list')
    BY <1>0, <2>1, <2>2, FewerNow, FewerKept
  <2> QED  BY <1>1, <1>2, <1>9, <2>3 DEF SemPostWake, Fewer
<1>10. ASSUME NEW o \in Obj, NEW n \in Timeouts \cup {Forever}, SemPendBlock(o, n)
       PROVE  (Used(s) /\ semCount[s] = 0)'
  <2>1. CASE s = o
    BY <1>10, <2>1 DEF SemPendBlock, Used
  <2>2. CASE s # o
    <3>1. list'[s] = Unlink(list, run)[s]
      BY <1>0, <1>10, <2>2, Heads DEF SemPendBlock, Pend, Block, Unlink, Lists
    <3>2. ToSet(list'[s]) \subseteq ToSet(list[s])
      BY <1>0, <3>1, UnlinkType, Heads
    <3> QED  BY <1>1, <1>2, <1>10, <3>2 DEF SemPendBlock
  <2> QED  BY <2>1, <2>2
<1> QED
  BY <1>3, <1>4, <1>5, <1>6, <1>7, <1>8, <1>9, <1>10 DEF SemNext, SemPost

\* At the start no semaphore is used and no task waits.
LEMMA SemInitInv == SemInit => SemInv
<1> SUFFICES ASSUME SemInit PROVE SemInv
  OBVIOUS
<1>1. TypeInv
  BY TypeInit DEF SemInit
<1>2. SemTypeOK
  BY SemAssumption DEF SemInit, SemTypeOK
<1>3. NoIdleUnit
  <2>1. 0 \in Prio
    BY TaskAssumption DEF Prio
  <2>2. \A s \in Obj : s \in Head_ /\ s \notin {Free, Lowest, 0}
    BY <2>1, Heads
  <2> QED  BY <2>2 DEF SemInit, Init, NoIdleUnit
<1> QED  BY <1>1, <1>2, <1>3 DEF SemInv

\* The inductive invariant of the semaphores.
THEOREM SemInvariant == SemSpec => []SemInv
<1>1. SemInv /\ [SemNext]_semAllVars => SemInv'
  <2>1. SemInv /\ [SemNext]_semAllVars => TypeInv'
    BY SemStepIsStep, TypeStep DEF SemInv
  <2> QED  BY <2>1, SemTypeStep, NoIdleUnitStep DEF SemInv
<1> QED  BY <1>1, SemInitInv, PTL DEF SemSpec

\* The kernel with semaphores is an implementation of the scheduler: LOS_SemPend and
\* LOS_SemPost block and wake as Pend and Wake promise, and change nothing else of it.
THEOREM SemImplementsTask == SemSpec => Spec
<1>1. SemInit => Init
  BY DEF SemInit
<1>2. SemInv => TypeInv
  BY DEF SemInv
<1> QED  BY <1>1, <1>2, SemStepIsStep, SemInvariant, PTL DEF SemSpec, Spec

\* Handles and counts keep their types; LOS_SemPost never counts past the maximum.
THEOREM SemTypeCorrect == SemSpec => []SemTypeOK
<1>1. SemInv => SemTypeOK
  BY DEF SemInv
<1> QED  BY <1>1, SemInvariant, PTL

\* No task waits for a semaphore while it has a unit left or after it was deleted: what
\* LOS_SemPost and LOS_SemDelete rely on when they look at the count or the list alone.
THEOREM UnitsReachWaiters == SemSpec => []NoIdleUnit
<1>1. SemInv => NoIdleUnit
  BY DEF SemInv
<1> QED  BY <1>1, SemInvariant, PTL
-----------------------------------------------------------------------------
\* What the flags of a task in LOS_SemPend say of the unit: while it waits it was handed
\* none, and once it does not, TIMEOUT is what tells whether it was.
Honest(t) ==
  pc[t] \in InCall =>
    /\ status[t] \cap Waits # {} => ~handed[t]
    /\ status[t] \cap Waits = {} => ("TIMEOUT" \in status[t] <=> ~handed[t])

\* A call that is carried on stays honest: a limit that expires leaves TIMEOUT set, and a
\* task that waited had no unit.
LEMMA HonestKept ==
  ASSUME NEW t \in Task, Honest(t), Carries(t), handed'[t] = handed[t]
  PROVE  Honest(t)'
BY DEF Honest, Carries

LEMMA HonestStep ==
  ASSUME TypeInv, ListInv, CallInv, SemTypeOK, \A t \in Task : Honest(t),
         SemNext, ~halt', Slice = 0, NEW u \in Task
  PROVE  Honest(u)'
<1>0. handed \in [Task -> BOOLEAN] /\ Honest(u)
  BY DEF SemTypeOK
<1>1. CASE UNCHANGED <<vars, handed>>
  BY <1>0, <1>1 DEF Honest, vars, taskVars
<1>2. ASSUME NEW c, NEW s \in Obj, SemPostWake(c, s) PROVE Honest(u)'
  <2>1. Hand(list, c, s) /\ handed' = [handed EXCEPT ![Head(list[s])] = TRUE]
    BY <1>2 DEF SemPostWake, Wake, Release
  <2> DEFINE t == Head(list[s])
  <2>2. /\ status'[t] \cap Waits = {} /\ "TIMEOUT" \notin status'[t] /\ t \in Task
        /\ u # t => Carries(u)
    BY <2>1, HandCarries
  <2>3. handed'[t] = TRUE /\ (u # t => handed'[u] = handed[u])
    BY <1>0, <2>1, <2>2
  <2> HIDE DEF t
  <2> QED  BY <1>0, <2>2, <2>3, HonestKept DEF Honest
<1>3. ASSUME NEW s \in Obj, NEW n, SemPendBlock(s, n) PROVE Honest(u)'
  <2>1. /\ Pend(s, n, Len(Unlink(list, run)[s]) + 1)
        /\ handed' = [handed EXCEPT ![run] = FALSE]
    BY <1>3 DEF SemPendBlock
  <2>2. /\ run \in Task /\ status'[run] \cap Waits # {}
        /\ \A t \in Task \ {run} : Carries(t)
    BY <2>1, PendCarries DEF Pend
  <2> QED  BY <1>0, <2>1, <2>2, HonestKept DEF Honest
<1>4. CASE SemPendReturn
  <2>1. WaitReturn /\ handed' = [handed EXCEPT ![run] = FALSE]
    BY <1>4 DEF SemPendReturn
  <2>2. /\ run \in Task /\ pc'[run] \notin InCall
        /\ \A t \in Task \ {run} : Carries(t)
    BY <2>1, ReturnCarries
  <2> QED  BY <1>0, <2>1, <2>2, HonestKept DEF Honest
<1>5. CASE KernelStep /\ ~WaitReturn /\ UNCHANGED semVars
  BY <1>0, <1>5, KernelCarries, HonestKept DEF semVars
<1> QED
  BY <1>1, <1>2, <1>3, <1>4, <1>5
     DEF SemNext, SemPost, LOS_SemCreate, LOS_SemDelete, SemPendTake, SemPostCount

\* A task that executes the end of its call waits for nothing.
LEMMA HonestResult ==
  ASSUME ~halt => ListInv, \A t \in Task : ~halt => Honest(t)
  PROVE  ResultHonest
<1> SUFFICES ASSUME TaskRuns("woken")
             PROVE  "TIMEOUT" \in status[run] <=> ~handed[run]
  BY DEF ResultHonest
<1>1. run \in Task /\ ~halt /\ ~pendsv /\ pc[run] = "woken"
  BY DEF TaskRuns
<1>2. status[run] \cap Blocks = {}
  BY <1>1 DEF ListInv, CpuFits
<1> QED  BY <1>1, <1>2 DEF Honest, InCall, Waits, Blocks

\* LOS_SemPend succeeds after it blocked exactly when a post handed its caller a unit, in
\* the kernel without time slices.
THEOREM PendIsHonest ==
  ASSUME Slice = 0
  PROVE  SemSpec => []ResultHonest
<1> DEFINE Calls_ == TypeInv /\ (~halt => ListInv /\ DelayInv /\ CallInv)
           Honest_ == \A t \in Task : ~halt => Honest(t)
<1>1. SemInit => Honest_
  BY DEF SemInit, Init, Honest, InCall
<1>2. Calls_ /\ SemInv /\ Honest_ /\ [SemNext]_semAllVars => Honest_'
  <2> SUFFICES ASSUME Calls_, SemInv, Honest_, [SemNext]_semAllVars, ~halt', NEW u \in Task
               PROVE  Honest(u)'
    OBVIOUS
  <2>1. CASE UNCHANGED semAllVars
    <3>1. Honest(u)' = Honest(u) /\ halt' = halt
      BY <2>1 DEF semAllVars, vars, taskVars, semVars, Honest
    <3> QED  BY <3>1
  <2>2. CASE SemNext
    <3>1. ~halt
      BY <2>2, SemStepIsStep, TimerCases DEF semAllVars, vars
    <3> QED  BY <2>2, <3>1, HonestStep DEF SemInv
  <2> QED  BY <2>1, <2>2
<1>3. Calls_ /\ Honest_ => ResultHonest
  BY HonestResult
<1>4. Spec => []Calls_
  BY CallsKept
<1> HIDE DEF Calls_, Honest_
<1>5. SemSpec => [](Calls_ /\ Honest_)
  BY <1>1, <1>2, <1>4, SemImplementsTask, SemInvariant, PTL DEF SemSpec
<1> QED  BY <1>3, <1>5, PTL
-----------------------------------------------------------------------------
(* Events.                                                                  *)

\* f is what Kept computes of the first n entries, for every n up to the last.
Keeps(Q, S, n, f) ==
  f = [i \in 0..n |-> IF i = 0 THEN <<>>
        ELSE IF Q[i] \in S THEN Append(f[i - 1], Q[i]) ELSE f[i - 1]]

\* The recursion of Kept defines a function.
LEMMA KeptDefined ==
  ASSUME NEW T, NEW Q \in Seq(T), NEW S
  PROVE  \E f : Keeps(Q, S, Len(Q), f) /\ Kept(Q, S) = f[Len(Q)]
<1>1. \A n \in 0..Len(Q) : \E f : Keeps(Q, S, n, f)
  <2> DEFINE Bad == {n \in 0..Len(Q) : ~\E f : Keeps(Q, S, n, f)}
  <2>1. SUFFICES ASSUME Bad # {} PROVE FALSE
    OBVIOUS
  <2>2. PICK n \in Bad : \A k \in Bad : n <= k
    <3>1. Bad \in SUBSET Nat
      OBVIOUS
    <3> HIDE DEF Bad
    <3> QED  BY <2>1, <3>1, MinExists
  <2>3. n \in 0..Len(Q) /\ ~\E f : Keeps(Q, S, n, f)
    BY <2>2
  <2>4. CASE n = 0
    <3>1. Keeps(Q, S, 0, [i \in 0..0 |-> <<>>])
      BY DEF Keeps
    <3> QED  BY <2>3, <2>4, <3>1
  <2>5. CASE n # 0
    <3>1. n - 1 \in 0..Len(Q) /\ n - 1 \notin Bad
      BY <2>2, <2>3, <2>5
    <3>2. PICK f : Keeps(Q, S, n - 1, f)
      BY <3>1
    <3> DEFINE last == IF Q[n] \in S THEN Append(f[n - 1], Q[n]) ELSE f[n - 1]
               g == [i \in 0..n |-> IF i = n THEN last ELSE f[i]]
    <3>3. \A i \in 0..n - 1 : g[i] = f[i] /\ i \in 0..n
      BY <2>3, <2>5
    <3>4. g[n] = last /\ n - 1 \in 0..n - 1
      BY <2>3, <2>5
    <3>5. \A i \in 0..n - 1 : f[i] = IF i = 0 THEN <<>>
               ELSE IF Q[i] \in S THEN Append(f[i - 1], Q[i]) ELSE f[i - 1]
      BY <3>2 DEF Keeps
    <3>6. g = [i \in 0..n |-> g[i]]
      OBVIOUS
    <3> HIDE DEF g
    <3>7. ASSUME NEW i \in 0..n
          PROVE  g[i] = IF i = 0 THEN <<>>
                        ELSE IF Q[i] \in S THEN Append(g[i - 1], Q[i]) ELSE g[i - 1]
      <4>1. CASE i = n
        BY <2>5, <3>3, <3>4, <4>1
      <4>2. CASE i = 0
        BY <2>3, <2>5, <3>3, <3>5, <4>2
      <4>3. CASE i # n /\ i # 0
        <5>1. i \in 0..n - 1 /\ i - 1 \in 0..n - 1
          BY <2>3, <4>3
        <5> QED  BY <3>3, <3>5, <4>3, <5>1
      <4> QED  BY <4>1, <4>2, <4>3
    <3>8. Keeps(Q, S, n, g)
      BY <3>6, <3>7 DEF Keeps
    <3> QED  BY <2>3, <3>8
  <2> QED  BY <2>4, <2>5
<1> DEFINE F == CHOOSE f : Keeps(Q, S, Len(Q), f)
<1>2. Keeps(Q, S, Len(Q), F)
  <2>1. Len(Q) \in 0..Len(Q)
    OBVIOUS
  <2>2. \E f : Keeps(Q, S, Len(Q), f)
    BY <1>1, <2>1
  <2> QED  BY <2>2
<1>3. Kept(Q, S) = F[Len(Q)]
  BY DEF Kept, Keeps
<1> QED  BY <1>2, <1>3

\* What is left of a list when the entries that are not in S are taken off: those in S,
\* in the order they had.
LEMMA KeptRange ==
  ASSUME NEW T, NEW Q \in Seq(T), NEW S
  PROVE  /\ Kept(Q, S) \in Seq(T) /\ ToSet(Kept(Q, S)) = ToSet(Q) \cap S
         /\ IsInjective(Q) => IsInjective(Kept(Q, S))
         /\ \A i, j \in 1..Len(Kept(Q, S)) : i <= j =>
              \E a, b \in 1..Len(Q) : a <= b /\ Kept(Q, S)[i] = Q[a] /\ Kept(Q, S)[j] = Q[b]
         /\ Q # <<>> /\ Head(Q) \in S => Kept(Q, S) # <<>> /\ Head(Kept(Q, S)) = Head(Q)
<1>1. PICK f : Keeps(Q, S, Len(Q), f) /\ Kept(Q, S) = f[Len(Q)]
  BY KeptDefined
<1>2. \A n \in 0..Len(Q) : f[n] = IF n = 0 THEN <<>>
               ELSE IF Q[n] \in S THEN Append(f[n - 1], Q[n]) ELSE f[n - 1]
  BY <1>1 DEF Keeps
<1> DEFINE Right(n) ==
             /\ f[n] \in Seq(T)
             /\ \A x : x \in ToSet(f[n]) <=> x \in S /\ \E i \in 1..n : Q[i] = x
             /\ IsInjective(Q) => IsInjective(f[n])
             /\ \A i, j \in 1..Len(f[n]) : i <= j =>
                  \E a, b \in 1..n : a <= b /\ f[n][i] = Q[a] /\ f[n][j] = Q[b]
             /\ n > 0 /\ Q[1] \in S => f[n] # <<>> /\ f[n][1] = Q[1]
<1>3. Right(0)
  <2>1. f[0] = <<>>
    BY <1>2
  <2> QED  BY <2>1 DEF ToSet, IsInjective
<1>4. ASSUME NEW n \in 1..Len(Q), Right(n - 1) PROVE Right(n)
  <2> DEFINE g == f[n - 1]
  <2>0. /\ g \in Seq(T) /\ Len(g) \in Nat
        /\ \A x : x \in ToSet(g) <=> x \in S /\ \E i \in 1..n - 1 : Q[i] = x
        /\ IsInjective(Q) => IsInjective(g)
        /\ \A i, j \in 1..Len(g) : i <= j =>
                  \E a, b \in 1..n - 1 : a <= b /\ g[i] = Q[a] /\ g[j] = Q[b]
        /\ n - 1 > 0 /\ Q[1] \in S => g # <<>> /\ g[1] = Q[1]
    BY <1>4
  <2>1. f[n] = IF Q[n] \in S THEN Append(g, Q[n]) ELSE g
    BY <1>2
  <2>2. Q[n] \in T /\ \A k \in 1..n - 1 : k \in 1..n
    OBVIOUS
  <2> HIDE DEF g, Right
  <2>3. CASE Q[n] \notin S
    <3>1. f[n] = g
      BY <2>1, <2>3
    <3>2. n > 0 /\ Q[1] \in S => n - 1 > 0
      BY <2>3
    <3>3. \A x : (x \in S /\ \E i \in 1..n : Q[i] = x) <=> (x \in S /\ \E i \in 1..n - 1 : Q[i] = x)
      BY <2>3
    <3>4. \A i, j \in 1..Len(g) : i <= j =>
                  \E a, b \in 1..n : a <= b /\ g[i] = Q[a] /\ g[j] = Q[b]
      BY <2>0, <2>2
    <3> QED  BY <2>0, <3>1, <3>2, <3>3, <3>4 DEF Right
  <2>4. CASE Q[n] \in S
    <3>1. f[n] = Append(g, Q[n])
      BY <2>1, <2>4
    <3>2. /\ f[n] \in Seq(T) /\ f[n] # <<>> /\ Len(f[n]) = Len(g) + 1
          /\ \A i \in 1..Len(g) : f[n][i] = g[i]
          /\ f[n][Len(g) + 1] = Q[n]
      BY <2>0, <2>2, <3>1, AppendProperties
    <3>3. /\ ToSet(f[n]) = ToSet(g) \cup {Q[n]}
          /\ IsInjective(g) /\ Q[n] \notin ToSet(g) => IsInjective(f[n])
      BY <2>0, <2>2, <3>1, AppendRange
    <3>4. \A x : x \in ToSet(f[n]) <=> x \in S /\ \E i \in 1..n : Q[i] = x
      <4>1. \A x : (\E i \in 1..n : Q[i] = x) <=> (x = Q[n] \/ \E i \in 1..n - 1 : Q[i] = x)
        OBVIOUS
      <4> QED  BY <2>0, <2>4, <3>3, <4>1
    <3>5. IsInjective(Q) => IsInjective(f[n])
      <4>1. ASSUME IsInjective(Q), Q[n] \in ToSet(g) PROVE FALSE
        <5>1. PICK i \in 1..n - 1 : Q[i] = Q[n]
          BY <2>0, <4>1
        <5> QED  BY <4>1, <5>1 DEF IsInjective
      <4> QED  BY <2>0, <3>3, <4>1
    <3>6. ASSUME NEW i \in 1..Len(f[n]), NEW j \in 1..Len(f[n]), i <= j
          PROVE  \E a, b \in 1..n : a <= b /\ f[n][i] = Q[a] /\ f[n][j] = Q[b]
      <4>1. CASE j \in 1..Len(g)
        <5>1. i \in 1..Len(g)
          BY <2>0, <3>6, <4>1
        <5> QED  BY <2>0, <2>2, <3>2, <3>6, <4>1, <5>1
      <4>2. CASE i \in 1..Len(g) /\ j = Len(g) + 1
        <5>0. i \in 1..Len(g) /\ i <= i
          BY <4>2
        <5>1. PICK a, b \in 1..n - 1 : a <= b /\ g[i] = Q[a] /\ g[i] = Q[b]
          BY <2>0, <5>0
        <5>2. a \in 1..n /\ n \in 1..n /\ a <= n
          OBVIOUS
        <5>3. f[n][i] = Q[a] /\ f[n][j] = Q[n]
          BY <3>2, <4>2, <5>1
        <5> QED  BY <5>2, <5>3
      <4>3. CASE i = Len(g) + 1 /\ j = Len(g) + 1
        BY <3>2, <4>3
      <4> QED  BY <2>0, <3>2, <3>6, <4>1, <4>2, <4>3
    <3>7. n > 0 /\ Q[1] \in S => f[n] # <<>> /\ f[n][1] = Q[1]
      <4>1. CASE n = 1
        <5>1. ToSet(g) = {}
          BY <2>0, <4>1
        <5>2. Len(g) = 0
          BY <2>0, <5>1, InToSet
        <5> QED  BY <3>2, <4>1, <5>2
      <4>2. CASE n # 1
        <5>1. Q[1] \in S => Len(g) > 0 /\ g[1] = Q[1]
          BY <2>0, <4>2
        <5> QED  BY <2>0, <3>2, <5>1
      <4> QED  BY <4>1, <4>2
    <3> QED  BY <3>2, <3>4, <3>5, <3>6, <3>7 DEF Right
  <2> QED  BY <2>3, <2>4
<1>5. \A n \in 0..Len(Q) : Right(n)
  <2> DEFINE Bad == {n \in 0..Len(Q) : ~Right(n)}
  <2> HIDE DEF Right
  <2>1. SUFFICES ASSUME Bad # {} PROVE FALSE
    OBVIOUS
  <2>2. PICK n \in Bad : \A k \in Bad : n <= k
    <3>1. Bad \in SUBSET Nat
      OBVIOUS
    <3> HIDE DEF Bad
    <3> QED  BY <2>1, <3>1, MinExists
  <2>3. n # 0
    BY <1>3, <2>2
  <2>4. n \in 1..Len(Q) /\ n - 1 \in 0..Len(Q) /\ n - 1 \notin Bad
    BY <2>2, <2>3
  <2>5. Right(n - 1)
    BY <2>4
  <2> QED  BY <1>4, <2>2, <2>4, <2>5
<1>6. Right(Len(Q))
  <2> HIDE DEF Right
  <2> QED  BY <1>5
<1>7. ToSet(Kept(Q, S)) = ToSet(Q) \cap S
  <2>1. \A x : x \in ToSet(Kept(Q, S)) <=> x \in S /\ \E i \in 1..Len(Q) : Q[i] = x
    BY <1>1, <1>6
  <2> QED  BY <2>1, InToSet
<1>8. Q # <<>> /\ Head(Q) \in S => Kept(Q, S) # <<>> /\ Head(Kept(Q, S)) = Head(Q)
  <2>1. Q # <<>> => Len(Q) > 0 /\ Head(Q) = Q[1]
    OBVIOUS
  <2>2. Len(Q) > 0 /\ Q[1] \in S => Kept(Q, S) # <<>> /\ Kept(Q, S)[1] = Q[1]
        /\ Kept(Q, S) \in Seq(T)
    BY <1>1, <1>6
  <2> QED  BY <2>1, <2>2
<1> QED  BY <1>1, <1>6, <1>7, <1>8
-----------------------------------------------------------------------------
(* The tasks that one write wakes.                                          *)

\* The waiters of an event that a write wakes, and their flags.
LEMMA WakeAllShape ==
  ASSUME TypeInv, NEW c \in Context, NEW e \in Obj, NEW S \in SUBSET ToSet(list[e]),
         WakeAll(c, e, S)
  PROVE  /\ list \in Lists /\ timerQ \in Seq(Task) /\ e \in Head_ \ Prio
         /\ S \in SUBSET (Task \ {Idle}) /\ \A t \in S : e \in On(list, t)
         /\ Kind(e) = "PEND"
         /\ c = "task" => run \in Task \ {Idle} /\ pc[run] = "user" /\ ~pendsv /\ started
         /\ c = "isr" => started
         /\ c # "main" /\ ~halt /\ Schedule(c)
         /\ UNCHANGED <<prio, run, lock, started, zombie, newborn, slice, scan>>
         /\ \A t \in Task \ S : status'[t] = status[t]
         /\ \A t \in S : status'[t] = (status[t] \ {"PEND", "TIMEOUT"})
                           \cup (IF "SUSPEND" \in status[t] THEN {} ELSE {"READY"})
<1>1. /\ list \in Lists /\ timerQ \in Seq(Task) /\ e \in Head_ \ Prio /\ GoodLists(list)
      /\ e # Lowest /\ list[e] \in Seq(Task)
  BY Heads DEF TypeInv, TypeOK, IdleInv, Lists
<1>2. S \in SUBSET (Task \ {Idle})
  BY <1>1, InToSet DEF GoodLists
<1>3. Kind(e) = "PEND"
  BY EventAssumption DEF Kind
<1>4. /\ c = "task" => run \in Task \ {Idle} /\ pc[run] = "user" /\ ~pendsv /\ started
      /\ c = "isr" => started
      /\ c # "main" /\ ~halt
  BY MayCallContext DEF WakeAll, MayCall, TaskRuns
<1> QED
  BY <1>1, <1>2, <1>3, <1>4 DEF WakeAll, On, Woken

\* They leave the delay list, which stays as it was otherwise.
LEMMA WakeAllTimers ==
  ASSUME TypeInv, NEW c, NEW e \in Obj, NEW S \in SUBSET Task, WakeAll(c, e, S)
  PROVE  /\ timerQ' \in Seq(Task)
         /\ \A t \in Task : t \in ToSet(timerQ') <=>
              t \in ToSet(timerQ) /\ ~(t \in S /\ "TIMEOUT" \in status[t])
         /\ \A t \in ToSet(timerQ') : left'[t] = left[t]
         /\ left' \in [Task -> Int]
         /\ DelayInv => DelayInv'
<1> DEFINE timed == {t \in S : "TIMEOUT" \in status[t]}
           K == Kept(timerQ, Task \ timed)
<1>1. /\ timerQ' = K /\ left' = [t \in Task |-> IF t \in timed THEN 0 ELSE left[t]]
      /\ scan' = scan
  BY DEF WakeAll
<1>2. timerQ \in Seq(Task) /\ left \in [Task -> Int] /\ ToSet(timerQ) \subseteq Task
  BY InToSet DEF TypeInv, TypeOK
<1> DEFINE kept == Task \ timed
<1>0. K = Kept(timerQ, kept)
  OBVIOUS
<1> HIDE DEF K, kept
<1>3. /\ K \in Seq(Task) /\ ToSet(K) = ToSet(timerQ) \cap kept
      /\ IsInjective(timerQ) => IsInjective(K)
      /\ \A i, j \in 1..Len(K) : i <= j =>
           \E a, b \in 1..Len(timerQ) : a <= b /\ K[i] = timerQ[a] /\ K[j] = timerQ[b]
      /\ timerQ # <<>> /\ Head(timerQ) \in kept => Head(K) = Head(timerQ)
  <2> HIDE DEF timed
  <2> DEFINE J == Kept(timerQ, kept)
  <2>1. /\ J \in Seq(Task) /\ ToSet(J) = ToSet(timerQ) \cap kept
        /\ IsInjective(timerQ) => IsInjective(J)
    BY <1>2, KeptRange
  <2>2. \A i, j \in 1..Len(J) : i <= j =>
          \E a, b \in 1..Len(timerQ) : a <= b /\ J[i] = timerQ[a] /\ J[j] = timerQ[b]
    BY <1>2, KeptRange
  <2>3. timerQ # <<>> /\ Head(timerQ) \in kept => Head(J) = Head(timerQ)
    BY <1>2, KeptRange
  <2>4. K = J
    BY <1>0
  <2> HIDE DEF J
  <2> QED  BY <2>1, <2>2, <2>3, <2>4
<1> USE DEF kept
<1>4. \A t \in Task : t \in ToSet(timerQ') <=> t \in ToSet(timerQ) /\ t \notin timed
  BY <1>1, <1>3
<1>5. \A t \in ToSet(timerQ') : t \in Task /\ t \in ToSet(timerQ) /\ left'[t] = left[t]
  BY <1>1, <1>2, <1>3
<1>6. left' \in [Task -> Int]
  BY <1>1, <1>2
<1>7. ASSUME DelayInv PROVE DelayInv'
  <2>1. Ordered(timerQ', left')
    <3> SUFFICES ASSUME NEW i \in 1..Len(K), NEW j \in 1..Len(K), i <= j
                 PROVE  left'[K[i]] <= left'[K[j]]
      BY <1>1 DEF Ordered
    <3>1. left'[K[i]] = left[K[i]] /\ left'[K[j]] = left[K[j]]
      BY <1>1, <1>3, <1>5, InToSet
    <3>2. PICK a, b \in 1..Len(timerQ) : a <= b /\ K[i] = timerQ[a] /\ K[j] = timerQ[b]
      BY <1>3
    <3> QED  BY <1>7, <3>1, <3>2 DEF DelayInv, Ordered
  <2>2. IsInjective(timerQ')
    BY <1>1, <1>3, <1>7 DEF DelayInv
  <2>3. ASSUME scan'.at = "expire", scan'.task \in ToSet(timerQ')
        PROVE  scan'.task = Head(timerQ') /\ left'[scan'.task] = 0
    <3>1. scan.task = Head(timerQ) /\ left[scan.task] = 0
      BY <1>1, <1>5, <1>7, <2>3 DEF DelayInv
    <3>2. timerQ # <<>>
      BY <1>2, <1>5, <2>3, InToSet
    <3>3. Head(timerQ) \in Task \ timed
      BY <1>1, <1>3, <2>3, <3>1
    <3> QED  BY <1>1, <1>3, <1>5, <2>3, <3>1, <3>2, <3>3
  <2> QED  BY <1>1, <1>5, <1>7, <2>1, <2>2, <2>3 DEF DelayInv
<1> QED  BY <1>1, <1>3, <1>4, <1>5, <1>6, <1>7

\* They go from the list of the event to the ends of the ready lists, unless they are
\* suspended; nobody else moves.
LEMMA WakeAllLists ==
  ASSUME TypeInv, NEW c \in Context, NEW e \in Obj, NEW S \in SUBSET ToSet(list[e]),
         WakeAll(c, e, S)
  PROVE  /\ list' \in Lists
         /\ \A h \in Head_, t \in Task : t \in ToSet(list'[h]) <=>
              \/ t \in ToSet(list[h]) /\ ~(h = e /\ t \in S)
              \/ h # e /\ t \in S /\ prio[t] = h /\ "SUSPEND" \notin status[t]
         /\ (\A h \in Head_ : IsInjective(list[h]))
              /\ (\A t \in S, h \in Head_ : t \in ToSet(list[h]) => h = e)
            => \A h \in Head_ : IsInjective(list'[h])
<1> DEFINE gain(h) == {t \in S : prio[t] = h /\ "SUSPEND" \notin status[t]}
<1>1. /\ list \in Lists /\ e \in Head_ /\ S \in SUBSET Task
      /\ \A t \in S : t \in ToSet(list[e])
  BY WakeAllShape
<1>2. list' = [h \in Head_ |-> IF h = e THEN Kept(list[e], Task \ S)
                               ELSE list[h] \o Kept(list[e], gain(h))]
  BY DEF WakeAll
<1>3. /\ Kept(list[e], Task \ S) \in Seq(Task)
      /\ ToSet(Kept(list[e], Task \ S)) = ToSet(list[e]) \cap (Task \ S)
      /\ IsInjective(list[e]) => IsInjective(Kept(list[e], Task \ S))
  BY <1>1, KeptRange DEF Lists
<1>4. ASSUME NEW h \in Head_
      PROVE  /\ list[h] \in Seq(Task) /\ Kept(list[e], gain(h)) \in Seq(Task)
             /\ ToSet(Kept(list[e], gain(h))) = ToSet(list[e]) \cap gain(h)
             /\ IsInjective(list[e]) => IsInjective(Kept(list[e], gain(h)))
  BY <1>1, KeptRange DEF Lists
<1> HIDE DEF gain
<1>5. ASSUME NEW h \in Head_ \ {e}
      PROVE  /\ list'[h] \in Seq(Task)
             /\ ToSet(list'[h]) = ToSet(list[h]) \cup (ToSet(list[e]) \cap gain(h))
             /\ /\ IsInjective(list[h]) /\ IsInjective(list[e])
                /\ ToSet(list[h]) \cap (ToSet(list[e]) \cap gain(h)) = {}
                => IsInjective(list'[h])
  <2>1. list'[h] = list[h] \o Kept(list[e], gain(h))
    BY <1>2
  <2> QED  BY <1>4, <2>1, ConcatRange
<1>6. list'[e] = Kept(list[e], Task \ S)
  BY <1>1, <1>2
<1>7. list' \in Lists
  BY <1>2, <1>3, <1>5, <1>6 DEF Lists
<1>8. ASSUME NEW h \in Head_, NEW t \in Task
      PROVE  t \in ToSet(list'[h]) <=>
              \/ t \in ToSet(list[h]) /\ ~(h = e /\ t \in S)
              \/ h # e /\ t \in S /\ prio[t] = h /\ "SUSPEND" \notin status[t]
  <2>1. CASE h = e
    BY <1>3, <1>6, <2>1
  <2>2. CASE h # e
    <3>1. t \in ToSet(list[e]) \cap gain(h) <=>
            t \in S /\ prio[t] = h /\ "SUSPEND" \notin status[t]
      BY <1>1 DEF gain
    <3> QED  BY <1>5, <2>2, <3>1
  <2> QED  BY <2>1, <2>2
<1>9. ASSUME \A h \in Head_ : IsInjective(list[h]),
             \A t \in S, h \in Head_ : t \in ToSet(list[h]) => h = e,
             NEW h \in Head_
      PROVE  IsInjective(list'[h])
  <2>1. CASE h = e
    BY <1>1, <1>3, <1>6, <1>9, <2>1
  <2>2. CASE h # e
    <3>1. ToSet(list[h]) \cap (ToSet(list[e]) \cap gain(h)) = {}
      BY <1>9, <2>2 DEF gain
    <3> QED  BY <1>1, <1>5, <1>9, <2>2, <3>1
  <2> QED  BY <2>1, <2>2
<1> QED  BY <1>7, <1>8, <1>9

\* The types of the scheduler are kept.
LEMMA WakeAllType ==
  ASSUME TypeInv, NEW c \in Context, NEW e \in Obj, NEW S \in SUBSET ToSet(list[e]),
         WakeAll(c, e, S)
  PROVE  TypeInv'
<1>1. /\ S \in SUBSET (Task \ {Idle}) /\ e \in Head_ \ Prio /\ Lowest \in Prio
      /\ c = "task" => run \in Task \ {Idle} /\ pc[run] = "user" /\ ~pendsv /\ started
      /\ c = "isr" => started
      /\ Schedule(c)
      /\ UNCHANGED <<prio, run, lock, started, zombie, newborn, slice, scan>>
      /\ \A t \in Task \ S : status'[t] = status[t]
  BY WakeAllShape, Heads
<1>2. GoodLists(list')
  <2>1. GoodLists(list) /\ Idle \in Task /\ Lowest \in Head_
    BY Heads DEF TypeInv, IdleInv
  <2> QED  BY <1>1, <2>1, WakeAllLists DEF GoodLists
<1>3. timerQ' \in Seq(Task) /\ left' \in [Task -> Int] /\ Idle \notin ToSet(timerQ')
  BY <1>1, WakeAllTimers, Heads DEF TypeInv, IdleInv
<1>4. halt' \in BOOLEAN
  BY DEF WakeAll
<1>5. status' \in [Task -> SUBSET Flag]
  <2>1. /\ status' = [t \in Task |->
             IF t \notin S THEN status[t]
             ELSE Woken(t, e) \cup (IF "SUSPEND" \in status[t] THEN {} ELSE {"READY"})]
        /\ status \in [Task -> SUBSET Flag]
    BY DEF WakeAll, TypeInv, TypeOK
  <2> QED  BY <2>1, Members DEF Woken
<1>6. new' \in Task
  BY <1>1, <1>2, ScheduleNew
<1>7. /\ pendsv' \in BOOLEAN /\ pc' \in [Task -> Place] /\ pc'[Idle] = "user" /\ LockInv'
      /\ \A u \in Task : pc'[u] \in {"alloc", "create"} => newborn'[u] # Null
  BY <1>1, <1>2, ScheduleType
<1>8. TypeOK'
  BY <1>1, <1>2, <1>3, <1>4, <1>5, <1>6, <1>7 DEF TypeInv, TypeOK, GoodLists, Lists
<1>9. IdleInv'
  BY <1>1, <1>2, <1>3, <1>7, Heads DEF TypeInv, IdleInv
<1>10. LocalInv'
  BY <1>1, <1>7 DEF TypeInv, LocalInv
<1> QED  BY <1>7, <1>8, <1>9, <1>10 DEF TypeInv

\* A task that waits for an event is on no other list, and on the delay list exactly if
\* its wait has a limit.
LEMMA WaiterFits ==
  ASSUME TypeInv, TasksFit, NEW e \in Obj, NEW t \in Task, e \in On(list, t)
  PROVE  /\ On(list, t) = {e} /\ status[t] \cap Waits = {"PEND"}
         /\ {"DELAY", "UNUSED", "READY"} \cap status[t] = {}
         /\ t \in ToSet(timerQ) <=> "TIMEOUT" \in status[t]
<1>1. Fits(status[t], prio[t], On(list, t), t \in ToSet(timerQ), pc[t], Grown(t)) /\ On(list, t) \in SUBSET Head_
  BY DEF TasksFit, On
<1>2. On(list, t) = {e}
  BY <1>1, OnlyOn
<1>3. status[t] \cap Waits = {"PEND"}
  BY <1>1, <1>2, EventAssumption DEF Fits, Kind
<1> QED  BY <1>1, <1>2, <1>3, Heads DEF Fits

\* The lists, the flags and the delay list agree of those woken and of the others.
LEMMA WakeAllFits ==
  ASSUME TypeInv, TasksFit, CpuFits, NEW c \in Context, NEW e \in Obj,
         NEW S \in SUBSET ToSet(list[e]), WakeAll(c, e, S)
  PROVE  TasksFit'
<1>1. /\ list \in Lists /\ timerQ \in Seq(Task) /\ e \in Head_ \ Prio
      /\ S \in SUBSET Task /\ \A t \in S : e \in On(list, t)
      /\ c = "task" => run \in Task /\ pc[run] = "user"
      /\ Schedule(c) /\ prio' = prio
      /\ \A t \in Task \ S : status'[t] = status[t]
      /\ \A t \in S : status'[t] = (status[t] \ {"PEND", "TIMEOUT"})
                        \cup (IF "SUSPEND" \in status[t] THEN {} ELSE {"READY"})
  BY WakeAllShape
<1>2. \A t \in S : /\ On(list, t) = {e} /\ status[t] \cap Waits = {"PEND"}
                   /\ {"DELAY", "UNUSED", "READY"} \cap status[t] = {}
                   /\ t \in ToSet(timerQ) <=> "TIMEOUT" \in status[t]
                   /\ prio[t] \in Prio
  BY <1>1, WaiterFits DEF TypeInv, TypeOK
<1>3. /\ \A h \in Head_, t \in Task : t \in ToSet(list'[h]) <=>
              \/ t \in ToSet(list[h]) /\ ~(h = e /\ t \in S)
              \/ h # e /\ t \in S /\ prio[t] = h /\ "SUSPEND" \notin status[t]
      /\ \A h \in Head_ : IsInjective(list'[h])
  <2>1. \A h \in Head_ : IsInjective(list[h])
    BY DEF TasksFit
  <2>2. \A t \in S, h \in Head_ : t \in ToSet(list[h]) => h = e
    BY <1>2 DEF On
  <2> QED  BY <2>1, <2>2, WakeAllLists
<1>4. \A t \in Task : t \in ToSet(timerQ') <=>
                        t \in ToSet(timerQ) /\ ~(t \in S /\ "TIMEOUT" \in status[t])
  BY <1>1, WakeAllTimers
<1>5. \A u \in Task : pc'[u] = pc[u] \/ "TIMEOUT" \notin status[u]
  <2>1. c = "task" => run \in Task /\ "TIMEOUT" \notin status[run]
    BY CallerFits DEF WakeAll, MayCall, TaskRuns
  <2> QED  BY <1>1, <2>1, SchedulePc
<1>6. ASSUME NEW t \in S
      PROVE  Fits(status'[t], prio'[t], On(list, t)', t \in ToSet(timerQ'), pc'[t], Grown(t)')
  <2>1. /\ status'[t] \cap Waits = {} /\ {"TIMEOUT", "DELAY", "UNUSED"} \cap status'[t] = {}
        /\ "READY" \in status'[t] <=> "SUSPEND" \notin status[t]
    BY <1>1, <1>2 DEF Waits
  <2>2. t \notin ToSet(timerQ')
    BY <1>1, <1>2, <1>4
  <2>3. On(list, t)' = IF "SUSPEND" \in status[t] THEN {} ELSE {prio[t]}
    <3>1. \A h \in Head_ : t \in ToSet(list[h]) => h = e
      BY <1>2 DEF On
    <3>2. \A h \in Head_ : t \in ToSet(list'[h]) <=> prio[t] = h /\ "SUSPEND" \notin status[t]
      BY <1>1, <1>2, <1>3, <3>1
    <3>3. prio[t] \in Head_
      BY <1>2, Heads
    <3> QED  BY <3>2, <3>3 DEF On
  <2> QED  BY <1>1, <1>2, <2>1, <2>2, <2>3, Heads DEF Fits
<1>7. ASSUME NEW t \in Task \ S
      PROVE  Fits(status'[t], prio'[t], On(list, t)', t \in ToSet(timerQ'), pc'[t], Grown(t)')
  <2>1. On(list, t)' = On(list, t)
    BY <1>3 DEF On
  <2>2. Fits(status[t], prio[t], On(list, t), t \in ToSet(timerQ), pc[t], Grown(t))
    BY DEF TasksFit
  <2>3. Grown(t)' <=> Grown(t)
    BY WakeAllShape DEF Grown
  <2> QED  BY <1>1, <1>4, <1>5, <2>1, <2>2, <2>3 DEF Fits
<1> QED  BY <1>3, <1>6, <1>7 DEF TasksFit

\* A write blocks nobody, lets the half created tasks be, and the task chosen to run next
\* is ready.  What the tick read of the task it handles stays true unless the write takes
\* that task off the delay list.
LEMMA WakeAllCpu ==
  ASSUME TypeInv, ListInv, NEW c \in Context, NEW e \in Obj,
         NEW S \in SUBSET ToSet(list[e]), WakeAll(c, e, S), TypeInv', TasksFit'
  PROVE  CpuFits' /\ NewbornFits' /\ ScanFits'
<1>1. /\ S \in SUBSET Task /\ \A t \in S : e \in On(list, t)
      /\ c = "task" => run \in Task /\ pc[run] = "user"
      /\ c # "main" /\ Schedule(c)
      /\ UNCHANGED <<run, lock, newborn, scan>>
      /\ \A t \in Task \ S : status'[t] = status[t]
      /\ \A t \in S : status'[t] = (status[t] \ {"PEND", "TIMEOUT"})
                        \cup (IF "SUSPEND" \in status[t] THEN {} ELSE {"READY"})
  BY WakeAllShape
<1>2. \A u \in Task : Calmer(u)
  BY <1>1 DEF Calmer, Blocks
<1>3. CpuFits' /\ (new' = new \/ "READY" \in status'[new']) /\ run' \in {run, new, Dummy}
  BY <1>1, <1>2, ScheduleCpu
<1>4. \A u \in Task : pc[u] \in {"alloc", "create"} => pc'[u] = pc[u]
  BY <1>1 DEF Schedule, TypeInv, TypeOK
<1>5. \A u \in Task : ~Grown(u) => status'[u] = status[u]
  BY <1>1, GrownTasks
<1>6. NewbornFits'
  BY <1>1, <1>3, <1>4, <1>5, BornKept
<1>7. ScanFits'
  <2> SUFFICES ASSUME scan.at = "expire", scan.task \in ToSet(timerQ')
               PROVE  scan.was \cap Blocks = status'[scan.task] \cap Blocks
    BY <1>1 DEF ScanFits
  <2>1. timerQ' \in Seq(Task)
    BY <1>1, WakeAllTimers
  <2>2. scan.task \in Task
    BY <2>1, InToSet
  <2>3. scan.task \in ToSet(timerQ) /\ ~(scan.task \in S /\ "TIMEOUT" \in status[scan.task])
    BY <1>1, <2>2, WakeAllTimers
  <2>4. scan.task \notin S
    BY <1>1, <2>2, <2>3, WaiterFits DEF ListInv
  <2> QED  BY <1>1, <2>2, <2>3, <2>4 DEF ListInv, ScanFits
<1> QED  BY <1>3, <1>6, <1>7

\* Those woken wait no more; no other call changes, but that of the caller, which ends.
LEMMA WakeAllCarries ==
  ASSUME TypeInv, ListInv, CallInv, NEW c \in Context, NEW e \in Obj,
         NEW S \in SUBSET ToSet(list[e]), WakeAll(c, e, S)
  PROVE  /\ \A u \in Task : pc'[u] \in InCall <=> pc[u] \in InCall
         /\ \A u \in Task \ S : Carries(u)
         /\ CallInv'
<1>1. /\ S \in SUBSET Task /\ \A t \in S : e \in On(list, t)
      /\ c = "task" => run \in Task /\ pc[run] = "user"
      /\ Schedule(c)
      /\ \A t \in Task \ S : status'[t] = status[t]
      /\ \A t \in S : status'[t] = (status[t] \ {"PEND", "TIMEOUT"})
                        \cup (IF "SUSPEND" \in status[t] THEN {} ELSE {"READY"})
  BY WakeAllShape
<1>2. \A u \in Task : pc'[u] \in InCall <=> pc[u] \in InCall
  BY <1>1 DEF Schedule, TypeInv, TypeOK, InCall
<1>3. \A u \in Task \ S : Carries(u)
  BY <1>1, <1>2, SigCarries
<1>4. CallInv'
  BY <1>1, <1>2 DEF CallInv
<1> QED  BY <1>2, <1>3, <1>4
-----------------------------------------------------------------------------
(* The scheduler with events.                                               *)

\* What the steps are to the scheduler: nothing, a step of Task, or a write that wakes.
Satisfied(e, new_) == {t \in ToSet(list[e]) : Satisfies(e, new_, t)}

LEMMA EventCases ==
  ASSUME TypeInv, EventNext
  PROVE  \/ UNCHANGED vars
         \/ Next
         \/ \E c \in Context, e \in Obj, new_ \in Mask : WakeAll(c, e, Satisfied(e, new_))
<1>1. \A c \in Context, e \in Obj :
        /\ LOS_EventInit(c, e) \/ LOS_EventDestory(c, e) => UNCHANGED vars
        /\ \A mask \in Mask : LOS_EventClear(c, e, mask) => UNCHANGED vars
  BY DEF LOS_EventInit, LOS_EventDestory, LOS_EventClear
<1>2. ASSUME NEW c \in Context, NEW e \in Obj, NEW mask \in Mask, LOS_EventWrite(c, e, mask)
      PROVE  UNCHANGED vars \/ WakeAll(c, e, Satisfied(e, mask))
  BY <1>2 DEF LOS_EventWrite, Satisfied
<1>3. ASSUME NEW e \in Obj, NEW mask \in Mask, NEW mode \in Mode, ReadNow(e, mask, mode)
      PROVE  UNCHANGED vars
  BY <1>3 DEF ReadNow
<1>4. ASSUME NEW e \in Obj, NEW mask \in Mask, NEW mode \in Mode,
             NEW n \in Timeouts \cup {Forever}, ReadBlock(e, mask, mode, n)
      PROVE  Next
  <2>1. Pend(e, n, Len(Unlink(list, run)[e]) + 1)
    BY <1>4 DEF ReadBlock
  <2>2. Unlink(list, run)[e] \in Seq(Task)
    <3>1. list \in Lists
      BY DEF TypeInv, TypeOK, Lists
    <3>2. Unlink(list, run) \in Lists
      BY <3>1, UnlinkType
    <3> QED  BY <3>2, Heads DEF Lists
  <2>3. Len(Unlink(list, run)[e]) + 1 \in 1..Len(Unlink(list, run)[e]) + 1
    BY <2>2
  <2> QED  BY <2>1, <2>3 DEF Next, WaitStep
<1>5. ReadTimeout \/ ReadReturn \/ EventOtherStep => Next
  BY DEF ReadTimeout, ReadReturn, EventOtherStep, KernelStep, Next, WaitStep
<1>6. CASE \E c \in Context, e \in Obj :
             \/ LOS_EventInit(c, e) \/ LOS_EventDestory(c, e)
             \/ \E mask \in Mask : LOS_EventClear(c, e, mask) \/ LOS_EventWrite(c, e, mask)
  BY <1>1, <1>2, <1>6
<1>7. CASE \E e \in Obj, mask \in Mask, mode \in Mode :
             \/ ReadNow(e, mask, mode)
             \/ \E n \in Timeouts \cup {Forever} : ReadBlock(e, mask, mode, n)
  BY <1>3, <1>4, <1>7
<1> QED  BY <1>5, <1>6, <1>7 DEF EventNext

\* Every step keeps the types of the scheduler.
LEMMA EventTypeKept == TypeInv /\ [EventNext]_allVars => TypeInv'
<1> SUFFICES ASSUME TypeInv, [EventNext]_allVars PROVE TypeInv'
  OBVIOUS
<1>1. ASSUME NEW c \in Context, NEW e \in Obj, NEW new_, WakeAll(c, e, Satisfied(e, new_))
      PROVE  TypeInv'
  BY <1>1, WakeAllType DEF Satisfied
<1> QED  BY <1>1, EventCases, TypeStep DEF allVars

\* After the kernel followed a null link it executes nothing.
LEMMA HaltStops == EventNext => ~halt
<1>1. \A c, name : MayCall(c, name) => ~halt
  BY KernelLive
<1>2. \A c \in Context, e \in Obj :
        /\ LOS_EventInit(c, e) \/ LOS_EventDestory(c, e) => ~halt
        /\ \A mask \in Mask : LOS_EventClear(c, e, mask) \/ LOS_EventWrite(c, e, mask) => ~halt
  BY <1>1 DEF LOS_EventInit, LOS_EventDestory, LOS_EventClear, LOS_EventWrite
<1>3. \A e \in Obj, mask \in Mask, mode \in Mode :
        /\ ReadNow(e, mask, mode) => ~halt
        /\ \A n : ReadBlock(e, mask, mode, n) => ~halt
  BY <1>1 DEF ReadNow, ReadBlock, Pend, Block
<1>4. ReadTimeout \/ ReadReturn \/ EventOtherStep => ~halt
  BY KernelLive DEF ReadTimeout, ReadReturn, EventOtherStep, WaitReturn, TaskRuns
<1>5. CASE \E c \in Context, e \in Obj :
             \/ LOS_EventInit(c, e) \/ LOS_EventDestory(c, e)
             \/ \E mask \in Mask : LOS_EventClear(c, e, mask) \/ LOS_EventWrite(c, e, mask)
  BY <1>2, <1>5
<1>6. CASE \E e \in Obj, mask \in Mask, mode \in Mode :
             \/ ReadNow(e, mask, mode)
             \/ \E n \in Timeouts \cup {Forever} : ReadBlock(e, mask, mode, n)
  BY <1>3, <1>6
<1> QED  BY <1>4, <1>5, <1>6 DEF EventNext

\* The scheduler with events keeps lists, flags, delay list and calls in agreement.
LEMMA EventKernelKept ==
  ASSUME TypeInv, ListInv, DelayInv, CallInv, EventNext, ~halt', Slice = 0
  PROVE  ListInv' /\ DelayInv' /\ CallInv'
<1>0. TypeInv' /\ TasksFit /\ CpuFits
  BY EventTypeKept DEF ListInv
<1>1. CASE UNCHANGED vars
  BY <1>1 DEF vars, taskVars, cpuVars, ListInv, TasksFit, On, Grown, CpuFits, NewbornFits,
              ScanFits, DelayInv, Ordered, CallInv
<1>2. CASE Next
  BY <1>0, <1>2, FitsStep, CpuStep, ScanStep, DelayStep, CallInvStep DEF ListInv
<1>3. ASSUME NEW c \in Context, NEW e \in Obj, NEW new_, WakeAll(c, e, Satisfied(e, new_))
      PROVE  ListInv' /\ DelayInv' /\ CallInv'
  <2> DEFINE S == Satisfied(e, new_)
  <2>1. S \in SUBSET ToSet(list[e]) /\ WakeAll(c, e, S)
    BY <1>3 DEF Satisfied
  <2> HIDE DEF S
  <2>2. S \in SUBSET Task
    BY <2>1, WakeAllShape
  <2>3. TasksFit'
    BY <1>0, <2>1, WakeAllFits
  <2>4. CpuFits' /\ NewbornFits' /\ ScanFits'
    BY <1>0, <2>1, <2>3, WakeAllCpu
  <2>5. DelayInv'
    BY <2>1, <2>2, WakeAllTimers
  <2>6. CallInv'
    BY <2>1, WakeAllCarries
  <2> QED  BY <2>3, <2>4, <2>5, <2>6 DEF ListInv
<1> QED  BY <1>1, <1>2, <1>3, EventCases

\* So they agree throughout, until the kernel follows a null link.
EventKernel == TypeInv /\ (~halt => ListInv /\ DelayInv /\ CallInv)

LEMMA EventKernelStep ==
  ASSUME Slice = 0
  PROVE  EventKernel /\ [EventNext]_allVars => EventKernel'
<1> SUFFICES ASSUME EventKernel, [EventNext]_allVars PROVE EventKernel'
  OBVIOUS
<1>1. TypeInv'
  BY EventTypeKept DEF EventKernel
<1>2. CASE UNCHANGED allVars
  BY <1>1, <1>2 DEF EventKernel, allVars, vars, taskVars, cpuVars, ListInv, TasksFit, On,
                    Grown, CpuFits, NewbornFits, ScanFits, DelayInv, Ordered, CallInv
<1>3. CASE EventNext
  BY <1>1, <1>3, HaltStops, EventKernelKept DEF EventKernel
<1> QED  BY <1>2, <1>3

LEMMA EventKernelInit == EventInit => EventKernel
<1> SUFFICES ASSUME EventInit PROVE EventKernel
  OBVIOUS
<1>1. TypeInv /\ ListInv /\ DelayInv
  BY TypeInit, ListInit, DelayInit DEF EventInit
<1>2. CallInv
  BY DEF EventInit, Init, CallInv, InCall
<1> QED  BY <1>1, <1>2 DEF EventKernel
-----------------------------------------------------------------------------
(* What tasks wait for.                                                     *)

\* A task in LOS_EventRead asks for bits of an event that is in use, and whoever is on the
\* list of an event is in that call.
Asks ==
  /\ \A t \in Task : /\ wants[t] # NoWant <=> pc[t] \in InCall
                     /\ wants[t] # NoWant => wants[t].event \in usable
  /\ \A e \in Obj : \A t \in ToSet(list[e]) : pc[t] \in InCall

EventInv == EventKernel /\ EventTypeOK /\ Asks /\ NoMissedEvent /\ WokenFindsBits

\* More bits satisfy whom fewer satisfy; bits that nobody asked for do not matter.
LEMMA MatchFacts ==
  ASSUME NEW A, NEW B, NEW mask, NEW mode
  PROVE  /\ B \subseteq A /\ Match(B, mask, mode) => Match(A, mask, mode)
         /\ mask \cap (A \ B) = {} /\ Match(A, mask, mode) => Match(B, mask, mode)
         /\ Polled(A, mask, mode) \subseteq A
BY DEF Match, Polled

\* Steps that change nothing of the scheduler and of what tasks ask for.
EventQuiet ==
  \/ \E c \in Context, e \in Obj :
       \/ LOS_EventInit(c, e) \/ LOS_EventDestory(c, e)
       \/ \E mask \in Mask : LOS_EventClear(c, e, mask)
  \/ \E e \in Obj, mask \in Mask, mode \in Mode : ReadNow(e, mask, mode)

Blocked(e, mask, mode) == \E n \in Timeouts \cup {Forever} : ReadBlock(e, mask, mode, n)

LEMMA EventSteps ==
  EventNext <=>
    \/ EventQuiet
    \/ \E c \in Context, e \in Obj, new_ \in Mask : LOS_EventWrite(c, e, new_)
    \/ \E e \in Obj, mask \in Mask, mode \in Mode : Blocked(e, mask, mode)
    \/ ReadTimeout \/ ReadReturn \/ EventOtherStep
BY DEF EventNext, EventQuiet, Blocked

LEMMA QuietIsStill == EventQuiet => UNCHANGED vars /\ UNCHANGED wants
BY DEF EventQuiet, LOS_EventInit, LOS_EventDestory, LOS_EventClear, ReadNow

\* The caller of LOS_EventRead.
LEMMA ReaderBlocks ==
  ASSUME TypeInv, ListInv, CallInv, EventTypeOK,
         NEW e \in Obj, NEW mask \in Mask, NEW mode \in Mode, Blocked(e, mask, mode)
  PROVE  /\ run \in Task /\ pc[run] = "user" /\ pc'[run] = "wait"
         /\ status'[run] \cap Waits # {}
         /\ wants'[run] = [event |-> e, mask |-> mask, mode |-> mode]
         /\ wants'[run] # NoWant
         /\ \A u \in Task \ {run} : wants'[u] = wants[u] /\ pc'[u] = pc[u] /\ Carries(u)
         /\ e \in usable /\ ~Match(bits[e], mask, mode)
         /\ UNCHANGED <<usable, bits, robbed>>
         /\ \A o \in Obj, t \in Task : t \in ToSet(list'[o]) =>
              t \in ToSet(list[o]) \/ (t = run /\ o = e)
<1>1. PICK n \in Timeouts \cup {Forever} : ReadBlock(e, mask, mode, n)
  BY DEF Blocked
<1>2. Block(list, e, n, Len(Unlink(list, run)[e]) + 1)
  BY <1>1 DEF ReadBlock, Pend
<1>3. /\ run \in Task /\ pc[run] = "user" /\ pc'[run] = "wait"
      /\ status'[run] \cap Waits # {}
      /\ \A u \in Task \ {run} : Carries(u) /\ pc'[u] = pc[u]
  BY <1>2, PendCarries
<1>4. /\ wants' = [wants EXCEPT ![run] = [event |-> e, mask |-> mask, mode |-> mode]]
      /\ e \in usable /\ ~Match(bits[e], mask, mode) /\ UNCHANGED <<usable, bits, robbed>>
  BY <1>1 DEF ReadBlock
<1>5. /\ wants'[run] = [event |-> e, mask |-> mask, mode |-> mode]
      /\ \A u \in Task \ {run} : wants'[u] = wants[u]
  BY <1>3, <1>4 DEF EventTypeOK
<1>6. wants'[run] # NoWant
  <2>1. [event |-> e, mask |-> mask, mode |-> mode].mask = mask
    OBVIOUS
  <2>2. NoWant.mask = {}
    BY DEF NoWant
  <2>3. mask # {}
    BY DEF Mask
  <2> QED  BY <1>5, <2>1, <2>2, <2>3
<1>7. ASSUME NEW o \in Obj, NEW t \in Task, t \in ToSet(list'[o])
      PROVE  t \in ToSet(list[o]) \/ (t = run /\ o = e)
  <2> DEFINE M == Unlink(list, run)
             i == Len(M[e]) + 1
  <2>1. list \in Lists /\ o \in Head_ /\ e \in Head_
    BY Heads DEF TypeInv, TypeOK, Lists
  <2>2. M \in Lists /\ \A h \in Head_ : ToSet(M[h]) \subseteq ToSet(list[h])
    BY <2>1, UnlinkType
  <2>3. list' = [M EXCEPT ![e] = InsertAt(@, i, run)]
    BY <1>2 DEF Block
  <2> HIDE DEF M
  <2>4. M[e] \in Seq(Task) /\ i \in 1..Len(M[e]) + 1
    BY <2>1, <2>2 DEF Lists
  <2> HIDE DEF i
  <2>5. ToSet(InsertAt(M[e], i, run)) = ToSet(M[e]) \cup {run}
    BY <1>3, <2>4, InsertAtRange
  <2>6. list'[o] = IF o = e THEN InsertAt(M[e], i, run) ELSE M[o]
    BY <2>1, <2>2, <2>3 DEF Lists
  <2> QED  BY <1>7, <2>1, <2>2, <2>5, <2>6
<1> QED  BY <1>3, <1>4, <1>5, <1>6, <1>7

\* The end of a call: the task asks for nothing any more and is on no list of an event.
LEMMA ReaderReturns ==
  ASSUME TypeInv, ListInv, CallInv, EventTypeOK, ReadTimeout \/ ReadReturn
  PROVE  /\ run \in Task /\ pc[run] = "woken" /\ pc'[run] \notin InCall
         /\ wants'[run] = NoWant
         /\ \A u \in Task \ {run} : wants'[u] = wants[u] /\ pc'[u] = pc[u] /\ Carries(u)
         /\ list' = list /\ \A o \in Obj : run \notin ToSet(list[o])
<1>1. WaitReturn /\ wants' = [wants EXCEPT ![run] = NoWant]
  BY DEF ReadTimeout, ReadReturn
<1>2. TaskRuns("woken") /\ list' = list
  BY <1>1 DEF WaitReturn
<1>3. run \in Task /\ pc[run] = "woken" /\ \A o \in Obj : run \notin ToSet(list[o])
  BY <1>2, WokenCalm
<1>4. pc'[run] \notin InCall /\ \A u \in Task \ {run} : Carries(u) /\ pc'[u] = pc[u]
  BY <1>1, ReturnCarries
<1>5. wants'[run] = NoWant /\ \A u \in Task \ {run} : wants'[u] = wants[u]
  BY <1>1, <1>3 DEF EventTypeOK
<1> QED  BY <1>2, <1>3, <1>4, <1>5

\* What a step does to the call of a task, and to what it asks for.
LEMMA CallWants ==
  ASSUME TypeInv, ListInv, CallInv, EventTypeOK, Asks, EventNext, NEW t \in Task
  PROVE  \/ wants'[t] = wants[t] /\ (pc'[t] \in InCall <=> pc[t] \in InCall)
         \/ /\ t = run /\ pc'[t] \in InCall
            /\ \E e \in Obj, mask \in Mask, mode \in Mode : Blocked(e, mask, mode)
         \/ /\ wants'[t] = NoWant /\ pc'[t] \notin InCall
            /\ \A o \in Obj : t \notin ToSet(list'[o])
<1>1. CASE EventQuiet
  BY <1>1, QuietIsStill DEF vars
<1>2. ASSUME NEW c \in Context, NEW e \in Obj, NEW new_ \in Mask, LOS_EventWrite(c, e, new_)
      PROVE  wants'[t] = wants[t] /\ (pc'[t] \in InCall <=> pc[t] \in InCall)
  <2>1. wants' = wants /\ (UNCHANGED vars \/ WakeAll(c, e, Satisfied(e, new_)))
    BY <1>2 DEF LOS_EventWrite, Satisfied
  <2>2. Satisfied(e, new_) \in SUBSET ToSet(list[e])
    BY DEF Satisfied
  <2> QED  BY <2>1, <2>2, WakeAllCarries DEF vars
<1>3. ASSUME NEW e \in Obj, NEW mask \in Mask, NEW mode \in Mode, Blocked(e, mask, mode)
      PROVE  IF t = run THEN pc'[t] \in InCall ELSE wants'[t] = wants[t] /\ pc'[t] = pc[t]
  BY <1>3, ReaderBlocks DEF InCall
<1>4. CASE ReadTimeout \/ ReadReturn
  BY <1>4, ReaderReturns
<1>5. CASE EventOtherStep
  <2>1. /\ KernelStep /\ ~WaitReturn
        /\ wants' = [u \in Task |-> IF pc'[u] \in InCall THEN wants[u] ELSE NoWant]
    BY <1>5 DEF EventOtherStep, InCall
  <2>2. wants'[t] = IF pc'[t] \in InCall THEN wants[t] ELSE NoWant
    BY <2>1
  <2>3. CASE pc'[t] \in InCall <=> pc[t] \in InCall
    BY <2>2, <2>3 DEF Asks
  <2>4. ASSUME NEW c \in Context, LOS_TaskDelete(c, t)
        PROVE  pc'[t] \notin InCall /\ \A o \in Obj : t \notin ToSet(list'[o])
    <3>1. pc'[t] = "user"
      BY <2>4 DEF LOS_TaskDelete, TypeInv, TypeOK
    <3> QED  BY <2>4, <3>1, DeleteLeaves DEF InCall
  <2> QED  BY <2>1, <2>2, <2>3, <2>4, KernelCalls
<1> QED  BY <1>1, <1>2, <1>3, <1>4, <1>5, EventSteps

\* The bits of e become B, if they are not those of nothing.
LEMMA BitsType ==
  ASSUME EventTypeOK, NEW e \in Obj, NEW B \in SUBSET bits[e], BitsBecome(e, B)
  PROVE  /\ bits' \in [Obj -> SUBSET Bit] /\ robbed' \in [Task -> BOOLEAN]
         /\ \A o \in Obj : bits'[o] \subseteq bits[o] /\ (o # e => bits'[o] = bits[o])
         /\ bits'[e] = B
<1>1. /\ bits' = [bits EXCEPT ![e] = B] /\ bits \in [Obj -> SUBSET Bit]
      /\ robbed \in [Task -> BOOLEAN]
      /\ robbed' = [t \in Task |->
           /\ wants'[t] # NoWant
           /\ \/ robbed[t]
              \/ Called(t) /\ wants[t].event = e /\ wants[t].mask \cap (bits[e] \ B) # {}]
  BY DEF BitsBecome, EventTypeOK
<1>2. bits[e] \in SUBSET Bit
  BY <1>1
<1>3. bits' \in [Obj -> SUBSET Bit]
  BY <1>1, <1>2
<1>4. robbed' \in [Task -> BOOLEAN]
  BY <1>1
<1> QED  BY <1>1, <1>3, <1>4

\* A step either leaves the bits of the events alone, or takes some away, or starts an event
\* anew, or writes some.
LEMMA BitsCases ==
  ASSUME TypeInv, ListInv, CallInv, EventTypeOK, Asks, EventNext
  PROVE  /\ usable' \in SUBSET Obj /\ bits' \in [Obj -> SUBSET Bit]
         /\ robbed' \in [Task -> BOOLEAN]
         /\ \/ /\ bits' = bits
               /\ \A t \in Task : wants'[t] # NoWant => robbed'[t] = robbed[t]
               /\ \A t \in Task : wants[t].event \in usable => wants[t].event \in usable'
               /\ \A e \in usable : list[e] # <<>> => e \in usable'
            \/ /\ \E e \in Obj : \E B \in SUBSET bits[e] : BitsBecome(e, B)
               /\ usable' = usable
            \/ /\ \E e \in Obj \ usable : usable' = usable \cup {e} /\ bits' = [bits EXCEPT ![e] = {}]
               /\ robbed' = robbed
            \/ /\ \E c \in Context, e \in Obj, new_ \in Mask : LOS_EventWrite(c, e, new_)
               /\ usable' = usable /\ robbed' = robbed
<1>0. /\ usable \in SUBSET Obj /\ bits \in [Obj -> SUBSET Bit] /\ robbed \in [Task -> BOOLEAN]
      /\ Mask \subseteq SUBSET Bit
  BY DEF EventTypeOK, Mask
<1>1. ASSUME NEW c \in Context, NEW e \in Obj, LOS_EventInit(c, e)
      PROVE  /\ e \notin usable /\ usable' = usable \cup {e} /\ bits' = [bits EXCEPT ![e] = {}]
             /\ robbed' = robbed /\ bits' \in [Obj -> SUBSET Bit]
  BY <1>0, <1>1 DEF LOS_EventInit
<1>2. ASSUME NEW c \in Context, NEW e \in Obj, LOS_EventDestory(c, e)
      PROVE  /\ usable' = usable \ {e} /\ list[e] = <<>> /\ \A t \in Task : wants[t].event # e
             /\ bits' = bits /\ robbed' = robbed
  BY <1>2 DEF LOS_EventDestory
<1>3. ASSUME NEW c \in Context, NEW e \in Obj, NEW mask \in Mask, LOS_EventClear(c, e, mask)
      PROVE  usable' = usable /\ BitsBecome(e, bits[e] \ mask)
  BY <1>3 DEF LOS_EventClear
<1>4. ASSUME NEW e \in Obj, NEW mask \in Mask, NEW mode \in Mode, ReadNow(e, mask, mode)
      PROVE  /\ usable' = usable /\ BitsBecome(e, Polled(bits[e], mask, mode))
             /\ Polled(bits[e], mask, mode) \subseteq bits[e]
  BY <1>4, MatchFacts DEF ReadNow
<1>5. ASSUME NEW e \in Obj, NEW mask \in Mask, NEW mode \in Mode, Blocked(e, mask, mode)
      PROVE  UNCHANGED <<usable, bits, robbed>>
  BY <1>5 DEF Blocked, ReadBlock
<1>6. ASSUME NEW c \in Context, NEW e \in Obj, NEW new_ \in Mask, LOS_EventWrite(c, e, new_)
      PROVE  usable' = usable /\ robbed' = robbed /\ bits' \in [Obj -> SUBSET Bit]
  BY <1>0, <1>6 DEF LOS_EventWrite
<1>7. CASE ReadTimeout
  <2>1. /\ bits' = bits /\ usable' = usable
        /\ robbed' = [robbed EXCEPT ![run] = FALSE] /\ wants' = [wants EXCEPT ![run] = NoWant]
    BY <1>7 DEF ReadTimeout
  <2>2. run \in Task /\ wants'[run] = NoWant
    BY <1>7, ReaderReturns
  <2> QED  BY <1>0, <2>1, <2>2
<1>8. CASE ReadReturn
  <2> DEFINE w == wants[run]
  <2>1. run \in Task /\ pc[run] \in InCall
    BY <1>8, ReaderReturns DEF InCall
  <2>2. w # NoWant /\ w.event \in usable
    BY <2>1 DEF Asks
  <2>3. /\ usable' = usable /\ BitsBecome(w.event, Polled(bits[w.event], w.mask, w.mode))
        /\ Polled(bits[w.event], w.mask, w.mode) \subseteq bits[w.event]
    BY <1>8, MatchFacts DEF ReadReturn
  <2> QED  BY <1>0, <2>2, <2>3, BitsType
<1>9. CASE EventOtherStep
  BY <1>0, <1>9 DEF EventOtherStep
<1>10. CASE EventQuiet
  <2>1. ASSUME NEW c \in Context, NEW e \in Obj, LOS_EventInit(c, e)
        PROVE  \E o \in Obj \ usable : usable' = usable \cup {o} /\ bits' = [bits EXCEPT ![o] = {}]
    BY <1>1, <2>1
  <2>2. ASSUME NEW c \in Context, NEW e \in Obj, NEW mask \in Mask, LOS_EventClear(c, e, mask)
        PROVE  /\ \E o \in Obj : \E B \in SUBSET bits[o] : BitsBecome(o, B)
               /\ usable' = usable
               /\ bits' \in [Obj -> SUBSET Bit] /\ robbed' \in [Task -> BOOLEAN]
    BY <1>3, <2>2, BitsType
  <2>3. ASSUME NEW e \in Obj, NEW mask \in Mask, NEW mode \in Mode, ReadNow(e, mask, mode)
        PROVE  /\ \E o \in Obj : \E B \in SUBSET bits[o] : BitsBecome(o, B)
               /\ usable' = usable
               /\ bits' \in [Obj -> SUBSET Bit] /\ robbed' \in [Task -> BOOLEAN]
    BY <1>4, <2>3, BitsType
  <2> QED  BY <1>0, <1>1, <1>2, <1>10, <2>1, <2>2, <2>3 DEF EventQuiet
<1> QED
  BY <1>0, <1>5, <1>6, <1>7, <1>8, <1>9, <1>10, EventSteps

\* Nobody comes to wait for an event but the caller of LOS_EventRead; those a write wakes
\* wait no more.
LEMMA Waiters ==
  ASSUME TypeInv, ListInv, CallInv, EventTypeOK, EventNext, NEW e \in Obj,
         NEW t \in Task, t \in ToSet(list'[e])
  PROVE  /\ \/ t \in ToSet(list[e])
            \/ t = run /\ \E mask \in Mask, mode \in Mode : Blocked(e, mask, mode)
         /\ \A c \in Context, new_ \in Mask : LOS_EventWrite(c, e, new_) => ~Satisfies(e, new_, t)
<1>0. list \in Lists /\ e \in Head_
  BY Heads DEF TypeInv, TypeOK, Lists
<1>1. ASSUME NEW c \in Context, NEW o \in Obj, NEW new_ \in Mask, LOS_EventWrite(c, o, new_)
      PROVE  t \in ToSet(list[e]) /\ (o = e => ~Satisfies(e, new_, t))
  <2>1. \/ WakeAll(c, o, Satisfied(o, new_))
        \/ Satisfied(o, new_) = {} /\ UNCHANGED vars
    BY <1>1 DEF LOS_EventWrite, Satisfied
  <2>2. CASE WakeAll(c, o, Satisfied(o, new_))
    <3>1. Satisfied(o, new_) \in SUBSET ToSet(list[o])
      BY DEF Satisfied
    <3>2. \A h \in Head_ : t \in ToSet(list'[h]) <=>
              \/ t \in ToSet(list[h]) /\ ~(h = o /\ t \in Satisfied(o, new_))
              \/ h # o /\ t \in Satisfied(o, new_) /\ prio[t] = h /\ "SUSPEND" \notin status[t]
      BY <2>2, <3>1, WakeAllLists
    <3>3. prio[t] # e
      BY Heads DEF TypeInv, TypeOK
    <3>4. t \in ToSet(list[e]) /\ ~(e = o /\ t \in Satisfied(o, new_))
      BY <1>0, <3>2, <3>3
    <3> QED  BY <3>4 DEF Satisfied
  <2>3. CASE Satisfied(o, new_) = {} /\ UNCHANGED vars
    BY <2>3 DEF Satisfied, vars, taskVars
  <2> QED  BY <2>1, <2>2, <2>3
<1>2. EventQuiet => t \in ToSet(list[e])
  BY QuietIsStill DEF vars, taskVars
<1>3. ASSUME NEW o \in Obj, NEW mask \in Mask, NEW mode \in Mode, Blocked(o, mask, mode)
      PROVE  t \in ToSet(list[e]) \/ (t = run /\ o = e)
  BY <1>3, ReaderBlocks
<1>4. ReadTimeout \/ ReadReturn => t \in ToSet(list[e])
  BY ReaderReturns
<1>5. EventOtherStep => t \in ToSet(list[e])
  BY OnlyPendAdds DEF EventOtherStep
<1> QED  BY <1>1, <1>2, <1>3, <1>4, <1>5, EventSteps

\* Every step keeps the types of the events, and tasks asking for what is in use.
LEMMA AsksStep ==
  ASSUME TypeInv, ListInv, CallInv, EventTypeOK, Asks, EventNext
  PROVE  EventTypeOK' /\ Asks'
<1>1. \A t \in Task :
         \/ wants'[t] = wants[t] /\ (pc'[t] \in InCall <=> pc[t] \in InCall)
         \/ /\ t = run /\ pc'[t] \in InCall
            /\ \E e \in Obj, mask \in Mask, mode \in Mode : Blocked(e, mask, mode)
         \/ /\ wants'[t] = NoWant /\ pc'[t] \notin InCall
            /\ \A o \in Obj : t \notin ToSet(list'[o])
  BY CallWants
<1>2. ASSUME NEW e \in Obj, NEW mask \in Mask, NEW mode \in Mode, Blocked(e, mask, mode)
      PROVE  /\ run \in Task /\ wants'[run] = [event |-> e, mask |-> mask, mode |-> mode]
             /\ wants'[run] # NoWant /\ e \in usable /\ usable' = usable
             /\ wants'[run] \in [event : Obj, mask : Mask, mode : Mode]
             /\ wants'[run].event = e
  BY <1>2, ReaderBlocks
<1>3. wants' \in [Task -> [event : Obj, mask : Mask, mode : Mode] \cup {NoWant}]
  <2>1. DOMAIN wants = Task /\ \A t \in Task :
          wants[t] \in [event : Obj, mask : Mask, mode : Mode] \cup {NoWant}
    BY DEF EventTypeOK
  <2>2. wants' = [t \in Task |-> wants'[t]]
    <3>1. wants = [t \in Task |-> wants[t]]
      BY DEF EventTypeOK
    <3>2. CASE EventQuiet
      BY <3>1, <3>2, QuietIsStill
    <3>3. CASE \/ \E c \in Context, e \in Obj, new_ \in Mask : LOS_EventWrite(c, e, new_)
               \/ \E e \in Obj, mask \in Mask, mode \in Mode : Blocked(e, mask, mode)
               \/ ReadTimeout \/ ReadReturn \/ EventOtherStep
      BY <3>1, <3>3 DEF LOS_EventWrite, Blocked, ReadBlock, ReadTimeout, ReadReturn, EventOtherStep
    <3> QED  BY <3>2, <3>3, EventSteps
  <2>3. \A t \in Task : wants'[t] \in [event : Obj, mask : Mask, mode : Mode] \cup {NoWant}
    BY <1>1, <1>2, <2>1
  <2> HIDE DEF EventTypeOK
  <2> QED  BY <2>2, <2>3
<1>4. EventTypeOK'
  BY <1>3, BitsCases DEF EventTypeOK
<1>5. ASSUME NEW t \in Task
      PROVE  /\ wants'[t] # NoWant <=> pc'[t] \in InCall
             /\ wants'[t] # NoWant => wants'[t].event \in usable'
  <2>1. wants[t].event \in usable /\ wants[t] # NoWant => wants[t].event \in usable'
    BY BitsCases
  <2> QED  BY <1>1, <1>2, <2>1 DEF Asks
<1>6. ASSUME NEW e \in Obj, NEW t \in ToSet(list'[e]) PROVE pc'[t] \in InCall
  <2>1. TypeInv' /\ e \in Head_
    BY EventTypeKept, Heads
  <2>2. t \in Task
    BY <2>1, InToSet DEF TypeInv, TypeOK
  <2>3. \/ t \in ToSet(list[e])
        \/ t = run /\ \E mask \in Mask, mode \in Mode : Blocked(e, mask, mode)
    BY <1>6, <2>2, Waiters
  <2>4. pc[t] \in InCall \/ pc'[t] \in InCall
    BY <2>3, ReaderBlocks DEF Asks, InCall
  <2> QED  BY <1>1, <1>6, <2>2, <2>4
<1> QED  BY <1>4, <1>5, <1>6 DEF Asks

\* Every step keeps the bits of an event from those who wait for them: a task comes to wait
\* only when its bits are not there, a write takes off the list everybody it satisfies, and
\* whoever stays was not satisfied by the bits of before either.
LEMMA NoMissedStep ==
  ASSUME TypeInv, ListInv, CallInv, EventTypeOK, Asks, NoMissedEvent, EventNext
  PROVE  NoMissedEvent'
<1> SUFFICES ASSUME NEW e \in Obj, NEW t \in ToSet(list'[e])
             PROVE  /\ e \in usable' /\ wants'[t].event = e
                    /\ ~Match(bits'[e], wants'[t].mask, wants'[t].mode)
  BY DEF NoMissedEvent
<1>1. t \in Task
  <2>1. TypeInv' /\ e \in Head_
    BY EventTypeKept, Heads
  <2>2. list'[e] \in Seq(Task)
    BY <2>1 DEF TypeInv, TypeOK
  <2> QED  BY <2>2, InToSet
<1>2. ASSUME NEW o \in Obj, NEW mask \in Mask, NEW mode \in Mode, Blocked(o, mask, mode), t = run
      PROVE  /\ e \in usable' /\ wants'[t].event = e
             /\ ~Match(bits'[e], wants'[t].mask, wants'[t].mode)
  <2>1. /\ pc[run] = "user" /\ wants'[run] = [event |-> o, mask |-> mask, mode |-> mode]
        /\ o \in usable /\ ~Match(bits[o], mask, mode) /\ UNCHANGED <<usable, bits>>
        /\ t \in ToSet(list[e]) \/ e = o
    BY <1>1, <1>2, ReaderBlocks
  <2>2. t \notin ToSet(list[e])
    BY <1>2, <2>1 DEF Asks, InCall
  <2> QED  BY <1>2, <2>1, <2>2
<1>3. CASE ~\E o \in Obj, mask \in Mask, mode \in Mode : Blocked(o, mask, mode) /\ t = run
  <2> DEFINE w == wants[t]
  <2>1. /\ t \in ToSet(list[e])
        /\ \A c \in Context, new_ \in Mask : LOS_EventWrite(c, e, new_) => ~Satisfies(e, new_, t)
    BY <1>1, <1>3, Waiters
  <2>2. wants'[t] = w
    BY <1>1, <1>3, CallWants
  <2>3. e \in usable /\ w.event = e /\ ~Match(bits[e], w.mask, w.mode) /\ list[e] # <<>>
    <3>1. list[e] # <<>>
      BY <2>1 DEF ToSet
    <3> QED  BY <2>1, <3>1 DEF NoMissedEvent
  <2>4. /\ bits[e] \in SUBSET Bit
        /\ w \in [event : Obj, mask : Mask, mode : Mode] \cup {NoWant}
    BY <1>1 DEF EventTypeOK
  <2>5. CASE bits' = bits /\ \A o \in usable : list[o] # <<>> => o \in usable'
    BY <2>2, <2>3, <2>5
  <2>6. ASSUME NEW o \in Obj, NEW B \in SUBSET bits[o], BitsBecome(o, B), usable' = usable
        PROVE  e \in usable' /\ ~Match(bits'[e], w.mask, w.mode)
    <3>1. bits'[e] \subseteq bits[e]
      BY <2>6, BitsType
    <3> QED  BY <2>3, <2>6, <3>1, MatchFacts
  <2>7. ASSUME NEW o \in Obj \ usable, usable' = usable \cup {o}, bits' = [bits EXCEPT ![o] = {}]
        PROVE  e \in usable' /\ ~Match(bits'[e], w.mask, w.mode)
    BY <2>3, <2>7 DEF EventTypeOK
  <2>8. ASSUME NEW c \in Context, NEW o \in Obj, NEW new_ \in Mask, LOS_EventWrite(c, o, new_),
               usable' = usable
        PROVE  e \in usable' /\ ~Match(bits'[e], w.mask, w.mode)
    <3>1. bits'[e] = IF e = o THEN bits[e] \cup new_ ELSE bits[e]
      BY <2>8 DEF LOS_EventWrite, EventTypeOK
    <3>2. e = o => ~Match(bits[e] \cup new_, w.mask, w.mode)
      BY <2>1, <2>3, <2>8 DEF Satisfies, Match
    <3> QED  BY <2>3, <2>8, <3>1, <3>2
  <2> HIDE DEF w
  <2> QED  BY <2>2, <2>3, <2>5, <2>6, <2>7, <2>8, BitsCases
<1> QED  BY <1>2, <1>3

\* A step that is no wake-up leaves the call of a task as it was, or ends its wait with
\* TIMEOUT set.
LEMMA EventCarries ==
  ASSUME TypeInv, ListInv, CallInv, EventTypeOK, EventNext, ~halt', Slice = 0, NEW t \in Task
  PROVE  \/ Carries(t)
         \/ t = run /\ \E e \in Obj, mask \in Mask, mode \in Mode : Blocked(e, mask, mode)
         \/ \E c \in Context, e \in Obj, new_ \in Mask :
              LOS_EventWrite(c, e, new_) /\ t \in Satisfied(e, new_)
<1>1. UNCHANGED vars => Carries(t)
  BY DEF vars, taskVars, CallInv, Carries
<1>2. CASE EventQuiet
  BY <1>1, <1>2, QuietIsStill
<1>3. ASSUME NEW c \in Context, NEW e \in Obj, NEW new_ \in Mask, LOS_EventWrite(c, e, new_)
      PROVE  Carries(t) \/ t \in Satisfied(e, new_)
  <2>1. UNCHANGED vars \/ WakeAll(c, e, Satisfied(e, new_))
    BY <1>3 DEF LOS_EventWrite, Satisfied
  <2>2. Satisfied(e, new_) \in SUBSET ToSet(list[e])
    BY DEF Satisfied
  <2> QED  BY <1>1, <2>1, <2>2, WakeAllCarries
<1>4. ASSUME NEW e \in Obj, NEW mask \in Mask, NEW mode \in Mode, Blocked(e, mask, mode)
      PROVE  Carries(t) \/ t = run
  BY <1>4, ReaderBlocks
<1>5. CASE ReadTimeout \/ ReadReturn
  BY <1>5, ReaderReturns DEF Carries
<1>6. CASE EventOtherStep
  BY <1>6, KernelCarries DEF EventOtherStep
<1> QED  BY <1>2, <1>3, <1>4, <1>5, <1>6, EventSteps

\* Every step keeps the bits of those who were woken, or remembers that they were robbed.
LEMMA WokenStep ==
  ASSUME TypeInv, ListInv, CallInv, EventTypeOK, Asks, NoMissedEvent, WokenFindsBits,
         EventNext, ~halt, ~halt', Slice = 0
  PROVE  WokenFindsBits'
<1> SUFFICES ASSUME NEW t \in Task, Called(t)', ~robbed'[t]
             PROVE  Match(bits'[wants'[t].event], wants'[t].mask, wants'[t].mode)
  BY DEF WokenFindsBits
<1> DEFINE w == wants[t]
<1>1. /\ wants'[t] # NoWant /\ status'[t] \cap Waits = {} /\ "TIMEOUT" \notin status'[t]
      /\ pc'[t] \in InCall
  <2>1. Asks'
    BY AsksStep
  <2> QED  BY <2>1 DEF Called, Waiting, Waits, Asks
<1>2. ~\E o \in Obj, mask \in Mask, mode \in Mode : Blocked(o, mask, mode) /\ t = run
  BY <1>1, ReaderBlocks
<1>3. wants'[t] = w /\ w # NoWant /\ w.event \in usable
  <2>1. wants'[t] = w
    BY <1>1, <1>2, CallWants
  <2> QED  BY <1>1, <2>1 DEF Asks
<1>4. /\ w \in [event : Obj, mask : Mask, mode : Mode] /\ w.event \in Obj
      /\ bits \in [Obj -> SUBSET Bit] /\ robbed \in [Task -> BOOLEAN]
  BY <1>3 DEF EventTypeOK
<1>5. ASSUME NEW c \in Context, NEW e \in Obj, NEW new_ \in Mask, LOS_EventWrite(c, e, new_),
             t \in Satisfied(e, new_)
      PROVE  Match(bits'[w.event], w.mask, w.mode)
  <2>1. t \in ToSet(list[e]) /\ Satisfies(e, new_, t)
    BY <1>5 DEF Satisfied
  <2>2. w.event = e
    BY <2>1 DEF NoMissedEvent
  <2>3. bits'[e] = bits[e] \cup new_
    BY <1>4, <1>5 DEF LOS_EventWrite
  <2> QED  BY <2>1, <2>2, <2>3 DEF Satisfies, Match
<1>6. ASSUME Carries(t) PROVE Match(bits'[w.event], w.mask, w.mode)
  <2>1. Called(t)
    <3>1. status[t] \cap Waits = {} /\ "TIMEOUT" \notin status[t]
      BY <1>1, <1>6 DEF Carries
    <3> QED  BY <1>3, <3>1 DEF Called, Waiting, Waits
  <2>2. ~robbed[t] => Match(bits[w.event], w.mask, w.mode)
    BY <2>1 DEF WokenFindsBits
  <2>3. CASE bits' = bits /\ robbed'[t] = robbed[t]
    BY <2>2, <2>3
  <2>4. ASSUME NEW o \in Obj, NEW B \in SUBSET bits[o], BitsBecome(o, B)
        PROVE  Match(bits'[w.event], w.mask, w.mode)
    <3>1. ~robbed[t] /\ (w.event = o => w.mask \cap (bits[o] \ B) = {})
      BY <1>1, <2>1, <2>4 DEF BitsBecome
    <3>2. bits'[w.event] = IF w.event = o THEN B ELSE bits[w.event]
      BY <1>4, <2>4, BitsType
    <3> QED  BY <2>2, <3>1, <3>2, MatchFacts
  <2>5. ASSUME NEW o \in Obj \ usable, bits' = [bits EXCEPT ![o] = {}], robbed' = robbed
        PROVE  Match(bits'[w.event], w.mask, w.mode)
    BY <1>3, <1>4, <2>2, <2>5
  <2>6. ASSUME NEW c \in Context, NEW o \in Obj, NEW new_ \in Mask, LOS_EventWrite(c, o, new_),
               robbed' = robbed
        PROVE  Match(bits'[w.event], w.mask, w.mode)
    <3>1. bits[w.event] \subseteq bits'[w.event]
      BY <1>4, <2>6 DEF LOS_EventWrite
    <3> QED  BY <2>2, <2>6, <3>1, MatchFacts
  <2> HIDE DEF w
  <2> QED  BY <1>1, <2>3, <2>4, <2>5, <2>6, BitsCases
<1>7. Match(bits'[w.event], w.mask, w.mode)
  <2> HIDE DEF w
  <2> QED  BY <1>2, <1>5, <1>6, EventCarries
<1> QED  BY <1>3, <1>7

LEMMA EventInvInit == EventInit => EventInv
<1> SUFFICES ASSUME EventInit PROVE EventInv
  OBVIOUS
<1>1. EventKernel
  BY EventKernelInit
<1>2. EventTypeOK
  BY DEF EventInit, EventTypeOK
<1>3. /\ \A t \in Task : wants[t] = NoWant /\ pc[t] \notin InCall
      /\ \A t \in Task : ~Called(t)
  BY DEF EventInit, Init, InCall, Called
<1>4. \A e \in Obj : ToSet(list[e]) = {}
  <2>0. 0 \in Prio
    BY TaskAssumption DEF Prio
  <2>1. ASSUME NEW e \in Obj PROVE list[e] = <<>>
    <3>1. e \in Head_ /\ e # Free /\ e # Lowest /\ e # 0
      BY <2>0, Heads
    <3>2. list = [h \in Head_ |-> IF h = Free THEN TcbOrder
                                  ELSE IF h = Lowest THEN <<Idle>>
                                  ELSE IF h = 0 /\ SwtmrTask # Null THEN <<SwtmrTask>>
                                  ELSE <<>>]
      BY DEF EventInit, Init
    <3> QED  BY <3>1, <3>2
  <2> QED  BY <2>1 DEF ToSet
<1> QED  BY <1>1, <1>2, <1>3, <1>4 DEF EventInv, Asks, NoMissedEvent, WokenFindsBits

LEMMA EventInvStep ==
  ASSUME Slice = 0
  PROVE  EventInv /\ [EventNext]_allVars => EventInv'
<1> SUFFICES ASSUME EventInv, [EventNext]_allVars PROVE EventInv'
  OBVIOUS
<1>1. EventKernel'
  BY EventKernelStep DEF EventInv
<1>2. CASE UNCHANGED allVars
  BY <1>1, <1>2 DEF EventInv, EventTypeOK, Asks, NoMissedEvent, WokenFindsBits, Called, Waiting,
                    allVars, vars, taskVars, eventVars
<1>3. CASE EventNext
  <2>1. ~halt
    BY <1>3, HaltStops
  <2>2. TypeInv /\ ListInv /\ CallInv /\ EventTypeOK /\ Asks /\ NoMissedEvent /\ WokenFindsBits
    BY <2>1 DEF EventInv, EventKernel
  <2>3. EventTypeOK' /\ Asks' /\ NoMissedEvent'
    BY <1>3, <2>2, AsksStep, NoMissedStep
  <2>4. WokenFindsBits'
    <3>1. CASE halt'
      BY <3>1 DEF WokenFindsBits
    <3>2. CASE ~halt'
      BY <1>3, <2>1, <2>2, <3>2, WokenStep
    <3> QED  BY <3>1, <3>2
  <2> QED  BY <1>1, <2>3, <2>4 DEF EventInv
<1> QED  BY <1>2, <1>3

\* The inductive invariant of the events.
THEOREM EventInvariant ==
  ASSUME Slice = 0
  PROVE  EventSpec => []EventInv
<1>1. EventInit => EventInv
  BY EventInvInit
<1>2. EventInv /\ [EventNext]_allVars => EventInv'
  BY EventInvStep
<1> QED  BY <1>1, <1>2, PTL DEF EventSpec

\* In a kernel without time slices no task waits for bits that are there: LOS_EventWrite
\* need not look at the bits of before when it compares those who wait for one bit with
\* what it writes, and LOS_EventDestory forgets no waiter.
THEOREM NoEventMissed ==
  ASSUME Slice = 0
  PROVE  EventSpec => []NoMissedEvent
<1>1. EventInv => NoMissedEvent
  BY DEF EventInv
<1> QED  BY <1>1, EventInvariant, PTL

\* In such a kernel a task that LOS_EventWrite woke finds what it waited for when it polls
\* the bits again, unless another task or a handler cleared one of them in between.
THEOREM WokenFind ==
  ASSUME Slice = 0
  PROVE  EventSpec => []WokenFindsBits
<1>1. EventInv => WokenFindsBits
  BY DEF EventInv
<1> QED  BY <1>1, EventInvariant, PTL

\* A write that wakes many tasks at once keeps the lists and the flags in agreement, as
\* the scheduler does: a task is on the list of an event exactly when its flags say that
\* it waits, and on the delay list exactly when the tick has to wake it.
THEOREM EventWaitsHold ==
  ASSUME Slice = 0
  PROVE  EventSpec => []WaitConsistent
<1>1. EventInv => WaitConsistent
  BY ListsAgree DEF EventInv, EventKernel, WaitConsistent
<1> QED  BY <1>1, EventInvariant, PTL
=============================================================================
