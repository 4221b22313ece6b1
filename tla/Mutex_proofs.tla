---------------------------- MODULE Mutex_proofs ----------------------------
(***************************************************************************)
(* Proofs about Mutex, for any number of tasks, priorities and mutexes.    *)
(*                                                                         *)
(* A mutex changes the priority of a task in the middle of LOS_MuxPend and *)
(* LOS_MuxPost, so these calls are not steps of Task: they block and wake  *)
(* from lists that Starts describes.  The lemmas of Task_proofs are stated *)
(* for such lists, and what they prove of the scheduler holds with mutexes *)
(* too.                                                                    *)
(***************************************************************************)
EXTENDS Mutex, Task_proofs

\* The data of the mutexes, and that no mutex is deleted while it is owned or owned by
\* Idle.
MuxTypeOK ==
  /\ unusedMux \in Seq(Obj) /\ muxCount \in [Obj -> 0..MaxNest]
  /\ owner \in [Obj -> Task \cup {Null}] /\ saved \in [Obj -> Prio]
  /\ \A m \in Obj : muxCount[m] > 0 => Used(m) /\ owner[m] \in Task \ {Idle}

MuxInv ==
  /\ TypeInv /\ MuxTypeOK /\ WaitersHaveOwner
  /\ \A m \in Obj : IsInjective(list[m])

\* The lists a call on a mutex blocks or wakes from: those of before, or with the priority
\* of one task changed.
Starts(L) ==
  \/ L = list /\ prio' = prio
  \/ \E t \in Task \ {Idle}, p \in Prio : L = PriModified(t, p) /\ prio' = [prio EXCEPT ![t] = p]

LEMMA StartsGood ==
  ASSUME TypeInv, NEW L, Starts(L)
  PROVE  /\ GoodLists(L) /\ Fewer(L) /\ prio' \in [Task -> Prio] /\ prio'[Idle] = Lowest
         /\ TasksFit => Refits(L, prio')
<1>0. /\ GoodLists(list) /\ Fewer(list) /\ prio \in [Task -> Prio] /\ prio[Idle] = Lowest
      /\ Prio \subseteq Head_ \ Obj
  BY FewerNow, Heads DEF TypeInv, TypeOK, IdleInv, Lists
<1>1. CASE L = list /\ prio' = prio
  BY <1>0, <1>1, RefitNow
<1>2. ASSUME NEW t \in Task \ {Idle}, NEW p \in Prio,
             L = PriModified(t, p), prio' = [prio EXCEPT ![t] = p]
      PROVE  /\ GoodLists(L) /\ Fewer(L) /\ prio' \in [Task -> Prio] /\ prio'[Idle] = Lowest
             /\ TasksFit => Refits(L, prio')
  <2>1. prio' \in [Task -> Prio] /\ prio'[Idle] = Lowest
    BY <1>0, <1>2
  <2>2. GoodLists(Unlink(list, t)) /\ Fewer(Unlink(list, t)) /\ p \in Head_ \ Obj
    BY <1>0, GoodUnlink, FewerKept
  <2>3. /\ GoodLists(AddTail(Unlink(list, t), p, t))
        /\ Fewer(AddTail(Unlink(list, t), p, t))
    BY <2>2, GoodAddTail, FewerKept
  <2>4. GoodLists(L) /\ Fewer(L)
    BY <1>0, <1>2, <2>3 DEF PriModified
  <2>5. TasksFit => Refits(L, prio')
    BY <1>2, RefitMove DEF PriModified
  <2> QED  BY <2>1, <2>4, <2>5
<1> QED  BY <1>1, <1>2 DEF Starts

\* Who calls is a task, but not Idle.
LEMMA MuxCaller ==
  ASSUME TypeInv, NEW name, MayCall("task", name)
  PROVE  run \in Task \ {Idle} /\ pc[run] = "user" /\ ~pendsv /\ started /\ ~halt
         /\ scan.at = "idle"
BY DEF MayCall, TaskRuns

\* What the three calls are to the scheduler that may change a priority.
LEMMA MuxStarts ==
  ASSUME TypeInv, MuxTypeOK, NEW m \in Obj
  PROVE  /\ \A n : MuxPendBlock(m, n) =>
              \E L : Starts(L) /\ Block(L, m, n, Len(Unlink(L, run)[m]) + 1)
         /\ MuxPostHand(m) => \E L : Starts(L) /\ Release(L, "task", m)
         /\ MuxPostFree(m) =>
              /\ Starts(list') /\ MayCall("task", "Wake")
              /\ UNCHANGED <<status, timerQ, left, cpuVars, pc, newborn, slice, scan, halt>>
<1>0. /\ prio \in [Task -> Prio] /\ saved \in [Obj -> Prio]
      /\ muxCount[m] > 0 => owner[m] \in Task \ {Idle}
  BY DEF TypeInv, TypeOK, MuxTypeOK
<1>1. ASSUME NEW n, MuxPendBlock(m, n)
      PROVE  \E L : Starts(L) /\ Block(L, m, n, Len(Unlink(L, run)[m]) + 1)
  <2> DEFINE o == owner[m]
             L == IF prio[o] > prio[run] THEN PriModified(o, prio[run]) ELSE list
  <2>1. /\ Block(L, m, n, Len(Unlink(L, run)[m]) + 1) /\ muxCount[m] > 0
        /\ prio' = IF prio[o] > prio[run] THEN [prio EXCEPT ![o] = prio[run]] ELSE prio
    BY <1>1 DEF MuxPendBlock
  <2>2. run \in Task
    BY <2>1, MuxCaller DEF Block
  <2>3. o \in Task \ {Idle} /\ prio[run] \in Prio
    BY <1>0, <2>1, <2>2
  <2>4. Starts(L)
    BY <2>1, <2>3 DEF Starts
  <2> QED  BY <2>1, <2>4
<1>2. ASSUME MayPost(m), prio' = [prio EXCEPT ![run] = saved[m]] PROVE Starts(RestoredList(m))
  <2>1. run \in Task \ {Idle} /\ saved[m] \in Prio
    BY <1>0, <1>2, MuxCaller DEF MayPost
  <2>2. CASE Restores(m)
    BY <1>2, <2>1, <2>2 DEF Starts, RestoredList
  <2>3. CASE ~Restores(m)
    <3>1. prio' = prio
      BY <1>0, <1>2, <2>1, <2>3 DEF Restores
    <3> QED  BY <2>3, <3>1 DEF Starts, RestoredList
  <2> QED  BY <2>2, <2>3
<1>3. MuxPostHand(m) => \E L : Starts(L) /\ Release(L, "task", m)
  BY <1>2 DEF MuxPostHand
<1>4. MuxPostFree(m) =>
              /\ Starts(list') /\ MayCall("task", "Wake")
              /\ UNCHANGED <<status, timerQ, left, cpuVars, pc, newborn, slice, scan, halt>>
  BY <1>2 DEF MuxPostFree, MayPost
<1> QED  BY <1>1, <1>3, <1>4

\* The last entry is where LOS_ListTailInsert puts one.
LEMMA LastPlace ==
  ASSUME NEW L \in Lists, NEW m \in Obj
  PROVE  /\ Len(Unlink(L, run)[m]) + 1 \in 1..Len(Unlink(L, run)[m]) + 1
         /\ Unlink(L, run)[m] \in Seq(Task)
<1>1. Unlink(L, run)[m] \in Seq(Task)
  BY UnlinkType, Heads DEF Lists
<1> QED  BY <1>1

\* Steps that leave the scheduler alone.
MuxQuiet ==
  \/ \E c \in Context : LOS_MuxCreate(c) \/ \E m \in Obj : LOS_MuxDelete(c, m)
  \/ \E m \in Obj : MuxPendFree(m) \/ MuxPendAgain(m) \/ MuxPostAgain(m)

LEMMA QuietIsStill == MuxQuiet => UNCHANGED vars
BY DEF MuxQuiet, LOS_MuxCreate, LOS_MuxDelete, MuxPendFree, MuxPendAgain, MuxPostAgain

LEMMA MuxCases ==
  MuxNext <=>
    \/ MuxQuiet \/ MuxPendReturn \/ MuxOtherStep
    \/ \E m \in Obj : \/ \E n \in Timeouts \cup {Forever} : MuxPendBlock(m, n)
                      \/ MuxPostFree(m) \/ MuxPostHand(m)
BY DEF MuxNext, MuxQuiet

\* Every step keeps the types of the scheduler.
LEMMA MuxTypeKept == TypeInv /\ MuxTypeOK /\ [MuxNext]_allVars => TypeInv'
<1> SUFFICES ASSUME TypeInv, MuxTypeOK, [MuxNext]_allVars PROVE TypeInv'
  OBVIOUS
<1>1. CASE UNCHANGED allVars \/ MuxQuiet
  BY <1>1, QuietIsStill, TypeStep DEF allVars
<1>2. CASE MuxPendReturn \/ MuxOtherStep
  BY <1>2, KernelLive, TypeStep DEF MuxPendReturn, MuxOtherStep, KernelStep
<1>3. ASSUME NEW m \in Obj, NEW n \in Timeouts \cup {Forever}, MuxPendBlock(m, n) PROVE TypeInv'
  <2>1. PICK L : Starts(L) /\ Block(L, m, n, Len(Unlink(L, run)[m]) + 1)
    BY <1>3, MuxStarts
  <2>2. GoodLists(L) /\ prio' \in [Task -> Prio] /\ prio'[Idle] = Lowest
    BY <2>1, StartsGood
  <2>3. Len(Unlink(L, run)[m]) + 1 \in 1..Len(Unlink(L, run)[m]) + 1
    BY <2>2, LastPlace DEF GoodLists
  <2> QED  BY <2>1, <2>2, <2>3, BlockType
<1>4. ASSUME NEW m \in Obj, MuxPostHand(m) PROVE TypeInv'
  <2>1. PICK L : Starts(L) /\ Release(L, "task", m)
    BY <1>4, MuxStarts
  <2>2. GoodLists(L) /\ prio' \in [Task -> Prio] /\ prio'[Idle] = Lowest
    BY <2>1, StartsGood
  <2>3. run \in Task \ {Idle} /\ pc[run] = "user" /\ ~pendsv /\ started
    BY <2>1, MuxCaller DEF Release
  <2> QED  BY <2>1, <2>2, <2>3, HandType DEF Release, Context
<1>5. ASSUME NEW m \in Obj, MuxPostFree(m) PROVE TypeInv'
  <2>1. /\ Starts(list')
        /\ UNCHANGED <<status, timerQ, left, cpuVars, pc, newborn, slice, scan, halt>>
    BY <1>5, MuxStarts
  <2>2. GoodLists(list') /\ prio' \in [Task -> Prio] /\ prio'[Idle] = Lowest
    BY <2>1, StartsGood
  <2>3. TypeOK'
    BY <2>1, <2>2 DEF TypeInv, TypeOK, GoodLists, Lists, cpuVars
  <2>4. IdleInv' /\ LocalInv' /\ LockInv'
    BY <2>1, <2>2 DEF TypeInv, IdleInv, LocalInv, LockInv, cpuVars
  <2> QED  BY <2>3, <2>4 DEF TypeInv
<1> QED  BY <1>1, <1>2, <1>3, <1>4, <1>5, MuxCases
-----------------------------------------------------------------------------
\* Every step keeps the types of the mutexes: no owned mutex is deleted, and neither Idle
\* nor a task that does not exist ever owns one.
LEMMA MuxDataKept == TypeInv /\ MuxTypeOK /\ [MuxNext]_allVars => MuxTypeOK'
<1> SUFFICES ASSUME TypeInv, MuxTypeOK, [MuxNext]_allVars PROVE MuxTypeOK'
  OBVIOUS
<1>0. /\ unusedMux \in Seq(Obj) /\ muxCount \in [Obj -> 0..MaxNest] /\ MaxNest \in Nat \ {0}
      /\ owner \in [Obj -> Task \cup {Null}] /\ saved \in [Obj -> Prio] /\ 0 \in Prio
      /\ \A m \in Obj : muxCount[m] > 0 => Used(m) /\ owner[m] \in Task \ {Idle}
      /\ prio \in [Task -> Prio] /\ GoodLists(list)
  <2>1. MaxNest \in Nat \ {0} /\ 0 \in Prio
    BY MuxAssumption, TaskAssumption DEF Prio
  <2>2. prio \in [Task -> Prio] /\ GoodLists(list)
    BY DEF TypeInv, TypeOK, IdleInv
  <2> QED  BY <2>1, <2>2 DEF MuxTypeOK
<1>1. CASE UNCHANGED <<unusedMux, muxCount, owner, saved>>
  BY <1>1 DEF MuxTypeOK, Used
<1>2. ASSUME NEW c \in Context, LOS_MuxCreate(c) PROVE MuxTypeOK'
  <2> DEFINE h == Head(unusedMux)
  <2>1. /\ unusedMux # <<>> /\ unusedMux' = Tail(unusedMux)
        /\ muxCount' = [muxCount EXCEPT ![h] = 0] /\ saved' = [saved EXCEPT ![h] = 0]
        /\ owner' = [owner EXCEPT ![h] = Null]
    BY <1>2 DEF LOS_MuxCreate
  <2>2. /\ h \in Obj /\ unusedMux' \in Seq(Obj)
        /\ ToSet(unusedMux) = ToSet(unusedMux') \cup {h}
    BY <1>0, <2>1, HeadTailRange
  <2>3. muxCount' \in [Obj -> 0..MaxNest] /\ saved' \in [Obj -> Prio]
        /\ owner' \in [Obj -> Task \cup {Null}]
    BY <1>0, <2>1, <2>2
  <2>4. ASSUME NEW m \in Obj, muxCount'[m] > 0 PROVE Used(m)' /\ owner'[m] \in Task \ {Idle}
    <3>1. m # h /\ muxCount[m] > 0
      BY <1>0, <2>1, <2>4
    <3> QED  BY <1>0, <2>1, <2>2, <3>1 DEF Used
  <2> QED  BY <2>2, <2>3, <2>4 DEF MuxTypeOK
<1>3. ASSUME NEW c \in Context, NEW o \in Obj, LOS_MuxDelete(c, o) PROVE MuxTypeOK'
  <2> DEFINE w == <<o>>
  <2>1. w \in Seq(Obj) /\ ToSet(w) = {o}
    BY SingletonRange
  <2>2. unusedMux' = w \o unusedMux /\ UNCHANGED <<muxCount, owner, saved>> /\ muxCount[o] = 0
    BY <1>3 DEF LOS_MuxDelete
  <2> HIDE DEF w
  <2>3. unusedMux' \in Seq(Obj) /\ ToSet(unusedMux') = {o} \cup ToSet(unusedMux)
    BY <1>0, <2>1, <2>2, ConcatRange
  <2> QED  BY <1>0, <2>2, <2>3 DEF MuxTypeOK, Used
<1>4. ASSUME NEW o \in Obj, MuxPendFree(o) PROVE MuxTypeOK'
  <2>1. run \in Task \ {Idle}
    BY <1>4, MuxCaller DEF MuxPendFree
  <2> QED  BY <1>0, <1>4, <2>1 DEF MuxPendFree, MuxTypeOK, Used
<1>5. ASSUME NEW o \in Obj, MuxPendAgain(o) \/ MuxPostAgain(o) \/ MuxPostFree(o)
      PROVE  MuxTypeOK'
  <2>1. /\ UNCHANGED <<unusedMux, owner, saved>> /\ muxCount[o] > 0
        /\ \E k \in 0..MaxNest : muxCount' = [muxCount EXCEPT ![o] = k]
    BY <1>0, <1>5 DEF MuxPendAgain, MuxPostAgain, MuxPostFree, Owns
  <2> QED  BY <1>0, <2>1 DEF MuxTypeOK, Used
<1>6. ASSUME NEW o \in Obj, MuxPostHand(o) PROVE MuxTypeOK'
  <2> DEFINE t == Head(list[o])
  <2>1. /\ owner' = [owner EXCEPT ![o] = t] /\ saved' = [saved EXCEPT ![o] = prio[t]]
        /\ UNCHANGED <<unusedMux, muxCount>> /\ list[o] # <<>>
    BY <1>6 DEF MuxPostHand, Release, Hand
  <2>2. t \in Task \ {Idle}
    BY <1>0, <2>1, GoodHead, Heads
  <2> HIDE DEF t
  <2> QED  BY <1>0, <2>1, <2>2 DEF MuxTypeOK, Used
<1> QED
  BY <1>1, <1>2, <1>3, <1>4, <1>5, <1>6
     DEF MuxNext, MuxPendBlock, MuxPendReturn, MuxOtherStep, muxVars, allVars

\* Who comes to wait for a mutex: the caller of LOS_MuxPend, and nobody else.  Nobody waits
\* twice for a mutex, and the task that gets it waits no more.
LEMMA MuxLists ==
  ASSUME MuxInv, MuxNext, NEW m \in Obj
  PROVE  /\ IsInjective(list'[m])
         /\ \/ ToSet(list'[m]) \subseteq ToSet(list[m])
            \/ /\ \E n \in Timeouts \cup {Forever} : MuxPendBlock(m, n)
               /\ ToSet(list'[m]) \subseteq ToSet(list[m]) \cup {run}
         /\ MuxPostHand(m) => Head(list[m]) \notin ToSet(list'[m])
<1>0. /\ TypeInv /\ MuxTypeOK /\ GoodLists(list) /\ list \in Lists /\ IsInjective(list[m])
      /\ m \in Head_ /\ Prio \subseteq Head_ \ Obj /\ prio \in [Task -> Prio]
  BY Heads DEF MuxInv, TypeInv, TypeOK, IdleInv, GoodLists
<1>1. ASSUME Fewer(list') PROVE IsInjective(list'[m]) /\ ToSet(list'[m]) \subseteq ToSet(list[m])
  BY <1>0, <1>1 DEF Fewer
<1>2. ASSUME Fewer(list') \/ UNCHANGED list
      PROVE  IsInjective(list'[m]) /\ ToSet(list'[m]) \subseteq ToSet(list[m])
  BY <1>0, <1>1, <1>2
<1>3. ASSUME MuxQuiet
      PROVE  IsInjective(list'[m]) /\ ToSet(list'[m]) \subseteq ToSet(list[m])
  BY <1>2, <1>3, QuietIsStill DEF vars, taskVars
<1>4. ASSUME MuxPendReturn
      PROVE  IsInjective(list'[m]) /\ ToSet(list'[m]) \subseteq ToSet(list[m])
  BY <1>2, <1>4 DEF MuxPendReturn, WaitReturn
<1>5. ASSUME MuxOtherStep
      PROVE  IsInjective(list'[m]) /\ ToSet(list'[m]) \subseteq ToSet(list[m])
  BY <1>0, <1>5, OnlyPendAdds DEF MuxOtherStep
<1>6. ASSUME NEW o \in Obj, MuxPostFree(o)
      PROVE  IsInjective(list'[m]) /\ ToSet(list'[m]) \subseteq ToSet(list[m])
  BY <1>0, <1>2, <1>6, MuxStarts, StartsGood
<1>7. ASSUME NEW o \in Obj, MuxPostHand(o)
      PROVE  /\ IsInjective(list'[m]) /\ ToSet(list'[m]) \subseteq ToSet(list[m])
             /\ o = m => Head(list[m]) \notin ToSet(list'[m])
  <2>1. PICK L : Starts(L) /\ Release(L, "task", o)
    BY <1>0, <1>7, MuxStarts
  <2>2. Fewer(L)
    BY <1>0, <2>1, StartsGood
  <2> DEFINE t == Head(list[o])
  <2>3. t \in Task
    BY <1>0, <2>1, GoodHead, Heads DEF Release, Hand
  <2>4. /\ list' = Unlink(L, t) \/ list' = AddTail(Unlink(L, t), prio[t], t)
        /\ prio[t] \in Head_ \ Obj
    BY <1>0, <2>1, <2>3 DEF Release, Hand
  <2> HIDE DEF t
  <2>5. Fewer(Unlink(L, t)) /\ Fewer(list')
    BY <2>2, <2>3, <2>4, FewerKept
  <2>6. list'[m] = Unlink(L, t)[m] /\ Unlink(L, t)[m] = RemoveFirst(L[m], t)
    BY <1>0, <2>4, <2>5 DEF Fewer, Lists, AddTail, Unlink
  <2>7. ASSUME o = m PROVE t \notin ToSet(list'[m])
    <3>1. L[m] \in Seq(Task) /\ IsInjective(L[m])
      BY <1>0, <2>2 DEF Fewer, Lists
    <3> QED  BY <2>6, <3>1, RemoveFirstRange
  <2> QED  BY <1>1, <2>5, <2>7 DEF t
<1>8. ASSUME NEW o \in Obj, NEW n \in Timeouts \cup {Forever}, MuxPendBlock(o, n)
      PROVE  /\ IsInjective(list'[m])
             /\ \/ ToSet(list'[m]) \subseteq ToSet(list[m])
                \/ o = m /\ ToSet(list'[m]) \subseteq ToSet(list[m]) \cup {run}
  <2>1. PICK L : Starts(L) /\ Block(L, o, n, Len(Unlink(L, run)[o]) + 1)
    BY <1>0, <1>8, MuxStarts
  <2>2. Fewer(L) /\ run \in Task
    BY <1>0, <2>1, StartsGood, MuxCaller DEF Block
  <2> DEFINE M == Unlink(L, run)
  <2>3. Fewer(M) /\ list' = [M EXCEPT ![o] = InsertAt(@, Len(M[o]) + 1, run)]
    BY <2>1, <2>2, FewerKept DEF Block
  <2>4. M[m] = RemoveFirst(L[m], run) /\ L[m] \in Seq(Task) /\ IsInjective(L[m])
    BY <1>0, <2>2 DEF Fewer, Lists, Unlink
  <2>5. run \notin ToSet(M[m]) /\ M[m] \in Seq(Task) /\ IsInjective(M[m])
        /\ ToSet(M[m]) \subseteq ToSet(list[m])
    <3>1. IsInjective(M[m]) /\ run \notin ToSet(M[m]) /\ M[m] \in Seq(Task)
      BY <2>4, RemoveFirstRange
    <3> HIDE DEF M
    <3> QED  BY <2>3, <3>1 DEF Fewer
  <2> HIDE DEF M
  <2>6. CASE o # m
    <3>1. list'[m] = M[m]
      BY <2>3, <2>6
    <3> QED  BY <2>5, <3>1
  <2>7. CASE o = m
    <3>1. list'[m] = InsertAt(M[m], Len(M[m]) + 1, run)
      BY <1>0, <2>3, <2>7 DEF Fewer, Lists
    <3>2. Len(M[m]) + 1 \in 1..Len(M[m]) + 1
      BY <2>5
    <3> QED  BY <2>2, <2>5, <2>7, <3>1, <3>2, InsertAtRange
  <2> QED  BY <2>6, <2>7
<1> QED  BY <1>3, <1>4, <1>5, <1>6, <1>7, <1>8, MuxCases

\* What becomes of who owns a mutex, as long as tasks wait for it: its owner stays, or the
\* one that waits longest is the next.
LEMMA MuxOwners ==
  ASSUME MuxInv, MuxNext, NEW m \in Obj, list[m] # <<>>
  PROVE  /\ Used(m)' /\ muxCount'[m] > 0
         /\ owner'[m] = owner[m] \/ (MuxPostHand(m) /\ owner'[m] = Head(list[m]))
<1>0. /\ unusedMux \in Seq(Obj) /\ muxCount \in [Obj -> 0..MaxNest] /\ MaxNest \in Nat
      /\ owner \in [Obj -> Task \cup {Null}]
      /\ Used(m) /\ muxCount[m] > 0
  BY MuxAssumption DEF MuxInv, MuxTypeOK, WaitersHaveOwner
<1>1. CASE UNCHANGED <<unusedMux, muxCount, owner>>
  BY <1>0, <1>1 DEF Used
<1>2. ASSUME NEW c \in Context, LOS_MuxCreate(c)
      PROVE  Used(m)' /\ muxCount'[m] > 0 /\ owner'[m] = owner[m]
  <2>1. Head(unusedMux) # m /\ m \notin ToSet(Tail(unusedMux))
    BY <1>0, <1>2, HeadTailRange DEF LOS_MuxCreate, Used
  <2> QED  BY <1>0, <1>2, <2>1 DEF LOS_MuxCreate, Used
<1>3. ASSUME NEW c \in Context, NEW o \in Obj, LOS_MuxDelete(c, o)
      PROVE  Used(m)' /\ muxCount'[m] > 0 /\ owner'[m] = owner[m]
  <2> DEFINE w == <<o>>
  <2>1. w \in Seq(Obj) /\ ToSet(w) = {o}
    BY SingletonRange
  <2>2. unusedMux' = w \o unusedMux /\ UNCHANGED <<muxCount, owner>> /\ m # o
    BY <1>3 DEF LOS_MuxDelete
  <2> HIDE DEF w
  <2>3. ToSet(w \o unusedMux) = {o} \cup ToSet(unusedMux)
    BY <1>0, <2>1, ConcatRange
  <2> QED  BY <1>0, <2>2, <2>3 DEF Used
<1>4. ASSUME NEW o \in Obj,
             \/ MuxPendFree(o) \/ MuxPendAgain(o) \/ MuxPostAgain(o) \/ MuxPostFree(o)
      PROVE  Used(m)' /\ muxCount'[m] > 0 /\ owner'[m] = owner[m]
  <2>1. CASE m = o
    <3>1. muxCount[m] > 0 /\ muxCount[m] \in Nat
      BY <1>0
    <3>2. /\ UNCHANGED <<unusedMux, owner>>
          /\ \/ muxCount' = [muxCount EXCEPT ![o] = @ + 1]
             \/ muxCount' = [muxCount EXCEPT ![o] = @ - 1] /\ muxCount[m] > 1
      BY <1>4, <2>1, <3>1 DEF MuxPendFree, MuxPendAgain, MuxPostAgain, MuxPostFree
    <3> QED  BY <1>0, <2>1, <3>1, <3>2 DEF Used
  <2>2. CASE m # o
    BY <1>0, <1>4, <2>2 DEF MuxPendFree, MuxPendAgain, MuxPostAgain, MuxPostFree, Used
  <2> QED  BY <2>1, <2>2
<1>5. ASSUME NEW o \in Obj, MuxPostHand(o)
      PROVE  /\ Used(m)' /\ muxCount'[m] > 0
             /\ owner'[m] = owner[m] \/ (MuxPostHand(m) /\ owner'[m] = Head(list[m]))
  <2>1. /\ owner' = [owner EXCEPT ![o] = Head(list[o])] /\ UNCHANGED <<unusedMux, muxCount>>
    BY <1>5 DEF MuxPostHand
  <2> QED  BY <1>0, <1>5, <2>1 DEF Used
<1> QED
  BY <1>1, <1>2, <1>3, <1>4, <1>5
     DEF MuxNext, MuxPendBlock, MuxPendReturn, MuxOtherStep, muxVars, allVars

\* Every step keeps the waiters of each mutex behind another task that owns it.
LEMMA WaitersStep == MuxInv /\ [MuxNext]_allVars => MuxInv'
<1> SUFFICES ASSUME MuxInv, [MuxNext]_allVars PROVE MuxInv'
  OBVIOUS
<1>1. TypeInv' /\ MuxTypeOK'
  BY MuxTypeKept, MuxDataKept DEF MuxInv
<1>2. CASE UNCHANGED allVars
  BY <1>1, <1>2 DEF MuxInv, WaitersHaveOwner, Used, allVars, muxVars, vars, taskVars
<1>3. ASSUME MuxNext, NEW m \in Obj
      PROVE  /\ IsInjective(list'[m])
             /\ list'[m] # <<>> => /\ Used(m)' /\ muxCount'[m] > 0
                                   /\ owner'[m] \in Task \ ToSet(list'[m])
  <2>0. /\ list[m] \in Seq(Task) /\ list'[m] \in Seq(Task)
        /\ owner[m] \in Task \/ list[m] = <<>>
        /\ list[m] # <<>> => owner[m] \notin ToSet(list[m])
    BY <1>1, Heads DEF MuxInv, TypeInv, TypeOK, WaitersHaveOwner
  <2>1. IsInjective(list'[m])
    BY <1>3, MuxLists
  <2>2. CASE list'[m] = <<>>
    BY <2>1, <2>2
  <2>3. CASE \E n \in Timeouts \cup {Forever} : MuxPendBlock(m, n)
    <3>1. /\ UNCHANGED <<unusedMux, muxCount, owner>> /\ Used(m) /\ muxCount[m] > 0
          /\ owner[m] # run
      BY <2>3 DEF MuxPendBlock
    <3>2. owner[m] \in Task
      BY <3>1 DEF MuxInv, MuxTypeOK
    <3>3. ToSet(list'[m]) \subseteq ToSet(list[m]) \cup {run}
      BY <1>3, MuxLists
    <3>4. owner[m] \notin ToSet(list[m])
      BY <2>0, InToSet
    <3> QED  BY <2>1, <3>1, <3>2, <3>3, <3>4 DEF Used
  <2>4. CASE list'[m] # <<>> /\ ~\E n \in Timeouts \cup {Forever} : MuxPendBlock(m, n)
    <3>1. ToSet(list'[m]) \subseteq ToSet(list[m])
      BY <1>3, <2>4, MuxLists
    <3>2. list[m] # <<>>
      <4>1. ToSet(list'[m]) # {}
        BY <2>0, <2>4, HeadTailRange
      <4> QED  BY <3>1, <4>1 DEF ToSet
    <3>3. /\ Used(m)' /\ muxCount'[m] > 0
          /\ owner'[m] = owner[m] \/ (MuxPostHand(m) /\ owner'[m] = Head(list[m]))
      BY <1>3, <3>2, MuxOwners
    <3>4. MuxPostHand(m) => Head(list[m]) \notin ToSet(list'[m])
      BY <1>3, MuxLists
    <3>5. Head(list[m]) \in Task
      BY <2>0, <3>2, HeadTailRange
    <3> QED  BY <2>0, <2>1, <3>1, <3>2, <3>3, <3>4, <3>5
  <2> QED  BY <2>2, <2>3, <2>4
<1> QED  BY <1>1, <1>2, <1>3 DEF MuxInv, WaitersHaveOwner

\* At the start no mutex is used and no task waits.
LEMMA MuxInitInv == MuxInit => MuxInv
<1> SUFFICES ASSUME MuxInit PROVE MuxInv
  OBVIOUS
<1>1. TypeInv
  BY TypeInit DEF MuxInit
<1>2. MuxTypeOK
  BY MuxAssumption, TaskAssumption DEF MuxInit, MuxTypeOK, Prio
<1>3. \A m \in Obj : list[m] = <<>>
  <2>1. 0 \in Prio
    BY TaskAssumption DEF Prio
  <2>2. \A m \in Obj : m \in Head_ /\ m \notin {Free, Lowest, 0}
    BY <2>1, Heads
  <2> QED  BY <2>2 DEF MuxInit, Init
<1>4. IsInjective(<<>>)
  BY DEF IsInjective
<1> QED  BY <1>1, <1>2, <1>3, <1>4 DEF MuxInv, WaitersHaveOwner

\* The inductive invariant of the mutexes.
THEOREM MuxInvariant == MuxSpec => []MuxInv
BY WaitersStep, MuxInitInv, PTL DEF MuxSpec

\* Who waits for a mutex waits for another task that owns it, which LOS_MuxPost hands it on
\* from; no mutex is deleted under its owner or its waiters.
THEOREM OwnersExist == MuxSpec => []WaitersHaveOwner
<1>1. MuxInv => WaitersHaveOwner
  BY DEF MuxInv
<1> QED  BY <1>1, MuxInvariant, PTL
-----------------------------------------------------------------------------
\* After the kernel followed a null link it executes nothing.
LEMMA HaltStops == MuxNext => ~halt
<1>1. \A c, name : MayCall(c, name) => ~halt
  BY KernelLive
<1>2. MuxQuiet \/ MuxPendReturn => ~halt
  BY <1>1 DEF MuxQuiet, LOS_MuxCreate, LOS_MuxDelete, MuxPendFree, MuxPendAgain,
              MuxPostAgain, MayPost, MuxPendReturn, WaitReturn, TaskRuns
<1>3. ASSUME NEW m \in Obj, NEW n, MuxPendBlock(m, n) \/ MuxPostFree(m) \/ MuxPostHand(m)
      PROVE  ~halt
  BY <1>1, <1>3 DEF MuxPendBlock, Block, MuxPostFree, MuxPostHand, MayPost
<1> QED  BY <1>2, <1>3, KernelLive, MuxCases DEF MuxOtherStep

\* The scheduler with mutexes keeps lists, flags, delay list and calls in agreement, as
\* the scheduler does without: a change of priority moves a ready task and no other.
LEMMA MuxKernelKept ==
  ASSUME MuxInv, ListInv, DelayInv, CallInv, MuxNext, ~halt', Slice = 0
  PROVE  ListInv' /\ DelayInv' /\ CallInv'
<1>0. /\ TypeInv /\ MuxTypeOK /\ TypeInv' /\ TasksFit /\ CpuFits /\ IsInjective(timerQ)
      /\ Obj \subseteq Head_
  BY MuxTypeKept, Heads DEF MuxInv, ListInv, DelayInv
<1>1. CASE UNCHANGED vars
  BY <1>1 DEF vars, taskVars, cpuVars, ListInv, TasksFit, On, Grown, CpuFits, NewbornFits,
              ScanFits, DelayInv, Ordered, CallInv
<1>2. CASE Next
  BY <1>0, <1>2, FitsStep, CpuStep, ScanStep, DelayStep, CallInvStep DEF ListInv
<1>3. ASSUME NEW m \in Obj, NEW n \in Timeouts \cup {Forever}, MuxPendBlock(m, n)
      PROVE  ListInv' /\ DelayInv' /\ CallInv'
  <2>1. PICK L : Starts(L) /\ Block(L, m, n, Len(Unlink(L, run)[m]) + 1)
    BY <1>0, <1>3, MuxStarts
  <2>2. Refits(L, prio') /\ L \in Lists
    BY <1>0, <2>1, StartsGood DEF GoodLists
  <2>3. TasksFit'
    BY <1>0, <2>1, <2>2, LastPlace, BlockFits
  <2>4. CpuFits' /\ NewbornFits'
    BY <1>0, <2>1, BlockCpu
  <2>5. ScanFits'
    BY <2>1 DEF Block, MayCall, TaskRuns, ScanFits
  <2>6. DelayInv'
    BY <1>0, <2>1, WaitTimers, DelayKept
  <2>7. CallInv'
    BY <1>0, <2>1, PendCarries DEF CallInv, Carries
  <2> QED  BY <2>3, <2>4, <2>5, <2>6, <2>7 DEF ListInv
<1>4. ASSUME NEW m \in Obj, MuxPostHand(m) PROVE ListInv' /\ DelayInv' /\ CallInv'
  <2> DEFINE t == Head(list[m])
  <2>1. PICK L : Starts(L) /\ Release(L, "task", m)
    BY <1>0, <1>4, MuxStarts
  <2>2. Hand(L, "task", m) /\ MayCall("task", "Wake") /\ "task" \in Context
    BY <2>1 DEF Release, Context
  <2>3. Refits(L, prio')
    BY <1>0, <2>1, StartsGood
  <2>4. t \in Task /\ t \in ToSet(list[m])
    BY <1>0, <2>2, HandCarries
  <2>5. t # run
    <3>1. owner[m] = run /\ list[m] # <<>>
      BY <1>4, <2>2 DEF MuxPostHand, MayPost, Owns, Hand
    <3> QED  BY <2>4, <3>1 DEF MuxInv, WaitersHaveOwner
  <2>6. prio'[t] = prio[t]
    BY <1>0, <1>4, <2>4, <2>5 DEF MuxPostHand, TypeInv, TypeOK
  <2>7. TasksFit'
    BY <1>0, <2>2, <2>3, <2>6, HandFits
  <2>8. CpuFits' /\ NewbornFits'
    BY <1>0, <2>2, <2>7, HandCpu
  <2>9. ScanFits'
    BY <2>2 DEF Hand, MayCall, TaskRuns, ScanFits
  <2>10. DelayInv'
    BY <1>0, <2>2, WaitTimers, DelayKept
  <2>11. CallInv'
    BY <1>0, <2>2, HandCarries DEF CallInv, Carries
  <2> QED  BY <2>7, <2>8, <2>9, <2>10, <2>11 DEF ListInv
<1>5. ASSUME NEW m \in Obj, MuxPostFree(m) PROVE ListInv' /\ DelayInv' /\ CallInv'
  <2>1. /\ Starts(list')
        /\ UNCHANGED <<status, timerQ, left, cpuVars, pc, newborn, slice, scan, halt>>
    BY <1>0, <1>5, MuxStarts
  <2>2. Refits(list', prio')
    BY <1>0, <2>1, StartsGood
  <2>3. TasksFit'
    <3>1. \A u \in Task : Grown(u)' <=> Grown(u)
      BY <2>1 DEF Grown
    <3>2. \A u \in Task :
            Fits(status[u], prio'[u], On(list', u), u \in ToSet(timerQ), pc[u], Grown(u))
      <4>1. PICK L : L = list'
        OBVIOUS
      <4>2. ASSUME NEW u \in Task
            PROVE  Fits(status[u], prio'[u], On(L, u), u \in ToSet(timerQ), pc[u], Grown(u))
        BY <1>0, <2>2, <4>1, RefitNow
      <4> QED  BY <4>1, <4>2
    <3>3. ASSUME NEW u \in Task
          PROVE  Fits(status'[u], prio'[u], On(list', u), u \in ToSet(timerQ'), pc'[u], Grown(u)')
      <4>1. Fits(status[u], prio'[u], On(list', u), u \in ToSet(timerQ), pc[u], Grown(u))
        BY <3>2
      <4> QED  BY <2>1, <3>1, <4>1 DEF Fits
    <3>4. \A u \in Task : On(list', u) = On(list, u)'
      BY DEF On
    <3> QED  BY <2>2, <3>3, <3>4 DEF TasksFit, Refits, Distinct
  <2> QED
    BY <2>1, <2>3 DEF ListInv, CpuFits, NewbornFits, ScanFits, DelayInv, Ordered, CallInv,
                      cpuVars
<1> QED
  BY <1>1, <1>2, <1>3, <1>4, <1>5, MuxCases, QuietIsStill, KernelLive
     DEF MuxPendReturn, MuxOtherStep, KernelStep

\* So they agree throughout, until the kernel follows a null link.
MuxKernel == MuxInv /\ (~halt => ListInv /\ DelayInv /\ CallInv)

LEMMA MuxKernelStep ==
  ASSUME Slice = 0
  PROVE  MuxKernel /\ [MuxNext]_allVars => MuxKernel'
<1> SUFFICES ASSUME MuxKernel, [MuxNext]_allVars PROVE MuxKernel'
  OBVIOUS
<1>1. MuxInv'
  BY WaitersStep DEF MuxKernel
<1>2. CASE UNCHANGED allVars
  BY <1>1, <1>2 DEF MuxKernel, allVars, vars, taskVars, cpuVars, ListInv, TasksFit, On,
                    Grown, CpuFits, NewbornFits, ScanFits, DelayInv, Ordered, CallInv
<1>3. CASE MuxNext
  BY <1>1, <1>3, HaltStops, MuxKernelKept DEF MuxKernel
<1> QED  BY <1>2, <1>3

LEMMA MuxKernelInit == MuxInit => MuxKernel
<1> SUFFICES ASSUME MuxInit PROVE MuxKernel
  OBVIOUS
<1>1. ListInv /\ DelayInv
  BY ListInit, DelayInit DEF MuxInit
<1>2. CallInv
  BY DEF MuxInit, Init, CallInv, InCall
<1> QED  BY <1>1, <1>2, MuxInitInv DEF MuxKernel
-----------------------------------------------------------------------------
(* What tasks know of the mutexes they own.                                 *)

Owned(t) == {m \in Obj : Owns(t, m)}

\* The mutex a task that waits has been handed, before it runs again.
Handed(t) ==
  IF status[t] \cap Waits = {} /\ "TIMEOUT" \notin status[t] THEN {wanted[t]} ELSE {}

\* Outside of LOS_MuxPend a task owns what it was told; inside, the mutex it wants as well
\* once it does not wait and its limit has not expired.
Knows(t) ==
  /\ IsInjective(got[t])
  /\ pc[t] \notin InCall => Owned(t) = ToSet(got[t])
  /\ pc[t] \in InCall /\ ~halt =>
       wanted[t] \in Obj \ ToSet(got[t]) /\ Owned(t) = ToSet(got[t]) \cup Handed(t)

\* Who is on the list of a mutex wants it, in a call that has not returned.
Wants ==
  /\ got \in [Task -> Seq(Obj)] /\ wanted \in [Task -> Obj \cup {Null}]
  /\ \A m \in Obj : \A t \in ToSet(list[m]) : wanted[t] = m /\ pc[t] \in InCall

\* A step that changes nothing a task owns, was told or wants.
LEMMA KnowsKept ==
  ASSUME NEW t \in Task, Knows(t), ~halt, UNCHANGED <<got[t], wanted[t], Owned(t)>>,
         pc[t] \in InCall => pc'[t] \in InCall, ~halt' => Carries(t)
  PROVE  Knows(t)'
<1>1. CASE pc'[t] \notin InCall
  BY <1>1 DEF Knows
<1>2. CASE pc'[t] \in InCall /\ halt'
  BY <1>2 DEF Knows
<1>3. CASE pc'[t] \in InCall /\ ~halt'
  <2>1. Handed(t)' = Handed(t) /\ pc[t] \in InCall
    BY <1>3 DEF Handed, Carries
  <2> QED  BY <1>3, <2>1 DEF Knows
<1> QED  BY <1>1, <1>2, <1>3

\* The list of a mutex gains the caller of LOS_MuxPend, which then wants it, and no other.
LEMMA WantsStep ==
  ASSUME MuxKernel, Wants, \A t \in Task : Knows(t), MuxNext,
         "Delete" \notin Calls \cup IsrCalls
  PROVE  Wants'
<1>0. /\ MuxInv /\ TypeInv /\ ListInv /\ DelayInv /\ CallInv /\ MuxTypeOK /\ ~halt
      /\ got \in [Task -> Seq(Obj)] /\ wanted \in [Task -> Obj \cup {Null}]
      /\ \A m \in Obj : \A t \in ToSet(list[m]) : t \in Task /\ wanted[t] = m /\ pc[t] \in InCall
  <2>1. \A m \in Obj : ToSet(list[m]) \subseteq Task
    BY InToSet, Heads DEF MuxKernel, MuxInv, TypeInv, TypeOK
  <2> QED  BY <2>1, HaltStops DEF MuxKernel, MuxInv, Wants
<1> DEFINE Listed(t) == \E m \in Obj : t \in ToSet(list[m])
<1>1. ASSUME got' \in [Task -> Seq(Obj)], wanted' = wanted,
             \A t \in Task : Listed(t) => pc'[t] \in InCall,
             \A m \in Obj : ToSet(list'[m]) \subseteq ToSet(list[m])
      PROVE  Wants'
  BY <1>0, <1>1 DEF Wants
<1>2. (\A m \in Obj, n \in Timeouts \cup {Forever} : ~MuxPendBlock(m, n)) =>
        \A m \in Obj : ToSet(list'[m]) \subseteq ToSet(list[m])
  BY <1>0, MuxLists
<1>3. ASSUME NEW m, MuxPendFree(m) \/ MuxPostFree(m) \/ MuxPostHand(m)
      PROVE  /\ run \in Task /\ ~Listed(run)
             /\ m \in Obj => got' \in [Task -> Seq(Obj)]
  <2>1. run \in Task /\ pc[run] = "user"
    BY <1>0, <1>3, MuxCaller DEF MuxPendFree, MuxPostFree, MuxPostHand, MayPost
  <2>2. ~Listed(run)
    BY <1>0, <2>1 DEF InCall
  <2>3. ASSUME m \in Obj PROVE got' \in [Task -> Seq(Obj)]
    <3>1. got[run] \in Seq(Obj)
      BY <1>0, <2>1
    <3>2. Append(got[run], m) \in Seq(Obj) /\ RemoveFirst(got[run], m) \in Seq(Obj)
      BY <2>3, <3>1, AppendRange, RemoveFirstRange
    <3> QED  BY <1>0, <1>3, <2>1, <3>2 DEF MuxPendFree, MuxPostFree, MuxPostHand
  <2> QED  BY <2>1, <2>2, <2>3
<1>4. ASSUME MuxQuiet PROVE Wants'
  <2>1. UNCHANGED vars /\ wanted' = wanted /\ got' \in [Task -> Seq(Obj)]
    BY <1>0, <1>3, <1>4, QuietIsStill
       DEF MuxQuiet, LOS_MuxCreate, LOS_MuxDelete, MuxPendFree, MuxPendAgain, MuxPostAgain
  <2> QED  BY <1>0, <1>1, <2>1 DEF vars, taskVars
<1>5. CASE MuxPendReturn
  <2>1. WaitReturn /\ wanted' = wanted /\ run \in Task /\ pc[run] = "woken" /\ list' = list
    BY <1>5 DEF MuxPendReturn, muxVars, WaitReturn, TaskRuns
  <2>2. wanted[run] \in Obj /\ got[run] \in Seq(Obj)
    BY <1>0, <2>1 DEF Knows, InCall
  <2>3. Append(got[run], wanted[run]) \in Seq(Obj)
    BY <2>2
  <2>4. got' \in [Task -> Seq(Obj)]
    BY <1>0, <1>5, <2>1, <2>3 DEF MuxPendReturn
  <2>5. ~Listed(run)
    BY <1>0, <2>1, WokenCalm DEF WaitReturn
  <2>6. \A t \in Task : Listed(t) => pc'[t] \in InCall
    BY <1>0, <2>1, <2>5, ReturnCarries
  <2> QED  BY <1>1, <2>1, <2>4, <2>6
<1>6. CASE MuxOtherStep
  <2>1. KernelStep /\ ~WaitReturn /\ UNCHANGED <<wanted, got>>
    BY <1>6 DEF MuxOtherStep, muxVars
  <2>2. \A m \in Obj : ToSet(list'[m]) \subseteq ToSet(list[m])
    BY <1>0, <2>1, OnlyPendAdds
  <2>3. \A t \in Task : Listed(t) => pc'[t] \in InCall
    BY <1>0, <2>1, KernelStays
  <2> QED  BY <1>0, <1>1, <2>1, <2>2, <2>3
<1>7. ASSUME NEW m \in Obj, MuxPostFree(m) PROVE Wants'
  <2>1. UNCHANGED <<wanted, pc>> /\ got' \in [Task -> Seq(Obj)]
    BY <1>3, <1>7 DEF MuxPostFree
  <2>2. \A o \in Obj : ToSet(list'[o]) \subseteq ToSet(list[o])
    BY <1>0, <1>7, MuxStarts, StartsGood DEF Fewer
  <2> QED  BY <1>0, <1>1, <2>1, <2>2
<1>8. ASSUME NEW m \in Obj, MuxPostHand(m) PROVE Wants'
  <2>1. wanted' = wanted /\ got' \in [Task -> Seq(Obj)] /\ run \in Task /\ ~Listed(run)
    BY <1>3, <1>8 DEF MuxPostHand
  <2>2. PICK L : Hand(L, "task", m)
    BY <1>0, <1>8, MuxStarts DEF Release
  <2>3. pc'[run] \notin InCall /\ \A u \in Task \ {run} : pc'[u] = pc[u]
    BY <1>0, <2>1, <2>2, HandCarries
  <2>4. ASSUME NEW o \in Obj, NEW n, MuxPendBlock(o, n) PROVE FALSE
    <3>1. PICK M : Block(M, o, n, Len(Unlink(M, run)[o]) + 1)
      BY <1>0, <2>4, MuxStarts
    <3>2. pc'[run] \in InCall
      BY <1>0, <3>1, PendCarries DEF InCall
    <3> QED  BY <2>3, <3>2
  <2>5. \A o \in Obj : ToSet(list'[o]) \subseteq ToSet(list[o])
    BY <1>2, <2>4
  <2>6. \A t \in Task : Listed(t) => pc'[t] \in InCall
    <3>1. \A t \in Task : Listed(t) => pc[t] \in InCall
      BY <1>0
    <3> HIDE DEF Listed
    <3> QED  BY <2>1, <2>3, <3>1
  <2> QED  BY <1>1, <2>1, <2>5, <2>6
<1>9. ASSUME NEW m \in Obj, NEW n \in Timeouts \cup {Forever}, MuxPendBlock(m, n)
      PROVE  Wants'
  <2>1. UNCHANGED got /\ wanted' = [wanted EXCEPT ![run] = m]
    BY <1>9 DEF MuxPendBlock
  <2>2. PICK L : Block(L, m, n, Len(Unlink(L, run)[m]) + 1)
    BY <1>0, <1>9, MuxStarts
  <2>3. /\ run \in Task /\ pc[run] = "user" /\ pc'[run] \in InCall
        /\ \A u \in Task \ {run} : pc'[u] = pc[u]
    BY <1>0, <2>2, PendCarries DEF InCall
  <2>4. ~Listed(run)
    BY <1>0, <2>3 DEF InCall
  <2>5. ASSUME NEW o \in Obj, NEW t \in ToSet(list'[o])
        PROVE  t \in ToSet(list[o]) \/ (o = m /\ t = run)
    <3>1. \/ ToSet(list'[o]) \subseteq ToSet(list[o])
          \/ /\ \E k \in Timeouts \cup {Forever} : MuxPendBlock(o, k)
             /\ ToSet(list'[o]) \subseteq ToSet(list[o]) \cup {run}
      BY <1>0, MuxLists
    <3>2. ASSUME NEW k, MuxPendBlock(o, k) PROVE o = m
      BY <1>0, <2>1, <2>3, <3>2 DEF MuxPendBlock
    <3> QED  BY <2>5, <3>1, <3>2
  <2>6. wanted'[run] = m /\ (\A u \in Task \ {run} : wanted'[u] = wanted[u])
        /\ wanted' \in [Task -> Obj \cup {Null}] /\ got' \in [Task -> Seq(Obj)]
    BY <1>0, <2>1, <2>3
  <2>7. ASSUME NEW o \in Obj, NEW t \in ToSet(list'[o])
        PROVE  wanted'[t] = o /\ pc'[t] \in InCall
    <3>1. CASE o = m /\ t = run
      BY <2>3, <2>6, <3>1
    <3>2. CASE t \in ToSet(list[o])
      <4>1. t \in Task /\ wanted[t] = o /\ pc[t] \in InCall /\ t # run
        BY <1>0, <2>4, <3>2
      <4> QED  BY <2>3, <2>6, <4>1
    <3> QED  BY <2>5, <3>1, <3>2
  <2> QED  BY <2>6, <2>7 DEF Wants
<1> QED  BY <1>4, <1>5, <1>6, <1>7, <1>8, <1>9, MuxCases

\* Taking a mutex again and releasing it before the last time changes no owner.
LEMMA OwnedAgain ==
  ASSUME muxCount \in [Obj -> 0..MaxNest], MaxNest \in Nat, NEW u \in Task, NEW o \in Obj,
         MuxPendAgain(o) \/ MuxPostAgain(o)
  PROVE  Owned(u)' = Owned(u)
<1>1. PICK k \in Nat : muxCount[o] > 0 /\ k > 0 /\ muxCount' = [muxCount EXCEPT ![o] = k]
  <2>1. muxCount[o] \in Nat
    OBVIOUS
  <2>2. \/ muxCount[o] > 0 /\ muxCount' = [muxCount EXCEPT ![o] = muxCount[o] + 1]
        \/ muxCount[o] > 1 /\ muxCount' = [muxCount EXCEPT ![o] = muxCount[o] - 1]
    BY DEF MuxPendAgain, MuxPostAgain, Owns
  <2>3. muxCount[o] + 1 \in Nat /\ muxCount[o] + 1 > 0
        /\ (muxCount[o] > 1 => muxCount[o] - 1 \in Nat /\ muxCount[o] - 1 > 0 /\ muxCount[o] > 0)
    BY <2>1
  <2> QED  BY <2>2, <2>3
<1>2. owner' = owner
  BY DEF MuxPendAgain, MuxPostAgain
<1> QED  BY <1>1, <1>2 DEF Owned, Owns

\* Every step keeps tasks informed: a task owns what it was told and has not released, and
\* the mutex it was handed while it waited, of which it will be told.
LEMMA KnowsStep ==
  ASSUME MuxKernel, Wants, \A t \in Task : Knows(t), MuxNext, Slice = 0,
         "Delete" \notin Calls \cup IsrCalls, NEW u \in Task
  PROVE  Knows(u)'
<1>0. /\ MuxInv /\ TypeInv /\ ListInv /\ DelayInv /\ CallInv /\ ~halt
      /\ got \in [Task -> Seq(Obj)] /\ wanted \in [Task -> Obj \cup {Null}]
      /\ unusedMux \in Seq(Obj) /\ muxCount \in [Obj -> 0..MaxNest] /\ MaxNest \in Nat
      /\ owner \in [Obj -> Task \cup {Null}] /\ Null \notin Task
      /\ \A m \in Obj : muxCount[m] > 0 => Used(m)
      /\ got[u] \in Seq(Obj) /\ Knows(u)
  BY HaltStops, MuxAssumption, Heads DEF MuxKernel, MuxInv, MuxTypeOK, Wants
<1>1. ASSUME UNCHANGED <<got[u], wanted[u], Owned(u)>>, pc'[u] = pc[u],
             status'[u] = status[u]
      PROVE  Knows(u)'
  <2>1. Handed(u)' = Handed(u)
    BY <1>1 DEF Handed
  <2> QED  BY <1>0, <1>1, <2>1 DEF Knows
<1>2. ASSUME NEW o \in Obj, MuxPendFree(o) \/ MuxPostFree(o) \/ MuxPostHand(o)
      PROVE  run \in Task /\ pc[run] = "user" /\ run # Null
  BY <1>0, <1>2, MuxCaller DEF MuxPendFree, MuxPostFree, MuxPostHand, MayPost
<1>3. ASSUME NEW c \in Context, LOS_MuxCreate(c) PROVE Knows(u)'
  <2> DEFINE h == Head(unusedMux)
  <2>1. h \in Obj /\ ~Used(h)
    BY <1>0, <1>3, HeadTailRange DEF LOS_MuxCreate, Used
  <2>2. /\ muxCount' = [muxCount EXCEPT ![h] = 0] /\ owner' = [owner EXCEPT ![h] = Null]
        /\ UNCHANGED <<vars, wanted, got>>
    BY <1>3 DEF LOS_MuxCreate
  <2> HIDE DEF h
  <2>3. ~(muxCount[h] > 0)
    BY <1>0, <2>1
  <2>4. Owned(u)' = Owned(u)
    BY <1>0, <2>1, <2>2, <2>3 DEF Owned, Owns
  <2> QED  BY <1>1, <2>2, <2>4 DEF vars, taskVars
<1>4. ASSUME NEW c \in Context, NEW o \in Obj, LOS_MuxDelete(c, o) PROVE Knows(u)'
  BY <1>1, <1>4 DEF LOS_MuxDelete, Owned, Owns, vars, taskVars
<1>5. ASSUME NEW o \in Obj, MuxPendAgain(o) \/ MuxPostAgain(o) PROVE Knows(u)'
  <2>1. Owned(u)' = Owned(u)
    BY <1>0, <1>5, OwnedAgain
  <2> QED
    BY <1>1, <1>5, <2>1 DEF MuxPendAgain, MuxPostAgain, vars, taskVars
<1>6. ASSUME NEW o \in Obj, MuxPendFree(o) PROVE Knows(u)'
  <2>1. /\ UNCHANGED <<vars, wanted>> /\ muxCount[o] = 0
        /\ muxCount' = [muxCount EXCEPT ![o] = 1] /\ owner' = [owner EXCEPT ![o] = run]
        /\ got' = [got EXCEPT ![run] = Append(@, o)]
    BY <1>6 DEF MuxPendFree
  <2>2. CASE u # run
    <3>1. Owned(u)' = Owned(u)
      BY <1>0, <2>1, <2>2 DEF Owned, Owns
    <3> QED  BY <1>0, <1>1, <2>1, <2>2, <3>1 DEF vars, taskVars
  <2>3. CASE u = run
    <3>1. Owned(u) = ToSet(got[u]) /\ o \notin Owned(u) /\ pc'[u] \notin InCall
      BY <1>0, <1>2, <1>6, <2>1, <2>3 DEF Knows, Owned, Owns, InCall, vars
    <3>2. Owned(u)' = Owned(u) \cup {o}
      BY <1>0, <2>1, <2>3 DEF Owned, Owns
    <3>3. got'[u] = Append(got[u], o)
      BY <1>0, <2>1, <2>3
    <3>4. IsInjective(Append(got[u], o)) /\ ToSet(Append(got[u], o)) = ToSet(got[u]) \cup {o}
      BY <1>0, <3>1, AppendRange DEF Knows
    <3> QED  BY <3>1, <3>2, <3>3, <3>4 DEF Knows
  <2> QED  BY <2>2, <2>3
<1>7. ASSUME NEW o \in Obj, MuxPostFree(o) PROVE Knows(u)'
  <2>1. /\ UNCHANGED <<status, pc, wanted, owner>> /\ muxCount[o] = 1 /\ owner[o] = run
        /\ muxCount' = [muxCount EXCEPT ![o] = 0]
        /\ got' = [got EXCEPT ![run] = RemoveFirst(@, o)]
    BY <1>7 DEF MuxPostFree, MayPost, Owns
  <2>2. CASE u # run
    <3>1. Owned(u)' = Owned(u)
      BY <1>0, <2>1, <2>2 DEF Owned, Owns
    <3> QED  BY <1>0, <1>1, <2>1, <2>2, <3>1
  <2>3. CASE u = run
    <3>1. Owned(u) = ToSet(got[u]) /\ pc'[u] \notin InCall
      BY <1>0, <1>2, <1>7, <2>1, <2>3 DEF Knows, InCall
    <3>2. Owned(u)' = Owned(u) \ {o}
      BY <1>0, <2>1, <2>3 DEF Owned, Owns
    <3>3. got'[u] = RemoveFirst(got[u], o)
      BY <1>0, <2>1, <2>3
    <3>4. IsInjective(RemoveFirst(got[u], o))
          /\ ToSet(RemoveFirst(got[u], o)) = ToSet(got[u]) \ {o}
      BY <1>0, RemoveFirstRange DEF Knows
    <3> QED  BY <3>1, <3>2, <3>3, <3>4 DEF Knows
  <2> QED  BY <2>2, <2>3
<1>8. ASSUME NEW o \in Obj, MuxPostHand(o) PROVE Knows(u)'
  <2> DEFINE t == Head(list[o])
  <2>1. /\ UNCHANGED <<muxCount, wanted>> /\ muxCount[o] = 1 /\ owner[o] = run
        /\ owner' = [owner EXCEPT ![o] = t] /\ MayCall("task", "Wake")
        /\ got' = [got EXCEPT ![run] = RemoveFirst(@, o)]
    BY <1>8 DEF MuxPostHand, MayPost, Owns
  <2>2. PICK L : Hand(L, "task", o)
    BY <1>0, <1>8, MuxStarts DEF MuxInv, Release
  <2>3. /\ t \in Task /\ t \in ToSet(list[o]) /\ status[t] \cap Waits # {}
        /\ status'[t] \cap Waits = {} /\ "TIMEOUT" \notin status'[t]
        /\ pc'[run] \notin InCall /\ \A v \in Task \ {run} : pc'[v] = pc[v]
        /\ \A v \in Task \ {t} : Carries(v)
    BY <1>0, <1>2, <1>8, <2>2, HandCarries
  <2>4. wanted[t] = o /\ pc[t] \in InCall /\ t # run
    BY <1>2, <1>8, <2>3 DEF Wants, InCall
  <2> HIDE DEF t
  <2>5. CASE u \notin {run, t}
    <3>1. Owned(u)' = Owned(u)
      BY <1>0, <2>1, <2>5 DEF Owned, Owns
    <3>2. UNCHANGED <<got[u], wanted[u]>>
      BY <1>0, <2>1, <2>5
    <3> QED  BY <1>0, <2>3, <2>5, <3>1, <3>2, KnowsKept
  <2>6. CASE u = run
    <3>1. Owned(u) = ToSet(got[u]) /\ pc'[u] \notin InCall
      BY <1>0, <1>2, <1>8, <2>3, <2>6 DEF Knows, InCall
    <3>2. Owned(u)' = Owned(u) \ {o}
      BY <1>0, <2>1, <2>4, <2>6 DEF Owned, Owns
    <3>3. got'[u] = RemoveFirst(got[u], o)
      BY <1>0, <2>1, <2>6
    <3>4. IsInjective(RemoveFirst(got[u], o))
          /\ ToSet(RemoveFirst(got[u], o)) = ToSet(got[u]) \ {o}
      BY <1>0, RemoveFirstRange DEF Knows
    <3> QED  BY <3>1, <3>2, <3>3, <3>4 DEF Knows
  <2>7. CASE u = t
    <3>1. Owned(u) = ToSet(got[u]) /\ o \notin ToSet(got[u]) /\ IsInjective(got[u])
      BY <1>0, <2>3, <2>4, <2>7 DEF Knows, Handed
    <3>2. Owned(u)' = Owned(u) \cup {o}
      BY <1>0, <2>1, <2>7 DEF Owned, Owns
    <3>3. UNCHANGED <<got[u], wanted[u]>> /\ pc'[u] \in InCall
      BY <1>0, <2>1, <2>3, <2>4, <2>7
    <3>4. Handed(u)' = {o}
      BY <2>3, <2>4, <2>7, <3>3 DEF Handed
    <3> QED  BY <2>4, <2>7, <3>1, <3>2, <3>3, <3>4 DEF Knows
  <2> QED  BY <2>5, <2>6, <2>7
<1>9. ASSUME NEW o \in Obj, NEW n \in Timeouts \cup {Forever}, MuxPendBlock(o, n)
      PROVE  Knows(u)'
  <2>1. /\ UNCHANGED <<muxCount, owner, got>> /\ wanted' = [wanted EXCEPT ![run] = o]
        /\ owner[o] # run
    BY <1>9 DEF MuxPendBlock
  <2>2. PICK L : Block(L, o, n, Len(Unlink(L, run)[o]) + 1)
    BY <1>0, <1>9, MuxStarts DEF MuxInv
  <2>3. /\ run \in Task /\ pc[run] = "user" /\ pc'[run] \in InCall
        /\ status'[run] \cap Waits # {}
        /\ \A v \in Task \ {run} : Carries(v) /\ pc'[v] = pc[v]
    BY <1>0, <2>2, PendCarries DEF InCall
  <2>4. Owned(u)' = Owned(u)
    BY <2>1 DEF Owned, Owns
  <2>5. CASE u # run
    <3>1. UNCHANGED <<got[u], wanted[u]>>
      BY <1>0, <2>1, <2>5
    <3> QED  BY <1>0, <2>3, <2>4, <2>5, <3>1, KnowsKept
  <2>6. CASE u = run
    <3>1. Owned(u) = ToSet(got[u]) /\ o \notin Owned(u)
      BY <1>0, <2>1, <2>3, <2>6 DEF Knows, Owned, Owns, InCall
    <3>2. Handed(u)' = {} /\ got'[u] = got[u] /\ wanted'[u] = o
      BY <1>0, <2>1, <2>3, <2>6 DEF Handed
    <3> QED  BY <1>0, <2>3, <2>4, <2>6, <3>1, <3>2 DEF Knows
  <2> QED  BY <2>5, <2>6
<1>10. CASE MuxPendReturn
  <2>1. /\ WaitReturn /\ UNCHANGED <<muxCount, owner, wanted>>
        /\ got' = IF "TIMEOUT" \in status[run] THEN got
                  ELSE [got EXCEPT ![run] = Append(@, wanted[run])]
    BY <1>10 DEF MuxPendReturn, muxVars
  <2>2. /\ run \in Task /\ pc[run] = "woken" /\ status[run] \cap Waits = {}
        /\ pc'[run] \notin InCall
        /\ \A v \in Task \ {run} : Carries(v) /\ pc'[v] = pc[v]
    BY <1>0, <2>1, WokenCalm, ReturnCarries DEF WaitReturn
  <2>3. Owned(u)' = Owned(u)
    BY <2>1 DEF Owned, Owns
  <2>4. CASE u # run
    <3>1. UNCHANGED <<got[u], wanted[u]>>
      BY <1>0, <2>1, <2>4
    <3> QED  BY <1>0, <2>2, <2>3, <2>4, <3>1, KnowsKept
  <2>5. CASE u = run
    <3>1. /\ wanted[u] \in Obj \ ToSet(got[u]) /\ Owned(u) = ToSet(got[u]) \cup Handed(u)
          /\ IsInjective(got[u])
      BY <1>0, <2>2, <2>5 DEF Knows, InCall
    <3>2. CASE "TIMEOUT" \in status[u]
      BY <2>1, <2>2, <2>3, <2>5, <3>1, <3>2 DEF Knows, Handed
    <3>3. CASE "TIMEOUT" \notin status[u]
      <4>1. Handed(u) = {wanted[u]} /\ got'[u] = Append(got[u], wanted[u])
        BY <1>0, <2>1, <2>2, <2>5, <3>3 DEF Handed
      <4>2. /\ IsInjective(Append(got[u], wanted[u]))
            /\ ToSet(Append(got[u], wanted[u])) = ToSet(got[u]) \cup {wanted[u]}
        BY <1>0, <3>1, AppendRange
      <4> QED  BY <2>2, <2>3, <2>5, <3>1, <4>1, <4>2 DEF Knows
    <3> QED  BY <3>2, <3>3
  <2> QED  BY <2>4, <2>5
<1>11. CASE MuxOtherStep
  <2>1. KernelStep /\ ~WaitReturn /\ UNCHANGED <<muxCount, owner, wanted, got>>
    BY <1>11 DEF MuxOtherStep, muxVars
  <2>2. Owned(u)' = Owned(u)
    BY <2>1 DEF Owned, Owns
  <2>3. ~halt' => Carries(u)
    BY <1>0, <2>1, KernelCarries
  <2>4. pc[u] \in InCall => pc'[u] \in InCall
    BY <1>0, <2>1, KernelStays
  <2> QED  BY <1>0, <2>1, <2>2, <2>3, <2>4, KnowsKept
<1> QED
  BY <1>3, <1>4, <1>5, <1>6, <1>7, <1>8, <1>9, <1>10, <1>11 DEF MuxNext

\* The invariant of what tasks know, with what it rests on.
KnowInv == MuxKernel /\ Wants /\ \A t \in Task : Knows(t)

LEMMA KnowInit == MuxInit => KnowInv
<1> SUFFICES ASSUME MuxInit PROVE KnowInv
  OBVIOUS
<1>1. MuxKernel
  BY MuxKernelInit
<1>2. \A m \in Obj : list[m] = <<>>
  <2>1. 0 \in Prio
    BY TaskAssumption DEF Prio
  <2>2. \A m \in Obj : m \in Head_ /\ m \notin {Free, Lowest, 0}
    BY <2>1, Heads
  <2> QED  BY <2>2 DEF MuxInit, Init
<1>3. ToSet(<<>>) = {} /\ IsInjective(<<>>)
  BY DEF ToSet, IsInjective
<1>4. Wants
  BY <1>2, <1>3 DEF MuxInit, Wants
<1>5. ASSUME NEW t \in Task PROVE Knows(t)
  BY <1>3 DEF MuxInit, Init, Knows, InCall, Owned, Owns
<1> QED  BY <1>1, <1>4, <1>5 DEF KnowInv

LEMMA KnowStep ==
  ASSUME Slice = 0, "Delete" \notin Calls \cup IsrCalls
  PROVE  KnowInv /\ [MuxNext]_allVars => KnowInv'
<1> SUFFICES ASSUME KnowInv, [MuxNext]_allVars PROVE KnowInv'
  OBVIOUS
<1>1. MuxKernel'
  BY MuxKernelStep DEF KnowInv
<1>2. CASE UNCHANGED allVars
  BY <1>1, <1>2 DEF KnowInv, Wants, Knows, Handed, Owned, Owns, allVars, muxVars, vars,
                    taskVars
<1>3. CASE MuxNext
  BY <1>1, <1>3, WantsStep, KnowsStep DEF KnowInv
<1> QED  BY <1>2, <1>3

\* Who returns from LOS_MuxPend waits for nothing.
LEMMA KnowGives == KnowInv => OwnersKnow
<1> SUFFICES ASSUME KnowInv PROVE OwnersKnow
  OBVIOUS
<1>1. ASSUME TaskRuns("woken")
      PROVE  /\ wanted[run] \notin ToSet(got[run])
             /\ "TIMEOUT" \notin status[run] <=> Owns(run, wanted[run])
  <2>1. /\ run \in Task /\ pc[run] \in InCall /\ status[run] \cap Waits = {} /\ ~halt
    BY <1>1, WokenCalm DEF KnowInv, MuxKernel, MuxInv, TaskRuns, InCall
  <2>2. /\ wanted[run] \in Obj \ ToSet(got[run])
        /\ Owned(run) = ToSet(got[run]) \cup Handed(run)
    BY <2>1 DEF KnowInv, Knows
  <2>3. wanted[run] \in Owned(run) <=> wanted[run] \in Handed(run)
    BY <2>2
  <2> QED  BY <2>1, <2>2, <2>3 DEF Handed, Owned
<1>2. ASSUME NEW t \in Task, pc[t] \notin InCall
      PROVE  ToSet(got[t]) = {m \in Obj : Owns(t, m)}
  BY <1>2 DEF KnowInv, Knows, Owned
<1> QED  BY <1>1, <1>2 DEF OwnersKnow, InCall

\* In a kernel without time slices, and when no task is deleted, LOS_MuxPend succeeds after
\* it blocked exactly when its caller owns the mutex, and outside of the call every task
\* owns what it was told and has not released.
THEOREM OwnershipKnown ==
  ASSUME Slice = 0, "Delete" \notin Calls \cup IsrCalls
  PROVE  MuxSpec => []OwnersKnow
<1>1. MuxInit => KnowInv
  BY KnowInit
<1>2. KnowInv /\ [MuxNext]_allVars => KnowInv'
  BY KnowStep
<1>3. KnowInv => OwnersKnow
  BY KnowGives
<1> QED  BY <1>1, <1>2, <1>3, PTL DEF MuxSpec
-----------------------------------------------------------------------------
(* Priorities go back.                                                      *)

\* What the application does not do to tasks that own mutexes: end them, or give them
\* another priority.  And it releases the mutex first that it took last.
Nested ==
  /\ LastFirst = TRUE
  /\ {"Delete", "PriSet"} \cap (Calls \cup IsrCalls) = {} /\ "Exit" \notin Calls

\* The kernel then gives a priority to new tasks only, and no task ends.
LEMMA KernelPrio ==
  ASSUME TypeInv, ListInv, KernelStep, Nested, NEW u \in Task
  PROVE  /\ prio'[u] # prio[u] => "UNUSED" \in status[u]
         /\ "UNUSED" \in status'[u] => "UNUSED" \in status[u]
<1> USE DEF taskVars, cpuVars
<1>0. /\ status \in [Task -> SUBSET Flag] /\ prio \in [Task -> Prio]
      /\ \A c : ~MayCall(c, "Delete") /\ ~MayCall(c, "PriSet")
      /\ ~Returns
  BY DEF TypeInv, TypeOK, MayCall, Nested, Returns
<1> DEFINE Goal == /\ prio'[u] # prio[u] => "UNUSED" \in status[u]
                   /\ "UNUSED" \in status'[u] => "UNUSED" \in status[u]
<1>1. CASE LOS_Start \/ WaitReturn \/ SwitchStep
  BY <1>0, <1>1 DEF LOS_Start, WaitReturn, SwitchStep, TaskSchedule, TaskSwitch, PendSV
<1>2. CASE CreateStep
  <2>1. CASE \/ TaskCreateTake \/ TaskCreateNoMemory \/ TaskCreateReady
             \/ \E c \in Context : CreateNothing(c)
    BY <1>0, <2>1 DEF TaskCreateTake, TaskCreateNoMemory, TaskCreateReady, CreateNothing
  <2>2. ASSUME NEW p \in AppPrio, NEW flags \in Attr, TaskCreateFill(p, flags) PROVE Goal
    <3>1. PICK t \in Task : t = newborn[run] /\ "UNUSED" \in status[t]
      BY <2>2, FormedFits DEF TaskCreateFill
    <3>2. \A v \in Task \ {t} : prio'[v] = prio[v] /\ status'[v] = status[v]
      BY <1>0, <2>2, <3>1 DEF TaskCreateFill
    <3> QED  BY <3>1, <3>2
  <2>3. ASSUME NEW c \in Context, NEW t \in Task, NEW p \in AppPrio, NEW flags \in Attr,
               LOS_TaskCreateOnly(c, t, p, flags) \/ LOS_TaskCreate(c, t, p, flags)
        PROVE  Goal
    <3>1. PICK only \in BOOLEAN : CreateAtOnce(c, t, p, flags, only)
      BY <2>3 DEF LOS_TaskCreateOnly, LOS_TaskCreate
    <3>2. "UNUSED" \in status[t]
      BY <3>1, TakenFits DEF CreateAtOnce, ListInv
    <3>3. \A v \in Task \ {t} : prio'[v] = prio[v] /\ status'[v] = status[v]
      BY <1>0, <3>1 DEF CreateAtOnce
    <3> QED  BY <3>2, <3>3
  <2> HIDE DEF Goal
  <2> QED  BY <1>2, <2>1, <2>2, <2>3 DEF CreateStep, Goal
<1>3. CASE ControlStep
  <2>1. ASSUME NEW c \in Context, NEW t \in Task, LOS_TaskResume(c, t) \/ LOS_TaskSuspend(c, t)
        PROVE  Goal
    BY <1>0, <2>1 DEF LOS_TaskResume, LOS_TaskSuspend
  <2>2. ASSUME NEW c, NEW t, NEW p, LOS_TaskDelete(c, t) \/ LOS_TaskPriSet(c, t, p) PROVE FALSE
    BY <1>0, <2>2 DEF LOS_TaskDelete, LOS_TaskPriSet
  <2>3. ~TaskEntryDetached /\ ~TaskEntryJoinable
    BY <1>0 DEF TaskEntryDetached, TaskEntryJoinable
  <2>4. CASE TaskEntryFinish \/ TaskEntryUnlock \/ osTaskExit \/ LOS_TaskLock \/ LOS_TaskUnlock
    BY <1>0, <2>4 DEF TaskEntryFinish, TaskEntryUnlock, osTaskExit, LOS_TaskLock, LOS_TaskUnlock
  <2>5. CASE LOS_TaskYield \/ \E n \in Timeouts : LOS_TaskDelay(n)
    BY <1>0, <2>5 DEF LOS_TaskYield, Rotate, LOS_TaskDelay
  <2> QED  BY <1>3, <2>1, <2>2, <2>3, <2>4, <2>5 DEF ControlStep
<1>4. CASE TickStep
  <2>1. CASE Tick \/ ScanNext \/ ScanEnd
    BY <1>0, <2>1 DEF Tick, ScanNext, ScanEnd
  <2>2. CASE TickYield
    BY <1>0, <2>2 DEF TickYield, Rotate
  <2>3. CASE ScanExpire
    BY <1>0, <2>3 DEF ScanExpire
  <2> QED  BY <1>4, <2>1, <2>2, <2>3 DEF TickStep
<1> QED  BY <1>1, <1>2, <1>3, <1>4 DEF KernelStep

\* The first mutex that a task owns: the first it was told of, or the one it was handed.
FirstOf(t) == IF got[t] # <<>> THEN Head(got[t]) ELSE wanted[t]

\* The first mutex a task owns remembers the priority the application gave the task, the
\* task without mutexes has it.
Restored(t) ==
  /\ Owned(t) = {} => prio[t] = base[t]
  /\ ~halt /\ Owned(t) # {} =>
       saved[FirstOf(t)] = base[t] /\ "UNUSED" \notin status[t]

\* It is one that the task owns.
LEMMA FirstOwned ==
  ASSUME NEW t \in Task, got[t] \in Seq(Obj), Knows(t), ~halt
  PROVE  /\ Owned(t) # {} => FirstOf(t) \in Owned(t)
         /\ Owned(t) = {} => got[t] = <<>>
         /\ ToSet(got[t]) \subseteq Owned(t)
         /\ pc[t] \notin InCall => Owned(t) = ToSet(got[t])
<1>1. CASE got[t] # <<>>
  <2>1. Head(got[t]) \in ToSet(got[t])
    BY <1>1, HeadTailRange
  <2> QED  BY <1>1, <2>1 DEF Knows, FirstOf
<1>2. CASE got[t] = <<>>
  <2>1. ToSet(got[t]) = {}
    BY <1>2 DEF ToSet
  <2> QED  BY <1>2, <2>1 DEF Knows, FirstOf, Handed
<1> QED  BY <1>1, <1>2

\* The mutex released first was taken last: the first one stays, unless it was the only one.
LEMMA LastOut ==
  ASSUME NEW s \in Seq(Obj), s # <<>>, IsInjective(s), NEW m, Last(s) = m
  PROVE  /\ RemoveFirst(s, m) # <<>> => Head(RemoveFirst(s, m)) = Head(s) /\ Head(s) # m
         /\ RemoveFirst(s, m) = <<>> => s[1] = m /\ ToSet(s) = {m}
<1>0. /\ Len(s) \in Nat /\ Len(s) > 0 /\ DOMAIN s = 1..Len(s) /\ s[Len(s)] = m /\ Head(s) = s[1]
  BY DEF Last
<1>1. CASE Head(s) # m
  BY <1>0, <1>1, RemoveFirstHead
<1>2. CASE Head(s) = m
  <2>1. Len(s) = 1
    <3>1. 1 \in DOMAIN s /\ Len(s) \in DOMAIN s /\ s[1] = s[Len(s)]
      BY <1>0, <1>2
    <3> QED  BY <3>1 DEF IsInjective
  <2>2. ToSet(s) = {m}
    BY <1>0, <1>2, <2>1 DEF ToSet
  <2>3. RemoveFirst(s, m) \in Seq(Obj) /\ ToSet(RemoveFirst(s, m)) = {}
    BY <2>2, RemoveFirstRange
  <2>4. RemoveFirst(s, m) = <<>>
    BY <2>3, HeadTailRange
  <2> QED  BY <1>0, <1>2, <2>2, <2>4
<1> QED  BY <1>1, <1>2

\* A step that leaves the task and its mutexes as they are.
LEMMA RestoredKept ==
  ASSUME NEW t \in Task, Restored(t), ~halt,
         UNCHANGED <<got[t], wanted[t], Owned(t), base[t]>>,
         Owned(t) = {} => prio'[t] = prio[t],
         Owned(t) # {} => saved'[FirstOf(t)] = saved[FirstOf(t)],
         "UNUSED" \in status'[t] => "UNUSED" \in status[t]
  PROVE  Restored(t)'
BY DEF Restored, FirstOf

\* Every step of a kernel whose tasks release mutexes in order keeps the way back to the
\* priorities the application gave.
LEMMA RestoredStep ==
  ASSUME KnowInv, MuxNext, Nested, \A t \in Task : Restored(t), NEW u \in Task
  PROVE  Restored(u)'
<1>0. /\ MuxInv /\ TypeInv /\ ListInv /\ DelayInv /\ CallInv /\ ~halt /\ MuxTypeOK
      /\ got \in [Task -> Seq(Obj)] /\ wanted \in [Task -> Obj \cup {Null}]
      /\ unusedMux \in Seq(Obj) /\ muxCount \in [Obj -> 0..MaxNest] /\ MaxNest \in Nat
      /\ owner \in [Obj -> Task \cup {Null}] /\ saved \in [Obj -> Prio] /\ Null \notin Task
      /\ \A m \in Obj : muxCount[m] > 0 => Used(m)
      /\ prio \in [Task -> Prio]
  BY HaltStops, MuxAssumption, Heads DEF KnowInv, MuxKernel, MuxInv, MuxTypeOK, Wants, TypeInv,
     TypeOK
<1>1. /\ got[u] \in Seq(Obj) /\ Knows(u) /\ Restored(u)
      /\ Owned(u) # {} => FirstOf(u) \in Owned(u)
      /\ Owned(u) = {} => got[u] = <<>>
      /\ ToSet(got[u]) \subseteq Owned(u)
      /\ pc[u] \notin InCall => Owned(u) = ToSet(got[u])
  BY <1>0, FirstOwned DEF KnowInv
<1>2. ASSUME NEW o \in Obj, MuxPendFree(o) \/ MuxPostFree(o) \/ MuxPostHand(o)
      PROVE  /\ run \in Task /\ run # Null /\ pc[run] \notin InCall
             /\ "UNUSED" \notin status[run]
  <2>1. \E name : MayCall("task", name)
    BY <1>2 DEF MuxPendFree, MuxPostFree, MuxPostHand, MayPost
  <2>2. run \in Task /\ pc[run] = "user"
    BY <1>0, <2>1, MuxCaller
  <2> QED  BY <1>0, <2>2 DEF InCall, ListInv, CpuFits
<1>3. ASSUME UNCHANGED <<prio, base, saved, status, got, wanted>>, Owned(u)' = Owned(u)
      PROVE  Restored(u)'
  BY <1>0, <1>1, <1>3, RestoredKept
<1>4. ASSUME NEW c \in Context, LOS_MuxCreate(c) PROVE Restored(u)'
  <2> DEFINE h == Head(unusedMux)
  <2>1. h \in Obj /\ ~Used(h)
    BY <1>0, <1>4, HeadTailRange DEF LOS_MuxCreate, Used
  <2>2. /\ muxCount' = [muxCount EXCEPT ![h] = 0] /\ owner' = [owner EXCEPT ![h] = Null]
        /\ saved' = [saved EXCEPT ![h] = 0] /\ UNCHANGED <<vars, wanted, got, base>>
    BY <1>4 DEF LOS_MuxCreate
  <2> HIDE DEF h
  <2>3. ~(muxCount[h] > 0)
    BY <1>0, <2>1
  <2>4. Owned(u)' = Owned(u) /\ h \notin Owned(u)
    BY <1>0, <2>1, <2>2, <2>3 DEF Owned, Owns
  <2>5. Owned(u) # {} => saved'[FirstOf(u)] = saved[FirstOf(u)]
    BY <1>0, <1>1, <2>2, <2>4 DEF Owned
  <2> QED  BY <1>0, <1>1, <2>2, <2>4, <2>5, RestoredKept DEF vars, taskVars
<1>5. ASSUME NEW c \in Context, NEW o \in Obj, LOS_MuxDelete(c, o) PROVE Restored(u)'
  BY <1>3, <1>5 DEF LOS_MuxDelete, Owned, Owns, vars, taskVars
<1>6. ASSUME NEW o \in Obj, MuxPendAgain(o) \/ MuxPostAgain(o) PROVE Restored(u)'
  <2>1. Owned(u)' = Owned(u)
    BY <1>0, <1>6, OwnedAgain
  <2> QED
    BY <1>3, <1>6, <2>1 DEF MuxPendAgain, MuxPostAgain, vars, taskVars
<1>7. ASSUME NEW o \in Obj, MuxPendFree(o) PROVE Restored(u)'
  <2>1. /\ UNCHANGED <<vars, wanted, base>> /\ muxCount[o] = 0
        /\ muxCount' = [muxCount EXCEPT ![o] = 1] /\ owner' = [owner EXCEPT ![o] = run]
        /\ saved' = [saved EXCEPT ![o] = prio[run]]
        /\ got' = [got EXCEPT ![run] = Append(@, o)]
    BY <1>7 DEF MuxPendFree
  <2>2. o \notin Owned(u)
    BY <2>1 DEF Owned, Owns
  <2>3. Owned(u) # {} => saved'[FirstOf(u)] = saved[FirstOf(u)]
    BY <1>0, <1>1, <2>1, <2>2 DEF Owned
  <2>4. CASE u # run
    <3>1. Owned(u)' = Owned(u) /\ got'[u] = got[u]
      BY <1>0, <2>1, <2>4 DEF Owned, Owns
    <3> QED  BY <1>0, <1>1, <2>1, <2>3, <3>1, RestoredKept DEF vars, taskVars
  <2>5. CASE u = run
    <3>1. Owned(u)' = Owned(u) \cup {o} /\ got'[u] = Append(got[u], o) /\ "UNUSED" \notin status[u]
      BY <1>0, <1>2, <1>7, <2>1, <2>5 DEF Owned, Owns
    <3>2. CASE got[u] = <<>>
      <4>1. Owned(u) = {}
        BY <1>1, <1>2, <1>7, <2>5, <3>2 DEF ToSet
      <4>2. FirstOf(u)' = o
        BY <3>1, <3>2 DEF FirstOf
      <4>3. saved'[o] = prio[u] /\ prio[u] = base[u] /\ base' = base /\ status' = status
        BY <1>0, <1>1, <2>1, <2>5, <4>1 DEF Restored, vars, taskVars
      <4> QED  BY <3>1, <4>2, <4>3 DEF Restored
    <3>3. CASE got[u] # <<>>
      <4>1. FirstOf(u)' = FirstOf(u) /\ Owned(u) # {}
        BY <1>1, <3>1, <3>3 DEF FirstOf
      <4> QED  BY <1>0, <1>1, <2>1, <2>3, <3>1, <4>1 DEF Restored, vars, taskVars
    <3> QED  BY <3>2, <3>3
  <2> QED  BY <2>4, <2>5
<1>8. ASSUME NEW o \in Obj, MayPost(o), got' = [got EXCEPT ![run] = RemoveFirst(@, o)],
             prio' = [prio EXCEPT ![run] = saved[o]], UNCHANGED <<wanted, base>>, u = run,
             Owned(u)' = Owned(u) \ {o}, "UNUSED" \notin status'[u],
             \A m \in Obj \ {o} : saved'[m] = saved[m], run \in Task, pc[run] \notin InCall
      PROVE  Restored(u)'
  <2>1. got[u] # <<>> /\ Last(got[u]) = o /\ IsInjective(got[u])
    BY <1>1, <1>8 DEF MayPost, Nested, Knows
  <2>2. Owned(u) = ToSet(got[u]) /\ got'[u] = RemoveFirst(got[u], o) /\ prio'[u] = saved[o]
    BY <1>0, <1>1, <1>8
  <2>3. o \in Owned(u) /\ saved[FirstOf(u)] = base[u]
    BY <1>0, <1>1, <1>8 DEF MayPost, Owned, Restored
  <2>4. CASE got'[u] = <<>>
    <3>1. got[u][1] = o /\ ToSet(got[u]) = {o}
      BY <1>1, <2>1, <2>2, <2>4, LastOut
    <3>2. FirstOf(u) = o /\ Owned(u)' = {}
      BY <1>1, <1>8, <2>1, <2>2, <3>1 DEF FirstOf
    <3> QED  BY <1>8, <2>2, <2>3, <3>2 DEF Restored
  <2>5. CASE got'[u] # <<>>
    <3>1. Head(got'[u]) = Head(got[u]) /\ Head(got[u]) # o
      BY <1>1, <2>1, <2>2, <2>5, LastOut
    <3>2. FirstOf(u)' = FirstOf(u) /\ FirstOf(u) # o /\ FirstOf(u) \in Owned(u)
      BY <1>1, <2>1, <2>3, <2>5, <3>1 DEF FirstOf
    <3>3. saved'[FirstOf(u)] = saved[FirstOf(u)] /\ Owned(u)' # {}
      BY <1>8, <3>2 DEF Owned
    <3> QED  BY <1>8, <2>3, <3>2, <3>3 DEF Restored
  <2> QED  BY <2>4, <2>5
<1>9. ASSUME NEW o \in Obj, MuxPostFree(o) PROVE Restored(u)'
  <2>1. /\ MayPost(o) /\ UNCHANGED <<status, pc, wanted, owner, saved, base>>
        /\ muxCount[o] = 1 /\ owner[o] = run
        /\ muxCount' = [muxCount EXCEPT ![o] = 0]
        /\ got' = [got EXCEPT ![run] = RemoveFirst(@, o)]
        /\ prio' = [prio EXCEPT ![run] = saved[o]]
    BY <1>9 DEF MuxPostFree, MayPost, Owns
  <2>2. CASE u # run
    <3>1. Owned(u)' = Owned(u) /\ got'[u] = got[u] /\ prio'[u] = prio[u]
      BY <1>0, <2>1, <2>2 DEF Owned, Owns
    <3> QED  BY <1>0, <1>1, <2>1, <3>1, RestoredKept
  <2>3. CASE u = run
    <3>1. Owned(u)' = Owned(u) \ {o}
      BY <1>0, <2>1, <2>3 DEF Owned, Owns
    <3> QED  BY <1>2, <1>8, <1>9, <2>1, <2>3, <3>1
  <2> QED  BY <2>2, <2>3
<1>10. ASSUME NEW o \in Obj, MuxPostHand(o) PROVE Restored(u)'
  <2> DEFINE t == Head(list[o])
  <2>1. /\ MayPost(o) /\ UNCHANGED <<muxCount, wanted, base>> /\ muxCount[o] = 1 /\ owner[o] = run
        /\ owner' = [owner EXCEPT ![o] = t] /\ saved' = [saved EXCEPT ![o] = prio[t]]
        /\ got' = [got EXCEPT ![run] = RemoveFirst(@, o)]
        /\ prio' = [prio EXCEPT ![run] = saved[o]]
    BY <1>10 DEF MuxPostHand, MayPost, Owns
  <2>2. PICK L : Hand(L, "task", o)
    BY <1>0, <1>10, MuxStarts DEF Release
  <2>3. /\ t \in Task /\ t \in ToSet(list[o]) /\ status[t] \cap Waits # {}
        /\ \A v \in Task \ {t} : status'[v] = status[v]
    BY <1>0, <2>2, HandCarries
  <2>4. wanted[t] = o /\ pc[t] \in InCall /\ t # run
    BY <1>2, <1>10, <2>3 DEF KnowInv, Wants
  <2>5. "UNUSED" \notin status[t] /\ "UNUSED" \notin status'[t]
    <3>1. "UNUSED" \notin status[t]
      BY <1>0, <2>3, <2>4 DEF CallInv
    <3>2. status'[t] = Woken(t, o) \/ status'[t] = Woken(t, o) \cup {"READY"}
      BY <1>0, <2>2, <2>3 DEF Hand, TypeInv, TypeOK
    <3> QED  BY <3>1, <3>2 DEF Woken
  <2> HIDE DEF t
  <2>6. CASE u \notin {run, t}
    <3>1. Owned(u)' = Owned(u) /\ o \notin Owned(u)
      BY <1>0, <2>1, <2>6 DEF Owned, Owns
    <3>2. UNCHANGED <<got[u], wanted[u], prio[u], base[u], status[u]>>
      BY <1>0, <2>1, <2>3, <2>6
    <3>3. Owned(u) # {} => saved'[FirstOf(u)] = saved[FirstOf(u)]
      BY <1>0, <1>1, <2>1, <3>1 DEF Owned
    <3> QED  BY <1>0, <1>1, <3>1, <3>2, <3>3, RestoredKept
  <2>7. CASE u = run
    <3>1. Owned(u)' = Owned(u) \ {o}
      BY <1>0, <2>1, <2>4, <2>7 DEF Owned, Owns
    <3>2. "UNUSED" \notin status'[u] /\ \A m \in Obj \ {o} : saved'[m] = saved[m]
      BY <1>0, <1>2, <1>10, <2>1, <2>3, <2>4, <2>7
    <3> QED  BY <1>2, <1>8, <1>10, <2>1, <2>7, <3>1, <3>2
  <2>8. CASE u = t
    <3>1. Owned(u)' = Owned(u) \cup {o} /\ o \notin Owned(u) /\ got'[u] = got[u]
      BY <1>0, <2>1, <2>4, <2>8 DEF Owned, Owns
    <3>2. wanted'[u] = o /\ saved'[o] = prio[u] /\ base'[u] = base[u]
      BY <1>0, <2>1, <2>4, <2>8
    <3>3. CASE got[u] = <<>>
      <4>1. Owned(u) = {}
        BY <1>0, <1>1, <2>3, <2>4, <2>8, <3>3 DEF Knows, Handed, ToSet
      <4>2. prio[u] = base[u] /\ FirstOf(u)' = o
        BY <1>1, <3>1, <3>2, <3>3, <4>1 DEF Restored, FirstOf
      <4> QED  BY <2>5, <2>8, <3>1, <3>2, <4>2 DEF Restored
    <3>4. CASE got[u] # <<>>
      <4>1. FirstOf(u)' = FirstOf(u) /\ FirstOf(u) \in Owned(u)
        BY <1>1, <3>1, <3>4 DEF FirstOf
      <4>2. saved'[FirstOf(u)] = saved[FirstOf(u)]
        BY <1>0, <2>1, <3>1, <4>1 DEF Owned
      <4> QED  BY <1>0, <1>1, <2>5, <2>8, <3>1, <3>2, <4>1, <4>2 DEF Restored
    <3> QED  BY <3>3, <3>4
  <2> QED  BY <2>6, <2>7, <2>8
<1>11. ASSUME NEW o \in Obj, NEW n \in Timeouts \cup {Forever}, MuxPendBlock(o, n)
       PROVE  Restored(u)'
  <2>1. /\ UNCHANGED <<muxCount, owner, saved, got, base>>
        /\ wanted' = [wanted EXCEPT ![run] = o]
        /\ muxCount[o] > 0 /\ owner[o] # run
        /\ prio' = prio \/ \E p : prio' = [prio EXCEPT ![owner[o]] = p]
    BY <1>11 DEF MuxPendBlock
  <2>2. PICK L : Block(L, o, n, Len(Unlink(L, run)[o]) + 1)
    BY <1>0, <1>11, MuxStarts
  <2>3. /\ run \in Task /\ pc[run] \notin InCall /\ "UNUSED" \notin status'[run]
        /\ \A t \in Task \ {run} : status'[t] = status[t]
    BY <1>0, <2>2, PendCarries DEF InCall, Block, TypeInv, TypeOK
  <2>4. Owned(u)' = Owned(u) /\ got'[u] = got[u] /\ base'[u] = base[u]
    BY <2>1 DEF Owned, Owns
  <2>5. Owned(u) = {} => prio'[u] = prio[u]
    BY <1>0, <2>1 DEF Owned, Owns
  <2>6. CASE Owned(u) = {}
    BY <1>1, <2>4, <2>5, <2>6 DEF Restored
  <2>7. CASE Owned(u) # {}
    <3>1. FirstOf(u)' = FirstOf(u)
      <4>1. CASE u = run
        <5>1. got[u] # <<>>
          BY <1>1, <2>3, <2>7, <4>1 DEF ToSet
        <5> QED  BY <2>4, <5>1 DEF FirstOf
      <4>2. CASE u # run
        <5>1. wanted'[u] = wanted[u]
          BY <1>0, <2>1, <4>2
        <5> QED  BY <2>4, <5>1 DEF FirstOf
      <4> QED  BY <4>1, <4>2
    <3>2. "UNUSED" \notin status'[u]
      BY <1>0, <1>1, <2>3, <2>7 DEF Restored
    <3> QED  BY <1>0, <1>1, <2>1, <2>4, <2>7, <3>1, <3>2 DEF Restored
  <2> QED  BY <2>6, <2>7
<1>12. CASE MuxPendReturn
  <2>1. /\ WaitReturn /\ UNCHANGED <<muxCount, owner, saved, wanted, base, prio>>
        /\ got' = IF "TIMEOUT" \in status[run] THEN got
                  ELSE [got EXCEPT ![run] = Append(@, wanted[run])]
        /\ status' = [status EXCEPT ![run] = @ \ {"TIMEOUT"}]
    BY <1>12 DEF MuxPendReturn, muxVars, WaitReturn
  <2>2. run \in Task /\ pc[run] = "woken"
    BY <2>1 DEF WaitReturn, TaskRuns
  <2>3. Owned(u)' = Owned(u) /\ ("UNUSED" \in status'[u] => "UNUSED" \in status[u])
    BY <1>0, <2>1 DEF Owned, Owns, TypeInv, TypeOK
  <2>4. CASE Owned(u) = {}
    BY <1>1, <2>1, <2>3, <2>4 DEF Restored
  <2>5. CASE Owned(u) # {}
    <3>1. FirstOf(u)' = FirstOf(u)
      <4>1. CASE got'[u] = got[u]
        BY <2>1, <4>1 DEF FirstOf
      <4>2. CASE got'[u] # got[u]
        <5>1. got'[u] = Append(got[u], wanted[u])
          BY <1>0, <2>1, <2>2, <4>2
        <5>2. wanted[u] \in Obj
          <6>1. u = run
            BY <1>0, <2>1, <2>2, <4>2
          <6> QED  BY <1>0, <1>1, <2>2, <6>1 DEF Knows, InCall
        <5>3. Append(got[u], wanted[u]) # <<>>
              /\ Head(Append(got[u], wanted[u])) = IF got[u] = <<>> THEN wanted[u] ELSE Head(got[u])
          <6> DEFINE g == got[u]
                     w == wanted[u]
          <6>1. g \in Seq(Obj) /\ w \in Obj
            BY <1>1, <5>2
          <6> HIDE DEF g, w
          <6>2. /\ Append(g, w) # <<>> /\ Append(g, w) \in Seq(Obj)
                /\ Append(g, w)[Len(g) + 1] = w
                /\ \A i \in 1..Len(g) : Append(g, w)[i] = g[i]
            BY <6>1, AppendProperties
          <6>3. Head(Append(g, w)) = Append(g, w)[1]
            BY <6>2
          <6>4. CASE g = <<>>
            BY <6>2, <6>3, <6>4
          <6>5. CASE g # <<>>
            <7>1. 1 \in 1..Len(g) /\ Head(g) = g[1]
              BY <6>1, <6>5
            <7> QED  BY <6>2, <6>3, <6>5, <7>1
          <6> QED  BY <6>2, <6>4, <6>5 DEF g, w
        <5> QED  BY <5>1, <5>3, <2>1 DEF FirstOf
      <4> QED  BY <4>1, <4>2
    <3> QED  BY <1>0, <1>1, <2>1, <2>3, <2>5, <3>1 DEF Restored
  <2> QED  BY <2>4, <2>5
<1>13. CASE MuxOtherStep
  <2>1. /\ KernelStep /\ UNCHANGED <<muxCount, owner, saved, wanted, got>>
        /\ base'[u] = IF prio'[u] # prio[u] THEN prio'[u] ELSE base[u]
    BY <1>13 DEF MuxOtherStep, muxVars
  <2>2. /\ prio'[u] # prio[u] => "UNUSED" \in status[u]
        /\ "UNUSED" \in status'[u] => "UNUSED" \in status[u]
    BY <1>0, <2>1, KernelPrio
  <2>3. Owned(u)' = Owned(u) /\ FirstOf(u)' = FirstOf(u)
    BY <2>1 DEF Owned, Owns, FirstOf
  <2> QED  BY <1>0, <1>1, <2>1, <2>2, <2>3 DEF Restored
<1> QED
  BY <1>4, <1>5, <1>6, <1>7, <1>9, <1>10, <1>11, <1>12, <1>13 DEF MuxNext

\* In a kernel without time slices whose tasks release mutexes in order, and in which no
\* task ends or is given another priority, a task that owns no mutex has the priority the
\* application gave it: every boost ends, whatever waiters give up and however mutexes nest.
THEOREM BoostsEnd ==
  ASSUME Slice = 0, Nested
  PROVE  MuxSpec => []BoostEnds
<1> DEFINE Inv == KnowInv /\ \A t \in Task : Restored(t)
<1>1. MuxInit => Inv
  <2>1. MuxInit => KnowInv
    BY KnowInit
  <2>2. ASSUME MuxInit, NEW t \in Task PROVE Restored(t)
    BY <2>2 DEF MuxInit, Init, Restored, Owned, Owns
  <2> QED  BY <2>1, <2>2
<1>2. Inv /\ [MuxNext]_allVars => Inv'
  <2> SUFFICES ASSUME Inv, [MuxNext]_allVars PROVE Inv'
    OBVIOUS
  <2>1. KnowInv'
    BY KnowStep DEF Nested
  <2>2. CASE UNCHANGED allVars
    BY <2>1, <2>2 DEF Restored, FirstOf, Owned, Owns, allVars, muxVars, vars, taskVars
  <2>3. CASE MuxNext
    BY <2>1, <2>3, RestoredStep
  <2> QED  BY <2>2, <2>3
<1>3. Inv => BoostEnds
  BY DEF Restored, Owned, BoostEnds
<1> QED  BY <1>1, <1>2, <1>3, PTL DEF MuxSpec
=============================================================================
