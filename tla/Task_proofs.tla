---------------------------- MODULE Task_proofs ----------------------------
(***************************************************************************)
(* Proofs about Task, for any number of tasks, priorities and objects.     *)
(*                                                                         *)
(* TypeOK is not inductive.  pstNewTask is always a task only because some *)
(* task is always ready, that is because no call ever blocks, suspends or  *)
(* deletes Idle (IdleInv).  The locals of interrupted calls must be set    *)
(* (LocalInv), and the count of the scheduler lock stays in range because  *)
(* of where a task that ends stands (LockInv).  TypeInv joins the three.   *)
(*                                                                         *)
(* The second part proves that Task uses the delay list as DelayList asks  *)
(* (KeepsDelayList).                                                       *)
(*                                                                         *)
(* The third part is about the lists of tasks, the last about who gets the *)
(* processor.                                                              *)
(***************************************************************************)
EXTENDS Task, SeqLemmas, TLAPS

Lists == [Head_ -> Seq(Task)]

\* The heads of lists are different objects, and what the constants are.
LEMMA Heads ==
  /\ Lowest \in Prio /\ Prio \subseteq Head_ /\ Obj \subseteq Head_
  /\ Lowest \in Head_ /\ Free \in Head_ /\ Recycle \in Head_ /\ Free # Recycle
  /\ Free \notin Prio /\ Recycle \notin Prio /\ Free \notin Obj /\ Recycle \notin Obj
  /\ Prio \cap Obj = {} /\ Free # Lowest /\ Recycle # Lowest /\ Lowest \notin Obj
  /\ Idle \in Task /\ AppPrio \subseteq Prio
  /\ Dummy \notin Task /\ Null \notin Task /\ Null # Dummy
  /\ Slice \in Nat /\ MaxLock \in Nat
<1>1. Lowest \in 0..Lowest
  BY TaskAssumption
<1> QED  BY <1>1, TaskAssumption DEF Head_, Prio

\* The flags of a status and the places in a call that the proofs name.
LEMMA Members ==
  /\ "UNUSED" \in Flag /\ "SUSPEND" \in Flag /\ "READY" \in Flag /\ "PEND" \in Flag
  /\ "PEND_QUEUE" \in Flag /\ "DELAY" \in Flag /\ "TIMEOUT" \in Flag /\ "DETACHED" \in Flag
  /\ "user" \in Place /\ "alloc" \in Place /\ "create" \in Place /\ "switch" \in Place /\ "sched" \in Place
  /\ "wait" \in Place /\ "woken" \in Place /\ "finish" \in Place /\ "unlock" \in Place
  /\ "exit" \in Place /\ "dead" \in Place
  /\ "user" \notin {"alloc", "create"} /\ "user" # "unlock"
BY DEF Flag, Place

\* The attributes an application may give a task are flags.
LEMMA Attributes == \A f \in Attr : f \in SUBSET Flag
BY TaskAssumption DEF Flag

\* LOS_ListDelete leaves every other task where it is.
LEMMA UnlinkType ==
  ASSUME NEW L \in Lists, NEW t
  PROVE  /\ Unlink(L, t) \in Lists
         /\ \A h \in Head_, u \in Task \ {t} :
              u \in ToSet(Unlink(L, t)[h]) <=> u \in ToSet(L[h])
         /\ \A h \in Head_ : /\ ToSet(Unlink(L, t)[h]) \subseteq ToSet(L[h])
                             /\ IsInjective(L[h]) => IsInjective(Unlink(L, t)[h])
<1>1. ASSUME NEW h \in Head_
      PROVE  /\ RemoveFirst(L[h], t) \in Seq(Task)
             /\ ToSet(RemoveFirst(L[h], t)) \subseteq ToSet(L[h])
             /\ ToSet(L[h]) \ {t} \subseteq ToSet(RemoveFirst(L[h], t))
             /\ IsInjective(L[h]) => IsInjective(RemoveFirst(L[h], t))
  BY RemoveFirstRange DEF Lists
<1> QED  BY <1>1 DEF Unlink, Lists

\* LOS_ListTailInsert puts one task on one list.
LEMMA AddTailType ==
  ASSUME NEW L \in Lists, NEW h \in Head_, NEW t \in Task
  PROVE  /\ AddTail(L, h, t) \in Lists
         /\ \A g \in Head_, u \in Task : u \in ToSet(AddTail(L, h, t)[g]) <=>
                                   u \in ToSet(L[g]) \/ (g = h /\ u = t)
<1>1. /\ Append(L[h], t) \in Seq(Task)
      /\ ToSet(Append(L[h], t)) = ToSet(L[h]) \cup {t}
  BY AppendRange DEF Lists
<1> QED  BY <1>1 DEF AddTail, Lists

\* LOS_ListAdd puts one task on one list.
LEMMA AddHeadType ==
  ASSUME NEW L \in Lists, NEW h \in Head_, NEW t \in Task
  PROVE  /\ AddHead(L, h, t) \in Lists
         /\ \A g \in Head_, u \in Task : u \in ToSet(AddHead(L, h, t)[g]) <=>
                                   u \in ToSet(L[g]) \/ (g = h /\ u = t)
<1> DEFINE w == <<t>>
<1>1. w \in Seq(Task) /\ ToSet(w) = {t}
  BY SingletonRange
<1>2. L[h] \in Seq(Task)
  BY DEF Lists
<1> HIDE DEF w
<1>3. w \o L[h] \in Seq(Task) /\ ToSet(w \o L[h]) = ToSet(L[h]) \cup {t}
  BY <1>1, <1>2, ConcatRange
<1>4. AddHead(L, h, t) = [L EXCEPT ![h] = w \o @]
  BY DEF AddHead, w
<1> QED  BY <1>3, <1>4 DEF Lists

\* LOS_PriqueueTop returns a task that is on a ready list, because Idle always is.
LEMMA TopType ==
  ASSUME NEW L \in Lists, Idle \in ToSet(L[Lowest])
  PROVE  /\ Top(L) \in Task
         /\ \E p \in Prio : Top(L) \in ToSet(L[p])
<1> DEFINE P == {p \in Prio : L[p] # <<>>}
<1>1. Lowest \in P /\ P \in SUBSET Nat
  BY TaskAssumption DEF Prio, ToSet
<1>2. \E p \in P : \A q \in P : p <= q
  BY <1>1, MinExists
<1>3. PICK p \in Prio : /\ L[p] # <<>> /\ \A q \in Prio : L[q] # <<>> => p <= q
                        /\ Top(L) = Head(L[p])
  BY <1>2 DEF Top
<1>4. L[p] \in Seq(Task)
  BY DEF Lists, Head_
<1> QED  BY <1>3, <1>4, HeadTailRange

\* Recycling moves all tasks of g_stTskRecyleList to g_stLosFreeTask and no others.
LEMMA ReclaimedType ==
  ASSUME list \in Lists
  PROVE  /\ Reclaimed \in Lists
         /\ ToSet(Reclaimed[Free]) = ToSet(list[Free]) \cup ToSet(list[Recycle])
         /\ Reclaimed[Recycle] = <<>>
         /\ \A h \in Head_ \ {Free, Recycle} : Reclaimed[h] = list[h]
<1> DEFINE r == Reverse(list[Recycle])
<1>1. Free \in Head_ /\ Recycle \in Head_ /\ Free # Recycle
  BY TaskAssumption DEF Head_
<1>2. list[Free] \in Seq(Task) /\ list[Recycle] \in Seq(Task)
  BY <1>1 DEF Lists
<1>3. r \in Seq(Task) /\ ToSet(r) = ToSet(list[Recycle])
  BY <1>2, ReverseRange
<1> HIDE DEF r
<1>4. r \o list[Free] \in Seq(Task) /\ ToSet(r \o list[Free]) = ToSet(r) \cup ToSet(list[Free])
  BY <1>2, <1>3, ConcatRange
<1>5. Reclaimed = [list EXCEPT ![Free] = r \o @, ![Recycle] = <<>>]
  BY DEF Reclaimed, r
<1>6. <<>> \in Seq(Task)
  OBVIOUS
<1> QED  BY <1>1, <1>3, <1>4, <1>5, <1>6 DEF Lists

\* The delay list loses or gains the one task named.
LEMMA TimerType ==
  ASSUME NEW Q \in Seq(Task), NEW t \in Task, NEW n
  PROVE  /\ DelTimer(Q, t) \in Seq(Task) /\ ToSet(DelTimer(Q, t)) \subseteq ToSet(Q)
         /\ AddTimer(Q, t, n) \in Seq(Task) /\ ToSet(AddTimer(Q, t, n)) = ToSet(Q) \cup {t}
<1>1. DelTimer(Q, t) \in Seq(Task) /\ ToSet(DelTimer(Q, t)) \subseteq ToSet(Q)
  BY RemoveFirstRange DEF DelTimer
<1> DEFINE I == {i \in DOMAIN Q : left[Q[i]] <= n}
<1>2. Len(Q) \in Nat /\ DOMAIN Q = 1..Len(Q)
  BY InToSet
<1>3. IsFiniteSet(1..Len(Q)) /\ Cardinality(1..Len(Q)) = Len(Q)
  BY <1>2, FS_Interval
<1>4. I \in SUBSET (1..Len(Q))
  BY <1>2
<1> HIDE DEF I
<1>5. IsFiniteSet(I) /\ Cardinality(I) <= Len(Q)
  BY <1>3, <1>4, FS_Subset
<1>6. Cardinality(I) \in Nat
  BY <1>5, FS_CardinalityType
<1>7. 1 + Cardinality(I) \in 1..Len(Q) + 1
  BY <1>2, <1>5, <1>6
<1>8. AddTimer(Q, t, n) = InsertAt(Q, 1 + Cardinality(I), t)
  BY DEF AddTimer, I
<1> QED  BY <1>1, <1>7, <1>8, InsertAtRange
-----------------------------------------------------------------------------
\* A family of lists of tasks in which Idle is on the list of the lowest priority alone.
GoodLists(L) ==
  /\ L \in Lists /\ Idle \in ToSet(L[Lowest])
  /\ \A h \in Head_ \ {Lowest} : Idle \notin ToSet(L[h])

\* Idle is always ready and never waits, is suspended or is created anew.
IdleInv ==
  /\ GoodLists(list) /\ prio[Idle] = Lowest
  /\ "READY" \in status[Idle] /\ status[Idle] \cap {"SUSPEND", "UNUSED"} = {}
  /\ Idle \notin ToSet(timerQ) /\ scan.task # Idle /\ pc[Idle] = "user"
  /\ \A u \in Task : newborn[u] # Idle

\* The locals of a call in progress are set.
LocalInv ==
  /\ \A u \in Task : pc[u] \in {"alloc", "create"} => newborn[u] # Null
  /\ scan.at = "expire" => scan.task # Null
  /\ slice.task # Null => slice.left > 0

\* Switches happen only with the scheduler unlocked, and what the kernel does on behalf
\* of a task that ends happens with the lock it expects.
LockInv ==
  /\ ~started => run = Dummy /\ ~pendsv /\ scan.at = "idle"
  /\ pendsv \/ run = Dummy => lock = 0
  /\ run \in Task /\ pc[run] \in {"switch", "finish", "exit"} => lock = 0
  /\ \A u \in Task : pc[u] = "unlock" => u = run /\ lock = 1

TypeInv == TypeOK /\ IdleInv /\ LocalInv /\ LockInv

\* Taking a task other than Idle off its list leaves Idle on its list.
LEMMA GoodUnlink ==
  ASSUME NEW L, GoodLists(L), NEW t, t # Idle
  PROVE  GoodLists(Unlink(L, t))
BY Heads, UnlinkType DEF GoodLists

\* So does an insertion of a task other than Idle at the end of a list ...
LEMMA GoodAddTail ==
  ASSUME NEW L, GoodLists(L), NEW h \in Head_, NEW t \in Task, t # Idle
  PROVE  GoodLists(AddTail(L, h, t))
BY Heads, AddTailType DEF GoodLists

\* ... or at its front.
LEMMA GoodAddHead ==
  ASSUME NEW L, GoodLists(L), NEW h \in Head_, NEW t \in Task, t # Idle
  PROVE  GoodLists(AddHead(L, h, t))
BY Heads, AddHeadType DEF GoodLists

\* Idle, which yields only to itself, stays on the list of the lowest priority.
LEMMA GoodMoveIdle ==
  ASSUME NEW L, GoodLists(L)
  PROVE  GoodLists(AddTail(Unlink(L, Idle), Lowest, Idle))
<1>2. /\ Unlink(L, Idle) \in Lists
      /\ \A h \in Head_ \ {Lowest} : Idle \notin ToSet(Unlink(L, Idle)[h])
  BY UnlinkType DEF GoodLists
<1> QED  BY <1>2, Heads, AddTailType DEF GoodLists

\* The first task of a list other than that of the lowest priority is not Idle, and
\* taking it off leaves Idle on its list.
LEMMA GoodHead ==
  ASSUME NEW L, GoodLists(L), NEW h \in Head_ \ {Lowest}, L[h] # <<>>
  PROVE  /\ Head(L[h]) \in Task \ {Idle} /\ Head(L[h]) \in ToSet(L[h])
         /\ GoodLists([L EXCEPT ![h] = Tail(@)])
<1>2. L[h] \in Seq(Task)
  BY DEF GoodLists, Lists
<1>3. /\ Head(L[h]) \in ToSet(L[h]) /\ Head(L[h]) \in Task
      /\ Tail(L[h]) \in Seq(Task) /\ ToSet(Tail(L[h])) \subseteq ToSet(L[h])
  BY <1>2, HeadTailRange
<1>4. [L EXCEPT ![h] = Tail(@)] \in Lists
  BY <1>3 DEF GoodLists, Lists
<1> QED  BY <1>3, <1>4, Heads DEF GoodLists, Lists

\* Idle is never recycled.
LEMMA GoodReclaimed ==
  ASSUME GoodLists(list)
  PROVE  GoodLists(Reclaimed)
<1>1. Idle \notin ToSet(<<>>)
  BY DEF ToSet
<1> QED  BY <1>1, Heads, ReclaimedType DEF GoodLists

\* There is always a task to switch to.
LEMMA GoodTop ==
  ASSUME NEW L, GoodLists(L)
  PROVE  Top(L) \in Task
BY TopType DEF GoodLists

\* Who makes a call: never Idle, and a task only when it executes its own code.
LEMMA MayCallContext ==
  ASSUME TypeInv, NEW c, NEW name, MayCall(c, name)
  PROVE  /\ c = "task" => run \in Task \ {Idle} /\ pc[run] = "user" /\ ~pendsv /\ started
         /\ c = "isr" => started
BY DEF MayCall, TaskRuns

\* A task is woken by a call, or by a task that was itself woken and goes on in its call.
Wakes(c, o) ==
  /\ Hand(list, c, o) /\ UNCHANGED prio
  /\ MayCall(c, "Wake") \/ (c = "task" /\ TaskRuns("woken") /\ "TIMEOUT" \notin status[run])

LEMMA WakesContext ==
  ASSUME NEW o \in Obj
  PROVE  /\ PassOn(o) => \E c \in Context : Wakes(c, o)
         /\ \A c \in Context : Wake(c, o) => Wakes(c, o)
         /\ TypeInv => \A c \in Context : Wakes(c, o) =>
              /\ c = "task" => /\ run \in Task \ {Idle} /\ pc[run] \in {"user", "woken"}
                               /\ ~pendsv /\ started
              /\ c = "isr" => started
<1>1. PassOn(o) => \E c \in Context : Wakes(c, o)
  BY DEF PassOn, Wakes, Context
<1>2. \A c \in Context : Wake(c, o) => Wakes(c, o)
  BY DEF Wake, Release, Wakes
<1>3. TaskRuns("woken") /\ TypeInv =>
        run \in Task \ {Idle} /\ pc[run] = "woken" /\ ~pendsv /\ started
  BY DEF TaskRuns, TypeInv, IdleInv
<1> QED  BY <1>1, <1>2, <1>3, MayCallContext DEF Wakes

\* LOS_Schedule keeps the program counters and the invariant of the scheduler lock:
\* it asks for a switch only when the lock is free.
LEMMA ScheduleType ==
  ASSUME TypeInv, NEW c \in Context, GoodLists(list'), Schedule(c) \/ NoSchedule,
         UNCHANGED <<run, newborn, started>>, scan' = scan \/ started,
         lock' = lock \/ (c = "task" /\ lock' \in Nat),
         c = "task" => /\ run \in Task \ {Idle} /\ pc[run] \in {"user", "woken"}
                       /\ ~pendsv /\ started,
         c = "isr" => started
  PROVE  /\ pendsv' \in BOOLEAN /\ pc' \in [Task -> Place] /\ pc'[Idle] = "user" /\ LockInv'
         /\ \A u \in Task : pc'[u] \in {"alloc", "create"} => newborn'[u] # Null
<1>0. run' = run /\ newborn' = newborn /\ started' = started /\ (scan' = scan \/ started)
  OBVIOUS
<1>1. CASE NoSchedule
  <2>1. pc' = pc /\ pendsv' = pendsv /\ new' = new
    BY <1>1 DEF NoSchedule
  <2>2. LockInv'
    BY <1>0, <2>1, Heads DEF TypeInv, LockInv
  <2> QED BY <1>0, <2>1, <2>2 DEF TypeInv, TypeOK, IdleInv, LocalInv
<1>2. CASE c = "task" /\ Schedule(c)
  <2>1. /\ pc' = [pc EXCEPT ![run] = "sched"] /\ pendsv' = pendsv
    BY <1>2 DEF Schedule
  <2>3. pendsv' \in BOOLEAN
    BY <2>1 DEF TypeInv, TypeOK
  <2>4. pc' \in [Task -> Place] /\ pc'[Idle] = "user"
    BY <1>2, <2>1, Heads, Members DEF TypeInv, TypeOK, IdleInv
  <2>5. \A u \in Task : pc'[u] \notin {"unlock", "alloc", "create"} \/ (pc'[u] # "unlock" /\ pc'[u] = pc[u])
    BY <1>2, <2>1 DEF TypeInv, TypeOK, LockInv
  <2>6. LockInv'
    BY <1>0, <1>2, <2>1, <2>5, Heads DEF TypeInv, TypeOK, LockInv
  <2>7. \A u \in Task : pc'[u] \in {"alloc", "create"} => newborn'[u] # Null
    BY <1>0, <2>5 DEF TypeInv, LocalInv
  <2> QED BY <2>3, <2>4, <2>6, <2>7
<1>3. CASE c # "task" /\ Schedule(c)
  <2>1. /\ pc' = pc /\ lock' = lock
        /\ \/ pendsv' = pendsv
           \/ started /\ pendsv' = (pendsv \/ (run # new' /\ lock = 0))
    BY <1>3 DEF Schedule, Context
  <2>2. pendsv' \in BOOLEAN
    BY <2>1 DEF TypeInv, TypeOK
  <2>3. LockInv'
    BY <1>0, <2>1, Heads DEF TypeInv, TypeOK, LockInv
  <2> QED BY <1>0, <2>1, <2>2, <2>3, Heads DEF TypeInv, TypeOK, IdleInv, LocalInv
<1> QED  BY <1>1, <1>2, <1>3

\* A task that blocks leaves Idle where it is.
LEMMA GoodInsert ==
  ASSUME NEW L, GoodLists(L), NEW t \in Task \ {Idle}, NEW o \in Obj,
         NEW i \in 1..Len(Unlink(L, t)[o]) + 1
  PROVE  GoodLists([Unlink(L, t) EXCEPT ![o] = InsertAt(@, i, t)])
<1> DEFINE M == Unlink(L, t)
           s == InsertAt(M[o], i, t)
<1>0. GoodLists(M)
  BY GoodUnlink
<1> HIDE DEF M
<1>1. M[o] \in Seq(Task) /\ o \in Head_ /\ o # Lowest
  BY <1>0, Heads DEF GoodLists, Lists
<1>2. s \in Seq(Task) /\ ToSet(s) = ToSet(M[o]) \cup {t}
  BY <1>1, InsertAtRange DEF M
<1> HIDE DEF s
<1>3. GoodLists([M EXCEPT ![o] = s])
  BY <1>0, <1>1, <1>2, Heads DEF GoodLists, Lists
<1> QED  BY <1>3 DEF M, s

\* A control block taken for a new task is not that of Idle.
LEMMA TakenType ==
  ASSUME TypeInv, Reclaimed[Free] # <<>>
  PROVE  /\ Head(Reclaimed[Free]) \in Task \ {Idle}
         /\ GoodLists([Reclaimed EXCEPT ![Free] = Tail(@)])
<1>1. GoodLists(Reclaimed)
  BY GoodReclaimed DEF TypeInv, IdleInv
<1> QED  BY <1>1, GoodHead, Heads

LEMMA CreateType ==
  ASSUME TypeInv, NEW c, NEW t \in Task, NEW p \in AppPrio, NEW flags, NEW only,
         CreateAtOnce(c, t, p, flags, only)
  PROVE  t # Idle /\ GoodLists(list')
<1> DEFINE M == [Reclaimed EXCEPT ![Free] = Tail(@)]
<1>1. t \in Task \ {Idle} /\ GoodLists(M)
  BY TakenType DEF CreateAtOnce
<1>2. list' = M \/ list' = AddTail(M, p, t)
  BY DEF CreateAtOnce
<1> HIDE DEF M
<1> QED  BY <1>1, <1>2, GoodAddTail, Heads

\* What a task has taken for the task it creates.
LEMMA NewbornType ==
  ASSUME TypeInv, NEW where \in {"alloc", "create"}, TaskRuns(where)
  PROVE  run \in Task \ {Idle} /\ newborn[run] \in Task \ {Idle} /\ ~pendsv /\ started
BY Members DEF TaskRuns, TypeInv, TypeOK, IdleInv, LocalInv

\* The deletion of the running task leaves Idle ready and a task to switch to.
LEMMA RetireRunType ==
  ASSUME TypeInv, NEW c, run \in Task \ {Idle}, RetireRun(c)
  PROVE  GoodLists(list') /\ new' \in Task
<1>1. GoodLists(Detach(run))
  BY GoodUnlink DEF Detach, TypeInv, IdleInv
<1>2. GoodLists(list')
  BY <1>1, GoodAddTail, Heads DEF RetireRun
<1> QED  BY <1>2, GoodTop DEF RetireRun

\* A yield leaves Idle on its list.
LEMMA RotateType ==
  ASSUME TypeInv, run \in Task, Rotate
  PROVE  GoodLists(list')
<1>1. CASE run = Idle
  BY <1>1, GoodMoveIdle DEF Rotate, TypeInv, IdleInv
<1>2. CASE run # Idle
  <2>1. GoodLists(Unlink(list, run)) /\ prio[run] \in Head_
    BY <1>2, GoodUnlink, Heads DEF TypeInv, TypeOK, IdleInv
  <2> QED  BY <1>2, <2>1, GoodAddTail DEF Rotate
<1> QED  BY <1>1, <1>2

\* LOS_Schedule chooses a task.
LEMMA ScheduleNew ==
  ASSUME TypeInv, NEW c, Schedule(c), GoodLists(list')
  PROVE  new' \in Task
BY GoodTop DEF Schedule, TypeInv, TypeOK

\* A task that blocks, from lists and with priorities that leave Idle where it is.
LEMMA BlockType ==
  ASSUME TypeInv, NEW L, GoodLists(L), prio' \in [Task -> Prio], prio'[Idle] = Lowest,
         NEW o \in Obj, NEW n \in Timeouts \cup {Forever},
         NEW i \in 1..Len(Unlink(L, run)[o]) + 1, Block(L, o, n, i)
  PROVE  TypeInv'
<1>1. run \in Task \ {Idle} /\ started /\ ~pendsv /\ pc[run] = "user"
  BY DEF Block, MayCall, TaskRuns
<1>2. n \in Int
  BY TaskAssumption DEF Forever
<1>3. GoodLists(list')
  BY <1>1, GoodInsert DEF Block
<1>4. timerQ' \in Seq(Task) /\ Idle \notin ToSet(timerQ')
  BY <1>1, TimerType DEF Block, TypeInv, TypeOK, IdleInv
<1>5. \E S \in SUBSET Flag : status' = [status EXCEPT ![run] = S]
  BY <1>1, Members DEF Block, Kind, TypeInv, TypeOK
<1>6. status' \in [Task -> SUBSET Flag] /\ left' \in [Task -> Int]
  BY <1>1, <1>2, <1>5 DEF Block, TypeInv, TypeOK
<1>7. pc' \in [Task -> Place]
  BY <1>1, Members DEF Block, TypeInv, TypeOK
<1>8. halt' \in BOOLEAN /\ UNCHANGED <<run, new, lock, pendsv, started, zombie, newborn, slice, scan>>
  BY DEF Block, cpuVars, TypeInv, TypeOK
<1>9. TypeOK'
  BY <1>3, <1>4, <1>6, <1>7, <1>8 DEF TypeInv, TypeOK, GoodLists, Lists
<1>10. IdleInv'
  BY <1>1, <1>3, <1>4, <1>5, <1>8, Heads DEF Block, TypeInv, TypeOK, IdleInv
<1>11. LocalInv'
  BY <1>1, <1>8 DEF Block, TypeInv, TypeOK, LocalInv
<1>12. LockInv'
  BY <1>1, <1>8, Heads DEF Block, TypeInv, TypeOK, LockInv
<1> QED  BY <1>9, <1>10, <1>11, <1>12 DEF TypeInv

\* A task that is woken, in the same way.
LEMMA HandType ==
  ASSUME TypeInv, NEW L, GoodLists(L), prio' \in [Task -> Prio], prio'[Idle] = Lowest,
         NEW c \in Context, NEW o \in Obj, Hand(L, c, o),
         c = "task" => /\ run \in Task \ {Idle} /\ pc[run] \in {"user", "woken"}
                       /\ ~pendsv /\ started,
         c = "isr" => started
  PROVE  TypeInv'
<1> DEFINE t == Head(list[o])
<1>1. t \in Task \ {Idle} /\ prio[t] \in Head_
  BY GoodHead, Heads DEF Hand, TypeInv, TypeOK, IdleInv
<1>2. \/ list' = Unlink(L, t)
      \/ list' = AddTail(Unlink(L, t), prio[t], t)
  BY DEF Hand
<1>3. timerQ' = timerQ \/ timerQ' = DelTimer(timerQ, t)
  BY DEF Hand
<1>4. /\ \E S \in SUBSET Flag : status' = [status EXCEPT ![t] = S]
      /\ left' = left \/ left' = [left EXCEPT ![t] = 0]
  BY <1>1, Members DEF Hand, Woken, TypeInv, TypeOK
<1>5. /\ halt' \in BOOLEAN /\ UNCHANGED <<run, lock, started, zombie, newborn, slice, scan>>
      /\ Schedule(c)
  BY DEF Hand, TypeInv, TypeOK
<1> HIDE DEF t
<1>6. GoodLists(list')
  BY <1>1, <1>2, GoodUnlink, GoodAddTail
<1>7. timerQ' \in Seq(Task) /\ Idle \notin ToSet(timerQ')
  <2>1. timerQ \in Seq(Task) /\ Idle \notin ToSet(timerQ)
    BY DEF TypeInv, TypeOK, IdleInv
  <2> QED  BY <1>1, <1>3, <2>1, TimerType
<1>8. new' \in Task
  BY <1>5, <1>6, ScheduleNew
<1>9. /\ pendsv' \in BOOLEAN /\ pc' \in [Task -> Place] /\ pc'[Idle] = "user" /\ LockInv'
      /\ \A u \in Task : pc'[u] \in {"alloc", "create"} => newborn'[u] # Null
  BY <1>5, <1>6, ScheduleType
<1>10. status' \in [Task -> SUBSET Flag] /\ left' \in [Task -> Int]
  BY <1>1, <1>4 DEF TypeInv, TypeOK
<1>11. TypeOK'
  BY <1>5, <1>6, <1>7, <1>8, <1>9, <1>10 DEF TypeInv, TypeOK, GoodLists, Lists
<1>12. IdleInv'
  BY <1>1, <1>4, <1>5, <1>6, <1>7, <1>9 DEF TypeInv, TypeOK, IdleInv
<1>13. LocalInv'
  BY <1>5, <1>9 DEF TypeInv, LocalInv
<1> QED  BY <1>9, <1>11, <1>12, <1>13 DEF TypeInv

\* So do a call of LOS_XxxPend and a wake-up of Task.
LEMMA WaitType ==
  ASSUME TypeInv
  PROVE  /\ \A o \in Obj, n \in Timeouts \cup {Forever} :
              \A i \in 1..Len(Unlink(list, run)[o]) + 1 : Pend(o, n, i) => TypeInv'
         /\ \A c \in Context, o \in Obj : Wakes(c, o) => TypeInv'
<1>1. GoodLists(list) /\ prio \in [Task -> Prio] /\ prio[Idle] = Lowest
  BY DEF TypeInv, TypeOK, IdleInv
<1>2. ASSUME NEW o \in Obj, NEW n \in Timeouts \cup {Forever},
             NEW i \in 1..Len(Unlink(list, run)[o]) + 1, Pend(o, n, i)
      PROVE  TypeInv'
  BY <1>1, <1>2, BlockType DEF Pend
<1>3. ASSUME NEW c \in Context, NEW o \in Obj, Wakes(c, o) PROVE TypeInv'
  BY <1>1, <1>3, HandType, WakesContext DEF Wakes
<1> QED  BY <1>2, <1>3

\* Every step leaves Idle ready and alone in its place, and a task chosen to run.
LEMMA ListsStep ==
  TypeInv /\ [Next]_vars =>
    GoodLists(list') /\ new' \in Task /\ timerQ' \in Seq(Task) /\ Idle \notin ToSet(timerQ')
<1> DEFINE Goal == GoodLists(list') /\ new' \in Task
                   /\ timerQ' \in Seq(Task) /\ Idle \notin ToSet(timerQ')
<1> SUFFICES ASSUME TypeInv, [Next]_vars PROVE Goal
  OBVIOUS
<1>0. /\ GoodLists(list) /\ new \in Task /\ timerQ \in Seq(Task) /\ Idle \notin ToSet(timerQ)
      /\ prio \in [Task -> Prio] /\ run \in Task \cup {Dummy}
  BY DEF TypeInv, TypeOK, IdleInv
<1>1. CASE UNCHANGED <<list, new, timerQ>>
  BY <1>0, <1>1
<1>2. CASE TaskCreateReady
  <2>1. newborn[run] \in Task \ {Idle} /\ prio[newborn[run]] \in Head_
    BY <1>2, Heads DEF TaskCreateReady, TaskRuns, TypeInv, TypeOK, IdleInv, LocalInv
  <2>2. GoodLists(list')
    BY <1>0, <1>2, <2>1, GoodAddTail DEF TaskCreateReady
  <2> QED  BY <1>0, <1>2, <2>2, GoodTop DEF TaskCreateReady
<1>3. CASE TaskCreateTake
  BY <1>0, <1>3, TakenType DEF TaskCreateTake, cpuVars
<1>3a. CASE TaskCreateNoMemory
  <2>1. newborn[run] \in Task \ {Idle} /\ GoodLists(AddHead(list, Free, newborn[run]))
    BY <1>0, <1>3a, NewbornType, GoodAddHead, Heads DEF TaskCreateNoMemory
  <2> QED  BY <1>0, <1>3a, <2>1 DEF TaskCreateNoMemory, cpuVars
<1>3b. ASSUME NEW c \in Context, CreateNothing(c) PROVE Goal
  BY <1>0, <1>3b, GoodReclaimed DEF CreateNothing, cpuVars
<1>4. ASSUME NEW c \in Context, NEW t \in Task, NEW p \in AppPrio, NEW flags \in Attr,
             LOS_TaskCreateOnly(c, t, p, flags) \/ LOS_TaskCreate(c, t, p, flags)
      PROVE  Goal
  <2>1. \E only \in BOOLEAN : CreateAtOnce(c, t, p, flags, only)
    BY <1>4 DEF LOS_TaskCreateOnly, LOS_TaskCreate
  <2>2. GoodLists(list')
    BY <2>1, CreateType
  <2>3. timerQ' = timerQ /\ (new' = new \/ Schedule(c))
    BY <1>4 DEF LOS_TaskCreateOnly, LOS_TaskCreate, CreateAtOnce, NoSchedule
  <2> QED  BY <1>0, <2>2, <2>3, ScheduleNew
<1>5. ASSUME NEW c \in Context, NEW t \in Task, LOS_TaskResume(c, t) PROVE Goal
  <2>1. t # Idle /\ prio[t] \in Head_
    BY <1>0, <1>5, Heads DEF LOS_TaskResume, TypeInv, IdleInv
  <2>2. GoodLists(list')
    BY <1>0, <1>5, <2>1, GoodAddTail DEF LOS_TaskResume
  <2> QED  BY <1>0, <1>5, <2>2, ScheduleNew DEF LOS_TaskResume, NoSchedule
<1>6. ASSUME NEW c \in Context, NEW t \in Task, LOS_TaskSuspend(c, t) PROVE Goal
  <2>1. GoodLists(list')
    BY <1>0, <1>6, GoodUnlink DEF LOS_TaskSuspend
  <2> QED  BY <1>0, <1>6, <2>1, ScheduleNew DEF LOS_TaskSuspend, NoSchedule
<1>7. ASSUME NEW c \in Context, NEW t \in Task, LOS_TaskDelete(c, t) PROVE Goal
  <2>1. t # Idle
    BY <1>7 DEF LOS_TaskDelete
  <2>2. timerQ' = timerQ \/ timerQ' = DelTimer(timerQ, t)
    BY <1>7 DEF LOS_TaskDelete
  <2>3. timerQ' \in Seq(Task) /\ Idle \notin ToSet(timerQ')
    BY <1>0, <2>2, TimerType
  <2>4. CASE t = run /\ RetireRun(c)
    BY <1>0, <2>1, <2>3, <2>4, RetireRunType
  <2>5. CASE t # run /\ list' = AddHead(Detach(t), Free, t) /\ new' = Top(list')
    <3>1. GoodLists(Detach(t))
      BY <1>0, <2>1, GoodUnlink DEF Detach
    <3>2. GoodLists(list')
      BY <2>1, <2>5, <3>1, GoodAddHead, Heads
    <3> QED  BY <2>3, <2>5, <3>2, GoodTop
  <2> QED  BY <1>7, <2>4, <2>5 DEF LOS_TaskDelete
<1>8. ASSUME NEW c \in Context, NEW t \in Task, NEW p \in AppPrio, LOS_TaskPriSet(c, t, p) PROVE Goal
  <2>1. t # Idle /\ p \in Head_
    BY <1>8, Heads DEF LOS_TaskPriSet
  <2>2. GoodLists(Unlink(list, t))
    BY <1>0, <2>1, GoodUnlink
  <2>3. GoodLists(list')
    BY <1>0, <1>8, <2>1, <2>2, GoodAddTail DEF LOS_TaskPriSet
  <2> QED  BY <1>0, <1>8, <2>3, ScheduleNew DEF LOS_TaskPriSet, NoSchedule
<1>9. CASE TaskEntryDetached
  <2>1. run \in Task \ {Idle} /\ RetireRun("task")
    BY <1>9 DEF TaskEntryDetached, Returns, TaskRuns
  <2>2. timerQ' = timerQ \/ timerQ' = DelTimer(timerQ, run)
    BY <1>9 DEF TaskEntryDetached
  <2>3. timerQ' \in Seq(Task) /\ Idle \notin ToSet(timerQ')
    BY <1>0, <2>1, <2>2, TimerType
  <2> QED  BY <2>1, <2>3, RetireRunType
<1>10. CASE TaskEntryFinish
  <2>1. run # Idle
    BY <1>10 DEF TaskEntryFinish, TaskRuns, TypeInv, IdleInv
  <2> QED  BY <1>0, <1>10, <2>1, GoodUnlink DEF TaskEntryFinish
<1>11. ASSUME NEW n \in Timeouts, LOS_TaskDelay(n) PROVE Goal
  <2>1. run \in Task \ {Idle}
    BY <1>11 DEF LOS_TaskDelay, MayCall, TaskRuns
  <2>2. GoodLists(list')
    BY <1>0, <1>11, <2>1, GoodUnlink DEF LOS_TaskDelay
  <2>3. timerQ' \in Seq(Task) /\ Idle \notin ToSet(timerQ')
    BY <1>0, <1>11, <2>1, TimerType DEF LOS_TaskDelay
  <2> QED  BY <1>11, <2>2, <2>3, ScheduleNew DEF LOS_TaskDelay
<1>12. CASE LOS_TaskYield
  <2>1. run \in Task /\ Rotate /\ Schedule("task") /\ timerQ' = timerQ
    BY <1>12 DEF LOS_TaskYield, MayCall, TaskRuns
  <2> QED  BY <1>0, <2>1, RotateType, ScheduleNew
<1>13. CASE LOS_TaskUnlock
  BY <1>0, <1>13, ScheduleNew DEF LOS_TaskUnlock, taskVars, NoSchedule
<1>14. ASSUME NEW o \in Obj, NEW n \in Timeouts \cup {Forever},
              NEW i \in 1..Len(Unlink(list, run)[o]) + 1, Pend(o, n, i)
       PROVE  Goal
  BY <1>14, WaitType DEF TypeInv, TypeOK, IdleInv
<1>15. ASSUME NEW c \in Context, NEW o \in Obj, Wakes(c, o) PROVE Goal
  BY <1>15, WaitType DEF TypeInv, TypeOK, IdleInv
<1>16. ASSUME NEW from, TaskSchedule(from) PROVE Goal
  BY <1>0, <1>16, GoodTop DEF TaskSchedule, taskVars
<1>17. CASE TickYield
  <2>1. timerQ' = timerQ
    BY <1>17 DEF TickYield
  <2>2. CASE run \in Task /\ Rotate /\ Schedule("isr")
    BY <1>0, <2>1, <2>2, RotateType, ScheduleNew
  <2>3. CASE UNCHANGED list /\ NoSchedule
    BY <1>0, <2>1, <2>3 DEF NoSchedule
  <2> QED  BY <1>17, <2>2, <2>3 DEF TickYield
<1>18. CASE ScanExpire
  <2> DEFINE t == scan.task
  <2>1. t \in Task \ {Idle} /\ prio[t] \in Head_
    BY <1>0, <1>18, Heads DEF ScanExpire, TypeInv, TypeOK, IdleInv, LocalInv
  <2>2. \E L \in {list, Unlink(list, t)} : list' \in {L, AddTail(L, prio[t], t)}
    BY <1>18 DEF ScanExpire
  <2>3. timerQ' = DelTimer(timerQ, t) /\ new' = new
    BY <1>18 DEF ScanExpire, cpuVars
  <2> HIDE DEF t
  <2>4. GoodLists(list')
    BY <1>0, <2>1, <2>2, GoodUnlink, GoodAddTail
  <2>5. timerQ' \in Seq(Task) /\ Idle \notin ToSet(timerQ')
    BY <1>0, <2>1, <2>3, TimerType
  <2> QED  BY <1>0, <2>3, <2>4, <2>5
<1>19. CASE ScanEnd
  BY <1>0, <1>19, ScheduleNew DEF ScanEnd, taskVars, NoSchedule
<1>20. CASE LOS_Start \/ TaskEntryJoinable \/ TaskEntryUnlock \/ osTaskExit \/ LOS_TaskLock
            \/ WaitReturn \/ TaskSwitch \/ PendSV \/ Tick \/ ScanNext
            \/ \E p \in AppPrio, flags \in Attr : TaskCreateFill(p, flags)
  <2>1. UNCHANGED <<list, new, timerQ>>
    BY <1>20 DEF LOS_Start, TaskEntryJoinable, TaskEntryUnlock, osTaskExit, LOS_TaskLock,
                 WaitReturn, TaskSwitch, PendSV, Tick, ScanNext, TaskCreateFill, NoSchedule,
                 taskVars, cpuVars
  <2> QED  BY <1>1, <2>1
<1>21. CASE UNCHANGED vars
  BY <1>1, <1>21 DEF vars, taskVars, cpuVars
<1>22. CASE CreateStep
  BY <1>22, <1>2, <1>3, <1>3a, <1>3b, <1>4, <1>20 DEF CreateStep
<1>23. CASE ControlStep
  BY <1>23, <1>5, <1>6, <1>7, <1>8, <1>9, <1>10, <1>11, <1>12, <1>13, <1>20 DEF ControlStep
<1>24. CASE WaitStep
  BY <1>24, <1>14, <1>15, <1>20, WakesContext DEF WaitStep
<1>25. CASE SwitchStep
  BY <1>25, <1>16, <1>20 DEF SwitchStep
<1>26. CASE TickStep
  BY <1>26, <1>17, <1>18, <1>19, <1>20 DEF TickStep
<1> QED
  BY <1>20, <1>21, <1>22, <1>23, <1>24, <1>25, <1>26 DEF Next

\* Every step keeps the strengthened type invariant.
THEOREM TypeStep == TypeInv /\ [Next]_vars => TypeInv'
<1> SUFFICES ASSUME TypeInv, [Next]_vars PROVE TypeInv'
  OBVIOUS
<1> DEFINE StatusTypes == status \in [Task -> SUBSET Flag]
           TaskTypes == prio \in [Task -> Prio] /\ left \in [Task -> Int]
           CpuTypes == /\ run \in Task \cup {Dummy} /\ lock \in 0..MaxLock + 1
                       /\ pendsv \in BOOLEAN /\ started \in BOOLEAN /\ halt \in BOOLEAN
                       /\ zombie \in Task \cup {Dummy}
           PcTypes == /\ pc \in [Task -> Place] /\ newborn \in [Task -> Task \cup {Null}]
           TickTypes == /\ slice \in [task : Task \cup {Dummy, Null}, left : 0..Slice]
                        /\ scan \in [at : {"idle", "next", "expire"}, task : Task \cup {Null},
                                      was : SUBSET Flag, need : BOOLEAN]
<1>0. /\ GoodLists(list') /\ new' \in Task /\ timerQ' \in Seq(Task) /\ Idle \notin ToSet(timerQ')
      /\ list' \in [Head_ -> Seq(Task)]
  BY ListsStep DEF GoodLists, Lists
<1> DEFINE Goal == StatusTypes' /\ TaskTypes' /\ CpuTypes' /\ PcTypes' /\ TickTypes' /\ IdleInv' /\ LocalInv' /\ LockInv'
<1> SUFFICES Goal
  BY <1>0 DEF TypeInv, TypeOK
<1>1. CASE UNCHANGED vars
  BY <1>0, <1>1, Heads, Members DEF vars, taskVars, cpuVars, TypeInv, TypeOK, IdleInv, LocalInv,
     LockInv
<1>2. CASE LOS_Start
  BY <1>0, <1>2, Heads, Members DEF LOS_Start, taskVars, TypeInv, TypeOK, IdleInv, LocalInv,
     LockInv
<1>3. CASE TaskCreateReady
  <2>1. newborn[run] \in Task \ {Idle}
    BY <1>3, Heads DEF TaskCreateReady, TaskRuns, TypeInv, TypeOK, IdleInv, LocalInv
  <2>2. \E S \in SUBSET Flag : status' = [status EXCEPT ![newborn[run]] = S]
    BY <1>3, <2>1, Members DEF TaskCreateReady, TypeInv, TypeOK
  <2>3. StatusTypes'
    BY <2>2 DEF TypeInv, TypeOK
  <2>4. TaskTypes'
    BY <1>3, <2>1, <2>2 DEF TaskCreateReady, TaskRuns, TypeInv, TypeOK
  <2>5. CpuTypes' /\ PcTypes' /\ TickTypes'
    BY <1>0, <1>3, <2>1, <2>2, Heads, Members DEF TaskCreateReady, TaskRuns, TypeInv, TypeOK
  <2>6. IdleInv'
    BY <1>0, <1>3, <2>1, <2>2, Heads, Members DEF TaskCreateReady, TaskRuns, TypeInv, TypeOK,
       IdleInv
  <2>7. LocalInv' /\ LockInv'
    BY <1>0, <1>3, <2>1, <2>2, Heads, Members DEF TaskCreateReady, TaskRuns, TypeInv, TypeOK,
       LocalInv, LockInv
  <2> QED  BY <2>3, <2>4, <2>5, <2>6, <2>7
<1>4. ASSUME NEW c \in Context, CreateNothing(c) PROVE Goal
  BY <1>0, <1>4, Heads, Members DEF CreateNothing, cpuVars, TypeInv, TypeOK, IdleInv,
     LocalInv, LockInv
<1>5. CASE TaskCreateTake
  <2>1. /\ Head(Reclaimed[Free]) \in Task \ {Idle}
        /\ run \in Task \ {Idle} /\ started /\ ~pendsv /\ pc[run] = "user"
    BY <1>5, TakenType DEF TaskCreateTake, MayCall, TaskRuns
  <2>2. StatusTypes' /\ TaskTypes'
    BY <1>0, <1>5, <2>1 DEF TaskCreateTake, cpuVars, TypeInv, TypeOK
  <2>3. CpuTypes' /\ PcTypes' /\ TickTypes'
    BY <1>0, <1>5, <2>1, Heads, Members DEF TaskCreateTake, cpuVars, TypeInv, TypeOK
  <2>4. IdleInv'
    BY <1>0, <1>5, <2>1, Heads, Members DEF TaskCreateTake, cpuVars, TypeInv, TypeOK, IdleInv
  <2>5. LocalInv'
    BY <1>0, <1>5, <2>1, Heads, Members DEF TaskCreateTake, cpuVars, TypeInv, TypeOK, IdleInv,
       LocalInv
  <2>6. LockInv'
    BY <1>0, <1>5, <2>1, Heads, Members DEF TaskCreateTake, cpuVars, TypeInv, TypeOK, LockInv
  <2> QED  BY <2>2, <2>3, <2>4, <2>5, <2>6
<1>5a. CASE TaskCreateNoMemory
  <2>1. run \in Task \ {Idle} /\ newborn[run] \in Task \ {Idle} /\ started /\ ~pendsv
    BY <1>5a, NewbornType DEF TaskCreateNoMemory
  <2>2. StatusTypes' /\ TaskTypes'
    BY <1>0, <1>5a, <2>1 DEF TaskCreateNoMemory, cpuVars, TypeInv, TypeOK
  <2>3. CpuTypes' /\ PcTypes' /\ TickTypes'
    BY <1>0, <1>5a, <2>1, Heads, Members DEF TaskCreateNoMemory, cpuVars, TypeInv, TypeOK
  <2>4. IdleInv'
    BY <1>0, <1>5a, <2>1, Heads, Members DEF TaskCreateNoMemory, cpuVars, TypeInv, TypeOK, IdleInv
  <2>5. LocalInv'
    BY <1>0, <1>5a, <2>1, Heads, Members DEF TaskCreateNoMemory, cpuVars, TypeInv, TypeOK,
       IdleInv, LocalInv
  <2>6. LockInv'
    BY <1>0, <1>5a, <2>1, Heads, Members DEF TaskCreateNoMemory, cpuVars, TypeInv, TypeOK, LockInv
  <2> QED  BY <2>2, <2>3, <2>4, <2>5, <2>6
<1>5b. ASSUME NEW p \in AppPrio, NEW flags \in Attr, TaskCreateFill(p, flags) PROVE Goal
  <2>1. /\ run \in Task \ {Idle} /\ newborn[run] \in Task \ {Idle} /\ started /\ ~pendsv
        /\ p \in Prio /\ {"SUSPEND"} \cup flags \in SUBSET Flag
    BY <1>5b, NewbornType, Heads, Attributes, Members DEF TaskCreateFill
  <2>2. StatusTypes'
    BY <1>5b, <2>1 DEF TaskCreateFill, TypeInv, TypeOK
  <2>2a. TaskTypes'
    BY <1>5b, <2>1 DEF TaskCreateFill, TypeInv, TypeOK
  <2>3. CpuTypes' /\ TickTypes'
    BY <1>5b DEF TaskCreateFill, cpuVars, TypeInv, TypeOK
  <2>3a. PcTypes'
    <3>1. PICK at \in Place : pc' = [pc EXCEPT ![run] = at]
      BY <1>5b, Members DEF TaskCreateFill
    <3>2. newborn' = newborn \/ newborn' = [newborn EXCEPT ![run] = Null]
      BY <1>5b DEF TaskCreateFill
    <3> QED  BY <3>1, <3>2 DEF TypeInv, TypeOK
  <2>4. IdleInv'
    BY <1>0, <1>5b, <2>1, Heads, Members DEF TaskCreateFill, cpuVars, TypeInv, TypeOK, IdleInv
  <2>5. LocalInv'
    BY <1>0, <1>5b, <2>1, Heads, Members DEF TaskCreateFill, cpuVars, TypeInv, TypeOK, IdleInv,
       LocalInv
  <2>6. LockInv'
    BY <1>0, <1>5b, <2>1, Heads, Members DEF TaskCreateFill, cpuVars, TypeInv, TypeOK, LockInv
  <2> QED  BY <2>2, <2>2a, <2>3, <2>3a, <2>4, <2>5, <2>6
<1>6. ASSUME NEW c \in Context, NEW t \in Task, NEW p \in AppPrio, NEW flags \in Attr,
             LOS_TaskCreateOnly(c, t, p, flags)
      PROVE  Goal
  <2>1. flags \in SUBSET Flag /\ t # Idle /\ p \in Prio
    BY <1>6, Heads, Attributes, CreateType DEF LOS_TaskCreateOnly
  <2>2. \E S \in SUBSET Flag : status' = [status EXCEPT ![t] = S]
    BY <1>6, <2>1, Members DEF LOS_TaskCreateOnly, CreateAtOnce, TypeInv, TypeOK
  <2>3. StatusTypes'
    BY <2>2 DEF TypeInv, TypeOK
  <2>4. TaskTypes'
    BY <1>6, <2>1, <2>2 DEF LOS_TaskCreateOnly, CreateAtOnce, NoSchedule, TypeInv, TypeOK
  <2>5. CpuTypes'
    BY <1>0, <1>6, <2>1, <2>2, Heads, Members DEF LOS_TaskCreateOnly, CreateAtOnce, NoSchedule,
       TypeInv, TypeOK
  <2>6. PcTypes'
    BY <1>0, <1>6, <2>1, <2>2, Heads, Members DEF LOS_TaskCreateOnly, CreateAtOnce, NoSchedule,
       TypeInv, TypeOK
  <2>7. TickTypes'
    BY <1>0, <1>6, <2>1, <2>2, Heads, Members DEF LOS_TaskCreateOnly, CreateAtOnce, NoSchedule,
       TypeInv, TypeOK
  <2>8. IdleInv'
    BY <1>0, <1>6, <2>1, <2>2, Heads, Members DEF LOS_TaskCreateOnly, CreateAtOnce, NoSchedule,
       TypeInv, TypeOK, IdleInv
  <2>9. LocalInv'
    BY <1>0, <1>6, <2>1, <2>2, Heads, Members DEF LOS_TaskCreateOnly, CreateAtOnce, NoSchedule,
       TypeInv, TypeOK, LocalInv
  <2>10. LockInv'
    BY <1>0, <1>6, <2>1, <2>2, Heads, Members DEF LOS_TaskCreateOnly, CreateAtOnce, NoSchedule,
       TypeInv, TypeOK, LockInv
  <2> QED  BY <2>3, <2>4, <2>5, <2>6, <2>7, <2>8, <2>9, <2>10
<1>7. ASSUME NEW c \in Context, NEW t \in Task, NEW p \in AppPrio, NEW flags \in Attr,
             LOS_TaskCreate(c, t, p, flags)
      PROVE  Goal
  <2>1. flags \in SUBSET Flag /\ t # Idle /\ p \in Prio
    BY <1>7, Heads, Attributes, CreateType DEF LOS_TaskCreate
  <2>2. pendsv' \in BOOLEAN /\ pc' \in [Task -> Place] /\ pc'[Idle] = "user" /\ LockInv'
        /\ \A u \in Task : pc'[u] \in {"alloc", "create"} => newborn'[u] # Null
    BY <1>0, <1>7, MayCallContext, ScheduleType DEF LOS_TaskCreate, CreateAtOnce, Context,
       TypeInv, TypeOK
  <2>3. \E S \in SUBSET Flag : status' = [status EXCEPT ![t] = S]
    BY <1>7, <2>1, Members DEF LOS_TaskCreate, CreateAtOnce, TypeInv, TypeOK
  <2>4. StatusTypes'
    BY <2>3 DEF TypeInv, TypeOK
  <2>5. TaskTypes'
    BY <1>7, <2>1, <2>2, <2>3 DEF LOS_TaskCreate, CreateAtOnce, TypeInv, TypeOK
  <2>6. CpuTypes'
    BY <1>0, <1>7, <2>1, <2>2, <2>3, Heads, Members DEF LOS_TaskCreate, CreateAtOnce, TypeInv,
       TypeOK
  <2>7. PcTypes'
    BY <1>0, <1>7, <2>1, <2>2, <2>3, Heads, Members DEF LOS_TaskCreate, CreateAtOnce, TypeInv,
       TypeOK
  <2>8. TickTypes'
    BY <1>0, <1>7, <2>1, <2>2, <2>3, Heads, Members DEF LOS_TaskCreate, CreateAtOnce, TypeInv,
       TypeOK
  <2>9. IdleInv'
    BY <1>0, <1>7, <2>1, <2>2, <2>3, Heads, Members DEF LOS_TaskCreate, CreateAtOnce, TypeInv,
       TypeOK, IdleInv
  <2>10. LocalInv'
    BY <1>0, <1>7, <2>1, <2>2, <2>3, Heads, Members DEF LOS_TaskCreate, CreateAtOnce, TypeInv,
       TypeOK, LocalInv
  <2>11. LockInv'
    BY <1>0, <1>7, <2>1, <2>2, <2>3, Heads, Members DEF LOS_TaskCreate, CreateAtOnce, TypeInv,
       TypeOK, LockInv
  <2> QED  BY <2>4, <2>5, <2>6, <2>7, <2>8, <2>9, <2>10, <2>11
<1>8. ASSUME NEW c \in Context, NEW t \in Task, LOS_TaskResume(c, t) PROVE Goal
  <2>1. t # Idle
    BY <1>8 DEF LOS_TaskResume, TypeInv, IdleInv
  <2>2. pendsv' \in BOOLEAN /\ pc' \in [Task -> Place] /\ pc'[Idle] = "user" /\ LockInv'
        /\ \A u \in Task : pc'[u] \in {"alloc", "create"} => newborn'[u] # Null
    BY <1>0, <1>8, MayCallContext, ScheduleType DEF LOS_TaskResume, Context, TypeInv, TypeOK
  <2>3. \E S \in SUBSET Flag : status' = [status EXCEPT ![t] = S]
    BY <1>8, Members DEF LOS_TaskResume, TypeInv, TypeOK
  <2>4. StatusTypes'
    BY <2>3 DEF TypeInv, TypeOK
  <2>5. TaskTypes'
    BY <1>8, <2>1, <2>2, <2>3 DEF LOS_TaskResume, Linked, TypeInv, TypeOK
  <2>6. CpuTypes'
    BY <1>0, <1>8, <2>1, <2>2, <2>3, Heads, Members DEF LOS_TaskResume, Linked, TypeInv, TypeOK
  <2>7. PcTypes'
    BY <1>0, <1>8, <2>1, <2>2, <2>3, Heads, Members DEF LOS_TaskResume, Linked, TypeInv, TypeOK
  <2>8. TickTypes'
    BY <1>0, <1>8, <2>1, <2>2, <2>3, Heads, Members DEF LOS_TaskResume, Linked, TypeInv, TypeOK
  <2>9. IdleInv'
    BY <1>0, <1>8, <2>1, <2>2, <2>3, Heads, Members DEF LOS_TaskResume, Linked, TypeInv, TypeOK,
       IdleInv
  <2>10. LocalInv'
    BY <1>0, <1>8, <2>1, <2>2, <2>3, Heads, Members DEF LOS_TaskResume, Linked, TypeInv, TypeOK,
       LocalInv
  <2>11. LockInv'
    BY <1>0, <1>8, <2>1, <2>2, <2>3, Heads, Members DEF LOS_TaskResume, Linked, TypeInv, TypeOK,
       LockInv
  <2> QED  BY <2>4, <2>5, <2>6, <2>7, <2>8, <2>9, <2>10, <2>11
<1>9. ASSUME NEW c \in Context, NEW t \in Task, LOS_TaskSuspend(c, t) PROVE Goal
  <2>1. t # Idle
    BY <1>9 DEF LOS_TaskSuspend, TypeInv, IdleInv
  <2>2. pendsv' \in BOOLEAN /\ pc' \in [Task -> Place] /\ pc'[Idle] = "user" /\ LockInv'
        /\ \A u \in Task : pc'[u] \in {"alloc", "create"} => newborn'[u] # Null
    BY <1>0, <1>9, MayCallContext, ScheduleType DEF LOS_TaskSuspend, Context, TypeInv, TypeOK
  <2>3. \E S \in SUBSET Flag : status' = [status EXCEPT ![t] = S]
    BY <1>9, Members DEF LOS_TaskSuspend, TypeInv, TypeOK
  <2>4. StatusTypes'
    BY <2>3 DEF TypeInv, TypeOK
  <2>5. TaskTypes'
    BY <1>9, <2>1, <2>2, <2>3 DEF LOS_TaskSuspend, TypeInv, TypeOK
  <2>6. CpuTypes' /\ PcTypes' /\ TickTypes'
    BY <1>0, <1>9, <2>1, <2>2, <2>3, Heads, Members DEF LOS_TaskSuspend, TypeInv, TypeOK
  <2>7. IdleInv'
    BY <1>0, <1>9, <2>1, <2>2, <2>3, Heads, Members DEF LOS_TaskSuspend, TypeInv, TypeOK,
       IdleInv
  <2>8. LocalInv' /\ LockInv'
    BY <1>0, <1>9, <2>1, <2>2, <2>3, Heads, Members DEF LOS_TaskSuspend, TypeInv, TypeOK,
       LocalInv, LockInv
  <2> QED  BY <2>4, <2>5, <2>6, <2>7, <2>8
<1>10. ASSUME NEW c \in Context, NEW t \in Task, LOS_TaskDelete(c, t) PROVE Goal
  <2>1. t # Idle
    BY <1>10 DEF LOS_TaskDelete
  <2>2. c = "isr" => started
    BY <1>10, MayCallContext DEF LOS_TaskDelete
  <2>3. t = run => started /\ lock = 0
    BY <1>10, Heads DEF LOS_TaskDelete, TypeInv, LockInv
  <2>4. pendsv' = pendsv \/ (pendsv' \in BOOLEAN /\ lock = 0 /\ started)
    BY <1>10, <2>2, <2>3 DEF LOS_TaskDelete, RetireRun
  <2>5. /\ pc' = [pc EXCEPT ![t] = "user"] /\ newborn' = [newborn EXCEPT ![t] = Null]
        /\ lock' = lock /\ started' = started /\ scan' = scan
        /\ run' = run \/ (t = run /\ run' = Dummy)
    BY <1>10 DEF LOS_TaskDelete, RetireRun
  <2>6. pc' \in [Task -> Place] /\ newborn' \in [Task -> Task \cup {Null}]
    BY <2>5, Members DEF TypeInv, TypeOK
  <2>7. LockInv'
    BY <2>2, <2>3, <2>4, <2>5, Heads DEF TypeInv, TypeOK, LockInv
  <2>8. \E S \in SUBSET Flag : status' = [status EXCEPT ![t] = S]
    BY <1>10, Members DEF LOS_TaskDelete, TypeInv, TypeOK
  <2>9. StatusTypes'
    BY <2>8 DEF TypeInv, TypeOK
  <2>10. TaskTypes'
    BY <1>10, <2>1, <2>2, <2>3, <2>4, <2>5, <2>6, <2>7, <2>8 DEF LOS_TaskDelete, RetireRun,
       TypeInv, TypeOK
  <2>11. CpuTypes'
    BY <1>0, <1>10, <2>1, <2>2, <2>3, <2>4, <2>5, <2>6, <2>7, <2>8, Heads, Members DEF
       LOS_TaskDelete, RetireRun, TypeInv, TypeOK
  <2>12. PcTypes'
    BY <1>0, <1>10, <2>1, <2>2, <2>3, <2>4, <2>5, <2>6, <2>7, <2>8, Heads, Members DEF
       LOS_TaskDelete, RetireRun, TypeInv, TypeOK
  <2>13. TickTypes'
    BY <1>0, <1>10, <2>1, <2>2, <2>3, <2>4, <2>5, <2>6, <2>7, <2>8, Heads, Members DEF
       LOS_TaskDelete, RetireRun, TypeInv, TypeOK
  <2>14. IdleInv'
    BY <1>0, <1>10, <2>1, <2>2, <2>3, <2>4, <2>5, <2>6, <2>7, <2>8, Heads, Members DEF
       LOS_TaskDelete, RetireRun, TypeInv, TypeOK, IdleInv
  <2>15. LocalInv'
    BY <1>0, <1>10, <2>1, <2>2, <2>3, <2>4, <2>5, <2>6, <2>7, <2>8, Heads, Members DEF
       LOS_TaskDelete, RetireRun, TypeInv, TypeOK, LocalInv
  <2>16. LockInv'
    BY <1>0, <1>10, <2>1, <2>2, <2>3, <2>4, <2>5, <2>6, <2>7, <2>8, Heads, Members DEF
       LOS_TaskDelete, RetireRun, TypeInv, TypeOK, LockInv
  <2> QED  BY <2>9, <2>10, <2>11, <2>12, <2>13, <2>14, <2>15, <2>16
<1>11. ASSUME NEW c \in Context, NEW t \in Task, NEW p \in AppPrio,
             LOS_TaskPriSet(c, t, p)
      PROVE  Goal
  <2>1. p \in Prio
    BY Heads
  <2>2. t # Idle
    BY <1>11 DEF LOS_TaskPriSet, TypeInv, IdleInv
  <2>3. pendsv' \in BOOLEAN /\ pc' \in [Task -> Place] /\ pc'[Idle] = "user" /\ LockInv'
        /\ \A u \in Task : pc'[u] \in {"alloc", "create"} => newborn'[u] # Null
    BY <1>0, <1>11, MayCallContext, ScheduleType DEF LOS_TaskPriSet, Context, TypeInv, TypeOK
  <2>4. StatusTypes'
    BY <1>11, <2>1, <2>2, <2>3 DEF LOS_TaskPriSet, TypeInv, TypeOK
  <2>5. TaskTypes'
    BY <1>11, <2>1, <2>2, <2>3 DEF LOS_TaskPriSet, TypeInv, TypeOK
  <2>6. CpuTypes'
    BY <1>0, <1>11, <2>1, <2>2, <2>3, Heads, Members DEF LOS_TaskPriSet, TypeInv, TypeOK
  <2>7. PcTypes'
    BY <1>0, <1>11, <2>1, <2>2, <2>3, Heads, Members DEF LOS_TaskPriSet, TypeInv, TypeOK
  <2>8. TickTypes'
    BY <1>0, <1>11, <2>1, <2>2, <2>3, Heads, Members DEF LOS_TaskPriSet, TypeInv, TypeOK
  <2>9. IdleInv'
    BY <1>0, <1>11, <2>1, <2>2, <2>3, Heads, Members DEF LOS_TaskPriSet, TypeInv, TypeOK,
       IdleInv
  <2>10. LocalInv'
    BY <1>0, <1>11, <2>1, <2>2, <2>3, Heads, Members DEF LOS_TaskPriSet, TypeInv, TypeOK,
       LocalInv
  <2>11. LockInv'
    BY <1>0, <1>11, <2>1, <2>2, <2>3, Heads, Members DEF LOS_TaskPriSet, TypeInv, TypeOK,
       LockInv
  <2> QED  BY <2>4, <2>5, <2>6, <2>7, <2>8, <2>9, <2>10, <2>11
<1>12. CASE TaskEntryDetached
  <2>1. run \in Task \ {Idle} /\ started /\ ~pendsv /\ pc[run] = "user"
    BY <1>12 DEF TaskEntryDetached, Returns, TaskRuns
  <2>2. \E S \in SUBSET Flag : status' = [status EXCEPT ![run] = S]
    BY <1>12, <2>1, Members DEF TaskEntryDetached, TypeInv, TypeOK
  <2>3. StatusTypes'
    BY <2>2 DEF TypeInv, TypeOK
  <2>4. TaskTypes'
    BY <1>12, <2>1, <2>2 DEF TaskEntryDetached, RetireRun, TypeInv, TypeOK
  <2>5. CpuTypes'
    BY <1>0, <1>12, <2>1, <2>2, Heads, Members DEF TaskEntryDetached, RetireRun, TypeInv, TypeOK
  <2>6. PcTypes'
    BY <1>0, <1>12, <2>1, <2>2, Heads, Members DEF TaskEntryDetached, RetireRun, TypeInv, TypeOK
  <2>7. TickTypes'
    BY <1>0, <1>12, <2>1, <2>2, Heads, Members DEF TaskEntryDetached, RetireRun, TypeInv, TypeOK
  <2>8. IdleInv'
    BY <1>0, <1>12, <2>1, <2>2, Heads, Members DEF TaskEntryDetached, RetireRun, TypeInv,
       TypeOK, IdleInv
  <2>9. LocalInv'
    BY <1>0, <1>12, <2>1, <2>2, Heads, Members DEF TaskEntryDetached, RetireRun, TypeInv,
       TypeOK, LocalInv
  <2>10. LockInv'
    BY <1>0, <1>12, <2>1, <2>2, Heads, Members DEF TaskEntryDetached, RetireRun, TypeInv,
       TypeOK, LockInv
  <2> QED  BY <2>3, <2>4, <2>5, <2>6, <2>7, <2>8, <2>9, <2>10
<1>13. CASE TaskEntryJoinable
  <2>1. run \in Task \ {Idle} /\ started /\ ~pendsv /\ pc[run] = "user"
    BY <1>13 DEF TaskEntryJoinable, Returns, TaskRuns
  <2>2. StatusTypes'
    BY <1>13, <2>1 DEF TaskEntryJoinable, taskVars, TypeInv, TypeOK
  <2>3. TaskTypes'
    BY <1>13, <2>1 DEF TaskEntryJoinable, taskVars, TypeInv, TypeOK
  <2>4. CpuTypes' /\ PcTypes' /\ TickTypes'
    BY <1>0, <1>13, <2>1, Heads, Members DEF TaskEntryJoinable, taskVars, TypeInv, TypeOK
  <2>5. IdleInv'
    BY <1>0, <1>13, <2>1, Heads, Members DEF TaskEntryJoinable, taskVars, TypeInv, TypeOK,
       IdleInv
  <2>6. LocalInv' /\ LockInv'
    BY <1>0, <1>13, <2>1, Heads, Members DEF TaskEntryJoinable, taskVars, TypeInv, TypeOK,
       LocalInv, LockInv
  <2> QED  BY <2>2, <2>3, <2>4, <2>5, <2>6
<1>14. CASE TaskEntryFinish
  <2>1. run \in Task \ {Idle} /\ started /\ ~pendsv
    BY <1>14 DEF TaskEntryFinish, TaskRuns, TypeInv, IdleInv
  <2>2. lock = 0 /\ MaxLock \in Nat
    BY <1>14, Heads DEF TaskEntryFinish, TaskRuns, TypeInv, LockInv
  <2>3. \E S \in SUBSET Flag : status' = [status EXCEPT ![run] = S]
    BY <1>14, <2>1, Members DEF TaskEntryFinish, TypeInv, TypeOK
  <2>4. StatusTypes'
    BY <2>3 DEF TypeInv, TypeOK
  <2>5. TaskTypes'
    BY <1>14, <2>1, <2>2, <2>3 DEF TaskEntryFinish, TaskRuns, TypeInv, TypeOK
  <2>6. CpuTypes'
    BY <1>0, <1>14, <2>1, <2>2, <2>3, Heads, Members DEF TaskEntryFinish, TaskRuns, TypeInv,
       TypeOK
  <2>7. PcTypes'
    BY <1>0, <1>14, <2>1, <2>2, <2>3, Heads, Members DEF TaskEntryFinish, TaskRuns, TypeInv,
       TypeOK
  <2>8. TickTypes'
    BY <1>0, <1>14, <2>1, <2>2, <2>3, Heads, Members DEF TaskEntryFinish, TaskRuns, TypeInv,
       TypeOK
  <2>9. IdleInv'
    BY <1>0, <1>14, <2>1, <2>2, <2>3, Heads, Members DEF TaskEntryFinish, TaskRuns, TypeInv,
       TypeOK, IdleInv
  <2>10. LocalInv'
    BY <1>0, <1>14, <2>1, <2>2, <2>3, Heads, Members DEF TaskEntryFinish, TaskRuns, TypeInv,
       TypeOK, LocalInv
  <2>11. LockInv'
    BY <1>0, <1>14, <2>1, <2>2, <2>3, Heads, Members DEF TaskEntryFinish, TaskRuns, TypeInv,
       TypeOK, LockInv
  <2> QED  BY <2>4, <2>5, <2>6, <2>7, <2>8, <2>9, <2>10, <2>11
<1>15. CASE TaskEntryUnlock
  <2>1. run \in Task \ {Idle} /\ started /\ ~pendsv
    BY <1>15 DEF TaskEntryUnlock, TaskRuns, TypeInv, IdleInv
  <2> QED  BY <1>0, <1>15, <2>1, Heads, Members DEF TaskEntryUnlock, TaskRuns, taskVars,
     TypeInv, TypeOK, IdleInv, LocalInv, LockInv
<1>16. CASE osTaskExit
  BY <1>0, <1>16, Heads, Members DEF osTaskExit, taskVars, cpuVars, TypeInv, TypeOK, IdleInv,
     LocalInv, LockInv
<1>17. ASSUME NEW n \in Timeouts, LOS_TaskDelay(n) PROVE Goal
  <2>1. run \in Task \ {Idle} /\ started /\ ~pendsv /\ pc[run] = "user"
    BY <1>17 DEF LOS_TaskDelay, MayCall, TaskRuns
  <2>2. pendsv' \in BOOLEAN /\ pc' \in [Task -> Place] /\ pc'[Idle] = "user" /\ LockInv'
        /\ \A u \in Task : pc'[u] \in {"alloc", "create"} => newborn'[u] # Null
    BY <1>0, <1>17, MayCallContext, ScheduleType DEF LOS_TaskDelay, Context, TypeInv, TypeOK
  <2>3. n \in Int
    BY TaskAssumption
  <2>4. \E S \in SUBSET Flag : status' = [status EXCEPT ![run] = S]
    BY <1>17, <2>1, Members DEF LOS_TaskDelay, TypeInv, TypeOK
  <2>5. StatusTypes'
    BY <2>4 DEF TypeInv, TypeOK
  <2>6. TaskTypes'
    BY <1>17, <2>1, <2>2, <2>3, <2>4 DEF LOS_TaskDelay, TypeInv, TypeOK
  <2>7. CpuTypes' /\ PcTypes' /\ TickTypes'
    BY <1>0, <1>17, <2>1, <2>2, <2>3, <2>4, Heads, Members DEF LOS_TaskDelay, TypeInv, TypeOK
  <2>8. IdleInv'
    BY <1>0, <1>17, <2>1, <2>2, <2>3, <2>4, Heads, Members DEF LOS_TaskDelay, TypeInv, TypeOK,
       IdleInv
  <2>9. LocalInv' /\ LockInv'
    BY <1>0, <1>17, <2>1, <2>2, <2>3, <2>4, Heads, Members DEF LOS_TaskDelay, TypeInv, TypeOK,
       LocalInv, LockInv
  <2> QED  BY <2>5, <2>6, <2>7, <2>8, <2>9
<1>18. CASE LOS_TaskYield
  <2>1. run \in Task \ {Idle} /\ started /\ ~pendsv /\ pc[run] = "user"
    BY <1>18 DEF LOS_TaskYield, MayCall, TaskRuns
  <2>2. pendsv' \in BOOLEAN /\ pc' \in [Task -> Place] /\ pc'[Idle] = "user" /\ LockInv'
        /\ \A u \in Task : pc'[u] \in {"alloc", "create"} => newborn'[u] # Null
    BY <1>0, <1>18, MayCallContext, ScheduleType DEF LOS_TaskYield, Context, TypeInv, TypeOK
  <2>3. \E S \in SUBSET Flag : status' = [status EXCEPT ![run] = S]
    BY <1>18, <2>1, Members DEF LOS_TaskYield, Rotate, TypeInv, TypeOK
  <2>4. StatusTypes'
    BY <2>3 DEF TypeInv, TypeOK
  <2>5. TaskTypes'
    BY <1>18, <2>1, <2>2, <2>3 DEF LOS_TaskYield, Rotate, TypeInv, TypeOK
  <2>6. CpuTypes' /\ PcTypes' /\ TickTypes'
    BY <1>0, <1>18, <2>1, <2>2, <2>3, Heads, Members DEF LOS_TaskYield, Rotate, TypeInv, TypeOK
  <2>7. IdleInv'
    BY <1>0, <1>18, <2>1, <2>2, <2>3, Heads, Members DEF LOS_TaskYield, Rotate, TypeInv, TypeOK,
       IdleInv
  <2>8. LocalInv' /\ LockInv'
    BY <1>0, <1>18, <2>1, <2>2, <2>3, Heads, Members DEF LOS_TaskYield, Rotate, TypeInv, TypeOK,
       LocalInv, LockInv
  <2> QED  BY <2>4, <2>5, <2>6, <2>7, <2>8
<1>19. CASE LOS_TaskLock
  <2>1. run \in Task \ {Idle} /\ started /\ ~pendsv /\ pc[run] = "user"
    BY <1>19 DEF LOS_TaskLock, MayCall, TaskRuns
  <2> QED  BY <1>0, <1>19, <2>1, Heads, Members DEF LOS_TaskLock, taskVars, TypeInv, TypeOK,
     IdleInv, LocalInv, LockInv
<1>20. CASE LOS_TaskUnlock
  <2>1. run \in Task \ {Idle} /\ started /\ ~pendsv /\ pc[run] = "user"
    BY <1>20 DEF LOS_TaskUnlock, MayCall, TaskRuns
  <2>2. lock' \in Nat
    BY <1>20 DEF LOS_TaskUnlock, TypeInv, TypeOK
  <2>3. pendsv' \in BOOLEAN /\ pc' \in [Task -> Place] /\ pc'[Idle] = "user" /\ LockInv'
        /\ \A u \in Task : pc'[u] \in {"alloc", "create"} => newborn'[u] # Null
    BY <1>0, <1>20, <2>1, <2>2, ScheduleType DEF LOS_TaskUnlock, Context
  <2>4. StatusTypes'
    BY <1>20, <2>1, <2>2, <2>3 DEF LOS_TaskUnlock, taskVars, TypeInv, TypeOK
  <2>5. TaskTypes'
    BY <1>20, <2>1, <2>2, <2>3 DEF LOS_TaskUnlock, taskVars, TypeInv, TypeOK
  <2>6. CpuTypes'
    BY <1>0, <1>20, <2>1, <2>2, <2>3, Heads, Members DEF LOS_TaskUnlock, taskVars, TypeInv,
       TypeOK
  <2>7. PcTypes'
    BY <1>0, <1>20, <2>1, <2>2, <2>3, Heads, Members DEF LOS_TaskUnlock, taskVars, TypeInv,
       TypeOK
  <2>8. TickTypes'
    BY <1>0, <1>20, <2>1, <2>2, <2>3, Heads, Members DEF LOS_TaskUnlock, taskVars, TypeInv,
       TypeOK
  <2>9. IdleInv'
    BY <1>0, <1>20, <2>1, <2>2, <2>3, Heads, Members DEF LOS_TaskUnlock, taskVars, TypeInv,
       TypeOK, IdleInv
  <2>10. LocalInv'
    BY <1>0, <1>20, <2>1, <2>2, <2>3, Heads, Members DEF LOS_TaskUnlock, taskVars, TypeInv,
       TypeOK, LocalInv
  <2>11. LockInv'
    BY <1>0, <1>20, <2>1, <2>2, <2>3, Heads, Members DEF LOS_TaskUnlock, taskVars, TypeInv,
       TypeOK, LockInv
  <2> QED  BY <2>4, <2>5, <2>6, <2>7, <2>8, <2>9, <2>10, <2>11
<1>21. ASSUME NEW o \in Obj, NEW n \in Timeouts \cup {Forever},
              NEW i \in 1..Len(Unlink(list, run)[o]) + 1, Pend(o, n, i)
       PROVE  Goal
  BY <1>21, WaitType DEF TypeInv, TypeOK
<1>22. ASSUME NEW c \in Context, NEW o \in Obj, Wakes(c, o) PROVE Goal
  BY <1>22, WaitType DEF TypeInv, TypeOK
<1>23. CASE WaitReturn
  <2>1. run \in Task \ {Idle} /\ started /\ ~pendsv
    BY <1>23 DEF WaitReturn, TaskRuns, TypeInv, IdleInv
  <2>2. \E S \in SUBSET Flag : status' = [status EXCEPT ![run] = S]
    BY <1>23, <2>1, Members DEF WaitReturn, TypeInv, TypeOK
  <2> QED  BY <1>0, <1>23, <2>1, <2>2, Heads, Members DEF WaitReturn, cpuVars, TypeInv, TypeOK,
     IdleInv, LocalInv, LockInv
<1>24. ASSUME NEW from \in {"sched", "wait", "exit"}, TaskSchedule(from) PROVE Goal
  <2>1. AfterSchedule[from] \in {"user", "woken", "dead"}
    <3>1. CASE from = "sched"
      BY <3>1 DEF AfterSchedule
    <3>2. CASE from = "wait"
      BY <3>2 DEF AfterSchedule
    <3>3. CASE from = "exit"
      BY <3>3 DEF AfterSchedule
    <3> QED  BY <1>24, <3>1, <3>2, <3>3
  <2>2. run \in Task \ {Idle} /\ started /\ ~pendsv
    BY <1>24 DEF TaskSchedule, TaskRuns, TypeInv, IdleInv
  <2>3. StatusTypes'
    BY <1>24, <2>1, <2>2 DEF TaskSchedule, taskVars, TypeInv, TypeOK
  <2>4. TaskTypes'
    BY <1>24, <2>1, <2>2 DEF TaskSchedule, taskVars, TypeInv, TypeOK
  <2>5. CpuTypes' /\ PcTypes' /\ TickTypes'
    BY <1>0, <1>24, <2>1, <2>2, Heads, Members DEF TaskSchedule, taskVars, TypeInv, TypeOK
  <2>6. IdleInv'
    BY <1>0, <1>24, <2>1, <2>2, Heads, Members DEF TaskSchedule, taskVars, TypeInv, TypeOK,
       IdleInv
  <2>7. LocalInv' /\ LockInv'
    BY <1>0, <1>24, <2>1, <2>2, Heads, Members DEF TaskSchedule, taskVars, TypeInv, TypeOK,
       LocalInv, LockInv
  <2> QED  BY <2>3, <2>4, <2>5, <2>6, <2>7
<1>25. CASE TaskSwitch
  <2>1. pc' = pc \/ (run \in Task /\ pc' = [pc EXCEPT ![run] = "user"])
    BY <1>25 DEF TaskSwitch, TaskRuns
  <2>2. pc' \in [Task -> Place]
    BY <2>1, Members DEF TypeInv, TypeOK
  <2>3. pc'[Idle] = "user"
    BY <2>1, Heads DEF TypeInv, TypeOK, IdleInv
  <2>4. StatusTypes'
    BY <1>25, <2>1, <2>2, <2>3 DEF TaskSwitch, TaskRuns, taskVars, TypeInv, TypeOK
  <2>5. TaskTypes'
    BY <1>25, <2>1, <2>2, <2>3 DEF TaskSwitch, TaskRuns, taskVars, TypeInv, TypeOK
  <2>6. CpuTypes'
    BY <1>0, <1>25, <2>1, <2>2, <2>3, Heads, Members DEF TaskSwitch, TaskRuns, taskVars,
       TypeInv, TypeOK
  <2>7. PcTypes'
    BY <1>0, <1>25, <2>1, <2>2, <2>3, Heads, Members DEF TaskSwitch, TaskRuns, taskVars,
       TypeInv, TypeOK
  <2>8. TickTypes'
    BY <1>0, <1>25, <2>1, <2>2, <2>3, Heads, Members DEF TaskSwitch, TaskRuns, taskVars,
       TypeInv, TypeOK
  <2>9. IdleInv'
    BY <1>0, <1>25, <2>1, <2>2, <2>3, Heads, Members DEF TaskSwitch, TaskRuns, taskVars,
       TypeInv, TypeOK, IdleInv
  <2>10. LocalInv'
    BY <1>0, <1>25, <2>1, <2>2, <2>3, Heads, Members DEF TaskSwitch, TaskRuns, taskVars,
       TypeInv, TypeOK, LocalInv
  <2>11. LockInv'
    BY <1>0, <1>25, <2>1, <2>2, <2>3, Heads, Members DEF TaskSwitch, TaskRuns, taskVars,
       TypeInv, TypeOK, LockInv
  <2> QED  BY <2>4, <2>5, <2>6, <2>7, <2>8, <2>9, <2>10, <2>11
<1>26. CASE PendSV
  <2>1. StatusTypes'
    BY <1>26 DEF PendSV, taskVars, TypeInv, TypeOK
  <2>2. TaskTypes'
    BY <1>26 DEF PendSV, taskVars, TypeInv, TypeOK
  <2>3. CpuTypes' /\ PcTypes' /\ TickTypes'
    BY <1>0, <1>26, Heads, Members DEF PendSV, taskVars, TypeInv, TypeOK
  <2>4. IdleInv'
    BY <1>0, <1>26, Heads, Members DEF PendSV, taskVars, TypeInv, TypeOK, IdleInv
  <2>5. LocalInv' /\ LockInv'
    BY <1>0, <1>26, Heads, Members DEF PendSV, taskVars, TypeInv, TypeOK, LocalInv, LockInv
  <2> QED  BY <2>1, <2>2, <2>3, <2>4, <2>5
<1>27. CASE Tick
  <2>1. SliceLeft > 0 => SliceLeft \in 0..Slice
    <3>1. slice.left \in 0..Slice
      BY DEF TypeInv, TypeOK
    <3> QED  BY <3>1, Heads DEF SliceLeft
  <2>2. slice' \in [task : Task \cup {Dummy, Null}, left : 0..Slice] /\ (slice'.task # Null => slice'.left > 0)
    BY <1>27, <2>1, Heads DEF Tick, TypeInv, TypeOK, LocalInv
  <2>3. scan' \in [at : {"idle", "next", "expire"}, task : Task \cup {Null},
                   was : SUBSET Flag, need : BOOLEAN]
        /\ scan'.at = "next" /\ scan'.task = Null
    BY <1>27 DEF TickYield, Tick, TickBegin, Idling, TypeInv, TypeOK
  <2>4. StatusTypes'
    BY <1>27, <2>1, <2>2, <2>3 DEF Tick, TickBegin, Countdown, NoSchedule, TypeInv, TypeOK
  <2>5. TaskTypes'
    BY <1>27, <2>1, <2>2, <2>3 DEF Tick, TickBegin, Countdown, NoSchedule, TypeInv, TypeOK
  <2>6. CpuTypes'
    BY <1>0, <1>27, <2>1, <2>2, <2>3, Heads, Members DEF Tick, TickBegin, Countdown, NoSchedule,
       TypeInv, TypeOK
  <2>7. PcTypes'
    BY <1>0, <1>27, <2>1, <2>2, <2>3, Heads, Members DEF Tick, TickBegin, Countdown, NoSchedule,
       TypeInv, TypeOK
  <2>8. TickTypes'
    BY <1>0, <1>27, <2>1, <2>2, <2>3, Heads, Members DEF Tick, TickBegin, Countdown, NoSchedule,
       TypeInv, TypeOK
  <2>9. IdleInv'
    BY <1>0, <1>27, <2>1, <2>2, <2>3, Heads, Members DEF Tick, TickBegin, Countdown, NoSchedule,
       TypeInv, TypeOK, IdleInv
  <2>10. LocalInv'
    BY <1>0, <1>27, <2>1, <2>2, <2>3, Heads, Members DEF Tick, TickBegin, Countdown, NoSchedule,
       TypeInv, TypeOK, LocalInv
  <2>11. LockInv'
    BY <1>0, <1>27, <2>1, <2>2, <2>3, Heads, Members DEF Tick, TickBegin, Countdown, NoSchedule,
       TypeInv, TypeOK, LockInv
  <2> QED  BY <2>4, <2>5, <2>6, <2>7, <2>8, <2>9, <2>10, <2>11
<1>28. CASE TickYield
  <2>1. started
    BY <1>28 DEF TickYield, TickBegin
  <2>2. \/ run \in Task /\ Rotate /\ Schedule("isr")
        \/ UNCHANGED <<status, list>> /\ halt' \in BOOLEAN /\ NoSchedule
    BY <1>28 DEF TickYield, TypeInv, TypeOK
  <2>3. status' = status \/ \E S \in SUBSET Flag : run \in Task /\ status' = [status EXCEPT ![run] = S]
    BY <2>2, Members DEF Rotate, TypeInv, TypeOK
  <2>4. "READY" \in status'[Idle] /\ status'[Idle] \cap {"SUSPEND", "UNUSED"} = {}
    <3>1. \/ status' = status
          \/ run \in Task /\ status' = [status EXCEPT ![run] = status[run] \cup {"READY"}]
      BY <2>2 DEF Rotate
    <3>2. status'[Idle] \in {status[Idle], status[Idle] \cup {"READY"}}
      BY <3>1, Heads DEF TypeInv, TypeOK
    <3> QED  BY <3>2 DEF TypeInv, IdleInv
  <2>5. halt' \in BOOLEAN
    BY <2>2 DEF Rotate
  <2>6. pendsv' \in BOOLEAN /\ pc' \in [Task -> Place] /\ pc'[Idle] = "user" /\ LockInv'
        /\ \A u \in Task : pc'[u] \in {"alloc", "create"} => newborn'[u] # Null
    BY <1>0, <1>28, <2>1, <2>2, ScheduleType DEF TickYield, Context
  <2>7. SliceLeft > 0 => SliceLeft \in 0..Slice
    <3>1. slice.left \in 0..Slice
      BY DEF TypeInv, TypeOK
    <3> QED  BY <3>1, Heads DEF SliceLeft
  <2>8. slice' \in [task : Task \cup {Dummy, Null}, left : 0..Slice] /\ (slice'.task # Null => slice'.left > 0)
    BY <1>28, Heads DEF TickYield
  <2>9. scan' \in [at : {"idle", "next", "expire"}, task : Task \cup {Null},
                   was : SUBSET Flag, need : BOOLEAN]
        /\ scan'.at = "next" /\ scan'.task = Null
    BY <1>28 DEF TickYield, Tick, TickBegin, Idling, TypeInv, TypeOK
  <2>10. StatusTypes'
    BY <1>28, <2>1, <2>2, <2>3, <2>4, <2>5, <2>6, <2>7, <2>8, <2>9 DEF TickYield, TickBegin,
       Countdown, TypeInv, TypeOK
  <2>11. TaskTypes'
    BY <1>28, <2>1, <2>2, <2>3, <2>4, <2>5, <2>6, <2>7, <2>8, <2>9 DEF TickYield, TickBegin,
       Countdown, TypeInv, TypeOK
  <2>12. CpuTypes'
    BY <1>0, <1>28, <2>1, <2>2, <2>3, <2>4, <2>5, <2>6, <2>7, <2>8, <2>9, Heads, Members DEF
       TickYield, TickBegin, Countdown, TypeInv, TypeOK
  <2>13. PcTypes'
    BY <1>0, <1>28, <2>1, <2>2, <2>3, <2>4, <2>5, <2>6, <2>7, <2>8, <2>9, Heads, Members DEF
       TickYield, TickBegin, Countdown, TypeInv, TypeOK
  <2>14. TickTypes'
    BY <1>0, <1>28, <2>1, <2>2, <2>3, <2>4, <2>5, <2>6, <2>7, <2>8, <2>9, Heads, Members DEF
       TickYield, TickBegin, Countdown, TypeInv, TypeOK
  <2>15. IdleInv'
    BY <1>0, <1>28, <2>1, <2>2, <2>3, <2>4, <2>5, <2>6, <2>7, <2>8, <2>9, Heads, Members DEF
       TickYield, TickBegin, Countdown, TypeInv, TypeOK, IdleInv
  <2>16. LocalInv'
    BY <1>0, <1>28, <2>1, <2>2, <2>3, <2>4, <2>5, <2>6, <2>7, <2>8, <2>9, Heads, Members DEF
       TickYield, TickBegin, Countdown, TypeInv, TypeOK, LocalInv
  <2>17. LockInv'
    BY <1>0, <1>28, <2>1, <2>2, <2>3, <2>4, <2>5, <2>6, <2>7, <2>8, <2>9, Heads, Members DEF
       TickYield, TickBegin, Countdown, TypeInv, TypeOK, LockInv
  <2> QED  BY <2>10, <2>11, <2>12, <2>13, <2>14, <2>15, <2>16, <2>17
<1>29. CASE ScanNext
  <2>1. Head(timerQ) \in Task \ {Idle}
    BY <1>29, HeadTailRange DEF ScanNext, TypeInv, TypeOK, IdleInv
  <2>2. StatusTypes'
    BY <1>29, <2>1 DEF ScanNext, taskVars, cpuVars, TypeInv, TypeOK
  <2>3. TaskTypes'
    BY <1>29, <2>1 DEF ScanNext, taskVars, cpuVars, TypeInv, TypeOK
  <2>4. CpuTypes' /\ PcTypes' /\ TickTypes'
    BY <1>0, <1>29, <2>1, Heads, Members DEF ScanNext, taskVars, cpuVars, TypeInv, TypeOK
  <2>5. IdleInv'
    BY <1>0, <1>29, <2>1, Heads, Members DEF ScanNext, taskVars, cpuVars, TypeInv, TypeOK,
       IdleInv
  <2>6. LocalInv' /\ LockInv'
    BY <1>0, <1>29, <2>1, Heads, Members DEF ScanNext, taskVars, cpuVars, TypeInv, TypeOK,
       LocalInv, LockInv
  <2> QED  BY <2>2, <2>3, <2>4, <2>5, <2>6
<1>30. CASE ScanExpire
  <2>1. scan.task \in Task \ {Idle}
    BY <1>30 DEF ScanExpire, TypeInv, TypeOK, IdleInv, LocalInv
  <2>2. \E S \in SUBSET Flag : status' = [status EXCEPT ![scan.task] = S]
    BY <1>30, <2>1, Members DEF ScanExpire, TypeInv, TypeOK
  <2>3. StatusTypes'
    BY <2>2 DEF TypeInv, TypeOK
  <2>4. TaskTypes'
    BY <1>30, <2>1, <2>2 DEF ScanExpire, Idling, cpuVars, TypeInv, TypeOK
  <2>5. CpuTypes'
    BY <1>0, <1>30, <2>1, <2>2, Heads, Members DEF ScanExpire, Idling, cpuVars, TypeInv, TypeOK
  <2>6. PcTypes'
    BY <1>0, <1>30, <2>1, <2>2, Heads, Members DEF ScanExpire, Idling, cpuVars, TypeInv, TypeOK
  <2>7. TickTypes'
    BY <1>0, <1>30, <2>1, <2>2, Heads, Members DEF ScanExpire, Idling, cpuVars, TypeInv, TypeOK
  <2>8. IdleInv'
    BY <1>0, <1>30, <2>1, <2>2, Heads, Members DEF ScanExpire, Idling, cpuVars, TypeInv, TypeOK,
       IdleInv
  <2>9. LocalInv'
    BY <1>0, <1>30, <2>1, <2>2, Heads, Members DEF ScanExpire, Idling, cpuVars, TypeInv, TypeOK,
       LocalInv
  <2>10. LockInv'
    BY <1>0, <1>30, <2>1, <2>2, Heads, Members DEF ScanExpire, Idling, cpuVars, TypeInv, TypeOK,
       LockInv
  <2> QED  BY <2>3, <2>4, <2>5, <2>6, <2>7, <2>8, <2>9, <2>10
<1>31. CASE ScanEnd
  <2>1. started
    BY <1>31 DEF ScanEnd, TypeInv, LockInv
  <2>2. pendsv' \in BOOLEAN /\ pc' \in [Task -> Place] /\ pc'[Idle] = "user" /\ LockInv'
        /\ \A u \in Task : pc'[u] \in {"alloc", "create"} => newborn'[u] # Null
    BY <1>0, <1>31, <2>1, ScheduleType DEF ScanEnd, Context
  <2>3. StatusTypes'
    BY <1>31, <2>1, <2>2 DEF ScanEnd, Idling, taskVars, TypeInv, TypeOK
  <2>4. TaskTypes'
    BY <1>31, <2>1, <2>2 DEF ScanEnd, Idling, taskVars, TypeInv, TypeOK
  <2>5. CpuTypes'
    BY <1>0, <1>31, <2>1, <2>2, Heads, Members DEF ScanEnd, Idling, taskVars, TypeInv, TypeOK
  <2>6. PcTypes'
    BY <1>0, <1>31, <2>1, <2>2, Heads, Members DEF ScanEnd, Idling, taskVars, TypeInv, TypeOK
  <2>7. TickTypes'
    BY <1>0, <1>31, <2>1, <2>2, Heads, Members DEF ScanEnd, Idling, taskVars, TypeInv, TypeOK
  <2>8. IdleInv'
    BY <1>0, <1>31, <2>1, <2>2, Heads, Members DEF ScanEnd, Idling, taskVars, TypeInv, TypeOK,
       IdleInv
  <2>9. LocalInv'
    BY <1>0, <1>31, <2>1, <2>2, Heads, Members DEF ScanEnd, Idling, taskVars, TypeInv, TypeOK,
       LocalInv
  <2>10. LockInv'
    BY <1>0, <1>31, <2>1, <2>2, Heads, Members DEF ScanEnd, Idling, taskVars, TypeInv, TypeOK,
       LockInv
  <2> QED  BY <2>3, <2>4, <2>5, <2>6, <2>7, <2>8, <2>9, <2>10
<1>32. CASE CreateStep
  BY <1>32, <1>3, <1>4, <1>5, <1>5a, <1>5b, <1>6, <1>7 DEF CreateStep
<1>33. CASE ControlStep
  BY <1>33, <1>8, <1>9, <1>10, <1>11, <1>12, <1>13, <1>14, <1>15, <1>16,
     <1>17, <1>18, <1>19, <1>20 DEF ControlStep
<1>34. CASE WaitStep
  BY <1>34, <1>21, <1>22, <1>23, WakesContext DEF WaitStep
<1>35. CASE SwitchStep
  BY <1>35, <1>24, <1>25, <1>26 DEF SwitchStep
<1>36. CASE TickStep
  BY <1>36, <1>27, <1>28, <1>29, <1>30, <1>31 DEF TickStep
<1> QED
  BY <1>1, <1>2, <1>32, <1>33, <1>34, <1>35, <1>36 DEF Next

\* After start-up the strengthened type invariant holds.
LEMMA TypeInit == Init => TypeInv
<1> SUFFICES ASSUME Init PROVE TypeInv
  OBVIOUS
<1>1. Idle # Null /\ SwtmrTask # Idle /\ Idle \notin ToSet(TcbOrder) /\ TcbOrder \in Seq(Task)
  BY TaskAssumption
<1>2. GoodLists(list)
  <2>1. /\ <<>> \in Seq(Task) /\ <<Idle>> \in Seq(Task) /\ Idle \notin ToSet(<<>>)
        /\ ToSet(<<Idle>>) = {Idle}
    BY Heads, SingletonRange DEF ToSet
  <2>2. SwtmrTask # Null => <<SwtmrTask>> \in Seq(Task) /\ ToSet(<<SwtmrTask>>) = {SwtmrTask}
    BY TaskAssumption, SingletonRange
  <2>3. Lowest # 0 /\ Free # Lowest
    BY TaskAssumption, Heads
  <2>4. list \in Lists
    BY <1>1, <2>1, <2>2 DEF Init, Lists
  <2>5. list[Lowest] = <<Idle>>
    BY <2>3, Heads DEF Init
  <2>6. ASSUME NEW h \in Head_ \ {Lowest} PROVE Idle \notin ToSet(list[h])
    BY <1>1, <2>1, <2>2, <2>6 DEF Init
  <2> QED  BY <2>1, <2>4, <2>5, <2>6 DEF GoodLists
<1>3. list \in [Head_ -> Seq(Task)]
  BY <1>2 DEF GoodLists, Lists
<1>4. status \in [Task -> SUBSET Flag] /\ prio \in [Task -> Prio] /\ left \in [Task -> Int]
  <2>1. {"READY"} \in SUBSET Flag /\ {"READY", "DETACHED"} \in SUBSET Flag /\ {"UNUSED"} \in SUBSET Flag
    BY Members
  <2>2. 0 \in Prio /\ Lowest \in Prio
    BY TaskAssumption DEF Prio
  <2> QED  BY <2>1, <2>2 DEF Init
<1>5. timerQ \in Seq(Task) /\ Idle \notin ToSet(timerQ)
  BY DEF Init, ToSet
<1>6. new \in Task
  BY TaskAssumption DEF Init
<1>7. /\ pc \in [Task -> Place] /\ newborn \in [Task -> Task \cup {Null}]
      /\ slice \in [task : Task \cup {Dummy, Null}, left : 0..Slice]
      /\ scan \in [at : {"idle", "next", "expire"}, task : Task \cup {Null},
                   was : SUBSET Flag, need : BOOLEAN]
  BY Heads, Members DEF Init, Idling
<1>8. run = Dummy /\ zombie = Dummy /\ lock = 0 /\ lock \in 0..MaxLock + 1
  BY TaskAssumption DEF Init
<1>9. prio[Idle] = Lowest /\ status[Idle] = {"READY"}
  BY Heads DEF Init
<1>10. TypeOK
  BY <1>3, <1>4, <1>5, <1>6, <1>7, <1>8 DEF Init, TypeOK
<1>11. IdleInv
  BY <1>1, <1>2, <1>5, <1>9, Heads DEF Init, IdleInv, Idling
<1>12. LocalInv
  BY DEF Init, LocalInv, Idling
<1>13. LockInv
  BY <1>8, Heads DEF Init, LockInv, Idling
<1> QED  BY <1>10, <1>11, <1>12, <1>13 DEF TypeInv

\* The state of the scheduler keeps its types whatever applications and interrupts do:
\* no list but those of tasks, no index out of the arrays, no lock count below zero.
THEOREM TypeCorrect == Spec => []TypeOK
<1>1. TypeInv => TypeOK
  BY DEF TypeInv
<1> QED  BY <1>1, TypeInit, TypeStep, PTL DEF Spec

\* Whatever applications and interrupts do, no other task takes the processor while the
\* scheduler is locked (LOS_TaskLock, LOS_Schedule and the callers of osSchedule).
THEOREM NoSwitchLocked == Spec => NoSwitchWhileLocked
<1> DEFINE A == run' # run /\ run' # Dummy /\ started => lock = 0
<1>1. TypeInv /\ [Next]_vars => [A]_vars
  <2> SUFFICES ASSUME TypeInv, [Next]_vars PROVE [A]_vars
    OBVIOUS
  <2>1. CASE UNCHANGED vars
    BY <2>1
  <2>2. CASE PendSV
    BY <2>2 DEF PendSV, TypeInv, LockInv
  <2>3. CASE LOS_Start
    BY <2>3 DEF LOS_Start
  <2>4. CASE ~PendSV /\ ~LOS_Start /\ ~UNCHANGED vars
    <3>1. CASE CreateStep
      BY <3>1 DEF CreateStep, TaskCreateTake, TaskCreateNoMemory, TaskCreateFill, TaskCreateReady,
                  LOS_TaskCreateOnly, LOS_TaskCreate, CreateAtOnce, CreateNothing, cpuVars
    <3>2. CASE ControlStep
      BY <3>2 DEF ControlStep, LOS_TaskResume, LOS_TaskSuspend, LOS_TaskDelete, LOS_TaskPriSet,
                  TaskEntryDetached, TaskEntryJoinable, TaskEntryFinish, TaskEntryUnlock,
                  osTaskExit, LOS_TaskDelay, LOS_TaskYield, LOS_TaskLock, LOS_TaskUnlock,
                  RetireRun, cpuVars
    <3>3. CASE WaitStep
      BY <3>3 DEF WaitStep, Pend, Block, Wake, Release, PassOn, Hand, WaitReturn, cpuVars
    <3>4. CASE SwitchStep
      BY <2>4, <3>4 DEF SwitchStep, TaskSchedule, TaskSwitch
    <3>5. CASE TickStep
      BY <3>5 DEF TickStep, Tick, TickYield, ScanNext, ScanExpire, ScanEnd, cpuVars
    <3> QED  BY <2>4, <3>1, <3>2, <3>3, <3>4, <3>5 DEF Next
  <2> QED  BY <2>1, <2>2, <2>3, <2>4
<1> QED  BY <1>1, TypeInit, TypeStep, PTL DEF Spec, NoSwitchWhileLocked
-----------------------------------------------------------------------------
\* Lists in which no object has a waiter it does not have now, or one of its waiters twice.
Fewer(L) ==
  /\ L \in Lists
  /\ \A o \in Obj : /\ ToSet(L[o]) \subseteq ToSet(list[o])
                    /\ IsInjective(list[o]) => IsInjective(L[o])

\* LOS_ListDelete, and insertions at the lists of ready or free tasks, keep it so.
LEMMA FewerKept ==
  ASSUME NEW L, Fewer(L), NEW t \in Task
  PROVE  /\ Fewer(Unlink(L, t))
         /\ \A h \in Head_ \ Obj : Fewer(AddTail(L, h, t)) /\ Fewer(AddHead(L, h, t))
<1>1. Fewer(Unlink(L, t))
  <2>1. /\ Unlink(L, t) \in Lists
        /\ \A h \in Head_ : /\ ToSet(Unlink(L, t)[h]) \subseteq ToSet(L[h])
                            /\ IsInjective(L[h]) => IsInjective(Unlink(L, t)[h])
    BY UnlinkType DEF Fewer
  <2> QED  BY <2>1, Heads DEF Fewer
<1>2. ASSUME NEW h \in Head_ \ Obj PROVE Fewer(AddTail(L, h, t)) /\ Fewer(AddHead(L, h, t))
  <2>1. \A o \in Obj : AddTail(L, h, t)[o] = L[o] /\ AddHead(L, h, t)[o] = L[o]
    BY Heads DEF AddTail, AddHead, Fewer, Lists
  <2>2. AddTail(L, h, t) \in Lists /\ AddHead(L, h, t) \in Lists
    BY AddTailType, AddHeadType DEF Fewer
  <2> QED  BY <2>1, <2>2 DEF Fewer
<1> QED  BY <1>1, <1>2

\* The lists now, and after LOS_TaskCreate reclaimed the recycled control blocks.
LEMMA FewerNow ==
  ASSUME list \in Lists
  PROVE  /\ Fewer(list)
         /\ Reclaimed[Free] # <<>> => Fewer([Reclaimed EXCEPT ![Free] = Tail(@)])
         /\ Fewer(Reclaimed)
<1>1. Fewer(list) /\ Fewer(Reclaimed)
  BY ReclaimedType, Heads DEF Fewer
<1>2. ASSUME Reclaimed[Free] # <<>> PROVE Fewer([Reclaimed EXCEPT ![Free] = Tail(@)])
  <2>1. Tail(Reclaimed[Free]) \in Seq(Task)
    BY <1>1, <1>2, HeadTailRange, Heads DEF Fewer, Lists
  <2> QED  BY <1>1, <2>1, Heads DEF Fewer, Lists
<1> QED  BY <1>1, <1>2

\* No step of the scheduler but Pend puts a task on the list of an object.
LEMMA OnlyPendAdds ==
  TypeInv /\ KernelStep =>
    \A o \in Obj : /\ ToSet(list'[o]) \subseteq ToSet(list[o])
                   /\ IsInjective(list[o]) => IsInjective(list'[o])
<1> SUFFICES ASSUME TypeInv, KernelStep PROVE Fewer(list')
  BY DEF Fewer
<1>0. /\ Fewer(list) /\ prio \in [Task -> Prio] /\ run \in Task \cup {Dummy}
      /\ Prio \subseteq Head_ \ Obj /\ Free \in Head_ \ Obj /\ Recycle \in Head_ \ Obj
  BY FewerNow, Heads DEF TypeInv, TypeOK, Lists
<1>1. CASE UNCHANGED list
  BY <1>0, <1>1
<1>2. CASE TaskCreateReady
  <2>1. newborn[run] \in Task
    BY <1>2, Heads DEF TaskCreateReady, TaskRuns, TypeInv, TypeOK, LocalInv
  <2> QED  BY <1>0, <1>2, <2>1, FewerKept DEF TaskCreateReady
<1>3. ASSUME NEW c \in Context, CreateNothing(c) PROVE Fewer(list')
  BY <1>0, <1>3, FewerNow DEF CreateNothing, Fewer
<1>3a. CASE TaskCreateTake
  BY <1>0, <1>3a, FewerNow DEF TaskCreateTake, Fewer
<1>3b. CASE TaskCreateNoMemory
  BY <1>0, <1>3b, NewbornType, FewerKept DEF TaskCreateNoMemory
<1>4. ASSUME NEW c \in Context, NEW t \in Task, NEW p \in AppPrio, NEW flags \in Attr,
             LOS_TaskCreateOnly(c, t, p, flags) \/ LOS_TaskCreate(c, t, p, flags)
      PROVE  Fewer(list')
  <2> DEFINE L == [Reclaimed EXCEPT ![Free] = Tail(@)]
  <2>1. Reclaimed[Free] # <<>> /\ (list' = L \/ list' = AddTail(L, p, t))
    BY <1>4 DEF LOS_TaskCreateOnly, LOS_TaskCreate, CreateAtOnce
  <2>2. Fewer(L) /\ p \in Prio
    BY <1>0, <2>1, FewerNow, Heads DEF Fewer
  <2> HIDE DEF L
  <2> QED  BY <1>0, <2>1, <2>2, FewerKept
<1>5. ASSUME NEW c \in Context, NEW t \in Task, LOS_TaskResume(c, t) PROVE Fewer(list')
  BY <1>0, <1>5, FewerKept DEF LOS_TaskResume
<1>6. ASSUME NEW c \in Context, NEW t \in Task, LOS_TaskSuspend(c, t) PROVE Fewer(list')
  BY <1>0, <1>6, FewerKept DEF LOS_TaskSuspend
<1>7. ASSUME NEW t \in Task, Fewer(Detach(t)) => Fewer(list') PROVE Fewer(list')
  BY <1>0, <1>7, FewerKept DEF Detach
<1>8. ASSUME NEW c \in Context, NEW t \in Task, LOS_TaskDelete(c, t) PROVE Fewer(list')
  <2>1. list' = AddTail(Detach(t), Recycle, t) \/ list' = AddHead(Detach(t), Free, t)
    BY <1>8 DEF LOS_TaskDelete, RetireRun
  <2> QED  BY <1>0, <1>7, <2>1, FewerKept
<1>9. CASE TaskEntryDetached
  <2>1. run \in Task /\ list' = AddTail(Detach(run), Recycle, run)
    BY <1>9 DEF TaskEntryDetached, RetireRun, Returns, TaskRuns
  <2> QED  BY <1>0, <1>7, <2>1, FewerKept
<1>10. ASSUME NEW c \in Context, NEW t \in Task, NEW p \in AppPrio, LOS_TaskPriSet(c, t, p)
       PROVE  Fewer(list')
  <2>1. p \in Head_ \ Obj
    BY <1>0, Heads
  <2>2. Fewer(Unlink(list, t))
    BY <1>0, FewerKept
  <2> QED  BY <1>0, <1>10, <2>1, <2>2, FewerKept DEF LOS_TaskPriSet
<1>11. CASE TaskEntryFinish
  BY <1>0, <1>11, FewerKept DEF TaskEntryFinish, TaskRuns
<1>12. ASSUME NEW n \in Timeouts, LOS_TaskDelay(n) PROVE Fewer(list')
  BY <1>0, <1>12, FewerKept DEF LOS_TaskDelay, MayCall, TaskRuns
<1>13. ASSUME run \in Task, Rotate PROVE Fewer(list')
  <2>1. Fewer(Unlink(list, run)) /\ prio[run] \in Head_ \ Obj
    BY <1>0, <1>13, FewerKept
  <2> QED  BY <1>13, <2>1, FewerKept DEF Rotate
<1>14. CASE LOS_TaskYield
  BY <1>13, <1>14 DEF LOS_TaskYield, MayCall, TaskRuns
<1>15. CASE TickYield
  BY <1>1, <1>13, <1>15 DEF TickYield
<1>16. CASE ScanExpire
  <2> DEFINE t == scan.task
  <2>1. t \in Task /\ prio[t] \in Head_ \ Obj
    BY <1>0, <1>16, Heads DEF ScanExpire, TypeInv, TypeOK, LocalInv
  <2>2. \E L \in {list, Unlink(list, t)} : list' \in {L, AddTail(L, prio[t], t)}
    BY <1>16 DEF ScanExpire
  <2> HIDE DEF t
  <2> QED  BY <1>0, <2>1, <2>2, FewerKept
<1>17. CASE LOS_Start \/ TaskEntryJoinable \/ TaskEntryUnlock \/ osTaskExit \/ LOS_TaskLock
            \/ LOS_TaskUnlock \/ WaitReturn \/ SwitchStep \/ Tick \/ ScanNext \/ ScanEnd
  <2>1. UNCHANGED list
    BY <1>17 DEF LOS_Start, TaskEntryJoinable, TaskEntryUnlock, osTaskExit, LOS_TaskLock,
                 LOS_TaskUnlock, WaitReturn, SwitchStep, TaskSchedule, TaskSwitch, PendSV,
                 Tick, ScanNext, ScanEnd, taskVars
  <2> QED  BY <1>1, <2>1
<1>18. CASE CreateStep
  BY <1>18, <1>1, <1>2, <1>3, <1>3a, <1>3b, <1>4 DEF CreateStep, TaskCreateFill
<1>19. CASE ControlStep
  BY <1>19, <1>5, <1>6, <1>8, <1>9, <1>10, <1>11, <1>12, <1>14, <1>17 DEF ControlStep
<1>20. CASE TickStep
  BY <1>20, <1>15, <1>16, <1>17 DEF TickStep
<1> QED  BY <1>17, <1>18, <1>19, <1>20 DEF KernelStep
-----------------------------------------------------------------------------
(***************************************************************************)
(* Proof that Task uses the delay list as DelayList asks (KeepsDelayList), *)
(* for any number of tasks and whatever handlers nest in the tick.         *)
(*                                                                         *)
(* The list is kept in order of expiry, and nobody stays on it at zero     *)
(* between two ticks: that is what osTaskScan relies on when it stops at   *)
(* the first task that has not expired.  The task it takes off is the one  *)
(* it read before it enabled interrupts, so it must still be the first, or *)
(* have left the list (DelayInv).                                          *)
(***************************************************************************)

\* The entries of a delay list are in order of the ticks they have left.
Ordered(Q, f) == \A i, j \in 1..Len(Q) : i <= j => f[Q[i]] <= f[Q[j]]

\* What is true of the delay list as long as the kernel followed no null link.
DelayInv ==
  /\ IsInjective(timerQ) /\ Ordered(timerQ, left)
  /\ \A t \in ToSet(timerQ) : left[t] >= 0
  /\ scan.at = "idle" => \A t \in ToSet(timerQ) : left[t] > 0
  /\ scan.at = "expire" /\ scan.task \in ToSet(timerQ) =>
       scan.task = Head(timerQ) /\ left[scan.task] = 0

\* osTaskAdd2TimerList keeps the list in order: the entries that expire no later than
\* the new one are the first ones.
LEMMA AddTimerOrdered ==
  ASSUME NEW Q \in Seq(Task), NEW t \in Task \ ToSet(Q), NEW n \in Nat,
         left \in [Task -> Int], Ordered(Q, left), IsInjective(Q)
  PROVE  /\ IsInjective(AddTimer(Q, t, n))
         /\ Ordered(AddTimer(Q, t, n), [left EXCEPT ![t] = n])
<1> DEFINE I == {i \in DOMAIN Q : left[Q[i]] <= n}
           C == {i \in 1..Len(Q) + 1 : i \notin I}
<1>0. /\ DOMAIN Q = 1..Len(Q) /\ Len(Q) \in Nat
      /\ \A i \in 1..Len(Q) : Q[i] \in Task /\ Q[i] # t /\ left[Q[i]] \in Int
  BY InToSet
<1>1. \E m \in C : \A i \in C : m <= i
  <2>1. C \in SUBSET Nat /\ Len(Q) + 1 \in C
    BY <1>0
  <2> HIDE DEF C
  <2> QED  BY <2>1, MinExists
<1>2. PICK m \in 1..Len(Q) + 1 : m \notin I /\ \A i \in 1..Len(Q) + 1 : i \notin I => m <= i
  BY <1>1
<1>3. I = 1..m - 1
  <2>1. ASSUME NEW i \in 1..m - 1 PROVE i \in I
    BY <1>0, <1>2, <2>1
  <2>2. ASSUME NEW i \in I PROVE i \in 1..m - 1
    <3>1. i \in 1..Len(Q) /\ left[Q[i]] <= n
      BY <1>0
    <3>2. CASE m <= i
      <4>1. m \in 1..Len(Q) /\ left[Q[m]] <= left[Q[i]]
        BY <1>0, <1>2, <3>1, <3>2 DEF Ordered
      <4> QED  BY <1>0, <1>2, <3>1, <4>1
    <3> QED  BY <1>0, <1>2, <3>1, <3>2
  <2> QED  BY <2>1, <2>2
<1>4. \A i \in 1..m - 1 : left[Q[i]] <= n
  BY <1>3
<1>5. \A i \in m..Len(Q) : left[Q[i]] > n
  <2> TAKE i \in m..Len(Q)
  <2>1. i \in 1..Len(Q) /\ i \notin I
    BY <1>0, <1>2, <1>3
  <2> QED  BY <1>0, <2>1
<1> HIDE DEF I, C
<1>6. Cardinality(I) = m - 1
  <2>1. m - 1 \in Nat /\ 1 \in Int
    BY <1>0, <1>2
  <2> QED  BY <1>3, <2>1, FS_Interval
<1>7. AddTimer(Q, t, n) = InsertAt(Q, m, t)
  <2>1. 1 + Cardinality(I) = m
    BY <1>0, <1>2, <1>6
  <2> QED  BY <2>1 DEF AddTimer, I
<1> DEFINE R == InsertAt(Q, m, t)
           f == [left EXCEPT ![t] = n]
<1>8. /\ IsInjective(R) /\ Len(R) = Len(Q) + 1
      /\ \A j \in 1..Len(Q) + 1 :
           R[j] = IF j < m THEN Q[j] ELSE IF j = m THEN t ELSE Q[j - 1]
  BY <1>2, InsertAtRange, InsertAtElements
<1>9. f[t] = n /\ \A u \in Task \ {t} : f[u] = left[u]
  OBVIOUS
<1> HIDE DEF R, f
<1>10. ASSUME NEW i \in 1..Len(R), NEW j \in 1..Len(R), i <= j
       PROVE  f[R[i]] <= f[R[j]]
  <2>1. CASE j < m
    <3>1. R[i] = Q[i] /\ R[j] = Q[j] /\ i \in 1..Len(Q) /\ j \in 1..Len(Q)
      BY <1>0, <1>2, <1>8, <1>10, <2>1
    <3> QED  BY <1>0, <1>9, <1>10, <3>1 DEF Ordered
  <2>2. CASE j = m /\ i < m
    <3>1. R[i] = Q[i] /\ R[j] = t /\ i \in 1..Len(Q) /\ i \in 1..m - 1
      BY <1>0, <1>2, <1>8, <1>10, <2>2
    <3> QED  BY <1>0, <1>4, <1>9, <3>1
  <2>3. CASE j = m /\ i = m
    BY <1>8, <1>9, <2>3
  <2>4. CASE j > m /\ i < m
    <3>1. R[i] = Q[i] /\ R[j] = Q[j - 1] /\ i \in 1..Len(Q) /\ j - 1 \in 1..Len(Q) /\ i <= j - 1
      BY <1>0, <1>2, <1>8, <1>10, <2>4
    <3> QED  BY <1>0, <1>9, <3>1 DEF Ordered
  <2>5. CASE j > m /\ i = m
    <3>1. R[i] = t /\ R[j] = Q[j - 1] /\ j - 1 \in 1..Len(Q) /\ j - 1 \in m..Len(Q)
      BY <1>0, <1>2, <1>8, <1>10, <2>5
    <3>2. left[Q[j - 1]] > n /\ left[Q[j - 1]] \in Int
      BY <1>0, <1>5, <3>1
    <3> QED  BY <1>0, <1>9, <3>1, <3>2
  <2>6. CASE j > m /\ i > m
    <3>1. /\ R[i] = Q[i - 1] /\ R[j] = Q[j - 1] /\ i - 1 \in 1..Len(Q) /\ j - 1 \in 1..Len(Q)
          /\ i - 1 <= j - 1
      BY <1>0, <1>2, <1>8, <1>10, <2>6
    <3> QED  BY <1>0, <1>9, <3>1 DEF Ordered
  <2>7. i \in Int /\ j \in Int /\ m \in Int
    BY <1>0, <1>2, <1>8
  <2> QED  BY <1>10, <2>1, <2>2, <2>3, <2>4, <2>5, <2>6, <2>7
<1>11. IsInjective(R) /\ Ordered(R, f)
  BY <1>8, <1>10 DEF Ordered
<1> QED  BY <1>7, <1>11 DEF R, f

\* osTimerListDelete keeps the list in order, and its first entry unless that is the one
\* taken off.
LEMMA DelTimerOrdered ==
  ASSUME NEW Q \in Seq(Task), NEW t \in ToSet(Q), left \in [Task -> Int],
         Ordered(Q, left), IsInjective(Q), NEW n
  PROVE  /\ IsInjective(DelTimer(Q, t)) /\ ToSet(DelTimer(Q, t)) = ToSet(Q) \ {t}
         /\ Ordered(DelTimer(Q, t), left)
         /\ Ordered(DelTimer(Q, t), [left EXCEPT ![t] = n])
         /\ t # Head(Q) => DelTimer(Q, t) # <<>> /\ Head(DelTimer(Q, t)) = Head(Q)
         /\ t = Head(Q) => DelTimer(Q, t) = Tail(Q)
<1> DEFINE R == RemoveFirst(Q, t)
           f == [left EXCEPT ![t] = n]
<1>0. /\ Len(Q) \in Nat /\ \A i \in 1..Len(Q) : Q[i] \in Task /\ left[Q[i]] \in Int
      /\ t \in Task /\ \A i, j \in 1..Len(Q) : Q[i] = Q[j] => i = j
  BY InToSet DEF IsInjective
<1>1. PICK k \in 1..Len(Q) :
        /\ Q[k] = t /\ Len(R) = Len(Q) - 1
        /\ \A j \in 1..Len(Q) - 1 : R[j] = IF j < k THEN Q[j] ELSE Q[j + 1]
  BY RemoveFirstElements
<1>2. IsInjective(R) /\ ToSet(R) = ToSet(Q) \ {t} /\ R \in Seq(Task)
  BY RemoveFirstRange
<1>3. \A u \in Task \ {t} : f[u] = left[u]
  OBVIOUS
<1> HIDE DEF R, f
<1>4. \A i \in 1..Len(R) : R[i] # t /\ R[i] \in Task
  BY <1>2, InToSet
<1>5. ASSUME NEW i \in 1..Len(R), NEW j \in 1..Len(R), i <= j
      PROVE  left[R[i]] <= left[R[j]]
  <2>1. CASE j < k
    <3>1. R[i] = Q[i] /\ R[j] = Q[j] /\ i \in 1..Len(Q) /\ j \in 1..Len(Q)
      BY <1>0, <1>1, <1>5, <2>1
    <3> QED  BY <1>5, <3>1 DEF Ordered
  <2>2. CASE i < k /\ j >= k
    <3>1. R[i] = Q[i] /\ R[j] = Q[j + 1] /\ i \in 1..Len(Q) /\ j + 1 \in 1..Len(Q) /\ i <= j + 1
      BY <1>0, <1>1, <1>5, <2>2
    <3> QED  BY <3>1 DEF Ordered
  <2>3. CASE i >= k
    <3>1. /\ R[i] = Q[i + 1] /\ R[j] = Q[j + 1] /\ i + 1 \in 1..Len(Q) /\ j + 1 \in 1..Len(Q)
          /\ i + 1 <= j + 1
      BY <1>0, <1>1, <1>5, <2>3
    <3> QED  BY <3>1 DEF Ordered
  <2> QED  BY <1>0, <1>1, <1>5, <2>1, <2>2, <2>3
<1>6. Ordered(R, left) /\ Ordered(R, f)
  BY <1>3, <1>4, <1>5 DEF Ordered
<1>7. Q # <<>> /\ Head(Q) = Q[1]
  BY <1>0, <1>1
<1>8. ASSUME t # Head(Q) PROVE R # <<>> /\ Head(R) = Head(Q)
  <2>1. k > 1
    BY <1>0, <1>1, <1>7, <1>8
  <2>2. 1 \in 1..Len(Q) - 1
    BY <1>0, <1>1, <2>1
  <2>3. Len(R) > 0 /\ R[1] = Q[1]
    BY <1>0, <1>1, <2>1, <2>2
  <2> QED  BY <1>2, <1>7, <2>3
<1>9. ASSUME t = Head(Q) PROVE R = Tail(Q)
  <2>1. k = 1
    BY <1>0, <1>1, <1>7, <1>9
  <2>2. Tail(Q) \in Seq(Task) /\ Len(Tail(Q)) = Len(Q) - 1
        /\ \A i \in 1..Len(Tail(Q)) : Tail(Q)[i] = Q[i + 1]
    BY <1>7, HeadTailProperties
  <2>3. \A i \in 1..Len(R) : R[i] = Tail(Q)[i]
    BY <1>0, <1>1, <2>1, <2>2
  <2> QED  BY <1>1, <1>2, <2>2, <2>3, SeqEqual
<1> QED  BY <1>2, <1>6, <1>8, <1>9 DEF R, f, DelTimer
-----------------------------------------------------------------------------
\* What a step may do to the delay list: nothing, one of the operations DelayList names
\* and, for the scan, the reading of the first entry.
TimerCase ==
  \/ UNCHANGED <<timerQ, left, scan>>
  \/ \E t \in Task : Leave(t) /\ UNCHANGED scan
  \/ \E t \in Task, n \in Timeouts : Enter(t, n) /\ scan.at = "idle" /\ UNCHANGED scan
  \/ TickBegin /\ UNCHANGED timerQ
  \/ ScanNext
  \/ ScanExpire /\ scan.task \in ToSet(timerQ)
  \/ ScanEnd

\* A task that blocks or is woken, with whatever lists, is one of these.
LEMMA WaitTimers ==
  ASSUME TypeInv, NEW L, NEW o \in Obj, ~halt'
  PROVE  /\ \A n \in Timeouts \cup {Forever} : \A i : Block(L, o, n, i) => TimerCase /\ ~halt
         /\ \A c \in Context : Hand(L, c, o) => TimerCase /\ (MayCall(c, "Wake") => ~halt)
<1>1. ASSUME NEW n \in Timeouts \cup {Forever}, NEW i, Block(L, o, n, i) PROVE TimerCase /\ ~halt
  BY <1>1 DEF Block, MayCall, TaskRuns, cpuVars, TimerCase, Enter
<1>2. ASSUME NEW c \in Context, Hand(L, c, o) PROVE TimerCase /\ (MayCall(c, "Wake") => ~halt)
  <2>1. scan' = scan /\ list[o] # <<>>
    BY <1>2 DEF Hand
  <2>2. UNCHANGED <<timerQ, left>> \/ Leave(Head(list[o]))
    BY <1>2 DEF Hand, Leave
  <2>3. Head(list[o]) \in Task
    BY <2>1, HeadTailRange, Heads DEF TypeInv, TypeOK
  <2> QED  BY <2>1, <2>2, <2>3 DEF TimerCase, MayCall, TaskRuns
<1> QED  BY <1>1, <1>2

\* No step but those keeps the kernel from following a null link: a task that is put on
\* the delay list is not on it, one that is taken off is.
LEMMA TimerCases == TypeInv /\ Next /\ ~halt' => TimerCase /\ ~halt
<1> SUFFICES ASSUME TypeInv, Next, ~halt' PROVE TimerCase /\ ~halt
  OBVIOUS
<1> USE DEF taskVars, cpuVars
<1>1. ASSUME NEW c, NEW name, MayCall(c, name)
      PROVE  ~halt /\ (c = "task" => scan.at = "idle" /\ run \in Task)
  BY <1>1 DEF MayCall, TaskRuns
<1>2. ASSUME NEW where, TaskRuns(where) PROVE ~halt /\ scan.at = "idle" /\ run \in Task
  BY <1>2 DEF TaskRuns
<1>3. CASE LOS_Start \/ TaskSwitch \/ PendSV \/ \E from : TaskSchedule(from)
  BY <1>2, <1>3 DEF LOS_Start, TaskSwitch, PendSV, TaskSchedule, TimerCase
<1>4. CASE CreateStep
  BY <1>1, <1>2, <1>4 DEF CreateStep, TaskCreateReady, TaskCreateNoMemory, TaskCreateTake,
     TaskCreateFill, CreateNothing, LOS_TaskCreateOnly, LOS_TaskCreate, CreateAtOnce, TimerCase
<1>5. CASE \E c \in Context, t \in Task :
             \/ LOS_TaskResume(c, t) \/ LOS_TaskSuspend(c, t)
             \/ \E p \in AppPrio : LOS_TaskPriSet(c, t, p)
  BY <1>1, <1>5 DEF LOS_TaskResume, LOS_TaskSuspend, LOS_TaskPriSet, TimerCase
<1>6. ASSUME NEW c \in Context, NEW t \in Task, LOS_TaskDelete(c, t) PROVE TimerCase /\ ~halt
  BY <1>1, <1>6 DEF LOS_TaskDelete, TimerCase, Leave
<1>7. CASE TaskEntryDetached
  BY <1>2, <1>7 DEF TaskEntryDetached, Returns, TimerCase, Leave
<1>8. CASE TaskEntryJoinable \/ TaskEntryFinish \/ TaskEntryUnlock \/ osTaskExit \/ WaitReturn
  BY <1>2, <1>8 DEF TaskEntryJoinable, TaskEntryFinish, TaskEntryUnlock, osTaskExit, WaitReturn,
     Returns, TimerCase
<1>9. CASE LOS_TaskYield \/ LOS_TaskLock \/ LOS_TaskUnlock
  BY <1>1, <1>9 DEF LOS_TaskYield, LOS_TaskLock, LOS_TaskUnlock, TimerCase
<1>10. ASSUME NEW n \in Timeouts, LOS_TaskDelay(n) PROVE TimerCase /\ ~halt
  BY <1>1, <1>10 DEF LOS_TaskDelay, TimerCase, Enter
<1>11. ASSUME NEW o \in Obj, NEW n \in Timeouts \cup {Forever}, NEW i, Pend(o, n, i)
       PROVE  TimerCase /\ ~halt
  BY <1>11, WaitTimers DEF Pend
<1>12. ASSUME NEW c \in Context, NEW o \in Obj, Wakes(c, o) PROVE TimerCase /\ ~halt
  BY <1>2, <1>12, WaitTimers DEF Wakes
<1>13. CASE TickStep
  BY <1>13 DEF TickStep, Tick, TickYield, TickBegin, ScanNext, ScanExpire, ScanEnd, TimerCase
<1>14. CASE ControlStep
  BY <1>5, <1>6, <1>7, <1>8, <1>9, <1>10, <1>14 DEF ControlStep
<1>15. CASE WaitStep
  BY <1>8, <1>11, <1>12, <1>15, WakesContext DEF WaitStep
<1> QED  BY <1>3, <1>4, <1>13, <1>14, <1>15 DEF Next, SwitchStep

\* Each of them keeps the delay list in order, and is an operation of DelayList.
LEMMA DelayKept ==
  ASSUME TypeInv, TimerCase, DelayInv
  PROVE  DelayInv' /\ (TimerNext \/ UNCHANGED timerVars)
<1>0. /\ timerQ \in Seq(Task) /\ left \in [Task -> Int]
      /\ ToSet(timerQ) \subseteq Task /\ Len(timerQ) \in Nat
      /\ \A i \in 1..Len(timerQ) : timerQ[i] \in ToSet(timerQ)
      /\ Timeouts \subseteq Nat \ {0}
  BY InToSet, TaskAssumption DEF TypeInv, TypeOK
<1>1. CASE UNCHANGED <<timerQ, left, scan>>
  BY <1>1 DEF DelayInv, Ordered, timerVars
<1>2. ASSUME NEW t \in Task, Leave(t), UNCHANGED scan
      PROVE  DelayInv' /\ TimerNext
  <2>1. t \in ToSet(timerQ) /\ timerQ' = DelTimer(timerQ, t) /\ left' = [left EXCEPT ![t] = 0]
    BY <1>2 DEF Leave
  <2>2. /\ IsInjective(timerQ') /\ ToSet(timerQ') = ToSet(timerQ) \ {t}
        /\ Ordered(timerQ', left') /\ (t # Head(timerQ) => Head(timerQ') = Head(timerQ))
    BY <1>0, <2>1, DelTimerOrdered DEF DelayInv
  <2>3. \A u \in ToSet(timerQ') : u \in ToSet(timerQ) /\ left'[u] = left[u] /\ u # t
    BY <1>0, <2>1, <2>2
  <2>4. DelayInv'
    BY <1>2, <2>2, <2>3 DEF DelayInv
  <2> QED  BY <1>2, <2>4 DEF TimerNext
<1>3. ASSUME NEW t \in Task, NEW n \in Timeouts, Enter(t, n), scan.at = "idle", UNCHANGED scan
      PROVE  DelayInv' /\ TimerNext
  <2>1. t \notin ToSet(timerQ) /\ timerQ' = AddTimer(timerQ, t, n) /\ left' = [left EXCEPT ![t] = n]
    BY <1>3 DEF Enter
  <2>2. IsInjective(timerQ') /\ Ordered(timerQ', left') /\ ToSet(timerQ') = ToSet(timerQ) \cup {t}
    BY <1>0, <2>1, AddTimerOrdered, TimerType DEF DelayInv
  <2>3. left'[t] = n /\ n > 0 /\ \A u \in ToSet(timerQ) : left'[u] = left[u]
    BY <1>0, <2>1
  <2>4. DelayInv'
    BY <1>0, <1>3, <2>2, <2>3 DEF DelayInv
  <2> QED  BY <1>3, <2>4 DEF TimerNext
<1>4. CASE TickBegin /\ UNCHANGED timerQ
  <2>1. scan.at = "idle" /\ scan'.at = "next"
    BY <1>4 DEF TickBegin, Idling
  <2>2. \A u \in ToSet(timerQ) : left'[u] = left[u] - 1 /\ left[u] \in Int /\ left[u] > 0
    BY <1>0, <1>4, <2>1 DEF TickBegin, Countdown, DelayInv
  <2>3. Ordered(timerQ', left')
    BY <1>0, <1>4, <2>2 DEF DelayInv, Ordered
  <2>4. DelayInv'
    BY <1>4, <2>1, <2>2, <2>3 DEF DelayInv
  <2>5. CountTick
    BY <1>4, <2>2 DEF CountTick, TickBegin
  <2> QED  BY <2>4, <2>5 DEF TimerNext
<1>5. CASE ScanNext
  <2>1. scan'.at = "expire" /\ scan'.task = Head(timerQ) /\ left[Head(timerQ)] = 0
    BY <1>5 DEF ScanNext, TypeInv, TypeOK
  <2>2. UNCHANGED <<timerQ, left>>
    BY <1>5 DEF ScanNext, taskVars
  <2> QED  BY <2>1, <2>2 DEF DelayInv, Ordered, timerVars
<1>6. CASE ScanExpire /\ scan.task \in ToSet(timerQ)
  <2>1. /\ scan.task = Head(timerQ) /\ left[Head(timerQ)] = 0 /\ timerQ # <<>>
        /\ timerQ' = DelTimer(timerQ, scan.task) /\ left' = left /\ scan'.at = "next"
    BY <1>6 DEF ScanExpire, DelayInv, Idling, ToSet
  <2>2. /\ IsInjective(timerQ') /\ ToSet(timerQ') = ToSet(timerQ) \ {scan.task}
        /\ Ordered(timerQ', left') /\ timerQ' = Tail(timerQ)
    BY <1>0, <1>6, <2>1, DelTimerOrdered DEF DelayInv
  <2>3. DelayInv'
    BY <2>1, <2>2 DEF DelayInv
  <2> QED  BY <2>1, <2>2, <2>3 DEF TimerNext, Expire
<1>7. CASE ScanEnd
  <2>1. UNCHANGED <<timerQ, left>> /\ scan'.at = "idle"
    BY <1>7 DEF ScanEnd, taskVars, Idling
  <2>2. ASSUME NEW u \in ToSet(timerQ) PROVE left[u] > 0
    <3>1. PICK i \in 1..Len(timerQ) : timerQ[i] = u
      BY <1>0, <2>2, InToSet
    <3>2. timerQ # <<>> /\ Head(timerQ) = timerQ[1] /\ 1 \in 1..Len(timerQ) /\ 1 <= i
      BY <1>0, <3>1
    <3>3. left[timerQ[1]] > 0 /\ left[timerQ[1]] <= left[u]
      BY <1>7, <3>1, <3>2 DEF ScanEnd, DelayInv, Ordered
    <3> QED  BY <1>0, <3>2, <3>3
  <2> QED  BY <2>1, <2>2 DEF DelayInv, Ordered, timerVars
<1> QED  BY <1>1, <1>2, <1>3, <1>4, <1>5, <1>6, <1>7 DEF TimerCase

\* So does every step of the scheduler.
THEOREM DelayStep ==
  TypeInv /\ Next /\ ~halt' /\ DelayInv => DelayInv' /\ (TimerNext \/ UNCHANGED timerVars)
BY TimerCases, DelayKept

\* The empty list that osTaskInit sets up.
LEMMA DelayInit == Init => DelayInv
<1>1. ToSet(<<>>) = {} /\ Len(<<>>) = 0
  BY DEF ToSet
<1>2. IsInjective(<<>>)
  BY DEF IsInjective
<1> QED  BY <1>1, <1>2 DEF Init, DelayInv, Ordered, Idling

\* The delay list is in order of expiry and holds nobody at zero between two ticks.
THEOREM DelayOrdered == Spec => [](~halt => DelayInv)
<1>1. Init => DelayInv
  BY DelayInit
<1>2. TypeInv /\ (~halt => DelayInv) /\ [Next]_vars => (~halt => DelayInv)'
  <2> SUFFICES ASSUME TypeInv, ~halt => DelayInv, [Next]_vars, ~halt' PROVE DelayInv'
    OBVIOUS
  <2>1. CASE Next
    BY <2>1, TimerCases, DelayStep
  <2>2. CASE UNCHANGED vars
    BY <2>2 DEF vars, taskVars, cpuVars, DelayInv, Ordered
  <2> QED  BY <2>1, <2>2
<1>3. Init => TypeInv
  BY TypeInit
<1> QED  BY <1>1, <1>2, <1>3, TypeStep, PTL DEF Spec

\* Task implements DelayList as long as the kernel follows no null link.
THEOREM DelayListKept == Spec => KeepsDelayList
<1>1. Init => TimerInit
  BY DEF Init, TimerInit
<1>2. TypeInv /\ (~halt => DelayInv) /\ [Next]_vars => [~halt' => TimerNext]_timerVars
  <2> SUFFICES ASSUME TypeInv, ~halt => DelayInv, [Next]_vars, ~halt'
               PROVE  TimerNext \/ UNCHANGED timerVars
    OBVIOUS
  <2>1. CASE Next
    BY <2>1, TimerCases, DelayStep
  <2>2. CASE UNCHANGED vars
    BY <2>2 DEF vars, taskVars, timerVars
  <2> QED  BY <2>1, <2>2
<1>3. Init => TypeInv
  BY TypeInit
<1> QED  BY <1>1, <1>2, <1>3, TypeStep, DelayOrdered, PTL DEF Spec, KeepsDelayList
-----------------------------------------------------------------------------
(***************************************************************************)
(* Proof that in a kernel without time slices the lists of tasks, the      *)
(* flags of the tasks and the delay list agree (ListsConsistent,           *)
(* WaitConsistent), for any number of tasks, priorities and objects, all   *)
(* calls, nested handlers and all the unusual situations of Permits.       *)
(*                                                                         *)
(* The kernel never looks a task up: it believes the flags.  Fits says for *)
(* one task what its flags tell of the lists it is linked by.  What keeps  *)
(* it true is that a task which blocks gives the processor away before it  *)
(* makes another call (CpuFits), that nobody but its creator knows a task  *)
(* that is half created, whose control block is on no list (NewbornFits),  *)
(* and that what osTaskScan read before it enabled interrupts is still so, *)
(* or the task has left the delay list (ScanFits).  An unused block that   *)
(* no creation has (Grown) can be created again, unless the task that had  *)
(* it was deleted.                                                         *)
(*                                                                         *)
(* On top of it Carries says what a step does to a task that blocked in a  *)
(* call on an object: until it returns from the call it stays there, and   *)
(* only a wake or its limit, which TIMEOUT tells apart, take it off the    *)
(* object.  The proofs about the objects that tasks wait for rest on that. *)
(***************************************************************************)

\* The lists that link t by its stPendList.
On(L, t) == {h \in Head_ : t \in ToSet(L[h])}

Waits == {"PEND", "PEND_QUEUE"}
Blocks == {"DELAY", "PEND", "PEND_QUEUE"}

\* Who is not the task of an unfinished creation.
Grown(t) == \A u \in Task : newborn[u] # t

\* What the status s of a task says of its priority p, the lists it is on, whether it is on
\* the delay list, where it stands in its call, and whether its own creation is over.
Fits(s, p, on, timed, at, grown) ==
  /\ \A g, h \in on : g = h
  /\ "READY" \in s <=> on \cap Prio # {}
  /\ on \cap Prio \subseteq {p}
  /\ on \cap {Free, Recycle} # {} => "UNUSED" \in s /\ grown
  /\ "UNUSED" \in s => s = {"UNUSED"}
  /\ "UNUSED" \in s /\ grown => on \cap {Free, Recycle} # {} \/ "DeleteCreator" \in Permits
  /\ \A o \in on \cap Obj : s \cap Waits = {Kind(o)}
  /\ s \cap Waits # {} => on \cap Obj # {}
  /\ timed <=> "DELAY" \in s \/ ("TIMEOUT" \in s /\ s \cap Waits # {})
  /\ "DELAY" \in s => "READY" \notin s /\ s \cap Waits = {}
  /\ "TIMEOUT" \in s => at \in {"wait", "woken"}

TasksFit ==
  /\ \A h \in Head_ : IsInjective(list[h])
  /\ \A t \in Task : Fits(status[t], prio[t], On(list, t), t \in ToSet(timerQ), pc[t], Grown(t))

CpuFits ==
  /\ "UNUSED" \notin status[new]
  /\ status[new] \cap Blocks # {} => new = run /\ ~pendsv /\ pc[run] \in {"sched", "wait"}
  /\ run \in Task =>
       /\ "UNUSED" \notin status[run]
       /\ status[run] \cap Blocks # {} => lock = 0 /\ (pendsv \/ pc[run] \in {"sched", "wait"})

\* What the status s of a task in creation is, by where its creator stands.
Forms(at, s) ==
  \/ at = "alloc" /\ s = {"UNUSED"}
  \/ at = "create" /\ s \subseteq {"SUSPEND", "DETACHED"}

NewbornFits ==
  \A u \in Task : newborn[u] # Null =>
    /\ newborn[u] \notin {run, new} /\ Forms(pc[u], status[newborn[u]])
    /\ \A v \in Task : newborn[v] = newborn[u] => u = v

ScanFits ==
  scan.at = "expire" /\ scan.task \in ToSet(timerQ) =>
    scan.was \cap Blocks = status[scan.task] \cap Blocks

ListInv == TasksFit /\ CpuFits /\ NewbornFits /\ ScanFits

\* Lists of tasks whose entries are distinct.
Distinct(L) == L \in Lists /\ \A h \in Head_ : IsInjective(L[h])

\* LOS_ListDelete takes a task off the list it is on and moves no other.
LEMMA OnUnlink ==
  ASSUME NEW L, Distinct(L), NEW t
  PROVE  /\ Distinct(Unlink(L, t))
         /\ \A u \in Task : On(Unlink(L, t), u) = IF u = t THEN {} ELSE On(L, u)
<1>1. ASSUME NEW h \in Head_
      PROVE  /\ RemoveFirst(L[h], t) \in Seq(Task) /\ IsInjective(RemoveFirst(L[h], t))
             /\ ToSet(RemoveFirst(L[h], t)) = ToSet(L[h]) \ {t}
  BY RemoveFirstRange DEF Distinct, Lists
<1>2. \A h \in Head_ : Unlink(L, t)[h] = RemoveFirst(L[h], t)
  BY DEF Unlink
<1>3. Distinct(Unlink(L, t))
  BY <1>1, <1>2, UnlinkType DEF Distinct
<1>4. \A u \in Task : On(Unlink(L, t), u) = IF u = t THEN {} ELSE On(L, u)
  BY <1>1, <1>2 DEF On
<1> QED  BY <1>3, <1>4

\* The lists when s replaces that of h.
Put(L, h, s) == [L EXCEPT ![h] = s]

\* A list that gains one task.
LEMMA OnGain ==
  ASSUME NEW L, Distinct(L), NEW h \in Head_, NEW t \in Task,
         NEW s \in Seq(Task), IsInjective(s),
         \A u : u \in ToSet(s) <=> u \in ToSet(L[h]) \/ u = t
  PROVE  /\ Distinct(Put(L, h, s))
         /\ \A u \in Task : On(Put(L, h, s), u) = IF u = t THEN On(L, t) \cup {h} ELSE On(L, u)
<1> DEFINE M == [L EXCEPT ![h] = s]
<1>1. M \in Lists /\ M[h] = s /\ \A g \in Head_ \ {h} : M[g] = L[g]
  BY DEF Distinct, Lists
<1> HIDE DEF M
<1>2. Distinct(M)
  BY <1>1 DEF Distinct
<1>3. \A u \in Task : On(M, u) = IF u = t THEN On(L, t) \cup {h} ELSE On(L, u)
  BY <1>1 DEF On
<1> QED  BY <1>2, <1>3 DEF M, Put

\* Insertions at the end of a list and at its front link one more task.
LEMMA OnInsert ==
  ASSUME NEW L, Distinct(L), NEW h \in Head_, NEW t \in Task, h \notin On(L, t)
  PROVE  /\ Distinct(AddTail(L, h, t)) /\ Distinct(AddHead(L, h, t))
         /\ \A u \in Task : On(AddTail(L, h, t), u) = IF u = t THEN On(L, t) \cup {h} ELSE On(L, u)
         /\ \A u \in Task : On(AddHead(L, h, t), u) = IF u = t THEN On(L, t) \cup {h} ELSE On(L, u)
<1>1. L[h] \in Seq(Task) /\ IsInjective(L[h]) /\ t \notin ToSet(L[h])
  BY DEF Distinct, Lists, On
<1> DEFINE a == Append(L[h], t)
           w == <<t>>
           b == w \o L[h]
<1>2. a \in Seq(Task) /\ IsInjective(a) /\ \A u : u \in ToSet(a) <=> u \in ToSet(L[h]) \/ u = t
  BY <1>1, AppendRange
<1>3. w \in Seq(Task) /\ IsInjective(w) /\ ToSet(w) = {t}
  BY SingletonRange
<1>4. AddHead(L, h, t) = Put(L, h, b) /\ AddTail(L, h, t) = Put(L, h, a)
  BY DEF AddHead, AddTail, Put
<1> HIDE DEF a, w
<1>5. b \in Seq(Task) /\ IsInjective(b) /\ \A u : u \in ToSet(b) <=> u \in ToSet(L[h]) \/ u = t
  BY <1>1, <1>3, ConcatRange
<1> HIDE DEF b
<1>6. /\ Distinct(Put(L, h, a))
      /\ \A u \in Task : On(Put(L, h, a), u) = IF u = t THEN On(L, t) \cup {h} ELSE On(L, u)
  BY <1>2, OnGain
<1>7. /\ Distinct(Put(L, h, b))
      /\ \A u \in Task : On(Put(L, h, b), u) = IF u = t THEN On(L, t) \cup {h} ELSE On(L, u)
  BY <1>5, OnGain
<1> QED  BY <1>4, <1>6, <1>7

\* Taking the first task off a list.
LEMMA OnTakeHead ==
  ASSUME NEW L, Distinct(L), NEW h \in Head_, L[h] # <<>>
  PROVE  /\ Head(L[h]) \in Task /\ h \in On(L, Head(L[h]))
         /\ Distinct([L EXCEPT ![h] = Tail(@)])
         /\ \A u \in Task : On([L EXCEPT ![h] = Tail(@)], u) =
                              IF u = Head(L[h]) THEN On(L, u) \ {h} ELSE On(L, u)
<1> DEFINE s == Tail(L[h])
           t == Head(L[h])
           M == [L EXCEPT ![h] = s]
<1>0. L[h] \in Seq(Task) /\ IsInjective(L[h])
  BY DEF Distinct, Lists
<1>1. t \in Task /\ s \in Seq(Task) /\ IsInjective(s) /\ ToSet(L[h]) = ToSet(s) \cup {t} /\ t \notin ToSet(s)
  BY <1>0, HeadTailRange
<1> HIDE DEF s, t
<1>2. M \in Lists /\ M[h] = s /\ \A g \in Head_ \ {h} : M[g] = L[g]
  BY <1>1 DEF Distinct, Lists
<1> HIDE DEF M
<1>3. Distinct(M)
  BY <1>1, <1>2 DEF Distinct
<1>4. \A u \in Task : On(M, u) = IF u = t THEN On(L, u) \ {h} ELSE On(L, u)
  BY <1>1, <1>2 DEF On
<1>5. h \in On(L, t)
  BY <1>1 DEF On
<1>6. [L EXCEPT ![h] = Tail(@)] = M
  BY DEF M, s
<1> QED  BY <1>1, <1>3, <1>4, <1>5, <1>6 DEF t

\* Recycling moves the tasks of g_stTskRecyleList to g_stLosFreeTask.
LEMMA OnReclaimed ==
  ASSUME Distinct(list), \A u \in Task : \A g, h \in On(list, u) : g = h
  PROVE  /\ Distinct(Reclaimed)
         /\ \A u \in Task : On(Reclaimed, u) =
              IF Recycle \in On(list, u) THEN {Free} ELSE On(list, u)
<1> DEFINE r == Reverse(list[Recycle])
           s == r \o list[Free]
<1>1. /\ list[Free] \in Seq(Task) /\ IsInjective(list[Free])
      /\ list[Recycle] \in Seq(Task) /\ IsInjective(list[Recycle])
  BY Heads DEF Distinct, Lists
<1>2. r \in Seq(Task) /\ ToSet(r) = ToSet(list[Recycle]) /\ IsInjective(r)
  BY <1>1, ReverseRange
<1>3. ToSet(r) \cap ToSet(list[Free]) = {}
  <2>1. ASSUME NEW u, u \in ToSet(r), u \in ToSet(list[Free]) PROVE FALSE
    <3>1. u \in Task
      BY <1>2, <2>1, InToSet
    <3>2. Free \in On(list, u) /\ Recycle \in On(list, u)
      BY <1>2, <2>1, Heads DEF On
    <3> QED  BY <3>1, <3>2, Heads
  <2> QED  BY <2>1
<1> HIDE DEF r
<1>4. s \in Seq(Task) /\ ToSet(s) = ToSet(list[Recycle]) \cup ToSet(list[Free]) /\ IsInjective(s)
  BY <1>1, <1>2, <1>3, ConcatRange
<1>5. Reclaimed = [list EXCEPT ![Free] = s, ![Recycle] = <<>>]
  BY DEF Reclaimed, s, r
<1>6. <<>> \in Seq(Task) /\ ToSet(<<>>) = {} /\ IsInjective(<<>>)
  BY DEF ToSet, IsInjective
<1> HIDE DEF s
<1> DEFINE e == <<>>
<1> HIDE DEF e
<1>7. /\ Reclaimed[Free] = s /\ Reclaimed[Recycle] = e
      /\ \A h \in Head_ \ {Free, Recycle} : Reclaimed[h] = list[h]
      /\ Reclaimed \in Lists
  BY <1>4, <1>5, <1>6, Heads DEF Distinct, Lists, e
<1>8. Distinct(Reclaimed)
  BY <1>4, <1>6, <1>7, Heads DEF Distinct, e
<1>9. ASSUME NEW u \in Task
      PROVE  On(Reclaimed, u) = IF Recycle \in On(list, u) THEN {Free} ELSE On(list, u)
  <2>1. \A h \in Head_ : h \in On(Reclaimed, u) <=>
              \/ h \notin {Free, Recycle} /\ h \in On(list, u)
              \/ h = Free /\ (Free \in On(list, u) \/ Recycle \in On(list, u))
    BY <1>4, <1>6, <1>7, Heads DEF On, e
  <2>2. On(Reclaimed, u) \subseteq Head_ /\ On(list, u) \subseteq Head_
    BY DEF On
  <2>3. \A g, h \in On(list, u) : g = h
    OBVIOUS
  <2> QED  BY <2>1, <2>2, <2>3, Heads
<1> QED  BY <1>8, <1>9
-----------------------------------------------------------------------------
\* A task that is not ready, unused or waiting is on no list.
LEMMA Unlinked ==
  ASSUME NEW s, NEW p, NEW on \in SUBSET Head_, NEW timed, NEW at, NEW grown,
         Fits(s, p, on, timed, at, grown),
         "READY" \notin s, "UNUSED" \notin s, s \cap Waits = {}
  PROVE  on = {}
BY DEF Fits, Head_

\* A task that is ready is on the list of its priority alone; one that waits, on that of
\* an object alone.
LEMMA OnlyOn ==
  ASSUME NEW s, NEW p, NEW on \in SUBSET Head_, NEW timed, NEW at, NEW grown,
         Fits(s, p, on, timed, at, grown)
  PROVE  /\ "READY" \in s => on = {p}
         /\ \A h \in on : on = {h}
         /\ on \subseteq Prio \cup Obj \cup {Free, Recycle}
BY DEF Fits, Head_

\* What the invariants say of the lists of each task.
LEMMA ListFacts ==
  ASSUME TypeInv
  PROVE  /\ \A t \in Task :
              /\ On(list, t) \in SUBSET Head_ /\ status[t] \in SUBSET Flag /\ prio[t] \in Prio
              /\ Linked(list, t) <=> On(list, t) # {}
         /\ timerQ \in Seq(Task) /\ list \in Lists
         /\ TasksFit => Distinct(list)
BY DEF TypeInv, TypeOK, On, Linked, TasksFit, Distinct, Lists

\* Nothing that Fits speaks of changes for the task u.
Same(u) ==
  /\ status'[u] = status[u] /\ prio'[u] = prio[u] /\ On(list, u)' = On(list, u)
  /\ u \in ToSet(timerQ') <=> u \in ToSet(timerQ)
  /\ pc'[u] = pc[u] \/ pc'[u] \in {"wait", "woken"} \/ "TIMEOUT" \notin status[u]
  /\ Grown(u) => Grown(u)'
  /\ Grown(u)' => Grown(u) \/ "UNUSED" \notin status[u] \/ "DeleteCreator" \in Permits

\* A step that changes one task at most.
LEMMA OneFits ==
  ASSUME TasksFit, Distinct(list)', NEW t,
         t \in Task =>
           Fits(status'[t], prio'[t], On(list, t)', t \in ToSet(timerQ'), pc'[t], Grown(t)') \/ Same(t),
         \A u \in Task \ {t} : Same(u)
  PROVE  TasksFit'
<1>1. ASSUME NEW u \in Task, Same(u)
      PROVE  Fits(status'[u], prio'[u], On(list, u)', u \in ToSet(timerQ'), pc'[u], Grown(u)')
  <2>1. Fits(status[u], prio[u], On(list, u), u \in ToSet(timerQ), pc[u], Grown(u))
    BY DEF TasksFit
  <2> QED  BY <1>1, <2>1 DEF Same, Fits
<1> QED  BY <1>1 DEF TasksFit, Distinct

\* LOS_Schedule in the running task closes no wait.
LEMMA SchedulePc ==
  ASSUME TypeInv, NEW c \in Context, Schedule(c) \/ NoSchedule,
         c = "task" => run \in Task /\ "TIMEOUT" \notin status[run]
  PROVE  \A u \in Task : pc'[u] = pc[u] \/ "TIMEOUT" \notin status[u]
BY DEF Schedule, NoSchedule, TypeInv, TypeOK, Context

\* A task that makes a call does not wait, and is not half blocked.
LEMMA CallerFits ==
  ASSUME TypeInv, TasksFit, CpuFits,
         \/ \E name : MayCall("task", name)
         \/ Returns
         \/ \E where \in Place \ {"sched", "wait"} : TaskRuns(where)
  PROVE  /\ run \in Task /\ scan.at = "idle" /\ ~halt /\ ~pendsv
         /\ pc[run] \notin {"sched", "wait"}
         /\ "UNUSED" \notin status[run] /\ status[run] \cap Blocks = {}
         /\ pc[run] # "woken" => "TIMEOUT" \notin status[run]
         /\ run \notin ToSet(timerQ)
         /\ On(list, run) = IF "READY" \in status[run] THEN {prio[run]} ELSE {}
<1>1. run \in Task /\ scan.at = "idle" /\ ~halt /\ ~pendsv /\ pc[run] \notin {"sched", "wait"}
  BY DEF MayCall, Returns, TaskRuns
<1>2. "UNUSED" \notin status[run] /\ status[run] \cap Blocks = {}
  BY <1>1 DEF CpuFits
<1>3. Fits(status[run], prio[run], On(list, run), run \in ToSet(timerQ), pc[run], Grown(run))
  BY <1>1 DEF TasksFit
<1>4. status[run] \cap Waits = {} /\ "DELAY" \notin status[run]
  BY <1>2 DEF Waits, Blocks
<1>5. run \notin ToSet(timerQ) /\ (pc[run] # "woken" => "TIMEOUT" \notin status[run])
  BY <1>1, <1>3, <1>4 DEF Fits
<1>6. On(list, run) \in SUBSET Head_
  BY DEF On
<1>7. On(list, run) = IF "READY" \in status[run] THEN {prio[run]} ELSE {}
  BY <1>2, <1>3, <1>4, <1>6, Unlinked, OnlyOn
<1> QED  BY <1>1, <1>2, <1>5, <1>7

\* A task that is on no list and is put on one; a task that is moved.
LEMMA OnPut ==
  ASSUME NEW L, Distinct(L), NEW h \in Head_, NEW t \in Task, On(L, t) = {}
  PROVE  /\ Distinct(AddTail(L, h, t)) /\ On(AddTail(L, h, t), t) = {h}
         /\ Distinct(AddHead(L, h, t)) /\ On(AddHead(L, h, t), t) = {h}
         /\ \A u \in Task \ {t} : /\ On(AddTail(L, h, t), u) = On(L, u)
                                  /\ On(AddHead(L, h, t), u) = On(L, u)
<1>1. h \notin On(L, t)
  OBVIOUS
<1>2. On(L, t) \cup {h} = {h}
  OBVIOUS
<1>3. /\ Distinct(AddTail(L, h, t)) /\ Distinct(AddHead(L, h, t))
      /\ \A u \in Task : On(AddTail(L, h, t), u) = IF u = t THEN On(L, t) \cup {h} ELSE On(L, u)
      /\ \A u \in Task : On(AddHead(L, h, t), u) = IF u = t THEN On(L, t) \cup {h} ELSE On(L, u)
  BY <1>1, OnInsert
<1> QED  BY <1>2, <1>3

LEMMA OnMove ==
  ASSUME NEW L, Distinct(L), NEW h \in Head_, NEW t \in Task
  PROVE  /\ Distinct(AddTail(Unlink(L, t), h, t)) /\ On(AddTail(Unlink(L, t), h, t), t) = {h}
         /\ Distinct(AddHead(Unlink(L, t), h, t)) /\ On(AddHead(Unlink(L, t), h, t), t) = {h}
         /\ \A u \in Task \ {t} : /\ On(AddTail(Unlink(L, t), h, t), u) = On(L, u)
                                  /\ On(AddHead(Unlink(L, t), h, t), u) = On(L, u)
<1> DEFINE M == Unlink(L, t)
<1>1. Distinct(M) /\ On(M, t) = {} /\ \A u \in Task \ {t} : On(M, u) = On(L, u)
  BY OnUnlink
<1> HIDE DEF M
<1> QED  BY <1>1, OnPut DEF M

\* Lists and priorities in which ready tasks may have other priorities, and the places that
\* go with them; LOS_MuxPend and LOS_MuxPost start from such lists.
Refits(L, P) ==
  /\ Distinct(L) /\ P \in [Task -> Prio]
  /\ \A u \in Task : On(L, u) = IF "READY" \in status[u] THEN {P[u]} ELSE On(list, u)

\* The lists and priorities as they are; and every task fits in with the others.
LEMMA RefitNow ==
  ASSUME TypeInv, TasksFit
  PROVE  /\ Refits(list, prio)
         /\ \A L, P : Refits(L, P) => \A u \in Task :
              Fits(status[u], P[u], On(L, u), u \in ToSet(timerQ), pc[u], Grown(u))
<1>1. ASSUME NEW u \in Task
      PROVE  /\ Fits(status[u], prio[u], On(list, u), u \in ToSet(timerQ), pc[u], Grown(u))
             /\ On(list, u) \in SUBSET Head_ /\ prio[u] \in Prio
  BY ListFacts DEF TasksFit
<1>2. Refits(list, prio)
  BY <1>1, ListFacts, OnlyOn DEF Refits, TypeInv, TypeOK
<1>3. ASSUME NEW L, NEW P, Refits(L, P), NEW u \in Task
      PROVE  Fits(status[u], P[u], On(L, u), u \in ToSet(timerQ), pc[u], Grown(u))
  <2>1. CASE "READY" \in status[u]
    <3>1. On(L, u) = {P[u]} /\ P[u] \in Prio /\ On(list, u) = {prio[u]}
      BY <1>1, <1>3, <2>1, OnlyOn DEF Refits
    <3>2. On(L, u) \cap Prio = {P[u]} /\ On(L, u) \cap Obj = {} /\ On(L, u) \cap {Free, Recycle} = {}
      BY <3>1, Heads
    <3>3. On(list, u) \cap Obj = {} /\ On(list, u) \cap {Free, Recycle} = {}
      BY <1>1, <3>1, Heads
    <3> QED  BY <1>1, <2>1, <3>1, <3>2, <3>3 DEF Fits
  <2>2. CASE "READY" \notin status[u]
    BY <1>1, <1>3, <2>2 DEF Refits, Fits
  <2> QED  BY <2>1, <2>2
<1> QED  BY <1>2, <1>3

\* A change of the priority of one task.
LEMMA RefitMove ==
  ASSUME TypeInv, TasksFit, NEW t \in Task, NEW p \in Prio
  PROVE  Refits(IF "READY" \in status[t] THEN AddTail(Unlink(list, t), p, t) ELSE list,
                [prio EXCEPT ![t] = p])
<1>0. Refits(list, prio) /\ Distinct(list) /\ p \in Head_
  BY RefitNow, Heads DEF Refits
<1>1. CASE "READY" \in status[t]
  <2> DEFINE M == AddTail(Unlink(list, t), p, t)
  <2>1. Distinct(M) /\ On(M, t) = {p} /\ \A u \in Task \ {t} : On(M, u) = On(list, u)
    BY <1>0, OnMove
  <2> HIDE DEF M
  <2>2. Refits(M, [prio EXCEPT ![t] = p])
    BY <1>0, <1>1, <2>1 DEF Refits
  <2> QED  BY <1>1, <2>2 DEF M
<1>2. CASE "READY" \notin status[t]
  BY <1>0, <1>2 DEF Refits
<1> QED  BY <1>1, <1>2

\* A step from such lists that changes one task more.
LEMMA OneRefits ==
  ASSUME TypeInv, TasksFit, NEW L, Refits(L, prio'), Distinct(list'), NEW t \in Task,
         Fits(status'[t], prio'[t], On(list', t), t \in ToSet(timerQ'), pc'[t], Grown(t)'),
         newborn' = newborn,
         \A u \in Task \ {t} :
           /\ status'[u] = status[u] /\ On(list', u) = On(L, u)
           /\ u \in ToSet(timerQ') <=> u \in ToSet(timerQ)
           /\ pc'[u] = pc[u] \/ "TIMEOUT" \notin status[u]
  PROVE  TasksFit'
<1>1. ASSUME NEW u \in Task \ {t}
      PROVE  Fits(status'[u], prio'[u], On(list', u), u \in ToSet(timerQ'), pc'[u], Grown(u)')
  <2>1. Fits(status[u], prio'[u], On(L, u), u \in ToSet(timerQ), pc[u], Grown(u))
    BY RefitNow
  <2>2. Grown(u)' <=> Grown(u)
    BY DEF Grown
  <2> QED  BY <2>1, <2>2 DEF Fits
<1>2. \A u \in Task : On(list', u) = On(list, u)'
  BY DEF On
<1> QED  BY <1>1, <1>2 DEF TasksFit, Distinct

\* The running task blocks on o.
LEMMA BlockFits ==
  ASSUME TypeInv, TasksFit, CpuFits, NEW L, Refits(L, prio'), NEW o \in Obj, NEW n,
         NEW i \in 1..Len(Unlink(L, run)[o]) + 1, Block(L, o, n, i)
  PROVE  TasksFit'
<1>0. status \in [Task -> SUBSET Flag] /\ pc \in [Task -> Place] /\ timerQ \in Seq(Task)
      /\ Distinct(L) /\ o \in Head_
  BY Heads DEF TypeInv, TypeOK, Refits
<1>1. PICK t \in Task : /\ t = run /\ "UNUSED" \notin status[t] /\ status[t] \cap Blocks = {}
                        /\ "TIMEOUT" \notin status[t] /\ t \notin ToSet(timerQ)
  <2>1. MayCall("task", "Pend") /\ pc[run] = "user"
    BY DEF Block, MayCall, TaskRuns
  <2> QED  BY <2>1, CallerFits
<1> DEFINE M == Unlink(L, t)
<1>2. /\ pc' = [pc EXCEPT ![t] = "wait"]
      /\ list' = [M EXCEPT ![o] = InsertAt(@, i, t)]
      /\ \/ timerQ' = timerQ /\ status' = [status EXCEPT ![t] = (@ \ {"READY"}) \cup {Kind(o)}]
         \/ /\ timerQ' = AddTimer(timerQ, t, n)
            /\ status' = [status EXCEPT ![t] = (@ \ {"READY"}) \cup {Kind(o), "TIMEOUT"}]
  BY <1>1 DEF Block
<1>3. /\ Distinct(M) /\ On(M, t) = {} /\ \A u \in Task \ {t} : On(M, u) = On(L, u)
      /\ i \in 1..Len(M[o]) + 1
  BY <1>0, <1>1, OnUnlink
<1> HIDE DEF M
<1> DEFINE q == InsertAt(M[o], i, t)
<1>4. M[o] \in Seq(Task) /\ IsInjective(M[o]) /\ t \notin ToSet(M[o])
  BY <1>0, <1>3 DEF Distinct, Lists, On
<1>5. q \in Seq(Task) /\ IsInjective(q) /\ \A u : u \in ToSet(q) <=> u \in ToSet(M[o]) \/ u = t
  BY <1>3, <1>4, InsertAtRange
<1>6. list' = Put(M, o, q)
  BY <1>2 DEF Put
<1> HIDE DEF q
<1>7. Distinct(list') /\ \A u \in Task : On(list', u) = IF u = t THEN On(M, t) \cup {o} ELSE On(M, u)
  BY <1>0, <1>3, <1>5, <1>6, OnGain
<1>8. On(list', t) = {o} /\ \A u \in Task \ {t} : On(list', u) = On(L, u)
  <2>1. On(M, t) \cup {o} = {o}
    BY <1>3
  <2> QED  BY <1>3, <1>7, <2>1
<1>9. \A u \in Task \ {t} : u \in ToSet(timerQ') <=> u \in ToSet(timerQ)
  BY <1>0, <1>2, TimerType
<1>10. \/ t \notin ToSet(timerQ') /\ status'[t] = (status[t] \ {"READY"}) \cup {Kind(o)}
       \/ t \in ToSet(timerQ') /\ status'[t] = (status[t] \ {"READY"}) \cup {Kind(o), "TIMEOUT"}
  BY <1>0, <1>1, <1>2, TimerType
<1>11. Fits(status'[t], prio'[t], On(list', t), t \in ToSet(timerQ'), pc'[t], Grown(t)')
  <2>1. pc'[t] = "wait" /\ Kind(o) \in Waits /\ o \notin Prio /\ o \notin {Free, Recycle}
    BY <1>0, <1>2, Heads DEF Kind, Waits
  <2> QED  BY <1>1, <1>8, <1>10, <2>1 DEF Fits, Waits, Blocks
<1>12. newborn' = newborn /\ \A u \in Task \ {t} : status'[u] = status[u] /\ pc'[u] = pc[u]
  BY <1>0, <1>2 DEF Block
<1> QED  BY <1>7, <1>8, <1>9, <1>11, <1>12, OneRefits

\* The first task that waits for o is woken; priorities may change, but not its own.
LEMMA HandFits ==
  ASSUME TypeInv, TasksFit, CpuFits, IsInjective(timerQ), NEW L, Refits(L, prio'),
         NEW c \in Context, NEW o \in Obj, Hand(L, c, o),
         prio'[Head(list[o])] = prio[Head(list[o])],
         MayCall(c, "Wake") \/ (TaskRuns("woken") /\ "TIMEOUT" \notin status[run])
  PROVE  TasksFit'
<1>0. /\ Distinct(list) /\ Distinct(L) /\ o \in Head_ /\ timerQ \in Seq(Task)
      /\ status \in [Task -> SUBSET Flag] /\ Prio \subseteq Head_
  BY ListFacts, Heads DEF TypeInv, TypeOK, Refits
<1>1. PICK t \in Task : t = Head(list[o]) /\ o \in On(list, t)
  BY <1>0, OnTakeHead DEF Hand
<1>2. /\ On(list, t) = {o} /\ status[t] \cap Waits = {Kind(o)} /\ "DELAY" \notin status[t]
      /\ "UNUSED" \notin status[t] /\ "READY" \notin status[t]
      /\ t \in ToSet(timerQ) <=> "TIMEOUT" \in status[t]
  <2>1. Fits(status[t], prio[t], On(list, t), t \in ToSet(timerQ), pc[t], Grown(t)) /\ On(list, t) \in SUBSET Head_
    BY DEF TasksFit, On
  <2>2. On(list, t) = {o}
    BY <1>1, <2>1, OnlyOn
  <2>3. status[t] \cap Waits = {Kind(o)} /\ Kind(o) \in Waits
    BY <2>1, <2>2 DEF Fits, Kind, Waits
  <2>4. "UNUSED" \notin status[t] /\ "DELAY" \notin status[t]
    BY <2>1, <2>3 DEF Fits, Waits
  <2> QED  BY <2>1, <2>2, <2>3, <2>4, Heads DEF Fits
<1>3. /\ \/ "TIMEOUT" \in status[t] /\ timerQ' = DelTimer(timerQ, t)
         \/ "TIMEOUT" \notin status[t] /\ timerQ' = timerQ
      /\ \/ /\ "SUSPEND" \in status[t] /\ status' = [status EXCEPT ![t] = Woken(t, o)]
            /\ list' = Unlink(L, t)
         \/ /\ "SUSPEND" \notin status[t]
            /\ status' = [status EXCEPT ![t] = Woken(t, o) \cup {"READY"}]
            /\ list' = AddTail(Unlink(L, t), prio[t], t)
  BY <1>1 DEF Hand
<1>4. \A u \in Task : pc'[u] = pc[u] \/ "TIMEOUT" \notin status[u]
  <2>1. Schedule(c)
    BY DEF Hand
  <2>2. c = "task" => run \in Task /\ "TIMEOUT" \notin status[run]
    <3>1. CASE MayCall(c, "Wake")
      BY <3>1, CallerFits DEF MayCall, TaskRuns
    <3>2. CASE TaskRuns("woken") /\ "TIMEOUT" \notin status[run]
      BY <3>2 DEF TaskRuns
    <3> QED  BY <3>1, <3>2
  <2> QED  BY <2>1, <2>2, SchedulePc
<1>5. /\ Distinct(list') /\ \A u \in Task \ {t} : On(list', u) = On(L, u)
      /\ On(list', t) = IF "SUSPEND" \in status[t] THEN {} ELSE {prio[t]}
  <2>1. prio[t] \in Head_
    BY <1>0 DEF TypeInv, TypeOK
  <2>2. /\ Distinct(AddTail(Unlink(L, t), prio[t], t))
        /\ On(AddTail(Unlink(L, t), prio[t], t), t) = {prio[t]}
        /\ \A u \in Task \ {t} : On(AddTail(Unlink(L, t), prio[t], t), u) = On(L, u)
    BY <1>0, <2>1, OnMove
  <2>3. /\ Distinct(Unlink(L, t)) /\ On(Unlink(L, t), t) = {}
        /\ \A u \in Task \ {t} : On(Unlink(L, t), u) = On(L, u)
    BY <1>0, OnUnlink
  <2> QED  BY <1>3, <2>2, <2>3
<1>6. t \notin ToSet(timerQ') /\ \A u \in Task \ {t} : u \in ToSet(timerQ') <=> u \in ToSet(timerQ)
  BY <1>0, <1>2, <1>3, RemoveFirstRange DEF DelTimer
<1>7. Fits(status'[t], prio'[t], On(list', t), t \in ToSet(timerQ'), pc'[t], Grown(t)')
  <2>1. /\ status'[t] \cap Waits = {} /\ "TIMEOUT" \notin status'[t] /\ "DELAY" \notin status'[t]
        /\ "UNUSED" \notin status'[t]
        /\ "READY" \in status'[t] <=> "SUSPEND" \notin status[t]
    BY <1>0, <1>2, <1>3 DEF Woken, Waits
  <2>2. prio'[t] = prio[t] /\ prio[t] \in Prio
    BY <1>1 DEF TypeInv, TypeOK
  <2> QED  BY <1>5, <1>6, <2>1, <2>2, Heads DEF Fits
<1>8. newborn' = newborn /\ \A u \in Task \ {t} : status'[u] = status[u]
  BY <1>0, <1>3 DEF Hand
<1> QED  BY <1>4, <1>5, <1>6, <1>7, <1>8, OneRefits

\* The control block of a task in creation is on no list.
LEMMA NewbornFree ==
  ASSUME TypeInv, TasksFit, NewbornFits, NEW u \in Task, newborn[u] # Null
  PROVE  /\ newborn[u] \in Task /\ On(list, newborn[u]) = {} /\ newborn[u] \notin ToSet(timerQ)
         /\ ~Grown(newborn[u]) /\ \A v \in Task : newborn[v] = newborn[u] => u = v
<1>1. PICK t \in Task : t = newborn[u]
  BY DEF TypeInv, TypeOK
<1>2. /\ Fits(status[t], prio[t], On(list, t), t \in ToSet(timerQ), pc[t], Grown(t))
      /\ On(list, t) \in SUBSET Head_
  BY DEF TasksFit, On
<1>3. ~Grown(t) /\ Forms(pc[u], status[t])
  BY <1>1 DEF Grown, NewbornFits
<1>4. "READY" \notin status[t] /\ "DELAY" \notin status[t] /\ status[t] \cap Waits = {}
  BY <1>3 DEF Forms, Waits
<1>5. On(list, t) = {} /\ t \notin ToSet(timerQ)
  BY <1>2, <1>3, <1>4 DEF Fits, Head_
<1> QED  BY <1>1, <1>3, <1>5 DEF NewbornFits

\* LOS_TaskCreateOnly takes a control block that is unused and not taken already.
LEMMA TakenFits ==
  ASSUME TypeInv, TasksFit
  PROVE  /\ Distinct(Reclaimed)
         /\ \A u \in Task : Fits(status[u], prio[u], On(Reclaimed, u), u \in ToSet(timerQ), pc[u], Grown(u))
         /\ \A u \in Task : On(list, u) = {} => On(Reclaimed, u) = {}
         /\ \A t, M : /\ Reclaimed[Free] # <<>> /\ t = Head(Reclaimed[Free])
                      /\ M = [Reclaimed EXCEPT ![Free] = Tail(@)]
                     => /\ t \in Task /\ Distinct(M) /\ On(M, t) = {} /\ On(list, t) # {}
                        /\ \A u \in Task \ {t} : On(M, u) = On(Reclaimed, u)
                        /\ status[t] = {"UNUSED"} /\ Grown(t) /\ t \notin ToSet(timerQ)
<1>0. Distinct(list) /\ Free \in Head_
  BY ListFacts, Heads
<1>1. ASSUME NEW u \in Task
      PROVE  /\ Fits(status[u], prio[u], On(list, u), u \in ToSet(timerQ), pc[u], Grown(u))
             /\ \A g, h \in On(list, u) : g = h
  BY DEF TasksFit, Fits
<1>2. /\ Distinct(Reclaimed)
      /\ \A u \in Task : On(Reclaimed, u) = IF Recycle \in On(list, u) THEN {Free} ELSE On(list, u)
  BY <1>0, <1>1, OnReclaimed
<1>3. ASSUME NEW u \in Task
      PROVE  Fits(status[u], prio[u], On(Reclaimed, u), u \in ToSet(timerQ), pc[u], Grown(u))
  <2>1. CASE Recycle \notin On(list, u)
    BY <1>1, <1>2, <2>1
  <2>2. CASE Recycle \in On(list, u)
    <3>1. On(list, u) = {Recycle} /\ On(Reclaimed, u) = {Free}
      BY <1>1, <1>2, <2>2
    <3> QED  BY <1>1, <3>1, Heads DEF Fits
  <2> QED  BY <2>1, <2>2
<1>4. ASSUME NEW t, NEW M, Reclaimed[Free] # <<>>, t = Head(Reclaimed[Free]),
             M = [Reclaimed EXCEPT ![Free] = Tail(@)]
      PROVE  /\ t \in Task /\ Distinct(M) /\ On(M, t) = {} /\ On(list, t) # {}
             /\ \A u \in Task \ {t} : On(M, u) = On(Reclaimed, u)
             /\ status[t] = {"UNUSED"} /\ Grown(t) /\ t \notin ToSet(timerQ)
  <2> DEFINE R == Reclaimed
  <2>1. R[Free] # <<>> /\ t = Head(R[Free]) /\ M = [R EXCEPT ![Free] = Tail(@)] /\ Distinct(R)
    BY <1>2, <1>4
  <2> HIDE DEF R
  <2>2. /\ t \in Task /\ Free \in On(R, t) /\ Distinct(M)
        /\ \A u \in Task : On(M, u) = IF u = t THEN On(R, u) \ {Free} ELSE On(R, u)
    <3>1. /\ Head(R[Free]) \in Task /\ Free \in On(R, Head(R[Free]))
          /\ Distinct([R EXCEPT ![Free] = Tail(@)])
          /\ \A u \in Task : On([R EXCEPT ![Free] = Tail(@)], u) =
                               IF u = Head(R[Free]) THEN On(R, u) \ {Free} ELSE On(R, u)
      BY <1>0, <2>1, OnTakeHead
    <3> QED  BY <2>1, <3>1
  <2>3. Fits(status[t], prio[t], On(R, t), t \in ToSet(timerQ), pc[t], Grown(t))
    BY <1>3, <2>2 DEF R
  <2>4. On(R, t) = {Free} /\ "UNUSED" \in status[t] /\ Grown(t)
    BY <2>2, <2>3 DEF Fits
  <2>5. status[t] = {"UNUSED"} /\ t \notin ToSet(timerQ)
    BY <2>3, <2>4 DEF Fits
  <2>6. On(list, t) # {}
    BY <1>2, <2>2, <2>4 DEF R
  <2> QED  BY <2>2, <2>4, <2>5, <2>6 DEF R
<1> QED  BY <1>2, <1>3, <1>4

\* What TaskCreateFill fills in is still unused and on no list.
LEMMA FormedFits ==
  ASSUME TypeInv, ListInv, TaskRuns("alloc")
  PROVE  /\ newborn[run] \in Task /\ status[newborn[run]] = {"UNUSED"}
         /\ On(list, newborn[run]) = {} /\ newborn[run] # run
<1>1. run \in Task /\ pc[run] = "alloc" /\ newborn[run] \in Task
  BY NewbornType DEF TaskRuns
<1>2. newborn[run] # Null
  BY <1>1, Heads
<1> QED  BY <1>1, <1>2, NewbornFree DEF ListInv, NewbornFits, Forms

\* Every step keeps the lists, the flags and the delay list in agreement.
LEMMA FitsStep ==
  ASSUME TypeInv, DelayInv, ListInv, Next, ~halt', Slice = 0
  PROVE  TasksFit'
<1> USE DEF taskVars, cpuVars
<1>0. /\ Distinct(list) /\ TasksFit /\ IsInjective(timerQ) /\ timerQ \in Seq(Task)
      /\ CpuFits /\ ~halt /\ list \in Lists
      /\ \A t \in Task :
           /\ Fits(status[t], prio[t], On(list, t), t \in ToSet(timerQ), pc[t], Grown(t))
           /\ On(list, t) \in SUBSET Head_ /\ status[t] \in SUBSET Flag /\ prio[t] \in Prio
           /\ Linked(list, t) <=> On(list, t) # {}
      /\ Prio \subseteq Head_ /\ status \in [Task -> SUBSET Flag] /\ prio \in [Task -> Prio]
      /\ pc \in [Task -> Place]
  BY ListFacts, TimerCases, Heads DEF ListInv, DelayInv, TasksFit, TypeInv, TypeOK
<1>t. ASSUME NEW t \in ToSet(timerQ)
      PROVE  ToSet(DelTimer(timerQ, t)) = ToSet(timerQ) \ {t}
  BY <1>0, RemoveFirstRange DEF DelTimer
<1>g. newborn' = newborn => \A u \in Task : Grown(u)' <=> Grown(u)
  BY DEF Grown
<1>n. ASSUME UNCHANGED <<status, prio, list, timerQ, newborn>>,
             \A u \in Task : \/ pc'[u] = pc[u] \/ pc'[u] \in {"wait", "woken"}
                             \/ "TIMEOUT" \notin status[u]
      PROVE  TasksFit'
  <2>1. \A u \in Task : Same(u)
    BY <1>g, <1>n DEF Same, On
  <2>2. Distinct(list)'
    BY <1>0, <1>n DEF Distinct
  <2> QED  BY <1>0, <2>1, <2>2, OneFits
<1>1. CASE TaskCreateReady
  <2>1. PICK t \in Task : t = newborn[run] /\ run \in Task /\ "TIMEOUT" \notin status[run]
    <3>1. run \in Task /\ pc[run] = "create"
      BY <1>1 DEF TaskCreateReady, TaskRuns
    <3> QED  BY <1>0, <3>1 DEF TypeInv, TypeOK, LocalInv, Fits
  <2>2. status[t] \subseteq {"SUSPEND", "DETACHED"}
    <3>1. Forms("create", status[t])
      BY <1>1, <2>1, Heads DEF TaskCreateReady, TaskRuns, ListInv, NewbornFits
    <3> QED  BY <3>1 DEF Forms
  <2>3. status' = [status EXCEPT ![t] = (@ \ {"SUSPEND"}) \cup {"READY"}]
        /\ list' = AddTail(list, prio[t], t) /\ prio' = prio /\ timerQ' = timerQ
    BY <1>1, <2>1 DEF TaskCreateReady
  <2>3a. \A u \in Task : pc'[u] = pc[u] \/ "TIMEOUT" \notin status[u]
    BY <1>0, <1>1, <2>1 DEF TaskCreateReady
  <2>4. On(list, t) = {}
    <3>1. "READY" \notin status[t] /\ "UNUSED" \notin status[t] /\ status[t] \cap Waits = {}
      BY <2>2 DEF Waits
    <3> QED  BY <1>0, <2>1, <3>1, Unlinked
  <2>5. /\ Distinct(list)' /\ On(list, t)' = {prio[t]} /\ \A u \in Task \ {t} : On(list, u)' = On(list, u)
    <3>1. Distinct(AddTail(list, prio[t], t)) /\ On(AddTail(list, prio[t], t), t) = {prio[t]}
          /\ \A u \in Task \ {t} : On(AddTail(list, prio[t], t), u) = On(list, u)
      BY <1>0, <2>4, OnPut
    <3> QED  BY <2>3, <3>1 DEF Distinct, On
  <2>5a. \A u \in Task \ {t} : Grown(u)' <=> Grown(u)
    BY <1>1, <2>1, Heads DEF TaskCreateReady, Grown, TypeInv, TypeOK
  <2>6. \A u \in Task \ {t} : Same(u)
    BY <1>0, <2>3, <2>3a, <2>5, <2>5a DEF Same
  <2>7. Fits(status'[t], prio'[t], On(list, t)', t \in ToSet(timerQ'), pc'[t], Grown(t)')
    <3>1. t \notin ToSet(timerQ) /\ status'[t] \subseteq {"READY", "DETACHED"} /\ "READY" \in status'[t]
      BY <1>0, <2>1, <2>2, <2>3 DEF Fits, Waits
    <3> QED  BY <1>0, <2>1, <2>3, <2>5, <3>1, Heads DEF Fits, Waits
  <2> QED  BY <1>0, <2>1, <2>5, <2>6, <2>7, OneFits
<1>2. ASSUME NEW c \in Context, CreateNothing(c) PROVE TasksFit'
  <2>1. list' = Reclaimed /\ UNCHANGED <<status, prio, timerQ, pc, newborn>>
    BY <1>2 DEF CreateNothing
  <2>2. \A u \in Task : Grown(u)' <=> Grown(u)
    BY <2>1 DEF Grown
  <2>3. Distinct(Reclaimed) /\ \A u \in Task :
          Fits(status[u], prio[u], On(Reclaimed, u), u \in ToSet(timerQ), pc[u], Grown(u))
    BY <1>0, TakenFits
  <2> QED  BY <2>1, <2>2, <2>3 DEF TasksFit, Distinct, On, Fits
<1>r. ASSUME NEW t \in Task, Reclaimed[Free] # <<>>, t = Head(Reclaimed[Free]),
             Distinct(list)', timerQ' = timerQ,
             Fits(status'[t], prio'[t], On(list, t)', t \in ToSet(timerQ'), pc'[t], Grown(t)'),
             \A u \in Task \ {t} :
               /\ On(list, u)' = On(Reclaimed, u) /\ status'[u] = status[u] /\ prio'[u] = prio[u]
               /\ Grown(u)' <=> Grown(u)
               /\ pc'[u] = pc[u] \/ "TIMEOUT" \notin status[u]
      PROVE  TasksFit'
  <2>1. ASSUME NEW u \in Task \ {t}
        PROVE  Fits(status'[u], prio'[u], On(list, u)', u \in ToSet(timerQ'), pc'[u], Grown(u)')
    <3>1. Fits(status[u], prio[u], On(Reclaimed, u), u \in ToSet(timerQ), pc[u], Grown(u))
      BY <1>0, TakenFits
    <3> QED  BY <1>r, <3>1 DEF Fits
  <2> QED  BY <1>r, <2>1 DEF TasksFit, Distinct
<1>3. ASSUME NEW c \in Context, NEW t \in Task, NEW p \in AppPrio, NEW flags \in Attr,
             LOS_TaskCreateOnly(c, t, p, flags) \/ LOS_TaskCreate(c, t, p, flags)
      PROVE  TasksFit'
  <2> DEFINE M == [Reclaimed EXCEPT ![Free] = Tail(@)]
  <2>1. /\ Reclaimed[Free] # <<>> /\ t = Head(Reclaimed[Free]) /\ prio' = [prio EXCEPT ![t] = p]
        /\ \/ list' = M /\ status' = [status EXCEPT ![t] = {"SUSPEND"} \cup flags]
           \/ list' = AddTail(M, p, t) /\ status' = [status EXCEPT ![t] = {"READY"} \cup flags]
        /\ UNCHANGED <<timerQ, newborn>>
    BY <1>3 DEF LOS_TaskCreateOnly, LOS_TaskCreate, CreateAtOnce
  <2>2. p \in Prio /\ p \in Head_ /\ flags \in {{}, {"DETACHED"}} /\ pc' = pc
    BY <1>3, Heads, TaskAssumption DEF LOS_TaskCreateOnly, LOS_TaskCreate, CreateAtOnce, NoSchedule,
       Schedule, Context
  <2>3. /\ Distinct(M) /\ On(M, t) = {} /\ t \notin ToSet(timerQ)
        /\ \A u \in Task \ {t} : On(M, u) = On(Reclaimed, u)
    BY <1>0, <2>1, TakenFits
  <2> HIDE DEF M
  <2>4. /\ Distinct(list)' /\ \A u \in Task \ {t} : On(list, u)' = On(Reclaimed, u)
        /\ \/ On(list, t)' = {} /\ status'[t] = {"SUSPEND"} \cup flags
           \/ On(list, t)' = {p} /\ status'[t] = {"READY"} \cup flags
    <3>1. /\ Distinct(AddTail(M, p, t)) /\ On(AddTail(M, p, t), t) = {p}
          /\ \A u \in Task \ {t} : On(AddTail(M, p, t), u) = On(M, u)
      BY <2>2, <2>3, OnPut
    <3> QED  BY <1>0, <2>1, <2>3, <3>1 DEF Distinct, On
  <2>5. Fits(status'[t], prio'[t], On(list, t)', t \in ToSet(timerQ'), pc'[t], Grown(t)')
    <3>1. prio'[t] = p /\ t \notin ToSet(timerQ')
      BY <1>0, <2>1, <2>3
    <3> QED  BY <2>2, <2>4, <3>1, Heads DEF Fits, Waits
  <2>6. \A u \in Task \ {t} : /\ status'[u] = status[u] /\ prio'[u] = prio[u]
                              /\ Grown(u)' <=> Grown(u)
    BY <1>0, <2>1 DEF Grown
  <2> QED  BY <1>r, <2>1, <2>2, <2>4, <2>5, <2>6
<1>take. CASE TaskCreateTake
  <2> DEFINE M == [Reclaimed EXCEPT ![Free] = Tail(@)]
  <2>1. run \in Task /\ pc[run] = "user" /\ "TIMEOUT" \notin status[run]
    BY <1>0, <1>take, CallerFits DEF TaskCreateTake, MayCall, TaskRuns
  <2>2. PICK t \in Task : /\ t = Head(Reclaimed[Free]) /\ Distinct(M) /\ On(M, t) = {}
                          /\ status[t] = {"UNUSED"} /\ t \notin ToSet(timerQ)
                          /\ \A u \in Task \ {t} : On(M, u) = On(Reclaimed, u)
    BY <1>0, <1>take, TakenFits DEF TaskCreateTake
  <2>3. /\ Reclaimed[Free] # <<>> /\ list' = M /\ UNCHANGED <<status, prio, timerQ>>
        /\ pc' = [pc EXCEPT ![run] = "alloc"] /\ newborn' = [newborn EXCEPT ![run] = t]
    BY <1>take, <2>2 DEF TaskCreateTake
  <2> HIDE DEF M
  <2>4. newborn \in [Task -> Task \cup {Null}] /\ newborn[run] = Null /\ Null \notin Task
    <3>1. ~Forms(pc[run], status[newborn[run]])
      BY <2>1 DEF Forms
    <3> QED  BY <1>0, <2>1, <3>1, Heads DEF ListInv, NewbornFits, TypeInv, TypeOK
  <2>5. ~Grown(t)' /\ \A u \in Task \ {t} : Grown(u)' <=> Grown(u)
    BY <2>1, <2>3, <2>4 DEF Grown
  <2>6. Distinct(list)' /\ \A u \in Task : On(list, u)' = On(M, u)
    BY <2>2, <2>3 DEF Distinct, On
  <2>7. \A u \in Task : pc'[u] = pc[u] \/ "TIMEOUT" \notin status[u]
    BY <1>0, <2>1, <2>3
  <2>8. Fits(status'[t], prio'[t], On(list, t)', t \in ToSet(timerQ'), pc'[t], Grown(t)')
    BY <2>2, <2>3, <2>5, <2>6 DEF Fits, Waits
  <2> QED  BY <1>r, <2>2, <2>3, <2>5, <2>6, <2>7, <2>8
<1>drop. CASE TaskCreateNoMemory
  <2>1. PICK t \in Task : /\ t = newborn[run] /\ run \in Task /\ pc[run] = "alloc"
                          /\ t # Null /\ On(list, t) = {} /\ t \notin ToSet(timerQ)
                          /\ \A v \in Task : newborn[v] = t => run = v
    <3>1. run \in Task /\ pc[run] = "alloc" /\ newborn[run] \in Task /\ newborn[run] # Null
      BY <1>drop, NewbornType, Heads DEF TaskCreateNoMemory, TaskRuns
    <3> QED  BY <1>0, <3>1, NewbornFree DEF ListInv
  <2>2. status[t] = {"UNUSED"} /\ "TIMEOUT" \notin status[run]
    <3>1. Forms("alloc", status[t])
      BY <2>1 DEF ListInv, NewbornFits
    <3> QED  BY <1>0, <2>1, <3>1 DEF Forms, Fits
  <2>3. /\ list' = AddHead(list, Free, t) /\ UNCHANGED <<status, prio, timerQ>>
        /\ pc' = [pc EXCEPT ![run] = "user"] /\ newborn' = [newborn EXCEPT ![run] = Null]
    BY <1>drop, <2>1 DEF TaskCreateNoMemory
  <2>4. /\ Distinct(list)' /\ On(list, t)' = {Free}
        /\ \A u \in Task \ {t} : On(list, u)' = On(list, u)
    <3>1. /\ Distinct(AddHead(list, Free, t)) /\ On(AddHead(list, Free, t), t) = {Free}
          /\ \A u \in Task \ {t} : On(AddHead(list, Free, t), u) = On(list, u)
      <4>1. t \in Task /\ On(list, t) = {} /\ Distinct(list) /\ Free \in Head_
        BY <1>0, <2>1, Heads
      <4> QED  BY <4>1, OnPut
    <3> QED  BY <2>3, <3>1 DEF Distinct, On
  <2>5. Grown(t)' /\ \A u \in Task \ {t} : Grown(u)' <=> Grown(u)
    BY <2>1, <2>3, Heads DEF Grown, TypeInv, TypeOK
  <2>6. \A u \in Task \ {t} : Same(u)
    BY <1>0, <2>2, <2>3, <2>4, <2>5 DEF Same
  <2>7. Fits(status'[t], prio'[t], On(list, t)', t \in ToSet(timerQ'), pc'[t], Grown(t)')
    BY <2>1, <2>2, <2>3, <2>4, <2>5, Heads DEF Fits, Waits
  <2> QED  BY <1>0, <2>4, <2>6, <2>7, OneFits
<1>fill. ASSUME NEW p \in AppPrio, NEW flags \in Attr, TaskCreateFill(p, flags) PROVE TasksFit'
  <2>1. PICK t \in Task : /\ t = newborn[run] /\ run \in Task /\ pc[run] = "alloc"
                          /\ On(list, t) = {} /\ t \notin ToSet(timerQ)
    <3>1. run \in Task /\ pc[run] = "alloc" /\ newborn[run] \in Task /\ newborn[run] # Null
      BY <1>fill, NewbornType, Heads DEF TaskCreateFill, TaskRuns
    <3> QED  BY <1>0, <3>1, NewbornFree DEF ListInv
  <2>2. "TIMEOUT" \notin status[run] /\ flags \in {{}, {"DETACHED"}}
    BY <1>0, <2>1, TaskAssumption DEF Fits
  <2>3. /\ UNCHANGED <<list, timerQ>> /\ prio' = [prio EXCEPT ![t] = p]
        /\ status' = [status EXCEPT ![t] = {"SUSPEND"} \cup flags]
        /\ pc' = [pc EXCEPT ![run] = pc'[run]]
        /\ newborn' = newborn \/ newborn' = [newborn EXCEPT ![run] = Null]
    BY <1>0, <1>fill, <2>1 DEF TaskCreateFill
  <2>4. Distinct(list)' /\ \A u \in Task : On(list, u)' = On(list, u)
    BY <1>0, <2>3 DEF Distinct, On
  <2>5. \A u \in Task \ {t} : Grown(u)' <=> Grown(u)
    <3>1. CASE newborn' = newborn
      BY <1>g, <3>1
    <3>2. CASE newborn' = [newborn EXCEPT ![run] = Null]
      <4>1. \A v \in Task : newborn'[v] = IF v = run THEN Null ELSE newborn[v]
        BY <3>2 DEF TypeInv, TypeOK
      <4> QED  BY <2>1, <4>1, Heads DEF Grown
    <3> QED  BY <2>3, <3>1, <3>2
  <2>6. \A u \in Task \ {t} : Same(u)
    BY <1>0, <2>2, <2>3, <2>4, <2>5 DEF Same
  <2>7. Fits(status'[t], prio'[t], On(list, t)', t \in ToSet(timerQ'), pc'[t], Grown(t)')
    <3>1. status'[t] = {"SUSPEND"} \cup flags /\ On(list, t)' = {} /\ t \notin ToSet(timerQ')
      BY <1>0, <2>1, <2>3, <2>4
    <3> QED  BY <2>2, <3>1 DEF Fits, Waits
  <2> QED  BY <1>0, <2>4, <2>6, <2>7, OneFits
<1>4. ASSUME NEW c \in Context, NEW t \in Task, LOS_TaskResume(c, t) PROVE TasksFit'
  <2>0. /\ Fits(status[t], prio[t], On(list, t), t \in ToSet(timerQ), pc[t], Grown(t))
        /\ "UNUSED" \notin status[t] /\ prio' = prio /\ timerQ' = timerQ /\ newborn' = newborn
    BY <1>0, <1>4 DEF LOS_TaskResume, Known
  <2>1. \A u \in Task : pc'[u] = pc[u] \/ "TIMEOUT" \notin status[u]
    <3>1. Schedule(c) \/ NoSchedule
      BY <1>4 DEF LOS_TaskResume
    <3>2. c = "task" => run \in Task /\ "TIMEOUT" \notin status[run]
      BY <1>0, <1>4, CallerFits DEF LOS_TaskResume, MayCall, TaskRuns
    <3> QED  BY <3>1, <3>2, SchedulePc
  <2>2. CASE status' = [status EXCEPT ![t] = @ \ {"SUSPEND"}] /\ list' = list
    <3>1. Fits(status'[t], prio'[t], On(list, t)', t \in ToSet(timerQ'), pc'[t], Grown(t)')
      <4>1. /\ status'[t] = status[t] \ {"SUSPEND"} /\ On(list, t)' = On(list, t)
            /\ pc'[t] = pc[t] \/ "TIMEOUT" \notin status[t]
        BY <1>0, <2>1, <2>2 DEF On
      <4> QED  BY <2>0, <4>1 DEF Fits, Waits
    <3>2. \A u \in Task \ {t} : Same(u)
      BY <1>0, <1>g, <2>0, <2>1, <2>2 DEF Same, On
    <3> QED  BY <1>0, <2>2, <3>1, <3>2, OneFits DEF Distinct
  <2>3. CASE /\ status[t] \cap Blocking = {"SUSPEND"} /\ halt' = Linked(list, t)
             /\ status' = [status EXCEPT ![t] = (@ \ {"SUSPEND"}) \cup {"READY"}]
             /\ list' = AddTail(list, prio[t], t)
    <3>1. On(list, t) = {}
      BY <1>0, <2>3
    <3>2. /\ Distinct(AddTail(list, prio[t], t)) /\ On(AddTail(list, prio[t], t), t) = {prio[t]}
          /\ \A u \in Task \ {t} : On(AddTail(list, prio[t], t), u) = On(list, u)
      BY <1>0, <3>1, OnPut
    <3>3. Fits(status'[t], prio'[t], On(list, t)', t \in ToSet(timerQ'), pc'[t], Grown(t)')
      <4>1. /\ status[t] \cap Waits = {} /\ "DELAY" \notin status[t] /\ On(list, t)' = {prio[t]}
            /\ status'[t] = (status[t] \ {"SUSPEND"}) \cup {"READY"}
            /\ pc'[t] = pc[t] \/ "TIMEOUT" \notin status[t]
        BY <1>0, <2>1, <2>3, <3>2 DEF Blocking, Waits, On
      <4> QED  BY <1>0, <2>0, <4>1, Heads DEF Fits, Waits
    <3>4. \A u \in Task \ {t} : Same(u)
      BY <1>0, <1>g, <2>0, <2>1, <2>3, <3>2 DEF Same, On
    <3> QED  BY <1>0, <2>3, <3>2, <3>3, <3>4, OneFits DEF Distinct
  <2> QED  BY <1>4, <2>2, <2>3 DEF LOS_TaskResume
<1>5. ASSUME NEW c \in Context, NEW t \in Task, LOS_TaskSuspend(c, t) PROVE TasksFit'
  <2>0. /\ Fits(status[t], prio[t], On(list, t), t \in ToSet(timerQ), pc[t], Grown(t))
        /\ "UNUSED" \notin status[t] /\ prio' = prio /\ timerQ' = timerQ /\ newborn' = newborn
        /\ status' = [status EXCEPT ![t] = (@ \ {"READY"}) \cup {"SUSPEND"}]
    BY <1>0, <1>5 DEF LOS_TaskSuspend, Known
  <2>1. \A u \in Task : pc'[u] = pc[u] \/ "TIMEOUT" \notin status[u]
    <3>1. Schedule(c) \/ NoSchedule
      BY <1>5 DEF LOS_TaskSuspend
    <3>2. c = "task" => run \in Task /\ "TIMEOUT" \notin status[run]
      BY <1>0, <1>5, CallerFits DEF LOS_TaskSuspend, MayCall, TaskRuns
    <3> QED  BY <3>1, <3>2, SchedulePc
  <2>2. /\ Distinct(list)' /\ \A u \in Task \ {t} : On(list, u)' = On(list, u)
        /\ On(list, t)' = On(list, t) \ Prio
    <3>1. CASE "READY" \in status[t] /\ list' = Unlink(list, t)
      <4>1. On(list, t) = {prio[t]}
        BY <1>0, <2>0, <3>1, OnlyOn
      <4>2. On(list, t)' = {} /\ Distinct(list)' /\ \A u \in Task \ {t} : On(list, u)' = On(list, u)
        BY <1>0, <3>1, OnUnlink DEF On, Distinct
      <4> QED  BY <1>0, <4>1, <4>2
    <3>2. CASE "READY" \notin status[t] /\ list' = list
      BY <1>0, <2>0, <3>2 DEF Fits, On, Distinct
    <3> QED  BY <1>5, <3>1, <3>2 DEF LOS_TaskSuspend
  <2>3. Fits(status'[t], prio'[t], On(list, t)', t \in ToSet(timerQ'), pc'[t], Grown(t)')
    <3>1. /\ status'[t] = (status[t] \ {"READY"}) \cup {"SUSPEND"}
          /\ pc'[t] = pc[t] \/ "TIMEOUT" \notin status[t]
      BY <1>0, <2>0, <2>1
    <3> QED  BY <2>0, <2>2, <3>1, Heads DEF Fits, Waits
  <2>4. \A u \in Task \ {t} : Same(u)
    BY <1>0, <1>g, <2>0, <2>1, <2>2 DEF Same
  <2> QED  BY <1>0, <2>2, <2>3, <2>4, OneFits
<1>6. ASSUME NEW c \in Context, NEW t \in Task, LOS_TaskDelete(c, t) PROVE TasksFit'
  <2>0. /\ Fits(status[t], prio[t], On(list, t), t \in ToSet(timerQ), pc[t], Grown(t))
        /\ "UNUSED" \notin status[t] /\ prio' = prio /\ pc' = [pc EXCEPT ![t] = "user"]
        /\ status' = [status EXCEPT ![t] = {"UNUSED"}]
        /\ newborn' = [newborn EXCEPT ![t] = Null] /\ Grown(t)
        /\ pc[t] = "alloc" => "DeleteCreator" \in Permits
    BY <1>0, <1>6 DEF LOS_TaskDelete, Known, Grown
  <2>1. Distinct(Detach(t)) /\ On(Detach(t), t) = {}
        /\ \A u \in Task \ {t} : On(Detach(t), u) = On(list, u)
    <3>1. CASE Detaches(t)
      BY <1>0, <3>1, OnUnlink DEF Detach
    <3>2. CASE ~Detaches(t)
      <4>1. "READY" \notin status[t] /\ status[t] \cap Waits = {}
        BY <3>2 DEF Detaches, Waiting, Waits
      <4>2. On(list, t) = {}
        BY <1>0, <2>0, <4>1, Unlinked
      <4> QED  BY <1>0, <3>2, <4>2 DEF Detach
    <3> QED  BY <3>1, <3>2
  <2>2. \E h \in {Free, Recycle} : /\ Distinct(list)' /\ On(list, t)' = {h}
                                   /\ \A u \in Task \ {t} : On(list, u)' = On(list, u)
    <3>1. \/ list' = AddTail(Detach(t), Recycle, t)
          \/ list' = AddHead(Detach(t), Free, t)
      BY <1>6 DEF LOS_TaskDelete, RetireRun
    <3>2. \A h \in {Free, Recycle} :
            /\ Distinct(AddTail(Detach(t), h, t)) /\ On(AddTail(Detach(t), h, t), t) = {h}
            /\ Distinct(AddHead(Detach(t), h, t)) /\ On(AddHead(Detach(t), h, t), t) = {h}
            /\ \A u \in Task \ {t} : /\ On(AddTail(Detach(t), h, t), u) = On(Detach(t), u)
                                     /\ On(AddHead(Detach(t), h, t), u) = On(Detach(t), u)
      BY <2>1, OnPut, Heads
    <3> DEFINE D == Detach(t)
    <3> HIDE DEF D
    <3> QED  BY <2>1, <3>1, <3>2 DEF On, Distinct
  <2>3. t \notin ToSet(timerQ') /\ \A u \in Task \ {t} : u \in ToSet(timerQ') <=> u \in ToSet(timerQ)
    <3>1. CASE {"DELAY", "TIMEOUT"} \cap status[t] # {}
      BY <1>t, <1>6, <3>1 DEF LOS_TaskDelete
    <3>2. CASE {"DELAY", "TIMEOUT"} \cap status[t] = {}
      <4>1. timerQ' = timerQ /\ "DELAY" \notin status[t] /\ "TIMEOUT" \notin status[t]
        BY <1>6, <3>2 DEF LOS_TaskDelete
      <4> QED  BY <2>0, <4>1 DEF Fits
    <3> QED  BY <3>1, <3>2
  <2>4. Fits(status'[t], prio'[t], On(list, t)', t \in ToSet(timerQ'), pc'[t], Grown(t)')
    <3>1. status'[t] = {"UNUSED"} /\ Grown(t)'
      BY <1>0, <2>0, Heads DEF Grown, TypeInv, TypeOK
    <3> QED  BY <2>2, <2>3, <3>1, Heads DEF Fits, Waits
  <2>4a. ASSUME NEW u \in Task \ {t}
         PROVE  /\ Grown(u) => Grown(u)'
                /\ Grown(u)' => Grown(u) \/ "UNUSED" \notin status[u] \/ "DeleteCreator" \in Permits
    <3>1. newborn'[t] = Null /\ \A v \in Task \ {t} : newborn'[v] = newborn[v]
      BY <2>0 DEF TypeInv, TypeOK
    <3>2. Grown(u) => Grown(u)'
      BY <3>1, Heads DEF Grown
    <3>3. ASSUME Grown(u)', ~Grown(u) PROVE "UNUSED" \notin status[u] \/ "DeleteCreator" \in Permits
      <4>1. newborn[t] = u /\ newborn[t] # Null
        BY <3>1, <3>3, Heads DEF Grown
      <4>2. Forms(pc[t], status[u])
        BY <4>1 DEF ListInv, NewbornFits
      <4> QED  BY <2>0, <4>2 DEF Forms
    <3> QED  BY <3>2, <3>3
  <2>5. \A u \in Task \ {t} : Same(u)
    BY <1>0, <2>0, <2>2, <2>3, <2>4a DEF Same
  <2> QED  BY <1>0, <2>2, <2>4, <2>5, OneFits
<1>7. ASSUME NEW c \in Context, NEW t \in Task, NEW p \in AppPrio, LOS_TaskPriSet(c, t, p)
      PROVE  TasksFit'
  <2>0. /\ Fits(status[t], prio[t], On(list, t), t \in ToSet(timerQ), pc[t], Grown(t))
        /\ prio' = [prio EXCEPT ![t] = p] /\ status' = status /\ timerQ' = timerQ /\ newborn' = newborn
        /\ p \in Prio /\ p \in Head_
    BY <1>0, <1>7, Heads DEF LOS_TaskPriSet
  <2>1. \A u \in Task : pc'[u] = pc[u] \/ "TIMEOUT" \notin status[u]
    <3>1. Schedule(c) \/ NoSchedule
      BY <1>7 DEF LOS_TaskPriSet
    <3>2. c = "task" => run \in Task /\ "TIMEOUT" \notin status[run]
      BY <1>0, <1>7, CallerFits DEF LOS_TaskPriSet, MayCall, TaskRuns
    <3> QED  BY <3>1, <3>2, SchedulePc
  <2>2. /\ Distinct(list)' /\ \A u \in Task \ {t} : On(list, u)' = On(list, u)
        /\ On(list, t)' = IF "READY" \in status[t] THEN {p} ELSE On(list, t)
    <3>1. CASE "READY" \in status[t] /\ list' = AddTail(Unlink(list, t), p, t)
      <4>1. /\ Distinct(AddTail(Unlink(list, t), p, t)) /\ On(AddTail(Unlink(list, t), p, t), t) = {p}
            /\ \A u \in Task \ {t} : On(AddTail(Unlink(list, t), p, t), u) = On(list, u)
        BY <1>0, <2>0, OnMove
      <4> QED  BY <3>1, <4>1 DEF On, Distinct
    <3>2. CASE "READY" \notin status[t] /\ list' = list
      BY <1>0, <3>2 DEF On, Distinct
    <3> QED  BY <1>7, <3>1, <3>2 DEF LOS_TaskPriSet
  <2>3. Fits(status'[t], prio'[t], On(list, t)', t \in ToSet(timerQ'), pc'[t], Grown(t)')
    <3>1. prio'[t] = p /\ (pc'[t] = pc[t] \/ "TIMEOUT" \notin status[t])
      BY <1>0, <2>0, <2>1
    <3>2. "READY" \in status[t] => On(list, t) = {prio[t]}
      BY <1>0, <2>0, OnlyOn
    <3>3. Grown(t)' <=> Grown(t)
      BY <1>g, <2>0
    <3> QED  BY <2>0, <2>2, <3>1, <3>2, <3>3, Heads DEF Fits, Waits
  <2>4. \A u \in Task \ {t} : Same(u)
    BY <1>0, <1>g, <2>0, <2>1, <2>2 DEF Same
  <2> QED  BY <1>0, <2>2, <2>3, <2>4, OneFits
<1>8. CASE TaskEntryDetached
  <2>1. PICK t \in Task : /\ t = run /\ "UNUSED" \notin status[t] /\ status[t] \cap Blocks = {}
                          /\ "TIMEOUT" \notin status[t] /\ t \notin ToSet(timerQ)
                          /\ On(list, t) = IF "READY" \in status[t] THEN {prio[t]} ELSE {}
    <3>1. Returns /\ pc[run] = "user"
      BY <1>8 DEF TaskEntryDetached, Returns, TaskRuns
    <3> QED  BY <1>0, <3>1, CallerFits
  <2>2. Waiting(t) = {} /\ (Detaches(t) <=> "READY" \in status[t])
    BY <2>1 DEF Waiting, Detaches, Blocks
  <2>3. /\ timerQ' = timerQ /\ prio' = prio /\ pc' = pc /\ status' = [status EXCEPT ![t] = {"UNUSED"}]
        /\ newborn' = newborn
        /\ list' = AddTail(Detach(t), Recycle, t)
    BY <1>8, <2>1, <2>2 DEF TaskEntryDetached, RetireRun
  <2>4. Distinct(Detach(t)) /\ On(Detach(t), t) = {}
        /\ \A u \in Task \ {t} : On(Detach(t), u) = On(list, u)
    <3>1. CASE "READY" \in status[t]
      BY <1>0, <2>2, <3>1, OnUnlink DEF Detach
    <3>2. CASE "READY" \notin status[t]
      BY <1>0, <2>1, <2>2, <3>2 DEF Detach
    <3> QED  BY <3>1, <3>2
  <2>5. /\ Distinct(AddTail(Detach(t), Recycle, t)) /\ On(AddTail(Detach(t), Recycle, t), t) = {Recycle}
        /\ \A u \in Task \ {t} : On(AddTail(Detach(t), Recycle, t), u) = On(Detach(t), u)
    BY <2>4, OnPut, Heads
  <2>6. /\ Distinct(list)' /\ On(list, t)' = {Recycle}
        /\ \A u \in Task \ {t} : On(list, u)' = On(list, u)
    BY <2>3, <2>4, <2>5 DEF On, Distinct
  <2>7. Fits(status'[t], prio'[t], On(list, t)', t \in ToSet(timerQ'), pc'[t], Grown(t)')
    <3>1. status'[t] = {"UNUSED"} /\ t \notin ToSet(timerQ') /\ Grown(t)'
      <4>1. Grown(t)
        BY <2>1, Heads DEF Grown, ListInv, NewbornFits
      <4> QED  BY <1>0, <1>g, <2>1, <2>3, <4>1
    <3> QED  BY <2>6, <3>1, Heads DEF Fits, Waits
  <2>8. \A u \in Task \ {t} : Same(u)
    BY <1>0, <1>g, <2>3, <2>6 DEF Same
  <2> QED  BY <1>0, <2>6, <2>7, <2>8, OneFits
<1>9. CASE TaskEntryFinish
  <2>1. PICK t \in Task : /\ t = run /\ "UNUSED" \notin status[t] /\ status[t] \cap Blocks = {}
                          /\ "TIMEOUT" \notin status[t] /\ t \notin ToSet(timerQ)
                          /\ On(list, t) = IF "READY" \in status[t] THEN {prio[t]} ELSE {}
    <3>1. TaskRuns("finish") /\ pc[run] = "finish" /\ "finish" \in Place \ {"sched", "wait"}
      BY <1>9, Members DEF TaskEntryFinish, TaskRuns
    <3> QED  BY <1>0, <3>1, CallerFits
  <2>2. /\ timerQ' = timerQ /\ prio' = prio /\ pc' = [pc EXCEPT ![t] = "unlock"] /\ newborn' = newborn
        /\ status' = [status EXCEPT ![t] = @ \ {"READY"}]
        /\ list' = IF "READY" \in status[t] THEN Unlink(list, t) ELSE list
    BY <1>9, <2>1 DEF TaskEntryFinish
  <2>3. Distinct(list)' /\ On(list, t)' = {} /\ \A u \in Task \ {t} : On(list, u)' = On(list, u)
    <3>1. CASE "READY" \in status[t]
      BY <1>0, <2>2, <3>1, OnUnlink DEF On, Distinct
    <3>2. CASE "READY" \notin status[t]
      BY <1>0, <2>1, <2>2, <3>2 DEF On, Distinct
    <3> QED  BY <3>1, <3>2
  <2>4. Fits(status'[t], prio'[t], On(list, t)', t \in ToSet(timerQ'), pc'[t], Grown(t)')
    <3>1. status'[t] = status[t] \ {"READY"} /\ t \notin ToSet(timerQ')
      BY <1>0, <2>1, <2>2
    <3> QED  BY <2>1, <2>3, <3>1, Heads DEF Fits, Waits, Blocks
  <2>5. \A u \in Task \ {t} : Same(u)
    BY <1>0, <1>g, <2>2, <2>3 DEF Same
  <2> QED  BY <1>0, <2>3, <2>4, <2>5, OneFits
<1>10. ASSUME NEW n \in Timeouts, LOS_TaskDelay(n) PROVE TasksFit'
  <2>1. PICK t \in Task : /\ t = run /\ "UNUSED" \notin status[t] /\ status[t] \cap Blocks = {}
                          /\ "TIMEOUT" \notin status[t] /\ t \notin ToSet(timerQ)
                          /\ On(list, t) = IF "READY" \in status[t] THEN {prio[t]} ELSE {}
    <3>1. MayCall("task", "Delay") /\ pc[run] = "user"
      BY <1>10 DEF LOS_TaskDelay, MayCall, TaskRuns
    <3> QED  BY <1>0, <3>1, CallerFits
  <2>2. /\ timerQ' = AddTimer(timerQ, t, n) /\ prio' = prio /\ pc' = [pc EXCEPT ![t] = "sched"]
        /\ newborn' = newborn
        /\ status' = [status EXCEPT ![t] = (@ \ {"READY"}) \cup {"DELAY"}]
        /\ list' = Unlink(list, t)
    BY <1>10, <2>1 DEF LOS_TaskDelay, Schedule
  <2>3. Distinct(list)' /\ On(list, t)' = {} /\ \A u \in Task \ {t} : On(list, u)' = On(list, u)
    BY <1>0, <2>2, OnUnlink DEF On, Distinct
  <2>4. ToSet(timerQ') = ToSet(timerQ) \cup {t}
    BY <1>0, <2>2, TimerType
  <2>5. Fits(status'[t], prio'[t], On(list, t)', t \in ToSet(timerQ'), pc'[t], Grown(t)')
    <3>1. status'[t] = (status[t] \ {"READY"}) \cup {"DELAY"} /\ t \in ToSet(timerQ')
      BY <1>0, <2>2, <2>4
    <3> QED  BY <2>1, <2>3, <3>1, Heads DEF Fits, Waits, Blocks
  <2>6. \A u \in Task \ {t} : Same(u)
    BY <1>0, <1>g, <2>2, <2>3, <2>4 DEF Same
  <2> QED  BY <1>0, <2>3, <2>5, <2>6, OneFits
<1>11. CASE LOS_TaskYield
  <2>1. PICK t \in Task : /\ t = run /\ "UNUSED" \notin status[t] /\ status[t] \cap Blocks = {}
                          /\ "TIMEOUT" \notin status[t] /\ t \notin ToSet(timerQ)
                          /\ On(list, t) = IF "READY" \in status[t] THEN {prio[t]} ELSE {}
    <3>1. MayCall("task", "Yield") /\ pc[run] = "user"
      BY <1>11 DEF LOS_TaskYield, MayCall, TaskRuns
    <3> QED  BY <1>0, <3>1, CallerFits
  <2>2. /\ timerQ' = timerQ /\ prio' = prio /\ pc' = [pc EXCEPT ![t] = "sched"] /\ newborn' = newborn
        /\ status' = [status EXCEPT ![t] = @ \cup {"READY"}]
        /\ list' = AddTail(Unlink(list, t), prio[t], t) /\ halt' = ~Linked(list, t)
    BY <1>11, <2>1 DEF LOS_TaskYield, Rotate, Schedule
  <2>3. /\ Distinct(list)' /\ On(list, t)' = {prio[t]}
        /\ \A u \in Task \ {t} : On(list, u)' = On(list, u)
    <3>1. /\ Distinct(AddTail(Unlink(list, t), prio[t], t))
          /\ On(AddTail(Unlink(list, t), prio[t], t), t) = {prio[t]}
          /\ \A u \in Task \ {t} : On(AddTail(Unlink(list, t), prio[t], t), u) = On(list, u)
      BY <1>0, OnMove
    <3> QED  BY <2>2, <3>1 DEF On, Distinct
  <2>4. Fits(status'[t], prio'[t], On(list, t)', t \in ToSet(timerQ'), pc'[t], Grown(t)')
    <3>1. status'[t] = status[t] \cup {"READY"} /\ t \notin ToSet(timerQ') /\ prio'[t] = prio[t]
      BY <1>0, <2>1, <2>2
    <3> QED  BY <1>0, <2>1, <2>3, <3>1, Heads DEF Fits, Waits, Blocks
  <2>5. \A u \in Task \ {t} : Same(u)
    BY <1>0, <1>g, <2>2, <2>3 DEF Same
  <2> QED  BY <1>0, <2>3, <2>4, <2>5, OneFits
<1>12. ASSUME NEW o \in Obj, NEW n \in Timeouts \cup {Forever},
              NEW i \in 1..Len(Unlink(list, run)[o]) + 1, Pend(o, n, i)
       PROVE  TasksFit'
  <2>1. Refits(list, prio') /\ Block(list, o, n, i)
    BY <1>0, <1>12, RefitNow DEF Pend
  <2> QED  BY <1>0, <2>1, BlockFits
<1>13. ASSUME NEW c \in Context, NEW o \in Obj, Wakes(c, o) PROVE TasksFit'
  <2>1. Refits(list, prio') /\ Hand(list, c, o) /\ prio' = prio
    BY <1>0, <1>13, RefitNow DEF Wakes
  <2> QED  BY <1>0, <1>13, <2>1, HandFits DEF Wakes
<1>14. CASE WaitReturn
  <2>1. PICK t \in Task : /\ t = run /\ "UNUSED" \notin status[t] /\ status[t] \cap Blocks = {}
                          /\ t \notin ToSet(timerQ)
                          /\ On(list, t) = IF "READY" \in status[t] THEN {prio[t]} ELSE {}
    <3>1. TaskRuns("woken") /\ "woken" \in Place \ {"sched", "wait"}
      BY <1>14, Members DEF WaitReturn
    <3> QED  BY <1>0, <3>1, CallerFits
  <2>2. /\ UNCHANGED <<prio, list, timerQ, newborn>> /\ status' = [status EXCEPT ![t] = @ \ {"TIMEOUT"}]
        /\ pc' = [pc EXCEPT ![t] = "user"]
    BY <1>14, <2>1 DEF WaitReturn
  <2>3. Fits(status'[t], prio'[t], On(list, t)', t \in ToSet(timerQ'), pc'[t], Grown(t)')
    <3>1. status'[t] = status[t] \ {"TIMEOUT"} /\ t \notin ToSet(timerQ') /\ On(list, t)' = On(list, t)
          /\ prio'[t] = prio[t]
      BY <1>0, <2>1, <2>2 DEF On
    <3> QED  BY <1>0, <2>1, <3>1, Heads DEF Fits, Waits, Blocks
  <2>4. (\A u \in Task \ {t} : Same(u)) /\ Distinct(list)'
    BY <1>0, <1>g, <2>2 DEF Same, On, Distinct
  <2> QED  BY <1>0, <2>3, <2>4, OneFits
<1>15. CASE ScanExpire
  <2>1. PICK t \in Task : t = scan.task /\ t \in ToSet(timerQ) /\ scan.at = "expire"
    <3>1. scan.task \in ToSet(timerQ) /\ scan.at = "expire"
      BY <1>15 DEF ScanExpire
    <3> QED  BY <1>0, <3>1, InToSet
  <2>2. /\ Fits(status[t], prio[t], On(list, t), t \in ToSet(timerQ), pc[t], Grown(t))
        /\ scan.was \cap Blocks = status[t] \cap Blocks
    BY <1>0, <2>1 DEF ListInv, ScanFits
  <2>3. /\ \/ "DELAY" \in status[t] /\ status[t] \cap Waits = {}
           \/ "DELAY" \notin status[t] /\ \E k \in Waits : status[t] \cap Waits = {k}
        /\ "UNUSED" \notin status[t] /\ "READY" \notin status[t]
    <3>1. ASSUME status[t] \cap Waits # {} PROVE \E k \in Waits : status[t] \cap Waits = {k}
      <4>1. PICK o \in On(list, t) \cap Obj : status[t] \cap Waits = {Kind(o)}
        BY <2>2, <3>1 DEF Fits
      <4> QED  BY <4>1 DEF Kind, Waits
    <3>2. "UNUSED" \notin status[t]
      BY <2>1, <2>2 DEF Fits, Waits
    <3>3. "READY" \notin status[t]
      <4>1. CASE status[t] \cap Waits # {}
        BY <1>0, <2>2, <4>1, OnlyOn, Heads DEF Fits
      <4>2. CASE status[t] \cap Waits = {}
        BY <2>1, <2>2, <4>2 DEF Fits
      <4> QED  BY <4>1, <4>2
    <3> QED  BY <2>1, <2>2, <3>1, <3>2, <3>3 DEF Fits
  <2> DEFINE waits == scan.was \cap {"PEND", "PEND_QUEUE"} # {}
             done == IF "PEND" \in scan.was THEN "PEND"
                     ELSE IF "PEND_QUEUE" \in scan.was THEN "PEND_QUEUE" ELSE "DELAY"
             L == IF waits THEN Unlink(list, t) ELSE list
             awake == "SUSPEND" \notin scan.was
  <2>4. /\ timerQ' = DelTimer(timerQ, t) /\ prio' = prio /\ pc' = pc /\ newborn' = newborn
        /\ status' = [status EXCEPT ![t] = (@ \ {done}) \cup (IF awake THEN {"READY"} ELSE {})]
        /\ list' = IF awake THEN AddTail(L, prio[t], t) ELSE L
    BY <1>15, <2>1 DEF ScanExpire
  <2>5. (waits <=> status[t] \cap Waits # {}) /\ (status[t] \ {done}) \cap Blocks = {}
    BY <2>2, <2>3 DEF Waits, Blocks
  <2> HIDE DEF waits, done, awake
  <2>6. Distinct(L) /\ On(L, t) = {} /\ \A u \in Task \ {t} : On(L, u) = On(list, u)
    <3>1. CASE waits
      BY <1>0, <3>1, OnUnlink
    <3>2. CASE ~waits
      <4>1. On(list, t) = {}
        BY <1>0, <2>2, <2>3, <2>5, <3>2, Unlinked
      <4> QED  BY <1>0, <3>2, <4>1
    <3> QED  BY <3>1, <3>2
  <2> HIDE DEF L
  <2>7. /\ Distinct(list)' /\ \A u \in Task \ {t} : On(list, u)' = On(list, u)
        /\ On(list, t)' = IF awake THEN {prio[t]} ELSE {}
    <3>1. /\ Distinct(AddTail(L, prio[t], t)) /\ On(AddTail(L, prio[t], t), t) = {prio[t]}
          /\ \A u \in Task \ {t} : On(AddTail(L, prio[t], t), u) = On(L, u)
      BY <1>0, <2>6, OnPut
    <3>2. CASE awake
      BY <2>4, <2>6, <3>1, <3>2 DEF On, Distinct
    <3>3. CASE ~awake
      BY <2>4, <2>6, <3>3 DEF On, Distinct
    <3> QED  BY <3>2, <3>3
  <2>8. ToSet(timerQ') = ToSet(timerQ) \ {t}
    BY <1>t, <2>1, <2>4
  <2>9. Fits(status'[t], prio'[t], On(list, t)', t \in ToSet(timerQ'), pc'[t], Grown(t)')
    <3>1. status'[t] = (status[t] \ {done}) \cup (IF awake THEN {"READY"} ELSE {})
      BY <1>0, <2>4
    <3>2. /\ status'[t] \cap Waits = {} /\ "DELAY" \notin status'[t] /\ "UNUSED" \notin status'[t]
          /\ ("READY" \in status'[t] <=> awake) /\ ("TIMEOUT" \in status'[t] => "TIMEOUT" \in status[t])
      BY <2>3, <2>5, <3>1 DEF Waits, Blocks
    <3>3. t \notin ToSet(timerQ') /\ prio'[t] = prio[t] /\ pc'[t] = pc[t]
      BY <2>4, <2>8
    <3> QED  BY <1>0, <2>2, <2>7, <3>2, <3>3, Heads DEF Fits
  <2>10. \A u \in Task \ {t} : Same(u)
    BY <1>0, <1>g, <2>4, <2>7, <2>8 DEF Same
  <2> QED  BY <1>0, <2>7, <2>9, <2>10, OneFits
<1>16. CASE \E from \in {"sched", "wait", "exit"} : TaskSchedule(from)
  <2>1. PICK from \in {"sched", "wait", "exit"} : TaskSchedule(from)
    BY <1>16
  <2>2. UNCHANGED <<status, prio, list, timerQ, newborn>> /\ run \in Task /\ pc[run] = from
        /\ pc' = [pc EXCEPT ![run] = AfterSchedule[from]]
    BY <2>1 DEF TaskSchedule, TaskRuns
  <2>3. from = "wait" => AfterSchedule[from] = "woken"
    BY DEF AfterSchedule
  <2>4. from # "wait" => "TIMEOUT" \notin status[run]
    BY <1>0, <2>1, <2>2 DEF Fits
  <2> QED  BY <1>0, <1>n, <2>2, <2>3, <2>4
<1>17. CASE TaskEntryJoinable \/ TaskEntryUnlock \/ LOS_TaskLock \/ LOS_TaskUnlock \/ TaskSwitch
  <2>1. UNCHANGED <<status, prio, list, timerQ, newborn>>
    BY <1>17 DEF TaskEntryJoinable, TaskEntryUnlock, LOS_TaskLock, LOS_TaskUnlock, TaskSwitch
  <2>2. \/ pc' = pc
        \/ pc' = [pc EXCEPT ![run] = pc'[run]] /\ run \in Task /\ pc[run] \in {"user", "unlock", "switch"}
    BY <1>0, <1>17 DEF TaskEntryJoinable, TaskEntryUnlock, LOS_TaskLock, LOS_TaskUnlock, TaskSwitch,
       Schedule, NoSchedule, Returns, MayCall, TaskRuns
  <2>3. run \in Task /\ pc[run] \in {"user", "unlock", "switch"} => "TIMEOUT" \notin status[run]
    BY <1>0 DEF Fits
  <2> QED  BY <1>0, <1>n, <2>1, <2>2, <2>3
<1>18. CASE LOS_Start \/ osTaskExit \/ PendSV \/ Tick \/ ScanNext \/ ScanEnd
  <2>1. UNCHANGED <<status, prio, list, timerQ, newborn, pc>>
    BY <1>18 DEF LOS_Start, osTaskExit, PendSV, Tick, ScanNext, ScanEnd, NoSchedule, Schedule
  <2> QED  BY <1>n, <2>1
<1>19. ~TickYield
  BY DEF TickYield
<1>20. CASE CreateStep
  BY <1>20, <1>1, <1>2, <1>3, <1>take, <1>drop, <1>fill DEF CreateStep
<1>21. CASE ControlStep
  BY <1>21, <1>4, <1>5, <1>6, <1>7, <1>8, <1>9, <1>10, <1>11, <1>17, <1>18 DEF ControlStep
<1>22. CASE WaitStep
  <2>1. ASSUME NEW o \in Obj, PassOn(o)
        PROVE  Wakes("task", o)
    BY <2>1 DEF PassOn, Wakes
  <2> QED  BY <1>22, <1>12, <1>13, <1>14, <2>1, WakesContext DEF WaitStep, Context
<1>23. CASE TickStep
  BY <1>23, <1>15, <1>18, <1>19 DEF TickStep
<1> QED  BY <1>16, <1>17, <1>18, <1>20, <1>21, <1>22, <1>23 DEF Next, SwitchStep
-----------------------------------------------------------------------------
\* LOS_PriqueueTop finds a task that is ready, and so neither blocked nor unused.
LEMMA TopFits ==
  ASSUME TypeInv', TasksFit'
  PROVE  /\ Top(list') \in Task /\ "READY" \in status'[Top(list')]
         /\ "UNUSED" \notin status'[Top(list')] /\ status'[Top(list')] \cap Blocks = {}
<1>1. GoodLists(list')
  BY DEF TypeInv, IdleInv
<1>2. PICK t \in Task : t = Top(list') /\ \E p \in Prio : t \in ToSet(list'[p])
  BY <1>1, TopType DEF GoodLists
<1>3. /\ Fits(status'[t], prio'[t], On(list', t), t \in ToSet(timerQ'), pc'[t], Grown(t)')
      /\ On(list', t) \in SUBSET Head_
  BY DEF TasksFit, On
<1>4. On(list', t) \cap Prio # {}
  BY <1>2, Heads DEF On
<1>5. "READY" \in status'[t] /\ "UNUSED" \notin status'[t] /\ On(list', t) = {prio'[t]}
      /\ "DELAY" \notin status'[t]
  BY <1>3, <1>4, OnlyOn DEF Fits
<1>6. On(list', t) \cap Obj = {}
  BY <1>4, <1>5, Heads
<1>7. status'[t] \cap Waits = {}
  BY <1>3, <1>6 DEF Fits
<1> QED  BY <1>2, <1>5, <1>7 DEF Waits, Blocks

\* The task u is not blocked by this step, and not given back.
Calmer(u) ==
  /\ status'[u] \cap Blocks \subseteq status[u]
  /\ "UNUSED" \in status'[u] => "UNUSED" \in status[u]

\* A call that blocks nobody and ends with LOS_Schedule, or without it.
LEMMA ScheduleCpu ==
  ASSUME TypeInv, ListInv, TypeInv', TasksFit', NEW c \in Context, Schedule(c) \/ NoSchedule,
         run' = run, \A u \in Task : Calmer(u),
         c = "task" => run \in Task,
         c = "main" => run = Dummy,
         lock' = lock \/ (run \in Task /\ status[run] \cap Blocks = {})
  PROVE  CpuFits' /\ (new' = new \/ "READY" \in status'[new']) /\ run' \in {run, new, Dummy}
<1>0. new \in Task /\ CpuFits /\ Dummy \notin Task /\ pc \in [Task -> Place]
  BY Heads DEF TypeInv, TypeOK, ListInv
<1>1. CASE NoSchedule
  BY <1>0, <1>1 DEF NoSchedule, CpuFits, Calmer
<1>2. CASE Schedule(c) /\ c = "task"
  <2>1. new' = new /\ pendsv' = pendsv /\ pc' = [pc EXCEPT ![run] = "sched"]
    BY <1>2 DEF Schedule
  <2> QED  BY <1>0, <1>2, <2>1 DEF CpuFits, Calmer
<1>3. CASE Schedule(c) /\ c # "task"
  <2>1. new' = Top(list') /\ pc' = pc /\ (pendsv => pendsv')
    <3>1. pendsv \in BOOLEAN /\ pendsv' \in BOOLEAN
      BY DEF TypeInv, TypeOK
    <3> QED  BY <1>3, <3>1 DEF Schedule
  <2> QED  BY <1>0, <1>3, <2>1, TopFits DEF CpuFits, Calmer
<1> QED  BY <1>1, <1>2, <1>3

\* Code that the running task executes and that neither blocks nor schedules.
LEMMA RunCpu ==
  ASSUME TypeInv, ListInv, run \in Task, pc[run] \notin {"sched", "wait"},
         status[run] \cap Blocks = {},
         UNCHANGED <<run, new, pendsv>>, \A u \in Task : Calmer(u)
  PROVE  CpuFits' /\ (new' = new \/ "READY" \in status'[new']) /\ run' \in {run, new, Dummy}
<1>0. new \in Task /\ CpuFits
  BY DEF TypeInv, TypeOK, ListInv
<1> QED  BY <1>0 DEF CpuFits, Calmer

\* A task that somebody knows, or that is linked anywhere, is not in creation.
LEMMA GrownTasks ==
  ASSUME TypeInv, ListInv, NEW t \in Task,
         Known(t) \/ t = run \/ t \in ToSet(timerQ) \/ On(list, t) # {}
  PROVE  Grown(t)
<1>1. ASSUME NEW u \in Task, newborn[u] = t PROVE FALSE
  <2>1. newborn[u] # Null
    BY <1>1, Heads
  <2>2. t # run /\ On(list, t) = {} /\ t \notin ToSet(timerQ)
    BY <1>1, <2>1, NewbornFree DEF ListInv, NewbornFits
  <2> QED  BY <1>1, <2>2 DEF Known
<1> QED  BY <1>1 DEF Grown

\* A step that lets the half created tasks be.
LEMMA BornKept ==
  ASSUME TypeInv, ListInv,
         \A u \in Task : newborn'[u] = newborn[u] \/ newborn'[u] = Null,
         \A u \in Task : pc[u] \in {"alloc", "create"} /\ newborn'[u] # Null => pc'[u] = pc[u],
         \A t \in Task : ~Grown(t) => status'[t] = status[t] \/ \A u \in Task : newborn'[u] # t,
         new' = new \/ "READY" \in status'[new'],
         run' \in {run, new, Dummy}
  PROVE  NewbornFits'
<1> SUFFICES ASSUME NEW u \in Task, newborn'[u] # Null
             PROVE  /\ newborn'[u] \notin {run', new'} /\ Forms(pc'[u], status'[newborn'[u]])
                    /\ \A v \in Task : newborn'[v] = newborn'[u] => u = v
  BY DEF NewbornFits
<1>1. PICK t \in Task : t = newborn[u] /\ t = newborn'[u]
  BY DEF TypeInv, TypeOK
<1>2. /\ t \notin {run, new, Null, Dummy} /\ Forms(pc[u], status[t])
      /\ \A v \in Task : newborn[v] = t => u = v
  BY <1>1, Heads DEF ListInv, NewbornFits
<1>3. status'[t] = status[t] /\ pc'[u] = pc[u]
  BY <1>1, <1>2 DEF Grown, Forms
<1>4. \A v \in Task : newborn'[v] = t => u = v
  BY <1>1, <1>2
<1>5. t \notin {run', new'}
  BY <1>2, <1>3 DEF Forms
<1> QED  BY <1>1, <1>2, <1>3, <1>4, <1>5

\* A step of the creator b.
LEMMA BornStep ==
  ASSUME TypeInv, ListInv, NEW b \in Task, UNCHANGED <<run, new>>,
         newborn'[b] # Null => /\ newborn'[b] \notin {run, new} /\ Forms(pc'[b], status'[newborn'[b]])
                               /\ \A u \in Task \ {b} : newborn[u] # newborn'[b],
         \A u \in Task \ {b} :
           /\ newborn'[u] = newborn[u] /\ pc'[u] = pc[u]
           /\ newborn[u] # Null => status'[newborn[u]] = status[newborn[u]]
  PROVE  NewbornFits'
<1> SUFFICES ASSUME NEW u \in Task, newborn'[u] # Null
             PROVE  /\ newborn'[u] \notin {run', new'} /\ Forms(pc'[u], status'[newborn'[u]])
                    /\ \A v \in Task : newborn'[v] = newborn'[u] => u = v
  BY DEF NewbornFits
<1>1. CASE u = b
  BY <1>1
<1>2. CASE u # b
  <2>1. newborn[u] \notin {run, new} /\ Forms(pc[u], status[newborn[u]])
        /\ \A v \in Task : newborn[v] = newborn[u] => u = v
    BY <1>2 DEF ListInv, NewbornFits
  <2> QED  BY <1>2, <2>1
<1> QED  BY <1>1, <1>2

\* A task that blocks gives the processor away before it makes another call.
LEMMA BlockCpu ==
  ASSUME TypeInv, ListInv, NEW L, NEW o \in Obj, NEW n, NEW i, Block(L, o, n, i)
  PROVE  CpuFits' /\ NewbornFits'
<1>0. /\ CpuFits /\ TasksFit /\ status \in [Task -> SUBSET Flag] /\ new \in Task
      /\ pc \in [Task -> Place] /\ newborn \in [Task -> Task \cup {Null}]
  BY DEF TypeInv, TypeOK, ListInv
<1>1. /\ UNCHANGED <<run, new, pendsv, newborn, lock>> /\ lock = 0
      /\ pc' = [pc EXCEPT ![run] = "wait"]
      /\ \E S \in SUBSET (Flag \ {"UNUSED"}) :
           status' = [status EXCEPT ![run] = (@ \ {"READY"}) \cup S]
  <2>1. /\ UNCHANGED <<run, new, pendsv, newborn, lock>> /\ lock = 0
        /\ pc' = [pc EXCEPT ![run] = "wait"]
        /\ \/ status' = [status EXCEPT ![run] = (@ \ {"READY"}) \cup {Kind(o)}]
           \/ status' = [status EXCEPT ![run] = (@ \ {"READY"}) \cup {Kind(o), "TIMEOUT"}]
    BY DEF Block, cpuVars
  <2>2. {Kind(o)} \in SUBSET (Flag \ {"UNUSED"}) /\ {Kind(o), "TIMEOUT"} \in SUBSET (Flag \ {"UNUSED"})
    BY DEF Kind, Flag
  <2> QED  BY <2>1, <2>2
<1>2. run \in Task /\ pc[run] = "user" /\ status[run] \cap Blocks = {} /\ ~pendsv
  BY <1>0, CallerFits DEF Block, MayCall, TaskRuns
<1>3. CpuFits'
  BY <1>0, <1>1, <1>2 DEF CpuFits
<1>4. Grown(run)
  BY <1>2, GrownTasks
<1> QED  BY <1>0, <1>1, <1>2, <1>3, <1>4, BornKept

\* A wake-up blocks nobody, and the task chosen to run next is ready.
LEMMA HandCpu ==
  ASSUME TypeInv, ListInv, TypeInv', TasksFit', NEW L, NEW c \in Context, NEW o \in Obj,
         Hand(L, c, o), MayCall(c, "Wake") \/ (c = "task" /\ TaskRuns("woken"))
  PROVE  CpuFits' /\ NewbornFits'
<1>0. /\ TasksFit /\ CpuFits /\ status \in [Task -> SUBSET Flag] /\ pc \in [Task -> Place]
      /\ Distinct(list) /\ o \in Head_
  BY ListFacts, Heads DEF TypeInv, TypeOK, ListInv
<1>1. PICK t \in Task : t = Head(list[o]) /\ o \in On(list, t)
  BY <1>0, OnTakeHead DEF Hand
<1>2. /\ Schedule(c) /\ UNCHANGED <<run, lock, newborn>>
      /\ \/ status' = [status EXCEPT ![t] = Woken(t, o)]
         \/ status' = [status EXCEPT ![t] = Woken(t, o) \cup {"READY"}]
  BY <1>1 DEF Hand
<1>3. \A u \in Task : Calmer(u)
  BY <1>0, <1>2 DEF Calmer, Woken, Blocks
<1>4. /\ c = "task" => run \in Task /\ pc[run] \notin {"alloc", "create"}
      /\ c # "main"
  BY DEF MayCall, TaskRuns
<1>5. CpuFits' /\ (new' = new \/ "READY" \in status'[new']) /\ run' \in {run, new, Dummy}
  BY <1>2, <1>3, <1>4, ScheduleCpu
<1>6. \A u \in Task : pc[u] \in {"alloc", "create"} => pc'[u] = pc[u]
  BY <1>0, <1>2, <1>4 DEF Schedule
<1>7. \A u \in Task : ~Grown(u) => status'[u] = status[u]
  BY <1>0, <1>1, <1>2, GrownTasks
<1> QED  BY <1>2, <1>5, <1>6, <1>7, BornKept

\* Every step keeps what is said of the processor and of half created tasks.
LEMMA CpuStep ==
  ASSUME TypeInv, DelayInv, ListInv, Next, ~halt', Slice = 0, TypeInv', TasksFit'
  PROVE  CpuFits' /\ NewbornFits'
<1> USE DEF taskVars, cpuVars
<1>0. /\ CpuFits /\ TasksFit /\ status \in [Task -> SUBSET Flag] /\ new \in Task
      /\ pc \in [Task -> Place] /\ newborn \in [Task -> Task \cup {Null}]
      /\ Null \notin Task /\ Dummy \notin Task /\ run \in Task \cup {Dummy}
  BY Heads DEF TypeInv, TypeOK, ListInv
<1>c. ASSUME NEW c \in Context, NEW name, MayCall(c, name)
      PROVE  /\ c = "task" => run \in Task /\ pc[run] = "user" /\ status[run] \cap Blocks = {}
             /\ c = "main" => run = Dummy
  BY <1>0, <1>c, CallerFits DEF MayCall, TaskRuns, TypeInv, LockInv
<1>s. ASSUME Schedule("task") \/ Schedule("isr") \/ Schedule("main") \/ NoSchedule,
             Schedule("task") => run \in Task /\ pc[run] \notin {"alloc", "create"}
      PROVE  \A u \in Task : pc[u] \in {"alloc", "create"} => pc'[u] = pc[u]
  BY <1>0, <1>s DEF Schedule, NoSchedule
<1>1. CASE TaskCreateReady
  <2>1. PICK t \in Task : t = newborn[run] /\ run \in Task
    BY <1>0, <1>1 DEF TaskCreateReady, TaskRuns, TypeInv, LocalInv
  <2>2. /\ Forms("create", status[t]) /\ \A v \in Task : newborn[v] = t => run = v
    BY <1>0, <1>1, <2>1 DEF TaskCreateReady, TaskRuns, ListInv, NewbornFits
  <2>3. /\ status' = [status EXCEPT ![t] = (@ \ {"SUSPEND"}) \cup {"READY"}]
        /\ newborn' = [newborn EXCEPT ![run] = Null]
        /\ new' = Top(list') /\ run' = run /\ pendsv' = pendsv /\ lock' = lock
        /\ pc' = [pc EXCEPT ![run] = pc'[run]]
    BY <1>0, <1>1, <2>1 DEF TaskCreateReady
  <2>4. \A u \in Task : Calmer(u)
    BY <1>0, <2>2, <2>3 DEF Calmer, Blocks, Forms
  <2>5. status[run] \cap Blocks = {}
    BY <1>0, <1>1, CallerFits, Members DEF TaskCreateReady
  <2>6. CpuFits'
    BY <1>0, <2>1, <2>3, <2>4, <2>5, TopFits DEF CpuFits, Calmer
  <2>7. NewbornFits'
    BY <1>0, <2>1, <2>2, <2>3, TopFits, BornKept
  <2> QED  BY <2>6, <2>7
<1>2. ASSUME NEW c \in Context, CreateNothing(c) PROVE CpuFits' /\ NewbornFits'
  <2>1. NoSchedule /\ UNCHANGED <<status, run, new, lock, pc, newborn>>
    BY <1>2 DEF CreateNothing, NoSchedule
  <2>2. \A u \in Task : Calmer(u)
    BY <2>1 DEF Calmer
  <2>3. CpuFits' /\ (new' = new \/ "READY" \in status'[new']) /\ run' \in {run, new, Dummy}
    BY <1>2, <1>c, <2>1, <2>2, ScheduleCpu DEF CreateNothing
  <2> QED  BY <2>1, <2>3, BornKept
<1>3. ASSUME NEW c \in Context, NEW t \in Task, NEW p \in AppPrio, NEW flags \in Attr,
             LOS_TaskCreateOnly(c, t, p, flags) \/ LOS_TaskCreate(c, t, p, flags)
      PROVE  CpuFits' /\ NewbornFits'
  <2>1. /\ Reclaimed[Free] # <<>> /\ t = Head(Reclaimed[Free])
        /\ MayCall(c, "Create") /\ c # "task" /\ (Schedule(c) \/ NoSchedule)
        /\ UNCHANGED <<run, lock, newborn>>
        /\ \/ status' = [status EXCEPT ![t] = {"SUSPEND"} \cup flags]
           \/ status' = [status EXCEPT ![t] = {"READY"} \cup flags]
    BY <1>3 DEF LOS_TaskCreateOnly, LOS_TaskCreate, CreateAtOnce
  <2>2. status[t] = {"UNUSED"} /\ Grown(t) /\ flags \in {{}, {"DETACHED"}}
    BY <1>0, <2>1, TakenFits, TaskAssumption
  <2>3. \A u \in Task : Calmer(u)
    BY <1>0, <2>1, <2>2 DEF Calmer, Blocks
  <2>4. CpuFits' /\ (new' = new \/ "READY" \in status'[new']) /\ run' \in {run, new, Dummy}
    BY <1>c, <2>1, <2>3, ScheduleCpu
  <2>5. pc' = pc
    BY <2>1 DEF Schedule, NoSchedule, Context
  <2>6. \A u \in Task : ~Grown(u) => status'[u] = status[u]
    BY <1>0, <2>1, <2>2
  <2> QED  BY <2>1, <2>4, <2>5, <2>6, BornKept
<1>take. CASE TaskCreateTake
  <2>1. PICK t \in Task : t = Head(Reclaimed[Free]) /\ status[t] = {"UNUSED"} /\ Grown(t)
    BY <1>0, <1>take, TakenFits DEF TaskCreateTake
  <2>2. /\ MayCall("task", "Create") /\ UNCHANGED <<status, run, new, lock, pendsv>>
        /\ pc' = [pc EXCEPT ![run] = "alloc"] /\ newborn' = [newborn EXCEPT ![run] = t]
    BY <1>take, <2>1 DEF TaskCreateTake
  <2>3. run \in Task /\ pc[run] = "user" /\ status[run] \cap Blocks = {}
    BY <1>c, <2>2 DEF Context
  <2>4. CpuFits'
    <3>1. \A u \in Task : Calmer(u)
      BY <2>2 DEF Calmer
    <3> QED  BY <2>2, <2>3, <3>1, RunCpu
  <2>5. t \notin {run, new} /\ Forms("alloc", status[t])
    BY <1>0, <2>1, <2>3 DEF CpuFits, Forms
  <2>6. NewbornFits'
    BY <1>0, <2>1, <2>2, <2>3, <2>5, BornStep DEF Grown
  <2> QED  BY <2>4, <2>6
<1>drop. CASE TaskCreateNoMemory
  <2>1. /\ run \in Task /\ pc[run] = "alloc" /\ UNCHANGED <<status, run, new, lock, pendsv>>
        /\ pc' = [pc EXCEPT ![run] = "user"] /\ newborn' = [newborn EXCEPT ![run] = Null]
    BY <1>drop DEF TaskCreateNoMemory, TaskRuns
  <2>2. status[run] \cap Blocks = {}
    BY <1>0, <1>drop, CallerFits, Members DEF TaskCreateNoMemory
  <2>3. CpuFits'
    <3>1. \A u \in Task : Calmer(u)
      BY <2>1 DEF Calmer
    <3> QED  BY <2>1, <2>2, <3>1, RunCpu
  <2>4. NewbornFits'
    BY <1>0, <2>1, BornKept
  <2> QED  BY <2>3, <2>4
<1>fill. ASSUME NEW p \in AppPrio, NEW flags \in Attr, TaskCreateFill(p, flags)
         PROVE  CpuFits' /\ NewbornFits'
  <2>1. PICK t \in Task : t = newborn[run] /\ run \in Task /\ pc[run] = "alloc" /\ t # Null
    BY <1>fill, NewbornType, Heads DEF TaskCreateFill, TaskRuns
  <2>2. /\ UNCHANGED <<run, new, lock, pendsv>> /\ pc' = [pc EXCEPT ![run] = pc'[run]]
        /\ status' = [status EXCEPT ![t] = {"SUSPEND"} \cup flags]
        /\ \/ pc'[run] = "create" /\ newborn' = newborn
           \/ newborn' = [newborn EXCEPT ![run] = Null]
    BY <1>0, <1>fill, <2>1 DEF TaskCreateFill
  <2>3. status[run] \cap Blocks = {} /\ flags \in {{}, {"DETACHED"}}
    BY <1>0, <1>fill, CallerFits, Members, TaskAssumption DEF TaskCreateFill
  <2>4. CpuFits'
    <3>1. \A u \in Task : Calmer(u)
      BY <1>0, <2>2, <2>3 DEF Calmer, Blocks
    <3> QED  BY <2>1, <2>2, <2>3, <3>1, RunCpu
  <2>5. t \notin {run, new} /\ \A u \in Task \ {run} : newborn[u] # t
    BY <2>1 DEF ListInv, NewbornFits
  <2>6. Forms("create", status'[t])
    BY <1>0, <2>2, <2>3 DEF Forms
  <2>7. \A u \in Task \ {run} :
          /\ newborn'[u] = newborn[u] /\ pc'[u] = pc[u]
          /\ newborn[u] # Null => status'[newborn[u]] = status[newborn[u]]
    BY <1>0, <2>2, <2>5
  <2>8. newborn'[run] # Null => newborn'[run] = t /\ pc'[run] = "create"
    BY <1>0, <2>1, <2>2
  <2>9. NewbornFits'
    BY <2>1, <2>2, <2>5, <2>6, <2>7, <2>8, BornStep
  <2> QED  BY <2>4, <2>9
<1>4. ASSUME NEW c \in Context, NEW t \in Task,
             \/ LOS_TaskResume(c, t) \/ LOS_TaskSuspend(c, t)
             \/ \E p \in AppPrio : LOS_TaskPriSet(c, t, p)
      PROVE  CpuFits' /\ NewbornFits'
  <2>1. /\ \E name : MayCall(c, name)
        /\ Schedule(c) \/ NoSchedule
        /\ UNCHANGED <<run, lock, newborn>> /\ Known(t)
        /\ status'[t] \subseteq status[t] \cup {"READY", "SUSPEND"}
        /\ \A u \in Task \ {t} : status'[u] = status[u]
    BY <1>0, <1>4 DEF LOS_TaskResume, LOS_TaskSuspend, LOS_TaskPriSet
  <2>2. \A u \in Task : Calmer(u)
    BY <2>1 DEF Calmer, Blocks
  <2>3. CpuFits' /\ (new' = new \/ "READY" \in status'[new']) /\ run' \in {run, new, Dummy}
    BY <1>c, <2>1, <2>2, ScheduleCpu
  <2>4. \A u \in Task : pc[u] \in {"alloc", "create"} => pc'[u] = pc[u]
    BY <1>0, <1>c, <2>1 DEF Schedule, NoSchedule
  <2> QED  BY <2>1, <2>3, <2>4, BornKept, GrownTasks
<1>5. ASSUME NEW c \in Context, NEW t \in Task, LOS_TaskDelete(c, t) PROVE CpuFits' /\ NewbornFits'
  <2>1. /\ MayCall(c, "Delete") /\ Known(t) /\ lock' = lock
        /\ status' = [status EXCEPT ![t] = {"UNUSED"}] /\ new' = Top(list')
        /\ pc' = [pc EXCEPT ![t] = "user"] /\ newborn' = [newborn EXCEPT ![t] = Null]
        /\ \/ t = run /\ run' = Dummy
           \/ t # run /\ run' = run /\ pendsv' = pendsv
    BY <1>5 DEF LOS_TaskDelete, RetireRun
  <2>2. CpuFits'
    BY <1>0, <2>1, TopFits DEF CpuFits
  <2>3. \A u \in Task : ~Grown(u) => status'[u] = status[u]
    BY <1>0, <2>1, GrownTasks
  <2> QED  BY <1>0, <2>1, <2>2, <2>3, TopFits, BornKept
<1>6. CASE TaskEntryDetached
  <2>1. /\ run \in Task /\ run' = Dummy /\ new' = Top(list') /\ UNCHANGED <<pc, newborn>>
        /\ status' = [status EXCEPT ![run] = {"UNUSED"}]
    BY <1>6 DEF TaskEntryDetached, RetireRun, Returns, TaskRuns
  <2>2. CpuFits'
    BY <1>0, <2>1, TopFits DEF CpuFits
  <2>3. \A u \in Task : ~Grown(u) => status'[u] = status[u]
    BY <1>0, <2>1, GrownTasks
  <2> QED  BY <1>0, <2>1, <2>2, <2>3, TopFits, BornKept
<1>7. CASE TaskEntryJoinable \/ TaskEntryFinish \/ TaskEntryUnlock \/ LOS_TaskLock \/ WaitReturn
  <2>1. /\ run \in Task /\ pc[run] \in {"user", "finish", "unlock", "woken"}
        /\ status[run] \cap Blocks = {}
        /\ UNCHANGED <<run, new, pendsv, newborn>>
        /\ status'[run] \subseteq status[run] /\ \A u \in Task \ {run} : status'[u] = status[u]
        /\ pc' = [pc EXCEPT ![run] = pc'[run]]
    <3>1. \/ Returns \/ MayCall("task", "Lock")
          \/ \E where \in {"finish", "unlock", "woken"} : TaskRuns(where)
      BY <1>7 DEF TaskEntryJoinable, TaskEntryFinish, TaskEntryUnlock, LOS_TaskLock, WaitReturn
    <3>2. run \in Task /\ pc[run] \in {"user", "finish", "unlock", "woken"}
      BY <3>1 DEF Returns, MayCall, TaskRuns
    <3>3. status[run] \cap Blocks = {}
      BY <1>0, <3>1, CallerFits, Members
    <3>4. UNCHANGED <<run, new, pendsv, newborn>> /\ pc' = [pc EXCEPT ![run] = pc'[run]]
      BY <1>0, <1>7, <3>2 DEF TaskEntryJoinable, TaskEntryFinish, TaskEntryUnlock,
         LOS_TaskLock, WaitReturn
    <3>5. status'[run] \subseteq status[run] /\ \A u \in Task \ {run} : status'[u] = status[u]
      BY <1>0, <1>7, <3>2 DEF TaskEntryJoinable, TaskEntryFinish, TaskEntryUnlock,
         LOS_TaskLock, WaitReturn
    <3> QED  BY <3>2, <3>3, <3>4, <3>5
  <2>2. \A u \in Task : Calmer(u)
    BY <2>1 DEF Calmer
  <2>3. CpuFits' /\ (new' = new \/ "READY" \in status'[new']) /\ run' \in {run, new, Dummy}
    BY <2>1, <2>2, RunCpu
  <2>4. Grown(run)
    BY <2>1, GrownTasks
  <2> QED  BY <1>0, <2>1, <2>3, <2>4, BornKept
<1>8. ASSUME LOS_TaskYield \/ LOS_TaskUnlock PROVE CpuFits' /\ NewbornFits'
  <2>1. /\ \E name : MayCall("task", name)
        /\ Schedule("task") \/ NoSchedule
        /\ UNCHANGED <<run, newborn>>
        /\ run \in Task => status'[run] \subseteq status[run] \cup {"READY"}
        /\ \A u \in Task \ {run} : status'[u] = status[u]
    BY <1>0, <1>8 DEF LOS_TaskYield, LOS_TaskUnlock, Rotate
  <2>2. run \in Task /\ pc[run] = "user" /\ status[run] \cap Blocks = {}
    BY <1>c, <2>1 DEF Context
  <2>3. \A u \in Task : Calmer(u)
    BY <2>1 DEF Calmer, Blocks
  <2>4. CpuFits' /\ (new' = new \/ "READY" \in status'[new']) /\ run' \in {run, new, Dummy}
    BY <2>1, <2>2, <2>3, ScheduleCpu DEF Context
  <2>5. \A u \in Task : pc[u] \in {"alloc", "create"} => pc'[u] = pc[u]
    BY <1>0, <2>1, <2>2 DEF Schedule, NoSchedule
  <2>6. Grown(run)
    BY <2>2, GrownTasks
  <2> QED  BY <2>1, <2>4, <2>5, <2>6, BornKept
<1>9. ASSUME NEW n \in Timeouts, LOS_TaskDelay(n) PROVE CpuFits' /\ NewbornFits'
  <2>1. /\ UNCHANGED <<run, new, pendsv, newborn, lock>> /\ lock = 0
        /\ pc' = [pc EXCEPT ![run] = "sched"]
        /\ status' = [status EXCEPT ![run] = (@ \ {"READY"}) \cup {"DELAY"}]
    BY <1>9 DEF LOS_TaskDelay, Schedule
  <2>2. run \in Task /\ pc[run] = "user" /\ status[run] \cap Blocks = {} /\ ~pendsv
    BY <1>0, <1>9, CallerFits DEF LOS_TaskDelay, MayCall, TaskRuns
  <2>3. CpuFits'
    BY <1>0, <2>1, <2>2 DEF CpuFits
  <2>4. Grown(run)
    BY <2>2, GrownTasks
  <2> QED  BY <1>0, <2>1, <2>2, <2>3, <2>4, BornKept
<1>10. ASSUME \/ \E c \in Context, o \in Obj : Wakes(c, o)
              \/ \E o \in Obj : \E n, i : Pend(o, n, i)
       PROVE  CpuFits' /\ NewbornFits'
  BY <1>10, BlockCpu, HandCpu DEF Wakes, Pend
<1>11. CASE ScanExpire
  <2>1. PICK t \in Task : t = scan.task /\ t \in ToSet(timerQ)
    <3>1. scan.task \in ToSet(timerQ) /\ timerQ \in Seq(Task)
      BY <1>11 DEF ScanExpire, TypeInv, TypeOK
    <3> QED  BY <3>1, InToSet
  <2>2. /\ NoSchedule /\ UNCHANGED <<run, lock, newborn, pc>>
        /\ status'[t] \subseteq status[t] \cup {"READY"}
        /\ \A u \in Task \ {t} : status'[u] = status[u]
    BY <1>0, <1>11, <2>1 DEF ScanExpire, NoSchedule
  <2>3. \A u \in Task : Calmer(u)
    BY <2>2 DEF Calmer, Blocks
  <2>4. CpuFits' /\ (new' = new \/ "READY" \in status'[new']) /\ run' \in {run, new, Dummy}
    BY <2>2, <2>3, ScheduleCpu DEF Context
  <2>5. \A u \in Task : ~Grown(u) => status'[u] = status[u]
    BY <1>0, <2>1, <2>2, GrownTasks
  <2> QED  BY <2>2, <2>4, <2>5, BornKept
<1>12. ASSUME NEW from \in {"sched", "wait", "exit"}, TaskSchedule(from) PROVE CpuFits' /\ NewbornFits'
  <2>1. /\ run \in Task /\ pc[run] = from /\ UNCHANGED <<status, list, run, lock, newborn>>
        /\ new' = Top(list') /\ pendsv' = (run # new' /\ lock = 0)
        /\ pc' = [pc EXCEPT ![run] = AfterSchedule[from]]
    BY <1>12 DEF TaskSchedule, TaskRuns
  <2>2. CpuFits'
    BY <1>0, <2>1, TopFits DEF CpuFits
  <2> QED  BY <1>0, <2>1, <2>2, TopFits, BornKept
<1>13. CASE TaskSwitch
  <2>1. /\ UNCHANGED <<status, run, new, lock, newborn>> /\ pendsv' = TRUE
        /\ \/ run \in Task /\ pc[run] = "switch" /\ pc' = [pc EXCEPT ![run] = "user"]
           \/ run = Dummy /\ pc' = pc
    BY <1>13 DEF TaskSwitch, TaskRuns
  <2>2. CpuFits'
    BY <1>0, <2>1 DEF CpuFits
  <2> QED  BY <1>0, <2>1, <2>2, BornKept
<1>14. CASE PendSV \/ LOS_Start
  <2>1. /\ UNCHANGED <<status, new, newborn, pc>> /\ run' = new
        /\ pendsv \/ run = Dummy
    BY <1>14 DEF PendSV, LOS_Start, TypeInv, LockInv
  <2>2. CpuFits'
    BY <1>0, <2>1 DEF CpuFits
  <2> QED  BY <1>0, <2>1, <2>2, BornKept
<1>15. CASE Tick \/ ScanNext \/ ScanEnd
  <2>1. /\ UNCHANGED <<status, run, lock, newborn, pc>>
        /\ Schedule("isr") \/ NoSchedule
    BY <1>15 DEF Tick, ScanNext, ScanEnd, Schedule, NoSchedule
  <2>2. \A u \in Task : Calmer(u)
    BY <2>1 DEF Calmer
  <2>3. CpuFits' /\ (new' = new \/ "READY" \in status'[new']) /\ run' \in {run, new, Dummy}
    BY <2>1, <2>2, ScheduleCpu DEF Context
  <2> QED  BY <2>1, <2>3, BornKept
<1>16. ~TickYield /\ ~osTaskExit
  BY DEF TickYield, osTaskExit
<1>17. CASE CreateStep
  BY <1>17, <1>1, <1>2, <1>3, <1>take, <1>drop, <1>fill DEF CreateStep
<1>18. CASE ControlStep
  BY <1>18, <1>4, <1>5, <1>6, <1>7, <1>8, <1>9, <1>16 DEF ControlStep
<1>19. CASE WaitStep
  <2>1. ASSUME NEW o \in Obj, PassOn(o) PROVE Wakes("task", o)
    BY <2>1 DEF PassOn, Wakes
  <2> QED  BY <1>19, <1>7, <1>10, <2>1, WakesContext DEF WaitStep, Context
<1> QED  BY <1>12, <1>13, <1>14, <1>15, <1>11, <1>16, <1>17, <1>18, <1>19 DEF Next, SwitchStep, TickStep

\* A step while the tick scans the delay list blocks nobody.
LEMMA ScanCalm ==
  ASSUME TypeInv, Next, scan.at # "idle", NEW u \in Task
  PROVE  status'[u] \cap Blocks \subseteq status[u]
<1> USE DEF taskVars, cpuVars
<1>0. status \in [Task -> SUBSET Flag] /\ \A f \in Attr : f \in {{}, {"DETACHED"}}
  BY TaskAssumption DEF TypeInv, TypeOK
<1>1. /\ \A where : ~TaskRuns(where)
      /\ \A name : ~MayCall("task", name)
  BY DEF TaskRuns, MayCall
<1>2. CASE CreateStep
  <2>1. \/ status' = status
        \/ \E t \in Task, f \in {{"READY"}, {"SUSPEND"}}, g \in Attr : status' = [status EXCEPT ![t] = f \cup g]
    BY <1>1, <1>2 DEF CreateStep, TaskCreateReady, TaskCreateNoMemory, TaskCreateTake,
       TaskCreateFill, CreateNothing, LOS_TaskCreateOnly, LOS_TaskCreate, CreateAtOnce
  <2> QED  BY <1>0, <2>1 DEF Blocks
<1>3. CASE ControlStep
  <2>1. ASSUME NEW c \in Context, NEW t \in Task,
               \/ LOS_TaskResume(c, t) \/ LOS_TaskSuspend(c, t) \/ LOS_TaskDelete(c, t)
               \/ \E p \in AppPrio : LOS_TaskPriSet(c, t, p)
        PROVE  status'[u] \cap Blocks \subseteq status[u]
    <3>1. \/ status' = status
          \/ \E S \in SUBSET (status[t] \cup {"READY", "SUSPEND", "UNUSED"}) :
               status' = [status EXCEPT ![t] = S]
      <4>1. CASE LOS_TaskResume(c, t)
        BY <1>0, <4>1 DEF LOS_TaskResume
      <4>2. CASE LOS_TaskSuspend(c, t)
        BY <1>0, <4>2 DEF LOS_TaskSuspend
      <4>3. CASE LOS_TaskDelete(c, t)
        BY <1>0, <4>3 DEF LOS_TaskDelete
      <4>4. CASE \E p \in AppPrio : LOS_TaskPriSet(c, t, p)
        BY <4>4 DEF LOS_TaskPriSet
      <4> QED  BY <2>1, <4>1, <4>2, <4>3, <4>4
    <3> QED  BY <1>0, <3>1 DEF Blocks
  <2> QED  BY <1>1, <1>3, <2>1 DEF ControlStep, TaskEntryDetached, TaskEntryJoinable, TaskEntryFinish,
              TaskEntryUnlock, osTaskExit, LOS_TaskDelay, LOS_TaskYield, LOS_TaskLock, LOS_TaskUnlock,
              Returns
<1>4. CASE WaitStep
  <2>1. ASSUME NEW c \in Context, NEW o \in Obj, Wakes(c, o)
        PROVE  status'[u] \cap Blocks \subseteq status[u]
    BY <1>0, <2>1 DEF Wakes, Hand, Woken, Blocks
  <2> QED  BY <1>1, <1>4, <2>1, WakesContext DEF WaitStep, Pend, Block, WaitReturn
<1>5. CASE TickStep
  <2>1. CASE ScanExpire
    BY <1>0, <2>1 DEF ScanExpire, Blocks
  <2>2. CASE Tick \/ TickYield
    BY <2>2 DEF Tick, TickYield, TickBegin
  <2> QED  BY <1>5, <2>1, <2>2 DEF TickStep, ScanNext, ScanEnd
<1>6. CASE LOS_Start \/ SwitchStep
  BY <1>6 DEF LOS_Start, SwitchStep, TaskSchedule, TaskSwitch, PendSV
<1> QED  BY <1>2, <1>3, <1>4, <1>5, <1>6 DEF Next

\* What osTaskScan read of the task it handles stays true while that task is on the delay
\* list: a task there is blocked in one way only, and nobody blocks it in another.
LEMMA ScanStep ==
  ASSUME TypeInv, DelayInv, ListInv, Next, ~halt', TypeInv', TasksFit'
  PROVE  ScanFits'
<1> SUFFICES ASSUME scan'.at = "expire", scan'.task \in ToSet(timerQ')
             PROVE  scan'.was \cap Blocks = status'[scan'.task] \cap Blocks
  BY DEF ScanFits
<1>1. CASE ScanNext
  <2>1. scan'.was = status[scan'.task] /\ status' = status
    BY <1>1 DEF ScanNext, taskVars, TypeInv, TypeOK
  <2> QED  BY <2>1
<1>2. CASE scan' = scan
  <2>1. PICK t \in Task : t = scan.task /\ t \in ToSet(timerQ')
    BY <1>2, InToSet DEF TypeInv, TypeOK
  <2>2. t \in ToSet(timerQ)
    <3>1. timerQ \in Seq(Task)
      BY DEF TypeInv, TypeOK
    <3>2. timerQ' = timerQ \/ \E u \in Task : timerQ' = DelTimer(timerQ, u)
      BY <1>2, TimerCases DEF TimerCase, Leave, TickBegin, ScanNext, ScanExpire, ScanEnd,
         Idling, taskVars
    <3> QED  BY <2>1, <3>1, <3>2, TimerType
  <2>3. scan.was \cap Blocks = status[t] \cap Blocks
    BY <1>2, <2>1, <2>2 DEF ListInv, ScanFits
  <2>4. status'[t] \cap Blocks \subseteq status[t]
    BY <1>2, ScanCalm
  <2>5. /\ Fits(status[t], prio[t], On(list, t), TRUE, pc[t], Grown(t))
        /\ Fits(status'[t], prio'[t], On(list', t), TRUE, pc'[t], Grown(t)')
    <3>1. /\ Fits(status[t], prio[t], On(list, t), t \in ToSet(timerQ), pc[t], Grown(t))
          /\ Fits(status'[t], prio'[t], On(list', t), t \in ToSet(timerQ'), pc'[t], Grown(t)')
      BY DEF TasksFit, On, ListInv
    <3> QED  BY <2>1, <2>2, <3>1 DEF Fits
  <2>6. \/ status[t] \cap Blocks = {"DELAY"}
        \/ \E k \in Waits : status[t] \cap Blocks = {k}
    <3>1. ASSUME status[t] \cap Waits # {} PROVE \E k \in Waits : status[t] \cap Waits = {k}
      <4>1. PICK o \in On(list, t) \cap Obj : status[t] \cap Waits = {Kind(o)}
        BY <2>5, <3>1 DEF Fits
      <4> QED  BY <4>1 DEF Kind, Waits
    <3> QED  BY <2>5, <3>1 DEF Fits, Waits, Blocks
  <2>7. status'[t] \cap Blocks # {}
    BY <2>5 DEF Fits, Waits, Blocks
  <2>8. status'[t] \cap Blocks = status[t] \cap Blocks
    BY <2>4, <2>6, <2>7
  <2> QED  BY <1>2, <2>1, <2>3, <2>8
<1>3. scan'.at # "expire" \/ scan' = scan \/ ScanNext
  <2>1. TickBegin => scan'.at = "next"
    BY DEF TickBegin, Idling
  <2>2. ScanExpire => scan'.at = "next"
    BY DEF ScanExpire, Idling
  <2>3. ScanEnd => scan'.at = "idle"
    BY DEF ScanEnd, Idling
  <2> QED  BY <2>1, <2>2, <2>3, TimerCases DEF TimerCase
<1> QED  BY <1>1, <1>2, <1>3
-----------------------------------------------------------------------------
\* When osMain has created the system tasks each is on its ready list and the others on
\* g_stLosFreeTask.
LEMMA ListInit == Init => ListInv
<1> SUFFICES ASSUME Init PROVE ListInv
  OBVIOUS
<1> DEFINE e == <<>>
           i == <<Idle>>
           s == <<SwtmrTask>>
<1>1. /\ TcbOrder \in Seq(Task) /\ ToSet(TcbOrder) = Task \ {Idle, SwtmrTask} /\ IsInjective(TcbOrder)
      /\ Idle \in Task /\ SwtmrTask # Idle /\ Dummy \notin Task /\ Null \notin Task
      /\ Lowest \in Prio /\ 0 \in Prio /\ Lowest # 0
      /\ SwtmrTask # Null => SwtmrTask \in Task
  BY TaskAssumption DEF Prio, IsInjective
<1>2. ToSet(e) = {} /\ IsInjective(e) /\ ToSet(timerQ) = {}
  BY DEF Init, ToSet, IsInjective
<1>3. ToSet(i) = {Idle} /\ IsInjective(i)
  BY <1>1, SingletonRange
<1>4. SwtmrTask # Null => ToSet(s) = {SwtmrTask} /\ IsInjective(s)
  BY <1>1, SingletonRange
<1> HIDE DEF e, i, s
<1>5. list = [h \in Head_ |-> IF h = Free THEN TcbOrder
                             ELSE IF h = Lowest THEN i
                             ELSE IF h = 0 /\ SwtmrTask # Null THEN s ELSE e]
  BY DEF Init, e, i, s
<1>6. \A h \in Head_ : IsInjective(list[h])
  BY <1>1, <1>2, <1>3, <1>4, <1>5
<1>7. ASSUME NEW t \in Task
      PROVE  Fits(status[t], prio[t], On(list, t), t \in ToSet(timerQ), pc[t], Grown(t))
  <2>1. On(list, t) = IF t = Idle THEN {Lowest} ELSE IF t = SwtmrTask THEN {0} ELSE {Free}
    <3>1. \A h \in Head_ : t \in ToSet(list[h]) <=>
            \/ h = Free /\ t \notin {Idle, SwtmrTask}
            \/ h = Lowest /\ t = Idle
            \/ h = 0 /\ t = SwtmrTask
      BY <1>1, <1>2, <1>3, <1>4, <1>5, Heads
    <3> QED  BY <1>1, <3>1, Heads DEF On
  <2>2. /\ status[t] = IF t = Idle THEN {"READY"}
                       ELSE IF t = SwtmrTask THEN {"READY", "DETACHED"} ELSE {"UNUSED"}
        /\ prio[t] = IF t = Idle THEN Lowest ELSE 0
    BY DEF Init
  <2>3. t \notin ToSet(timerQ) /\ Grown(t)
    BY <1>1, <1>2 DEF Init, Grown
  <2> QED  BY <1>1, <2>1, <2>2, <2>3, Heads DEF Fits, Waits
<1>8. CpuFits /\ NewbornFits /\ ScanFits
  BY <1>1 DEF Init, CpuFits, NewbornFits, ScanFits, Blocks, Idling
<1> QED  BY <1>6, <1>7, <1>8 DEF ListInv, TasksFit

\* The agreement of lists and flags is an invariant of the kernel without time slices,
\* until it follows a null link.
THEOREM ListsKept ==
  ASSUME Slice = 0
  PROVE  Spec => [](TypeInv /\ (~halt => ListInv /\ DelayInv))
<1> DEFINE Inv == TypeInv /\ (~halt => ListInv /\ DelayInv)
<1>1. Init => ListInv
  BY ListInit
<1>2. Inv /\ [Next]_vars => Inv'
  <2> SUFFICES ASSUME Inv, [Next]_vars PROVE Inv'
    OBVIOUS
  <2>1. TypeInv'
    BY TypeStep
  <2>2. CASE UNCHANGED vars
    <3>1. ListInv' = ListInv /\ DelayInv' = DelayInv /\ halt' = halt
      BY <2>2 DEF vars, taskVars, cpuVars, ListInv, TasksFit, CpuFits, NewbornFits, ScanFits, On,
         Grown, DelayInv, Ordered
    <3> QED  BY <2>1, <3>1
  <2>3. CASE Next /\ ~halt'
    <3>1. ListInv /\ DelayInv
      BY <2>3, TimerCases
    <3>2. DelayInv' /\ TasksFit'
      BY <2>3, <3>1, DelayStep, FitsStep
    <3>3. CpuFits' /\ NewbornFits' /\ ScanFits'
      BY <2>1, <2>3, <3>1, <3>2, CpuStep, ScanStep
    <3> QED  BY <2>1, <3>2, <3>3 DEF ListInv
  <2> QED  BY <2>1, <2>2, <2>3
<1>3. Init => TypeInv /\ DelayInv
  BY TypeInit, DelayInit
<1> QED  BY <1>1, <1>2, <1>3, PTL DEF Spec

\* What the flags tell of one task, in terms of the lists themselves.
LEMMA ListsAgree ==
  ASSUME TypeInv, ListInv
  PROVE  /\ Single(list) /\ "READY" \in status[Idle]
         /\ \A t \in Task :
              /\ "READY" \in status[t] <=> \E p \in Prio : t \in ToSet(list[p])
              /\ "READY" \in status[t] => t \in ToSet(list[prio[t]])
              /\ t \in ToSet(list[Free]) \cup ToSet(list[Recycle]) => "UNUSED" \in status[t]
              /\ InCreation(t) # {} => status[t] = {"UNUSED"} /\ ~Linked(list, t)
              /\ \A u, v \in InCreation(t) : u = v
              /\ "UNUSED" \in status[t] =>
                   \/ t \in ToSet(list[Free]) \cup ToSet(list[Recycle])
                   \/ InCreation(t) # {}
                   \/ "DeleteCreator" \in Permits /\ ~Linked(list, t)
              /\ Waiting(t) # {} <=> \E o \in Obj : t \in ToSet(list[o])
              /\ t \in ToSet(timerQ) <=>
                   "DELAY" \in status[t] \/ ("TIMEOUT" \in status[t] /\ Waiting(t) # {})
              /\ Waiting(t) # {} => "READY" \notin status[t]
<1>1. Single(list)
  BY DEF ListInv, TasksFit, Fits, Single, On
<1>2. ASSUME NEW t \in Task
      PROVE  /\ "READY" \in status[t] <=> \E p \in Prio : t \in ToSet(list[p])
             /\ "READY" \in status[t] => t \in ToSet(list[prio[t]])
             /\ t \in ToSet(list[Free]) \cup ToSet(list[Recycle]) => "UNUSED" \in status[t]
             /\ InCreation(t) # {} => status[t] = {"UNUSED"} /\ ~Linked(list, t)
             /\ \A u, v \in InCreation(t) : u = v
             /\ "UNUSED" \in status[t] =>
                  \/ t \in ToSet(list[Free]) \cup ToSet(list[Recycle])
                  \/ InCreation(t) # {}
                  \/ "DeleteCreator" \in Permits /\ ~Linked(list, t)
             /\ Waiting(t) # {} <=> \E o \in Obj : t \in ToSet(list[o])
             /\ t \in ToSet(timerQ) <=>
                  "DELAY" \in status[t] \/ ("TIMEOUT" \in status[t] /\ Waiting(t) # {})
             /\ Waiting(t) # {} => "READY" \notin status[t]
  <2>1. /\ Fits(status[t], prio[t], On(list, t), t \in ToSet(timerQ), pc[t], Grown(t))
        /\ Waiting(t) = status[t] \cap Waits
        /\ \A h : h \in On(list, t) <=> h \in Head_ /\ t \in ToSet(list[h])
    BY DEF ListInv, TasksFit, On, Waiting, Waits
  <2>2. "READY" \in status[t] <=> \E p \in Prio : t \in ToSet(list[p])
    BY <2>1, Heads DEF Fits
  <2>3. "READY" \in status[t] => On(list, t) = {prio[t]}
    BY <2>1, OnlyOn DEF On
  <2>4. t \in ToSet(list[Free]) \cup ToSet(list[Recycle]) => "UNUSED" \in status[t]
    BY <2>1, Heads DEF Fits
  <2>4a. ASSUME NEW u \in Task, newborn[u] = t
         PROVE  /\ pc[u] = "alloc" => status[t] = {"UNUSED"}
                /\ "UNUSED" \in status[t] => pc[u] = "alloc"
                /\ ~Linked(list, t) /\ \A v \in Task : newborn[v] = t => u = v
    <3>1. newborn[u] # Null
      BY <2>4a, Heads
    <3>2. On(list, t) = {} /\ \A v \in Task : newborn[v] = t => u = v
      BY <2>4a, <3>1, NewbornFree DEF ListInv
    <3>3. Forms(pc[u], status[t])
      BY <2>4a, <3>1 DEF ListInv, NewbornFits
    <3> QED  BY <3>2, <3>3, ListFacts DEF Forms
  <2>4b. /\ InCreation(t) # {} => status[t] = {"UNUSED"} /\ ~Linked(list, t)
         /\ \A u, v \in InCreation(t) : u = v
    BY <2>4a DEF InCreation
  <2>4c. ASSUME "UNUSED" \in status[t], t \notin ToSet(list[Free]) \cup ToSet(list[Recycle]),
                InCreation(t) = {}
         PROVE  "DeleteCreator" \in Permits /\ ~Linked(list, t)
    <3>1. Grown(t)
      BY <2>4a, <2>4c DEF InCreation, Grown
    <3>2. On(list, t) \cap {Free, Recycle} = {}
      BY <2>1, <2>4c
    <3>3. On(list, t) = {}
      <4>1. On(list, t) \cap Prio = {} /\ On(list, t) \cap Obj = {}
        BY <2>1, <2>4c DEF Fits, Waits, Kind
      <4> QED  BY <3>2, <4>1 DEF On, Head_
    <3> QED  BY <2>1, <2>4c, <3>1, <3>2, <3>3, ListFacts DEF Fits
  <2>5. Waiting(t) # {} <=> \E o \in Obj : t \in ToSet(list[o])
    <3>1. \A o : status[t] \cap Waits = {Kind(o)} => Waiting(t) # {}
      BY <2>1
    <3> QED  BY <2>1, <3>1, Heads DEF Fits
  <2>6. Waiting(t) # {} => "READY" \notin status[t]
    BY <2>1, <2>3, <2>5, Heads DEF Fits
  <2>7. t \in ToSet(timerQ) <=>
          "DELAY" \in status[t] \/ ("TIMEOUT" \in status[t] /\ Waiting(t) # {})
    BY <2>1 DEF Fits
  <2> QED  BY <2>1, <2>2, <2>3, <2>4, <2>4b, <2>4c, <2>5, <2>6, <2>7
<1> QED  BY <1>1, <1>2 DEF TypeInv, IdleInv

\* Without time slices every control block is on the one list its flags tell of, until
\* the kernel follows a null link: so LOS_ListDelete in LOS_TaskSuspend, LOS_TaskDelete,
\* LOS_TaskPriSet and the wake-ups takes the task off the list its caller means.  A block
\* that a preempted LOS_TaskCreateOnly has taken and not filled in (los_task.c 508 to 532)
\* is unused, on no list and nobody else's, and lost only if its creator is deleted.
THEOREM ListsHold ==
  ASSUME Slice = 0
  PROVE  Spec => []ListsConsistent
<1>1. TypeInv /\ (~halt => ListInv /\ DelayInv) => ListsConsistent
  BY ListsAgree DEF ListsConsistent
<1> QED  BY <1>1, ListsKept, PTL

\* Without time slices a task is on the list of an object exactly when it waits, and on
\* the delay list exactly when the tick has to wake it.
THEOREM WaitsHold ==
  ASSUME Slice = 0
  PROVE  Spec => []WaitConsistent
<1>1. TypeInv /\ (~halt => ListInv /\ DelayInv) => WaitConsistent
  BY ListsAgree DEF WaitConsistent
<1> QED  BY <1>1, ListsKept, PTL
-----------------------------------------------------------------------------
(* Blocking calls.  Between the critical section that blocks a task and the *)
(* end of its call, what the call will tell its caller is in the flags of   *)
(* the task; these lemmas say who touches them.                             *)

InCall == {"wait", "woken"}

\* No task is deleted in the middle of a call.
CallInv == \A t \in Task : pc[t] \in InCall => "UNUSED" \notin status[t]

\* The flags that a blocking call goes by.
Sig == {"UNUSED", "TIMEOUT", "PEND", "PEND_QUEUE"}

\* The step leaves the blocking call of u as it was, or ends the wait whose limit expired,
\* or u is in no such call afterwards.
Carries(u) ==
  pc'[u] \in InCall =>
    /\ pc[u] \in InCall
    /\ "UNUSED" \notin status'[u]
    /\ "TIMEOUT" \in status'[u] <=> "TIMEOUT" \in status[u]
    /\ \/ status'[u] \cap Waits = status[u] \cap Waits
       \/ status'[u] \cap Waits = {} /\ "TIMEOUT" \in status[u]

LEMMA SigCarries ==
  ASSUME CallInv, NEW u \in Task, pc'[u] \in InCall => pc[u] \in InCall,
         pc'[u] \in InCall => status'[u] \cap Sig = status[u] \cap Sig
  PROVE  Carries(u)
BY DEF CallInv, Carries, Sig, Waits

\* LOS_Schedule takes no task into a blocking call.
LEMMA ScheduleCalls ==
  ASSUME TypeInv, NEW c, Schedule(c) \/ NoSchedule, NEW u \in Task, pc'[u] \in InCall
  PROVE  pc[u] \in InCall /\ (Schedule("task") => u # run)
BY DEF Schedule, NoSchedule, TypeInv, TypeOK, InCall

\* A task whose wait the tick ends had a limit, and waits for nothing afterwards.
LEMMA ExpireCarries ==
  ASSUME TypeInv, ListInv, CallInv, ScanExpire, ~halt', NEW u \in Task
  PROVE  Carries(u)
<1> DEFINE t == scan.task
           done == IF "PEND" \in scan.was THEN "PEND"
                   ELSE IF "PEND_QUEUE" \in scan.was THEN "PEND_QUEUE" ELSE "DELAY"
<1>1. /\ status \in [Task -> SUBSET Flag] /\ timerQ \in Seq(Task) /\ pc' = pc
      /\ t \in ToSet(timerQ) /\ scan.at = "expire"
      /\ \E more \in SUBSET {"READY"} : status' = [status EXCEPT ![t] = (@ \ {done}) \cup more]
  BY DEF ScanExpire, cpuVars, TypeInv, TypeOK
<1>2. t \in Task
  BY <1>1, InToSet
<1>3. scan.was \cap Blocks = status[t] \cap Blocks
  BY <1>1 DEF ListInv, ScanFits
<1>4. Fits(status[t], prio[t], On(list, t), TRUE, pc[t], Grown(t))
  BY <1>1, <1>2 DEF ListInv, TasksFit
<1>5. \/ status[t] \cap Blocks = {"DELAY"}
      \/ status[t] \cap Waits = {done} /\ "TIMEOUT" \in status[t]
  <2>1. CASE status[t] \cap Waits = {}
    BY <1>4, <2>1 DEF Fits, Waits, Blocks
  <2>2. CASE status[t] \cap Waits # {}
    <3>1. PICK o \in On(list, t) \cap Obj : status[t] \cap Waits = {Kind(o)}
      BY <1>4, <2>2 DEF Fits
    <3>2. Kind(o) = done
      BY <1>3, <3>1 DEF Kind, Waits, Blocks
    <3>3. "TIMEOUT" \in status[t]
      BY <1>4, <2>2 DEF Fits
    <3> QED  BY <3>1, <3>2, <3>3
  <2> QED  BY <2>1, <2>2
<1>6. CASE u # t
  BY <1>1, <1>6, SigCarries
<1>7. CASE u = t
  <2>1. PICK more \in SUBSET {"READY"} : status'[t] = (status[t] \ {done}) \cup more
    BY <1>1, <1>2
  <2>2. done \notin {"UNUSED", "TIMEOUT"}
    OBVIOUS
  <2> HIDE DEF done, t
  <2>3. "TIMEOUT" \in status'[t] <=> "TIMEOUT" \in status[t]
    BY <2>1, <2>2
  <2>4. pc'[t] \in InCall => "UNUSED" \notin status'[t]
    BY <1>1, <1>2, <2>1, <2>2 DEF CallInv
  <2>5. \/ status'[t] \cap Waits = status[t] \cap Waits
        \/ status'[t] \cap Waits = {} /\ "TIMEOUT" \in status[t]
    BY <1>5, <2>1 DEF Waits, Blocks
  <2> QED  BY <1>1, <1>7, <2>3, <2>4, <2>5 DEF Carries
<1> QED  BY <1>6, <1>7

\* Apart from the calls that block, wake and return, no step touches the blocking call of
\* a task, except that the tick ends waits with a limit and a deletion ends the call.
LEMMA KernelCarries ==
  ASSUME TypeInv, ListInv, CallInv, KernelStep, ~WaitReturn, ~halt', Slice = 0, NEW u \in Task
  PROVE  Carries(u)
<1> USE DEF taskVars, cpuVars
<1>0. /\ status \in [Task -> SUBSET Flag] /\ pc \in [Task -> Place]
      /\ {"user", "alloc", "create", "switch", "sched", "finish", "unlock", "exit", "dead"} \cap InCall = {}
      /\ "wait" \in InCall /\ "woken" \in InCall
  BY DEF TypeInv, TypeOK, InCall
<1>1. CASE CreateStep
  <2>1. CASE TaskCreateReady
    <3>1. /\ pc'[u] \in InCall => pc[u] \in InCall
          /\ status'[u] \cap Sig = status[u] \cap Sig
      <4>1. TaskRuns("create") /\ run \in Task
        BY <2>1 DEF TaskCreateReady, TaskRuns
      <4> DEFINE t == newborn[run]
      <4>2. /\ status' = [status EXCEPT ![t] = (@ \ {"SUSPEND"}) \cup {"READY"}]
            /\ \E at \in {"switch", "user"} : pc' = [pc EXCEPT ![run] = at]
        BY <2>1 DEF TaskCreateReady
      <4> QED  BY <1>0, <4>1, <4>2 DEF Sig
    <3> QED  BY <3>1, SigCarries
  <2>2. CASE TaskCreateTake \/ TaskCreateNoMemory \/ \E c \in Context : CreateNothing(c)
    <3>1. status' = status /\ (pc'[u] \in InCall => pc[u] \in InCall)
      BY <1>0, <2>2 DEF TaskCreateTake, TaskCreateNoMemory, CreateNothing
    <3> QED  BY <3>1, SigCarries
  <2>3. ASSUME NEW p \in AppPrio, NEW flags \in Attr, TaskCreateFill(p, flags) PROVE Carries(u)
    <3> DEFINE t == newborn[run]
    <3>1. /\ t \in Task /\ "UNUSED" \in status[t]
          /\ status' = [status EXCEPT ![t] = {"SUSPEND"} \cup flags]
          /\ \E at \in {"user", "create"} : pc' = [pc EXCEPT ![run] = at]
      BY <2>3, FormedFits DEF TaskCreateFill
    <3>2. /\ pc'[u] \in InCall => pc[u] \in InCall
          /\ pc[t] \notin InCall /\ \A v \in Task \ {t} : status'[v] = status[v]
      BY <1>0, <3>1 DEF CallInv
    <3> QED  BY <3>2, SigCarries
  <2>4. ASSUME NEW c \in Context, NEW t \in Task, NEW p \in AppPrio, NEW flags \in Attr,
               LOS_TaskCreateOnly(c, t, p, flags) \/ LOS_TaskCreate(c, t, p, flags)
        PROVE  Carries(u)
    <3>1. PICK only \in BOOLEAN : CreateAtOnce(c, t, p, flags, only)
      BY <2>4 DEF LOS_TaskCreateOnly, LOS_TaskCreate
    <3>2. pc[t] \notin InCall /\ \A v \in Task \ {t} : status'[v] = status[v]
      BY <1>0, <3>1, TakenFits DEF CallInv, CreateAtOnce, ListInv
    <3>3. Schedule(c) \/ NoSchedule
      BY <2>4 DEF LOS_TaskCreateOnly, LOS_TaskCreate
    <3> QED  BY <3>2, <3>3, ScheduleCalls, SigCarries
  <2> QED  BY <1>1, <2>1, <2>2, <2>3, <2>4 DEF CreateStep
<1>2. CASE ControlStep
  <2>1. ASSUME NEW c \in Context, NEW t \in Task,
               \/ LOS_TaskResume(c, t) \/ LOS_TaskSuspend(c, t)
               \/ \E p \in AppPrio : LOS_TaskPriSet(c, t, p)
        PROVE  Carries(u)
    <3>1. Schedule(c) \/ NoSchedule
      BY <2>1 DEF LOS_TaskResume, LOS_TaskSuspend, LOS_TaskPriSet
    <3>2. \/ status' = status
          \/ status' = [status EXCEPT ![t] = @ \ {"SUSPEND"}]
          \/ status' = [status EXCEPT ![t] = (@ \ {"SUSPEND"}) \cup {"READY"}]
          \/ status' = [status EXCEPT ![t] = (@ \ {"READY"}) \cup {"SUSPEND"}]
      BY <2>1 DEF LOS_TaskResume, LOS_TaskSuspend, LOS_TaskPriSet
    <3>3. status'[u] \cap Sig = status[u] \cap Sig
      BY <1>0, <3>2 DEF Sig
    <3> QED  BY <3>1, <3>3, ScheduleCalls, SigCarries
  <2>2. ASSUME NEW c \in Context, NEW t \in Task, LOS_TaskDelete(c, t) PROVE Carries(u)
    <3>1. pc' = [pc EXCEPT ![t] = "user"] /\ status' = [status EXCEPT ![t] = {"UNUSED"}]
      BY <2>2 DEF LOS_TaskDelete
    <3> QED  BY <1>0, <3>1, SigCarries
  <2>3. CASE TaskEntryDetached
    <3>1. pc' = pc /\ pc[run] = "user" /\ status' = [status EXCEPT ![run] = {"UNUSED"}]
      BY <2>3 DEF TaskEntryDetached, Returns, TaskRuns
    <3> QED  BY <1>0, <3>1, SigCarries
  <2>4. CASE TaskEntryJoinable \/ TaskEntryUnlock \/ osTaskExit \/ LOS_TaskLock \/ LOS_TaskUnlock
    <3>1. status' = status /\ (pc'[u] \in InCall => pc[u] \in InCall)
      <4>1. CASE TaskEntryJoinable \/ TaskEntryUnlock \/ osTaskExit \/ LOS_TaskLock
        BY <1>0, <4>1 DEF TaskEntryJoinable, TaskEntryUnlock, osTaskExit, LOS_TaskLock
      <4>2. CASE LOS_TaskUnlock
        BY <4>2, ScheduleCalls DEF LOS_TaskUnlock
      <4> QED  BY <2>4, <4>1, <4>2
    <3> QED  BY <3>1, SigCarries
  <2>5. CASE TaskEntryFinish
    <3>1. status' = [status EXCEPT ![run] = @ \ {"READY"}] /\ pc' = [pc EXCEPT ![run] = "unlock"]
      BY <2>5 DEF TaskEntryFinish
    <3> QED  BY <1>0, <3>1, SigCarries DEF Sig
  <2>6. ASSUME NEW n \in Timeouts, LOS_TaskDelay(n) PROVE Carries(u)
    <3>1. status' = [status EXCEPT ![run] = (@ \ {"READY"}) \cup {"DELAY"}] /\ Schedule("task")
      BY <2>6 DEF LOS_TaskDelay
    <3>2. status'[u] \cap Sig = status[u] \cap Sig
      BY <1>0, <3>1 DEF Sig
    <3> QED  BY <3>1, <3>2, ScheduleCalls, SigCarries
  <2>7. CASE LOS_TaskYield
    <3>1. status' = [status EXCEPT ![run] = @ \cup {"READY"}] /\ Schedule("task")
      BY <2>7 DEF LOS_TaskYield, Rotate
    <3>2. status'[u] \cap Sig = status[u] \cap Sig
      BY <1>0, <3>1 DEF Sig
    <3> QED  BY <3>1, <3>2, ScheduleCalls, SigCarries
  <2> QED  BY <1>2, <2>1, <2>2, <2>3, <2>4, <2>5, <2>6, <2>7 DEF ControlStep
<1>3. CASE SwitchStep
  <2>1. status' = status
    BY <1>3 DEF SwitchStep, TaskSchedule, TaskSwitch, PendSV
  <2>2. pc'[u] \in InCall => pc[u] \in InCall
    <3>1. ASSUME NEW from \in {"sched", "wait", "exit"}, TaskSchedule(from)
          PROVE  pc'[u] \in InCall => pc[u] \in InCall
      BY <1>0, <3>1 DEF TaskSchedule, TaskRuns, AfterSchedule
    <3>2. CASE TaskSwitch \/ PendSV
      BY <1>0, <3>2 DEF TaskSwitch, PendSV
    <3> QED  BY <1>3, <3>1, <3>2 DEF SwitchStep
  <2> QED  BY <2>1, <2>2, SigCarries
<1>4. CASE TickStep
  <2>1. CASE Tick \/ ScanNext \/ ScanEnd
    <3>1. status' = status /\ pc' = pc
      BY <2>1 DEF Tick, ScanNext, ScanEnd, NoSchedule, Schedule
    <3> QED  BY <3>1, SigCarries
  <2>2. ~TickYield
    BY DEF TickYield
  <2> QED  BY <1>4, <2>1, <2>2, ExpireCarries DEF TickStep
<1>5. CASE LOS_Start
  BY <1>5, SigCarries DEF LOS_Start
<1> QED  BY <1>1, <1>2, <1>3, <1>4, <1>5 DEF KernelStep

\* After the kernel followed a null link it executes nothing; and its steps are steps of
\* Task.
LEMMA KernelLive ==
  /\ KernelStep => ~halt /\ Next
  /\ \A c, name : MayCall(c, name) => ~halt
<1>1. LOS_Start \/ SwitchStep \/ TickStep \/ WaitReturn => ~halt
  BY DEF LOS_Start, SwitchStep, TaskSchedule, TaskSwitch, PendSV, TaskRuns, TickStep, Tick,
         TickYield, TickBegin, ScanNext, ScanExpire, ScanEnd, WaitReturn
<1>2. \A c, name : MayCall(c, name) => ~halt
  BY DEF MayCall, TaskRuns
<1>3. CreateStep => ~halt
  BY <1>2 DEF CreateStep, TaskCreateReady, TaskRuns, TaskCreateNoMemory, TaskCreateTake,
              TaskCreateFill, CreateNothing, LOS_TaskCreateOnly, LOS_TaskCreate, CreateAtOnce
<1>4. ControlStep => ~halt
  BY <1>2 DEF ControlStep, LOS_TaskResume, LOS_TaskSuspend, LOS_TaskDelete, LOS_TaskPriSet,
              TaskEntryDetached, TaskEntryJoinable, Returns, TaskEntryFinish,
              TaskEntryUnlock, osTaskExit, LOS_TaskDelay, LOS_TaskYield, LOS_TaskLock,
              LOS_TaskUnlock, TaskRuns
<1> QED  BY <1>1, <1>2, <1>3, <1>4 DEF KernelStep, Next, WaitStep

\* A blocking call lasts until it returns or its task is deleted, and begins nowhere but in
\* Pend.
LEMMA KernelCalls ==
  ASSUME TypeInv, KernelStep, ~WaitReturn, NEW u \in Task
  PROVE  (pc'[u] \in InCall <=> pc[u] \in InCall) \/ \E c \in Context : LOS_TaskDelete(c, u)
<1> USE DEF taskVars, cpuVars
<1> DEFINE Lasts == pc'[u] \in InCall <=> pc[u] \in InCall
<1>0. /\ pc \in [Task -> Place]
      /\ {"user", "alloc", "create", "switch", "sched", "finish", "unlock", "exit", "dead"} \cap InCall = {}
      /\ "wait" \in InCall /\ "woken" \in InCall
  BY DEF TypeInv, TypeOK, InCall
<1>1. ASSUME NEW at, TaskRuns(at) PROVE run \in Task /\ pc[run] = at
  BY <1>1 DEF TaskRuns
<1>2. ASSUME NEW c, NEW name, MayCall(c, name), Schedule(c) \/ NoSchedule PROVE Lasts
  <2>1. c = "task" => run \in Task /\ pc[run] = "user"
    BY <1>1, <1>2 DEF MayCall
  <2> QED  BY <1>0, <1>2, <2>1 DEF Schedule, NoSchedule
<1>3. CASE CreateStep
  <2>1. CASE \/ TaskCreateTake \/ TaskCreateNoMemory \/ TaskCreateReady
             \/ \E p \in AppPrio, flags \in Attr : TaskCreateFill(p, flags)
    <3>1. /\ run \in Task /\ pc[run] \in {"user", "alloc", "create"}
          /\ \E at \in {"user", "alloc", "create", "switch"} : pc' = [pc EXCEPT ![run] = at]
      BY <1>1, <2>1 DEF TaskCreateTake, TaskCreateNoMemory, TaskCreateReady, TaskCreateFill, MayCall
    <3> QED  BY <1>0, <3>1
  <2>2. ASSUME NEW c \in Context, NEW t \in Task, NEW p \in AppPrio, NEW flags \in Attr,
               LOS_TaskCreateOnly(c, t, p, flags) \/ LOS_TaskCreate(c, t, p, flags)
        PROVE  Lasts
    BY <1>2, <2>2 DEF LOS_TaskCreateOnly, LOS_TaskCreate, CreateAtOnce
  <2>3. CASE \E c \in Context : CreateNothing(c)
    BY <2>3 DEF CreateNothing
  <2> QED  BY <1>3, <2>1, <2>2, <2>3 DEF CreateStep
<1>4. CASE ControlStep
  <2>1. ASSUME NEW c \in Context, NEW t \in Task, LOS_TaskDelete(c, t) PROVE Lasts \/ t = u
    BY <1>0, <2>1 DEF LOS_TaskDelete
  <2>2. ASSUME NEW c \in Context, NEW t \in Task,
               \/ LOS_TaskResume(c, t) \/ LOS_TaskSuspend(c, t)
               \/ \E p \in AppPrio : LOS_TaskPriSet(c, t, p)
        PROVE  Lasts
    <3>1. \E name : MayCall(c, name) /\ (Schedule(c) \/ NoSchedule)
      BY <2>2 DEF LOS_TaskResume, LOS_TaskSuspend, LOS_TaskPriSet
    <3> QED  BY <1>2, <3>1
  <2>3. CASE \/ LOS_TaskYield \/ LOS_TaskLock \/ LOS_TaskUnlock
             \/ \E n \in Timeouts : LOS_TaskDelay(n)
    <3>1. \/ pc' = pc
          \/ \E name : MayCall("task", name) /\ (Schedule("task") \/ NoSchedule)
      BY <2>3 DEF LOS_TaskYield, LOS_TaskLock, LOS_TaskUnlock, LOS_TaskDelay
    <3> QED  BY <1>2, <3>1
  <2>4. CASE \/ TaskEntryDetached \/ TaskEntryJoinable \/ TaskEntryFinish
             \/ TaskEntryUnlock \/ osTaskExit
    BY <1>0, <1>1, <2>4 DEF TaskEntryDetached, TaskEntryJoinable, TaskEntryFinish,
       TaskEntryUnlock, osTaskExit, Returns
  <2> QED  BY <1>4, <2>1, <2>2, <2>3, <2>4 DEF ControlStep
<1>5. CASE SwitchStep
  <2>1. ASSUME NEW from \in {"sched", "wait", "exit"}, TaskSchedule(from)
        PROVE  Lasts
    BY <1>0, <2>1 DEF TaskSchedule, TaskRuns, AfterSchedule, InCall
  <2>2. CASE TaskSwitch \/ PendSV
    BY <1>0, <1>1, <2>2 DEF TaskSwitch, PendSV
  <2> QED  BY <1>5, <2>1, <2>2 DEF SwitchStep
<1>6. CASE TickStep
  BY <1>6 DEF TickStep, Tick, TickYield, ScanNext, ScanExpire, ScanEnd, NoSchedule, Schedule
<1>7. CASE LOS_Start
  BY <1>7 DEF LOS_Start
<1> QED  BY <1>3, <1>4, <1>5, <1>6, <1>7 DEF KernelStep

\* Unless tasks are deleted, a blocking call lasts until it returns.
LEMMA KernelStays ==
  ASSUME TypeInv, KernelStep, ~WaitReturn, "Delete" \notin Calls \cup IsrCalls,
         NEW u \in Task, pc[u] \in InCall
  PROVE  pc'[u] \in InCall
<1>1. \A c : ~LOS_TaskDelete(c, u)
  BY DEF LOS_TaskDelete, MayCall
<1> QED  BY <1>1, KernelCalls

\* A task that is deleted in its call waits for no object any more.
LEMMA DeleteLeaves ==
  ASSUME TypeInv, ListInv, NEW c \in Context, NEW t \in Task, LOS_TaskDelete(c, t),
         NEW o \in Obj
  PROVE  t \notin ToSet(list'[o])
<1>1. /\ Distinct(list) /\ list \in Lists /\ o \in Head_
      /\ Free \in Head_ /\ Recycle \in Head_ /\ o # Free /\ o # Recycle
  BY ListFacts, Heads DEF ListInv
<1>2. \/ list' = AddHead(Detach(t), Free, t)
      \/ list' = AddTail(Detach(t), Recycle, t)
  BY DEF LOS_TaskDelete, RetireRun
<1>3. Detach(t) \in Lists /\ t \notin ToSet(Detach(t)[o])
  <2>1. CASE Detaches(t)
    <3>1. Distinct(Unlink(list, t)) /\ On(Unlink(list, t), t) = {}
      BY <1>1, OnUnlink
    <3> QED  BY <1>1, <2>1, <3>1 DEF Detach, Distinct, On
  <2>2. CASE ~Detaches(t)
    <3>1. status[t] \cap Waits = {}
      BY <2>2 DEF Detaches, Waiting, Waits
    <3>2. Fits(status[t], prio[t], On(list, t), t \in ToSet(timerQ), pc[t], Grown(t))
      BY DEF ListInv, TasksFit
    <3>3. o \notin On(list, t)
      BY <3>1, <3>2 DEF Fits
    <3> QED  BY <1>1, <2>2, <3>3 DEF Detach, On
  <2> QED  BY <2>1, <2>2
<1> QED  BY <1>1, <1>2, <1>3, AddHeadType, AddTailType

\* Who executes the end of a call waits for nothing.
LEMMA WokenCalm ==
  ASSUME TypeInv, ListInv, TaskRuns("woken")
  PROVE  /\ run \in Task /\ pc[run] = "woken" /\ status[run] \cap Waits = {}
         /\ \A o \in Obj : run \notin ToSet(list[o])
<1>1. run \in Task /\ ~pendsv /\ pc[run] = "woken"
  BY DEF TaskRuns
<1>2. status[run] \cap Waits = {}
  BY <1>1 DEF ListInv, CpuFits, Waits, Blocks
<1> QED  BY <1>1, <1>2, ListsAgree DEF Waiting, Waits

\* The task that blocks is in a call and waits; no other call changes.
LEMMA PendCarries ==
  ASSUME TypeInv, ListInv, CallInv, NEW L, NEW o \in Obj, NEW n, NEW i, Block(L, o, n, i)
  PROVE  /\ run \in Task /\ pc[run] = "user" /\ pc'[run] = "wait"
         /\ "UNUSED" \notin status'[run] /\ status'[run] \cap Waits # {}
         /\ \A u \in Task \ {run} : Carries(u) /\ pc'[u] = pc[u]
<1>1. /\ run \in Task /\ pc[run] = "user" /\ "UNUSED" \notin status[run]
      /\ pc \in [Task -> Place] /\ status \in [Task -> SUBSET Flag]
  BY DEF Block, MayCall, TaskRuns, TypeInv, TypeOK, ListInv, CpuFits
<1>2. /\ pc' = [pc EXCEPT ![run] = "wait"]
      /\ \E more \in SUBSET {"TIMEOUT"} :
           status' = [status EXCEPT ![run] = (@ \ {"READY"}) \cup {Kind(o)} \cup more]
  <2>1. \/ status' = [status EXCEPT ![run] = (@ \ {"READY"}) \cup {Kind(o)} \cup {}]
        \/ status' = [status EXCEPT ![run] = (@ \ {"READY"}) \cup {Kind(o)} \cup {"TIMEOUT"}]
    <3>1. \A S : S \cup {Kind(o)} \cup {} = S \cup {Kind(o)}
                 /\ S \cup {Kind(o)} \cup {"TIMEOUT"} = S \cup {Kind(o), "TIMEOUT"}
      OBVIOUS
    <3> QED  BY <3>1 DEF Block
  <2> QED  BY <2>1 DEF Block
<1>3. Kind(o) \in Waits /\ "UNUSED" \notin Waits
  BY DEF Kind, Waits
<1>4. ASSUME NEW u \in Task \ {run} PROVE Carries(u) /\ pc'[u] = pc[u]
  BY <1>1, <1>2, SigCarries
<1> QED  BY <1>1, <1>2, <1>3, <1>4

\* The task that is woken waited and now does not; no other call changes, but that of the
\* caller, which ends.
LEMMA HandCarries ==
  ASSUME TypeInv, ListInv, CallInv, NEW L, NEW c, NEW o \in Obj, Hand(L, c, o)
  PROVE  /\ Head(list[o]) \in Task /\ Head(list[o]) \in ToSet(list[o])
         /\ status[Head(list[o])] \cap Waits # {}
         /\ status'[Head(list[o])] \cap Waits = {}
         /\ "TIMEOUT" \notin status'[Head(list[o])]
         /\ pc'[Head(list[o])] \in InCall => "UNUSED" \notin status'[Head(list[o])]
         /\ \A u \in Task : IF c = "task" /\ u = run THEN pc'[u] \notin InCall ELSE pc'[u] = pc[u]
         /\ \A u \in Task \ {Head(list[o])} : Carries(u) /\ status'[u] = status[u]
<1> DEFINE t == Head(list[o])
<1>0. list \in Lists /\ status \in [Task -> SUBSET Flag] /\ o \in Head_
  BY Heads DEF TypeInv, TypeOK, Lists
<1>1. t \in Task /\ t \in ToSet(list[o])
  BY <1>0, HeadTailRange DEF Hand, Lists
<1>2. /\ \E more \in SUBSET {"READY"} :
           status' = [status EXCEPT ![t] = (@ \ {Kind(o), "TIMEOUT"}) \cup more]
      /\ Schedule(c)
  <2>1. \/ status' = [status EXCEPT ![t] = Woken(t, o)]
        \/ status' = [status EXCEPT ![t] = Woken(t, o) \cup {"READY"}]
    BY DEF Hand
  <2>2. \/ status' = [status EXCEPT ![t] = (@ \ {Kind(o), "TIMEOUT"}) \cup {}]
        \/ status' = [status EXCEPT ![t] = (@ \ {Kind(o), "TIMEOUT"}) \cup {"READY"}]
    <3>1. Woken(t, o) \cup {} = Woken(t, o)
      OBVIOUS
    <3> QED  BY <2>1, <3>1 DEF Woken
  <2> QED  BY <2>2 DEF Hand
<1> HIDE DEF t
<1>3. status[t] \cap Waits = {Kind(o)}
  <2>1. o \in On(list, t)
    BY <1>0, <1>1 DEF On
  <2> QED  BY <1>1, <2>1 DEF ListInv, TasksFit, Fits
<1>4. ASSUME NEW u \in Task
      PROVE  IF c = "task" /\ u = run THEN pc'[u] \notin InCall ELSE pc'[u] = pc[u]
  BY <1>2 DEF Schedule, TypeInv, TypeOK, InCall
<1>5. ASSUME NEW u \in Task \ {t} PROVE Carries(u) /\ status'[u] = status[u]
  BY <1>0, <1>2, <1>4, <1>5, SigCarries
<1>6. /\ status'[t] \cap Waits = {} /\ "TIMEOUT" \notin status'[t]
      /\ "UNUSED" \notin status[t] => "UNUSED" \notin status'[t]
  BY <1>0, <1>1, <1>2, <1>3 DEF Waits
<1>7. pc'[t] \in InCall => "UNUSED" \notin status'[t]
  BY <1>1, <1>4, <1>6 DEF CallInv
<1> QED  BY <1>1, <1>3, <1>4, <1>5, <1>6, <1>7 DEF t

\* The call that returns ends, and no other changes.
LEMMA ReturnCarries ==
  ASSUME TypeInv, CallInv, WaitReturn
  PROVE  /\ run \in Task /\ pc'[run] \notin InCall
         /\ \A u \in Task \ {run} : Carries(u) /\ pc'[u] = pc[u]
<1>1. /\ run \in Task /\ pc' = [pc EXCEPT ![run] = "user"] /\ pc \in [Task -> Place]
      /\ status' = [status EXCEPT ![run] = @ \ {"TIMEOUT"}] /\ status \in [Task -> SUBSET Flag]
  BY DEF WaitReturn, TaskRuns, TypeInv, TypeOK
<1> QED  BY <1>1, SigCarries DEF InCall

\* Every step keeps deleted tasks out of calls.
LEMMA CallInvStep ==
  ASSUME TypeInv, ListInv, CallInv, Next, ~halt', Slice = 0
  PROVE  CallInv'
<1> SUFFICES ASSUME NEW u \in Task, pc'[u] \in InCall PROVE "UNUSED" \notin status'[u]
  BY DEF CallInv
<1>1. CASE KernelStep /\ ~WaitReturn
  BY <1>1, KernelCarries DEF Carries
<1>2. CASE WaitReturn
  BY <1>2, ReturnCarries DEF Carries
<1>3. ASSUME NEW o \in Obj, NEW n, NEW i, Pend(o, n, i) PROVE "UNUSED" \notin status'[u]
  BY <1>3, PendCarries DEF Pend, Carries
<1>4. ASSUME NEW o \in Obj, NEW c, Hand(list, c, o) PROVE "UNUSED" \notin status'[u]
  BY <1>4, HandCarries DEF Carries
<1> QED
  BY <1>1, <1>2, <1>3, <1>4 DEF Next, KernelStep, WaitStep, Wake, Release, PassOn

\* The calls that blocking tasks are in agree with lists and flags throughout, until the
\* kernel follows a null link.
THEOREM CallsKept ==
  ASSUME Slice = 0
  PROVE  Spec => [](TypeInv /\ (~halt => ListInv /\ DelayInv /\ CallInv))
<1> DEFINE Known_ == TypeInv /\ (~halt => ListInv /\ DelayInv)
           Calls_ == ~halt => CallInv
<1>1. Init => Calls_
  BY DEF Init, CallInv, InCall
<1>2. Known_ /\ Calls_ /\ [Next]_vars => Calls_'
  <2> SUFFICES ASSUME Known_, Calls_, [Next]_vars, ~halt' PROVE CallInv'
    OBVIOUS
  <2>1. CASE UNCHANGED vars
    BY <2>1 DEF vars, taskVars, CallInv
  <2>2. CASE Next
    BY <2>2, TimerCases, CallInvStep
  <2> QED  BY <2>1, <2>2
<1>3. Spec => []Known_
  BY ListsKept
<1>4. Known_ /\ Calls_ => TypeInv /\ (~halt => ListInv /\ DelayInv /\ CallInv)
  OBVIOUS
<1> HIDE DEF Known_, Calls_
<1>5. Spec => [](Known_ /\ Calls_)
  BY <1>1, <1>2, <1>3, PTL DEF Spec
<1> QED  BY <1>4, <1>5, PTL
-----------------------------------------------------------------------------
(***************************************************************************)
(* Proofs about who gets the processor: the most urgent ready task         *)
(* executes (RunsHighest), a switch leads to a ready task                  *)
(* (SwitchesToReady), the kernel follows no null link (NoCrash), and a     *)
(* task that deleted itself keeps its stack until the switch (StackInUse). *)
(*                                                                         *)
(* All four need a kernel without time slices and handlers that suspend no *)
(* task, because the code breaks them otherwise: LOS_TaskSuspend           *)
(* reconsiders pstNewTask only for the running task, and the slice of a    *)
(* half blocked task ends with a yield on its behalf.                      *)
(*                                                                         *)
(* A task is chosen long before PendSV runs: ChoiceInv says when the       *)
(* choice is the task LOS_PriqueueTop would return now.  NoCrash rests on  *)
(* ListInv, which relates flags to lists, and on ReadyInv: the running     *)
(* task is ready but in the window in which it blocks, and a task that     *)
(* ended is never ready again.                                             *)
(***************************************************************************)

\* The tick owes no LOS_Schedule.
Settled == scan.at = "idle" \/ ~scan.need

\* A switch to pstNewTask is coming.
Switching == pendsv \/ run = Dummy \/ (run \in Task /\ pc[run] = "switch")

\* The running task executes its own code, or is about to.
Executing == run \in Task /\ ~pendsv /\ lock = 0 /\ pc[run] \in {"user", "alloc", "woken"}

ChoiceInv ==
  /\ Settled /\ Switching => new = Top(list)
  /\ Settled /\ Executing => run = Top(list)

\* Where a joinable task stands after it took itself off its ready list.
Ends == {"unlock", "exit", "dead"}

\* What the flags s of a task say when it stands at the place at.
EndsWell(s, at) ==
  /\ "SUSPEND" \in s => "READY" \notin s
  /\ at \in Ends => s \subseteq {"SUSPEND", "DETACHED"}
  /\ at = "unlock" => "SUSPEND" \notin s

\* A task that executes is ready, unless it is in the window of a call that blocks it.
RunReady ==
  run \in Task /\ ~pendsv /\ pc[run] \notin {"unlock", "exit"}
    /\ (lock = 0 => pc[run] \notin {"sched", "wait"}) => "READY" \in status[run]

FlagsFit ==
  /\ \A t \in Task : EndsWell(status[t], pc[t])
  /\ \A u \in Task : newborn[u] # Null => pc[newborn[u]] \notin Ends

ReadyInv ==
  /\ FlagsFit
  /\ RunReady
  /\ scan.at = "expire" => scan.task \in ToSet(timerQ) /\ scan.was = status[scan.task]
-----------------------------------------------------------------------------
\* LOS_PriqueueTop returns the first task of the list before which all are empty.
LEMMA TopIs ==
  ASSUME NEW L, NEW p \in Prio, L[p] # <<>>, \A q \in Prio : L[q] # <<>> => p <= q
  PROVE  Top(L) = Head(L[p])
<1> DEFINE P(r) == L[r] # <<>> /\ \A q \in Prio : L[q] # <<>> => r <= q
           c == CHOOSE r \in Prio : P(r)
<1>1. c \in Prio /\ P(c)
  <2>1. \E r \in Prio : P(r)
    OBVIOUS
  <2> QED  BY <2>1
<1>2. Prio \subseteq Nat
  BY TaskAssumption DEF Prio
<1>3. c <= p /\ p <= c
  BY <1>1
<1>4. Top(L) = Head(L[c])
  BY DEF Top
<1> HIDE DEF c
<1>5. c = p
  BY <1>1, <1>2, <1>3
<1> QED  BY <1>4, <1>5

\* There is such a list, because Idle is always ready.
LEMMA TopWhere ==
  ASSUME NEW L, GoodLists(L)
  PROVE  \E p \in Prio : /\ L[p] # <<>> /\ \A q \in Prio : L[q] # <<>> => p <= q
                         /\ Top(L) = Head(L[p])
<1> DEFINE P == {p \in Prio : L[p] # <<>>}
<1>1. Lowest \in P /\ P \in SUBSET Nat
  BY TaskAssumption, Heads DEF Prio, GoodLists, ToSet
<1> HIDE DEF P
<1>2. \E p \in P : \A q \in P : p <= q
  BY <1>1, MinExists
<1>3. PICK p \in Prio : L[p] # <<>> /\ \A q \in Prio : L[q] # <<>> => p <= q
  BY <1>2 DEF P
<1> QED  BY <1>3, TopIs

\* The choice does not depend on lists other than the ready lists.
LEMMA TopSame ==
  ASSUME NEW L, GoodLists(L), NEW M, \A p \in Prio : M[p] = L[p]
  PROVE  Top(M) = Top(L)
<1>1. PICK p \in Prio : /\ L[p] # <<>> /\ \A q \in Prio : L[q] # <<>> => p <= q
                        /\ Top(L) = Head(L[p])
  BY TopWhere
<1>2. Top(M) = Head(M[p])
  BY <1>1, TopIs
<1> QED  BY <1>1, <1>2

\* Nor on a task that is taken off its list and is not the first.
LEMMA TopUnlink ==
  ASSUME NEW L, GoodLists(L), NEW t, t # Top(L)
  PROVE  Top(Unlink(L, t)) = Top(L)
<1>1. PICK p \in Prio : /\ L[p] # <<>> /\ \A q \in Prio : L[q] # <<>> => p <= q
                        /\ Top(L) = Head(L[p])
  BY TopWhere
<1>2. \A h \in Head_ : L[h] \in Seq(Task) /\ Unlink(L, t)[h] = RemoveFirst(L[h], t)
  BY DEF GoodLists, Lists, Unlink
<1>3. RemoveFirst(L[p], t) # <<>> /\ Head(RemoveFirst(L[p], t)) = Head(L[p])
  BY <1>1, <1>2, Heads, RemoveFirstHead
<1>4. ASSUME NEW q \in Prio, RemoveFirst(L[q], t) # <<>> PROVE L[q] # <<>>
  <2>1. L[q] \in Seq(Task)
    BY <1>2, Heads
  <2> QED  BY <1>4, <2>1, RemoveFirstHead
<1>5. Top(Unlink(L, t)) = Head(Unlink(L, t)[p])
  BY <1>1, <1>2, <1>3, <1>4, Heads, TopIs
<1> QED  BY <1>1, <1>2, <1>3, <1>5, Heads

\* The task chosen is ready.
LEMMA TopReady ==
  ASSUME TypeInv, TasksFit
  PROVE  Top(list) \in Task /\ "READY" \in status[Top(list)]
<1>1. GoodLists(list)
  BY DEF TypeInv, IdleInv
<1>2. PICK t \in Task : t = Top(list) /\ \E p \in Prio : t \in ToSet(list[p])
  BY <1>1, TopType DEF GoodLists
<1>3. Fits(status[t], prio[t], On(list, t), t \in ToSet(timerQ), pc[t], Grown(t))
  BY DEF TasksFit
<1>4. On(list, t) \cap Prio # {}
  BY <1>2, Heads DEF On
<1> QED  BY <1>2, <1>3, <1>4 DEF Fits
-----------------------------------------------------------------------------
\* LOS_Schedule at the end of a call settles the choice.
LEMMA ScheduleChoice ==
  ASSUME TypeInv, NEW c \in Context, Schedule(c), run' = run,
         c = "task" => run \in Task /\ ~pendsv,
         c = "main" => run = Dummy,
         c = "isr" => lock' = lock
  PROVE  ChoiceInv'
<1>0. pc \in [Task -> Place] /\ Dummy \notin Task
  BY Heads DEF TypeInv, TypeOK
<1>1. CASE c = "task"
  BY <1>0, <1>1 DEF Schedule, ChoiceInv, Switching, Executing
<1>2. CASE c = "main"
  BY <1>0, <1>2 DEF Schedule, ChoiceInv, Switching, Executing
<1>3. CASE c = "isr"
  <2>1. new' = Top(list')
    BY <1>3 DEF Schedule
  <2>2. run # new' /\ lock = 0 => pendsv'
    BY <1>3 DEF Schedule
  <2> QED  BY <1>3, <2>1, <2>2 DEF ChoiceInv, Executing
<1> QED  BY <1>1, <1>2, <1>3 DEF Context

\* A step that changes neither the processor nor what LOS_PriqueueTop returns.
LEMMA StillChoice ==
  ASSUME ChoiceInv, UNCHANGED <<run, new, lock, pendsv, pc>>, Settled' => Settled,
         Settled' /\ (Switching \/ Executing) => Top(list') = Top(list)
  PROVE  ChoiceInv'
BY DEF ChoiceInv, Switching, Executing

\* The running task stands where it owes or has asked for a switch, or has the
\* scheduler locked.
LEMMA RunChoice ==
  ASSUME TypeInv, run \in Task, ~pendsv, UNCHANGED <<run, pendsv>>,
         NEW at, pc' = [pc EXCEPT ![run] = at],
         at \notin {"user", "alloc", "woken", "switch"} \/ (at = "user" /\ lock' > 0)
  PROVE  ChoiceInv'
<1>1. pc'[run] = at /\ Dummy \notin Task
  BY Heads DEF TypeInv, TypeOK
<1> QED  BY <1>1 DEF ChoiceInv, Switching, Executing

\* The choice stays right in every step, if no handler suspends a task and there are no
\* time slices.
LEMMA ChoiceStep ==
  ASSUME TypeInv, ListInv, ChoiceInv, Next, ~halt', TypeInv',
         Slice = 0, "Suspend" \notin IsrCalls
  PROVE  ChoiceInv'
<1> USE DEF taskVars, cpuVars
<1>0. /\ GoodLists(list) /\ TasksFit /\ pc \in [Task -> Place]
      /\ run \in Task \cup {Dummy} /\ Dummy \notin Task /\ list \in Lists
  BY Heads DEF TypeInv, TypeOK, IdleInv, ListInv, Lists
<1>t. ASSUME NEW name, MayCall("task", name) PROVE run \in Task /\ pc[run] = "user" /\ ~pendsv
  BY <1>t DEF MayCall, TaskRuns
<1>m. ASSUME NEW name, MayCall("main", name) PROVE run = Dummy /\ name \in {"Create", "Resume"}
  BY <1>m DEF MayCall, TypeInv, LockInv
<1>c. ASSUME NEW c \in Context, NEW name, MayCall(c, name), Schedule(c), run' = run,
             c = "task" \/ lock' = lock
      PROVE  ChoiceInv'
  BY <1>t, <1>m, <1>c, ScheduleChoice DEF Context
<1>u. ASSUME scan' = scan PROVE Settled' = Settled
  BY <1>u DEF Settled
<1>1. CASE TaskCreateReady
  <2>1. /\ run \in Task /\ ~pendsv /\ UNCHANGED <<run, pendsv, lock>> /\ new' = Top(list')
        /\ pc' = [pc EXCEPT ![run] = IF lock = 0 /\ run # new' THEN "switch" ELSE "user"]
    BY <1>1 DEF TaskCreateReady, TaskRuns
  <2>2. pc'[run] = IF lock = 0 /\ run # new' THEN "switch" ELSE "user"
    BY <1>0, <2>1
  <2> QED  BY <2>1, <2>2 DEF ChoiceInv, Executing
<1>p. ASSUME \A p \in Prio : list'[p] = list[p] PROVE Top(list') = Top(list)
  BY <1>0, <1>p, TopSame
<1>2. CASE TaskCreateTake \/ TaskCreateNoMemory \/ \E p \in AppPrio, flags \in Attr : TaskCreateFill(p, flags)
  <2>1. /\ run \in Task /\ ~pendsv /\ pc[run] \in {"user", "alloc"}
        /\ UNCHANGED <<run, new, lock, pendsv, scan>>
        /\ \E at \in {"user", "alloc", "create"} : pc' = [pc EXCEPT ![run] = at]
    BY <1>2, <1>t DEF TaskCreateTake, TaskCreateNoMemory, TaskCreateFill, TaskRuns
  <2>2. \A p \in Prio : list'[p] = list[p]
    <3>1. CASE TaskCreateTake
      BY <1>0, <3>1, ReclaimedType, Heads DEF TaskCreateTake, Lists
    <3>2. CASE TaskCreateNoMemory
      BY <1>0, <3>2, Heads DEF TaskCreateNoMemory, AddHead, Lists
    <3>3. CASE \E p \in AppPrio, flags \in Attr : TaskCreateFill(p, flags)
      BY <3>3 DEF TaskCreateFill
    <3> QED  BY <1>2, <3>1, <3>2, <3>3
  <2>3. Top(list') = Top(list)
    BY <1>p, <2>2
  <2> QED  BY <1>0, <1>u, <2>1, <2>3 DEF ChoiceInv, Switching, Executing
<1>3. ASSUME NEW c \in Context, NEW t \in Task, NEW p \in AppPrio, NEW flags \in Attr,
             LOS_TaskCreateOnly(c, t, p, flags)
      PROVE  ChoiceInv'
  <2>1. list' = [Reclaimed EXCEPT ![Free] = Tail(@)]
    BY <1>3 DEF LOS_TaskCreateOnly, CreateAtOnce
  <2>2. \A q \in Prio : list'[q] = list[q]
    BY <1>0, <2>1, ReclaimedType, Heads DEF Lists
  <2>3. UNCHANGED <<run, new, lock, pendsv, pc, scan>>
    BY <1>3 DEF LOS_TaskCreateOnly, CreateAtOnce, NoSchedule
  <2> QED  BY <1>p, <1>u, <2>2, <2>3, StillChoice
<1>4. ASSUME NEW c \in Context, CreateNothing(c) PROVE ChoiceInv'
  <2>1. \A p \in Prio : list'[p] = list[p]
    BY <1>0, <1>4, ReclaimedType, Heads DEF CreateNothing
  <2> QED  BY <1>4, <1>p, <1>u, <2>1, StillChoice DEF CreateNothing
<1>5. ASSUME NEW c \in Context, NEW t \in Task, NEW p \in AppPrio, NEW flags \in Attr,
             LOS_TaskCreate(c, t, p, flags)
      PROVE  ChoiceInv'
  BY <1>5, <1>c DEF LOS_TaskCreate, CreateAtOnce
<1>6. ASSUME NEW c \in Context, NEW t \in Task, LOS_TaskResume(c, t) PROVE ChoiceInv'
  <2>1. MayCall(c, "Resume") /\ UNCHANGED <<run, lock, scan>>
    BY <1>6 DEF LOS_TaskResume
  <2>2. Schedule(c) \/ (NoSchedule /\ list' = list)
    BY <1>6 DEF LOS_TaskResume
  <2>3. CASE NoSchedule /\ list' = list
    BY <1>u, <2>1, <2>3, StillChoice DEF NoSchedule
  <2> QED  BY <1>c, <2>1, <2>2, <2>3
<1>7. ASSUME NEW c \in Context, NEW t \in Task, LOS_TaskSuspend(c, t) PROVE ChoiceInv'
  <2>1. MayCall(c, "Suspend") /\ UNCHANGED <<run, lock, scan>>
    BY <1>7 DEF LOS_TaskSuspend
  <2>2. c = "task" /\ run \in Task /\ pc[run] = "user" /\ ~pendsv
    <3>1. c # "isr" /\ c # "main"
      BY <1>m, <2>1 DEF MayCall
    <3> QED  BY <1>t, <2>1, <3>1 DEF Context
  <2>3. CASE t = RunId
    BY <1>7, <1>c, <2>1, <2>3 DEF LOS_TaskSuspend
  <2>4. CASE t # RunId
    <3>1. NoSchedule /\ t # run /\ (list' = list \/ list' = Unlink(list, t))
      BY <1>0, <1>7, <2>2, <2>4 DEF LOS_TaskSuspend, RunId
    <3>2. Settled /\ Executing => Top(list') = Top(list)
      BY <1>0, <3>1, TopUnlink DEF ChoiceInv
    <3>3. ~Switching
      BY <1>0, <2>2 DEF Switching
    <3> QED  BY <1>u, <2>1, <3>1, <3>2, <3>3, StillChoice DEF NoSchedule
  <2> QED  BY <2>3, <2>4
<1>8. ASSUME NEW c \in Context, NEW t \in Task, NEW p \in AppPrio, LOS_TaskPriSet(c, t, p)
      PROVE  ChoiceInv'
  <2>1. MayCall(c, "PriSet") /\ UNCHANGED <<run, lock, scan>>
    BY <1>8 DEF LOS_TaskPriSet
  <2>2. Schedule(c) \/ (NoSchedule /\ list' = list)
    BY <1>8 DEF LOS_TaskPriSet
  <2>3. CASE NoSchedule /\ list' = list
    BY <1>u, <2>1, <2>3, StillChoice DEF NoSchedule
  <2> QED  BY <1>c, <2>1, <2>2, <2>3
<1>9. ASSUME NEW c \in Context, NEW t \in Task, LOS_TaskDelete(c, t) PROVE ChoiceInv'
  <2>1. new' = Top(list') /\ UNCHANGED <<lock, scan>>
    BY <1>9 DEF LOS_TaskDelete, RetireRun
  <2>2. CASE t = run
    <3>1. run' = Dummy
      BY <1>9, <2>2 DEF LOS_TaskDelete, RetireRun
    <3> QED  BY <1>0, <2>1, <3>1 DEF ChoiceInv, Executing
  <2>3. CASE t # run
    <3>1. /\ UNCHANGED <<run, pendsv>> /\ list' = AddHead(Detach(t), Free, t)
          /\ \A u \in Task \ {t} : pc'[u] = pc[u]
      BY <1>0, <1>9, <2>3 DEF LOS_TaskDelete
    <3>2. Detach(t) \in Lists /\ (Detach(t) = list \/ Detach(t) = Unlink(list, t))
      BY <1>0, UnlinkType DEF Detach
    <3>3. \A p \in Prio : list'[p] = Detach(t)[p]
      BY <3>1, <3>2, Heads DEF AddHead, Lists
    <3>4. t # Idle
      BY <1>9 DEF LOS_TaskDelete
    <3>5. GoodLists(Detach(t))
      BY <1>0, <3>2, <3>4, GoodUnlink
    <3>6. Top(list') = Top(Detach(t))
      BY <3>3, <3>5, TopSame
    <3>7. t # Top(list) => Top(list') = Top(list)
      BY <1>0, <3>2, <3>6, TopUnlink
    <3>8. Executing' => Executing
      BY <2>1, <2>3, <3>1 DEF Executing
    <3> QED  BY <1>u, <2>1, <2>3, <3>1, <3>7, <3>8 DEF ChoiceInv, Executing
  <2> QED  BY <2>2, <2>3
<1>10. CASE TaskEntryDetached
  BY <1>0, <1>10 DEF TaskEntryDetached, RetireRun, ChoiceInv, Executing
<1>11. CASE TaskEntryJoinable \/ TaskEntryFinish \/ TaskEntryUnlock
  <2>1. /\ run \in Task /\ ~pendsv /\ UNCHANGED <<run, pendsv>>
        /\ \E at \in {"finish", "unlock", "exit"} : pc' = [pc EXCEPT ![run] = at]
    BY <1>11 DEF TaskEntryJoinable, TaskEntryFinish, TaskEntryUnlock, Returns, TaskRuns
  <2> QED  BY <2>1, RunChoice
<1>12. CASE LOS_TaskLock
  <2>1. /\ run \in Task /\ ~pendsv /\ pc[run] = "user" /\ UNCHANGED <<run, pendsv, pc>>
        /\ lock' = lock + 1 /\ lock \in Nat
    BY <1>12, <1>t DEF LOS_TaskLock, TypeInv, TypeOK
  <2> QED  BY <1>0, <2>1 DEF ChoiceInv, Switching, Executing
<1>13. CASE LOS_TaskUnlock
  <2>1. MayCall("task", "Lock") /\ run' = run
    BY <1>13 DEF LOS_TaskUnlock
  <2>2. CASE Schedule("task")
    BY <1>c, <2>1, <2>2 DEF Context
  <2>3. CASE lock' > 0 /\ NoSchedule
    BY <1>0, <1>t, <2>1, <2>3 DEF ChoiceInv, Switching, Executing, NoSchedule
  <2> QED  BY <1>13, <2>2, <2>3 DEF LOS_TaskUnlock
<1>14. CASE WaitReturn
  <2>1. /\ run \in Task /\ pc[run] = "woken" /\ pc' = [pc EXCEPT ![run] = "user"]
        /\ UNCHANGED <<list, run, new, lock, pendsv, scan>>
    BY <1>14 DEF WaitReturn, TaskRuns
  <2> QED  BY <1>0, <1>u, <2>1 DEF ChoiceInv, Switching, Executing
<1>15. CASE LOS_TaskYield \/ \E n \in Timeouts : LOS_TaskDelay(n)
  <2>1. Schedule("task") /\ run' = run /\ \E name : MayCall("task", name)
    BY <1>15 DEF LOS_TaskYield, LOS_TaskDelay
  <2> QED  BY <1>c, <2>1 DEF Context
<1>16. ASSUME NEW o \in Obj, NEW n \in Timeouts \cup {Forever}, NEW i, Pend(o, n, i)
       PROVE  ChoiceInv'
  BY <1>16, <1>t, RunChoice DEF Pend, Block
<1>17. ASSUME NEW c \in Context, NEW o \in Obj, Wakes(c, o) PROVE ChoiceInv'
  <2>1. Schedule(c) /\ run' = run /\ lock' = lock
    BY <1>17 DEF Wakes, Hand
  <2>2. CASE MayCall(c, "Wake")
    BY <1>c, <2>1, <2>2
  <2>3. CASE c = "task" /\ TaskRuns("woken")
    BY <2>1, <2>3, ScheduleChoice DEF TaskRuns
  <2> QED  BY <1>17, <2>2, <2>3 DEF Wakes
<1>18. ASSUME NEW from \in {"sched", "wait", "exit"}, TaskSchedule(from) PROVE ChoiceInv'
  <2>1. /\ run \in Task /\ run' = run /\ lock' = lock /\ new' = Top(list')
        /\ pendsv' = (run # new' /\ lock = 0)
    BY <1>18 DEF TaskSchedule, TaskRuns
  <2> QED  BY <2>1 DEF ChoiceInv, Executing
<1>19. CASE TaskSwitch
  <2>1. /\ scan.at = "idle" /\ Switching /\ pendsv' = TRUE /\ UNCHANGED <<list, new>>
    BY <1>19 DEF TaskSwitch, TaskRuns, Switching
  <2> QED  BY <2>1 DEF ChoiceInv, Settled, Executing
<1>20. CASE PendSV \/ LOS_Start
  <2>1. scan.at = "idle" /\ Switching /\ run' = new /\ UNCHANGED <<list, new>>
    BY <1>20 DEF PendSV, LOS_Start, Switching, TypeInv, LockInv
  <2> QED  BY <2>1 DEF ChoiceInv, Settled
<1>21. CASE Tick \/ ScanNext
  <2>1. UNCHANGED <<run, new, lock, pendsv, pc, list>> /\ (Settled' => Settled)
    <3>1. CASE Tick
      BY <3>1 DEF Tick, TickBegin, NoSchedule, Settled
    <3>2. CASE ScanNext
      BY <3>2 DEF ScanNext, Settled, TypeInv, TypeOK
    <3> QED  BY <1>21, <3>1, <3>2
  <2> QED  BY <2>1, StillChoice
<1>22. CASE ScanExpire
  <2>1. PICK t \in Task : t = scan.task /\ t \in ToSet(timerQ)
    <3>1. scan.task \in ToSet(timerQ) /\ timerQ \in Seq(Task)
      BY <1>22 DEF ScanExpire, TypeInv, TypeOK
    <3> QED  BY <3>1, InToSet
  <2>2. t # Top(list)
    <3>1. Fits(status[t], prio[t], On(list, t), TRUE, pc[t], Grown(t)) /\ On(list, t) \in SUBSET Head_
      BY <1>0, <2>1 DEF TasksFit, Fits, On
    <3>2. "READY" \notin status[t]
      <4>1. CASE status[t] \cap Waits # {}
        <5>1. On(list, t) \cap Obj # {}
          BY <3>1, <4>1 DEF Fits
        <5> QED  BY <3>1, <5>1, OnlyOn, Heads DEF Fits
      <4> QED  BY <3>1, <4>1 DEF Fits
    <3> QED  BY <1>0, <3>2, TopReady
  <2>3. UNCHANGED <<run, new, lock, pendsv, pc>>
    BY <1>22 DEF ScanExpire
  <2>4. Settled' => Settled /\ (list' = list \/ list' = Unlink(list, t))
    BY <1>22, <2>1 DEF ScanExpire, Settled, Idling
  <2>5. Settled' => Top(list') = Top(list)
    BY <1>0, <2>2, <2>4, TopUnlink
  <2> QED  BY <2>3, <2>4, <2>5, StillChoice
<1>23. CASE ScanEnd
  <2>1. UNCHANGED <<list, run, lock>>
    BY <1>23 DEF ScanEnd
  <2>2. CASE Schedule("isr")
    BY <2>1, <2>2, ScheduleChoice DEF Context
  <2>3. CASE ~scan.need /\ NoSchedule
    BY <2>1, <2>3, StillChoice DEF NoSchedule, Settled
  <2> QED  BY <1>23, <2>2, <2>3 DEF ScanEnd
<1>24. ~TickYield /\ ~osTaskExit
  BY DEF TickYield, osTaskExit
<1>25. CASE CreateStep
  BY <1>25, <1>1, <1>2, <1>3, <1>4, <1>5 DEF CreateStep
<1>26. CASE ControlStep
  BY <1>26, <1>6, <1>7, <1>8, <1>9, <1>10, <1>11, <1>12, <1>13, <1>15, <1>24 DEF ControlStep
<1>27. CASE WaitStep
  BY <1>27, <1>14, <1>16, <1>17, WakesContext DEF WaitStep
<1> QED  BY <1>18, <1>19, <1>20, <1>21, <1>22, <1>23, <1>24, <1>25, <1>26, <1>27
         DEF Next, SwitchStep, TickStep
-----------------------------------------------------------------------------
\* A task that executes a call of its own is ready, and so on the list of its priority.
LEMMA CallerReady ==
  ASSUME TypeInv, ListInv, ReadyInv,
         \/ \E name : MayCall("task", name)
         \/ Returns
         \/ \E where \in {"user", "alloc", "woken", "finish", "create"} : TaskRuns(where)
  PROVE  /\ run \in Task /\ ~pendsv /\ ~halt /\ scan.at = "idle"
         /\ pc[run] \in {"user", "alloc", "woken", "finish", "create"}
         /\ "READY" \in status[run] /\ Linked(list, run)
         /\ run \notin ToSet(timerQ) /\ status[run] \cap Blocks = {} /\ "UNUSED" \notin status[run]
         /\ pc[run] # "woken" => "TIMEOUT" \notin status[run]
<1>1. /\ run \in Task /\ ~pendsv /\ ~halt /\ scan.at = "idle"
      /\ pc[run] \in {"user", "alloc", "woken", "finish", "create"}
  BY DEF MayCall, Returns, TaskRuns
<1>2. "READY" \in status[run]
  BY <1>1 DEF ReadyInv, RunReady
<1>3. TaskRuns(pc[run]) /\ pc[run] \in Place \ {"sched", "wait"}
  <2>1. \E where : TaskRuns(where)
    BY DEF MayCall, Returns
  <2> QED  BY <1>1, <2>1, Members DEF TaskRuns
<1>4. /\ run \notin ToSet(timerQ) /\ status[run] \cap Blocks = {} /\ "UNUSED" \notin status[run]
      /\ pc[run] # "woken" => "TIMEOUT" \notin status[run]
      /\ On(list, run) = {prio[run]}
  BY <1>2, <1>3, CallerFits DEF ListInv
<1>5. Linked(list, run)
  BY <1>1, <1>4, ListFacts
<1> QED  BY <1>1, <1>2, <1>4, <1>5

\* If no handler nests in the tick, calls find it idle.
LEMMA CallsFindIdle ==
  ASSUME TypeInv, Permits = {}, NEW c, NEW name, MayCall(c, name)
  PROVE  scan.at = "idle" /\ ~halt
BY DEF MayCall, TaskRuns, TypeInv, LockInv

\* No step follows a null link or hangs: whatever a call unlinks is linked where its flags
\* say, whatever it links is on no list.
LEMMA SafeStep ==
  ASSUME TypeInv, ListInv, ReadyInv, Next, Slice = 0, Permits = {}
  PROVE  ~halt'
<1> USE DEF taskVars, cpuVars
<1>0. /\ TasksFit /\ Distinct(list)
      /\ \A t \in Task : /\ Fits(status[t], prio[t], On(list, t), t \in ToSet(timerQ), pc[t], Grown(t))
                         /\ On(list, t) \in SUBSET Head_
                         /\ Linked(list, t) <=> On(list, t) # {}
  BY ListFacts DEF ListInv, TasksFit
<1>r. ASSUME NEW t \in Task, "READY" \in status[t] \/ Waiting(t) # {} PROVE Linked(list, t)
  BY <1>0, <1>r DEF Fits, Waiting, Waits
<1>q. ASSUME NEW t \in Task, t \in ToSet(timerQ)
      PROVE  /\ "DELAY" \in status[t] \/ ("TIMEOUT" \in status[t] /\ Waiting(t) # {})
             /\ "READY" \notin status[t] /\ "UNUSED" \notin status[t]
  <2>1. "DELAY" \in status[t] \/ ("TIMEOUT" \in status[t] /\ Waiting(t) # {})
    BY <1>0, <1>q DEF Fits, Waiting, Waits
  <2>2. Waiting(t) # {} => "READY" \notin status[t]
    BY ListsAgree
  <2> QED  BY <1>0, <2>1, <2>2 DEF Fits
<1>c. ASSUME NEW c, NEW name, MayCall(c, name) PROVE ~halt
  BY <1>c, CallsFindIdle
<1>1. CASE CreateStep
  BY <1>1, <1>c DEF CreateStep, TaskCreateReady, TaskCreateNoMemory, TaskCreateTake,
     TaskCreateFill, CreateNothing, LOS_TaskCreateOnly, LOS_TaskCreate, CreateAtOnce, TaskRuns
<1>2. ASSUME NEW c \in Context, NEW t \in Task, LOS_TaskResume(c, t) PROVE ~halt'
  <2>1. "SUSPEND" \in status[t]
    BY <1>2 DEF LOS_TaskResume
  <2>2. "READY" \notin status[t] /\ "UNUSED" \notin status[t]
    BY <1>0, <2>1 DEF ReadyInv, FlagsFit, EndsWell, Fits
  <2>3. status[t] \cap Blocking = {"SUSPEND"} => ~Linked(list, t)
    <3>1. status[t] \cap Blocking = {"SUSPEND"} => status[t] \cap Waits = {}
      BY DEF Blocking, Waits
    <3> QED  BY <1>0, <2>2, <3>1, Unlinked
  <2> QED  BY <1>2, <1>c, <2>3 DEF LOS_TaskResume
<1>3. ASSUME NEW c \in Context, NEW t \in Task,
             LOS_TaskSuspend(c, t) \/ \E p \in AppPrio : LOS_TaskPriSet(c, t, p)
      PROVE  ~halt'
  BY <1>3, <1>c, <1>r DEF LOS_TaskSuspend, LOS_TaskPriSet
<1>4. ASSUME NEW c \in Context, NEW t \in Task, LOS_TaskDelete(c, t) PROVE ~halt'
  <2>1. Detaches(t) => Linked(list, t)
    BY <1>r DEF Detaches
  <2>2. {"DELAY", "TIMEOUT"} \cap status[t] # {} => t \in ToSet(timerQ)
    BY <1>0, <1>4 DEF LOS_TaskDelete, Expired, Fits
  <2> QED  BY <1>4, <2>1, <2>2 DEF LOS_TaskDelete
<1>5. CASE TaskEntryDetached
  <2>1. "READY" \in status[run] /\ Linked(list, run)
    BY <1>5, CallerReady DEF TaskEntryDetached
  <2> QED  BY <1>5, <2>1 DEF TaskEntryDetached
<1>6. CASE TaskEntryFinish
  <2>1. Linked(list, run)
    BY <1>6, CallerReady DEF TaskEntryFinish
  <2> QED  BY <1>6, <2>1 DEF TaskEntryFinish
<1>7. ~osTaskExit
  BY Members DEF osTaskExit, TaskRuns, ReadyInv, FlagsFit, RunReady, EndsWell, Ends
<1>8. CASE TaskEntryJoinable \/ TaskEntryUnlock \/ LOS_TaskLock \/ LOS_TaskUnlock \/ WaitReturn
  BY <1>8, <1>c DEF TaskEntryJoinable, TaskEntryUnlock, LOS_TaskLock, LOS_TaskUnlock, WaitReturn,
     Returns, TaskRuns
<1>9. ASSUME NEW n \in Timeouts, LOS_TaskDelay(n) PROVE ~halt'
  <2>1. Linked(list, run) /\ run \notin ToSet(timerQ)
    BY <1>9, CallerReady DEF LOS_TaskDelay
  <2> QED  BY <1>9, <2>1 DEF LOS_TaskDelay
<1>10. CASE LOS_TaskYield
  <2>1. Linked(list, run)
    BY <1>10, CallerReady DEF LOS_TaskYield
  <2> QED  BY <1>10, <2>1 DEF LOS_TaskYield, Rotate
<1>11. ASSUME NEW o \in Obj, NEW n \in Timeouts \cup {Forever}, NEW i, Pend(o, n, i) PROVE ~halt'
  <2>1. Linked(list, run) /\ run \notin ToSet(timerQ)
    BY <1>11, CallerReady DEF Pend, Block
  <2> QED  BY <1>11, <2>1 DEF Pend, Block
<1>12. ASSUME NEW c \in Context, NEW o \in Obj, Wakes(c, o) PROVE ~halt'
  <2>1. PICK t \in Task : t = Head(list[o]) /\ o \in On(list, t)
    <3>1. list[o] # <<>> /\ o \in Head_
      BY <1>12, Heads DEF Wakes, Hand
    <3> QED  BY <1>0, <3>1, OnTakeHead
  <2>2. "TIMEOUT" \in status[t] => t \in ToSet(timerQ)
    <3>1. status[t] \cap Waits # {}
      BY <1>0, <2>1 DEF Fits
    <3> QED  BY <1>0, <3>1 DEF Fits
  <2>3. ~halt
    BY <1>12, <1>c DEF Wakes, TaskRuns
  <2> QED  BY <1>12, <2>1, <2>2, <2>3 DEF Wakes, Hand
<1>13. CASE ScanExpire
  <2>1. PICK t \in Task : t = scan.task /\ t \in ToSet(timerQ) /\ scan.was = status[t]
    <3>1. scan.task \in ToSet(timerQ) /\ scan.was = status[scan.task] /\ timerQ \in Seq(Task)
      BY <1>13 DEF ScanExpire, ReadyInv, TypeInv, TypeOK
    <3> QED  BY <3>1, InToSet
  <2>2. "READY" \notin status[t] /\ "UNUSED" \notin status[t]
    BY <1>q, <2>1
  <2>3. CASE status[t] \cap Waits # {}
    <3>1. Linked(list, t)
      BY <1>r, <2>3 DEF Waiting, Waits
    <3>2. ~Linked(Unlink(list, t), t)
      BY <1>0, OnUnlink DEF Linked, On
    <3> QED  BY <1>13, <2>1, <2>3, <3>1, <3>2 DEF ScanExpire, Waits
  <2>4. CASE status[t] \cap Waits = {}
    <3>1. ~Linked(list, t)
      BY <1>0, <2>2, <2>4, Unlinked
    <3> QED  BY <1>13, <2>1, <2>4, <3>1 DEF ScanExpire, Waits
  <2> QED  BY <2>3, <2>4
<1>14. CASE Tick \/ ScanNext \/ ScanEnd \/ SwitchStep \/ LOS_Start
  BY <1>14 DEF Tick, TickBegin, ScanNext, ScanEnd, SwitchStep, TaskSchedule, TaskSwitch, PendSV,
     LOS_Start, TaskRuns
<1>15. ~TickYield
  BY DEF TickYield
<1>16. CASE ControlStep
  BY <1>16, <1>2, <1>3, <1>4, <1>5, <1>6, <1>7, <1>8, <1>9, <1>10 DEF ControlStep
<1>17. CASE WaitStep
  BY <1>17, <1>8, <1>11, <1>12, WakesContext DEF WaitStep
<1> QED  BY <1>1, <1>13, <1>14, <1>15, <1>16, <1>17 DEF Next, TickStep

\* A step that changes the flags of one task at most, and lets only that task go to where
\* tasks end.
LEMMA FlagsKept ==
  ASSUME TypeInv, ReadyInv, NEW t \in Task, EndsWell(status'[t], pc'[t]),
         \A u \in Task \ {t} : status'[u] = status[u] /\ (pc'[u] = pc[u] \/ pc'[u] \notin Ends),
         \A u \in Task : newborn'[u] \in {newborn[u], Null, t},
         \A u \in Task : newborn'[u] = t => pc'[t] \notin Ends
  PROVE  FlagsFit'
<1>1. ASSUME NEW u \in Task \ {t} PROVE EndsWell(status'[u], pc'[u])
  BY DEF ReadyInv, FlagsFit, EndsWell, Ends
<1>2. ASSUME NEW u \in Task, newborn'[u] # Null, newborn'[u] # t
      PROVE  pc'[newborn'[u]] \notin Ends
  <2>1. newborn'[u] = newborn[u] /\ newborn[u] \in Task \ {t}
    BY <1>2 DEF TypeInv, TypeOK
  <2> QED  BY <1>2, <2>1 DEF ReadyInv, FlagsFit
<1> QED  BY <1>1, <1>2 DEF FlagsFit

\* No flags change and no task goes to where tasks end.
LEMMA FlagsSame ==
  ASSUME TypeInv, ReadyInv, UNCHANGED <<status, newborn>>,
         \A u \in Task : pc'[u] = pc[u] \/ pc'[u] \notin Ends
  PROVE  FlagsFit'
<1>1. ASSUME NEW u \in Task PROVE EndsWell(status'[u], pc'[u])
  BY DEF ReadyInv, FlagsFit, EndsWell, Ends
<1>2. ASSUME NEW u \in Task, newborn'[u] # Null PROVE pc'[newborn'[u]] \notin Ends
  <2>1. newborn'[u] = newborn[u] /\ newborn[u] \in Task
    BY <1>2 DEF TypeInv, TypeOK
  <2> QED  BY <1>2, <2>1 DEF ReadyInv, FlagsFit
<1> QED  BY <1>1, <1>2 DEF FlagsFit

\* A call ends with LOS_Schedule or without: the running task stays ready or leaves the
\* processor.
LEMMA ScheduleReady ==
  ASSUME TypeInv, ReadyInv, NEW c \in Context, Schedule(c) \/ NoSchedule, run' = run,
         c = "task" => run \in Task /\ ~pendsv /\ pc[run] \in {"user", "woken"},
         c # "task" => lock' = lock,
         run \in Task /\ "READY" \in status[run] =>
           \/ "READY" \in status'[run]
           \/ c = "task" /\ Schedule(c) /\ lock' = 0
  PROVE  /\ RunReady'
         /\ \A u \in Task : pc'[u] = pc[u] \/ (u = run /\ pc'[u] = "sched")
<1>0. pc \in [Task -> Place] /\ pendsv \in BOOLEAN /\ c \in {"task", "isr", "main"}
  BY DEF TypeInv, TypeOK, Context
<1>1. CASE c = "task"
  <2>1. run \in Task /\ "READY" \in status[run]
    BY <1>1 DEF ReadyInv, RunReady
  <2>2. CASE NoSchedule
    BY <1>0, <1>1, <2>1, <2>2 DEF NoSchedule, RunReady, Schedule
  <2>3. CASE Schedule(c)
    <3>1. pc' = [pc EXCEPT ![run] = "sched"]
      BY <1>1, <2>3 DEF Schedule
    <3> QED  BY <1>0, <1>1, <2>1, <3>1 DEF RunReady, TypeInv, TypeOK
  <2> QED  BY <2>2, <2>3
<1>2. CASE c # "task"
  <2>1. pc' = pc /\ (pendsv => pendsv')
    BY <1>0, <1>2 DEF Schedule, NoSchedule
  <2> QED  BY <1>2, <2>1 DEF ReadyInv, RunReady
<1> QED  BY <1>1, <1>2

\* Between the reading of the first entry and the handling of it nothing else happens.
LEMMA ScanAlone ==
  ASSUME TypeInv, Permits = {}, Next, scan.at = "expire"
  PROVE  ScanExpire
<1>1. \A where : ~TaskRuns(where)
  BY DEF TaskRuns
<1>2. \A c, name : ~MayCall(c, name)
  BY CallsFindIdle
<1>3. ~LOS_Start /\ ~SwitchStep
  BY <1>1 DEF LOS_Start, SwitchStep, TaskSchedule, TaskSwitch, PendSV, TypeInv, LockInv
<1>4. ~CreateStep
  BY <1>1, <1>2 DEF CreateStep, TaskCreateReady, TaskCreateNoMemory, TaskCreateTake,
     TaskCreateFill, CreateNothing, LOS_TaskCreateOnly, LOS_TaskCreate, CreateAtOnce
<1>5. ~ControlStep
  BY <1>1, <1>2 DEF ControlStep, LOS_TaskResume, LOS_TaskSuspend, LOS_TaskDelete, LOS_TaskPriSet,
     TaskEntryDetached, TaskEntryJoinable, TaskEntryFinish, TaskEntryUnlock, osTaskExit,
     LOS_TaskDelay, LOS_TaskYield, LOS_TaskLock, LOS_TaskUnlock, Returns
<1>6. ~WaitStep
  BY <1>1, <1>2 DEF WaitStep, Pend, Block, PassOn, Wake, Release, WaitReturn
<1>7. ~Tick /\ ~TickYield /\ ~ScanNext /\ ~ScanEnd
  BY DEF Tick, TickYield, TickBegin, ScanNext, ScanEnd
<1> QED  BY <1>3, <1>4, <1>5, <1>6, <1>7 DEF Next, TickStep

\* Every step keeps the running task ready and ended tasks off the ready lists.
LEMMA ReadyStep ==
  ASSUME TypeInv, ListInv, ChoiceInv, ReadyInv, Next, ~halt', TypeInv', TasksFit',
         Slice = 0, Permits = {}, "Suspend" \notin IsrCalls
  PROVE  ReadyInv'
<1> USE DEF taskVars, cpuVars
<1>0. /\ status \in [Task -> SUBSET Flag] /\ pc \in [Task -> Place] /\ new \in Task
      /\ newborn \in [Task -> Task \cup {Null}] /\ run \in Task \cup {Dummy}
      /\ lock \in Nat /\ Dummy \notin Task /\ Null \notin Task
      /\ CpuFits /\ TasksFit
      /\ \A t \in Task : /\ Fits(status[t], prio[t], On(list, t), t \in ToSet(timerQ), pc[t], Grown(t))
                         /\ EndsWell(status[t], pc[t])
  <2>1. lock \in Nat
    BY TaskAssumption DEF TypeInv, TypeOK
  <2>2. Dummy \notin Task /\ Null \notin Task
    BY Heads
  <2>3. \A t \in Task : Fits(status[t], prio[t], On(list, t), t \in ToSet(timerQ), pc[t], Grown(t))
    BY DEF ListInv, TasksFit
  <2> QED  BY <2>1, <2>2, <2>3 DEF TypeInv, TypeOK, ListInv, ReadyInv, FlagsFit
<1>e. "user" \notin Ends /\ "alloc" \notin Ends /\ "create" \notin Ends /\ "sched" \notin Ends
      /\ "wait" \notin Ends /\ "woken" \notin Ends /\ "finish" \notin Ends /\ "switch" \notin Ends
  BY DEF Ends
<1>c. ASSUME NEW c \in Context, NEW name, MayCall(c, name)
      PROVE  /\ c = "task" => run \in Task /\ ~pendsv /\ pc[run] = "user" /\ "READY" \in status[run]
             /\ c = "main" => run = Dummy
  BY <1>c, CallerReady DEF MayCall, TaskRuns, TypeInv, LockInv
<1>1. ASSUME TaskCreateReady PROVE FlagsFit' /\ RunReady'
  <2>1. PICK t \in Task : t = newborn[run] /\ run \in Task
    BY <1>0, <1>1 DEF TaskCreateReady, TaskRuns, TypeInv, LocalInv
  <2>2. t # run /\ pc[t] \notin Ends /\ "READY" \in status[run]
    BY <1>0, <1>1, <2>1, CallerReady DEF ListInv, NewbornFits, ReadyInv, FlagsFit, TaskCreateReady
  <2>3. /\ status' = [status EXCEPT ![t] = (@ \ {"SUSPEND"}) \cup {"READY"}]
        /\ newborn' = [newborn EXCEPT ![run] = Null] /\ run' = run
        /\ \E at \in {"switch", "user"} : pc' = [pc EXCEPT ![run] = at]
    BY <1>1, <2>1 DEF TaskCreateReady
  <2>4. EndsWell(status'[t], pc'[t]) /\ pc'[t] \notin Ends
    BY <1>0, <2>2, <2>3 DEF EndsWell, Ends
  <2>5. FlagsFit'
    <3>1. \A u \in Task \ {t} : status'[u] = status[u] /\ (pc'[u] = pc[u] \/ pc'[u] \notin Ends)
      BY <1>0, <1>e, <2>1, <2>3
    <3>2. \A u \in Task : newborn'[u] \in {newborn[u], Null, t}
      BY <1>0, <2>1, <2>3
    <3> QED  BY <2>4, <3>1, <3>2, FlagsKept
  <2>6. RunReady'
    BY <1>0, <2>2, <2>3 DEF RunReady
  <2> QED  BY <2>5, <2>6
<1>s. ASSUME NEW t \in Task, "UNUSED" \in status[t] PROVE t # run /\ pc[t] \notin Ends
  BY <1>0, <1>s DEF CpuFits, EndsWell
<1>2. ASSUME TaskCreateTake \/ TaskCreateNoMemory PROVE FlagsFit' /\ RunReady'
  <2>1. /\ run \in Task /\ "READY" \in status[run] /\ UNCHANGED <<run, status>>
        /\ \E at \in {"user", "alloc"} : pc' = [pc EXCEPT ![run] = at]
    <3>1. run \in Task /\ "READY" \in status[run]
      BY <1>2, CallerReady DEF TaskCreateTake, TaskCreateNoMemory
    <3> QED  BY <1>2, <3>1 DEF TaskCreateTake, TaskCreateNoMemory
  <2>2. CASE TaskCreateTake
    <3>1. PICK t \in Task : t = Head(Reclaimed[Free]) /\ "UNUSED" \in status[t]
      BY <2>2, TakenFits DEF TaskCreateTake, ListInv
    <3>2. newborn' = [newborn EXCEPT ![run] = t]
      BY <2>2, <3>1 DEF TaskCreateTake
    <3>3. t # run /\ pc[t] \notin Ends
      BY <1>s, <3>1
    <3> QED  BY <1>0, <1>e, <2>1, <3>2, <3>3, FlagsKept DEF RunReady
  <2>3. CASE TaskCreateNoMemory
    <3>1. newborn' = [newborn EXCEPT ![run] = Null]
      BY <2>3 DEF TaskCreateNoMemory
    <3>2. EndsWell(status'[run], pc'[run]) /\ pc'[run] \notin Ends
      BY <1>0, <1>e, <2>1 DEF EndsWell, Ends
    <3> QED  BY <1>0, <1>e, <2>1, <3>1, <3>2, FlagsKept DEF RunReady
  <2> QED  BY <1>2, <2>2, <2>3
<1>2a. ASSUME NEW p \in AppPrio, NEW flags \in Attr, TaskCreateFill(p, flags)
       PROVE  FlagsFit' /\ RunReady'
  <2>1. run \in Task /\ "READY" \in status[run]
    BY <1>2a, CallerReady DEF TaskCreateFill
  <2>2. PICK t \in Task : t = newborn[run] /\ "UNUSED" \in status[t]
    BY <1>2a, FormedFits DEF TaskCreateFill
  <2>3. t # run /\ pc[t] \notin Ends
    BY <1>s, <2>2
  <2>4. /\ status' = [status EXCEPT ![t] = {"SUSPEND"} \cup flags] /\ run' = run
        /\ \E at \in {"user", "create"} : pc' = [pc EXCEPT ![run] = at]
        /\ newborn' = newborn \/ newborn' = [newborn EXCEPT ![run] = Null]
    BY <1>2a, <2>2 DEF TaskCreateFill
  <2>5. EndsWell(status'[t], pc'[t]) /\ pc'[t] \notin Ends
    <3>1. status'[t] = {"SUSPEND"} \cup flags /\ pc'[t] = pc[t] /\ "READY" \notin flags
      BY <1>0, <2>3, <2>4, TaskAssumption
    <3> QED  BY <2>3, <3>1 DEF EndsWell, Ends
  <2>6. FlagsFit'
    <3>1. \A u \in Task \ {t} : status'[u] = status[u] /\ (pc'[u] = pc[u] \/ pc'[u] \notin Ends)
      BY <1>0, <1>e, <2>1, <2>4
    <3>2. \A u \in Task : newborn'[u] \in {newborn[u], Null, t}
      BY <1>0, <2>1, <2>4
    <3> QED  BY <2>5, <3>1, <3>2, FlagsKept
  <2>7. RunReady'
    BY <1>0, <2>1, <2>3, <2>4 DEF RunReady
  <2> QED  BY <2>6, <2>7
<1>2b. ASSUME NEW c \in Context, CreateNothing(c) PROVE FlagsFit' /\ RunReady'
  <2>1. MayCall(c, "Create") /\ NoSchedule /\ UNCHANGED <<status, newborn, run, lock, pc>>
    BY <1>2b DEF CreateNothing, NoSchedule
  <2> QED  BY <1>c, <2>1, FlagsSame, ScheduleReady
<1>3. ASSUME NEW c \in Context, NEW t \in Task, NEW p \in AppPrio, NEW flags \in Attr,
             LOS_TaskCreateOnly(c, t, p, flags) \/ LOS_TaskCreate(c, t, p, flags)
      PROVE  FlagsFit' /\ RunReady'
  <2>1. /\ "UNUSED" \in status[t] /\ flags \in {{}, {"DETACHED"}}
        /\ \/ status' = [status EXCEPT ![t] = {"SUSPEND"} \cup flags]
           \/ status' = [status EXCEPT ![t] = {"READY"} \cup flags]
    <3>1. \E only \in BOOLEAN : CreateAtOnce(c, t, p, flags, only)
      BY <1>3 DEF LOS_TaskCreateOnly, LOS_TaskCreate
    <3> QED  BY <3>1, TaskAssumption, TakenFits DEF CreateAtOnce, ListInv
  <2>2. t # run /\ pc[t] \notin Ends
    BY <1>s, <2>1
  <2>3. status'[t] \subseteq {"SUSPEND", "READY", "DETACHED"}
        /\ ("SUSPEND" \in status'[t] => "READY" \notin status'[t])
        /\ \A u \in Task \ {t} : status'[u] = status[u]
    BY <1>0, <2>1
  <2>4. /\ MayCall(c, "Create") /\ (Schedule(c) \/ NoSchedule) /\ c # "task"
        /\ UNCHANGED <<run, lock, newborn>>
    BY <1>3 DEF LOS_TaskCreateOnly, LOS_TaskCreate, CreateAtOnce
  <2>5. pc' = pc
    BY <2>4 DEF Schedule, NoSchedule
  <2>6. EndsWell(status'[t], pc'[t]) /\ pc'[t] \notin Ends
    BY <2>2, <2>3, <2>5 DEF EndsWell, Ends
  <2>7. FlagsFit'
    BY <2>3, <2>4, <2>5, <2>6, FlagsKept
  <2>8. RunReady'
    BY <1>c, <2>2, <2>3, <2>4, ScheduleReady
  <2> QED  BY <2>7, <2>8
<1>4. ASSUME NEW c \in Context, NEW t \in Task, LOS_TaskResume(c, t) PROVE FlagsFit' /\ RunReady'
  <2>1. /\ MayCall(c, "Resume") /\ "SUSPEND" \in status[t] /\ pc[t] \notin {"exit", "dead"}
        /\ Schedule(c) \/ NoSchedule
        /\ UNCHANGED <<run, lock, newborn>>
        /\ \/ status' = [status EXCEPT ![t] = @ \ {"SUSPEND"}]
           \/ status' = [status EXCEPT ![t] = (@ \ {"SUSPEND"}) \cup {"READY"}]
    BY <1>4 DEF LOS_TaskResume
  <2>2. pc[t] \notin Ends
    BY <1>0, <2>1 DEF EndsWell, Ends
  <2>3. /\ RunReady'
        /\ \A u \in Task : pc'[u] = pc[u] \/ (u = run /\ pc'[u] = "sched")
    BY <1>0, <1>c, <2>1, ScheduleReady
  <2>4. EndsWell(status'[t], pc'[t]) /\ pc'[t] \notin Ends
    BY <1>0, <1>e, <2>1, <2>2, <2>3 DEF EndsWell, Ends
  <2> QED  BY <1>0, <1>e, <2>1, <2>3, <2>4, FlagsKept
<1>5. ASSUME NEW c \in Context, NEW t \in Task, LOS_TaskSuspend(c, t) PROVE FlagsFit' /\ RunReady'
  <2>1. /\ MayCall(c, "Suspend") /\ UNCHANGED <<run, lock, newborn>>
        /\ ~(t = run /\ lock # 0)
        /\ (t = RunId /\ Schedule(c)) \/ (t # RunId /\ NoSchedule)
        /\ status' = [status EXCEPT ![t] = (@ \ {"READY"}) \cup {"SUSPEND"}]
    BY <1>5 DEF LOS_TaskSuspend
  <2>2. c = "task" /\ run \in Task /\ pc[run] = "user" /\ ~pendsv
    <3>1. c # "isr" /\ c # "main"
      BY <2>1 DEF MayCall
    <3> QED  BY <1>c, <2>1, <3>1 DEF Context
  <2>3. /\ RunReady'
        /\ \A u \in Task : pc'[u] = pc[u] \/ (u = run /\ pc'[u] = "sched")
    <3>1. RunId = run
      BY <1>0, <2>2 DEF RunId
    <3> QED  BY <1>0, <2>1, <2>2, <3>1, ScheduleReady
  <2>4. pc[t] # "unlock"
    BY <2>2 DEF TypeInv, LockInv
  <2>5. EndsWell(status'[t], pc'[t])
    BY <1>0, <1>e, <2>1, <2>3, <2>4 DEF EndsWell, Ends
  <2>6. \A u \in Task : newborn[u] = t => pc'[t] \notin Ends
    BY <1>0, <1>e, <2>3 DEF ReadyInv, FlagsFit
  <2> QED  BY <1>0, <1>e, <2>1, <2>3, <2>5, <2>6, FlagsKept
<1>6. ASSUME NEW c \in Context, NEW t \in Task, NEW p \in AppPrio, LOS_TaskPriSet(c, t, p)
      PROVE  FlagsFit' /\ RunReady'
  <2>1. /\ MayCall(c, "PriSet") /\ UNCHANGED <<run, lock, status, newborn>>
        /\ Schedule(c) \/ NoSchedule
    BY <1>6 DEF LOS_TaskPriSet
  <2>2. /\ RunReady'
        /\ \A u \in Task : pc'[u] = pc[u] \/ (u = run /\ pc'[u] = "sched")
    BY <1>c, <2>1, ScheduleReady
  <2> QED  BY <1>e, <2>1, <2>2, FlagsSame
<1>7. ASSUME NEW c \in Context, NEW t \in Task, LOS_TaskDelete(c, t) PROVE FlagsFit' /\ RunReady'
  <2>1. /\ status' = [status EXCEPT ![t] = {"UNUSED"}] /\ lock' = lock
        /\ pc' = [pc EXCEPT ![t] = "user"] /\ newborn' = [newborn EXCEPT ![t] = Null]
        /\ \/ run' = Dummy
           \/ t # run /\ run' = run /\ pendsv' = pendsv
    BY <1>7 DEF LOS_TaskDelete, RetireRun
  <2>2. EndsWell(status'[t], pc'[t]) /\ pc'[t] \notin Ends
    BY <1>0, <1>e, <2>1 DEF EndsWell, Ends
  <2>3. FlagsFit'
    BY <1>0, <2>1, <2>2, FlagsKept
  <2>4. RunReady'
    BY <1>0, <2>1 DEF ReadyInv, RunReady
  <2> QED  BY <2>3, <2>4
<1>8. ASSUME TaskEntryDetached PROVE FlagsFit' /\ RunReady'
  <2>1. /\ run \in Task /\ pc[run] = "user" /\ run' = Dummy /\ UNCHANGED <<pc, newborn>>
        /\ status' = [status EXCEPT ![run] = {"UNUSED"}]
    BY <1>8 DEF TaskEntryDetached, RetireRun, Returns, TaskRuns
  <2>2. EndsWell(status'[run], pc'[run]) /\ pc'[run] \notin Ends
    BY <1>0, <1>e, <2>1 DEF EndsWell, Ends
  <2>3. FlagsFit'
    BY <1>0, <2>1, <2>2, FlagsKept
  <2> QED  BY <1>0, <2>1, <2>3 DEF RunReady
<1>9. ASSUME TaskEntryJoinable \/ LOS_TaskLock PROVE FlagsFit' /\ RunReady'
  <2>1. /\ run \in Task /\ "READY" \in status[run] /\ UNCHANGED <<run, status, newborn>>
        /\ \E at \in {"finish", "user"} : pc' = [pc EXCEPT ![run] = at]
    <3>1. CASE TaskEntryJoinable
      BY <3>1, CallerReady DEF TaskEntryJoinable
    <3>2. CASE LOS_TaskLock
      <4>1. run \in Task /\ "READY" \in status[run] /\ pc[run] = "user"
        BY <1>c, <3>2 DEF LOS_TaskLock, Context
      <4>2. pc' = [pc EXCEPT ![run] = "user"]
        BY <1>0, <3>2, <4>1 DEF LOS_TaskLock
      <4> QED  BY <3>2, <4>1, <4>2 DEF LOS_TaskLock
    <3> QED  BY <1>9, <3>1, <3>2
  <2>2. FlagsFit'
    BY <1>0, <1>e, <2>1, FlagsSame
  <2> QED  BY <2>1, <2>2 DEF RunReady
<1>10. ASSUME TaskEntryFinish PROVE FlagsFit' /\ RunReady'
  <2>1. /\ run \in Task /\ "READY" \in status[run] /\ status[run] \cap Blocks = {}
        /\ "UNUSED" \notin status[run] /\ "TIMEOUT" \notin status[run] /\ pc[run] = "finish"
    BY <1>10, CallerReady DEF TaskEntryFinish, TaskRuns
  <2>2. /\ status' = [status EXCEPT ![run] = @ \ {"READY"}] /\ pc' = [pc EXCEPT ![run] = "unlock"]
        /\ UNCHANGED <<run, newborn>>
    BY <1>10 DEF TaskEntryFinish
  <2>3. status[run] \subseteq {"READY", "DETACHED"}
    BY <1>0, <2>1 DEF EndsWell, Flag, Blocks
  <2>4. EndsWell(status'[run], pc'[run])
    BY <1>0, <2>1, <2>2, <2>3 DEF EndsWell
  <2>5. \A u \in Task : newborn[u] # run
    BY <1>0, <2>1 DEF ListInv, NewbornFits
  <2>6. FlagsFit'
    BY <1>0, <2>1, <2>2, <2>4, <2>5, FlagsKept
  <2>7. RunReady'
    BY <1>0, <2>1, <2>2 DEF RunReady
  <2> QED  BY <2>6, <2>7
<1>11. ASSUME TaskEntryUnlock PROVE FlagsFit' /\ RunReady'
  <2>1. /\ run \in Task /\ pc[run] = "unlock" /\ pc' = [pc EXCEPT ![run] = "exit"]
        /\ UNCHANGED <<status, run, newborn>>
    BY <1>11 DEF TaskEntryUnlock, TaskRuns
  <2>2. EndsWell(status'[run], pc'[run])
    BY <1>0, <2>1 DEF EndsWell, Ends
  <2>3. \A u \in Task : newborn[u] # run
    BY <1>0, <2>1 DEF ListInv, NewbornFits
  <2>4. FlagsFit'
    BY <1>0, <2>1, <2>2, <2>3, FlagsKept
  <2> QED  BY <1>0, <2>1, <2>4 DEF RunReady
<1>12. ASSUME LOS_TaskYield \/ LOS_TaskUnlock PROVE FlagsFit' /\ RunReady'
  <2>1. /\ \E name : MayCall("task", name)
        /\ Schedule("task") \/ NoSchedule
        /\ UNCHANGED <<run, newborn>>
        /\ status' = status \/ status' = [status EXCEPT ![run] = @ \cup {"READY"}]
    BY <1>12 DEF LOS_TaskYield, LOS_TaskUnlock, Rotate
  <2>2. run \in Task /\ "READY" \in status[run] /\ pc[run] = "user" /\ ~pendsv
    BY <1>c, <2>1 DEF Context
  <2>3. status' = status
    BY <1>0, <2>1, <2>2
  <2>4. /\ RunReady'
        /\ \A u \in Task : pc'[u] = pc[u] \/ (u = run /\ pc'[u] = "sched")
    BY <2>1, <2>2, <2>3, ScheduleReady DEF Context
  <2> QED  BY <1>e, <2>1, <2>3, <2>4, FlagsSame
<1>13. ASSUME \/ \E n \in Timeouts : LOS_TaskDelay(n)
              \/ \E o \in Obj, n \in Timeouts \cup {Forever} :
                   \E i \in 1..Len(Unlink(list, run)[o]) + 1 : Pend(o, n, i)
       PROVE  FlagsFit' /\ RunReady'
  <2>1. /\ \E name : MayCall("task", name)
        /\ UNCHANGED <<run, newborn, lock>> /\ lock = 0
        /\ \E at \in {"sched", "wait"} : pc' = [pc EXCEPT ![run] = at]
        /\ "READY" \notin status'[run] \/ run \notin Task
        /\ \A u \in Task \ {run} : status'[u] = status[u]
    <3>1. ASSUME NEW n \in Timeouts, LOS_TaskDelay(n)
          PROVE  /\ \E name : MayCall("task", name)
                 /\ UNCHANGED <<run, newborn, lock>> /\ lock = 0
                 /\ pc' = [pc EXCEPT ![run] = "sched"]
                 /\ status' = [status EXCEPT ![run] = (@ \ {"READY"}) \cup {"DELAY"}]
      BY <3>1 DEF LOS_TaskDelay, Schedule
    <3>2. ASSUME NEW o \in Obj, NEW n \in Timeouts \cup {Forever},
                 NEW i \in 1..Len(Unlink(list, run)[o]) + 1, Pend(o, n, i)
          PROVE  /\ \E name : MayCall("task", name)
                 /\ UNCHANGED <<run, newborn, lock>> /\ lock = 0
                 /\ pc' = [pc EXCEPT ![run] = "wait"]
                 /\ \/ status' = [status EXCEPT ![run] = (@ \ {"READY"}) \cup {Kind(o)}]
                    \/ status' = [status EXCEPT ![run] = (@ \ {"READY"}) \cup {Kind(o), "TIMEOUT"}]
      BY <3>2 DEF Pend, Block
    <3>3. \A o : Kind(o) # "READY"
      BY DEF Kind
    <3>4. CASE \E n \in Timeouts : LOS_TaskDelay(n)
      BY <1>0, <3>1, <3>4
    <3>5. CASE \E o \in Obj, n \in Timeouts \cup {Forever} :
                 \E i \in 1..Len(Unlink(list, run)[o]) + 1 : Pend(o, n, i)
      <4>1. PICK o \in Obj : /\ \E name : MayCall("task", name)
                             /\ UNCHANGED <<run, newborn, lock>> /\ lock = 0
                             /\ pc' = [pc EXCEPT ![run] = "wait"]
                             /\ \E K \in {{Kind(o)}, {Kind(o), "TIMEOUT"}} :
                                  status' = [status EXCEPT ![run] = (@ \ {"READY"}) \cup K]
        BY <3>2, <3>5
      <4>2. PICK K : "READY" \notin K /\ status' = [status EXCEPT ![run] = (@ \ {"READY"}) \cup K]
        BY <3>3, <4>1
      <4> QED  BY <1>0, <4>1, <4>2
    <3> QED  BY <1>13, <3>4, <3>5
  <2>2. run \in Task
    BY <1>c, <2>1 DEF Context
  <2>3. EndsWell(status'[run], pc'[run]) /\ pc'[run] \notin Ends
    BY <1>0, <1>e, <2>1, <2>2 DEF EndsWell
  <2>4. FlagsFit'
    BY <1>0, <2>1, <2>2, <2>3, FlagsKept
  <2>5. RunReady'
    BY <1>0, <2>1, <2>2 DEF RunReady
  <2> QED  BY <2>4, <2>5
<1>14. ASSUME NEW c \in Context, NEW o \in Obj, Wakes(c, o) PROVE FlagsFit' /\ RunReady'
  <2>1. PICK t \in Task : t = Head(list[o]) /\ o \in On(list, t)
    <3>1. list[o] # <<>> /\ o \in Head_ /\ Distinct(list)
      BY <1>0, <1>14, Heads, ListFacts DEF Wakes, Hand
    <3> QED  BY <3>1, OnTakeHead
  <2>2. status[t] \cap Waits # {} /\ pc[t] \notin Ends
    <3>1. status[t] \cap Waits # {}
      BY <1>0, <2>1 DEF Fits
    <3> QED  BY <1>0, <3>1 DEF EndsWell, Waits
  <2>3. /\ Schedule(c) /\ UNCHANGED <<run, lock, newborn>>
        /\ \/ "SUSPEND" \in status[t] /\ status' = [status EXCEPT ![t] = Woken(t, o)]
           \/ /\ "SUSPEND" \notin status[t]
              /\ status' = [status EXCEPT ![t] = Woken(t, o) \cup {"READY"}]
    BY <1>14, <2>1 DEF Wakes, Hand
  <2>4. /\ c = "task" => run \in Task /\ ~pendsv /\ pc[run] \in {"user", "woken"}
        /\ c = "main" => run = Dummy
    <3>1. MayCall(c, "Wake") \/ (c = "task" /\ TaskRuns("woken"))
      BY <1>14 DEF Wakes
    <3> QED  BY <1>c, <3>1 DEF TaskRuns
  <2>5. /\ RunReady'
        /\ \A u \in Task : pc'[u] = pc[u] \/ (u = run /\ pc'[u] = "sched")
    <3>1. "READY" \in status[t] => "READY" \in status'[t]
      BY <1>0, <2>3 DEF Woken, Kind, EndsWell
    <3>2. \A u \in Task \ {t} : status'[u] = status[u]
      BY <1>0, <2>3
    <3> QED  BY <2>3, <2>4, <3>1, <3>2, ScheduleReady
  <2>6. EndsWell(status'[t], pc'[t]) /\ pc'[t] \notin Ends
    <3>1. "SUSPEND" \in status'[t] => "READY" \notin status'[t]
      BY <1>0, <2>3 DEF Woken, EndsWell
    <3>2. pc'[t] \notin Ends
      BY <1>e, <2>2, <2>5
    <3> QED  BY <3>1, <3>2 DEF EndsWell, Ends
  <2> QED  BY <1>0, <1>e, <2>3, <2>5, <2>6, FlagsKept
<1>15. ASSUME WaitReturn PROVE FlagsFit' /\ RunReady'
  <2>1. run \in Task /\ "READY" \in status[run]
    BY <1>15, CallerReady DEF WaitReturn
  <2>2. /\ status' = [status EXCEPT ![run] = @ \ {"TIMEOUT"}] /\ pc' = [pc EXCEPT ![run] = "user"]
        /\ UNCHANGED <<run, newborn>>
    BY <1>15 DEF WaitReturn
  <2>3. EndsWell(status'[run], pc'[run]) /\ pc'[run] \notin Ends
    BY <1>0, <1>e, <2>1, <2>2 DEF EndsWell, Ends
  <2>4. FlagsFit'
    BY <1>0, <2>1, <2>2, <2>3, FlagsKept
  <2>5. RunReady'
    BY <1>0, <2>1, <2>2 DEF RunReady
  <2> QED  BY <2>4, <2>5
<1>16. ASSUME NEW from \in {"sched", "wait", "exit"}, TaskSchedule(from) PROVE FlagsFit' /\ RunReady'
  <2>1. /\ run \in Task /\ ~pendsv /\ pc[run] = from /\ UNCHANGED <<status, run, lock, newborn>>
        /\ new' = Top(list') /\ pendsv' = (run # new' /\ lock = 0)
        /\ pc' = [pc EXCEPT ![run] = AfterSchedule[from]]
    BY <1>16 DEF TaskSchedule, TaskRuns
  <2>2. /\ AfterSchedule[from] \in {"user", "woken", "dead"}
        /\ AfterSchedule[from] = "dead" => from = "exit"
    BY DEF AfterSchedule
  <2>3. EndsWell(status'[run], pc'[run])
    BY <1>0, <2>1, <2>2 DEF EndsWell, Ends
  <2>4. \A u \in Task : newborn[u] # run
    BY <1>0, <2>1 DEF ListInv, NewbornFits
  <2>5. FlagsFit'
    BY <1>0, <2>1, <2>3, <2>4, FlagsKept
  <2>6. RunReady'
    <3>1. CASE lock = 0
      BY <2>1, <3>1, TopFits DEF RunReady
    <3>2. CASE lock # 0
      <4>1. from # "exit"
        BY <2>1, <3>2 DEF TypeInv, LockInv
      <4> QED  BY <2>1, <3>2, <4>1 DEF ReadyInv, RunReady
    <3> QED  BY <3>1, <3>2
  <2> QED  BY <2>5, <2>6
<1>17. ASSUME TaskSwitch PROVE FlagsFit' /\ RunReady'
  <2>1. /\ UNCHANGED <<status, newborn>> /\ pendsv' = TRUE
        /\ \A u \in Task : pc'[u] = pc[u] \/ pc'[u] = "user"
    BY <1>0, <1>17 DEF TaskSwitch, TaskRuns
  <2> QED  BY <1>e, <2>1, FlagsSame DEF RunReady
<1>18. ASSUME PendSV \/ LOS_Start PROVE FlagsFit' /\ RunReady'
  <2>1. scan.at = "idle" /\ Switching /\ run' = new /\ UNCHANGED <<status, pc, newborn>>
    BY <1>18 DEF PendSV, LOS_Start, Switching, TypeInv, LockInv
  <2>2. new = Top(list)
    BY <2>1 DEF ChoiceInv, Settled
  <2> QED  BY <1>0, <2>1, <2>2, FlagsSame, TopReady DEF RunReady
<1>19. ASSUME Tick \/ ScanNext \/ ScanEnd PROVE FlagsFit' /\ RunReady'
  <2>1. /\ UNCHANGED <<status, run, lock, newborn, pc>>
        /\ Schedule("isr") \/ NoSchedule
    BY <1>19 DEF Tick, ScanNext, ScanEnd, Schedule, NoSchedule
  <2> QED  BY <2>1, FlagsSame, ScheduleReady DEF Context
<1>20. ASSUME ScanExpire PROVE FlagsFit' /\ RunReady'
  <2>1. PICK t \in Task : t = scan.task /\ t \in ToSet(timerQ) /\ scan.was = status[t]
    <3>1. scan.task \in ToSet(timerQ) /\ scan.was = status[scan.task] /\ timerQ \in Seq(Task)
      BY <1>20 DEF ScanExpire, ReadyInv, TypeInv, TypeOK
    <3> QED  BY <3>1, InToSet
  <2>2. /\ NoSchedule /\ UNCHANGED <<run, lock, newborn, pc>>
        /\ \A u \in Task \ {t} : status'[u] = status[u]
        /\ "READY" \in status[t] => "READY" \in status'[t]
        /\ \/ "SUSPEND" \notin status'[t]
           \/ "SUSPEND" \in status[t] /\ status'[t] \subseteq status[t]
    BY <1>0, <1>20, <2>1 DEF ScanExpire, NoSchedule
  <2>3. pc[t] \notin Ends
    BY <1>0, <2>1 DEF Fits, EndsWell
  <2>4. EndsWell(status'[t], pc'[t])
    BY <1>0, <2>2, <2>3 DEF EndsWell, Ends
  <2>5. FlagsFit'
    BY <2>2, <2>3, <2>4, FlagsKept
  <2>6. RunReady'
    BY <2>2, ScheduleReady DEF Context
  <2> QED  BY <2>5, <2>6
<1>21. ~TickYield /\ ~osTaskExit
  BY DEF TickYield, osTaskExit
<1>22. ASSUME CreateStep PROVE FlagsFit' /\ RunReady'
  BY <1>22, <1>1, <1>2, <1>2a, <1>2b, <1>3 DEF CreateStep
<1>23. ASSUME ControlStep PROVE FlagsFit' /\ RunReady'
  BY <1>23, <1>4, <1>5, <1>6, <1>7, <1>8, <1>9, <1>10, <1>11, <1>12, <1>13, <1>21 DEF ControlStep
<1>24. ASSUME WaitStep PROVE FlagsFit' /\ RunReady'
  BY <1>24, <1>13, <1>14, <1>15, WakesContext DEF WaitStep
<1>25. FlagsFit' /\ RunReady'
  BY <1>16, <1>17, <1>18, <1>19, <1>20, <1>21, <1>22, <1>23, <1>24 DEF Next, SwitchStep, TickStep
<1>26. (scan.at = "expire" => scan.task \in ToSet(timerQ) /\ scan.was = status[scan.task])'
  <2>1. CASE ScanNext
    <3>1. timerQ # <<>> /\ timerQ \in Seq(Task) /\ UNCHANGED <<timerQ, status>>
          /\ scan'.task = Head(timerQ) /\ scan'.was = status[Head(timerQ)]
      BY <2>1 DEF ScanNext, TypeInv, TypeOK
    <3> QED  BY <3>1, HeadTailRange
  <2>2. CASE ~ScanNext
    <3>1. scan' = scan \/ scan'.at # "expire"
      <4>1. TickBegin => scan'.at = "next"
        BY DEF TickBegin, Idling
      <4>2. ScanExpire => scan'.at = "next"
        BY DEF ScanExpire, Idling
      <4>3. ScanEnd => scan'.at = "idle"
        BY DEF ScanEnd, Idling
      <4> QED  BY <2>2, <4>1, <4>2, <4>3, TimerCases DEF TimerCase
    <3>2. scan.at = "expire" => scan'.at = "next"
      BY ScanAlone DEF ScanExpire, Idling
    <3> QED  BY <3>1, <3>2
  <2> QED  BY <2>1, <2>2
<1> QED  BY <1>25, <1>26 DEF ReadyInv
-----------------------------------------------------------------------------
\* osMain has chosen the first task to run: the timer task, or Idle without one.
LEMMA ChoiceInit == Init => ChoiceInv /\ ReadyInv
<1> SUFFICES ASSUME Init PROVE ChoiceInv /\ ReadyInv
  OBVIOUS
<1>1. /\ Idle \in Task /\ Lowest \in Prio /\ 0 \in Prio /\ Lowest # 0 /\ Dummy \notin Task
      /\ Prio \subseteq Head_ /\ Free \notin Prio /\ \A p \in Prio : p >= 0
  BY TaskAssumption, Heads DEF Prio
<1>2. \A p \in Prio : list[p] = IF p = Lowest THEN <<Idle>>
                                ELSE IF p = 0 /\ SwtmrTask # Null THEN <<SwtmrTask>> ELSE <<>>
  BY <1>1 DEF Init
<1>3. new = Top(list)
  <2>1. CASE SwtmrTask # Null
    <3>1. list[0] = <<SwtmrTask>>
      BY <1>1, <1>2, <2>1
    <3>2. Top(list) = Head(list[0])
      BY <1>1, <3>1, TopIs
    <3> QED  BY <2>1, <3>1, <3>2 DEF Init
  <2>2. CASE SwtmrTask = Null
    <3>1. list[Lowest] = <<Idle>> /\ \A q \in Prio : list[q] # <<>> => q = Lowest
      BY <1>1, <1>2, <2>2
    <3>2. Top(list) = Head(list[Lowest])
      BY <1>1, <3>1, TopIs DEF Prio
    <3> QED  BY <2>2, <3>1, <3>2 DEF Init
  <2> QED  BY <2>1, <2>2
<1>4. ChoiceInv
  BY <1>1, <1>3 DEF Init, ChoiceInv, Executing
<1>5. FlagsFit
  <2>1. ASSUME NEW t \in Task PROVE EndsWell(status[t], pc[t])
    BY <2>1 DEF Init, EndsWell, Ends
  <2>2. \A u \in Task : newborn[u] = Null
    BY DEF Init
  <2> QED  BY <2>1, <2>2 DEF FlagsFit
<1>6. RunReady /\ scan.at = "idle"
  BY <1>1 DEF Init, RunReady, Idling
<1> QED  BY <1>4, <1>5, <1>6 DEF ReadyInv

\* Until a crash the choice is right, whatever applications and interrupts do but for
\* suspending tasks in a handler.
THEOREM ChoiceKept ==
  ASSUME Slice = 0, "Suspend" \notin IsrCalls
  PROVE  Spec => [](~halt => ChoiceInv)
<1> DEFINE Lists_ == TypeInv /\ (~halt => ListInv /\ DelayInv)
           Choice == ~halt => ChoiceInv
<1>1. Init => Choice
  BY ChoiceInit
<1>2. Lists_ /\ Lists_' /\ Choice /\ [Next]_vars => Choice'
  <2> SUFFICES ASSUME Lists_, Lists_', Choice, [Next]_vars, ~halt' PROVE ChoiceInv'
    OBVIOUS
  <2>1. CASE UNCHANGED vars
    BY <2>1 DEF vars, taskVars, cpuVars, ChoiceInv, Settled, Switching, Executing
  <2>2. CASE Next
    <3>1. ~halt
      BY <2>2, TimerCases
    <3> QED  BY <2>2, <3>1, ChoiceStep
  <2> QED  BY <2>1, <2>2
<1>3. Spec => []Lists_
  BY ListsKept
<1> HIDE DEF Lists_, Choice
<1>4. Spec => []Choice
  BY <1>1, <1>2, <1>3, PTL DEF Spec
<1> QED  BY <1>4 DEF Choice

\* No call and no interrupt leaves a task executing with the scheduler unlocked while a
\* more urgent one is ready (LOS_Schedule, LOS_PriqueueTop and all that call them).
THEOREM RunsHighestHolds ==
  ASSUME Slice = 0, "Suspend" \notin IsrCalls
  PROVE  Spec => []RunsHighest
<1>1. (~halt => ChoiceInv) => RunsHighest
  BY DEF RunsHighest, TaskRuns, ChoiceInv, Settled, Executing
<1> QED  BY <1>1, ChoiceKept, PTL

\* PendSV and LOS_StartToRun switch to a task that is ready at that moment, however
\* long ago pstNewTask was chosen.
THEOREM SwitchesReady ==
  ASSUME Slice = 0, "Suspend" \notin IsrCalls
  PROVE  Spec => SwitchesToReady
<1> DEFINE Lists_ == TypeInv /\ (~halt => ListInv /\ DelayInv)
           Choice == ~halt => ChoiceInv
           Switch == run' # run /\ run' # Dummy => "READY" \in status[run']
<1>1. Lists_ /\ Choice /\ [Next]_vars => [Switch]_vars
  <2> SUFFICES ASSUME Lists_, Choice, Next, run' # run, run' # Dummy
               PROVE  "READY" \in status[run']
    BY DEF vars
  <2>1. CASE PendSV \/ LOS_Start
    <3>1. Settled /\ Switching /\ run' = new /\ ~halt
      BY <2>1 DEF PendSV, LOS_Start, Switching, Settled, TypeInv, LockInv
    <3>2. new = Top(list) /\ TasksFit
      BY <3>1 DEF ChoiceInv, ListInv
    <3> QED  BY <3>1, <3>2, TopReady
  <2>2. CASE CreateStep
    BY <2>2 DEF CreateStep, TaskCreateReady, TaskCreateNoMemory, TaskCreateTake,
                TaskCreateFill, CreateNothing, LOS_TaskCreateOnly, LOS_TaskCreate, CreateAtOnce, cpuVars
  <2>3. CASE ControlStep
    BY <2>3 DEF ControlStep, LOS_TaskResume, LOS_TaskSuspend, LOS_TaskDelete, LOS_TaskPriSet,
                TaskEntryDetached, TaskEntryJoinable, TaskEntryFinish, TaskEntryUnlock,
                osTaskExit, LOS_TaskDelay, LOS_TaskYield, LOS_TaskLock, LOS_TaskUnlock,
                RetireRun, cpuVars
  <2>4. CASE WaitStep
    BY <2>4 DEF WaitStep, Pend, Block, Wake, Release, PassOn, Hand, WaitReturn, cpuVars
  <2>5. CASE (SwitchStep /\ ~PendSV) \/ TickStep
    BY <2>5 DEF SwitchStep, TaskSchedule, TaskSwitch, TickStep, Tick, TickYield, ScanNext,
                ScanExpire, ScanEnd, cpuVars
  <2> QED  BY <2>1, <2>2, <2>3, <2>4, <2>5 DEF Next
<1>2. Spec => []Lists_ /\ []Choice
  BY ListsKept, ChoiceKept
<1> HIDE DEF Lists_, Choice, Switch
<1>3. Spec => [][Switch]_vars
  BY <1>1, <1>2, PTL DEF Spec
<1> QED  BY <1>3 DEF Switch, SwitchesToReady

\* With the permits off, no sequence of calls, interrupts and ticks makes the kernel
\* delete a node that is on no list, link one that is on a list, or return into
\* osTaskExit, which hangs.
THEOREM Runs ==
  ASSUME Slice = 0, Permits = {}, "Suspend" \notin IsrCalls
  PROVE  Spec => [](ReadyInv /\ ~halt)
<1> DEFINE Lists_ == TypeInv /\ (~halt => ListInv /\ DelayInv)
           Choice == ~halt => ChoiceInv
           Safe == ReadyInv /\ ~halt
<1>1. Init => Safe
  BY ChoiceInit DEF Init
<1>2. Lists_ /\ Lists_' /\ Choice /\ Safe /\ [Next]_vars => Safe'
  <2> SUFFICES ASSUME Lists_, Lists_', Choice, Safe, [Next]_vars PROVE Safe'
    OBVIOUS
  <2>1. CASE UNCHANGED vars
    BY <2>1 DEF vars, taskVars, cpuVars, ReadyInv, FlagsFit, RunReady
  <2>2. CASE Next
    <3>1. ~halt'
      BY <2>2, SafeStep
    <3>2. ListInv /\ ChoiceInv /\ TasksFit'
      BY <3>1 DEF ListInv
    <3> QED  BY <2>2, <3>1, <3>2, ReadyStep
  <2> QED  BY <2>1, <2>2
<1>3. Spec => []Lists_ /\ []Choice
  BY ListsKept, ChoiceKept
<1> HIDE DEF Lists_, Choice, Safe
<1>4. Spec => []Safe
  BY <1>1, <1>2, <1>3, PTL DEF Spec
<1> QED  BY <1>4 DEF Safe

THEOREM NeverCrashes ==
  ASSUME Slice = 0, Permits = {}, "Suspend" \notin IsrCalls
  PROVE  Spec => []NoCrash
<1>1. ReadyInv /\ ~halt => NoCrash
  BY DEF NoCrash
<1> QED  BY <1>1, Runs, PTL
-----------------------------------------------------------------------------
\* Only creations take a control block off Recycle: it is unused, and no other call and
\* no interrupt unlinks an unused task.
LEMMA RecycleKept ==
  ASSUME TypeInv, ListInv, Next, ~halt', ~CreateStep, Slice = 0,
         NEW z \in Task, z \in ToSet(list[Recycle])
  PROVE  z \in ToSet(list'[Recycle])
<1> USE DEF taskVars, cpuVars
<1>0. /\ list \in Lists /\ Recycle \in Head_ /\ Free \in Head_ /\ Recycle # Free
      /\ prio \in [Task -> Prio] /\ Prio \subseteq Head_ /\ Obj \subseteq Head_
  BY Heads DEF TypeInv, TypeOK, Lists
<1>1. "UNUSED" \in status[z] /\ z # run
  <2>1. "UNUSED" \in status[z]
    BY ListsAgree
  <2> QED  BY <2>1 DEF ListInv, CpuFits
<1>2. ASSUME NEW u \in Task, "UNUSED" \notin status[u]
      PROVE  /\ Unlink(list, u) \in Lists /\ z \in ToSet(Unlink(list, u)[Recycle])
             /\ \A h \in Head_ : /\ z \in ToSet(AddTail(Unlink(list, u), h, u)[Recycle])
                                 /\ z \in ToSet(AddHead(Unlink(list, u), h, u)[Recycle])
                                 /\ z \in ToSet(AddTail(list, h, u)[Recycle])
                                 /\ z \in ToSet(AddHead(list, h, u)[Recycle])
  <2>1. z # u
    BY <1>1, <1>2
  <2>2. Unlink(list, u) \in Lists /\ z \in ToSet(Unlink(list, u)[Recycle])
    BY <1>0, <2>1, UnlinkType
  <2> QED  BY <1>0, <2>2, AddTailType, AddHeadType
<1>3. ASSUME NEW t \in Task, Known(t) PROVE "UNUSED" \notin status[t]
  BY <1>3 DEF Known
<1>4. ASSUME run \in Task PROVE "UNUSED" \notin status[run]
  BY <1>4 DEF ListInv, CpuFits
<1>5. ASSUME NEW name, MayCall("task", name) PROVE run \in Task
  BY <1>5 DEF MayCall, TaskRuns
<1>6. ASSUME NEW c \in Context, NEW t \in Task, LOS_TaskResume(c, t) \/ LOS_TaskSuspend(c, t)
      PROVE  z \in ToSet(list'[Recycle])
  BY <1>0, <1>2, <1>3, <1>6 DEF LOS_TaskResume, LOS_TaskSuspend
<1>7. ASSUME NEW c \in Context, NEW t \in Task, LOS_TaskDelete(c, t)
      PROVE  z \in ToSet(list'[Recycle])
  <2>1. \/ t = run /\ list' = AddTail(Detach(t), Recycle, t)
        \/ list' = AddHead(Detach(t), Free, t)
    BY <1>7 DEF LOS_TaskDelete, RetireRun
  <2>2. "UNUSED" \notin status[t]
    BY <1>3, <1>7 DEF LOS_TaskDelete
  <2> QED  BY <1>0, <1>2, <2>1, <2>2 DEF Detach
<1>8. ASSUME NEW c \in Context, NEW t \in Task, NEW p \in AppPrio, LOS_TaskPriSet(c, t, p)
      PROVE  z \in ToSet(list'[Recycle])
  BY <1>2, <1>3, <1>8, Heads DEF LOS_TaskPriSet
<1>9. CASE TaskEntryDetached
  <2>1. run \in Task /\ list' = AddTail(Detach(run), Recycle, run)
    BY <1>9 DEF TaskEntryDetached, Returns, TaskRuns, RetireRun
  <2> QED  BY <1>0, <1>2, <1>4, <2>1 DEF Detach
<1>10. CASE TaskEntryFinish
  BY <1>2, <1>4, <1>10 DEF TaskEntryFinish, TaskRuns
<1>11. CASE LOS_TaskYield \/ \E n \in Timeouts : LOS_TaskDelay(n)
  <2>1. run \in Task /\ prio[run] \in Head_
    BY <1>0, <1>5, <1>11 DEF LOS_TaskYield, LOS_TaskDelay
  <2> QED  BY <1>2, <1>4, <1>11, <2>1 DEF LOS_TaskYield, LOS_TaskDelay, Rotate
<1>12. ASSUME NEW o \in Obj, NEW n \in Timeouts \cup {Forever},
              NEW i \in 1..Len(Unlink(list, run)[o]) + 1, Pend(o, n, i)
       PROVE  z \in ToSet(list'[Recycle])
  <2>1. run \in Task /\ o # Recycle
    BY <1>5, <1>12, Heads DEF Pend, Block
  <2>2. Unlink(list, run) \in Lists /\ z \in ToSet(Unlink(list, run)[Recycle])
    BY <1>2, <1>4, <2>1
  <2>3. list' = [Unlink(list, run) EXCEPT ![o] = InsertAt(@, i, run)]
    BY <1>12 DEF Pend, Block
  <2>4. list'[Recycle] = Unlink(list, run)[Recycle]
    BY <1>0, <2>1, <2>2, <2>3 DEF Lists
  <2> QED  BY <2>2, <2>4
<1>13. ASSUME NEW c \in Context, NEW o \in Obj, Wakes(c, o) PROVE z \in ToSet(list'[Recycle])
  <2>1. PICK t \in Task : t = Head(list[o]) /\ o \in On(list, t)
    <3>1. list[o] # <<>> /\ o \in Head_ /\ Distinct(list)
      BY <1>0, <1>13, ListFacts DEF Wakes, Hand, ListInv
    <3> QED  BY <3>1, OnTakeHead
  <2>2. "UNUSED" \notin status[t]
    <3>1. Waiting(t) # {}
      BY <2>1, ListsAgree DEF On
    <3>2. "UNUSED" \in status[t] => status[t] = {"UNUSED"}
      BY DEF ListInv, TasksFit, Fits
    <3> QED  BY <3>1, <3>2 DEF Waiting
  <2>3. list' = Unlink(list, t) \/ list' = AddTail(Unlink(list, t), prio[t], t)
    BY <1>13, <2>1 DEF Wakes, Hand
  <2> QED  BY <1>0, <1>2, <2>2, <2>3
<1>14. CASE ScanExpire
  <2>1. PICK t \in Task : t = scan.task /\ t \in ToSet(timerQ)
    <3>1. scan.task \in ToSet(timerQ) /\ timerQ \in Seq(Task)
      BY <1>14 DEF ScanExpire, TypeInv, TypeOK
    <3> QED  BY <3>1, InToSet
  <2>2. "UNUSED" \notin status[t]
    <3>1. Fits(status[t], prio[t], On(list, t), TRUE, pc[t], Grown(t))
      BY <2>1 DEF ListInv, TasksFit
    <3> QED  BY <3>1 DEF Fits
  <2>3. list' \in {list, Unlink(list, t), AddTail(list, prio[t], t),
                   AddTail(Unlink(list, t), prio[t], t)}
    BY <1>14, <2>1 DEF ScanExpire
  <2> QED  BY <1>0, <1>2, <2>2, <2>3
<1>15. ~TickYield
  BY DEF TickYield
<1>16. CASE LOS_Start \/ SwitchStep \/ Tick \/ ScanNext \/ ScanEnd
  BY <1>16 DEF LOS_Start, SwitchStep, TaskSchedule, TaskSwitch, PendSV, Tick, ScanNext, ScanEnd
<1>17. CASE TaskEntryJoinable \/ TaskEntryUnlock \/ osTaskExit \/ LOS_TaskLock \/ LOS_TaskUnlock
            \/ WaitReturn
  BY <1>17 DEF TaskEntryJoinable, TaskEntryUnlock, osTaskExit, LOS_TaskLock, LOS_TaskUnlock,
     WaitReturn
<1>18. CASE ControlStep
  BY <1>18, <1>6, <1>7, <1>8, <1>9, <1>10, <1>11, <1>17 DEF ControlStep
<1>19. CASE WaitStep
  BY <1>19, <1>12, <1>13, <1>17, WakesContext DEF WaitStep
<1> QED  BY <1>14, <1>15, <1>16, <1>18, <1>19 DEF Next, TickStep

\* The block of the task whose context Dummy carries on is on Recycle.
LEMMA StackStep ==
  ASSUME TypeInv, ListInv, Next, ~halt', TypeInv', Slice = 0, "Create" \notin IsrCalls,
         run = Dummy /\ started => zombie \in Task /\ zombie \in ToSet(list[Recycle]),
         run' = Dummy, started'
  PROVE  zombie' \in Task /\ zombie' \in ToSet(list'[Recycle])
<1> USE DEF taskVars, cpuVars
<1>0. list \in Lists /\ Recycle \in Head_ /\ Dummy \notin Task /\ new \in Task
  BY Heads DEF TypeInv, TypeOK, Lists
<1>1. ASSUME NEW c, run \in Task, RetireRun(c), "UNUSED" \notin status[run]
      PROVE  zombie' \in Task /\ zombie' \in ToSet(list'[Recycle])
  <2>1. Detach(run) \in Lists
    BY <1>0, UnlinkType DEF Detach
  <2>2. list' = AddTail(Detach(run), Recycle, run) /\ zombie' = run
    BY <1>1 DEF RetireRun
  <2> QED  BY <1>0, <1>1, <2>1, <2>2, AddTailType
<1>2. run \in Task => "UNUSED" \notin status[run]
  BY DEF ListInv, CpuFits
<1>3. CASE TaskEntryDetached
  BY <1>1, <1>2, <1>3 DEF TaskEntryDetached, Returns, TaskRuns
<1>4. ASSUME NEW c \in Context, NEW t \in Task, LOS_TaskDelete(c, t), run' # run
      PROVE  zombie' \in Task /\ zombie' \in ToSet(list'[Recycle])
  BY <1>1, <1>2, <1>4 DEF LOS_TaskDelete
<1>5. ~LOS_Start /\ ~PendSV
  BY <1>0 DEF LOS_Start, PendSV
<1>6. ASSUME run = Dummy, started, zombie' = zombie, ~CreateStep
      PROVE  zombie' \in Task /\ zombie' \in ToSet(list'[Recycle])
  BY <1>6, RecycleKept
<1>7. ASSUME run' = run, started' = started, zombie' = zombie
      PROVE  zombie' \in Task /\ zombie' \in ToSet(list'[Recycle])
  <2>1. run = Dummy /\ started
    BY <1>7
  <2>2. ~CreateStep
    <3>1. \A c \in Context : ~MayCall(c, "Create")
      BY <1>0, <2>1 DEF MayCall, TaskRuns, Context
    <3>2. ~MayCall("task", "Create") /\ \A where : ~TaskRuns(where)
      BY <1>0, <2>1 DEF MayCall, TaskRuns
    <3>3. /\ ~TaskCreateTake /\ ~TaskCreateNoMemory /\ ~TaskCreateReady
          /\ \A p, flags : ~TaskCreateFill(p, flags)
      BY <3>2 DEF TaskCreateTake, TaskCreateNoMemory, TaskCreateReady, TaskCreateFill
    <3> QED  BY <3>1, <3>3 DEF CreateStep, CreateNothing, LOS_TaskCreateOnly, LOS_TaskCreate,
                CreateAtOnce
  <2> QED  BY <1>6, <1>7, <2>1, <2>2
<1>8. CASE CreateStep
  <2>1. CASE \/ TaskCreateTake \/ TaskCreateNoMemory \/ TaskCreateReady
             \/ \E p \in AppPrio, flags \in Attr : TaskCreateFill(p, flags)
    BY <1>7, <2>1 DEF TaskCreateTake, TaskCreateNoMemory, TaskCreateReady, TaskCreateFill
  <2>2. CASE \E c \in Context : CreateNothing(c)
    BY <1>7, <2>2 DEF CreateNothing
  <2>3. ASSUME NEW c \in Context, NEW t \in Task, NEW p \in AppPrio, NEW flags \in Attr,
               LOS_TaskCreateOnly(c, t, p, flags) \/ LOS_TaskCreate(c, t, p, flags)
        PROVE  zombie' \in Task /\ zombie' \in ToSet(list'[Recycle])
    BY <1>7, <2>3 DEF LOS_TaskCreateOnly, LOS_TaskCreate, CreateAtOnce
  <2> QED  BY <1>8, <2>1, <2>2, <2>3 DEF CreateStep
<1>9. ASSUME NEW c \in Context, NEW t \in Task, LOS_TaskDelete(c, t)
      PROVE  zombie' \in Task /\ zombie' \in ToSet(list'[Recycle])
  <2>1. CASE t = run /\ RetireRun(c)
    <3>1. run' # run
      BY <1>0, <2>1 DEF RetireRun
    <3> QED  BY <1>4, <1>9, <3>1
  <2>2. CASE UNCHANGED <<run, zombie>>
    <3>1. started' = started
      BY <1>9 DEF LOS_TaskDelete
    <3> QED  BY <1>7, <2>2, <3>1
  <2> QED  BY <1>9, <2>1, <2>2 DEF LOS_TaskDelete
<1>10. ASSUME \/ \E c \in Context, t \in Task :
                   \/ LOS_TaskResume(c, t) \/ LOS_TaskSuspend(c, t)
                   \/ \E p \in AppPrio : LOS_TaskPriSet(c, t, p)
              \/ TaskEntryJoinable \/ TaskEntryFinish \/ TaskEntryUnlock \/ osTaskExit
              \/ \E n \in Timeouts : LOS_TaskDelay(n)
              \/ LOS_TaskYield \/ LOS_TaskLock \/ LOS_TaskUnlock
       PROVE  run' = run /\ started' = started /\ zombie' = zombie
  BY <1>10 DEF LOS_TaskResume, LOS_TaskSuspend, LOS_TaskPriSet, TaskEntryJoinable,
     TaskEntryFinish, TaskEntryUnlock, osTaskExit, LOS_TaskDelay, LOS_TaskYield, LOS_TaskLock,
     LOS_TaskUnlock
<1>11. CASE ControlStep
  BY <1>3, <1>7, <1>9, <1>10, <1>11 DEF ControlStep
<1>12. CASE WaitStep
  BY <1>7, <1>12 DEF WaitStep, Pend, Block, Wake, Release, PassOn, Hand, WaitReturn
<1>13. CASE SwitchStep \/ TickStep
  BY <1>5, <1>7, <1>13 DEF SwitchStep, TaskSchedule, TaskSwitch, TickStep, Tick, TickYield,
     TickBegin, ScanNext, ScanExpire, ScanEnd
<1> QED  BY <1>5, <1>8, <1>11, <1>12, <1>13 DEF Next

\* If no handler creates a task, a task that deletes itself keeps its control block on
\* Recycle, and so its stack, until the switch away from it.
THEOREM StackStays ==
  ASSUME Slice = 0, Permits = {}, "Suspend" \notin IsrCalls, "Create" \notin IsrCalls
  PROVE  Spec => []StackInUse
<1> DEFINE Lists_ == TypeInv /\ (~halt => ListInv /\ DelayInv)
           Safe == ReadyInv /\ ~halt
           Stack == run = Dummy /\ started => zombie \in Task /\ zombie \in ToSet(list[Recycle])
<1>1. Init => Stack
  BY DEF Init
<1>2. Lists_ /\ Lists_' /\ Safe /\ Safe' /\ Stack /\ [Next]_vars => Stack'
  <2> SUFFICES ASSUME Lists_, Lists_', Safe, Safe', Stack, [Next]_vars PROVE Stack'
    OBVIOUS
  <2>1. CASE UNCHANGED vars
    BY <2>1 DEF vars, taskVars, cpuVars
  <2>2. CASE Next
    BY <2>2, StackStep
  <2> QED  BY <2>1, <2>2
<1>3. Stack => StackInUse
  BY DEF StackInUse
<1>4. Spec => []Lists_ /\ []Safe
  BY ListsKept, Runs
<1> HIDE DEF Lists_, Safe, Stack
<1> QED  BY <1>1, <1>2, <1>3, <1>4, PTL DEF Spec
=============================================================================
