----------------------------- MODULE Queue_proofs -----------------------------
(***************************************************************************)
(* Proofs about Queue, for any number of tasks, queues, nodes and blocks.  *)
(*                                                                         *)
(* Reading, writing and the mail box block and wake as Pend, Wake, PassOn  *)
(* and WaitReturn of Task do, so what is proved of Task holds here.  As    *)
(* with semaphores, that no task waits beside a free node or a message     *)
(* rests on nothing but a blocking call putting a task on those lists.     *)
(*                                                                         *)
(* The account of the nodes (NodesCounted) looks at woken tasks.  A step   *)
(* of a queue moves one node between the two counts and the tasks that     *)
(* read and write: it adds to one of the four and takes from one.  No step *)
(* of the scheduler changes who owns a node (GrantKept), as long as tasks  *)
(* are not deleted: a task that is takes its node with it.                 *)
(*                                                                         *)
(* That account makes the ring a Fifo.  Its messages are those to be read  *)
(* and those of woken readers: reading and waking a reader only move one   *)
(* from the first to the second.  Every step opens or drops a queue, takes *)
(* the message at the head, puts one at the tail, or moves a block outside *)
(* of the rings (StepMoves), and each block is in one place (Once).        *)
(***************************************************************************)
EXTENDS Queue, Task_proofs

LEMMA QueueConstants ==
  /\ \A q \in Queue : ReadList[q] \in Obj /\ WriteList[q] \in Obj /\ MemList[q] \in Obj
  /\ \A q, r \in Queue :
       /\ ReadList[q] # WriteList[r] /\ WriteList[q] # MemList[r] /\ MemList[q] # ReadList[r]
       /\ q # r => /\ ReadList[q] # ReadList[r] /\ WriteList[q] # WriteList[r]
                   /\ MemList[q] # MemList[r]
  /\ QueueLen \in Nat
BY QueueAssumption

\* The place where osQueuePend inserts the caller is one of the list it then is on.
LEMMA PendPlaceRange ==
  ASSUME NEW L \in Seq(Task)
  PROVE  PendPlace(L) \in 1..Len(L) + 1
<1> DEFINE less == {i \in DOMAIN L : prio[run] < prio[L[i]]}
<1>1. Len(L) \in Nat /\ less \in SUBSET Nat /\ less \subseteq 1..Len(L)
  BY InToSet
<1>2. PendPlace(L) = IF less = {} THEN Len(L) + 1 ELSE Min(less)
  BY DEF PendPlace
<1> HIDE DEF less
<1>3. CASE less = {}
  BY <1>1, <1>2, <1>3
<1>4. CASE less # {}
  <2>1. \E m \in less : \A k \in less : m <= k
    BY <1>1, <1>4, MinExists
  <2>2. Min(less) \in less
    BY <2>1 DEF Min
  <2>3. PendPlace(L) = Min(less)
    BY <1>2, <1>4
  <2> DEFINE m == Min(less)
  <2>4. m \in less /\ PendPlace(L) = m
    BY <2>2, <2>3
  <2> HIDE DEF m
  <2>5. m \in 1..Len(L) /\ 1..Len(L) \subseteq 1..Len(L) + 1
    BY <1>1, <2>4
  <2> QED  BY <2>4, <2>5
<1> QED  BY <1>3, <1>4

\* Blocking at a queue is a step of the scheduler.
LEMMA QueuePendIsStep ==
  ASSUME TypeInv, NEW o \in Obj, NEW n \in Timeouts \cup {Forever}, NEW ask,
         QueuePend(o, n, ask)
  PROVE  Next
<1> DEFINE i == PendPlace(Unlink(list, run)[o])
<1>1. Unlink(list, run) \in Lists
  BY UnlinkType DEF TypeInv, TypeOK, Lists
<1>2. i \in 1..Len(Unlink(list, run)[o]) + 1
  BY <1>1, PendPlaceRange, Heads DEF Lists
<1>3. Pend(o, n, i)
  BY DEF QueuePend
<1> QED  BY <1>2, <1>3 DEF Next, WaitStep

\* A step with queues is a step of Task.
LEMMA QueueStepIsStep == TypeInv /\ [QueueNext]_allVars => [Next]_vars
<1> SUFFICES ASSUME TypeInv, [QueueNext]_allVars PROVE [Next]_vars
  OBVIOUS
<1> USE QueueConstants
<1>1. CASE UNCHANGED vars
  BY <1>1
<1>2. ASSUME NEW c \in Context, NEW q \in Queue, LOS_QueueCreate(c, q) \/ LOS_QueueDelete(c, q)
      PROVE  UNCHANGED vars
  BY <1>2 DEF LOS_QueueCreate, LOS_QueueDelete
<1>3. ASSUME NEW c \in Context, NEW o \in Obj, Wake(c, o) PROVE Next
  BY <1>3 DEF Next, WaitStep
<1>4. ASSUME NEW o \in Obj, PassOn(o) PROVE Next
  BY <1>4 DEF Next, WaitStep
<1>5. CASE WaitReturn
  BY <1>5 DEF Next, WaitStep
<1>6. ASSUME NEW q \in Queue, ReadStep(q) PROVE [Next]_vars
  <2>1. ASSUME NEW c \in Context, ReadTake(c, q) PROVE [Next]_vars
    BY <2>1, <1>3 DEF ReadTake
  <2>2. CASE ReadReturn(q)
    BY <2>2, <1>4, <1>5 DEF ReadReturn
  <2>3. ASSUME NEW n \in Timeouts \cup {Forever}, ReadBlock(q, n) PROVE Next
    BY <2>3, QueuePendIsStep DEF ReadBlock
  <2> QED  BY <1>6, <2>1, <2>2, <2>3 DEF ReadStep
<1>7. ASSUME NEW q \in Queue, WriteStep(q) PROVE [Next]_vars
  <2>1. ASSUME NEW c \in Context, NEW m \in Box, WriteTake(c, q, m) PROVE [Next]_vars
    BY <2>1, <1>3 DEF WriteTake
  <2>2. CASE WriteReturn(q)
    BY <2>2, <1>4, <1>5 DEF WriteReturn
  <2>3. ASSUME NEW m \in Box, NEW n \in Timeouts \cup {Forever}, WriteBlock(q, m, n) PROVE Next
    BY <2>3, QueuePendIsStep DEF WriteBlock
  <2> QED  BY <1>7, <2>1, <2>2, <2>3 DEF WriteStep
<1>8. ASSUME NEW q \in Queue, MailStep(q) PROVE [Next]_vars
  <2>1. ASSUME NEW c \in Context, NEW b \in Box, MailFreeWake(c, q, b) PROVE Next
    BY <2>1, <1>3 DEF MailFreeWake
  <2>2. ASSUME NEW c \in Context, NEW b \in Box, MailFree(c, q, b) PROVE UNCHANGED vars
    BY <2>2 DEF MailFree
  <2>3. CASE MailAllocReturn(q)
    BY <2>3, <1>5 DEF MailAllocReturn
  <2>4. ASSUME NEW n \in Timeouts \cup {Forever}, MailAllocBlock(q, n) PROVE Next
    BY <2>4, QueuePendIsStep DEF MailAllocBlock
  <2> QED  BY <1>8, <2>1, <2>2, <2>3, <2>4 DEF MailStep
<1>9. ASSUME NEW c \in Context, NEW b \in Box, MailAllocTake(c, b) PROVE UNCHANGED vars
  BY <1>9 DEF MailAllocTake
<1>10. CASE TimedOut
  BY <1>10, <1>5 DEF TimedOut
<1>11. CASE KernelStep
  BY <1>11 DEF KernelStep, Next, WaitStep
<1> QED
  BY <1>1, <1>2, <1>6, <1>7, <1>8, <1>9, <1>10, <1>11 DEF QueueNext, allVars

\* The kernel with queues is an implementation of the scheduler: reads, writes and mail
\* calls block and wake as Pend, Wake and PassOn promise, and change nothing else of it.
THEOREM QueueImplementsTask == QueueSpec => Spec
<1>1. QueueInit => Init
  BY DEF QueueInit
<1>2. TypeInv /\ [QueueNext]_allVars => TypeInv'
  BY QueueStepIsStep, TypeStep
<1> QED  BY <1>1, <1>2, TypeInit, QueueStepIsStep, PTL DEF QueueSpec, Spec
-----------------------------------------------------------------------------
\* No object gets its first waiter, but perhaps o.
Quiet(o) == \A p \in Obj \ {o} : list'[p] # <<>> => list[p] # <<>>

LEMMA NotFirst ==
  ASSUME NEW p \in Obj, NEW L \in Lists, ToSet(L[p]) \subseteq ToSet(list[p]), L[p] # <<>>
  PROVE  list[p] # <<>>
<1>1. L[p] \in Seq(Task)
  BY Heads DEF Lists
<1>2. ToSet(L[p]) # {}
  BY <1>1, HeadTailRange
<1>3. ToSet(<<>>) = {}
  BY DEF ToSet
<1> QED  BY <1>2, <1>3

LEMMA FewerQuiet ==
  ASSUME Fewer(list')
  PROVE  \A p \in Obj : list'[p] # <<>> => list[p] # <<>>
BY NotFirst DEF Fewer

\* Who is woken leaves the list, and no object gets a waiter.
LEMMA HandFewer ==
  ASSUME TypeInv, NEW c, NEW o \in Obj, Hand(list, c, o)
  PROVE  Fewer(list')
<1>0. list \in Lists /\ prio \in [Task -> Prio]
  BY DEF TypeInv, TypeOK, Lists
<1> DEFINE t == Head(list[o])
<1>1. t \in Task /\ prio[t] \in Head_ \ Obj
  BY <1>0, HeadTailRange, Heads DEF Hand, Lists
<1>2. list' = Unlink(list, t) \/ list' = AddTail(Unlink(list, t), prio[t], t)
  BY DEF Hand
<1> HIDE DEF t
<1> QED  BY <1>0, <1>1, <1>2, FewerNow, FewerKept

LEMMA HandQuiet ==
  ASSUME TypeInv, NEW c, NEW o \in Obj, Hand(list, c, o)
  PROVE  \A p \in Obj : list'[p] # <<>> => list[p] # <<>>
BY HandFewer, FewerQuiet

\* Who blocks waits at one object.
LEMMA PendQuiet ==
  ASSUME TypeInv, NEW o \in Obj, NEW n, NEW ask, QueuePend(o, n, ask)
  PROVE  Quiet(o)
<1>0. list \in Lists
  BY DEF TypeInv, TypeOK, Lists
<1> DEFINE M == Unlink(list, run)
<1>1. /\ M \in Lists
      /\ \A h \in Head_ : ToSet(M[h]) \subseteq ToSet(list[h])
  BY <1>0, UnlinkType
<1>2. list' = [M EXCEPT ![o] = InsertAt(@, PendPlace(M[o]), run)]
  BY DEF QueuePend, Pend, Block
<1> HIDE DEF M
<1>3. \A p \in Obj \ {o} : list'[p] = M[p]
  BY <1>1, <1>2, Heads DEF Lists
<1> QED  BY <1>1, <1>3, NotFirst, Heads DEF Quiet

Counts == readable \in [Queue -> Nat] /\ writable \in [Queue -> Nat]

LEMMA CountsStep == Counts /\ [QueueNext]_allVars => Counts'
<1> SUFFICES ASSUME Counts, [QueueNext]_allVars PROVE Counts'
  OBVIOUS
<1> USE QueueConstants DEF Counts
<1>1. CASE UNCHANGED <<readable, writable>>
  BY <1>1
<1>2. ASSUME NEW c \in Context, NEW q \in Queue, LOS_QueueCreate(c, q) \/ LOS_QueueDelete(c, q)
      PROVE  Counts'
  <2>1. \/ UNCHANGED <<readable, writable>>
        \/ /\ readable' = [readable EXCEPT ![q] = 0]
           /\ writable' = [writable EXCEPT ![q] = QueueLen]
    BY <1>2 DEF LOS_QueueCreate, LOS_QueueDelete
  <2> QED  BY <2>1
<1>3. ASSUME NEW q \in Queue, ReadStep(q) PROVE Counts'
  <2>1. ASSUME NEW c \in Context, ReadTake(c, q) PROVE Counts'
    <3>1. /\ readable[q] > 0 /\ readable' = [readable EXCEPT ![q] = @ - 1]
          /\ UNCHANGED writable \/ writable' = [writable EXCEPT ![q] = @ + 1]
      BY <2>1 DEF ReadTake
    <3> QED  BY <3>1
  <2>2. CASE ReadReturn(q)
    <3>1. /\ UNCHANGED readable
          /\ UNCHANGED writable \/ writable' = [writable EXCEPT ![q] = @ + 1]
      BY <2>2 DEF ReadReturn
    <3> QED  BY <3>1
  <2> QED  BY <1>3, <2>1, <2>2 DEF ReadStep, ReadBlock, queueVars
<1>4. ASSUME NEW q \in Queue, WriteStep(q) PROVE Counts'
  <2>1. ASSUME NEW c \in Context, NEW m \in Box, WriteTake(c, q, m) PROVE Counts'
    <3>1. /\ writable[q] > 0 /\ writable' = [writable EXCEPT ![q] = @ - 1]
          /\ UNCHANGED readable \/ readable' = [readable EXCEPT ![q] = @ + 1]
      BY <2>1 DEF WriteTake
    <3> QED  BY <3>1
  <2>2. CASE WriteReturn(q)
    <3>1. /\ UNCHANGED writable
          /\ UNCHANGED readable \/ readable' = [readable EXCEPT ![q] = @ + 1]
      BY <2>2 DEF WriteReturn
    <3> QED  BY <3>1
  <2> QED  BY <1>4, <2>1, <2>2 DEF WriteStep, WriteBlock, queueVars
<1>5. ASSUME NEW q \in Queue, MailStep(q) PROVE UNCHANGED queueVars
  BY <1>5 DEF MailStep, MailFreeWake, MailFree, MailAllocReturn, MailAllocBlock
<1>6. ASSUME NEW c \in Context, NEW b \in Box, MailAllocTake(c, b) PROVE UNCHANGED queueVars
  BY <1>6 DEF MailAllocTake
<1> QED  BY <1>1, <1>2, <1>3, <1>4, <1>5, <1>6 DEF QueueNext, TimedOut, allVars, queueVars

\* Every step keeps the nodes where they are wanted: a task comes to wait only where there
\* is none for it, and a node comes to be counted only where none waits.
LEMMA NodesFoundStep ==
  TypeInv /\ Counts /\ NodesFound /\ [QueueNext]_allVars => NodesFound'
<1> SUFFICES ASSUME TypeInv, Counts, NodesFound, [QueueNext]_allVars, NEW q \in Queue
             PROVE  /\ list'[ReadList[q]] # <<>> => q \in used' /\ readable'[q] = 0
                    /\ list'[WriteList[q]] # <<>> => q \in used' /\ writable'[q] = 0
  BY DEF NodesFound
<1> DEFINE Goal == /\ list'[ReadList[q]] # <<>> => q \in used' /\ readable'[q] = 0
                   /\ list'[WriteList[q]] # <<>> => q \in used' /\ writable'[q] = 0
<1> USE QueueConstants
<1>0. /\ list[ReadList[q]] # <<>> => q \in used /\ readable[q] = 0
      /\ list[WriteList[q]] # <<>> => q \in used /\ writable[q] = 0
  BY DEF NodesFound
<1>1. CASE UNCHANGED <<list, used, readable, writable>>
  BY <1>0, <1>1
<1>2. ASSUME \A p \in Obj : list'[p] # <<>> => list[p] # <<>>,
             UNCHANGED <<used, readable, writable>>
      PROVE  Goal
  BY <1>0, <1>2
<1>3. CASE KernelStep /\ UNCHANGED <<used, readable, writable>>
  <2>1. list' \in Lists
    BY <1>3, QueueStepIsStep, TypeStep DEF TypeInv, TypeOK, Lists
  <2>2. Fewer(list')
    BY <1>3, <2>1, OnlyPendAdds DEF Fewer
  <2> QED  BY <1>2, <1>3, <2>2, FewerQuiet
<1>4. ASSUME WaitReturn PROVE UNCHANGED list
  BY <1>4 DEF WaitReturn
<1>5. ASSUME NEW c \in Context, NEW o \in Obj, Wake(c, o) \/ PassOn(o)
      PROVE  \A p \in Obj : list'[p] # <<>> => list[p] # <<>>
  BY <1>5, HandQuiet DEF Wake, Release, PassOn
<1>6. ASSUME NEW c \in Context, NEW r \in Queue, LOS_QueueCreate(c, r) \/ LOS_QueueDelete(c, r)
      PROVE  Goal
  <2>1. CASE LOS_QueueCreate(c, r)
    <3>1. r \notin used
      BY <2>1 DEF LOS_QueueCreate, FirstUnused
    <3>2. /\ used' = used \cup {r} /\ UNCHANGED list
          /\ readable' = [readable EXCEPT ![r] = 0]
          /\ writable' = [writable EXCEPT ![r] = QueueLen]
      BY <2>1 DEF LOS_QueueCreate, vars, taskVars
    <3> QED  BY <1>0, <3>1, <3>2 DEF Counts
  <2>2. CASE LOS_QueueDelete(c, r)
    <3>1. /\ list[ReadList[r]] = <<>> /\ list[WriteList[r]] = <<>>
          /\ used' = used \ {r} /\ UNCHANGED <<list, readable, writable>>
      BY <2>2 DEF LOS_QueueDelete, vars, taskVars
    <3> QED  BY <1>0, <3>1
  <2> QED  BY <1>6, <2>1, <2>2
<1>7. ASSUME NEW r \in Queue, ReadStep(r) PROVE Goal
  <2>1. ASSUME NEW c \in Context, ReadTake(c, r) PROVE Goal
    BY <1>0, <1>5, <2>1 DEF ReadTake, TakeNode, vars, taskVars, Counts
  <2>2. CASE ReadReturn(r)
    BY <1>0, <1>4, <1>5, <2>2 DEF ReadReturn, TakeNode, Counts, Context
  <2>3. ASSUME NEW n \in Timeouts \cup {Forever}, ReadBlock(r, n) PROVE Goal
    BY <1>0, <2>3, PendQuiet DEF Quiet, ReadBlock, queueVars
  <2> QED  BY <1>7, <2>1, <2>2, <2>3 DEF ReadStep
<1>8. ASSUME NEW r \in Queue, WriteStep(r) PROVE Goal
  <2>1. ASSUME NEW c \in Context, NEW m \in Box, WriteTake(c, r, m) PROVE Goal
    BY <1>0, <1>5, <2>1 DEF WriteTake, FillNode, vars, taskVars, Counts
  <2>2. CASE WriteReturn(r)
    BY <1>0, <1>4, <1>5, <2>2 DEF WriteReturn, FillNode, Counts, Context
  <2>3. ASSUME NEW m \in Box, NEW n \in Timeouts \cup {Forever}, WriteBlock(r, m, n) PROVE Goal
    BY <1>0, <2>3, PendQuiet DEF Quiet, WriteBlock, queueVars
  <2> QED  BY <1>8, <2>1, <2>2, <2>3 DEF WriteStep
<1>9. ASSUME NEW r \in Queue, MailStep(r) PROVE Goal
  <2>1. ASSUME NEW c \in Context, NEW b \in Box, MailFreeWake(c, r, b) PROVE Goal
    BY <1>2, <1>5, <2>1 DEF MailFreeWake, queueVars
  <2>2. ASSUME NEW c \in Context, NEW b \in Box, MailFree(c, r, b) PROVE Goal
    BY <1>1, <2>2 DEF MailFree, queueVars, vars, taskVars
  <2>3. CASE MailAllocReturn(r)
    BY <1>1, <1>4, <2>3 DEF MailAllocReturn, queueVars
  <2>4. ASSUME NEW n \in Timeouts \cup {Forever}, MailAllocBlock(r, n) PROVE Goal
    BY <1>0, <2>4, PendQuiet DEF Quiet, MailAllocBlock, queueVars
  <2> QED  BY <1>9, <2>1, <2>2, <2>3, <2>4 DEF MailStep
<1>10. ASSUME NEW c \in Context, NEW b \in Box, MailAllocTake(c, b) PROVE Goal
  BY <1>1, <1>10 DEF MailAllocTake, queueVars, vars, taskVars
<1>11. CASE TimedOut
  BY <1>1, <1>4, <1>11 DEF TimedOut, queueVars
<1>12. CASE UNCHANGED allVars
  BY <1>1, <1>12 DEF allVars, queueVars, vars, taskVars
<1> QED
  BY <1>3, <1>6, <1>7, <1>8, <1>9, <1>10, <1>11, <1>12 DEF QueueNext, queueVars

\* At the start no task waits.
LEMMA EmptyAtStart == QueueInit => \A o \in Obj : list[o] = <<>>
<1>1. 0 \in Prio
  BY TaskAssumption DEF Prio
<1>2. \A o \in Obj : o \in Head_ /\ o \notin {Free, Lowest, 0}
  BY <1>1, Heads
<1> QED  BY <1>2 DEF QueueInit, Init

LEMMA QueueInitInv == QueueInit => TypeInv /\ Counts /\ NodesFound
<1>1. QueueInit => TypeInv /\ Counts
  BY TypeInit DEF QueueInit, Counts
<1> QED  BY <1>1, EmptyAtStart, QueueConstants DEF NodesFound

\* The invariant that is inductive: types of the scheduler and of the counts, and the
\* property itself.
LEMMA NodesInvariant == QueueSpec => [](TypeInv /\ Counts /\ NodesFound)
<1>1. TypeInv /\ [QueueNext]_allVars => TypeInv'
  BY QueueStepIsStep, TypeStep
<1> QED  BY <1>1, CountsStep, NodesFoundStep, QueueInitInv, PTL DEF QueueSpec

\* No task waits to read where a message is counted, to write where a node is, nor at a
\* deleted queue: what reads, writes and LOS_QueueDelete rely on when they look at the
\* count or the list alone.
THEOREM NodesReachWaiters == QueueSpec => []NodesFound
BY NodesInvariant, PTL

BlocksFound == \A q \in Queue : list[MemList[q]] # <<>> => q \in used /\ boxFree = <<>>

LEMMA BlocksFoundStep ==
  ASSUME \A q, r \in Queue : q = r
  PROVE  TypeInv /\ BlocksFound /\ [QueueNext]_allVars => BlocksFound'
<1> SUFFICES ASSUME TypeInv, BlocksFound, [QueueNext]_allVars, NEW q \in Queue,
                    list'[MemList[q]] # <<>>
             PROVE  q \in used' /\ boxFree' = <<>>
  BY DEF BlocksFound
<1> DEFINE o == MemList[q]
           Goal == q \in used' /\ boxFree' = <<>>
<1> USE QueueConstants
<1>0. /\ list[o] # <<>> => q \in used /\ boxFree = <<>>
      /\ \A r \in Queue : r = q
  BY DEF BlocksFound
<1>1. CASE list[o] # <<>> /\ UNCHANGED <<used, boxFree>>
  BY <1>0, <1>1
<1>2. CASE KernelStep /\ UNCHANGED <<used, boxFree>>
  <2>1. list' \in Lists
    BY <1>2, QueueStepIsStep, TypeStep DEF TypeInv, TypeOK, Lists
  <2>2. Fewer(list')
    BY <1>2, <2>1, OnlyPendAdds DEF Fewer
  <2> QED  BY <1>1, <1>2, <2>2, FewerQuiet
<1>3. ASSUME WaitReturn PROVE UNCHANGED list
  BY <1>3 DEF WaitReturn
<1>4. ASSUME NEW c \in Context, NEW p \in Obj, Wake(c, p) \/ PassOn(p)
      PROVE  list[o] # <<>>
  BY <1>4, HandQuiet DEF Wake, Release, PassOn
<1>5. ASSUME NEW c \in Context, NEW r \in Queue, LOS_QueueCreate(c, r) \/ LOS_QueueDelete(c, r)
      PROVE  Goal
  BY <1>0, <1>5 DEF LOS_QueueCreate, LOS_QueueDelete, vars, taskVars, mailVars
<1>6. ASSUME NEW r \in Queue, ReadStep(r) PROVE Goal
  <2>1. ASSUME NEW c \in Context, ReadTake(c, r) PROVE Goal
    BY <1>1, <1>4, <2>1 DEF ReadTake, TakeNode, mailVars, vars, taskVars
  <2>2. CASE ReadReturn(r)
    BY <1>1, <1>3, <1>4, <2>2 DEF ReadReturn, TakeNode, mailVars, Context
  <2>3. ASSUME NEW n \in Timeouts \cup {Forever}, ReadBlock(r, n) PROVE Goal
    BY <1>1, <2>3, PendQuiet DEF Quiet, ReadBlock, queueVars, mailVars
  <2> QED  BY <1>6, <2>1, <2>2, <2>3 DEF ReadStep
<1>7. ASSUME NEW r \in Queue, WriteStep(r) PROVE Goal
  <2>1. ASSUME NEW c \in Context, NEW m \in Box, WriteTake(c, r, m) PROVE Goal
    BY <1>1, <1>4, <2>1 DEF WriteTake, FillNode, mailVars, vars, taskVars
  <2>2. CASE WriteReturn(r)
    BY <1>1, <1>3, <1>4, <2>2 DEF WriteReturn, FillNode, mailVars, Context
  <2>3. ASSUME NEW m \in Box, NEW n \in Timeouts \cup {Forever}, WriteBlock(r, m, n) PROVE Goal
    BY <1>1, <2>3, PendQuiet DEF Quiet, WriteBlock, queueVars, mailVars
  <2> QED  BY <1>7, <2>1, <2>2, <2>3 DEF WriteStep
<1>8. ASSUME NEW r \in Queue, MailStep(r) PROVE Goal
  <2>1. ASSUME NEW c \in Context, NEW b \in Box, MailFreeWake(c, r, b) PROVE Goal
    BY <1>1, <1>4, <2>1 DEF MailFreeWake, queueVars
  <2>2. ASSUME NEW c \in Context, NEW b \in Box, MailFree(c, r, b) PROVE Goal
    BY <1>0, <2>2 DEF MailFree, vars, taskVars
  <2>3. CASE MailAllocReturn(r)
    BY <1>1, <1>3, <2>3 DEF MailAllocReturn, queueVars
  <2>4. ASSUME NEW n \in Timeouts \cup {Forever}, MailAllocBlock(r, n) PROVE Goal
    BY <1>0, <2>4 DEF MailAllocBlock, queueVars, mailVars
  <2> QED  BY <1>8, <2>1, <2>2, <2>3, <2>4 DEF MailStep
<1>9. ASSUME NEW c \in Context, NEW b \in Box, MailAllocTake(c, b) PROVE Goal
  BY <1>0, <1>9 DEF MailAllocTake, LOS_MemboxAlloc, vars, taskVars
<1>10. CASE TimedOut
  BY <1>1, <1>3, <1>10 DEF TimedOut, queueVars, mailVars
<1>11. CASE UNCHANGED allVars
  BY <1>1, <1>11 DEF allVars, queueVars, mailVars, vars, taskVars
<1> QED
  BY <1>2, <1>5, <1>6, <1>7, <1>8, <1>9, <1>10, <1>11 DEF QueueNext, queueVars, mailVars

\* With the blocks of a mail pool the same holds when the pool serves one queue: with two,
\* a block freed to one would not reach a task that waits at the other.
THEOREM BlocksReachWaiters ==
  ASSUME \A q, r \in Queue : q = r
  PROVE  QueueSpec => []NoIdleNode
<1>1. TypeInv /\ [QueueNext]_allVars => TypeInv'
  BY QueueStepIsStep, TypeStep
<1>2. QueueInit => BlocksFound
  BY EmptyAtStart, QueueConstants DEF BlocksFound
<1>3. NodesFound /\ BlocksFound => NoIdleNode
  BY DEF NoIdleNode, BlocksFound
<1> QED  BY <1>1, <1>2, <1>3, BlocksFoundStep, NodesInvariant, PTL DEF QueueSpec
-----------------------------------------------------------------------------
(* The nodes.  Claims counts the tasks that own one; it changes by one task *)
(* at a time, so counting sets with one element more or less is enough.     *)

\* The kernel has finitely many tasks.
LEMMA TaskFinite == IsFiniteSet(Task)
<1>1. /\ TcbOrder \in Seq(Task) /\ ToSet(TcbOrder) = Task \ {Idle, SwtmrTask} /\ Idle \in Task
      /\ SwtmrTask \in Task \cup {Null}
  BY TaskAssumption
<1> DEFINE T == Task \ {Idle, SwtmrTask}
           n == Len(TcbOrder)
<1>2. IsFiniteSet(T)
  <2>1. n \in Nat /\ TcbOrder \in [1..n -> T] /\ \A t \in T : \E i \in 1..n : TcbOrder[i] = t
    <3>1. n \in Nat /\ DOMAIN TcbOrder = 1..n /\ TcbOrder \in [1..n -> Task]
      BY <1>1
    <3>2. \A t : t \in T <=> \E i \in 1..n : TcbOrder[i] = t
      BY <1>1, <3>1 DEF ToSet
    <3> QED  BY <3>1, <3>2
  <2>2. TcbOrder \in Surjection(1..n, T)
    BY <2>1 DEF Surjection
  <2>3. ExistsSurjection(1..n, T)
    BY <2>2 DEF ExistsSurjection
  <2> QED  BY <2>1, <2>3, FS_NatSurjection
<1> HIDE DEF T
<1>3. IsFiniteSet(T \cup {Idle})
  BY <1>2, FS_AddElement
<1>4. IsFiniteSet((T \cup {Idle}) \cup {SwtmrTask})
  BY <1>3, FS_AddElement
<1>5. Task \in SUBSET ((T \cup {Idle}) \cup {SwtmrTask})
  BY DEF T
<1> QED  BY <1>4, <1>5, FS_Subset

\* The tasks that own a node, or a block.
Owners(op, q) == {t \in Task : Granted(t, op, q)}

LEMMA ClaimsCount ==
  ASSUME NEW op, NEW q
  PROVE  /\ Claims(op, q) \in Nat /\ Claims(op, q)' \in Nat
         /\ Claims(op, q) = 0 => \A t \in Task : ~Granted(t, op, q)
         /\ (\A t \in Task : ~Granted(t, op, q)) => Claims(op, q) = 0
         /\ (\A t \in Task : Granted(t, op, q)' <=> Granted(t, op, q)) =>
              Claims(op, q)' = Claims(op, q)
<1> DEFINE S == Owners(op, q)
           T == Owners(op, q)'
<1>1. IsFiniteSet(S) /\ IsFiniteSet(T)
  BY TaskFinite, FS_Subset DEF Owners
<1>2. Cardinality(S) \in Nat /\ Cardinality(T) \in Nat
  BY <1>1, FS_CardinalityType
<1>3. Cardinality(S) = 0 <=> S = {}
  BY <1>1, FS_EmptySet
<1>4. Claims(op, q) = Cardinality(S) /\ Claims(op, q)' = Cardinality(T)
  BY DEF Claims, Owners
<1>5. (\A t \in Task : Granted(t, op, q)' <=> Granted(t, op, q)) => S = T
  BY DEF Owners
<1>6. S = {} <=> \A t \in Task : ~Granted(t, op, q)
  BY DEF Owners
<1> HIDE DEF S, T
<1> QED  BY <1>2, <1>3, <1>4, <1>5, <1>6

\* One task comes to own a node, or ceases to.
LEMMA ClaimsGain ==
  ASSUME NEW op, NEW q, NEW t \in Task, ~Granted(t, op, q), Granted(t, op, q)',
         \A u \in Task \ {t} : Granted(u, op, q)' <=> Granted(u, op, q)
  PROVE  Claims(op, q)' = Claims(op, q) + 1
<1> DEFINE S == Owners(op, q)
           T == Owners(op, q)'
<1>1. IsFiniteSet(S)
  BY TaskFinite, FS_Subset DEF Owners
<1>2. T = S \cup {t} /\ t \notin S
  BY DEF Owners
<1>3. Claims(op, q) = Cardinality(S) /\ Claims(op, q)' = Cardinality(T)
  BY DEF Claims, Owners
<1> HIDE DEF S, T
<1>4. Cardinality(S \cup {t}) = Cardinality(S) + 1
  BY <1>1, <1>2, FS_AddElement
<1> QED  BY <1>2, <1>3, <1>4

LEMMA ClaimsLose ==
  ASSUME NEW op, NEW q, NEW t \in Task, Granted(t, op, q), ~Granted(t, op, q)',
         \A u \in Task \ {t} : Granted(u, op, q)' <=> Granted(u, op, q)
  PROVE  Claims(op, q)' = Claims(op, q) - 1
<1> DEFINE S == Owners(op, q)
           T == Owners(op, q)'
<1>1. IsFiniteSet(S)
  BY TaskFinite, FS_Subset DEF Owners
<1>2. T = S \ {t} /\ t \in S
  BY DEF Owners
<1>3. Claims(op, q) = Cardinality(S) /\ Claims(op, q)' = Cardinality(T)
  BY DEF Claims, Owners
<1> HIDE DEF S, T
<1>4. Cardinality(S \ {t}) = Cardinality(S) - 1
  BY <1>1, <1>2, FS_RemoveElement
<1> QED  BY <1>2, <1>3, <1>4
-----------------------------------------------------------------------------
\* The locals of a call that blocked are there as long as the call lasts, and name the
\* list its task waits on.
AsksFit ==
  /\ asks \in [Task -> Asking]
  /\ \A t \in Task : asks[t].op # "none" <=> pc[t] \in InCall
  /\ \A t \in Task, q \in Queue :
       /\ t \in ToSet(list[ReadList[q]]) => asks[t].op = "read" /\ asks[t].queue = q
       /\ t \in ToSet(list[WriteList[q]]) => asks[t].op = "write" /\ asks[t].queue = q
       /\ t \in ToSet(list[MemList[q]]) => asks[t].op = "alloc" /\ asks[t].queue = q

\* A step that takes tasks off lists only, and ends at most the call of one that is on none.
LEMMA AsksKept ==
  ASSUME AsksFit,
         \A o \in Obj : ToSet(list'[o]) \subseteq ToSet(list[o]),
         \/ /\ asks' = asks
            /\ \A u \in Task : pc'[u] \in InCall <=> pc[u] \in InCall
         \/ /\ asks' = [asks EXCEPT ![run] = NoAsk]
            /\ run \in Task /\ pc'[run] \notin InCall
            /\ \A o \in Obj : run \notin ToSet(list[o])
            /\ \A u \in Task \ {run} : pc'[u] = pc[u]
  PROVE  AsksFit'
<1>1. NoAsk \in Asking /\ NoAsk.op = "none"
  BY DEF NoAsk, Asking
<1>2. asks' \in [Task -> Asking] /\ \A t \in Task : asks'[t].op # "none" <=> pc'[t] \in InCall
  BY <1>1 DEF AsksFit
<1>3. ASSUME NEW t \in Task, NEW o \in Obj, t \in ToSet(list'[o])
      PROVE  t \in ToSet(list[o]) /\ asks'[t] = asks[t]
  BY <1>3 DEF AsksFit
<1> QED  BY <1>2, <1>3, QueueConstants DEF AsksFit

\* The caller that blocks waits on the list it names, and on no other.
LEMMA AsksPend ==
  ASSUME TypeInv, ListInv, CallInv, AsksFit,
         NEW o \in Obj, NEW n, NEW ask \in Asking, QueuePend(o, n, ask), ask.op # "none",
         \A q \in Queue :
           /\ o = ReadList[q] => ask.op = "read" /\ ask.queue = q
           /\ o = WriteList[q] => ask.op = "write" /\ ask.queue = q
           /\ o = MemList[q] => ask.op = "alloc" /\ ask.queue = q
  PROVE  AsksFit'
<1> DEFINE M == Unlink(list, run)
           i == PendPlace(M[o])
<1>1. Pend(o, n, i) /\ asks' = [asks EXCEPT ![run] = ask]
  BY DEF QueuePend
<1>2. run \in Task /\ pc'[run] = "wait" /\ \A u \in Task \ {run} : pc'[u] = pc[u]
  BY <1>1, PendCarries DEF Pend
<1>3. /\ Distinct(list) /\ M \in Lists
      /\ \A h \in Head_ : ToSet(M[h]) \subseteq ToSet(list[h]) \ {run}
  <2>1. Distinct(list)
    BY ListFacts DEF ListInv
  <2>2. /\ Distinct(M)
        /\ \A u \in Task : On(M, u) = IF u = run THEN {} ELSE On(list, u)
    BY <2>1, OnUnlink
  <2>3. M \in Lists /\ \A h \in Head_ : ToSet(M[h]) \subseteq ToSet(list[h])
    BY <2>1, UnlinkType DEF Distinct
  <2>4. \A h \in Head_ : run \notin ToSet(M[h])
    BY <1>2, <2>2 DEF On
  <2> QED  BY <2>1, <2>3, <2>4
<1>4. list' = [M EXCEPT ![o] = InsertAt(@, i, run)]
  BY <1>1 DEF Pend, Block
<1> HIDE DEF M
<1>5. M[o] \in Seq(Task) /\ i \in 1..Len(M[o]) + 1
  BY <1>3, PendPlaceRange, Heads DEF Lists
<1> HIDE DEF i
<1>6. ToSet(InsertAt(M[o], i, run)) = ToSet(M[o]) \cup {run}
  BY <1>2, <1>5, InsertAtRange
<1>7. \A p \in Obj : list'[p] = IF p = o THEN InsertAt(M[o], i, run) ELSE M[p]
  BY <1>3, <1>4, Heads DEF Lists
<1>8. ASSUME NEW t \in Task, NEW p \in Obj, t \in ToSet(list'[p])
      PROVE  \/ t # run /\ t \in ToSet(list[p]) /\ asks'[t] = asks[t]
             \/ t = run /\ p = o /\ asks'[t] = ask
  <2>1. \/ t = run /\ p = o
        \/ t # run /\ t \in ToSet(list[p])
    <3>1. p \in Head_
      BY Heads
    <3> QED  BY <1>3, <1>6, <1>7, <1>8, <3>1
  <2> QED  BY <1>1, <1>2, <2>1 DEF AsksFit
<1>9. asks' \in [Task -> Asking] /\ \A t \in Task : asks'[t].op # "none" <=> pc'[t] \in InCall
  BY <1>1, <1>2 DEF AsksFit, InCall
<1> QED  BY <1>8, <1>9, QueueConstants DEF AsksFit

\* What a task owns it keeps while its call is carried on.
LEMMA GrantKept ==
  ASSUME AsksFit, AsksFit', NEW u \in Task, Carries(u), asks'[u] = asks[u],
         NEW op, op # "none", NEW q
  PROVE  Granted(u, op, q)' <=> Granted(u, op, q)
BY DEF AsksFit, Carries, Granted, Waiting, Waits

\* The step makes t the owner of what it asked for.
BecomesOwner(t) ==
  \A op, q : /\ ~Granted(t, op, q)
             /\ Granted(t, op, q)' <=> asks[t].op = op /\ asks[t].queue = q

\* The step neither makes u the owner of a node nor ends that it is.
KeepsNodes(u) ==
  \A op \in {"read", "write"} : \A q : Granted(u, op, q)' <=> Granted(u, op, q)

\* The task woken comes to own what it asked for; the others keep what they own.
LEMMA HandGrants ==
  ASSUME TypeInv, ListInv, CallInv, AsksFit, AsksFit', NEW c, NEW o \in Obj, Hand(list, c, o),
         NEW t, t = Head(list[o]), asks'[t] = asks[t]
  PROVE  /\ t \in Task /\ t \in ToSet(list[o]) /\ BecomesOwner(t)
         /\ \A u \in Task \ {t} : asks'[u] = asks[u] => KeepsNodes(u)
<1>1. /\ t \in Task /\ t \in ToSet(list[o]) /\ status[t] \cap Waits # {}
      /\ status'[t] \cap Waits = {} /\ "TIMEOUT" \notin status'[t]
      /\ \A u \in Task \ {t} : Carries(u)
  BY HandCarries
<1>2. ASSUME NEW op, NEW q PROVE ~Granted(t, op, q)
  BY <1>1 DEF Granted, Waiting, Waits
<1>3. ASSUME NEW op, NEW q
      PROVE  Granted(t, op, q)' <=> asks[t].op = op /\ asks[t].queue = q
  BY <1>1 DEF Granted, Waiting, Waits
<1>4. ASSUME NEW u \in Task \ {t}, asks'[u] = asks[u],
             NEW op \in {"read", "write"}, NEW q
      PROVE  Granted(u, op, q)' <=> Granted(u, op, q)
  BY <1>1, <1>4, GrantKept
<1> QED  BY <1>1, <1>2, <1>3, <1>4 DEF BecomesOwner, KeepsNodes

\* Every step keeps the locals and the lists in agreement.
LEMMA AsksStep ==
  ASSUME TypeInv, ListInv, CallInv, AsksFit, QueueNext, ~halt',
         Slice = 0, "Delete" \notin Calls \cup IsrCalls
  PROVE  AsksFit'
<1>1. ASSUME UNCHANGED <<vars, asks>> PROVE AsksFit'
  BY <1>1 DEF AsksFit, vars, taskVars
<1>2. ASSUME NEW c \in Context, NEW o \in Obj, Wake(c, o), asks' = asks PROVE AsksFit'
  <2>1. Hand(list, c, o) /\ (c = "task" => pc[run] \notin InCall)
    BY <1>2 DEF Wake, Release, MayCall, TaskRuns, InCall
  <2>2. \A p \in Obj : ToSet(list'[p]) \subseteq ToSet(list[p])
    BY <2>1, HandFewer DEF Fewer
  <2>3. \A u \in Task : pc'[u] \in InCall <=> pc[u] \in InCall
    BY <2>1, HandCarries
  <2> QED  BY <1>2, <2>2, <2>3, AsksKept
<1>3. ASSUME (\E o \in Obj : PassOn(o)) \/ (WaitReturn /\ UNCHANGED list),
             asks' = [asks EXCEPT ![run] = NoAsk]
      PROVE  AsksFit'
  <2>1. TaskRuns("woken")
    BY <1>3 DEF PassOn, WaitReturn
  <2>2. run \in Task /\ \A p \in Obj : run \notin ToSet(list[p])
    BY <2>1, WokenCalm
  <2>3. /\ pc'[run] \notin InCall /\ \A u \in Task \ {run} : pc'[u] = pc[u]
        /\ \A p \in Obj : ToSet(list'[p]) \subseteq ToSet(list[p])
    <3>1. ASSUME NEW o \in Obj, PassOn(o)
          PROVE  /\ pc'[run] \notin InCall /\ \A u \in Task \ {run} : pc'[u] = pc[u]
                 /\ \A p \in Obj : ToSet(list'[p]) \subseteq ToSet(list[p])
      <4>1. Hand(list, "task", o)
        BY <3>1 DEF PassOn
      <4>2. \A u \in Task : IF u = run THEN pc'[u] \notin InCall ELSE pc'[u] = pc[u]
        BY <4>1, HandCarries
      <4>3. \A p \in Obj : ToSet(list'[p]) \subseteq ToSet(list[p])
        BY <4>1, HandFewer DEF Fewer
      <4> QED  BY <2>2, <4>2, <4>3
    <3>2. CASE WaitReturn /\ UNCHANGED list
      BY <3>2, ReturnCarries
    <3> QED  BY <1>3, <3>1, <3>2
  <2> QED  BY <1>3, <2>2, <2>3, AsksKept
<1>4. ASSUME WaitReturn PROVE UNCHANGED list
  BY <1>4 DEF WaitReturn
<1> USE QueueConstants
<1>5. ASSUME NEW q \in Queue, ReadStep(q) PROVE AsksFit'
  <2>1. ASSUME NEW c \in Context, ReadTake(c, q) PROVE AsksFit'
    BY <1>1, <1>2, <2>1 DEF ReadTake
  <2>2. CASE ReadReturn(q)
    BY <1>3, <1>4, <2>2 DEF ReadReturn, Resumes
  <2>3. ASSUME NEW n \in Timeouts \cup {Forever}, ReadBlock(q, n) PROVE AsksFit'
    <3> DEFINE ask == [op |-> "read", queue |-> q, msg |-> Null]
    <3>1. ask \in Asking /\ ask.op = "read" /\ ask.queue = q
      BY DEF Asking
    <3>2. QueuePend(ReadList[q], n, ask)
      BY <2>3 DEF ReadBlock
    <3> HIDE DEF ask
    <3> QED  BY <3>1, <3>2, AsksPend
  <2> QED  BY <1>5, <2>1, <2>2, <2>3 DEF ReadStep
<1>6. ASSUME NEW q \in Queue, WriteStep(q) PROVE AsksFit'
  <2>1. ASSUME NEW c \in Context, NEW m \in Box, WriteTake(c, q, m) PROVE AsksFit'
    BY <1>1, <1>2, <2>1 DEF WriteTake
  <2>2. CASE WriteReturn(q)
    BY <1>3, <1>4, <2>2 DEF WriteReturn, Resumes
  <2>3. ASSUME NEW m \in Box, NEW n \in Timeouts \cup {Forever}, WriteBlock(q, m, n) PROVE AsksFit'
    <3> DEFINE ask == [op |-> "write", queue |-> q, msg |-> m]
    <3>1. ask \in Asking /\ ask.op = "write" /\ ask.queue = q
      BY DEF Asking
    <3>2. QueuePend(WriteList[q], n, ask)
      BY <2>3 DEF WriteBlock
    <3> HIDE DEF ask
    <3> QED  BY <3>1, <3>2, AsksPend
  <2> QED  BY <1>6, <2>1, <2>2, <2>3 DEF WriteStep
<1>7. ASSUME NEW q \in Queue, MailStep(q) PROVE AsksFit'
  <2>1. ASSUME NEW c \in Context, NEW b \in Box, MailFreeWake(c, q, b) PROVE AsksFit'
    BY <1>2, <2>1 DEF MailFreeWake
  <2>2. ASSUME NEW c \in Context, NEW b \in Box, MailFree(c, q, b) PROVE AsksFit'
    BY <1>1, <2>2 DEF MailFree
  <2>3. CASE MailAllocReturn(q)
    BY <1>3, <1>4, <2>3 DEF MailAllocReturn, Resumes
  <2>4. ASSUME NEW n \in Timeouts \cup {Forever}, MailAllocBlock(q, n) PROVE AsksFit'
    <3> DEFINE ask == [op |-> "alloc", queue |-> q, msg |-> Null]
    <3>1. ask \in Asking /\ ask.op = "alloc" /\ ask.queue = q
      BY DEF Asking
    <3>2. QueuePend(MemList[q], n, ask)
      BY <2>4 DEF MailAllocBlock
    <3> HIDE DEF ask
    <3> QED  BY <3>1, <3>2, AsksPend
  <2> QED  BY <1>7, <2>1, <2>2, <2>3, <2>4 DEF MailStep
<1>8. CASE TimedOut
  BY <1>3, <1>4, <1>8 DEF TimedOut
<1>9. CASE KernelStep /\ ~WaitReturn /\ asks' = asks
  <2>1. \A u \in Task : pc'[u] \in InCall <=> pc[u] \in InCall
    BY <1>9, KernelCarries, KernelStays DEF Carries
  <2> QED  BY <1>9, <2>1, OnlyPendAdds, AsksKept
<1> QED
  BY <1>1, <1>5, <1>6, <1>7, <1>8, <1>9 DEF QueueNext, LOS_QueueCreate, LOS_QueueDelete, MailAllocTake

\* The invariant about the nodes: every node of a queue in use is accounted for, and who
\* owns a node finds the queue in use.
Total(q) == readable[q] + writable[q] + Claims("read", q) + Claims("write", q)

Nodes ==
  /\ used \subseteq Queue
  /\ \A q \in used : Total(q) = QueueLen
  /\ WokenFindsQueue

\* A step that leaves the queues in use and their totals alone, and makes nobody an owner
\* at a queue that is not used.
LEMMA NodesKept ==
  ASSUME Nodes, used' = used, \A q \in Queue : Total(q)' = Total(q),
         \A t \in Task, q \in Queue :
           Granted(t, "read", q)' \/ Granted(t, "write", q)' => q \in used
  PROVE  Nodes'
<1>1. \A q \in used' : Total(q)' = QueueLen
  BY DEF Nodes
<1>2. WokenFindsQueue'
  BY DEF WokenFindsQueue
<1> QED  BY <1>1, <1>2 DEF Nodes

\* A step in which nobody comes to own a node, or ceases to, and no count changes.
LEMMA NodesSame ==
  ASSUME Nodes, UNCHANGED <<used, readable, writable>>,
         \A t \in Task, op \in {"read", "write"}, q \in Queue :
           Granted(t, op, q)' <=> Granted(t, op, q)
  PROVE  Nodes'
<1>1. ASSUME NEW q \in Queue PROVE Total(q)' = Total(q)
  <2>1. Claims("read", q)' = Claims("read", q) /\ Claims("write", q)' = Claims("write", q)
    BY <1>1, ClaimsCount
  <2> QED  BY <2>1 DEF Total
<1> QED  BY <1>1, NodesKept DEF Nodes, WokenFindsQueue

\* Who is woken from the list of q, by a caller outside of any blocking call.
LEMMA WakeNodes ==
  ASSUME TypeInv, ListInv, CallInv, AsksFit, AsksFit', NEW c, NEW o \in Obj, Wake(c, o),
         asks' = asks, NEW q \in Queue, NEW op \in {"read", "write"},
         o = IF op = "read" THEN ReadList[q] ELSE WriteList[q]
  PROVE  /\ Claims(op, q)' = Claims(op, q) + 1
         /\ \A p \in {"read", "write"}, r \in Queue :
              p # op \/ r # q => Claims(p, r)' = Claims(p, r)
         /\ \A t \in Task, p \in {"read", "write"}, r \in Queue :
              Granted(t, p, r)' => Granted(t, p, r) \/ r = q
<1>1. Hand(list, c, o)
  BY DEF Wake, Release
<1>2. PICK t : t = Head(list[o])
  OBVIOUS
<1>a. t \in Task /\ t \in ToSet(list[o]) /\ BecomesOwner(t) /\ \A u \in Task \ {t} : KeepsNodes(u)
  BY <1>1, <1>2, HandGrants
<1>3. /\ t \in Task /\ t \in ToSet(list[o])
      /\ \A p, r : /\ ~Granted(t, p, r)
                   /\ Granted(t, p, r)' <=> asks[t].op = p /\ asks[t].queue = r
      /\ \A u \in Task \ {t} : \A p \in {"read", "write"} : \A r :
           Granted(u, p, r)' <=> Granted(u, p, r)
  BY <1>a DEF BecomesOwner, KeepsNodes
<1>4. asks[t].op = op /\ asks[t].queue = q
  BY <1>3 DEF AsksFit
<1>5. Claims(op, q)' = Claims(op, q) + 1
  BY <1>3, <1>4, ClaimsGain
<1>6. ASSUME NEW p \in {"read", "write"}, NEW r \in Queue, p # op \/ r # q
      PROVE  Claims(p, r)' = Claims(p, r)
  BY <1>3, <1>4, <1>6, ClaimsCount
<1> QED  BY <1>3, <1>4, <1>5, <1>6

\* The owner takes or fills its node, and another task may be woken to own it.
LEMMA ReturnNodes ==
  ASSUME TypeInv, ListInv, CallInv, AsksFit, AsksFit', Nodes,
         NEW q \in Queue, NEW op \in {"read", "write"}, NEW other \in {"read", "write"}, op # other,
         Resumes(op, q), NEW o \in Obj,
         o = IF other = "read" THEN ReadList[q] ELSE WriteList[q],
         PassOn(o) \/ WaitReturn
  PROVE  /\ q \in used
         /\ Claims(op, q)' = Claims(op, q) - 1
         /\ PassOn(o) => Claims(other, q)' = Claims(other, q) + 1
         /\ ~PassOn(o) => Claims(other, q)' = Claims(other, q)
         /\ \A p \in {"read", "write"}, r \in Queue \ {q} : Claims(p, r)' = Claims(p, r)
         /\ \A t \in Task, p \in {"read", "write"}, r \in Queue :
              Granted(t, p, r)' => Granted(t, p, r) \/ r = q
<1>1. /\ run \in Task /\ status[run] \cap Waits = {} /\ \A p \in Obj : run \notin ToSet(list[p])
      /\ "TIMEOUT" \notin status[run] /\ asks[run].op = op /\ asks[run].queue = q
      /\ asks' = [asks EXCEPT ![run] = NoAsk]
  BY WokenCalm DEF Resumes
<1>2. PICK me : me = run
  OBVIOUS
<1>3. /\ me \in Task /\ Granted(me, op, q) /\ \A p, r : p # op \/ r # q => ~Granted(me, p, r)
      /\ \A p \in {"read", "write"} : \A r : ~Granted(me, p, r)'
  <2>1. Granted(me, op, q) /\ \A p, r : p # op \/ r # q => ~Granted(me, p, r)
    BY <1>1, <1>2 DEF Granted, Waiting, Waits
  <2>2. asks'[me].op = "none"
    BY <1>1, <1>2 DEF NoAsk, AsksFit
  <2> QED  BY <1>1, <1>2, <2>1, <2>2 DEF Granted
<1>4. q \in used
  BY <1>3 DEF Nodes, WokenFindsQueue
<1>5. \A u \in Task \ {me} : asks'[u] = asks[u]
  BY <1>1, <1>2 DEF AsksFit
<1>6. CASE PassOn(o)
  <2>1. Hand(list, "task", o)
    BY <1>6 DEF PassOn
  <2>2. PICK t : t = Head(list[o])
    OBVIOUS
  <2>3. t \in Task /\ t \in ToSet(list[o])
    BY <2>1, <2>2, HandCarries
  <2>4. t # me
    BY <1>1, <1>2, <2>3
  <2>5. /\ \A p, r : /\ ~Granted(t, p, r)
                     /\ Granted(t, p, r)' <=> asks[t].op = p /\ asks[t].queue = r
        /\ \A u \in Task \ {t} : asks'[u] = asks[u] =>
             \A p \in {"read", "write"} : \A r : Granted(u, p, r)' <=> Granted(u, p, r)
    <3>1. asks'[t] = asks[t]
      BY <1>5, <2>3, <2>4
    <3> DEFINE c == "task"
    <3>2. Hand(list, c, o)
      BY <2>1
    <3> HIDE DEF c
    <3>3. BecomesOwner(t) /\ \A u \in Task \ {t} : asks'[u] = asks[u] => KeepsNodes(u)
      BY <2>2, <3>1, <3>2, HandGrants
    <3> QED  BY <3>3 DEF BecomesOwner, KeepsNodes
  <2>6. asks[t].op = other /\ asks[t].queue = q
    BY <2>3 DEF AsksFit
  <2>7. \A u \in Task \ {t, me} : \A p \in {"read", "write"}, r \in Queue :
          Granted(u, p, r)' <=> Granted(u, p, r)
    BY <1>5, <2>5
  <2>8. /\ \A p \in {"read", "write"}, r \in Queue : Granted(t, p, r)' <=> p = other /\ r = q
        /\ \A p \in {"read", "write"}, r \in Queue : ~Granted(t, p, r)
    BY <2>5, <2>6
  <2>9. Claims(op, q)' = Claims(op, q) - 1
    BY <1>3, <2>7, <2>8, ClaimsLose
  <2>10. Claims(other, q)' = Claims(other, q) + 1
    BY <1>3, <2>3, <2>7, <2>8, ClaimsGain
  <2>11. ASSUME NEW p \in {"read", "write"}, NEW r \in Queue \ {q}
         PROVE  Claims(p, r)' = Claims(p, r)
    BY <1>3, <2>7, <2>8, <2>11, ClaimsCount
  <2> QED  BY <1>3, <1>4, <1>6, <2>7, <2>8, <2>9, <2>10, <2>11
<1>7. CASE WaitReturn /\ ~PassOn(o)
  <2>1. \A u \in Task \ {me} : Carries(u)
    BY <1>2, <1>7, ReturnCarries
  <2>2. \A u \in Task \ {me} : \A p \in {"read", "write"}, r \in Queue :
          Granted(u, p, r)' <=> Granted(u, p, r)
    BY <1>5, <2>1, GrantKept
  <2>3. Claims(op, q)' = Claims(op, q) - 1
    BY <1>3, <2>2, ClaimsLose
  <2>4. ASSUME NEW p \in {"read", "write"}, NEW r \in Queue, p # op \/ r # q
        PROVE  Claims(p, r)' = Claims(p, r)
    BY <1>3, <2>2, <2>4, ClaimsCount
  <2> QED  BY <1>3, <1>4, <1>7, <2>2, <2>3, <2>4
<1> QED  BY <1>6, <1>7

\* A call that blocks, or that ends without a node of its own.
LEMMA OutsideNodes ==
  ASSUME AsksFit, AsksFit', Nodes, UNCHANGED queueVars,
         NEW t, t = run, t \in Task, \A u \in Task \ {t} : Carries(u) /\ asks'[u] = asks[u],
         \A p \in {"read", "write"}, q \in Queue : ~Granted(t, p, q) /\ ~Granted(t, p, q)'
  PROVE  Nodes'
<1>1. ASSUME NEW u \in Task, NEW p \in {"read", "write"}, NEW q \in Queue
      PROVE  Granted(u, p, q)' <=> Granted(u, p, q)
  BY <1>1, GrantKept
<1> QED  BY <1>1, NodesSame DEF queueVars

\* Every step keeps account of the nodes.
\* A step in which dr more nodes of q become readable and dw more writable.
Shift(q, dr, dw) ==
  /\ used' = used
  /\ \A r \in Queue \ {q} : readable'[r] = readable[r] /\ writable'[r] = writable[r]
  /\ readable'[q] = readable[q] + dr /\ writable'[q] = writable[q] + dw

LEMMA NodesStep ==
  ASSUME TypeInv, ListInv, CallInv, AsksFit, AsksFit', Counts, Nodes, QueueNext, ~halt',
         Slice = 0
  PROVE  Nodes'
<1> USE QueueConstants
<1>0. used \subseteq Queue /\ \A q \in used : Total(q) = QueueLen
  BY DEF Nodes
<1>1. ASSUME UNCHANGED <<vars, asks>>, NEW u \in Task, NEW p, NEW q
      PROVE  Granted(u, p, q)' <=> Granted(u, p, q)
  BY <1>1 DEF Granted, Waiting, vars, taskVars
<1>2. ASSUME UNCHANGED <<vars, asks, queueVars>> PROVE Nodes'
  BY <1>1, <1>2, NodesSame DEF queueVars
<1>3. ASSUME UNCHANGED <<vars, asks>>, NEW p, NEW q PROVE Claims(p, q)' = Claims(p, q)
  BY <1>1, <1>3, ClaimsCount
<1>4. ASSUME NEW c \in Context, NEW q \in Queue, LOS_QueueCreate(c, q) PROVE Nodes'
  <2>1. /\ q \notin used /\ used' = used \cup {q} /\ UNCHANGED <<vars, asks>>
        /\ readable' = [readable EXCEPT ![q] = 0] /\ writable' = [writable EXCEPT ![q] = QueueLen]
    BY <1>4 DEF LOS_QueueCreate, FirstUnused
  <2>2. Claims("read", q) = 0 /\ Claims("write", q) = 0
    BY <2>1, ClaimsCount DEF Nodes, WokenFindsQueue
  <2>3. Total(q)' = QueueLen
    <3>1. readable'[q] = 0 /\ writable'[q] = QueueLen
      BY <2>1 DEF Counts
    <3>2. Claims("read", q)' = 0 /\ Claims("write", q)' = 0
      BY <1>3, <2>1, <2>2
    <3> QED  BY <3>1, <3>2 DEF Total
  <2>4. ASSUME NEW r \in used PROVE Total(r)' = QueueLen
    <3>1. Claims("read", r)' = Claims("read", r) /\ Claims("write", r)' = Claims("write", r)
      BY <1>3, <2>1
    <3>2. readable'[r] = readable[r] /\ writable'[r] = writable[r]
      BY <1>0, <2>1 DEF Counts
    <3> QED  BY <1>0, <3>1, <3>2 DEF Total
  <2>5. WokenFindsQueue'
    BY <1>1, <2>1 DEF Nodes, WokenFindsQueue
  <2> QED  BY <1>0, <2>1, <2>3, <2>4, <2>5 DEF Nodes
<1>5. ASSUME NEW c \in Context, NEW q \in Queue, LOS_QueueDelete(c, q) PROVE Nodes'
  <2>1. /\ q \in used /\ used' = used \ {q} /\ UNCHANGED <<vars, asks, readable, writable>>
        /\ readable[q] + writable[q] = QueueLen
    BY <1>5 DEF LOS_QueueDelete
  <2>2. Claims("read", q) = 0 /\ Claims("write", q) = 0
    <3>1. Claims("read", q) \in Nat /\ Claims("write", q) \in Nat
      BY ClaimsCount
    <3>2. readable[q] \in Int /\ writable[q] \in Int
      BY DEF Counts
    <3> QED  BY <1>0, <2>1, <3>1, <3>2 DEF Total
  <2>3. \A t \in Task : ~Granted(t, "read", q) /\ ~Granted(t, "write", q)
    BY <2>2, ClaimsCount
  <2>4. ASSUME NEW r \in used' PROVE Total(r)' = QueueLen
    <3>1. Claims("read", r)' = Claims("read", r) /\ Claims("write", r)' = Claims("write", r)
      BY <1>3, <2>1
    <3>2. readable'[r] = readable[r] /\ writable'[r] = writable[r] /\ r \in used
      BY <2>1
    <3> QED  BY <1>0, <3>1, <3>2 DEF Total
  <2>5. WokenFindsQueue'
    BY <1>1, <2>1, <2>3 DEF Nodes, WokenFindsQueue
  <2> QED  BY <1>0, <2>1, <2>4, <2>5 DEF Nodes
<1>6. ASSUME NEW q \in Queue, NEW op \in {"read", "write"}, NEW dr \in Int, NEW dw \in Int,
             NEW o \in Obj, o = IF op = "read" THEN ReadList[q] ELSE WriteList[q],
             q \in used, asks' = asks, Shift(q, dr, dw),
             \/ (\E c \in Context : Wake(c, o)) /\ dr + dw + 1 = 0
             \/ UNCHANGED vars /\ dr + dw = 0
      PROVE  Nodes'
  <2> USE DEF Shift
  <2>0. \A r \in Queue \ {q} : /\ readable'[r] = readable[r] + 0 /\ writable'[r] = writable[r] + 0
                               /\ Claims("read", r) \in Nat /\ Claims("write", r) \in Nat
    BY <1>6, ClaimsCount DEF Counts
  <2>1. CASE UNCHANGED vars /\ dr + dw = 0
    <3>1. \A r \in Queue : Claims("read", r)' = Claims("read", r) /\ Claims("write", r)' = Claims("write", r)
      BY <1>3, <1>6, <2>1
    <3>2. \A r \in Queue : Total(r)' = Total(r)
      <4>1. Claims("read", q) \in Nat /\ Claims("write", q) \in Nat
            /\ readable[q] \in Int /\ writable[q] \in Int
        BY ClaimsCount DEF Counts
      <4> QED  BY <1>6, <2>1, <3>1, <4>1 DEF Total
    <3> QED  BY <1>1, <1>6, <2>1, <3>2, NodesKept DEF Nodes, WokenFindsQueue
  <2>2. ASSUME NEW c \in Context, Wake(c, o), dr + dw + 1 = 0 PROVE Nodes'
    <3>1. /\ Claims(op, q)' = Claims(op, q) + 1
          /\ \A p \in {"read", "write"}, r \in Queue :
               p # op \/ r # q => Claims(p, r)' = Claims(p, r)
          /\ \A t \in Task, p \in {"read", "write"}, r \in Queue :
               Granted(t, p, r)' => Granted(t, p, r) \/ r = q
      BY <1>6, <2>2, WakeNodes
    <3>2. ASSUME NEW r \in Queue PROVE Total(r)' = Total(r)
      <4>1. /\ Claims("read", r) \in Nat /\ Claims("write", r) \in Nat
            /\ readable[r] \in Int /\ writable[r] \in Int
        BY ClaimsCount DEF Counts
      <4>2. CASE r = q
        <5>1. CASE op = "read"
          BY <1>6, <2>2, <3>1, <4>1, <4>2, <5>1 DEF Total
        <5>2. CASE op = "write"
          BY <1>6, <2>2, <3>1, <4>1, <4>2, <5>2 DEF Total
        <5> QED  BY <5>1, <5>2
      <4>3. CASE r # q
        BY <1>6, <3>1, <4>3 DEF Total
      <4> QED  BY <4>2, <4>3
    <3> QED  BY <1>6, <3>1, <3>2, NodesKept DEF Nodes, WokenFindsQueue
  <2> QED  BY <1>6, <2>1, <2>2
<1>7. ASSUME NEW q \in Queue, NEW op \in {"read", "write"}, NEW other \in {"read", "write"},
             op # other, Resumes(op, q), NEW dr \in Int, NEW dw \in Int, Shift(q, dr, dw),
             NEW o \in Obj, o = IF other = "read" THEN ReadList[q] ELSE WriteList[q],
             \/ PassOn(o) /\ dr + dw = 0
             \/ WaitReturn /\ ~PassOn(o) /\ dr + dw = 1
      PROVE  Nodes'
  <2>0. /\ used' = used /\ readable'[q] = readable[q] + dr /\ writable'[q] = writable[q] + dw
        /\ \A r \in Queue \ {q} : readable'[r] = readable[r] /\ writable'[r] = writable[r]
    BY <1>7 DEF Shift
  <2>1. /\ q \in used
        /\ Claims(op, q)' = Claims(op, q) - 1
        /\ PassOn(o) => Claims(other, q)' = Claims(other, q) + 1
        /\ ~PassOn(o) => Claims(other, q)' = Claims(other, q)
        /\ \A p \in {"read", "write"}, r \in Queue \ {q} : Claims(p, r)' = Claims(p, r)
        /\ \A t \in Task, p \in {"read", "write"}, r \in Queue :
             Granted(t, p, r)' => Granted(t, p, r) \/ r = q
    BY <1>7, ReturnNodes
  <2>2. ASSUME NEW r \in Queue PROVE Total(r)' = Total(r)
    <3>1. /\ Claims("read", r) \in Nat /\ Claims("write", r) \in Nat
          /\ readable[r] \in Int /\ writable[r] \in Int
      BY ClaimsCount DEF Counts
    <3>2. CASE r = q
      <4>0. /\ Claims(op, q)' = Claims(op, q) - 1
            /\ \/ Claims(other, q)' = Claims(other, q) + 1 /\ dr + dw = 0
               \/ Claims(other, q)' = Claims(other, q) /\ dr + dw = 1
        BY <1>7, <2>1
      <4>1. CASE op = "read" /\ other = "write"
        <5>1. /\ Claims("read", q)' = Claims("read", q) - 1
              /\ \/ Claims("write", q)' = Claims("write", q) + 1 /\ dr + dw = 0
                 \/ Claims("write", q)' = Claims("write", q) /\ dr + dw = 1
          BY <4>0, <4>1
        <5> QED  BY <2>0, <3>1, <3>2, <5>1, dr \in Int, dw \in Int DEF Total
      <4>2. CASE op = "write" /\ other = "read"
        <5>1. /\ Claims("write", q)' = Claims("write", q) - 1
              /\ \/ Claims("read", q)' = Claims("read", q) + 1 /\ dr + dw = 0
                 \/ Claims("read", q)' = Claims("read", q) /\ dr + dw = 1
          BY <4>0, <4>2
        <5> QED  BY <2>0, <3>1, <3>2, <5>1, dr \in Int, dw \in Int DEF Total
      <4> QED  BY <1>7, <4>1, <4>2
    <3>3. CASE r # q
      BY <2>0, <2>1, <3>3 DEF Total
    <3> QED  BY <3>2, <3>3
  <2> QED  BY <2>0, <2>1, <2>2, NodesKept DEF Nodes, WokenFindsQueue
<1>8. ASSUME NEW o \in Obj, NEW n, NEW ask, QueuePend(o, n, ask), UNCHANGED queueVars PROVE Nodes'
  <2>1. /\ Pend(o, n, PendPlace(Unlink(list, run)[o]))
        /\ asks' = [asks EXCEPT ![run] = ask]
    BY <1>8 DEF QueuePend
  <2>2. PICK t : t = run
    OBVIOUS
  <2>3. /\ t \in Task /\ pc[t] = "user" /\ status'[t] \cap Waits # {}
        /\ \A u \in Task \ {t} : Carries(u)
    BY <2>1, <2>2, PendCarries DEF Pend
  <2>4. \A u \in Task \ {t} : asks'[u] = asks[u]
    BY <2>1, <2>2 DEF AsksFit
  <2>5. asks[t].op = "none"
    BY <2>3 DEF AsksFit, InCall
  <2>6. ASSUME NEW p \in {"read", "write"}, NEW q \in Queue
        PROVE  ~Granted(t, p, q) /\ ~Granted(t, p, q)'
    BY <2>3, <2>5 DEF Granted, Waiting, Waits
  <2> QED  BY <1>8, <2>2, <2>3, <2>4, <2>6, OutsideNodes
<1>9. ASSUME WaitReturn, asks' = [asks EXCEPT ![run] = NoAsk], UNCHANGED queueVars,
             "TIMEOUT" \in status[run] \/ asks[run].op = "alloc"
      PROVE  Nodes'
  <2>1. PICK t : t = run
    OBVIOUS
  <2>2. t \in Task /\ \A u \in Task \ {t} : Carries(u)
    BY <1>9, <2>1, ReturnCarries
  <2>3. /\ asks'[t].op = "none" /\ \A u \in Task \ {t} : asks'[u] = asks[u]
        /\ "TIMEOUT" \in status[t] \/ asks[t].op = "alloc"
    BY <1>9, <2>1, <2>2 DEF NoAsk, AsksFit
  <2>4. ASSUME NEW p \in {"read", "write"}, NEW q \in Queue
        PROVE  ~Granted(t, p, q) /\ ~Granted(t, p, q)'
    BY <2>3 DEF Granted
  <2> QED  BY <1>9, <2>1, <2>2, <2>3, <2>4, OutsideNodes
<1>10. ASSUME NEW q \in Queue, ReadStep(q) PROVE Nodes'
  <2>1. ASSUME NEW c \in Context, ReadTake(c, q) PROVE Nodes'
    <3>1. /\ q \in used /\ used' = used /\ asks' = asks
          /\ readable' = [readable EXCEPT ![q] = @ - 1]
          /\ \/ Wake(c, WriteList[q]) /\ UNCHANGED writable
             \/ UNCHANGED vars /\ writable' = [writable EXCEPT ![q] = @ + 1]
      BY <2>1 DEF ReadTake, TakeNode
    <3>2. /\ \A r \in Queue \ {q} : readable'[r] = readable[r] /\ writable'[r] = writable[r]
          /\ readable'[q] = readable[q] + (-1)
      BY <3>1 DEF Counts
    <3>3. CASE Wake(c, WriteList[q]) /\ UNCHANGED writable
      <4> DEFINE dr == -1
                 dw == 0
      <4>1. dr \in Int /\ dw \in Int /\ dr + dw + 1 = 0 /\ Shift(q, dr, dw)
        BY <3>1, <3>2, <3>3 DEF Shift, Counts
      <4> DEFINE o == WriteList[q]
                 op == "write"
      <4>2. o \in Obj /\ op \in {"read", "write"} /\ o = (IF op = "read" THEN ReadList[q] ELSE WriteList[q])
            /\ Wake(c, o)
        BY <3>3
      <4> HIDE DEF o, op, dr, dw
      <4> QED  BY <1>6, <3>1, <4>1, <4>2
    <3>4. CASE UNCHANGED vars /\ writable' = [writable EXCEPT ![q] = @ + 1]
      <4> DEFINE dr == -1
                 dw == 1
      <4>1. dr \in Int /\ dw \in Int /\ dr + dw = 0 /\ Shift(q, dr, dw)
        BY <3>1, <3>2, <3>4 DEF Shift, Counts
      <4> DEFINE o == WriteList[q]
                 op == "write"
      <4>2. o \in Obj /\ op \in {"read", "write"} /\ o = (IF op = "read" THEN ReadList[q] ELSE WriteList[q])
        OBVIOUS
      <4> HIDE DEF o, op, dr, dw
      <4> QED  BY <1>6, <3>1, <3>4, <4>1, <4>2
    <3> QED  BY <3>1, <3>3, <3>4
  <2>2. CASE ReadReturn(q)
    <3>1. Resumes("read", q) /\ used' = used /\ UNCHANGED readable
          /\ \/ PassOn(WriteList[q]) /\ UNCHANGED writable
             \/ /\ list[WriteList[q]] = <<>> /\ WaitReturn
                /\ writable' = [writable EXCEPT ![q] = @ + 1]
      BY <2>2 DEF ReadReturn, TakeNode
    <3> DEFINE o == WriteList[q]
               op == "read"
               other == "write"
    <3>2. /\ o \in Obj /\ op \in {"read", "write"} /\ other \in {"read", "write"} /\ op # other
          /\ o = (IF other = "read" THEN ReadList[q] ELSE WriteList[q])
          /\ Resumes(op, q)
          /\ \/ PassOn(o) /\ UNCHANGED writable
             \/ WaitReturn /\ ~PassOn(o) /\ writable' = [writable EXCEPT ![q] = @ + 1]
      BY <3>1 DEF PassOn, Hand
    <3>3. /\ \A r \in Queue \ {q} : readable'[r] = readable[r] /\ writable'[r] = writable[r]
          /\ readable'[q] = readable[q] + 0
          /\ UNCHANGED writable => writable'[q] = writable[q] + 0
          /\ writable' = [writable EXCEPT ![q] = @ + 1] => writable'[q] = writable[q] + 1
      BY <3>1 DEF Counts
    <3> HIDE DEF o, op, other
    <3>4. CASE PassOn(o) /\ UNCHANGED writable
      <4> DEFINE dr == 0
                 dw == 0
      <4>1. /\ dr \in Int /\ dw \in Int /\ dr + dw = 0
            /\ Shift(q, dr, dw)
        BY <3>1, <3>3, <3>4 DEF Shift
      <4> HIDE DEF dr, dw
      <4> QED  BY <1>7, <3>2, <3>4, <4>1
    <3>5. CASE WaitReturn /\ ~PassOn(o) /\ writable' = [writable EXCEPT ![q] = @ + 1]
      <4> DEFINE dr == 0
                 dw == 1
      <4>1. /\ dr \in Int /\ dw \in Int /\ dr + dw = 1
            /\ Shift(q, dr, dw)
        BY <3>1, <3>3, <3>5 DEF Shift
      <4> HIDE DEF dr, dw
      <4> QED  BY <1>7, <3>2, <3>5, <4>1
    <3> QED  BY <3>2, <3>4, <3>5
  <2>3. ASSUME NEW n \in Timeouts \cup {Forever}, ReadBlock(q, n) PROVE Nodes'
    BY <1>8, <2>3 DEF ReadBlock
  <2> QED  BY <1>10, <2>1, <2>2, <2>3 DEF ReadStep
<1>11. ASSUME NEW q \in Queue, WriteStep(q) PROVE Nodes'
  <2>1. ASSUME NEW c \in Context, NEW m \in Box, WriteTake(c, q, m) PROVE Nodes'
    <3>1. /\ q \in used /\ used' = used /\ asks' = asks
          /\ writable' = [writable EXCEPT ![q] = @ - 1]
          /\ \/ Wake(c, ReadList[q]) /\ UNCHANGED readable
             \/ UNCHANGED vars /\ readable' = [readable EXCEPT ![q] = @ + 1]
      BY <2>1 DEF WriteTake, FillNode
    <3>2. /\ \A r \in Queue \ {q} : readable'[r] = readable[r] /\ writable'[r] = writable[r]
          /\ writable'[q] = writable[q] + (-1)
      BY <3>1 DEF Counts
    <3>3. CASE Wake(c, ReadList[q]) /\ UNCHANGED readable
      <4> DEFINE dr == 0
                 dw == -1
      <4>1. dr \in Int /\ dw \in Int /\ dr + dw + 1 = 0 /\ Shift(q, dr, dw)
        BY <3>1, <3>2, <3>3 DEF Shift, Counts
      <4> DEFINE o == ReadList[q]
                 op == "read"
      <4>2. o \in Obj /\ op \in {"read", "write"} /\ o = (IF op = "read" THEN ReadList[q] ELSE WriteList[q])
            /\ Wake(c, o)
        BY <3>3
      <4> HIDE DEF o, op, dr, dw
      <4> QED  BY <1>6, <3>1, <4>1, <4>2
    <3>4. CASE UNCHANGED vars /\ readable' = [readable EXCEPT ![q] = @ + 1]
      <4> DEFINE dr == 1
                 dw == -1
      <4>1. dr \in Int /\ dw \in Int /\ dr + dw = 0 /\ Shift(q, dr, dw)
        BY <3>1, <3>2, <3>4 DEF Shift, Counts
      <4> DEFINE o == ReadList[q]
                 op == "read"
      <4>2. o \in Obj /\ op \in {"read", "write"} /\ o = (IF op = "read" THEN ReadList[q] ELSE WriteList[q])
        OBVIOUS
      <4> HIDE DEF o, op, dr, dw
      <4> QED  BY <1>6, <3>1, <3>4, <4>1, <4>2
    <3> QED  BY <3>1, <3>3, <3>4
  <2>2. CASE WriteReturn(q)
    <3>1. Resumes("write", q) /\ used' = used /\ UNCHANGED writable
          /\ \/ PassOn(ReadList[q]) /\ UNCHANGED readable
             \/ /\ list[ReadList[q]] = <<>> /\ WaitReturn
                /\ readable' = [readable EXCEPT ![q] = @ + 1]
      BY <2>2 DEF WriteReturn, FillNode
    <3> DEFINE o == ReadList[q]
               op == "write"
               other == "read"
    <3>2. /\ o \in Obj /\ op \in {"read", "write"} /\ other \in {"read", "write"} /\ op # other
          /\ o = (IF other = "read" THEN ReadList[q] ELSE WriteList[q])
          /\ Resumes(op, q)
          /\ \/ PassOn(o) /\ UNCHANGED readable
             \/ WaitReturn /\ ~PassOn(o) /\ readable' = [readable EXCEPT ![q] = @ + 1]
      BY <3>1 DEF PassOn, Hand
    <3>3. /\ \A r \in Queue \ {q} : readable'[r] = readable[r] /\ writable'[r] = writable[r]
          /\ writable'[q] = writable[q] + 0
          /\ UNCHANGED readable => readable'[q] = readable[q] + 0
          /\ readable' = [readable EXCEPT ![q] = @ + 1] => readable'[q] = readable[q] + 1
      BY <3>1 DEF Counts
    <3> HIDE DEF o, op, other
    <3>4. CASE PassOn(o) /\ UNCHANGED readable
      <4> DEFINE dr == 0
                 dw == 0
      <4>1. /\ dr \in Int /\ dw \in Int /\ dr + dw = 0
            /\ Shift(q, dr, dw)
        BY <3>1, <3>3, <3>4 DEF Shift
      <4> HIDE DEF dr, dw
      <4> QED  BY <1>7, <3>2, <3>4, <4>1
    <3>5. CASE WaitReturn /\ ~PassOn(o) /\ readable' = [readable EXCEPT ![q] = @ + 1]
      <4> DEFINE dr == 1
                 dw == 0
      <4>1. /\ dr \in Int /\ dw \in Int /\ dr + dw = 1
            /\ Shift(q, dr, dw)
        BY <3>1, <3>3, <3>5 DEF Shift
      <4> HIDE DEF dr, dw
      <4> QED  BY <1>7, <3>2, <3>5, <4>1
    <3> QED  BY <3>2, <3>4, <3>5
  <2>3. ASSUME NEW m \in Box, NEW n \in Timeouts \cup {Forever}, WriteBlock(q, m, n) PROVE Nodes'
    BY <1>8, <2>3 DEF WriteBlock
  <2> QED  BY <1>11, <2>1, <2>2, <2>3 DEF WriteStep
<1>12. ASSUME NEW q \in Queue, MailStep(q) PROVE Nodes'
  <2>1. ASSUME NEW c \in Context, NEW b \in Box, MailFreeWake(c, q, b) PROVE Nodes'
    <3>1. Hand(list, c, MemList[q]) /\ asks' = asks /\ UNCHANGED queueVars
      BY <2>1 DEF MailFreeWake, Wake, Release
    <3>2. PICK t : t = Head(list[MemList[q]])
      OBVIOUS
    <3> DEFINE o == MemList[q]
    <3>a. o \in Obj /\ Hand(list, c, o) /\ t = Head(list[o]) /\ asks'[t] = asks[t]
      BY <3>1, <3>2
    <3> HIDE DEF o
    <3>b. /\ t \in Task /\ t \in ToSet(list[o]) /\ BecomesOwner(t)
          /\ \A u \in Task \ {t} : asks'[u] = asks[u] => KeepsNodes(u)
      BY <3>a, HandGrants
    <3>3. /\ t \in Task /\ t \in ToSet(list[MemList[q]])
          /\ \A p, r : /\ ~Granted(t, p, r)
                       /\ Granted(t, p, r)' <=> asks[t].op = p /\ asks[t].queue = r
          /\ \A u \in Task \ {t} : \A p \in {"read", "write"} : \A r :
               Granted(u, p, r)' <=> Granted(u, p, r)
      BY <3>1, <3>b DEF o, BecomesOwner, KeepsNodes
    <3>4. asks[t].op = "alloc"
      BY <3>3 DEF AsksFit
    <3> QED  BY <3>1, <3>3, <3>4, NodesSame DEF queueVars
  <2>2. ASSUME NEW c \in Context, NEW b \in Box, MailFree(c, q, b) PROVE Nodes'
    BY <1>2, <2>2 DEF MailFree
  <2>3. CASE MailAllocReturn(q)
    BY <1>9, <2>3 DEF MailAllocReturn, Resumes
  <2>4. ASSUME NEW n \in Timeouts \cup {Forever}, MailAllocBlock(q, n) PROVE Nodes'
    BY <1>8, <2>4 DEF MailAllocBlock
  <2> QED  BY <1>12, <2>1, <2>2, <2>3, <2>4 DEF MailStep
<1>13. ASSUME NEW c \in Context, NEW b \in Box, MailAllocTake(c, b) PROVE Nodes'
  BY <1>2, <1>13 DEF MailAllocTake
<1>14. CASE TimedOut
  BY <1>9, <1>14 DEF TimedOut
<1>15. CASE KernelStep /\ ~WaitReturn /\ UNCHANGED <<queueVars, asks>>
  <2>1. ASSUME NEW u \in Task, NEW p \in {"read", "write"}, NEW q \in Queue
        PROVE  Granted(u, p, q)' <=> Granted(u, p, q)
    <3>1. Carries(u) /\ asks'[u] = asks[u]
      BY <1>15, KernelCarries
    <3> QED  BY <3>1, GrantKept
  <2> QED  BY <1>15, <2>1, NodesSame DEF queueVars
<1> QED
  BY <1>4, <1>5, <1>10, <1>11, <1>12, <1>13, <1>14, <1>15 DEF QueueNext

LEMMA NodesInit == QueueInit => AsksFit /\ Nodes
<1> SUFFICES ASSUME QueueInit PROVE AsksFit /\ Nodes
  OBVIOUS
<1>1. NoAsk \in Asking /\ NoAsk.op = "none"
  BY DEF NoAsk, Asking
<1>2. asks \in [Task -> Asking] /\ \A t \in Task : asks[t].op = "none" /\ pc[t] = "user"
  BY <1>1 DEF QueueInit, Init
<1>3. \A o \in Obj : ToSet(list[o]) = {}
  BY EmptyAtStart DEF ToSet
<1>4. AsksFit
  BY <1>2, <1>3, QueueConstants DEF AsksFit, InCall
<1>5. used = {} /\ \A t \in Task, q \in Queue : ~Granted(t, "read", q) /\ ~Granted(t, "write", q)
  BY <1>2 DEF QueueInit, Granted
<1> QED  BY <1>4, <1>5 DEF Nodes, WokenFindsQueue

\* What is known of the scheduler when the nodes are counted.
KernelFits == TypeInv /\ (~halt => ListInv /\ DelayInv /\ CallInv)

\* Until the kernel follows a null link each step keeps account of the nodes.
LEMMA NodesLiveStep ==
  ASSUME Slice = 0, "Delete" \notin Calls \cup IsrCalls, KernelFits, Counts,
         ~halt => AsksFit /\ Nodes, [QueueNext]_allVars, ~halt'
  PROVE  AsksFit' /\ Nodes'
<1> USE DEF KernelFits
<1>1. CASE UNCHANGED allVars
  <2>1. /\ AsksFit' = AsksFit /\ used' = used /\ readable' = readable /\ writable' = writable
        /\ halt' = halt
    BY <1>1 DEF allVars, vars, taskVars, queueVars, AsksFit
  <2>2. \A t \in Task : \A p, q : Granted(t, p, q)' <=> Granted(t, p, q)
    BY <1>1 DEF allVars, vars, taskVars, Granted, Waiting
  <2> QED  BY <2>1, <2>2, NodesSame
<1>2. CASE QueueNext
  <2>1. ~halt
    BY <1>2, QueueStepIsStep, TimerCases DEF vars
  <2>2. AsksFit'
    BY <1>2, <2>1, AsksStep
  <2> QED  BY <1>2, <2>1, <2>2, NodesStep
<1> QED  BY <1>1, <1>2

\* The account of the nodes is an invariant until the kernel follows a null link.
LEMMA NodesLive ==
  ASSUME Slice = 0, "Delete" \notin Calls \cup IsrCalls
  PROVE  QueueSpec => [](~halt => AsksFit /\ Nodes)
<1> DEFINE Counts_ == TypeInv /\ Counts /\ NodesFound
           Nodes_ == ~halt => AsksFit /\ Nodes
<1>1. QueueInit => Nodes_
  BY NodesInit
<1>2. KernelFits /\ Counts_ /\ Nodes_ /\ [QueueNext]_allVars => Nodes_'
  BY NodesLiveStep
<1>3. Spec => []KernelFits
  BY CallsKept DEF KernelFits
<1>4. QueueSpec => []Counts_
  BY NodesInvariant
<1>5. Nodes_ => (~halt => AsksFit /\ Nodes)
  OBVIOUS
<1> HIDE DEF Counts_, Nodes_
<1>6. QueueSpec => []Nodes_
  BY <1>1, <1>2, <1>3, <1>4, QueueImplementsTask, PTL DEF QueueSpec
<1> QED  BY <1>5, <1>6, PTL

\* The kernel without time slices that deletes no task keeps account of the nodes, until it
\* follows a null link.
THEOREM NodesAccounted ==
  ASSUME Slice = 0, "Delete" \notin Calls \cup IsrCalls
  PROVE  QueueSpec => [](~halt => NodesCounted /\ WokenFindsQueue)
<1>1. (~halt => AsksFit /\ Nodes) => (~halt => NodesCounted /\ WokenFindsQueue)
  BY DEF Nodes, NodesCounted, Total
<1> QED  BY <1>1, NodesLive, PTL

\* Every node of a queue in use is counted or owned by one task that was woken, and that
\* task finds the queue in use, in a kernel that never crashes: without time slices, the
\* unusual situations, suspension by handlers, and the deletion of tasks.
THEOREM EveryNodeCounted ==
  ASSUME Slice = 0, Permits = {}, "Suspend" \notin IsrCalls, "Delete" \notin Calls \cup IsrCalls
  PROVE  QueueSpec => [](NodesCounted /\ WokenFindsQueue)
<1>1. Spec => []NoCrash
  BY NeverCrashes
<1>2. NoCrash /\ (~halt => NodesCounted /\ WokenFindsQueue) => NodesCounted /\ WokenFindsQueue
  BY DEF NoCrash
<1> QED  BY <1>1, <1>2, NodesAccounted, QueueImplementsTask, PTL
-----------------------------------------------------------------------------
(* The messages.  The ring holds those to be read and those that woken      *)
(* readers will take.                                                       *)

Stored(q) == readable[q] + Claims("read", q)

\* The node i places behind node h, and whether k is one of the n nodes from h on.
At(h, i) == (h + i) % QueueLen
Among(h, n, k) == IF h <= k THEN k - h < n ELSE k - h + QueueLen < n

\* The node i places behind h, by cases.
LEMMA AtIs ==
  ASSUME NEW h \in Node, NEW i \in 0..QueueLen
  PROVE  /\ At(h, i) = IF h + i < QueueLen THEN h + i ELSE h + i - QueueLen
         /\ At(h, i) \in Node
BY QueueAssumption DEF At, Node

\* The next node, by cases.
LEMMA AfterIs ==
  ASSUME NEW h \in Node
  PROVE  After(h) = (IF h + 1 < QueueLen THEN h + 1 ELSE 0) /\ After(h) \in Node
<1>1. At(h, 1) = (IF h + 1 < QueueLen THEN h + 1 ELSE h + 1 - QueueLen) /\ At(h, 1) \in Node
  BY AtIs, QueueAssumption
<1>2. h + 1 <= QueueLen
  BY QueueAssumption DEF Node
<1> QED  BY <1>1, <1>2, QueueAssumption DEF At, After, Node

\* The head moves to the next node: the others stay among the messages.
LEMMA HeadLeaves ==
  ASSUME NEW h \in Node, NEW n \in 1..QueueLen
  PROVE  /\ \A k \in Node : Among(After(h), n - 1, k) <=> Among(h, n, k) /\ k # h
         /\ \A i \in 1..n - 1 : At(After(h), i - 1) = At(h, i) /\ At(h, i) # h
         /\ At(After(h), n - 1) = At(h, n) /\ Among(h, n, h) /\ At(h, 0) = h
<1>0. QueueLen \in Nat \ {0} /\ n - 1 \in 0..QueueLen /\ 0 \in 0..QueueLen
  BY QueueAssumption
<1>1. \A k \in Node : Among(After(h), n - 1, k) <=> Among(h, n, k) /\ k # h
  BY <1>0, AfterIs DEF Among, Node
<1>2. ASSUME NEW i \in 1..n PROVE At(After(h), i - 1) = At(h, i) /\ (i < n => At(h, i) # h)
  <2>1. i \in 0..QueueLen /\ i - 1 \in 0..QueueLen /\ h \in Nat /\ h < QueueLen
    BY <1>0 DEF Node
  <2>2. PICK g \in Node : g = After(h)
    BY AfterIs
  <2>3. At(h, i) = IF h + i < QueueLen THEN h + i ELSE h + i - QueueLen
    BY <2>1, AtIs
  <2>4. At(g, i - 1) = IF g + (i - 1) < QueueLen THEN g + (i - 1) ELSE g + (i - 1) - QueueLen
    BY <2>1, AtIs
  <2>5. g = IF h + 1 < QueueLen THEN h + 1 ELSE 0
    BY <2>2, AfterIs
  <2>6. At(g, i - 1) = At(h, i) /\ (i < n => At(h, i) # h)
    BY <1>0, <2>1, <2>3, <2>4, <2>5
  <2> QED  BY <2>2, <2>6
<1>3. At(After(h), n - 1) = At(h, n)
  BY <1>2
<1>4. Among(h, n, h) /\ At(h, 0) = h
  BY <1>0, AtIs DEF Among, Node
<1>5. \A i \in 1..n - 1 : i \in 1..n /\ i < n
  OBVIOUS
<1> QED  BY <1>1, <1>2, <1>3, <1>4, <1>5

\* The node behind the last message joins them.
LEMMA TailJoins ==
  ASSUME NEW h \in Node, NEW n \in 0..QueueLen - 1
  PROVE  /\ \A k \in Node : Among(h, n + 1, k) <=> Among(h, n, k) \/ k = At(h, n)
         /\ At(h, n) \in Node /\ ~Among(h, n, At(h, n))
         /\ After(At(h, n)) = At(h, n + 1)
         /\ \A i \in 0..n - 1 : At(h, i) # At(h, n)
<1>0. QueueLen \in Nat \ {0} /\ n + 1 \in 0..QueueLen /\ n \in 0..QueueLen
  BY QueueAssumption
<1>1. At(h, n) \in Node /\ At(h, n) = IF h + n < QueueLen THEN h + n ELSE h + n - QueueLen
  BY <1>0, AtIs
<1>2. \A k \in Node : Among(h, n + 1, k) <=> Among(h, n, k) \/ k = At(h, n)
  BY <1>0, <1>1 DEF Among, Node
<1>3. ~Among(h, n, At(h, n))
  BY <1>0, <1>1 DEF Among, Node
<1>4. After(At(h, n)) = At(h, n + 1)
  <2>1. At(h, n + 1) = IF h + (n + 1) < QueueLen THEN h + (n + 1) ELSE h + (n + 1) - QueueLen
    BY <1>0, AtIs
  <2>2. After(At(h, n)) = IF At(h, n) + 1 < QueueLen THEN At(h, n) + 1 ELSE 0
    BY <1>1, AfterIs
  <2> QED  BY <1>0, <1>1, <2>1, <2>2 DEF Node
<1>5. ASSUME NEW i \in 0..n - 1 PROVE At(h, i) # At(h, n)
  <2>1. i \in 0..QueueLen
    BY <1>0
  <2>2. At(h, i) = IF h + i < QueueLen THEN h + i ELSE h + i - QueueLen
    BY <2>1, AtIs
  <2> QED  BY <1>0, <1>1, <2>2 DEF Node
<1> QED  BY <1>1, <1>2, <1>3, <1>4, <1>5

\* The nodes among the messages are those some places behind the head.
LEMMA AmongAt ==
  ASSUME NEW h \in Node, NEW n \in 0..QueueLen
  PROVE  /\ \A i \in 0..n - 1 : At(h, i) \in Node /\ Among(h, n, At(h, i))
         /\ \A k \in Node : Among(h, n, k) => \E i \in 0..n - 1 : k = At(h, i)
<1>0. QueueLen \in Nat \ {0}
  BY QueueAssumption
<1>1. ASSUME NEW i \in 0..n - 1 PROVE At(h, i) \in Node /\ Among(h, n, At(h, i))
  <2>1. i \in 0..QueueLen
    BY <1>0
  <2>2. At(h, i) \in Node /\ At(h, i) = IF h + i < QueueLen THEN h + i ELSE h + i - QueueLen
    BY <2>1, AtIs
  <2> QED  BY <1>0, <2>2 DEF Among, Node
<1>2. ASSUME NEW k \in Node, Among(h, n, k) PROVE \E i \in 0..n - 1 : k = At(h, i)
  <2> DEFINE i == IF h <= k THEN k - h ELSE k - h + QueueLen
  <2>1. i \in 0..n - 1 /\ i \in 0..QueueLen
    BY <1>0, <1>2 DEF Among, Node
  <2>2. At(h, i) = IF h + i < QueueLen THEN h + i ELSE h + i - QueueLen
    BY <2>1, AtIs
  <2>3. k = At(h, i)
    BY <1>0, <2>2 DEF Node
  <2> QED  BY <2>1, <2>3
<1> QED  BY <1>1, <1>2
-----------------------------------------------------------------------------
\* A writer that blocked keeps its message until it put it, and a task that was woken for
\* a block, and no other, has one waiting for it.
MailAt(t) ==
  /\ IF asks[t].op = "write" THEN asks[t].msg \in Box ELSE asks[t].msg = Null
  /\ puwMsg[t] # Null <=> Granted(t, "alloc", asks[t].queue)

\* A task whose call and grants stay has what it had.
LEMMA MailSame ==
  ASSUME NEW u \in Task, MailAt(u), puwMsg'[u] = puwMsg[u], asks'[u] = asks[u],
         \A q : Granted(u, "alloc", q)' <=> Granted(u, "alloc", q)
  PROVE  MailAt(u)'
BY DEF MailAt

\* What waits for a task in a call that is carried on.
LEMMA MailKept ==
  ASSUME AsksFit, AsksFit', NEW u \in Task, Carries(u), MailAt(u),
         asks'[u] = asks[u], puwMsg'[u] = puwMsg[u]
  PROVE  MailAt(u)'
<1>1. \A q : Granted(u, "alloc", q)' <=> Granted(u, "alloc", q)
  BY GrantKept
<1> QED  BY <1>1, MailSame

\* A call that ended left its block behind.
LEMMA MailNone ==
  ASSUME NEW u \in Task, asks'[u] = NoAsk, puwMsg'[u] = Null
  PROVE  MailAt(u)'
BY DEF MailAt, NoAsk, Granted

\* A task that is woken to read or write gets no block.
LEMMA MailHand ==
  ASSUME TypeInv, ListInv, CallInv, AsksFit, AsksFit', NEW c, NEW o \in Obj, Hand(list, c, o),
         NEW q \in Queue, o \in {ReadList[q], WriteList[q]}, NEW u \in Task,
         asks'[u] = asks[u], puwMsg' = puwMsg, MailAt(u)
  PROVE  MailAt(u)'
<1>1. PICK t : t = Head(list[o])
  OBVIOUS
<1>2. t \in Task /\ t \in ToSet(list[o]) /\ \A v \in Task \ {t} : Carries(v)
  BY <1>1, HandCarries
<1>3. CASE u = t
  <2>1. asks[u].op # "alloc"
    BY <1>2, <1>3 DEF AsksFit
  <2> QED  BY <2>1, MailSame DEF Granted
<1>4. CASE u # t
  BY <1>2, <1>4, MailKept
<1> QED  BY <1>3, <1>4

\* Every step leaves each task with what its call needs.
LEMMA MailsStep ==
  ASSUME TypeInv, ListInv, CallInv, AsksFit, AsksFit', \A t \in Task : MailAt(t),
         puwMsg \in [Task -> Box \cup {Null}], QueueNext, ~halt', Slice = 0, NEW u \in Task
  PROVE  MailAt(u)'
<1> USE QueueConstants
<1>0. MailAt(u) /\ Null \notin Box /\ asks \in [Task -> Asking]
  BY QueueAssumption DEF AsksFit
<1>1. ASSUME UNCHANGED <<vars, asks, puwMsg>> PROVE MailAt(u)'
  <2>1. \A q : Granted(u, "alloc", q)' <=> Granted(u, "alloc", q)
    BY <1>1 DEF Granted, Waiting, vars, taskVars
  <2> QED  BY <1>0, <1>1, <2>1, MailSame
<1>2. ASSUME NEW c \in Context, NEW q \in Queue, NEW o \in Obj, o \in {ReadList[q], WriteList[q]},
             Wake(c, o), UNCHANGED <<asks, puwMsg>>
      PROVE  MailAt(u)'
  <2>1. Hand(list, c, o) /\ asks'[u] = asks[u] /\ puwMsg' = puwMsg
    BY <1>2 DEF Wake, Release
  <2> QED  BY <1>0, <1>2, <2>1, MailHand
<1>3. ASSUME TaskRuns("woken"), "TIMEOUT" \in status[run] \/ asks[run].op # "alloc"
      PROVE  puwMsg[run] = Null
  <2>1. run \in Task /\ MailAt(run)
    BY <1>3, WokenCalm
  <2> QED  BY <1>3, <2>1 DEF MailAt, Granted
<1>4. ASSUME NEW q \in Queue, NEW o \in Obj, o \in {ReadList[q], WriteList[q]}, PassOn(o),
             asks[run].op # "alloc", asks' = [asks EXCEPT ![run] = NoAsk], puwMsg' = puwMsg
      PROVE  MailAt(u)'
  <2>1. TaskRuns("woken") /\ Hand(list, "task", o) /\ run \in Task
    BY <1>4 DEF PassOn, TaskRuns
  <2>2. CASE u = run
    <3>1. asks'[u] = NoAsk /\ puwMsg'[u] = Null
      BY <1>0, <1>3, <1>4, <2>1, <2>2
    <3> QED  BY <3>1, MailNone
  <2>3. CASE u # run
    <3>1. asks'[u] = asks[u]
      BY <1>0, <1>4, <2>1, <2>3
    <3> DEFINE c == "task"
    <3>2. Hand(list, c, o)
      BY <2>1
    <3> HIDE DEF c
    <3> QED  BY <1>0, <1>4, <3>1, <3>2, MailHand
  <2> QED  BY <2>2, <2>3
<1>5. ASSUME WaitReturn, asks' = [asks EXCEPT ![run] = NoAsk],
             \/ puwMsg' = [puwMsg EXCEPT ![run] = Null]
             \/ puwMsg' = puwMsg /\ ("TIMEOUT" \in status[run] \/ asks[run].op # "alloc")
      PROVE  MailAt(u)'
  <2>1. TaskRuns("woken") /\ run \in Task /\ \A v \in Task \ {run} : Carries(v)
    BY <1>5, ReturnCarries DEF WaitReturn
  <2>2. CASE u = run
    <3>1. asks'[u] = NoAsk /\ puwMsg'[u] = Null
      BY <1>0, <1>3, <1>5, <2>1, <2>2
    <3> QED  BY <3>1, MailNone
  <2>3. CASE u # run
    <3>1. asks'[u] = asks[u] /\ puwMsg'[u] = puwMsg[u] /\ Carries(u)
      BY <1>0, <1>5, <2>1, <2>3
    <3> QED  BY <1>0, <3>1, MailKept
  <2> QED  BY <2>2, <2>3
<1>6. ASSUME NEW o \in Obj, NEW n, NEW ask \in Asking, QueuePend(o, n, ask), puwMsg' = puwMsg,
             IF ask.op = "write" THEN ask.msg \in Box ELSE ask.msg = Null
      PROVE  MailAt(u)'
  <2>1. /\ Pend(o, n, PendPlace(Unlink(list, run)[o]))
        /\ asks' = [asks EXCEPT ![run] = ask]
    BY <1>6 DEF QueuePend
  <2>2. PICK t : t = run
    OBVIOUS
  <2>3. /\ t \in Task /\ pc[t] = "user" /\ status'[t] \cap Waits # {}
        /\ \A v \in Task \ {t} : Carries(v)
    BY <2>1, <2>2, PendCarries DEF Pend
  <2>4. CASE u = t
    <3>1. asks[u].op = "none" /\ puwMsg[u] = Null
      BY <1>0, <2>3, <2>4 DEF AsksFit, InCall, MailAt, Granted
    <3>2. asks'[u] = ask /\ \A q : ~Granted(u, "alloc", q)'
      BY <1>0, <2>1, <2>2, <2>3, <2>4 DEF Granted, Waiting, Waits
    <3> QED  BY <1>6, <3>1, <3>2 DEF MailAt
  <2>5. CASE u # t
    <3>1. asks'[u] = asks[u] /\ puwMsg'[u] = puwMsg[u] /\ Carries(u)
      BY <1>0, <1>6, <2>1, <2>2, <2>3, <2>5
    <3> QED  BY <1>0, <3>1, MailKept
  <2> QED  BY <2>4, <2>5
<1>7. ASSUME NEW q \in Queue, ReadStep(q) PROVE MailAt(u)'
  <2>1. ASSUME NEW c \in Context, ReadTake(c, q) PROVE MailAt(u)'
    BY <1>1, <1>2, <2>1 DEF ReadTake, TakeNode, mailVars
  <2>2. CASE ReadReturn(q)
    BY <1>4, <1>5, <2>2 DEF ReadReturn, Resumes, TakeNode, mailVars
  <2>3. ASSUME NEW n \in Timeouts \cup {Forever}, ReadBlock(q, n) PROVE MailAt(u)'
    <3> DEFINE ask == [op |-> "read", queue |-> q, msg |-> Null]
    <3>1. ask \in Asking /\ ask.op = "read" /\ ask.msg = Null
      BY DEF Asking
    <3>2. QueuePend(ReadList[q], n, ask) /\ puwMsg' = puwMsg
      BY <2>3 DEF ReadBlock, mailVars
    <3> HIDE DEF ask
    <3> QED  BY <3>1, <3>2, <1>6
  <2> QED  BY <1>7, <2>1, <2>2, <2>3 DEF ReadStep
<1>8. ASSUME NEW q \in Queue, WriteStep(q) PROVE MailAt(u)'
  <2>1. ASSUME NEW c \in Context, NEW m \in Box, WriteTake(c, q, m) PROVE MailAt(u)'
    BY <1>1, <1>2, <2>1 DEF WriteTake, FillNode, mailVars
  <2>2. CASE WriteReturn(q)
    BY <1>4, <1>5, <2>2 DEF WriteReturn, Resumes, FillNode, mailVars
  <2>3. ASSUME NEW m \in Box, NEW n \in Timeouts \cup {Forever}, WriteBlock(q, m, n) PROVE MailAt(u)'
    <3> DEFINE ask == [op |-> "write", queue |-> q, msg |-> m]
    <3>1. ask \in Asking /\ ask.op = "write" /\ ask.msg = m
      BY DEF Asking
    <3>2. QueuePend(WriteList[q], n, ask) /\ puwMsg' = puwMsg
      BY <2>3 DEF WriteBlock, mailVars
    <3> HIDE DEF ask
    <3> QED  BY <3>1, <3>2, <1>6
  <2> QED  BY <1>8, <2>1, <2>2, <2>3 DEF WriteStep
<1>9. ASSUME NEW q \in Queue, MailStep(q) PROVE MailAt(u)'
  <2>1. ASSUME NEW c \in Context, NEW b \in Box, MailFreeWake(c, q, b) PROVE MailAt(u)'
    <3> DEFINE o == MemList[q]
    <3>1. /\ o \in Obj /\ Hand(list, c, o) /\ asks' = asks
          /\ puwMsg' = [puwMsg EXCEPT ![Head(list[o])] = b]
      BY <2>1 DEF MailFreeWake, Wake, Release
    <3>2. PICK t : t = Head(list[o])
      OBVIOUS
    <3>a. t \in ToSet(list[o]) => asks[t].op = "alloc" \/ t \notin Task
      BY DEF AsksFit
    <3> HIDE DEF o
    <3>3. t \in Task /\ t \in ToSet(list[o]) /\ BecomesOwner(t) /\ \A v \in Task \ {t} : Carries(v)
      <4>1. asks'[t] = asks[t]
        BY <3>1
      <4> QED  BY <3>1, <3>2, <4>1, HandGrants, HandCarries
    <3>4. CASE u = t
      <4>1. asks[u].op = "alloc" /\ puwMsg'[u] = b /\ asks'[u] = asks[u]
        BY <1>0, <3>1, <3>2, <3>3, <3>4, <3>a
      <4>2. Granted(u, "alloc", asks[u].queue)'
        BY <3>3, <3>4, <4>1 DEF BecomesOwner
      <4> QED  BY <1>0, <4>1, <4>2 DEF MailAt
    <3>5. CASE u # t
      <4>1. asks'[u] = asks[u] /\ puwMsg'[u] = puwMsg[u] /\ Carries(u)
        BY <1>0, <3>1, <3>2, <3>3, <3>5
      <4> QED  BY <1>0, <4>1, MailKept
    <3> QED  BY <3>4, <3>5
  <2>2. ASSUME NEW c \in Context, NEW b \in Box, MailFree(c, q, b) PROVE MailAt(u)'
    BY <1>1, <2>2 DEF MailFree
  <2>3. CASE MailAllocReturn(q)
    BY <1>5, <2>3 DEF MailAllocReturn, Resumes
  <2>4. ASSUME NEW n \in Timeouts \cup {Forever}, MailAllocBlock(q, n) PROVE MailAt(u)'
    <3> DEFINE ask == [op |-> "alloc", queue |-> q, msg |-> Null]
    <3>1. ask \in Asking /\ ask.op = "alloc" /\ ask.msg = Null
      BY DEF Asking
    <3>2. QueuePend(MemList[q], n, ask) /\ puwMsg' = puwMsg
      BY <2>4 DEF MailAllocBlock, mailVars
    <3> HIDE DEF ask
    <3> QED  BY <3>1, <3>2, <1>6
  <2> QED  BY <1>9, <2>1, <2>2, <2>3, <2>4 DEF MailStep
<1>10. CASE TimedOut
  BY <1>5, <1>10 DEF TimedOut, mailVars
<1>11. CASE KernelStep /\ ~WaitReturn /\ UNCHANGED <<asks, mailVars>>
  <2>1. Carries(u) /\ asks'[u] = asks[u] /\ puwMsg'[u] = puwMsg[u]
    BY <1>11, KernelCarries DEF mailVars
  <2> QED  BY <1>0, <2>1, MailKept
<1>12. ASSUME NEW c \in Context, NEW q \in Queue, LOS_QueueCreate(c, q) \/ LOS_QueueDelete(c, q)
       PROVE  MailAt(u)'
  BY <1>1, <1>12 DEF LOS_QueueCreate, LOS_QueueDelete, mailVars
<1>13. ASSUME NEW c \in Context, NEW b \in Box, MailAllocTake(c, b) PROVE MailAt(u)'
  BY <1>1, <1>13 DEF MailAllocTake
<1> QED
  BY <1>7, <1>8, <1>9, <1>10, <1>11, <1>12, <1>13 DEF QueueNext
-----------------------------------------------------------------------------
(* What a step does to the messages, whoever makes it.                      *)

\* The step changes the number of messages in the ring of q by d.
StoredBy(q, d) ==
  Stored(q)' = Stored(q) + d /\ \A r \in Queue \ {q} : Stored(r)' = Stored(r)

\* The step lets t alone have the message m in its call.
Keeps(t, m) ==
  asks'[t].msg = m /\ \A u \in Task \ {t} : asks'[u].msg = asks[u].msg

KeepsAll == \A t \in Task : asks'[t].msg = asks[t].msg

\* The message at the head of q goes to the application.
Takes(q) == q \in used /\ Stored(q) \in 1..QueueLen /\ StoredBy(q, -1) /\ TakeNode(q) /\ KeepsAll

\* The message m joins the ring of q, from the application or from a call that blocked.
Puts(q, m) ==
  /\ q \in used /\ Stored(q) \in 0..QueueLen - 1 /\ StoredBy(q, 1) /\ FillNode(q, m)
  /\ \/ m \in held /\ held' = held \ {m} /\ KeepsAll
     \/ held' = held /\ \E t \in Task : m = asks[t].msg /\ Keeps(t, Null)

\* No message enters or leaves a ring.
RingStays ==
  UNCHANGED <<used, ring, qHead, qTail>> /\ \A q \in Queue : Stored(q)' = Stored(q)

\* When nobody becomes or ceases to be an owner, the numbers of owners stay.
LEMMA ClaimsSame ==
  ASSUME \A u \in Task : KeepsNodes(u), NEW op \in {"read", "write"}, NEW q
  PROVE  Claims(op, q)' = Claims(op, q)
BY ClaimsCount DEF KeepsNodes

\* The nodes of a queue in use bound its messages.
LEMMA StoredRange ==
  ASSUME Nodes, Counts, NEW q \in used
  PROVE  /\ Stored(q) \in 0..QueueLen /\ q \in Queue
         /\ readable[q] > 0 \/ Claims("read", q) > 0 => Stored(q) \in 1..QueueLen
         /\ writable[q] > 0 \/ Claims("write", q) > 0 => Stored(q) \in 0..QueueLen - 1
<1>1. /\ q \in Queue /\ readable[q] \in Nat /\ writable[q] \in Nat /\ QueueLen \in Nat
      /\ Claims("read", q) \in Nat /\ Claims("write", q) \in Nat
      /\ readable[q] + writable[q] + Claims("read", q) + Claims("write", q) = QueueLen
  BY QueueConstants, ClaimsCount DEF Nodes, Counts, Total
<1> QED  BY <1>1 DEF Stored

\* LOS_QueueRead with a message to read.
LEMMA ReadTakes ==
  ASSUME TypeInv, ListInv, CallInv, AsksFit, AsksFit', Nodes, Counts,
         NEW c \in Context, NEW q \in Queue, ReadTake(c, q)
  PROVE  Takes(q)
<1> USE QueueConstants
<1>1. /\ q \in used /\ readable[q] > 0 /\ TakeNode(q) /\ asks' = asks
      /\ readable' = [readable EXCEPT ![q] = @ - 1]
      /\ Wake(c, WriteList[q]) \/ UNCHANGED vars
  BY DEF ReadTake
<1>2. \A r \in Queue : Claims("read", r)' = Claims("read", r)
  <2>1. CASE UNCHANGED vars
    <3>1. \A t \in Task, r \in Queue : Granted(t, "read", r)' <=> Granted(t, "read", r)
      BY <1>1, <2>1 DEF Granted, Waiting, vars, taskVars
    <3> QED  BY <3>1, ClaimsCount
  <2>2. CASE Wake(c, WriteList[q])
    <3> DEFINE o == WriteList[q]
               op == "write"
    <3>1. /\ o \in Obj /\ op \in {"read", "write"} /\ Wake(c, o) /\ op # "read"
          /\ o = IF op = "read" THEN ReadList[q] ELSE WriteList[q]
      BY <2>2
    <3> HIDE DEF o, op
    <3>2. \A p \in {"read", "write"}, r \in Queue :
            p # op \/ r # q => Claims(p, r)' = Claims(p, r)
      BY <1>1, <3>1, WakeNodes
    <3> QED  BY <3>1, <3>2
  <2> QED  BY <1>1, <2>1, <2>2
<1>3. readable'[q] = readable[q] - 1 /\ \A r \in Queue \ {q} : readable'[r] = readable[r]
  BY <1>1 DEF Counts
<1>4. StoredBy(q, -1)
  <2>1. readable[q] \in Nat /\ Claims("read", q) \in Nat
    BY ClaimsCount DEF Counts
  <2> QED  BY <1>2, <1>3, <2>1 DEF StoredBy, Stored
<1> QED  BY <1>1, <1>4, StoredRange DEF Takes, KeepsAll

\* LOS_QueueWrite with a free node.
LEMMA WriteTakes ==
  ASSUME TypeInv, ListInv, CallInv, AsksFit, AsksFit', Nodes, Counts,
         NEW c \in Context, NEW q \in Queue, NEW m \in Box, WriteTake(c, q, m)
  PROVE  Puts(q, m)
<1> USE QueueConstants
<1>1. /\ q \in used /\ writable[q] > 0 /\ FillNode(q, m) /\ asks' = asks
      /\ m \in held /\ held' = held \ {m}
      /\ \/ Wake(c, ReadList[q]) /\ readable' = readable
         \/ UNCHANGED vars /\ readable' = [readable EXCEPT ![q] = @ + 1]
  BY DEF WriteTake
<1>2. readable[q] \in Nat /\ Claims("read", q) \in Nat
  BY ClaimsCount DEF Counts
<1>3. CASE UNCHANGED vars /\ readable' = [readable EXCEPT ![q] = @ + 1]
  <2>1. \A t \in Task, r \in Queue : Granted(t, "read", r)' <=> Granted(t, "read", r)
    BY <1>1, <1>3 DEF Granted, Waiting, vars, taskVars
  <2>2. \A r \in Queue : Claims("read", r)' = Claims("read", r)
    BY <2>1, ClaimsCount
  <2>3. readable'[q] = readable[q] + 1 /\ \A r \in Queue \ {q} : readable'[r] = readable[r]
    BY <1>3 DEF Counts
  <2>4. StoredBy(q, 1)
    BY <1>2, <2>2, <2>3 DEF StoredBy, Stored
  <2> QED  BY <1>1, <2>4, StoredRange DEF Puts, KeepsAll
<1>4. CASE Wake(c, ReadList[q]) /\ readable' = readable
  <2> DEFINE o == ReadList[q]
             op == "read"
  <2>1. /\ o \in Obj /\ op \in {"read", "write"} /\ Wake(c, o) /\ op = "read"
        /\ o = IF op = "read" THEN ReadList[q] ELSE WriteList[q]
    BY <1>4
  <2> HIDE DEF o, op
  <2>2. /\ Claims(op, q)' = Claims(op, q) + 1
        /\ \A p \in {"read", "write"}, r \in Queue :
             p # op \/ r # q => Claims(p, r)' = Claims(p, r)
    BY <1>1, <2>1, WakeNodes
  <2>3. StoredBy(q, 1)
    BY <1>2, <1>4, <2>1, <2>2 DEF StoredBy, Stored
  <2> QED  BY <1>1, <2>3, StoredRange DEF Puts, KeepsAll
<1> QED  BY <1>1, <1>3, <1>4

\* A call that ends with a message of none, or gives its own away.
LEMMA ReturnKeeps ==
  ASSUME AsksFit, AsksFit', TaskRuns("woken"), asks' = [asks EXCEPT ![run] = NoAsk]
  PROVE  run \in Task /\ Keeps(run, Null) /\ (asks[run].msg = Null => KeepsAll)
BY DEF AsksFit, Keeps, KeepsAll, NoAsk, TaskRuns

\* The reader that was woken takes the oldest message.
LEMMA ReadReturns ==
  ASSUME TypeInv, ListInv, CallInv, AsksFit, AsksFit', Nodes, Counts, \A t \in Task : MailAt(t),
         NEW q \in Queue, ReadReturn(q)
  PROVE  Takes(q)
<1> USE QueueConstants
<1>1. /\ Resumes("read", q) /\ TakeNode(q) /\ readable' = readable
      /\ PassOn(WriteList[q]) \/ WaitReturn
      /\ TaskRuns("woken") /\ asks' = [asks EXCEPT ![run] = NoAsk] /\ asks[run].op = "read"
  BY DEF ReadReturn, Resumes
<1> DEFINE o == WriteList[q]
           op == "read"
           other == "write"
<1>2. /\ o \in Obj /\ op \in {"read", "write"} /\ other \in {"read", "write"} /\ op # other
      /\ o = (IF other = "read" THEN ReadList[q] ELSE WriteList[q])
      /\ Resumes(op, q)
      /\ PassOn(o) \/ WaitReturn
  BY <1>1
<1>3. op = "read"
  OBVIOUS
<1> HIDE DEF o, op, other
<1>4. /\ q \in used /\ Claims(op, q)' = Claims(op, q) - 1
      /\ \A p \in {"read", "write"}, r \in Queue \ {q} : Claims(p, r)' = Claims(p, r)
  BY <1>2, ReturnNodes
<1>5. readable[q] \in Nat /\ Claims("read", q) \in Nat /\ Claims("read", q)' \in Nat
  BY ClaimsCount DEF Counts
<1>6. StoredBy(q, -1) /\ Claims("read", q) > 0
  BY <1>1, <1>3, <1>4, <1>5 DEF StoredBy, Stored
<1>7. KeepsAll
  BY <1>1, ReturnKeeps DEF MailAt
<1> QED  BY <1>1, <1>4, <1>6, <1>7, StoredRange DEF Takes

\* The writer that was woken puts the message it came with.
LEMMA WriteReturns ==
  ASSUME TypeInv, ListInv, CallInv, AsksFit, AsksFit', Nodes, Counts, \A t \in Task : MailAt(t),
         NEW q \in Queue, WriteReturn(q)
  PROVE  asks[run].msg \in Box /\ Puts(q, asks[run].msg)
<1> USE QueueConstants
<1>1. /\ Resumes("write", q) /\ FillNode(q, asks[run].msg) /\ held' = held
      /\ \/ PassOn(ReadList[q]) /\ readable' = readable
         \/ /\ list[ReadList[q]] = <<>> /\ WaitReturn
            /\ readable' = [readable EXCEPT ![q] = @ + 1]
      /\ TaskRuns("woken") /\ asks' = [asks EXCEPT ![run] = NoAsk] /\ asks[run].op = "write"
  BY DEF WriteReturn, Resumes
<1> DEFINE o == ReadList[q]
           op == "write"
           other == "read"
<1>2. /\ o \in Obj /\ op \in {"read", "write"} /\ other \in {"read", "write"} /\ op # other
      /\ o = (IF other = "read" THEN ReadList[q] ELSE WriteList[q])
      /\ Resumes(op, q)
      /\ PassOn(o) \/ WaitReturn
      /\ \/ PassOn(o) /\ readable' = readable
         \/ ~PassOn(o) /\ readable' = [readable EXCEPT ![q] = @ + 1]
  BY <1>1 DEF PassOn, Hand
<1>3. op = "write" /\ other = "read"
  OBVIOUS
<1> HIDE DEF o, op, other
<1>4. /\ q \in used /\ Claims(op, q)' = Claims(op, q) - 1
      /\ PassOn(o) => Claims(other, q)' = Claims(other, q) + 1
      /\ ~PassOn(o) => Claims(other, q)' = Claims(other, q)
      /\ \A p \in {"read", "write"}, r \in Queue \ {q} : Claims(p, r)' = Claims(p, r)
  BY <1>2, ReturnNodes
<1>5. /\ readable[q] \in Nat /\ Claims("read", q) \in Nat
      /\ Claims("write", q) \in Nat /\ Claims("write", q)' \in Nat
  BY ClaimsCount DEF Counts
<1>6. StoredBy(q, 1)
  <2>1. \/ Claims("read", q)' = Claims("read", q) + 1 /\ readable'[q] = readable[q]
        \/ Claims("read", q)' = Claims("read", q) /\ readable'[q] = readable[q] + 1
    BY <1>2, <1>3, <1>4 DEF Counts
  <2>2. \A r \in Queue \ {q} : readable'[r] = readable[r] /\ Claims("read", r)' = Claims("read", r)
    BY <1>2, <1>4 DEF Counts
  <2> QED  BY <1>5, <2>1, <2>2 DEF StoredBy, Stored
<1>7. run \in Task /\ Keeps(run, Null) /\ asks[run].msg \in Box
  BY <1>1, ReturnKeeps DEF MailAt
<1>8. Claims("write", q) > 0
  BY <1>3, <1>4, <1>5
<1> QED  BY <1>1, <1>4, <1>6, <1>7, <1>8, StoredRange DEF Puts
-----------------------------------------------------------------------------
\* The head, the tail and the nodes that are not empty agree with the number of messages.
RingFit ==
  /\ used \subseteq Queue /\ qHead \in [Queue -> Node] /\ qTail \in [Queue -> Node]
  /\ ring \in [Queue -> [Node -> Box \cup {Null}]]
  /\ \A q \in used : qTail[q] = At(qHead[q], Stored(q))
  /\ \A q \in Queue, k \in Node :
       ring[q][k] # Null <=> q \in used /\ Among(qHead[q], Stored(q), k)

\* The contents of a queue, as a sequence.
LEMMA ContentsIs ==
  ASSUME Nodes, Counts, RingFit, NEW q \in Queue
  PROVE  /\ q \notin used => Contents(q) = <<>>
         /\ q \in used => /\ Contents(q) \in Seq(Box) /\ Len(Contents(q)) = Stored(q)
                          /\ \A i \in 1..Stored(q) : Contents(q)[i] = ring[q][At(qHead[q], i - 1)]
         /\ ToSet(Contents(q)) = {ring[q][k] : k \in Node} \ {Null}
<1>1. CASE q \notin used
  <2>1. Contents(q) = <<>>
    BY <1>1 DEF Contents
  <2>2. {ring[q][k] : k \in Node} \ {Null} = {}
    BY <1>1 DEF RingFit
  <2>3. ToSet(Contents(q)) = {}
    BY <2>1 DEF ToSet
  <2> QED  BY <1>1, <2>1, <2>2, <2>3
<1>2. CASE q \in used
  <2> DEFINE n == Stored(q)
             h == qHead[q]
             C == Contents(q)
  <2>1. n \in 0..QueueLen /\ h \in Node /\ n \in Nat /\ h \in Int
    BY <1>2, StoredRange DEF RingFit, Node
  <2>2. C = [i \in 1..n |-> ring[q][(h + i - 1) % QueueLen]]
    BY <1>2 DEF Contents, Stored
  <2>3. ASSUME NEW i \in 1..n
        PROVE  /\ C[i] = ring[q][At(h, i - 1)] /\ At(h, i - 1) \in Node
               /\ ring[q][At(h, i - 1)] \in Box
    <3>1. i - 1 \in 0..n - 1 /\ h + i - 1 = h + (i - 1)
      BY <2>1
    <3>2. At(h, i - 1) \in Node /\ Among(h, n, At(h, i - 1))
      BY <2>1, <3>1, AmongAt
    <3>3. ring[q][At(h, i - 1)] \in Box
      BY <1>2, <3>2 DEF RingFit
    <3>4. C[i] = ring[q][(h + i - 1) % QueueLen]
      BY <2>2
    <3>5. C[i] = ring[q][At(h, i - 1)]
      BY <3>1, <3>4 DEF At
    <3> QED  BY <3>2, <3>3, <3>5
  <2> HIDE DEF n, h, C
  <2>4. C \in [1..n -> Box] /\ C \in Seq(Box) /\ Len(C) = n /\ DOMAIN C = 1..n
    <3>1. C \in [1..n -> Box] /\ DOMAIN C = 1..n
      BY <2>2, <2>3
    <3> QED  BY <2>1, <3>1
  <2>5. ASSUME NEW k \in Node, ring[q][k] # Null PROVE \E i \in 1..n : C[i] = ring[q][k]
    <3>1. Among(h, n, k)
      BY <1>2, <2>5 DEF RingFit, h, n
    <3>2. PICK i \in 0..n - 1 : k = At(h, i)
      BY <2>1, <3>1, AmongAt
    <3>3. i + 1 \in 1..n /\ (i + 1) - 1 = i
      BY <2>1
    <3>4. C[i + 1] = ring[q][At(h, (i + 1) - 1)]
      BY <2>3, <3>3
    <3> QED  BY <3>2, <3>3, <3>4
  <2>6. ToSet(C) = {ring[q][k] : k \in Node} \ {Null}
    <3>1. \A m \in ToSet(C) : \E i \in 1..n : m = C[i]
      BY <2>4 DEF ToSet
    <3>2. \A i \in 1..n : C[i] \in ToSet(C)
      BY <2>4 DEF ToSet
    <3>3. ToSet(C) \subseteq {ring[q][k] : k \in Node} \ {Null}
      BY <2>3, <3>1, QueueAssumption
    <3>4. \A m \in {ring[q][k] : k \in Node} \ {Null} : m \in ToSet(C)
      BY <2>5, <3>2
    <3> QED  BY <3>3, <3>4
  <2> QED  BY <1>2, <2>3, <2>4, <2>6 DEF n, h, C
<1> QED  BY <1>1, <1>2

\* A queue whose ring and number of messages stay has the same contents.
LEMMA ContentsSame ==
  ASSUME NEW q \in Queue, q \in used' <=> q \in used, Stored(q)' = Stored(q),
         ring'[q] = ring[q], qHead'[q] = qHead[q]
  PROVE  Contents(q)' = Contents(q)
<1>1. CASE q \in used
  BY <1>1 DEF Contents, Stored
<1>2. CASE q \notin used
  BY <1>2 DEF Contents
<1> QED  BY <1>1, <1>2

\* No message enters or leaves a ring: the rings fit and hold what they held.
LEMMA RingKept ==
  ASSUME RingFit, RingStays
  PROVE  RingFit' /\ \A q \in Queue : Contents(q)' = Contents(q)
<1>1. \A q \in Queue : Contents(q)' = Contents(q)
  BY ContentsSame DEF RingStays
<1>2. \A q \in used' : qTail'[q] = At(qHead'[q], Stored(q)')
  BY DEF RingFit, RingStays
<1>3. \A q \in Queue, k \in Node :
        ring'[q][k] # Null <=> q \in used' /\ Among(qHead'[q], Stored(q)', k)
  BY DEF RingFit, RingStays
<1> QED
  BY <1>1, <1>2, <1>3 DEF RingFit, RingStays
-----------------------------------------------------------------------------
\* What ContentsIs says of a queue.
ContentsAre(q) ==
  /\ q \notin used => Contents(q) = <<>>
  /\ q \in used => /\ Contents(q) \in Seq(Box) /\ Len(Contents(q)) = Stored(q)
                   /\ \A i \in 1..Stored(q) : Contents(q)[i] = ring[q][At(qHead[q], i - 1)]
  /\ ToSet(Contents(q)) = {ring[q][k] : k \in Node} \ {Null}

\* That it holds in a state, and in the next one.
LEMMA ContentsNow == Nodes /\ Counts /\ RingFit => \A q \in Queue : ContentsAre(q)
BY ContentsIs DEF ContentsAre

LEMMA ContentsNext == Nodes' /\ Counts' /\ RingFit' => \A q \in Queue : ContentsAre(q)'
<1>1. (Nodes /\ Counts /\ RingFit => \A q \in Queue : ContentsAre(q))'
  BY ContentsNow, PTL
<1> QED  BY <1>1

\* The oldest message leaves.
LEMMA TakeRing ==
  ASSUME Nodes, Counts, RingFit, Nodes', Counts', NEW q \in Queue, Takes(q)
  PROVE  /\ RingFit'
         /\ ring[q][qHead[q]] \in Box
         /\ Contents(q) # <<>> /\ Head(Contents(q)) = ring[q][qHead[q]]
         /\ Contents(q)' = Tail(Contents(q))
         /\ \A r \in Queue \ {q} : Contents(r)' = Contents(r)
<1> DEFINE h == qHead[q]
           n == Stored(q)
<1>1. h \in Node /\ n \in 1..QueueLen /\ q \in used /\ used \subseteq Queue
  BY DEF RingFit, Takes
<1>2. /\ used' = used /\ qTail' = qTail /\ qHead' = [qHead EXCEPT ![q] = After(h)]
      /\ ring' = [ring EXCEPT ![q][h] = Null]
      /\ Stored(q)' = n - 1 /\ \A r \in Queue \ {q} : Stored(r)' = Stored(r)
  BY DEF Takes, TakeNode, StoredBy
<1>3. /\ After(h) \in Node
      /\ \A k \in Node : Among(After(h), n - 1, k) <=> Among(h, n, k) /\ k # h
      /\ \A i \in 1..n - 1 : At(After(h), i - 1) = At(h, i) /\ At(h, i) # h
      /\ At(After(h), n - 1) = At(h, n) /\ Among(h, n, h) /\ At(h, 0) = h
  BY <1>1, AfterIs, HeadLeaves
<1>4. /\ ring[q][h] \in Box
      /\ qTail[q] = At(h, n)
      /\ \A k \in Node : ring[q][k] # Null <=> Among(h, n, k)
  BY <1>1, <1>3 DEF RingFit
<1>5. /\ qHead'[q] = After(h) /\ qTail'[q] = At(After(h), n - 1)
      /\ \A k \in Node : ring'[q][k] = IF k = h THEN Null ELSE ring[q][k]
      /\ \A r \in Queue \ {q} : ring'[r] = ring[r] /\ qHead'[r] = qHead[r] /\ qTail'[r] = qTail[r]
  BY <1>1, <1>2, <1>3, <1>4 DEF RingFit
<1> HIDE DEF h, n
<1>6. RingFit'
  <2>1. /\ qHead' \in [Queue -> Node] /\ qTail' \in [Queue -> Node] /\ used' \subseteq Queue
        /\ ring' \in [Queue -> [Node -> Box \cup {Null}]]
    BY <1>1, <1>2, <1>3 DEF RingFit
  <2>2. ASSUME NEW r \in used' PROVE qTail'[r] = At(qHead'[r], Stored(r)')
    <3>1. CASE r = q
      BY <1>2, <1>5, <3>1
    <3>2. CASE r # q
      BY <1>1, <1>2, <1>5, <3>2 DEF RingFit
    <3> QED  BY <3>1, <3>2
  <2>3. ASSUME NEW r \in Queue, NEW k \in Node
        PROVE  ring'[r][k] # Null <=> r \in used' /\ Among(qHead'[r], Stored(r)', k)
    <3>1. CASE r = q
      BY <1>1, <1>2, <1>3, <1>4, <1>5, <3>1
    <3>2. CASE r # q
      BY <1>2, <1>5, <3>2 DEF RingFit
    <3> QED  BY <3>1, <3>2
  <2> QED  BY <2>1, <2>2, <2>3 DEF RingFit
<1>7. ASSUME NEW r \in Queue \ {q} PROVE Contents(r)' = Contents(r)
  BY <1>2, <1>5, ContentsSame
<1>8. /\ Contents(q) \in Seq(Box) /\ Len(Contents(q)) = n
      /\ \A i \in 1..n : Contents(q)[i] = ring[q][At(h, i - 1)]
  BY <1>1, ContentsNow DEF ContentsAre, h, n
<1>9. /\ Contents(q)' \in Seq(Box) /\ Len(Contents(q)') = n - 1
      /\ \A i \in 1..n - 1 : Contents(q)'[i] = ring'[q][At(After(h), i - 1)]
  BY <1>1, <1>2, <1>5, <1>6, ContentsNext DEF ContentsAre
<1> DEFINE C == Contents(q)
           D == Contents(q)'
<1> HIDE DEF C, D
<1>10. /\ C \in Seq(Box) /\ Len(C) = n /\ D \in Seq(Box) /\ Len(D) = n - 1
       /\ n \in Nat /\ n >= 1
  BY <1>1, <1>8, <1>9, QueueConstants DEF C, D
<1>11. C # <<>> /\ Head(C) = C[1] /\ Tail(C) \in Seq(Box) /\ Len(Tail(C)) = n - 1
       /\ \A i \in 1..n - 1 : Tail(C)[i] = C[i + 1]
  BY <1>10, HeadTailProperties, EmptySeq
<1>12. ASSUME NEW i \in 1..n - 1 PROVE D[i] = Tail(C)[i]
  <2>1. i \in 1..n /\ i + 1 \in 1..n /\ (i + 1) - 1 = i
    BY <1>10
  <2>2. C[i + 1] = ring[q][At(h, i)]
    BY <1>8, <2>1 DEF C
  <2>3. i \in 0..n - 1
    BY <1>10
  <2>4. At(h, i) \in Node
    BY <1>1, <1>10, <2>3, AmongAt
  <2>5. D[i] = ring[q][At(h, i)]
    BY <1>3, <1>5, <1>9, <2>4 DEF D
  <2> QED  BY <1>11, <2>2, <2>5
<1>13. D = Tail(C)
  BY <1>10, <1>11, <1>12, SeqEqual
<1>14. C[1] = ring[q][h]
  <2>1. 1 \in 1..n /\ 1 - 1 = 0
    BY <1>10
  <2> QED  BY <1>3, <1>8, <2>1 DEF C
<1> QED  BY <1>4, <1>6, <1>7, <1>11, <1>13, <1>14 DEF C, D, h

\* A message joins the others behind the newest.
LEMMA PutRing ==
  ASSUME Nodes, Counts, RingFit, Nodes', Counts', NEW q \in Queue, NEW m \in Box, Puts(q, m)
  PROVE  /\ RingFit'
         /\ ring[q][qTail[q]] = Null /\ Len(Contents(q)) < QueueLen
         /\ Contents(q)' = Append(Contents(q), m)
         /\ \A r \in Queue \ {q} : Contents(r)' = Contents(r)
<1> DEFINE h == qHead[q]
           n == Stored(q)
           e == qTail[q]
<1>1. /\ h \in Node /\ e \in Node /\ n \in 0..QueueLen - 1 /\ q \in used /\ used \subseteq Queue
      /\ m # Null
  BY QueueAssumption DEF RingFit, Puts
<1>2. /\ used' = used /\ qHead' = qHead /\ qTail' = [qTail EXCEPT ![q] = After(e)]
      /\ ring' = [ring EXCEPT ![q][e] = m]
      /\ Stored(q)' = n + 1 /\ \A r \in Queue \ {q} : Stored(r)' = Stored(r)
  BY DEF Puts, FillNode, StoredBy
<1>3. /\ e = At(h, n)
      /\ \A k \in Node : ring[q][k] # Null <=> Among(h, n, k)
  BY <1>1 DEF RingFit
<1>4. /\ \A k \in Node : Among(h, n + 1, k) <=> Among(h, n, k) \/ k = e
      /\ ~Among(h, n, e)
      /\ After(e) = At(h, n + 1) /\ After(e) \in Node
      /\ \A i \in 0..n - 1 : At(h, i) # e
  BY <1>1, <1>3, AfterIs, TailJoins
<1>5. /\ qTail'[q] = At(h, n + 1) /\ ring[q][e] = Null
      /\ \A k \in Node : ring'[q][k] = IF k = e THEN m ELSE ring[q][k]
      /\ \A r \in Queue \ {q} : ring'[r] = ring[r] /\ qTail'[r] = qTail[r]
  BY <1>1, <1>2, <1>3, <1>4 DEF RingFit
<1> HIDE DEF h, n, e
<1>6. RingFit'
  <2>1. /\ qHead' \in [Queue -> Node] /\ qTail' \in [Queue -> Node] /\ used' \subseteq Queue
        /\ ring' \in [Queue -> [Node -> Box \cup {Null}]]
    BY <1>1, <1>2, <1>4 DEF RingFit
  <2>2. ASSUME NEW r \in used' PROVE qTail'[r] = At(qHead'[r], Stored(r)')
    <3>1. CASE r = q
      BY <1>2, <1>5, <3>1 DEF h
    <3>2. CASE r # q
      BY <1>1, <1>2, <1>5, <3>2 DEF RingFit
    <3> QED  BY <3>1, <3>2
  <2>3. ASSUME NEW r \in Queue, NEW k \in Node
        PROVE  ring'[r][k] # Null <=> r \in used' /\ Among(qHead'[r], Stored(r)', k)
    <3>1. CASE r = q
      BY <1>1, <1>2, <1>3, <1>4, <1>5, <3>1 DEF h
    <3>2. CASE r # q
      BY <1>2, <1>5, <3>2 DEF RingFit
    <3> QED  BY <3>1, <3>2
  <2> QED  BY <2>1, <2>2, <2>3 DEF RingFit
<1>7. ASSUME NEW r \in Queue \ {q} PROVE Contents(r)' = Contents(r)
  BY <1>2, <1>5, ContentsSame
<1>8. /\ Contents(q) \in Seq(Box) /\ Len(Contents(q)) = n
      /\ \A i \in 1..n : Contents(q)[i] = ring[q][At(h, i - 1)]
  BY <1>1, ContentsNow DEF ContentsAre, h, n
<1>9. /\ Contents(q)' \in Seq(Box) /\ Len(Contents(q)') = n + 1
      /\ \A i \in 1..n + 1 : Contents(q)'[i] = ring'[q][At(h, i - 1)]
  BY <1>1, <1>2, <1>6, ContentsNext DEF ContentsAre, h
<1> DEFINE C == Contents(q)
           D == Contents(q)'
<1> HIDE DEF C, D
<1>10. /\ C \in Seq(Box) /\ Len(C) = n /\ D \in Seq(Box) /\ Len(D) = n + 1
       /\ n \in Nat /\ n < QueueLen /\ QueueLen \in Nat
  BY <1>1, <1>8, <1>9, QueueConstants DEF C, D
<1>11. /\ Append(C, m) \in Seq(Box) /\ Len(Append(C, m)) = n + 1 /\ Append(C, m)[n + 1] = m
       /\ \A i \in 1..n : Append(C, m)[i] = C[i]
  BY <1>10, AppendProperties
<1>12. ASSUME NEW i \in 1..n + 1 PROVE D[i] = Append(C, m)[i]
  <2>0. D[i] = ring'[q][At(h, i - 1)]
    BY <1>9 DEF D
  <2>1. CASE i = n + 1
    <3>1. i - 1 = n
      BY <1>10, <2>1
    <3>2. D[i] = m
      BY <1>1, <1>3, <1>5, <2>0, <3>1
    <3> QED  BY <1>11, <2>1, <3>2
  <2>2. CASE i # n + 1
    <3>1. i \in 1..n /\ i - 1 \in 0..n - 1 /\ n \in 0..QueueLen
      BY <1>10, <2>2
    <3>2. At(h, i - 1) \in Node /\ At(h, i - 1) # e
      BY <1>1, <1>4, <3>1, AmongAt
    <3>3. D[i] = C[i]
      BY <1>5, <1>8, <2>0, <3>1, <3>2 DEF C
    <3> QED  BY <1>11, <3>1, <3>3
  <2> QED  BY <2>1, <2>2
<1>13. D = Append(C, m)
  BY <1>10, <1>11, <1>12, SeqEqual
<1> QED  BY <1>5, <1>6, <1>7, <1>10, <1>13 DEF C, D, e
-----------------------------------------------------------------------------
\* Nobody's message moves outside the rings.
Rests == UNCHANGED <<mailVars, held>> /\ KeepsAll

\* The queue q comes into use, and is empty.
Opens(q) ==
  /\ q \in Queue \ used /\ used' = used \cup {q}
  /\ ring' = [ring EXCEPT ![q] = [i \in Node |-> Null]]
  /\ qHead' = [qHead EXCEPT ![q] = 0] /\ qTail' = [qTail EXCEPT ![q] = 0]
  /\ Stored(q)' = 0 /\ \A r \in Queue \ {q} : Stored(r)' = Stored(r)
  /\ Rests

\* The queue q is in use no more, and the application has its messages.
Drops(q) ==
  /\ q \in used /\ used' = used \ {q} /\ held' = held \cup ToSet(Contents(q))
  /\ ring' = [ring EXCEPT ![q] = [i \in Node |-> Null]]
  /\ \A r \in Queue \ {q} : Stored(r)' = Stored(r)
  /\ UNCHANGED <<qHead, qTail, mailVars>> /\ KeepsAll

\* A queue that is created owes nobody a node.
LEMMA CreateOpens ==
  ASSUME Counts, Nodes, NEW c \in Context, NEW q \in Queue, LOS_QueueCreate(c, q)
  PROVE  Opens(q)
<1>1. /\ q \notin used /\ used' = used \cup {q} /\ UNCHANGED <<vars, asks, mailVars, held>>
      /\ readable' = [readable EXCEPT ![q] = 0]
      /\ ring' = [ring EXCEPT ![q] = [i \in Node |-> Null]]
      /\ qHead' = [qHead EXCEPT ![q] = 0] /\ qTail' = [qTail EXCEPT ![q] = 0]
  BY DEF LOS_QueueCreate, FirstUnused
<1>2. \A t \in Task, r \in Queue : Granted(t, "read", r)' <=> Granted(t, "read", r)
  BY <1>1 DEF Granted, Waiting, vars, taskVars
<1>3. \A r \in Queue : Claims("read", r)' = Claims("read", r)
  BY <1>2, ClaimsCount
<1>4. Claims("read", q) = 0
  BY <1>1, ClaimsCount DEF Nodes, WokenFindsQueue
<1>5. readable'[q] = 0 /\ \A r \in Queue \ {q} : readable'[r] = readable[r]
  BY <1>1 DEF Counts
<1>6. Stored(q)' = 0 /\ \A r \in Queue \ {q} : Stored(r)' = Stored(r)
  BY <1>3, <1>4, <1>5 DEF Stored
<1> QED  BY <1>1, <1>6 DEF Opens, Rests, KeepsAll

\* A queue that is deleted gives its messages back.
LEMMA DeleteDrops ==
  ASSUME NEW c \in Context, NEW q \in Queue, LOS_QueueDelete(c, q)
  PROVE  Drops(q)
<1>1. /\ q \in used /\ used' = used \ {q} /\ held' = held \cup ToSet(Contents(q))
      /\ ring' = [ring EXCEPT ![q] = [i \in Node |-> Null]]
      /\ UNCHANGED <<vars, qHead, qTail, readable, mailVars, asks>>
  BY DEF LOS_QueueDelete
<1>2. \A t \in Task, r \in Queue : Granted(t, "read", r)' <=> Granted(t, "read", r)
  BY <1>1 DEF Granted, Waiting, vars, taskVars
<1>3. \A r \in Queue : Claims("read", r)' = Claims("read", r)
  BY <1>2, ClaimsCount
<1>4. \A r \in Queue : Stored(r)' = Stored(r)
  BY <1>1, <1>3 DEF Stored
<1> QED  BY <1>1, <1>4 DEF Drops, KeepsAll

\* A queue that comes into use has an empty ring.
LEMMA OpenRing ==
  ASSUME Nodes, Counts, RingFit, Nodes', Counts', NEW q \in Queue, Opens(q)
  PROVE  /\ RingFit' /\ \A r \in Queue : Contents(r)' = Contents(r)
         /\ \A r \in Queue, k \in Node : ring'[r][k] = ring[r][k]
<1>0. QueueLen \in Nat \ {0} /\ 0 \in Node
  BY QueueAssumption DEF Node
<1>1. /\ q \notin used /\ used' = used \cup {q} /\ used \subseteq Queue
      /\ ring'[q] = [i \in Node |-> Null] /\ qHead'[q] = 0 /\ qTail'[q] = 0
      /\ Stored(q)' = 0
      /\ \A r \in Queue \ {q} : /\ ring'[r] = ring[r] /\ qHead'[r] = qHead[r]
                                /\ qTail'[r] = qTail[r] /\ Stored(r)' = Stored(r)
      /\ qHead' \in [Queue -> Node] /\ qTail' \in [Queue -> Node]
      /\ ring' \in [Queue -> [Node -> Box \cup {Null}]]
  BY <1>0 DEF Opens, RingFit
<1>2. ASSUME NEW r \in Queue, NEW k \in Node
      PROVE  /\ ring'[r][k] = ring[r][k]
             /\ ring'[r][k] # Null <=> r \in used' /\ Among(qHead'[r], Stored(r)', k)
  <2>1. CASE r = q
    <3>1. ring'[r][k] = Null /\ ring[r][k] = Null
      BY <1>1, <2>1 DEF RingFit
    <3>2. ~Among(0, 0, k)
      BY DEF Among, Node
    <3> QED  BY <1>1, <2>1, <3>1, <3>2
  <2>2. CASE r # q
    BY <1>1, <2>2 DEF RingFit
  <2> QED  BY <2>1, <2>2
<1>3. ASSUME NEW r \in used' PROVE qTail'[r] = At(qHead'[r], Stored(r)')
  <2>1. CASE r = q
    <3>1. At(0, 0) = 0
      <4>1. 0 \in Node /\ 0 \in 0..QueueLen
        BY <1>0
      <4>2. At(0, 0) = IF 0 + 0 < QueueLen THEN 0 + 0 ELSE 0 + 0 - QueueLen
        BY <4>1, AtIs
      <4> QED  BY <1>0, <4>2
    <3> QED  BY <1>1, <2>1, <3>1
  <2>2. CASE r # q
    BY <1>1, <2>2 DEF RingFit
  <2> QED  BY <2>1, <2>2
<1>4. RingFit'
  BY <1>1, <1>2, <1>3 DEF RingFit
<1>5. \A r \in Queue \ {q} : Contents(r)' = Contents(r)
  BY <1>1, ContentsSame
<1>6. Contents(q)' = Contents(q)
  <2>1. Contents(q) = <<>>
    BY <1>1, ContentsNow DEF ContentsAre
  <2>2. Contents(q)' \in Seq(Box) /\ Len(Contents(q)') = 0
    BY <1>1, <1>4, ContentsNext DEF ContentsAre
  <2> QED  BY <2>1, <2>2, EmptySeq
<1> QED  BY <1>2, <1>4, <1>5, <1>6

\* The same of a queue that is deleted.
LEMMA DropRing ==
  ASSUME Nodes, Counts, RingFit, Nodes', Counts', NEW q \in Queue, Drops(q)
  PROVE  /\ RingFit' /\ Contents(q)' = <<>>
         /\ ToSet(Contents(q)) = {ring[q][k] : k \in Node} \ {Null}
         /\ \A r \in Queue \ {q} : Contents(r)' = Contents(r)
<1>1. /\ q \in used /\ used' = used \ {q} /\ used \subseteq Queue
      /\ ring'[q] = [i \in Node |-> Null] /\ qHead' = qHead /\ qTail' = qTail
      /\ \A r \in Queue \ {q} : ring'[r] = ring[r] /\ Stored(r)' = Stored(r)
      /\ qHead' \in [Queue -> Node] /\ qTail' \in [Queue -> Node]
      /\ ring' \in [Queue -> [Node -> Box \cup {Null}]]
  BY DEF Drops, RingFit
<1>2. ASSUME NEW r \in Queue, NEW k \in Node
      PROVE  ring'[r][k] # Null <=> r \in used' /\ Among(qHead'[r], Stored(r)', k)
  <2>1. CASE r = q
    BY <1>1, <2>1
  <2>2. CASE r # q
    BY <1>1, <2>2 DEF RingFit
  <2> QED  BY <2>1, <2>2
<1>3. \A r \in used' : qTail'[r] = At(qHead'[r], Stored(r)')
  BY <1>1 DEF RingFit
<1>4. RingFit'
  BY <1>1, <1>2, <1>3 DEF RingFit
<1>5. \A r \in Queue \ {q} : Contents(r)' = Contents(r)
  BY <1>1, ContentsSame
<1>6. Contents(q)' = <<>>
  BY <1>1, <1>4, ContentsNext DEF ContentsAre
<1>7. ToSet(Contents(q)) = {ring[q][k] : k \in Node} \ {Null}
  BY ContentsNow DEF ContentsAre
<1> QED  BY <1>4, <1>5, <1>6, <1>7
-----------------------------------------------------------------------------
\* A writer that waits has the message m in its call; it takes it back when its limit expires.
Offers(t, m) ==
  /\ asks[t].msg = Null /\ Keeps(t, m) /\ m \in held /\ held' = held \ {m}
  /\ UNCHANGED mailVars

Withdraws(t, m) ==
  asks[t].msg = m /\ Keeps(t, Null) /\ held' = held \cup {m} /\ UNCHANGED mailVars

\* The block m is left for t, which waited for one; t comes for it.
Hands(t, m) ==
  /\ puwMsg[t] = Null /\ puwMsg' = [puwMsg EXCEPT ![t] = m]
  /\ m \in held /\ held' = held \ {m} /\ UNCHANGED boxFree /\ KeepsAll

Collects(t, m) ==
  /\ puwMsg[t] = m /\ puwMsg' = [puwMsg EXCEPT ![t] = Null]
  /\ held' = held \cup {m} /\ UNCHANGED boxFree /\ KeepsAll

Allocs(m) == LOS_MemboxAlloc(m) /\ held' = held \cup {m} /\ UNCHANGED puwMsg /\ KeepsAll

Frees(m) ==
  LOS_MemboxFree(m) /\ m \in held /\ held' = held \ {m} /\ UNCHANGED puwMsg /\ KeepsAll

MailMoves ==
  \/ Rests
  \/ \E m \in Box :
       \/ Allocs(m) \/ Frees(m)
       \/ \E t \in Task : Offers(t, m) \/ Withdraws(t, m) \/ Hands(t, m) \/ Collects(t, m)

\* Steps that leave the rings alone.
LEMMA StillRing ==
  ASSUME UNCHANGED queueVars, \A u \in Task : KeepsNodes(u)
  PROVE  RingStays
<1>1. \A q \in Queue : Claims("read", q)' = Claims("read", q)
  BY ClaimsSame
<1> QED  BY <1>1 DEF RingStays, Stored, queueVars

LEMMA IdleRing ==
  ASSUME UNCHANGED <<vars, asks, queueVars>>
  PROVE  RingStays
<1>1. \A u \in Task : KeepsNodes(u)
  BY DEF KeepsNodes, Granted, Waiting, vars, taskVars
<1> QED  BY <1>1, StillRing

\* A call that blocks owns no node, and did not.
LEMMA PendMoves ==
  ASSUME TypeInv, ListInv, CallInv, AsksFit, AsksFit', NEW o \in Obj, NEW n, NEW ask,
         QueuePend(o, n, ask), UNCHANGED queueVars, \A t \in Task : MailAt(t)
  PROVE  RingStays /\ run \in Task /\ asks[run].msg = Null /\ Keeps(run, ask.msg)
<1>1. /\ Pend(o, n, PendPlace(Unlink(list, run)[o]))
      /\ asks' = [asks EXCEPT ![run] = ask]
  BY DEF QueuePend
<1>2. PICK t : t = run
  OBVIOUS
<1>3. /\ t \in Task /\ pc[t] = "user" /\ status'[t] \cap Waits # {}
      /\ \A u \in Task \ {t} : Carries(u)
  BY <1>1, <1>2, PendCarries DEF Pend
<1>4. asks'[t] = ask /\ \A u \in Task \ {t} : asks'[u] = asks[u]
  BY <1>1, <1>2, <1>3 DEF AsksFit
<1>5. asks[t].op = "none"
  BY <1>3 DEF AsksFit, InCall
<1>6. ASSUME NEW u \in Task PROVE KeepsNodes(u)
  <2>1. CASE u = t
    BY <1>3, <1>5, <2>1 DEF KeepsNodes, Granted, Waiting, Waits
  <2>2. CASE u # t
    BY <1>3, <1>4, <2>2, GrantKept DEF KeepsNodes
  <2> QED  BY <2>1, <2>2
<1>7. asks[t].msg = Null
  BY <1>3, <1>5 DEF MailAt
<1> QED  BY <1>2, <1>3, <1>4, <1>6, <1>7, StillRing DEF Keeps

\* Nor does a call that ends because its limit expired, or with a block.
LEMMA EndMoves ==
  ASSUME TypeInv, ListInv, CallInv, AsksFit, AsksFit', WaitReturn,
         asks' = [asks EXCEPT ![run] = NoAsk], UNCHANGED queueVars,
         "TIMEOUT" \in status[run] \/ asks[run].op = "alloc"
  PROVE  RingStays /\ run \in Task /\ Keeps(run, Null)
<1>1. PICK t : t = run
  OBVIOUS
<1>2. t \in Task /\ \A u \in Task \ {t} : Carries(u)
  BY <1>1, ReturnCarries
<1>3. /\ asks'[t] = NoAsk /\ \A u \in Task \ {t} : asks'[u] = asks[u]
      /\ "TIMEOUT" \in status[t] \/ asks[t].op = "alloc"
  BY <1>1, <1>2 DEF AsksFit
<1>4. ASSUME NEW u \in Task PROVE KeepsNodes(u)
  <2>1. CASE u = t
    BY <1>3, <2>1 DEF KeepsNodes, Granted, NoAsk
  <2>2. CASE u # t
    BY <1>2, <1>3, <2>2, GrantKept DEF KeepsNodes
  <2> QED  BY <2>1, <2>2
<1> QED  BY <1>1, <1>2, <1>3, <1>4, StillRing DEF Keeps, NoAsk

\* A block that is freed while a task waits for one is left for it.
LEMMA FreeMoves ==
  ASSUME TypeInv, ListInv, CallInv, AsksFit, AsksFit', NEW c, NEW q \in Queue, NEW b \in Box,
         MailFreeWake(c, q, b), \A t \in Task : MailAt(t)
  PROVE  RingStays /\ \E t \in Task : Hands(t, b)
<1> DEFINE o == MemList[q]
<1>1. /\ o \in Obj /\ Hand(list, c, o) /\ asks' = asks /\ UNCHANGED queueVars
      /\ puwMsg' = [puwMsg EXCEPT ![Head(list[o])] = b]
      /\ b \in held /\ held' = held \ {b} /\ UNCHANGED boxFree
  BY QueueConstants DEF MailFreeWake, Wake, Release
<1>2. PICK t : t = Head(list[o])
  OBVIOUS
<1>3. t \in Task /\ t \in ToSet(list[o]) => asks[t].op = "alloc"
  BY DEF AsksFit
<1> HIDE DEF o
<1>4. t \in Task /\ t \in ToSet(list[o]) /\ BecomesOwner(t) /\ \A u \in Task \ {t} : KeepsNodes(u)
  <2>1. asks'[t] = asks[t]
    BY <1>1
  <2> QED  BY <1>1, <1>2, <2>1, HandGrants
<1>5. asks[t].op = "alloc"
  BY <1>3, <1>4
<1>6. KeepsNodes(t) /\ ~Granted(t, "alloc", asks[t].queue)
  <2>1. ~Granted(t, "alloc", asks[t].queue)
    BY <1>4 DEF BecomesOwner
  <2>2. asks[t].op # "read" /\ asks[t].op # "write" /\ asks'[t].op = asks[t].op
    BY <1>1, <1>5
  <2> QED  BY <2>1, <2>2 DEF KeepsNodes, Granted
<1>7. RingStays
  BY <1>1, <1>4, <1>6, StillRing
<1>8. Hands(t, b)
  BY <1>1, <1>2, <1>4, <1>6 DEF MailAt, Hands, KeepsAll
<1> QED  BY <1>4, <1>7, <1>8

\* Each step is one of these.
LEMMA StepMoves ==
  ASSUME TypeInv, ListInv, CallInv, AsksFit, AsksFit', Counts, Nodes, \A t \in Task : MailAt(t),
         puwMsg \in [Task -> Box \cup {Null}], QueueNext, ~halt', Slice = 0
  PROVE  \/ \E q \in Queue : Opens(q) \/ Drops(q) \/ Takes(q) \/ \E m \in Box : Puts(q, m)
         \/ RingStays /\ MailMoves
<1> DEFINE Goal == \/ \E q \in Queue : Opens(q) \/ Drops(q) \/ Takes(q) \/ \E m \in Box : Puts(q, m)
                   \/ RingStays /\ MailMoves
<1> USE QueueConstants
<1>1. ASSUME NEW c \in Context, NEW q \in Queue, LOS_QueueCreate(c, q) \/ LOS_QueueDelete(c, q)
      PROVE  Goal
  BY <1>1, CreateOpens, DeleteDrops
<1>2. ASSUME NEW q \in Queue, ReadStep(q) PROVE Goal
  <2>1. ASSUME NEW c \in Context, ReadTake(c, q) PROVE Goal
    BY <2>1, ReadTakes
  <2>2. CASE ReadReturn(q)
    BY <2>2, ReadReturns
  <2>3. ASSUME NEW n \in Timeouts \cup {Forever}, ReadBlock(q, n) PROVE Goal
    <3> DEFINE o == ReadList[q]
               ask == [op |-> "read", queue |-> q, msg |-> Null]
    <3>1. /\ o \in Obj /\ QueuePend(o, n, ask) /\ UNCHANGED <<queueVars, mailVars, held>>
          /\ ask.msg = Null
      BY <2>3 DEF ReadBlock
    <3> HIDE DEF o, ask
    <3>2. RingStays /\ run \in Task /\ asks[run].msg = Null /\ Keeps(run, ask.msg)
      BY <3>1, PendMoves
    <3>3. Rests
      BY <3>1, <3>2 DEF Rests, Keeps, KeepsAll
    <3> QED  BY <3>2, <3>3 DEF MailMoves
  <2> QED  BY <1>2, <2>1, <2>2, <2>3 DEF ReadStep
<1>3. ASSUME NEW q \in Queue, WriteStep(q) PROVE Goal
  <2>1. ASSUME NEW c \in Context, NEW m \in Box, WriteTake(c, q, m) PROVE Goal
    BY <2>1, WriteTakes
  <2>2. CASE WriteReturn(q)
    BY <2>2, WriteReturns
  <2>3. ASSUME NEW m \in Box, NEW n \in Timeouts \cup {Forever}, WriteBlock(q, m, n) PROVE Goal
    <3> DEFINE o == WriteList[q]
               ask == [op |-> "write", queue |-> q, msg |-> m]
    <3>1. /\ o \in Obj /\ QueuePend(o, n, ask) /\ UNCHANGED <<queueVars, mailVars>>
          /\ m \in held /\ held' = held \ {m} /\ ask.msg = m
      BY <2>3 DEF WriteBlock
    <3> HIDE DEF o, ask
    <3>2. RingStays /\ run \in Task /\ asks[run].msg = Null /\ Keeps(run, ask.msg)
      BY <3>1, PendMoves
    <3>3. Offers(run, m)
      BY <3>1, <3>2 DEF Offers
    <3> QED  BY <3>2, <3>3 DEF MailMoves
  <2> QED  BY <1>3, <2>1, <2>2, <2>3 DEF WriteStep
<1>4. ASSUME NEW q \in Queue, MailStep(q) PROVE Goal
  <2>1. ASSUME NEW c \in Context, NEW b \in Box, MailFreeWake(c, q, b) PROVE Goal
    BY <2>1, FreeMoves DEF MailMoves
  <2>2. ASSUME NEW c \in Context, NEW b \in Box, MailFree(c, q, b) PROVE Goal
    <3>1. UNCHANGED <<vars, asks, queueVars>> /\ Frees(b)
      BY <2>2 DEF MailFree, Frees, KeepsAll
    <3> QED  BY <3>1, IdleRing DEF MailMoves
  <2>3. CASE MailAllocReturn(q)
    <3>1. /\ Resumes("alloc", q) /\ WaitReturn /\ UNCHANGED queueVars /\ UNCHANGED boxFree
          /\ held' = held \cup {puwMsg[run]} /\ puwMsg' = [puwMsg EXCEPT ![run] = Null]
          /\ asks' = [asks EXCEPT ![run] = NoAsk] /\ asks[run].op = "alloc"
          /\ "TIMEOUT" \notin status[run] /\ asks[run].queue = q
      BY <2>3 DEF MailAllocReturn, Resumes
    <3>2. RingStays /\ run \in Task /\ Keeps(run, Null)
      BY <3>1, EndMoves
    <3>3. status[run] \cap Waits = {}
      BY <3>1, WokenCalm DEF Resumes
    <3>4. Granted(run, "alloc", q) /\ asks[run].msg = Null
      BY <3>1, <3>2, <3>3 DEF Granted, Waiting, Waits, MailAt
    <3>5. puwMsg[run] \in Box
      BY <3>1, <3>2, <3>4 DEF MailAt
    <3>6. Collects(run, puwMsg[run])
      BY <3>1, <3>2, <3>4 DEF Collects, Keeps, KeepsAll
    <3> QED  BY <3>2, <3>5, <3>6 DEF MailMoves
  <2>4. ASSUME NEW n \in Timeouts \cup {Forever}, MailAllocBlock(q, n) PROVE Goal
    <3> DEFINE o == MemList[q]
               ask == [op |-> "alloc", queue |-> q, msg |-> Null]
    <3>1. /\ o \in Obj /\ QueuePend(o, n, ask) /\ UNCHANGED <<queueVars, mailVars, held>>
          /\ ask.msg = Null
      BY <2>4 DEF MailAllocBlock
    <3> HIDE DEF o, ask
    <3>2. RingStays /\ run \in Task /\ asks[run].msg = Null /\ Keeps(run, ask.msg)
      BY <3>1, PendMoves
    <3>3. Rests
      BY <3>1, <3>2 DEF Rests, Keeps, KeepsAll
    <3> QED  BY <3>2, <3>3 DEF MailMoves
  <2> QED  BY <1>4, <2>1, <2>2, <2>3, <2>4 DEF MailStep
<1>5. ASSUME NEW c \in Context, NEW b \in Box, MailAllocTake(c, b) PROVE Goal
  <2>1. UNCHANGED <<vars, asks, queueVars>> /\ Allocs(b)
    BY <1>5 DEF MailAllocTake, Allocs, KeepsAll
  <2> QED  BY <2>1, IdleRing DEF MailMoves
<1>6. CASE TimedOut
  <2>1. /\ WaitReturn /\ "TIMEOUT" \in status[run] /\ UNCHANGED <<queueVars, mailVars>>
        /\ asks' = [asks EXCEPT ![run] = NoAsk]
        /\ held' = IF asks[run].op = "write" THEN held \cup {asks[run].msg} ELSE held
    BY <1>6 DEF TimedOut
  <2>2. RingStays /\ run \in Task /\ Keeps(run, Null)
    BY <2>1, EndMoves
  <2>3. CASE asks[run].op = "write"
    <3>1. asks[run].msg \in Box /\ Withdraws(run, asks[run].msg)
      BY <2>1, <2>2, <2>3 DEF Withdraws, MailAt
    <3> QED  BY <2>2, <3>1 DEF MailMoves
  <2>4. CASE asks[run].op # "write"
    <3>1. asks[run].msg = Null
      BY <2>2, <2>4 DEF MailAt
    <3>2. Rests
      BY <2>1, <2>2, <2>4, <3>1 DEF Rests, Keeps, KeepsAll
    <3> QED  BY <2>2, <3>2 DEF MailMoves
  <2> QED  BY <2>3, <2>4
<1>7. CASE KernelStep /\ ~WaitReturn /\ UNCHANGED <<queueVars, mailVars, asks, held>>
  <2>1. ASSUME NEW u \in Task PROVE KeepsNodes(u)
    <3>1. Carries(u) /\ asks'[u] = asks[u]
      BY <1>7, KernelCarries
    <3> QED  BY <3>1, GrantKept DEF KeepsNodes
  <2>2. RingStays
    BY <1>7, <2>1, StillRing
  <2>3. Rests
    BY <1>7 DEF Rests, KeepsAll
  <2> QED  BY <2>2, <2>3 DEF MailMoves
<1> QED
  BY <1>1, <1>2, <1>3, <1>4, <1>5, <1>6, <1>7 DEF QueueNext
-----------------------------------------------------------------------------
(* Where the blocks are: the pool, the application, the nodes of the rings, *)
(* the calls that blocked, and what was left for those that wait.           *)

Spot == {<<"free", Null, Null>>, <<"held", Null, Null>>}
        \cup {<<"ring", q, k>> : q \in Queue, k \in Node}
        \cup {<<kind, t, Null>> : kind \in {"ask", "puw"}, t \in Task}

Holds(x, b) ==
  \/ x[1] = "free" /\ b \in ToSet(boxFree)
  \/ x[1] = "held" /\ b \in held
  \/ x[1] = "ring" /\ ring[x[2]][x[3]] = b
  \/ x[1] = "ask" /\ asks[x[2]].msg = b
  \/ x[1] = "puw" /\ puwMsg[x[2]] = b

\* Each block is in one of them.
Once == \A b \in Box : \E x \in Spot : Holds(x, b) /\ \A z \in Spot : Holds(z, b) => z = x

MailFit ==
  /\ boxFree \in Seq(Box) /\ IsInjective(boxFree) /\ held \subseteq Box
  /\ puwMsg \in [Task -> Box \cup {Null}]
  /\ \A t \in Task : MailAt(t)

\* The step moves the blocks M from among X to y, and no others.
Moves(X, y, M) ==
  /\ y \in Spot /\ X \subseteq Spot
  /\ \A b \in M : \E x \in X : Holds(x, b)
  /\ \A z \in Spot, b \in Box :
       Holds(z, b)' <=> (Holds(z, b) /\ ~(z \in X /\ b \in M)) \/ (z = y /\ b \in M)

\* Such a step leaves each block in one place.
LEMMA MoveOnce ==
  ASSUME Once, NEW X, NEW y, NEW M, Moves(X, y, M)
  PROVE  Once'
<1> SUFFICES ASSUME NEW b \in Box
             PROVE  \E x \in Spot : Holds(x, b)' /\ \A z \in Spot : Holds(z, b)' => z = x
  BY DEF Once
<1>1. PICK x \in Spot : Holds(x, b) /\ \A z \in Spot : Holds(z, b) => z = x
  BY DEF Once
<1>2. \A z \in Spot :
        Holds(z, b)' <=> (Holds(z, b) /\ ~(z \in X /\ b \in M)) \/ (z = y /\ b \in M)
  BY DEF Moves
<1>3. CASE b \in M
  <2>1. x \in X /\ y \in Spot
    BY <1>1, <1>3 DEF Moves
  <2> QED  BY <1>1, <1>2, <1>3, <2>1
<1>4. CASE b \notin M
  BY <1>1, <1>2, <1>4
<1> QED  BY <1>3, <1>4

\* Where a block is, by the kind of place.
LEMMA SpotKinds ==
  ASSUME NEW z \in Spot, NEW b
  PROVE  \/ z = <<"free", Null, Null>> /\ (Holds(z, b) <=> b \in ToSet(boxFree))
                                       /\ (Holds(z, b)' <=> b \in ToSet(boxFree'))
         \/ z = <<"held", Null, Null>> /\ (Holds(z, b) <=> b \in held) /\ (Holds(z, b)' <=> b \in held')
         \/ \E q \in Queue, k \in Node : z = <<"ring", q, k>> /\ (Holds(z, b) <=> ring[q][k] = b)
                                                              /\ (Holds(z, b)' <=> ring'[q][k] = b)
         \/ \E t \in Task : z = <<"ask", t, Null>> /\ (Holds(z, b) <=> asks[t].msg = b)
                                                   /\ (Holds(z, b)' <=> asks'[t].msg = b)
         \/ \E t \in Task : z = <<"puw", t, Null>> /\ (Holds(z, b) <=> puwMsg[t] = b)
                                                   /\ (Holds(z, b)' <=> puwMsg'[t] = b)
<1>1. CASE z = <<"free", Null, Null>>
  BY <1>1 DEF Holds
<1>2. CASE z = <<"held", Null, Null>>
  BY <1>2 DEF Holds
<1>3. ASSUME NEW q \in Queue, NEW k \in Node, z = <<"ring", q, k>>
      PROVE  (Holds(z, b) <=> ring[q][k] = b) /\ (Holds(z, b)' <=> ring'[q][k] = b)
  BY <1>3 DEF Holds
<1>4. ASSUME NEW t \in Task, z = <<"ask", t, Null>>
      PROVE  (Holds(z, b) <=> asks[t].msg = b) /\ (Holds(z, b)' <=> asks'[t].msg = b)
  BY <1>4 DEF Holds
<1>5. ASSUME NEW t \in Task, z = <<"puw", t, Null>>
      PROVE  (Holds(z, b) <=> puwMsg[t] = b) /\ (Holds(z, b)' <=> puwMsg'[t] = b)
  BY <1>5 DEF Holds
<1> QED  BY <1>1, <1>2, <1>3, <1>4, <1>5 DEF Spot

FreeSpot == <<"free", Null, Null>>
HeldSpot == <<"held", Null, Null>>

\* Each of the steps above moves blocks so.
LEMMA AllocOnce ==
  ASSUME MailFit, Once, ring' = ring, NEW m \in Box, Allocs(m)
  PROVE  Moves({FreeSpot}, HeldSpot, {m})
<1>1. /\ ToSet(boxFree) = ToSet(boxFree') \cup {m} /\ m \notin ToSet(boxFree')
      /\ held' = held \cup {m} /\ puwMsg' = puwMsg /\ KeepsAll
  BY HeadTailRange DEF Allocs, LOS_MemboxAlloc, MailFit
<1>2. Holds(FreeSpot, m)
  BY <1>1 DEF Holds, FreeSpot
<1>3. ASSUME NEW z \in Spot, NEW b \in Box
      PROVE  Holds(z, b)' <=> (Holds(z, b) /\ ~(z \in {FreeSpot} /\ b \in {m})) \/ (z = HeldSpot /\ b \in {m})
  BY <1>1, SpotKinds DEF FreeSpot, HeldSpot, KeepsAll
<1> QED  BY <1>2, <1>3 DEF Moves, Spot, FreeSpot, HeldSpot

\* A block joins the free ones, each of which is one once.
LEMMA FreeList ==
  ASSUME MailFit, NEW m \in Box, LOS_MemboxFree(m)
  PROVE  /\ ToSet(boxFree') = ToSet(boxFree) \cup {m}
         /\ boxFree' \in Seq(Box) /\ IsInjective(boxFree')
<1> DEFINE w == <<m>>
<1>1. w \in Seq(Box) /\ ToSet(w) = {m} /\ IsInjective(w)
  BY SingletonRange
<1>2. /\ boxFree \in Seq(Box) /\ IsInjective(boxFree) /\ m \notin ToSet(boxFree)
      /\ boxFree' = w \o boxFree
  BY DEF LOS_MemboxFree, Magic, MailFit
<1> HIDE DEF w
<1> QED  BY <1>1, <1>2, ConcatRange

LEMMA FreeOnce ==
  ASSUME MailFit, Once, ring' = ring, NEW m \in Box, Frees(m)
  PROVE  Moves({HeldSpot}, FreeSpot, {m})
<1>1. /\ ToSet(boxFree') = ToSet(boxFree) \cup {m}
      /\ m \in held /\ held' = held \ {m} /\ puwMsg' = puwMsg /\ KeepsAll
  BY FreeList DEF Frees
<1>2. Holds(HeldSpot, m)
  BY <1>1 DEF Holds, HeldSpot
<1>3. ASSUME NEW z \in Spot, NEW b \in Box
      PROVE  Holds(z, b)' <=> (Holds(z, b) /\ ~(z \in {HeldSpot} /\ b \in {m})) \/ (z = FreeSpot /\ b \in {m})
  BY <1>1, SpotKinds DEF FreeSpot, HeldSpot, KeepsAll
<1> QED  BY <1>2, <1>3 DEF Moves, Spot, FreeSpot, HeldSpot

LEMMA AskOnce ==
  ASSUME MailFit, Once, ring' = ring, NEW m \in Box, NEW t \in Task
  PROVE  /\ Offers(t, m) => Moves({HeldSpot}, <<"ask", t, Null>>, {m})
         /\ Withdraws(t, m) => Moves({<<"ask", t, Null>>}, HeldSpot, {m})
<1> DEFINE a == <<"ask", t, Null>>
<1>0. Null \notin Box /\ a \in Spot /\ HeldSpot \in Spot
  BY QueueAssumption DEF Spot, HeldSpot
<1>1. CASE Offers(t, m)
  <2>1. /\ m \in held /\ held' = held \ {m} /\ puwMsg' = puwMsg /\ boxFree' = boxFree
        /\ asks[t].msg = Null /\ asks'[t].msg = m /\ \A u \in Task \ {t} : asks'[u].msg = asks[u].msg
    BY <1>1 DEF Offers, Keeps, mailVars
  <2>2. Holds(HeldSpot, m)
    BY <2>1 DEF Holds, HeldSpot
  <2>3. ASSUME NEW z \in Spot, NEW b \in Box
        PROVE  Holds(z, b)' <=> (Holds(z, b) /\ ~(z \in {HeldSpot} /\ b \in {m})) \/ (z = a /\ b \in {m})
    BY <1>0, <2>1, SpotKinds DEF HeldSpot
  <2> QED  BY <1>0, <2>2, <2>3, <1>1 DEF Moves, Offers, Withdraws
<1>2. CASE Withdraws(t, m)
  <2>1. /\ held' = held \cup {m} /\ puwMsg' = puwMsg /\ boxFree' = boxFree
        /\ asks[t].msg = m /\ asks'[t].msg = Null /\ \A u \in Task \ {t} : asks'[u].msg = asks[u].msg
    BY <1>2 DEF Withdraws, Keeps, mailVars
  <2>2. Holds(a, m)
    BY <2>1 DEF Holds
  <2>3. ASSUME NEW z \in Spot, NEW b \in Box
        PROVE  Holds(z, b)' <=> (Holds(z, b) /\ ~(z \in {a} /\ b \in {m})) \/ (z = HeldSpot /\ b \in {m})
    BY <1>0, <2>1, SpotKinds DEF HeldSpot
  <2> QED  BY <1>0, <2>2, <2>3, <1>2, <2>1 DEF Moves, Offers
<1> QED  BY <1>1, <1>2

LEMMA HandOnce ==
  ASSUME MailFit, Once, ring' = ring, NEW m \in Box, NEW t \in Task
  PROVE  /\ Hands(t, m) => Moves({HeldSpot}, <<"puw", t, Null>>, {m})
         /\ Collects(t, m) => Moves({<<"puw", t, Null>>}, HeldSpot, {m})
<1> DEFINE a == <<"puw", t, Null>>
<1>0. Null \notin Box /\ a \in Spot /\ HeldSpot \in Spot
  BY QueueAssumption DEF Spot, HeldSpot
<1>1. CASE Hands(t, m)
  <2>1. /\ m \in held /\ held' = held \ {m} /\ boxFree' = boxFree /\ KeepsAll
        /\ puwMsg[t] = Null /\ puwMsg'[t] = m /\ \A u \in Task \ {t} : puwMsg'[u] = puwMsg[u]
    BY <1>1 DEF Hands, MailFit
  <2>2. Holds(HeldSpot, m)
    BY <2>1 DEF Holds, HeldSpot
  <2>3. ASSUME NEW z \in Spot, NEW b \in Box
        PROVE  Holds(z, b)' <=> (Holds(z, b) /\ ~(z \in {HeldSpot} /\ b \in {m})) \/ (z = a /\ b \in {m})
    BY <1>0, <2>1, SpotKinds DEF HeldSpot, KeepsAll
  <2> QED  BY <1>0, <2>1, <2>2, <2>3 DEF Moves, Collects
<1>2. CASE Collects(t, m)
  <2>1. /\ held' = held \cup {m} /\ boxFree' = boxFree /\ KeepsAll
        /\ puwMsg[t] = m /\ puwMsg'[t] = Null /\ \A u \in Task \ {t} : puwMsg'[u] = puwMsg[u]
    BY <1>2 DEF Collects, MailFit
  <2>2. Holds(a, m)
    BY <2>1 DEF Holds
  <2>3. ASSUME NEW z \in Spot, NEW b \in Box
        PROVE  Holds(z, b)' <=> (Holds(z, b) /\ ~(z \in {a} /\ b \in {m})) \/ (z = HeldSpot /\ b \in {m})
    BY <1>0, <2>1, SpotKinds DEF HeldSpot, KeepsAll
  <2> QED  BY <1>0, <2>1, <2>2, <2>3 DEF Moves, Hands
<1> QED  BY <1>1, <1>2

LEMMA RestOnce ==
  ASSUME Once, \A q \in Queue, k \in Node : ring'[q][k] = ring[q][k], Rests
  PROVE  Once'
<1>1. \A z \in Spot, b \in Box : Holds(z, b)' <=> Holds(z, b)
  BY SpotKinds DEF Rests, mailVars, KeepsAll
<1> QED  BY <1>1 DEF Once

LEMMA TakeOnce ==
  ASSUME RingFit, MailFit, Once, NEW q \in Queue, Takes(q), NEW m \in Box, m = ring[q][qHead[q]]
  PROVE  Moves({<<"ring", q, qHead[q]>>}, HeldSpot, {m})
<1> DEFINE a == <<"ring", q, qHead[q]>>
<1>0. Null \notin Box /\ a \in Spot /\ HeldSpot \in Spot /\ qHead[q] \in Node
  BY QueueAssumption DEF Spot, HeldSpot, RingFit
<1>1. /\ held' = held \cup {m} /\ boxFree' = boxFree /\ puwMsg' = puwMsg /\ KeepsAll
      /\ \A r \in Queue, k \in Node :
           ring'[r][k] = IF r = q /\ k = qHead[q] THEN Null ELSE ring[r][k]
  BY <1>0 DEF Takes, TakeNode, RingFit, mailVars
<1>2. Holds(a, m)
  BY DEF Holds
<1>3. ASSUME NEW z \in Spot, NEW b \in Box
      PROVE  Holds(z, b)' <=> (Holds(z, b) /\ ~(z \in {a} /\ b \in {m})) \/ (z = HeldSpot /\ b \in {m})
  BY <1>0, <1>1, SpotKinds DEF HeldSpot, KeepsAll
<1> QED  BY <1>0, <1>2, <1>3 DEF Moves

LEMMA PutOnce ==
  ASSUME RingFit, MailFit, Once, NEW q \in Queue, NEW m \in Box, Puts(q, m), ring[q][qTail[q]] = Null
  PROVE  \E x \in Spot : /\ x = HeldSpot \/ \E t \in Task : x = <<"ask", t, Null>>
                         /\ Moves({x}, <<"ring", q, qTail[q]>>, {m})
<1> DEFINE a == <<"ring", q, qTail[q]>>
<1>0. Null \notin Box /\ a \in Spot /\ HeldSpot \in Spot /\ qTail[q] \in Node
  BY QueueAssumption DEF Spot, HeldSpot, RingFit
<1>1. /\ boxFree' = boxFree /\ puwMsg' = puwMsg
      /\ \A r \in Queue, k \in Node :
           ring'[r][k] = IF r = q /\ k = qTail[q] THEN m ELSE ring[r][k]
  BY <1>0 DEF Puts, FillNode, RingFit, mailVars
<1>2. CASE m \in held /\ held' = held \ {m} /\ KeepsAll
  <2>1. Holds(HeldSpot, m)
    BY <1>2 DEF Holds, HeldSpot
  <2>2. ASSUME NEW z \in Spot, NEW b \in Box
        PROVE  Holds(z, b)' <=> (Holds(z, b) /\ ~(z \in {HeldSpot} /\ b \in {m})) \/ (z = a /\ b \in {m})
    BY <1>0, <1>1, <1>2, SpotKinds DEF HeldSpot, KeepsAll
  <2>3. Moves({HeldSpot}, a, {m})
    BY <1>0, <2>1, <2>2 DEF Moves
  <2> QED  BY <1>0, <2>3
<1>3. ASSUME NEW t \in Task, held' = held, m = asks[t].msg, Keeps(t, Null)
      PROVE  Moves({<<"ask", t, Null>>}, a, {m}) /\ <<"ask", t, Null>> \in Spot
  <2> DEFINE x == <<"ask", t, Null>>
  <2>1. Holds(x, m) /\ x \in Spot
    BY <1>3 DEF Holds, Spot
  <2>2. asks'[t].msg = Null /\ \A u \in Task \ {t} : asks'[u].msg = asks[u].msg
    BY <1>3 DEF Keeps
  <2>3. ASSUME NEW z \in Spot, NEW b \in Box
        PROVE  Holds(z, b)' <=> (Holds(z, b) /\ ~(z \in {x} /\ b \in {m})) \/ (z = a /\ b \in {m})
    BY <1>0, <1>1, <1>3, <2>2, SpotKinds
  <2> QED  BY <1>0, <2>1, <2>3 DEF Moves
<1>4. \/ m \in held /\ held' = held \ {m} /\ KeepsAll
      \/ held' = held /\ \E t \in Task : m = asks[t].msg /\ Keeps(t, Null)
  BY DEF Puts
<1> QED  BY <1>2, <1>3, <1>4

LEMMA DropOnce ==
  ASSUME RingFit, MailFit, Once, NEW q \in Queue, Drops(q),
         ToSet(Contents(q)) = {ring[q][k] : k \in Node} \ {Null}
  PROVE  Moves({<<"ring", q, k>> : k \in Node}, HeldSpot, ToSet(Contents(q)))
<1> DEFINE X == {<<"ring", q, k>> : k \in Node}
           M == ToSet(Contents(q))
<1>0. Null \notin Box /\ X \subseteq Spot /\ HeldSpot \in Spot
  BY QueueAssumption DEF Spot, HeldSpot
<1>1. /\ held' = held \cup M /\ boxFree' = boxFree /\ puwMsg' = puwMsg /\ KeepsAll
      /\ \A r \in Queue, k \in Node : ring'[r][k] = IF r = q THEN Null ELSE ring[r][k]
  BY DEF Drops, RingFit, mailVars
<1>2. M \subseteq Box /\ \A k \in Node : ring[q][k] # Null => ring[q][k] \in M
  BY DEF RingFit
<1>3. ASSUME NEW b \in M PROVE \E x \in X : Holds(x, b)
  <2>1. PICK k \in Node : ring[q][k] = b
    BY <1>3
  <2>2. Holds(<<"ring", q, k>>, b)
    BY <2>1 DEF Holds
  <2> QED  BY <2>2
<1>4. \A r \in Queue, k \in Node : <<"ring", r, k>> \in X <=> r = q
  OBVIOUS
<1>5. \A t \in Task : <<"ask", t, Null>> \notin X /\ <<"puw", t, Null>> \notin X
  OBVIOUS
<1>6. FreeSpot \notin X /\ HeldSpot \notin X /\ FreeSpot # HeldSpot
  BY DEF FreeSpot, HeldSpot
<1> HIDE DEF X, M
<1>7. ASSUME NEW z \in Spot, NEW b \in Box
      PROVE  Holds(z, b)' <=> (Holds(z, b) /\ ~(z \in X /\ b \in M)) \/ (z = HeldSpot /\ b \in M)
  <2>1. CASE z = FreeSpot
    <3>1. (Holds(z, b) <=> b \in ToSet(boxFree)) /\ (Holds(z, b)' <=> b \in ToSet(boxFree'))
      BY <2>1, SpotKinds DEF FreeSpot
    <3> QED  BY <1>1, <1>6, <2>1, <3>1
  <2>2. CASE z = HeldSpot
    <3>1. (Holds(z, b) <=> b \in held) /\ (Holds(z, b)' <=> b \in held')
      BY <2>2, SpotKinds DEF HeldSpot
    <3> QED  BY <1>1, <1>6, <2>2, <3>1
  <2>3. ASSUME NEW r \in Queue, NEW k \in Node, z = <<"ring", r, k>>,
               Holds(z, b) <=> ring[r][k] = b, Holds(z, b)' <=> ring'[r][k] = b
        PROVE  Holds(z, b)' <=> (Holds(z, b) /\ ~(z \in X /\ b \in M)) \/ (z = HeldSpot /\ b \in M)
    <3>1. z # HeldSpot /\ (z \in X <=> r = q)
      BY <1>4, <2>3 DEF HeldSpot
    <3> QED  BY <1>0, <1>1, <1>2, <2>3, <3>1
  <2>4. ASSUME NEW t \in Task, z = <<"ask", t, Null>>,
               Holds(z, b) <=> asks[t].msg = b, Holds(z, b)' <=> asks'[t].msg = b
        PROVE  Holds(z, b)' <=> (Holds(z, b) /\ ~(z \in X /\ b \in M)) \/ (z = HeldSpot /\ b \in M)
    <3>1. z # HeldSpot /\ z \notin X
      BY <1>5, <2>4 DEF HeldSpot
    <3> QED  BY <1>1, <2>4, <3>1 DEF KeepsAll
  <2>5. ASSUME NEW t \in Task, z = <<"puw", t, Null>>,
               Holds(z, b) <=> puwMsg[t] = b, Holds(z, b)' <=> puwMsg'[t] = b
        PROVE  Holds(z, b)' <=> (Holds(z, b) /\ ~(z \in X /\ b \in M)) \/ (z = HeldSpot /\ b \in M)
    <3>1. z # HeldSpot /\ z \notin X
      BY <1>5, <2>5 DEF HeldSpot
    <3> QED  BY <1>1, <2>5, <3>1 DEF KeepsAll
  <2> QED  BY <2>1, <2>2, <2>3, <2>4, <2>5, SpotKinds DEF FreeSpot, HeldSpot
<1>8. Moves(X, HeldSpot, M)
  BY <1>0, <1>3, <1>7 DEF Moves
<1> QED  BY <1>8 DEF X, M
-----------------------------------------------------------------------------
\* The block b is in no ring.
Out(b) == \E z \in Spot : z[1] # "ring" /\ Holds(z, b)

\* What Fifo sees: its items and its outside.
Items == [q \in Queue |-> Contents(q)]
Outside == ToSet(boxFree) \cup held \cup Handed \cup Offered

\* What is outside for Fifo is in no ring.
LEMMA OutsideIs ==
  ASSUME MailFit, AsksFit
  PROVE  Outside = {b \in Box : Out(b)}
<1> USE QueueAssumption
<1>1. ToSet(boxFree) \subseteq Box /\ held \subseteq Box /\ Null \notin Box
  BY InToSet DEF MailFit, ToSet
<1>2. \A t \in Task : asks[t].msg \in Box \cup {Null} /\ puwMsg[t] \in Box \cup {Null}
  BY DEF AsksFit, Asking, MailFit
<1>3. ASSUME NEW b \in Outside PROVE b \in Box /\ Out(b)
  <2>1. CASE b \in ToSet(boxFree)
    <3>1. Holds(FreeSpot, b) /\ FreeSpot \in Spot /\ FreeSpot[1] # "ring"
      BY <2>1 DEF Holds, FreeSpot, Spot
    <3> QED  BY <1>1, <2>1, <3>1 DEF Out
  <2>2. CASE b \in held
    <3>1. Holds(HeldSpot, b) /\ HeldSpot \in Spot /\ HeldSpot[1] # "ring"
      BY <2>2 DEF Holds, HeldSpot, Spot
    <3> QED  BY <1>1, <2>2, <3>1 DEF Out
  <2>3. CASE b \in Handed
    <3>1. PICK t \in Task : b = puwMsg[t] /\ b # Null
      BY <2>3 DEF Handed
    <3> DEFINE z == <<"puw", t, Null>>
    <3>2. z \in Spot /\ Holds(z, b) /\ z[1] # "ring"
      BY <3>1 DEF Holds, Spot
    <3> QED  BY <1>2, <3>1, <3>2 DEF Out
  <2>4. CASE b \in Offered
    <3>1. PICK t \in Task : b = asks[t].msg /\ b # Null
      BY <2>4 DEF Offered
    <3> DEFINE z == <<"ask", t, Null>>
    <3>2. z \in Spot /\ Holds(z, b) /\ z[1] # "ring"
      BY <3>1 DEF Holds, Spot
    <3> QED  BY <1>2, <3>1, <3>2 DEF Out
  <2> QED  BY <1>3, <2>1, <2>2, <2>3, <2>4 DEF Outside
<1>4. ASSUME NEW b \in Box, Out(b) PROVE b \in Outside
  <2>1. PICK z \in Spot : z[1] # "ring" /\ Holds(z, b)
    BY <1>4 DEF Out
  <2>2. b # Null
    BY <1>1
  <2>3. z # <<"ring", z[2], z[3]>>
    BY <2>1
  <2>4. \/ b \in ToSet(boxFree) \/ b \in held
        \/ \E t \in Task : asks[t].msg = b \/ puwMsg[t] = b
    BY <2>1, SpotKinds
  <2> QED  BY <2>2, <2>4 DEF Outside, Handed, Offered
<1> QED  BY <1>3, <1>4

LEMMA OutsideNow == MailFit /\ AsksFit => Outside = {b \in Box : Out(b)}
BY OutsideIs

LEMMA OutsideNext == MailFit' /\ AsksFit' => Outside' = {b \in Box : Out(b)'}
<1>1. (MailFit /\ AsksFit => Outside = {b \in Box : Out(b)})'
  BY OutsideNow, PTL
<1> QED  BY <1>1

\* Blocks that move to a ring are outside no more, others that move are.
LEMMA MoveOut ==
  ASSUME Once, NEW X, NEW y, NEW M, Moves(X, y, M), NEW b \in Box
  PROVE  /\ y[1] # "ring" => (Out(b)' <=> Out(b) \/ b \in M)
         /\ y[1] = "ring" => (Out(b)' <=> Out(b) /\ b \notin M)
<1>1. /\ y \in Spot /\ X \subseteq Spot
      /\ b \in M => \E x \in X : Holds(x, b)
      /\ \A z \in Spot :
           Holds(z, b)' <=> (Holds(z, b) /\ ~(z \in X /\ b \in M)) \/ (z = y /\ b \in M)
  BY DEF Moves
<1>2. PICK x \in Spot : Holds(x, b) /\ \A z \in Spot : Holds(z, b) => z = x
  BY DEF Once
<1>3. Out(b)' <=> \E z \in Spot : z[1] # "ring" /\ Holds(z, b)'
  BY DEF Out
<1>4. CASE b \in M
  <2>1. x \in X
    BY <1>1, <1>2, <1>4
  <2>2. \A z \in Spot : Holds(z, b)' <=> z = y
    BY <1>1, <1>2, <1>4, <2>1
  <2> QED  BY <1>1, <1>3, <1>4, <2>2
<1>5. CASE b \notin M
  BY <1>1, <1>3, <1>5 DEF Out
<1> QED  BY <1>4, <1>5
-----------------------------------------------------------------------------
(* Each step as a step of Fifo.                                             *)

FifoStep == [Abstract!FifoNext]_(Abstract!fifoVars)

\* Neither the queues nor what is outside them change.
LEMMA FifoStutters ==
  ASSUME \A q \in Queue : Contents(q)' = Contents(q), Outside' = Outside
  PROVE  FifoStep
<1>1. Items' = Items
  BY DEF Items
<1> QED  BY <1>1 DEF FifoStep, Abstract!fifoVars, Items, Outside

\* The oldest message of q leaves.
LEMMA FifoTakes ==
  ASSUME NEW q \in Queue, Contents(q) # <<>>, Contents(q)' = Tail(Contents(q)),
         \A r \in Queue \ {q} : Contents(r)' = Contents(r),
         Outside' = Outside \cup {Head(Contents(q))}
  PROVE  FifoStep
<1>1. Items' = [Items EXCEPT ![q] = Tail(@)] /\ Items[q] = Contents(q)
  BY DEF Items
<1>2. Abstract!Take(q)
  BY <1>1 DEF Abstract!Take, Items, Outside
<1> QED  BY <1>2 DEF FifoStep, Abstract!FifoNext

\* The messages of q leave at once.
LEMMA FifoDrops ==
  ASSUME NEW q \in Queue, Contents(q)' = <<>>,
         \A r \in Queue \ {q} : Contents(r)' = Contents(r),
         Outside' = Outside \cup ToSet(Contents(q))
  PROVE  FifoStep
<1>1. Items' = [Items EXCEPT ![q] = <<>>] /\ Items[q] = Contents(q)
  BY DEF Items
<1>2. Abstract!Drop(q)
  BY <1>1 DEF Abstract!Drop, Abstract!ToSet, ToSet, Items, Outside
<1> QED  BY <1>2 DEF FifoStep, Abstract!FifoNext

\* A message joins q.
LEMMA FifoPuts ==
  ASSUME NEW q \in Queue, NEW m \in Box, m \in Outside, Len(Contents(q)) < QueueLen,
         Contents(q)' = Append(Contents(q), m),
         \A r \in Queue \ {q} : Contents(r)' = Contents(r), Outside' = Outside \ {m}
  PROVE  FifoStep
<1>1. Items' = [Items EXCEPT ![q] = Append(@, m)] /\ Items[q] = Contents(q)
  BY DEF Items
<1>2. Abstract!Put(q, m)
  BY <1>1 DEF Abstract!Put, Items, Outside
<1> QED  BY <1>2 DEF FifoStep, Abstract!FifoNext
-----------------------------------------------------------------------------
Messages == RingFit /\ MailFit /\ Once

\* The pool, the application and what was left for waiters, after a step that moves one block.
LEMMA MailFitKept ==
  ASSUME MailFit, \A t \in Task : MailAt(t)',
         boxFree' = boxFree \/ (boxFree' \in Seq(Box) /\ IsInjective(boxFree')),
         held' \subseteq Box,
         puwMsg' = puwMsg \/ \E t \in Task, m \in Box \cup {Null} : puwMsg' = [puwMsg EXCEPT ![t] = m]
  PROVE  MailFit'
<1>1. boxFree' \in Seq(Box) /\ IsInjective(boxFree')
  BY DEF MailFit
<1>2. puwMsg' \in [Task -> Box \cup {Null}]
  BY DEF MailFit
<1> QED  BY <1>1, <1>2 DEF MailFit

\* A block that moves outside the rings, or none: Fifo does not see it.
LEMMA MovesKeep ==
  ASSUME AsksFit, AsksFit', Nodes, Counts, RingFit, MailFit, Once, \A t \in Task : MailAt(t)',
         RingStays, MailMoves
  PROVE  RingFit' /\ MailFit' /\ Once' /\ FifoStep
<1>1. RingFit' /\ \A q \in Queue : Contents(q)' = Contents(q)
  BY RingKept
<1>2. ring' = ring
  BY DEF RingStays
<1>3. /\ MailFit' /\ \/ Rests
                     \/ \E X, y : \E m \in Box : /\ Moves(X, y, {m}) /\ y[1] # "ring"
                                                /\ \A x \in X : x[1] # "ring"
  <2>1. CASE Rests
    <3>1. MailFit'
      <4>1. boxFree' = boxFree /\ puwMsg' = puwMsg /\ held' = held
        BY <2>1 DEF Rests, mailVars
      <4> QED  BY <4>1, MailFitKept DEF MailFit
    <3> QED  BY <2>1, <3>1
  <2>2. ASSUME NEW m \in Box, Allocs(m)
        PROVE  MailFit' /\ \E X, y : /\ Moves(X, y, {m}) /\ y[1] # "ring"
                                     /\ \A x \in X : x[1] # "ring"
    <3>1. Moves({FreeSpot}, HeldSpot, {m})
      BY <1>2, <2>2, AllocOnce
    <3>2. FreeSpot[1] # "ring" /\ HeldSpot[1] # "ring"
      BY DEF FreeSpot, HeldSpot
    <3>3. boxFree' \in Seq(Box) /\ IsInjective(boxFree')
      BY <2>2, HeadTailRange DEF Allocs, LOS_MemboxAlloc, MailFit
    <3>4. held' \subseteq Box /\ puwMsg' = puwMsg
      BY <2>2 DEF Allocs, MailFit
    <3>5. MailFit'
      BY <3>3, <3>4, MailFitKept
    <3> QED  BY <3>1, <3>2, <3>5
  <2>3. ASSUME NEW m \in Box, Frees(m)
        PROVE  MailFit' /\ \E X, y : /\ Moves(X, y, {m}) /\ y[1] # "ring"
                                     /\ \A x \in X : x[1] # "ring"
    <3>1. Moves({HeldSpot}, FreeSpot, {m})
      BY <1>2, <2>3, FreeOnce
    <3>2. FreeSpot[1] # "ring" /\ HeldSpot[1] # "ring"
      BY DEF FreeSpot, HeldSpot
    <3>3. boxFree' \in Seq(Box) /\ IsInjective(boxFree')
      BY <2>3, FreeList DEF Frees
    <3>4. held' \subseteq Box /\ puwMsg' = puwMsg
      BY <2>3 DEF Frees, MailFit
    <3>5. MailFit'
      BY <3>3, <3>4, MailFitKept
    <3> QED  BY <3>1, <3>2, <3>5
  <2>4. ASSUME NEW m \in Box, NEW t \in Task, Offers(t, m) \/ Withdraws(t, m)
        PROVE  MailFit' /\ \E X, y : /\ Moves(X, y, {m}) /\ y[1] # "ring"
                                     /\ \A x \in X : x[1] # "ring"
    <3> DEFINE a == <<"ask", t, Null>>
    <3>1. Moves({HeldSpot}, a, {m}) \/ Moves({a}, HeldSpot, {m})
      BY <1>2, <2>4, AskOnce
    <3>2. a[1] # "ring" /\ HeldSpot[1] # "ring"
      BY DEF HeldSpot
    <3>3. boxFree' = boxFree /\ puwMsg' = puwMsg /\ held' \subseteq Box
      BY <2>4 DEF Offers, Withdraws, MailFit, mailVars
    <3>4. MailFit'
      BY <3>3, MailFitKept
    <3> HIDE DEF a
    <3> QED  BY <3>1, <3>2, <3>4
  <2>5. ASSUME NEW m \in Box, NEW t \in Task, Hands(t, m) \/ Collects(t, m)
        PROVE  MailFit' /\ \E X, y : /\ Moves(X, y, {m}) /\ y[1] # "ring"
                                     /\ \A x \in X : x[1] # "ring"
    <3> DEFINE a == <<"puw", t, Null>>
    <3>1. Moves({HeldSpot}, a, {m}) \/ Moves({a}, HeldSpot, {m})
      BY <1>2, <2>5, HandOnce
    <3>2. a[1] # "ring" /\ HeldSpot[1] # "ring"
      BY DEF HeldSpot
    <3>3. /\ boxFree' = boxFree /\ held' \subseteq Box
          /\ \E n \in Box \cup {Null} : puwMsg' = [puwMsg EXCEPT ![t] = n]
      BY <2>5 DEF Hands, Collects, MailFit
    <3>4. MailFit'
      BY <3>3, MailFitKept
    <3> HIDE DEF a
    <3> QED  BY <3>1, <3>2, <3>4
  <2> QED  BY <2>1, <2>2, <2>3, <2>4, <2>5 DEF MailMoves
<1>4. Outside = {b \in Box : Out(b)} /\ Outside' = {b \in Box : Out(b)'}
  BY <1>3, OutsideNow, OutsideNext
<1>5. CASE Rests
  <2>1. Once'
    BY <1>2, <1>5, RestOnce
  <2>2. Outside' = Outside
    BY <1>5 DEF Rests, mailVars, KeepsAll, Outside, Handed, Offered
  <2> QED  BY <1>1, <1>3, <2>1, <2>2, FifoStutters
<1>6. ASSUME NEW X, NEW y, NEW m \in Box, Moves(X, y, {m}), y[1] # "ring",
             \A x \in X : x[1] # "ring"
      PROVE  Once' /\ Outside' = Outside
  <2>1. Once'
    BY <1>6, MoveOnce
  <2>2. Out(m)
    <3>1. PICK x \in X : Holds(x, m) /\ x \in Spot
      BY <1>6 DEF Moves
    <3> QED  BY <1>6, <3>1 DEF Out
  <2>3. \A b \in Box : Out(b)' <=> Out(b) \/ b \in {m}
    BY <1>6, MoveOut
  <2>4. Outside' = Outside
    BY <1>4, <2>2, <2>3
  <2> QED  BY <2>1, <2>4
<1> QED  BY <1>1, <1>3, <1>5, <1>6, FifoStutters

\* Every step keeps each message in one place, and is a step of Fifo or none.
LEMMA MessagesStep ==
  ASSUME TypeInv, ListInv, CallInv, AsksFit, AsksFit', Counts, Counts', Nodes, Nodes', Messages,
         QueueNext, ~halt', Slice = 0
  PROVE  Messages' /\ FifoStep
<1>0. RingFit /\ MailFit /\ Once
  BY DEF Messages
<1>1. /\ \A t \in Task : MailAt(t)
      /\ puwMsg \in [Task -> Box \cup {Null}] /\ held \subseteq Box
  BY <1>0 DEF MailFit
<1>2. ASSUME NEW t \in Task PROVE MailAt(t)'
  BY <1>1, MailsStep
<1>3. ASSUME NEW q \in Queue, Opens(q) PROVE RingFit' /\ MailFit' /\ Once' /\ FifoStep
  <2>1. /\ RingFit' /\ \A r \in Queue : Contents(r)' = Contents(r)
        /\ \A r \in Queue, k \in Node : ring'[r][k] = ring[r][k]
    BY <1>0, <1>3, OpenRing
  <2>2. Rests
    BY <1>3 DEF Opens
  <2>3. Once'
    BY <1>0, <2>1, <2>2, RestOnce
  <2>4. Outside' = Outside
    BY <2>2 DEF Rests, mailVars, KeepsAll, Outside, Handed, Offered
  <2>5. boxFree' = boxFree /\ puwMsg' = puwMsg /\ held' = held
    BY <2>2 DEF Rests, mailVars
  <2>6. MailFit'
    BY <1>0, <1>1, <1>2, <2>5, MailFitKept
  <2> QED  BY <2>1, <2>3, <2>4, <2>6, FifoStutters
<1>4. ASSUME NEW q \in Queue, Drops(q) PROVE RingFit' /\ MailFit' /\ Once' /\ FifoStep
  <2> DEFINE M == ToSet(Contents(q))
             X == {<<"ring", q, k>> : k \in Node}
  <2>1. /\ RingFit' /\ Contents(q)' = <<>> /\ M = {ring[q][k] : k \in Node} \ {Null}
        /\ \A r \in Queue \ {q} : Contents(r)' = Contents(r)
    BY <1>0, <1>4, DropRing
  <2>2. Moves(X, HeldSpot, M)
    BY <1>0, <1>4, <2>1, DropOnce
  <2>3. /\ boxFree' = boxFree /\ puwMsg' = puwMsg /\ held' = held \cup M /\ M \subseteq Box
    BY <1>0, <1>4, <2>1 DEF Drops, mailVars, RingFit
  <2> HIDE DEF M, X
  <2>4. MailFit'
    BY <1>0, <1>1, <1>2, <2>3, MailFitKept
  <2>5. HeldSpot[1] # "ring"
    BY DEF HeldSpot
  <2>6. \A b \in Box : Out(b)' <=> Out(b) \/ b \in M
    BY <1>0, <2>2, <2>5, MoveOut
  <2>7. Outside = {b \in Box : Out(b)} /\ Outside' = {b \in Box : Out(b)'}
    BY <1>0, <2>4, OutsideNow, OutsideNext
  <2>8. Outside' = Outside \cup M
    BY <2>3, <2>6, <2>7
  <2>9. Once'
    BY <1>0, <2>2, MoveOnce
  <2> QED  BY <2>1, <2>4, <2>8, <2>9, FifoDrops DEF M
<1>5. ASSUME NEW q \in Queue, Takes(q) PROVE RingFit' /\ MailFit' /\ Once' /\ FifoStep
  <2>1. PICK m \in Box : m = ring[q][qHead[q]]
    BY <1>0, <1>5, TakeRing
  <2>2. /\ RingFit'
        /\ Contents(q) # <<>> /\ Head(Contents(q)) = m /\ Contents(q)' = Tail(Contents(q))
        /\ \A r \in Queue \ {q} : Contents(r)' = Contents(r)
    BY <1>0, <1>5, <2>1, TakeRing
  <2> DEFINE X == {<<"ring", q, qHead[q]>>}
  <2>3. Moves(X, HeldSpot, {m})
    BY <1>0, <1>5, <2>1, TakeOnce
  <2>4. boxFree' = boxFree /\ puwMsg' = puwMsg /\ held' = held \cup {m}
    BY <1>5, <2>1 DEF Takes, TakeNode, mailVars
  <2> HIDE DEF X
  <2>5. MailFit'
    BY <1>0, <1>1, <1>2, <2>4, MailFitKept
  <2>6. HeldSpot[1] # "ring"
    BY DEF HeldSpot
  <2>7. \A b \in Box : Out(b)' <=> Out(b) \/ b \in {m}
    BY <1>0, <2>3, <2>6, MoveOut
  <2>8. Outside = {b \in Box : Out(b)} /\ Outside' = {b \in Box : Out(b)'}
    BY <1>0, <2>5, OutsideNow, OutsideNext
  <2>9. Outside' = Outside \cup {m}
    BY <2>7, <2>8
  <2>10. Once'
    BY <1>0, <2>3, MoveOnce
  <2> QED  BY <2>2, <2>5, <2>9, <2>10, FifoTakes
<1>6. ASSUME NEW q \in Queue, NEW m \in Box, Puts(q, m)
      PROVE  RingFit' /\ MailFit' /\ Once' /\ FifoStep
  <2>1. /\ RingFit' /\ ring[q][qTail[q]] = Null /\ Len(Contents(q)) < QueueLen
        /\ Contents(q)' = Append(Contents(q), m)
        /\ \A r \in Queue \ {q} : Contents(r)' = Contents(r)
    BY <1>0, <1>6, PutRing
  <2> DEFINE y == <<"ring", q, qTail[q]>>
  <2>2. PICK x \in Spot : /\ x = HeldSpot \/ \E t \in Task : x = <<"ask", t, Null>>
                          /\ Moves({x}, y, {m})
    BY <1>0, <1>6, <2>1, PutOnce
  <2>3. boxFree' = boxFree /\ puwMsg' = puwMsg /\ held' \subseteq Box
    BY <1>1, <1>6 DEF Puts, FillNode, mailVars
  <2>4. x[1] # "ring" /\ y[1] = "ring"
    BY <2>2 DEF HeldSpot
  <2> HIDE DEF y
  <2>5. MailFit'
    BY <1>0, <1>1, <1>2, <2>3, MailFitKept
  <2>6. \A b \in Box : Out(b)' <=> Out(b) /\ b \notin {m}
    BY <1>0, <2>2, <2>4, MoveOut
  <2>7. Outside = {b \in Box : Out(b)} /\ Outside' = {b \in Box : Out(b)'}
    BY <1>0, <2>5, OutsideNow, OutsideNext
  <2>8. Outside' = Outside \ {m} /\ m \in Outside
    <3>1. Holds(x, m)
      BY <2>2 DEF Moves
    <3>2. Out(m)
      BY <2>4, <3>1 DEF Out
    <3> QED  BY <2>6, <2>7, <3>2
  <2>9. Once'
    BY <1>0, <2>2, MoveOnce
  <2> QED  BY <2>1, <2>5, <2>8, <2>9, FifoPuts
<1>7. CASE RingStays /\ MailMoves
  <2>1. \A t \in Task : MailAt(t)'
    BY <1>2
  <2> QED  BY <1>0, <1>7, <2>1, MovesKeep DEF Messages
<1>8. \/ \E q \in Queue : Opens(q) \/ Drops(q) \/ Takes(q) \/ \E m \in Box : Puts(q, m)
      \/ RingStays /\ MailMoves
  BY <1>1, StepMoves
<1> QED  BY <1>3, <1>4, <1>5, <1>6, <1>7, <1>8 DEF Messages
-----------------------------------------------------------------------------
\* At the start the pool has every block.
LEMMA MessagesInit == QueueInit => Messages /\ Abstract!FifoInit
<1> SUFFICES ASSUME QueueInit PROVE Messages /\ Abstract!FifoInit
  OBVIOUS
<1>0. QueueLen \in Nat \ {0} /\ Null \notin Box /\ NoAsk.op = "none" /\ NoAsk.msg = Null
  BY QueueAssumption DEF NoAsk
<1>1. /\ used = {} /\ held = {} /\ boxFree = BoxOrder
      /\ ring = [q \in Queue |-> [i \in Node |-> Null]]
      /\ qHead = [q \in Queue |-> 0] /\ qTail = [q \in Queue |-> 0]
      /\ asks = [t \in Task |-> NoAsk] /\ puwMsg = [t \in Task |-> Null]
  BY DEF QueueInit, BoxInit
<1>2. RingFit
  BY <1>0, <1>1 DEF RingFit, Node
<1>3. MailFit
  BY <1>0, <1>1, BoxAssumption DEF MailFit, MailAt, Granted
<1>4. Once
  <2> SUFFICES ASSUME NEW b \in Box
               PROVE  \E x \in Spot : Holds(x, b) /\ \A z \in Spot : Holds(z, b) => z = x
    BY DEF Once
  <2>1. FreeSpot \in Spot /\ Holds(FreeSpot, b)
    BY <1>1 DEF FreeSpot, Spot, Holds, Box
  <2>2. \A z \in Spot : Holds(z, b) => z = FreeSpot
    BY <1>0, <1>1, SpotKinds DEF FreeSpot
  <2> QED  BY <2>1, <2>2
<1>5. \A q \in Queue : Contents(q) = <<>>
  BY <1>1 DEF Contents
<1>6. Outside = Box
  <2>1. Offered = {} /\ Handed = {}
    BY <1>0, <1>1 DEF Offered, Handed
  <2> QED  BY <1>1, <2>1 DEF Outside, Box
<1>7. Abstract!FifoInit
  BY <1>5, <1>6 DEF Abstract!FifoInit, Outside
<1> QED  BY <1>2, <1>3, <1>4, <1>7 DEF Messages

\* As long as the nodes are accounted for each step keeps account of the messages.
LEMMA MessagesLiveStep ==
  ASSUME Slice = 0, KernelFits, ~halt, ~halt', AsksFit, AsksFit', Counts, Counts', Nodes, Nodes',
         Messages, [QueueNext]_allVars
  PROVE  Messages' /\ FifoStep
<1>0. TypeInv /\ ListInv /\ CallInv
  BY DEF KernelFits
<1>1. CASE UNCHANGED allVars
  <2>1. /\ UNCHANGED <<vars, asks, queueVars>> /\ UNCHANGED <<boxFree, puwMsg, held>>
    BY <1>1 DEF allVars, mailVars
  <2>2. Rests /\ RingStays
    BY <2>1, IdleRing DEF Rests, KeepsAll, mailVars
  <2>3. \A t \in Task : MailAt(t)'
    BY <2>1 DEF Messages, MailFit, MailAt, Granted, Waiting, vars, taskVars
  <2>4. RingFit' /\ MailFit' /\ Once' /\ FifoStep
    BY <2>2, <2>3, MovesKeep DEF Messages, MailMoves
  <2> QED  BY <2>4 DEF Messages
<1>2. CASE QueueNext
  BY <1>0, <1>2, MessagesStep
<1> QED  BY <1>1, <1>2

\* The account of the messages, from which both theorems follow.
LEMMA MessagesKept ==
  ASSUME Slice = 0, Permits = {}, "Suspend" \notin IsrCalls, "Delete" \notin Calls \cup IsrCalls
  PROVE  QueueSpec => /\ [](Counts /\ AsksFit /\ Nodes /\ Messages)
                      /\ Abstract!FifoInit /\ [][Abstract!FifoNext]_(Abstract!fifoVars)
<1> DEFINE Counts_ == TypeInv /\ Counts /\ NodesFound
           Nodes_ == ~halt => AsksFit /\ Nodes
           Known_ == KernelFits /\ NoCrash /\ Counts_ /\ Nodes_
<1>1. Known_ /\ Known_' /\ Messages /\ [QueueNext]_allVars => Messages' /\ FifoStep
  BY MessagesLiveStep DEF NoCrash
<1>2. Spec => []KernelFits
  BY CallsKept DEF KernelFits
<1>3. QueueSpec => []Counts_
  BY NodesInvariant
<1>4. Spec => []NoCrash
  BY NeverCrashes
<1>5. QueueSpec => []Nodes_
  BY NodesLive
<1>6. Known_ => Counts /\ AsksFit /\ Nodes
  BY DEF NoCrash
<1>7. FifoStep <=> [Abstract!FifoNext]_(Abstract!fifoVars)
  BY DEF FifoStep
<1>8. KernelFits /\ NoCrash /\ Counts_ /\ Nodes_ => Known_
  OBVIOUS
<1> HIDE DEF Counts_, Nodes_, Known_
<1>9. QueueSpec => []Known_
  BY <1>2, <1>3, <1>4, <1>5, <1>8, QueueImplementsTask, PTL
<1>10. QueueSpec => []Messages
  BY <1>1, <1>9, MessagesInit, PTL DEF QueueSpec
<1>11. QueueSpec => [][Abstract!FifoNext]_(Abstract!fifoVars)
  BY <1>1, <1>7, <1>9, <1>10, PTL DEF QueueSpec
<1> QED
  BY <1>6, <1>9, <1>10, <1>11, MessagesInit, PTL DEF QueueSpec

\* Queues deliver their messages in order, each of them once and no more than they have
\* nodes for, whoever blocks, is woken, or waits in vain, in whatever order: the ring, its
\* counts and the nodes that woken tasks own implement Fifo.
THEOREM QueueIsFifo ==
  ASSUME Slice = 0, Permits = {}, "Suspend" \notin IsrCalls, "Delete" \notin Calls \cup IsrCalls
  PROVE  QueueSpec => ImplementsFifo
BY MessagesKept, PTL DEF ImplementsFifo, Abstract!FifoSpec

\* The block b is in a place of this kind.
InKind(b, kind) == \E z \in Spot : z[1] = kind /\ Holds(z, b)

Kinds == <<"free", "ring", "held", "puw", "ask">>

\* The places of BlocksOnce, one for each kind.
LEMMA PlacesAre ==
  ASSUME AsksFit, MailFit, RingFit, Counts, Nodes
  PROVE  /\ ToSet(boxFree) = {b \in Box : InKind(b, "free")}
         /\ UNION {ToSet(Contents(q)) : q \in Queue} = {b \in Box : InKind(b, "ring")}
         /\ held = {b \in Box : InKind(b, "held")}
         /\ Handed = {b \in Box : InKind(b, "puw")}
         /\ Offered = {b \in Box : InKind(b, "ask")}
<1>0. /\ ToSet(boxFree) \subseteq Box /\ held \subseteq Box /\ Null \notin Box
      /\ \A t \in Task : asks[t].msg \in Box \cup {Null} /\ puwMsg[t] \in Box \cup {Null}
  BY QueueAssumption, InToSet DEF MailFit, ToSet, AsksFit, Asking
<1>1. ASSUME NEW b \in Box
      PROVE  /\ InKind(b, "free") <=> b \in ToSet(boxFree)
             /\ InKind(b, "held") <=> b \in held
             /\ InKind(b, "ring") <=> \E q \in Queue, k \in Node : ring[q][k] = b
             /\ InKind(b, "puw") <=> \E t \in Task : puwMsg[t] = b
             /\ InKind(b, "ask") <=> \E t \in Task : asks[t].msg = b
  <2>1. /\ FreeSpot \in Spot /\ FreeSpot[1] = "free" /\ (Holds(FreeSpot, b) <=> b \in ToSet(boxFree))
        /\ HeldSpot \in Spot /\ HeldSpot[1] = "held" /\ (Holds(HeldSpot, b) <=> b \in held)
    BY DEF Spot, Holds, FreeSpot, HeldSpot
  <2>2. ASSUME NEW q \in Queue, NEW k \in Node, ring[q][k] = b PROVE InKind(b, "ring")
    <3> DEFINE z == <<"ring", q, k>>
    <3>1. z \in Spot /\ z[1] = "ring" /\ Holds(z, b)
      BY <2>2 DEF Spot, Holds
    <3> QED  BY <3>1 DEF InKind
  <2>3. ASSUME NEW t \in Task, puwMsg[t] = b PROVE InKind(b, "puw")
    <3> DEFINE z == <<"puw", t, Null>>
    <3>1. z \in Spot /\ z[1] = "puw" /\ Holds(z, b)
      BY <2>3 DEF Spot, Holds
    <3> QED  BY <3>1 DEF InKind
  <2>4. ASSUME NEW t \in Task, asks[t].msg = b PROVE InKind(b, "ask")
    <3> DEFINE z == <<"ask", t, Null>>
    <3>1. z \in Spot /\ z[1] = "ask" /\ Holds(z, b)
      BY <2>4 DEF Spot, Holds
    <3> QED  BY <3>1 DEF InKind
  <2>5. ASSUME NEW z \in Spot, Holds(z, b)
        PROVE  /\ z[1] = "free" => b \in ToSet(boxFree)
               /\ z[1] = "held" => b \in held
               /\ z[1] = "ring" => \E q \in Queue, k \in Node : ring[q][k] = b
               /\ z[1] = "puw" => \E t \in Task : puwMsg[t] = b
               /\ z[1] = "ask" => \E t \in Task : asks[t].msg = b
    BY <2>5, SpotKinds
  <2> QED  BY <2>1, <2>2, <2>3, <2>4, <2>5 DEF InKind
<1>2. \A q \in Queue : ToSet(Contents(q)) = {ring[q][k] : k \in Node} \ {Null}
  BY ContentsNow DEF ContentsAre
<1>3. \A q \in Queue, k \in Node : ring[q][k] \in Box \cup {Null}
  BY DEF RingFit
<1>4. UNION {ToSet(Contents(q)) : q \in Queue} = {b \in Box : InKind(b, "ring")}
  <2>1. ASSUME NEW q \in Queue, NEW b \in ToSet(Contents(q)) PROVE b \in Box /\ InKind(b, "ring")
    <3>1. \E k \in Node : ring[q][k] = b /\ b # Null
      BY <1>2
    <3> QED  BY <1>1, <1>3, <3>1
  <2>2. ASSUME NEW b \in Box, InKind(b, "ring") PROVE \E q \in Queue : b \in ToSet(Contents(q))
    <3>1. PICK q \in Queue, k \in Node : ring[q][k] = b
      BY <1>1, <2>2
    <3>2. b \in ToSet(Contents(q))
      BY <1>0, <1>2, <3>1
    <3> QED  BY <3>2
  <2> QED  BY <2>1, <2>2
<1>5. Handed = {b \in Box : InKind(b, "puw")}
  BY <1>0, <1>1 DEF Handed
<1>6. Offered = {b \in Box : InKind(b, "ask")}
  BY <1>0, <1>1 DEF Offered
<1> QED  BY <1>0, <1>1, <1>4, <1>5, <1>6

\* The account says what the runs check.
LEMMA OnceMeans == AsksFit /\ Counts /\ Nodes /\ Messages => BlocksOnce
<1> SUFFICES ASSUME AsksFit, Counts, Nodes, RingFit, MailFit, Once PROVE BlocksOnce
  BY DEF Messages
<1> DEFINE inRing == UNION {ToSet(Contents(q)) : q \in Queue}
           places == <<ToSet(boxFree), inRing, held, Handed, Offered>>
<1>1. \A i \in 1..5 : places[i] = {b \in Box : InKind(b, Kinds[i])}
  BY PlacesAre DEF Kinds
<1>2. DOMAIN places = 1..5 /\ ToSet(places) = {places[i] : i \in 1..5}
  BY DEF ToSet
<1> HIDE DEF places
<1>3. ASSUME NEW i \in 1..5, NEW j \in 1..5, i # j PROVE Kinds[i] # Kinds[j]
  BY <1>3 DEF Kinds
<1>4. ASSUME NEW i \in 1..5, NEW j \in 1..5, i # j PROVE places[i] \cap places[j] = {}
  <2> SUFFICES ASSUME NEW b \in Box, InKind(b, Kinds[i]), InKind(b, Kinds[j]) PROVE FALSE
    BY <1>1
  <2>1. PICK y \in Spot, z \in Spot : /\ y[1] = Kinds[i] /\ Holds(y, b)
                                      /\ z[1] = Kinds[j] /\ Holds(z, b)
    BY DEF InKind
  <2>2. y = z
    BY <2>1 DEF Once
  <2> QED  BY <1>3, <1>4, <2>1, <2>2
<1>5. UNION ToSet(places) = Box
  <2>1. ASSUME NEW b \in Box PROVE \E i \in 1..5 : b \in places[i]
    <3>1. PICK z \in Spot : Holds(z, b)
      BY DEF Once
    <3>2. \E i \in 1..5 : z[1] = Kinds[i]
      <4>1. /\ Kinds[1] = "free" /\ Kinds[2] = "ring" /\ Kinds[3] = "held"
            /\ Kinds[4] = "puw" /\ Kinds[5] = "ask"
        BY DEF Kinds
      <4>2. z[1] \in {"free", "held", "ring", "ask", "puw"}
        BY DEF Spot
      <4> QED  BY <4>1, <4>2
    <3> QED  BY <1>1, <3>1, <3>2 DEF InKind
  <2>2. \A i \in 1..5 : places[i] \subseteq Box
    BY <1>1
  <2> QED  BY <1>2, <2>1, <2>2
<1>6. \A i, j \in DOMAIN places : i # j => places[i] \cap places[j] = {}
  BY <1>2, <1>4
<1>7. IsInjective(boxFree)
  BY DEF MailFit
<1> QED  BY <1>5, <1>6, <1>7 DEF BlocksOnce, places

\* Each block of the pool is in one place: free, in one ring, with the application, left for
\* a task that waited for one, or with a writer that waits.
THEOREM BlocksHeldOnce ==
  ASSUME Slice = 0, Permits = {}, "Suspend" \notin IsrCalls, "Delete" \notin Calls \cup IsrCalls
  PROVE  QueueSpec => []BlocksOnce
BY MessagesKept, OnceMeans, PTL
=============================================================================
