-------------------------------- MODULE Task --------------------------------
(***************************************************************************)
(* The task scheduler of the kernel: task control blocks, the ready queue, *)
(* the delay list, time slices, scheduler lock, PendSV context switch      *)
(* (src/kernel/base/core and src/kernel/cpu/arm/cortex-m0).                *)
(*                                                                         *)
(* One action is one critical section (LOS_IntLock .. LOS_IntRestore) or   *)
(* one run of unlocked code that nothing else observes.  Between the       *)
(* critical section of a call and its LOS_Schedule interrupts are enabled: *)
(* that window is a state of its own (pc = "sched", "wait", ...), in which *)
(* the tick and other interrupts may act on the half-blocked caller.       *)
(* A call in a handler is one step: tasks and the tick stand still until   *)
(* it returns.  Handlers nest in the tick ("NestedIsr"), not in others.    *)
(*                                                                         *)
(* LOS_SemPend, LOS_MuxPend, LOS_EventRead and osQueuePend block the       *)
(* running task with the same code; here Pend and Wake stand for them on   *)
(* abstract objects, and the modules of those objects build on them.       *)
(* A call that returns an error changes nothing and is not an action.      *)
(*                                                                         *)
(* A definition X_Bug... is X with a plausible mistake in it.  No action   *)
(* uses it: put in place of X it shows which property notices the mistake. *)
(***************************************************************************)
EXTENDS DelayList

CONSTANTS
  TcbOrder,      \* the control blocks of g_pstTaskCBArray, but the last, in order
  Idle,          \* g_uwIdleTaskID
  SwtmrTask,     \* g_uwSwtmrTaskID, Null when software timers are not built
  Dummy,         \* g_pstTaskCBArray[g_uwTskMaxNum], what runs after a self-delete
  Lowest,        \* OS_TASK_PRIORITY_LOWEST; 0 is the most urgent priority
  Free, Recycle, \* list heads g_stLosFreeTask and g_stTskRecyleList
  Obj, QueueObj, \* list heads of the objects tasks wait for; those of queues
  Null,
  Slice,         \* LOSCFG_BASE_CORE_TIMESLICE_TIMEOUT, 0 when slices are not built
  AppPrio,       \* the priorities an application gives its tasks
  Attr,          \* the attributes it gives them: {}, or {"DETACHED"}
  MaxLock,       \* bound on the nesting of LOS_TaskLock
  Calls,         \* the calls that tasks make
  IsrCalls,      \* the calls that interrupt handlers make
  Permits        \* the unusual situations the application gets into, see below

Prio == 0..Lowest
Head_ == Prio \cup Obj \cup {Free, Recycle}
Flag == {"UNUSED", "SUSPEND", "READY", "PEND", "PEND_QUEUE", "DELAY", "TIMEOUT", "DETACHED"}
Forever == 0     \* LOS_WAIT_FOREVER; a zero timeout never blocks

\* "NestedIsr":      interrupts above the priority of SysTick call the kernel.
\* "DeleteExpired":  a task is deleted after its wait timed out and before it ran.
\* "ResumeFinished": a joinable task that returned is suspended and resumed.
\* "DeleteCreator":  a task is deleted while it creates another.
PermitNames == {"NestedIsr", "DeleteExpired", "ResumeFinished", "DeleteCreator"}

ASSUME TaskAssumption ==
  /\ Idle \in Task /\ SwtmrTask \in (Task \ {Idle}) \cup {Null}
  /\ Dummy \notin Task /\ Null \notin Task \cup {Dummy}
  /\ TcbOrder \in Seq(Task) /\ ToSet(TcbOrder) = Task \ {Idle, SwtmrTask}
  /\ \A i, j \in DOMAIN TcbOrder : TcbOrder[i] = TcbOrder[j] => i = j
  /\ Lowest \in Nat \ {0} /\ AppPrio \subseteq 0..Lowest
  /\ Free # Recycle /\ {Free, Recycle} \cap (0..Lowest) = {}
  /\ Obj \cap ((0..Lowest) \cup {Free, Recycle}) = {} /\ QueueObj \subseteq Obj
  /\ Timeouts \subseteq Nat \ {0} /\ Slice \in Nat /\ MaxLock \in Nat
  /\ Permits \subseteq PermitNames /\ Attr \subseteq {{}, {"DETACHED"}}
-----------------------------------------------------------------------------
VARIABLES
  status,   \* usTaskStatus, a set of flags (RUNNING is "= run")
  prio,     \* usPriority
  list,     \* every list that links tasks by stPendList, first entry first
  run,      \* g_stLosTask.pstRunTask
  new,      \* g_stLosTask.pstNewTask
  lock,     \* g_usLosTaskLock
  pendsv,   \* PendSV is pending
  started,  \* g_bTaskScheduled
  zombie,   \* the task whose context Dummy carries on
  pc,       \* where each task stands in the call it makes
  newborn,  \* the control block that a call which creates has taken, until it lets go of it
  slice,    \* g_stTaskTimeSlice: its task, and the ticks it has left
  scan,     \* the locals of osTaskScan while the tick interrupt runs it
  halt      \* the kernel followed a null link or spins with interrupts off

taskVars == <<status, prio, list, timerQ, left>>
cpuVars  == <<run, new, lock, pendsv, started, zombie>>
vars     == <<taskVars, cpuVars, pc, newborn, slice, scan, halt>>

Place == {"user", "alloc", "create", "switch", "sched", "wait", "woken",
          "finish", "unlock", "exit", "dead"}
Idling == [at |-> "idle", task |-> Null, was |-> {}, need |-> FALSE]

TypeOK ==
  /\ status \in [Task -> SUBSET Flag]
  /\ prio \in [Task -> Prio]
  /\ list \in [Head_ -> Seq(Task)]
  /\ timerQ \in Seq(Task)
  /\ left \in [Task -> Int]
  /\ run \in Task \cup {Dummy} /\ new \in Task
  /\ lock \in 0..MaxLock + 1
  /\ pendsv \in BOOLEAN /\ started \in BOOLEAN /\ halt \in BOOLEAN
  /\ zombie \in Task \cup {Dummy}
  /\ pc \in [Task -> Place]
  /\ newborn \in [Task -> Task \cup {Null}]
  /\ slice \in [task : Task \cup {Dummy, Null}, left : 0..Slice]
  /\ scan \in [at : {"idle", "next", "expire"}, task : Task \cup {Null},
               was : SUBSET Flag, need : BOOLEAN]
-----------------------------------------------------------------------------
(* Lists.  LOS_ListDelete clears the links of the node it takes out, so a   *)
(* second delete, or an insert of a node still linked, follows or leaves a  *)
(* wild pointer: the actions set halt when they do that.                    *)

Linked(L, t) == \E h \in Head_ : t \in ToSet(L[h])

\* LOS_ListDelete(&t->stPendList)
Unlink(L, t) == [h \in Head_ |-> RemoveFirst(L[h], t)]

\* LOS_ListTailInsert(h, &t->stPendList), LOS_PriqueueEnqueue
AddTail(L, h, t) == [L EXCEPT ![h] = Append(@, t)]

\* LOS_ListAdd(h, &t->stPendList)
AddHead(L, h, t) == [L EXCEPT ![h] = <<t>> \o @]

\* LOS_PriqueueTop: the first task of the most urgent ready list.
Top(L) ==
  Head(L[CHOOSE p \in Prio : L[p] # <<>> /\ \A q \in Prio : L[q] # <<>> => p <= q])

Waiting(t) == status[t] \cap {"PEND", "PEND_QUEUE"}
Blocking == {"DELAY", "PEND", "PEND_QUEUE", "SUSPEND"}   \* OS_CHECK_TASK_BLOCK
Kind(o) == IF o \in QueueObj THEN "PEND_QUEUE" ELSE "PEND"

\* A wait of t timed out and t has not yet run to see it.
Expired(t) == "TIMEOUT" \in status[t] /\ t \notin ToSet(timerQ)
-----------------------------------------------------------------------------
(* Who calls: "main" before LOS_Start, the running "task", or an "isr".    *)

Context == {"main", "task", "isr"}

\* PendSV and SysTick share the lowest interrupt priority: a task executes only
\* when neither is active, another handler also inside the tick if nested.
TaskRuns(where) ==
  /\ started /\ ~halt /\ ~pendsv /\ scan.at = "idle"
  /\ run \in Task /\ pc[run] = where

MayCall(c, name) ==
  \/ c = "main" /\ ~started /\ ~halt /\ name \in {"Create", "Resume"}
  \/ c = "task" /\ TaskRuns("user") /\ run # Idle /\ name \in Calls
  \/ /\ c = "isr" /\ started /\ ~halt /\ name \in IsrCalls
     /\ scan.at = "idle" \/ "NestedIsr" \in Permits

\* An application uses a task ID once the call that created the task returned it.
Known(t) == "UNUSED" \notin status[t] /\ \A u \in Task : newborn[u] # t

RunId == IF run = Dummy THEN zombie ELSE run   \* pstRunTask->uwTaskID

Schedule_BugStale(c) ==
  /\ new' = Top(list)
  /\ \/ c = "task" /\ pc' = [pc EXCEPT ![run] = "sched"] /\ UNCHANGED pendsv
     \/ c # "task" /\ pendsv' = (pendsv \/ (run # new' /\ lock = 0 /\ started)) /\ UNCHANGED pc

Schedule_BugUnlocked(c) ==
  \/ c = "task" /\ pc' = [pc EXCEPT ![run] = "sched"] /\ UNCHANGED <<new, pendsv>>
  \/ /\ c # "task" /\ new' = Top(list') /\ UNCHANGED pc
     /\ pendsv' = (pendsv \/ (run # new' /\ started))

\* LOS_Schedule at the end of a call: at once in a handler, after the window in a
\* task.  Before LOS_Start calls only compute pstNewTask.
Schedule(c) ==
  \/ c = "main" /\ new' = Top(list') /\ UNCHANGED <<pendsv, pc>>
  \/ c = "task" /\ pc' = [pc EXCEPT ![run] = "sched"] /\ UNCHANGED <<new, pendsv>>
  \/ /\ c = "isr" /\ new' = Top(list') /\ UNCHANGED pc
     /\ pendsv' = (pendsv \/ (run # new' /\ lock = 0))

NoSchedule == UNCHANGED <<new, pendsv, pc>>
-----------------------------------------------------------------------------
(* Start-up: osTaskInit and the system tasks of osMain, up to osAppInit.    *)

Init ==
  /\ status = [t \in Task |-> IF t = Idle THEN {"READY"}
                              ELSE IF t = SwtmrTask THEN {"READY", "DETACHED"} ELSE {"UNUSED"}]
  /\ prio = [t \in Task |-> IF t = Idle THEN Lowest ELSE 0]
  /\ list = [h \in Head_ |-> IF h = Free THEN TcbOrder
                             ELSE IF h = Lowest THEN <<Idle>>
                             ELSE IF h = 0 /\ SwtmrTask # Null THEN <<SwtmrTask>> ELSE <<>>]
  /\ timerQ = <<>> /\ left = [t \in Task |-> 0]
  /\ run = Dummy /\ zombie = Dummy /\ started = FALSE
  /\ new = IF SwtmrTask = Null THEN Idle ELSE SwtmrTask
  /\ lock = 0 /\ pendsv = FALSE
  /\ pc = [t \in Task |-> "user"] /\ newborn = [t \in Task |-> Null]
  /\ slice = [task |-> Null, left |-> 0] /\ scan = Idling /\ halt = FALSE

\* LOS_StartToRun
LOS_Start ==
  /\ ~started /\ ~halt /\ started' = TRUE /\ run' = new
  /\ UNCHANGED <<taskVars, new, lock, pendsv, zombie, pc, newborn, slice, scan, halt>>
-----------------------------------------------------------------------------
(* Creation.  LOS_TaskCreateOnly first moves the tasks that deleted         *)
(* themselves, and their stacks, from Recycle to the front of Free.         *)

Reclaimed_BugNotEmptied == [list EXCEPT ![Free] = Reverse(list[Recycle]) \o @]

Reclaimed == [list EXCEPT ![Free] = Reverse(list[Recycle]) \o @, ![Recycle] = <<>>]

\* In a task LOS_TaskCreateOnly is two steps.  The first takes a control block off Free.
TaskCreateTake ==
  /\ MayCall("task", "Create") /\ Reclaimed[Free] # <<>>
  /\ list' = [Reclaimed EXCEPT ![Free] = Tail(@)]
  /\ pc' = [pc EXCEPT ![run] = "alloc"]
  /\ newborn' = [newborn EXCEPT ![run] = Head(Reclaimed[Free])]
  /\ UNCHANGED <<status, prio, timerQ, left, cpuVars, slice, scan, halt>>

TaskCreateNoMemory_BugKept ==
  /\ TaskRuns("alloc")
  /\ pc' = [pc EXCEPT ![run] = "user"]
  /\ newborn' = [newborn EXCEPT ![run] = Null]
  /\ UNCHANGED <<taskVars, cpuVars, slice, scan, halt>>

\* With interrupts enabled, the block on no list and its status still UNUSED, the stack is
\* allocated.  If that fails the block goes back.
TaskCreateNoMemory ==
  /\ TaskRuns("alloc")
  /\ list' = AddHead(list, Free, newborn[run])
  /\ pc' = [pc EXCEPT ![run] = "user"]
  /\ newborn' = [newborn EXCEPT ![run] = Null]
  /\ UNCHANGED <<status, prio, timerQ, left, cpuVars, slice, scan, halt>>

\* Else the block is filled in, which nobody who does not know the task observes, and the
\* call returns, or is the first part of LOS_TaskCreate.  pThreadJoin stays null, nothing
\* in the kernel sets it.
TaskCreateFill(p, flags) ==
  /\ TaskRuns("alloc")
  /\ prio' = [prio EXCEPT ![newborn[run]] = p]
  /\ status' = [status EXCEPT ![newborn[run]] = {"SUSPEND"} \cup flags]
  /\ \/ /\ pc' = [pc EXCEPT ![run] = "user"]
        /\ newborn' = [newborn EXCEPT ![run] = Null]
     \/ /\ pc' = [pc EXCEPT ![run] = "create"] /\ UNCHANGED newborn
  /\ UNCHANGED <<list, timerQ, left, cpuVars, slice, scan, halt>>

TaskCreateReady ==
  /\ TaskRuns("create")
  /\ LET t == newborn[run] IN
       /\ status' = [status EXCEPT ![t] = (@ \ {"SUSPEND"}) \cup {"READY"}]
       /\ list' = AddTail(list, prio[t], t)
  /\ newborn' = [newborn EXCEPT ![run] = Null]
  /\ new' = Top(list')
  /\ pc' = [pc EXCEPT ![run] = IF lock = 0 /\ run # new' THEN "switch" ELSE "user"]
  /\ UNCHANGED <<prio, timerQ, left, run, lock, pendsv, started, zombie, slice, scan, halt>>

\* Before LOS_Start, and in a handler, which runs to its end before a task or the tick goes
\* on, the new task t is created in one step: suspended, or ready at once.
CreateAtOnce(c, t, p, flags, only) ==
  /\ c # "task" /\ MayCall(c, "Create")
  /\ Reclaimed[Free] # <<>> /\ t = Head(Reclaimed[Free])
  /\ prio' = [prio EXCEPT ![t] = p]
  /\ IF only
     THEN /\ list' = [Reclaimed EXCEPT ![Free] = Tail(@)]
          /\ status' = [status EXCEPT ![t] = {"SUSPEND"} \cup flags]
     ELSE /\ list' = AddTail([Reclaimed EXCEPT ![Free] = Tail(@)], p, t)
          /\ status' = [status EXCEPT ![t] = {"READY"} \cup flags]
  /\ UNCHANGED <<timerQ, left, run, lock, started, zombie, newborn, slice, scan, halt>>

LOS_TaskCreateOnly(c, t, p, flags) == CreateAtOnce(c, t, p, flags, TRUE) /\ NoSchedule

LOS_TaskCreate(c, t, p, flags) == CreateAtOnce(c, t, p, flags, FALSE) /\ Schedule(c)

\* The block is taken and given back.
CreateNothing(c) ==
  /\ c # "task" /\ MayCall(c, "Create")
  /\ list' = Reclaimed
  /\ UNCHANGED <<status, prio, timerQ, left, cpuVars, pc, newborn, slice, scan, halt>>
-----------------------------------------------------------------------------
LOS_TaskResume(c, t) ==
  /\ MayCall(c, "Resume") /\ Known(t) /\ "SUSPEND" \in status[t]
  /\ pc[t] \in {"exit", "dead"} => "ResumeFinished" \in Permits
  /\ \/ /\ status[t] \cap Blocking # {"SUSPEND"}
        /\ status' = [status EXCEPT ![t] = @ \ {"SUSPEND"}]
        /\ UNCHANGED <<list, halt>> /\ NoSchedule
     \/ /\ status[t] \cap Blocking = {"SUSPEND"}
        /\ status' = [status EXCEPT ![t] = (@ \ {"SUSPEND"}) \cup {"READY"}]
        /\ list' = AddTail(list, prio[t], t)
        /\ halt' = Linked(list, t)
        /\ Schedule(c)
  /\ UNCHANGED <<prio, timerQ, left, run, lock, started, zombie, newborn, slice, scan>>

\* pstNewTask is recomputed only when the task suspended is the running one.
LOS_TaskSuspend(c, t) ==
  /\ MayCall(c, "Suspend") /\ t \notin {Idle, SwtmrTask} /\ Known(t)
  /\ "SUSPEND" \notin status[t] /\ ~(t = run /\ lock # 0)
  /\ status' = [status EXCEPT ![t] = (@ \ {"READY"}) \cup {"SUSPEND"}]
  /\ \/ /\ "READY" \in status[t] /\ list' = Unlink(list, t) /\ halt' = ~Linked(list, t)
     \/ /\ "READY" \notin status[t] /\ UNCHANGED <<list, halt>>
  /\ \/ t = RunId /\ Schedule(c)
     \/ t # RunId /\ NoSchedule
  /\ UNCHANGED <<prio, timerQ, left, run, lock, started, zombie, newborn, slice, scan>>
-----------------------------------------------------------------------------
(* Deletion.  A running task cannot free the stack it stands on: its block  *)
(* goes to Recycle and Dummy takes its place until PendSV.                  *)

Detaches_BugDelayed(t) == "READY" \in status[t] \/ Waiting(t) # {} \/ "DELAY" \in status[t]

\* Takes t off the list of the ready tasks or of the object it waits for.
Detaches(t) == "READY" \in status[t] \/ Waiting(t) # {}
Detach(t) == IF Detaches(t) THEN Unlink(list, t) ELSE list

RetireRun_BugFreed(c) ==
  /\ list' = AddHead(Detach(run), Free, run)
  /\ run' = Dummy /\ zombie' = run
  /\ new' = Top(list')
  /\ pendsv' = (pendsv \/ c = "isr")

RetireRun_BugNotRechosen(c) ==
  /\ list' = AddTail(Detach(run), Recycle, run)
  /\ run' = Dummy /\ zombie' = run
  /\ pendsv' = (pendsv \/ c = "isr")
  /\ UNCHANGED new

RetireRun(c) ==
  /\ list' = AddTail(Detach(run), Recycle, run)
  /\ run' = Dummy /\ zombie' = run
  /\ new' = Top(list')
  /\ pendsv' = (pendsv \/ c = "isr")    \* in a task osSchedule follows the window

LOS_TaskDelete(c, t) ==
  /\ MayCall(c, "Delete") /\ t # Idle /\ Known(t) /\ ~(t = run /\ lock # 0)
  /\ Expired(t) => "DeleteExpired" \in Permits
  /\ pc[t] = "alloc" => "DeleteCreator" \in Permits
  /\ status' = [status EXCEPT ![t] = {"UNUSED"}]
  /\ pc' = [pc EXCEPT ![t] = "user"] /\ newborn' = [newborn EXCEPT ![t] = Null]
  /\ \/ /\ {"DELAY", "TIMEOUT"} \cap status[t] # {}
        /\ timerQ' = DelTimer(timerQ, t) /\ left' = [left EXCEPT ![t] = 0]
     \/ /\ {"DELAY", "TIMEOUT"} \cap status[t] = {} /\ UNCHANGED <<timerQ, left>>
  /\ halt' = \/ Detaches(t) /\ ~Linked(list, t)
             \/ {"DELAY", "TIMEOUT"} \cap status[t] # {} /\ t \notin ToSet(timerQ)
  /\ \/ t = run /\ RetireRun(c)
     \/ /\ t # run /\ list' = AddHead(Detach(t), Free, t) /\ new' = Top(list')
        /\ UNCHANGED <<run, zombie, pendsv>>
  /\ UNCHANGED <<prio, lock, started, slice, scan>>

\* The entry function returns; the kernel's own tasks never do.
Returns == TaskRuns("user") /\ run \notin {Idle, SwtmrTask} /\ "Exit" \in Calls

\* The task is detached: osTaskSelfDelete.
TaskEntryDetached ==
  /\ Returns /\ "DETACHED" \in status[run]
  /\ RetireRun("task")
  /\ status' = [status EXCEPT ![run] = {"UNUSED"}]
  /\ lock' = 0
  /\ LET timed == /\ "READY" \notin status[run] /\ Waiting(run) # {}
                  /\ {"DELAY", "TIMEOUT"} \cap status[run] # {}
     IN /\ timerQ' = IF timed THEN DelTimer(timerQ, run) ELSE timerQ
        /\ left' = IF timed THEN [left EXCEPT ![run] = 0] ELSE left
        /\ halt' = \/ Detaches(run) /\ ~Linked(list, run)
                   \/ timed /\ run \notin ToSet(timerQ)
  /\ UNCHANGED <<prio, started, pc, newborn, slice, scan>>

\* The task is joinable: whatever lock it held is dropped without a schedule ...
TaskEntryJoinable ==
  /\ Returns /\ "DETACHED" \notin status[run]
  /\ lock' = 0 /\ pc' = [pc EXCEPT ![run] = "finish"]
  /\ UNCHANGED <<taskVars, run, new, pendsv, started, zombie, newborn, slice, scan, halt>>

\* ... then the scheduler is locked and the task taken off its ready list.  The code
\* does the latter with interrupts enabled; here it is one step.
TaskEntryFinish ==
  /\ TaskRuns("finish")
  /\ lock' = lock + 1
  /\ list' = IF "READY" \in status[run] THEN Unlink(list, run) ELSE list
  /\ halt' = ("READY" \in status[run] /\ ~Linked(list, run))
  /\ status' = [status EXCEPT ![run] = @ \ {"READY"}]
  /\ pc' = [pc EXCEPT ![run] = "unlock"]
  /\ UNCHANGED <<prio, timerQ, left, run, new, pendsv, started, zombie, newborn, slice, scan>>

TaskEntryUnlock ==
  /\ TaskRuns("unlock")
  /\ lock' = lock - 1 /\ pc' = [pc EXCEPT ![run] = "exit"]
  /\ UNCHANGED <<taskVars, run, new, pendsv, started, zombie, newborn, slice, scan, halt>>

\* A finished task that is scheduled again returns into osTaskExit: interrupts stay off.
osTaskExit ==
  /\ TaskRuns("dead") /\ halt' = TRUE
  /\ UNCHANGED <<taskVars, cpuVars, pc, newborn, slice, scan>>
-----------------------------------------------------------------------------
LOS_TaskDelay(n) ==
  /\ MayCall("task", "Delay") /\ lock = 0
  /\ list' = Unlink(list, run)
  /\ status' = [status EXCEPT ![run] = (@ \ {"READY"}) \cup {"DELAY"}]
  /\ timerQ' = AddTimer(timerQ, run, n) /\ left' = [left EXCEPT ![run] = n]
  /\ halt' = (~Linked(list, run) \/ run \in ToSet(timerQ))
  /\ Schedule("task")
  /\ UNCHANGED <<prio, run, lock, started, zombie, newborn, slice, scan>>

Rotate_BugLate ==
  /\ Len(list[prio[run]]) > 2
  /\ list' = AddTail(Unlink(list, run), prio[run], run)
  /\ status' = [status EXCEPT ![run] = @ \cup {"READY"}]
  /\ halt' = ~Linked(list, run)

\* The running task goes behind the other ready tasks of its priority, whatever
\* list its node is on and whatever else its status says.
Rotate ==
  /\ Len(list[prio[run]]) > 1
  /\ list' = AddTail(Unlink(list, run), prio[run], run)
  /\ status' = [status EXCEPT ![run] = @ \cup {"READY"}]
  /\ halt' = ~Linked(list, run)

LOS_TaskYield ==
  /\ MayCall("task", "Yield")
  /\ Rotate /\ Schedule("task")
  /\ UNCHANGED <<prio, timerQ, left, run, lock, started, zombie, newborn, slice, scan>>

LOS_TaskPriSet(c, t, p) ==
  /\ MayCall(c, "PriSet") /\ t # Idle /\ Known(t)
  /\ prio' = [prio EXCEPT ![t] = p]
  /\ \/ /\ "READY" \in status[t]
        /\ list' = AddTail(Unlink(list, t), p, t) /\ halt' = ~Linked(list, t)
        /\ Schedule(c)
     \/ /\ "READY" \notin status[t] /\ UNCHANGED <<list, halt>> /\ NoSchedule
  /\ UNCHANGED <<status, timerQ, left, run, lock, started, zombie, newborn, slice, scan>>

LOS_TaskLock ==
  /\ MayCall("task", "Lock") /\ lock < MaxLock
  /\ lock' = lock + 1
  /\ UNCHANGED <<taskVars, run, new, pendsv, started, zombie, pc, newborn, slice, scan, halt>>

LOS_TaskUnlock ==
  /\ MayCall("task", "Lock") /\ lock > 0
  /\ lock' = lock - 1
  /\ \/ lock' = 0 /\ Schedule("task")
     \/ lock' > 0 /\ NoSchedule
  /\ UNCHANGED <<taskVars, run, started, zombie, newborn, slice, scan, halt>>
-----------------------------------------------------------------------------
(* Waiting for an object o and being woken, as the IPC modules do it.       *)

\* The running task leaves the lists L and blocks at place i of o's list: last, or by
\* priority for queues.
Block(L, o, n, i) ==
  /\ MayCall("task", "Pend") /\ lock = 0
  /\ LET M == Unlink(L, run) IN list' = [M EXCEPT ![o] = InsertAt(@, i, run)]
  /\ \/ /\ n = Forever
        /\ status' = [status EXCEPT ![run] = (@ \ {"READY"}) \cup {Kind(o)}]
        /\ UNCHANGED <<timerQ, left>>
        /\ halt' = ~Linked(list, run)
     \/ /\ n \in Timeouts
        /\ status' = [status EXCEPT ![run] = (@ \ {"READY"}) \cup {Kind(o), "TIMEOUT"}]
        /\ timerQ' = AddTimer(timerQ, run, n) /\ left' = [left EXCEPT ![run] = n]
        /\ halt' = (~Linked(list, run) \/ run \in ToSet(timerQ))
  /\ pc' = [pc EXCEPT ![run] = "wait"]
  /\ UNCHANGED <<cpuVars, newborn, slice, scan>>

Pend(o, n, i) == Block(list, o, n, i) /\ UNCHANGED prio

Woken_BugFlag(t, o) == status[t] \ {Kind(o)}

\* The flags of t when the object o it waits for wakes it; READY is not among them.
Woken(t, o) == status[t] \ {Kind(o), "TIMEOUT"}

\* The first task of o's list is woken; L are the lists before.
Hand(L, c, o) ==
  /\ list[o] # <<>>
  /\ LET t == Head(list[o])
         M == Unlink(L, t)
     IN /\ \/ /\ "TIMEOUT" \in status[t]
              /\ timerQ' = DelTimer(timerQ, t) /\ left' = [left EXCEPT ![t] = 0]
              /\ halt' = (t \notin ToSet(timerQ))
           \/ /\ "TIMEOUT" \notin status[t] /\ UNCHANGED <<timerQ, left, halt>>
        /\ IF "SUSPEND" \in status[t]
           THEN /\ status' = [status EXCEPT ![t] = Woken(t, o)]
                /\ list' = M
           ELSE /\ status' = [status EXCEPT ![t] = Woken(t, o) \cup {"READY"}]
                /\ list' = AddTail(M, prio[t], t)
  /\ Schedule(c)
  /\ UNCHANGED <<run, lock, started, zombie, newborn, slice, scan>>

Release(L, c, o) == MayCall(c, "Wake") /\ Hand(L, c, o)

Wake(c, o) == Release(list, c, o) /\ UNCHANGED prio

\* A task woken from a queue wakes, in the rest of its call, one that waits on the
\* other side of it.
PassOn(o) ==
  /\ o \in QueueObj /\ TaskRuns("woken") /\ "TIMEOUT" \notin status[run]
  /\ Hand(list, "task", o) /\ UNCHANGED prio

\* Running again, the task reads in TIMEOUT why it was woken, and clears it.
WaitReturn ==
  /\ TaskRuns("woken")
  /\ status' = [status EXCEPT ![run] = @ \ {"TIMEOUT"}]
  /\ pc' = [pc EXCEPT ![run] = "user"]
  /\ UNCHANGED <<prio, list, timerQ, left, cpuVars, newborn, slice, scan, halt>>
-----------------------------------------------------------------------------
(* Switching.                                                               *)

AfterSchedule == [sched |-> "user", wait |-> "woken", exit |-> "dead"]

\* LOS_Schedule in the running task, when its window closes.
TaskSchedule(from) ==
  /\ TaskRuns(from)
  /\ new' = Top(list)
  /\ pendsv' = (run # new' /\ lock = 0)
  /\ pc' = [pc EXCEPT ![run] = AfterSchedule[from]]
  /\ UNCHANGED <<taskVars, run, lock, started, zombie, newborn, slice, scan, halt>>

\* osSchedule, unconditional, after LOS_TaskCreate and after a self-delete.
TaskSwitch ==
  /\ \/ TaskRuns("switch") /\ pc' = [pc EXCEPT ![run] = "user"]
     \/ /\ started /\ run = Dummy /\ ~pendsv /\ ~halt /\ scan.at = "idle"
        /\ UNCHANGED pc
  /\ pendsv' = TRUE
  /\ UNCHANGED <<taskVars, run, new, lock, started, zombie, newborn, slice, scan, halt>>

PendSV ==
  /\ pendsv /\ ~halt /\ scan.at = "idle"
  /\ pendsv' = FALSE /\ run' = new
  /\ UNCHANGED <<taskVars, new, lock, started, zombie, pc, newborn, slice, scan, halt>>
-----------------------------------------------------------------------------
(* The tick interrupt: osTimesliceCheck, then osTaskScan, which runs with   *)
(* interrupts enabled and handles one expired task after the other.         *)

SliceLeft_BugSign == IF slice.task = run THEN slice.left - 1 ELSE Slice + 1

\* The slice of the running task after this tick; 0 means it is used up.
SliceLeft == IF slice.task = run THEN slice.left - 1 ELSE Slice - 1

TickBegin ==
  /\ started /\ ~halt /\ scan.at = "idle"
  /\ Countdown
  /\ scan' = [Idling EXCEPT !.at = "next"]

Tick ==
  /\ TickBegin
  /\ \/ /\ Slice = 0 /\ UNCHANGED slice
     \/ /\ Slice > 0 /\ SliceLeft > 0
        /\ slice' = [task |-> run, left |-> SliceLeft]
  /\ NoSchedule
  /\ UNCHANGED <<status, prio, list, timerQ, run, lock, started, zombie, newborn, halt>>

\* The slice is used up: LOS_TaskYield on behalf of the running task.  Dummy has a
\* priority without a list: LOS_PriqueueSize reads past the array, and what it counts
\* there decides whether the null links of Dummy are followed.
TickYield ==
  /\ TickBegin
  /\ Slice > 0 /\ SliceLeft = 0
  /\ slice' = [task |-> Null, left |-> 0]
  /\ \/ run \in Task /\ Rotate /\ Schedule("isr")
     \/ /\ run \in Task /\ Len(list[prio[run]]) <= 1
        /\ UNCHANGED <<status, list, halt>> /\ NoSchedule
     \/ run = Dummy /\ halt' \in BOOLEAN /\ UNCHANGED <<status, list>> /\ NoSchedule
  /\ UNCHANGED <<prio, timerQ, run, lock, started, zombie, newborn>>

\* The loop reads the first entry of the delay list and its status.
ScanNext ==
  /\ scan.at = "next" /\ ~halt
  /\ timerQ # <<>> /\ left[Head(timerQ)] = 0
  /\ scan' = [scan EXCEPT !.at = "expire", !.task = Head(timerQ),
                          !.was = status[Head(timerQ)]]
  /\ UNCHANGED <<taskVars, cpuVars, pc, newborn, slice, halt>>

\* The task leaves the delay list and the object it waits for; TIMEOUT stays set.
ScanExpire ==
  /\ scan.at = "expire" /\ ~halt
  /\ LET t == scan.task
         waits == scan.was \cap {"PEND", "PEND_QUEUE"} # {}
         done == IF "PEND" \in scan.was THEN "PEND"
                 ELSE IF "PEND_QUEUE" \in scan.was THEN "PEND_QUEUE" ELSE "DELAY"
         L == IF waits THEN Unlink(list, t) ELSE list
         awake == "SUSPEND" \notin scan.was
     IN /\ timerQ' = DelTimer(timerQ, t)
        /\ status' = [status EXCEPT ![t] =
                        (@ \ {done}) \cup (IF awake THEN {"READY"} ELSE {})]
        /\ list' = IF awake THEN AddTail(L, prio[t], t) ELSE L
        /\ halt' = \/ t \notin ToSet(timerQ)
                   \/ waits /\ ~Linked(list, t)
                   \/ awake /\ Linked(L, t)
        /\ scan' = [Idling EXCEPT !.at = "next", !.need = scan.need \/ awake]
  /\ UNCHANGED <<prio, left, cpuVars, pc, newborn, slice>>

ScanEnd_BugFirst ==
  /\ scan.at = "next" /\ ~halt
  /\ scan' = Idling
  /\ UNCHANGED <<taskVars, run, lock, started, zombie, newborn, slice, halt>>
  /\ \/ scan.need /\ Schedule("isr")
     \/ ~scan.need /\ NoSchedule

ScanEnd ==
  /\ scan.at = "next" /\ ~halt
  /\ timerQ # <<>> => left[Head(timerQ)] > 0
  /\ scan' = Idling
  /\ UNCHANGED <<taskVars, run, lock, started, zombie, newborn, slice, halt>>
  /\ \/ scan.need /\ Schedule("isr")
     \/ ~scan.need /\ NoSchedule
-----------------------------------------------------------------------------
CreateStep ==
  \/ TaskCreateTake \/ TaskCreateNoMemory \/ TaskCreateReady
  \/ \E p \in AppPrio, flags \in Attr :
       \/ TaskCreateFill(p, flags)
       \/ \E c \in Context, t \in Task :
            LOS_TaskCreateOnly(c, t, p, flags) \/ LOS_TaskCreate(c, t, p, flags)
  \/ \E c \in Context : CreateNothing(c)

ControlStep ==
  \/ \E c \in Context, t \in Task :
       \/ LOS_TaskResume(c, t) \/ LOS_TaskSuspend(c, t) \/ LOS_TaskDelete(c, t)
       \/ \E p \in AppPrio : LOS_TaskPriSet(c, t, p)
  \/ TaskEntryDetached \/ TaskEntryJoinable
  \/ TaskEntryFinish \/ TaskEntryUnlock \/ osTaskExit
  \/ \E n \in Timeouts : LOS_TaskDelay(n)
  \/ LOS_TaskYield \/ LOS_TaskLock \/ LOS_TaskUnlock

WaitStep ==
  \/ \E o \in Obj, n \in Timeouts \cup {Forever} :
       \E i \in 1..Len(Unlink(list, run)[o]) + 1 : Pend(o, n, i)
  \/ \E o \in Obj : PassOn(o) \/ \E c \in Context : Wake(c, o)
  \/ WaitReturn

SwitchStep == (\E from \in {"sched", "wait", "exit"} : TaskSchedule(from)) \/ TaskSwitch \/ PendSV
TickStep == Tick \/ TickYield \/ ScanNext \/ ScanExpire \/ ScanEnd

\* Everything but the blocking and the wake-up, which the modules of objects refine.
KernelStep == LOS_Start \/ CreateStep \/ ControlStep \/ WaitReturn \/ SwitchStep \/ TickStep

Next == LOS_Start \/ CreateStep \/ ControlStep \/ WaitStep \/ SwitchStep \/ TickStep

Spec == Init /\ [][Next]_vars

\* The code that a task of the kernel's own, or the kernel on behalf of one, executes.
KernelCode ==
  \/ TaskCreateNoMemory \/ (\E p \in AppPrio, flags \in Attr : TaskCreateFill(p, flags))
  \/ TaskCreateReady \/ TaskEntryFinish \/ TaskEntryUnlock \/ WaitReturn \/ SwitchStep

\* SysTick keeps ticking, and between two ticks the processor gets to execute the kernel
\* code it is in (strong fairness: each interrupt disables that code, and enables it
\* again).  When a task makes its next call is its own business.
Fairness == WF_vars(LOS_Start) /\ SF_vars(KernelCode) /\ WF_vars(TickStep)

FairSpec == Spec /\ Fairness
-----------------------------------------------------------------------------
(* Properties.                                                              *)

Single(L) ==
  /\ \A h \in Head_ : IsInjective(L[h])
  /\ \A h, g \in Head_, t \in Task : t \in ToSet(L[h]) /\ t \in ToSet(L[g]) => h = g

\* What a creation has taken and not filled in yet, by whom.
InCreation(t) == {u \in Task : pc[u] = "alloc" /\ newborn[u] = t}

\* Every control block is on at most one list and there once; the ready tasks are
\* exactly those on the list of their priority; Idle is always ready.  No unused block is
\* lost: it can be created again, or one creation, which nobody else sees, has it; unless
\* the creator is deleted before it fills the block in or gives it back.  Without time
\* slices this holds as long as the kernel has not followed a null link.
ListsConsistent ==
  ~halt =>
    /\ Single(list)
    /\ \A t \in Task :
         /\ "READY" \in status[t] <=> \E p \in Prio : t \in ToSet(list[p])
         /\ "READY" \in status[t] => t \in ToSet(list[prio[t]])
         /\ t \in ToSet(list[Free]) \cup ToSet(list[Recycle]) => "UNUSED" \in status[t]
         /\ InCreation(t) # {} => status[t] = {"UNUSED"} /\ ~Linked(list, t)
         /\ \A u, v \in InCreation(t) : u = v
         /\ "UNUSED" \in status[t] =>
              \/ t \in ToSet(list[Free]) \cup ToSet(list[Recycle])
              \/ InCreation(t) # {}
              \/ "DeleteCreator" \in Permits /\ ~Linked(list, t)
    /\ "READY" \in status[Idle]

\* Without time slices, a task waits for an object exactly when its flags say so, and is
\* on the delay list exactly when it is delayed or its wait has a limit: so whoever wakes
\* or deletes it finds it where it looks.
WaitConsistent ==
  ~halt =>
    \A t \in Task :
      /\ Waiting(t) # {} <=> \E o \in Obj : t \in ToSet(list[o])
      /\ t \in ToSet(timerQ) <=>
           "DELAY" \in status[t] \/ ("TIMEOUT" \in status[t] /\ Waiting(t) # {})
      /\ Waiting(t) # {} => "READY" \notin status[t]

\* A task that executes its own code with the scheduler unlocked is the first of the most
\* urgent ready tasks: no call and no interrupt ends without the switch it owes.
RunsHighest == TaskRuns("user") /\ lock = 0 => run = Top(list)

\* A task that a delay or a wait blocked is not on a ready list.
BlockedNotReady ==
  ~halt => \A t \in Task :
             status[t] \cap {"DELAY", "PEND", "PEND_QUEUE"} # {} => "READY" \notin status[t]

\* While the scheduler is locked no other task takes the processor.
NoSwitchWhileLocked == [][run' # run /\ run' # Dummy /\ started => lock = 0]_vars

\* The task switched to is ready at that moment.
SwitchesToReady == [][run' # run /\ run' # Dummy => "READY" \in status[run']]_vars

\* While the context of a self-deleted task carries on under Dummy, its stack has not
\* been given back to the heap.
StackInUse == run = Dummy /\ started => zombie \in ToSet(list[Recycle])

\* The kernel follows no null link and does not hang with interrupts off.
NoCrash == ~halt

\* The kernel uses the delay list as its rules ask: no task is put on it twice or taken
\* off when it is not there, and all who expired at one tick, and no others, leave it
\* before the next.
KeepsDelayList == TimerInit /\ [][~halt' => TimerNext]_timerVars

\* Every delay and every wait with a limit ends, whatever happens to the task meanwhile.
DelayEnds == []~halt => \A t \in Task : t \in ToSet(timerQ) ~> t \notin ToSet(timerQ)

\* Tasks of the most urgent priority that stay ready take turns, unless one of them keeps
\* the scheduler locked: each runs again and again when the others only compute.
Rotation ==
  []~halt /\ []<>(lock = 0) => \A t \in Task :
    <>[](\A q \in Prio : q < prio[t] => list[q] = <<>>) =>
    (<>[]("READY" \in status[t]) => []<>(run = t))
=============================================================================
