# TLA+ models of the LiteOS kernel (Cortex-M0 port)

This directory holds the specification of the kernel under `src/kernel`: TLA+
modules that model its scheduler and its objects, TLC configurations that check
them on small instances, and TLAPS proofs for every value of the constants.
Line numbers below refer to `src/kernel/base/core/los_task.c` unless another
file is named.

## 1. The system

LiteOS is a preemptive kernel for one processor. Tasks call it; interrupt
handlers call it too. All of its data is protected by switching interrupts off
(`LOS_IntLock` .. `LOS_IntRestore`), so the unit of concurrency is the critical
section, and what is hard lies between two of them.

| component | state | operations | interacts with |
|---|---|---|---|
| Task scheduler (`los_task.c`, `los_priqueue.c`) | control blocks (status flags, priority, two list nodes), ready lists, free and recycle lists, `g_stLosTask` (running, next), scheduler lock | create, resume, suspend, delete, end, delay, yield, set priority, lock, unlock | calls `LOS_Schedule`; shares the node `stPendList` with every object, `stTimerList` with the tick |
| Context switch (`cortex-m0/los_hw.c`, `los_dispatch_cortexm0.s`) | PendSV pending | start, `LOS_Schedule`, `osSchedule`, PendSV handler | reads what the scheduler chose, in an interrupt of the lowest priority |
| Tick (`los_tick.c`, `los_timeslice.c`, `osTaskScan`) | the slice in use, the delay list | round robin, expiry of delays and waits | takes tasks off objects, readies them, calls yield on behalf of the running task |
| Delay list (`osTaskAdd2TimerList`, `osTimerListDelete`, `osTaskScan`) | a wheel of 32 lists, cursor, roll counts | put on, take off, advance | used by delay and by every wait with a limit |
| Semaphores, mutexes, queues, events (`base/ipc`) | counts, owner, nodes, bits; list of waiters | create, delete, pend/read, post/write | block the caller and wake waiters through the task's nodes and flags |
| Software timers (`los_swtmr.c`) | timers, sorted list, queue of expiries | create, start, stop, delete, handler task | tick, queue |
| Heap, membox (`base/mem`) | chain of nodes, free lists | allocate, free, reallocate | stacks of tasks, objects |
| CMSIS-RTOS (`kernel/cmsis`) | wrappers | | every kernel call |

What makes it hard:

* *The window.* A call that blocks takes the caller off its ready list, lets
  interrupts in again and only then calls `LOS_Schedule`. In between, the tick
  and handlers act on a task that is blocked and running.
* *Two lists and eight flags* say what a task does. Every wake-up, expiry,
  suspend, resume and delete decides by flags which list the task is on; a
  wrong decision follows null links, because `LOS_ListDelete` clears them.
* *A switch that is pending* leads to a task chosen earlier; everything that
  happens before PendSV runs must keep that choice good.
* *A task that deletes itself* goes on executing on its own stack.
* *A wait that ends twice at once*: its limit expires while a post arrives.
* *A mutex* passes to a task that does not run yet, and moves priorities.
* *A queue* gives a woken task a node that no count shows, until it runs; a
  woken reader or writer wakes the next one itself.
* *A write to an event* wakes several tasks at once; each looks at the bits
  again when it runs, after others may have cleared them.
* *A timer* passes from the tick through a pool and a queue to a task; meanwhile
  it may be stopped, started again, deleted and created anew.
* *Nodes of the heap* change their size while they are on the list of a size.

The property that makes each component correct:

* scheduler: every control block is on exactly the list its flags name; the
  most urgent ready task executes; no switch while locked; no null link;
* tick: every delay and limited wait ends; ready tasks of one priority take
  turns; delay list: a task leaves it at its tick, no other task's time changes;
* semaphore: a pend returns success exactly when a unit was handed over, no
  unit lies idle while a task waits, waiters are served in order;
* mutex: success means ownership, waiters have an owner, boosts end;
* queue: each message is delivered once and in order; counts plus the nodes of
  woken tasks are the length; nobody waits beside a message, node or block;
* event: nobody waits for bits that are there, a woken reader finds them unless
  somebody cleared them;
* timers: each expires at its tick, whatever the others do; an expiry that is
  queued is handled; the lists and the states of the timers agree;
* heap: nodes tile the pool, no two blocks overlap, no free node has a free
  neighbour, a request is refused only if nothing is large enough, a block that
  is reallocated keeps its content; membox: a block is in one place.

## 2. Modules

    DelayList <-- TimerWheel --- Deltas
        |                          |
       Task                        |
        |-- Semaphore              |
        |-- Mutex                  |
        |-- Event                  |
        |-- Queue (with Membox)    |   implements Fifo
              |-- SwTimer ---------+   implements DelayList
       Heap
    MC...: instances for TLC

    SeqLemmas <-- Task_proofs <-- SemEvent_proofs, Mutex_proofs,
        |                         Queue_proofs <-- SwTimer_proofs
    Heap_proofs, TimerWheel_proofs

A module of proofs extends the module it is about and the proofs it builds on.

**DelayList** is the abstract delay list: `timerQ` in the order of expiry,
`left` ticks for each. `TimerSpec` is its promise. Task *extends* it: the
scheduler uses the operators `AddTimer`, `DelTimer`, `Countdown`, and the
property `KeepsDelayList` says that every step of Task is a step of `TimerSpec`.

**Deltas** has the lists of differences the kernel keeps: each entry counts what
it waits longer than the one before it. A list of the wheel is one and the list
of software timers is another, so their insertions and removals are written, and
proved about, once; in the code they are separate loops.

**TimerWheel** is the structure that implements DelayList: lists, cursor, relative
roll counts with the modulo arithmetic of the code. `SlotCount` and `RollSpan`
are the 2^5 lists and 2^27 values of a roll count. `InOrder` and `TicksLeft`
map it to DelayList; `ImplementsDelayList` is checked and proved as a refinement. The two
together let Task be checked with the short list and hold for the wheel. That
the wheel needs no task put on it while the tick scans is `~scanning` in `Add`;
Task satisfies it, because the tick interrupt keeps tasks from running.

**Task** has one action per critical section. Its variables are the fields and
globals of the code, named in the module. Some correspondences:

* `status[t]` is `usTaskStatus` as a set; `OS_TASK_STATUS_RUNNING` is `t = run`.
* `list` holds every list linked through `stPendList`: a ready list per
  priority, the free and the recycle list and one list per object. The node is
  one, so putting a task on a list means it was on none; `halt` becomes true
  when an action unlinks a node whose links are null, or links one that is in
  use, and ends the model there. `halt` is the crash.
* `pc[t]` is where a task stands in a call: `"sched"` and `"wait"` are the
  window before `LOS_Schedule`, `"woken"` after a wait, `"finish"`, `"unlock"`,
  `"exit"` and `"dead"` in the end of `osTaskEntry`. A creation by a task is in
  parts: `TaskCreateTake` takes a control block off the free list (491-508);
  in `"alloc"` its stack is allocated with interrupts enabled, the block on no
  list, its status UNUSED, and `newborn` says whose creation it is (508-532);
  then either `TaskCreateNoMemory` puts it back in a second critical section
  (513-518) or `TaskCreateFill` makes it a suspended task; in `"create"`
  `LOS_TaskCreate` has yet to ready it, in one more (570). The creator can be
  preempted, suspended or deleted in both places, and others create meanwhile.
* `Context` is who calls: `"main"` before `LOS_Start`, `"task"`, `"isr"`. A
  handler interrupts a task at every state, also within a creation; tasks and
  the tick stand still until it returns, so its own call, a creation included,
  is one step and needs no program counter.
* `scan` is the local state of `osTaskScan`: the tick runs with interrupts
  enabled, and one action is one pass of its loop up to the point where the
  task and its status have been read (`ScanNext`) and one up to the next
  (`ScanExpire`).
* `run = Dummy` and `zombie` are a self-deleted task: `g_stLosTask.pstRunTask`
  points at the last control block, with the ID of the task that is gone.
* `Calls`, `IsrCalls` choose which calls an instance makes, `Attr` the
  attributes tasks are created with; `Permits` allows four situations that the
  code does not exclude, see section 5. Three lead to a crash or a hang:
  handlers that nest in the tick, deletion of a task whose wait has just
  expired, resumption of a joinable task that returned. The fourth, deletion of
  a task while it creates another, loses a control block.

A call that returns an error changes nothing and is no action.

**Pend/Wake, Block/Release, PassOn.** `LOS_SemPend`, `LOS_MuxPend`,
`LOS_EventRead` and `osQueuePend` repeat the same text for blocking, and the
posts the same text for waking. Task has it once: `Block(L, o, n, i)` and
`Release(L, c, o)` work on the lists `L` (the mutex changes lists first), `Pend`
and `Wake` are these on `list`, and `PassOn(o)` is the waking that a task of a
queue does in the rest of a call that blocked. Each module conjoins them with
its own state; `KernelStep` is every other step of Task, and leaves their state
alone.

**Semaphore** adds handles, counts and the history `handed`: a post has given a
unit to this waiter. **Mutex** adds owner, count, saved priority and the
histories `got` (what each task was told) and `base` (the priority the
application gave). `LastFirst` makes tasks release in the reverse order of
taking.

**Queue** adds the ring with its counts, and `asks`, the locals of a call that
blocked. Whoever wakes a waiter leaves the count of its side alone: the node
belongs to the waiter (`Granted`, `Claims`). `ReadTake`, `ReadBlock` and
`ReadReturn` are the three courses of `LOS_QueueRead`, and likewise for writes
and mails. Messages are the blocks of the pool, as in a mail queue, so that one
lost or doubled shows; `held` is the history of what the application has. The
code leaves its copy in a node it has read; here the node is emptied.

**Fifo** is what a queue promises: a bounded sequence of messages. In the
refinement `items` is what is in the ring for those who will read and those
woken to read.

**Membox** is the pool of blocks with its free list and magic words, used by
Queue and SwTimer.

**Event** adds bits and, per task, what it waits for (`wants`). `WakeAll` is
`Wake` for several tasks in one critical section. `robbed` is a history: a bit
a woken task waited for was cleared before it ran.

**SwTimer** extends Queue with the sorted list of timers, their relative counts,
IDs and states. `TimerTick` is `osSwtmrScan`, cut where it enables interrupts or
calls another component, `ServeStep` the loop of `osSwTmrTask`, `CallStep` a call by
a handler, a task or a handler of a timer. Its list implements DelayList once
more (`Alarms`), with a restart as the one step more.

**Heap** is a function from addresses to headers (size, used, node before) and a
list per size class. One action is one call; the operators between take the pool
as a record and return it changed, as the functions of the code do. Addresses
and sizes are in words of `OS_MEM_ALIGN_SIZE`.

Definitions named `X_Bug..` are plausible mistakes in `X`. No action uses them;
each shows that a property notices the mistake when it replaces `X`.

## 3. What TLC checks

| run | instance | states | shows |
|---|---|---|---|
| `task_sched` | 2 tasks and Idle, 3 priorities, 1 object, limits of 1 and 2 ticks, every call in tasks, wake and resume in handlers | 364 k | `ListsConsistent`, `WaitConsistent`, `RunsHighest`, `StackInUse`, `NoCrash`, `NoSwitchWhileLocked`, `SwitchesToReady`, `KeepsDelayList` |
| `task_wide` | create, resume, suspend, delete and wake in handlers, nested in the tick and within the creations of a task, with all `Permits` | 673 k | `ListsConsistent` up to the first crash |
| `task_turns` | 2 tasks of one priority with time slices that delay, wait, end, are suspended and resumed, lock the scheduler; fairness | 85 k | `TypeOK`, `Rotation`, `DelayEnds` |
| `timer_wheel` | 3 tasks, wheel of 4, limits 1, 4, 5, 8, 15, 4 values of the roll count | 49 k | `TypeOK` (no roll count wraps), `ImplementsDelayList` |
| `semaphore` | 3 tasks, 1 semaphore, counts up to 2, suspended waiters, post and delete in handlers | 250 k | `SemTypeOK`, `ResultHonest`, `NoIdleUnit`, `EveryWaiterServed` |
| `mutex` | 2 tasks, 2 mutexes, 2 nested takes, limits | 33 k | `OwnersKnow`, `WaitersHaveOwner`, `BoostEnds` |
| `queue` | 2 tasks of equal or different priority, a queue of 2 nodes with a pool of 3 blocks, limits, reads, writes and mails in tasks and handlers, delete | 657 k | `NodesCounted`, `NoIdleNode`, `WokenFindsQueue`, `BlocksOnce`, `ImplementsFifo` |
| `event` | 2 tasks, 2 bits, every mode, suspend, delete; write and clear in tasks and handlers | 647 k | `NoMissedEvent`, `WokenFindsBits`, `WaitConsistent` |
| `swtimer` | 2 timers (once after 2 ticks, every tick), IDs up to 4, the timer task, its queue and pool; calls in handlers of interrupts and of timers; fairness | 157 k | `TimersConsistent`, `PoolCoversQueue`, `IdsNameBlocks`, `ImplementsTimers`, `HandlerFollows` |
| `heap` | a pool of 35 words with up to 6 nodes, 5 sizes, boundaries 2 and 4 | 211 k | `PoolTiled`, `FreeListed`, `RefusedOnlyIfFull`, `BlocksApart`, `DataKept` |
| `mutex_v_inherit`, `heap_v_realloc` | | | disagreements of code and documentation, section 5 |

What the properties say stands above each of them in its module.

*Bounds, and why they are enough.* Two tasks beside Idle show every pair of
actors that meet on a node: running and waiting, waker and waiter, creator and
created, owner and waiter. A creation by a task meets others by handlers, in
`task_wide`; that two tasks are in the middle of one takes four control blocks,
and is left to the proof of `ListsHold`. Three tasks are taken where order
among waiting ones matters: at the semaphore, and on the wheel, where an
insertion or removal concerns the entry before and the entry behind. Two
priorities of the application above Idle give every relation of two tasks. A
limit of one tick expires in the window of the caller, one of two ticks after
it; two put the entries of the delay list in either order. On the wheel the
waits are a part of a turn, one and two whole turns (the boundary of the roll
count), one more than a turn, and the longest that the roll bits carry.
`MaxLock` and `MaxNest` bound nesting: deeper nesting repeats the same steps. A
count of two has both boundaries and a value that is neither.

The queue has a node less than the pool has blocks, so that it is full while a
writer still has a message, and its head and tail wrap. Two bits are what it
takes for one and all to differ. Two timers are neighbours on their list in
either order; with two IDs per block a one-shot timer that expires twice wraps
its ID. The pool of the heap has room for a free node between used ones on both
sides, for a list with two nodes, and for nodes in every class; among the sizes
are those that leave exactly a header behind a cut and one word more.

*Deadlock* is checked, except in `task_wide`, which really stops after a halt,
and in `task_turns`, where a slice that ends under Dummy may halt.

*Fairness.* `FairSpec` (`task_turns`): the tick interrupt comes again and again
and runs to its end (`WF` on `TickStep`); the kernel code a task or PendSV is in
gets the processor between interrupts (`SF` on `KernelCode`: each interrupt
disables it for a while, and by the interrupt load a system is dimensioned for
it goes on after it). `SwTimerFairSpec` says the same with the tick of the
timers and the loop of the timer task, and that handlers of timers return. That
a task ever makes its next call is not assumed, nor that it unlocks the
scheduler: `Rotation` and `HandlerFollows` have it as their premise that the
scheduler is unlocked again and again. `EveryWaiterServed` needs no fairness: it
is about the order in which waiters are served, if posts keep coming.

## 4. What is proved

TLAPS checks these for any number of tasks, priorities, objects and waits. Where
a theorem needs more than the assumptions on the constants, it says so as a
hypothesis, and each hypothesis below excludes something that breaks the
property in the code.

| theorem | states | without |
|---|---|---|
| `TypeCorrect`, `NoSwitchLocked` | `TypeOK`, `NoSwitchWhileLocked` | |
| `DelayListKept` | `KeepsDelayList` | |
| `ListsHold`, `WaitsHold` | `ListsConsistent`, `WaitConsistent` | slices |
| `RunsHighestHolds`, `SwitchesReady` | `RunsHighest`, `SwitchesToReady` | slices, suspension by handlers |
| `NeverCrashes` | `NoCrash` | and `Permits` |
| `StackStays` | `StackInUse` | and creation by handlers |
| `WheelTypes`, `WheelImplements` | `TypeOK` of TimerWheel, `ImplementsDelayList` | |
| `SemImplementsTask`, `SemTypeCorrect`, `UnitsReachWaiters` | `Spec`, `SemTypeOK`, `NoIdleUnit` | |
| `PendIsHonest` | `ResultHonest` | slices |
| `QueueImplementsTask`, `NodesReachWaiters` | `Spec`, `NodesFound` | |
| `BlocksReachWaiters` | `NoIdleNode` | a second queue on the pool |
| `NodesAccounted` | `NodesCounted`, `WokenFindsQueue` until a crash | slices, deletion of tasks |
| `EveryNodeCounted` | the same for ever | and what `NeverCrashes` excludes |
| `BlocksHeldOnce`, `QueueIsFifo` | `BlocksOnce`, `ImplementsFifo` | as `EveryNodeCounted` |
| `OwnersExist` | `WaitersHaveOwner` | |
| `OwnershipKnown` | `OwnersKnow` | slices, deletion of tasks |
| `BoostsEnd` | `BoostEnds` | and the end of tasks, `LOS_TaskPriSet`, release out of order |
| `NoEventMissed`, `WokenFind`, `EventWaitsHold` | `NoMissedEvent`, `WokenFindsBits`, `WaitConsistent` | slices |
| `TimersHold`, `IdsHold`, `TimersImplement` | `TimersConsistent`, `IdsNameBlocks`, `ImplementsTimers` | |
| `TimersImplementTask` | `Spec` | |
| `PoolCovers` | `PoolCoversQueue` | as `EveryNodeCounted` |
| `PoolIsTiled`, `FreeIsListed`, `RefusalMeansFull`, `BlocksAreApart` | the properties of Heap | |
| `DataIsKept` | `DataKept` | reallocation of aligned blocks |

*Why the hypotheses.* A time slice (`Slice # 0`) that ends in the window of a
call that blocks yields on behalf of the caller, which is on an object or on no
list (section 5). A handler that suspends a task does not reconsider a switch
that is pending (section 5), so the choice goes stale and a task runs that is
not ready. `Permits` are the situations of section 5 that follow null links. A
handler that creates a task empties the recycle list, on which a task that
deleted itself may still stand. A task that was woken from a queue and is
deleted before it runs takes its node, or the block that was left for it, with
it (`los_queue.c:154`). A task that is deleted while it owns a mutex stays its
owner (`los_mux.c:202`); the guide forbids `LOS_TaskPriSet` on an owner. Mutexes released in another
order than the reverse restore the priorities in that order.

The arguments, module by module:

* `Task_proofs`: `TypeOK` is not inductive: `new \in Task` holds only because
  `Top` always finds a task, because Idle is always ready. The invariant is
  `TypeInv == TypeOK /\ IdleInv /\ LocalInv /\ LockInv`. `IdleInv`: Idle is on
  the ready list of the lowest priority, on no other list and off the delay
  list; no call concerns it. `LocalInv`: the locals of an interrupted call are
  set. `LockInv`: a switch is pending, or Dummy runs, only with the scheduler
  unlocked, and a task that ends stands where the lock has the value it expects;
  without it `lock - 1` of `TaskEntryUnlock` could leave the range.
  `NoSwitchWhileLocked` follows, because PendSV is the only step that lets
  another task run and pending means unlocked.
* Its second part, `DelayInv`, says that the delay list holds nobody twice and is
  in the order of the ticks left, that nobody stays on it at zero between two
  ticks, and that the task which the scan read before it enabled interrupts is
  still the first or has left the list. The order makes it enough that
  `osTaskScan` stops at the first task that has not expired, which is what
  `KeepsDelayList` asks of a countdown. It needs nothing of the flags, only that
  no null link was followed.
* Its third part is about the lists: the kernel never looks a task up, it
  believes the flags. `ListInv` has four parts. `TasksFit`: for each task, its flags, its
  priority, the lists that link it, the delay list and the place in its call fit
  (`Fits`). `CpuFits`: a running task that is blocked stands before
  `LOS_Schedule` or has the switch away from it pending, with the scheduler
  unlocked, and no other task that is blocked is chosen to run. `NewbornFits`: a
  control block that a creation has taken is on no list, neither running nor
  chosen, and in no other creation; it is UNUSED until it is filled in and
  suspended after that. `TasksFit` takes account of the unused blocks with it: each is
  on the free or the recycle list or in such a creation (it is not `Grown`), unless
  `Permits` has `"DeleteCreator"`. So what `ListsHold` says of the window 508-532
  holds for any number of creations at once, with handlers that create, delete
  and suspend in it.
  `ScanFits`: what the scan read is still so, or the task has left the delay
  list. `ListsConsistent` and `WaitConsistent` are consequences of `TasksFit`.
  `CallInv` adds that a task in a call that blocks is not deleted. On top of the
  three, `Carries` tells what any other step does to a call that blocked:
  nothing, or it ends a wait that had a limit and leaves `TIMEOUT` set.
* Its last part: `ChoiceInv` says when `pstNewTask` is the task that
  `LOS_PriqueueTop` would return now: while a switch is pending, and whenever
  nobody owes a `LOS_Schedule` (the tick between its scan and the end, a task in
  the window of its call). `RunsHighest` and `SwitchesToReady` follow from it.
  `NoCrash` needs that no step unlinks what is on no list, which `ListInv`
  gives once it is known that a running task is ready but in the window in which
  it blocks, and that a task that returned is not made ready again (`ReadyInv`).
  For `StackInUse`, only creation takes a task off the recycle
  list, because every other step unlinks tasks that are in use.
* `SemEvent_proofs`, semaphores: every semaphore call is a step of the scheduler or leaves
  it alone, so every theorem about Task holds. `UnitsReachWaiters` is inductive
  together with `TypeInv`: the lemma `OnlyPendAdds` shows that no step of the
  scheduler but `Pend` puts a task on the list of an object, action by action.
  `PendIsHonest` rests on `Honest`: a task that waits was handed no unit, and one
  that waits no more has `TIMEOUT` exactly if it was handed none. A post hands
  over in the critical section in which it clears `TIMEOUT`, an expiry leaves it
  set, and `Carries` covers all else, so it does not matter which comes first.
* `Queue_proofs`: the same with `PassOn` and the place that `osQueuePend` looks
  for. `NodesReachWaiters` holds for any number of queues, and
  `BlocksReachWaiters` if the pool serves one queue, which is how mail queues
  and the software timers use it; a block freed to one queue does not reach a
  task that waits for it at another. The invariants are `NodesFound` and
  `BlocksFound` with `TypeInv`; of the counts it is enough that they are naturals.
  `NodesAccounted` counts: a step of a queue adds one to one of four numbers,
  readable and writable nodes and the woken readers and writers, and takes one
  from another. `ClaimsGain` and `ClaimsLose` do the arithmetic of the sets of
  woken tasks, `AsksFit` says that a task on the list of a queue is in the call
  that list is for, which is why a wake makes an owner of the right side, and
  `GrantKept` that no step of the scheduler makes or unmakes an owner.
  `QueueIsFifo` needs this account, because a ring holds the messages to be
  read and those of woken readers, and only together do these two numbers tell
  which nodes are full. The invariant `Messages` has three parts. `RingFit`: the
  tail is that many nodes behind the head, and those nodes and no others are
  full; `HeadLeaves` and `TailJoins` are the arithmetic of the ring for a step
  of either end. `MailFit`: a writer that waits has its message in its call, and
  exactly a task that was woken for a block has one left for it. `Once`: each
  block is in one place, a node, a call, the pool or the application. `StepMoves`
  sorts the steps: a queue is opened or dropped, a message is taken or put, or a
  block moves outside the rings, and each of these is a step of Fifo or none.
  A write is a `Put` only because the message is nowhere else, which is what
  `Once` is for; `BlocksHeldOnce` is a consequence of it.
* `Mutex_proofs`: a call that moves the priority of an owner is no step of Task.
  It is a step of `Block` or `Release` on lists in which one task has been moved
  (`Starts`), and the lemmas of `Task_proofs` are stated for such lists, so the invariants of the scheduler hold with mutexes too
  (`MuxKernel`). `OwnersExist` needs beside types only that nothing but a
  blocking call puts a task on the list of an object. For `OwnershipKnown`,
  `Knows` says of each task which mutexes it owns: those it was told of, and
  inside `LOS_MuxPend` the one it wants as soon as it does not wait and its
  limit has not expired; that a release and an expiry do not both reach a
  waiter is again what `Carries` is for. `BoostsEnd`: the *first* mutex a task
  took remembers the priority the application gave it (`Restored`); the later
  ones may remember a boost. A release gives back what is saved with the mutex
  released, so the last one, which is the first taken, restores it.
* `SemEvent_proofs`, events: `WakeAll` picks the waiters with a recursive function. `Keeps`
  characterises what it computes after any number of entries, and the lemmas
  about it argue by the least entry at which they fail, which needs no
  induction theorem. From them follows that a write keeps the lists, the flags,
  the delay list and the running task in agreement (`WakeAllFits`,
  `WakeAllCpu`, `WakeAllTimers`) and so the invariants of the scheduler
  (`EventKernel`). `NoMissedEvent` is inductive with `Asks`, that a task on the
  list of an event is in a call for bits of it. `WokenFindsBits` follows because
  between the write and the poll only a clearing removes bits, which `robbed`
  records, and `Carries` keeps the task in its call.
* `SwTimer_proofs`: the list of timers holds differences, and what DelayList
  promises is about their sums. In `SeqLemmas`, `AheadIs` gives the recursion of the sums,
  `AheadSame` says that two lists whose counts agree over a stretch have sums
  that differ by a constant there; its proof and the others by induction over a
  list use `UpTo`, which takes the least entry that fails, not an induction
  theorem. From that `StartLeft` and `StopLeft`: an insertion, a removal leaves
  every other timer the ticks it had, because the timer behind takes over or
  gives up the difference. `TimerInv` is `TimersConsistent` with `TimerFits`: no
  count on the list is negative, the first is positive but while the tick is at
  work, the timer the tick handles is still ticking, and a timer in use has an
  interval. Each step keeps it and is a step of DelayList, the start of a ticking
  timer, or none (`TimerStep`). The invariant needs nothing of the queue, the
  pool and the tasks. `IdsHold` is the arithmetic of `NextId`.
  `PoolCovers` needs all of them. The kernel with timers is one of Task
  (`TimersImplementTask`), and as long as it does not crash the tick and the
  timer task are a writer and the only reader of a queue of Queue
  (`TimersAreQueue`), so its invariants `Nodes` and `Messages` hold; `PoolFits`
  adds who has which block. If the queue were full, its nodes would hold as many
  different blocks as there are, and the one the tick has is another
  (`WriterFinds`).
* `TimerWheel_proofs`, for any number of lists and of roll values: the same
  lemmas say what an insertion and a removal do to the waits on one list; new is
  that the lists together are one delay list. `WheelInv` has `ListsFit`, each
  waiting task is once on the list of its index and nowhere else and the passes
  it waits, the sum of the counts up to it, are fewer than `RollSpan`, which the
  types do not say and without which a removal could carry into the index; and `IsOrder`, the waiting
  tasks have an order of expiry. Tasks due at the same tick stand on the same
  list (`SameDue`), so there is one order only (`OrderUnique`), and a step need
  only show that what it leaves is an order. `RollNumIs` and `AddNumbers` are the
  arithmetic of `osTaskAdd2TimerList`: index and passes make up the wait. A tick
  brings every list one nearer, the one it reaches is scanned; an entry leaves
  with no tick left (`LeaveKept`), and one that enters keeps what the others have
  (`EnterKept`).
* `Heap_proofs`, for every pool, size, boundary and number of classes: in the
  course of a call some free nodes are on no list, those to be cut, merged or
  handed out. `Whole(H, X)` says that the pool `H` is in order but for the set
  `X` of them: headers form a chain with links back (`Chain`), free nodes
  outside `X` have no free neighbour outside `X` (`Apart`), each list holds the
  free nodes of its class outside `X` (`Lists`). One lemma for each operator
  says how `X` changes, and each call starts and ends with `X = {}`. `HeapInv`
  is `Whole(Heap, {})` with `Blocks`, the correspondence of blocks and used
  nodes.
* `SeqLemmas`: what the sequence operators of the models do to a sequence's
  elements and order, and that a nonempty set of naturals has a least element
  (for `Top`, the size class and the place of a waiter).

The assumptions are those named `...Assumption` on the constants; TLC evaluates
them in every run of a module that extends theirs. Each hypothesis above holds
in the run that checks the property (`task_sched`,
`semaphore`, `mutex`, `queue`, `event`, `swtimer`, `heap`, `timer_wheel`).

Only model-checked: liveness (`DelayEnds`, `Rotation`, `EveryWaiterServed`,
`HandlerFollows`), which is beyond the prover.

## 5. Where the code and its documentation disagree

Two runs show a disagreement:

* `mutex_v_inherit`: `LOS_MuxPost` restores the saved priority though a more
  urgent task waits for another mutex of the same owner.
* `heap_v_realloc`: `LOS_MemRealloc` of a block of `LOS_MemAllocAlign` returns
  the start of the node, the content is a gap further on.

The runs stay clear of others, by what their instances permit or call. TLC shows
each when the instance is changed as the bullet says:

* A wait of task t expires; before t runs another task deletes it. `TIMEOUT` is
  still set, so `LOS_TaskDelete` (777) unlinks `stTimerList` again and follows
  null links. `los_task.h:943` makes no exception. (`NoCrash` in `task_sched`, with
  `"DeleteExpired"` in `Permits`.)
* PendSV is pending towards t when a handler suspends t. `LOS_TaskSuspend` (707)
  reconsiders the choice only for the running task; t gets the processor while
  suspended. (`SwitchesToReady` in `task_sched`, with `"Suspend"` in `IsrCalls`.)
* The slice of a task ends in the window after it blocked. The yield on its
  behalf (`los_timeslice.c:53`), if two others of its priority are ready, takes
  it off the object, puts it on the ready list and sets READY beside PEND
  (`BlockedNotReady`, with three tasks that call `"Pend"` in `task_turns`); a task
  in a delay is on no list, and null links are followed (`NoCrash`, with
  `"Delay"`). `task_turns` has two tasks therefore, and the runs for
  `ListsConsistent` and the objects are without slices.
* A task is deleted while it creates another, after it took the control block
  (508) and before it filled it in (532). Nobody gives the block back: it is on
  no list, its status is UNUSED, and it is never created again. (`ListsConsistent`
  in `task_wide`, without its last disjunct; the stack it allocated is lost too.) Deleted later, before 570, it
  leaves a task that is suspended, whose ID nobody was told.
* `LOS_MuxPost` with nobody waiting lowers the priority of the caller and does
  not schedule. (`RunsHighest` in `mutex`.)

## 6. What is not modelled, and why

* Contents of stacks, registers, names, statistics, hooks and information
  queries: no control flow depends on them. `los_memstat.c` counts per task.
* The individual writes of list links: a critical section is atomic. The one
  unlink done with interrupts enabled (423, a joinable task that ends) is one
  step here.
* Tasks that end or are deleted while they own a mutex or a node of a queue, and
  `LOS_TaskPriSet` on an owner, which the guide (line 2189) forbids.
* Calls in handlers while Dummy runs that create a task (the stack the zombie
  stands on is freed): in `task_wide`, where only the lists are checked.
* Queues: `osQueueMailAlloc` under the scheduler lock, where it would go on
  without having waited (`los_queue.c:495`); events: a destruction while tasks
  wait, which the guide rules out (`los_event.c:228`).
* Timers: handlers that use timers while `osSwtmrScan` walks the list with
  interrupts enabled; the branch for a queue that is full although a block was
  found (`los_swtmr.c:246-249`), which `PoolCoversQueue` shows not to be
  reached; the window of `LOS_SwtmrCreate` in which a taken block is
  initialised; what an application does with the ID of a timer it deleted;
  the tickless helpers, which nothing calls. An expiry that finds no block is
  dropped (`TimeoutDrop`), as in the code.
* Heap: sizes near the width of an integer, where the additions of
  `LOS_MemAllocAlign` wrap; integrity checks and dumps.
* CMSIS (`cmsis_liteos.c`): calls the kernel one to one after converting
  handles, times and priorities. System time, interrupt table, board support,
  other ports, file table, vendor code: register I/O, generated code, or copies
  of what is modelled. Nearly all lines of the repository are of this kind: the
  HAL and CMSIS headers of two boards.

## 7. Plan

Done: the scheduler with its delay list, semaphores, mutexes, queues with
memboxes, events, software timers, the heap. Left:

* modules: system time with its widths; the CMSIS layer, for what it does
  beyond a conversion (signals, mail by address); a composition of semaphore,
  queue and event on one Task.
