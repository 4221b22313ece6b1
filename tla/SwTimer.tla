-------------------------------- MODULE SwTimer --------------------------------
(***************************************************************************)
(* Software timers (src/kernel/base/core/los_swtmr.c).  The tick interrupt *)
(* counts down a list of timers; for one that expires it takes a block     *)
(* from a pool, notes the handler in it and writes it to a queue.  A task  *)
(* of priority 0 reads the queue and calls the handlers.                   *)
(*                                                                         *)
(* The queue and the pool are those of Queue, which has one queue here.    *)
(* osSwtmrScan runs after osTaskScan in the same interrupt, with           *)
(* interrupts enabled: no other handler may use timers meanwhile, and none *)
(* runs here.                                                              *)
(***************************************************************************)
EXTENDS Queue, Deltas

CONSTANTS
  Limit,     \* LOSCFG_BASE_CORE_SWTMR_LIMIT
  MaxId,     \* OS_SWTMR_MAX_TIMERID
  Settings   \* the modes and intervals in ticks that an application asks for

Timer == 0..Limit - 1           \* the indices of m_pstSwtmrCBArray
HandlerQueue == QueueOrder[1]   \* m_uwSwTmrHandlerQueue

Mode == {"once", "period"}      \* LOS_SWTMR_MODE_ONCE, LOS_SWTMR_MODE_PERIOD
Unset == [mode |-> "once", interval |-> 0]

\* OS_SWTMR_HANDLE_QUEUE_SIZE is the length of the queue and the size of the pool.  The
\* timer task reads and waits, and the tick interrupt writes.
ASSUME SwTimerAssumption ==
  /\ Limit \in Nat \ {0} /\ MaxId \in Nat /\ MaxId % Limit = 0 /\ MaxId >= Limit
  /\ Settings \subseteq [mode : Mode, interval : Nat \ {0}] /\ Null \notin Timer
  /\ SwtmrTask \in Task /\ QueueOrder = <<HandlerQueue>> /\ QueueLen = Len(BoxOrder)
  /\ {"Pend", "Wake"} \subseteq Calls /\ "Wake" \in IsrCalls

VARIABLES
  tmState,    \* ucState
  tmFree,     \* m_pstSwtmrFreeList
  sortList,   \* m_pstSwtmrSortList
  uwCount,    \* the ticks a timer waits longer than the one before it on sortList
  tmSet,      \* ucMode and uwInterval
  usTimerID,  \* the ID by which each timer is called
  item,       \* the timer whose handler a block of the pool stands for
  tick,       \* where osSwtmrScan stands
  serve       \* where osSwTmrTask stands

timerLists == <<tmState, tmFree, sortList, uwCount, tmSet, usTimerID>>
swtmrVars  == <<allVars, timerLists, item, tick, serve>>

NoTick == [at |-> "idle", timer |-> Null, box |-> Null]
Reading == [at |-> "read", timer |-> Null, box |-> Null]

SwTimerTypeOK ==
  /\ tmState \in [Timer -> {"unused", "created", "ticking"}]
  /\ tmFree \in Seq(Timer) /\ sortList \in Seq(Timer)
  /\ uwCount \in [Timer -> Nat]
  /\ tmSet \in [Timer -> Settings \cup {Unset}]
  /\ usTimerID \in [Timer -> Nat]
  /\ item \in [Box -> Timer \cup {Null}]
  /\ tick \in [at : {"idle", "count", "loop", "write", "rearm"},
               timer : Timer \cup {Null}, box : Box \cup {Null}]
  /\ serve \in [at : {"read", "copy", "call"}, timer : Timer \cup {Null}, box : Box \cup {Null}]

\* osSwTmrInit, which creates the queue and the timer task.
SwTimerInit ==
  /\ Init /\ BoxInit
  /\ used = Queue /\ ring = [q \in Queue |-> [i \in Node |-> Null]]
  /\ qHead = [q \in Queue |-> 0] /\ qTail = [q \in Queue |-> 0]
  /\ readable = [q \in Queue |-> 0] /\ writable = [q \in Queue |-> QueueLen]
  /\ asks = [t \in Task |-> NoAsk] /\ puwMsg = [t \in Task |-> Null] /\ held = {}
  /\ tmState = [t \in Timer |-> "unused"] /\ tmFree = [i \in 1..Limit |-> i - 1]
  /\ sortList = <<>> /\ uwCount = [t \in Timer |-> 0]
  /\ tmSet = [t \in Timer |-> Unset]
  /\ usTimerID = [t \in Timer |-> t]
  /\ item = [b \in Box |-> Null] /\ tick = NoTick /\ serve = Reading
-----------------------------------------------------------------------------
(* The list, a list of differences: the tick counts down the first alone.   *)

osSwTmrStart(Q, C, t) ==
  LET n == tmSet[t].interval
      k == PlaceFor(Q, C, n)
  IN /\ sortList' = InsertAt(Q, k, t) /\ uwCount' = CountsPut(Q, C, t, n, k)
     /\ tmState' = [tmState EXCEPT ![t] = "ticking"]

CountsWithout_BugLost(t) == [uwCount EXCEPT ![t] = 0]

\* osSwtmrStop: the timer behind t takes over the ticks that t still waited.
CountsWithout(t) == CountsCut(sortList, uwCount, t)

ListWithout(t) == RemoveFirst(sortList, t)
-----------------------------------------------------------------------------
(* The calls.  A task other than the timer task makes them, a handler of a  *)
(* timer, or an interrupt handler.  One whose ID is refused is not here.    *)

MayCallTimers(c, name) ==
  /\ MayCall(c, name) /\ c = "task" /\ run = SwtmrTask => serve.at = "call"

Names(id, t) == id < MaxId /\ t = id % Limit /\ usTimerID[t] = id

\* The block taken is initialised with interrupts enabled; who calls it meanwhile by an
\* old ID finds it unused, as before.
LOS_SwtmrCreate(c, t, s) ==
  /\ MayCallTimers(c, "SwtmrCreate") /\ tmFree # <<>> /\ t = Head(tmFree)
  /\ tmFree' = Tail(tmFree)
  /\ tmSet' = [tmSet EXCEPT ![t] = s]
  /\ uwCount' = [uwCount EXCEPT ![t] = 0]
  /\ tmState' = [tmState EXCEPT ![t] = "created"]
  /\ UNCHANGED <<sortList, usTimerID>>

LOS_SwtmrStart(c, id) ==
  /\ MayCallTimers(c, "SwtmrStart")
  /\ \E t \in Timer :
       /\ Names(id, t)
       /\ \/ tmState[t] = "created" /\ osSwTmrStart(sortList, uwCount, t)
          \/ tmState[t] = "ticking" /\ osSwTmrStart(ListWithout(t), CountsWithout(t), t)
  /\ UNCHANGED <<tmFree, tmSet, usTimerID>>

LOS_SwtmrStop(c, id) ==
  /\ MayCallTimers(c, "SwtmrStop")
  /\ \E t \in Timer :
       /\ Names(id, t) /\ tmState[t] = "ticking"
       /\ sortList' = ListWithout(t) /\ uwCount' = CountsWithout(t)
       /\ tmState' = [tmState EXCEPT ![t] = "created"]
  /\ UNCHANGED <<tmFree, tmSet, usTimerID>>

osSwtmrDelete(t) ==
  /\ tmFree' = <<t>> \o tmFree
  /\ tmState' = [tmState EXCEPT ![t] = "unused"]
  /\ tmSet' = [tmSet EXCEPT ![t] = Unset]

LOS_SwtmrDelete_BugTicking(c, id) ==
  /\ MayCallTimers(c, "SwtmrDelete")
  /\ \E t \in Timer : Names(id, t) /\ tmState[t] # "unused" /\ osSwtmrDelete(t)
  /\ UNCHANGED <<sortList, uwCount, usTimerID>>

LOS_SwtmrDelete(c, id) ==
  /\ MayCallTimers(c, "SwtmrDelete")
  /\ \E t \in Timer :
       /\ Names(id, t) /\ osSwtmrDelete(t)
       /\ \/ tmState[t] = "created" /\ UNCHANGED <<sortList, uwCount>>
          \/ /\ tmState[t] = "ticking"
             /\ sortList' = ListWithout(t) /\ uwCount' = CountsWithout(t)
  /\ UNCHANGED usTimerID
-----------------------------------------------------------------------------
(* osSwtmrScan and osSwTmrTimeoutHandle.                                    *)

osSwtmrScan ==
  /\ tick.at = "count"
  /\ \/ sortList = <<>> /\ tick' = NoTick /\ UNCHANGED uwCount
     \/ /\ sortList # <<>>
        /\ uwCount' = [uwCount EXCEPT ![Head(sortList)] = @ - 1]
        /\ tick' = IF uwCount'[Head(sortList)] = 0 THEN [NoTick EXCEPT !.at = "loop"] ELSE NoTick
  /\ UNCHANGED <<allVars, tmState, tmFree, sortList, tmSet, usTimerID, item, serve>>

\* The first timer leaves the list, its handler is noted in a block.
TimeoutTake(b) ==
  /\ tick.at = "loop" /\ sortList # <<>> /\ uwCount[Head(sortList)] = 0
  /\ sortList' = Tail(sortList)
  /\ MailAllocTake("isr", b)
  /\ item' = [item EXCEPT ![b] = Head(sortList)]
  /\ tick' = [at |-> "write", timer |-> Head(sortList), box |-> b]
  /\ UNCHANGED <<tmState, tmFree, uwCount, tmSet, usTimerID, serve>>

\* There is no block: the expiry is dropped.
TimeoutDrop ==
  /\ tick.at = "loop" /\ sortList # <<>> /\ uwCount[Head(sortList)] = 0
  /\ boxFree = <<>>
  /\ sortList' = Tail(sortList)
  /\ tick' = [NoTick EXCEPT !.at = "rearm", !.timer = Head(sortList)]
  /\ UNCHANGED <<allVars, tmState, tmFree, uwCount, tmSet, usTimerID, item, serve>>

\* LOS_QueueWrite without waiting; that it is never refused here is checked.
TimeoutWrite ==
  /\ tick.at = "write"
  /\ WriteTake("isr", HandlerQueue, tick.box)
  /\ tick' = [tick EXCEPT !.at = "rearm", !.box = Null]
  /\ UNCHANGED <<timerLists, item, serve>>

NextId_BugLast(id) == IF id <= MaxId - Limit THEN id + Limit ELSE id % Limit

\* The timer that takes the block next is called by another ID.
NextId(id) == IF id < MaxId - Limit THEN id + Limit ELSE id % Limit

TimeoutOnce ==
  /\ tick.at = "rearm" /\ tmSet[tick.timer].mode = "once"
  /\ osSwtmrDelete(tick.timer)
  /\ usTimerID' = [usTimerID EXCEPT ![tick.timer] = NextId(@)]
  /\ tick' = [NoTick EXCEPT !.at = "loop"]
  /\ UNCHANGED <<allVars, sortList, uwCount, item, serve>>

TimeoutPeriod ==
  /\ tick.at = "rearm" /\ tmSet[tick.timer].mode = "period"
  /\ osSwTmrStart(sortList, uwCount, tick.timer)
  /\ tick' = [NoTick EXCEPT !.at = "loop"]
  /\ UNCHANGED <<allVars, tmFree, tmSet, usTimerID, item, serve>>

TimeoutEnd ==
  /\ tick.at = "loop"
  /\ sortList # <<>> => uwCount[Head(sortList)] > 0
  /\ tick' = NoTick
  /\ UNCHANGED <<allVars, timerLists, item, serve>>

TimerTick ==
  \/ osSwtmrScan \/ TimeoutDrop \/ TimeoutWrite \/ TimeoutOnce \/ TimeoutPeriod \/ TimeoutEnd
  \/ \E b \in Box : TimeoutTake(b)
-----------------------------------------------------------------------------
(* osSwTmrTask.                                                             *)

Serving(at) == tick.at = "idle" /\ TaskRuns("user") /\ run = SwtmrTask /\ serve.at = at

ServeRead ==
  /\ tick.at = "idle" /\ run = SwtmrTask /\ serve.at = "read"
  /\ \/ ReadTake("task", HandlerQueue) \/ ReadReturn(HandlerQueue)
  /\ serve' = [serve EXCEPT !.at = "copy", !.box = ring[HandlerQueue][qHead[HandlerQueue]]]
  /\ UNCHANGED <<timerLists, item, tick>>

ServeWait ==
  /\ Serving("read") /\ ReadBlock(HandlerQueue, Forever)
  /\ UNCHANGED <<timerLists, item, tick, serve>>

\* The handler is copied before the block is given back.
ServeCopy ==
  /\ Serving("copy") /\ LOS_MemboxFree(serve.box) /\ held' = held \ {serve.box}
  /\ serve' = [at |-> "call", timer |-> item[serve.box], box |-> Null]
  /\ item' = [item EXCEPT ![serve.box] = Null]
  /\ UNCHANGED <<vars, queueVars, asks, puwMsg, timerLists, tick>>

\* The handler returns.
ServeReturn ==
  /\ Serving("call") /\ serve' = Reading
  /\ UNCHANGED <<allVars, timerLists, item, tick>>

ServeStep == ServeRead \/ ServeWait \/ ServeCopy \/ ServeReturn
-----------------------------------------------------------------------------
CallStep ==
  /\ tick.at = "idle"
  /\ \E c \in Context :
       \/ \E t \in Timer, s \in Settings : LOS_SwtmrCreate(c, t, s)
       \/ \E id \in 0..MaxId - 1 :
            LOS_SwtmrStart(c, id) \/ LOS_SwtmrStop(c, id) \/ LOS_SwtmrDelete(c, id)
  /\ UNCHANGED <<allVars, item, tick, serve>>

Others == <<queueVars, mailVars, asks, held, timerLists, item, serve>>

\* The rest of the kernel.  The timer task makes calls of its own only in a handler; it
\* waits only in ServeWait, so WaitReturn is part of ServeRead.
KernelTurn == tick.at = "idle" /\ UNCHANGED <<Others, tick>>

KernelRest ==
  /\ KernelTurn
  /\ TaskRuns("user") /\ run = SwtmrTask => serve.at = "call"
  /\ LOS_Start \/ SwitchStep \/ CreateStep \/ ControlStep

TickRest ==
  /\ tick.at = "idle" /\ TickStep
  /\ tick' = IF ScanEnd THEN [NoTick EXCEPT !.at = "count"] ELSE tick
  /\ UNCHANGED Others

SwTimerNext == CallStep \/ TimerTick \/ ServeStep \/ KernelRest \/ TickRest

SwTimerSpec == SwTimerInit /\ [][SwTimerNext]_swtmrVars

\* As Fairness of Task; handlers of timers return.
SwTimerFairSpec ==
  /\ SwTimerSpec
  /\ WF_swtmrVars(KernelTurn /\ LOS_Start)
  /\ SF_swtmrVars(ServeStep \/ (KernelTurn /\ KernelCode))
  /\ WF_swtmrVars(TimerTick \/ TickRest)
-----------------------------------------------------------------------------
\* A timer is on the list that counts exactly while it is ticking, but for the one
\* that is handled, and can be created exactly when it is unused: none is lost or on two
\* lists, however it is started again, stopped, deleted and expires.
TimersConsistent ==
  /\ IsInjective(sortList) /\ IsInjective(tmFree)
  /\ ToSet(sortList) = {t \in Timer : tmState[t] = "ticking" /\ tick.timer # t}
  /\ ToSet(tmFree) = {t \in Timer : tmState[t] = "unused"}

\* An expiry that gets a block gets a place in the queue: a block given back by the timer
\* task is out of the queue, one in the queue is not in the pool.
PoolCoversQueue ==
  /\ tick.at = "write" => writable[HandlerQueue] > 0 \/ list[ReadList[HandlerQueue]] # <<>>
  /\ ToSet(boxFree) \cap ToSet(Contents(HandlerQueue)) = {}

\* An ID leads to the block it was made for, and every block can be called by its ID,
\* after any number of one-shot timers.
IdsNameBlocks == \A t \in Timer : usTimerID[t] % Limit = t /\ usTimerID[t] < MaxId

\* A queued expiry is handled: the timer task is woken for it, takes the blocks in order
\* and comes to the last, unless the scheduler is locked for ever.
HandlerFollows ==
  []<>(lock = 0) =>
    \A b \in Box : b \in ToSet(Contents(HandlerQueue)) ~> b \in ToSet(boxFree)

TimerLeft ==
  [t \in Timer |-> IF t \in ToSet(sortList)
                   THEN Ahead(sortList, uwCount, CHOOSE i \in DOMAIN sortList : sortList[i] = t)
                   ELSE 0]

Alarms == INSTANCE DelayList WITH
  Task <- Timer, Timeouts <- {s.interval : s \in Settings}, timerQ <- sortList, left <- TimerLeft

\* LOS_SwtmrStart of a ticking timer: taken off the list and put on it again.
Restart(t) ==
  /\ t \in ToSet(sortList)
  /\ TimerLeft' = [TimerLeft EXCEPT ![t] = tmSet[t].interval]
  /\ sortList' = Alarms!AddTimer(Alarms!DelTimer(sortList, t), t, tmSet[t].interval)

\* The timers keep what the delay list promises: a timer started for n ticks expires at
\* the n-th, neither earlier nor later for the other timers that start, stop, are deleted
\* or expire meanwhile, and those that expire together do so in the order they started.
ImplementsTimers ==
  Alarms!TimerInit /\ [][Alarms!TimerNext \/ \E t \in Timer : Restart(t)]_(Alarms!timerVars)
=============================================================================
