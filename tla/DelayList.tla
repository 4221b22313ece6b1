------------------------------ MODULE DelayList ------------------------------
(***************************************************************************)
(* What the delay list of the kernel promises: a task put on it for n      *)
(* ticks leaves it at the n-th tick unless it is taken off before, and     *)
(* tasks that expire at the same tick leave in the order they came.        *)
(*                                                                         *)
(* Task is built on this list and keeps to its rules; TimerWheel is the    *)
(* structure that implements it (osTaskAdd2TimerList, osTimerListDelete    *)
(* and osTaskScan of los_task.c).                                          *)
(***************************************************************************)
EXTENDS SequencesExt

CONSTANTS
  Task,      \* the tasks that wait
  Timeouts   \* the finite wait times an application asks for, in ticks

VARIABLES
  timerQ,   \* the delay list, in order of expiry
  left      \* ticks until a task on timerQ expires

timerVars == <<timerQ, left>>

\* osTaskAdd2TimerList: after the entries that expire no later.
AddTimer(Q, t, n) ==
  InsertAt(Q, 1 + Cardinality({i \in DOMAIN Q : left[Q[i]] <= n}), t)

DelTimer_BugKept(Q, t) == Q

\* osTimerListDelete
DelTimer(Q, t) == RemoveFirst(Q, t)

Countdown == left' = [t \in Task |-> IF t \in ToSet(timerQ) THEN left[t] - 1 ELSE left[t]]
-----------------------------------------------------------------------------
TimerInit == timerQ = <<>> /\ left = [t \in Task |-> 0]

\* A task that is not on the list is put on it.
Enter(t, n) ==
  /\ t \notin ToSet(timerQ)
  /\ timerQ' = AddTimer(timerQ, t, n) /\ left' = [left EXCEPT ![t] = n]

\* A task on the list is taken off before its time.
Leave(t) ==
  /\ t \in ToSet(timerQ)
  /\ timerQ' = DelTimer(timerQ, t) /\ left' = [left EXCEPT ![t] = 0]

\* A tick passes; all that had expired before have left the list.
CountTick ==
  /\ \A t \in ToSet(timerQ) : left[t] > 0
  /\ Countdown /\ UNCHANGED timerQ

\* The first task leaves the list because its time is over.
Expire ==
  /\ timerQ # <<>> /\ left[Head(timerQ)] = 0
  /\ timerQ' = Tail(timerQ) /\ UNCHANGED left

TimerNext ==
  \/ \E t \in Task : Leave(t) \/ \E n \in Timeouts : Enter(t, n)
  \/ CountTick \/ Expire

TimerSpec == TimerInit /\ [][TimerNext]_timerVars
=============================================================================
