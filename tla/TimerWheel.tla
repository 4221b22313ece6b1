------------------------------ MODULE TimerWheel ------------------------------
(***************************************************************************)
(* The structure behind the delay list (g_stTskSortLink, los_task.c).      *)
(*                                                                         *)
(* A wheel of lists; the tick advances a cursor to the next.  A task       *)
(* stands on the list the cursor reaches when its time is over, and the    *)
(* rolls say how many times the cursor has to pass before: each entry      *)
(* counts only the passes that it waits longer than the entry before it.   *)
(*                                                                         *)
(* The tick handles the list under the cursor entry by entry with          *)
(* interrupts enabled: tasks may be taken off meanwhile, not put on,       *)
(* because only a running task puts itself on the list.                    *)
(***************************************************************************)
EXTENDS Deltas

CONSTANTS
  Task, Timeouts,
  SlotCount,  \* OS_TSK_SORTLINK_LEN, 2^5 in the code
  RollSpan    \* the values of the roll count in uwIdxRollNum, 2^27 in the code

\* A wait is a number of index and roll count together.
ASSUME WheelAssumption ==
  /\ SlotCount \in Nat \ {0} /\ RollSpan \in Nat \ {0}
  /\ Timeouts \subseteq 1..SlotCount * RollSpan - 1

Slot == 0..SlotCount - 1

VARIABLES
  cursor,    \* usCursor
  link,      \* pstSortLink, the lists
  index,     \* the upper bits of uwIdxRollNum: the list of a task
  roll,      \* the lower bits
  scanning   \* the tick interrupt is in the loop of osTaskScan

vars == <<cursor, link, index, roll, scanning>>

TypeOK ==
  /\ cursor \in Slot
  /\ link \in [Slot -> Seq(Task)]
  /\ index \in [Task -> Slot]
  /\ roll \in [Task -> 0..RollSpan - 1]
  /\ scanning \in BOOLEAN

Waiting == UNION {ToSet(link[s]) : s \in Slot}

Init ==
  /\ cursor = 0 /\ link = [s \in Slot |-> <<>>]
  /\ index = [t \in Task |-> 0] /\ roll = [t \in Task |-> 0]
  /\ scanning = FALSE
-----------------------------------------------------------------------------
RollNum_BugLess(n) == (n \div SlotCount) - 1

\* A wait of a whole number of turns ends when the cursor is back where it stands now.
RollNum(n) == IF n % SlotCount > 0 THEN n \div SlotCount ELSE (n \div SlotCount) - 1

\* osTaskAdd2TimerList
Add(t, n) ==
  /\ ~scanning /\ t \notin Waiting
  /\ LET s == ((n % SlotCount) + cursor) % SlotCount
         k == PlaceFor(link[s], roll, RollNum(n))
     IN /\ index' = [index EXCEPT ![t] = s]
        /\ link' = [link EXCEPT ![s] = InsertAt(@, k, t)]
        /\ roll' = CountsPut(link[s], roll, t, RollNum(n), k)
  /\ UNCHANGED <<cursor, scanning>>

RollAfter_BugLost(t, q) == roll

\* The entry behind t takes over the passes t still had to wait.
RollAfter(t, q) == CountsCut(q, roll, t)

\* osTimerListDelete
Delete(t) ==
  /\ t \in Waiting
  /\ LET s == index[t] IN
       /\ roll' = RollAfter(t, link[s])
       /\ link' = [link EXCEPT ![s] = RemoveFirst(@, t)]
  /\ UNCHANGED <<cursor, index, scanning>>
-----------------------------------------------------------------------------
\* osTaskScan: the cursor advances to the next list, which may be empty.
Tick ==
  /\ ~scanning
  /\ cursor' = (cursor + 1) % SlotCount
  /\ scanning' = (link[cursor'] # <<>>)
  /\ UNCHANGED <<link, index, roll>>

\* The first entry has no pass left: it leaves.
ScanPop ==
  /\ scanning /\ link[cursor] # <<>> /\ roll[Head(link[cursor])] = 0
  /\ link' = [link EXCEPT ![cursor] = Tail(@)]
  /\ UNCHANGED <<cursor, index, roll, scanning>>

\* The first entry has to wait on: with its roll all behind it count this pass.
ScanCount ==
  /\ scanning /\ link[cursor] # <<>> /\ roll[Head(link[cursor])] > 0
  /\ roll' = [roll EXCEPT ![Head(link[cursor])] = @ - 1]
  /\ scanning' = FALSE
  /\ UNCHANGED <<cursor, link, index>>

ScanEnd ==
  /\ scanning /\ link[cursor] = <<>>
  /\ scanning' = FALSE
  /\ UNCHANGED <<cursor, link, index, roll>>

Next ==
  \/ \E t \in Task : Delete(t) \/ \E n \in Timeouts : Add(t, n)
  \/ Tick \/ ScanPop \/ ScanCount \/ ScanEnd

Spec == Init /\ [][Next]_vars
-----------------------------------------------------------------------------
(* The delay list that the wheel implements.                               *)

\* Ticks until the cursor reaches list s.  The list under it is due now while it is
\* scanned, and after a whole turn when it has been.
First(s) ==
  LET ahead == ((s - cursor) + SlotCount) % SlotCount
  IN IF ahead = 0 /\ ~scanning THEN SlotCount ELSE ahead

Place(t) == CHOOSE i \in DOMAIN link[index[t]] : link[index[t]][i] = t

\* Ticks until t expires.
Due(t) == First(index[t]) + SlotCount * Ahead(link[index[t]], roll, Place(t))

TicksLeft == [t \in Task |-> IF t \in Waiting THEN Due(t) ELSE 0]

\* Entries due at the same tick are on the same list.
Earlier(t, u) == Due(t) < Due(u) \/ (Due(t) = Due(u) /\ Place(t) < Place(u))

InOrder ==
  CHOOSE Q \in SetToSeqs(Waiting) : \A i, j \in DOMAIN Q : i < j => Earlier(Q[i], Q[j])

Abstract == INSTANCE DelayList WITH timerQ <- InOrder, left <- TicksLeft

\* The wheel implements the delay list: a task put on it for n ticks leaves it at the
\* n-th tick, whatever other tasks are put on and taken off meanwhile, even while the
\* tick scans, and tasks that expire together leave in the order they came.
ImplementsDelayList == Abstract!TimerSpec
=============================================================================
