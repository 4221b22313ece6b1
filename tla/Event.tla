--------------------------------- MODULE Event ---------------------------------
(***************************************************************************)
(* Events (src/kernel/base/ipc/los_event.c): sets of bits that tasks wait  *)
(* for, one of them or all, and may clear when they read them.  A write    *)
(* wakes every waiter it satisfies in one critical section; each of them   *)
(* looks at the bits again when it runs.                                   *)
(*                                                                         *)
(* An application initialises an event before it uses it and destroys it   *)
(* when no task waits: LOS_EventDestory only forgets the list.             *)
(***************************************************************************)
EXTENDS Task

CONSTANT Bit   \* the bits of uwEventID; Obj are the event control blocks

ASSUME EventAssumption == QueueObj = {}

VARIABLES
  usable,   \* the events initialised and not destroyed
  bits,     \* uwEventID
  wants,    \* uwEventMask, uwEventMode of each task, and the event of its call
  robbed    \* history: bits a woken task waited for were cleared before it ran

eventVars == <<usable, bits, wants, robbed>>
allVars   == <<vars, eventVars>>

Mask == (SUBSET Bit) \ {{}}
Mode == [all : BOOLEAN, clear : BOOLEAN]   \* LOS_WAITMODE_AND or _OR, _CLR
NoWant == [event |-> Null, mask |-> {}, mode |-> [all |-> FALSE, clear |-> FALSE]]

EventTypeOK ==
  /\ usable \subseteq Obj
  /\ bits \in [Obj -> SUBSET Bit]
  /\ wants \in [Task -> [event : Obj, mask : Mask, mode : Mode] \cup {NoWant}]
  /\ robbed \in [Task -> BOOLEAN]

EventInit ==
  /\ Init
  /\ usable = {} /\ bits = [e \in Obj |-> {}]
  /\ wants = [t \in Task |-> NoWant] /\ robbed = [t \in Task |-> FALSE]

\* LOS_EventPoll finds what it is asked for.
Match(B, mask, mode) == IF mode.all THEN mask \subseteq B ELSE mask \cap B # {}

\* ... and what it leaves of the bits.
Polled(B, mask, mode) == IF mode.clear /\ Match(B, mask, mode) THEN B \ mask ELSE B

\* In its call, woken by a write, not yet running again.
Called(t) == wants[t] # NoWant /\ Waiting(t) = {} /\ "TIMEOUT" \notin status[t]

\* The bits of e become B; tasks that were woken for those that are gone are robbed.
BitsBecome(e, B) ==
  /\ bits' = [bits EXCEPT ![e] = B]
  /\ robbed' = [t \in Task |->
       /\ wants'[t] # NoWant
       /\ \/ robbed[t]
          \/ Called(t) /\ wants[t].event = e /\ wants[t].mask \cap (bits[e] \ B) # {}]
-----------------------------------------------------------------------------
LOS_EventInit(c, e) ==
  /\ MayCall(c, "EventInit") /\ e \notin usable
  /\ usable' = usable \cup {e} /\ bits' = [bits EXCEPT ![e] = {}]
  /\ UNCHANGED <<vars, wants, robbed>>

LOS_EventDestory(c, e) ==
  /\ MayCall(c, "EventDestory") /\ e \in usable /\ list[e] = <<>>
  /\ \A t \in Task : wants[t].event # e
  /\ usable' = usable \ {e}
  /\ UNCHANGED <<vars, bits, wants, robbed>>

LOS_EventClear(c, e, gone) ==
  /\ MayCall(c, "EventClear") /\ e \in usable
  /\ UNCHANGED <<vars, wants, usable>> /\ BitsBecome(e, bits[e] \ gone)

\* LOS_EventRead when the bits are there; without _CLR it changes nothing.
ReadNow(e, mask, mode) ==
  /\ MayCall("task", "Pend") /\ e \in usable
  /\ Match(bits[e], mask, mode) /\ mode.clear
  /\ UNCHANGED <<vars, wants, usable>> /\ BitsBecome(e, Polled(bits[e], mask, mode))

ReadBlock(e, mask, mode, n) ==
  /\ e \in usable /\ ~Match(bits[e], mask, mode)
  /\ Pend(e, n, Len(Unlink(list, run)[e]) + 1)
  /\ wants' = [wants EXCEPT ![run] = [event |-> e, mask |-> mask, mode |-> mode]]
  /\ UNCHANGED <<usable, bits, robbed>>

\* The limit expired.
ReadTimeout ==
  /\ WaitReturn /\ "TIMEOUT" \in status[run]
  /\ wants' = [wants EXCEPT ![run] = NoWant] /\ robbed' = [robbed EXCEPT ![run] = FALSE]
  /\ UNCHANGED <<usable, bits>>

\* Woken by a write: the bits are polled again, and may be gone.
ReadReturn ==
  /\ WaitReturn /\ "TIMEOUT" \notin status[run]
  /\ LET w == wants[run] IN
       /\ wants' = [wants EXCEPT ![run] = NoWant]
       /\ BitsBecome(w.event, Polled(bits[w.event], w.mask, w.mode))
  /\ UNCHANGED usable
-----------------------------------------------------------------------------
Satisfies_BugAnd(e, new_, t) == wants[t].mask \cap new_ # {}
Satisfies_BugOld(e, new_, t) == Match(new_, wants[t].mask, wants[t].mode)

\* One of its bits is among those written, or all of its bits are there by now.
Satisfies(e, new_, t) ==
  IF wants[t].mode.all THEN wants[t].mask \subseteq bits[e] \cup new_
  ELSE wants[t].mask \cap new_ # {}

\* The entries of the list Q that are in S, in their order.
Kept(Q, S) ==
  LET upTo[i \in 0..Len(Q)] ==
        IF i = 0 THEN <<>>
        ELSE IF Q[i] \in S THEN Append(upTo[i - 1], Q[i]) ELSE upTo[i - 1]
  IN upTo[Len(Q)]

WakeAll_BugTimer(c, e, S) ==
  /\ MayCall(c, "Wake")
  /\ status' = [t \in Task |->
       IF t \notin S THEN status[t]
       ELSE Woken(t, e) \cup (IF "SUSPEND" \in status[t] THEN {} ELSE {"READY"})]
  /\ list' = [h \in Head_ |->
       IF h = e THEN Kept(list[e], Task \ S)
       ELSE list[h] \o Kept(list[e], {t \in S : prio[t] = h /\ "SUSPEND" \notin status[t]})]
  /\ Schedule(c)
  /\ UNCHANGED <<prio, timerQ, left, run, lock, started, zombie, newborn, slice, scan, halt>>

\* The tasks S, in their order on the list of e, are woken as Wake of Task does it with
\* one, and there is one LOS_Schedule.
WakeAll(c, e, S) ==
  /\ MayCall(c, "Wake")
  /\ LET timed == {t \in S : "TIMEOUT" \in status[t]} IN
       /\ timerQ' = Kept(timerQ, Task \ timed)
       /\ left' = [t \in Task |-> IF t \in timed THEN 0 ELSE left[t]]
       /\ halt' = ~(timed \subseteq ToSet(timerQ))
  /\ status' = [t \in Task |->
       IF t \notin S THEN status[t]
       ELSE Woken(t, e) \cup (IF "SUSPEND" \in status[t] THEN {} ELSE {"READY"})]
  /\ list' = [h \in Head_ |->
       IF h = e THEN Kept(list[e], Task \ S)
       ELSE list[h] \o Kept(list[e], {t \in S : prio[t] = h /\ "SUSPEND" \notin status[t]})]
  /\ Schedule(c)
  /\ UNCHANGED <<prio, run, lock, started, zombie, newborn, slice, scan>>

LOS_EventWrite(c, e, new_) ==
  /\ MayCall(c, "Wake") /\ e \in usable
  /\ LET S == {t \in ToSet(list[e]) : Satisfies(e, new_, t)} IN
       \/ S # {} /\ WakeAll(c, e, S)
       \/ S = {} /\ UNCHANGED vars
  /\ bits' = [bits EXCEPT ![e] = @ \cup new_]
  /\ UNCHANGED <<usable, wants, robbed>>
-----------------------------------------------------------------------------
\* A task that is deleted leaves its call.
EventOtherStep ==
  /\ KernelStep /\ ~WaitReturn
  /\ wants' = [t \in Task |-> IF pc'[t] \in {"wait", "woken"} THEN wants[t] ELSE NoWant]
  /\ robbed' = [t \in Task |-> robbed[t] /\ wants'[t] # NoWant]
  /\ UNCHANGED <<usable, bits>>

EventNext ==
  \/ \E c \in Context, e \in Obj :
       \/ LOS_EventInit(c, e) \/ LOS_EventDestory(c, e)
       \/ \E mask \in Mask : LOS_EventClear(c, e, mask) \/ LOS_EventWrite(c, e, mask)
  \/ \E e \in Obj, mask \in Mask, mode \in Mode :
       \/ ReadNow(e, mask, mode)
       \/ \E n \in Timeouts \cup {Forever} : ReadBlock(e, mask, mode, n)
  \/ ReadTimeout \/ ReadReturn \/ EventOtherStep

EventSpec == EventInit /\ [][EventNext]_allVars
-----------------------------------------------------------------------------
\* No task waits for bits that are there: no write forgets a waiter it satisfies, although
\* it compares those who wait for one bit with the bits written only.
NoMissedEvent ==
  \A e \in Obj : \A t \in ToSet(list[e]) :
    e \in usable /\ wants[t].event = e /\ ~Match(bits[e], wants[t].mask, wants[t].mode)

\* A task that was woken finds what it waited for when it runs, unless somebody else
\* cleared it in between: a wake-up is never for bits that were not there.  So until the
\* kernel has followed a null link.
WokenFindsBits ==
  ~halt => \A t \in Task : Called(t) /\ ~robbed[t] =>
                             Match(bits[wants[t].event], wants[t].mask, wants[t].mode)
=============================================================================
