---------------------------- MODULE SwTimer_proofs ----------------------------
(***************************************************************************)
(* Proofs about SwTimer, for any number of timers, tasks and IDs.          *)
(*                                                                         *)
(* The list of timers holds differences, and what it promises (DelayList)  *)
(* is about their sums: what starts and stops do to the sums is shown for  *)
(* any such list in SeqLemmas (StartLeft, StopLeft).                       *)
(*                                                                         *)
(* The first part shows TimerInv step by step, and with it that each step  *)
(* is one of the delay list: no timer on the list was passed over, and the *)
(* first is at zero only while the tick handles those that expired.        *)
(*                                                                         *)
(* The second part is about the queue of the expiries.  The tick and the   *)
(* timer task are a writer and the only reader of it (TimersAreQueue), so  *)
(* the account that Queue_proofs keeps of its nodes and of the blocks      *)
(* holds here.  With it, a full queue would hold every block, and the one  *)
(* that the tick is about to write is in none of its nodes (WriterFinds).  *)
(***************************************************************************)
EXTENDS SwTimer, Queue_proofs
-----------------------------------------------------------------------------
(* IDs.                                                                     *)

\* The next ID of a timer is one of those it is called by.
LEMMA NextIdFits ==
  ASSUME NEW t \in Timer, NEW id \in Nat, id % Limit = t, id < MaxId
  PROVE  NextId(id) \in Nat /\ NextId(id) % Limit = t /\ NextId(id) < MaxId
<1>1. Limit \in Nat \ {0} /\ MaxId \in Nat /\ MaxId >= Limit /\ t \in 0..Limit - 1
  BY SwTimerAssumption DEF Timer
<1>2. CASE id < MaxId - Limit
  <2> DEFINE p == id \div Limit
  <2>1. p \in Int /\ id = Limit * p + t
    BY <1>1
  <2> HIDE DEF p
  <2>2. id + Limit = Limit * (p + 1) + t
    BY <1>1, <2>1
  <2>3. (Limit * (p + 1) + t) % Limit = t
    BY <1>1, <2>1, ModUnique
  <2> QED  BY <1>1, <1>2, <2>2, <2>3 DEF NextId
<1>3. CASE ~(id < MaxId - Limit)
  <2>1. t % Limit = t
    BY <1>1
  <2> QED  BY <1>1, <1>3, <2>1 DEF NextId
<1> QED  BY <1>2, <1>3
-----------------------------------------------------------------------------
(* The invariant of the timers.                                             *)

\* Where the tick stands while it handles the timer it took.
Handled == {"write", "rearm"}

\* The data of the timers; a count is a number because of TimerFits.
TimerTypes ==
  /\ tmState \in [Timer -> {"unused", "created", "ticking"}]
  /\ tmFree \in Seq(Timer) /\ sortList \in Seq(Timer)
  /\ uwCount \in [Timer -> Int]
  /\ tmSet \in [Timer -> Settings \cup {Unset}]
  /\ tick \in [at : {"idle", "count", "loop", "write", "rearm"},
               timer : Timer \cup {Null}, box : Box \cup {Null}]

\* The tick handles a timer that ticks; a timer in use has an interval; no timer on the
\* list was passed over, and none has expired unless the tick is at work.
TimerFits ==
  /\ tick.at \in Handled => tick.timer \in Timer /\ tmState[tick.timer] = "ticking"
  /\ tick.at \notin Handled => tick.timer = Null
  /\ \A t \in Timer : tmState[t] # "unused" => tmSet[t] \in Settings
  /\ CountsFit(sortList, uwCount)
  /\ tick.at \in {"idle", "count"} => HeadWaits(sortList, uwCount)

TimerInv == TimerTypes /\ TimersConsistent /\ TimerFits

\* A step of the delay list, the start of a timer that ticks, or none.
AlarmStep == [Alarms!TimerNext \/ \E t \in Timer : Restart(t)]_(Alarms!timerVars)

\* The place of a timer by the times that the others wait.
PlaceBy(Q, f, n) == 1 + Cardinality({i \in DOMAIN Q : f[Q[i]] <= n})

\* t is on the list Q, with the counts C, to wait n ticks.
Added(Q, C, t, n) ==
  /\ sortList' \in Seq(Timer) /\ IsInjective(sortList')
  /\ ToSet(sortList') = ToSet(Q) \cup {t}
  /\ uwCount' \in [Timer -> Int] /\ CountsFit(sortList', uwCount')
  /\ HeadWaits(Q, C) => HeadWaits(sortList', uwCount')
  /\ TimerLeft' = [LeftOf(Timer, Q, C) EXCEPT ![t] = n]
  /\ sortList' = InsertAt(Q, PlaceBy(Q, LeftOf(Timer, Q, C), n), t)

LEMMA TimerAdd ==
  ASSUME NEW Q \in Seq(Timer), IsInjective(Q), NEW C \in [Timer -> Int], CountsFit(Q, C),
         NEW t \in Timer \ ToSet(Q), NEW n \in Nat \ {0}, tmSet[t].interval = n,
         osSwTmrStart(Q, C, t)
  PROVE  Added(Q, C, t, n)
<1> DEFINE k == PlaceFor(Q, C, n)
<1>1. sortList' = InsertAt(Q, k, t) /\ uwCount' = CountsPut(Q, C, t, n, k)
  BY Zenon DEF osSwTmrStart
<1>2. k = PlaceBy(Q, LeftOf(Timer, Q, C), n)
  <2>1. DOMAIN Q = 1..Len(Q)
    BY InToSet
  <2>2. {i \in DOMAIN Q : LeftOf(Timer, Q, C)[Q[i]] <= n} = {i \in DOMAIN Q : Ahead(Q, C, i) <= n}
    <3>1. \A i \in 1..Len(Q) : LeftOf(Timer, Q, C)[Q[i]] = Ahead(Q, C, i)
      BY LeftIs
    <3> QED  BY <2>1, <3>1
  <2> QED  BY <2>2 DEF PlaceFor, PlaceBy
<1>3. TimerLeft' = LeftOf(Timer, sortList', uwCount')
  BY DEF TimerLeft, LeftOf
<1> HIDE DEF k
<1>4. LET R == InsertAt(Q, k, t)
          D == CountsPut(Q, C, t, n, k)
      IN /\ R \in Seq(Timer) /\ IsInjective(R) /\ ToSet(R) = ToSet(Q) \cup {t}
         /\ D \in [Timer -> Int] /\ CountsFit(R, D)
         /\ HeadWaits(Q, C) => HeadWaits(R, D)
         /\ LeftOf(Timer, R, D) = [LeftOf(Timer, Q, C) EXCEPT ![t] = n]
  BY StartLeft, SMTT(30) DEF k
<1> QED  BY <1>1, <1>2, <1>3, <1>4 DEF Added

LEMMA TimerCut ==
  ASSUME TimerTypes, IsInjective(sortList), CountsFit(sortList, uwCount),
         NEW t \in ToSet(sortList), NEW Q, Q = ListWithout(t), NEW C, C = CountsWithout(t)
  PROVE  /\ Q \in Seq(Timer) /\ IsInjective(Q) /\ ToSet(Q) = ToSet(sortList) \ {t}
         /\ C \in [Timer -> Int] /\ CountsFit(Q, C)
         /\ HeadWaits(sortList, uwCount) => HeadWaits(Q, C)
         /\ LeftOf(Timer, Q, C) = [TimerLeft EXCEPT ![t] = 0]
<1>1. C = CountsCut(sortList, uwCount, t) /\ Q = RemoveFirst(sortList, t)
  BY Zenon DEF CountsWithout, ListWithout
<1>2. TimerLeft = LeftOf(Timer, sortList, uwCount)
  BY DEF TimerLeft, LeftOf
<1>3. sortList \in Seq(Timer) /\ uwCount \in [Timer -> Int]
  BY DEF TimerTypes
<1> QED  BY <1>1, <1>2, <1>3, StopLeft
-----------------------------------------------------------------------------
(* The calls.                                                               *)

\* The operators on lists are those of the delay list.
LEMMA AlarmLists ==
  ASSUME NEW Q, NEW i, NEW x
  PROVE  /\ Alarms!ToSet(Q) = ToSet(Q)
         /\ Alarms!InsertAt(Q, i, x) = InsertAt(Q, i, x)
         /\ Alarms!RemoveFirst(Q, x) = RemoveFirst(Q, x)
         /\ Alarms!Cardinality(Q) = Cardinality(Q)
<1>1. Alarms!ToSet(Q) = ToSet(Q)
  BY DEF Alarms!ToSet, ToSet
<1>2. Alarms!InsertAt(Q, i, x) = InsertAt(Q, i, x)
  BY DEF Alarms!InsertAt, InsertAt
<1>3. Alarms!RemoveFirst(Q, x) = RemoveFirst(Q, x)
  BY DEF Alarms!RemoveFirst, RemoveFirst, Alarms!RemoveAt, RemoveAt, Alarms!SelectInSeq,
         SelectInSeq, Alarms!Min, Min
<1>4. Alarms!Cardinality(Q) = Cardinality(Q)
  BY DEF Alarms!Cardinality, Cardinality
<1> QED  BY <1>1, <1>2, <1>3, <1>4

LEMMA NothingHandled ==
  ASSUME TimerInv, tick.at \notin Handled
  PROVE  \A t \in Timer : /\ tick.timer # t
                          /\ t \in ToSet(sortList) <=> tmState[t] = "ticking"
BY SwTimerAssumption DEF TimerInv, TimerFits, TimersConsistent

LEMMA CreateKept ==
  ASSUME TimerInv, tick.at = "idle", UNCHANGED tick,
         NEW c, NEW t \in Timer, NEW s \in Settings, LOS_SwtmrCreate(c, t, s)
  PROVE  TimerInv' /\ UNCHANGED Alarms!timerVars
<1>0. TimerTypes /\ TimersConsistent /\ TimerFits
  BY DEF TimerInv
<1>1. /\ tmFree # <<>> /\ t = Head(tmFree) /\ tmFree' = Tail(tmFree)
      /\ tmSet' = [tmSet EXCEPT ![t] = s] /\ uwCount' = [uwCount EXCEPT ![t] = 0]
      /\ tmState' = [tmState EXCEPT ![t] = "created"] /\ sortList' = sortList
  BY DEF LOS_SwtmrCreate
<1>2. /\ tmFree' \in Seq(Timer) /\ IsInjective(tmFree') /\ ToSet(tmFree') = ToSet(tmFree) \ {t}
      /\ t \in ToSet(tmFree)
  BY <1>0, <1>1, HeadTailRange DEF TimerTypes, TimersConsistent
<1>3. tmState[t] = "unused" /\ t \notin ToSet(sortList)
  BY <1>0, <1>2 DEF TimersConsistent
<1>4. uwCount' \in [Timer -> Int] /\ \A u \in ToSet(sortList) : uwCount'[u] = uwCount[u]
  <2>1. ToSet(sortList) \subseteq Timer
    BY <1>0, InToSet DEF TimerTypes
  <2> QED  BY <1>0, <1>1, <1>3, <2>1 DEF TimerTypes
<1>5. /\ LeftOf(Timer, sortList, uwCount') = LeftOf(Timer, sortList, uwCount)
      /\ CountsFit(sortList, uwCount) => CountsFit(sortList, uwCount')
      /\ HeadWaits(sortList, uwCount) => HeadWaits(sortList, uwCount')
  BY <1>0, <1>4, SameLeft DEF TimerTypes, TimersConsistent
<1>6. UNCHANGED Alarms!timerVars
  <2>1. TimerLeft' = LeftOf(Timer, sortList', uwCount') /\ TimerLeft = LeftOf(Timer, sortList, uwCount)
    BY DEF TimerLeft, LeftOf
  <2> QED  BY <1>1, <1>5, <2>1 DEF Alarms!timerVars
<1>7. TimerTypes'
  BY <1>0, <1>1, <1>2, <1>4 DEF TimerTypes
<1>8. TimersConsistent'
  BY <1>0, <1>1, <1>2, <1>3 DEF TimersConsistent, TimerTypes
<1>9. TimerFits'
  <2>1. /\ tick' = tick /\ tick.timer = Null /\ tick.at \notin Handled
        /\ HeadWaits(sortList, uwCount)
    BY <1>0 DEF TimerFits, Handled
  <2>2. \A u \in Timer : tmState'[u] # "unused" => tmSet'[u] \in Settings
    BY <1>0, <1>1 DEF TimerFits, TimerTypes
  <2>3. CountsFit(sortList', uwCount') /\ HeadWaits(sortList', uwCount')
    BY <1>0, <1>1, <1>5, <2>1 DEF TimerFits
  <2> QED  BY <2>1, <2>2, <2>3 DEF TimerFits
<1> QED  BY <1>6, <1>7, <1>8, <1>9 DEF TimerInv

\* The interval of a timer in use.
LEMMA IntervalOf ==
  ASSUME TimerInv, NEW t \in Timer, tmState[t] # "unused"
  PROVE  /\ tmSet[t].interval \in Nat \ {0}
         /\ tmSet[t].interval \in {s.interval : s \in Settings}
<1>1. tmSet[t] \in Settings
  BY DEF TimerInv, TimerFits
<1>2. tmSet[t] \in [mode : Mode, interval : Nat \ {0}]
  BY <1>1, SwTimerAssumption
<1> QED  BY <1>1, <1>2

\* A timer that is not on the list is started, or one taken off it first.
LEMMA StartKept ==
  ASSUME TimerInv, tick.at \notin Handled, UNCHANGED <<tmFree, tmSet, tick>>,
         NEW t \in Timer,
         \/ tmState[t] = "created" /\ osSwTmrStart(sortList, uwCount, t)
         \/ tmState[t] = "ticking" /\ osSwTmrStart(ListWithout(t), CountsWithout(t), t)
  PROVE  TimerInv' /\ AlarmStep
<1>0. TimerTypes /\ TimersConsistent /\ TimerFits
  BY DEF TimerInv
<1> DEFINE on == tmState[t] = "ticking"
<1>1. PICK n \in Nat \ {0} : /\ n = tmSet[t].interval /\ n \in {s.interval : s \in Settings}
                            /\ tmState[t] # "unused"
  BY IntervalOf
<1>2. PICK Q, C : /\ Q = IF on THEN ListWithout(t) ELSE sortList
                  /\ C = IF on THEN CountsWithout(t) ELSE uwCount
  OBVIOUS
<1>3. osSwTmrStart(Q, C, t) /\ tmState' = [tmState EXCEPT ![t] = "ticking"]
  BY <1>2 DEF osSwTmrStart
<1>4. /\ Q \in Seq(Timer) /\ IsInjective(Q) /\ ToSet(Q) = ToSet(sortList) \ {t}
      /\ C \in [Timer -> Int] /\ CountsFit(Q, C)
      /\ HeadWaits(sortList, uwCount) => HeadWaits(Q, C)
      /\ LeftOf(Timer, Q, C) = [TimerLeft EXCEPT ![t] = 0]
  <2>1. CASE on
    <3>1. t \in ToSet(sortList) /\ Q = ListWithout(t) /\ C = CountsWithout(t)
      BY <1>2, <2>1, NothingHandled
    <3> HIDE DEF on
    <3> QED  BY <1>0, <3>1, TimerCut DEF TimersConsistent, TimerFits
  <2>2. CASE ~on
    <3>1. t \notin ToSet(sortList) /\ Q = sortList /\ C = uwCount
      BY <1>2, <2>2, NothingHandled
    <3>2. TimerLeft = LeftOf(Timer, sortList, uwCount)
      BY DEF TimerLeft, LeftOf
    <3>3. TimerLeft \in [Timer -> Int] /\ TimerLeft[t] = 0
      <4>1. sortList \in Seq(Timer) /\ IsInjective(sortList) /\ uwCount \in [Timer -> Int]
        BY <1>0 DEF TimerTypes, TimersConsistent
      <4> HIDE DEF on
      <4> QED  BY <3>1, <3>2, <4>1, LeftIs
    <3>4. TimerLeft = [TimerLeft EXCEPT ![t] = 0]
      BY <3>3
    <3> QED  BY <1>0, <3>1, <3>2, <3>4 DEF TimerTypes, TimersConsistent, TimerFits
  <2> QED  BY <2>1, <2>2
<1>5. /\ sortList' \in Seq(Timer) /\ IsInjective(sortList')
      /\ ToSet(sortList') = ToSet(Q) \cup {t}
      /\ uwCount' \in [Timer -> Int] /\ CountsFit(sortList', uwCount')
      /\ HeadWaits(Q, C) => HeadWaits(sortList', uwCount')
      /\ TimerLeft' = [LeftOf(Timer, Q, C) EXCEPT ![t] = n]
      /\ sortList' = InsertAt(Q, PlaceBy(Q, LeftOf(Timer, Q, C), n), t)
  <2>1. t \in Timer \ ToSet(Q)
    BY <1>4
  <2>2. Added(Q, C, t, n)
    BY <1>1, <1>3, <1>4, <2>1, TimerAdd
  <2> QED  BY <2>2 DEF Added
<1>6. TimerLeft \in [Timer -> Int]
  <2>1. TimerLeft = LeftOf(Timer, sortList, uwCount)
    BY DEF TimerLeft, LeftOf
  <2> QED  BY <1>0, <2>1, LeftIs DEF TimerTypes, TimersConsistent
<1>7. TimerLeft' = [TimerLeft EXCEPT ![t] = n]
  BY <1>4, <1>5, <1>6
<1>8. PlaceBy(Q, LeftOf(Timer, Q, C), n) = PlaceBy(Q, TimerLeft, n)
  <2>1. ASSUME NEW i \in DOMAIN Q PROVE LeftOf(Timer, Q, C)[Q[i]] = TimerLeft[Q[i]]
    <3>1. Q[i] \in Timer /\ Q[i] # t
      BY <1>4, InToSet
    <3> QED  BY <1>4, <1>6, <3>1
  <2>2. {i \in DOMAIN Q : LeftOf(Timer, Q, C)[Q[i]] <= n} = {i \in DOMAIN Q : TimerLeft[Q[i]] <= n}
    BY <2>1
  <2> QED  BY <2>2 DEF PlaceBy
<1>9. sortList' = Alarms!AddTimer(Q, t, n)
  <2>1. Alarms!AddTimer(Q, t, n) = Alarms!InsertAt(Q, PlaceBy(Q, TimerLeft, n), t)
    BY AlarmLists DEF Alarms!AddTimer, PlaceBy
  <2> QED  BY <1>5, <1>8, <2>1, AlarmLists
<1>10. AlarmStep
  <2>1. CASE on
    <3>1. t \in ToSet(sortList) /\ Q = Alarms!DelTimer(sortList, t)
      BY <1>2, <2>1, NothingHandled, AlarmLists DEF ListWithout, Alarms!DelTimer
    <3>2. Restart(t)
      BY <1>1, <1>7, <1>9, <3>1 DEF Restart
    <3> QED  BY <3>2 DEF AlarmStep
  <2>2. CASE ~on
    <3>1. t \notin ToSet(sortList) /\ Q = sortList
      BY <1>2, <2>2, NothingHandled
    <3>2. Alarms!Enter(t, n)
      BY <1>7, <1>9, <3>1, AlarmLists DEF Alarms!Enter
    <3>3. Alarms!TimerNext
      BY <1>1, <3>2 DEF Alarms!TimerNext
    <3> QED  BY <3>3 DEF AlarmStep
  <2> QED  BY <2>1, <2>2
<1>11. TimerTypes'
  BY <1>0, <1>3, <1>5 DEF TimerTypes
<1>12. TimersConsistent'
  <2>1. \A u \in Timer : u \in ToSet(sortList) <=> tmState[u] = "ticking"
    BY NothingHandled
  <2>2. \A u \in Timer : tick'.timer # u
    BY NothingHandled
  <2>3. ToSet(sortList') = ToSet(sortList) \cup {t} /\ ToSet(sortList) \subseteq Timer
    BY <1>0, <1>4, <1>5, InToSet DEF TimerTypes
  <2>4. ToSet(sortList') = {u \in Timer : tmState'[u] = "ticking" /\ tick'.timer # u}
    BY <1>0, <1>3, <2>1, <2>2, <2>3 DEF TimerTypes
  <2>5. ToSet(tmFree') = {u \in Timer : tmState'[u] = "unused"}
    BY <1>0, <1>1, <1>3 DEF TimersConsistent, TimerTypes
  <2> QED  BY <1>0, <1>5, <2>4, <2>5 DEF TimersConsistent
<1>13. TimerFits'
  <2>1. \A u \in Timer : tmState'[u] # "unused" => tmSet'[u] \in Settings
    BY <1>0, <1>1, <1>3 DEF TimerFits, TimerTypes
  <2>2. tick.at \in {"idle", "count"} => HeadWaits(sortList', uwCount')
    BY <1>0, <1>4, <1>5 DEF TimerFits
  <2> QED  BY <1>0, <1>5, <2>1, <2>2 DEF TimerFits
<1> QED  BY <1>10, <1>11, <1>12, <1>13 DEF TimerInv

LEMMA StopKept ==
  ASSUME TimerInv, tick.at \notin Handled, UNCHANGED tick,
         NEW t \in Timer, tmState[t] = "ticking",
         sortList' = ListWithout(t), uwCount' = CountsWithout(t)
  PROVE  /\ AlarmStep
         /\ sortList' \in Seq(Timer) /\ IsInjective(sortList')
         /\ ToSet(sortList') = ToSet(sortList) \ {t}
         /\ uwCount' \in [Timer -> Int] /\ CountsFit(sortList', uwCount')
         /\ HeadWaits(sortList, uwCount) => HeadWaits(sortList', uwCount')
<1>0. TimerTypes /\ TimersConsistent /\ TimerFits
  BY DEF TimerInv
<1>1. t \in ToSet(sortList)
  BY NothingHandled
<1>2. /\ sortList' \in Seq(Timer) /\ IsInjective(sortList')
      /\ ToSet(sortList') = ToSet(sortList) \ {t}
      /\ uwCount' \in [Timer -> Int] /\ CountsFit(sortList', uwCount')
      /\ HeadWaits(sortList, uwCount) => HeadWaits(sortList', uwCount')
      /\ LeftOf(Timer, sortList', uwCount') = [TimerLeft EXCEPT ![t] = 0]
  BY <1>0, <1>1, TimerCut DEF TimersConsistent, TimerFits
<1>3. TimerLeft' = [TimerLeft EXCEPT ![t] = 0]
  <2>1. TimerLeft' = LeftOf(Timer, sortList', uwCount')
    BY DEF TimerLeft, LeftOf
  <2> QED  BY <1>2, <2>1
<1>4. Alarms!Leave(t)
  BY <1>1, <1>3, AlarmLists DEF Alarms!Leave, Alarms!DelTimer, ListWithout
<1>5. AlarmStep
  BY <1>4 DEF AlarmStep, Alarms!TimerNext
<1> QED  BY <1>2, <1>5

LEMMA StopCallKept ==
  ASSUME TimerInv, tick.at = "idle", UNCHANGED tick, NEW c, NEW id, LOS_SwtmrStop(c, id)
  PROVE  TimerInv' /\ AlarmStep
<1>0. TimerTypes /\ TimersConsistent /\ TimerFits /\ tick.at \notin Handled
  BY DEF TimerInv, Handled
<1>1. PICK t \in Timer : /\ tmState[t] = "ticking" /\ tmState' = [tmState EXCEPT ![t] = "created"]
                         /\ sortList' = ListWithout(t) /\ uwCount' = CountsWithout(t)
                         /\ UNCHANGED <<tmFree, tmSet>>
  BY DEF LOS_SwtmrStop
<1>2. /\ AlarmStep
      /\ sortList' \in Seq(Timer) /\ IsInjective(sortList')
      /\ ToSet(sortList') = ToSet(sortList) \ {t}
      /\ uwCount' \in [Timer -> Int] /\ CountsFit(sortList', uwCount')
      /\ HeadWaits(sortList, uwCount) => HeadWaits(sortList', uwCount')
  BY <1>0, <1>1, StopKept
<1>3. TimerTypes'
  BY <1>0, <1>1, <1>2 DEF TimerTypes
<1>4. TimersConsistent'
  BY <1>0, <1>1, <1>2 DEF TimersConsistent, TimerTypes
<1>5. TimerFits'
  <2>1. \A u \in Timer : tmState'[u] # "unused" => tmSet'[u] \in Settings
    BY <1>0, <1>1 DEF TimerFits, TimerTypes
  <2> QED  BY <1>0, <1>2, <2>1 DEF TimerFits
<1> QED  BY <1>2, <1>3, <1>4, <1>5 DEF TimerInv

\* A block that goes back to the free list.
LEMMA FreeKept ==
  ASSUME TimerInv, NEW t \in Timer, tmState[t] # "unused", osSwtmrDelete(t)
  PROVE  /\ tmFree' \in Seq(Timer) /\ IsInjective(tmFree')
         /\ ToSet(tmFree') = ToSet(tmFree) \cup {t} /\ t \notin ToSet(tmFree)
         /\ tmState' = [tmState EXCEPT ![t] = "unused"]
         /\ tmSet' = [tmSet EXCEPT ![t] = Unset]
<1>1. tmFree \in Seq(Timer) /\ IsInjective(tmFree) /\ t \notin ToSet(tmFree)
  BY DEF TimerInv, TimerTypes, TimersConsistent
<1>2. /\ <<t>> \in Seq(Timer) /\ ToSet(<<t>>) = {t} /\ IsInjective(<<t>>)
  BY SingletonRange
<1>3. /\ tmFree' = <<t>> \o tmFree /\ tmState' = [tmState EXCEPT ![t] = "unused"]
      /\ tmSet' = [tmSet EXCEPT ![t] = Unset]
  BY DEF osSwtmrDelete
<1>4. PICK w : w = <<t>>
  OBVIOUS
<1>5. w \in Seq(Timer) /\ ToSet(w) = {t} /\ IsInjective(w) /\ tmFree' = w \o tmFree
  BY <1>2, <1>3, <1>4
<1>6. ToSet(w) \cap ToSet(tmFree) = {}
  BY <1>1, <1>5
<1>7. /\ tmFree' \in Seq(Timer) /\ IsInjective(tmFree')
      /\ ToSet(tmFree') = ToSet(w) \cup ToSet(tmFree)
  BY <1>1, <1>5, <1>6, ConcatRange
<1> QED  BY <1>1, <1>3, <1>5, <1>7

LEMMA DeleteKept ==
  ASSUME TimerInv, tick.at = "idle", UNCHANGED tick, NEW c, NEW id, LOS_SwtmrDelete(c, id)
  PROVE  TimerInv' /\ AlarmStep
<1>0. TimerTypes /\ TimersConsistent /\ TimerFits /\ tick.at \notin Handled
  BY DEF TimerInv, Handled
<1>1. PICK t \in Timer :
        /\ osSwtmrDelete(t)
        /\ \/ tmState[t] = "created" /\ UNCHANGED <<sortList, uwCount>>
           \/ /\ tmState[t] = "ticking"
              /\ sortList' = ListWithout(t) /\ uwCount' = CountsWithout(t)
  BY DEF LOS_SwtmrDelete
<1>2. /\ tmFree' \in Seq(Timer) /\ IsInjective(tmFree')
      /\ ToSet(tmFree') = ToSet(tmFree) \cup {t}
      /\ tmState' = [tmState EXCEPT ![t] = "unused"]
      /\ tmSet' = [tmSet EXCEPT ![t] = Unset]
  BY <1>1, FreeKept
<1>3. /\ AlarmStep
      /\ sortList' \in Seq(Timer) /\ IsInjective(sortList')
      /\ ToSet(sortList') = ToSet(sortList) \ {t}
      /\ uwCount' \in [Timer -> Int] /\ CountsFit(sortList', uwCount')
      /\ HeadWaits(sortList, uwCount) => HeadWaits(sortList', uwCount')
  <2>1. CASE tmState[t] = "created" /\ UNCHANGED <<sortList, uwCount>>
    <3>1. t \notin ToSet(sortList)
      BY <1>0, <2>1, NothingHandled
    <3>2. UNCHANGED Alarms!timerVars
      BY <2>1 DEF Alarms!timerVars, TimerLeft
    <3> QED  BY <1>0, <2>1, <3>1, <3>2 DEF AlarmStep, TimerTypes, TimersConsistent, TimerFits
  <2>2. CASE tmState[t] = "ticking" /\ sortList' = ListWithout(t) /\ uwCount' = CountsWithout(t)
    BY <1>0, <2>2, StopKept
  <2> QED  BY <1>1, <2>1, <2>2
<1>4. TimerTypes'
  BY <1>0, <1>2, <1>3 DEF TimerTypes
<1>5. TimersConsistent'
  BY <1>0, <1>2, <1>3 DEF TimersConsistent, TimerTypes
<1>6. TimerFits'
  <2>1. \A u \in Timer : tmState'[u] # "unused" => tmSet'[u] \in Settings
    BY <1>0, <1>2 DEF TimerFits, TimerTypes
  <2>2. tick'.timer = Null /\ tick'.at \notin Handled /\ HeadWaits(sortList, uwCount)
    BY <1>0 DEF TimerFits
  <2> QED  BY <1>3, <2>1, <2>2 DEF TimerFits
<1> QED  BY <1>3, <1>4, <1>5, <1>6 DEF TimerInv

LEMMA CallKept == TimerInv /\ CallStep => TimerInv' /\ AlarmStep
<1> SUFFICES ASSUME TimerInv, CallStep PROVE TimerInv' /\ AlarmStep
  OBVIOUS
<1>0. tick.at = "idle" /\ UNCHANGED tick /\ tick.at \notin Handled
  BY DEF CallStep, Handled
<1>1. ASSUME NEW c, NEW t \in Timer, NEW s \in Settings, LOS_SwtmrCreate(c, t, s)
      PROVE  TimerInv' /\ AlarmStep
  BY <1>0, <1>1, CreateKept DEF AlarmStep
<1>2. ASSUME NEW c, NEW id, LOS_SwtmrStart(c, id) PROVE TimerInv' /\ AlarmStep
  <2>1. UNCHANGED <<tmFree, tmSet, tick>>
    BY <1>0, <1>2 DEF LOS_SwtmrStart
  <2>2. PICK t \in Timer :
          \/ tmState[t] = "created" /\ osSwTmrStart(sortList, uwCount, t)
          \/ tmState[t] = "ticking" /\ osSwTmrStart(ListWithout(t), CountsWithout(t), t)
    BY <1>2 DEF LOS_SwtmrStart
  <2> QED  BY <1>0, <2>1, <2>2, StartKept
<1>3. ASSUME NEW c, NEW id, LOS_SwtmrStop(c, id) PROVE TimerInv' /\ AlarmStep
  BY <1>0, <1>3, StopCallKept
<1>4. ASSUME NEW c, NEW id, LOS_SwtmrDelete(c, id) PROVE TimerInv' /\ AlarmStep
  BY <1>0, <1>4, DeleteKept
<1> QED  BY <1>1, <1>2, <1>3, <1>4 DEF CallStep

-----------------------------------------------------------------------------
(* The tick.                                                                *)

LEMMA CountKept == TimerInv /\ osSwtmrScan => TimerInv' /\ AlarmStep
<1> SUFFICES ASSUME TimerInv, osSwtmrScan PROVE TimerInv' /\ AlarmStep
  OBVIOUS
<1>0. TimerTypes /\ TimersConsistent /\ TimerFits
  BY DEF TimerInv
<1>1. /\ tick.at = "count" /\ HeadWaits(sortList, uwCount) /\ tick.timer = Null
      /\ UNCHANGED <<tmState, tmFree, sortList, tmSet>>
  BY <1>0 DEF osSwtmrScan, TimerFits, Handled
<1>2. CASE sortList = <<>> /\ tick' = NoTick /\ UNCHANGED uwCount
  <2>1. UNCHANGED Alarms!timerVars
    BY <1>1, <1>2 DEF Alarms!timerVars, TimerLeft
  <2>2. TimerTypes'
    BY <1>0, <1>1, <1>2 DEF TimerTypes, NoTick
  <2>3. tick'.timer = Null /\ tick'.at = "idle"
    BY <1>2 DEF NoTick
  <2>4. TimersConsistent'
    BY <1>0, <1>1, <2>3 DEF TimersConsistent
  <2>5. TimerFits'
    BY <1>0, <1>1, <1>2, <2>3 DEF TimerFits, Handled
  <2> QED  BY <2>1, <2>2, <2>4, <2>5 DEF TimerInv, AlarmStep
<1>3. CASE /\ sortList # <<>> /\ uwCount' = [uwCount EXCEPT ![Head(sortList)] = @ - 1]
           /\ tick' = IF uwCount'[Head(sortList)] = 0 THEN [NoTick EXCEPT !.at = "loop"]
                      ELSE NoTick
  <2> DEFINE f == LeftOf(Timer, sortList, uwCount)
  <2>0. /\ sortList \in Seq(Timer) /\ IsInjective(sortList) /\ uwCount \in [Timer -> Int]
        /\ CountsFit(sortList, uwCount)
    BY <1>0 DEF TimerTypes, TimersConsistent, TimerFits
  <2>1. /\ uwCount' \in [Timer -> Int] /\ CountsFit(sortList, uwCount')
        /\ LeftOf(Timer, sortList, uwCount') =
             [u \in Timer |-> IF u \in ToSet(sortList) THEN f[u] - 1 ELSE f[u]]
    <3>1. HeadWaits(sortList, uwCount) /\ sortList # <<>>
      BY <1>1, <1>3
    <3>2. /\ uwCount' \in [Timer -> Int]
          /\ uwCount'[Head(sortList)] = uwCount[Head(sortList)] - 1
          /\ \A u \in Timer \ {Head(sortList)} : uwCount'[u] = uwCount[u]
      <4>1. Head(sortList) \in Timer
        BY <2>0, <3>1, HeadTailRange
      <4>2. uwCount' = [uwCount EXCEPT ![Head(sortList)] = @ - 1] /\ uwCount \in [Timer -> Int]
        BY <1>3, <2>0
      <4> QED  BY <4>1, <4>2
    <3> QED  BY <2>0, <3>1, <3>2, CountLeft, SMTT(30)
  <2>2. \A u \in ToSet(sortList) : f[u] > 0
    BY <1>1, <2>0, AllWait
  <2> HIDE DEF f
  <2>3. TimerLeft = f /\ TimerLeft' = LeftOf(Timer, sortList, uwCount')
    BY <1>1 DEF TimerLeft, LeftOf, f
  <2>4. Alarms!CountTick
    BY <1>1, <2>1, <2>2, <2>3, AlarmLists DEF Alarms!CountTick, Alarms!Countdown
  <2>5. AlarmStep
    BY <2>4 DEF AlarmStep, Alarms!TimerNext
  <2>6. /\ tick'.timer = Null /\ tick'.at \in {"loop", "idle"}
        /\ tick'.at = "idle" => uwCount'[Head(sortList)] # 0
        /\ tick' \in [at : {"idle", "count", "loop", "write", "rearm"},
                     timer : Timer \cup {Null}, box : Box \cup {Null}]
    <3>1. tick' = NoTick \/ tick' = [NoTick EXCEPT !.at = "loop"]
      BY <1>3
    <3>2. tick' = NoTick => uwCount'[Head(sortList)] # 0
      BY <1>3 DEF NoTick
    <3> QED  BY <3>1, <3>2 DEF NoTick
  <2>7. TimerTypes'
    BY <1>0, <1>1, <2>1, <2>6 DEF TimerTypes
  <2>8. TimersConsistent'
    BY <1>0, <1>1, <2>6 DEF TimersConsistent
  <2>9. Head(sortList) = sortList[1] /\ 1 \in 1..Len(sortList) /\ Head(sortList) \in Timer
    BY <1>3, <2>0, HeadTailProperties, EmptySeq, InToSet
  <2>10. uwCount'[Head(sortList)] >= 0 /\ uwCount'[Head(sortList)] \in Int
    BY <2>1, <2>9 DEF CountsFit
  <2>11. TimerFits'
    <3>1. tick'.at \in {"idle", "count"} => HeadWaits(sortList', uwCount')
      BY <1>1, <2>6, <2>10 DEF HeadWaits
    <3>2. CountsFit(sortList', uwCount')
      BY <1>1, <2>1
    <3> QED  BY <1>0, <1>1, <2>6, <3>1, <3>2 DEF TimerFits, Handled
  <2> QED  BY <2>5, <2>7, <2>8, <2>11 DEF TimerInv
<1> QED  BY <1>2, <1>3 DEF osSwtmrScan

\* The first timer leaves the list and is handled.
LEMMA ExpireKept ==
  ASSUME TimerInv, tick.at = "loop", sortList # <<>>, uwCount[Head(sortList)] = 0,
         sortList' = Tail(sortList), UNCHANGED <<tmState, tmFree, uwCount, tmSet>>,
         tick'.timer = Head(sortList), tick'.at \in Handled,
         tick' \in [at : Handled, timer : Timer, box : Box \cup {Null}]
  PROVE  TimerInv' /\ AlarmStep
<1>0. TimerTypes /\ TimersConsistent /\ TimerFits
  BY DEF TimerInv
<1>1. /\ sortList \in Seq(Timer) /\ IsInjective(sortList) /\ uwCount \in [Timer -> Int]
      /\ CountsFit(sortList, uwCount)
  BY <1>0 DEF TimerTypes, TimersConsistent, TimerFits
<1>2. /\ LeftOf(Timer, sortList, uwCount)[Head(sortList)] = 0
      /\ LeftOf(Timer, Tail(sortList), uwCount) = LeftOf(Timer, sortList, uwCount)
      /\ CountsFit(Tail(sortList), uwCount)
  BY <1>1, TailLeft
<1>3. /\ Head(sortList) \in Timer /\ sortList' \in Seq(Timer) /\ IsInjective(sortList')
      /\ ToSet(sortList) = ToSet(sortList') \cup {Head(sortList)}
      /\ Head(sortList) \notin ToSet(sortList')
  BY <1>1, HeadTailRange
<1>4. TimerLeft = LeftOf(Timer, sortList, uwCount) /\ TimerLeft' = LeftOf(Timer, sortList', uwCount')
  BY DEF TimerLeft, LeftOf
<1>5. Alarms!Expire
  BY <1>2, <1>4 DEF Alarms!Expire
<1>6. AlarmStep
  BY <1>5 DEF AlarmStep, Alarms!TimerNext
<1>7. TimerTypes'
  BY <1>0, <1>3 DEF TimerTypes, Handled
<1>8. \A u \in Timer : u \in ToSet(sortList) <=> tmState[u] = "ticking"
  BY NothingHandled DEF Handled
<1>9. TimersConsistent'
  <2>1. ToSet(sortList') = {u \in Timer : tmState'[u] = "ticking" /\ tick'.timer # u}
    <3>1. ToSet(sortList') \subseteq Timer
      BY <1>3, InToSet
    <3> QED  BY <1>3, <1>8, <3>1
  <2> QED  BY <1>0, <1>3, <2>1 DEF TimersConsistent
<1>10. TimerFits'
  <2>1. tmState'[tick'.timer] = "ticking" /\ tick'.timer \in Timer
    BY <1>3, <1>8
  <2> QED  BY <1>0, <1>2, <2>1 DEF TimerFits, Handled
<1> QED  BY <1>6, <1>7, <1>9, <1>10 DEF TimerInv

LEMMA DropKept == TimerInv /\ TimeoutDrop => TimerInv' /\ AlarmStep
<1> SUFFICES ASSUME TimerInv, TimeoutDrop PROVE TimerInv' /\ AlarmStep
  OBVIOUS
<1>1. /\ tick.at = "loop" /\ sortList # <<>> /\ uwCount[Head(sortList)] = 0
      /\ sortList' = Tail(sortList) /\ UNCHANGED <<tmState, tmFree, uwCount, tmSet>>
      /\ tick' = [at |-> "rearm", timer |-> Head(sortList), box |-> Null]
  BY DEF TimeoutDrop, NoTick
<1>2. Head(sortList) \in Timer
  BY <1>1, HeadTailRange DEF TimerInv, TimerTypes
<1>3. /\ tick'.timer = Head(sortList) /\ tick'.at \in Handled
      /\ tick' \in [at : Handled, timer : Timer, box : Box \cup {Null}]
  BY <1>1, <1>2 DEF Handled
<1> QED  BY <1>1, <1>3, ExpireKept

LEMMA TakeKept ==
  ASSUME TimerInv, NEW b \in Box, TimeoutTake(b)
  PROVE  TimerInv' /\ AlarmStep
<1>1. /\ tick.at = "loop" /\ sortList # <<>> /\ uwCount[Head(sortList)] = 0
      /\ sortList' = Tail(sortList) /\ UNCHANGED <<tmState, tmFree, uwCount, tmSet>>
      /\ tick' = [at |-> "write", timer |-> Head(sortList), box |-> b]
  BY DEF TimeoutTake
<1>2. Head(sortList) \in Timer
  BY <1>1, HeadTailRange DEF TimerInv, TimerTypes
<1>3. /\ tick'.timer = Head(sortList) /\ tick'.at \in Handled
      /\ tick' \in [at : Handled, timer : Timer, box : Box \cup {Null}]
  BY <1>1, <1>2 DEF Handled
<1> QED  BY <1>1, <1>3, ExpireKept

LEMMA WriteKept == TimerInv /\ TimeoutWrite => TimerInv' /\ AlarmStep
<1> SUFFICES ASSUME TimerInv, TimeoutWrite PROVE TimerInv' /\ AlarmStep
  OBVIOUS
<1>0. TimerTypes /\ TimersConsistent /\ TimerFits
  BY DEF TimerInv
<1>1. /\ tick.at = "write" /\ UNCHANGED <<tmState, tmFree, sortList, uwCount, tmSet>>
      /\ tick' = [tick EXCEPT !.at = "rearm", !.box = Null]
  BY DEF TimeoutWrite, timerLists
<1>2. /\ tick'.at = "rearm" /\ tick'.timer = tick.timer
      /\ tick' \in [at : {"idle", "count", "loop", "write", "rearm"},
                   timer : Timer \cup {Null}, box : Box \cup {Null}]
  BY <1>0, <1>1 DEF TimerTypes
<1>3. UNCHANGED Alarms!timerVars
  BY <1>1 DEF Alarms!timerVars, TimerLeft
<1>4. TimerTypes' /\ TimersConsistent'
  BY <1>0, <1>1, <1>2 DEF TimerTypes, TimersConsistent
<1>5. TimerFits'
  BY <1>0, <1>1, <1>2 DEF TimerFits, Handled
<1> QED  BY <1>3, <1>4, <1>5 DEF TimerInv, AlarmStep

LEMMA OnceKept == TimerInv /\ TimeoutOnce => TimerInv' /\ AlarmStep
<1> SUFFICES ASSUME TimerInv, TimeoutOnce PROVE TimerInv' /\ AlarmStep
  OBVIOUS
<1>0. TimerTypes /\ TimersConsistent /\ TimerFits
  BY DEF TimerInv
<1>1. /\ tick.at = "rearm" /\ osSwtmrDelete(tick.timer) /\ UNCHANGED <<sortList, uwCount>>
      /\ tick' = [at |-> "loop", timer |-> Null, box |-> Null]
  BY DEF TimeoutOnce, NoTick
<1>2. PICK t \in Timer : t = tick.timer /\ tmState[t] = "ticking"
  BY <1>0, <1>1 DEF TimerFits, Handled
<1>3. /\ tmFree' \in Seq(Timer) /\ IsInjective(tmFree')
      /\ ToSet(tmFree') = ToSet(tmFree) \cup {t} /\ t \notin ToSet(tmFree)
      /\ tmState' = [tmState EXCEPT ![t] = "unused"]
      /\ tmSet' = [tmSet EXCEPT ![t] = Unset]
  <2>1. osSwtmrDelete(t) /\ tmState[t] # "unused"
    BY <1>1, <1>2
  <2> QED  BY <2>1, FreeKept
<1>4. UNCHANGED Alarms!timerVars
  BY <1>1 DEF Alarms!timerVars, TimerLeft
<1>5. tick'.at = "loop" /\ tick'.timer = Null /\ \A u \in Timer : tick'.timer # u
  BY <1>1, SwTimerAssumption
<1>6. TimerTypes'
  BY <1>0, <1>1, <1>3 DEF TimerTypes
<1>7. TimersConsistent'
  <2>1. ToSet(sortList') = {u \in Timer : tmState'[u] = "ticking" /\ tick'.timer # u}
    BY <1>0, <1>1, <1>2, <1>3, <1>5 DEF TimersConsistent, TimerTypes
  <2>2. ToSet(tmFree') = {u \in Timer : tmState'[u] = "unused"}
    BY <1>0, <1>3 DEF TimersConsistent, TimerTypes
  <2> QED  BY <1>0, <1>1, <1>3, <2>1, <2>2 DEF TimersConsistent
<1>8. TimerFits'
  <2>1. \A u \in Timer : tmState'[u] # "unused" => tmSet'[u] \in Settings
    BY <1>0, <1>3 DEF TimerFits, TimerTypes
  <2> QED  BY <1>0, <1>1, <1>5, <2>1 DEF TimerFits, Handled
<1> QED  BY <1>4, <1>6, <1>7, <1>8 DEF TimerInv, AlarmStep

LEMMA PeriodKept == TimerInv /\ TimeoutPeriod => TimerInv' /\ AlarmStep
<1> SUFFICES ASSUME TimerInv, TimeoutPeriod PROVE TimerInv' /\ AlarmStep
  OBVIOUS
<1>0. TimerTypes /\ TimersConsistent /\ TimerFits
  BY DEF TimerInv
<1>1. /\ tick.at = "rearm" /\ osSwTmrStart(sortList, uwCount, tick.timer)
      /\ UNCHANGED <<tmFree, tmSet>>
      /\ tick' = [at |-> "loop", timer |-> Null, box |-> Null]
  BY DEF TimeoutPeriod, NoTick
<1>2. PICK t \in Timer : t = tick.timer /\ tmState[t] = "ticking"
  BY <1>0, <1>1 DEF TimerFits, Handled
<1>3. PICK n \in Nat \ {0} : n = tmSet[t].interval /\ n \in {s.interval : s \in Settings}
  BY <1>2, IntervalOf
<1>4. osSwTmrStart(sortList, uwCount, t) /\ tmState' = [tmState EXCEPT ![t] = "ticking"]
  BY <1>1, <1>2 DEF osSwTmrStart
<1>5. t \in Timer \ ToSet(sortList)
  BY <1>0, <1>2 DEF TimersConsistent
<1>6. /\ sortList \in Seq(Timer) /\ IsInjective(sortList) /\ uwCount \in [Timer -> Int]
      /\ CountsFit(sortList, uwCount)
  BY <1>0 DEF TimerTypes, TimersConsistent, TimerFits
<1>7. Added(sortList, uwCount, t, n)
  BY <1>3, <1>4, <1>5, <1>6, TimerAdd
<1>8. TimerLeft = LeftOf(Timer, sortList, uwCount)
  BY DEF TimerLeft, LeftOf
<1>9. sortList' = Alarms!AddTimer(sortList, t, n)
  <2>1. Alarms!AddTimer(sortList, t, n) = Alarms!InsertAt(sortList, PlaceBy(sortList, TimerLeft, n), t)
    BY AlarmLists DEF Alarms!AddTimer, PlaceBy
  <2> QED  BY <1>7, <1>8, <2>1, AlarmLists DEF Added
<1>10. Alarms!Enter(t, n)
  BY <1>5, <1>7, <1>8, <1>9, AlarmLists DEF Alarms!Enter, Added
<1>11. AlarmStep
  <2>1. Alarms!TimerNext
    BY <1>3, <1>10 DEF Alarms!TimerNext
  <2> QED  BY <2>1 DEF AlarmStep
<1>12. /\ sortList' \in Seq(Timer) /\ IsInjective(sortList')
       /\ ToSet(sortList') = ToSet(sortList) \cup {t}
       /\ uwCount' \in [Timer -> Int] /\ CountsFit(sortList', uwCount')
  BY <1>7 DEF Added
<1>13. tick'.at = "loop" /\ tick'.timer = Null /\ \A u \in Timer : tick'.timer # u
  BY <1>1, SwTimerAssumption
<1>14. TimerTypes'
  BY <1>0, <1>1, <1>4, <1>12 DEF TimerTypes
<1>15. tmState' = tmState
  BY <1>0, <1>2, <1>4 DEF TimerTypes
<1>16. TimersConsistent'
  <2>1. ToSet(sortList') = {u \in Timer : tmState'[u] = "ticking" /\ tick'.timer # u}
    BY <1>0, <1>2, <1>12, <1>13, <1>15 DEF TimersConsistent
  <2> QED  BY <1>0, <1>1, <1>12, <1>15, <2>1 DEF TimersConsistent
<1>17. TimerFits'
  BY <1>0, <1>1, <1>12, <1>13, <1>15 DEF TimerFits, Handled
<1> QED  BY <1>11, <1>14, <1>16, <1>17 DEF TimerInv

LEMMA EndKept == TimerInv /\ TimeoutEnd => TimerInv' /\ AlarmStep
<1> SUFFICES ASSUME TimerInv, TimeoutEnd PROVE TimerInv' /\ AlarmStep
  OBVIOUS
<1>0. TimerTypes /\ TimersConsistent /\ TimerFits
  BY DEF TimerInv
<1>1. /\ tick.at = "loop" /\ UNCHANGED <<tmState, tmFree, sortList, uwCount, tmSet>>
      /\ tick' = NoTick /\ HeadWaits(sortList, uwCount)
  BY DEF TimeoutEnd, timerLists, HeadWaits
<1>2. tick.timer = Null /\ tick'.timer = Null /\ tick'.at = "idle"
  BY <1>0, <1>1 DEF NoTick, TimerFits, Handled
<1>3. UNCHANGED Alarms!timerVars
  BY <1>1 DEF Alarms!timerVars, TimerLeft
<1>4. TimerTypes'
  BY <1>0, <1>1 DEF TimerTypes, NoTick
<1>5. TimersConsistent'
  BY <1>0, <1>1, <1>2 DEF TimersConsistent
<1>6. TimerFits'
  BY <1>0, <1>1, <1>2 DEF TimerFits, Handled
<1> QED  BY <1>3, <1>4, <1>5, <1>6 DEF TimerInv, AlarmStep

\* Where nothing of the timers changes.
LEMMA RestKept ==
  ASSUME TimerInv, UNCHANGED timerLists,
         \/ UNCHANGED tick
         \/ tick.at = "idle" /\ tick' = [NoTick EXCEPT !.at = "count"]
  PROVE  TimerInv' /\ AlarmStep
<1>0. TimerTypes /\ TimersConsistent /\ TimerFits
  BY DEF TimerInv
<1>1. UNCHANGED <<tmState, tmFree, sortList, uwCount, tmSet>>
  BY DEF timerLists
<1>2. UNCHANGED Alarms!timerVars
  BY <1>1 DEF Alarms!timerVars, TimerLeft
<1>3. CASE UNCHANGED tick
  BY <1>0, <1>1, <1>2, <1>3
  DEF TimerInv, TimerTypes, TimersConsistent, TimerFits, AlarmStep
<1>4. CASE tick.at = "idle" /\ tick' = [NoTick EXCEPT !.at = "count"]
  <2>1. tick' = [at |-> "count", timer |-> Null, box |-> Null]
    BY <1>4 DEF NoTick
  <2>2. tick.timer = Null /\ tick'.timer = Null /\ tick'.at = "count"
    BY <1>0, <1>4, <2>1 DEF TimerFits, Handled
  <2>3. TimerTypes'
    BY <1>0, <1>1, <2>1 DEF TimerTypes
  <2>4. TimersConsistent'
    BY <1>0, <1>1, <2>2 DEF TimersConsistent
  <2>5. TimerFits'
    BY <1>0, <1>1, <1>4, <2>2 DEF TimerFits, Handled
  <2> QED  BY <1>2, <2>3, <2>4, <2>5 DEF TimerInv, AlarmStep
<1> QED  BY <1>3, <1>4
-----------------------------------------------------------------------------
\* The timers are consistent, and do as the delay list, in every step.
LEMMA TimerStep == TimerInv /\ [SwTimerNext]_swtmrVars => TimerInv' /\ AlarmStep
<1> SUFFICES ASSUME TimerInv, [SwTimerNext]_swtmrVars PROVE TimerInv' /\ AlarmStep
  OBVIOUS
<1>1. CASE CallStep
  BY <1>1, CallKept
<1>2. CASE TimerTick
  BY <1>2, CountKept, DropKept, TakeKept, WriteKept, OnceKept, PeriodKept, EndKept DEF TimerTick
<1>3. CASE ServeStep
  <2>1. UNCHANGED timerLists /\ UNCHANGED tick
    BY <1>3 DEF ServeStep, ServeRead, ServeWait, ServeCopy, ServeReturn
  <2> QED  BY <2>1, RestKept
<1>4. CASE KernelRest
  <2>1. UNCHANGED timerLists /\ UNCHANGED tick
    BY <1>4 DEF KernelRest, KernelTurn, Others
  <2> QED  BY <2>1, RestKept
<1>5. CASE TickRest
  <2>1. /\ UNCHANGED timerLists /\ tick.at = "idle"
        /\ tick' = [NoTick EXCEPT !.at = "count"] \/ UNCHANGED tick
    BY <1>5 DEF TickRest, Others
  <2> QED  BY <2>1, RestKept
<1>6. CASE UNCHANGED swtmrVars
  <2>1. UNCHANGED timerLists /\ UNCHANGED tick
    BY <1>6 DEF swtmrVars
  <2> QED  BY <2>1, RestKept
<1> QED  BY <1>1, <1>2, <1>3, <1>4, <1>5, <1>6 DEF SwTimerNext

LEMMA TimerStart == SwTimerInit => TimerInv /\ Alarms!TimerInit
<1> SUFFICES ASSUME SwTimerInit PROVE TimerInv /\ Alarms!TimerInit
  OBVIOUS
<1>0. /\ tmState = [t \in Timer |-> "unused"] /\ tmFree = [i \in 1..Limit |-> i - 1]
      /\ sortList = <<>> /\ uwCount = [t \in Timer |-> 0] /\ tmSet = [t \in Timer |-> Unset]
      /\ tick = [at |-> "idle", timer |-> Null, box |-> Null]
      /\ Limit \in Nat \ {0}
  BY SwTimerAssumption DEF SwTimerInit, NoTick
<1>1. /\ \A i \in 1..Limit : i - 1 \in Timer
      /\ \A t \in Timer : t + 1 \in 1..Limit /\ (t + 1) - 1 = t
  BY <1>0 DEF Timer
<1>2. /\ tmFree \in Seq(Timer) /\ Len(tmFree) = Limit /\ \A i \in 1..Limit : tmFree[i] = i - 1
  BY <1>0, <1>1
<1>3. IsInjective(tmFree)
  <2>1. DOMAIN tmFree = 1..Limit
    BY <1>0
  <2>2. \A i, j \in 1..Limit : tmFree[i] = tmFree[j] => i = j
    BY <1>0, <1>2
  <2> HIDE DEF Timer
  <2> QED  BY <2>1, <2>2 DEF IsInjective
<1>4. ToSet(tmFree) = Timer
  <2>1. ASSUME NEW t \in Timer PROVE t \in ToSet(tmFree)
    <3>1. tmFree[t + 1] = t /\ t + 1 \in 1..Len(tmFree)
      BY <1>1, <1>2
    <3> QED  BY <1>2, <3>1, InToSet
  <2> QED  BY <1>2, <2>1, InToSet
<1>5. /\ sortList \in Seq(Timer) /\ ToSet(sortList) = {} /\ IsInjective(sortList)
      /\ Len(sortList) = 0
  <2>1. sortList \in Seq(Timer) /\ Len(sortList) = 0
    BY <1>0
  <2>2. DOMAIN sortList = {} /\ \A x : x \notin ToSet(sortList)
    <3>1. DOMAIN sortList = 1..Len(sortList) /\ 1..0 = {}
      BY <2>1, InToSet
    <3>2. DOMAIN sortList = {}
      BY <2>1, <3>1
    <3> QED  BY <3>2 DEF ToSet
  <2>3. IsInjective(sortList)
    BY <2>2 DEF IsInjective
  <2> QED  BY <2>1, <2>2, <2>3
<1>6. TimerTypes
  BY <1>0, <1>2, <1>5 DEF TimerTypes
<1>7. TimersConsistent
  BY <1>0, <1>3, <1>4, <1>5 DEF TimersConsistent
<1>8. TimerFits
  BY <1>0, <1>5 DEF TimerFits, Handled, CountsFit, HeadWaits
<1>9. Alarms!TimerInit
  BY <1>0, <1>5 DEF Alarms!TimerInit, TimerLeft
<1> QED  BY <1>6, <1>7, <1>8, <1>9 DEF TimerInv

\* In every state reached by the software timers, each is on the list that counts exactly
\* while it ticks and is not handled, and is free exactly while it is unused.
THEOREM TimersHold == SwTimerSpec => []TimersConsistent
<1>1. SwTimerInit => TimerInv
  BY TimerStart
<1>2. TimerInv /\ [SwTimerNext]_swtmrVars => TimerInv'
  BY TimerStep
<1>3. TimerInv => TimersConsistent
  BY DEF TimerInv
<1> QED  BY <1>1, <1>2, <1>3, PTL DEF SwTimerSpec

\* The timers implement the delay list: a timer started for n ticks expires at the n-th,
\* whatever timers are started, stopped, deleted and expire meanwhile, and those that expire
\* together do so in the order they were started.
THEOREM TimersImplement == SwTimerSpec => ImplementsTimers
<1>1. SwTimerInit => TimerInv /\ Alarms!TimerInit
  BY TimerStart
<1>2. TimerInv /\ [SwTimerNext]_swtmrVars =>
        TimerInv' /\ [Alarms!TimerNext \/ \E t \in Timer : Restart(t)]_(Alarms!timerVars)
  BY TimerStep DEF AlarmStep
<1> QED  BY <1>1, <1>2, PTL DEF SwTimerSpec, ImplementsTimers

IdsFit == usTimerID \in [Timer -> Nat] /\ IdsNameBlocks

LEMMA IdsStep == TimerInv /\ IdsFit /\ [SwTimerNext]_swtmrVars => IdsFit'
<1> SUFFICES ASSUME TimerInv, IdsFit, [SwTimerNext]_swtmrVars PROVE IdsFit'
  OBVIOUS
<1>1. CASE UNCHANGED usTimerID
  BY <1>1 DEF IdsFit, IdsNameBlocks
<1>2. CASE TimeoutOnce
  <2>1. PICK t \in Timer : t = tick.timer
    BY <1>2 DEF TimeoutOnce, TimerInv, TimerFits, Handled
  <2>2. usTimerID' = [usTimerID EXCEPT ![t] = NextId(usTimerID[t])]
    BY <1>2, <2>1 DEF TimeoutOnce
  <2>3. usTimerID \in [Timer -> Nat] /\ \A u \in Timer : usTimerID[u] % Limit = u /\ usTimerID[u] < MaxId
    BY DEF IdsFit, IdsNameBlocks
  <2>4. NextId(usTimerID[t]) \in Nat /\ NextId(usTimerID[t]) % Limit = t /\ NextId(usTimerID[t]) < MaxId
    BY <2>3, NextIdFits
  <2> QED  BY <2>2, <2>3, <2>4 DEF IdsFit, IdsNameBlocks
<1>3. CASE CallStep
  <2>1. UNCHANGED usTimerID
    BY <1>3 DEF CallStep, LOS_SwtmrCreate, LOS_SwtmrStart, LOS_SwtmrStop, LOS_SwtmrDelete
  <2> QED  BY <1>1, <2>1
<1>4. CASE TimerTick /\ ~TimeoutOnce
  <2>1. UNCHANGED usTimerID
    BY <1>4 DEF TimerTick, osSwtmrScan, TimeoutDrop, TimeoutWrite, TimeoutPeriod, TimeoutEnd,
                TimeoutTake, timerLists
  <2> QED  BY <1>1, <2>1
<1>5. CASE ServeStep \/ KernelRest \/ TickRest
  <2>1. UNCHANGED timerLists
    BY <1>5 DEF ServeStep, ServeRead, ServeWait, ServeCopy, ServeReturn, KernelRest, KernelTurn,
                TickRest, Others
  <2> QED  BY <1>1, <2>1 DEF timerLists
<1>6. CASE UNCHANGED swtmrVars
  BY <1>1, <1>6 DEF swtmrVars, timerLists
<1> QED  BY <1>2, <1>3, <1>4, <1>5, <1>6 DEF SwTimerNext

\* In every state reached by the software timers the ID of each leads to its block, however
\* often IDs were taken anew, and is in range.
THEOREM IdsHold == SwTimerSpec => []IdsNameBlocks
<1>1. SwTimerInit => TimerInv /\ IdsFit
  <2> SUFFICES ASSUME SwTimerInit PROVE IdsFit
    BY TimerStart
  <2>1. usTimerID = [t \in Timer |-> t]
    BY DEF SwTimerInit
  <2>2. Limit \in Nat \ {0} /\ MaxId \in Nat /\ MaxId >= Limit
    BY SwTimerAssumption
  <2>3. ASSUME NEW t \in Timer PROVE t \in Nat /\ t % Limit = t /\ t < MaxId
    <3>1. t \in 0..Limit - 1
      BY DEF Timer
    <3> QED  BY <2>2, <3>1
  <2> QED  BY <2>1, <2>3 DEF IdsFit, IdsNameBlocks
<1>2. TimerInv /\ IdsFit /\ [SwTimerNext]_swtmrVars => (TimerInv /\ IdsFit)'
  BY TimerStep, IdsStep
<1>3. IdsFit => IdsNameBlocks
  BY DEF IdsFit
<1> QED  BY <1>1, <1>2, <1>3, PTL DEF SwTimerSpec
-----------------------------------------------------------------------------
(* The pool covers the queue.                                               *)

\* There is one queue, and it is the timers'.
LEMMA OneQueueOnly ==
  /\ HandlerQueue \in Queue /\ \A q \in Queue : q = HandlerQueue
  /\ SwtmrTask \in Task /\ SwtmrTask # Idle
  /\ {"Pend", "Wake"} \subseteq Calls /\ "Wake" \in IsrCalls /\ Forever \in Timeouts \cup {Forever}
<1>1. /\ QueueOrder = <<HandlerQueue>> /\ SwtmrTask \in Task
      /\ {"Pend", "Wake"} \subseteq Calls /\ "Wake" \in IsrCalls
  BY SwTimerAssumption
<1>2. SwtmrTask # Idle
  BY <1>1, TaskAssumption
<1>3. Queue = {HandlerQueue}
  <2> DEFINE q == HandlerQueue
  <2>1. QueueOrder = <<q>>
    BY <1>1
  <2> HIDE DEF q
  <2>2. ToSet(<<q>>) = {q}
    BY DEF ToSet
  <2> QED  BY <2>1, <2>2 DEF Queue, q
<1> QED  BY <1>1, <1>2, <1>3
-----------------------------------------------------------------------------
\* The rest of the kernel does not return from a wait that nobody reads for.
LEMMA NoReturn ==
  ASSUME TypeInv, "Delete" \notin Calls \cup IsrCalls, Slice = 0,
         LOS_Start \/ SwitchStep \/ CreateStep \/ ControlStep \/ TickStep
  PROVE  ~WaitReturn
<1> SUFFICES ASSUME WaitReturn PROVE FALSE
  OBVIOUS
<1>1. /\ started /\ ~halt /\ scan.at = "idle" /\ run \in Task /\ pc[run] = "woken"
      /\ pc'[run] = "user"
  BY DEF WaitReturn, TaskRuns, TypeInv, TypeOK
<1>2. pc' # pc /\ ~TaskRuns("user") /\ ~TaskRuns("alloc") /\ ~TaskRuns("create")
  BY <1>1 DEF TaskRuns
<1>3. ASSUME NEW c, NEW name, MayCall(c, name) PROVE c = "isr"
  BY <1>1, <1>2, <1>3 DEF MayCall
<1>4. ~(LOS_Start \/ SwitchStep)
  BY <1>1 DEF LOS_Start, SwitchStep, TaskSchedule, TaskSwitch, PendSV, TaskRuns, WaitReturn, cpuVars
<1>5. ~CreateStep
  <2>1. ~TaskCreateTake /\ ~TaskCreateNoMemory /\ ~TaskCreateReady
    BY <1>2, <1>3 DEF TaskCreateTake, TaskCreateNoMemory, TaskCreateReady
  <2>2. \A p, flags : ~TaskCreateFill(p, flags)
    BY <1>2 DEF TaskCreateFill
  <2>3. ASSUME NEW c \in Context PROVE ~CreateNothing(c)
    BY <1>2 DEF CreateNothing
  <2>4. ASSUME NEW c, NEW t, NEW p, NEW flags
        PROVE  ~LOS_TaskCreateOnly(c, t, p, flags) /\ ~LOS_TaskCreate(c, t, p, flags)
    BY <1>2, <1>3 DEF LOS_TaskCreateOnly, LOS_TaskCreate, CreateAtOnce, NoSchedule, Schedule
  <2> QED  BY <2>1, <2>2, <2>3, <2>4 DEF CreateStep
<1>6. ~TickStep
  BY <1>1, <1>2 DEF TickStep, Tick, TickYield, TickBegin, ScanNext, ScanExpire, ScanEnd, NoSchedule,
     Schedule
<1>7. ~ControlStep
  <2>1. ASSUME NEW c \in Context, NEW t \in Task
        PROVE  /\ ~LOS_TaskResume(c, t) /\ ~LOS_TaskSuspend(c, t)
               /\ \A p \in AppPrio : ~LOS_TaskPriSet(c, t, p)
    BY <1>2, <1>3 DEF LOS_TaskResume, LOS_TaskSuspend, LOS_TaskPriSet, NoSchedule, Schedule
  <2>2. ASSUME NEW c \in Context, NEW t \in Task PROVE ~LOS_TaskDelete(c, t)
    BY DEF LOS_TaskDelete, MayCall
  <2>3. ~(TaskEntryDetached \/ TaskEntryJoinable \/ TaskEntryFinish \/ TaskEntryUnlock \/ osTaskExit)
    BY <1>1, <1>2 DEF TaskEntryDetached, TaskEntryJoinable, TaskEntryFinish, TaskEntryUnlock,
       osTaskExit, Returns, TaskRuns
  <2>4. ~(LOS_TaskYield \/ LOS_TaskLock \/ LOS_TaskUnlock \/ \E n \in Timeouts : LOS_TaskDelay(n))
    BY <1>3 DEF LOS_TaskYield, LOS_TaskLock, LOS_TaskUnlock, LOS_TaskDelay
  <2> QED  BY <2>1, <2>2, <2>3, <2>4 DEF ControlStep
<1> QED  BY <1>4, <1>5, <1>6, <1>7

\* What the timer task does at the queue.
LEMMA ServeReads == ServeRead \/ ServeWait => QueueNext
<1> SUFFICES ASSUME ServeRead \/ ServeWait PROVE QueueNext
  OBVIOUS
<1> DEFINE q == HandlerQueue
<1>1. q \in Queue /\ Forever \in Timeouts \cup {Forever} /\ "task" \in Context
  BY OneQueueOnly DEF Context
<1>2. ReadTake("task", q) \/ ReadReturn(q) \/ ReadBlock(q, Forever)
  BY DEF ServeRead, ServeWait
<1> HIDE DEF q
<1>3. ReadStep(q)
  BY <1>1, <1>2 DEF ReadStep
<1> QED  BY <1>1, <1>3 DEF QueueNext

\* What the tick and the calls do without the queue.
LEMMA TimersAlone ==
  ASSUME CallStep \/ osSwtmrScan \/ TimeoutDrop \/ TimeoutOnce \/ TimeoutPeriod \/ TimeoutEnd
         \/ ServeReturn
  PROVE  UNCHANGED allVars
BY DEF CallStep, osSwtmrScan, TimeoutDrop, TimeoutOnce, TimeoutPeriod, TimeoutEnd, ServeReturn

\* The steps by what they concern.
LEMMA TimerSteps ==
  ASSUME SwTimerNext
  PROVE  \/ UNCHANGED allVars \/ QueueNext \/ TimeoutWrite \/ ServeCopy
         \/ \E b \in Box : TimeoutTake(b)
         \/ KernelRest \/ TickRest
BY ServeReads, TimersAlone DEF SwTimerNext, TimerTick, ServeStep

\* The kernel with software timers implements the scheduler.
LEMMA TimersAreTask == TypeInv /\ [SwTimerNext]_swtmrVars => [Next]_vars
<1> SUFFICES ASSUME TypeInv, [SwTimerNext]_swtmrVars PROVE [Next]_vars
  OBVIOUS
<1>1. UNCHANGED swtmrVars => UNCHANGED vars
  BY DEF swtmrVars, allVars
<1>2. UNCHANGED allVars \/ ServeCopy \/ (\E b \in Box : TimeoutTake(b)) => UNCHANGED vars
  BY DEF allVars, ServeCopy, TimeoutTake, MailAllocTake
<1>3. TimeoutWrite => [Next]_vars
  <2>1. ReadList[HandlerQueue] \in Obj /\ "isr" \in Context
    BY OneQueueOnly, QueueConstants DEF Context
  <2>2. TimeoutWrite => Wake("isr", ReadList[HandlerQueue]) \/ UNCHANGED vars
    BY DEF TimeoutWrite, WriteTake
  <2> QED  BY <2>1, <2>2 DEF Next, WaitStep
<1>4. KernelRest \/ TickRest => Next
  BY DEF KernelRest, TickRest, Next
<1> QED  BY <1>1, <1>2, <1>3, <1>4, TimerSteps, QueueStepIsStep

\* The kernel with software timers implements the scheduler: the tick wakes the timer task as
\* Wake promises, which waits and takes its blocks as any reader, and all else is a step of
\* the scheduler or leaves it alone.
THEOREM TimersImplementTask == SwTimerSpec => Spec
<1>1. SwTimerInit => Init
  BY DEF SwTimerInit
<1>2. TypeInv /\ [SwTimerNext]_swtmrVars => TypeInv'
  BY TimersAreTask, TypeStep
<1> QED  BY <1>1, <1>2, TypeInit, TimersAreTask, PTL DEF SwTimerSpec, Spec
-----------------------------------------------------------------------------
\* What the timers know of the queue and the pool: nobody deletes the queue, only the timer
\* task waits at it, and a block that the tick writes or the timer task gives back is the
\* application's, not the same for both.
PoolFits ==
  /\ used = Queue
  /\ \A t \in Task : asks[t].op \in {"none", "read"}
  /\ item \in [Box -> Timer \cup {Null}]
  /\ serve \in [at : {"read", "copy", "call"}, timer : Timer \cup {Null}, box : Box \cup {Null}]
  /\ tick.at = "write" => tick.box \in held
  /\ serve.at = "copy" => serve.box \in held /\ (tick.at = "write" => serve.box # tick.box)

\* The block the timer task gives back goes to the pool: nobody waits for it.
LEMMA CopyFrees ==
  ASSUME TypeInv, AsksFit, PoolFits, held \subseteq Box, ServeCopy
  PROVE  QueueNext
<1> DEFINE q == HandlerQueue
           b == serve.box
<1>1. q \in Queue /\ q \in used /\ "task" \in Context /\ b \in held /\ b \in Box
  BY OneQueueOnly DEF PoolFits, ServeCopy, Serving, Context
<1>2. MayCall("task", "Wake")
  BY OneQueueOnly DEF ServeCopy, Serving, MayCall
<1>3. list[MemList[q]] = <<>>
  <2>1. MemList[q] \in Head_ /\ list[MemList[q]] \in Seq(Task)
    BY <1>1, QueueConstants, Heads DEF TypeInv, TypeOK
  <2>2. ASSUME list[MemList[q]] # <<>> PROVE FALSE
    <3>1. Head(list[MemList[q]]) \in ToSet(list[MemList[q]]) /\ Head(list[MemList[q]]) \in Task
      BY <2>1, <2>2, HeadTailRange
    <3> QED  BY <1>1, <3>1 DEF AsksFit, PoolFits
  <2> QED  BY <2>2
<1>4. LOS_MemboxFree(b) /\ held' = held \ {b} /\ UNCHANGED <<vars, queueVars, asks, puwMsg>>
  BY DEF ServeCopy
<1> HIDE DEF q, b
<1>5. MailFree("task", q, b)
  BY <1>1, <1>2, <1>3, <1>4 DEF MailFree
<1>6. MailStep(q)
  BY <1>1, <1>5 DEF MailStep
<1> QED  BY <1>1, <1>6 DEF QueueNext

\* So every step is a step of the queue and its pool.
LEMMA TimersAreQueue ==
  ASSUME TypeInv, "Delete" \notin Calls \cup IsrCalls, Slice = 0, AsksFit, MailFit, PoolFits,
         [SwTimerNext]_swtmrVars
  PROVE  [QueueNext]_allVars
<1> DEFINE q == HandlerQueue
<1>0. q \in Queue /\ "isr" \in Context /\ held \subseteq Box
  BY OneQueueOnly DEF Context, MailFit
<1>1. UNCHANGED swtmrVars => UNCHANGED allVars
  BY DEF swtmrVars
<1>2. CASE TimeoutWrite
  <2>1. WriteTake("isr", q, tick.box) /\ tick.box \in Box
    BY <1>0, <1>2 DEF TimeoutWrite, WriteTake
  <2> HIDE DEF q
  <2>2. WriteStep(q)
    BY <1>0, <2>1 DEF WriteStep
  <2> QED  BY <1>0, <2>2 DEF QueueNext
<1>3. ASSUME NEW b \in Box, TimeoutTake(b) PROVE QueueNext
  <2>1. MailAllocTake("isr", b)
    BY <1>3 DEF TimeoutTake
  <2> QED  BY <1>0, <2>1 DEF QueueNext
<1>4. CASE KernelRest \/ TickRest
  <2>1. LOS_Start \/ SwitchStep \/ CreateStep \/ ControlStep \/ TickStep
    BY <1>4 DEF KernelRest, TickRest
  <2>2. UNCHANGED <<queueVars, mailVars, asks, held>>
    BY <1>4 DEF KernelRest, KernelTurn, TickRest, Others
  <2> QED  BY <2>1, <2>2, NoReturn DEF KernelStep, QueueNext
<1>5. CASE ServeCopy
  BY <1>0, <1>5, CopyFrees
<1> QED  BY <1>1, <1>2, <1>3, <1>4, <1>5, TimerSteps
-----------------------------------------------------------------------------
\* Where nothing of the pool changes but perhaps who waits.
LEMMA PoolSame ==
  ASSUME PoolFits, UNCHANGED <<used, held, item>>,
         \A t \in Task : asks'[t].op \in {"none", "read"},
         tick' = tick \/ tick'.at # "write",
         serve' = serve \/ serve' = Reading
  PROVE  PoolFits'
<1>1. Reading \in [at : {"read", "copy", "call"}, timer : Timer \cup {Null}, box : Box \cup {Null}]
      /\ Reading.at = "read"
  BY DEF Reading
<1> QED  BY <1>1 DEF PoolFits

\* Every step keeps them.
LEMMA PoolStep ==
  ASSUME TimerInv, AsksFit, Messages, PoolFits, [SwTimerNext]_swtmrVars
  PROVE  PoolFits'
<1> DEFINE q == HandlerQueue
<1>0. /\ q \in Queue /\ held \subseteq Box /\ boxFree \in Seq(Box)
      /\ tick \in [at : {"idle", "count", "loop", "write", "rearm"},
                   timer : Timer \cup {Null}, box : Box \cup {Null}]
      /\ asks \in [Task -> Asking] /\ \A t \in Task : asks[t].op \in {"none", "read"}
  BY OneQueueOnly DEF TimerInv, TimerTypes, MailFit, Messages, AsksFit, PoolFits
<1> HIDE DEF q
<1>1. CASE UNCHANGED swtmrVars
  BY <1>0, <1>1, PoolSame DEF swtmrVars, allVars, queueVars
<1>2. CASE CallStep \/ ServeReturn
  BY <1>0, <1>2, PoolSame DEF CallStep, ServeReturn, allVars, queueVars
<1>3. CASE osSwtmrScan \/ TimeoutDrop \/ TimeoutOnce \/ TimeoutPeriod \/ TimeoutEnd
  <2>1. UNCHANGED <<used, held, asks, item, serve>>
    BY <1>3 DEF osSwtmrScan, TimeoutDrop, TimeoutOnce, TimeoutPeriod, TimeoutEnd, allVars, queueVars
  <2>2. tick'.at # "write"
    <3>1. osSwtmrScan => tick'.at # "write"
      BY DEF osSwtmrScan, NoTick
    <3>2. TimeoutDrop => tick'.at # "write"
      BY DEF TimeoutDrop, NoTick
    <3>3. TimeoutOnce \/ TimeoutPeriod \/ TimeoutEnd => tick'.at # "write"
      BY DEF TimeoutOnce, TimeoutPeriod, TimeoutEnd, NoTick
    <3> QED  BY <1>3, <3>1, <3>2, <3>3
  <2> QED  BY <1>0, <2>1, <2>2, PoolSame
<1>4. ASSUME NEW b \in Box, TimeoutTake(b) PROVE PoolFits'
  <2>1. /\ boxFree # <<>> /\ b = Head(boxFree) /\ held' = held \cup {b}
        /\ UNCHANGED <<used, asks, serve>>
    BY <1>4 DEF TimeoutTake, MailAllocTake, LOS_MemboxAlloc, queueVars
  <2>2. b \in ToSet(boxFree)
    BY <1>0, <2>1, HeadTailRange
  <2>3. b \notin held
    <3>1. FreeSpot \in Spot /\ HeldSpot \in Spot /\ FreeSpot # HeldSpot
      BY DEF FreeSpot, HeldSpot, Spot
    <3>2. Holds(FreeSpot, b) /\ (b \in held => Holds(HeldSpot, b))
      BY <2>2 DEF Holds, FreeSpot, HeldSpot
    <3> QED  BY <3>1, <3>2 DEF Messages, Once
  <2>4. Head(sortList) \in Timer /\ item' = [item EXCEPT ![b] = Head(sortList)]
        /\ tick' = [at |-> "write", timer |-> Head(sortList), box |-> b]
    BY <1>4 DEF TimeoutTake, TimerInv, TimerTypes
  <2> QED  BY <1>0, <2>1, <2>3, <2>4 DEF PoolFits
<1>5. CASE TimeoutWrite
  <2>1. /\ held' = held \ {tick.box} /\ UNCHANGED <<used, asks, item, serve>>
        /\ tick.at = "write" /\ tick' = [tick EXCEPT !.at = "rearm", !.box = Null]
    BY <1>5 DEF TimeoutWrite, WriteTake, FillNode
  <2>2. tick'.at = "rearm"
    BY <1>0, <2>1
  <2> QED  BY <1>0, <2>1, <2>2 DEF PoolFits
<1>6. CASE ServeRead
  <2> DEFINE b == ring[q][qHead[q]]
  <2>1. ReadTake("task", q) \/ ReadReturn(q)
    BY <1>6 DEF ServeRead, q
  <2>2. held' = held \cup {b} /\ UNCHANGED <<used, item, tick>> /\ tick.at = "idle"
    BY <1>6, <2>1 DEF ServeRead, ReadTake, ReadReturn, TakeNode
  <2>3. serve' = [serve EXCEPT !.at = "copy", !.box = b]
    BY <1>6 DEF ServeRead, q
  <2>4. \A t \in Task : asks'[t].op \in {"none", "read"}
    BY <1>0, <2>1 DEF ReadTake, ReadReturn, Resumes, NoAsk
  <2>5. b \in Box \cup {Null}
    <3>1. ring \in [Queue -> [Node -> Box \cup {Null}]] /\ qHead \in [Queue -> Node]
      BY DEF Messages, RingFit
    <3> QED  BY <1>0, <3>1
  <2> HIDE DEF b
  <2> QED  BY <2>2, <2>3, <2>4, <2>5 DEF PoolFits
<1>7. CASE ServeWait
  <2>1. UNCHANGED <<used, held, item, tick, serve>>
    BY <1>7 DEF ServeWait, ReadBlock, queueVars
  <2>2. \A t \in Task : asks'[t].op \in {"none", "read"}
    BY <1>0, <1>7 DEF ServeWait, ReadBlock, QueuePend
  <2> QED  BY <2>1, <2>2, PoolSame
<1>8. CASE ServeCopy
  <2>1. /\ UNCHANGED <<used, asks, tick>> /\ tick.at = "idle" /\ held' = held \ {serve.box}
        /\ serve' = [at |-> "call", timer |-> item[serve.box], box |-> Null]
        /\ item' = [item EXCEPT ![serve.box] = Null] /\ serve.box \in Box
    BY <1>0, <1>8 DEF ServeCopy, Serving, queueVars, PoolFits
  <2> QED  BY <1>0, <2>1 DEF PoolFits
<1>9. CASE KernelRest \/ TickRest
  <2>1. UNCHANGED <<used, held, asks, item, serve>>
    BY <1>9 DEF KernelRest, KernelTurn, TickRest, Others, queueVars
  <2>2. tick' = tick \/ tick'.at # "write"
    BY <1>9 DEF KernelRest, KernelTurn, TickRest, NoTick
  <2> QED  BY <1>0, <2>1, <2>2, PoolSame
<1> QED
  BY <1>1, <1>2, <1>3, <1>4, <1>5, <1>6, <1>7, <1>8, <1>9 DEF SwTimerNext, TimerTick, ServeStep
-----------------------------------------------------------------------------
\* At the start the queue is there and empty, and every block is free.
LEMMA PoolStart ==
  SwTimerInit => Counts /\ AsksFit /\ Nodes /\ Messages /\ PoolFits
<1> SUFFICES ASSUME SwTimerInit
             PROVE  Counts /\ AsksFit /\ Nodes /\ Messages /\ PoolFits
  OBVIOUS
<1>0. QueueLen \in Nat \ {0} /\ Null \notin Box /\ NoAsk.op = "none" /\ NoAsk.msg = Null
      /\ NoAsk \in Asking
  BY QueueAssumption DEF NoAsk, Asking
<1>1. /\ used = Queue /\ held = {} /\ boxFree = BoxOrder
      /\ ring = [q \in Queue |-> [i \in Node |-> Null]]
      /\ qHead = [q \in Queue |-> 0] /\ qTail = [q \in Queue |-> 0]
      /\ readable = [q \in Queue |-> 0] /\ writable = [q \in Queue |-> QueueLen]
      /\ asks = [t \in Task |-> NoAsk] /\ puwMsg = [t \in Task |-> Null]
      /\ item = [b \in Box |-> Null] /\ tick = NoTick /\ serve = Reading
  BY DEF SwTimerInit, BoxInit
<1>2. /\ \A o \in Obj : list[o] = <<>>
      /\ \A t \in Task : pc[t] = "user"
  <2>1. 0 \in Prio
    BY TaskAssumption DEF Prio
  <2>2. \A o \in Obj : o \in Head_ /\ o \notin {Free, Lowest, 0}
    BY <2>1, Heads
  <2> QED  BY <2>2 DEF SwTimerInit, Init
<1>3. Counts
  BY <1>0, <1>1 DEF Counts
<1>4. AsksFit
  <2>1. \A o \in Obj : ToSet(list[o]) = {}
    BY <1>2 DEF ToSet
  <2> QED  BY <1>0, <1>1, <1>2, <2>1, QueueConstants DEF AsksFit, InCall
<1>5. ASSUME NEW op \in {"read", "write", "alloc"}, NEW q \in Queue
      PROVE  (\A t \in Task : ~Granted(t, op, q)) /\ Claims(op, q) = 0
  <2>1. \A t \in Task : ~Granted(t, op, q)
    BY <1>0, <1>1 DEF Granted
  <2> QED  BY <2>1, ClaimsCount
<1>6. Nodes
  <2>1. \A q \in used : Total(q) = QueueLen
    BY <1>0, <1>1, <1>5 DEF Total
  <2> QED  BY <1>1, <1>5, <2>1 DEF Nodes, WokenFindsQueue
<1>7. RingFit
  <2>1. 0 \in Node /\ At(0, 0) = 0 /\ \A k \in Node : ~Among(0, 0, k)
    BY <1>0 DEF Node, At, Among
  <2>2. \A q \in Queue : Stored(q) = 0
    BY <1>1, <1>5 DEF Stored
  <2> QED  BY <1>1, <2>1, <2>2 DEF RingFit
<1>8. MailFit
  BY <1>0, <1>1, BoxAssumption DEF MailFit, MailAt, Granted
<1>9. Once
  <2> SUFFICES ASSUME NEW b \in Box
               PROVE  \E x \in Spot : Holds(x, b) /\ \A z \in Spot : Holds(z, b) => z = x
    BY DEF Once
  <2>1. FreeSpot \in Spot /\ Holds(FreeSpot, b)
    BY <1>1 DEF FreeSpot, Spot, Holds, Box
  <2>2. \A z \in Spot : Holds(z, b) => z = FreeSpot
    BY <1>0, <1>1, SpotKinds DEF FreeSpot
  <2> QED  BY <2>1, <2>2
<1>10. PoolFits
  BY <1>0, <1>1 DEF PoolFits, NoTick, Reading
<1> QED  BY <1>3, <1>4, <1>6, <1>7, <1>8, <1>9, <1>10 DEF Messages

\* The pool has no more blocks than the queue has nodes.
LEMMA BoxesFit == IsFiniteSet(Box) /\ Cardinality(Box) \in Nat /\ Cardinality(Box) <= QueueLen
<1>1. BoxOrder \in Seq(Box) /\ Len(BoxOrder) = QueueLen /\ DOMAIN BoxOrder = 1..QueueLen
      /\ QueueLen \in Nat
  BY BoxAssumption, SwTimerAssumption, QueueAssumption DEF Box
<1>2. BoxOrder \in Surjection(1..QueueLen, Box)
  <2>1. BoxOrder \in [1..QueueLen -> Box]
    BY <1>1
  <2>2. \A b \in Box : \E i \in 1..QueueLen : BoxOrder[i] = b
    BY <1>1 DEF Box, ToSet
  <2> QED  BY <2>1, <2>2 DEF Surjection
<1>3. IsFiniteSet(1..QueueLen) /\ Cardinality(1..QueueLen) = QueueLen
  BY <1>1, FS_Interval
<1>4. IsFiniteSet(Box) /\ Cardinality(Box) <= QueueLen
  BY <1>2, <1>3, FS_Surjection
<1> QED  BY <1>4, FS_CardinalityType

\* A block that the tick has, and the application with it, leaves a node of the queue free:
\* the nodes that hold messages hold different blocks, and not this one.
LEMMA WriterFinds ==
  ASSUME Counts, Nodes, Messages, PoolFits, tick.at = "write"
  PROVE  writable[HandlerQueue] > 0
<1> DEFINE q == HandlerQueue
           c == tick.box
<1>0. q \in Queue /\ q \in used /\ c \in held /\ c \in Box /\ QueueLen \in Nat \ {0}
      /\ Null \notin Box
  BY OneQueueOnly, QueueAssumption DEF PoolFits, Messages, MailFit
<1> HIDE DEF q, c
<1> SUFFICES ASSUME ~(writable[q] > 0) PROVE FALSE
  BY DEF q
<1>1. Stored(q) = QueueLen
  <2>1. \A t \in Task : ~Granted(t, "write", q)
    BY DEF PoolFits, Granted
  <2>2. Claims("write", q) = 0
    BY <2>1, ClaimsCount
  <2>3. Total(q) = QueueLen /\ writable[q] = 0 /\ readable[q] \in Nat
    BY <1>0 DEF Nodes, Counts
  <2>4. Claims("read", q) \in Nat
    BY ClaimsCount
  <2> QED  BY <2>2, <2>3, <2>4 DEF Stored, Total
<1>2. /\ ring[q] \in [Node -> Box \cup {Null}]
      /\ \A k \in Node : ring[q][k] # Null
  <2>1. \A k \in Node : Among(qHead[q], Stored(q), k)
    <3>1. qHead[q] \in 0..QueueLen - 1
      BY <1>0 DEF Messages, RingFit, Node
    <3> QED  BY <1>0, <1>1, <3>1 DEF Among, Node
  <2> QED  BY <1>0, <2>1 DEF Messages, RingFit
<1>3. ASSUME NEW k \in Node
      PROVE  ring[q][k] \in Box \ {c} /\ <<"ring", q, k>> \in Spot
             /\ Holds(<<"ring", q, k>>, ring[q][k])
  <2>1. <<"ring", q, k>> \in Spot /\ Holds(<<"ring", q, k>>, ring[q][k])
    BY <1>0 DEF Spot, Holds
  <2>2. HeldSpot \in Spot /\ Holds(HeldSpot, c) /\ HeldSpot # <<"ring", q, k>>
    BY <1>0 DEF Spot, Holds, HeldSpot
  <2>3. ring[q][k] # c
    BY <1>0, <2>1, <2>2 DEF Messages, Once
  <2> QED  BY <1>2, <2>1, <2>3
<1>4. ring[q] \in [Node -> Box \ {c}]
  BY <1>2, <1>3
<1>5. IsFiniteSet(Node) /\ Cardinality(Node) = QueueLen
  BY <1>0, FS_Interval DEF Node
<1>6. IsFiniteSet(Box \ {c}) /\ Cardinality(Box \ {c}) < Cardinality(Node)
  <2>1. IsFiniteSet(Box) /\ Cardinality(Box) \in Nat /\ Cardinality(Box) <= QueueLen
    BY BoxesFit
  <2>2. IsFiniteSet(Box \ {c}) /\ Cardinality(Box \ {c}) = Cardinality(Box) - 1
    BY <1>0, <2>1, FS_RemoveElement
  <2> QED  BY <1>0, <1>5, <2>1, <2>2
<1>7. PICK i \in Node, j \in Node : i # j /\ ring[q][i] = ring[q][j]
  BY <1>4, <1>5, <1>6, FS_PigeonHole
<1>8. <<"ring", q, i>> = <<"ring", q, j>>
  BY <1>3, <1>4, <1>7 DEF Messages, Once
<1> QED  BY <1>7, <1>8

\* What the runs check of them.
LEMMA PoolMeans ==
  ASSUME Counts, AsksFit, Nodes, Messages, PoolFits
  PROVE  PoolCoversQueue
<1> DEFINE inRing == UNION {ToSet(Contents(q)) : q \in Queue}
           free == ToSet(boxFree)
           places == <<free, inRing, held, Handed, Offered>>
<1>1. \A i, j \in DOMAIN places : i # j => places[i] \cap places[j] = {}
  BY OnceMeans DEF BlocksOnce
<1>2. free \cap inRing = {}
  <2> HIDE DEF free, inRing
  <2>1. 1 \in DOMAIN places /\ 2 \in DOMAIN places /\ places[1] = free /\ places[2] = inRing
    OBVIOUS
  <2> HIDE DEF places
  <2> QED  BY <1>1, <2>1
<1>3. ToSet(Contents(HandlerQueue)) \subseteq inRing
  BY OneQueueOnly
<1>4. tick.at = "write" => writable[HandlerQueue] > 0
  BY WriterFinds
<1> QED  BY <1>2, <1>3, <1>4 DEF PoolCoversQueue

\* Every block that the tick takes for an expired timer gets a place in the queue, and one
\* in the queue is not in the pool, in a kernel that never crashes and deletes no task:
\* osSwTmrTimeoutHandle need not look whether LOS_QueueWrite was refused.
THEOREM PoolCovers ==
  ASSUME Slice = 0, Permits = {}, "Suspend" \notin IsrCalls, "Delete" \notin Calls \cup IsrCalls
  PROVE  SwTimerSpec => []PoolCoversQueue
<1> DEFINE Fits_ == KernelFits /\ NoCrash /\ TimerInv
           Pool_ == Counts /\ AsksFit /\ Nodes /\ Messages /\ PoolFits
<1>1. SwTimerInit => Pool_ /\ TimerInv
  BY PoolStart, TimerStart
<1>2. Fits_ /\ Fits_' /\ Pool_ /\ [SwTimerNext]_swtmrVars => Pool_'
  <2> SUFFICES ASSUME Fits_, Fits_', Pool_, [SwTimerNext]_swtmrVars PROVE Pool_'
    OBVIOUS
  <2>1. ~halt /\ ~halt' /\ TypeInv /\ MailFit
    BY DEF NoCrash, KernelFits, Messages
  <2>2. [QueueNext]_allVars
    BY <2>1, TimersAreQueue
  <2>3. Counts'
    BY <2>2, CountsStep
  <2>4. AsksFit' /\ Nodes'
    BY <2>1, <2>2, NodesLiveStep
  <2>5. Messages'
    BY <2>1, <2>2, <2>3, <2>4, MessagesLiveStep
  <2>6. PoolFits'
    BY PoolStep
  <2> QED  BY <2>3, <2>4, <2>5, <2>6
<1>3. TimerInv /\ [SwTimerNext]_swtmrVars => TimerInv'
  BY TimerStep
<1>4. Spec => []KernelFits
  BY CallsKept DEF KernelFits
<1>5. Spec => []NoCrash
  BY NeverCrashes
<1>6. Fits_ /\ Pool_ => PoolCoversQueue
  BY PoolMeans
<1>7. KernelFits /\ NoCrash /\ TimerInv => Fits_
  OBVIOUS
<1> HIDE DEF Fits_, Pool_
<1> QED
  BY <1>1, <1>2, <1>3, <1>4, <1>5, <1>6, <1>7, TimersImplementTask, PTL DEF SwTimerSpec
=============================================================================
