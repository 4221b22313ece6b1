-------------------------------- MODULE Mutex --------------------------------
(***************************************************************************)
(* Recursive mutexes with priority inheritance                             *)
(* (src/kernel/base/ipc/los_mux.c).  Blocking, time limit and wake-up are  *)
(* Block and Release of Task; this module adds ownership and the changes   *)
(* of priority that go with it.  Mutexes are for tasks: in a handler pend  *)
(* and post are refused.                                                   *)
(***************************************************************************)
EXTENDS Task

CONSTANTS
  MuxOrder,   \* the control blocks of g_pstAllMux in order; Obj are these
  MaxNest,    \* bound on how often a task takes a mutex it owns
  LastFirst   \* tasks release the mutex first that they took last

ASSUME MuxAssumption ==
  /\ MuxOrder \in Seq(Obj) /\ ToSet(MuxOrder) = Obj /\ QueueObj = {}
  /\ MaxNest \in Nat \ {0} /\ LastFirst \in BOOLEAN

VARIABLES
  unusedMux,   \* g_stUnusedMuxList
  muxCount,    \* usMuxCount
  owner,       \* pstOwner
  saved,       \* usPriority of the mutex: its owner's when the owner got it
  wanted,      \* pstMuxPended, the local that names the mutex in a call that blocked
  got,         \* history: the mutexes each task was told it has, in order
  base         \* history: the priority the application gave each task

muxVars == <<unusedMux, muxCount, owner, saved, wanted>>
allVars == <<vars, muxVars, got, base>>

MuxInit ==
  /\ Init
  /\ unusedMux = MuxOrder
  /\ muxCount = [m \in Obj |-> 0] /\ saved = [m \in Obj |-> 0]
  /\ owner = [m \in Obj |-> Null] /\ wanted = [t \in Task |-> Null]
  /\ got = [t \in Task |-> <<>>] /\ base = prio

Used(m) == m \notin ToSet(unusedMux)
Owns(t, m) == muxCount[m] > 0 /\ owner[m] = t

\* osTaskPriModify: the lists when t gets priority p.
PriModified(t, p) ==
  IF "READY" \in status[t] THEN AddTail(Unlink(list, t), p, t) ELSE list
-----------------------------------------------------------------------------
LOS_MuxCreate(c) ==
  /\ MayCall(c, "MuxCreate") /\ unusedMux # <<>>
  /\ LET m == Head(unusedMux) IN
       /\ muxCount' = [muxCount EXCEPT ![m] = 0] /\ saved' = [saved EXCEPT ![m] = 0]
       /\ owner' = [owner EXCEPT ![m] = Null]
  /\ unusedMux' = Tail(unusedMux)
  /\ UNCHANGED <<vars, wanted, got, base>>

\* Refused while the mutex is owned or tasks wait for it.
LOS_MuxDelete(c, m) ==
  /\ MayCall(c, "MuxDelete") /\ Used(m) /\ list[m] = <<>> /\ muxCount[m] = 0
  /\ unusedMux' = <<m>> \o unusedMux
  /\ UNCHANGED <<vars, muxCount, owner, saved, wanted, got, base>>

MuxPendFree(m) ==
  /\ MayCall("task", "Pend") /\ Used(m) /\ muxCount[m] = 0
  /\ muxCount' = [muxCount EXCEPT ![m] = 1]
  /\ owner' = [owner EXCEPT ![m] = run]
  /\ saved' = [saved EXCEPT ![m] = prio[run]]
  /\ got' = [got EXCEPT ![run] = Append(@, m)]
  /\ UNCHANGED <<vars, unusedMux, wanted, base>>

MuxPendAgain(m) ==
  /\ MayCall("task", "Pend") /\ Used(m) /\ Owns(run, m) /\ muxCount[m] < MaxNest
  /\ muxCount' = [muxCount EXCEPT ![m] = @ + 1]
  /\ UNCHANGED <<vars, unusedMux, owner, saved, wanted, got, base>>

\* The caller blocks behind those that wait; an owner that is less urgent gets its
\* priority.
MuxPendBlock(m, n) ==
  /\ Used(m) /\ muxCount[m] > 0 /\ owner[m] # run
  /\ LET o == owner[m]
           L == IF prio[o] > prio[run] THEN PriModified(o, prio[run]) ELSE list
       IN /\ Block(L, m, n, Len(Unlink(L, run)[m]) + 1)
          /\ prio' = IF prio[o] > prio[run] THEN [prio EXCEPT ![o] = prio[run]] ELSE prio
  /\ wanted' = [wanted EXCEPT ![run] = m]
  /\ UNCHANGED <<unusedMux, muxCount, owner, saved, got, base>>

\* Told that it has the mutex, unless TIMEOUT says that the limit expired.
MuxPendReturn ==
  /\ WaitReturn
  /\ got' = IF "TIMEOUT" \in status[run] THEN got
            ELSE [got EXCEPT ![run] = Append(@, wanted[run])]
  /\ UNCHANGED <<muxVars, base>>
-----------------------------------------------------------------------------
MayPost(m) ==
  /\ MayCall("task", "Wake") /\ Used(m) /\ Owns(run, m)
  /\ LastFirst => got[run] # <<>> /\ Last(got[run]) = m

MuxPostAgain(m) ==
  /\ MayPost(m) /\ muxCount[m] > 1
  /\ muxCount' = [muxCount EXCEPT ![m] = @ - 1]
  /\ UNCHANGED <<vars, unusedMux, owner, saved, wanted, got, base>>

\* The priority goes back to what it was when the owner got the mutex.
Restores(m) == prio[run] # saved[m]
RestoredList(m) == IF Restores(m) THEN PriModified(run, saved[m]) ELSE list

MuxPostFree_BugBoosted(m) ==
  /\ MayPost(m) /\ muxCount[m] = 1 /\ list[m] = <<>>
  /\ muxCount' = [muxCount EXCEPT ![m] = 0]
  /\ got' = [got EXCEPT ![run] = RemoveFirst(@, m)]
  /\ UNCHANGED <<vars, unusedMux, owner, saved, wanted, base>>

MuxPostFree_BugUnseen(m) ==
  /\ MayPost(m) /\ muxCount[m] = 1
  /\ muxCount' = [muxCount EXCEPT ![m] = 0]
  /\ list' = RestoredList(m) /\ prio' = [prio EXCEPT ![run] = saved[m]]
  /\ got' = [got EXCEPT ![run] = RemoveFirst(@, m)]
  /\ UNCHANGED <<status, timerQ, left, cpuVars, pc, newborn, slice, scan, halt>>
  /\ UNCHANGED <<unusedMux, owner, saved, wanted, base>>

\* Nobody waits.  LOS_Schedule is not called, whatever became of the priority.
MuxPostFree(m) ==
  /\ MayPost(m) /\ muxCount[m] = 1 /\ list[m] = <<>>
  /\ muxCount' = [muxCount EXCEPT ![m] = 0]
  /\ list' = RestoredList(m) /\ prio' = [prio EXCEPT ![run] = saved[m]]
  /\ got' = [got EXCEPT ![run] = RemoveFirst(@, m)]
  /\ UNCHANGED <<status, timerQ, left, cpuVars, pc, newborn, slice, scan, halt>>
  /\ UNCHANGED <<unusedMux, owner, saved, wanted, base>>

\* The task that waits longest becomes the owner before it runs.  Others that wait
\* behind it do not pass their priority on to it.
MuxPostHand(m) ==
  /\ MayPost(m) /\ muxCount[m] = 1
  /\ Release(RestoredList(m), "task", m) /\ prio' = [prio EXCEPT ![run] = saved[m]]
  /\ LET t == Head(list[m]) IN
       /\ owner' = [owner EXCEPT ![m] = t] /\ saved' = [saved EXCEPT ![m] = prio[t]]
  /\ got' = [got EXCEPT ![run] = RemoveFirst(@, m)]
  /\ UNCHANGED <<unusedMux, muxCount, wanted, base>>
-----------------------------------------------------------------------------
\* Everything else; the priorities it sets are those the application gives.
MuxOtherStep ==
  /\ KernelStep /\ ~WaitReturn
  /\ base' = [t \in Task |-> IF prio'[t] # prio[t] THEN prio'[t] ELSE base[t]]
  /\ UNCHANGED <<muxVars, got>>

MuxNext ==
  \/ \E c \in Context : LOS_MuxCreate(c) \/ \E m \in Obj : LOS_MuxDelete(c, m)
  \/ \E m \in Obj :
       \/ MuxPendFree(m) \/ MuxPendAgain(m)
       \/ \E n \in Timeouts \cup {Forever} : MuxPendBlock(m, n)
       \/ MuxPostAgain(m) \/ MuxPostFree(m) \/ MuxPostHand(m)
  \/ MuxPendReturn
  \/ MuxOtherStep

MuxSpec == MuxInit /\ [][MuxNext]_allVars
-----------------------------------------------------------------------------
\* A task that returns from LOS_MuxPend is told success exactly when it owns the mutex,
\* and outside of the call it owns what it was told and has not released: no limit that
\* expires beside a release leaves a mutex with an owner that does not know of it.
OwnersKnow ==
  /\ TaskRuns("woken") =>
       /\ wanted[run] \notin ToSet(got[run])
       /\ "TIMEOUT" \notin status[run] <=> Owns(run, wanted[run])
  /\ \A t \in Task :
       pc[t] \notin {"wait", "woken"} => ToSet(got[t]) = {m \in Obj : Owns(t, m)}

\* Who waits for a mutex waits for another task that owns it.
WaitersHaveOwner ==
  \A m \in Obj : list[m] # <<>> =>
    Used(m) /\ muxCount[m] > 0 /\ owner[m] \in Task \ ToSet(list[m])

\* A task that owns no mutex has the priority the application gave it: a boost ends,
\* also when the waiter that caused it gave up, and with mutexes nested in each other.
BoostEnds ==
  \A t \in Task : (\A m \in Obj : ~Owns(t, m)) => prio[t] = base[t]

\* The owner of a mutex is at least as urgent as every task that waits for it.
OwnerInherits ==
  \A m \in Obj : \A t \in ToSet(list[m]) : prio[owner[m]] <= prio[t]
=============================================================================
