------------------------------ MODULE Semaphore ------------------------------
(***************************************************************************)
(* Counting semaphores (src/kernel/base/ipc/los_sem.c).  Blocking, time    *)
(* limit and wake-up are Pend and Wake of Task; this module adds the       *)
(* counts, the handles and who may take a unit.                            *)
(***************************************************************************)
EXTENDS Task

CONSTANTS
  SemOrder,   \* the control blocks of g_pstAllSem in order; Obj are these
  CountMax    \* OS_SEM_COUNT_MAX

ASSUME SemAssumption ==
  /\ SemOrder \in Seq(Obj) /\ ToSet(SemOrder) = Obj /\ QueueObj = {}
  /\ CountMax \in Nat

VARIABLES
  unusedSem,   \* g_stUnusedSemList; a block on it has usSemStat OS_SEM_UNUSED
  semCount,    \* uwSemCount
  handed       \* history: a post handed a unit to the task that waits or waited

semVars == <<unusedSem, semCount, handed>>
semAllVars == <<vars, semVars>>

\* The handles stay handles and no count exceeds the maximum.
SemTypeOK ==
  /\ unusedSem \in Seq(Obj)
  /\ semCount \in [Obj -> 0..CountMax]
  /\ handed \in [Task -> BOOLEAN]

SemInit ==
  /\ Init
  /\ unusedSem = SemOrder
  /\ semCount = [s \in Obj |-> 0] /\ handed = [t \in Task |-> FALSE]

Used(s) == s \notin ToSet(unusedSem)
-----------------------------------------------------------------------------
LOS_SemCreate(c, n) ==
  /\ MayCall(c, "SemCreate") /\ unusedSem # <<>>
  /\ unusedSem' = Tail(unusedSem)
  /\ semCount' = [semCount EXCEPT ![Head(unusedSem)] = n]
  /\ UNCHANGED <<vars, handed>>

\* Refused while tasks wait.
LOS_SemDelete(c, s) ==
  /\ MayCall(c, "SemDelete") /\ Used(s) /\ list[s] = <<>>
  /\ unusedSem' = <<s>> \o unusedSem
  /\ UNCHANGED <<vars, semCount, handed>>

\* A unit is there: the caller, which may be a handler, has it at once.
SemPendTake(c, s) ==
  /\ MayCall(c, "Pend") \/ (c = "isr" /\ MayCall(c, "Wake"))
  /\ Used(s) /\ semCount[s] > 0
  /\ semCount' = [semCount EXCEPT ![s] = @ - 1]
  /\ UNCHANGED <<vars, unusedSem, handed>>

SemPendBlock_BugFront(s, n) ==
  /\ Used(s) /\ semCount[s] = 0
  /\ Pend(s, n, 1)
  /\ handed' = [handed EXCEPT ![run] = FALSE]
  /\ UNCHANGED <<unusedSem, semCount>>

\* No unit: the running task blocks behind those that wait.
SemPendBlock(s, n) ==
  /\ Used(s) /\ semCount[s] = 0
  /\ Pend(s, n, Len(Unlink(list, run)[s]) + 1)
  /\ handed' = [handed EXCEPT ![run] = FALSE]
  /\ UNCHANGED <<unusedSem, semCount>>

SemPendReturn ==
  /\ WaitReturn
  /\ handed' = [handed EXCEPT ![run] = FALSE]
  /\ UNCHANGED <<unusedSem, semCount>>

SemPostWake_BugCounted(c, s) ==
  /\ Used(s) /\ semCount[s] < CountMax
  /\ Wake(c, s)
  /\ handed' = [handed EXCEPT ![Head(list[s])] = TRUE]
  /\ semCount' = [semCount EXCEPT ![s] = @ + 1]
  /\ UNCHANGED unusedSem

\* The unit goes to the task that waits longest, not to the count.
SemPostWake(c, s) ==
  /\ Used(s) /\ semCount[s] < CountMax
  /\ Wake(c, s)
  /\ handed' = [handed EXCEPT ![Head(list[s])] = TRUE]
  /\ UNCHANGED <<unusedSem, semCount>>

SemPostCount_BugOverflow(c, s) ==
  /\ MayCall(c, "Wake") /\ Used(s) /\ list[s] = <<>>
  /\ semCount' = [semCount EXCEPT ![s] = @ + 1]
  /\ UNCHANGED <<vars, unusedSem, handed>>

\* Nobody waits: the unit is counted.
SemPostCount(c, s) ==
  /\ MayCall(c, "Wake") /\ Used(s) /\ semCount[s] < CountMax /\ list[s] = <<>>
  /\ semCount' = [semCount EXCEPT ![s] = @ + 1]
  /\ UNCHANGED <<vars, unusedSem, handed>>

SemPost(s) == \E c \in Context : SemPostWake(c, s) \/ SemPostCount(c, s)

SemNext ==
  \/ \E c \in Context, n \in 0..CountMax : LOS_SemCreate(c, n)
  \/ \E c \in Context, s \in Obj : LOS_SemDelete(c, s) \/ SemPendTake(c, s)
  \/ \E s \in Obj : SemPost(s) \/ \E n \in Timeouts \cup {Forever} : SemPendBlock(s, n)
  \/ SemPendReturn
  \/ KernelStep /\ ~WaitReturn /\ UNCHANGED semVars

SemSpec == SemInit /\ [][SemNext]_semAllVars
-----------------------------------------------------------------------------
\* A task that returns from LOS_SemPend after it blocked returns success exactly when a
\* post handed it a unit: no unit is lost to a waiter whose limit expires, and no waiter
\* succeeds without one, whatever order post, tick, suspend and resume come in.
ResultHonest == TaskRuns("woken") => ("TIMEOUT" \in status[run] <=> ~handed[run])

\* No task waits for a semaphore while it has a unit left or after it was deleted.
NoIdleUnit == \A s \in Obj : list[s] # <<>> => Used(s) /\ semCount[s] = 0

\* Waiters are served in order: when posts keep coming, every wait ends.
EveryWaiterServed ==
  \A s \in Obj : []<><<SemPost(s)>>_semAllVars =>
                   \A t \in Task : t \in ToSet(list[s]) ~> t \notin ToSet(list[s])
=============================================================================
