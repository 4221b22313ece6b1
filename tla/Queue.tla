--------------------------------- MODULE Queue ---------------------------------
(***************************************************************************)
(* Queues and mail boxes (src/kernel/base/ipc/los_queue.c).  A queue is a  *)
(* ring of nodes with two counts, the nodes to read and the nodes to       *)
(* write, and three lists of waiting tasks.  Who wakes a waiter does not   *)
(* count the node it reads or frees: the waiter owns it, and takes or      *)
(* fills the node at the head or tail when it runs.  A read or write that  *)
(* blocked may itself wake a waiter of the other side (PassOn of Task).    *)
(*                                                                         *)
(* The messages are the blocks of one pool, as in a mail queue: whoever    *)
(* writes one gives it away.                                               *)
(***************************************************************************)
EXTENDS Task, Membox

CONSTANTS
  QueueOrder,                    \* the control blocks of g_pstAllQueue in order
  QueueLen,                      \* usQueueLen
  ReadList, WriteList, MemList   \* stReadList, stWriteList, stMemList of each

Queue == ToSet(QueueOrder)
Node == 0..QueueLen - 1

ASSUME QueueAssumption ==
  /\ QueueLen \in Nat \ {0} /\ QueueObj = Obj /\ Null \notin Box
  /\ {ReadList, WriteList, MemList} \subseteq [Queue -> Obj]
  /\ \A q, r \in Queue :
       /\ ReadList[q] # WriteList[r] /\ WriteList[q] # MemList[r] /\ MemList[q] # ReadList[r]
       /\ q # r => /\ ReadList[q] # ReadList[r] /\ WriteList[q] # WriteList[r]
                   /\ MemList[q] # MemList[r]

VARIABLES
  used,       \* the queues whose usQueueState is OS_QUEUE_INUSED
  ring,       \* the nodes of pucQueue
  qHead,      \* usQueueHead
  qTail,      \* usQueueTail
  readable,   \* usReadableCnt
  writable,   \* usWritableCnt
  asks,       \* the locals of a call that blocked: what, which queue, which message
  puwMsg,     \* the block that osQueueMailFree left for a waiter
  held        \* history: the blocks whose address the application has

queueVars == <<used, ring, qHead, qTail, readable, writable>>
mailVars  == <<boxFree, puwMsg>>
allVars   == <<vars, queueVars, mailVars, asks, held>>

Asking == [op : {"none", "read", "write", "alloc"}, queue : Queue \cup {Null},
           msg : Box \cup {Null}]
NoAsk == [op |-> "none", queue |-> Null, msg |-> Null]

QueueTypeOK ==
  /\ used \subseteq Queue
  /\ ring \in [Queue -> [Node -> Box \cup {Null}]]
  /\ qHead \in [Queue -> Node] /\ qTail \in [Queue -> Node]
  /\ readable \in [Queue -> 0..QueueLen] /\ writable \in [Queue -> 0..QueueLen]
  /\ asks \in [Task -> Asking]
  /\ puwMsg \in [Task -> Box \cup {Null}]
  /\ boxFree \in Seq(Box) /\ held \subseteq Box

QueueInit ==
  /\ Init /\ BoxInit
  /\ used = {}
  /\ ring = [q \in Queue |-> [i \in Node |-> Null]]
  /\ qHead = [q \in Queue |-> 0] /\ qTail = [q \in Queue |-> 0]
  /\ readable = [q \in Queue |-> 0] /\ writable = [q \in Queue |-> 0]
  /\ asks = [t \in Task |-> NoAsk] /\ puwMsg = [t \in Task |-> Null] /\ held = {}

\* A task in a call that blocked and was not refused for its time: it owns a node or a
\* block as soon as it is off the list.
Granted(t, op, q) ==
  /\ asks[t].op = op /\ asks[t].queue = q /\ Waiting(t) = {} /\ "TIMEOUT" \notin status[t]

Claims(op, q) == Cardinality({t \in Task : Granted(t, op, q)})
-----------------------------------------------------------------------------
\* osQueueCreate takes the first control block that is not used.
FirstUnused(q) ==
  \E i \in DOMAIN QueueOrder :
    q = QueueOrder[i] /\ q \notin used /\ \A j \in 1..i - 1 : QueueOrder[j] \in used

LOS_QueueCreate(c, q) ==
  /\ MayCall(c, "QueueCreate") /\ FirstUnused(q)
  /\ used' = used \cup {q}
  /\ ring' = [ring EXCEPT ![q] = [i \in Node |-> Null]]
  /\ qHead' = [qHead EXCEPT ![q] = 0] /\ qTail' = [qTail EXCEPT ![q] = 0]
  /\ readable' = [readable EXCEPT ![q] = 0]
  /\ writable' = [writable EXCEPT ![q] = QueueLen]
  /\ UNCHANGED <<vars, mailVars, asks, held>>

\* The messages in the ring: those to be read and those that woken readers will take.
Contents(q) ==
  LET n == IF q \in used THEN readable[q] + Claims("read", q) ELSE 0
  IN [i \in 1..n |-> ring[q][(qHead[q] + i - 1) % QueueLen]]

LOS_QueueDelete_BugClaims(c, q) ==
  /\ MayCall(c, "QueueDelete") /\ q \in used
  /\ list[ReadList[q]] = <<>> /\ list[WriteList[q]] = <<>> /\ list[MemList[q]] = <<>>
  /\ used' = used \ {q} /\ held' = held \cup ToSet(Contents(q))
  /\ ring' = [ring EXCEPT ![q] = [i \in Node |-> Null]]
  /\ UNCHANGED <<vars, qHead, qTail, readable, writable, mailVars, asks>>

\* Refused while tasks wait, or while one was woken and has not read or written yet; not
\* while there are messages: the blocks are then the application's again.
LOS_QueueDelete(c, q) ==
  /\ MayCall(c, "QueueDelete") /\ q \in used
  /\ list[ReadList[q]] = <<>> /\ list[WriteList[q]] = <<>> /\ list[MemList[q]] = <<>>
  /\ readable[q] + writable[q] = QueueLen
  /\ used' = used \ {q} /\ held' = held \cup ToSet(Contents(q))
  /\ ring' = [ring EXCEPT ![q] = [i \in Node |-> Null]]
  /\ UNCHANGED <<vars, qHead, qTail, readable, writable, mailVars, asks>>
-----------------------------------------------------------------------------
(* osQueuePend: the running task leaves its ready list and blocks before    *)
(* the first waiter that is less urgent.                                    *)

PendPlace(L) ==
  LET less == {i \in DOMAIN L : prio[run] < prio[L[i]]}
  IN IF less = {} THEN Len(L) + 1 ELSE Min(less)

QueuePend(o, n, ask) ==
  /\ Pend(o, n, PendPlace(Unlink(list, run)[o]))
  /\ asks' = [asks EXCEPT ![run] = ask]

\* The limit expired before another task or a handler woke the caller.
TimedOut ==
  /\ WaitReturn /\ "TIMEOUT" \in status[run]
  /\ asks' = [asks EXCEPT ![run] = NoAsk]
  /\ held' = IF asks[run].op = "write" THEN held \cup {asks[run].msg} ELSE held
  /\ UNCHANGED <<queueVars, mailVars>>

Resumes(op, q) ==
  /\ TaskRuns("woken") /\ "TIMEOUT" \notin status[run]
  /\ asks[run].op = op /\ asks[run].queue = q
  /\ asks' = [asks EXCEPT ![run] = NoAsk]
-----------------------------------------------------------------------------
After_BugEarly(i) == IF i + 1 >= QueueLen - 1 THEN 0 ELSE i + 1

After(i) == (i + 1) % QueueLen

\* The message at the head leaves the ring.  The code leaves its copy in the node, which
\* is filled before it is read again; here the node is emptied.
TakeNode(q) ==
  /\ held' = held \cup {ring[q][qHead[q]]}
  /\ ring' = [ring EXCEPT ![q][qHead[q]] = Null]
  /\ qHead' = [qHead EXCEPT ![q] = After(@)]
  /\ UNCHANGED <<used, qTail, mailVars>>

ReadTake_BugBoth(c, q) ==
  /\ MayCall(c, "Wake") /\ q \in used /\ readable[q] > 0
  /\ TakeNode(q) /\ readable' = [readable EXCEPT ![q] = @ - 1]
  /\ writable' = [writable EXCEPT ![q] = @ + 1]
  /\ \/ Wake(c, WriteList[q])
     \/ list[WriteList[q]] = <<>> /\ UNCHANGED vars
  /\ UNCHANGED asks

\* LOS_QueueRead when there is a message, in a task or without waiting in a handler: the
\* node goes to the writer that waits longest, or counts as free.
ReadTake(c, q) ==
  /\ MayCall(c, "Wake") /\ q \in used /\ readable[q] > 0
  /\ TakeNode(q) /\ readable' = [readable EXCEPT ![q] = @ - 1]
  /\ \/ Wake(c, WriteList[q]) /\ UNCHANGED writable
     \/ /\ list[WriteList[q]] = <<>> /\ UNCHANGED vars
        /\ writable' = [writable EXCEPT ![q] = @ + 1]
  /\ UNCHANGED asks

ReadBlock(q, n) ==
  /\ q \in used /\ readable[q] = 0
  /\ QueuePend(ReadList[q], n, [op |-> "read", queue |-> q, msg |-> Null])
  /\ UNCHANGED <<queueVars, mailVars, held>>

ReadReturn_BugUncounted(q) ==
  /\ Resumes("read", q) /\ TakeNode(q) /\ UNCHANGED <<readable, writable>>
  /\ PassOn(WriteList[q]) \/ (list[WriteList[q]] = <<>> /\ WaitReturn)

\* The reader that was woken takes the message at the head, whichever that is by now.
ReadReturn(q) ==
  /\ Resumes("read", q) /\ TakeNode(q) /\ UNCHANGED readable
  /\ \/ PassOn(WriteList[q]) /\ UNCHANGED writable
     \/ /\ list[WriteList[q]] = <<>> /\ WaitReturn
        /\ writable' = [writable EXCEPT ![q] = @ + 1]

FillNode(q, m) ==
  /\ ring' = [ring EXCEPT ![q][qTail[q]] = m]
  /\ qTail' = [qTail EXCEPT ![q] = After(@)]
  /\ UNCHANGED <<used, qHead, mailVars>>

WriteTake_BugUnwoken(c, q, m) ==
  /\ MayCall(c, "Wake") /\ q \in used /\ writable[q] > 0 /\ m \in held
  /\ FillNode(q, m) /\ held' = held \ {m}
  /\ writable' = [writable EXCEPT ![q] = @ - 1]
  /\ readable' = [readable EXCEPT ![q] = @ + 1]
  /\ UNCHANGED <<vars, asks>>

WriteTake(c, q, m) ==
  /\ MayCall(c, "Wake") /\ q \in used /\ writable[q] > 0 /\ m \in held
  /\ FillNode(q, m) /\ held' = held \ {m}
  /\ writable' = [writable EXCEPT ![q] = @ - 1]
  /\ \/ Wake(c, ReadList[q]) /\ UNCHANGED readable
     \/ /\ list[ReadList[q]] = <<>> /\ UNCHANGED vars
        /\ readable' = [readable EXCEPT ![q] = @ + 1]
  /\ UNCHANGED asks

WriteBlock(q, m, n) ==
  /\ q \in used /\ writable[q] = 0 /\ m \in held
  /\ QueuePend(WriteList[q], n, [op |-> "write", queue |-> q, msg |-> m])
  /\ held' = held \ {m}
  /\ UNCHANGED <<queueVars, mailVars>>

WriteReturn_BugSilent(q) ==
  /\ Resumes("write", q) /\ FillNode(q, asks[run].msg) /\ UNCHANGED <<writable, held>>
  /\ WaitReturn /\ readable' = [readable EXCEPT ![q] = @ + 1]

WriteReturn(q) ==
  /\ Resumes("write", q) /\ FillNode(q, asks[run].msg) /\ UNCHANGED <<writable, held>>
  /\ \/ PassOn(ReadList[q]) /\ UNCHANGED readable
     \/ /\ list[ReadList[q]] = <<>> /\ WaitReturn
        /\ readable' = [readable EXCEPT ![q] = @ + 1]
-----------------------------------------------------------------------------
(* osQueueMailAlloc and osQueueMailFree: the pool with a list of waiters.   *)

MailAllocTake(c, b) ==
  /\ MayCall(c, "Wake")
  /\ LOS_MemboxAlloc(b) /\ held' = held \cup {b}
  /\ UNCHANGED <<vars, queueVars, asks, puwMsg>>

\* The scheduler lock is not looked at: under it the call must not be made.
MailAllocBlock(q, n) ==
  /\ q \in used /\ boxFree = <<>>
  /\ QueuePend(MemList[q], n, [op |-> "alloc", queue |-> q, msg |-> Null])
  /\ UNCHANGED <<queueVars, mailVars, held>>

MailAllocReturn(q) ==
  /\ Resumes("alloc", q) /\ WaitReturn
  /\ held' = held \cup {puwMsg[run]} /\ puwMsg' = [puwMsg EXCEPT ![run] = Null]
  /\ UNCHANGED <<queueVars, boxFree>>

MailFreeWake_BugKept(c, q, b) ==
  /\ q \in used /\ b \in held /\ Magic(b)
  /\ Wake(c, MemList[q])
  /\ LOS_MemboxFree(b)
  /\ puwMsg' = [puwMsg EXCEPT ![Head(list[MemList[q]])] = b]
  /\ held' = held \ {b}
  /\ UNCHANGED <<queueVars, asks>>

\* The block goes through the pool to the task that waits for one.
MailFreeWake(c, q, b) ==
  /\ q \in used /\ b \in held /\ Magic(b)
  /\ Wake(c, MemList[q])
  /\ puwMsg' = [puwMsg EXCEPT ![Head(list[MemList[q]])] = b]
  /\ held' = held \ {b}
  /\ UNCHANGED <<queueVars, boxFree, asks>>

MailFree(c, q, b) ==
  /\ MayCall(c, "Wake") /\ q \in used /\ b \in held /\ list[MemList[q]] = <<>>
  /\ LOS_MemboxFree(b) /\ held' = held \ {b}
  /\ UNCHANGED <<vars, queueVars, asks, puwMsg>>
-----------------------------------------------------------------------------
ReadStep(q) ==
  \/ \E c \in Context : ReadTake(c, q)
  \/ ReadReturn(q) \/ \E n \in Timeouts \cup {Forever} : ReadBlock(q, n)

WriteStep(q) ==
  \/ \E c \in Context, m \in Box : WriteTake(c, q, m)
  \/ WriteReturn(q) \/ \E m \in Box, n \in Timeouts \cup {Forever} : WriteBlock(q, m, n)

MailStep(q) ==
  \/ \E c \in Context, b \in Box : MailFreeWake(c, q, b) \/ MailFree(c, q, b)
  \/ MailAllocReturn(q) \/ \E n \in Timeouts \cup {Forever} : MailAllocBlock(q, n)

QueueNext ==
  \/ \E c \in Context, q \in Queue : LOS_QueueCreate(c, q) \/ LOS_QueueDelete(c, q)
  \/ \E q \in Queue : ReadStep(q) \/ WriteStep(q) \/ MailStep(q)
  \/ \E c \in Context, b \in Box : MailAllocTake(c, b)
  \/ TimedOut
  \/ KernelStep /\ ~WaitReturn /\ UNCHANGED <<queueVars, mailVars, asks, held>>

QueueSpec == QueueInit /\ [][QueueNext]_allVars
-----------------------------------------------------------------------------
\* Every node of a queue in use is counted as readable, counted as writable or owned by
\* exactly one reader or writer that was woken and has not run yet, whatever order reads,
\* writes, limits that expire, suspensions and resumptions come in.
NodesCounted ==
  \A q \in used :
    readable[q] + writable[q] + Claims("read", q) + Claims("write", q) = QueueLen

\* No task waits to read where a message is not spoken for, to write where a node is
\* free, nor at a queue that was deleted.
NodesFound ==
  \A q \in Queue :
    /\ list[ReadList[q]] # <<>> => q \in used /\ readable[q] = 0
    /\ list[WriteList[q]] # <<>> => q \in used /\ writable[q] = 0

\* No task waits to read or write where it need not, or for a block while the pool has
\* one: whoever adds a node, a message or a block sees the waiter.
NoIdleNode ==
  /\ NodesFound
  /\ \A q \in Queue : list[MemList[q]] # <<>> => q \in used /\ boxFree = <<>>

\* A reader or writer that was woken finds its queue as it was: not deleted before it runs.
WokenFindsQueue ==
  \A t \in Task, q \in Queue : Granted(t, "read", q) \/ Granted(t, "write", q) => q \in used

\* The message of a writer that has not put it into the ring yet.
Offered == {asks[t].msg : t \in Task} \ {Null}
Handed == {puwMsg[t] : t \in Task} \ {Null}

\* Each block of the pool is in one place: free, in the ring once, with the application,
\* on its way to a task that waited for it, or with a writer that waits.
BlocksOnce ==
  LET inRing == UNION {ToSet(Contents(q)) : q \in Queue}
      places == <<ToSet(boxFree), inRing, held, Handed, Offered>>
  IN /\ \A i, j \in DOMAIN places : i # j => places[i] \cap places[j] = {}
     /\ UNION ToSet(places) = Box
     /\ IsInjective(boxFree)

Abstract == INSTANCE Fifo WITH
  Msg <- Box, Capacity <- QueueLen,
  items <- [q \in Queue |-> Contents(q)],
  outside <- ToSet(boxFree) \cup held \cup Handed \cup Offered

\* The ring with its counts and reservations is a queue that delivers in order, each
\* message once, whoever blocks, times out or is woken while others read and write.
ImplementsFifo == Abstract!FifoSpec
=============================================================================
