--------------------------------- MODULE Fifo ---------------------------------
(***************************************************************************)
(* What the queues of the kernel promise: each delivers its messages in    *)
(* the order they were put, each of them once, and never holds more than   *)
(* its length.  Who waits for what is not part of it.                      *)
(***************************************************************************)
EXTENDS SequencesExt

CONSTANTS
  Queue, Msg,
  Capacity    \* how many messages a queue holds

VARIABLES
  items,      \* the messages of each queue, the oldest first
  outside     \* the messages that are in no queue

fifoVars == <<items, outside>>

FifoInit == items = [q \in Queue |-> <<>>] /\ outside = Msg

Put(q, m) ==
  /\ m \in outside /\ Len(items[q]) < Capacity
  /\ items' = [items EXCEPT ![q] = Append(@, m)] /\ outside' = outside \ {m}

Take(q) ==
  /\ items[q] # <<>>
  /\ outside' = outside \cup {Head(items[q])} /\ items' = [items EXCEPT ![q] = Tail(@)]

\* The queue is deleted: what it held is forgotten, or kept by who deletes it.
Drop(q) ==
  /\ items' = [items EXCEPT ![q] = <<>>] /\ outside' = outside \cup ToSet(items[q])

FifoNext == \E q \in Queue : Take(q) \/ Drop(q) \/ \E m \in Msg : Put(q, m)

FifoSpec == FifoInit /\ [][FifoNext]_fifoVars
=============================================================================
