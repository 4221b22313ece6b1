------------------------------- MODULE MCQueue -------------------------------
(* Small instances of Queue for TLC.                                       *)
EXTENDS Queue

CONSTANTS t1, t2, t3, idle, dummy, free, recycle, q1, read1, write1, mem1, b1, b2, b3, null

TwoOrder == <<t1, t2>>
ThreeOrder == <<t1, t2, t3>>
OneQueue == <<q1>>
TwoBoxes == <<b1, b2>>
ThreeBoxes == <<b1, b2, b3>>
Readers == [q \in {q1} |-> read1]
Writers == [q \in {q1} |-> write1]
Allocs == [q \in {q1} |-> mem1]
=============================================================================
