----------------------------- MODULE MCSemaphore -----------------------------
(* Small instances of Semaphore for TLC.                                   *)
EXTENDS Semaphore

CONSTANTS t1, t2, t3, idle, dummy, free, recycle, s1, s2, null

TwoOrder == <<t1, t2>>
ThreeOrder == <<t1, t2, t3>>
OneSem == <<s1>>
TwoSems == <<s1, s2>>
=============================================================================
