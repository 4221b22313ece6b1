------------------------------- MODULE MCMutex -------------------------------
(* Small instances of Mutex for TLC.                                       *)
EXTENDS Mutex

CONSTANTS t1, t2, t3, idle, dummy, free, recycle, m1, m2, null

TwoOrder == <<t1, t2>>
ThreeOrder == <<t1, t2, t3>>
OneMux == <<m1>>
TwoMuxes == <<m1, m2>>
=============================================================================
