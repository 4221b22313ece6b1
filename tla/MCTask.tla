------------------------------- MODULE MCTask -------------------------------
(* Small instances of Task for TLC.                                        *)
EXTENDS Task

CONSTANTS t1, t2, t3, idle, swtmr, dummy, free, recycle, sem, queue, null

OneOrder == <<t1>>
TwoOrder == <<t1, t2>>
ThreeOrder == <<t1, t2, t3>>

\* Every call a task makes, and every call an interrupt handler makes.
AllCalls == {"Create", "Resume", "Suspend", "Delete", "Exit", "Delay", "Yield", "PriSet",
             "Lock", "Pend", "Wake"}
AllIsrCalls == {"Create", "Resume", "Suspend", "Delete", "PriSet", "Wake"}
=============================================================================
