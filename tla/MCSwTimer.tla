------------------------------ MODULE MCSwTimer ------------------------------
(* Small instances of SwTimer for TLC.                                     *)
EXTENDS SwTimer

CONSTANTS swtmr, idle, dummy, free, recycle, q1, read1, write1, mem1, b1, b2, null

NoOrder == <<>>
OneQueue == <<q1>>
TwoBoxes == <<b1, b2>>
OnceOrPeriod == {[mode |-> "once", interval |-> 2], [mode |-> "period", interval |-> 1]}
Readers == [q \in {q1} |-> read1]
Writers == [q \in {q1} |-> write1]
Allocs == [q \in {q1} |-> mem1]
=============================================================================
