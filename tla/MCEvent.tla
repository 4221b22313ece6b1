-------------------------------- MODULE MCEvent --------------------------------
(* Small instances of Event for TLC.                                       *)
EXTENDS Event

CONSTANTS t1, t2, t3, idle, dummy, free, recycle, e1, null

TwoOrder == <<t1, t2>>
ThreeOrder == <<t1, t2, t3>>
=============================================================================
