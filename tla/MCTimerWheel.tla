----------------------------- MODULE MCTimerWheel -----------------------------
(* Small instances of TimerWheel for TLC.                                  *)
EXTENDS TimerWheel

CONSTANTS t1, t2, t3
=============================================================================
