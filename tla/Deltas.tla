--------------------------------- MODULE Deltas ---------------------------------
(***************************************************************************)
(* Lists of differences, in the order of expiry: the count of each entry   *)
(* is what it waits longer than the entry before it, so a tick counts down *)
(* the first alone.  The software timers are one such list, every list of  *)
(* the wheel behind the delay list is another.                             *)
(***************************************************************************)
EXTENDS SequencesExt

\* What the first i entries of Q wait, by their counts C.
Ahead(Q, C, i) ==
  LET upTo[k \in 0..i] == IF k = 0 THEN 0 ELSE upTo[k - 1] + C[Q[k]]
  IN upTo[i]

\* A new entry goes after those that wait no longer.
PlaceFor(Q, C, n) == 1 + Cardinality({i \in DOMAIN Q : Ahead(Q, C, i) <= n})

\* The counts after t was put on Q at place k to wait n: the entry behind it has less to
\* wait after it.
CountsPut(Q, C, t, n, k) ==
  LET c == n - Ahead(Q, C, k - 1)
  IN IF k > Len(Q) THEN [C EXCEPT ![t] = c] ELSE [C EXCEPT ![t] = c, ![Q[k]] = @ - c]

\* The counts after t was taken off Q: the entry behind it takes over what t still had to
\* wait.  (What is not read before it is set again, as the count of t, is cleared here.)
CountsCut(Q, C, t) ==
  IF Last(Q) = t THEN [C EXCEPT ![t] = 0]
  ELSE LET next == Q[1 + CHOOSE i \in DOMAIN Q : Q[i] = t]
       IN [C EXCEPT ![next] = @ + C[t], ![t] = 0]
=============================================================================
