--------------------------- MODULE TimerWheel_proofs ---------------------------
(***************************************************************************)
(* Proofs about TimerWheel, for any number of tasks, lists and rolls.      *)
(*                                                                         *)
(* The lists of the wheel are lists of differences, so what SeqLemmas says *)
(* of one holds of each: what its entries wait is set, cut and counted as  *)
(* it must be.  New here is that the lists together make one, the delay    *)
(* list.  The invariant (WheelInv) is that every task stands on the list   *)
(* of its index, that its passes fit the rolls, which the types alone do   *)
(* not say, and that the waiting tasks have an order of expiry; there is   *)
(* one only (OrderUnique), because tasks due at the same tick stand on the *)
(* same list (SameDue), and so each step need only show an order.          *)
(***************************************************************************)
EXTENDS TimerWheel, SeqLemmas
-----------------------------------------------------------------------------
(* Lists in order of a relation R.                                          *)

\* Who stands before another is related to it.
Ordered(Q, R) == \A i, j \in 1..Len(Q) : i < j => <<Q[i], Q[j]>> \in R

\* x stands before y on Q.
Before(Q, x, y) == \E i, j \in 1..Len(Q) : i < j /\ Q[i] = x /\ Q[j] = y

\* There is one order of the entries only, when no two are related both ways.
LEMMA OrderUnique ==
  ASSUME NEW T, NEW P \in Seq(T), NEW Q \in Seq(T), IsInjective(P), IsInjective(Q),
         ToSet(P) = ToSet(Q), NEW R, Ordered(P, R), Ordered(Q, R),
         \A x, y \in ToSet(Q) : ~(<<x, y>> \in R /\ <<y, x>> \in R)
  PROVE  P = Q
<1> DEFINE Bad == {k \in Nat \ {0} : k <= Len(P) /\ k <= Len(Q) => P[k] # Q[k]}
<1>0. /\ Len(P) \in Nat /\ Len(Q) \in Nat
      /\ \A i \in 1..Len(P) : P[i] \in ToSet(P)
      /\ \A i \in 1..Len(Q) : Q[i] \in ToSet(Q)
      /\ \A x \in ToSet(P) : \E i \in 1..Len(P) : P[i] = x
      /\ \A x \in ToSet(Q) : \E i \in 1..Len(Q) : Q[i] = x
      /\ \A i, j \in 1..Len(P) : P[i] = P[j] => i = j
      /\ \A i, j \in 1..Len(Q) : Q[i] = Q[j] => i = j
  BY InToSet DEF IsInjective
<1>1. PICK k \in Bad : \A i \in Bad : k <= i
  <2>1. Bad \in SUBSET Nat /\ Len(P) + 1 \in Bad
    BY <1>0
  <2> HIDE DEF Bad
  <2> QED  BY <2>1, MinExists
<1>2. /\ k \in Nat \ {0} /\ (k <= Len(P) /\ k <= Len(Q) => P[k] # Q[k])
      /\ \A i \in 1..k - 1 : i <= Len(P) /\ i <= Len(Q) /\ P[i] = Q[i]
  <2>1. k \in Nat \ {0} /\ (k <= Len(P) /\ k <= Len(Q) => P[k] # Q[k])
    BY <1>1
  <2>2. ASSUME NEW i \in 1..k - 1 PROVE i <= Len(P) /\ i <= Len(Q) /\ P[i] = Q[i]
    <3>1. i \notin Bad /\ i \in Nat \ {0}
      BY <1>1, <2>1
    <3> QED  BY <3>1
  <2> QED  BY <2>1, <2>2
<1> HIDE DEF Bad
<1>3. CASE k <= Len(P) /\ k > Len(Q)
  <2>1. k \in 1..Len(P) /\ P[k] \in ToSet(Q)
    BY <1>0, <1>2, <1>3
  <2>2. PICK j \in 1..Len(Q) : Q[j] = P[k]
    BY <1>0, <2>1
  <2>3. j \in 1..k - 1 /\ j \in 1..Len(P)
    BY <1>0, <1>2, <1>3, <2>2
  <2>4. P[j] = P[k] /\ j # k
    BY <1>2, <2>2, <2>3
  <2> QED  BY <1>0, <2>1, <2>3, <2>4
<1>4. CASE k > Len(P) /\ k <= Len(Q)
  <2>1. k \in 1..Len(Q) /\ Q[k] \in ToSet(P)
    BY <1>0, <1>2, <1>4
  <2>2. PICK j \in 1..Len(P) : P[j] = Q[k]
    BY <1>0, <2>1
  <2>3. j \in 1..k - 1 /\ j \in 1..Len(Q)
    BY <1>0, <1>2, <1>4, <2>2
  <2>4. Q[j] = Q[k] /\ j # k
    BY <1>2, <2>2, <2>3
  <2> QED  BY <1>0, <2>1, <2>3, <2>4
<1>5. CASE k <= Len(P) /\ k <= Len(Q)
  <2>1. k \in 1..Len(P) /\ k \in 1..Len(Q) /\ P[k] # Q[k] /\ P[k] \in ToSet(Q) /\ Q[k] \in ToSet(P)
    BY <1>0, <1>2, <1>5
  <2>2. PICK j \in 1..Len(Q) : Q[j] = P[k]
    BY <1>0, <2>1
  <2>3. PICK i \in 1..Len(P) : P[i] = Q[k]
    BY <1>0, <2>1
  <2>4. k < j
    <3>1. CASE j < k
      <4>1. j \in 1..k - 1 /\ j \in 1..Len(P)
        BY <1>0, <1>2, <3>1
      <4> QED  BY <1>0, <1>2, <2>1, <2>2, <3>1, <4>1
    <3> QED  BY <1>0, <2>1, <2>2, <3>1
  <2>5. k < i
    <3>1. CASE i < k
      <4>1. i \in 1..k - 1 /\ i \in 1..Len(Q)
        BY <1>0, <1>2, <3>1
      <4> QED  BY <1>0, <1>2, <2>1, <2>3, <3>1, <4>1
    <3> QED  BY <1>0, <2>1, <2>3, <3>1
  <2>6. <<Q[k], P[k]>> \in R /\ <<P[k], Q[k]>> \in R
    BY <2>1, <2>2, <2>3, <2>4, <2>5 DEF Ordered
  <2> QED  BY <1>0, <2>1, <2>6
<1>6. CASE k > Len(P) /\ k > Len(Q)
  <2>1. Len(P) = k - 1 /\ Len(Q) = k - 1
    <3>1. CASE k = 1
      BY <1>0, <1>6, <3>1
    <3>2. CASE k # 1
      <4>1. k - 1 \in 1..k - 1
        BY <1>2, <3>2
      <4>2. k - 1 <= Len(P) /\ k - 1 <= Len(Q)
        BY <1>2, <4>1
      <4> QED  BY <1>0, <1>2, <1>6, <4>2
    <3> QED  BY <3>1, <3>2
  <2>2. Len(P) = Len(Q) /\ \A i \in 1..Len(P) : P[i] = Q[i]
    BY <1>2, <2>1
  <2> QED  BY <2>2, SeqEqual
<1> QED  BY <1>0, <1>2, <1>3, <1>4, <1>5, <1>6

\* The sequences of a set are those with its elements, none twice.
LEMMA OrdersOf ==
  ASSUME NEW T, NEW P \in Seq(T), IsInjective(P)
  PROVE  /\ P \in SetToSeqs(ToSet(P))
         /\ \A Q \in SetToSeqs(ToSet(P)) :
              Q \in Seq(T) /\ IsInjective(Q) /\ ToSet(Q) = ToSet(P)
<1> DEFINE W == ToSet(P)
           n == Len(P)
<1>0. /\ n \in Nat /\ DOMAIN P = 1..n /\ W \subseteq T
      /\ \A i \in 1..n : P[i] \in W
      /\ \A x \in W : \E i \in 1..n : P[i] = x
      /\ \A i, j \in 1..n : P[i] = P[j] => i = j
  BY InToSet DEF IsInjective
<1>a. P = [i \in 1..n |-> P[i]]
  BY <1>0
<1>b. IsFiniteSet(1..n) /\ Cardinality(1..n) = n
  BY <1>0, FS_Interval
<1> HIDE DEF W, n
<1>1. P \in [1..n -> W]
  BY <1>0, <1>a
<1>2. P \in Surjection(1..n, W) /\ P \in Injection(1..n, W)
  BY <1>0, <1>1 DEF Surjection, Injection, IsInjective
<1>3. IsFiniteSet(W) /\ Cardinality(W) = n
  BY <1>b, <1>2, FS_Surjection
<1>4. P \in SetToSeqs(W)
  BY <1>0, <1>1, <1>3 DEF SetToSeqs
<1>5. ASSUME NEW Q \in SetToSeqs(W)
      PROVE  Q \in Seq(T) /\ IsInjective(Q) /\ ToSet(Q) = W
  <2>1. Q \in [1..n -> W] /\ \A i, j \in 1..n : i # j => Q[i] # Q[j]
    BY <1>3 DEF SetToSeqs
  <2>2. Q \in Injection(1..n, W)
    BY <2>1 DEF Injection, IsInjective
  <2>3. Q \in Surjection(1..n, W)
    BY <1>b, <1>3, <2>2, FS_Injection
  <2>4. \A x \in W : \E i \in 1..n : Q[i] = x
    BY <2>3 DEF Surjection
  <2>5. ToSet(Q) = W
    BY <2>1, <2>4 DEF ToSet
  <2>6. IsInjective(Q)
    BY <2>1 DEF IsInjective
  <2>7. Q \in Seq(T)
    BY <1>0, <2>1
  <2> QED  BY <2>5, <2>6, <2>7
<1> QED  BY <1>4, <1>5 DEF W

\* To take off the first entry is to remove it.
LEMMA TailIsRemove ==
  ASSUME NEW T, NEW Q \in Seq(T), Q # <<>>
  PROVE  Tail(Q) = RemoveFirst(Q, Head(Q)) /\ Head(Q) \in ToSet(Q)
<1> DEFINE R == RemoveFirst(Q, Head(Q))
<1>1. /\ Tail(Q) \in Seq(T) /\ Len(Q) \in Nat /\ 1 \in 1..Len(Q) /\ Head(Q) = Q[1]
      /\ Len(Tail(Q)) = Len(Q) - 1 /\ \A i \in 1..Len(Q) - 1 : Tail(Q)[i] = Q[i + 1]
  BY HeadTailProperties, EmptySeq, LenProperties
<1>2. Head(Q) \in ToSet(Q)
  BY <1>1, InToSet
<1>3. PICK k \in 1..Len(Q) :
        /\ Q[k] = Head(Q) /\ \A j \in 1..k - 1 : Q[j] # Head(Q)
        /\ Len(R) = Len(Q) - 1
        /\ \A j \in 1..Len(Q) - 1 : R[j] = IF j < k THEN Q[j] ELSE Q[j + 1]
  BY <1>2, RemoveFirstElements
<1>4. R \in Seq(T)
  BY RemoveFirstRange
<1> HIDE DEF R
<1>5. k = 1
  BY <1>1, <1>3
<1>6. \A i \in 1..Len(R) : Tail(Q)[i] = R[i]
  BY <1>1, <1>3, <1>5
<1>7. Tail(Q) = R
  BY <1>1, <1>3, <1>4, <1>6, SeqEqual
<1> QED  BY <1>2, <1>7 DEF R

\* A removal leaves the others as they stand.
LEMMA RemoveOrdered ==
  ASSUME NEW T, NEW Q \in Seq(T), IsInjective(Q), NEW e \in ToSet(Q)
  PROVE  LET P == RemoveFirst(Q, e)
         IN /\ \A R, S : /\ Ordered(Q, R)
                         /\ \A x, y \in ToSet(Q) \ {e} : <<x, y>> \in R => <<x, y>> \in S
                         => Ordered(P, S)
            /\ \A x, y \in ToSet(Q) \ {e} : Before(Q, x, y) => Before(P, x, y)
<1> DEFINE P == RemoveFirst(Q, e)
<1>0. /\ Len(Q) \in Nat /\ \A i \in 1..Len(Q) : Q[i] \in ToSet(Q)
      /\ \A i, j \in 1..Len(Q) : Q[i] = Q[j] => i = j
  BY InToSet DEF IsInjective
<1>1. PICK k \in 1..Len(Q) :
        /\ Q[k] = e /\ Len(P) = Len(Q) - 1
        /\ \A j \in 1..Len(Q) - 1 : P[j] = IF j < k THEN Q[j] ELSE Q[j + 1]
  <2>1. PICK k \in 1..Len(Q) :
          /\ Q[k] = e /\ \A j \in 1..k - 1 : Q[j] # e
          /\ Len(P) = Len(Q) - 1
          /\ \A j \in 1..Len(Q) - 1 : P[j] = IF j < k THEN Q[j] ELSE Q[j + 1]
    BY RemoveFirstElements
  <2> HIDE DEF P
  <2> QED  BY <2>1
<1> HIDE DEF P
<1>2. ASSUME NEW i \in 1..Len(P), NEW j \in 1..Len(P), i < j
      PROVE  \E a, b \in 1..Len(Q) : a < b /\ a # k /\ b # k /\ Q[a] = P[i] /\ Q[b] = P[j]
  <2>1. CASE j < k
    <3>1. i \in 1..Len(Q) /\ j \in 1..Len(Q) /\ Q[i] = P[i] /\ Q[j] = P[j] /\ i # k /\ j # k
      BY <1>0, <1>1, <1>2, <2>1
    <3> QED  BY <1>2, <3>1
  <2>2. CASE i < k /\ j >= k
    <3>1. /\ i \in 1..Len(Q) /\ j + 1 \in 1..Len(Q) /\ Q[i] = P[i] /\ Q[j + 1] = P[j]
          /\ i # k /\ j + 1 # k /\ i < j + 1
      BY <1>0, <1>1, <1>2, <2>2
    <3> QED  BY <3>1
  <2>3. CASE i >= k
    <3>1. /\ i + 1 \in 1..Len(Q) /\ j + 1 \in 1..Len(Q) /\ Q[i + 1] = P[i] /\ Q[j + 1] = P[j]
          /\ i + 1 # k /\ j + 1 # k /\ i + 1 < j + 1
      BY <1>0, <1>1, <1>2, <2>3
    <3> QED  BY <3>1
  <2> QED  BY <1>1, <1>2, <2>1, <2>2, <2>3
<1>3. ASSUME NEW R, NEW S, Ordered(Q, R),
             \A x, y \in ToSet(Q) \ {e} : <<x, y>> \in R => <<x, y>> \in S
      PROVE  Ordered(P, S)
  <2> SUFFICES ASSUME NEW i \in 1..Len(P), NEW j \in 1..Len(P), i < j
               PROVE  <<P[i], P[j]>> \in S
    BY DEF Ordered
  <2>1. PICK a \in 1..Len(Q), b \in 1..Len(Q) :
          a < b /\ a # k /\ b # k /\ Q[a] = P[i] /\ Q[b] = P[j]
    BY <1>2
  <2>2. <<Q[a], Q[b]>> \in R /\ Q[a] \in ToSet(Q) \ {e} /\ Q[b] \in ToSet(Q) \ {e}
    BY <1>0, <1>1, <1>3, <2>1 DEF Ordered
  <2>3. <<Q[a], Q[b]>> \in S
    BY <1>3, <2>2
  <2> QED  BY <2>1, <2>3
<1>4. ASSUME NEW i \in 1..Len(Q), i # k
      PROVE  \E j \in 1..Len(P) : P[j] = Q[i] /\ j = IF i < k THEN i ELSE i - 1
  <2>1. CASE i < k
    <3>1. i \in 1..Len(P) /\ P[i] = Q[i]
      BY <1>0, <1>1, <2>1
    <3> QED  BY <2>1, <3>1
  <2>2. CASE i > k
    <3>1. i - 1 \in 1..Len(P) /\ i - 1 \in 1..Len(Q) - 1 /\ ~(i - 1 < k) /\ (i - 1) + 1 = i /\ ~(i < k)
      BY <1>0, <1>1, <2>2
    <3>2. P[i - 1] = Q[i]
      BY <1>1, <3>1
    <3> QED  BY <3>1, <3>2
  <2> QED  BY <1>1, <1>4, <2>1, <2>2
<1>5. ASSUME NEW x \in ToSet(Q) \ {e}, NEW y \in ToSet(Q) \ {e}, Before(Q, x, y)
      PROVE  Before(P, x, y)
  <2>1. PICK i \in 1..Len(Q), j \in 1..Len(Q) : i < j /\ Q[i] = x /\ Q[j] = y
    BY <1>5 DEF Before
  <2>2. i # k /\ j # k
    BY <1>1, <2>1
  <2>3. PICK a \in 1..Len(P) : P[a] = Q[i] /\ a = IF i < k THEN i ELSE i - 1
    BY <1>4, <2>2
  <2>4. PICK b \in 1..Len(P) : P[b] = Q[j] /\ b = IF j < k THEN j ELSE j - 1
    BY <1>4, <2>2
  <2>5. a < b
    BY <1>1, <2>1, <2>2, <2>3, <2>4
  <2> QED  BY <2>1, <2>3, <2>4, <2>5 DEF Before
<1> QED  BY <1>3, <1>5 DEF P

\* So does an insertion.
LEMMA InsertBefore ==
  ASSUME NEW T, NEW Q \in Seq(T), NEW e \in T, NEW k \in 1..Len(Q) + 1
  PROVE  LET P == InsertAt(Q, k, e)
         IN /\ \A x, y : Before(Q, x, y) => Before(P, x, y)
            /\ \A i \in 1..k - 1 : Before(P, Q[i], e)
<1> DEFINE P == InsertAt(Q, k, e)
<1>1. /\ Len(Q) \in Nat /\ Len(P) = Len(Q) + 1
      /\ \A j \in 1..Len(Q) + 1 : P[j] = IF j < k THEN Q[j] ELSE IF j = k THEN e ELSE Q[j - 1]
  BY InsertAtElements, LenProperties
<1> HIDE DEF P
<1>2. ASSUME NEW i \in 1..Len(Q)
      PROVE  \E j \in 1..Len(P) : P[j] = Q[i] /\ j = IF i < k THEN i ELSE i + 1
  <2>1. CASE i < k
    <3>1. i \in 1..Len(P) /\ P[i] = Q[i]
      BY <1>1, <2>1
    <3> QED  BY <2>1, <3>1
  <2>2. CASE ~(i < k)
    <3>1. i + 1 \in 1..Len(P) /\ ~(i + 1 < k) /\ i + 1 # k /\ (i + 1) - 1 = i
      BY <1>1, <2>2
    <3>2. P[i + 1] = Q[i]
      BY <1>1, <3>1
    <3> QED  BY <2>2, <3>1, <3>2
  <2> QED  BY <2>1, <2>2
<1>3. ASSUME NEW x, NEW y, Before(Q, x, y) PROVE Before(P, x, y)
  <2>1. PICK i \in 1..Len(Q), j \in 1..Len(Q) : i < j /\ Q[i] = x /\ Q[j] = y
    BY <1>3 DEF Before
  <2>2. PICK a \in 1..Len(P) : P[a] = Q[i] /\ a = IF i < k THEN i ELSE i + 1
    BY <1>2
  <2>3. PICK b \in 1..Len(P) : P[b] = Q[j] /\ b = IF j < k THEN j ELSE j + 1
    BY <1>2
  <2>4. a < b
    BY <2>1, <2>2, <2>3
  <2> QED  BY <2>1, <2>2, <2>3, <2>4 DEF Before
<1>4. ASSUME NEW i \in 1..k - 1 PROVE Before(P, Q[i], e)
  <2>1. i \in 1..Len(P) /\ k \in 1..Len(P) /\ i < k /\ P[i] = Q[i] /\ P[k] = e
    BY <1>1
  <2> QED  BY <2>1 DEF Before
<1> QED  BY <1>3, <1>4 DEF P

\* The place by a time f that grows along a list.
PlaceBy(Q, f, n) == 1 + Cardinality({i \in DOMAIN Q : f[Q[i]] <= n})

\* A new entry that stands behind those with no greater time.
LEMMA InsertOrdered ==
  ASSUME NEW T, NEW Q \in Seq(T), NEW e \in T, NEW f, NEW n \in Int, NEW R, NEW S,
         \A x \in ToSet(Q) : f[x] \in Int,
         \A i, j \in 1..Len(Q) : i < j => f[Q[i]] <= f[Q[j]],
         Ordered(Q, R), \A x, y \in ToSet(Q) : <<x, y>> \in R => <<x, y>> \in S,
         \A x \in ToSet(Q) : IF f[x] <= n THEN <<x, e>> \in S ELSE <<e, x>> \in S
  PROVE  /\ PlaceBy(Q, f, n) \in 1..Len(Q) + 1
         /\ Ordered(InsertAt(Q, PlaceBy(Q, f, n), e), S)
<1> DEFINE I == {i \in DOMAIN Q : f[Q[i]] <= n}
           B == {i \in 1..Len(Q) + 1 : i \notin I}
<1>0. /\ DOMAIN Q = 1..Len(Q) /\ Len(Q) \in Nat
      /\ \A i \in 1..Len(Q) : Q[i] \in ToSet(Q) /\ f[Q[i]] \in Int
  BY InToSet
<1>1. \E m \in B : \A i \in B : m <= i
  <2>1. B \in SUBSET Nat /\ Len(Q) + 1 \in B
    BY <1>0
  <2> HIDE DEF B
  <2> QED  BY <2>1, MinExists
<1>2. PICK m \in 1..Len(Q) + 1 : m \notin I /\ \A i \in 1..Len(Q) + 1 : i \notin I => m <= i
  BY <1>1
<1>3. I = 1..m - 1
  <2>1. ASSUME NEW i \in 1..m - 1 PROVE i \in I
    BY <1>0, <1>2, <2>1
  <2>2. ASSUME NEW i \in I PROVE i \in 1..m - 1
    <3>1. i \in 1..Len(Q) /\ f[Q[i]] <= n
      BY <1>0
    <3>2. CASE m < i
      <4>1. m \in 1..Len(Q) /\ f[Q[m]] <= f[Q[i]]
        BY <1>0, <1>2, <3>1, <3>2
      <4> QED  BY <1>0, <1>2, <3>1, <4>1
    <3>3. CASE m = i
      BY <1>2, <3>3
    <3> QED  BY <1>0, <1>2, <3>1, <3>2, <3>3
  <2> QED  BY <2>1, <2>2
<1>4. \A i \in 1..Len(Q) : f[Q[i]] <= n <=> i < m
  BY <1>0, <1>2, <1>3
<1> HIDE DEF I, B
<1>5. Cardinality(I) = m - 1
  <2>1. m - 1 \in Nat /\ 1 \in Int
    BY <1>0, <1>2
  <2> QED  BY <1>3, <2>1, FS_Interval
<1>6. PlaceBy(Q, f, n) = m
  <2>1. 1 + Cardinality(I) = m
    BY <1>0, <1>2, <1>5
  <2> QED  BY <2>1 DEF PlaceBy, I
<1> DEFINE P == InsertAt(Q, m, e)
<1>7. /\ Len(P) = Len(Q) + 1
      /\ \A j \in 1..Len(Q) + 1 : P[j] = IF j < m THEN Q[j] ELSE IF j = m THEN e ELSE Q[j - 1]
  BY <1>2, InsertAtElements
<1> HIDE DEF P
<1>8. ASSUME NEW i \in 1..Len(P), NEW j \in 1..Len(P), i < j
      PROVE  <<P[i], P[j]>> \in S
  <2>0. \A a, b \in 1..Len(Q) : a < b => <<Q[a], Q[b]>> \in S
    BY <1>0 DEF Ordered
  <2>1. CASE j < m
    <3>1. i \in 1..Len(Q) /\ j \in 1..Len(Q) /\ P[i] = Q[i] /\ P[j] = Q[j]
      BY <1>0, <1>2, <1>7, <1>8, <2>1
    <3> QED  BY <1>8, <2>0, <3>1
  <2>2. CASE j = m
    <3>1. i \in 1..Len(Q) /\ i < m /\ P[i] = Q[i] /\ P[j] = e
      BY <1>0, <1>2, <1>7, <1>8, <2>2
    <3> QED  BY <1>0, <1>4, <3>1
  <2>3. CASE j > m /\ i < m
    <3>1. /\ i \in 1..Len(Q) /\ j - 1 \in 1..Len(Q) /\ P[i] = Q[i] /\ P[j] = Q[j - 1]
          /\ i < j - 1
      BY <1>0, <1>2, <1>7, <1>8, <2>3
    <3> QED  BY <2>0, <3>1
  <2>4. CASE j > m /\ i = m
    <3>1. j - 1 \in 1..Len(Q) /\ ~(j - 1 < m) /\ P[i] = e /\ P[j] = Q[j - 1]
      BY <1>0, <1>2, <1>7, <1>8, <2>4
    <3> QED  BY <1>0, <1>4, <3>1
  <2>5. CASE j > m /\ i > m
    <3>1. /\ i - 1 \in 1..Len(Q) /\ j - 1 \in 1..Len(Q) /\ P[i] = Q[i - 1] /\ P[j] = Q[j - 1]
          /\ i - 1 < j - 1
      BY <1>0, <1>2, <1>7, <1>8, <2>5
    <3> QED  BY <2>0, <3>1
  <2> QED  BY <1>2, <1>8, <2>1, <2>2, <2>3, <2>4, <2>5
<1>9. Ordered(P, S)
  BY <1>8 DEF Ordered
<1> QED  BY <1>2, <1>6, <1>9 DEF P
-----------------------------------------------------------------------------
(* The numbers of the wheel.                                                *)

\* Once around.
LEMMA Wrap ==
  ASSUME NEW N \in Nat \ {0}, NEW a \in 0..2 * N - 1
  PROVE  a % N = IF a < N THEN a ELSE a - N
<1>1. CASE a < N
  <2>1. (N * 0 + a) % N = a /\ N * 0 + a = a
    <3>1. a \in 0..N - 1 /\ 0 \in Int /\ N * 0 + a = a
      BY <1>1
    <3> QED  BY <3>1, ModUnique
  <2> QED  BY <1>1, <2>1
<1>2. CASE ~(a < N)
  <2>1. (N * 1 + (a - N)) % N = a - N /\ N * 1 + (a - N) = a
    <3>1. a - N \in 0..N - 1 /\ 1 \in Int /\ N * 1 + (a - N) = a
      BY <1>2
    <3> QED  BY <3>1, ModUnique
  <2> QED  BY <1>2, <2>1
<1> QED  BY <1>1, <1>2

\* Of two times on lists x and y ticks away, the rolls decide.
LEMMA RollsDecide ==
  ASSUME NEW N \in Nat \ {0}, NEW a \in Int, NEW b \in Int, NEW x \in Int, NEW y \in Int,
         x - y < N, y - x < N, x + N * a = y + N * b
  PROVE  x = y /\ a = b
<1>1. CASE a >= b + 1
  <2>1. N * (a - b) >= N
    BY <1>1
  <2>2. N * (a - b) = N * a - N * b
    OBVIOUS
  <2>3. N * a \in Int /\ N * b \in Int
    OBVIOUS
  <2> QED  BY <2>1, <2>2, <2>3
<1>2. CASE b >= a + 1
  <2>1. N * (b - a) >= N
    BY <1>2
  <2>2. N * (b - a) = N * b - N * a
    OBVIOUS
  <2>3. N * a \in Int /\ N * b \in Int
    OBVIOUS
  <2> QED  BY <2>1, <2>2, <2>3
<1>3. CASE a = b
  BY <1>3
<1> QED  BY <1>1, <1>2, <1>3

LEMMA SameRolls ==
  ASSUME NEW N \in Nat \ {0}, NEW a \in Nat, NEW b \in Nat, NEW x \in Nat,
         x + N * a = x + N * b
  PROVE  a = b
<1>1. x - x < N
  OBVIOUS
<1>2. a \in Int /\ b \in Int /\ x \in Int
  OBVIOUS
<1> QED  BY <1>1, <1>2, RollsDecide

\* A wait in turns and rest.
LEMMA RollNumIs ==
  ASSUME NEW n \in Timeouts
  PROVE  LET a == n % SlotCount
         IN /\ n \in Nat /\ a \in 0..SlotCount - 1 /\ RollNum(n) \in 0..RollSpan - 1
            /\ n = SlotCount * RollNum(n) + IF a = 0 THEN SlotCount ELSE a
<1> DEFINE a == n % SlotCount
           b == n \div SlotCount
<1>0. SlotCount \in Nat \ {0} /\ RollSpan \in Nat \ {0}
  BY WheelAssumption
<1>1. SlotCount * RollSpan \in Int
  BY <1>0
<1>2. n \in Nat /\ n >= 1 /\ n < SlotCount * RollSpan
  BY <1>1, WheelAssumption
<1>3. a \in 0..SlotCount - 1 /\ b \in Int /\ n = SlotCount * b + a
  BY <1>0, <1>2
<1>4. RollNum(n) = IF a > 0 THEN b ELSE b - 1
  BY DEF RollNum
<1> HIDE DEF a, b
<1>5. b < RollSpan
  <2>1. CASE b >= RollSpan
    <3>1. SlotCount * (b - RollSpan) >= 0
      BY <1>0, <1>3, <2>1
    <3>2. SlotCount * (b - RollSpan) = SlotCount * b - SlotCount * RollSpan
      BY <1>0, <1>3
    <3>3. SlotCount * b \in Int
      BY <1>0, <1>3
    <3> QED  BY <1>1, <1>2, <1>3, <3>1, <3>2, <3>3
  <2> QED  BY <1>0, <1>3, <2>1
<1>6. b >= 0 /\ (a = 0 => b >= 1)
  <2>1. CASE b <= -1
    <3>1. SlotCount * (-1 - b) >= 0
      BY <1>0, <1>3, <2>1
    <3>2. SlotCount * (-1 - b) = -SlotCount - SlotCount * b /\ SlotCount * b \in Int
      BY <1>0, <1>3
    <3> QED  BY <1>0, <1>2, <1>3, <3>1, <3>2
  <2>2. CASE b = 0 /\ a = 0
    <3>1. SlotCount * b = 0
      BY <1>0, <2>2
    <3> QED  BY <1>2, <1>3, <2>2, <3>1
  <2> QED  BY <1>3, <2>1, <2>2
<1>7. CASE a > 0
  <2>1. RollNum(n) = b /\ a # 0
    BY <1>3, <1>4, <1>7
  <2> QED  BY <1>0, <1>2, <1>3, <1>5, <1>6, <2>1 DEF a
<1>8. CASE a = 0
  <2>1. RollNum(n) = b - 1
    BY <1>4, <1>8
  <2>2. SlotCount * (b - 1) = SlotCount * b - SlotCount /\ SlotCount * b \in Int
    BY <1>0, <1>3
  <2>3. n = SlotCount * RollNum(n) + SlotCount
    BY <1>0, <1>3, <1>8, <2>1, <2>2
  <2> QED  BY <1>0, <1>2, <1>3, <1>5, <1>6, <1>8, <2>1, <2>3 DEF a
<1> QED  BY <1>3, <1>7, <1>8

\* The ticks until the cursor reaches a list.
FirstFits ==
  \A s \in Slot :
    /\ First(s) \in Nat
    /\ First(s) = IF s = cursor THEN (IF scanning THEN 0 ELSE SlotCount)
                  ELSE IF s > cursor THEN s - cursor ELSE (s - cursor) + SlotCount

LEMMA FirstIs == TypeOK => FirstFits
<1> SUFFICES ASSUME TypeOK, NEW s \in Slot
             PROVE  /\ First(s) \in Nat
                    /\ First(s) = IF s = cursor THEN (IF scanning THEN 0 ELSE SlotCount)
                                  ELSE IF s > cursor THEN s - cursor ELSE (s - cursor) + SlotCount
  BY DEF FirstFits
<1> DEFINE ahead == ((s - cursor) + SlotCount) % SlotCount
<1>0. /\ SlotCount \in Nat \ {0} /\ cursor \in 0..SlotCount - 1 /\ s \in 0..SlotCount - 1
      /\ scanning \in BOOLEAN
  BY WheelAssumption DEF TypeOK, Slot
<1>1. ahead = IF s >= cursor THEN s - cursor ELSE (s - cursor) + SlotCount
  <2>1. (s - cursor) + SlotCount \in 0..2 * SlotCount - 1
    BY <1>0
  <2>2. ahead = IF (s - cursor) + SlotCount < SlotCount THEN (s - cursor) + SlotCount
                ELSE ((s - cursor) + SlotCount) - SlotCount
    BY <1>0, <2>1, Wrap
  <2> HIDE DEF ahead
  <2> QED  BY <1>0, <2>2
<1>2. First(s) = IF ahead = 0 /\ ~scanning THEN SlotCount ELSE ahead
  BY DEF First
<1> HIDE DEF ahead
<1> QED  BY <1>0, <1>1, <1>2
-----------------------------------------------------------------------------
(* The tasks on the wheel and the order of their times.                     *)

\* The passes of the cursor that the tasks on list s wait.
Passes(s) == LeftOf(Task, link[s], roll)

\* Every task is on the list of its index, once, and its passes can be counted.
ListsFit ==
  \A s \in Slot : /\ IsInjective(link[s])
                  /\ \A t \in ToSet(link[s]) : index[t] = s /\ Passes(s)[t] <= RollSpan - 1

\* Q has the waiting tasks in the order of their times.
IsOrder(Q) ==
  /\ Q \in Seq(Task) /\ IsInjective(Q) /\ ToSet(Q) = Waiting
  /\ \A i, j \in 1..Len(Q) : i < j => Earlier(Q[i], Q[j])

WheelInv == TypeOK /\ ListsFit /\ \E Q : IsOrder(Q)

\* The rolls are counts that fit any list.
LEMMA RollsFit ==
  ASSUME NEW Q \in Seq(Task), NEW C \in [Task -> 0..RollSpan - 1]
  PROVE  C \in [Task -> Int] /\ CountsFit(Q, C)
<1>1. RollSpan \in Nat
  BY WheelAssumption
<1>2. \A t \in Task : C[t] \in Int /\ C[t] >= 0
  BY <1>1
<1> QED  BY <1>2, InToSet DEF CountsFit

\* What an entry waits is no less than its count.
LEMMA CountFits ==
  ASSUME NEW T, NEW Q \in Seq(T), IsInjective(Q), NEW C \in [T -> Int], CountsFit(Q, C),
         NEW t \in ToSet(Q)
  PROVE  C[t] <= LeftOf(T, Q, C)[t] /\ C[t] \in Nat /\ LeftOf(T, Q, C)[t] \in Nat
<1>0. Len(Q) \in Nat /\ \A i \in 1..Len(Q) : C[Q[i]] \in Int /\ C[Q[i]] >= 0
  BY Entries
<1>1. PICK i \in 1..Len(Q) : Q[i] = t
  BY InToSet
<1>2. LeftOf(T, Q, C)[t] = Ahead(Q, C, i)
  BY <1>1, LeftIs
<1>3. Ahead(Q, C, 0) = 0 /\ Ahead(Q, C, i) = Ahead(Q, C, i - 1) + C[t]
  BY <1>0, <1>1, AheadIs
<1>4. Ahead(Q, C, 0) <= Ahead(Q, C, i - 1) /\ Ahead(Q, C, i - 1) \in Int
  <2>1. 0 \in 0..Len(Q) /\ i - 1 \in 0..Len(Q)
    BY <1>0, <1>1
  <2>2. Ahead(Q, C, i - 1) \in Int
    BY <2>1, AheadType
  <2> QED  BY <2>1, <2>2, AheadGrows
<1> QED  BY <1>0, <1>1, <1>2, <1>3, <1>4

\* Where a waiting task stands and when it is due.
Stands ==
  /\ \A s \in Slot : /\ link[s] \in Seq(Task) /\ IsInjective(link[s])
                     /\ \A t \in ToSet(link[s]) : t \in Waiting /\ index[t] = s
  /\ \A t \in Waiting :
       /\ t \in Task /\ index[t] \in Slot /\ t \in ToSet(link[index[t]])
       /\ Place(t) \in 1..Len(link[index[t]]) /\ link[index[t]][Place(t)] = t
       /\ First(index[t]) \in Nat /\ Passes(index[t])[t] \in Nat
       /\ Due(t) = First(index[t]) + SlotCount * Passes(index[t])[t]
       /\ Due(t) \in Nat /\ TicksLeft[t] = Due(t)

LEMMA WaitersAre == TypeOK /\ ListsFit => Stands
<1> SUFFICES ASSUME TypeOK, ListsFit PROVE Stands
  OBVIOUS
<1>1. ASSUME NEW s \in Slot
      PROVE  /\ link[s] \in Seq(Task) /\ IsInjective(link[s])
             /\ \A t \in ToSet(link[s]) : t \in Waiting /\ index[t] = s
  BY <1>1 DEF TypeOK, ListsFit, Waiting
<1>2. ASSUME NEW t \in Waiting
      PROVE  /\ t \in Task /\ index[t] \in Slot /\ t \in ToSet(link[index[t]])
             /\ Place(t) \in 1..Len(link[index[t]]) /\ link[index[t]][Place(t)] = t
             /\ First(index[t]) \in Nat /\ Passes(index[t])[t] \in Nat
             /\ Due(t) = First(index[t]) + SlotCount * Passes(index[t])[t]
             /\ Due(t) \in Nat /\ TicksLeft[t] = Due(t)
  <2>1. PICK s \in Slot : t \in ToSet(link[s])
    BY DEF Waiting
  <2>2. index[t] = s /\ link[s] \in Seq(Task) /\ IsInjective(link[s]) /\ t \in Task
    BY <1>1, <2>1, InToSet
  <2>3. PICK i \in 1..Len(link[s]) : link[s][i] = t
    BY <2>1, <2>2, InToSet
  <2>4. Place(t) \in 1..Len(link[s]) /\ link[s][Place(t)] = t
    <3>1. DOMAIN link[s] = 1..Len(link[s])
      BY <2>2, InToSet
    <3> QED  BY <2>2, <2>3, <3>1 DEF Place
  <2>5. roll \in [Task -> Int] /\ CountsFit(link[s], roll)
    BY <2>2, RollsFit DEF TypeOK
  <2>6. Passes(s)[t] = Ahead(link[s], roll, Place(t))
    BY <2>2, <2>4, <2>5, LeftIs DEF Passes
  <2>7. Passes(s)[t] \in Nat
    BY <2>1, <2>2, <2>5, CountFits DEF Passes
  <2>8. First(s) \in Nat
    BY FirstIs DEF FirstFits
  <2>9. Due(t) = First(s) + SlotCount * Passes(s)[t]
    BY <2>2, <2>6 DEF Due
  <2>10. Due(t) \in Nat
    <3>1. SlotCount \in Nat
      BY WheelAssumption
    <3> QED  BY <2>7, <2>8, <2>9, <3>1
  <2>11. TicksLeft[t] = Due(t)
    BY <2>2 DEF TicksLeft
  <2> QED  BY <2>1, <2>2, <2>4, <2>7, <2>8, <2>9, <2>10, <2>11
<1> QED  BY <1>1, <1>2 DEF Stands

\* Who is due at the same tick is on the same list.
DueTogether == \A t, u \in Waiting : Due(t) = Due(u) => index[t] = index[u]

LEMMA SameDue == TypeOK /\ ListsFit => DueTogether
<1> SUFFICES ASSUME TypeOK, ListsFit, NEW t \in Waiting, NEW u \in Waiting, Due(t) = Due(u)
             PROVE  index[t] = index[u]
  BY DEF DueTogether
<1> DEFINE a == Passes(index[t])[t]
           b == Passes(index[u])[u]
           x == First(index[t])
           y == First(index[u])
<1>0. index[t] \in Slot /\ index[u] \in Slot /\ a \in Nat /\ b \in Nat /\ x \in Nat /\ y \in Nat
  BY WaitersAre DEF Stands
<1>1. x + SlotCount * a = y + SlotCount * b
  BY WaitersAre DEF Stands
<1>2. /\ SlotCount \in Nat \ {0} /\ cursor \in 0..SlotCount - 1 /\ scanning \in BOOLEAN
      /\ index[t] \in 0..SlotCount - 1 /\ index[u] \in 0..SlotCount - 1
  BY <1>0, WheelAssumption DEF TypeOK, Slot
<1>3. /\ x = IF index[t] = cursor THEN (IF scanning THEN 0 ELSE SlotCount)
             ELSE IF index[t] > cursor THEN index[t] - cursor ELSE (index[t] - cursor) + SlotCount
      /\ y = IF index[u] = cursor THEN (IF scanning THEN 0 ELSE SlotCount)
             ELSE IF index[u] > cursor THEN index[u] - cursor ELSE (index[u] - cursor) + SlotCount
  BY <1>0, FirstIs DEF FirstFits
<1> HIDE DEF a, b, x, y
<1>4. x - y < SlotCount /\ y - x < SlotCount
  BY <1>2, <1>3
<1>5. x = y
  BY <1>0, <1>1, <1>2, <1>4, RollsDecide
<1> QED  BY <1>2, <1>3, <1>5

\* No two tasks are each earlier than the other.
LEMMA EarlierOneWay ==
  TypeOK /\ ListsFit =>
    \A t, u \in Waiting : ~(Earlier(t, u) /\ Earlier(u, t))
<1> SUFFICES ASSUME TypeOK, ListsFit, NEW t \in Waiting, NEW u \in Waiting
             PROVE  ~(Earlier(t, u) /\ Earlier(u, t))
  OBVIOUS
<1>1. Due(t) \in Nat /\ Due(u) \in Nat /\ Place(t) \in Int /\ Place(u) \in Int
  BY WaitersAre DEF Stands
<1> QED  BY <1>1 DEF Earlier

\* Places on a list are as the tasks stand.
PlacesFit ==
  \A t, u \in Waiting :
    index[t] = index[u] => (Place(t) < Place(u) <=> Before(link[index[t]], t, u))

LEMMA PlacesAre == TypeOK /\ ListsFit => PlacesFit
<1> SUFFICES ASSUME TypeOK, ListsFit, NEW t \in Waiting, NEW u \in Waiting, index[t] = index[u]
             PROVE  Place(t) < Place(u) <=> Before(link[index[t]], t, u)
  BY DEF PlacesFit
<1> DEFINE Q == link[index[t]]
<1>1. /\ Q \in Seq(Task) /\ IsInjective(Q)
      /\ Place(t) \in 1..Len(Q) /\ Q[Place(t)] = t /\ Place(u) \in 1..Len(Q) /\ Q[Place(u)] = u
  BY WaitersAre DEF Stands
<1> HIDE DEF Q
<1>2. \A i, j \in 1..Len(Q) : Q[i] = Q[j] => i = j
  BY <1>1, InToSet DEF IsInjective
<1> QED  BY <1>1, <1>2 DEF Before, Q

\* The order of the delay list.
OneOrder == \A Q : IsOrder(Q) => InOrder = Q

LEMMA InOrderIs == TypeOK /\ ListsFit => OneOrder
<1> SUFFICES ASSUME TypeOK, ListsFit, NEW Q, IsOrder(Q) PROVE InOrder = Q
  BY DEF OneOrder
<1> DEFINE Fits(P) == \A i, j \in DOMAIN P : i < j => Earlier(P[i], P[j])
           R == {x \in Waiting \X Waiting : Earlier(x[1], x[2])}
<1>1. Q \in SetToSeqs(Waiting) /\ Fits(Q)
  <2>1. Q \in Seq(Task) /\ IsInjective(Q) /\ ToSet(Q) = Waiting
    BY DEF IsOrder
  <2> QED  BY <2>1, OrdersOf, InToSet DEF IsOrder
<1>2. ASSUME NEW P \in SetToSeqs(Waiting), Fits(P) PROVE P = Q
  <2>1. Q \in Seq(Task) /\ IsInjective(Q) /\ ToSet(Q) = Waiting
    BY DEF IsOrder
  <2>2. P \in Seq(Task) /\ IsInjective(P) /\ ToSet(P) = Waiting
    BY <2>1, OrdersOf
  <2>3. Ordered(P, R)
    <3>1. \A i \in 1..Len(P) : P[i] \in Waiting /\ i \in DOMAIN P
      BY <2>2, InToSet
    <3> QED  BY <1>2, <3>1 DEF Ordered
  <2>4. Ordered(Q, R)
    <3>1. \A i \in 1..Len(Q) : Q[i] \in Waiting
      BY <2>1, InToSet
    <3> QED  BY <3>1 DEF Ordered, IsOrder
  <2>5. \A x, y \in ToSet(Q) : ~(<<x, y>> \in R /\ <<y, x>> \in R)
    BY <2>1, EarlierOneWay
  <2> HIDE DEF R
  <2> QED  BY <2>1, <2>2, <2>3, <2>4, <2>5, OrderUnique
<1>3. InOrder = CHOOSE P \in SetToSeqs(Waiting) : Fits(P)
  BY DEF InOrder
<1> HIDE DEF Fits
<1>4. InOrder \in SetToSeqs(Waiting) /\ Fits(InOrder)
  BY <1>1, <1>3
<1> QED  BY <1>2, <1>4

\* What holds before a step and after it.
WheelFacts == Stands /\ FirstFits /\ DueTogether /\ PlacesFit /\ OneOrder

LEMMA FactsNow == TypeOK /\ ListsFit => WheelFacts
BY FirstIs, WaitersAre, SameDue, PlacesAre, InOrderIs DEF WheelFacts

LEMMA FactsNext == (TypeOK /\ ListsFit => WheelFacts)'
BY FactsNow, PTL
-----------------------------------------------------------------------------
(* The steps.                                                               *)

\* The operators on lists are those of the delay list.
LEMMA AbstractLists ==
  ASSUME NEW Q, NEW i, NEW x
  PROVE  /\ Abstract!ToSet(Q) = ToSet(Q)
         /\ Abstract!InsertAt(Q, i, x) = InsertAt(Q, i, x)
         /\ Abstract!RemoveFirst(Q, x) = RemoveFirst(Q, x)
         /\ Abstract!Cardinality(Q) = Cardinality(Q)
<1>1. Abstract!ToSet(Q) = ToSet(Q)
  BY DEF Abstract!ToSet, ToSet
<1>2. Abstract!InsertAt(Q, i, x) = InsertAt(Q, i, x)
  BY DEF Abstract!InsertAt, InsertAt
<1>3. Abstract!RemoveFirst(Q, x) = RemoveFirst(Q, x)
  BY DEF Abstract!RemoveFirst, RemoveFirst, Abstract!RemoveAt, RemoveAt, Abstract!SelectInSeq,
         SelectInSeq, Abstract!Min, Min
<1>4. Abstract!Cardinality(Q) = Cardinality(Q)
  BY DEF Abstract!Cardinality, Cardinality
<1> QED  BY <1>1, <1>2, <1>3, <1>4

\* The order is that of the delay list.
LEMMA OrderHeld ==
  ASSUME WheelInv
  PROVE  IsOrder(InOrder) /\ WheelFacts
BY FactsNow DEF WheelInv, WheelFacts, OneOrder

\* A step that leaves the lists, and shifts the times of all, leaves the order.
LEMMA StayKept ==
  ASSUME WheelInv, TypeOK', ListsFit', UNCHANGED <<link, index>>,
         NEW c \in Int, \A t \in Waiting : Due(t)' = Due(t) + c
  PROVE  WheelInv' /\ InOrder' = InOrder /\ Waiting' = Waiting
<1>1. IsOrder(InOrder) /\ Stands /\ OneOrder'
  BY OrderHeld, FactsNext DEF WheelFacts
<1>2. Waiting' = Waiting /\ \A t : Place(t)' = Place(t)
  BY DEF Waiting, Place
<1>3. ASSUME NEW t \in Waiting, NEW u \in Waiting, Earlier(t, u) PROVE Earlier(t, u)'
  <2>1. /\ Due(t) \in Int /\ Due(u) \in Int /\ Due(t)' = Due(t) + c /\ Due(u)' = Due(u) + c
        /\ Place(t)' = Place(t) /\ Place(u)' = Place(u)
    BY <1>1, <1>2 DEF Stands
  <2>2. CASE Due(t) < Due(u)
    <3>1. Due(t)' < Due(u)'
      BY <2>1, <2>2
    <3> QED  BY <3>1 DEF Earlier
  <2>3. CASE Due(t) = Due(u) /\ Place(t) < Place(u)
    <3>1. Due(t)' = Due(u)' /\ Place(t)' < Place(u)'
      BY <2>1, <2>3
    <3> QED  BY <3>1 DEF Earlier
  <2> QED  BY <1>3, <2>2, <2>3 DEF Earlier
<1>4. \E Q : Q = InOrder
  OBVIOUS
<1>5. PICK Q : Q = InOrder
  BY <1>4
<1>6. IsOrder(Q)'
  <2>1. \A i \in 1..Len(Q) : Q[i] \in Waiting
    BY <1>1, <1>5, InToSet DEF IsOrder
  <2>2. /\ Q \in Seq(Task) /\ IsInjective(Q) /\ ToSet(Q) = Waiting
        /\ \A i, j \in 1..Len(Q) : i < j => Earlier(Q[i], Q[j])
    BY <1>1, <1>5 DEF IsOrder
  <2>3. \A i, j \in 1..Len(Q) : i < j => Earlier(Q[i], Q[j])'
    BY <1>3, <2>1, <2>2
  <2> QED  BY <1>2, <2>2, <2>3 DEF IsOrder
<1>7. InOrder' = Q
  BY <1>1, <1>6 DEF OneOrder
<1> QED  BY <1>2, <1>5, <1>6, <1>7 DEF WheelInv

\* Tick: each task on the wheel has one tick less to wait.
LEMMA TickStep ==
  ASSUME WheelInv, Tick
  PROVE  WheelInv' /\ Abstract!CountTick
<1>0. /\ TypeOK /\ ListsFit /\ IsOrder(InOrder) /\ Stands /\ FirstFits
      /\ SlotCount \in Nat \ {0} /\ cursor \in 0..SlotCount - 1
  BY OrderHeld, WheelAssumption DEF WheelInv, WheelFacts, TypeOK, Slot
<1>1. /\ ~scanning /\ scanning' = (link[cursor'] # <<>>) /\ UNCHANGED <<link, index, roll>>
      /\ cursor' = IF cursor + 1 < SlotCount THEN cursor + 1 ELSE 0
  <2>1. cursor + 1 \in 0..2 * SlotCount - 1
    BY <1>0
  <2>2. (cursor + 1) % SlotCount = IF cursor + 1 < SlotCount THEN cursor + 1 ELSE (cursor + 1) - SlotCount
    BY <1>0, <2>1, Wrap
  <2> QED  BY <1>0, <2>2 DEF Tick
<1>2. cursor' \in 0..SlotCount - 1
  BY <1>0, <1>1
<1>3. TypeOK' /\ ListsFit'
  <2>1. TypeOK'
    BY <1>0, <1>1, <1>2 DEF TypeOK, Slot
  <2>2. ListsFit'
    BY <1>0, <1>1 DEF ListsFit, Passes
  <2> QED  BY <2>1, <2>2
<1>4. Stands' /\ FirstFits'
  BY <1>3, FactsNext DEF WheelFacts
<1>5. ASSUME NEW s \in Slot, link[s] # <<>>
      PROVE  First(s)' = First(s) - 1 /\ First(s) > 0 /\ First(s) \in Nat
  <2>1. First(s) = IF s = cursor THEN SlotCount
                   ELSE IF s > cursor THEN s - cursor ELSE (s - cursor) + SlotCount
    BY <1>0, <1>1 DEF FirstFits
  <2>2. First(s)' = IF s = cursor' THEN (IF scanning' THEN 0 ELSE SlotCount)
                    ELSE IF s > cursor' THEN s - cursor' ELSE (s - cursor') + SlotCount
    BY <1>4 DEF FirstFits, Slot
  <2>3. s = cursor' => scanning'
    BY <1>1, <1>5
  <2>4. s \in 0..SlotCount - 1
    BY DEF Slot
  <2> QED  BY <1>0, <1>1, <1>2, <2>1, <2>2, <2>3, <2>4
<1>6. Waiting' = Waiting
  BY <1>1 DEF Waiting
<1>7. ASSUME NEW t \in Waiting
      PROVE  Due(t)' = Due(t) + (-1) /\ Due(t) > 0 /\ TicksLeft[t] = Due(t) /\ TicksLeft'[t] = Due(t)'
  <2>1. PICK s \in Slot : s = index[t]
    BY <1>0 DEF Stands
  <2>2. t \in ToSet(link[s]) /\ link[s] \in Seq(Task)
    BY <1>0, <2>1 DEF Stands
  <2>3. link[s] # <<>>
    BY <2>2, InToSet, LenProperties
  <2>4. First(s)' = First(s) - 1 /\ First(s) > 0 /\ First(s) \in Nat
    BY <1>5, <2>3
  <2>5. /\ Due(t) = First(s) + SlotCount * Passes(s)[t] /\ Passes(s)[t] \in Nat
        /\ TicksLeft[t] = Due(t)
    BY <1>0, <2>1 DEF Stands
  <2>6. Due(t)' = First(s)' + SlotCount * Passes(s)[t] /\ TicksLeft'[t] = Due(t)'
    <3>1. index'[t] = s /\ Passes(s)' = Passes(s)
      BY <1>1, <2>1 DEF Passes
    <3> QED  BY <1>4, <1>6, <3>1 DEF Stands
  <2>7. SlotCount * Passes(s)[t] \in Nat
    BY <1>0, <2>5
  <2> QED  BY <2>4, <2>5, <2>6, <2>7
<1>8. WheelInv' /\ InOrder' = InOrder
  <2>1. -1 \in Int
    OBVIOUS
  <2> QED  BY <1>1, <1>3, <1>7, <2>1, StayKept
<1>9. Abstract!CountTick
  <2>1. ToSet(InOrder) = Waiting
    BY <1>0 DEF IsOrder
  <2>2. \A t \in ToSet(InOrder) : TicksLeft[t] > 0
    BY <1>7, <2>1
  <2>3. TicksLeft' = [t \in Task |-> IF t \in ToSet(InOrder) THEN TicksLeft[t] - 1 ELSE TicksLeft[t]]
    <3>1. ASSUME NEW t \in Task
          PROVE  TicksLeft'[t] = IF t \in Waiting THEN TicksLeft[t] - 1 ELSE TicksLeft[t]
      <4>1. CASE t \in Waiting
        <5>1. Due(t) \in Int
          BY <1>0, <4>1 DEF Stands
        <5> QED  BY <1>7, <4>1, <5>1
      <4>2. CASE t \notin Waiting
        BY <1>6, <4>2 DEF TicksLeft
      <4> QED  BY <4>1, <4>2
    <3>2. TicksLeft' = [t \in Task |-> TicksLeft'[t]]
      BY DEF TicksLeft
    <3> QED  BY <2>1, <3>1, <3>2
  <2> QED  BY <1>8, <2>2, <2>3, AbstractLists DEF Abstract!CountTick, Abstract!Countdown
<1> QED  BY <1>8, <1>9

\* A step that leaves the lists and the times is none of the delay list.
LEMMA RestKept ==
  ASSUME WheelInv, TypeOK', ListsFit', UNCHANGED <<link, index>>,
         \A t \in Waiting : Due(t)' = Due(t)
  PROVE  WheelInv' /\ UNCHANGED <<InOrder, TicksLeft>>
<1>0. Stands
  BY OrderHeld DEF WheelFacts
<1>1. \A t \in Waiting : Due(t)' = Due(t) + 0
  BY <1>0 DEF Stands
<1>2. WheelInv' /\ InOrder' = InOrder /\ Waiting' = Waiting
  BY <1>1, StayKept
<1>3. TicksLeft' = TicksLeft
  BY <1>2 DEF TicksLeft
<1> QED  BY <1>2, <1>3

\* ScanEnd: nobody waits on the list under the cursor.
LEMMA EndStep ==
  ASSUME WheelInv, ScanEnd
  PROVE  WheelInv' /\ UNCHANGED <<InOrder, TicksLeft>>
<1>0. TypeOK /\ ListsFit /\ Stands /\ FirstFits /\ cursor \in Slot
  BY OrderHeld DEF WheelInv, WheelFacts, TypeOK
<1>1. TypeOK' /\ ListsFit' /\ Waiting' = Waiting
  BY <1>0 DEF ScanEnd, TypeOK, ListsFit, Passes, Waiting
<1>2. Stands' /\ FirstFits'
  BY <1>1, FactsNext DEF WheelFacts
<1>3. ASSUME NEW t \in Waiting PROVE Due(t)' = Due(t)
  <2>1. PICK s \in Slot : s = index[t] /\ t \in ToSet(link[s]) /\ link[s] \in Seq(Task)
    BY <1>0 DEF Stands
  <2>2. s # cursor
    BY <2>1, InToSet, LenProperties DEF ScanEnd
  <2>3. First(s)' = First(s)
    BY <1>0, <1>2, <2>2 DEF FirstFits, ScanEnd, Slot
  <2>4. Due(t) = First(s) + SlotCount * Passes(s)[t]
    BY <1>0, <2>1 DEF Stands
  <2>5. Due(t)' = First(s)' + SlotCount * Passes(s)[t]
    <3>1. index'[t] = s /\ Passes(s)' = Passes(s)
      BY <2>1 DEF ScanEnd, Passes
    <3> QED  BY <1>1, <1>2, <3>1 DEF Stands
  <2> QED  BY <2>3, <2>4, <2>5
<1> QED  BY <1>1, <1>3, RestKept DEF ScanEnd

\* ScanCount: the turn of the cursor that begins is the pass that is counted.
LEMMA CountStep ==
  ASSUME WheelInv, ScanCount
  PROVE  WheelInv' /\ UNCHANGED <<InOrder, TicksLeft>>
<1> DEFINE Q == link[cursor]
<1>0. /\ TypeOK /\ ListsFit /\ Stands /\ FirstFits /\ cursor \in Slot
      /\ SlotCount \in Nat \ {0} /\ RollSpan \in Nat \ {0}
  BY OrderHeld, WheelAssumption DEF WheelInv, WheelFacts, TypeOK
<1>1. /\ UNCHANGED <<cursor, link, index>> /\ scanning /\ ~scanning' /\ scanning' = FALSE
      /\ Q \in Seq(Task) /\ IsInjective(Q) /\ Q # <<>> /\ roll[Head(Q)] > 0
      /\ roll' = [roll EXCEPT ![Head(Q)] = @ - 1] /\ roll \in [Task -> 0..RollSpan - 1]
      /\ Waiting' = Waiting
  BY <1>0 DEF ScanCount, Stands, TypeOK, Waiting
<1>2. Head(Q) \in Task /\ Head(Q) \in ToSet(Q)
  BY <1>1, HeadTailRange
<1>3. TypeOK' /\ roll' \in [Task -> 0..RollSpan - 1] /\ roll'[Head(Q)] = roll[Head(Q)] - 1
      /\ \A u \in Task \ {Head(Q)} : roll'[u] = roll[u]
  <2>1. roll[Head(Q)] - 1 \in 0..RollSpan - 1
    BY <1>0, <1>1, <1>2
  <2>2. roll' \in [Task -> 0..RollSpan - 1]
    BY <1>1, <2>1
  <2>3. TypeOK'
    BY <1>0, <1>1, <2>2 DEF TypeOK
  <2> QED  BY <1>1, <1>2, <2>2, <2>3
<1>4. roll \in [Task -> Int] /\ roll' \in [Task -> Int] /\ CountsFit(Q, roll)
  BY <1>1, <1>3, RollsFit
<1> HIDE DEF Q
<1>5. \A u \in ToSet(Q) : /\ Passes(cursor)'[u] = Passes(cursor)[u] - 1
                          /\ u \in Waiting /\ index[u] = cursor
  <2>1. HeadWaits(Q, roll)
    BY <1>1 DEF HeadWaits
  <2>2. LeftOf(Task, Q, roll') = [u \in Task |-> IF u \in ToSet(Q) THEN LeftOf(Task, Q, roll)[u] - 1
                                                 ELSE LeftOf(Task, Q, roll)[u]]
    <3>1. /\ Q \in Seq(Task) /\ IsInjective(Q) /\ Q # <<>> /\ roll'[Head(Q)] = roll[Head(Q)] - 1
          /\ \A u \in Task \ {Head(Q)} : roll'[u] = roll[u]
      BY <1>1, <1>3
    <3> QED  BY <1>4, <2>1, <3>1, CountLeft
  <2>3. Passes(cursor)' = LeftOf(Task, Q, roll') /\ Passes(cursor) = LeftOf(Task, Q, roll)
    BY <1>1 DEF Passes, Q
  <2>4. \A u \in ToSet(Q) : u \in Task
    BY <1>1, InToSet
  <2>5. \A u \in ToSet(Q) : u \in Waiting /\ index[u] = cursor
    BY <1>0 DEF Stands, Q
  <2> QED  BY <2>2, <2>3, <2>4, <2>5
<1>6. ASSUME NEW s \in Slot, s # cursor PROVE Passes(s)' = Passes(s)
  <2>1. link[s] \in Seq(Task) /\ IsInjective(link[s])
    BY <1>0 DEF Stands
  <2>2. Head(Q) \notin ToSet(link[s])
    BY <1>0, <1>2, <1>6 DEF Stands, Q
  <2>3. \A u \in ToSet(link[s]) : roll'[u] = roll[u]
    BY <1>3, <2>1, <2>2, InToSet
  <2>4. LeftOf(Task, link[s], roll') = LeftOf(Task, link[s], roll)
    BY <1>4, <2>1, <2>3, SameLeft
  <2> QED  BY <1>1, <2>4 DEF Passes
<1>7. ListsFit'
  <2> SUFFICES ASSUME NEW s \in Slot
               PROVE  /\ IsInjective(link[s])
                      /\ \A t \in ToSet(link[s]) : index[t] = s /\ Passes(s)'[t] <= RollSpan - 1
    BY <1>1 DEF ListsFit, Slot
  <2>1. /\ IsInjective(link[s])
        /\ \A t \in ToSet(link[s]) : index[t] = s /\ Passes(s)[t] <= RollSpan - 1
    BY <1>0 DEF ListsFit
  <2>2. CASE s = cursor
    <3>1. ASSUME NEW t \in ToSet(link[s]) PROVE Passes(s)'[t] <= RollSpan - 1
      <4>1. Passes(s)'[t] = Passes(s)[t] - 1 /\ Passes(s)[t] \in Nat /\ Passes(s)[t] <= RollSpan - 1
        BY <1>0, <1>1, <1>5, <2>1, <2>2, <3>1 DEF Q, Stands
      <4> QED  BY <1>0, <4>1
    <3> QED  BY <2>1, <3>1
  <2>3. CASE s # cursor
    BY <1>6, <2>1, <2>3
  <2> QED  BY <2>2, <2>3
<1>8. Stands' /\ FirstFits'
  BY <1>3, <1>7, FactsNext DEF WheelFacts
<1>9. ASSUME NEW t \in Waiting PROVE Due(t)' = Due(t)
  <2>1. PICK s \in Slot : s = index[t] /\ t \in ToSet(link[s])
    BY <1>0 DEF Stands
  <2>2. /\ Due(t) = First(s) + SlotCount * Passes(s)[t] /\ Passes(s)[t] \in Nat
        /\ First(s) \in Nat
    BY <1>0, <2>1 DEF Stands
  <2>3. Due(t)' = First(s)' + SlotCount * Passes(s)'[t]
    <3>1. index'[t] = s /\ t \in Waiting'
      BY <1>1, <2>1
    <3> QED  BY <1>8, <3>1 DEF Stands
  <2>4. CASE s # cursor
    <3>1. First(s)' = First(s)
      BY <1>0, <1>1, <1>8, <2>4 DEF FirstFits, Slot
    <3> QED  BY <1>6, <2>2, <2>3, <2>4, <3>1
  <2>5. CASE s = cursor
    <3>1. First(s) = 0 /\ First(s)' = SlotCount
      BY <1>0, <1>1, <1>8, <2>5 DEF FirstFits, Slot
    <3>2. Passes(s)'[t] = Passes(s)[t] - 1
      BY <1>1, <1>5, <2>1, <2>5 DEF Q
    <3>3. SlotCount * (Passes(s)[t] - 1) = SlotCount * Passes(s)[t] - SlotCount
      BY <1>0, <2>2
    <3>4. SlotCount * Passes(s)[t] \in Int
      BY <1>0, <2>2
    <3> QED  BY <1>0, <2>2, <2>3, <3>1, <3>2, <3>3, <3>4
  <2> QED  BY <2>4, <2>5
<1> QED  BY <1>1, <1>3, <1>7, <1>9, RestKept

\* The counts of others than those on the list stay.
LEMMA CutElsewhere ==
  ASSUME NEW T, NEW Q \in Seq(T), NEW C \in [T -> Int], NEW t \in ToSet(Q)
  PROVE  /\ CountsCut(Q, C, t)[t] = 0
         /\ \A u \in T \ ToSet(Q) : CountsCut(Q, C, t)[u] = C[u]
<1>0. /\ Len(Q) \in Nat /\ DOMAIN Q = 1..Len(Q) /\ t \in T /\ ToSet(Q) \subseteq T
      /\ \A i \in 1..Len(Q) : Q[i] \in ToSet(Q)
      /\ \E i \in 1..Len(Q) : Q[i] = t
  BY InToSet
<1>1. CASE Last(Q) = t
  <2>1. CountsCut(Q, C, t) = [C EXCEPT ![t] = 0]
    BY <1>1 DEF CountsCut
  <2> QED  BY <1>0, <2>1
<1>2. CASE Last(Q) # t
  <2> DEFINE k == CHOOSE i \in DOMAIN Q : Q[i] = t
  <2>1. k \in 1..Len(Q) /\ Q[k] = t
    BY <1>0
  <2>2. CountsCut(Q, C, t) = [C EXCEPT ![Q[1 + k]] = @ + C[t], ![t] = 0]
    BY <1>2 DEF CountsCut
  <2> HIDE DEF k
  <2>3. k # Len(Q)
    BY <1>2, <2>1 DEF Last
  <2>4. Q[1 + k] \in ToSet(Q)
    <3>1. Len(Q) \in Nat
      BY LenProperties
    <3>2. k \in Int /\ 1 <= k /\ k <= Len(Q)
      BY <2>1, <3>1
    <3>3. 1 + k \in 1..Len(Q)
      BY <2>3, <3>1, <3>2
    <3> QED  BY <1>0, <3>3
  <2>5. \E next \in ToSet(Q) : CountsCut(Q, C, t) = [C EXCEPT ![next] = @ + C[t], ![t] = 0]
    BY <2>2, <2>4
  <2> QED  BY <1>0, <2>5
<1> QED  BY <1>1, <1>2

\* A task leaves its list, and the passes of the others stay.
Leaves(t) ==
  /\ UNCHANGED <<cursor, index, scanning>>
  /\ link' = [link EXCEPT ![index[t]] = RemoveFirst(@, t)]
  /\ \A s \in Slot : \A u \in ToSet(link[s]) \ {t} : Passes(s)'[u] = Passes(s)[u]

\* Who may be on a list then.
LEMMA LeaveFits ==
  ASSUME WheelInv, NEW t \in Waiting, TypeOK', Leaves(t)
  PROVE  /\ ListsFit' /\ Waiting' = Waiting \ {t}
         /\ \A s \in Slot : /\ ToSet(link'[s]) = ToSet(link[s]) \ {t}
                            /\ link'[s] = IF s = index[t] THEN RemoveFirst(link[s], t) ELSE link[s]
<1>0. TypeOK /\ ListsFit /\ Stands /\ index[t] \in Slot
  BY OrderHeld DEF WheelInv, WheelFacts, Stands
<1>1. ASSUME NEW s \in Slot
      PROVE  link'[s] = IF s = index[t] THEN RemoveFirst(link[s], t) ELSE link[s]
  BY <1>0 DEF Leaves, TypeOK
<1>2. ASSUME NEW s \in Slot
      PROVE  IsInjective(link'[s]) /\ ToSet(link'[s]) = ToSet(link[s]) \ {t}
  <2>1. link[s] \in Seq(Task) /\ IsInjective(link[s]) /\ (t \in ToSet(link[s]) => index[t] = s)
    BY <1>0 DEF Stands
  <2>2. CASE s = index[t]
    BY <1>1, <2>1, <2>2, RemoveFirstRange
  <2>3. CASE s # index[t]
    BY <1>1, <2>1, <2>3
  <2> QED  BY <2>2, <2>3
<1>3. ListsFit'
  <2> SUFFICES ASSUME NEW s \in Slot, NEW u \in ToSet(link'[s])
               PROVE  index'[u] = s /\ Passes(s)'[u] <= RollSpan - 1
    BY <1>2 DEF ListsFit, Slot
  <2>1. u \in ToSet(link[s]) \ {t}
    BY <1>2
  <2>2. index[u] = s /\ Passes(s)[u] <= RollSpan - 1
    BY <1>0, <2>1 DEF ListsFit
  <2>3. Passes(s)'[u] = Passes(s)[u] /\ index' = index
    BY <2>1 DEF Leaves
  <2> QED  BY <2>2, <2>3
<1>4. Waiting' = Waiting \ {t}
  <2>1. Waiting' = UNION {ToSet(link'[s]) : s \in Slot}
    BY DEF Waiting, Slot
  <2> QED  BY <1>2, <2>1 DEF Waiting
<1> QED  BY <1>1, <1>2, <1>3, <1>4

\* The others keep their times and their order.
LEMMA LeaveKept ==
  ASSUME WheelInv, NEW t \in Waiting, TypeOK', Leaves(t)
  PROVE  /\ WheelInv' /\ InOrder' = RemoveFirst(InOrder, t)
         /\ TicksLeft' = [TicksLeft EXCEPT ![t] = 0]
<1>0. TypeOK /\ ListsFit /\ Stands /\ PlacesFit /\ FirstFits /\ IsOrder(InOrder)
  BY OrderHeld DEF WheelInv, WheelFacts
<1>1. /\ ListsFit' /\ Waiting' = Waiting \ {t}
      /\ \A s \in Slot : /\ ToSet(link'[s]) = ToSet(link[s]) \ {t}
                         /\ link'[s] = IF s = index[t] THEN RemoveFirst(link[s], t) ELSE link[s]
  BY LeaveFits
<1>2. Stands' /\ PlacesFit' /\ FirstFits' /\ OneOrder'
  BY <1>1, FactsNext DEF WheelFacts
<1>3. ASSUME NEW u \in Waiting \ {t}
      PROVE  Due(u)' = Due(u) /\ TicksLeft'[u] = TicksLeft[u] /\ Due(u) \in Nat
  <2>1. PICK s \in Slot : s = index[u] /\ u \in ToSet(link[s])
    BY <1>0 DEF Stands
  <2>2. /\ Due(u) = First(s) + SlotCount * Passes(s)[u] /\ TicksLeft[u] = Due(u)
        /\ Due(u) \in Nat
    BY <1>0, <2>1 DEF Stands
  <2>3. Due(u)' = First(s)' + SlotCount * Passes(s)'[u] /\ TicksLeft'[u] = Due(u)'
    <3>1. index'[u] = s /\ u \in Waiting'
      BY <1>1, <2>1 DEF Leaves
    <3> QED  BY <1>2, <3>1 DEF Stands
  <2>4. First(s)' = First(s)
    BY <1>0, <1>2 DEF FirstFits, Leaves, Slot
  <2>5. Passes(s)'[u] = Passes(s)[u]
    BY <2>1 DEF Leaves
  <2> QED  BY <2>2, <2>3, <2>4, <2>5
<1>4. ASSUME NEW x \in Waiting \ {t}, NEW y \in Waiting \ {t}, Earlier(x, y)
      PROVE  Earlier(x, y)'
  <2>1. Due(x)' = Due(x) /\ Due(y)' = Due(y)
    BY <1>3
  <2>2. CASE Due(x) < Due(y)
    BY <2>1, <2>2 DEF Earlier
  <2>3. CASE Due(x) = Due(y) /\ Place(x) < Place(y)
    <3>1. index[x] = index[y]
      BY <1>0, <2>3, SameDue DEF DueTogether
    <3>2. PICK s \in Slot : s = index[x] /\ x \in ToSet(link[s])
      BY <1>0 DEF Stands
    <3>3. y \in ToSet(link[s]) /\ link[s] \in Seq(Task) /\ IsInjective(link[s])
      BY <1>0, <3>1, <3>2 DEF Stands
    <3>4. Before(link[s], x, y)
      BY <1>0, <2>3, <3>1, <3>2 DEF PlacesFit
    <3>5. Before(link'[s], x, y)
      <4>1. CASE s = index[t]
        <5>1. t \in ToSet(link[s]) /\ link'[s] = RemoveFirst(link[s], t)
          BY <1>0, <1>1, <4>1 DEF Stands
        <5> QED  BY <3>2, <3>3, <3>4, <5>1, RemoveOrdered
      <4>2. CASE s # index[t]
        BY <1>1, <3>4, <4>2
      <4> QED  BY <4>1, <4>2
    <3>6. x \in Waiting' /\ y \in Waiting' /\ index'[x] = s /\ index'[y] = s
      BY <1>1, <3>1, <3>2 DEF Leaves
    <3>7. Place(x)' < Place(y)'
      BY <1>2, <3>5, <3>6 DEF PlacesFit
    <3> QED  BY <2>1, <2>3, <3>7 DEF Earlier
  <2> QED  BY <1>4, <2>2, <2>3 DEF Earlier
<1>a. \E P : P = RemoveFirst(InOrder, t)
  OBVIOUS
<1>b. PICK P : P = RemoveFirst(InOrder, t)
  BY <1>a
<1>5. /\ InOrder \in Seq(Task) /\ IsInjective(InOrder) /\ ToSet(InOrder) = Waiting
      /\ \A i, j \in 1..Len(InOrder) : i < j => Earlier(InOrder[i], InOrder[j])
  BY <1>0 DEF IsOrder
<1>6. P \in Seq(Task) /\ IsInjective(P) /\ ToSet(P) = Waiting'
  BY <1>1, <1>5, <1>b, RemoveFirstRange
<1>7. \A i, j \in 1..Len(P) : i < j => Earlier(P[i], P[j])'
  <2> DEFINE R == {z \in Waiting \X Waiting : Earlier(z[1], z[2])}
             S == {z \in Waiting \X Waiting : Earlier(z[1], z[2])'}
  <2>1. Ordered(InOrder, R)
    <3>1. \A i \in 1..Len(InOrder) : InOrder[i] \in Waiting
      BY <1>5, InToSet
    <3> QED  BY <1>5, <3>1 DEF Ordered
  <2>2. \A x, y \in ToSet(InOrder) \ {t} : <<x, y>> \in R => <<x, y>> \in S
    BY <1>4, <1>5
  <2>3. \A x, y : <<x, y>> \in S => Earlier(x, y)'
    OBVIOUS
  <2> HIDE DEF R, S
  <2>4. Ordered(P, S)
    BY <1>5, <1>b, <2>1, <2>2, RemoveOrdered
  <2> QED  BY <2>3, <2>4 DEF Ordered
<1>8. WheelInv' /\ InOrder' = P
  <2>1. IsOrder(P)'
    BY <1>6, <1>7 DEF IsOrder
  <2>2. WheelInv'
    BY <1>1, <2>1 DEF WheelInv
  <2>3. InOrder' = P
    BY <1>2, <2>1 DEF OneOrder
  <2> QED  BY <2>2, <2>3
<1>9. TicksLeft' = [TicksLeft EXCEPT ![t] = 0]
  <2>1. ASSUME NEW u \in Task
        PROVE  TicksLeft'[u] = IF u = t THEN 0 ELSE TicksLeft[u]
    <3>1. CASE u \in Waiting \ {t}
      BY <1>3, <3>1
    <3>2. CASE u \notin Waiting \ {t}
      <4>1. TicksLeft'[u] = 0 /\ (u # t => TicksLeft[u] = 0)
        BY <1>1, <3>2 DEF TicksLeft
      <4> QED  BY <4>1
    <3> QED  BY <3>1, <3>2
  <2>2. TicksLeft' = [u \in Task |-> TicksLeft'[u]] /\ TicksLeft = [u \in Task |-> TicksLeft[u]]
    BY DEF TicksLeft
  <2> HIDE DEF TicksLeft
  <2>3. TicksLeft' = [u \in Task |-> IF u = t THEN 0 ELSE TicksLeft[u]]
    BY <2>1, <2>2
  <2> QED  BY <2>2, <2>3
<1> QED  BY <1>8, <1>9, <1>b

\* Delete: the task is taken off the delay list.
LEMMA DeleteStep ==
  ASSUME WheelInv, NEW t \in Task, Delete(t)
  PROVE  WheelInv' /\ Abstract!Leave(t)
<1> DEFINE s == index[t]
           Q == link[index[t]]
<1>0. /\ TypeOK /\ ListsFit /\ Stands /\ t \in Waiting /\ s \in Slot /\ t \in ToSet(Q)
      /\ Q \in Seq(Task) /\ IsInjective(Q) /\ RollSpan \in Nat \ {0}
  BY OrderHeld, WheelAssumption DEF WheelInv, WheelFacts, Stands, Delete
<1>1. /\ UNCHANGED <<cursor, index, scanning>> /\ roll' = CountsCut(Q, roll, t)
      /\ link' = [link EXCEPT ![index[t]] = RemoveFirst(@, t)]
  BY DEF Delete, RollAfter
<1>2. roll \in [Task -> 0..RollSpan - 1] /\ roll \in [Task -> Int] /\ CountsFit(Q, roll)
  BY <1>0, RollsFit DEF TypeOK
<1> HIDE DEF s, Q
<1> DEFINE R == RemoveFirst(Q, t)
<1>3. /\ R \in Seq(Task) /\ IsInjective(R) /\ ToSet(R) = ToSet(Q) \ {t}
      /\ roll' \in [Task -> Int] /\ CountsFit(R, roll')
      /\ LeftOf(Task, R, roll') = [LeftOf(Task, Q, roll) EXCEPT ![t] = 0]
  BY <1>0, <1>1, <1>2, StopLeft
<1>4. LeftOf(Task, Q, roll) \in [Task -> Int]
  BY <1>0, <1>2, LeftIs
<1>5. roll'[t] = 0 /\ \A u \in Task \ ToSet(Q) : roll'[u] = roll[u]
  BY <1>0, <1>1, <1>2, CutElsewhere
<1>6. ASSUME NEW u \in ToSet(Q), u # t
      PROVE  /\ LeftOf(Task, R, roll')[u] = Passes(s)[u] /\ Passes(s)[u] <= RollSpan - 1
             /\ roll'[u] \in Nat /\ roll'[u] <= Passes(s)[u] /\ Passes(s)[u] \in Nat
  <2>1. u \in Task /\ u \in ToSet(R)
    BY <1>0, <1>3, <1>6, InToSet
  <2>2. LeftOf(Task, R, roll')[u] = LeftOf(Task, Q, roll)[u]
    BY <1>3, <1>4, <1>6, <2>1
  <2>3. Passes(s) = LeftOf(Task, Q, roll)
    BY DEF Passes, s, Q
  <2>4. Passes(s)[u] <= RollSpan - 1
    BY <1>0 DEF ListsFit, Q, s
  <2>5. /\ roll'[u] <= LeftOf(Task, R, roll')[u] /\ roll'[u] \in Nat
        /\ LeftOf(Task, R, roll')[u] \in Nat
    BY <1>3, <2>1, CountFits
  <2> QED  BY <2>2, <2>3, <2>4, <2>5
<1>7. roll' \in [Task -> 0..RollSpan - 1]
  <2>1. ASSUME NEW u \in Task PROVE roll'[u] \in 0..RollSpan - 1
    <3>1. CASE u \notin ToSet(Q)
      BY <1>2, <1>5, <3>1
    <3>2. CASE u = t
      BY <1>0, <1>5, <3>2
    <3>3. CASE u \in ToSet(Q) /\ u # t
      BY <1>0, <1>6, <3>3
    <3> QED  BY <3>1, <3>2, <3>3
  <2> QED  BY <1>3, <2>1
<1>8. TypeOK'
  <2>1. link' \in [Slot -> Seq(Task)]
    <3>1. link \in [Slot -> Seq(Task)] /\ link' = [link EXCEPT ![s] = R]
      BY <1>0, <1>1 DEF TypeOK, s, Q
    <3> QED  BY <1>3, <3>1
  <2> QED  BY <1>0, <1>1, <1>7, <2>1 DEF TypeOK, Slot
<1>9. Leaves(t)
  <2>1. ASSUME NEW z \in Slot, NEW u \in ToSet(link[z]) \ {t}
        PROVE  Passes(z)'[u] = Passes(z)[u]
    <3>1. CASE z = s
      <4>1. u \in ToSet(Q) /\ u # t
        BY <3>1 DEF Q, s
      <4>2. Passes(z)' = LeftOf(Task, R, roll')
        BY <1>0, <1>1, <3>1 DEF Passes, Q, s, TypeOK
      <4> QED  BY <1>6, <3>1, <4>1, <4>2
    <3>2. CASE z # s
      <4>1. link[z] \in Seq(Task) /\ IsInjective(link[z]) /\ link'[z] = link[z]
        BY <1>0, <1>1, <3>2 DEF Stands, s, TypeOK
      <4>2. \A x \in ToSet(link[z]) : x \in Task /\ x \notin ToSet(Q)
        BY <1>0, <3>2 DEF Stands, Q, s
      <4>3. \A x \in ToSet(link[z]) : roll'[x] = roll[x]
        BY <1>5, <4>2
      <4>4. LeftOf(Task, link[z], roll') = LeftOf(Task, link[z], roll)
        BY <1>2, <1>3, <4>1, <4>3, SameLeft
      <4> QED  BY <4>1, <4>4 DEF Passes
    <3> QED  BY <3>1, <3>2
  <2> QED  BY <1>1, <2>1 DEF Leaves
<1>10. WheelInv' /\ InOrder' = RemoveFirst(InOrder, t) /\ TicksLeft' = [TicksLeft EXCEPT ![t] = 0]
  BY <1>0, <1>8, <1>9, LeaveKept
<1>11. ToSet(InOrder) = Waiting
  BY OrderHeld DEF IsOrder
<1>12. Abstract!Leave(t)
  BY <1>0, <1>10, <1>11, AbstractLists DEF Abstract!Leave, Abstract!DelTimer
<1> QED  BY <1>10, <1>12

\* ScanPop: the first of the delay list is due and leaves it.
LEMMA PopStep ==
  ASSUME WheelInv, ScanPop
  PROVE  WheelInv' /\ Abstract!Expire
<1> DEFINE Q == link[cursor]
<1>0. /\ TypeOK /\ ListsFit /\ Stands /\ FirstFits /\ IsOrder(InOrder) /\ cursor \in Slot
      /\ SlotCount \in Nat \ {0} /\ RollSpan \in Nat \ {0}
  BY OrderHeld, WheelAssumption DEF WheelInv, WheelFacts, TypeOK
<1>1. /\ UNCHANGED <<cursor, index, roll, scanning>> /\ scanning
      /\ Q # <<>> /\ roll[Head(Q)] = 0 /\ link' = [link EXCEPT ![cursor] = Tail(@)]
      /\ Q \in Seq(Task) /\ IsInjective(Q)
  BY <1>0 DEF ScanPop, Stands
<1>2. roll \in [Task -> Int] /\ CountsFit(Q, roll)
  BY <1>0, <1>1, RollsFit DEF TypeOK
<1>a. Head(Q) \in ToSet(Q)
  BY <1>1, TailIsRemove
<1>b. PICK t \in ToSet(Q) : t = Head(Q)
  BY <1>a
<1>3. /\ Tail(Q) = RemoveFirst(Q, t) /\ Tail(Q) \in Seq(Task)
      /\ LeftOf(Task, Q, roll)[t] = 0 /\ LeftOf(Task, Tail(Q), roll) = LeftOf(Task, Q, roll)
  <2> HIDE DEF Q
  <2>1. Tail(Q) = RemoveFirst(Q, t) /\ Tail(Q) \in Seq(Task)
    BY <1>1, <1>b, TailIsRemove, HeadTailRange
  <2>2. Q \in Seq(Task) /\ IsInjective(Q) /\ Q # <<>> /\ roll[Head(Q)] = 0
    BY <1>1
  <2>3. /\ LeftOf(Task, Q, roll)[Head(Q)] = 0
        /\ LeftOf(Task, Tail(Q), roll) = LeftOf(Task, Q, roll)
    BY <1>2, <2>2, TailLeft
  <2> QED  BY <1>b, <2>1, <2>3
<1>4. t \in Waiting /\ index[t] = cursor /\ t \in Task
  BY <1>0 DEF Stands
<1>5. TypeOK'
  <2>1. link' \in [Slot -> Seq(Task)]
    BY <1>0, <1>1, <1>3 DEF TypeOK
  <2> QED  BY <1>0, <1>1, <2>1 DEF TypeOK, Slot
<1>6. Leaves(t)
  <2>1. link' = [link EXCEPT ![index[t]] = RemoveFirst(@, t)]
    BY <1>1, <1>3, <1>4
  <2>2. ASSUME NEW s \in Slot PROVE Passes(s)' = Passes(s)
    <3>1. CASE s = cursor
      <4>1. link'[s] = Tail(Q) /\ link[s] = Q /\ roll' = roll
        BY <1>0, <1>1, <3>1 DEF TypeOK
      <4> QED  BY <1>3, <4>1 DEF Passes
    <3>2. CASE s # cursor
      <4>1. link'[s] = link[s] /\ roll' = roll
        BY <1>0, <1>1, <3>2 DEF TypeOK
      <4> QED  BY <4>1 DEF Passes
    <3> QED  BY <3>1, <3>2
  <2> QED  BY <1>1, <2>1, <2>2 DEF Leaves
<1>7. WheelInv' /\ InOrder' = RemoveFirst(InOrder, t) /\ TicksLeft' = [TicksLeft EXCEPT ![t] = 0]
  BY <1>4, <1>5, <1>6, LeaveKept
<1>8. Due(t) = 0 /\ TicksLeft[t] = 0
  <2>1. First(cursor) = 0
    BY <1>0, <1>1 DEF FirstFits
  <2>2. Passes(cursor)[t] = 0
    BY <1>3 DEF Passes
  <2>3. Due(t) = 0 + SlotCount * 0 /\ TicksLeft[t] = Due(t)
    BY <1>0, <1>4, <2>1, <2>2 DEF Stands
  <2> QED  BY <1>0, <2>3
<1>9. Place(t) = 1
  <2>1. Place(t) \in 1..Len(Q) /\ Q[Place(t)] = t
    BY <1>0, <1>4 DEF Stands
  <2>2. Q[1] = t /\ 1 \in 1..Len(Q)
    BY <1>1, <1>b, EmptySeq, LenProperties
  <2>3. \A i, j \in 1..Len(Q) : Q[i] = Q[j] => i = j
    BY <1>1, InToSet DEF IsInjective
  <2> QED  BY <2>1, <2>2, <2>3
<1> HIDE DEF Q
<1>10. /\ InOrder \in Seq(Task) /\ ToSet(InOrder) = Waiting
       /\ \A i, j \in 1..Len(InOrder) : i < j => Earlier(InOrder[i], InOrder[j])
       /\ Len(InOrder) \in Nat
  BY <1>0, LenProperties DEF IsOrder
<1>11. PICK j \in 1..Len(InOrder) : InOrder[j] = t
  BY <1>4, <1>10, InToSet
<1>12. InOrder # <<>> /\ 1 \in 1..Len(InOrder) /\ Head(InOrder) = InOrder[1]
  BY <1>10, <1>11, EmptySeq
<1>13. Head(InOrder) = t
  <2>1. CASE j = 1
    BY <1>11, <1>12, <2>1
  <2>2. CASE j # 1
    <3>1. PICK h \in Waiting : h = InOrder[1]
      BY <1>10, <1>12, InToSet
    <3>2. 1 < j
      BY <1>10, <1>11, <2>2
    <3>3. Earlier(h, t)
      BY <1>10, <1>11, <1>12, <3>1, <3>2
    <3>4. Due(h) \in Nat /\ Place(h) \in 1..Len(link[index[h]]) /\ link[index[h]] \in Seq(Task)
      BY <1>0, <3>1 DEF Stands
    <3>5. Due(h) = Due(t) /\ Place(h) < 1
      BY <1>8, <1>9, <3>3, <3>4 DEF Earlier
    <3> QED  BY <3>4, <3>5
  <2> QED  BY <2>1, <2>2
<1>14. InOrder' = Tail(InOrder)
  BY <1>7, <1>10, <1>12, <1>13, TailIsRemove
<1>15. UNCHANGED TicksLeft
  BY <1>7, <1>8, <1>4 DEF TicksLeft
<1> QED  BY <1>7, <1>8, <1>12, <1>13, <1>14, <1>15 DEF Abstract!Expire

\* The list for a wait of n ticks is the one whose turn makes it n.
LEMMA AddNumbers ==
  ASSUME TypeOK, ~scanning, NEW n \in Timeouts
  PROVE  LET s == ((n % SlotCount) + cursor) % SlotCount
         IN /\ s \in Slot /\ RollNum(n) \in 0..RollSpan - 1
            /\ n = First(s) + SlotCount * RollNum(n)
<1> DEFINE a == n % SlotCount
           s == (a + cursor) % SlotCount
<1>0. SlotCount \in Nat \ {0} /\ RollSpan \in Nat \ {0} /\ cursor \in 0..SlotCount - 1
  BY WheelAssumption DEF TypeOK, Slot
<1>1. /\ n \in Nat /\ a \in 0..SlotCount - 1 /\ RollNum(n) \in 0..RollSpan - 1
      /\ n = SlotCount * RollNum(n) + IF a = 0 THEN SlotCount ELSE a
  BY RollNumIs
<1> HIDE DEF a
<1>2. s = IF a + cursor < SlotCount THEN a + cursor ELSE (a + cursor) - SlotCount
  <2>1. a + cursor \in 0..2 * SlotCount - 1
    BY <1>0, <1>1
  <2> QED  BY <1>0, <2>1, Wrap
<1> HIDE DEF s
<1>3. s \in 0..SlotCount - 1
  BY <1>0, <1>1, <1>2
<1>4. First(s) = IF s = cursor THEN SlotCount
                 ELSE IF s > cursor THEN s - cursor ELSE (s - cursor) + SlotCount
  BY <1>3, FirstIs DEF FirstFits, Slot
<1>5. First(s) = IF a = 0 THEN SlotCount ELSE a
  BY <1>0, <1>1, <1>2, <1>3, <1>4
<1>6. SlotCount * RollNum(n) \in Int
  BY <1>0, <1>1
<1>7. n = First(s) + SlotCount * RollNum(n)
  BY <1>0, <1>1, <1>5, <1>6
<1> QED  BY <1>1, <1>3, <1>7 DEF a, s, Slot

\* The counts of others than those on the list and the new one stay.
LEMMA PutElsewhere ==
  ASSUME NEW T, NEW Q \in Seq(T), NEW C \in [T -> Int], NEW t \in T, NEW n,
         NEW k \in 1..Len(Q) + 1
  PROVE  \A u \in T \ (ToSet(Q) \cup {t}) : CountsPut(Q, C, t, n, k)[u] = C[u]
<1> DEFINE c == n - Ahead(Q, C, k - 1)
<1>0. Len(Q) \in Nat
  BY LenProperties
<1>1. CASE k > Len(Q)
  <2>1. CountsPut(Q, C, t, n, k) = [C EXCEPT ![t] = c]
    BY <1>1 DEF CountsPut
  <2> QED  BY <2>1
<1>2. CASE ~(k > Len(Q))
  <2>1. Q[k] \in ToSet(Q)
    <3>1. k \in 1..Len(Q)
      BY <1>0, <1>2
    <3> QED  BY <3>1, InToSet
  <2>2. CountsPut(Q, C, t, n, k) = [C EXCEPT ![t] = c, ![Q[k]] = @ - c]
    BY <1>2 DEF CountsPut
  <2> HIDE DEF c
  <2> QED  BY <2>1, <2>2
<1> QED  BY <1>1, <1>2

\* A task comes on list s to wait for r passes, and the passes of the others stay.
Enters(t, s, r) ==
  /\ UNCHANGED <<cursor, scanning>>
  /\ index' = [index EXCEPT ![t] = s]
  /\ link' = [link EXCEPT ![s] = InsertAt(@, PlaceFor(link[s], roll, r), t)]
  /\ Passes(s)'[t] = r
  /\ \A z \in Slot : \A u \in ToSet(link[z]) : Passes(z)'[u] = Passes(z)[u]

\* The counts are those of the others and of the new task.
LEMMA AddEnters ==
  ASSUME WheelInv, NEW t \in Task, NEW n \in Timeouts, Add(t, n)
  PROVE  \E s \in Slot : /\ n = First(s) + SlotCount * RollNum(n)
                         /\ RollNum(n) \in 0..RollSpan - 1
                         /\ Enters(t, s, RollNum(n)) /\ TypeOK'
<1> DEFINE r == RollNum(n)
<1>0. TypeOK /\ ListsFit /\ Stands /\ ~scanning /\ t \notin Waiting /\ RollSpan \in Nat \ {0}
  BY OrderHeld, WheelAssumption DEF WheelInv, WheelFacts, Add
<1>1. PICK s \in Slot : s = ((n % SlotCount) + cursor) % SlotCount
  BY <1>0, AddNumbers
<1>2. r \in 0..RollSpan - 1 /\ n = First(s) + SlotCount * r
  BY <1>0, <1>1, AddNumbers
<1> DEFINE Q == link[s]
           k == PlaceFor(Q, roll, r)
           R == InsertAt(Q, k, t)
<1>3. /\ UNCHANGED <<cursor, scanning>> /\ index' = [index EXCEPT ![t] = s]
      /\ link' = [link EXCEPT ![s] = InsertAt(@, PlaceFor(link[s], roll, r), t)]
      /\ roll' = CountsPut(Q, roll, t, r, k)
  BY <1>1 DEF Add
<1>a. link' = [link EXCEPT ![s] = R]
  BY <1>3
<1> HIDE DEF r
<1>4. /\ Q \in Seq(Task) /\ IsInjective(Q) /\ t \notin ToSet(Q)
      /\ roll \in [Task -> 0..RollSpan - 1] /\ roll \in [Task -> Int] /\ CountsFit(Q, roll)
  <2>1. Q \in Seq(Task) /\ IsInjective(Q) /\ t \notin ToSet(Q) /\ roll \in [Task -> 0..RollSpan - 1]
    BY <1>0 DEF Stands, TypeOK
  <2> QED  BY <2>1, RollsFit
<1>b. r \in Nat
  BY <1>0, <1>2
<1> HIDE DEF Q
<1>5. /\ R \in Seq(Task) /\ IsInjective(R) /\ ToSet(R) = ToSet(Q) \cup {t}
      /\ roll' \in [Task -> Int] /\ CountsFit(R, roll')
      /\ LeftOf(Task, R, roll') = [LeftOf(Task, Q, roll) EXCEPT ![t] = r]
  <2>1. /\ Q \in Seq(Task) /\ IsInjective(Q) /\ roll \in [Task -> Int] /\ CountsFit(Q, roll)
        /\ t \in Task \ ToSet(Q)
    BY <1>4
  <2>2. roll' = CountsPut(Q, roll, t, r, k)
    BY <1>3
  <2> QED  BY <1>b, <2>1, <2>2, StartLeft
<1>6. k \in 1..Len(Q) + 1
  BY <1>4, <1>b, PlaceIs
<1> HIDE DEF k
<1>7. \A u \in Task \ (ToSet(Q) \cup {t}) : roll'[u] = roll[u]
  BY <1>3, <1>4, <1>6, PutElsewhere
<1> HIDE DEF R
<1>8. LeftOf(Task, R, roll')[t] = r /\ \A u \in ToSet(Q) : LeftOf(Task, R, roll')[u] = Passes(s)[u]
  <2>1. Passes(s) = LeftOf(Task, Q, roll) /\ LeftOf(Task, Q, roll) \in [Task -> Int]
    BY <1>4, LeftIs DEF Passes, Q
  <2>2. \A u \in ToSet(Q) : u \in Task /\ u # t
    BY <1>4, InToSet
  <2> QED  BY <1>5, <2>1, <2>2
<1>9. roll' \in [Task -> 0..RollSpan - 1]
  <2>1. ASSUME NEW u \in Task PROVE roll'[u] \in 0..RollSpan - 1
    <3>1. CASE u \notin ToSet(Q) \cup {t}
      BY <1>4, <1>7, <3>1
    <3>2. CASE u \in ToSet(Q) \cup {t}
      <4>1. roll'[u] \in Nat /\ roll'[u] <= LeftOf(Task, R, roll')[u] /\ LeftOf(Task, R, roll')[u] \in Nat
        BY <1>5, <3>2, CountFits
      <4>2. LeftOf(Task, R, roll')[u] <= RollSpan - 1
        <5>1. \A x \in ToSet(Q) : Passes(s)[x] <= RollSpan - 1
          BY <1>0 DEF ListsFit, Q
        <5>2. u \in ToSet(Q) \/ u = t
          BY <3>2
        <5> QED  BY <1>0, <1>2, <1>8, <5>1, <5>2
      <4> QED  BY <1>0, <4>1, <4>2
    <3> QED  BY <3>1, <3>2
  <2> QED  BY <1>5, <2>1
<1>10. TypeOK'
  <2>1. link' \in [Slot -> Seq(Task)] /\ index' \in [Task -> Slot]
    BY <1>0, <1>3, <1>a, <1>5 DEF TypeOK
  <2> QED  BY <1>0, <1>3, <1>9, <2>1 DEF TypeOK, Slot
<1>11. Passes(s)' = LeftOf(Task, R, roll')
  <2>1. link'[s] = R
    BY <1>0, <1>a DEF TypeOK
  <2> QED  BY <2>1 DEF Passes
<1>12. ASSUME NEW z \in Slot, NEW u \in ToSet(link[z]) PROVE Passes(z)'[u] = Passes(z)[u]
  <2>1. CASE z = s
    BY <1>8, <1>11, <2>1 DEF Q
  <2>2. CASE z # s
    <3>1. link[z] \in Seq(Task) /\ IsInjective(link[z]) /\ link'[z] = link[z]
      BY <1>0, <1>a, <2>2 DEF Stands, TypeOK
    <3>2. \A x \in ToSet(link[z]) : x \in Task /\ x \notin ToSet(Q) \cup {t}
      <4>1. ASSUME NEW x \in ToSet(link[z])
            PROVE  x \in Task /\ x \in Waiting /\ index[x] = z
        BY <1>0 DEF Stands
      <4>2. \A x \in ToSet(Q) : index[x] = s
        BY <1>0 DEF Stands, Q
      <4> QED  BY <1>0, <2>2, <4>1, <4>2
    <3>3. \A x \in ToSet(link[z]) : roll'[x] = roll[x]
      BY <1>7, <3>2
    <3>4. LeftOf(Task, link[z], roll') = LeftOf(Task, link[z], roll)
      BY <1>4, <1>5, <3>1, <3>3, SameLeft
    <3> QED  BY <3>1, <3>4 DEF Passes
  <2> QED  BY <2>1, <2>2
<1>13. Enters(t, s, r)
  BY <1>3, <1>8, <1>11, <1>12 DEF Enters
<1> QED  BY <1>2, <1>10, <1>13 DEF r

\* Who may be on a list then.
LEMMA EnterFits ==
  ASSUME WheelInv, NEW t \in Task, NEW s \in Slot, NEW r \in 0..RollSpan - 1,
         t \notin Waiting, TypeOK', Enters(t, s, r)
  PROVE  /\ ListsFit' /\ Waiting' = Waiting \cup {t}
         /\ index'[t] = s /\ \A u \in Waiting : index'[u] = index[u]
         /\ \A z \in Slot :
              link'[z] = IF z = s THEN InsertAt(link[s], PlaceFor(link[s], roll, r), t) ELSE link[z]
<1>0. TypeOK /\ ListsFit /\ Stands /\ RollSpan \in Nat \ {0}
  BY OrderHeld, WheelAssumption DEF WheelInv, WheelFacts
<1> DEFINE k == PlaceFor(link[s], roll, r)
<1>1. k \in 1..Len(link[s]) + 1
  <2>1. link[s] \in Seq(Task) /\ roll \in [Task -> 0..RollSpan - 1] /\ r \in Nat
    BY <1>0 DEF TypeOK
  <2>2. roll \in [Task -> Int] /\ CountsFit(link[s], roll)
    BY <2>1, RollsFit
  <2> QED  BY <2>1, <2>2, PlaceIs
<1>2. ASSUME NEW z \in Slot
      PROVE  link'[z] = IF z = s THEN InsertAt(link[s], k, t) ELSE link[z]
  BY <1>0 DEF Enters, TypeOK
<1>3. index'[t] = s /\ \A u \in Task \ {t} : index'[u] = index[u]
  BY <1>0 DEF Enters, TypeOK
<1> HIDE DEF k
<1>4. ASSUME NEW z \in Slot
      PROVE  /\ IsInjective(link'[z]) /\ t \notin ToSet(link[z])
             /\ ToSet(link'[z]) = IF z = s THEN ToSet(link[z]) \cup {t} ELSE ToSet(link[z])
  <2>1. link[z] \in Seq(Task) /\ IsInjective(link[z]) /\ t \notin ToSet(link[z])
    BY <1>0 DEF Stands
  <2>2. CASE z = s
    BY <1>1, <1>2, <2>1, <2>2, InsertAtRange
  <2>3. CASE z # s
    BY <1>2, <2>1, <2>3
  <2> QED  BY <2>2, <2>3
<1>5. ListsFit'
  <2> SUFFICES ASSUME NEW z \in Slot, NEW u \in ToSet(link'[z])
               PROVE  index'[u] = z /\ Passes(z)'[u] <= RollSpan - 1
    BY <1>4 DEF ListsFit, Slot
  <2>1. CASE u \in ToSet(link[z])
    <3>1. index[u] = z /\ Passes(z)[u] <= RollSpan - 1 /\ u \in Task /\ u # t
      BY <1>0, <1>4, <2>1 DEF ListsFit, Stands
    <3>2. Passes(z)'[u] = Passes(z)[u]
      BY <2>1 DEF Enters
    <3> QED  BY <1>3, <3>1, <3>2
  <2>2. CASE u \notin ToSet(link[z])
    <3>1. z = s /\ u = t
      BY <1>4, <2>2
    <3>2. Passes(z)'[u] = r
      BY <3>1 DEF Enters
    <3> QED  BY <1>0, <1>3, <3>1, <3>2
  <2> QED  BY <2>1, <2>2
<1>6. Waiting' = Waiting \cup {t}
  <2>1. Waiting' = UNION {ToSet(link'[z]) : z \in Slot}
    BY DEF Waiting, Slot
  <2>2. \A u \in Waiting' : u \in Waiting \cup {t}
    BY <1>4, <2>1 DEF Waiting
  <2>3. \A u \in Waiting \cup {t} : u \in Waiting'
    BY <1>4, <2>1 DEF Waiting
  <2> QED  BY <2>2, <2>3
<1>7. \A u \in Waiting : index'[u] = index[u]
  BY <1>0, <1>3 DEF Stands
<1> QED  BY <1>2, <1>3, <1>5, <1>6, <1>7 DEF k

\* The new task stands behind those on its list that wait no more passes.
LEMMA BehindOthers ==
  ASSUME NEW T, NEW Q \in Seq(T), IsInjective(Q), NEW C \in [T -> Int], CountsFit(Q, C),
         NEW r \in Nat, NEW t \in T, NEW x \in ToSet(Q), LeftOf(T, Q, C)[x] <= r
  PROVE  Before(InsertAt(Q, PlaceFor(Q, C, r), t), x, t)
<1> DEFINE k == PlaceFor(Q, C, r)
<1>0. /\ Len(Q) \in Nat /\ \A i \in 0..Len(Q) : Ahead(Q, C, i) \in Int
  BY Entries
<1>1. k \in 1..Len(Q) + 1 /\ (k <= Len(Q) => Ahead(Q, C, k) > r)
  BY PlaceIs
<1>2. PICK i \in 1..Len(Q) : Q[i] = x
  BY InToSet
<1>3. Ahead(Q, C, i) <= r
  BY <1>2, LeftIs
<1> HIDE DEF k
<1>4. i < k
  <2>1. CASE k <= i
    <3>1. k \in 0..Len(Q) /\ i \in k..Len(Q) /\ i \in 0..Len(Q)
      BY <1>0, <1>1, <1>2, <2>1
    <3>2. Ahead(Q, C, k) <= Ahead(Q, C, i)
      BY <3>1, AheadGrows
    <3>3. Ahead(Q, C, k) > r /\ Ahead(Q, C, k) \in Int /\ Ahead(Q, C, i) \in Int
      BY <1>0, <1>1, <3>1
    <3> QED  BY <1>3, <3>2, <3>3
  <2> QED  BY <1>0, <1>1, <1>2, <2>1
<1>5. i \in 1..k - 1
  BY <1>0, <1>1, <1>2, <1>4
<1> QED  BY <1>1, <1>2, <1>5, InsertBefore DEF k

\* The others keep their times and their order, and the new task comes by its time.
LEMMA EnterKept ==
  ASSUME WheelInv, NEW t \in Task, NEW s \in Slot, NEW r \in 0..RollSpan - 1,
         t \notin Waiting, TypeOK', Enters(t, s, r),
         NEW n \in Nat, n = First(s) + SlotCount * r
  PROVE  /\ WheelInv' /\ InOrder' = InsertAt(InOrder, PlaceBy(InOrder, TicksLeft, n), t)
         /\ TicksLeft' = [TicksLeft EXCEPT ![t] = n]
<1>0. /\ TypeOK /\ ListsFit /\ Stands /\ PlacesFit /\ FirstFits /\ DueTogether /\ IsOrder(InOrder)
      /\ SlotCount \in Nat \ {0} /\ RollSpan \in Nat \ {0} /\ r \in Nat
  BY OrderHeld, WheelAssumption DEF WheelInv, WheelFacts
<1>1. /\ ListsFit' /\ Waiting' = Waiting \cup {t}
      /\ index'[t] = s /\ \A u \in Waiting : index'[u] = index[u]
      /\ \A z \in Slot :
           link'[z] = IF z = s THEN InsertAt(link[s], PlaceFor(link[s], roll, r), t) ELSE link[z]
  BY EnterFits
<1>2. Stands' /\ PlacesFit' /\ FirstFits' /\ DueTogether' /\ OneOrder'
  BY <1>1, FactsNext DEF WheelFacts
<1>3. \A z \in Slot : First(z)' = First(z)
  BY <1>0, <1>2 DEF FirstFits, Enters, Slot
<1>4. ASSUME NEW u \in Waiting
      PROVE  /\ Due(u)' = Due(u) /\ TicksLeft'[u] = TicksLeft[u] /\ Due(u) \in Nat
             /\ TicksLeft[u] = Due(u)
  <2>1. PICK z \in Slot : z = index[u] /\ u \in ToSet(link[z])
    BY <1>0 DEF Stands
  <2>2. /\ Due(u) = First(z) + SlotCount * Passes(z)[u] /\ TicksLeft[u] = Due(u)
        /\ Due(u) \in Nat
    BY <1>0, <2>1 DEF Stands
  <2>3. Due(u)' = First(z)' + SlotCount * Passes(z)'[u] /\ TicksLeft'[u] = Due(u)'
    <3>1. index'[u] = z /\ u \in Waiting'
      BY <1>1, <2>1
    <3> QED  BY <1>2, <3>1 DEF Stands
  <2>4. Passes(z)'[u] = Passes(z)[u]
    BY <2>1 DEF Enters
  <2> QED  BY <1>3, <2>2, <2>3, <2>4
<1>5. Due(t)' = n /\ TicksLeft'[t] = n /\ t \in Waiting'
  <2>1. Due(t)' = First(s)' + SlotCount * Passes(s)'[t] /\ TicksLeft'[t] = Due(t)' /\ t \in Waiting'
    BY <1>1, <1>2 DEF Stands
  <2>2. Passes(s)'[t] = r
    BY DEF Enters
  <2> QED  BY <1>3, <2>1, <2>2
<1>6. ASSUME NEW x \in Waiting, NEW y \in Waiting, Earlier(x, y)
      PROVE  Earlier(x, y)'
  <2>1. Due(x)' = Due(x) /\ Due(y)' = Due(y)
    BY <1>4
  <2>2. CASE Due(x) < Due(y)
    BY <2>1, <2>2 DEF Earlier
  <2>3. CASE Due(x) = Due(y) /\ Place(x) < Place(y)
    <3>1. index[x] = index[y]
      BY <1>0, <2>3 DEF DueTogether
    <3>2. PICK z \in Slot : z = index[x] /\ link[z] \in Seq(Task)
      BY <1>0 DEF Stands
    <3>3. Before(link[z], x, y)
      BY <1>0, <2>3, <3>1, <3>2 DEF PlacesFit
    <3>4. Before(link'[z], x, y)
      <4>1. CASE z = s
        <5>1. roll \in [Task -> Int] /\ CountsFit(link[s], roll)
          BY <1>0, <3>2, <4>1, RollsFit DEF TypeOK
        <5>2. PlaceFor(link[s], roll, r) \in 1..Len(link[s]) + 1
          BY <1>0, <3>2, <4>1, <5>1, PlaceIs
        <5>3. link'[z] = InsertAt(link[s], PlaceFor(link[s], roll, r), t)
          BY <1>1, <4>1
        <5> QED  BY <3>2, <3>3, <4>1, <5>2, <5>3, InsertBefore
      <4>2. CASE z # s
        BY <1>1, <3>3, <4>2
      <4> QED  BY <4>1, <4>2
    <3>5. x \in Waiting' /\ y \in Waiting' /\ index'[x] = z /\ index'[y] = z
      BY <1>1, <3>1, <3>2
    <3>6. Place(x)' < Place(y)'
      BY <1>2, <3>4, <3>5 DEF PlacesFit
    <3> QED  BY <2>1, <2>3, <3>6 DEF Earlier
  <2> QED  BY <1>6, <2>2, <2>3 DEF Earlier
<1>7. ASSUME NEW x \in Waiting
      PROVE  IF TicksLeft[x] <= n THEN Earlier(x, t)' ELSE Earlier(t, x)'
  <2>1. Due(x)' = Due(x) /\ Due(x) \in Nat /\ TicksLeft[x] = Due(x)
    BY <1>4
  <2>2. CASE Due(x) < n
    <3>1. Due(x)' < Due(t)'
      BY <1>5, <2>1, <2>2
    <3> QED  BY <2>1, <2>2, <3>1 DEF Earlier
  <2>3. CASE Due(x) > n
    <3>1. Due(t)' < Due(x)'
      BY <1>5, <2>1, <2>3
    <3> QED  BY <2>1, <2>3, <3>1 DEF Earlier
  <2>4. CASE Due(x) = n
    <3>1. Due(x)' = Due(t)' /\ x \in Waiting'
      BY <1>1, <1>5, <2>1, <2>4
    <3>2. index'[x] = s /\ index[x] = s
      BY <1>1, <1>2, <1>5, <3>1 DEF DueTogether
    <3>3. /\ n = First(s) + SlotCount * Passes(s)[x] /\ Passes(s)[x] \in Nat /\ First(s) \in Nat
          /\ link[s] \in Seq(Task) /\ IsInjective(link[s]) /\ x \in ToSet(link[s])
      BY <1>0, <2>4, <3>2 DEF Stands
    <3>4. Passes(s)[x] = r
      <4>1. First(s) + SlotCount * Passes(s)[x] = First(s) + SlotCount * r
        BY <3>3
      <4>2. SlotCount \in Nat \ {0} /\ r \in Nat /\ Passes(s)[x] \in Nat /\ First(s) \in Nat
        BY <1>0, <3>3
      <4> QED  BY <4>1, <4>2, SameRolls
    <3>5. roll \in [Task -> Int] /\ CountsFit(link[s], roll)
      BY <1>0, <3>3, RollsFit DEF TypeOK
    <3>6. LeftOf(Task, link[s], roll)[x] <= r
      BY <1>0, <3>4 DEF Passes
    <3>7. Before(link'[s], x, t)
      BY <1>0, <1>1, <3>3, <3>5, <3>6, BehindOthers
    <3>8. Place(x)' < Place(t)'
      BY <1>1, <1>2, <1>5, <3>1, <3>2, <3>7 DEF PlacesFit
    <3>9. Earlier(x, t)'
      BY <3>1, <3>8 DEF Earlier
    <3> QED  BY <1>0, <2>1, <2>4, <3>9
  <2> QED  BY <2>1, <2>2, <2>3, <2>4
<1>8. /\ InOrder \in Seq(Task) /\ IsInjective(InOrder) /\ ToSet(InOrder) = Waiting
      /\ \A i, j \in 1..Len(InOrder) : i < j => Earlier(InOrder[i], InOrder[j])
      /\ \A i \in 1..Len(InOrder) : InOrder[i] \in Waiting
  BY <1>0, InToSet DEF IsOrder
<1>a. \E P : P = InsertAt(InOrder, PlaceBy(InOrder, TicksLeft, n), t)
  OBVIOUS
<1>b. PICK P : P = InsertAt(InOrder, PlaceBy(InOrder, TicksLeft, n), t)
  BY <1>a
<1>9. /\ PlaceBy(InOrder, TicksLeft, n) \in 1..Len(InOrder) + 1
      /\ \A i, j \in 1..Len(P) : i < j => Earlier(P[i], P[j])'
  <2> DEFINE W == Waiting \cup {t}
             R == {z \in W \X W : Earlier(z[1], z[2])}
             S == {z \in W \X W : Earlier(z[1], z[2])'}
  <2>1. Ordered(InOrder, R)
    BY <1>8 DEF Ordered
  <2>2. \A x, y \in ToSet(InOrder) : <<x, y>> \in R => <<x, y>> \in S
    BY <1>6, <1>8
  <2>3. \A x, y : <<x, y>> \in S => Earlier(x, y)'
    OBVIOUS
  <2>4. \A x \in ToSet(InOrder) : IF TicksLeft[x] <= n THEN <<x, t>> \in S ELSE <<t, x>> \in S
    BY <1>7, <1>8
  <2>5. \A x \in ToSet(InOrder) : TicksLeft[x] \in Int
    BY <1>4, <1>8
  <2>6. ASSUME NEW i \in 1..Len(InOrder), NEW j \in 1..Len(InOrder), i < j
        PROVE  TicksLeft[InOrder[i]] <= TicksLeft[InOrder[j]]
    <3>1. PICK x \in Waiting, y \in Waiting : x = InOrder[i] /\ y = InOrder[j]
      BY <1>8
    <3>2. Earlier(x, y)
      BY <1>8, <2>6, <3>1
    <3>3. Due(x) <= Due(y)
      BY <1>4, <3>2 DEF Earlier
    <3> QED  BY <1>4, <3>1, <3>3
  <2> HIDE DEF R, S
  <2>7. n \in Int
    OBVIOUS
  <2>8. /\ PlaceBy(InOrder, TicksLeft, n) \in 1..Len(InOrder) + 1
        /\ Ordered(InsertAt(InOrder, PlaceBy(InOrder, TicksLeft, n), t), S)
    BY <1>8, <2>1, <2>2, <2>4, <2>5, <2>6, <2>7, InsertOrdered
  <2> QED  BY <1>b, <2>3, <2>8 DEF Ordered
<1>10. P \in Seq(Task) /\ IsInjective(P) /\ ToSet(P) = Waiting'
  BY <1>1, <1>8, <1>9, <1>b, InsertAtRange
<1>11. WheelInv' /\ InOrder' = P
  <2>1. IsOrder(P)'
    BY <1>9, <1>10 DEF IsOrder
  <2>2. WheelInv'
    BY <1>1, <2>1 DEF WheelInv
  <2>3. InOrder' = P
    BY <1>2, <2>1 DEF OneOrder
  <2> QED  BY <2>2, <2>3
<1>12. TicksLeft' = [TicksLeft EXCEPT ![t] = n]
  <2>1. ASSUME NEW u \in Task
        PROVE  TicksLeft'[u] = IF u = t THEN n ELSE TicksLeft[u]
    <3>1. CASE u \in Waiting
      BY <1>4, <3>1
    <3>2. CASE u \notin Waiting /\ u # t
      BY <1>1, <3>2 DEF TicksLeft
    <3> QED  BY <1>5, <3>1, <3>2
  <2>2. TicksLeft' = [u \in Task |-> TicksLeft'[u]] /\ TicksLeft = [u \in Task |-> TicksLeft[u]]
    BY DEF TicksLeft
  <2> HIDE DEF TicksLeft
  <2>3. TicksLeft' = [u \in Task |-> IF u = t THEN n ELSE TicksLeft[u]]
    BY <2>1, <2>2
  <2> QED  BY <2>2, <2>3
<1> QED  BY <1>11, <1>12, <1>b

\* Add: the task is put on the delay list for n ticks.
LEMMA AddStep ==
  ASSUME WheelInv, NEW t \in Task, NEW n \in Timeouts, Add(t, n)
  PROVE  WheelInv' /\ Abstract!Enter(t, n)
<1>1. PICK s \in Slot : /\ n = First(s) + SlotCount * RollNum(n)
                        /\ RollNum(n) \in 0..RollSpan - 1
                        /\ Enters(t, s, RollNum(n)) /\ TypeOK'
  BY AddEnters
<1>2. n \in Nat /\ t \notin Waiting
  BY RollNumIs DEF Add
<1>3. /\ WheelInv' /\ InOrder' = InsertAt(InOrder, PlaceBy(InOrder, TicksLeft, n), t)
      /\ TicksLeft' = [TicksLeft EXCEPT ![t] = n]
  BY <1>1, <1>2, EnterKept
<1>4. ToSet(InOrder) = Waiting
  BY OrderHeld DEF IsOrder
<1>5. InOrder' = Abstract!AddTimer(InOrder, t, n)
  BY <1>3, AbstractLists DEF Abstract!AddTimer, PlaceBy
<1>6. t \notin Abstract!ToSet(InOrder)
  BY <1>2, <1>4, AbstractLists
<1>7. Abstract!Enter(t, n)
  BY <1>3, <1>5, <1>6 DEF Abstract!Enter, Abstract!AddTimer
<1> QED  BY <1>3, <1>7
-----------------------------------------------------------------------------
(* The theorems.                                                            *)

\* Nobody waits at the start.
LEMMA WheelStarts == Init => WheelInv /\ Abstract!TimerInit
<1> SUFFICES ASSUME Init PROVE WheelInv /\ Abstract!TimerInit
  OBVIOUS
<1>0. SlotCount \in Nat \ {0} /\ RollSpan \in Nat \ {0} /\ 0 \in Slot
  BY WheelAssumption DEF Slot
<1>1. \A s \in Slot : link[s] = <<>>
  BY DEF Init
<1>2. ToSet(<<>>) = {} /\ IsInjective(<<>>) /\ <<>> \in Seq(Task) /\ Len(<<>>) = 0
  BY DEF ToSet, IsInjective
<1>3. Waiting = {}
  BY <1>1, <1>2 DEF Waiting
<1>4. TypeOK
  <2>1. link \in [Slot -> Seq(Task)]
    BY <1>2 DEF Init
  <2>2. roll \in [Task -> 0..RollSpan - 1]
    <3>1. 0 \in 0..RollSpan - 1
      BY <1>0
    <3> QED  BY <3>1 DEF Init
  <2>3. cursor \in Slot /\ index \in [Task -> Slot] /\ scanning \in BOOLEAN
    BY <1>0 DEF Init
  <2> QED  BY <2>1, <2>2, <2>3 DEF TypeOK
<1>5. ListsFit
  BY <1>1, <1>2 DEF ListsFit
<1>6. IsOrder(<<>>)
  BY <1>2, <1>3 DEF IsOrder
<1>7. WheelInv
  BY <1>4, <1>5, <1>6 DEF WheelInv
<1>8. InOrder = <<>>
  BY <1>6, <1>7, OrderHeld DEF WheelFacts, OneOrder
<1>9. TicksLeft = [t \in Task |-> 0]
  BY <1>3 DEF TicksLeft
<1> QED  BY <1>7, <1>8, <1>9 DEF Abstract!TimerInit

\* Each step is one of the delay list or none.
LEMMA WheelSteps ==
  WheelInv /\ [Next]_vars => WheelInv' /\ [Abstract!TimerNext]_<<InOrder, TicksLeft>>
<1> SUFFICES ASSUME WheelInv, [Next]_vars
             PROVE  WheelInv' /\ [Abstract!TimerNext]_<<InOrder, TicksLeft>>
  OBVIOUS
<1>1. ASSUME NEW t \in Task, Delete(t)
      PROVE  WheelInv' /\ [Abstract!TimerNext]_<<InOrder, TicksLeft>>
  BY <1>1, DeleteStep DEF Abstract!TimerNext
<1>2. ASSUME NEW t \in Task, NEW n \in Timeouts, Add(t, n)
      PROVE  WheelInv' /\ [Abstract!TimerNext]_<<InOrder, TicksLeft>>
  BY <1>2, AddStep DEF Abstract!TimerNext
<1>3. CASE Tick
  BY <1>3, TickStep DEF Abstract!TimerNext
<1>4. CASE ScanPop
  BY <1>4, PopStep DEF Abstract!TimerNext
<1>5. CASE ScanCount
  BY <1>5, CountStep
<1>6. CASE ScanEnd
  BY <1>6, EndStep
<1>7. CASE UNCHANGED vars
  <2>1. UNCHANGED <<cursor, link, index, roll, scanning>>
    BY <1>7 DEF vars
  <2>2. TypeOK' /\ ListsFit' /\ Waiting' = Waiting /\ \A t : Due(t)' = Due(t)
    BY <2>1 DEF WheelInv, TypeOK, ListsFit, Passes, Waiting, Due, First, Place
  <2> QED  BY <2>1, <2>2, RestKept
<1> QED  BY <1>1, <1>2, <1>3, <1>4, <1>5, <1>6, <1>7 DEF Next

\* A wait fits the lists and the rolls whatever comes before it: the variables of the wheel
\* keep their types.
THEOREM WheelTypes == Spec => []TypeOK
<1>1. WheelInv => TypeOK
  BY DEF WheelInv
<1> QED  BY <1>1, WheelStarts, WheelSteps, PTL DEF Spec

\* osTaskAdd2TimerList, osTimerListDelete and osTaskScan are the delay list that the
\* scheduler relies on: a task put on the wheel for n ticks leaves it at the n-th tick, and
\* tasks that expire together leave in the order they came.
THEOREM WheelImplements == Spec => ImplementsDelayList
<1>1. [Abstract!TimerNext]_<<InOrder, TicksLeft>> => [Abstract!TimerNext]_Abstract!timerVars
  BY DEF Abstract!timerVars
<1> QED  BY <1>1, WheelStarts, WheelSteps, PTL DEF Spec, ImplementsDelayList, Abstract!TimerSpec
=============================================================================
