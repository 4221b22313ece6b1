---------------------------- MODULE SeqLemmas ----------------------------
(***************************************************************************)
(* What the operations on sequences that model the kernel's lists do to    *)
(* the set of their entries, and that they keep the entries distinct; what *)
(* they do to the sums of a list of differences.  Induction over a list is *)
(* UpTo, which argues by the least entry that fails.                       *)
(***************************************************************************)
EXTENDS Deltas, SequenceTheorems, FiniteSetTheorems, WellFoundedInduction, TLAPS

\* A nonempty set of natural numbers has a least element: LOS_PriqueueTop finds the
\* most urgent of the ready lists that are not empty.
LEMMA MinExists ==
  ASSUME NEW T \in SUBSET Nat, T # {}
  PROVE  \E m \in T : \A k \in T : m <= k
<1> DEFINE R == OpToRel(<, Nat)
<1>1. IsWellFoundedOn(R, Nat)
  BY NatLessThanWellFounded
<1>2. \A x, y \in Nat : x < y => <<x, y>> \in R
  BY DEF OpToRel
<1> HIDE DEF R
<1>3. \E x \in T : \A y \in T : <<y, x>> \notin R
  BY <1>1, WFMin, Zenon
<1>4. PICK x \in T : \A y \in T : <<y, x>> \notin R
  BY <1>3
<1>5. \A y \in T : ~(y < x)
  BY <1>2, <1>4
<1> QED  BY <1>5

\* What the elements of a sequence have to do with its range, the tasks on a list.
LEMMA InToSet ==
  ASSUME NEW S, NEW s \in Seq(S)
  PROVE  /\ DOMAIN s = 1..Len(s)
         /\ Len(s) \in Nat
         /\ \A i \in 1..Len(s) : s[i] \in S /\ s[i] \in ToSet(s)
         /\ \A x : x \in ToSet(s) <=> \E i \in 1..Len(s) : s[i] = x
         /\ ToSet(s) \subseteq S
BY DEF ToSet

\* LOS_ListTailInsert adds one entry to a list, and keeps the entries distinct.
LEMMA AppendRange ==
  ASSUME NEW S, NEW s \in Seq(S), NEW e \in S
  PROVE  /\ Append(s, e) \in Seq(S)
         /\ ToSet(Append(s, e)) = ToSet(s) \cup {e}
         /\ IsInjective(s) /\ e \notin ToSet(s) => IsInjective(Append(s, e))
<1> DEFINE r == Append(s, e)
<1>1. /\ r \in Seq(S) /\ Len(r) = Len(s) + 1 /\ Len(s) \in Nat
      /\ \A i \in 1..Len(s) : r[i] = s[i]
      /\ r[Len(s) + 1] = e
  BY AppendProperties, LenProperties
<1> HIDE DEF r
<1>2. \A x : x \in ToSet(r) <=> x \in ToSet(s) \/ x = e
  BY <1>1, InToSet
<1>3. IsInjective(s) /\ e \notin ToSet(s) => IsInjective(r)
  BY <1>1, InToSet DEF IsInjective
<1> QED  BY <1>1, <1>2, <1>3 DEF r

\* Two lists joined have the entries of both; distinct if they share none.
LEMMA ConcatRange ==
  ASSUME NEW S, NEW s \in Seq(S), NEW r \in Seq(S)
  PROVE  /\ s \o r \in Seq(S)
         /\ ToSet(s \o r) = ToSet(s) \cup ToSet(r)
         /\ IsInjective(s) /\ IsInjective(r) /\ ToSet(s) \cap ToSet(r) = {}
              => IsInjective(s \o r)
<1> DEFINE c == s \o r
<1>1. /\ c \in Seq(S) /\ Len(c) = Len(s) + Len(r)
      /\ \A i \in 1..Len(s) + Len(r) :
           c[i] = IF i <= Len(s) THEN s[i] ELSE r[i - Len(s)]
  BY ConcatProperties
<1>2. Len(s) \in Nat /\ Len(r) \in Nat
  BY LenProperties
<1> HIDE DEF c
<1>3. ASSUME NEW j \in 1..Len(r) PROVE c[Len(s) + j] = r[j]
  BY <1>1, <1>2
<1>4. \A x : x \in ToSet(c) => x \in ToSet(s) \/ x \in ToSet(r)
  BY <1>1, <1>2, InToSet
<1>5. \A x : x \in ToSet(s) \/ x \in ToSet(r) => x \in ToSet(c)
  <2>1. ASSUME NEW j \in 1..Len(r) PROVE r[j] \in ToSet(c)
    BY <1>1, <1>2, <1>3, InToSet, Len(s) + j \in 1..Len(c)
  <2>2. ASSUME NEW j \in 1..Len(s) PROVE s[j] \in ToSet(c)
    BY <1>1, <1>2, InToSet, j \in 1..Len(c), c[j] = s[j]
  <2> QED  BY <2>1, <2>2, InToSet
<1>6. ASSUME IsInjective(s), IsInjective(r), ToSet(s) \cap ToSet(r) = {}
      PROVE  IsInjective(c)
  <2>1. \A i \in 1..Len(s) : c[i] = s[i] /\ c[i] \in ToSet(s)
    BY <1>1, <1>2, InToSet
  <2>2. \A i \in Len(s) + 1..Len(s) + Len(r) : c[i] = r[i - Len(s)] /\ c[i] \in ToSet(r)
    BY <1>1, <1>2, InToSet
  <2>3. \A i, j \in 1..Len(s) : s[i] = s[j] => i = j
    BY <1>6, InToSet DEF IsInjective
  <2>4. \A i, j \in 1..Len(r) : r[i] = r[j] => i = j
    BY <1>6, InToSet DEF IsInjective
  <2>5. ASSUME NEW i \in 1..Len(c), NEW j \in 1..Len(c), c[i] = c[j] PROVE i = j
    <3>1. CASE i <= Len(s) /\ j <= Len(s)
      BY <2>1, <2>3, <2>5, <3>1, <1>2
    <3>2. CASE i > Len(s) /\ j > Len(s)
      <4>1. r[i - Len(s)] = r[j - Len(s)]
        BY <2>2, <2>5, <3>2, <1>1, <1>2
      <4>2. i - Len(s) \in 1..Len(r) /\ j - Len(s) \in 1..Len(r)
        BY <3>2, <1>1, <1>2
      <4> QED  BY <4>1, <4>2, <2>4, <1>2
    <3>3. CASE i <= Len(s) /\ j > Len(s)
      BY <2>1, <2>2, <2>5, <3>3, <1>6, <1>1, <1>2
    <3>4. CASE i > Len(s) /\ j <= Len(s)
      BY <2>1, <2>2, <2>5, <3>4, <1>6, <1>1, <1>2
    <3> QED  BY <3>1, <3>2, <3>3, <3>4, <1>2, <1>1
  <2> QED  BY <2>5, <1>1, InToSet DEF IsInjective
<1> QED  BY <1>1, <1>4, <1>5, <1>6 DEF c

\* A reversed list has the same entries: the recycled tasks end up so on the free list.
LEMMA ReverseRange ==
  ASSUME NEW S, NEW s \in Seq(S)
  PROVE  /\ Reverse(s) \in Seq(S)
         /\ ToSet(Reverse(s)) = ToSet(s)
         /\ IsInjective(s) => IsInjective(Reverse(s))
<1> DEFINE r == Reverse(s)
<1>1. r \in Seq(S) /\ Len(r) = Len(s) /\ Len(s) \in Nat
  <2>1. r = [i \in 1..Len(s) |-> s[(Len(s) - i) + 1]]
    BY DEF Reverse
  <2>2. Len(s) \in Nat /\ \A i \in 1..Len(s) : s[(Len(s) - i) + 1] \in S
    BY InToSet
  <2> QED  BY <2>1, <2>2
<1>2. \A i \in 1..Len(s) : r[i] = s[(Len(s) - i) + 1]
  BY DEF Reverse
<1> HIDE DEF r
<1>2a. \A i \in 1..Len(s) : (Len(s) - i) + 1 \in 1..Len(s)
  BY <1>1
<1>3. \A x : x \in ToSet(r) => x \in ToSet(s)
  <2>1. ASSUME NEW i \in 1..Len(r) PROVE r[i] \in ToSet(s)
    <3>1. \A j \in 1..Len(s) : s[j] \in ToSet(s)
      BY InToSet
    <3> QED  BY <1>1, <1>2, <1>2a, <3>1
  <2>2. \A x : x \in ToSet(r) <=> \E i \in 1..Len(r) : r[i] = x
    BY <1>1, InToSet
  <2> QED  BY <2>1, <2>2
<1>4. \A x : x \in ToSet(s) => x \in ToSet(r)
  <2>1. ASSUME NEW i \in 1..Len(s) PROVE s[i] \in ToSet(r)
    <3>1. (Len(s) - i) + 1 \in 1..Len(s) /\ (Len(s) - ((Len(s) - i) + 1)) + 1 = i
      BY <1>1
    <3>2. r[(Len(s) - i) + 1] = s[i]
      BY <3>1, <1>2
    <3> QED  BY <3>1, <3>2, <1>1, InToSet
  <2> QED  BY <2>1, InToSet
<1>5. ASSUME IsInjective(s) PROVE IsInjective(r)
  <2>1. \A i, j \in 1..Len(s) : s[i] = s[j] => i = j
    BY <1>5, InToSet DEF IsInjective
  <2>2. ASSUME NEW i \in 1..Len(s), NEW j \in 1..Len(s), r[i] = r[j] PROVE i = j
    <3>1. s[(Len(s) - i) + 1] = s[(Len(s) - j) + 1]
      BY <2>2, <1>2
    <3>2. (Len(s) - i) + 1 = (Len(s) - j) + 1
      BY <3>1, <2>1, <1>2a
    <3> QED  BY <3>2, <1>1
  <2> QED  BY <2>2, <1>1, InToSet DEF IsInjective
<1> QED  BY <1>1, <1>3, <1>4, <1>5 DEF r

\* The entries of a part of a list are those at the positions it covers.
LEMMA SubSeqRange ==
  ASSUME NEW S, NEW s \in Seq(S), NEW m \in 1..Len(s) + 1, NEW n \in 0..Len(s)
  PROVE  /\ SubSeq(s, m, n) \in Seq(S)
         /\ \A x : x \in ToSet(SubSeq(s, m, n)) <=> \E i \in m..n : s[i] = x
         /\ IsInjective(s) => IsInjective(SubSeq(s, m, n))
<1> DEFINE r == SubSeq(s, m, n)
<1>0. Len(s) \in Nat /\ \A i \in m..n : s[i] \in S
  BY InToSet
<1>1. /\ r \in Seq(S) /\ Len(r) = IF m <= n THEN n - m + 1 ELSE 0
      /\ \A i \in 1..n - m + 1 : r[i] = s[m + i - 1]
  BY <1>0, SubSeqProperties
<1> HIDE DEF r
<1>0a. Len(s) \in Nat /\ m \in Int /\ n \in Int /\ 1 <= m /\ n <= Len(s)
  BY <1>0
<1>0b. \A i \in 1..n - m + 1 : m + i - 1 \in m..n /\ m + i - 1 \in 1..Len(s)
  BY <1>0a
<1>2. 1..Len(r) = 1..n - m + 1
  BY <1>0a, <1>1
<1>3. \A x : x \in ToSet(r) => \E i \in m..n : s[i] = x
  <2>1. ASSUME NEW j \in 1..Len(r) PROVE \E i \in m..n : s[i] = r[j]
    BY <1>0b, <1>1, <1>2
  <2>2. \A x : x \in ToSet(r) <=> \E i \in 1..Len(r) : r[i] = x
    BY <1>1, InToSet
  <2> QED  BY <2>1, <2>2
<1>4. ASSUME NEW i \in m..n PROVE s[i] \in ToSet(r)
  <2>1. i - m + 1 \in 1..n - m + 1 /\ m + (i - m + 1) - 1 = i
    BY <1>0
  <2>2. r[i - m + 1] = s[i]
    BY <2>1, <1>1
  <2> QED  BY <2>1, <2>2, <1>1, <1>2, InToSet
<1>5. ASSUME IsInjective(s) PROVE IsInjective(r)
  <2>1. \A i, j \in 1..Len(s) : s[i] = s[j] => i = j
    BY <1>5, InToSet DEF IsInjective
  <2>2. ASSUME NEW i \in 1..n - m + 1, NEW j \in 1..n - m + 1, r[i] = r[j] PROVE i = j
    <3>1. s[m + i - 1] = s[m + j - 1]
      BY <2>2, <1>1
    <3>2. m + i - 1 = m + j - 1
      BY <3>1, <2>1, <1>0b
    <3> QED  BY <3>2, <1>0a
  <2>3. DOMAIN r = 1..n - m + 1
    BY <1>1, <1>2, InToSet
  <2> QED  BY <2>2, <2>3 DEF IsInjective
<1> QED  BY <1>1, <1>3, <1>4, <1>5 DEF r

\* A list of one entry.
LEMMA SingletonRange ==
  ASSUME NEW S, NEW e \in S
  PROVE  <<e>> \in Seq(S) /\ ToSet(<<e>>) = {e} /\ IsInjective(<<e>>)
<1> DEFINE w == <<e>>
<1>1. w \in Seq(S) /\ Len(w) = 1 /\ w[1] = e
  OBVIOUS
<1>2. \A i : i \in 1..1 <=> i = 1
  OBVIOUS
<1> HIDE DEF w
<1>3. \A x : x \in ToSet(w) <=> x = e
  <2>1. \A x : x \in ToSet(w) <=> \E i \in 1..Len(w) : w[i] = x
    BY <1>1, InToSet
  <2> QED  BY <2>1, <1>1, <1>2
<1>4. IsInjective(w)
  BY <1>1, <1>2, InToSet DEF IsInjective
<1> QED  BY <1>1, <1>3, <1>4 DEF w

\* Taking the first entry off a list leaves all the others, and not the one taken when
\* entries are distinct.
LEMMA HeadTailRange ==
  ASSUME NEW S, NEW s \in Seq(S), s # <<>>
  PROVE  /\ Head(s) \in S /\ Tail(s) \in Seq(S)
         /\ ToSet(s) = ToSet(Tail(s)) \cup {Head(s)}
         /\ IsInjective(s) => IsInjective(Tail(s)) /\ Head(s) \notin ToSet(Tail(s))
<1>1. Len(s) \in Nat /\ 1 <= Len(s) /\ Head(s) = s[1] /\ Head(s) \in S
  BY HeadTailProperties, LenProperties, EmptySeq
<1>2. Tail(s) = SubSeq(s, 2, Len(s))
  BY TailIsSubSeq
<1>2a. 2 \in 1..Len(s) + 1 /\ Len(s) \in 0..Len(s)
  BY <1>1
<1>3. /\ Tail(s) \in Seq(S)
      /\ \A x : x \in ToSet(Tail(s)) <=> \E i \in 2..Len(s) : s[i] = x
      /\ IsInjective(s) => IsInjective(Tail(s))
  <2> DEFINE t == SubSeq(s, 2, Len(s))
  <2>1. /\ t \in Seq(S)
        /\ \A x : x \in ToSet(t) <=> \E i \in 2..Len(s) : s[i] = x
        /\ IsInjective(s) => IsInjective(t)
    BY <1>2a, SubSeqRange
  <2> QED  BY <2>1, <1>2
<1>4. \A x : x \in ToSet(s) <=> x \in ToSet(Tail(s)) \/ x = Head(s)
  BY <1>1, <1>3, InToSet
<1>5. IsInjective(s) => Head(s) \notin ToSet(Tail(s))
  BY <1>1, <1>3, InToSet DEF IsInjective
<1> QED  BY <1>1, <1>3, <1>4, <1>5

\* An insertion at any place of a list adds one entry: the delay list and the waiters
\* of a queue are kept in order that way.
LEMMA InsertAtRange ==
  ASSUME NEW S, NEW s \in Seq(S), NEW e \in S, NEW i \in 1..Len(s) + 1
  PROVE  /\ InsertAt(s, i, e) \in Seq(S)
         /\ ToSet(InsertAt(s, i, e)) = ToSet(s) \cup {e}
         /\ IsInjective(s) /\ e \notin ToSet(s) => IsInjective(InsertAt(s, i, e))
<1> DEFINE a == SubSeq(s, 1, i - 1)
           b == SubSeq(s, i, Len(s))
           w == <<e>>
<1>0. Len(s) \in Nat /\ i - 1 \in 0..Len(s) /\ 1 \in 1..Len(s) + 1 /\ Len(s) \in 0..Len(s)
  BY LenProperties
<1>1. /\ a \in Seq(S) /\ (IsInjective(s) => IsInjective(a))
      /\ \A x : x \in ToSet(a) <=> \E j \in 1..i - 1 : s[j] = x
  BY <1>0, SubSeqRange
<1>2. /\ b \in Seq(S) /\ (IsInjective(s) => IsInjective(b))
      /\ \A x : x \in ToSet(b) <=> \E j \in i..Len(s) : s[j] = x
  BY <1>0, SubSeqRange
<1>3. w \in Seq(S) /\ ToSet(w) = {e} /\ IsInjective(w)
  BY SingletonRange
<1>4. InsertAt(s, i, e) = (a \o w) \o b
  BY DEF InsertAt
<1> HIDE DEF a, b, w
<1>5. /\ a \o w \in Seq(S)
      /\ ToSet(a \o w) = ToSet(a) \cup {e}
      /\ IsInjective(a) /\ e \notin ToSet(a) => IsInjective(a \o w)
  BY <1>1, <1>3, ConcatRange
<1> DEFINE c == a \o w
<1> HIDE DEF c
<1>5a. /\ c \in Seq(S)
       /\ ToSet(c) = ToSet(a) \cup {e}
       /\ IsInjective(a) /\ e \notin ToSet(a) => IsInjective(c)
  BY <1>5 DEF c
<1>6. /\ c \o b \in Seq(S)
      /\ ToSet(c \o b) = ToSet(c) \cup ToSet(b)
      /\ IsInjective(c) /\ IsInjective(b) /\ ToSet(c) \cap ToSet(b) = {} => IsInjective(c \o b)
  BY <1>2, <1>5a, ConcatRange
<1>7. \A x : x \in ToSet(s) <=> x \in ToSet(a) \/ x \in ToSet(b)
  BY <1>0, <1>1, <1>2, InToSet
<1>8. IsInjective(s) => ToSet(a) \cap ToSet(b) = {}
  BY <1>0, <1>1, <1>2, InToSet DEF IsInjective
<1>9. InsertAt(s, i, e) = c \o b
  BY <1>4 DEF c
<1> QED  BY <1>1, <1>2, <1>5a, <1>6, <1>7, <1>8, <1>9

\* LOS_ListDelete takes out no entry but the one named; all of it when entries are
\* distinct.
LEMMA RemoveFirstRange ==
  ASSUME NEW S, NEW s \in Seq(S), NEW e
  PROVE  /\ RemoveFirst(s, e) \in Seq(S)
         /\ ToSet(RemoveFirst(s, e)) \subseteq ToSet(s)
         /\ ToSet(s) \ {e} \subseteq ToSet(RemoveFirst(s, e))
         /\ IsInjective(s) => /\ IsInjective(RemoveFirst(s, e))
                              /\ ToSet(RemoveFirst(s, e)) = ToSet(s) \ {e}
<1>0. Len(s) \in Nat
  BY LenProperties
<1>1. CASE ~ \E j \in 1..Len(s) : s[j] = e
  BY <1>1, InToSet DEF RemoveFirst
<1>2. CASE \E j \in 1..Len(s) : s[j] = e
  <2> DEFINE I == {j \in 1..Len(s) : s[j] = e}
             k == Min(I)
             a == SubSeq(s, 1, k - 1)
             b == SubSeq(s, k + 1, Len(s))
  <2>1. RemoveFirst(s, e) = a \o b
    BY <1>2 DEF RemoveFirst, RemoveAt, SelectInSeq
  <2>2. k \in I
    <3>0. I \in SUBSET Nat /\ I # {}
      BY <1>0, <1>2
    <3> HIDE DEF I
    <3>1. \E m \in I : \A n \in I : m <= n
      BY <3>0, MinExists
    <3> QED  BY <3>1 DEF Min
  <2> HIDE DEF k
  <2>3. k \in 1..Len(s) /\ s[k] = e
    BY <2>2
  <2>4. k - 1 \in 0..Len(s) /\ k + 1 \in 1..Len(s) + 1 /\ 1 \in 1..Len(s) + 1
        /\ Len(s) \in 0..Len(s)
    BY <1>0, <2>3
  <2>5. /\ a \in Seq(S) /\ (IsInjective(s) => IsInjective(a))
        /\ \A x : x \in ToSet(a) <=> \E j \in 1..k - 1 : s[j] = x
    BY <2>4, SubSeqRange
  <2>6. /\ b \in Seq(S) /\ (IsInjective(s) => IsInjective(b))
        /\ \A x : x \in ToSet(b) <=> \E j \in k + 1..Len(s) : s[j] = x
    BY <2>4, SubSeqRange
  <2> HIDE DEF a, b
  <2>7. /\ a \o b \in Seq(S) /\ ToSet(a \o b) = ToSet(a) \cup ToSet(b)
        /\ IsInjective(a) /\ IsInjective(b) /\ ToSet(a) \cap ToSet(b) = {} => IsInjective(a \o b)
    BY <2>5, <2>6, ConcatRange
  <2>8. \A x : x \in ToSet(s) <=> x \in ToSet(a) \/ x \in ToSet(b) \/ x = e
    BY <1>0, <2>3, <2>5, <2>6, InToSet
  <2>9. ASSUME IsInjective(s)
        PROVE  ToSet(a) \cap ToSet(b) = {} /\ e \notin ToSet(a) /\ e \notin ToSet(b)
    <3>1. \A i, j \in 1..Len(s) : s[i] = s[j] => i = j
      BY <2>9, InToSet DEF IsInjective
    <3> QED  BY <3>1, <1>0, <2>3, <2>5, <2>6
  <2> QED  BY <2>1, <2>5, <2>6, <2>7, <2>8, <2>9
<1> QED  BY <1>1, <1>2

\* Where the entries stand after an insertion: those before the place stay, the others
\* move up by one.
LEMMA InsertAtElements ==
  ASSUME NEW S, NEW s \in Seq(S), NEW e \in S, NEW i \in 1..Len(s) + 1
  PROVE  /\ Len(InsertAt(s, i, e)) = Len(s) + 1
         /\ \A j \in 1..Len(s) + 1 :
              InsertAt(s, i, e)[j] = IF j < i THEN s[j] ELSE IF j = i THEN e ELSE s[j - 1]
<1> DEFINE a == SubSeq(s, 1, i - 1)
           b == SubSeq(s, i, Len(s))
           w == <<e>>
<1>0. Len(s) \in Nat /\ i - 1 \in 0..Len(s) /\ 1 \in 1..Len(s) + 1 /\ Len(s) \in 0..Len(s)
  BY LenProperties
<1>1. /\ a \in Seq(S) /\ Len(a) = i - 1 /\ \A j \in 1..i - 1 : a[j] = s[j]
  BY <1>0, SubSeqProperties, SubSeqRange
<1>2. /\ b \in Seq(S) /\ Len(b) = Len(s) + 1 - i /\ \A j \in 1..Len(s) + 1 - i : b[j] = s[i + j - 1]
  BY <1>0, SubSeqProperties, SubSeqRange
<1>3. w \in Seq(S) /\ Len(w) = 1 /\ w[1] = e
  BY SingletonRange
<1>4. InsertAt(s, i, e) = (a \o w) \o b
  BY DEF InsertAt
<1> HIDE DEF a, b, w
<1> DEFINE c == a \o w
           r == c \o b
<1>5. /\ c \in Seq(S) /\ Len(c) = i /\ \A j \in 1..i - 1 : c[j] = a[j]
      /\ c[i] = e
  <2>1. /\ c \in Seq(S) /\ Len(c) = Len(a) + Len(w)
        /\ \A j \in 1..Len(a) + Len(w) : c[j] = IF j <= Len(a) THEN a[j] ELSE w[j - Len(a)]
    BY <1>1, <1>3, ConcatProperties
  <2> HIDE DEF c
  <2> QED  BY <1>0, <1>1, <1>3, <2>1
<1> HIDE DEF c
<1>6. /\ Len(r) = Len(s) + 1 /\ \A j \in 1..i : r[j] = c[j]
      /\ \A j \in i + 1..Len(s) + 1 : r[j] = b[j - i]
  <2>1. /\ Len(r) = Len(c) + Len(b)
        /\ \A j \in 1..Len(c) + Len(b) : r[j] = IF j <= Len(c) THEN c[j] ELSE b[j - Len(c)]
    BY <1>2, <1>5, ConcatProperties
  <2> HIDE DEF r
  <2> QED  BY <1>0, <1>2, <1>5, <2>1
<1>7. InsertAt(s, i, e) = r
  BY <1>4 DEF c
<1> HIDE DEF r
<1>8. \A j \in i + 1..Len(s) + 1 : r[j] = s[j - 1]
  <2> TAKE j \in i + 1..Len(s) + 1
  <2>1. j - i \in 1..Len(s) + 1 - i /\ i + (j - i) - 1 = j - 1
    BY <1>0
  <2>2. b[j - i] = s[i + (j - i) - 1]
    BY <1>2, <2>1
  <2> QED  BY <1>6, <2>1, <2>2
<1> QED  BY <1>0, <1>1, <1>5, <1>6, <1>7, <1>8

\* Where the entries stand after the first occurrence of one was taken out: those behind
\* it move down by one.
LEMMA RemoveFirstElements ==
  ASSUME NEW S, NEW s \in Seq(S), NEW e \in ToSet(s)
  PROVE  \E k \in 1..Len(s) :
           /\ s[k] = e /\ \A j \in 1..k - 1 : s[j] # e
           /\ Len(RemoveFirst(s, e)) = Len(s) - 1
           /\ \A j \in 1..Len(s) - 1 :
                RemoveFirst(s, e)[j] = IF j < k THEN s[j] ELSE s[j + 1]
<1> DEFINE I == {j \in 1..Len(s) : s[j] = e}
           k == Min(I)
           a == SubSeq(s, 1, k - 1)
           b == SubSeq(s, k + 1, Len(s))
<1>0. Len(s) \in Nat /\ \E j \in 1..Len(s) : s[j] = e
  BY InToSet
<1>1. RemoveFirst(s, e) = a \o b
  BY <1>0 DEF RemoveFirst, RemoveAt, SelectInSeq
<1>2. k \in I /\ \A n \in I : k <= n
  <2>0. I \in SUBSET Nat /\ I # {}
    BY <1>0
  <2> HIDE DEF I
  <2>1. \E m \in I : \A n \in I : m <= n
    BY <2>0, MinExists
  <2> QED  BY <2>1 DEF Min
<1> HIDE DEF k
<1>3. k \in 1..Len(s) /\ s[k] = e /\ \A j \in 1..k - 1 : s[j] # e
  <2>1. k \in 1..Len(s) /\ s[k] = e
    BY <1>2
  <2>2. ASSUME NEW j \in 1..k - 1, s[j] = e PROVE FALSE
    <3>1. j \in I
      BY <1>0, <2>1, <2>2
    <3> HIDE DEF I
    <3> QED  BY <1>0, <1>2, <2>1, <2>2, <3>1
  <2> QED  BY <2>1, <2>2
<1>4. k - 1 \in 0..Len(s) /\ k + 1 \in 1..Len(s) + 1 /\ 1 \in 1..Len(s) + 1
      /\ Len(s) \in 0..Len(s)
  BY <1>0, <1>3
<1>5. a \in Seq(S) /\ Len(a) = k - 1 /\ \A j \in 1..k - 1 : a[j] = s[j]
  BY <1>0, <1>3, <1>4, SubSeqProperties, SubSeqRange
<1>6. b \in Seq(S) /\ Len(b) = Len(s) - k /\ \A j \in 1..Len(s) - k : b[j] = s[k + j]
  <2>1. b \in Seq(S)
    BY <1>4, SubSeqRange
  <2>2. \A i \in k + 1..Len(s) : i \in 1..Len(s)
    BY <1>0, <1>3
  <2>3. Len(b) = IF k + 1 <= Len(s) THEN Len(s) - (k + 1) + 1 ELSE 0
    BY <1>0, <1>3, <2>2, SubSeqProperties
  <2>4. \A j \in 1..Len(s) - (k + 1) + 1 : b[j] = s[k + 1 + j - 1]
    BY <1>0, <1>3, <2>2, SubSeqProperties
  <2> QED  BY <1>0, <1>3, <2>1, <2>3, <2>4
<1> HIDE DEF a, b
<1> DEFINE r == a \o b
<1>7. /\ Len(r) = Len(s) - 1 /\ \A j \in 1..k - 1 : r[j] = a[j]
      /\ \A j \in k..Len(s) - 1 : r[j] = b[j - k + 1]
  <2>1. /\ Len(r) = Len(a) + Len(b)
        /\ \A j \in 1..Len(a) + Len(b) : r[j] = IF j <= Len(a) THEN a[j] ELSE b[j - Len(a)]
    BY <1>5, <1>6, ConcatProperties
  <2> HIDE DEF r
  <2>2. Len(s) \in Nat /\ k \in 1..Len(s) /\ Len(a) = k - 1 /\ Len(b) = Len(s) - k
    BY <1>0, <1>3, <1>5, <1>6
  <2>3. Len(r) = Len(s) - 1
    BY <2>1, <2>2
  <2>4. \A j \in 1..k - 1 : r[j] = a[j]
    BY <2>1, <2>2
  <2>5. ASSUME NEW j \in k..Len(s) - 1 PROVE r[j] = b[j - k + 1]
    <3>1. j \in 1..Len(a) + Len(b) /\ ~(j <= Len(a)) /\ j - Len(a) = j - k + 1
      BY <2>2
    <3> QED  BY <2>1, <3>1
  <2> QED  BY <2>3, <2>4, <2>5
<1>8. RemoveFirst(s, e) = r
  BY <1>1
<1> HIDE DEF r
<1>9. \A j \in k..Len(s) - 1 : r[j] = s[j + 1]
  <2> TAKE j \in k..Len(s) - 1
  <2>1. j - k + 1 \in 1..Len(s) - k /\ k + (j - k + 1) = j + 1
    BY <1>0, <1>3
  <2>2. b[j - k + 1] = s[k + (j - k + 1)]
    BY <1>6, <2>1
  <2> QED  BY <1>7, <2>1, <2>2
<1>10. \A j \in 1..Len(s) - 1 : r[j] = IF j < k THEN s[j] ELSE s[j + 1]
  BY <1>0, <1>3, <1>5, <1>7, <1>9
<1> QED  BY <1>3, <1>7, <1>8, <1>10

\* A removal leaves the first entry of a sequence unless it removes it.
LEMMA RemoveFirstHead ==
  ASSUME NEW S, NEW s \in Seq(S), NEW e
  PROVE  /\ RemoveFirst(s, e) # <<>> => s # <<>>
         /\ s # <<>> /\ Head(s) # e =>
              RemoveFirst(s, e) # <<>> /\ Head(RemoveFirst(s, e)) = Head(s)
<1>1. CASE e \notin ToSet(s)
  <2>1. ~ \E j \in 1..Len(s) : s[j] = e
    BY <1>1, InToSet
  <2> QED  BY <2>1 DEF RemoveFirst
<1>2. CASE e \in ToSet(s)
  <2> DEFINE r == RemoveFirst(s, e)
  <2>1. PICK k \in 1..Len(s) :
          /\ s[k] = e /\ Len(r) = Len(s) - 1
          /\ \A j \in 1..Len(s) - 1 : r[j] = IF j < k THEN s[j] ELSE s[j + 1]
    BY <1>2, RemoveFirstElements
  <2>2. r \in Seq(S)
    BY RemoveFirstRange
  <2> HIDE DEF r
  <2>3. Len(s) \in Nat /\ s # <<>> /\ Head(s) = s[1]
    BY <2>1
  <2>4. ASSUME Head(s) # e PROVE r # <<>> /\ Head(r) = Head(s)
    <3>1. k > 1 /\ 1 \in 1..Len(s) - 1
      BY <2>1, <2>3, <2>4
    <3>2. Len(r) > 0 /\ r[1] = s[1]
      BY <2>1, <2>3, <3>1
    <3> QED  BY <2>2, <2>3, <3>2
  <2> QED  BY <2>3, <2>4 DEF r
<1> QED  BY <1>1, <1>2
-----------------------------------------------------------------------------
(* Lists of differences: two lists whose counts agree over a stretch have    *)
(* sums that differ by a constant over it (AheadSame).                       *)

\* A set that has m, and with each number the next one up to n, has all of m..n.
LEMMA UpTo ==
  ASSUME NEW m \in Nat, NEW n \in Nat, NEW S, m <= n => m \in S,
         \A i \in m..n : i < n /\ i \in S => i + 1 \in S
  PROVE  m..n \subseteq S
<1> DEFINE Bad == {i \in m..n : i \notin S}
<1>1. SUFFICES ASSUME Bad # {} PROVE FALSE
  OBVIOUS
<1>2. PICK k \in Bad : \A i \in Bad : k <= i
  <2>1. Bad \in SUBSET Nat
    OBVIOUS
  <2> HIDE DEF Bad
  <2> QED  BY <1>1, <2>1, MinExists
<1>3. k \in m..n /\ k \notin S /\ k # m
  BY <1>2
<1>4. k - 1 \in m..n /\ k - 1 \notin Bad /\ k - 1 < n /\ (k - 1) + 1 = k
  BY <1>2, <1>3
<1> QED  BY <1>3, <1>4

\* A number has one remainder.
LEMMA ModUnique ==
  ASSUME NEW L \in Nat \ {0}, NEW q \in Int, NEW r \in 0..L - 1
  PROVE  (L * q + r) % L = r
<1>1. PICK a \in Int : a = L * q + r
  OBVIOUS
<1> DEFINE p == a \div L
           s == a % L
<1>2. p \in Int /\ s \in 0..L - 1 /\ a = L * p + s
  OBVIOUS
<1> HIDE DEF p, s
<1>3. L * (q - p) = s - r
  BY <1>1, <1>2
<1>4. CASE q - p >= 1
  <2>1. L * (q - p) >= L
    BY <1>2, <1>4
  <2> QED  BY <1>2, <1>3, <2>1
<1>5. CASE q - p <= -1
  <2>1. L * (p - q) >= L
    BY <1>2, <1>5
  <2>2. L * (p - q) = r - s
    BY <1>2, <1>3
  <2> QED  BY <1>2, <2>1, <2>2
<1>6. CASE q = p
  <2>1. L * (q - p) = 0
    BY <1>2, <1>6
  <2> QED  BY <1>1, <1>2, <1>3, <2>1 DEF s
<1> QED  BY <1>2, <1>4, <1>5, <1>6

\* f has the sums of the first n counts.
Sums(Q, C, n, f) == f = [k \in 0..n |-> IF k = 0 THEN 0 ELSE f[k - 1] + C[Q[k]]]

\* There is such a function, for any list of any length.
LEMMA SumsDefined ==
  ASSUME NEW Q, NEW C, NEW m \in Nat
  PROVE  \E f : Sums(Q, C, m, f)
<1> DEFINE S == {n \in Nat : \E f : Sums(Q, C, n, f)}
<1>1. 0 \in S
  <2>1. Sums(Q, C, 0, [i \in 0..0 |-> 0])
    BY DEF Sums
  <2> QED  BY <2>1
<1>2. ASSUME NEW n \in 0..m, n \in S PROVE n + 1 \in S
  <2>1. PICK f : Sums(Q, C, n, f)
    BY <1>2
  <2> DEFINE last == f[n] + C[Q[n + 1]]
             g == [i \in 0..n + 1 |-> IF i = n + 1 THEN last ELSE f[i]]
  <2>2. \A i \in 0..n : g[i] = f[i]
    OBVIOUS
  <2>3. g[n + 1] = last /\ g = [i \in 0..n + 1 |-> g[i]]
    OBVIOUS
  <2>4. \A i \in 0..n : f[i] = IF i = 0 THEN 0 ELSE f[i - 1] + C[Q[i]]
    BY <2>1 DEF Sums
  <2> HIDE DEF g
  <2>5. ASSUME NEW i \in 0..n + 1
        PROVE  g[i] = IF i = 0 THEN 0 ELSE g[i - 1] + C[Q[i]]
    <3>1. CASE i = n + 1
      <4>1. i # 0 /\ i - 1 = n /\ n \in 0..n
        BY <3>1
      <4>2. g[i - 1] = f[n] /\ g[i] = last
        BY <2>2, <2>3, <3>1, <4>1
      <4> QED  BY <3>1, <4>1, <4>2
    <3>2. CASE i = 0
      BY <2>2, <2>4, <3>2
    <3>3. CASE i # n + 1 /\ i # 0
      <4>1. i \in 0..n /\ i - 1 \in 0..n
        BY <3>3
      <4> QED  BY <2>2, <2>4, <3>3, <4>1
    <3> QED  BY <3>1, <3>2, <3>3
  <2>6. g = [i \in 0..n + 1 |-> IF i = 0 THEN 0 ELSE g[i - 1] + C[Q[i]]]
    BY <2>3, <2>5, Zenon
  <2>7. Sums(Q, C, n + 1, g)
    BY <2>6 DEF Sums
  <2> QED  BY <2>7
<1> HIDE DEF S
<1>3. 0..m \subseteq S
  BY <1>1, <1>2, UpTo
<1>4. m \in S
  BY <1>3
<1> QED  BY <1>4 DEF S

\* The recursion of Ahead.
LEMMA AheadIs ==
  ASSUME NEW Q, NEW C, NEW n \in Nat
  PROVE  /\ Ahead(Q, C, 0) = 0
         /\ \A i \in 1..n : Ahead(Q, C, i) = Ahead(Q, C, i - 1) + C[Q[i]]
<1> DEFINE F(i) == CHOOSE f : Sums(Q, C, i, f)
<1>1. ASSUME NEW i \in Nat PROVE Sums(Q, C, i, F(i)) /\ Ahead(Q, C, i) = F(i)[i]
  <2>1. Sums(Q, C, i, F(i))
    BY SumsDefined
  <2>2. Ahead(Q, C, i) = F(i)[i]
    BY DEF Ahead, Sums
  <2> QED  BY <2>1, <2>2
<1> HIDE DEF F
<1>2. ASSUME NEW i \in Nat, NEW k \in 0..i
      PROVE  F(i)[k] = IF k = 0 THEN 0 ELSE F(i)[k - 1] + C[Q[k]]
  BY <1>1 DEF Sums
<1>3. Ahead(Q, C, 0) = 0
  <2>1. 0 \in Nat /\ 0 \in 0..0
    OBVIOUS
  <2>2. F(0)[0] = 0
    BY <1>2, <2>1, Zenon
  <2> QED  BY <1>1, <2>1, <2>2
<1>4. ASSUME NEW i \in 1..n PROVE Ahead(Q, C, i) = Ahead(Q, C, i - 1) + C[Q[i]]
  <2> DEFINE S == {k \in 0..i - 1 : F(i)[k] = F(i - 1)[k]}
  <2>1. i \in Nat /\ i - 1 \in Nat /\ i # 0 /\ i \in 0..i
    OBVIOUS
  <2>2. 0 \in S
    BY <1>2, <2>1
  <2>3. ASSUME NEW k \in 0..i - 1, k < i - 1, k \in S PROVE k + 1 \in S
    <3>1. k + 1 \in 0..i /\ k + 1 \in 0..i - 1 /\ k + 1 # 0 /\ (k + 1) - 1 = k
      BY <2>1, <2>3
    <3>2. F(i)[k + 1] = F(i)[k] + C[Q[k + 1]]
      BY <1>2, <2>1, <3>1
    <3>3. F(i - 1)[k + 1] = F(i - 1)[k] + C[Q[k + 1]]
      BY <1>2, <2>1, <3>1
    <3> QED  BY <2>3, <3>1, <3>2, <3>3
  <2> HIDE DEF S
  <2>4. 0..i - 1 \subseteq S
    BY <2>1, <2>2, <2>3, UpTo
  <2>5. F(i)[i - 1] = F(i - 1)[i - 1]
    BY <2>1, <2>4 DEF S
  <2>6. F(i)[i] = F(i)[i - 1] + C[Q[i]]
    BY <1>2, <2>1
  <2> QED  BY <1>1, <2>1, <2>5, <2>6
<1> QED  BY <1>3, <1>4
\* Sums of numbers are numbers.
LEMMA AheadType ==
  ASSUME NEW T, NEW Q \in Seq(T), NEW C \in [T -> Int]
  PROVE  \A i \in 0..Len(Q) : Ahead(Q, C, i) \in Int
<1> DEFINE S == {i \in 0..Len(Q) : Ahead(Q, C, i) \in Int}
<1>0. Len(Q) \in Nat /\ \A i \in 1..Len(Q) : C[Q[i]] \in Int
  BY InToSet
<1>1. 0 \in S
  BY <1>0, AheadIs
<1>2. ASSUME NEW i \in 0..Len(Q), i < Len(Q), i \in S PROVE i + 1 \in S
  <2>1. i + 1 \in 1..Len(Q) /\ (i + 1) - 1 = i /\ Ahead(Q, C, i) \in Int
    BY <1>0, <1>2
  <2>2. Ahead(Q, C, i + 1) = Ahead(Q, C, i) + C[Q[i + 1]]
    BY <1>0, <2>1, AheadIs
  <2> QED  BY <1>0, <2>1, <2>2
<1> HIDE DEF S
<1>3. 0..Len(Q) \subseteq S
  BY <1>0, <1>1, <1>2, UpTo
<1> QED  BY <1>3 DEF S

\* From entry m of Q to entry n the counts C are those D of R, d places on.
SameCounts(Q, C, R, D, m, n, d) ==
  /\ n <= Len(Q) /\ m + d >= 0 /\ n + d <= Len(R)
  /\ \A i \in m + 1..n : D[R[i + d]] = C[Q[i]]

\* The sums differ by e there.
SameSums(Q, C, R, D, m, n, d, e) ==
  \A i \in m..n : Ahead(R, D, i + d) = Ahead(Q, C, i) + e

\* Sums that differ by e once do so as long as the counts are the same.
LEMMA AheadSame ==
  ASSUME NEW T, NEW Q \in Seq(T), NEW C \in [T -> Int],
         NEW R \in Seq(T), NEW D \in [T -> Int],
         NEW m \in Nat, NEW n \in Int, NEW d \in Int, NEW e \in Int,
         SameCounts(Q, C, R, D, m, n, d), Ahead(R, D, m + d) = Ahead(Q, C, m) + e
  PROVE  SameSums(Q, C, R, D, m, n, d, e)
<1>0. /\ Len(Q) \in Nat /\ Len(R) \in Nat /\ \A i \in 1..Len(Q) : C[Q[i]] \in Int
      /\ n <= Len(Q) /\ m + d >= 0 /\ n + d <= Len(R)
      /\ \A i \in m + 1..n : D[R[i + d]] = C[Q[i]]
  BY InToSet DEF SameCounts
<1>1. /\ \A j \in 1..Len(Q) : Ahead(Q, C, j) = Ahead(Q, C, j - 1) + C[Q[j]]
      /\ \A j \in 1..Len(R) : Ahead(R, D, j) = Ahead(R, D, j - 1) + D[R[j]]
  BY <1>0, AheadIs
<1>2. ASSUME NEW i \in m..n, i < n, Ahead(R, D, i + d) = Ahead(Q, C, i) + e
      PROVE  i + 1 \in m..n /\ Ahead(R, D, (i + 1) + d) = Ahead(Q, C, i + 1) + e
  <2>0. n <= Len(Q) /\ Len(Q) \in Nat
    BY <1>0
  <2>1. /\ i + 1 \in m + 1..n /\ i + 1 \in 1..Len(Q) /\ (i + 1) - 1 = i /\ i \in 0..Len(Q)
        /\ i + 1 \in m..n
    BY <1>2, <2>0
  <2>2. i + d \in 0..Len(R) /\ (i + 1) + d \in 1..Len(R) /\ ((i + 1) + d) - 1 = i + d
    <3>1. m + d >= 0 /\ n + d <= Len(R) /\ Len(R) \in Nat
      BY <1>0
    <3>2. m <= i /\ i < n /\ i \in Int
      BY <1>2
    <3> QED  BY <3>1, <3>2
  <2>3. Ahead(Q, C, i + 1) = Ahead(Q, C, i) + C[Q[i + 1]]
    BY <1>1, <2>1
  <2>4. Ahead(R, D, (i + 1) + d) = Ahead(R, D, i + d) + D[R[(i + 1) + d]]
    BY <1>1, <2>2
  <2>5. D[R[(i + 1) + d]] = C[Q[i + 1]] /\ C[Q[i + 1]] \in Int
    BY <1>0, <2>1
  <2>6. Ahead(Q, C, i) \in Int /\ Ahead(R, D, i + d) \in Int
    BY <2>1, <2>2, AheadType
  <2>7. Ahead(R, D, (i + 1) + d) = (Ahead(Q, C, i) + e) + C[Q[i + 1]]
    BY <1>2, <2>4, <2>5, Zenon
  <2>8. \A a, c \in Int : (a + e) + c = (a + c) + e
    OBVIOUS
  <2>9. Ahead(R, D, (i + 1) + d) = (Ahead(Q, C, i) + C[Q[i + 1]]) + e
    BY <2>5, <2>6, <2>7, <2>8, Zenon
  <2> QED  BY <2>1, <2>3, <2>9, Zenon
<1> DEFINE S == {i \in m..n : Ahead(R, D, i + d) = Ahead(Q, C, i) + e}
<1>3. CASE n \in Nat
  <2>1. m <= n => m \in S
    OBVIOUS
  <2>2. \A i \in m..n : i < n /\ i \in S => i + 1 \in S
    BY <1>2
  <2> HIDE DEF S
  <2>3. m..n \subseteq S
    BY <1>3, <2>1, <2>2, UpTo
  <2> QED  BY <2>3 DEF S, SameSums
<1>4. CASE n \notin Nat
  BY <1>4 DEF SameSums
<1> QED  BY <1>3, <1>4

\* What the entries of a list wait, by their places and the counts.
LeftOf(T, Q, C) ==
  [t \in T |-> IF t \in ToSet(Q) THEN Ahead(Q, C, CHOOSE i \in DOMAIN Q : Q[i] = t) ELSE 0]

\* What LeftOf is, entry by entry.
LEMMA LeftIs ==
  ASSUME NEW T, NEW Q \in Seq(T), IsInjective(Q), NEW C \in [T -> Int]
  PROVE  /\ LeftOf(T, Q, C) \in [T -> Int]
         /\ \A i \in 1..Len(Q) : LeftOf(T, Q, C)[Q[i]] = Ahead(Q, C, i)
         /\ \A t \in T \ ToSet(Q) : LeftOf(T, Q, C)[t] = 0
<1>0. /\ Len(Q) \in Nat /\ DOMAIN Q = 1..Len(Q)
      /\ \A i \in 1..Len(Q) : Q[i] \in T /\ Q[i] \in ToSet(Q)
      /\ \A t : t \in ToSet(Q) <=> \E i \in 1..Len(Q) : Q[i] = t
  BY InToSet
<1>1. ASSUME NEW i \in 1..Len(Q) PROVE (CHOOSE k \in DOMAIN Q : Q[k] = Q[i]) = i
  BY <1>0 DEF IsInjective
<1>2. ASSUME NEW i \in 1..Len(Q)
      PROVE  LeftOf(T, Q, C)[Q[i]] = Ahead(Q, C, i) /\ Ahead(Q, C, i) \in Int
  <2>1. LeftOf(T, Q, C)[Q[i]] = Ahead(Q, C, CHOOSE k \in DOMAIN Q : Q[k] = Q[i])
    BY <1>0 DEF LeftOf
  <2>2. i \in 0..Len(Q)
    OBVIOUS
  <2> QED  BY <1>1, <2>1, <2>2, AheadType
<1>3. ASSUME NEW t \in T, t \notin ToSet(Q) PROVE LeftOf(T, Q, C)[t] = 0
  BY <1>3 DEF LeftOf
<1>4. \A t \in T : LeftOf(T, Q, C)[t] \in Int
  <2> TAKE t \in T
  <2>1. CASE t \in ToSet(Q)
    BY <1>0, <1>2, <2>1
  <2>2. CASE t \notin ToSet(Q)
    BY <1>3, <2>2
  <2> QED  BY <2>1, <2>2
<1>5. LeftOf(T, Q, C) = [t \in T |-> LeftOf(T, Q, C)[t]]
  BY DEF LeftOf
<1> QED  BY <1>2, <1>3, <1>4, <1>5

\* No entry of the list was passed over, and the first has to wait on.
CountsFit(Q, C) == \A i \in 1..Len(Q) : C[Q[i]] >= 0
HeadWaits(Q, C) == Q # <<>> => C[Head(Q)] > 0

\* Who stands further behind waits no less.
LEMMA AheadGrows ==
  ASSUME NEW T, NEW Q \in Seq(T), NEW C \in [T -> Int], CountsFit(Q, C),
         NEW k \in 0..Len(Q), NEW i \in k..Len(Q)
  PROVE  Ahead(Q, C, k) <= Ahead(Q, C, i)
<1>0. Len(Q) \in Nat /\ \A j \in 1..Len(Q) : C[Q[j]] \in Int /\ C[Q[j]] >= 0
  BY InToSet DEF CountsFit
<1>2. ASSUME NEW j \in k..Len(Q), j < Len(Q), Ahead(Q, C, k) <= Ahead(Q, C, j)
      PROVE  j + 1 \in k..Len(Q) /\ Ahead(Q, C, k) <= Ahead(Q, C, j + 1)
  <2>1. j + 1 \in 1..Len(Q) /\ (j + 1) - 1 = j /\ j \in 0..Len(Q) /\ j + 1 \in k..Len(Q)
    BY <1>0, <1>2
  <2>2. Ahead(Q, C, j + 1) = Ahead(Q, C, j) + C[Q[j + 1]]
    BY <1>0, <2>1, AheadIs
  <2>3. Ahead(Q, C, j) \in Int /\ Ahead(Q, C, k) \in Int
    BY <2>1, AheadType
  <2> QED  BY <1>0, <1>2, <2>1, <2>2, <2>3
<1> DEFINE S == {j \in k..Len(Q) : Ahead(Q, C, k) <= Ahead(Q, C, j)}
<1>3. k \in S /\ k \in Nat
  BY <1>0, AheadType
<1>4. \A j \in k..Len(Q) : j < Len(Q) /\ j \in S => j + 1 \in S
  BY <1>2
<1> HIDE DEF S
<1>5. k..Len(Q) \subseteq S
  BY <1>0, <1>3, <1>4, UpTo
<1> QED  BY <1>5 DEF S

\* A list that holds no entry twice.
LEMMA Entries ==
  ASSUME NEW T, NEW Q \in Seq(T), IsInjective(Q), NEW C \in [T -> Int], CountsFit(Q, C)
  PROVE  /\ Len(Q) \in Nat /\ DOMAIN Q = 1..Len(Q) /\ ToSet(Q) \subseteq T
         /\ \A i \in 1..Len(Q) : Q[i] \in T /\ C[Q[i]] \in Int
         /\ \A i \in 0..Len(Q) : Ahead(Q, C, i) \in Int
         /\ \A i, j \in 1..Len(Q) : Q[i] = Q[j] => i = j
         /\ \A i \in 1..Len(Q) : C[Q[i]] >= 0
<1>1. /\ Len(Q) \in Nat /\ DOMAIN Q = 1..Len(Q) /\ ToSet(Q) \subseteq T
      /\ \A i \in 1..Len(Q) : Q[i] \in T
  BY InToSet
<1>2. \A i \in 1..Len(Q) : C[Q[i]] \in Int
  BY <1>1
<1>3. \A i, j \in 1..Len(Q) : Q[i] = Q[j] => i = j
  BY <1>1 DEF IsInjective
<1>4. \A i \in 0..Len(Q) : Ahead(Q, C, i) \in Int
  BY AheadType
<1> QED  BY <1>1, <1>2, <1>3, <1>4 DEF CountsFit

\* Who is on the list waits for its first entry at least.
LEMMA AllWait ==
  ASSUME NEW T, NEW Q \in Seq(T), IsInjective(Q), NEW C \in [T -> Int], CountsFit(Q, C),
         HeadWaits(Q, C), NEW t \in ToSet(Q)
  PROVE  LeftOf(T, Q, C)[t] > 0
<1>0. /\ Len(Q) \in Nat /\ Q # <<>> /\ 1 \in 1..Len(Q) /\ Head(Q) = Q[1]
      /\ C[Q[1]] \in Int /\ C[Q[1]] > 0
  BY InToSet DEF HeadWaits
<1>1. PICK i \in 1..Len(Q) : Q[i] = t
  BY InToSet
<1>2. LeftOf(T, Q, C)[t] = Ahead(Q, C, i)
  BY <1>1, LeftIs
<1>3. Ahead(Q, C, 1) = C[Q[1]]
  <2>1. Ahead(Q, C, 0) = 0 /\ Ahead(Q, C, 1) = Ahead(Q, C, 1 - 1) + C[Q[1]] /\ 1 - 1 = 0
    BY <1>0, AheadIs
  <2> QED  BY <1>0, <2>1
<1>4. Ahead(Q, C, 1) <= Ahead(Q, C, i)
  <2>1. 1 \in 0..Len(Q) /\ i \in 1..Len(Q)
    BY <1>0, <1>1
  <2> QED  BY <2>1, AheadGrows
<1>5. Ahead(Q, C, i) \in Int
  BY <1>0, <1>1, AheadType
<1> QED  BY <1>0, <1>2, <1>3, <1>4, <1>5

\* The place of a new entry: those before it wait no longer than it, those behind it
\* longer.
LEMMA PlaceIs ==
  ASSUME NEW T, NEW Q \in Seq(T), NEW C \in [T -> Int], CountsFit(Q, C), NEW n \in Nat
  PROVE  LET k == PlaceFor(Q, C, n) IN
         /\ k \in 1..Len(Q) + 1
         /\ Ahead(Q, C, k - 1) <= n
         /\ k <= Len(Q) => Ahead(Q, C, k) > n
<1> DEFINE I == {i \in DOMAIN Q : Ahead(Q, C, i) <= n}
           B == {i \in 1..Len(Q) + 1 : i \notin I}
<1>0. DOMAIN Q = 1..Len(Q) /\ Len(Q) \in Nat /\ \A i \in 0..Len(Q) : Ahead(Q, C, i) \in Int
  BY InToSet, AheadType
<1>1. \E m \in B : \A i \in B : m <= i
  <2>1. B \in SUBSET Nat /\ Len(Q) + 1 \in B
    BY <1>0
  <2> HIDE DEF B
  <2> QED  BY <2>1, MinExists
<1>2. PICK m \in 1..Len(Q) + 1 : m \notin I /\ \A i \in 1..Len(Q) + 1 : i \notin I => m <= i
  BY <1>1
<1>3. I = 1..m - 1
  <2>1. ASSUME NEW i \in 1..m - 1 PROVE i \in I
    BY <1>0, <1>2, <2>1
  <2>2. ASSUME NEW i \in I PROVE i \in 1..m - 1
    <3>1. i \in 1..Len(Q) /\ Ahead(Q, C, i) <= n
      BY <1>0
    <3>2. CASE m <= i
      <4>1. m \in 0..Len(Q) /\ i \in m..Len(Q) /\ m \in DOMAIN Q
        BY <1>0, <1>2, <3>1, <3>2
      <4>2. Ahead(Q, C, m) <= Ahead(Q, C, i)
        BY <4>1, AheadGrows
      <4>3. Ahead(Q, C, m) \in Int /\ Ahead(Q, C, i) \in Int
        BY <1>0, <3>1, <4>1
      <4> QED  BY <1>2, <3>1, <4>1, <4>2, <4>3
    <3> QED  BY <1>0, <1>2, <3>1, <3>2
  <2> QED  BY <2>1, <2>2
<1>4. Ahead(Q, C, m - 1) <= n
  <2>1. CASE m = 1
    BY <2>1, AheadIs
  <2>2. CASE m # 1
    <3>1. m - 1 \in I
      BY <1>2, <1>3, <2>2
    <3> QED  BY <3>1
  <2> QED  BY <2>1, <2>2
<1>5. m <= Len(Q) => Ahead(Q, C, m) > n
  <2> SUFFICES ASSUME m <= Len(Q) PROVE Ahead(Q, C, m) > n
    OBVIOUS
  <2>1. m \in DOMAIN Q /\ m \in 0..Len(Q)
    BY <1>0, <1>2
  <2> QED  BY <1>0, <1>2, <2>1
<1> HIDE DEF I, B
<1>6. Cardinality(I) = m - 1
  <2>1. m - 1 \in Nat /\ 1 \in Int
    BY <1>0, <1>2
  <2> QED  BY <1>3, <2>1, FS_Interval
<1>7. PlaceFor(Q, C, n) = m
  <2>1. 1 + Cardinality(I) = m
    BY <1>0, <1>2, <1>6
  <2> QED  BY <2>1 DEF PlaceFor, I
<1> QED  BY <1>2, <1>4, <1>5, <1>7

\* An entry put on to wait n waits n, every other as long as before.
LEMMA StartLeft ==
  ASSUME NEW T, NEW Q \in Seq(T), IsInjective(Q), NEW C \in [T -> Int], CountsFit(Q, C),
         NEW t \in T \ ToSet(Q), NEW n \in Nat
  PROVE  LET k == PlaceFor(Q, C, n)
             R == InsertAt(Q, k, t)
             D == CountsPut(Q, C, t, n, k)
         IN /\ R \in Seq(T) /\ IsInjective(R) /\ ToSet(R) = ToSet(Q) \cup {t}
            /\ D \in [T -> Int] /\ CountsFit(R, D)
            /\ n > 0 /\ HeadWaits(Q, C) => HeadWaits(R, D)
            /\ LeftOf(T, R, D) = [LeftOf(T, Q, C) EXCEPT ![t] = n]
<1> DEFINE k == PlaceFor(Q, C, n)
           R == InsertAt(Q, k, t)
           D == CountsPut(Q, C, t, n, k)
           c == n - Ahead(Q, C, k - 1)
<1>0. /\ Len(Q) \in Nat /\ \A i \in 1..Len(Q) : Q[i] \in T /\ Q[i] # t /\ C[Q[i]] \in Int
      /\ \A i \in 0..Len(Q) : Ahead(Q, C, i) \in Int
      /\ \A i, j \in 1..Len(Q) : Q[i] = Q[j] => i = j
      /\ \A i \in 1..Len(Q) : C[Q[i]] >= 0
  <2>1. \A i \in 1..Len(Q) : Q[i] # t
    BY InToSet
  <2> QED  BY <2>1, Entries
<1>1. k \in 1..Len(Q) + 1 /\ Ahead(Q, C, k - 1) <= n /\ (k <= Len(Q) => Ahead(Q, C, k) > n)
  BY PlaceIs
<1> HIDE DEF k
<1>2. c \in Nat /\ c = n - Ahead(Q, C, k - 1)
  <2>1. k - 1 \in 0..Len(Q)
    BY <1>0, <1>1
  <2> QED  BY <1>0, <1>1, <2>1
<1> HIDE DEF c
<1>3. /\ R \in Seq(T) /\ IsInjective(R) /\ ToSet(R) = ToSet(Q) \cup {t}
      /\ Len(R) = Len(Q) + 1
      /\ \A j \in 1..Len(Q) + 1 : R[j] = IF j < k THEN Q[j] ELSE IF j = k THEN t ELSE Q[j - 1]
  BY <1>1, InsertAtRange, InsertAtElements
<1>4. /\ D \in [T -> Int] /\ D[t] = c
      /\ \A i \in 1..Len(Q) : D[Q[i]] = IF i = k THEN C[Q[i]] - c ELSE C[Q[i]]
  <2>1. CASE k > Len(Q)
    <3>1. D = [C EXCEPT ![t] = c]
      BY <2>1 DEF CountsPut, c
    <3> HIDE DEF D
    <3> QED  BY <1>0, <1>2, <2>1, <3>1
  <2>2. CASE k <= Len(Q)
    <3>1. k \in 1..Len(Q) /\ ~(k > Len(Q))
      BY <1>0, <1>1, <2>2
    <3>2. D = [C EXCEPT ![t] = c, ![Q[k]] = @ - c]
      BY <3>1 DEF CountsPut, c
    <3> HIDE DEF D
    <3>3. D = [u \in T |-> IF u = Q[k] THEN C[Q[k]] - c ELSE IF u = t THEN c ELSE C[u]]
      BY <1>0, <3>1, <3>2
    <3> QED  BY <1>0, <1>2, <3>1, <3>3
  <2> QED  BY <1>0, <1>1, <2>1, <2>2
<1> HIDE DEF R, D
<1>a. ASSUME NEW j \in 1..Len(Q), j < k
      PROVE  j \in 1..Len(R) /\ R[j] = Q[j] /\ D[R[j]] = C[Q[j]]
  <2>1. j \in 1..Len(Q) + 1 /\ j # k
    BY <1>0, <1>1, <1>a
  <2> QED  BY <1>0, <1>3, <1>4, <1>a, <2>1
<1>b. k \in 1..Len(R) /\ R[k] = t /\ D[R[k]] = c
  BY <1>0, <1>1, <1>3, <1>4
<1>c. ASSUME NEW j \in 1..Len(Q), j >= k
      PROVE  /\ j + 1 \in 1..Len(R) /\ R[j + 1] = Q[j]
             /\ D[R[j + 1]] = IF j = k THEN C[Q[j]] - c ELSE C[Q[j]]
  <2>1. j + 1 \in 1..Len(Q) + 1 /\ ~(j + 1 < k) /\ j + 1 # k /\ (j + 1) - 1 = j
    BY <1>0, <1>1, <1>c
  <2>2. R[j + 1] = Q[j]
    BY <1>3, <2>1
  <2>3. D[Q[j]] = IF j = k THEN C[Q[j]] - c ELSE C[Q[j]]
    BY <1>4
  <2>4. j + 1 \in 1..Len(R)
    BY <1>0, <1>3
  <2> QED  BY <2>2, <2>3, <2>4
<1>d. /\ \A j \in 1..Len(Q) : Ahead(Q, C, j) = Ahead(Q, C, j - 1) + C[Q[j]]
      /\ \A j \in 1..Len(R) : Ahead(R, D, j) = Ahead(R, D, j - 1) + D[R[j]]
      /\ Ahead(Q, C, 0) = 0 /\ Ahead(R, D, 0) = 0
  <2>1. Len(R) \in Nat
    BY <1>0, <1>3
  <2> QED  BY <1>0, <2>1, AheadIs
<1>5. \A i \in 0..k - 1 : Ahead(R, D, i) = Ahead(Q, C, i)
  <2>1. \A i \in 0 + 1..k - 1 : D[R[i + 0]] = C[Q[i]]
    <3>1. \A i \in 0 + 1..k - 1 : i \in 1..Len(Q) /\ i < k /\ i + 0 = i
      BY <1>0, <1>1
    <3> QED  BY <1>a, <3>1
  <2>2. SameCounts(Q, C, R, D, 0, k - 1, 0) /\ k - 1 \in Int
    <3>1. 0 + 0 >= 0 /\ k - 1 <= Len(Q) /\ (k - 1) + 0 <= Len(R) /\ k - 1 \in Int
      BY <1>0, <1>1, <1>3
    <3> QED  BY <2>1, <3>1 DEF SameCounts
  <2>3. Ahead(R, D, 0 + 0) = Ahead(Q, C, 0) + 0
    BY <1>d
  <2>4. R \in Seq(T) /\ D \in [T -> Int] /\ 0 \in Nat /\ 0 \in Int
    BY <1>3, <1>4
  <2>5. SameSums(Q, C, R, D, 0, k - 1, 0, 0)
    BY <2>2, <2>3, <2>4, AheadSame
  <2>6. \A i \in 0..k - 1 : i + 0 = i /\ Ahead(Q, C, i) \in Int
    BY <1>0, <1>1
  <2> QED  BY <2>5, <2>6 DEF SameSums
<1>6. Ahead(R, D, k) = n
  <2>1. k - 1 \in 0..Len(Q) /\ k - 1 \in 0..k - 1
    BY <1>0, <1>1
  <2>2. Ahead(R, D, k) = Ahead(R, D, k - 1) + D[R[k]]
    BY <1>b, <1>d
  <2>3. Ahead(R, D, k) = Ahead(Q, C, k - 1) + c /\ Ahead(Q, C, k - 1) \in Int
    BY <1>0, <1>5, <1>b, <2>1, <2>2
  <2> QED  BY <1>2, <2>3
<1>7. \A i \in k..Len(Q) : Ahead(R, D, i + 1) = Ahead(Q, C, i)
  <2> SUFFICES ASSUME k <= Len(Q) PROVE \A i \in k..Len(Q) : Ahead(R, D, i + 1) = Ahead(Q, C, i)
    BY <1>0, <1>1
  <2>1. k \in 1..Len(Q) /\ (k + 1) - 1 = k /\ k - 1 \in 0..Len(Q) /\ k \in 0..Len(Q) /\ k >= k
    BY <1>0, <1>1
  <2>2. k + 1 \in 1..Len(R) /\ D[R[k + 1]] = C[Q[k]] - c /\ C[Q[k]] \in Int
    BY <1>0, <1>c, <2>1
  <2>3. Ahead(R, D, k + 1) = n + (C[Q[k]] - c)
    BY <1>6, <1>d, <2>1, <2>2
  <2>4. Ahead(Q, C, k) = Ahead(Q, C, k - 1) + C[Q[k]] /\ Ahead(Q, C, k - 1) \in Int
    BY <1>0, <1>d, <2>1
  <2>5. Ahead(R, D, k + 1) = Ahead(Q, C, k) + 0
    BY <1>2, <2>2, <2>3, <2>4
  <2>6. \A i \in k + 1..Len(Q) : D[R[i + 1]] = C[Q[i]]
    <3>1. \A i \in k + 1..Len(Q) : i \in 1..Len(Q) /\ i # k /\ i >= k
      BY <1>0, <2>1
    <3> QED  BY <1>c, <3>1
  <2>7. SameCounts(Q, C, R, D, k, Len(Q), 1) /\ k \in Nat /\ Len(Q) \in Int
    <3>1. k \in Nat /\ k + 1 >= 0 /\ Len(Q) <= Len(Q) /\ Len(Q) + 1 <= Len(R) /\ Len(Q) \in Int
      BY <1>0, <1>3, <2>1
    <3> QED  BY <2>6, <3>1 DEF SameCounts
  <2>8. R \in Seq(T) /\ D \in [T -> Int] /\ 0 \in Int /\ 1 \in Int
    BY <1>3, <1>4
  <2>9. SameSums(Q, C, R, D, k, Len(Q), 1, 0)
    BY <2>5, <2>7, <2>8, AheadSame
  <2>10. \A i \in k..Len(Q) : Ahead(Q, C, i) \in Int
    BY <1>0, <2>1
  <2> QED  BY <2>9, <2>10 DEF SameSums
<1>8. LeftOf(T, R, D) = [LeftOf(T, Q, C) EXCEPT ![t] = n]
  <2> DEFINE f == LeftOf(T, Q, C)
             g == LeftOf(T, R, D)
  <2>0. /\ f \in [T -> Int] /\ g \in [T -> Int]
        /\ \A i \in 1..Len(Q) : f[Q[i]] = Ahead(Q, C, i)
        /\ \A i \in 1..Len(R) : g[R[i]] = Ahead(R, D, i)
        /\ \A u \in T \ ToSet(Q) : f[u] = 0
        /\ \A u \in T \ ToSet(R) : g[u] = 0
    <3>1. /\ f \in [T -> Int] /\ \A i \in 1..Len(Q) : f[Q[i]] = Ahead(Q, C, i)
          /\ \A u \in T \ ToSet(Q) : f[u] = 0
      BY LeftIs
    <3>2. R \in Seq(T) /\ IsInjective(R) /\ D \in [T -> Int]
      BY <1>3, <1>4
    <3> HIDE DEF f
    <3>3. /\ g \in [T -> Int] /\ \A i \in 1..Len(R) : g[R[i]] = Ahead(R, D, i)
          /\ \A u \in T \ ToSet(R) : g[u] = 0
      BY <3>2, LeftIs
    <3> QED  BY <3>1, <3>3
  <2> HIDE DEF f, g
  <2>1. g[t] = n
    <3>1. k \in 1..Len(R) /\ R[k] = t
      BY <1>0, <1>1, <1>3
    <3> QED  BY <1>6, <2>0, <3>1
  <2>2. ASSUME NEW u \in T \ {t} PROVE g[u] = f[u]
    <3>1. CASE u \in ToSet(Q)
      <4>1. PICK i \in 1..Len(Q) : Q[i] = u
        BY <3>1, InToSet
      <4>2. CASE i < k
        <5>1. i \in 1..Len(R) /\ R[i] = u /\ i \in 0..k - 1
          BY <1>1, <1>a, <4>1, <4>2
        <5> QED  BY <1>5, <2>0, <4>1, <5>1
      <4>3. CASE i >= k
        <5>1. i + 1 \in 1..Len(R) /\ R[i + 1] = u /\ i \in k..Len(Q)
          BY <1>1, <1>c, <4>1, <4>3
        <5> QED  BY <1>7, <2>0, <4>1, <5>1
      <4> QED  BY <1>1, <4>2, <4>3
    <3>2. CASE u \notin ToSet(Q)
      BY <1>3, <2>0, <2>2, <3>2
    <3> QED  BY <3>1, <3>2
  <2>3. g = [f EXCEPT ![t] = n]
    BY <2>0, <2>1, <2>2
  <2> QED  BY <2>3 DEF f, g
<1>e. k <= Len(Q) => C[Q[k]] - c > 0
  <2> SUFFICES ASSUME k <= Len(Q) PROVE C[Q[k]] - c > 0
    OBVIOUS
  <2>1. k \in 1..Len(Q) /\ k - 1 \in 0..Len(Q)
    BY <1>0, <1>1
  <2>2. Ahead(Q, C, k) = Ahead(Q, C, k - 1) + C[Q[k]] /\ Ahead(Q, C, k) > n
    BY <1>1, <1>d, <2>1
  <2>3. Ahead(Q, C, k - 1) \in Int /\ C[Q[k]] \in Int
    BY <1>0, <2>1
  <2> QED  BY <1>2, <2>2, <2>3
<1>9. CountsFit(R, D)
  <2> SUFFICES ASSUME NEW j \in 1..Len(R) PROVE D[R[j]] >= 0
    BY DEF CountsFit
  <2>1. CASE j < k
    <3>1. j \in 1..Len(Q)
      BY <1>0, <1>1, <2>1
    <3> QED  BY <1>0, <1>a, <2>1, <3>1
  <2>2. CASE j = k
    BY <1>2, <1>b, <2>2
  <2>3. CASE j > k
    <3>1. PICK i \in 1..Len(Q) : j = i + 1 /\ i >= k
      <4>1. j - 1 \in 1..Len(Q) /\ j = (j - 1) + 1 /\ j - 1 >= k
        BY <1>0, <1>1, <1>3, <2>3
      <4> QED  BY <4>1
    <3>2. D[R[j]] = IF i = k THEN C[Q[i]] - c ELSE C[Q[i]]
      BY <1>c, <3>1
    <3>3. C[Q[i]] \in Int /\ C[Q[i]] >= 0
      BY <1>0
    <3> QED  BY <1>2, <1>e, <3>1, <3>2, <3>3
  <2> QED  BY <1>1, <2>1, <2>2, <2>3
<1>10. n > 0 /\ HeadWaits(Q, C) => HeadWaits(R, D)
  <2> SUFFICES ASSUME n > 0, HeadWaits(Q, C) PROVE D[R[1]] > 0
    BY <1>0, <1>3 DEF HeadWaits
  <2>1. CASE k = 1
    <3>1. D[R[1]] = c /\ k - 1 = 0
      BY <1>b, <2>1
    <3> QED  BY <1>2, <1>d, <3>1
  <2>2. CASE k # 1
    <3>1. 1 \in 1..Len(Q) /\ 1 < k /\ Q # <<>> /\ Head(Q) = Q[1]
      BY <1>0, <1>1, <2>2
    <3> QED  BY <1>a, <3>1 DEF HeadWaits
  <2> QED  BY <2>1, <2>2
<1> QED  BY <1>3, <1>4, <1>8, <1>9, <1>10 DEF k, R, D

\* An entry taken off leaves every other to wait as long as before.
LEMMA StopLeft ==
  ASSUME NEW T, NEW Q \in Seq(T), IsInjective(Q), NEW C \in [T -> Int], CountsFit(Q, C),
         NEW t \in ToSet(Q)
  PROVE  LET R == RemoveFirst(Q, t)
             D == CountsCut(Q, C, t)
         IN /\ R \in Seq(T) /\ IsInjective(R) /\ ToSet(R) = ToSet(Q) \ {t}
            /\ D \in [T -> Int] /\ CountsFit(R, D)
            /\ HeadWaits(Q, C) => HeadWaits(R, D)
            /\ LeftOf(T, R, D) = [LeftOf(T, Q, C) EXCEPT ![t] = 0]
<1> DEFINE R == RemoveFirst(Q, t)
           D == CountsCut(Q, C, t)
<1>0. /\ Len(Q) \in Nat /\ DOMAIN Q = 1..Len(Q) /\ t \in T
      /\ \A i \in 1..Len(Q) : Q[i] \in T /\ C[Q[i]] \in Int
      /\ \A i \in 0..Len(Q) : Ahead(Q, C, i) \in Int
      /\ \A i, j \in 1..Len(Q) : Q[i] = Q[j] => i = j
      /\ \A i \in 1..Len(Q) : C[Q[i]] >= 0
  BY Entries
<1>1. /\ R \in Seq(T) /\ IsInjective(R) /\ ToSet(R) = ToSet(Q) \ {t}
  BY RemoveFirstRange
<1>2. PICK k \in 1..Len(Q) :
        /\ Q[k] = t /\ \A j \in 1..k - 1 : Q[j] # t
        /\ Len(R) = Len(Q) - 1
        /\ \A j \in 1..Len(Q) - 1 : R[j] = IF j < k THEN Q[j] ELSE Q[j + 1]
  BY RemoveFirstElements, Zenon
<1>3. k < Len(Q) => Q[k + 1] \in T /\ Q[k + 1] # t /\ k + 1 \in 1..Len(Q)
  <2> SUFFICES ASSUME k < Len(Q) PROVE Q[k + 1] \in T /\ Q[k + 1] # t /\ k + 1 \in 1..Len(Q)
    OBVIOUS
  <2>1. k + 1 \in 1..Len(Q) /\ k \in 1..Len(Q) /\ k + 1 # k
    BY <1>0, <1>2
  <2> QED  BY <1>0, <1>2, <2>1
<1>4. /\ D \in [T -> Int] /\ D[t] = 0
      /\ \A i \in 1..Len(Q) : i # k =>
           D[Q[i]] = IF i = k + 1 THEN C[Q[i]] + C[t] ELSE C[Q[i]]
  <2>0. Last(Q) = Q[Len(Q)] /\ Len(Q) \in 1..Len(Q)
    BY <1>0, <1>2 DEF Last
  <2>1. CASE k = Len(Q)
    <3>1. D = [C EXCEPT ![t] = 0]
      BY <1>2, <2>0, <2>1 DEF CountsCut
    <3> HIDE DEF D
    <3>2. D \in [T -> Int] /\ D[t] = 0 /\ \A u \in T : u # t => D[u] = C[u]
      BY <1>0, <3>1
    <3>3. ASSUME NEW i \in 1..Len(Q), i # k
          PROVE  D[Q[i]] = C[Q[i]] /\ i # k + 1
      BY <1>0, <1>2, <2>1, <3>2, <3>3
    <3> QED  BY <3>2, <3>3
  <2>2. CASE k # Len(Q)
    <3>1. Last(Q) # t
      BY <1>0, <1>2, <2>0, <2>2
    <3> DEFINE pos == CHOOSE i \in DOMAIN Q : Q[i] = t
    <3>2. pos = k
      BY <1>0, <1>2
    <3>c. D = [C EXCEPT ![Q[1 + pos]] = @ + C[t], ![t] = 0]
      BY <3>1 DEF CountsCut
    <3> HIDE DEF D, pos
    <3>3. D = [C EXCEPT ![Q[1 + k]] = @ + C[t], ![t] = 0]
      BY <3>2, <3>c
    <3>4. k < Len(Q) /\ 1 + k = k + 1 /\ C[t] \in Int
      <4>1. C[t] \in Int
        BY <1>0
      <4>2. k \in 1..Len(Q) /\ Len(Q) \in Nat
        BY <1>0
      <4> QED  BY <2>2, <4>1, <4>2
    <3>a. PICK x \in T : x = Q[k + 1] /\ x # t /\ Q[1 + k] = x
      BY <1>3, <3>4
    <3>b. D = [C EXCEPT ![x] = @ + C[t], ![t] = 0]
      BY <3>3, <3>a
    <3>5. D = [u \in T |-> IF u = t THEN 0 ELSE IF u = Q[k + 1] THEN C[u] + C[t] ELSE C[u]]
      BY <1>0, <3>a, <3>b
    <3>6. D \in [T -> Int] /\ D[t] = 0
      BY <1>0, <3>4, <3>5
    <3>7. ASSUME NEW i \in 1..Len(Q), i # k
          PROVE  D[Q[i]] = IF i = k + 1 THEN C[Q[i]] + C[t] ELSE C[Q[i]]
      <4>1. Q[i] # t /\ Q[i] \in T /\ (Q[i] = Q[k + 1] <=> i = k + 1)
        BY <1>0, <1>2, <1>3, <3>4, <3>7
      <4> QED  BY <3>5, <4>1
    <3> QED  BY <3>6, <3>7
  <2> QED  BY <2>1, <2>2
<1> HIDE DEF R, D
<1>a. ASSUME NEW j \in 1..Len(Q), j < k
      PROVE  j \in 1..Len(R) /\ R[j] = Q[j] /\ D[R[j]] = C[Q[j]]
  <2>1. j \in 1..Len(Q) - 1 /\ j # k /\ j # k + 1
    BY <1>0, <1>2, <1>a
  <2>2. D[Q[j]] = C[Q[j]]
    BY <1>4, <2>1
  <2> QED  BY <1>2, <1>a, <2>1, <2>2
<1>b. ASSUME NEW j \in 1..Len(Q), j > k
      PROVE  /\ j - 1 \in 1..Len(R) /\ R[j - 1] = Q[j] /\ k < Len(Q)
             /\ D[R[j - 1]] = IF j = k + 1 THEN C[Q[j]] + C[t] ELSE C[Q[j]]
  <2>1. j - 1 \in 1..Len(Q) - 1 /\ ~(j - 1 < k) /\ (j - 1) + 1 = j /\ j # k /\ k < Len(Q)
    BY <1>0, <1>2, <1>b
  <2>2. R[j - 1] = Q[j]
    BY <1>2, <2>1
  <2>3. D[Q[j]] = IF j = k + 1 THEN C[Q[j]] + C[t] ELSE C[Q[j]]
    BY <1>4, <2>1
  <2>4. j - 1 \in 1..Len(R)
    BY <1>2, <2>1
  <2> QED  BY <2>1, <2>2, <2>3, <2>4
<1>d. /\ \A j \in 1..Len(Q) : Ahead(Q, C, j) = Ahead(Q, C, j - 1) + C[Q[j]]
      /\ \A j \in 1..Len(R) : Ahead(R, D, j) = Ahead(R, D, j - 1) + D[R[j]]
      /\ Ahead(Q, C, 0) = 0 /\ Ahead(R, D, 0) = 0
  <2>1. Len(R) \in Nat
    BY <1>0, <1>2
  <2> QED  BY <1>0, <2>1, AheadIs
<1>5. \A i \in 0..k - 1 : Ahead(R, D, i) = Ahead(Q, C, i)
  <2>1. \A i \in 0 + 1..k - 1 : D[R[i + 0]] = C[Q[i]]
    <3>1. \A i \in 0 + 1..k - 1 : i \in 1..Len(Q) /\ i < k /\ i + 0 = i
      BY <1>0, <1>2
    <3> QED  BY <1>a, <3>1
  <2>2. SameCounts(Q, C, R, D, 0, k - 1, 0) /\ k - 1 \in Int
    <3>1. 0 + 0 >= 0 /\ k - 1 <= Len(Q) /\ (k - 1) + 0 <= Len(R) /\ k - 1 \in Int
      BY <1>0, <1>2
    <3> QED  BY <2>1, <3>1 DEF SameCounts
  <2>3. Ahead(R, D, 0 + 0) = Ahead(Q, C, 0) + 0
    BY <1>d
  <2>4. R \in Seq(T) /\ D \in [T -> Int] /\ 0 \in Nat /\ 0 \in Int
    BY <1>1, <1>4
  <2>5. SameSums(Q, C, R, D, 0, k - 1, 0, 0)
    BY <2>2, <2>3, <2>4, AheadSame
  <2>6. \A i \in 0..k - 1 : i + 0 = i /\ Ahead(Q, C, i) \in Int
    BY <1>0, <1>2
  <2> QED  BY <2>5, <2>6 DEF SameSums
<1>6. \A i \in k + 1..Len(Q) : Ahead(R, D, i - 1) = Ahead(Q, C, i)
  <2> SUFFICES ASSUME k < Len(Q)
               PROVE  \A i \in k + 1..Len(Q) : Ahead(R, D, i - 1) = Ahead(Q, C, i)
    BY <1>0, <1>2
  <2>1. /\ k + 1 \in 1..Len(Q) /\ k + 1 > k /\ (k + 1) - 1 = k /\ k - 1 \in 0..Len(Q)
        /\ k - 1 \in 0..k - 1 /\ k \in 1..Len(Q)
    BY <1>0, <1>2
  <2>2. k \in 1..Len(R) /\ D[R[k]] = C[Q[k + 1]] + C[t] /\ C[Q[k + 1]] \in Int /\ C[t] \in Int
    BY <1>0, <1>b, <2>1
  <2>3. Ahead(R, D, k) = Ahead(Q, C, k - 1) + (C[Q[k + 1]] + C[t])
    BY <1>5, <1>d, <2>1, <2>2
  <2>4. Ahead(Q, C, k) = Ahead(Q, C, k - 1) + C[t] /\ Ahead(Q, C, k - 1) \in Int
    BY <1>0, <1>2, <1>d, <2>1
  <2>5. Ahead(Q, C, k + 1) = Ahead(Q, C, k) + C[Q[k + 1]]
    BY <1>d, <2>1
  <2>6. Ahead(R, D, (k + 1) + -1) = Ahead(Q, C, k + 1) + 0
    <3>1. (k + 1) + -1 = k
      BY <2>1
    <3> QED  BY <2>2, <2>3, <2>4, <2>5, <3>1
  <2>7. \A i \in (k + 1) + 1..Len(Q) : D[R[i + -1]] = C[Q[i]]
    <3>1. \A i \in (k + 1) + 1..Len(Q) :
            i \in 1..Len(Q) /\ i # k + 1 /\ i > k /\ i + -1 = i - 1
      BY <1>0, <2>1
    <3> QED  BY <1>b, <3>1
  <2>8. SameCounts(Q, C, R, D, k + 1, Len(Q), -1) /\ k + 1 \in Nat /\ Len(Q) \in Int
    <3>1. /\ k + 1 \in Nat /\ (k + 1) + -1 >= 0 /\ Len(Q) <= Len(Q) /\ Len(Q) + -1 <= Len(R)
          /\ Len(Q) \in Int
      BY <1>0, <1>2, <2>1
    <3> QED  BY <2>7, <3>1 DEF SameCounts
  <2>9. R \in Seq(T) /\ D \in [T -> Int] /\ 0 \in Int /\ -1 \in Int
    BY <1>1, <1>4
  <2>10. SameSums(Q, C, R, D, k + 1, Len(Q), -1, 0)
    BY <2>6, <2>8, <2>9, AheadSame
  <2>11. \A i \in k + 1..Len(Q) : Ahead(Q, C, i) \in Int /\ i + -1 = i - 1
    BY <1>0, <2>1
  <2> QED  BY <2>10, <2>11 DEF SameSums
<1>8. LeftOf(T, R, D) = [LeftOf(T, Q, C) EXCEPT ![t] = 0]
  <2> DEFINE f == LeftOf(T, Q, C)
             g == LeftOf(T, R, D)
  <2>0. /\ f \in [T -> Int] /\ g \in [T -> Int]
        /\ \A i \in 1..Len(Q) : f[Q[i]] = Ahead(Q, C, i)
        /\ \A i \in 1..Len(R) : g[R[i]] = Ahead(R, D, i)
        /\ \A u \in T \ ToSet(Q) : f[u] = 0
        /\ \A u \in T \ ToSet(R) : g[u] = 0
    <3>1. /\ f \in [T -> Int] /\ \A i \in 1..Len(Q) : f[Q[i]] = Ahead(Q, C, i)
          /\ \A u \in T \ ToSet(Q) : f[u] = 0
      BY LeftIs
    <3>2. R \in Seq(T) /\ IsInjective(R) /\ D \in [T -> Int]
      BY <1>1, <1>4
    <3> HIDE DEF f
    <3>3. /\ g \in [T -> Int] /\ \A i \in 1..Len(R) : g[R[i]] = Ahead(R, D, i)
          /\ \A u \in T \ ToSet(R) : g[u] = 0
      BY <3>2, LeftIs
    <3> QED  BY <3>1, <3>3
  <2> HIDE DEF f, g
  <2>1. g[t] = 0
    BY <1>0, <1>1, <2>0
  <2>2. ASSUME NEW u \in T \ {t} PROVE g[u] = f[u]
    <3>1. CASE u \in ToSet(Q)
      <4>1. PICK i \in 1..Len(Q) : Q[i] = u
        BY <3>1, InToSet
      <4>2. CASE i < k
        <5>1. i \in 1..Len(R) /\ R[i] = u /\ i \in 0..k - 1
          BY <1>2, <1>a, <4>1, <4>2
        <5> QED  BY <1>5, <2>0, <4>1, <5>1
      <4>3. CASE i > k
        <5>1. i - 1 \in 1..Len(R) /\ R[i - 1] = u /\ i \in k + 1..Len(Q)
          BY <1>2, <1>b, <4>1, <4>3
        <5> QED  BY <1>6, <2>0, <4>1, <5>1
      <4>4. i # k
        BY <1>2, <2>2, <4>1
      <4> QED  BY <1>2, <4>2, <4>3, <4>4
    <3>2. CASE u \notin ToSet(Q)
      BY <1>1, <2>0, <2>2, <3>2
    <3> QED  BY <3>1, <3>2
  <2>3. g = [f EXCEPT ![t] = 0]
    BY <1>0, <2>0, <2>1, <2>2
  <2> QED  BY <2>3 DEF f, g
<1>9. CountsFit(R, D)
  <2> SUFFICES ASSUME NEW j \in 1..Len(R) PROVE D[R[j]] >= 0
    BY DEF CountsFit
  <2>1. CASE j < k
    <3>1. j \in 1..Len(Q)
      BY <1>0, <1>2, <2>1
    <3> QED  BY <1>0, <1>a, <2>1, <3>1
  <2>2. CASE j >= k
    <3>1. PICK i \in 1..Len(Q) : j = i - 1 /\ i > k
      <4>1. j + 1 \in 1..Len(Q) /\ j = (j + 1) - 1 /\ j + 1 > k
        BY <1>0, <1>2, <2>2
      <4> QED  BY <4>1
    <3>2. D[R[j]] = IF i = k + 1 THEN C[Q[i]] + C[t] ELSE C[Q[i]]
      BY <1>b, <3>1
    <3>3. C[Q[i]] \in Int /\ C[Q[i]] >= 0 /\ C[t] \in Int /\ C[t] >= 0
      BY <1>0, <1>2
    <3> QED  BY <3>2, <3>3
  <2> QED  BY <1>2, <2>1, <2>2
<1>10. HeadWaits(Q, C) => HeadWaits(R, D)
  <2> SUFFICES ASSUME HeadWaits(Q, C), R # <<>> PROVE D[Head(R)] > 0
    BY DEF HeadWaits
  <2>0. /\ Len(R) >= 1 /\ Head(R) = R[1] /\ Q # <<>> /\ Head(Q) = Q[1] /\ 1 \in 1..Len(Q)
        /\ C[Q[1]] > 0
    <3>1. Len(R) \in Nat /\ Len(R) >= 1 /\ Head(R) = R[1]
      BY <1>1
    <3>2. Q # <<>> /\ Head(Q) = Q[1] /\ 1 \in 1..Len(Q)
      BY <1>0, <1>2
    <3> QED  BY <3>1, <3>2 DEF HeadWaits
  <2>1. CASE k = 1
    <3>1. 2 \in 1..Len(Q) /\ 2 > k /\ 2 - 1 = 1 /\ 2 = k + 1
      BY <1>0, <1>2, <2>0, <2>1
    <3>2. D[R[1]] = C[Q[2]] + C[t]
      BY <1>b, <3>1
    <3>3. C[Q[2]] \in Int /\ C[Q[2]] >= 0 /\ C[t] \in Int /\ C[t] > 0
      BY <1>0, <1>2, <2>0, <2>1, <3>1
    <3> QED  BY <2>0, <3>2, <3>3
  <2>2. CASE k # 1
    <3>1. 1 < k
      BY <1>2, <2>2
    <3> QED  BY <1>a, <2>0, <3>1
  <2> QED  BY <2>1, <2>2
<1> QED  BY <1>1, <1>4, <1>8, <1>9, <1>10 DEF R, D

\* When the first entry leaves with nothing left to wait, nobody waits another time.
LEMMA TailLeft ==
  ASSUME NEW T, NEW Q \in Seq(T), IsInjective(Q), NEW C \in [T -> Int], CountsFit(Q, C),
         Q # <<>>, C[Head(Q)] = 0
  PROVE  /\ LeftOf(T, Q, C)[Head(Q)] = 0
         /\ LeftOf(T, Tail(Q), C) = LeftOf(T, Q, C)
         /\ CountsFit(Tail(Q), C)
<1> DEFINE R == Tail(Q)
<1>0. /\ Len(Q) \in Nat /\ \A i \in 1..Len(Q) : Q[i] \in T /\ C[Q[i]] \in Int
      /\ \A i \in 0..Len(Q) : Ahead(Q, C, i) \in Int
      /\ \A i, j \in 1..Len(Q) : Q[i] = Q[j] => i = j
      /\ \A i \in 1..Len(Q) : C[Q[i]] >= 0
  BY Entries
<1>1. /\ R \in Seq(T) /\ Len(R) = Len(Q) - 1 /\ Head(Q) = Q[1] /\ 1 \in 1..Len(Q)
      /\ \A i \in 1..Len(Q) - 1 : R[i] = Q[i + 1]
  BY <1>0, HeadTailProperties, EmptySeq
<1>2. IsInjective(R) /\ ToSet(Q) = ToSet(R) \cup {Head(Q)} /\ Head(Q) \notin ToSet(R)
  BY HeadTailRange
<1> HIDE DEF R
<1>3. ASSUME NEW i \in 1..Len(Q), i # 1 PROVE i - 1 \in 1..Len(R) /\ R[i - 1] = Q[i]
  <2>1. i - 1 \in 1..Len(Q) - 1 /\ (i - 1) + 1 = i
    BY <1>0, <1>3
  <2>2. R[i - 1] = Q[i]
    BY <1>1, <2>1
  <2> QED  BY <1>1, <2>1, <2>2
<1>4. Ahead(Q, C, 0) = 0 /\ Ahead(R, C, 0) = 0 /\ Ahead(Q, C, 1) = 0
  <2>0. Len(Q) \in Nat /\ Len(R) \in Nat
    BY <1>0, <1>1
  <2>1. Ahead(R, C, 0) = 0
    BY <2>0, AheadIs, Zenon
  <2>2. Ahead(Q, C, 0) = 0 /\ \A i \in 1..Len(Q) : Ahead(Q, C, i) = Ahead(Q, C, i - 1) + C[Q[i]]
    BY <2>0, AheadIs, Zenon
  <2>3. Ahead(Q, C, 1) = Ahead(Q, C, 0) + C[Head(Q)]
    BY <1>1, <2>2
  <2> QED  BY <2>1, <2>2, <2>3
<1>5. \A i \in 1..Len(Q) : Ahead(R, C, i - 1) = Ahead(Q, C, i)
  <2>1. \A i \in 1 + 1..Len(Q) : C[R[i + -1]] = C[Q[i]]
    <3>1. \A i \in 1 + 1..Len(Q) : i \in 1..Len(Q) /\ i # 1 /\ i + -1 = i - 1
      BY <1>0
    <3> QED  BY <1>3, <3>1
  <2>2. SameCounts(Q, C, R, C, 1, Len(Q), -1) /\ Len(Q) \in Int /\ 1 \in Nat /\ -1 \in Int
    <3>1. 1 + -1 >= 0 /\ Len(Q) <= Len(Q) /\ Len(Q) + -1 <= Len(R)
      BY <1>0, <1>1
    <3>2. Len(Q) \in Int /\ 1 \in Nat /\ -1 \in Int
      BY <1>0
    <3>3. SameCounts(Q, C, R, C, 1, Len(Q), -1)
      BY <2>1, <3>1, Zenon DEF SameCounts
    <3> QED  BY <3>2, <3>3
  <2>3. Ahead(R, C, 1 + -1) = Ahead(Q, C, 1) + 0
    <3>1. 1 + -1 = 0
      OBVIOUS
    <3> QED  BY <1>4, <3>1
  <2>4. SameSums(Q, C, R, C, 1, Len(Q), -1, 0)
    <3>1. R \in Seq(T) /\ 0 \in Int
      BY <1>1
    <3> QED  BY <2>2, <2>3, <3>1, AheadSame, Zenon
  <2>5. \A i \in 1..Len(Q) : i \in 0..Len(Q) /\ i + -1 = i - 1
    BY <1>0
  <2>6. ASSUME NEW i \in 1..Len(Q) PROVE Ahead(R, C, i - 1) = Ahead(Q, C, i)
    <3>1. Ahead(R, C, i - 1) = Ahead(Q, C, i) + 0
      BY <2>4, <2>5, Zenon DEF SameSums
    <3>2. Ahead(Q, C, i) \in Int
      BY <1>0, <2>5
    <3> QED  BY <3>1, <3>2
  <2> QED  BY <2>6
<1> DEFINE f == LeftOf(T, Q, C)
           g == LeftOf(T, R, C)
<1>6. /\ f \in [T -> Int] /\ g \in [T -> Int]
      /\ \A i \in 1..Len(Q) : f[Q[i]] = Ahead(Q, C, i)
      /\ \A i \in 1..Len(R) : g[R[i]] = Ahead(R, C, i)
      /\ \A u \in T \ ToSet(Q) : f[u] = 0
      /\ \A u \in T \ ToSet(R) : g[u] = 0
  <2>1. /\ f \in [T -> Int] /\ \A i \in 1..Len(Q) : f[Q[i]] = Ahead(Q, C, i)
        /\ \A u \in T \ ToSet(Q) : f[u] = 0
    BY LeftIs
  <2> HIDE DEF f
  <2>2. /\ g \in [T -> Int] /\ \A i \in 1..Len(R) : g[R[i]] = Ahead(R, C, i)
        /\ \A u \in T \ ToSet(R) : g[u] = 0
    BY <1>1, <1>2, LeftIs
  <2> QED  BY <2>1, <2>2
<1> HIDE DEF f, g
<1>7. f[Head(Q)] = 0
  BY <1>1, <1>4, <1>6
<1>8. ASSUME NEW u \in T PROVE g[u] = f[u]
  <2>1. CASE u \in ToSet(R)
    <3>1. PICK i \in 1..Len(Q) : Q[i] = u
      BY <1>2, <2>1, InToSet
    <3>2. i # 1
      BY <1>1, <1>2, <2>1, <3>1
    <3>3. i - 1 \in 1..Len(R) /\ R[i - 1] = u
      BY <1>3, <3>1, <3>2
    <3> QED  BY <1>5, <1>6, <3>1, <3>3
  <2>2. CASE u \notin ToSet(R)
    BY <1>2, <1>6, <1>7, <2>2
  <2> QED  BY <2>1, <2>2
<1>9. g = f
  BY <1>6, <1>8
<1>10. CountsFit(R, C)
  <2> SUFFICES ASSUME NEW j \in 1..Len(R) PROVE C[R[j]] >= 0
    BY DEF CountsFit
  <2>1. j + 1 \in 1..Len(Q) /\ R[j] = Q[j + 1]
    BY <1>0, <1>1
  <2> QED  BY <1>0, <2>1
<1> QED  BY <1>7, <1>9, <1>10 DEF f, g, R

\* When the first entry counts one, all have counted it.
LEMMA CountLeft ==
  ASSUME NEW T, NEW Q \in Seq(T), IsInjective(Q), NEW C \in [T -> Int], CountsFit(Q, C),
         Q # <<>>, HeadWaits(Q, C), NEW D \in [T -> Int], D[Head(Q)] = C[Head(Q)] - 1,
         \A u \in T \ {Head(Q)} : D[u] = C[u]
  PROVE  /\ CountsFit(Q, D)
         /\ LeftOf(T, Q, D) = [u \in T |-> IF u \in ToSet(Q) THEN LeftOf(T, Q, C)[u] - 1
                                           ELSE LeftOf(T, Q, C)[u]]
<1>0. /\ Len(Q) \in Nat /\ \A i \in 1..Len(Q) : Q[i] \in T /\ C[Q[i]] \in Int
      /\ \A i \in 0..Len(Q) : Ahead(Q, C, i) \in Int
      /\ \A i, j \in 1..Len(Q) : Q[i] = Q[j] => i = j
      /\ \A i \in 1..Len(Q) : C[Q[i]] >= 0
  BY Entries
<1>1. Head(Q) = Q[1] /\ 1 \in 1..Len(Q) /\ C[Q[1]] > 0
  BY <1>0, HeadTailProperties, EmptySeq DEF HeadWaits
<1>5. D[Q[1]] = C[Q[1]] - 1 /\ \A i \in 1..Len(Q) : i # 1 => D[Q[i]] = C[Q[i]]
  <2>1. \A i \in 1..Len(Q) : Q[i] \in T /\ (i # 1 => Q[i] # Head(Q))
    BY <1>0, <1>1
  <2> QED  BY <1>1, <2>1
<1>6. Ahead(Q, D, 1) = Ahead(Q, C, 1) + -1
  <2>1. /\ Ahead(Q, D, 0) = 0 /\ Ahead(Q, C, 0) = 0
        /\ \A i \in 1..Len(Q) : Ahead(Q, C, i) = Ahead(Q, C, i - 1) + C[Q[i]]
        /\ \A i \in 1..Len(Q) : Ahead(Q, D, i) = Ahead(Q, D, i - 1) + D[Q[i]]
    <3>0. Len(Q) \in Nat
      BY <1>0
    <3>1. Ahead(Q, C, 0) = 0 /\ \A i \in 1..Len(Q) : Ahead(Q, C, i) = Ahead(Q, C, i - 1) + C[Q[i]]
      BY <3>0, AheadIs
    <3>2. Ahead(Q, D, 0) = 0 /\ \A i \in 1..Len(Q) : Ahead(Q, D, i) = Ahead(Q, D, i - 1) + D[Q[i]]
      BY <3>0, AheadIs
    <3> QED  BY <3>1, <3>2
  <2>2. Ahead(Q, C, 1) = C[Q[1]] /\ Ahead(Q, D, 1) = C[Q[1]] - 1 /\ C[Q[1]] \in Int
    <3>1. Ahead(Q, C, 1) = 0 + C[Q[1]] /\ Ahead(Q, D, 1) = 0 + D[Q[1]]
      <4>1. 1 \in 1..Len(Q) /\ 1 - 1 = 0
        BY <1>1
      <4> QED  BY <2>1, <4>1
    <3> QED  BY <1>0, <1>1, <1>5, <3>1
  <2> QED  BY <2>2
<1>7. \A i \in 1..Len(Q) : Ahead(Q, D, i) = Ahead(Q, C, i) - 1
  <2>1. \A i \in 1 + 1..Len(Q) : D[Q[i + 0]] = C[Q[i]]
    <3>1. \A i \in 1 + 1..Len(Q) : i \in 1..Len(Q) /\ i # 1 /\ i + 0 = i
      BY <1>0
    <3> QED  BY <1>5, <3>1
  <2>2. SameCounts(Q, C, Q, D, 1, Len(Q), 0) /\ Len(Q) \in Int /\ 1 \in Nat /\ 0 \in Int /\ -1 \in Int
    <3>1. 1 + 0 >= 0 /\ Len(Q) <= Len(Q) /\ Len(Q) + 0 <= Len(Q) /\ Len(Q) \in Int
      BY <1>0
    <3> QED  BY <2>1, <3>1 DEF SameCounts
  <2>3. Ahead(Q, D, 1 + 0) = Ahead(Q, C, 1) + -1
    <3>1. 1 + 0 = 1
      OBVIOUS
    <3> QED  BY <1>6, <3>1
  <2>4. SameSums(Q, C, Q, D, 1, Len(Q), 0, -1)
    BY <2>2, <2>3, AheadSame
  <2>5. \A i \in 1..Len(Q) : Ahead(Q, C, i) \in Int /\ i + 0 = i
    BY <1>0
  <2> QED  BY <2>4, <2>5 DEF SameSums
<1> DEFINE f == LeftOf(T, Q, C)
           g == LeftOf(T, Q, D)
<1>8. /\ f \in [T -> Int] /\ g \in [T -> Int]
      /\ \A i \in 1..Len(Q) : f[Q[i]] = Ahead(Q, C, i) /\ g[Q[i]] = Ahead(Q, D, i)
      /\ \A u \in T \ ToSet(Q) : f[u] = 0 /\ g[u] = 0
  <2>1. /\ f \in [T -> Int] /\ \A i \in 1..Len(Q) : f[Q[i]] = Ahead(Q, C, i)
        /\ \A u \in T \ ToSet(Q) : f[u] = 0
    BY LeftIs
  <2> HIDE DEF f
  <2>2. /\ g \in [T -> Int] /\ \A i \in 1..Len(Q) : g[Q[i]] = Ahead(Q, D, i)
        /\ \A u \in T \ ToSet(Q) : g[u] = 0
    BY LeftIs
  <2> QED  BY <2>1, <2>2
<1> HIDE DEF f, g
<1>9. ASSUME NEW u \in T PROVE g[u] = IF u \in ToSet(Q) THEN f[u] - 1 ELSE f[u]
  <2>1. CASE u \in ToSet(Q)
    <3>1. PICK i \in 1..Len(Q) : Q[i] = u
      BY <2>1, InToSet
    <3> QED  BY <1>7, <1>8, <2>1, <3>1
  <2>2. CASE u \notin ToSet(Q)
    BY <1>8, <2>2
  <2> QED  BY <2>1, <2>2
<1>10. g = [u \in T |-> IF u \in ToSet(Q) THEN f[u] - 1 ELSE f[u]]
  BY <1>8, <1>9
<1>11. CountsFit(Q, D)
  <2> SUFFICES ASSUME NEW j \in 1..Len(Q) PROVE D[Q[j]] >= 0
    BY DEF CountsFit
  <2>1. CASE j = 1
    BY <1>0, <1>1, <1>5, <2>1
  <2>2. CASE j # 1
    BY <1>0, <1>5, <2>2
  <2> QED  BY <2>1, <2>2
<1> QED  BY <1>10, <1>11 DEF f, g

\* Other counts than those of the list do not matter to it.
LEMMA SameLeft ==
  ASSUME NEW T, NEW Q \in Seq(T), IsInjective(Q), NEW C \in [T -> Int],
         NEW D \in [T -> Int], \A u \in ToSet(Q) : D[u] = C[u]
  PROVE  /\ LeftOf(T, Q, D) = LeftOf(T, Q, C)
         /\ CountsFit(Q, C) => CountsFit(Q, D)
         /\ HeadWaits(Q, C) => HeadWaits(Q, D)
<1>0. /\ Len(Q) \in Nat /\ DOMAIN Q = 1..Len(Q) /\ ToSet(Q) \subseteq T
      /\ \A i \in 1..Len(Q) : Q[i] \in ToSet(Q) /\ D[Q[i]] = C[Q[i]]
  BY InToSet
<1>1. \A i \in 0..Len(Q) : Ahead(Q, D, i) = Ahead(Q, C, i)
  <2>1. SameCounts(Q, C, Q, D, 0, Len(Q), 0) /\ Len(Q) \in Int /\ 0 \in Nat /\ 0 \in Int
    <3>1. 0 + 0 >= 0 /\ Len(Q) <= Len(Q) /\ Len(Q) + 0 <= Len(Q) /\ Len(Q) \in Int
      BY <1>0
    <3>2. \A i \in 0 + 1..Len(Q) : i \in 1..Len(Q) /\ i + 0 = i
      BY <1>0
    <3> QED  BY <1>0, <3>1, <3>2 DEF SameCounts
  <2>2. Ahead(Q, D, 0 + 0) = Ahead(Q, C, 0) + 0
    <3>1. Ahead(Q, D, 0) = 0
      BY <1>0, AheadIs
    <3>2. Ahead(Q, C, 0) = 0
      BY <1>0, AheadIs
    <3> QED  BY <3>1, <3>2
  <2>3. SameSums(Q, C, Q, D, 0, Len(Q), 0, 0)
    BY <2>1, <2>2, AheadSame, Zenon
  <2>4. ASSUME NEW i \in 0..Len(Q) PROVE Ahead(Q, D, i) = Ahead(Q, C, i)
    <3>1. Ahead(Q, C, i) \in Int /\ i + 0 = i
      BY <1>0, AheadType
    <3>2. Ahead(Q, D, i) = Ahead(Q, C, i) + 0
      BY <2>3, <3>1, Zenon DEF SameSums
    <3> QED  BY <3>1, <3>2
  <2> QED  BY <2>4
<1>2. LeftOf(T, Q, D) = LeftOf(T, Q, C)
  <2> DEFINE f == LeftOf(T, Q, C)
             g == LeftOf(T, Q, D)
  <2>1. /\ f \in [T -> Int] /\ g \in [T -> Int]
        /\ \A i \in 1..Len(Q) : f[Q[i]] = Ahead(Q, C, i) /\ g[Q[i]] = Ahead(Q, D, i)
        /\ \A u \in T \ ToSet(Q) : f[u] = 0 /\ g[u] = 0
    BY LeftIs
  <2> HIDE DEF f, g
  <2>2. ASSUME NEW u \in T PROVE g[u] = f[u]
    <3>1. CASE u \in ToSet(Q)
      <4>1. PICK i \in 1..Len(Q) : Q[i] = u
        BY <3>1, InToSet
      <4>2. i \in 0..Len(Q)
        BY <1>0
      <4> QED  BY <1>1, <2>1, <4>1, <4>2
    <3>2. CASE u \notin ToSet(Q)
      BY <2>1, <3>2
    <3> QED  BY <3>1, <3>2
  <2>3. g = f
    BY <2>1, <2>2
  <2> QED  BY <2>3 DEF f, g
<1>3. CountsFit(Q, C) => CountsFit(Q, D)
  BY <1>0 DEF CountsFit
<1>4. HeadWaits(Q, C) => HeadWaits(Q, D)
  <2>1. Q # <<>> => Head(Q) = Q[1] /\ 1 \in 1..Len(Q)
    BY <1>0, HeadTailProperties, EmptySeq
  <2>2. Q # <<>> => D[Head(Q)] = C[Head(Q)]
    BY <1>0, <2>1
  <2> QED  BY <2>2 DEF HeadWaits
<1> QED  BY <1>2, <1>3, <1>4
=============================================================================
