----------------------------- MODULE Heap_proofs -----------------------------
(***************************************************************************)
(* Proofs about Heap, for every pool, size and boundary.                   *)
(*                                                                         *)
(* In the course of a call some free nodes are on no list: those taken off *)
(* their list to be cut, merged or handed out.  Whole(H, X) says that the  *)
(* pool is in order but for the nodes X; every operator takes nodes out    *)
(* of X or puts them into it, and each call starts and ends with none.     *)
(***************************************************************************)
EXTENDS Heap, SeqLemmas

NodeSet == [size : Nat, used : BOOLEAN, pre : Addr \cup {Null}]

\* The headers of a pool, with at least the first node and the end node.
Headers == {N \in UNION {[D -> NodeSet] : D \in SUBSET Addr} :
              {First, End} \subseteq DOMAIN N}

IsHeap(H) ==
  /\ H = [node |-> H.node, free |-> H.free]
  /\ H.node \in Headers
  /\ H.free \in [Class -> Seq(Addr)]

\* The nodes tile the pool, and know their neighbours.
Chain(N) ==
  /\ N[First].pre = Null /\ N[End].used
  /\ \A a \in DOMAIN N \ {End} :
       /\ N[a].size > Head_
       /\ NextOf(N, a) \in DOMAIN N /\ N[NextOf(N, a)].pre = a
       /\ \A b \in DOMAIN N : ~(a < b /\ b < NextOf(N, a))
  /\ \A b \in DOMAIN N \ {First} :
       N[b].pre \in DOMAIN N \ {End} /\ NextOf(N, N[b].pre) = b

\* The free nodes but for X.
FreeBut(N, X) == {a \in DOMAIN N : ~N[a].used /\ a \notin X}

Apart(N, X) == \A a \in FreeBut(N, X) : NextOf(N, a) \notin FreeBut(N, X)

OfClass(N, X, k) == {a \in FreeBut(N, X) : ClassOf(N[a].size) = k}

Lists(H, X) ==
  \A k \in Class : IsInjective(H.free[k]) /\ ToSet(H.free[k]) = OfClass(H.node, X, k)

Whole(H, X) == IsHeap(H) /\ Chain(H.node) /\ Apart(H.node, X) /\ Lists(H, X)
-----------------------------------------------------------------------------
LEMMA HeapConstants ==
  /\ First \in Nat /\ End \in Nat /\ Pool \in Nat /\ Head_ \in Nat \ {0} /\ Pool > Head_
  /\ End = First + Pool /\ Addr \subseteq Nat /\ First \in Addr /\ End \in Addr
  /\ First # End /\ Null \notin Addr /\ Class \subseteq Nat
  /\ \A a \in Addr : First <= a /\ a <= End
BY HeapAssumption DEF End, Addr, Class

\* A pool of headers, as functions.
LEMMA HeaderFacts ==
  ASSUME NEW N \in Headers
  PROVE  /\ DOMAIN N \subseteq Addr /\ N \in [DOMAIN N -> NodeSet]
         /\ First \in DOMAIN N /\ End \in DOMAIN N
         /\ \A a \in DOMAIN N : /\ a \in Nat /\ First <= a /\ a <= End
                                /\ N[a] \in NodeSet /\ N[a].size \in Nat /\ N[a].used \in BOOLEAN
                                /\ N[a].pre \in Addr \cup {Null}
                                /\ NextOf(N, a) = a + N[a].size /\ NextOf(N, a) \in Nat
<1>1. PICK D \in SUBSET Addr : N \in [D -> NodeSet]
  BY DEF Headers
<1>2. D = DOMAIN N
  BY <1>1
<1>3. First \in DOMAIN N /\ End \in DOMAIN N
  BY DEF Headers
<1>4. ASSUME NEW a \in DOMAIN N
      PROVE /\ a \in Nat /\ First <= a /\ a <= End
            /\ N[a] \in NodeSet /\ N[a].size \in Nat /\ N[a].used \in BOOLEAN
            /\ N[a].pre \in Addr \cup {Null}
            /\ NextOf(N, a) = a + N[a].size /\ NextOf(N, a) \in Nat
  BY <1>1, HeapConstants DEF NodeSet, NextOf
<1> QED  BY <1>1, <1>2, <1>3, <1>4

\* A node of no more than the pool has a class, and a block of no more words is sought in
\* this class too.
LEMMA ClassExists ==
  ASSUME NEW s \in Nat, s <= Pool
  PROVE  /\ ClassOf(s) \in ClassesFrom(s) /\ ClassOf(s) \in Class
         /\ \A n \in Nat : n <= s => ClassOf(s) \in ClassesFrom(n)
<1> DEFINE K == ClassesFrom(s)
<1>1. MaxLog \in K
  BY HeapAssumption DEF ClassesFrom, Class
<1>2. K \in SUBSET Nat /\ K \subseteq Class
  BY HeapConstants DEF ClassesFrom
<1> HIDE DEF K
<1>3. \E m \in K : \A k \in K : m <= k
  BY <1>1, <1>2, MinExists
<1>4. Min(K) \in K
  BY <1>3 DEF Min
<1>5. ClassOf(s) \in K
  BY <1>4 DEF ClassOf, K
<1>6. \A n \in Nat : n <= s => ClassOf(s) \in ClassesFrom(n)
  <2> DEFINE j == ClassOf(s)
  <2>1. j \in Nat /\ j \in Class /\ s < 2^(j + 1)
    BY <1>2, <1>5 DEF K, ClassesFrom
  <2> HIDE DEF j
  <2>2. \A n \in Nat : n <= s => n < 2^(j + 1)
    BY <2>1
  <2> QED  BY <2>1, <2>2 DEF j, ClassesFrom
<1> QED  BY <1>2, <1>5, <1>6 DEF K

\* The space between two nodes that follow each other is empty: of two nodes, one ends
\* before the other starts.
LEMMA ChainOrder ==
  ASSUME NEW N \in Headers, Chain(N), NEW a \in DOMAIN N \ {End}
  PROVE  /\ NextOf(N, a) \in DOMAIN N \ {First} /\ NextOf(N, a) # a
         /\ N[a].size > Head_ /\ N[a].size <= Pool /\ N[NextOf(N, a)].pre = a
         /\ \A b \in DOMAIN N : b <= a \/ NextOf(N, a) <= b
         /\ \A b \in DOMAIN N \ {End} : NextOf(N, b) = NextOf(N, a) => b = a
<1>1. /\ N[a].size > Head_ /\ NextOf(N, a) \in DOMAIN N /\ N[NextOf(N, a)].pre = a
      /\ \A b \in DOMAIN N : ~(a < b /\ b < NextOf(N, a))
      /\ \A b \in DOMAIN N \ {End} : N[NextOf(N, b)].pre = b
  BY DEF Chain
<1>2. /\ a \in Nat /\ First <= a /\ N[a].size \in Nat /\ NextOf(N, a) = a + N[a].size
      /\ NextOf(N, a) <= End /\ \A b \in DOMAIN N : b \in Nat
  BY <1>1, HeaderFacts
<1>3. \A b \in DOMAIN N \ {End} : NextOf(N, b) = NextOf(N, a) => b = a
  BY <1>1
<1> QED  BY <1>1, <1>2, <1>3, HeapConstants
-----------------------------------------------------------------------------
\* osMemMergeNode, header by header: q becomes part of the node before it.
LEMMA MergedHeaders ==
  ASSUME NEW H, IsHeap(H), Chain(H.node), NEW q \in DOMAIN H.node \ {First, End}
  PROVE  LET N == H.node
             p == N[q].pre
             M == MergeNode(H, q).node
         IN /\ IsHeap(MergeNode(H, q)) /\ MergeNode(H, q).free = H.free
            /\ p \in DOMAIN N \ {q, End} /\ NextOf(N, p) = q /\ p < q
            /\ DOMAIN M = DOMAIN N \ {q}
            /\ \A b \in DOMAIN M :
                 /\ M[b].used = N[b].used
                 /\ M[b].size = IF b = p THEN N[p].size + N[q].size ELSE N[b].size
                 /\ M[b].pre = IF b = NextOf(N, q) THEN p ELSE N[b].pre
<1> DEFINE N == H.node
           p == N[q].pre
           r == NextOf(N, q)
           M == MergeNode(H, q).node
<1>1. N \in Headers /\ N \in [DOMAIN N -> NodeSet] /\ DOMAIN N \subseteq Addr
  BY HeaderFacts DEF IsHeap
<1>2. p \in DOMAIN N \ {End} /\ NextOf(N, p) = q
  BY DEF Chain
<1>3. r \in DOMAIN N \ {First} /\ r # q /\ p # q /\ r # p /\ p < q
  <2>1. p < q /\ q < r /\ p \in Nat /\ q \in Nat /\ r \in Nat
    BY <1>1, <1>2, ChainOrder, HeaderFacts, HeapConstants
  <2> QED  BY <1>1, <2>1, ChainOrder
<1>4. N[p].size \in Nat /\ N[q].size \in Nat /\ p \in Addr
  BY <1>1, <1>2, HeaderFacts
<1> DEFINE O == [N EXCEPT ![p].size = @ + N[q].size, ![r].pre = p]
           P == [b \in DOMAIN O \ {q} |-> O[b]]
<1>4a. H = [node |-> N, free |-> H.free]
  BY DEF IsHeap
<1>4b. MergeNode(H, q) = [H EXCEPT !.node = P]
  BY <1>4a DEF MergeNode, Without
<1>4c. [[node |-> N, free |-> H.free] EXCEPT !.node = P] = [node |-> P, free |-> H.free]
  <2> HIDE DEF P, N
  <2> QED  OBVIOUS
<1>6. MergeNode(H, q) = [node |-> P, free |-> H.free]
  BY <1>4a, <1>4b, <1>4c, Zenon
<1>5. M = P /\ DOMAIN O = DOMAIN N
  BY <1>1, <1>6
<1>4d. H.free \in [Class -> Seq(Addr)]
  BY DEF IsHeap
<1> HIDE DEF N, M
<1>7. \A b \in DOMAIN N : /\ O[b] \in NodeSet
                          /\ O[b].used = N[b].used
                          /\ O[b].size = IF b = p THEN N[p].size + N[q].size ELSE N[b].size
                          /\ O[b].pre = IF b = r THEN p ELSE N[b].pre
  BY <1>1, <1>2, <1>3, <1>4 DEF NodeSet
<1>8. M \in [DOMAIN N \ {q} -> NodeSet] /\ DOMAIN M = DOMAIN N \ {q}
      /\ \A b \in DOMAIN M : M[b] = O[b]
  BY <1>5, <1>7
<1> HIDE DEF O, P, p, r
<1>9. M \in Headers
  BY <1>1, <1>8, HeaderFacts DEF Headers
<1>10. IsHeap(MergeNode(H, q)) /\ MergeNode(H, q).free = H.free
  BY <1>4d, <1>5, <1>6, <1>9 DEF IsHeap
<1>11. \A b \in DOMAIN M :
         /\ M[b].used = N[b].used
         /\ M[b].size = IF b = p THEN N[p].size + N[q].size ELSE N[b].size
         /\ M[b].pre = IF b = r THEN p ELSE N[b].pre
  BY <1>7, <1>8
<1> QED  BY <1>2, <1>3, <1>8, <1>10, <1>11 DEF p, r, N, M

\* The merged nodes tile the pool as before, but for q.
LEMMA MergedChain ==
  ASSUME NEW H, IsHeap(H), Chain(H.node), NEW q \in DOMAIN H.node \ {First, End}
  PROVE  LET N == H.node
             p == N[q].pre
             M == MergeNode(H, q).node
         IN /\ Chain(M) /\ NextOf(M, p) = NextOf(N, q)
            /\ \A b \in DOMAIN M \ {p} : NextOf(M, b) = NextOf(N, b)
<1> DEFINE N == H.node
           p == N[q].pre
           r == NextOf(N, q)
           M == MergeNode(H, q).node
<1>1. /\ N \in Headers /\ M \in Headers /\ q \in DOMAIN N \ {First, End} /\ Chain(N)
      /\ p \in DOMAIN N \ {q, End} /\ NextOf(N, p) = q /\ p < q
      /\ DOMAIN M = DOMAIN N \ {q}
      /\ \A b \in DOMAIN M :
           /\ M[b].used = N[b].used
           /\ M[b].size = IF b = p THEN N[p].size + N[q].size ELSE N[b].size
           /\ M[b].pre = IF b = r THEN p ELSE N[b].pre
  BY MergedHeaders DEF IsHeap
<1>1a. r = NextOf(N, q)
  OBVIOUS
<1> HIDE DEF N, M, p, r
<1>2. r \in DOMAIN N \ {First} /\ r # q /\ r # p /\ q < r
  <2>1. r \in DOMAIN N \ {First} /\ q < r
    BY <1>1, <1>1a, ChainOrder, HeaderFacts, HeapConstants
  <2>2. p \in Nat /\ q \in Nat /\ r \in Nat
    BY <1>1, <2>1, HeaderFacts
  <2> QED  BY <1>1, <2>1, <2>2
<1>3. NextOf(M, p) = r
  <2>1. N[p].size \in Nat /\ N[q].size \in Nat /\ p \in Nat /\ q = p + N[p].size
        /\ r = q + N[q].size
    BY <1>1, <1>1a, HeaderFacts
  <2>2. NextOf(M, p) = p + M[p].size /\ M[p].size = N[p].size + N[q].size
    BY <1>1, HeaderFacts
  <2> QED  BY <2>1, <2>2
<1>4. \A b \in DOMAIN M \ {p} : NextOf(M, b) = NextOf(N, b)
  BY <1>1 DEF NextOf
<1>5. M[First].pre = Null /\ M[End].used
  BY <1>1, <1>2, HeaderFacts DEF Chain
<1>6. ASSUME NEW a \in DOMAIN M \ {End}
      PROVE  /\ M[a].size > Head_ /\ NextOf(M, a) \in DOMAIN M /\ M[NextOf(M, a)].pre = a
             /\ \A b \in DOMAIN M : ~(a < b /\ b < NextOf(M, a))
  <2>1. CASE a = p
    <3>1. M[p].size > Head_
      <4>1. M[p].size = N[p].size + N[q].size
        BY <1>1
      <4>2. N[p].size > Head_ /\ N[p].size \in Nat /\ N[q].size \in Nat
        BY <1>1, HeaderFacts, ChainOrder
      <4> QED  BY <4>1, <4>2, HeapConstants
    <3>2. \A b \in DOMAIN N : (b <= p \/ q <= b) /\ (b <= q \/ r <= b)
      BY <1>1, <1>1a, ChainOrder
    <3>3. \A b \in DOMAIN M : ~(p < b /\ b < r)
      <4>1. p \in Nat /\ q \in Nat /\ r \in Nat /\ \A b \in DOMAIN M : b \in Nat
        BY <1>1, <1>2, HeaderFacts
      <4> QED  BY <1>1, <3>2, <4>1
    <3> QED  BY <1>1, <1>2, <1>3, <2>1, <3>1, <3>3
  <2>2. CASE a # p
    <3>1. /\ N[a].size > Head_ /\ NextOf(N, a) \in DOMAIN N /\ N[NextOf(N, a)].pre = a
          /\ \A b \in DOMAIN N : ~(a < b /\ b < NextOf(N, a))
      BY <1>1 DEF Chain
    <3>2. NextOf(N, a) # q /\ NextOf(N, a) # r
      BY <1>1, <1>1a, <2>2, ChainOrder
    <3> QED  BY <1>1, <1>4, <2>2, <3>1, <3>2
  <2> QED  BY <2>1, <2>2
<1>7. ASSUME NEW b \in DOMAIN M \ {First}
      PROVE  M[b].pre \in DOMAIN M \ {End} /\ NextOf(M, M[b].pre) = b
  <2>1. CASE b = r
    BY <1>1, <1>3, <2>1
  <2>2. CASE b # r
    <3>1. M[b].pre = N[b].pre /\ N[b].pre \in DOMAIN N \ {End} /\ NextOf(N, N[b].pre) = b
      BY <1>1, <2>2 DEF Chain
    <3>2. N[b].pre # q /\ N[b].pre # p
      BY <1>1, <1>1a, <2>2, <3>1
    <3> QED  BY <1>1, <1>4, <3>1, <3>2
  <2> QED  BY <2>1, <2>2
<1>8. Chain(M)
  BY <1>5, <1>6, <1>7 DEF Chain
<1> QED  BY <1>3, <1>4, <1>8 DEF N, M, p, r
-----------------------------------------------------------------------------
\* A free node that is taken off its list.
LEMMA DelistedWhole ==
  ASSUME NEW H, NEW X, Whole(H, X), NEW q \in FreeBut(H.node, X)
  PROVE  Whole(Delisted(H, q), X \cup {q}) /\ Delisted(H, q).node = H.node
<1> DEFINE N == H.node
           c == ClassOf(N[q].size)
           G == [H.free EXCEPT ![c] = RemoveFirst(@, q)]
<1>1. /\ N \in Headers /\ H.free \in [Class -> Seq(Addr)] /\ Chain(N)
      /\ H = [node |-> N, free |-> H.free]
  BY DEF Whole, IsHeap
<1>2. q \in DOMAIN N \ {End} /\ c \in Class
  <2>1. q \in DOMAIN N \ {End}
    BY <1>1 DEF FreeBut, Chain
  <2> QED  BY <1>1, <2>1, ChainOrder, ClassExists, HeaderFacts
<1>3. Delisted(H, q) = [node |-> N, free |-> G]
  <2>1. Delisted(H, q) = [H EXCEPT !.free = G]
    BY <1>1 DEF Delisted
  <2> HIDE DEF G, N
  <2> QED  BY <1>1, <2>1
<1>4. /\ RemoveFirst(H.free[c], q) \in Seq(Addr)
      /\ IsInjective(RemoveFirst(H.free[c], q))
      /\ ToSet(RemoveFirst(H.free[c], q)) = ToSet(H.free[c]) \ {q}
  BY <1>1, <1>2, RemoveFirstRange DEF Whole, Lists
<1>5. G \in [Class -> Seq(Addr)]
  BY <1>1, <1>2, <1>4
<1>6. ASSUME NEW k \in Class
      PROVE IsInjective(G[k]) /\ ToSet(G[k]) = OfClass(N, X \cup {q}, k)
  <2>1. IsInjective(H.free[k]) /\ ToSet(H.free[k]) = OfClass(N, X, k)
    BY DEF Whole, Lists
  <2>2. CASE k = c
    <3>1. G[k] = RemoveFirst(H.free[c], q)
      BY <1>1, <2>2
    <3>2. OfClass(N, X \cup {q}, k) = OfClass(N, X, k) \ {q}
      BY DEF OfClass, FreeBut
    <3> HIDE DEF G
    <3> QED  BY <1>4, <2>1, <2>2, <3>1, <3>2
  <2>3. CASE k # c
    <3>1. G[k] = H.free[k]
      BY <1>1, <2>3
    <3>2. OfClass(N, X \cup {q}, k) = OfClass(N, X, k)
      BY <2>3 DEF OfClass, FreeBut
    <3> HIDE DEF G
    <3> QED  BY <2>1, <3>1, <3>2
  <2> QED  BY <2>2, <2>3
<1> HIDE DEF G
<1>7. Apart(N, X \cup {q})
  BY DEF Whole, Apart, FreeBut
<1> HIDE DEF N
<1>8. IsHeap([node |-> N, free |-> G])
  BY <1>1, <1>5 DEF IsHeap
<1>9. Lists([node |-> N, free |-> G], X \cup {q})
  BY <1>6 DEF Lists
<1> QED  BY <1>1, <1>3, <1>7, <1>8, <1>9 DEF Whole, N

\* A free node that is put on the list of its class; neither neighbour is free.
LEMMA ListedWhole ==
  ASSUME NEW H, NEW X, Whole(H, X), NEW q \in X, q \in DOMAIN H.node, ~H.node[q].used,
         NextOf(H.node, q) \notin FreeBut(H.node, X), H.node[q].pre \notin FreeBut(H.node, X)
  PROVE  Whole(Listed(H, q), X \ {q}) /\ Listed(H, q).node = H.node
<1> DEFINE N == H.node
           c == ClassOf(N[q].size)
           G == [H.free EXCEPT ![c] = <<q>> \o @]
<1>1. /\ N \in Headers /\ H.free \in [Class -> Seq(Addr)] /\ Chain(N)
      /\ H = [node |-> N, free |-> H.free]
  BY DEF Whole, IsHeap
<1>2. q \in DOMAIN N \ {End} /\ c \in Class /\ q \in Addr
  <2>1. q \in DOMAIN N \ {End}
    BY <1>1 DEF Chain
  <2> QED  BY <1>1, <2>1, ChainOrder, ClassExists, HeaderFacts
<1>3. Listed(H, q) = [node |-> N, free |-> G]
  <2>1. Listed(H, q) = [H EXCEPT !.free = G]
    BY <1>1 DEF Listed
  <2> HIDE DEF G, N
  <2> QED  BY <1>1, <2>1
<1>4. /\ <<q>> \o H.free[c] \in Seq(Addr)
      /\ IsInjective(<<q>> \o H.free[c])
      /\ ToSet(<<q>> \o H.free[c]) = ToSet(H.free[c]) \cup {q}
  <2> DEFINE w == <<q>>
  <2>1. w \in Seq(Addr) /\ ToSet(w) = {q} /\ IsInjective(w)
    BY <1>2, SingletonRange
  <2>2. H.free[c] \in Seq(Addr) /\ IsInjective(H.free[c]) /\ q \notin ToSet(H.free[c])
    BY <1>1, <1>2 DEF Whole, Lists, OfClass, FreeBut
  <2> HIDE DEF w
  <2>3. w \o H.free[c] \in Seq(Addr) /\ IsInjective(w \o H.free[c])
        /\ ToSet(w \o H.free[c]) = ToSet(H.free[c]) \cup {q}
    BY <2>1, <2>2, ConcatRange
  <2> QED  BY <2>3 DEF w
<1>5. G \in [Class -> Seq(Addr)]
  BY <1>1, <1>2, <1>4
<1>6. ASSUME NEW k \in Class
      PROVE IsInjective(G[k]) /\ ToSet(G[k]) = OfClass(N, X \ {q}, k)
  <2>1. IsInjective(H.free[k]) /\ ToSet(H.free[k]) = OfClass(N, X, k)
    BY DEF Whole, Lists
  <2>2. CASE k = c
    <3>1. G[k] = <<q>> \o H.free[c]
      BY <1>1, <2>2
    <3>2. OfClass(N, X \ {q}, k) = OfClass(N, X, k) \cup {q}
      BY <2>2 DEF OfClass, FreeBut
    <3> HIDE DEF G
    <3> QED  BY <1>4, <2>1, <2>2, <3>1, <3>2
  <2>3. CASE k # c
    <3>1. G[k] = H.free[k]
      BY <1>1, <2>3
    <3>2. OfClass(N, X \ {q}, k) = OfClass(N, X, k)
      BY <2>3 DEF OfClass, FreeBut
    <3> HIDE DEF G
    <3> QED  BY <2>1, <3>1, <3>2
  <2> QED  BY <2>2, <2>3
<1> HIDE DEF G
<1>7. Apart(N, X \ {q})
  <2>1. FreeBut(N, X \ {q}) = FreeBut(N, X) \cup {q}
    BY <1>2 DEF FreeBut
  <2>2. NextOf(N, q) # q
    BY <1>1, <1>2, ChainOrder
  <2>3. ASSUME NEW a \in FreeBut(N, X), NextOf(N, a) = q PROVE FALSE
    <3>1. a \in DOMAIN N \ {End}
      BY <1>1 DEF FreeBut, Chain
    <3> QED  BY <1>1, <2>3, <3>1, ChainOrder
  <2>4. Apart(N, X)
    BY DEF Whole
  <2> QED  BY <2>1, <2>2, <2>3, <2>4 DEF Apart
<1> HIDE DEF N
<1>8. IsHeap([node |-> N, free |-> G])
  BY <1>1, <1>5 DEF IsHeap
<1>9. Lists([node |-> N, free |-> G], X \ {q})
  BY <1>6 DEF Lists
<1> QED  BY <1>1, <1>3, <1>7, <1>8, <1>9 DEF Whole, N

\* A node that is on no list becomes part of the node before it, which is on none either.
LEMMA MergedWhole ==
  ASSUME NEW H, NEW X, Whole(H, X), NEW q \in X, q \in DOMAIN H.node \ {First, End},
         H.node[q].pre \notin FreeBut(H.node, X)
  PROVE  /\ Whole(MergeNode(H, q), X \ {q})
         /\ FreeBut(MergeNode(H, q).node, X \ {q}) = FreeBut(H.node, X)
<1> DEFINE N == H.node
           p == N[q].pre
           G == MergeNode(H, q)
           M == G.node
<1>1. /\ IsHeap(H) /\ IsHeap(G) /\ Chain(N) /\ Chain(M) /\ G.free = H.free
      /\ Apart(N, X) /\ Lists(H, X)
      /\ DOMAIN M = DOMAIN N \ {q} /\ p \in DOMAIN N \ {q, End} /\ NextOf(N, p) = q
      /\ \A b \in DOMAIN M : M[b].used = N[b].used
      /\ \A b \in DOMAIN M \ {p} : M[b].size = N[b].size /\ NextOf(M, b) = NextOf(N, b)
  BY MergedHeaders, MergedChain DEF Whole
<1> HIDE DEF G
<1>2. FreeBut(M, X \ {q}) = FreeBut(N, X) /\ p \notin FreeBut(N, X)
  BY <1>1 DEF FreeBut
<1>3. Apart(M, X \ {q})
  <2>1. \A b \in FreeBut(N, X) : b \in DOMAIN M \ {p}
    BY <1>1, <1>2 DEF FreeBut
  <2> QED  BY <1>1, <1>2, <2>1 DEF Apart
<1>4. ASSUME NEW k \in Class PROVE OfClass(M, X \ {q}, k) = OfClass(N, X, k)
  <2>1. \A b \in FreeBut(N, X) : M[b].size = N[b].size
    BY <1>1, <1>2 DEF FreeBut
  <2> QED  BY <1>2, <2>1 DEF OfClass
<1>5. Lists(G, X \ {q})
  BY <1>1, <1>4 DEF Lists
<1> QED  BY <1>1, <1>2, <1>3, <1>5 DEF Whole, G

\* The used nodes of M are those of N, with the sizes they had; so for a, but for its size.
KeepsUsed(N, M, a) ==
  /\ \A b : b \in DOMAIN N /\ N[b].used <=> b \in DOMAIN M /\ M[b].used
  /\ \A b \in DOMAIN N : N[b].used /\ b # a => M[b].size = N[b].size

\* Of the nodes that are not on lists, M has those of N, with the sizes they had but for a.
KeepsOthers(N, M, X, a) ==
  /\ \A b \in DOMAIN M : M[b].used => b \in DOMAIN N /\ N[b].used
  /\ \A b \in DOMAIN N \ FreeBut(N, X) :
       b \in DOMAIN M /\ M[b].used = N[b].used /\ (b # a => M[b].size = N[b].size)

LEMMA KeepsOthersUsed ==
  ASSUME NEW N, NEW M, NEW X, NEW a, KeepsOthers(N, M, X, a)
  PROVE  KeepsUsed(N, M, a)
BY DEF KeepsOthers, KeepsUsed, FreeBut

\* a, on no list, takes in what is free behind it: what is behind it then is not free.
LEMMA MergeNextWhole ==
  ASSUME NEW H, NEW X, Whole(H, X), NEW a \in DOMAIN H.node \ {End},
         a \notin FreeBut(H.node, X), NextOf(H.node, a) \notin X
  PROVE  LET N == H.node
             next == NextOf(N, a)
             M == MergeNext(H, a).node
         IN /\ Whole(MergeNext(H, a), X) /\ KeepsOthers(N, M, X, a)
            /\ a \in DOMAIN M /\ M[a].used = N[a].used /\ M[a].pre = N[a].pre
            /\ M[a].size = IF N[next].used THEN N[a].size ELSE N[a].size + N[next].size
            /\ NextOf(M, a) \notin FreeBut(M, X) /\ FreeBut(M, X) \subseteq FreeBut(N, X)
<1> DEFINE N == H.node
           q == NextOf(N, a)
           O == Delisted(H, q)
           G == MergeNext(H, a)
           M == G.node
<1>1. N \in Headers /\ Chain(N) /\ a \in DOMAIN N \ {End}
  BY DEF Whole, IsHeap
<1>2. q \in DOMAIN N \ {First} /\ q # a /\ N[q].pre = a
  BY <1>1, ChainOrder
<1>3. CASE N[q].used
  <2>1. G = H
    BY <1>3 DEF MergeNext
  <2> QED  BY <1>1, <1>3, <2>1 DEF FreeBut, KeepsOthers
<1>4. CASE ~N[q].used
  <2>1. q \in FreeBut(N, X) /\ q \in DOMAIN N \ {First, End}
    BY <1>1, <1>2, <1>4 DEF FreeBut, Chain
  <2>2. Whole(O, X \cup {q}) /\ O.node = N
    BY <2>1, DelistedWhole
  <2>3. G = MergeNode(O, q)
    BY <1>4 DEF MergeNext
  <2> HIDE DEF O, G
  <2>4. O.node[q].pre \notin FreeBut(O.node, X \cup {q})
    BY <1>2, <2>2 DEF FreeBut
  <2>5. (X \cup {q}) \ {q} = X
    BY <2>1 DEF FreeBut
  <2>6. Whole(G, X) /\ FreeBut(M, X) = FreeBut(N, X \cup {q})
    <3>1. /\ Whole(MergeNode(O, q), (X \cup {q}) \ {q})
          /\ FreeBut(MergeNode(O, q).node, (X \cup {q}) \ {q}) = FreeBut(O.node, X \cup {q})
      BY <2>1, <2>2, <2>4, MergedWhole
    <3> QED  BY <2>2, <2>3, <2>5, <3>1
  <2>7. /\ DOMAIN M = DOMAIN N \ {q}
        /\ \A b \in DOMAIN M :
             /\ M[b].used = N[b].used
             /\ M[b].size = IF b = a THEN N[a].size + N[q].size ELSE N[b].size
             /\ M[b].pre = IF b = NextOf(N, q) THEN a ELSE N[b].pre
        /\ NextOf(M, a) = NextOf(N, q)
    <3>1. IsHeap(O) /\ Chain(O.node) /\ q \in DOMAIN O.node \ {First, End}
      BY <2>1, <2>2 DEF Whole
    <3> QED  BY <1>2, <2>2, <2>3, <3>1, MergedHeaders, MergedChain
  <2>8. a # NextOf(N, q)
    <3>1. a < q /\ q < NextOf(N, q) /\ a \in Nat /\ q \in Nat /\ NextOf(N, q) \in Nat
      BY <1>1, <2>1, ChainOrder, HeaderFacts, HeapConstants
    <3> QED  BY <3>1
  <2>9. NextOf(M, a) \notin FreeBut(M, X)
    BY <2>1, <2>6, <2>7 DEF Whole, Apart, FreeBut
  <2>10. KeepsOthers(N, M, X, a)
    BY <2>1, <2>7 DEF KeepsOthers, FreeBut
  <2>11. FreeBut(M, X) \subseteq FreeBut(N, X)
    BY <2>6 DEF FreeBut
  <2> QED  BY <1>1, <1>2, <1>4, <2>6, <2>7, <2>8, <2>9, <2>10, <2>11 DEF G
<1> QED  BY <1>3, <1>4
-----------------------------------------------------------------------------
\* osMemSpitNode up to the merge, header by header: the rest of a is a node of its own,
\* on no list.
Cut(H, a, n) ==
  [H EXCEPT !.node = [b \in DOMAIN H.node \cup {a + n} |->
     IF b = a + n THEN [size |-> H.node[a].size - n, used |-> FALSE, pre |-> a]
     ELSE IF b = a THEN [H.node[a] EXCEPT !.size = n]
     ELSE IF b = NextOf(H.node, a) THEN [H.node[b] EXCEPT !.pre = a + n]
     ELSE H.node[b]]]

LEMMA CutHeaders ==
  ASSUME NEW H, IsHeap(H), Chain(H.node), NEW a \in DOMAIN H.node \ {End}, NEW n \in Nat,
         n > Head_, Splits(H.node[a].size, n)
  PROVE  LET N == H.node
             rest == a + n
             M == Cut(H, a, n).node
         IN /\ IsHeap(Cut(H, a, n)) /\ Cut(H, a, n).free = H.free
            /\ rest \notin DOMAIN N /\ rest \in Nat /\ a < rest /\ rest < NextOf(N, a)
            /\ DOMAIN M = DOMAIN N \cup {rest}
            /\ M[rest].size = N[a].size - n /\ ~M[rest].used /\ M[rest].pre = a
            /\ \A b \in DOMAIN N :
                 /\ M[b].used = N[b].used
                 /\ M[b].size = IF b = a THEN n ELSE N[b].size
                 /\ M[b].pre = IF b = NextOf(N, a) THEN rest ELSE N[b].pre
<1> DEFINE N == H.node
           rest == a + n
           r == NextOf(N, a)
           M == Cut(H, a, n).node
           P == [b \in DOMAIN N \cup {rest} |->
                  IF b = rest THEN [size |-> N[a].size - n, used |-> FALSE, pre |-> a]
                  ELSE IF b = a THEN [N[a] EXCEPT !.size = n]
                  ELSE IF b = r THEN [N[b] EXCEPT !.pre = rest]
                  ELSE N[b]]
<1>1. N \in Headers /\ N \in [DOMAIN N -> NodeSet] /\ DOMAIN N \subseteq Addr
      /\ H.free \in [Class -> Seq(Addr)] /\ H = [node |-> N, free |-> H.free]
  BY HeaderFacts DEF IsHeap
<1>2. Cut(H, a, n) = [H EXCEPT !.node = P]
  BY DEF Cut
<1>3. Cut(H, a, n) = [node |-> P, free |-> H.free]
  <2> HIDE DEF P, N
  <2> QED  BY <1>1, <1>2
<1>4. M = P
  <2> HIDE DEF P
  <2> QED  BY <1>3
<1> HIDE DEF N, M
<1>5. /\ a \in Nat /\ N[a].size \in Nat /\ r = a + N[a].size /\ r \in DOMAIN N
      /\ First <= a /\ r <= End /\ r # a
      /\ \A b \in DOMAIN N : b \in Nat /\ (b <= a \/ r <= b)
  BY <1>1, HeaderFacts, ChainOrder DEF N
<1>6. rest \in Nat /\ a < rest /\ rest < r /\ rest \notin DOMAIN N /\ rest \in Addr
      /\ N[a].size - n \in Nat
  BY <1>5, HeapConstants DEF Splits, Addr, N
<1> HIDE DEF rest, r
<1>7. P[rest] = [size |-> N[a].size - n, used |-> FALSE, pre |-> a] /\ P[rest] \in NodeSet
  BY <1>1, <1>6 DEF NodeSet
<1>8. \A b \in DOMAIN N :
         /\ P[b] \in NodeSet
         /\ P[b].used = N[b].used
         /\ P[b].size = IF b = a THEN n ELSE N[b].size
         /\ P[b].pre = IF b = r THEN rest ELSE N[b].pre
  BY <1>1, <1>5, <1>6 DEF NodeSet
<1>9. P \in [DOMAIN N \cup {rest} -> NodeSet] /\ DOMAIN P = DOMAIN N \cup {rest}
  BY <1>7, <1>8
<1> HIDE DEF P
<1>10. P \in Headers
  <2> DEFINE D == DOMAIN N \cup {rest}
  <2>1. D \in SUBSET Addr /\ First \in D /\ End \in D
    BY <1>1, <1>6, HeaderFacts
  <2>2. P \in [D -> NodeSet] /\ DOMAIN P = D
    BY <1>9
  <2> HIDE DEF D
  <2> QED  BY <2>1, <2>2 DEF Headers
<1>11. IsHeap(Cut(H, a, n)) /\ Cut(H, a, n).free = H.free
  BY <1>1, <1>3, <1>10 DEF IsHeap
<1> QED  BY <1>4, <1>6, <1>7, <1>8, <1>9, <1>11 DEF N, M, rest, r

\* After the cut, the nodes tile the pool, and the pool is in order but for the rest.
LEMMA CutWhole ==
  ASSUME NEW H, NEW X, Whole(H, X), NEW a \in DOMAIN H.node \ {End}, NEW n \in Nat,
         n > Head_, Splits(H.node[a].size, n), a \notin FreeBut(H.node, X),
         X \subseteq DOMAIN H.node
  PROVE  LET N == H.node
             M == Cut(H, a, n).node
         IN /\ Whole(Cut(H, a, n), X \cup {a + n})
            /\ NextOf(M, a) = a + n /\ NextOf(M, a + n) = NextOf(N, a)
            /\ KeepsUsed(N, M, a)
<1> DEFINE N == H.node
           rest == a + n
           r == NextOf(N, a)
           G == Cut(H, a, n)
           M == G.node
<1>1. /\ N \in Headers /\ M \in Headers /\ Chain(N) /\ IsHeap(G) /\ G.free = H.free
      /\ Apart(N, X) /\ Lists(H, X) /\ a \in DOMAIN N \ {End}
      /\ rest \notin DOMAIN N /\ rest \in Nat /\ a < rest /\ rest < r /\ rest = a + n
      /\ DOMAIN M = DOMAIN N \cup {rest}
      /\ M[rest].size = N[a].size - n /\ ~M[rest].used /\ M[rest].pre = a
      /\ \A b \in DOMAIN N :
           /\ M[b].used = N[b].used
           /\ M[b].size = IF b = a THEN n ELSE N[b].size
           /\ M[b].pre = IF b = r THEN rest ELSE N[b].pre
  BY CutHeaders DEF Whole, IsHeap
<1>1a. r = NextOf(N, a)
  OBVIOUS
<1> HIDE DEF N, G, rest, r
<1>2. /\ r \in DOMAIN N \ {First} /\ r # a /\ a \in Nat /\ r \in Nat /\ N[a].size \in Nat
      /\ r = a + N[a].size /\ \A b \in DOMAIN N : b \in Nat /\ (b <= a \/ r <= b)
  BY <1>1, <1>1a, ChainOrder, HeaderFacts
<1>3. NextOf(M, a) = rest /\ NextOf(M, rest) = r
  BY <1>1, <1>2 DEF NextOf
<1>4. \A b \in DOMAIN N \ {a} : NextOf(M, b) = NextOf(N, b)
  BY <1>1 DEF NextOf
<1>5. M[First].pre = Null /\ M[End].used /\ First \in DOMAIN N /\ End \in DOMAIN N
  BY <1>1, <1>2, HeaderFacts DEF Chain
<1>6. ASSUME NEW c \in DOMAIN M \ {End}
      PROVE  /\ M[c].size > Head_ /\ NextOf(M, c) \in DOMAIN M /\ M[NextOf(M, c)].pre = c
             /\ \A b \in DOMAIN M : ~(c < b /\ b < NextOf(M, c))
  <2>1. CASE c = a
    BY <1>1, <1>2, <1>3, <2>1
  <2>2. CASE c = rest
    <3>1. M[rest].size > Head_
      BY <1>1, <1>2, HeapConstants DEF Splits, N
    <3> QED  BY <1>1, <1>2, <1>3, <2>2, <3>1
  <2>3. CASE c # a /\ c # rest
    <3>1. /\ c \in DOMAIN N \ {End}
          /\ N[c].size > Head_ /\ NextOf(N, c) \in DOMAIN N /\ N[NextOf(N, c)].pre = c
          /\ \A b \in DOMAIN N : ~(c < b /\ b < NextOf(N, c))
      BY <1>1, <2>3 DEF Chain
    <3>2. NextOf(N, c) # r
      BY <1>1, <1>1a, <2>3, <3>1, ChainOrder
    <3>3. ~(c < rest /\ rest < NextOf(N, c))
      <4>1. c <= a \/ r <= c
        BY <1>2, <3>1
      <4>2. ~(c < a /\ a < NextOf(N, c)) /\ c \in Nat /\ NextOf(N, c) \in Nat
            /\ (NextOf(N, c) <= a \/ r <= NextOf(N, c))
        BY <1>1, <1>2, <3>1
      <4> QED  BY <1>1, <1>2, <2>3, <4>1, <4>2
    <3> QED  BY <1>1, <1>4, <2>3, <3>1, <3>2, <3>3
  <2> QED  BY <2>1, <2>2, <2>3
<1>7. ASSUME NEW b \in DOMAIN M \ {First}
      PROVE  M[b].pre \in DOMAIN M \ {End} /\ NextOf(M, M[b].pre) = b
  <2>1. CASE b = r
    BY <1>1, <1>2, <1>3, <1>5, <2>1
  <2>2. CASE b = rest
    BY <1>1, <1>2, <1>3, <1>5, <2>2
  <2>3. CASE b # r /\ b # rest
    <3>1. /\ M[b].pre = N[b].pre /\ N[b].pre \in DOMAIN N \ {End}
          /\ NextOf(N, N[b].pre) = b
      BY <1>1, <2>3 DEF Chain
    <3>2. N[b].pre # a
      BY <1>1, <1>1a, <2>3, <3>1
    <3> QED  BY <1>1, <1>4, <3>1, <3>2
  <2> QED  BY <2>1, <2>2, <2>3
<1>8. Chain(M)
  BY <1>5, <1>6, <1>7 DEF Chain
<1>9. FreeBut(M, X \cup {rest}) = FreeBut(N, X) /\ a \notin FreeBut(N, X)
  BY <1>1 DEF FreeBut, N
<1>10. Apart(M, X \cup {rest})
  BY <1>1, <1>4, <1>9 DEF Apart, FreeBut
<1>11. ASSUME NEW k \in Class PROVE OfClass(M, X \cup {rest}, k) = OfClass(N, X, k)
  <2>1. \A b \in FreeBut(N, X) : M[b].size = N[b].size
    BY <1>1, <1>9 DEF FreeBut
  <2> QED  BY <1>9, <2>1 DEF OfClass
<1>12. Lists(G, X \cup {rest})
  BY <1>1, <1>11 DEF Lists, N
<1>13. KeepsUsed(N, M, a)
  BY <1>1 DEF KeepsUsed
<1> QED  BY <1>1, <1>1a, <1>3, <1>8, <1>10, <1>12, <1>13 DEF Whole, N, G, rest

\* osMemSpitNode: a, on no list, keeps n words, and all behind it up to the next node that
\* is used is one free node on its list.
LEMMA SplitWhole ==
  ASSUME NEW H, NEW X, Whole(H, X), NEW a \in DOMAIN H.node \ {End}, NEW n \in Nat,
         n > Head_, Splits(H.node[a].size, n), a \notin FreeBut(H.node, X), X \subseteq {a}
  PROVE  LET N == H.node
             M == SplitNode(H, a, n).node
         IN /\ Whole(SplitNode(H, a, n), X) /\ KeepsUsed(N, M, a)
            /\ a \in DOMAIN M /\ M[a].used = N[a].used /\ M[a].size = n
<1> DEFINE N == H.node
           rest == a + n
           C == Cut(H, a, n)
           G == MergeNext(C, rest)
           K == Listed(G, rest)
<1>1. SplitNode(H, a, n) = K
  BY DEF SplitNode, Cut
<1>2. /\ Whole(C, X \cup {rest}) /\ KeepsUsed(N, C.node, a)
      /\ NextOf(C.node, a) = rest /\ NextOf(C.node, rest) = NextOf(N, a)
  BY CutWhole
<1>3. /\ rest \in DOMAIN C.node \ {End} /\ rest \notin DOMAIN N /\ ~C.node[rest].used
      /\ C.node[rest].pre = a /\ a \in DOMAIN C.node /\ a # rest
      /\ C.node[a].used = N[a].used /\ C.node[a].size = n /\ C.node \in Headers
      /\ DOMAIN C.node = DOMAIN N \cup {rest}
  <2>1. IsHeap(H) /\ Chain(N) /\ End \in DOMAIN N
    BY HeaderFacts DEF Whole, IsHeap
  <2> QED  BY <2>1, CutHeaders DEF IsHeap
<1> HIDE DEF C, rest
<1>4. NextOf(C.node, rest) \notin X \cup {rest}
  <2>1. NextOf(C.node, rest) # rest
    BY <1>2, <1>3, ChainOrder DEF Whole
  <2>2. NextOf(C.node, rest) # a
    BY <1>2, ChainOrder DEF Whole, IsHeap
  <2> QED  BY <2>1, <2>2
<1>5. rest \notin FreeBut(C.node, X \cup {rest})
  BY DEF FreeBut
<1>6. /\ Whole(G, X \cup {rest}) /\ KeepsOthers(C.node, G.node, X \cup {rest}, rest)
      /\ rest \in DOMAIN G.node /\ G.node[rest].used = C.node[rest].used
      /\ G.node[rest].pre = C.node[rest].pre
      /\ NextOf(G.node, rest) \notin FreeBut(G.node, X \cup {rest})
      /\ FreeBut(G.node, X \cup {rest}) \subseteq FreeBut(C.node, X \cup {rest})
  <2> DEFINE Y == X \cup {rest}
  <2>1. Whole(C, Y) /\ rest \in DOMAIN C.node \ {End} /\ rest \notin FreeBut(C.node, Y)
        /\ NextOf(C.node, rest) \notin Y
    BY <1>2, <1>3, <1>4, <1>5
  <2> HIDE DEF Y
  <2>2. /\ Whole(G, Y) /\ KeepsOthers(C.node, G.node, Y, rest)
        /\ rest \in DOMAIN G.node /\ G.node[rest].used = C.node[rest].used
        /\ G.node[rest].pre = C.node[rest].pre
        /\ NextOf(G.node, rest) \notin FreeBut(G.node, Y)
        /\ FreeBut(G.node, Y) \subseteq FreeBut(C.node, Y)
    BY <2>1, MergeNextWhole
  <2> QED  BY <2>2 DEF Y
<1> HIDE DEF G
<1>7. a \notin FreeBut(C.node, X \cup {rest})
  BY <1>3 DEF FreeBut
<1>8. a \in DOMAIN G.node /\ G.node[a].used = N[a].used /\ G.node[a].size = n
  BY <1>3, <1>6, <1>7 DEF KeepsOthers
<1>9. G.node[rest].pre \notin FreeBut(G.node, X \cup {rest})
  BY <1>3, <1>6, <1>7
<1>10. Whole(K, (X \cup {rest}) \ {rest}) /\ K.node = G.node
  BY <1>3, <1>6, <1>9, ListedWhole
<1>11. (X \cup {rest}) \ {rest} = X
  BY <1>3
<1>12. KeepsUsed(N, G.node, a)
  <2>1. KeepsUsed(C.node, G.node, rest)
    BY <1>6, KeepsOthersUsed
  <2> QED  BY <1>2, <1>3, <2>1 DEF KeepsUsed
<1> QED  BY <1>1, <1>8, <1>10, <1>11, <1>12
-----------------------------------------------------------------------------
\* OS_MEM_NODE_SET_USED_FLAG and its inverse.
Mark(H, a, u) == [H EXCEPT !.node[a].used = u]

\* The flag is changed of a node on no list.
LEMMA MarkedWhole ==
  ASSUME NEW H, NEW a, NEW X \in SUBSET {a}, NEW Y \in SUBSET {a}, NEW u \in BOOLEAN,
         Whole(H, X), a \in DOMAIN H.node \ {End}, a \notin FreeBut(H.node, X), u \/ a \in Y
  PROVE  LET N == H.node
             G == Mark(H, a, u)
         IN /\ Whole(G, Y) /\ DOMAIN G.node = DOMAIN N
            /\ G.node[a].used <=> u
            /\ \A b \in DOMAIN N \ {a} : G.node[b].used = N[b].used
            /\ \A b \in DOMAIN N : G.node[b].size = N[b].size
<1> DEFINE N == H.node
           G == Mark(H, a, u)
           P == [N EXCEPT ![a].used = u]
<1>1. /\ N \in Headers /\ N \in [DOMAIN N -> NodeSet] /\ H = [node |-> N, free |-> H.free]
      /\ H.free \in [Class -> Seq(Addr)] /\ Chain(N) /\ Apart(N, X) /\ Lists(H, X)
      /\ First \in DOMAIN N /\ End \in DOMAIN N /\ DOMAIN N \subseteq Addr
  BY HeaderFacts DEF Whole, IsHeap
<1>2. G = [H EXCEPT !.node = P]
  BY <1>1 DEF Mark
<1>3. G = [node |-> P, free |-> H.free]
  <2> HIDE DEF P, N, G
  <2> QED  BY <1>1, <1>2
<1>4. G.node = P /\ G.free = H.free
  <2> HIDE DEF P, G
  <2> QED  BY <1>3
<1> HIDE DEF N, G
<1>5. /\ DOMAIN P = DOMAIN N
      /\ \A b \in DOMAIN N : /\ P[b] \in NodeSet
                             /\ P[b].used = IF b = a THEN u ELSE N[b].used
                             /\ P[b].size = N[b].size
                             /\ P[b].pre = N[b].pre
  BY <1>1 DEF NodeSet
<1>6. P \in [DOMAIN N -> NodeSet]
  BY <1>5
<1> HIDE DEF P
<1>7. P \in Headers
  <2>1. DOMAIN N \in SUBSET Addr
    BY <1>1
  <2> QED  BY <1>1, <1>5, <1>6, <2>1 DEF Headers
<1>8. IsHeap(G)
  BY <1>1, <1>3, <1>4, <1>7 DEF IsHeap
<1>9. \A b \in DOMAIN N : NextOf(P, b) = NextOf(N, b)
  BY <1>5 DEF NextOf
<1>10. Chain(P)
  <2>1. P[First].pre = Null /\ P[End].used
    BY <1>1, <1>5 DEF Chain, N
  <2>2. ASSUME NEW c \in DOMAIN P \ {End}
        PROVE  /\ P[c].size > Head_ /\ NextOf(P, c) \in DOMAIN P /\ P[NextOf(P, c)].pre = c
               /\ \A b \in DOMAIN P : ~(c < b /\ b < NextOf(P, c))
    BY <1>1, <1>5, <1>9 DEF Chain
  <2>3. \A b \in DOMAIN P \ {First} :
          P[b].pre \in DOMAIN P \ {End} /\ NextOf(P, P[b].pre) = b
    BY <1>1, <1>5, <1>9 DEF Chain
  <2> QED  BY <2>1, <2>2, <2>3 DEF Chain
<1>11. FreeBut(P, Y) = FreeBut(N, X)
  BY <1>1, <1>5 DEF FreeBut, N
<1>12. Apart(P, Y)
  BY <1>1, <1>9, <1>11 DEF Apart, FreeBut
<1>13. ASSUME NEW k \in Class PROVE OfClass(P, Y, k) = OfClass(N, X, k)
  BY <1>5, <1>11 DEF OfClass, FreeBut
<1>14. Lists(G, Y)
  BY <1>1, <1>4, <1>13 DEF Lists, N
<1> QED  BY <1>4, <1>5, <1>8, <1>10, <1>12, <1>14 DEF Whole, N, G
-----------------------------------------------------------------------------
\* osMemFindSuitableFreeBlock finds a free node that is large enough, if there is one.
LEMMA SuitableFree ==
  ASSUME NEW H, Whole(H, {}), NEW n \in Nat
  PROVE  LET a == Suitable(H, n)
         IN IF a = Null THEN \A b \in FreeBut(H.node, {}) : H.node[b].size < n
            ELSE a \in FreeBut(H.node, {}) /\ H.node[a].size >= n
<1> DEFINE N == H.node
           L == H.free
           fit == {c \in Candidates(L, n) : N[L[c[1]][c[2]]].size >= n}
           Before(c, d) == c[1] < d[1] \/ (c[1] = d[1] /\ c[2] <= d[2])
           best == CHOOSE c \in fit : \A d \in fit : Before(c, d)
           a == Suitable(H, n)
<1>1. N \in Headers /\ L \in [Class -> Seq(Addr)] /\ Class \subseteq Nat
  BY HeapConstants DEF Whole, IsHeap
<1>2. a = IF fit = {} THEN Null ELSE L[best[1]][best[2]]
  BY DEF Suitable
<1>3. \A c : c \in fit <=> /\ c \in Candidates(L, n)
                           /\ N[L[c[1]][c[2]]].size >= n
  OBVIOUS
<1>4. ASSUME NEW c \in Candidates(L, n)
      PROVE  /\ c[1] \in Class /\ c[1] \in Nat /\ c[2] \in Nat
             /\ L[c[1]][c[2]] \in FreeBut(N, {})
  <2>1. PICK k \in ClassesFrom(n) : c \in {k} \X DOMAIN L[k]
    BY DEF Candidates
  <2>2. k \in Class /\ c[1] = k /\ c[2] \in DOMAIN L[k] /\ L[k] \in Seq(Addr)
    BY <1>1, <2>1 DEF ClassesFrom
  <2>3. c[2] \in 1..Len(L[k]) /\ Len(L[k]) \in Nat /\ L[k][c[2]] \in ToSet(L[k])
    BY <2>2, InToSet
  <2>4. L[k][c[2]] \in FreeBut(N, {})
    BY <2>2, <2>3 DEF Whole, Lists, OfClass
  <2> QED  BY <1>1, <2>2, <2>3, <2>4
<1>5. ASSUME NEW b \in FreeBut(N, {}), N[b].size >= n
      PROVE  fit # {}
  <2>1. b \in DOMAIN N \ {End} /\ Chain(N)
    BY DEF FreeBut, Whole, Chain
  <2>2. N[b].size \in Nat /\ N[b].size <= Pool
    BY <1>1, <2>1, ChainOrder, HeaderFacts
  <2>3. ClassOf(N[b].size) \in ClassesFrom(n) /\ ClassOf(N[b].size) \in Class
    BY <1>5, <2>2, ClassExists
  <2>4. PICK k \in ClassesFrom(n) : k \in Class /\ b \in ToSet(L[k])
    BY <2>3 DEF Whole, Lists, OfClass
  <2>5. PICK i \in DOMAIN L[k] : L[k][i] = b
    BY <2>4 DEF ToSet
  <2>6. <<k, i>> \in {k} \X DOMAIN L[k]
    OBVIOUS
  <2>7. <<k, i>> \in Candidates(L, n)
    BY <2>6 DEF Candidates
  <2> QED  BY <1>3, <1>5, <2>5, <2>7
<1>6. ASSUME fit # {} PROVE best \in fit
  <2> DEFINE K == {c[1] : c \in fit}
  <2> HIDE DEF fit, Before
  <2>1. K \in SUBSET Nat /\ K # {}
    BY <1>3, <1>4, <1>6
  <2>2. PICK j \in K : \A k \in K : j <= k
    BY <2>1, MinExists
  <2> DEFINE I == {c[2] : c \in {d \in fit : d[1] = j}}
  <2>3. I \in SUBSET Nat /\ I # {}
    BY <1>3, <1>4, <2>2
  <2>4. PICK i \in I : \A k \in I : i <= k
    BY <2>3, MinExists
  <2>5. PICK c \in fit : c[1] = j /\ c[2] = i
    BY <2>4
  <2>6. ASSUME NEW d \in fit PROVE Before(c, d)
    <3>1. d[1] \in K /\ d[1] \in Nat /\ j \in Nat
      BY <1>3, <1>4, <2>1, <2>2
    <3>2. CASE d[1] = j
      <4>1. d[2] \in I
        BY <3>2
      <4> QED  BY <2>4, <2>5, <3>2, <4>1 DEF Before
    <3>3. CASE d[1] # j
      BY <2>2, <2>5, <3>1, <3>3 DEF Before
    <3> QED  BY <3>2, <3>3
  <2>7. \E e \in fit : \A d \in fit : Before(e, d)
    BY <2>5, <2>6
  <2> QED  BY <2>7
<1>7. CASE fit = {}
  <2>1. a = Null
    BY <1>2, <1>7
  <2>2. \A b \in FreeBut(N, {}) : N[b].size \in Nat
    BY <1>1, HeaderFacts DEF FreeBut
  <2> HIDE DEF a, fit
  <2>3. \A b \in FreeBut(N, {}) : N[b].size < n
    BY <1>5, <1>7, <2>2
  <2> QED  BY <2>1, <2>3 DEF a
<1>8. CASE fit # {}
  <2> HIDE DEF fit, best
  <2>1. best \in fit /\ a = L[best[1]][best[2]]
    BY <1>2, <1>6, <1>8
  <2> HIDE DEF a
  <2>2. a \in FreeBut(N, {}) /\ N[a].size >= n
    BY <1>3, <1>4, <2>1
  <2>3. a # Null
    BY <1>1, <2>2, HeaderFacts, HeapConstants DEF FreeBut
  <2> QED  BY <2>2, <2>3 DEF a
<1> QED  BY <1>7, <1>8
-----------------------------------------------------------------------------
\* The used nodes of M are those of N and a.
Takes(N, M, a) ==
  /\ \A b : b \in DOMAIN M /\ M[b].used <=> b = a \/ (b \in DOMAIN N /\ N[b].used)
  /\ \A b \in DOMAIN N : N[b].used => M[b].size = N[b].size

\* The used nodes of M are those of N but for a.
Gives(N, M, a) ==
  /\ \A b : b \in DOMAIN M /\ M[b].used <=> b # a /\ b \in DOMAIN N /\ N[b].used
  /\ \A b \in DOMAIN N : N[b].used /\ b # a => M[b].size = N[b].size

\* osMemAllocWithCheck: the pool is in order again, and a is used.
LEMMA AllocatedWhole ==
  ASSUME NEW H, Whole(H, {}), NEW a \in FreeBut(H.node, {}), NEW n \in Nat, n > Head_,
         H.node[a].size >= n
  PROVE  LET M == Allocated(H, a, n).node
         IN /\ Whole(Allocated(H, a, n), {}) /\ Takes(H.node, M, a)
            /\ a \in DOMAIN M \ {End} /\ M[a].size >= n
<1> DEFINE N == H.node
           O == Delisted(H, a)
           C == IF Splits(N[a].size, n) THEN SplitNode(O, a, n) ELSE O
           G == Mark(C, a, TRUE)
<1>1. Allocated(H, a, n) = G
  BY DEF Allocated, Mark
<1>2. Whole(O, {a}) /\ O.node = N
  <2>1. {} \cup {a} = {a}
    OBVIOUS
  <2> QED  BY <2>1, DelistedWhole
<1>3. a \in DOMAIN N \ {End} /\ ~N[a].used /\ a \notin FreeBut(N, {a}) /\ N[a].size \in Nat
  BY HeaderFacts DEF FreeBut, Whole, Chain, IsHeap
<1> HIDE DEF O
<1>4. /\ Whole(C, {a}) /\ KeepsUsed(N, C.node, a)
      /\ a \in DOMAIN C.node \ {End} /\ ~C.node[a].used /\ C.node[a].size >= n
  <2>1. CASE Splits(N[a].size, n)
    <3>1. C = SplitNode(O, a, n)
      BY <2>1
    <3>2. /\ Whole(SplitNode(O, a, n), {a})
          /\ KeepsUsed(O.node, SplitNode(O, a, n).node, a)
          /\ a \in DOMAIN SplitNode(O, a, n).node
          /\ SplitNode(O, a, n).node[a].used = O.node[a].used
          /\ SplitNode(O, a, n).node[a].size = n
      BY <1>2, <1>3, <2>1, SplitWhole
    <3> QED  BY <1>2, <1>3, <3>1, <3>2
  <2>2. CASE ~Splits(N[a].size, n)
    <3>1. C = O
      BY <2>2
    <3> QED  BY <1>2, <1>3, <3>1 DEF KeepsUsed
  <2> QED  BY <2>1, <2>2
<1> HIDE DEF C
<1>5. /\ Whole(G, {}) /\ DOMAIN G.node = DOMAIN C.node
      /\ \A b \in DOMAIN C.node :
           /\ b # a => G.node[b].used = C.node[b].used
           /\ G.node[b].size = C.node[b].size
      /\ G.node[a].used
  <2> DEFINE X == {a}
             Y == {}
  <2>1. /\ X \in SUBSET {a} /\ Y \in SUBSET {a} /\ a \notin FreeBut(C.node, X)
        /\ Whole(C, X)
    BY <1>4 DEF FreeBut
  <2> HIDE DEF X, Y
  <2>2. Whole(G, Y)
    BY <1>4, <2>1, MarkedWhole
  <2>3. /\ DOMAIN G.node = DOMAIN C.node
        /\ \A b \in DOMAIN C.node :
             /\ b # a => G.node[b].used = C.node[b].used
             /\ G.node[b].size = C.node[b].size
        /\ G.node[a].used
    <3>1. DOMAIN G.node = DOMAIN C.node
      BY <1>4, <2>1, MarkedWhole
    <3>2. G.node[a].used
      BY <1>4, <2>1, MarkedWhole
    <3>3. \A b \in DOMAIN C.node \ {a} : G.node[b].used = C.node[b].used
      BY <1>4, <2>1, MarkedWhole
    <3>4. \A b \in DOMAIN C.node : G.node[b].size = C.node[b].size
      BY <1>4, <2>1, MarkedWhole
    <3> QED  BY <3>1, <3>2, <3>3, <3>4
  <2> QED  BY <2>2, <2>3 DEF Y
<1> HIDE DEF G
<1>6. Takes(N, G.node, a)
  BY <1>3, <1>4, <1>5 DEF Takes, KeepsUsed
<1> QED  BY <1>1, <1>4, <1>5, <1>6 DEF G

\* osMemFreeNode: the pool is in order again, and a is not used.
LEMMA FreedWhole ==
  ASSUME NEW H, Whole(H, {}), NEW a \in DOMAIN H.node \ {End}, H.node[a].used
  PROVE  Whole(FreeNode(H, a), {}) /\ Gives(H.node, FreeNode(H, a).node, a)
<1> DEFINE N == H.node
           G == Mark(H, a, FALSE)
           p == G.node[a].pre
<1>1. /\ Whole(G, {a}) /\ DOMAIN G.node = DOMAIN N
      /\ \A b \in DOMAIN N : /\ b # a => G.node[b].used = N[b].used
                             /\ G.node[b].size = N[b].size
      /\ ~G.node[a].used
  <2> DEFINE X == {}
             Y == {a}
  <2>1. /\ X \in SUBSET {a} /\ Y \in SUBSET {a} /\ a \notin FreeBut(N, X) /\ a \in Y
        /\ Whole(H, X)
    BY DEF FreeBut
  <2> HIDE DEF X, Y
  <2>2. Whole(G, Y)
    BY <2>1, MarkedWhole
  <2>3. /\ DOMAIN G.node = DOMAIN N
        /\ \A b \in DOMAIN N : /\ b # a => G.node[b].used = N[b].used
                               /\ G.node[b].size = N[b].size
        /\ ~G.node[a].used
    <3>1. DOMAIN G.node = DOMAIN N
      BY <2>1, MarkedWhole
    <3>2. ~G.node[a].used
      BY <2>1, MarkedWhole
    <3>3. \A b \in DOMAIN N \ {a} : G.node[b].used = N[b].used
      BY <2>1, MarkedWhole
    <3>4. \A b \in DOMAIN N : G.node[b].size = N[b].size
      BY <2>1, MarkedWhole
    <3> QED  BY <3>1, <3>2, <3>3, <3>4
  <2> QED  BY <2>2, <2>3 DEF Y
<1>2. FreeNode(H, a) = IF p # Null /\ ~G.node[p].used
                       THEN Listed(MergeNext(MergeNode(Delisted(G, p), a), p), p)
                       ELSE Listed(MergeNext(G, a), a)
  BY DEF FreeNode, Mark
<1> HIDE DEF G
<1>3. G.node \in Headers /\ Chain(G.node) /\ a \in DOMAIN G.node \ {End} /\ ~G.node[a].used
  BY <1>1 DEF Whole, IsHeap
<1>4. Gives(N, G.node, a)
  BY <1>1 DEF Gives
<1>5. CASE ~(p # Null /\ ~G.node[p].used)
  <2> DEFINE K == MergeNext(G, a)
  <2>1. FreeNode(H, a) = Listed(K, a)
    BY <1>2, <1>5
  <2>2. a \notin FreeBut(G.node, {a}) /\ NextOf(G.node, a) \notin {a}
    BY <1>3, ChainOrder DEF FreeBut
  <2>3. /\ Whole(K, {a}) /\ KeepsOthers(G.node, K.node, {a}, a)
        /\ a \in DOMAIN K.node /\ ~K.node[a].used /\ K.node[a].pre = p
        /\ NextOf(K.node, a) \notin FreeBut(K.node, {a})
        /\ FreeBut(K.node, {a}) \subseteq FreeBut(G.node, {a})
    <3> DEFINE Y == {a}
    <3>1. /\ Whole(G, Y) /\ a \in DOMAIN G.node \ {End} /\ a \notin FreeBut(G.node, Y)
          /\ NextOf(G.node, a) \notin Y /\ ~G.node[a].used
      BY <1>1, <1>3, <2>2
    <3> HIDE DEF Y
    <3>2. /\ Whole(K, Y) /\ KeepsOthers(G.node, K.node, Y, a)
          /\ a \in DOMAIN K.node /\ ~K.node[a].used /\ K.node[a].pre = p
          /\ NextOf(K.node, a) \notin FreeBut(K.node, Y)
          /\ FreeBut(K.node, Y) \subseteq FreeBut(G.node, Y)
      BY <3>1, MergeNextWhole
    <3> QED  BY <3>2 DEF Y
  <2> HIDE DEF K, p
  <2>4. p \notin FreeBut(G.node, {a})
    <3>1. Null \notin DOMAIN G.node
      BY <1>3, HeaderFacts, HeapConstants
    <3> QED  BY <1>5, <3>1 DEF FreeBut
  <2>5. Whole(Listed(K, a), {a} \ {a}) /\ Listed(K, a).node = K.node
    BY <2>3, <2>4, ListedWhole
  <2>6. {a} \ {a} = {}
    OBVIOUS
  <2>7. Gives(N, K.node, a)
    <3>1. KeepsUsed(G.node, K.node, a)
      BY <2>3, KeepsOthersUsed
    <3> QED  BY <1>4, <3>1 DEF Gives, KeepsUsed
  <2> QED  BY <2>1, <2>5, <2>6, <2>7
<1>6. CASE p # Null /\ ~G.node[p].used
  <2> DEFINE O == Delisted(G, p)
             J == MergeNode(O, a)
             K == MergeNext(J, p)
  <2>1. FreeNode(H, a) = Listed(K, p)
    BY <1>2, <1>6
  <2>2. a # First /\ p \in DOMAIN G.node \ {End} /\ NextOf(G.node, p) = a /\ p # a
    <3>1. a # First
      BY <1>3, <1>6 DEF Chain
    <3>2. p \in DOMAIN G.node \ {End} /\ NextOf(G.node, p) = a
      BY <1>3, <3>1 DEF Chain
    <3> QED  BY <1>3, <3>1, <3>2, ChainOrder
  <2>3. p \in FreeBut(G.node, {a})
    BY <1>6, <2>2 DEF FreeBut
  <2>4. Whole(O, {a, p}) /\ O.node = G.node
    <3>1. {a} \cup {p} = {a, p}
      OBVIOUS
    <3> DEFINE Y == {a}
    <3>2. Whole(G, Y) /\ p \in FreeBut(G.node, Y)
      BY <1>1, <2>3
    <3> HIDE DEF Y
    <3>3. Whole(O, Y \cup {p}) /\ O.node = G.node
      BY <3>2, DelistedWhole
    <3> QED  BY <3>1, <3>3 DEF Y
  <2> HIDE DEF O
  <2>5. O.node[a].pre = p /\ p \notin FreeBut(O.node, {a, p})
    BY <2>4 DEF FreeBut
  <2>6. Whole(J, {p}) /\ FreeBut(J.node, {p}) = FreeBut(G.node, {a, p})
    <3>1. {a, p} \ {a} = {p} /\ a \in {a, p}
      BY <2>2
    <3>2. a \in DOMAIN O.node \ {First, End}
      BY <1>3, <2>2, <2>4
    <3>3. /\ Whole(J, {a, p} \ {a})
          /\ FreeBut(J.node, {a, p} \ {a}) = FreeBut(O.node, {a, p})
      BY <2>4, <2>5, <3>1, <3>2, MergedWhole
    <3> QED  BY <2>4, <3>1, <3>3
  <2>7. /\ DOMAIN J.node = DOMAIN G.node \ {a}
        /\ \A b \in DOMAIN J.node : /\ J.node[b].used = G.node[b].used
                                    /\ b # p => J.node[b].size = G.node[b].size
        /\ J.node[p].pre = G.node[p].pre /\ p \in DOMAIN J.node \ {End}
        /\ NextOf(J.node, p) = NextOf(G.node, a)
    <3>1. IsHeap(O) /\ Chain(O.node) /\ a \in DOMAIN O.node \ {First, End}
      BY <1>3, <2>2, <2>4 DEF Whole
    <3>2. p # NextOf(G.node, a)
      <4>1. p \in Nat /\ a \in Nat /\ NextOf(G.node, a) \in Nat /\ p < a /\ a < NextOf(G.node, a)
        BY <1>3, <2>2, ChainOrder, HeaderFacts, HeapConstants
      <4> QED  BY <4>1
    <3> QED  BY <2>2, <2>4, <2>5, <3>1, <3>2, MergedHeaders, MergedChain
  <2> HIDE DEF J
  <2>8. p \notin FreeBut(J.node, {p}) /\ NextOf(J.node, p) \notin {p}
    <3>1. J.node \in Headers /\ Chain(J.node)
      BY <2>6 DEF Whole, IsHeap
    <3> QED  BY <2>7, <3>1, ChainOrder DEF FreeBut
  <2>9. /\ Whole(K, {p}) /\ KeepsOthers(J.node, K.node, {p}, p)
        /\ p \in DOMAIN K.node /\ K.node[p].used = J.node[p].used
        /\ K.node[p].pre = J.node[p].pre
        /\ NextOf(K.node, p) \notin FreeBut(K.node, {p})
        /\ FreeBut(K.node, {p}) \subseteq FreeBut(J.node, {p})
    <3> DEFINE Y == {p}
    <3>1. /\ Whole(J, Y) /\ p \in DOMAIN J.node \ {End} /\ p \notin FreeBut(J.node, Y)
          /\ NextOf(J.node, p) \notin Y
      BY <2>6, <2>7, <2>8
    <3> HIDE DEF Y
    <3>2. /\ Whole(K, Y) /\ KeepsOthers(J.node, K.node, Y, p)
          /\ p \in DOMAIN K.node /\ K.node[p].used = J.node[p].used
          /\ K.node[p].pre = J.node[p].pre
          /\ NextOf(K.node, p) \notin FreeBut(K.node, Y)
          /\ FreeBut(K.node, Y) \subseteq FreeBut(J.node, Y)
      BY <3>1, MergeNextWhole
    <3> QED  BY <3>2 DEF Y
  <2> HIDE DEF K
  <2>10. K.node[p].pre \notin FreeBut(K.node, {p})
    <3>1. ASSUME G.node[p].pre \in FreeBut(G.node, {a}) PROVE FALSE
      <4>1. p # First
        BY <1>3, <3>1, HeaderFacts, HeapConstants DEF Chain, FreeBut
      <4>2. NextOf(G.node, G.node[p].pre) = p
        BY <1>3, <2>2, <4>1 DEF Chain
      <4> QED  BY <1>1, <2>3, <3>1, <4>2 DEF Whole, Apart
    <3> QED  BY <2>6, <2>7, <2>9, <3>1 DEF FreeBut
  <2>11. ~K.node[p].used
    BY <1>6, <2>7, <2>9
  <2>12. Whole(Listed(K, p), {p} \ {p}) /\ Listed(K, p).node = K.node
    BY <2>9, <2>10, <2>11, ListedWhole
  <2>13. {p} \ {p} = {}
    OBVIOUS
  <2>14. Gives(N, K.node, a)
    <3>1. KeepsUsed(J.node, K.node, p)
      BY <2>9, KeepsOthersUsed
    <3>2. \A b : b \in DOMAIN K.node /\ K.node[b].used <=> b \in DOMAIN J.node /\ J.node[b].used
      BY <3>1 DEF KeepsUsed
    <3>3. \A b : b \in DOMAIN J.node /\ J.node[b].used <=> b \in DOMAIN G.node /\ G.node[b].used
      BY <1>3, <2>7
    <3>4. \A b \in DOMAIN G.node : G.node[b].used => K.node[b].size = G.node[b].size
      <4>1. ASSUME NEW b \in DOMAIN G.node, G.node[b].used PROVE K.node[b].size = G.node[b].size
        <5>1. b # p /\ b \in DOMAIN J.node /\ J.node[b].used
          BY <1>3, <1>6, <2>7, <4>1
        <5> QED  BY <2>7, <3>1, <5>1 DEF KeepsUsed
      <4> QED  BY <4>1
    <3> QED  BY <1>4, <3>2, <3>3, <3>4 DEF Gives
  <2> QED  BY <2>1, <2>12, <2>13, <2>14
<1> QED  BY <1>5, <1>6
-----------------------------------------------------------------------------
BlockSet == [ptr : Nat, len : Nat, gap : Nat]

\* The blocks B lie each in a used node of its own, and every used node has one.
Blocks(N, B) ==
  /\ B \subseteq BlockSet
  /\ \A b \in B : /\ NodeOf(b) \in DOMAIN N \ {End} /\ N[NodeOf(b)].used
                  /\ b.ptr + b.len <= NextOf(N, NodeOf(b))
  /\ \A b, c \in B : NodeOf(b) = NodeOf(c) => b = c
  /\ \A a \in DOMAIN N \ {End} : N[a].used => \E b \in B : NodeOf(b) = a

\* One more block, in a node that was not used.
LEMMA BlockTaken ==
  ASSUME NEW N, NEW M, NEW B, Blocks(N, B), NEW b \in BlockSet, Takes(N, M, NodeOf(b)),
         NodeOf(b) \in DOMAIN M \ {End}, ~(NodeOf(b) \in DOMAIN N /\ N[NodeOf(b)].used),
         b.ptr + b.len <= NextOf(M, NodeOf(b))
  PROVE  Blocks(M, B \cup {b})
<1>1. \A c \in B : /\ NodeOf(c) \in DOMAIN M \ {End} /\ M[NodeOf(c)].used
                   /\ NextOf(M, NodeOf(c)) = NextOf(N, NodeOf(c))
                   /\ NodeOf(c) # NodeOf(b)
  BY DEF Blocks, Takes, NextOf
<1>2. \A a \in DOMAIN M \ {End} : M[a].used => \E c \in B \cup {b} : NodeOf(c) = a
  BY DEF Blocks, Takes
<1>3. M[NodeOf(b)].used
  BY DEF Takes
<1>4. \A c \in B : c.ptr + c.len <= NextOf(M, NodeOf(c))
  BY <1>1 DEF Blocks
<1>5. \A c, d \in B \cup {b} : NodeOf(c) = NodeOf(d) => c = d
  BY <1>1 DEF Blocks
<1>6. B \cup {b} \subseteq BlockSet
  BY DEF Blocks
<1> QED  BY <1>1, <1>2, <1>3, <1>4, <1>5, <1>6 DEF Blocks

\* One block less, the node of which is not used any more.
LEMMA BlockGiven ==
  ASSUME NEW N, NEW M, NEW B, Blocks(N, B), NEW b \in B, Gives(N, M, NodeOf(b))
  PROVE  Blocks(M, B \ {b})
<1>1. \A c \in B \ {b} : /\ NodeOf(c) # NodeOf(b)
                         /\ NodeOf(c) \in DOMAIN M \ {End} /\ M[NodeOf(c)].used
                         /\ NextOf(M, NodeOf(c)) = NextOf(N, NodeOf(c))
  BY DEF Blocks, Gives, NextOf
<1>2. \A a \in DOMAIN M \ {End} : M[a].used => \E c \in B \ {b} : NodeOf(c) = a
  BY DEF Blocks, Gives
<1>3. \A c \in B \ {b} : c.ptr + c.len <= NextOf(M, NodeOf(c))
  BY <1>1 DEF Blocks
<1> QED  BY <1>1, <1>2, <1>3 DEF Blocks

\* A block gets another length, in the node it has.
LEMMA BlockChanged ==
  ASSUME NEW N, NEW M, NEW B, Blocks(N, B), NEW b \in B, KeepsUsed(N, M, NodeOf(b)),
         NEW c \in BlockSet, NodeOf(c) = NodeOf(b),
         c.ptr + c.len <= NextOf(M, NodeOf(b))
  PROVE  Blocks(M, (B \ {b}) \cup {c})
<1>1. \A d \in B \ {b} : /\ NodeOf(d) # NodeOf(b)
                         /\ NodeOf(d) \in DOMAIN M \ {End} /\ M[NodeOf(d)].used
                         /\ NextOf(M, NodeOf(d)) = NextOf(N, NodeOf(d))
  BY DEF Blocks, KeepsUsed, NextOf
<1>2. \A a \in DOMAIN M \ {End} : M[a].used => \E d \in (B \ {b}) \cup {c} : NodeOf(d) = a
  BY DEF Blocks, KeepsUsed
<1>3. NodeOf(c) \in DOMAIN M \ {End} /\ M[NodeOf(c)].used
  BY DEF Blocks, KeepsUsed
<1>4. \A d \in B \ {b} : d.ptr + d.len <= NextOf(M, NodeOf(d))
  BY <1>1 DEF Blocks
<1>5. \A d, e \in (B \ {b}) \cup {c} : NodeOf(d) = NodeOf(e) => d = e
  BY <1>1 DEF Blocks
<1>6. (B \ {b}) \cup {c} \subseteq BlockSet
  BY DEF Blocks
<1> QED  BY <1>1, <1>2, <1>3, <1>4, <1>5, <1>6 DEF Blocks

\* The inductive invariant.
HeapInv == Whole(Heap, {}) /\ Blocks(node, held)

LEMMA HeapStarts == HeapInit => HeapInv
<1> SUFFICES ASSUME HeapInit PROVE HeapInv
  OBVIOUS
<1> USE HeapConstants
<1>1. /\ DOMAIN node = {First, End} /\ node \in [{First, End} -> NodeSet]
      /\ node[First] = [size |-> Pool, used |-> FALSE, pre |-> Null]
      /\ node[End] = [size |-> Head_, used |-> TRUE, pre |-> First]
  BY DEF HeapInit, NodeSet
<1>2. NextOf(node, First) = End /\ First < End
  BY <1>1 DEF NextOf
<1>3. node \in Headers
  <2>1. {First, End} \in SUBSET Addr
    OBVIOUS
  <2> QED  BY <1>1, <2>1 DEF Headers
<1>4. Chain(node)
  BY <1>1, <1>2 DEF Chain
<1>5. FreeBut(node, {}) = {First}
  BY <1>1 DEF FreeBut
<1>6. Apart(node, {})
  BY <1>2, <1>5 DEF Apart
<1>7. ClassOf(Pool) \in Class
  BY ClassExists
<1>8. \A k \in Class : free[k] = IF k = ClassOf(Pool) THEN <<First>> ELSE <<>>
  BY DEF HeapInit
<1>9. \A k \in Class : OfClass(node, {}, k) = IF k = ClassOf(Pool) THEN {First} ELSE {}
  BY <1>1, <1>5 DEF OfClass
<1>10. ASSUME NEW k \in Class
       PROVE  /\ free[k] \in Seq(Addr)
              /\ IsInjective(free[k]) /\ ToSet(free[k]) = OfClass(node, {}, k)
  <2>1. CASE k = ClassOf(Pool)
    <3>1. <<First>> \in Seq(Addr) /\ IsInjective(<<First>>) /\ ToSet(<<First>>) = {First}
      BY SingletonRange
    <3>2. free[k] = <<First>> /\ OfClass(node, {}, k) = {First}
      BY <1>8, <1>9, <2>1
    <3> QED  BY <3>1, <3>2, Zenon
  <2>2. CASE k # ClassOf(Pool)
    <3>1. <<>> \in Seq(Addr) /\ IsInjective(<<>>) /\ ToSet(<<>>) = {}
      BY DEF IsInjective, ToSet
    <3> QED  BY <1>8, <1>9, <2>2, <3>1
  <2> QED  BY <2>1, <2>2
<1>11. free \in [Class -> Seq(Addr)]
  BY <1>10 DEF HeapInit
<1>12. Heap.node = node /\ Heap.free = free
  BY DEF Heap
<1>13. Whole(Heap, {})
  BY <1>3, <1>4, <1>6, <1>10, <1>11, <1>12 DEF Whole, IsHeap, Lists, Heap
<1>14. Blocks(node, held)
  <2>1. held = {}
    BY DEF HeapInit
  <2> QED  BY <1>1, <2>1 DEF Blocks
<1> QED  BY <1>13, <1>14 DEF HeapInv
-----------------------------------------------------------------------------
\* After HeapBecomes(H), the heap is H.
LEMMA HeapIs ==
  ASSUME NEW H, HeapBecomes(H), Whole(H, {})
  PROVE  Whole(Heap, {})' /\ node' = H.node
<1>1. H = [node |-> H.node, free |-> H.free]
  BY DEF Whole, IsHeap
<1>2. Heap' = [node |-> node', free |-> free']
  BY DEF Heap
<1>3. node' = H.node /\ free' = H.free
  BY DEF HeapBecomes
<1>4. Heap' = H
  BY <1>1, <1>2, <1>3
<1> QED  BY <1>3, <1>4

\* LOS_MemAlloc and LOS_MemAllocAlign, with what they have in common: a block of len words
\* at p in the node they take.
LEMMA AllocStep ==
  ASSUME HeapInv, NEW n \in Nat, NEW p \in Nat, NEW len \in Nat, NEW gap \in Nat, n > Head_,
         LET a == Suitable(Heap, n)
         IN /\ a # Null /\ HeapBecomes(Allocated(Heap, a, n))
            /\ p - gap - Head_ = a /\ p + len <= a + n
            /\ held' = held \cup {[ptr |-> p, len |-> len, gap |-> gap]}
  PROVE  HeapInv'
<1> DEFINE a == Suitable(Heap, n)
           b == [ptr |-> p, len |-> len, gap |-> gap]
           G == Allocated(Heap, a, n)
<1>1. Whole(Heap, {}) /\ Blocks(node, held) /\ Heap.node = node
  BY DEF HeapInv, Heap
<1>2. a \in FreeBut(node, {}) /\ node[a].size >= n
  BY <1>1, SuitableFree
<1>3. /\ Whole(G, {}) /\ Takes(node, G.node, a)
      /\ a \in DOMAIN G.node \ {End} /\ G.node[a].size >= n
  BY <1>1, <1>2, AllocatedWhole
<1>4. HeapBecomes(G) /\ held' = held \cup {b} /\ p - gap - Head_ = a /\ p + len <= a + n
  OBVIOUS
<1> HIDE DEF a, G
<1>5. Whole(Heap, {})' /\ node' = G.node
  BY <1>3, <1>4, HeapIs
<1>6. b \in BlockSet /\ NodeOf(b) = a
  BY <1>4 DEF BlockSet, NodeOf
<1>7. b.ptr + b.len <= NextOf(G.node, a)
  <2>1. a \in Nat /\ G.node[a].size \in Nat /\ NextOf(G.node, a) = a + G.node[a].size
    BY <1>3, HeaderFacts DEF Whole, IsHeap
  <2>2. b.ptr + b.len = p + len
    OBVIOUS
  <2> QED  BY <1>3, <1>4, <2>1, <2>2
<1> HIDE DEF b
<1>8. Blocks(G.node, held \cup {b})
  BY <1>1, <1>2, <1>3, <1>6, <1>7, BlockTaken DEF FreeBut
<1> QED  BY <1>4, <1>5, <1>8 DEF HeapInv

\* A block is aligned by less than the boundary.
LEMMA AlignUpBounds ==
  ASSUME NEW p \in Nat, NEW boundary \in Nat \ {0}
  PROVE  AlignUp(p, boundary) \in p..p + boundary - 1
BY DEF AlignUp

LEMMA RequestFacts ==
  ASSUME NEW len \in Sizes
  PROVE  len \in Nat /\ len > 0 /\ AllocSize(len) \in Nat /\ AllocSize(len) = len + Head_
         /\ AllocSize(len) > Head_
BY HeapAssumption DEF AllocSize

LEMMA AllocKeepsInv ==
  ASSUME HeapInv, NEW len \in Sizes, LOS_MemAlloc(len)
  PROVE  HeapInv'
<1> DEFINE n == AllocSize(len)
           a == Suitable(Heap, n)
<1>1. a # Null /\ HeapBecomes(Allocated(Heap, a, n))
      /\ held' = held \cup {[ptr |-> a + Head_, len |-> len, gap |-> 0]}
  BY DEF LOS_MemAlloc
<1>2. n \in Nat /\ n = len + Head_ /\ n > Head_ /\ len \in Nat /\ Head_ \in Nat
  BY RequestFacts, HeapConstants
<1>3. a \in Nat
  <2>1. Whole(Heap, {}) /\ Heap.node \in Headers
    BY DEF HeapInv, Whole, IsHeap
  <2> QED  BY <1>1, <1>2, <2>1, SuitableFree, HeaderFacts DEF FreeBut
<1> DEFINE p == a + Head_
<1>4. p \in Nat /\ p - 0 - Head_ = a /\ p + len <= a + n
  BY <1>2, <1>3
<1> HIDE DEF n
<1> QED  BY <1>1, <1>2, <1>4, AllocStep

LEMMA AllocAlignKeepsInv ==
  ASSUME HeapInv, NEW len \in Sizes, NEW boundary \in Boundaries,
         LOS_MemAllocAlign(len, boundary)
  PROVE  HeapInv'
<1> DEFINE n == AllocSize(AlignSize(len, boundary))
           a == Suitable(Heap, n)
           p == AlignUp(a + Head_, boundary)
<1>1. a # Null /\ HeapBecomes(Allocated(Heap, a, n))
      /\ held' = held \cup {[ptr |-> p, len |-> len, gap |-> p - (a + Head_)]}
  BY DEF LOS_MemAllocAlign
<1>2. /\ boundary \in Nat \ {0} /\ len \in Nat /\ Head_ \in Nat
      /\ n = len + boundary + 1 + Head_ /\ n \in Nat /\ n > Head_
  BY RequestFacts, HeapAssumption DEF AllocSize, AlignSize
<1>3. a \in Nat
  <2>1. Whole(Heap, {}) /\ Heap.node \in Headers
    BY DEF HeapInv, Whole, IsHeap
  <2> QED  BY <1>1, <1>2, <2>1, SuitableFree, HeaderFacts DEF FreeBut
<1>4. p \in a + Head_..a + Head_ + boundary - 1
  <2> DEFINE q == a + Head_
  <2>1. q \in Nat
    BY <1>2, <1>3
  <2> HIDE DEF q
  <2>2. AlignUp(q, boundary) \in q..q + boundary - 1
    BY <1>2, <2>1, AlignUpBounds
  <2> QED  BY <2>2 DEF q
<1> DEFINE gap == p - (a + Head_)
<1>5. gap \in Nat /\ p \in Nat /\ p - gap - Head_ = a /\ p + len <= a + n
  <2> HIDE DEF a, p, n
  <2> QED  BY <1>2, <1>3, <1>4
<1>6. a # Null /\ HeapBecomes(Allocated(Heap, a, n))
      /\ held' = held \cup {[ptr |-> p, len |-> len, gap |-> gap]}
  BY <1>1
<1> HIDE DEF n, p, gap
<1> QED  BY <1>2, <1>5, <1>6, AllocStep

LEMMA FreeKeepsInv ==
  ASSUME HeapInv, NEW b, LOS_MemFree(b)
  PROVE  HeapInv'
<1> DEFINE a == NodeOf(b)
           G == FreeNode(Heap, a)
<1>1. Whole(Heap, {}) /\ Blocks(node, held) /\ Heap.node = node
  BY DEF HeapInv, Heap
<1>2. b \in held /\ HeapBecomes(G) /\ held' = held \ {b}
  BY DEF LOS_MemFree
<1>3. a \in DOMAIN node \ {End} /\ node[a].used
  BY <1>1, <1>2 DEF Blocks
<1>4. Whole(G, {}) /\ Gives(node, G.node, a)
  BY <1>1, <1>3, FreedWhole
<1> HIDE DEF G
<1>5. Whole(Heap, {})' /\ node' = G.node
  BY <1>2, <1>4, HeapIs
<1>6. Blocks(G.node, held \ {b})
  BY <1>1, <1>2, <1>4, BlockGiven
<1> QED  BY <1>2, <1>5, <1>6 DEF HeapInv
-----------------------------------------------------------------------------
\* LOS_MemRealloc that keeps the node of the block: what has become of the pool, and what
\* the application has then.
LEMMA ChangedInPlace ==
  ASSUME HeapInv, NEW b \in held, NEW len \in Sizes, NEW G, Whole(G, {}),
         KeepsUsed(node, G.node, NodeOf(b)), G.node[NodeOf(b)].size >= AllocSize(len),
         HeapBecomes(G),
         held' = (held \ {b}) \cup {[ptr |-> NodeOf(b) + Head_, len |-> len, gap |-> 0]}
  PROVE  HeapInv'
<1> DEFINE a == NodeOf(b)
           c == [ptr |-> a + Head_, len |-> len, gap |-> 0]
<1>1. Blocks(node, held)
  BY DEF HeapInv
<1>2. a \in DOMAIN node /\ node[a].used
  BY <1>1 DEF Blocks
<1>3. a \in DOMAIN G.node /\ G.node \in Headers
  BY <1>2 DEF KeepsUsed, Whole, IsHeap
<1>4. a \in Nat /\ G.node[a].size \in Nat /\ NextOf(G.node, a) = a + G.node[a].size
  BY <1>3, HeaderFacts
<1>5. len \in Nat /\ AllocSize(len) = len + Head_ /\ Head_ \in Nat
  BY RequestFacts, HeapConstants
<1> HIDE DEF a
<1>6. c \in BlockSet /\ NodeOf(c) = a
  BY <1>4, <1>5 DEF BlockSet, NodeOf
<1>7. c.ptr + c.len <= NextOf(G.node, a)
  BY <1>4, <1>5 DEF a
<1>8. held' = (held \ {b}) \cup {c}
  BY DEF a
<1> HIDE DEF c
<1>9. Blocks(G.node, (held \ {b}) \cup {c})
  BY <1>1, <1>6, <1>7, BlockChanged DEF a
<1>10. Whole(Heap, {})' /\ node' = G.node
  BY HeapIs
<1> QED  BY <1>8, <1>9, <1>10 DEF HeapInv

LEMMA SmallerKeepsInv ==
  ASSUME HeapInv, NEW b \in held, NEW len \in Sizes, ReallocSmaller(b, len)
  PROVE  HeapInv'
<1> DEFINE a == NodeOf(b)
           n == AllocSize(len)
           G == IF Splits(node[a].size, n) THEN SplitNode(Heap, a, n) ELSE Heap
<1>1. Whole(Heap, {}) /\ Blocks(node, held) /\ Heap.node = node
  BY DEF HeapInv, Heap
<1>2. a \in DOMAIN node \ {End} /\ node[a].used /\ a \notin FreeBut(node, {})
  BY <1>1 DEF Blocks, FreeBut
<1>3. /\ node[a].size >= n /\ HeapBecomes(G)
      /\ held' = (held \ {b}) \cup {[ptr |-> a + Head_, len |-> len, gap |-> 0]}
  BY DEF ReallocSmaller, Moved
<1>4. n \in Nat /\ n > Head_
  BY RequestFacts
<1>5. Whole(G, {}) /\ KeepsUsed(node, G.node, a) /\ G.node[a].size >= n
  <2>1. CASE Splits(node[a].size, n)
    <3> DEFINE X == {}
    <3>1. Whole(Heap, X) /\ a \notin FreeBut(node, X) /\ X \subseteq {a}
      BY <1>1, <1>2
    <3> HIDE DEF X, a, n
    <3> DEFINE K == SplitNode(Heap, a, n)
    <3>2. Whole(K, X) /\ KeepsUsed(node, K.node, a) /\ K.node[a].size = n
      BY <1>1, <1>2, <1>4, <2>1, <3>1, SplitWhole
    <3>3. G = K
      BY <2>1
    <3> HIDE DEF K
    <3> QED  BY <1>4, <3>2, <3>3 DEF X
  <2>2. CASE ~Splits(node[a].size, n)
    BY <1>1, <1>3, <2>2 DEF KeepsUsed
  <2> QED  BY <2>1, <2>2
<1> HIDE DEF G
<1> QED  BY <1>3, <1>5, ChangedInPlace

LEMMA BiggerKeepsInv ==
  ASSUME HeapInv, NEW b \in held, NEW len \in Sizes, ReallocBigger(b, len)
  PROVE  HeapInv'
<1> DEFINE a == NodeOf(b)
           n == AllocSize(len)
           W == MergeNext(Heap, a)
           G == IF Splits(W.node[a].size, n) THEN SplitNode(W, a, n) ELSE W
           next == NextOf(node, a)
<1>1. Whole(Heap, {}) /\ Blocks(node, held) /\ Heap.node = node
  BY DEF HeapInv, Heap
<1>2. a \in DOMAIN node \ {End} /\ node[a].used
  BY <1>1 DEF Blocks
<1>3. /\ ~node[next].used /\ node[a].size + node[next].size >= n /\ HeapBecomes(G)
      /\ held' = (held \ {b}) \cup {[ptr |-> a + Head_, len |-> len, gap |-> 0]}
  BY DEF ReallocBigger, Moved, Grows
<1>4. n \in Nat /\ n > Head_
  BY RequestFacts
<1> DEFINE X == {}
<1>5. Whole(Heap, X) /\ a \notin FreeBut(node, X) /\ X \subseteq {a} /\ next \notin X
  BY <1>1, <1>2 DEF FreeBut
<1> HIDE DEF X
<1>6. /\ Whole(W, X) /\ KeepsOthers(node, W.node, X, a)
      /\ a \in DOMAIN W.node /\ W.node[a].used = node[a].used
      /\ W.node[a].size = IF node[next].used THEN node[a].size
                          ELSE node[a].size + node[next].size
  <2> HIDE DEF a, W
  <2>1. a \in DOMAIN Heap.node \ {End} /\ a \notin FreeBut(Heap.node, X)
        /\ NextOf(Heap.node, a) \notin X
    BY <1>1, <1>2, <1>5
  <2>2. LET N == Heap.node
            q == NextOf(N, a)
            M == MergeNext(Heap, a).node
        IN /\ Whole(MergeNext(Heap, a), X) /\ KeepsOthers(N, M, X, a)
           /\ a \in DOMAIN M /\ M[a].used = N[a].used
           /\ M[a].size = IF N[q].used THEN N[a].size ELSE N[a].size + N[q].size
    BY <1>5, <2>1, MergeNextWhole
  <2> QED  BY <1>1, <2>2 DEF W
<1>7. KeepsUsed(node, W.node, a)
  BY <1>6, KeepsOthersUsed
<1> HIDE DEF W
<1>8. W.node[a].size >= n /\ a \in DOMAIN W.node \ {End} /\ a \notin FreeBut(W.node, X)
  BY <1>2, <1>3, <1>6 DEF FreeBut
<1>9. Whole(G, X) /\ KeepsUsed(node, G.node, a) /\ G.node[a].size >= n
  <2>1. CASE Splits(W.node[a].size, n)
    <3> HIDE DEF a, n
    <3> DEFINE K == SplitNode(W, a, n)
    <3>1. Whole(K, X) /\ KeepsUsed(W.node, K.node, a) /\ K.node[a].size = n
      BY <1>4, <1>5, <1>6, <1>8, <2>1, SplitWhole
    <3>2. G = K
      BY <2>1
    <3> HIDE DEF K, G
    <3>3. KeepsUsed(node, K.node, a)
      BY <1>7, <3>1 DEF KeepsUsed
    <3> QED  BY <1>4, <3>1, <3>2, <3>3
  <2>2. CASE ~Splits(W.node[a].size, n)
    BY <1>6, <1>7, <1>8, <2>2
  <2> QED  BY <2>1, <2>2
<1>10. Whole(G, {})
  BY <1>9 DEF X
<1> HIDE DEF G
<1> QED  BY <1>3, <1>9, <1>10, ChangedInPlace

LEMMA CopyKeepsInv ==
  ASSUME HeapInv, NEW b \in held, NEW len \in Sizes, ReallocCopy(b, len)
  PROVE  HeapInv'
<1> DEFINE a == NodeOf(b)
           n == AllocSize(len)
           c == Suitable(Heap, n)
           T == Allocated(Heap, c, n)
           G == FreeNode(T, a)
           d == [ptr |-> c + Head_, len |-> len, gap |-> 0]
<1>1. Whole(Heap, {}) /\ Blocks(node, held) /\ Heap.node = node
  BY DEF HeapInv, Heap
<1>2. a \in DOMAIN node \ {End} /\ node[a].used
  BY <1>1 DEF Blocks
<1>3. c # Null /\ HeapBecomes(G) /\ held' = (held \ {b}) \cup {d}
  BY DEF ReallocCopy, Moved
<1>4. n \in Nat /\ n = len + Head_ /\ n > Head_ /\ len \in Nat /\ Head_ \in Nat
  BY RequestFacts, HeapConstants
<1> HIDE DEF n
<1>5. c \in FreeBut(node, {}) /\ node[c].size >= n
  BY <1>1, <1>3, <1>4, SuitableFree
<1>6. /\ Whole(T, {}) /\ Takes(node, T.node, c)
      /\ c \in DOMAIN T.node \ {End} /\ T.node[c].size >= n
  BY <1>1, <1>4, <1>5, AllocatedWhole
<1> HIDE DEF c, T
<1>7. a \in DOMAIN T.node \ {End} /\ T.node[a].used /\ a # c
  BY <1>2, <1>5, <1>6 DEF Takes, FreeBut
<1>8. Whole(G, {}) /\ Gives(T.node, G.node, a)
  BY <1>6, <1>7, FreedWhole
<1> HIDE DEF G
<1>9. d \in BlockSet /\ NodeOf(d) = c /\ d.ptr + d.len <= NextOf(T.node, c)
  <2>1. c \in Nat /\ T.node[c].size \in Nat /\ NextOf(T.node, c) = c + T.node[c].size
    BY <1>6, HeaderFacts DEF Whole, IsHeap
  <2>2. d.ptr = c + Head_ /\ d.len = len /\ d.gap = 0
    OBVIOUS
  <2> QED  BY <1>4, <1>6, <2>1, <2>2 DEF BlockSet, NodeOf
<1> HIDE DEF d
<1>10. Blocks(T.node, held \cup {d})
  BY <1>1, <1>5, <1>6, <1>9, BlockTaken DEF FreeBut
<1>11. Blocks(G.node, (held \cup {d}) \ {b})
  <2> DEFINE B == held \cup {d}
  <2>1. Blocks(T.node, B) /\ b \in B
    BY <1>10
  <2> HIDE DEF B
  <2>2. Blocks(G.node, B \ {b})
    BY <1>8, <2>1, BlockGiven
  <2> QED  BY <2>2 DEF B
<1>12. (held \cup {d}) \ {b} = (held \ {b}) \cup {d}
  BY <1>7, <1>9
<1>13. Whole(Heap, {})' /\ node' = G.node
  BY <1>3, <1>8, HeapIs
<1> QED  BY <1>3, <1>11, <1>12, <1>13 DEF HeapInv

LEMMA HeapKeeps == HeapInv /\ [HeapNext]_heapVars => HeapInv'
<1> SUFFICES ASSUME HeapInv, [HeapNext]_heapVars PROVE HeapInv'
  OBVIOUS
<1>1. CASE UNCHANGED heapVars
  BY <1>1 DEF HeapInv, heapVars, Heap
<1>2. ASSUME NEW b \in held, NEW len \in Sizes, LOS_MemRealloc(b, len) PROVE HeapInv'
  BY <1>2, SmallerKeepsInv, BiggerKeepsInv, CopyKeepsInv DEF LOS_MemRealloc
<1> QED
  BY <1>1, <1>2, AllocKeepsInv, AllocAlignKeepsInv, FreeKeepsInv DEF HeapNext

LEMMA HeapInvariant == HeapSpec => []HeapInv
BY HeapStarts, HeapKeeps, PTL DEF HeapSpec
-----------------------------------------------------------------------------
\* Nodes tile the pool, whatever is asked for and given back: a free node never has a free
\* neighbour.
THEOREM PoolIsTiled == HeapSpec => []PoolTiled
<1>1. HeapInv => PoolTiled
  <2> SUFFICES ASSUME HeapInv PROVE PoolTiled
    OBVIOUS
  <2>1. node \in Headers /\ Chain(node) /\ Apart(node, {})
    BY DEF HeapInv, Whole, IsHeap, Heap
  <2>2. First \in DOMAIN node /\ End \in DOMAIN node /\ node[First].pre = Null /\ node[End].used
    BY <2>1, HeaderFacts DEF Chain
  <2>3. ASSUME NEW a \in DOMAIN node \ {End}
        PROVE  /\ node[a].size > Head_
               /\ NextOf(node, a) \in DOMAIN node /\ node[NextOf(node, a)].pre = a
               /\ DOMAIN node \cap Words(a, node[a].size) = {a}
               /\ ~node[a].used => node[NextOf(node, a)].used
    <3>1. /\ node[a].size > Head_
          /\ NextOf(node, a) \in DOMAIN node /\ node[NextOf(node, a)].pre = a
          /\ \A b \in DOMAIN node : b <= a \/ NextOf(node, a) <= b
      BY <2>1, ChainOrder
    <3>2. /\ a \in Nat /\ node[a].size \in Nat /\ NextOf(node, a) = a + node[a].size
          /\ \A b \in DOMAIN node : b \in Nat
      BY <2>1, HeaderFacts
    <3>3. \A b \in DOMAIN node : b \in Words(a, node[a].size) <=> b = a
      BY <3>1, <3>2, HeapConstants DEF Words
    <3>4. ~node[a].used => node[NextOf(node, a)].used
      BY <2>1, <3>1 DEF Apart, FreeBut
    <3> QED  BY <3>1, <3>3, <3>4
  <2> QED  BY <2>2, <2>3 DEF PoolTiled
<1> QED  BY <1>1, HeapInvariant, PTL

\* The lists hold the free nodes, each by its size and once.
THEOREM FreeIsListed == HeapSpec => []FreeListed
<1>1. HeapInv => FreeListed
  <2> SUFFICES ASSUME HeapInv, NEW k \in Class
               PROVE  /\ IsInjective(free[k])
                      /\ ToSet(free[k]) =
                           {a \in DOMAIN node : ~node[a].used /\ ClassOf(node[a].size) = k}
    BY DEF FreeListed
  <2>1. IsInjective(free[k]) /\ ToSet(free[k]) = OfClass(node, {}, k)
    BY DEF HeapInv, Whole, Lists, Heap
  <2> QED  BY <2>1 DEF OfClass, FreeBut
<1> QED  BY <1>1, HeapInvariant, PTL

\* A request that can be served is: no list that could serve it is left out.
THEOREM RefusalMeansFull == HeapSpec => []RefusedOnlyIfFull
<1>1. HeapInv => RefusedOnlyIfFull
  <2> SUFFICES ASSUME HeapInv, NEW n \in 1..Pool, Suitable(Heap, n) = Null,
                      NEW a \in DOMAIN node
               PROVE  node[a].used \/ node[a].size < n
    BY DEF RefusedOnlyIfFull
  <2>1. Whole(Heap, {}) /\ Heap.node = node /\ n \in Nat
    BY HeapConstants DEF HeapInv, Heap
  <2>2. \A b \in FreeBut(node, {}) : node[b].size < n
    BY <2>1, SuitableFree
  <2> QED  BY <2>2 DEF FreeBut
<1> QED  BY <1>1, HeapInvariant, PTL

\* No two blocks overlap, none reaches over its node, and no node is lost.
THEOREM BlocksAreApart == HeapSpec => []BlocksApart
<1>1. HeapInv => BlocksApart
  BY DEF HeapInv, Blocks, BlocksApart, BlockSet
<1> QED  BY <1>1, HeapInvariant, PTL

\* LOS_MemRealloc keeps what a block holds, as long as no block of LOS_MemAllocAlign is
\* given to it.
THEOREM DataIsKept == ReallocAligned = FALSE /\ HeapSpec => []DataKept
<1> SUFFICES ASSUME ReallocAligned = FALSE PROVE HeapSpec => []DataKept
  OBVIOUS
<1>1. HeapInit => DataKept
  BY DEF HeapInit, DataKept
<1>2. HeapInv /\ DataKept /\ [HeapNext]_heapVars => DataKept'
  <2> SUFFICES ASSUME HeapInv, DataKept, [HeapNext]_heapVars PROVE DataKept'
    OBVIOUS
  <2>1. ASSUME NEW b \in held, NEW len \in Sizes, LOS_MemRealloc(b, len) PROVE DataKept'
    <3> DEFINE a == NodeOf(b)
    <3>1. Blocks(node, held) /\ node \in Headers
      BY DEF HeapInv, Whole, IsHeap, Heap
    <3>2. b.gap = 0 /\ b \in held
      BY <2>1 DEF LOS_MemRealloc
    <3>3. /\ a \in DOMAIN node /\ b.ptr \in Nat /\ b.len \in Nat
          /\ b.ptr + b.len <= NextOf(node, a)
      BY <3>1, <3>2 DEF Blocks, BlockSet
    <3>4. b.len <= node[a].size - Head_ /\ node[a].size \in Nat /\ Head_ \in Nat
      <4>1. node[a].size \in Nat /\ NextOf(node, a) = a + node[a].size /\ a \in Nat
        BY <3>1, <3>3, HeaderFacts
      <4>2. a = b.ptr - 0 - Head_
        BY <3>2 DEF NodeOf
      <4> QED  BY <3>3, <4>1, <4>2, HeapConstants
    <3>5. ASSUME NEW p \in Nat, Moved(b, p, p, node[a].size - Head_, len) PROVE kept'
      <4>1. \A i \in 0..len - 1 :
              i < b.len => p + i = p + b.gap + i /\ b.gap + i < node[a].size - Head_
        BY <3>2, <3>3, <3>4, <3>5, RequestFacts
      <4> QED  BY <3>5, <4>1 DEF Moved, DataKept
    <3>6. CASE ReallocSmaller(b, len) \/ ReallocBigger(b, len)
      <4>1. Moved(b, a + Head_, a + Head_, node[a].size - Head_, len)
        BY <3>6 DEF ReallocSmaller, ReallocBigger
      <4>2. a + Head_ \in Nat
        BY <3>1, <3>3, HeaderFacts, HeapConstants
      <4> QED  BY <3>5, <4>1, <4>2 DEF DataKept
    <3>7. CASE ReallocCopy(b, len)
      <4> DEFINE n == AllocSize(len)
                 c == Suitable(Heap, n)
      <4>1. c # Null /\ Moved(b, c + Head_, c + Head_, node[a].size - Head_, len)
        BY <3>7 DEF ReallocCopy, Copied
      <4>2. n \in Nat /\ Whole(Heap, {}) /\ Heap.node \in Headers
        BY RequestFacts DEF HeapInv, Whole, IsHeap
      <4> HIDE DEF n
      <4>3. c \in Nat
        BY <4>1, <4>2, SuitableFree, HeaderFacts DEF FreeBut
      <4> QED  BY <3>5, <4>1, <4>3, HeapConstants DEF DataKept
    <3> QED  BY <2>1, <3>6, <3>7 DEF LOS_MemRealloc
  <2> QED
    BY <2>1 DEF HeapNext, LOS_MemAlloc, LOS_MemAllocAlign, LOS_MemFree, heapVars, DataKept
<1> QED  BY <1>1, <1>2, HeapInvariant, PTL DEF HeapSpec
=============================================================================
