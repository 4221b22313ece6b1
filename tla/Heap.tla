--------------------------------- MODULE Heap ---------------------------------
(***************************************************************************)
(* The heap (src/kernel/base/mem/los_memory.c, los_multipledlinkhead.c).   *)
(* The pool is cut into nodes, each a header and a block; free nodes are   *)
(* on the list of their size class.  Every call is one critical section.   *)
(*                                                                         *)
(* Addresses and sizes are in words of OS_MEM_ALIGN_SIZE bytes, to which   *)
(* the code rounds up what is asked for; the top bits of a size, which     *)
(* are flags, are out of reach of the sizes asked for here.                *)
(***************************************************************************)
EXTENDS SequencesExt

CONSTANTS
  First, Pool,       \* OS_MEM_FIRST_NODE, and the words from there to the end node
  Head_,             \* OS_MEM_NODE_HEAD_SIZE, 4 words in the code
  MinLog, MaxLog,    \* OS_MIN_MULTI_DLNK_LOG2 and OS_MAX_..., of words: 2 and 28
  Sizes,             \* the sizes that an application asks for
  Boundaries,        \* the boundaries it wants a block aligned to
  ReallocAligned,    \* it gives LOS_MemRealloc a block of LOS_MemAllocAlign
  Null

Class == MinLog..MaxLog
End == First + Pool          \* OS_MEM_END_NODE
Addr == First..End

ASSUME HeapAssumption ==
  /\ First \in Nat /\ Pool \in Nat /\ Head_ \in Nat \ {0} /\ Pool > Head_
  /\ MinLog \in Nat /\ MaxLog \in Nat /\ MinLog <= MaxLog
  /\ Pool < 2^(MaxLog + 1) /\ 2^MinLog <= Head_
  /\ Sizes \subseteq Nat \ {0} /\ Boundaries \subseteq (Nat \ {0}) \cap {2^k : k \in 0..MaxLog}
  /\ ReallocAligned \in BOOLEAN /\ Null \notin Addr

VARIABLES
  node,    \* the headers in the pool: [size, used, pre] by address
  free,    \* the list of each class, first entry first
  held,    \* history: the blocks an application has: [ptr, len, gap]
  kept     \* history: whether each reallocation kept what its block held

heapVars == <<node, free, held, kept>>

\* LOS_DLnkMultiHead by LOS_Log2: the classes in which a block of s words may be, and the
\* one in which a node of s words is listed.
ClassesFrom(s) == {k \in Class : s < 2^(k + 1)}
ClassOf(s) == Min(ClassesFrom(s))

NextOf(N, a) == a + N[a].size
Without(N, a) == [b \in DOMAIN N \ {a} |-> N[b]]

\* LOS_MemInit
HeapInit ==
  /\ node = [a \in {First, End} |->
               IF a = First THEN [size |-> Pool, used |-> FALSE, pre |-> Null]
               ELSE [size |-> Head_, used |-> TRUE, pre |-> First]]
  /\ free = [k \in Class |-> IF k = ClassOf(Pool) THEN <<First>> ELSE <<>>]
  /\ held = {} /\ kept = TRUE
-----------------------------------------------------------------------------
(* The operators take the headers and the lists as a record H, and return   *)
(* them changed.                                                            *)

\* LOS_ListDelete of a free node, which is on the list of its class.
Delisted(H, a) == [H EXCEPT !.free[ClassOf(H.node[a].size)] = RemoveFirst(@, a)]

\* LOS_ListAdd
Listed(H, a) == [H EXCEPT !.free[ClassOf(H.node[a].size)] = <<a>> \o @]

MergeNode_BugPre(H, a) ==
  LET N == H.node
      joined == [N EXCEPT ![N[a].pre].size = @ + N[a].size]
  IN [H EXCEPT !.node = Without(joined, a)]

\* osMemMergeNode: a becomes part of the node before it.
MergeNode(H, a) ==
  LET N == H.node
      p == N[a].pre
      joined == [N EXCEPT ![p].size = @ + N[a].size, ![NextOf(N, a)].pre = p]
  IN [H EXCEPT !.node = Without(joined, a)]

MergeNext_BugListed(H, a) ==
  LET next == NextOf(H.node, a) IN IF H.node[next].used THEN H ELSE MergeNode(H, next)

\* The node after a is taken in if it is free.
MergeNext(H, a) ==
  LET next == NextOf(H.node, a)
  IN IF H.node[next].used THEN H ELSE MergeNode(Delisted(H, next), next)

\* osMemSpitNode: all of a beyond n words becomes a free node.
SplitNode(H, a, n) ==
  LET rest == a + n
      cut == [b \in DOMAIN H.node \cup {rest} |->
                IF b = rest THEN [size |-> H.node[a].size - n, used |-> FALSE, pre |-> a]
                ELSE IF b = a THEN [H.node[a] EXCEPT !.size = n]
                ELSE IF b = NextOf(H.node, a) THEN [H.node[b] EXCEPT !.pre = rest]
                ELSE H.node[b]]
      merged == MergeNext([H EXCEPT !.node = cut], rest)
  IN Listed(merged, rest)

Splits(size, n) == n + Head_ + 1 <= size

\* Where the nodes are listed of which a block of n words may be cut.
Candidates(L, n) == UNION {{k} \X DOMAIN L[k] : k \in ClassesFrom(n)}

\* osMemFindSuitableFreeBlock: the first that is large enough, from the class of n upwards.
Suitable(H, n) ==
  LET fit == {c \in Candidates(H.free, n) : H.node[H.free[c[1]][c[2]]].size >= n}
      Before(c, d) == c[1] < d[1] \/ (c[1] = d[1] /\ c[2] <= d[2])
  IN IF fit = {} THEN Null
     ELSE LET c == CHOOSE c \in fit : \A d \in fit : Before(c, d) IN H.free[c[1]][c[2]]

\* osMemAllocWithCheck, when a is the suitable node.  A node that is cut leaves its list
\* by the class of the size it had.
Allocated(H, a, n) ==
  LET off == Delisted(H, a)
      cut == IF Splits(H.node[a].size, n) THEN SplitNode(off, a, n) ELSE off
  IN [cut EXCEPT !.node[a].used = TRUE]

FreeNode_BugForward(H, a) ==
  Listed(MergeNext([H EXCEPT !.node[a].used = FALSE], a), a)

FreeNode_BugNotMoved(H, a) ==
  LET G == [H EXCEPT !.node[a].used = FALSE]
      p == G.node[a].pre
  IN IF p # Null /\ ~G.node[p].used THEN MergeNext(MergeNode(G, a), p)
     ELSE Listed(MergeNext(G, a), a)

\* osMemFreeNode
FreeNode(H, a) ==
  LET G == [H EXCEPT !.node[a].used = FALSE]
      p == G.node[a].pre
  IN IF p # Null /\ ~G.node[p].used
     THEN Listed(MergeNext(MergeNode(Delisted(G, p), a), p), p)
     ELSE Listed(MergeNext(G, a), a)
-----------------------------------------------------------------------------
Heap == [node |-> node, free |-> free]
HeapBecomes(H) == node' = H.node /\ free' = H.free

AllocSize(len) == len + Head_
NodeOf(b) == b.ptr - b.gap - Head_   \* by the word before the block

LOS_MemAlloc(len) ==
  LET a == Suitable(Heap, AllocSize(len))
  IN /\ a # Null
     /\ HeapBecomes(Allocated(Heap, a, AllocSize(len)))
     /\ held' = held \cup {[ptr |-> a + Head_, len |-> len, gap |-> 0]}
     /\ UNCHANGED kept

AlignUp(p, boundary) == ((p + boundary - 1) \div boundary) * boundary

AlignSize_BugNoRoom(len, boundary) == len + 1
AlignSize(len, boundary) == len + boundary + 1

\* The word before an aligned block says how far it is from the start.
LOS_MemAllocAlign(len, boundary) ==
  LET n == AllocSize(AlignSize(len, boundary))
      a == Suitable(Heap, n)
      p == AlignUp(a + Head_, boundary)
  IN /\ a # Null
     /\ HeapBecomes(Allocated(Heap, a, n))
     /\ held' = held \cup {[ptr |-> p, len |-> len, gap |-> p - (a + Head_)]}
     /\ UNCHANGED kept

LOS_MemFree(b) ==
  /\ b \in held
  /\ HeapBecomes(FreeNode(Heap, NodeOf(b)))
  /\ held' = held \ {b}
  /\ UNCHANGED kept

\* An application is given for b the block at p, where the words of b from its node's
\* start, copied of them, are at q.
Moved(b, p, q, copied, len) ==
  /\ held' = (held \ {b}) \cup {[ptr |-> p, len |-> len, gap |-> 0]}
  /\ kept' = (kept /\ \A i \in 0..len - 1 :
                i < b.len => p + i = q + b.gap + i /\ b.gap + i < copied)

\* LOS_MemRealloc: the block is large enough, what it does not need is cut off ...
ReallocSmaller(b, len) ==
  LET a == NodeOf(b)
      n == AllocSize(len)
  IN /\ node[a].size >= n
     /\ HeapBecomes(IF Splits(node[a].size, n) THEN SplitNode(Heap, a, n) ELSE Heap)
     /\ Moved(b, a + Head_, a + Head_, node[a].size - Head_, len)

\* ... or it is with the free node behind it ...
Grows(a, n) ==
  /\ node[a].size < n
  /\ ~node[NextOf(node, a)].used /\ node[a].size + node[NextOf(node, a)].size >= n

ReallocBigger(b, len) ==
  LET a == NodeOf(b)
      n == AllocSize(len)
      whole == MergeNext(Heap, a)
  IN /\ Grows(a, n)
     /\ HeapBecomes(IF Splits(whole.node[a].size, n) THEN SplitNode(whole, a, n) ELSE whole)
     /\ Moved(b, a + Head_, a + Head_, node[a].size - Head_, len)

Copied_BugHeader(a) == node[a].size - 2 * Head_
Copied(a) == node[a].size - Head_

\* ... or another block is allocated, this one copied to it and freed.
ReallocCopy(b, len) ==
  LET a == NodeOf(b)
      n == AllocSize(len)
      c == Suitable(Heap, n)
  IN /\ node[a].size < n /\ ~Grows(a, n) /\ c # Null
     /\ HeapBecomes(FreeNode(Allocated(Heap, c, n), a))
     /\ Moved(b, c + Head_, c + Head_, Copied(a), len)

LOS_MemRealloc(b, len) ==
  /\ b \in held /\ (b.gap = 0 \/ ReallocAligned)
  /\ ReallocSmaller(b, len) \/ ReallocBigger(b, len) \/ ReallocCopy(b, len)

HeapNext ==
  \/ \E len \in Sizes :
       \/ LOS_MemAlloc(len) \/ \E boundary \in Boundaries : LOS_MemAllocAlign(len, boundary)
  \/ \E b \in held : LOS_MemFree(b) \/ \E len \in Sizes : LOS_MemRealloc(b, len)

HeapSpec == HeapInit /\ [][HeapNext]_heapVars
-----------------------------------------------------------------------------
Words(a, n) == a..a + n - 1

\* The nodes cover the pool without gap or overlap, each knows the one before it, and no
\* two neighbours are free: however blocks are taken and given back, what is free is as
\* whole as it can be, and a pool of which all is given back is one node again.
PoolTiled ==
  /\ {First, End} \subseteq DOMAIN node /\ node[First].pre = Null /\ node[End].used
  /\ \A a \in DOMAIN node \ {End} :
       /\ node[a].size > Head_
       /\ NextOf(node, a) \in DOMAIN node /\ node[NextOf(node, a)].pre = a
       /\ DOMAIN node \cap Words(a, node[a].size) = {a}
       /\ ~node[a].used => node[NextOf(node, a)].used

\* A node is on the list of its class, once, if it is free, and on none if it is used.
FreeListed ==
  \A k \in Class :
    /\ IsInjective(free[k])
    /\ ToSet(free[k]) = {a \in DOMAIN node : ~node[a].used /\ ClassOf(node[a].size) = k}

\* A request is refused only if no free node is large enough for it.
RefusedOnlyIfFull ==
  \A n \in 1..Pool :
    Suitable(Heap, n) = Null => \A a \in DOMAIN node : node[a].used \/ node[a].size < n

\* Every block of an application lies behind the header of a used node that is its own
\* and ends before the next, and every used node has its block: nothing leaks.
BlocksApart ==
  /\ \A b \in held :
       LET a == NodeOf(b)
       IN a \in DOMAIN node /\ node[a].used /\ a # End
          /\ b.gap >= 0 /\ b.ptr + b.len <= NextOf(node, a)
  /\ \A b, c \in held : NodeOf(b) = NodeOf(c) => b = c
  /\ \A a \in DOMAIN node : node[a].used /\ a # End => \E b \in held : NodeOf(b) = a

\* A block keeps what it holds when it is reallocated, up to the smaller of its sizes.
DataKept == kept
=============================================================================
