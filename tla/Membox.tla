-------------------------------- MODULE Membox --------------------------------
(***************************************************************************)
(* A pool of blocks of one size (src/kernel/base/mem/los_membox.c).  The   *)
(* free blocks are chained through their first word; with                  *)
(* LOS_MEMBOX_CHECK that word of a block in use is a magic number, which   *)
(* no link equals, and LOS_MemboxFree refuses a block without it.          *)
(***************************************************************************)
EXTENDS SequencesExt

CONSTANT BoxOrder   \* the blocks of the pool, by address

VARIABLE boxFree    \* stFreeList

Box == ToSet(BoxOrder)

ASSUME BoxAssumption == BoxOrder \in Seq(Box) /\ IsInjective(BoxOrder)

\* LOS_MemboxInit
BoxInit == boxFree = BoxOrder

Magic(b) == b \notin ToSet(boxFree)

LOS_MemboxAlloc(b) ==
  /\ boxFree # <<>> /\ b = Head(boxFree)
  /\ boxFree' = Tail(boxFree)

LOS_MemboxFree(b) ==
  /\ b \in Box /\ Magic(b)
  /\ boxFree' = <<b>> \o boxFree
=============================================================================
