------------------------------- MODULE Mempool -------------------------------
(***************************************************************************)
(* The node pool of mempool.c: a linked free list over an array of blocks  *)
(* of one size.  When the list is empty a block comes from malloc, and     *)
(* joins the list when it is freed.  Blocks are numbered: 1..InitCount are *)
(* the array, the numbers after InitCount the ones malloc made.            *)
(***************************************************************************)
EXTENDS Integers, Sequences, SequencesExt

CONSTANT InitCount   \* blocks in the array

ASSUME InitCountAssumption == InitCount \in Nat

\* mempool_init pushes the blocks of the array one after the other.
NewPool == [node       |-> [k \in 1..InitCount |-> InitCount + 1 - k],
            free_count |-> InitCount,
            made       |-> InitCount]

Blocks(pool) == 1..pool.made

\* The block that mem_alloc returns, and the pool it leaves.
NextBlock(pool) ==
  IF pool.node # <<>> THEN Head(pool.node) ELSE pool.made + 1

\* A fault: the block stays in the list.
MemAllocKept(pool) ==
  IF pool.node # <<>> THEN [pool EXCEPT !.free_count = @ - 1]
  ELSE [pool EXCEPT !.made = @ + 1]

MemAlloc(pool) ==
  IF pool.node # <<>>
  THEN [pool EXCEPT !.node = Tail(@), !.free_count = @ - 1]
  ELSE [pool EXCEPT !.made = @ + 1]

\* mem_free: push the block, whoever made it.
MemFree(pool, b) == [pool EXCEPT !.node = <<b>> \o @, !.free_count = @ + 1]
=============================================================================
