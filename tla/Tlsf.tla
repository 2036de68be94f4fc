--------------------------------- MODULE Tlsf ---------------------------------
(***************************************************************************)
(* The kernel heap's block manager, src/ntos/mm/tlsf.c (two-level          *)
(* segregated fit), as operators on a heap: blocks lie side by side in the *)
(* pools, the free ones are filed in lists by size class, and two levels   *)
(* of bitmaps name the lists that are not empty.                           *)
(*                                                                         *)
(* Sizes and addresses are counted in words of ALIGN_SIZE (8) bytes, and a *)
(* request of n bytes is the request of the words it is rounded up to.  A  *)
(* block at b has the pointer to its physical predecessor at b, its size   *)
(* and flags at b + 1 and its data from b + 2; the predecessor's pointer   *)
(* lies in the predecessor's own data, so it is valid only when that block *)
(* is free.                                                                *)
(***************************************************************************)
EXTENDS Integers, Sequences, FiniteSetsExt, SequencesExt

CONSTANTS
    SlIndexCountLog2,  \* SL_INDEX_COUNT_LOG2.
    FlIndexMax         \* FL_INDEX_MAX, less the three bits within a word.

ASSUME IndexAssumption ==
    SlIndexCountLog2 \in Nat \ {0} /\ FlIndexMax \in Nat \ 0 .. SlIndexCountLog2

\* The powers of two that a size has bits for.
Pow2[n \in 0 .. FlIndexMax + 1] == IF n = 0 THEN 1 ELSE 2 * Pow2[n - 1]

SlIndexCount == Pow2[SlIndexCountLog2]
FlIndexCount == FlIndexMax - SlIndexCountLog2 + 1
SmallBlockSize == Pow2[SlIndexCountLog2]

HeaderOverhead == 1       \* block_header_overhead: the size word.
HeaderSize == 4           \* sizeof(block_header_t).
BlockSizeMin == HeaderSize - 1
BlockSizeMax == Pow2[FlIndexMax]

NoBlock == 0              \* &control->block_null, and a null pointer.
UserData == -1            \* What the owner of a block wrote over a pointer.

\* control_construct: no list has a block, no bit is set.
EmptyHeap ==
    [blk   |-> [b \in {} |-> 0],
     flMap |-> {},
     slMap |-> [fl \in 0 .. FlIndexCount - 1 |-> {}],
     list  |-> [fl \in 0 .. FlIndexCount - 1 |->
                   [sl \in 0 .. SlIndexCount - 1 |-> <<>>]]]

------------------------------------------------------------------------------
(***************************************************************************)
(* Size classes.                                                           *)
(***************************************************************************)
\* tlsf_fls_sizet: the position of the highest bit.
Fls(n) == CHOOSE k \in 0 .. FlIndexMax : Pow2[k] <= n /\ n < Pow2[k + 1]

\* align_up and align_ptr.
AlignUp(x, align) == ((x + align - 1) \div align) * align

AdjustRequestSize(size, align) ==
    LET aligned == AlignUp(size, align)
    IN  IF size = 0 \/ aligned >= BlockSizeMax
        THEN 0
        ELSE Max({aligned, BlockSizeMin})

\* The class a block of this size is filed in.
MappingInsert(size) ==
    IF size < SmallBlockSize
    THEN [fl |-> 0, sl |-> size]
    ELSE LET top == Fls(size)
         IN  [fl |-> top - SlIndexCountLog2 + 1,
              sl |-> size \div Pow2[top - SlIndexCountLog2] - SlIndexCount]

\* The first class all of whose blocks hold this size.
MappingSearch(size) ==
    IF size < SmallBlockSize
    THEN MappingInsert(size)
    ELSE MappingInsert(size + Pow2[Fls(size) - SlIndexCountLog2] - 1)

\* Mutant: a class that is too high is searched for in this row only.
SearchOneRow(h, at) ==
    LET here == {j \in h.slMap[at.fl] : j >= at.sl}
    IN  IF here = {} THEN {} ELSE {[fl |-> at.fl, sl |-> Min(here)]}

(***************************************************************************)
(* search_suitable_block: the first class from `at' on that the bitmaps    *)
(* say has a block, as a set of at most one class.                         *)
(***************************************************************************)
SearchSuitable(h, at) ==
    LET here == {j \in h.slMap[at.fl] : j >= at.sl}
        larger == {i \in h.flMap : i > at.fl}
    IN  CASE here # {} -> {[fl |-> at.fl, sl |-> Min(here)]}
          [] here = {} /\ larger # {} ->
                 {[fl |-> Min(larger), sl |-> Min(h.slMap[Min(larger)])]}
          [] OTHER -> {}

------------------------------------------------------------------------------
(***************************************************************************)
(* The free lists.  A list is the sequence of its blocks from its head.    *)
(***************************************************************************)
RemoveFreeBlock(h, b, at) ==
    LET old == h.list[at.fl][at.sl]
        rest == RemoveAt(old, CHOOSE k \in DOMAIN old : old[k] = b)
        sls == h.slMap[at.fl] \ (IF rest = <<>> THEN {at.sl} ELSE {})
    IN  [h EXCEPT !.list[at.fl][at.sl] = rest,
                  !.slMap[at.fl] = sls,
                  !.flMap = @ \ (IF sls = {} THEN {at.fl} ELSE {})]

\* Mutant: the old head is not linked behind the new one.
InsertForgetting(h, b, at) ==
    [h EXCEPT !.list[at.fl][at.sl] = <<b>>,
              !.slMap[at.fl] = @ \union {at.sl},
              !.flMap = @ \union {at.fl}]

InsertFreeBlock(h, b, at) ==
    [h EXCEPT !.list[at.fl][at.sl] = <<b>> \o @,
              !.slMap[at.fl] = @ \union {at.sl},
              !.flMap = @ \union {at.fl}]

Size(h, b) == h.blk[b].size

BlockRemove(h, b) == RemoveFreeBlock(h, b, MappingInsert(Size(h, b)))
BlockInsert(h, b) == InsertFreeBlock(h, b, MappingInsert(Size(h, b)))

------------------------------------------------------------------------------
(***************************************************************************)
(* Blocks and their physical neighbours.                                   *)
(***************************************************************************)
BlockNext(h, b) == b + HeaderOverhead + Size(h, b)
ToPtr(b) == b + 2
FromPtr(p) == p - 2

LinkNext(h, b) == [h EXCEPT !.blk[BlockNext(h, b)].prev = b]

SetPrevFree(h, b, free) == [h EXCEPT !.blk[b].prevFree = free]

MarkAsFree(h, b) ==
    [SetPrevFree(LinkNext(h, b), BlockNext(h, b), TRUE)
        EXCEPT !.blk[b].free = TRUE]

\* The owner may now write all of the block, the next block's `prev' too.
MarkAsUsed(h, b) ==
    [SetPrevFree(h, BlockNext(h, b), FALSE)
        EXCEPT !.blk[b].free = FALSE, !.blk[BlockNext(h, b)].prev = UserData]

CanSplit(h, b, size) == Size(h, b) >= HeaderSize + size

\* Where block_split puts the second block.
Remaining(b, size) == b + HeaderOverhead + size

(***************************************************************************)
(* block_split: the second block is free; its prevFree flag is what the    *)
(* memory held, and every caller sets it.                                  *)
(***************************************************************************)
Split(h, b, size) ==
    LET rem == Remaining(b, size)
        header == [size |-> Size(h, b) - (size + HeaderOverhead),
                   free |-> FALSE, prevFree |-> TRUE, prev |-> UserData]
        blk == [x \in DOMAIN h.blk \union {rem} |->
                   IF x = rem THEN header ELSE h.blk[x]]
    IN  MarkAsFree([h EXCEPT !.blk = [blk EXCEPT ![b].size = size]], rem)

\* Mutant: the block after b still points at b.
AbsorbUnlinked(h, prev, b) ==
    [h EXCEPT !.blk =
        [x \in DOMAIN h.blk \ {b} |->
            IF x = prev
            THEN [h.blk[x] EXCEPT !.size = @ + Size(h, b) + HeaderOverhead]
            ELSE h.blk[x]]]

\* block_absorb: b's header is data of prev from here on.
Absorb(h, prev, b) ==
    LET blk == [x \in DOMAIN h.blk \ {b} |->
                   IF x = prev
                   THEN [h.blk[x] EXCEPT !.size = @ + Size(h, b) + HeaderOverhead]
                   ELSE h.blk[x]]
    IN  LinkNext([h EXCEPT !.blk = blk], prev)

\* The block that b is part of after block_merge_prev.
MergedInto(h, b) == IF h.blk[b].prevFree THEN h.blk[b].prev ELSE b

MergePrev(h, b) ==
    IF h.blk[b].prevFree
    THEN Absorb(BlockRemove(h, h.blk[b].prev), h.blk[b].prev, b)
    ELSE h

MergeNext(h, b) ==
    LET next == BlockNext(h, b)
    IN  IF h.blk[next].free THEN Absorb(BlockRemove(h, next), b, next) ELSE h

TrimFree(h, b, size) ==
    IF ~CanSplit(h, b, size)
    THEN h
    ELSE LET rem == Remaining(b, size)
         IN  BlockInsert(SetPrevFree(LinkNext(Split(h, b, size), b), rem, TRUE),
                         rem)

\* Mutant: the tail of a shrunk block is not merged with its neighbour.
TrimWithoutMerge(h, b, size) ==
    IF ~CanSplit(h, b, size)
    THEN h
    ELSE LET rem == Remaining(b, size)
         IN  BlockInsert(SetPrevFree(Split(h, b, size), rem, FALSE), rem)

TrimUsed(h, b, size) ==
    IF ~CanSplit(h, b, size)
    THEN h
    ELSE LET rem == Remaining(b, size)
             cut == SetPrevFree(Split(h, b, size), rem, FALSE)
         IN  BlockInsert(MergeNext(cut, rem), rem)

\* The block block_trim_free_leading returns: the second one if it splits.
Trimmed(h, b, size) ==
    IF CanSplit(h, b, size) THEN Remaining(b, size - HeaderOverhead) ELSE b

TrimFreeLeading(h, b, size) ==
    IF ~CanSplit(h, b, size)
    THEN h
    ELSE LET cut == Split(h, b, size - HeaderOverhead)
             rem == Trimmed(h, b, size)
         IN  BlockInsert(LinkNext(SetPrevFree(cut, rem, TRUE), b), b)

------------------------------------------------------------------------------
(***************************************************************************)
(* The interface.                                                          *)
(***************************************************************************)
\* block_locate_free: the class whose first block is taken, if any.
LocateClass(h, size) ==
    IF size = 0 \/ MappingSearch(size).fl >= FlIndexCount
    THEN {}
    ELSE SearchSuitable(h, MappingSearch(size))

Located(h, size) ==
    LET at == LocateClass(h, size)
    IN  IF at = {} THEN NoBlock
        ELSE LET c == CHOOSE c \in at : TRUE IN Head(h.list[c.fl][c.sl])

LocateFree(h, size) ==
    LET at == LocateClass(h, size)
    IN  IF at = {} THEN h
        ELSE RemoveFreeBlock(h, Located(h, size), CHOOSE c \in at : TRUE)

\* block_prepare_used of a located block.
PrepareUsed(h, b, size) == MarkAsUsed(TrimFree(h, b, size), b)

\* tlsf_malloc in one step, as realloc uses it; its block is Located(h, size).
Malloc(h, size) ==
    IF Located(h, size) = NoBlock THEN h
    ELSE PrepareUsed(LocateFree(h, size), Located(h, size), size)

\* The words skipped at the front of b so that its data is aligned.
Gap(b, align) ==
    LET gap(p) == p - ToPtr(b)
        first == AlignUp(ToPtr(b), align)
        next == AlignUp(first + Max({HeaderSize - gap(first), align}), align)
    IN  IF gap(first) # 0 /\ gap(first) < HeaderSize THEN gap(next) ELSE gap(first)

\* The size memalign searches for: room for the gap and for a block in it.
AlignedSize(adjust, align) ==
    IF adjust # 0 /\ align > 1
    THEN AdjustRequestSize(adjust + align + HeaderSize, align)
    ELSE adjust

MemalignBlock(h, align, size) ==
    LET b == Located(h, AlignedSize(size, align))
    IN  IF b = NoBlock \/ Gap(b, align) = 0 THEN b
        ELSE Trimmed(h, b, Gap(b, align))

Memalign(h, align, size) ==
    LET b == Located(h, AlignedSize(size, align))
        found == LocateFree(h, AlignedSize(size, align))
        lead == IF Gap(b, align) = 0 THEN found
                ELSE TrimFreeLeading(found, b, Gap(b, align))
    IN  IF b = NoBlock THEN h
        ELSE PrepareUsed(lead, MemalignBlock(h, align, size), size)

\* The second half of tlsf_free, after block_mark_as_free.
MergeAndInsert(h, b) ==
    LET whole == MergedInto(h, b)
    IN  BlockInsert(MergeNext(MergePrev(h, b), whole), whole)

Free(h, b) == MergeAndInsert(MarkAsFree(h, b), b)

\* Mutant: a free neighbour is taken without asking whether it is large enough.
MoveIfNeighbourUsed(h, b, adjust) ==
    adjust > Size(h, b) /\ ~h.blk[BlockNext(h, b)].free

\* realloc cannot grow b in place: it must move.
MustMove(h, b, adjust) ==
    LET next == BlockNext(h, b)
    IN  /\ adjust > Size(h, b)
        /\ \/ ~h.blk[next].free
           \/ adjust > Size(h, b) + Size(h, next) + HeaderOverhead

ReallocInPlace(h, b, adjust) ==
    LET grown == IF adjust > Size(h, b) THEN MarkAsUsed(MergeNext(h, b), b) ELSE h
    IN  TrimUsed(grown, b, adjust)

\* tlsf_add_pool: one free block and the sentinel, a used block of size zero.
PoolBlock(pool) == pool.mem - HeaderOverhead
PoolSize(pool) == pool.words - 2 * HeaderOverhead

AddPool(h, pool) ==
    LET b == PoolBlock(pool)
        last == b + HeaderOverhead + PoolSize(pool)
        blk == [x \in DOMAIN h.blk \union {b, last} |->
                   CASE x = b -> [size |-> PoolSize(pool), free |-> TRUE,
                                  prevFree |-> FALSE, prev |-> UserData]
                     [] x = last -> [size |-> 0, free |-> FALSE,
                                     prevFree |-> TRUE, prev |-> b]
                     [] OTHER -> h.blk[x]]
    IN  BlockInsert([h EXCEPT !.blk = blk], b)

\* tlsf_remove_pool: the pool's memory is its owner's again.
RemovePool(h, pool) ==
    LET b == PoolBlock(pool)
        cut == BlockRemove(h, b)
    IN  [cut EXCEPT !.blk =
            [x \in DOMAIN h.blk \ {b, BlockNext(h, b)} |-> h.blk[x]]]

------------------------------------------------------------------------------
(***************************************************************************)
(* tlsf_check and tlsf_check_pool, the consistency checks of the source.   *)
(***************************************************************************)
FreeBlocks(h) == {b \in DOMAIN h.blk : h.blk[b].free}

ListsConsistent(h) ==
    \A i \in 0 .. FlIndexCount - 1, j \in 0 .. SlIndexCount - 1 :
        /\ i \notin h.flMap => j \notin h.slMap[i]
        /\ j \in h.slMap[i] <=> h.list[i][j] # <<>>
        /\ \A k \in DOMAIN h.list[i][j] :
               LET b == h.list[i][j][k]
               IN  /\ b \in FreeBlocks(h) /\ ~h.blk[b].prevFree
                   /\ ~h.blk[BlockNext(h, b)].free
                   /\ h.blk[BlockNext(h, b)].prevFree
                   /\ Size(h, b) >= BlockSizeMin
                   /\ MappingInsert(Size(h, b)) = [fl |-> i, sl |-> j]

\* The walk over a pool reaches its end, and every flag tells of the neighbour.
PoolConsistent(h, pool) ==
    LET last == PoolBlock(pool) + HeaderOverhead + PoolSize(pool)
        inside == {b \in DOMAIN h.blk : b >= PoolBlock(pool) /\ b < last}
    IN  /\ PoolBlock(pool) \in inside /\ ~h.blk[PoolBlock(pool)].prevFree
        /\ h.blk[last].size = 0 /\ ~h.blk[last].free
        /\ \A b \in inside :
               LET next == BlockNext(h, b)
               IN  /\ next \in inside \union {last}
                   /\ \A x \in inside : x <= b \/ x >= next
                   /\ h.blk[next].prevFree = h.blk[b].free
                   /\ h.blk[b].free => h.blk[next].prev = b
===============================================================================
