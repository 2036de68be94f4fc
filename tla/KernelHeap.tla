------------------------------ MODULE KernelHeap ------------------------------
(***************************************************************************)
(* The kernel heap as its callers see it, src/ntos/ex/pool.c over the      *)
(* block manager of Tlsf: any number of cores in exAllocatePool and        *)
(* exFreePool at the same time.  An operation of the block manager is cut  *)
(* in two where its two phases meet, so that only the spinlock keeps       *)
(* another core out of a heap that is half updated.                        *)
(*                                                                         *)
(* The kernel calls tlsf_malloc and tlsf_free.  The rest of the block      *)
(* manager's interface (tlsf_memalign, tlsf_realloc, tlsf_add_pool and     *)
(* tlsf_remove_pool) has no caller yet; it is run here under the same lock.*)
(***************************************************************************)
EXTENDS Tlsf

CONSTANTS
    Callers,      \* Threads of control (processor cores).
    Requests,     \* Request sizes, in words.
    Alignments,   \* Alignments of tlsf_memalign, in words.
    RootPool,     \* The memory kiPoolInit gives the heap, [mem, words].
    MorePools     \* Memory for tlsf_add_pool.

Pools == {RootPool} \union MorePools

PoolAssumed(pool) ==
    /\ pool.mem \in Nat \ {0, 1} /\ pool.words \in Nat
    /\ PoolSize(pool) \in BlockSizeMin .. BlockSizeMax - 1

\* Memory is given to the heap once, and no two pools share any.
Apart(p, q) == p.mem + p.words <= q.mem \/ q.mem + q.words <= p.mem

ASSUME PoolAssumption ==
    /\ \A pool \in Pools : PoolAssumed(pool)
    /\ \A p, q \in Pools : p # q => Apart(p, q)
ASSUME RequestAssumption ==
    /\ Requests \subseteq 0 .. BlockSizeMax - 1
    /\ Alignments \subseteq {Pow2[n] : n \in 0 .. FlIndexMax}

VARIABLES
    heap,     \* The block manager's state.
    pools,    \* The pools in the heap.
    isInit,   \* kiPoolInit has run.
    lock,     \* The spinlock's flag.
    pc,       \* Where each caller is.
    call,     \* The call each caller is making.
    block,    \* The block that call is about: NoBlock is NULL.
    held      \* What each caller was given and has not freed (history).

vars == <<heap, pools, isInit, lock, pc, call, block, held>>

NoCall == [op |-> "none", size |-> 0, align |-> 1]
Op(op, size, align) == [op |-> op, size |-> size, align |-> align]

Goto(c, from, to) == pc[c] = from /\ pc' = [pc EXCEPT ![c] = to]

Init ==
    /\ heap = EmptyHeap
    /\ pools = {}
    /\ isInit = FALSE
    /\ lock = FALSE
    /\ pc = [c \in Callers |-> "idle"]
    /\ call = [c \in Callers |-> NoCall]
    /\ block = [c \in Callers |-> NoBlock]
    /\ held = [c \in Callers |-> {}]

\* kiPoolInit, on the bootstrap core before anyone can allocate.
PoolInit ==
    /\ ~isInit
    /\ heap' = AddPool(heap, RootPool)
    /\ pools' = {RootPool}
    /\ isInit' = TRUE
    /\ UNCHANGED <<lock, pc, call, block, held>>

------------------------------------------------------------------------------
(***************************************************************************)
(* Calls.  exAllocatePool reads isInit before it takes the lock.           *)
(***************************************************************************)
Begin(c, op, b) ==
    /\ Goto(c, "idle", "acquire")
    /\ call' = [call EXCEPT ![c] = op]
    /\ block' = [block EXCEPT ![c] = b]
    /\ UNCHANGED <<heap, pools, isInit, lock>>

CallAllocate(c) ==
    /\ isInit
    /\ \E n \in Requests : Begin(c, Op("malloc", n, 1), NoBlock)
    /\ UNCHANGED held

CallMemalign(c) ==
    /\ isInit
    /\ \E n \in Requests, a \in Alignments :
           Begin(c, Op("memalign", n, a), NoBlock)
    /\ UNCHANGED held

\* The caller gives up what it frees when it calls.
CallFree(c) ==
    \E r \in held[c] :
        /\ Begin(c, Op("free", 0, 1), FromPtr(r.ptr))
        /\ held' = [held EXCEPT ![c] = @ \ {r}]

CallRealloc(c) ==
    \E r \in held[c], n \in Requests \ {0} :
        /\ Begin(c, Op("realloc", n, 1), FromPtr(r.ptr))
        /\ UNCHANGED held

CallPools(c) ==
    /\ isInit
    /\ \E op \in {"add", "remove"} : Begin(c, Op(op, 0, 1), NoBlock)
    /\ UNCHANGED held

Acquire(c) ==
    /\ ~lock
    /\ Goto(c, "acquire", call[c].op)
    /\ lock' = TRUE
    /\ UNCHANGED <<heap, pools, isInit, call, block, held>>

------------------------------------------------------------------------------
(***************************************************************************)
(* Under the lock.                                                         *)
(***************************************************************************)
Become(c, h, b) ==
    /\ heap' = h
    /\ block' = [block EXCEPT ![c] = b]
    /\ UNCHANGED <<isInit, lock, call>>

\* tlsf_malloc, first half: block_locate_free.
Locate(c) ==
    LET adjust == AdjustRequestSize(call[c].size, 1)
    IN  /\ Goto(c, "malloc", "prepare")
        /\ Become(c, LocateFree(heap, adjust), Located(heap, adjust))
        /\ UNCHANGED <<pools, held>>

\* What the caller holds when a call returns the data of a block.
Region(c, b) == [ptr |-> ToPtr(b), words |-> call[c].size]

Gain(c, b) ==
    held' = [held EXCEPT ![c] = @ \union IF b = NoBlock THEN {} ELSE {Region(c, b)}]

\* tlsf_malloc, second half: block_prepare_used.
Prepare(c) ==
    LET b == block[c]
    IN  /\ Goto(c, "prepare", "release")
        /\ Become(c, IF b = NoBlock THEN heap
                     ELSE PrepareUsed(heap, b, AdjustRequestSize(call[c].size, 1)),
                  b)
        /\ Gain(c, b)
        /\ UNCHANGED pools

\* tlsf_free, first half: block_mark_as_free.
MarkFree(c) ==
    /\ Goto(c, "free", "merge")
    /\ Become(c, MarkAsFree(heap, block[c]), block[c])
    /\ UNCHANGED <<pools, held>>

\* tlsf_free, second half.
MergeFree(c) ==
    /\ Goto(c, "merge", "release")
    /\ Become(c, MergeAndInsert(heap, block[c]), MergedInto(heap, block[c]))
    /\ UNCHANGED <<pools, held>>

DoMemalign(c) ==
    LET size == AdjustRequestSize(call[c].size, 1)
        b == MemalignBlock(heap, call[c].align, size)
    IN  /\ Goto(c, "memalign", "release")
        /\ Become(c, Memalign(heap, call[c].align, size), b)
        /\ Gain(c, b)
        /\ UNCHANGED pools

\* The block's owner has the region `r' instead of the one at its data.
Replace(c, b, r) ==
    held' = [held EXCEPT ![c] = {s \in @ : s.ptr # ToPtr(b)} \union {r}]

DoRealloc(c) ==
    LET b == block[c]
        adjust == AdjustRequestSize(call[c].size, 1)
        new == Located(heap, adjust)
    IN  /\ Goto(c, "realloc", "release")
        /\ \/ /\ MustMove(heap, b, adjust) /\ new = NoBlock
              /\ Become(c, heap, b) /\ UNCHANGED held
           \/ /\ MustMove(heap, b, adjust) /\ new # NoBlock
              /\ Become(c, Free(Malloc(heap, adjust), b), new)
              /\ Replace(c, b, Region(c, new))
           \/ /\ ~MustMove(heap, b, adjust)
              /\ Become(c, ReallocInPlace(heap, b, adjust), b)
              /\ Replace(c, b, Region(c, b))
        /\ UNCHANGED pools

\* tlsf_remove_pool asserts that the pool is one free block.
DoPools(c) ==
    \/ \E pool \in MorePools \ pools :
           /\ Goto(c, "add", "release")
           /\ Become(c, AddPool(heap, pool), NoBlock)
           /\ pools' = pools \union {pool} /\ UNCHANGED held
    \/ \E pool \in pools \intersect MorePools :
           /\ Goto(c, "remove", "release")
           /\ PoolBlock(pool) \in FreeBlocks(heap)
           /\ Size(heap, PoolBlock(pool)) = PoolSize(pool)
           /\ Become(c, RemovePool(heap, pool), NoBlock)
           /\ pools' = pools \ {pool} /\ UNCHANGED held
    \/ /\ pc[c] \in {"add", "remove"}
       /\ pc' = [pc EXCEPT ![c] = "release"]
       /\ UNCHANGED <<heap, pools, isInit, lock, call, block, held>>

Release(c) ==
    /\ Goto(c, "release", "idle")
    /\ lock' = FALSE
    /\ call' = [call EXCEPT ![c] = NoCall]
    /\ block' = [block EXCEPT ![c] = NoBlock]
    /\ UNCHANGED <<heap, pools, isInit, held>>

Calls(c) ==
    \/ CallAllocate(c) \/ CallMemalign(c) \/ CallFree(c) \/ CallRealloc(c)
    \/ CallPools(c)
Steps(c) ==
    \/ Acquire(c) \/ Locate(c) \/ Prepare(c) \/ MarkFree(c) \/ MergeFree(c)
    \/ DoMemalign(c) \/ DoRealloc(c) \/ DoPools(c) \/ Release(c)

Next == PoolInit \/ \E c \in Callers : Calls(c) \/ Steps(c)

Spec == Init /\ [][Next]_vars

------------------------------------------------------------------------------
TypeOK ==
    /\ \A b \in DOMAIN heap.blk :
           /\ heap.blk[b].size \in 0 .. BlockSizeMax
           /\ heap.blk[b].free \in BOOLEAN /\ heap.blk[b].prevFree \in BOOLEAN
           /\ heap.blk[b].prev \in DOMAIN heap.blk \union {NoBlock, UserData}
    /\ pools \subseteq Pools
    /\ isInit \in BOOLEAN /\ lock \in BOOLEAN
    /\ \A c \in Callers : block[c] \in DOMAIN heap.blk \union {NoBlock}

(***************************************************************************)
(* tlsf_check (tlsf.c:846) and tlsf_check_pool (tlsf.c:934) find nothing   *)
(* wrong whenever the lock is free: the lists, the bitmaps, the flags and  *)
(* the chain of blocks agree, and two free blocks are never neighbours.    *)
(***************************************************************************)
HeapConsistent ==
    ~lock => ListsConsistent(heap) /\ \A pool \in pools : PoolConsistent(heap, pool)

(***************************************************************************)
(* No memory leaks: whenever the lock is free, each free block is in       *)
(* exactly one place of one list (where a search finds it) and each used   *)
(* block is as large as its owner asked for, and has an owner to free it.   *)
(***************************************************************************)
Listed(b) ==
    UNION {{i} \X {j} \X {k \in DOMAIN heap.list[i][j] : heap.list[i][j][k] = b} :
               i \in 0 .. FlIndexCount - 1, j \in 0 .. SlIndexCount - 1}

Owned(b) ==
    \E c \in Callers :
        \/ \E r \in held[c] : r.ptr = ToPtr(b) /\ r.words <= Size(heap, b)
        \/ call[c].op \in {"free", "realloc"} /\ block[c] = b

NothingLost ==
    ~lock =>
        \A b \in DOMAIN heap.blk :
            IF heap.blk[b].free
            THEN Cardinality(Listed(b)) = 1
            ELSE heap.blk[b].size = 0 \/ Owned(b)

(***************************************************************************)
(* exAllocatePool returns NULL only if no free block is large enough by    *)
(* the class rounding: until the call returns nobody frees one.            *)
(***************************************************************************)
RoundedUp(size) ==
    IF size < SmallBlockSize THEN size
    ELSE AlignUp(size, Pow2[Fls(size) - SlIndexCountLog2])

RefusedOnlyWithoutBlock ==
    \A c \in Callers :
        pc[c] = "prepare" /\ block[c] = NoBlock /\ call[c].size > 0 =>
            \A b \in FreeBlocks(heap) :
                Size(heap, b) < RoundedUp(AdjustRequestSize(call[c].size, 1))

Regions == UNION {held[c] : c \in Callers}

HeapOf == INSTANCE Heap WITH live <- Regions

(***************************************************************************)
(* To its callers the heap is Heap: what exAllocatePool and the other      *)
(* calls return is memory of a pool that nobody else holds, in one step.   *)
(***************************************************************************)
ImplementsHeap == HeapOf!Spec
===============================================================================
