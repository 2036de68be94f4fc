------------------------------- MODULE PhysMem -------------------------------
(***************************************************************************)
(* The physical frame allocator, src/ntos/mm/phys.c: mmPhysInit builds the *)
(* bitmap from the boot loader's memory map, then any number of callers    *)
(* run mmAllocFrame and mmFreeFrame at the same time under one spinlock.   *)
(*                                                                         *)
(* A physical address is counted in frames, so the base 0 that reports     *)
(* failure is also the address of frame 0, as in the code.  The scan of    *)
(* mmDoAllocFrames is one step (FrameScan runs it bit by bit) and setting  *)
(* the bits is another.  The statistics framesUsed, framesFree, lastIdx    *)
(* and bitmapFreeStart are written and never read; they are left out.      *)
(***************************************************************************)
EXTENDS FrameRuns, Sequences

CONSTANTS
    Callers,   \* Threads of control (processor cores) using the allocator.
    Counts,    \* Request sizes.
    MemMap,    \* The memory map: a sequence of [usable, base, length].
    PageSize,  \* Bytes in a page: the bitmap is rounded up to whole pages.
    Garbage    \* Values of the uninitialized highestAddr, in frames.

Entry == [usable : BOOLEAN, base : Nat, length : Nat]

ASSUME MemMapAssumption == MemMap \in Seq(Entry)
ASSUME CountsAssumption == Counts \subseteq Nat \ {0}
ASSUME PageSizeAssumption == PageSize \in Nat \ {0}
ASSUME GarbageAssumption == Garbage \subseteq Nat

------------------------------------------------------------------------------
(***************************************************************************)
(* mmInitBitmap and its helpers.                                           *)
(***************************************************************************)
EndOf(e) == e.base + e.length

UsableEntries == {k \in DOMAIN MemMap : MemMap[k].usable}

\* Usable entries overlap nowhere and leave out frame 0 (boot protocol).
ASSUME UsableAssumption ==
    \A k \in UsableEntries :
        /\ MemMap[k].base > 0
        /\ \A j \in UsableEntries :
               k < j => EndOf(MemMap[k]) <= MemMap[j].base

\* What the running maximum of lines 86-96 ranges over: it starts from garbage.
Ends(garbage) == {garbage} \union {EndOf(MemMap[k]) : k \in UsableEntries}

\* ALIGN_UP(highestFrameIdx / 8, PAGESIZE), in pages.
BitmapPages(highest) == ((highest \div 8) + PageSize - 1) \div PageSize

\* The entry mmAllocBitmap takes the bitmap from: the first one large enough.
BitmapEntry(highest, k) ==
    /\ k \in UsableEntries
    /\ MemMap[k].length >= BitmapPages(highest)
    /\ \A j \in UsableEntries :
           j < k => MemMap[j].length < BitmapPages(highest)

\* The frames that hold the bitmap.
BitmapFrames(highest, k) == Run(MemMap[k].base, BitmapPages(highest))

\* Mutant: the entry the bitmap is in keeps its base and its length.
NotTrimmed(highest, k) ==
    UNION {Run(MemMap[j].base, MemMap[j].length) : j \in UsableEntries}

(***************************************************************************)
(* The frames mmPopulateBitmap clears: mmAllocBitmap has moved the base of *)
(* entry k past the bitmap and shortened it.                               *)
(***************************************************************************)
FreeAtBoot(highest, k) ==
    LET taken(j) == IF j = k THEN BitmapPages(highest) ELSE 0
    IN  UNION {Run(MemMap[j].base + taken(j), MemMap[j].length - taken(j)) :
                   j \in UsableEntries}

------------------------------------------------------------------------------
VARIABLES
    highestFrameIdx,  \* Frames the bitmap describes; fixed by mmPhysInit.
    bitmapFrames,     \* The frames the bitmap occupies (history).
    reserved,         \* Frames in use after mmPhysInit (history).
    bitmap,           \* Frames whose bit is set.
    lock,             \* The spinlock's flag.
    pc,               \* Where each caller is.
    req,              \* The run each caller is allocating or freeing.
    retried,          \* Whether mmAllocFrame is in its second attempt.
    held              \* Runs each caller was given and has not freed.

vars == <<highestFrameIdx, bitmapFrames, reserved, bitmap, lock, pc, req,
          retried, held>>
bootVars == <<highestFrameIdx, bitmapFrames, reserved>>

Frames == 0 .. (highestFrameIdx - 1)

FramesOf(r) == Run(r.base, r.count)

NoRun == [base |-> 0, count |-> 0]

\* The caller moves from one place of the code to another.
Goto(c, from, to) == pc[c] = from /\ pc' = [pc EXCEPT ![c] = to]

Init ==
    /\ \E g \in Garbage : \E h \in Ends(g), k \in UsableEntries :
           /\ \A e \in Ends(g) : e <= h
           /\ BitmapEntry(h, k)
           /\ highestFrameIdx = h
           /\ bitmapFrames = BitmapFrames(h, k)
           /\ reserved = (0 .. (h - 1)) \ FreeAtBoot(h, k)
    /\ bitmap = reserved
    /\ lock = FALSE
    /\ pc = [c \in Callers |-> "idle"]
    /\ req = [c \in Callers |-> NoRun]
    /\ retried = [c \in Callers |-> FALSE]
    /\ held = [c \in Callers |-> {}]

------------------------------------------------------------------------------
\* The locals of a call are gone when it returns.
LocalsDie(c) ==
    /\ req' = [req EXCEPT ![c] = NoRun]
    /\ retried' = [retried EXCEPT ![c] = FALSE]

(***************************************************************************)
(* mmAllocFrame.  req[c].base plays `ret'.                                 *)
(***************************************************************************)
CallAlloc(c) ==
    /\ Goto(c, "idle", "allocLock")
    /\ \E n \in Counts : req' = [req EXCEPT ![c].count = n]
    /\ UNCHANGED <<bootVars, bitmap, lock, retried, held>>

\* Mutant: the lock is taken without looking at it.
AcquireBlindly(c) ==
    /\ lock' = TRUE
    /\ Goto(c, "allocLock", "scan") \/ Goto(c, "freeLock", "clear")
    /\ UNCHANGED <<bootVars, bitmap, req, retried, held>>

\* keAcquireSpinLock: test-and-set until the flag was clear.
Acquire(c) ==
    /\ lock = FALSE
    /\ lock' = TRUE
    /\ Goto(c, "allocLock", "scan") \/ Goto(c, "freeLock", "clear")
    /\ UNCHANGED <<bootVars, bitmap, req, retried, held>>

\* Mutant: success is taken for failure.
AttemptTestInverted(c, from, base) ==
    IF base # 0 /\ ~retried[c]
      THEN Goto(c, from, "scan") /\ retried' = [retried EXCEPT ![c] = TRUE]
      ELSE Goto(c, from, "allocUnlock") /\ UNCHANGED retried

\* A result of 0 starts the second attempt, or is returned by it.
AttemptReturns(c, from, base) ==
    IF base = 0 /\ ~retried[c]
      THEN Goto(c, from, "scan") /\ retried' = [retried EXCEPT ![c] = TRUE]
      ELSE Goto(c, from, "allocUnlock") /\ UNCHANGED retried

Scan(c) ==
    \/ /\ Goto(c, "scan", "mark")
       /\ \E s \in Frames :
              /\ FirstFit(bitmap, highestFrameIdx, req[c].count, s)
              /\ req' = [req EXCEPT ![c].base = s]
       /\ UNCHANGED <<bootVars, bitmap, lock, retried, held>>
    \/ /\ AttemptReturns(c, "scan", 0)
       /\ \A s \in Frames : ~Fits(bitmap, highestFrameIdx, req[c].count, s)
       /\ req' = [req EXCEPT ![c].base = 0]
       /\ UNCHANGED <<bootVars, bitmap, lock, held>>

\* Mutant: whole bytes of the bitmap are set.
MarkBytes(c) ==
    /\ AttemptReturns(c, "mark", req[c].base)
    /\ bitmap' = bitmap \union Run(req[c].base, 8 * req[c].count)
    /\ UNCHANGED <<bootVars, lock, req, held>>

Mark(c) ==
    /\ AttemptReturns(c, "mark", req[c].base)
    /\ bitmap' = bitmap \union FramesOf(req[c])
    /\ UNCHANGED <<bootVars, lock, req, held>>

\* Mutant: an early return on failure, without releasing the lock.
ReturnFailureLocked(c) ==
    /\ Goto(c, "allocUnlock", "idle")
    /\ lock' = (req[c].base = 0)
    /\ held' = IF req[c].base = 0 THEN held
               ELSE [held EXCEPT ![c] = @ \union {req[c]}]
    /\ LocalsDie(c)
    /\ UNCHANGED <<bootVars, bitmap>>

\* keReleaseSpinLock and the return: base 0 tells the caller of failure.
ReturnAlloc(c) ==
    /\ Goto(c, "allocUnlock", "idle")
    /\ lock' = FALSE
    /\ held' = IF req[c].base = 0 THEN held
               ELSE [held EXCEPT ![c] = @ \union {req[c]}]
    /\ LocalsDie(c)
    /\ UNCHANGED <<bootVars, bitmap>>

------------------------------------------------------------------------------
(***************************************************************************)
(* mmFreeFrame, called with the base and count of an allocation.           *)
(***************************************************************************)
CallFree(c) ==
    /\ Goto(c, "idle", "freeLock")
    /\ \E r \in held[c] :
           /\ req' = [req EXCEPT ![c] = r]
           /\ held' = [held EXCEPT ![c] = @ \ {r}]
    /\ UNCHANGED <<bootVars, bitmap, lock, retried>>

\* Mutant: `p <= stop_at' clears one frame more.
ClearOneMore(c) ==
    /\ Goto(c, "clear", "freeUnlock")
    /\ bitmap' = bitmap \ Run(req[c].base, req[c].count + 1)
    /\ UNCHANGED <<bootVars, lock, req, retried, held>>

\* Mutant: only the first frame is cleared.
ClearOnlyFirst(c) ==
    /\ Goto(c, "clear", "freeUnlock")
    /\ bitmap' = bitmap \ {req[c].base}
    /\ UNCHANGED <<bootVars, lock, req, retried, held>>

Clear(c) ==
    /\ Goto(c, "clear", "freeUnlock")
    /\ bitmap' = bitmap \ FramesOf(req[c])
    /\ UNCHANGED <<bootVars, lock, req, retried, held>>

ReturnFree(c) ==
    /\ Goto(c, "freeUnlock", "idle")
    /\ lock' = FALSE
    /\ LocalsDie(c)
    /\ UNCHANGED <<bootVars, bitmap, held>>

Critical(c) == Scan(c) \/ Mark(c) \/ ReturnAlloc(c) \/ Clear(c) \/ ReturnFree(c)

Next ==
    \E c \in Callers :
        CallAlloc(c) \/ CallFree(c) \/ Acquire(c) \/ Critical(c)

(***************************************************************************)
(* A core that holds the lock keeps running: nothing in this code waits    *)
(* inside the critical section.  Nothing is assumed of Acquire: test-and-  *)
(* set hands the lock to any of the cores that spin on it.                 *)
(***************************************************************************)
Fairness == \A c \in Callers : WF_vars(Critical(c))

Spec == Init /\ [][Next]_vars /\ Fairness

------------------------------------------------------------------------------
InCritical(c) ==
    pc[c] \in {"scan", "mark", "allocUnlock", "clear", "freeUnlock"}

TypeOK ==
    /\ highestFrameIdx \in Nat
    /\ bitmapFrames \subseteq Nat
    /\ reserved \subseteq Frames
    /\ bitmap \subseteq Frames
    /\ lock \in BOOLEAN
    /\ pc \in [Callers -> {"idle", "allocLock", "scan", "mark", "allocUnlock",
                           "freeLock", "clear", "freeUnlock"}]
    /\ req \in [Callers -> [base : Nat, count : Counts \union {0}]]
    /\ retried \in [Callers -> BOOLEAN]
    /\ held \in [Callers -> SUBSET [base : Nat, count : Counts]]

(***************************************************************************)
(* The runs whose bits are set on behalf of caller c: those it holds, the  *)
(* one being returned to it and the one it is giving back.                 *)
(***************************************************************************)
InFlight(c) ==
    IF \/ pc[c] = "allocUnlock" /\ req[c].base # 0
       \/ pc[c] \in {"freeLock", "clear"}
      THEN {req[c]}
      ELSE {}

Owned(c) == held[c] \union InFlight(c)

(***************************************************************************)
(* The lock lets one caller at a time between keAcquireSpinLock and        *)
(* keReleaseSpinLock, and is free only when nobody is there.               *)
(***************************************************************************)
MutualExclusion ==
    /\ \A c, d \in Callers : InCritical(c) /\ InCritical(d) => c = d
    /\ lock = (\E c \in Callers : InCritical(c))

(***************************************************************************)
(* No frame has two owners: the runs mmAllocFrame has given out and not    *)
(* got back never overlap, for one caller or between two.                  *)
(***************************************************************************)
NoDoubleAllocation ==
    /\ \A c, d \in Callers : \A r \in Owned(c), s \in Owned(d) :
           <<c, r>> # <<d, s>> => FramesOf(r) \intersect FramesOf(s) = {}

(***************************************************************************)
(* Each bit means what it says: a frame is marked exactly when it was in   *)
(* use at boot or some caller owns it.  Nothing leaks and nothing that is  *)
(* owned is marked free, after any sequence of calls and refusals.         *)
(***************************************************************************)
BitmapExact ==
    bitmap = reserved \union
             UNION {FramesOf(r) : r \in UNION {Owned(c) : c \in Callers}}

\* The allocator's own bitmap is never handed out.
BitmapNotHandedOut ==
    \A c \in Callers : \A r \in Owned(c) :
        FramesOf(r) \intersect bitmapFrames = {}

(***************************************************************************)
(* mmAllocFrame reports failure only if, when it does, the bitmap has no   *)
(* run that fits: no call of another core came between search and return.  *)
(***************************************************************************)
FailureIsCurrent ==
    \A c \in Callers :
        pc[c] = "allocUnlock" /\ req[c].base = 0 =>
            \A s \in Frames : ~Fits(bitmap, highestFrameIdx, req[c].count, s)

\* A lock that is taken is released again, whichever way the call goes.
LockReleased == lock ~> ~lock

\* Every frame some bitmap may describe.
AllFrames == UNION {0 .. (e - 1) : e \in UNION {Ends(g) : g \in Garbage}}

Alloc == INSTANCE FrameAlloc WITH
    Frames <- AllFrames,
    free <- Frames \ bitmap,
    owned <- [c \in Callers |-> Owned(c)]

(***************************************************************************)
(* Seen from its callers, mmAllocFrame takes a run of unowned frames and   *)
(* mmFreeFrame gives one back, each in one atomic step.                    *)
(***************************************************************************)
ImplementsFrameAlloc == Alloc!Spec
==============================================================================
