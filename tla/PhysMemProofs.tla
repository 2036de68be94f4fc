---------------------------- MODULE PhysMemProofs ----------------------------
(***************************************************************************)
(* Safety of the physical frame allocator for every memory map, every      *)
(* number of callers and every request size.                               *)
(***************************************************************************)
EXTENDS PhysMem, TLAPS

USE CountsAssumption, GarbageAssumption

\* Frames reserved at boot stay marked; frame 0 is one of them.
ReservedMarked ==
    /\ reserved \subseteq bitmap
    /\ bitmapFrames \intersect Frames \subseteq reserved
    /\ highestFrameIdx > 0 => 0 \in reserved

\* A run with an owner is marked and was free at boot.
OwnedMarked ==
    \A c \in Callers : \A r \in Owned(c) :
        /\ r.count > 0
        /\ FramesOf(r) \subseteq bitmap
        /\ FramesOf(r) \intersect reserved = {}

\* A frame marked since boot has an owner.
MarkedOwned ==
    \A f \in bitmap : f \in reserved \/
        \E c \in Callers : \E r \in Owned(c) : f \in FramesOf(r)

\* The run found by the search is still clear when its bits are set.
FoundIsClear ==
    \A c \in Callers :
        pc[c] = "mark" =>
            /\ FramesOf(req[c]) \subseteq Frames \ bitmap
            /\ req[c].base \in Frames \ bitmap
            /\ req[c].count > 0

\* A run being returned or given back is not also counted as held.
InFlightNotHeld ==
    \A c \in Callers :
        /\ pc[c] \in {"freeLock", "clear"} => req[c] \notin held[c]
        /\ pc[c] \in {"allocLock", "scan"} => req[c].count > 0
        /\ pc[c] = "allocUnlock" => req[c].count > 0

IInv ==
    /\ TypeOK
    /\ MutualExclusion
    /\ ReservedMarked
    /\ OwnedMarked
    /\ MarkedOwned
    /\ NoDoubleAllocation
    /\ FoundIsClear
    /\ InFlightNotHeld

------------------------------------------------------------------------------
(***************************************************************************)
(* Boot.                                                                   *)
(***************************************************************************)
LEMMA BitmapPagesNat == \A h \in Nat : BitmapPages(h) \in Nat
  <1> TAKE h \in Nat
  <1>1. \A a \in Nat, b \in Nat \ {0} : a \div b \in Nat
    OBVIOUS
  <1>2. (h \div 8) + PageSize - 1 \in Nat
    BY <1>1, PageSizeAssumption
  <1> QED BY <1>1, <1>2, PageSizeAssumption DEF BitmapPages

\* What the memory map says of a usable entry; frame 0 is in none.
LEMMA EntryTypes ==
    \A k \in UsableEntries :
        MemMap[k].base \in Nat \ {0} /\ MemMap[k].length \in Nat /\ k \in Nat
  <1> TAKE k \in UsableEntries
  <1>1. k \in Nat /\ MemMap[k] \in Entry
    BY MemMapAssumption DEF UsableEntries
  <1>2. MemMap[k].base > 0
    BY UsableAssumption
  <1> QED BY <1>1, <1>2 DEF Entry

\* Nothing free at boot is frame 0 or holds the bitmap.
LEMMA FreeAtBootFacts ==
    ASSUME NEW h \in Nat, NEW k \in UsableEntries, BitmapEntry(h, k)
    PROVE  /\ 0 \notin FreeAtBoot(h, k)
           /\ BitmapFrames(h, k) \intersect FreeAtBoot(h, k) = {}
  <1> DEFINE taken(j) == IF j = k THEN BitmapPages(h) ELSE 0
             freeOf(j) == Run(MemMap[j].base + taken(j), MemMap[j].length - taken(j))
  <1>1. \A j \in UsableEntries : taken(j) \in Nat
    BY BitmapPagesNat
  <1>2. ASSUME NEW j \in UsableEntries PROVE 0 \notin freeOf(j)
    BY <1>1, <1>2, EntryTypes DEF Run
  <1>3. ASSUME NEW j \in UsableEntries
        PROVE  BitmapFrames(h, k) \intersect freeOf(j) = {}
    <2> DEFINE p == BitmapPages(h)
    <2>1. p \in Nat /\ p <= MemMap[k].length
      BY BitmapPagesNat, EntryTypes DEF BitmapEntry
    <2>2. CASE j = k
      BY <2>1, <2>2, EntryTypes DEF BitmapFrames, Run
    <2>3. CASE j # k
      <3>1. /\ k < j => EndOf(MemMap[k]) <= MemMap[j].base
            /\ j < k => EndOf(MemMap[j]) <= MemMap[k].base
            /\ j < k \/ k < j
        BY <1>3, <2>3, UsableAssumption, EntryTypes
      <3>2. freeOf(j) = Run(MemMap[j].base, MemMap[j].length)
        BY <1>3, <2>3, EntryTypes
      <3> HIDE DEF freeOf, p
      <3>3. ASSUME NEW f \in Run(MemMap[k].base, p),
                   f \in Run(MemMap[j].base, MemMap[j].length)
            PROVE  FALSE
        BY <1>3, <2>1, <3>1, <3>3, EntryTypes DEF Run, EndOf
      <3> QED BY <3>2, <3>3 DEF BitmapFrames, p
    <2> QED BY <2>2, <2>3
  <1>4. FreeAtBoot(h, k) = UNION {freeOf(j) : j \in UsableEntries}
    BY DEF FreeAtBoot
  <1> HIDE DEF freeOf
  <1> QED BY <1>2, <1>3, <1>4

\* Boot ends with no call under way.
LEMMA NobodyInCritical ==
    pc = [c \in Callers |-> "idle"] => \A c \in Callers : ~InCritical(c)
  BY DEF InCritical

\* mmPhysInit establishes the invariant.
LEMMA IInvInit == Init => IInv
  <1> SUFFICES ASSUME Init PROVE IInv
    OBVIOUS
  <1>1. PICK g \in Garbage : \E h \in Ends(g), k \in UsableEntries :
          /\ BitmapEntry(h, k)
          /\ highestFrameIdx = h
          /\ bitmapFrames = BitmapFrames(h, k)
          /\ reserved = (0 .. (h - 1)) \ FreeAtBoot(h, k)
    BY DEF Init
  <1> PICK h \in Ends(g), k \in UsableEntries :
          /\ BitmapEntry(h, k)
          /\ highestFrameIdx = h
          /\ bitmapFrames = BitmapFrames(h, k)
          /\ reserved = (0 .. (h - 1)) \ FreeAtBoot(h, k)
    BY <1>1
  <1>2. h \in Nat
    BY EntryTypes DEF Ends, EndOf
  <1>3. bitmapFrames \subseteq Nat
    <2>1. BitmapPages(h) \in Nat /\ MemMap[k].base \in Nat
      BY <1>2, BitmapPagesNat, EntryTypes
    <2> QED BY <2>1 DEF BitmapFrames, Run
  <1>4. TypeOK
    BY <1>1, <1>2, <1>3 DEF Init, TypeOK, Frames, NoRun
  <1>5. MutualExclusion
    BY NobodyInCritical DEF Init, MutualExclusion
  <1>6. ReservedMarked
    BY <1>1, <1>2, FreeAtBootFacts DEF Init, ReservedMarked, Frames
  <1>7. \A c \in Callers : Owned(c) = {}
    BY DEF Init, Owned, InFlight
  <1>8. OwnedMarked /\ MarkedOwned /\ NoDoubleAllocation
    BY <1>7 DEF Init, OwnedMarked, MarkedOwned, NoDoubleAllocation
  <1>9. FoundIsClear /\ InFlightNotHeld
    BY DEF Init, FoundIsClear, InFlightNotHeld
  <1> QED BY <1>4, <1>5, <1>6, <1>8, <1>9 DEF IInv
------------------------------------------------------------------------------
(***************************************************************************)
(* Steps.  Most of them change neither the bitmap nor who owns what.       *)
(***************************************************************************)
LEMMA OwnershipKept ==
    ASSUME IInv, UNCHANGED bitmap, UNCHANGED bootVars,
           \A d \in Callers : Owned(d)' = Owned(d)
    PROVE  (ReservedMarked /\ OwnedMarked /\ MarkedOwned /\ NoDoubleAllocation)'
  <1>1. ReservedMarked'
    BY DEF IInv, ReservedMarked, bootVars, Frames
  <1>2. OwnedMarked'
    BY DEF IInv, OwnedMarked, bootVars
  <1>3. MarkedOwned'
    BY DEF IInv, MarkedOwned, bootVars
  <1>4. NoDoubleAllocation'
    BY DEF IInv, NoDoubleAllocation
  <1> QED BY <1>1, <1>2, <1>3, <1>4

\* Entering mmAllocFrame.
LEMMA CallAllocStep ==
    ASSUME IInv, NEW c \in Callers, CallAlloc(c) PROVE IInv'
  <1> USE DEF CallAlloc, Goto, IInv
  <1>1. TypeOK'
    BY DEF TypeOK, bootVars, Frames
  <1>2. \A d \in Callers : InCritical(d)' = InCritical(d)
    BY DEF TypeOK, InCritical
  <1>3. MutualExclusion'
    BY <1>2 DEF MutualExclusion
  <1>4. \A d \in Callers : Owned(d)' = Owned(d)
    BY DEF TypeOK, Owned, InFlight
  <1>5. (FoundIsClear /\ InFlightNotHeld)'
    BY DEF TypeOK, FoundIsClear, InFlightNotHeld, bootVars, Frames, FramesOf
  <1> QED BY <1>1, <1>3, <1>4, <1>5, OwnershipKept

\* keAcquireSpinLock lets a caller in only when nobody is inside.
LEMMA AcquireStep ==
    ASSUME IInv, NEW c \in Callers, Acquire(c) PROVE IInv'
  <1> USE DEF Acquire, Goto, IInv
  <1>1. TypeOK'
    BY DEF TypeOK, bootVars, Frames
  <1>2. \A d \in Callers : ~InCritical(d)
    BY DEF MutualExclusion
  <1>3. \A d \in Callers : InCritical(d)' <=> d = c
    BY <1>2 DEF TypeOK, InCritical
  <1>4. MutualExclusion'
    BY <1>3 DEF MutualExclusion
  <1>5. \A d \in Callers : Owned(d)' = Owned(d)
    BY DEF TypeOK, Owned, InFlight
  <1>6. (FoundIsClear /\ InFlightNotHeld)'
    BY DEF TypeOK, FoundIsClear, InFlightNotHeld, bootVars, Frames, FramesOf
  <1> QED BY <1>1, <1>4, <1>5, <1>6, OwnershipKept

\* A step inside the critical section leaves everyone else outside.
LEMMA OthersOutside ==
    ASSUME MutualExclusion, NEW c \in Callers, InCritical(c)
    PROVE  lock = TRUE /\ \A d \in Callers : d # c => ~InCritical(d)
  BY DEF MutualExclusion

\* A step inside the critical section keeps the exclusion.
LEMMA StaysInside ==
    ASSUME TypeOK, MutualExclusion, NEW c \in Callers, NEW to,
           InCritical(c), pc' = [pc EXCEPT ![c] = to], InCritical(c)', UNCHANGED lock
    PROVE  MutualExclusion'
  <1>1. \A d \in Callers : InCritical(d)' <=> d = c
    BY OthersOutside DEF TypeOK, InCritical
  <1> QED BY <1>1, OthersOutside DEF MutualExclusion

\* keReleaseSpinLock leaves nobody inside.
LEMMA Leaves ==
    ASSUME TypeOK, MutualExclusion, NEW c \in Callers,
           InCritical(c), pc' = [pc EXCEPT ![c] = "idle"], lock' = FALSE
    PROVE  MutualExclusion'
  <1>1. \A d \in Callers : ~InCritical(d)'
    BY OthersOutside DEF TypeOK, InCritical
  <1> QED BY <1>1 DEF MutualExclusion

\* The search finds a run that is clear, or changes nothing.
LEMMA ScanStep ==
    ASSUME IInv, NEW c \in Callers, Scan(c) PROVE IInv'
  <1> USE DEF Scan, AttemptReturns, Goto, IInv
  <1>1. TypeOK'
    <2>1. PICK s \in Nat : req' = [req EXCEPT ![c].base = s]
      <3>1. Frames \subseteq Nat /\ 0 \in Nat
        BY DEF Frames
      <3>2. \E s \in Frames \union {0} : req' = [req EXCEPT ![c].base = s]
        OBVIOUS
      <3> QED BY <3>1, <3>2
    <2>2. [req[c] EXCEPT !.base = s] \in [base : Nat, count : Counts \union {0}]
      BY DEF TypeOK
    <2>3. req' \in [Callers -> [base : Nat, count : Counts \union {0}]]
      BY <2>1, <2>2 DEF TypeOK
    <2>4. /\ pc' \in [Callers -> {"idle", "allocLock", "scan", "mark", "allocUnlock",
                           "freeLock", "clear", "freeUnlock"}]
          /\ retried' \in [Callers -> BOOLEAN]
      BY DEF TypeOK
    <2> QED BY <2>3, <2>4 DEF TypeOK, bootVars, Frames
  <1>2. InCritical(c) /\ InCritical(c)'
    BY DEF TypeOK, InCritical
  <1>3. MutualExclusion'
    BY <1>2, StaysInside
  <1>4. \A d \in Callers : Owned(d)' = Owned(d)
    BY DEF TypeOK, Owned, InFlight
  <1>5. FoundIsClear'
    <2> SUFFICES ASSUME NEW d \in Callers, pc'[d] = "mark"
                 PROVE  (/\ FramesOf(req[d]) \subseteq Frames \ bitmap
                         /\ req[d].base \in Frames \ bitmap
                         /\ req[d].count > 0)'
      BY DEF FoundIsClear
    <2>1. d = c
      BY <1>2, OthersOutside, ZenonT(60) DEF TypeOK, InCritical
    <2>2. PICK s \in Frames : /\ FirstFit(bitmap, highestFrameIdx, req[c].count, s)
                              /\ req' = [req EXCEPT ![c].base = s]
      BY <2>1 DEF TypeOK
    <2>3. req[c].count \in Nat \ {0} /\ s \in Nat
      BY DEF TypeOK, InFlightNotHeld, Frames
    <2>4. Run(s, req[c].count) \subseteq Frames \ bitmap /\ s \in Frames \ bitmap
      BY <2>2, <2>3 DEF FirstFit, Fits, Run, Frames
    <2>5. req'[c].base = s /\ req'[c].count = req[c].count
      BY <2>2 DEF TypeOK
    <2> QED BY <2>1, <2>3, <2>4, <2>5 DEF FramesOf, bootVars, Frames
  <1>6. InFlightNotHeld'
    BY DEF TypeOK, InFlightNotHeld
  <1> QED BY <1>1, <1>3, <1>4, <1>5, <1>6, OwnershipKept DEF bootVars
\* Setting the bits makes the run found owned.
LEMMA MarkStep ==
    ASSUME IInv, NEW c \in Callers, Mark(c) PROVE IInv'
  <1> USE DEF Mark, AttemptReturns, Goto, IInv
  <1>1. /\ req[c].count \in Counts /\ req[c].count > 0
        /\ FramesOf(req[c]) \subseteq Frames \ bitmap
        /\ req[c].base \in Frames \ bitmap
    BY DEF TypeOK, FoundIsClear
  <1>2. req[c].base # 0
    BY <1>1 DEF ReservedMarked, TypeOK, Frames
  <1>3. /\ pc' = [pc EXCEPT ![c] = "allocUnlock"]
        /\ UNCHANGED retried
    BY <1>2
  <1>4. TypeOK'
    BY <1>1, <1>3 DEF TypeOK, bootVars, Frames
  <1>5. InCritical(c) /\ InCritical(c)'
    BY <1>3 DEF TypeOK, InCritical
  <1>6. MutualExclusion'
    BY <1>3, <1>5, StaysInside
  <1>7. \A d \in Callers : Owned(d)' = IF d = c THEN Owned(d) \union {req[c]}
                                                ELSE Owned(d)
    BY <1>2, <1>3 DEF TypeOK, Owned, InFlight
  <1>8. \A d \in Callers : \A r \in Owned(d) :
            FramesOf(r) \intersect FramesOf(req[c]) = {}
    BY <1>1 DEF OwnedMarked
  <1>9. ReservedMarked'
    BY DEF ReservedMarked, bootVars, Frames
  <1>10. OwnedMarked'
    <2>1. FramesOf(req[c]) \intersect reserved = {} /\ req[c].count > 0
      BY <1>1 DEF ReservedMarked
    <2> SUFFICES ASSUME NEW d \in Callers, NEW r \in Owned(d)'
                 PROVE  /\ r.count > 0
                        /\ FramesOf(r) \subseteq bitmap'
                        /\ FramesOf(r) \intersect reserved' = {}
      BY DEF OwnedMarked
    <2>2. CASE r \in Owned(d)
      BY <2>2 DEF OwnedMarked, bootVars
    <2>3. CASE r = req[c]
      BY <2>1, <2>3 DEF bootVars
    <2> QED BY <1>7, <2>2, <2>3
  <1>11. MarkedOwned'
    BY <1>7 DEF MarkedOwned, bootVars
  <1>12. NoDoubleAllocation'
    BY <1>7, <1>8 DEF NoDoubleAllocation
  <1>13. FoundIsClear'
    BY <1>3, <1>5, OthersOutside DEF TypeOK, InCritical, FoundIsClear
  <1>14. InFlightNotHeld'
    <2>1. req[c].count > 0
      BY <1>1
    <2> QED BY <1>3, <2>1 DEF TypeOK, InFlightNotHeld
  <1> QED BY <1>4, <1>6, <1>9, <1>10, <1>11, <1>12, <1>13, <1>14

\* The run returned to the caller becomes held.
LEMMA ReturnAllocStep ==
    ASSUME IInv, NEW c \in Callers, ReturnAlloc(c) PROVE IInv'
  <1> USE DEF ReturnAlloc, LocalsDie, Goto, IInv
  <1>1. req[c].count \in Counts /\ req[c] \in [base : Nat, count : Counts]
    BY DEF TypeOK, InFlightNotHeld
  <1>2. TypeOK'
    BY <1>1 DEF TypeOK, bootVars, Frames, NoRun
  <1>3. InCritical(c)
    BY DEF InCritical
  <1>4. MutualExclusion'
    BY <1>3, Leaves
  <1>5. \A d \in Callers : Owned(d)' = Owned(d)
    BY DEF TypeOK, Owned, InFlight
  <1>6. (FoundIsClear /\ InFlightNotHeld)'
    BY DEF TypeOK, FoundIsClear, InFlightNotHeld, bootVars, Frames, FramesOf
  <1> QED BY <1>2, <1>4, <1>5, <1>6, OwnershipKept

\* Entering mmFreeFrame with a run the caller holds.
LEMMA CallFreeStep ==
    ASSUME IInv, NEW c \in Callers, CallFree(c) PROVE IInv'
  <1> USE DEF CallFree, Goto, IInv
  <1>1. PICK r \in held[c] : /\ req' = [req EXCEPT ![c] = r]
                             /\ held' = [held EXCEPT ![c] = @ \ {r}]
    OBVIOUS
  <1>2. r \in [base : Nat, count : Counts]
    BY DEF TypeOK
  <1>3. TypeOK'
    BY <1>1, <1>2 DEF TypeOK, bootVars, Frames
  <1>4. \A d \in Callers : InCritical(d)' = InCritical(d)
    BY DEF TypeOK, InCritical
  <1>5. MutualExclusion'
    BY <1>4 DEF MutualExclusion
  <1>6. \A d \in Callers : Owned(d)' = Owned(d)
    BY <1>1 DEF TypeOK, Owned, InFlight
  <1>7. (FoundIsClear /\ InFlightNotHeld)'
    BY <1>1, <1>2 DEF TypeOK, FoundIsClear, InFlightNotHeld, bootVars, Frames, FramesOf
  <1> QED BY <1>3, <1>5, <1>6, <1>7, OwnershipKept

\* Clearing the bits gives up exactly the caller's run.
LEMMA ClearStep ==
    ASSUME IInv, NEW c \in Callers, Clear(c) PROVE IInv'
  <1> USE DEF Clear, Goto, IInv
  <1>1. TypeOK'
    BY DEF TypeOK, bootVars, Frames
  <1>2. InCritical(c) /\ InCritical(c)'
    BY DEF TypeOK, InCritical
  <1>3. MutualExclusion'
    BY <1>2, StaysInside
  <1>4. req[c] \in Owned(c) /\ req[c] \notin held[c]
    BY DEF Owned, InFlight, InFlightNotHeld
  <1>5. \A d \in Callers : Owned(d)' = IF d = c THEN Owned(d) \ {req[c]}
                                                ELSE Owned(d)
    BY <1>4 DEF TypeOK, Owned, InFlight
  <1>6. \A d \in Callers : \A r \in Owned(d)' :
            FramesOf(r) \intersect FramesOf(req[c]) = {}
    BY <1>4, <1>5 DEF NoDoubleAllocation
  <1>7. ReservedMarked'
    BY <1>4 DEF ReservedMarked, OwnedMarked, bootVars, Frames
  <1>8. OwnedMarked'
    BY <1>5, <1>6 DEF OwnedMarked, bootVars
  <1>9. MarkedOwned'
    BY <1>5 DEF MarkedOwned, bootVars
  <1>10. NoDoubleAllocation'
    BY <1>5 DEF NoDoubleAllocation
  <1>11. (FoundIsClear /\ InFlightNotHeld)'
    BY <1>2, OthersOutside DEF TypeOK, InCritical, FoundIsClear, InFlightNotHeld,
                               bootVars, Frames, FramesOf
  <1> QED BY <1>1, <1>3, <1>7, <1>8, <1>9, <1>10, <1>11

\* Leaving mmFreeFrame.
LEMMA ReturnFreeStep ==
    ASSUME IInv, NEW c \in Callers, ReturnFree(c) PROVE IInv'
  <1> USE DEF ReturnFree, LocalsDie, Goto, IInv
  <1>1. TypeOK'
    BY DEF TypeOK, bootVars, Frames, NoRun
  <1>2. InCritical(c)
    BY DEF InCritical
  <1>3. MutualExclusion'
    BY <1>2, Leaves
  <1>4. \A d \in Callers : Owned(d)' = Owned(d)
    BY DEF TypeOK, Owned, InFlight
  <1>5. (FoundIsClear /\ InFlightNotHeld)'
    BY DEF TypeOK, FoundIsClear, InFlightNotHeld, bootVars, Frames, FramesOf
  <1> QED BY <1>1, <1>3, <1>4, <1>5, OwnershipKept

\* Every step of every caller keeps the invariant.
LEMMA IInvStep == IInv /\ [Next]_vars => IInv'
  <1> SUFFICES ASSUME IInv, [Next]_vars PROVE IInv'
    OBVIOUS
  <1>1. ASSUME NEW c \in Callers,
               CallAlloc(c) \/ CallFree(c) \/ Acquire(c) \/ Critical(c)
        PROVE  IInv'
    BY <1>1, CallAllocStep, CallFreeStep, AcquireStep, ScanStep, MarkStep,
       ReturnAllocStep, ClearStep, ReturnFreeStep DEF Critical
  <1>2. CASE UNCHANGED vars
    <2>1. \A d \in Callers : Owned(d)' = Owned(d) /\ InCritical(d)' = InCritical(d)
      BY <1>2 DEF vars, Owned, InFlight, InCritical
    <2>2. (TypeOK /\ MutualExclusion /\ FoundIsClear /\ InFlightNotHeld)'
      BY <1>2, <2>1 DEF vars, IInv, TypeOK, MutualExclusion, FoundIsClear,
                        InFlightNotHeld, Frames, FramesOf
    <2> QED BY <1>2, <2>1, <2>2, OwnershipKept DEF vars, bootVars, IInv
  <1> QED BY <1>1, <1>2 DEF Next

\* The invariant holds of mm/phys.c from boot on.
LEMMA Invariance == Spec => []IInv
  <1> QED BY IInvInit, IInvStep, PTL DEF Spec

------------------------------------------------------------------------------
\* Every variable keeps its type; no bit outside the bitmap is ever set.
THEOREM TypeCorrect == Spec => []TypeOK
  <1>1. IInv => TypeOK
    BY DEF IInv
  <1> QED BY <1>1, Invariance, PTL

(***************************************************************************)
(* The spinlock of mm/phys.c keeps all but one caller out of the bitmap.   *)
(***************************************************************************)
THEOREM LockExcludes == Spec => []MutualExclusion
  <1>1. IInv => MutualExclusion
    BY DEF IInv
  <1> QED BY <1>1, Invariance, PTL

(***************************************************************************)
(* mmAllocFrame never gives out a frame that has an owner.                 *)
(***************************************************************************)
THEOREM FramesHaveOneOwner == Spec => []NoDoubleAllocation
  <1>1. IInv => NoDoubleAllocation
    BY DEF IInv
  <1> QED BY <1>1, Invariance, PTL

(***************************************************************************)
(* The bitmap is exactly the frames in use at boot and the owned ones:     *)
(* mmAllocFrame and mmFreeFrame lose no frame and free none in use.        *)
(***************************************************************************)
THEOREM BitmapIsExact == Spec => []BitmapExact
  <1>1. ASSUME IInv PROVE BitmapExact
    <2> DEFINE runs == UNION {Owned(c) : c \in Callers}
    <2>1. \A r : r \in runs <=> \E c \in Callers : r \in Owned(c)
      OBVIOUS
    <2> HIDE DEF runs
    <2>2. \A f : f \in UNION {FramesOf(r) : r \in runs} <=>
                     \E c \in Callers : \E r \in Owned(c) : f \in FramesOf(r)
      BY <2>1
    <2> HIDE DEF runs
    <2>3. \A f : f \in bitmap <=>
                     f \in reserved \/ f \in UNION {FramesOf(r) : r \in runs}
      BY <1>1, <2>2 DEF IInv, ReservedMarked, OwnedMarked, MarkedOwned
    <2>4. bitmap = reserved \union UNION {FramesOf(r) : r \in runs}
      BY <2>3
    <2> QED BY <2>4 DEF BitmapExact, runs
  <1> QED BY <1>1, Invariance, PTL

(***************************************************************************)
(* The frames that mmAllocBitmap took for the bitmap are never handed out. *)
(***************************************************************************)
THEOREM BitmapIsKept == Spec => []BitmapNotHandedOut
  <1>1. IInv => BitmapNotHandedOut
    BY DEF IInv, BitmapNotHandedOut, ReservedMarked, OwnedMarked, TypeOK
  <1> QED BY <1>1, Invariance, PTL

------------------------------------------------------------------------------
(***************************************************************************)
(* Refinement: setting the bits is the atomic allocation, clearing them    *)
(* the atomic release, and every other step stutters.                      *)
(***************************************************************************)
FramesKnown == Frames \subseteq AllFrames

\* The bitmap describes frames that some value of highestAddr accounts for.
LEMMA FramesKnownInvariant == Spec => []FramesKnown
  <1>1. Init => FramesKnown
    <2> SUFFICES ASSUME NEW g \in Garbage, NEW h \in Ends(g), highestFrameIdx = h
                 PROVE  FramesKnown
      BY DEF Init
    <2>1. 0 .. (h - 1) \in {0 .. (e - 1) : e \in UNION {Ends(x) : x \in Garbage}}
      OBVIOUS
    <2> QED BY <2>1 DEF FramesKnown, Frames, AllFrames
  <1>2. FramesKnown /\ [Next]_vars => FramesKnown'
    <2>1. [Next]_vars => UNCHANGED highestFrameIdx
      BY DEF Next, CallAlloc, CallFree, Acquire, Critical, Scan, Mark, ReturnAlloc,
             Clear, ReturnFree, vars, bootVars
    <2> QED BY <2>1 DEF FramesKnown, Frames
  <1> QED BY <1>1, <1>2, PTL DEF Spec

owner == [c \in Callers |-> Owned(c)]

\* Setting the bits is the abstract allocation.
LEMMA MarkAllocates ==
    ASSUME IInv, FramesKnown, NEW c \in Callers, Mark(c)
    PROVE  Alloc!Allocate(c)
  <1> USE DEF Mark, AttemptReturns, Goto, IInv
  <1>1. /\ req[c].count \in Counts /\ req[c] \in [base : Nat, count : Counts]
        /\ FramesOf(req[c]) \subseteq Frames \ bitmap
        /\ req[c].base \in AllFrames
        /\ req[c].base # 0
    BY DEF TypeOK, FoundIsClear, FramesKnown, ReservedMarked, Frames
  <1>2. pc' = [pc EXCEPT ![c] = "allocUnlock"]
    BY <1>1
  <1>3. owner' = [owner EXCEPT ![c] = @ \union {req[c]}]
    BY <1>1, <1>2 DEF TypeOK, owner, Owned, InFlight
  <1>4. (Frames \ bitmap)' = (Frames \ bitmap) \ FramesOf(req[c])
    BY DEF bootVars, Frames
  <1>5. req[c] = [base |-> req[c].base, count |-> req[c].count]
    BY <1>1
  <1> DEFINE base == req[c].base
             count == req[c].count
  <1>6. /\ Run(base, count) \subseteq Frames \ bitmap
        /\ (Frames \ bitmap)' = (Frames \ bitmap) \ Run(base, count)
        /\ owner' = [owner EXCEPT ![c] = @ \union {[base |-> base, count |-> count]}]
    BY <1>1, <1>3, <1>4, <1>5 DEF FramesOf
  <1>7. base \in AllFrames /\ count \in Counts
    BY <1>1
  <1> HIDE DEF base, count
  <1> QED BY ONLY <1>6, <1>7 DEF Alloc!Allocate, Alloc!Run, Run, owner

\* Clearing the bits is the abstract release.
LEMMA ClearFrees ==
    ASSUME IInv, NEW c \in Callers, Clear(c)
    PROVE  Alloc!Free(c)
  <1> USE DEF Clear, Goto, IInv
  <1>1. req[c] \in owner[c] /\ req[c] \notin held[c]
    BY DEF owner, Owned, InFlight, InFlightNotHeld
  <1>2. owner' = [owner EXCEPT ![c] = @ \ {req[c]}]
    BY <1>1, ZenonT(60) DEF TypeOK, owner, Owned, InFlight
  <1>3. FramesOf(req[c]) \subseteq Frames
    BY <1>1 DEF owner, OwnedMarked, TypeOK
  <1>4. (Frames \ bitmap)' = (Frames \ bitmap) \union FramesOf(req[c])
    BY <1>3 DEF bootVars, Frames
  <1> DEFINE r == req[c]
  <1>5. /\ r \in owner[c]
        /\ (Frames \ bitmap)' = (Frames \ bitmap) \union Run(r.base, r.count)
        /\ owner' = [owner EXCEPT ![c] = @ \ {r}]
    BY <1>1, <1>2, <1>4 DEF FramesOf
  <1> HIDE DEF r
  <1> QED BY ONLY <1>5 DEF Alloc!Free, Alloc!FramesOf, Alloc!Run, Run, owner

\* Calls, locks, searches and returns are invisible to the abstract allocator.
LEMMA OtherStepsStutter ==
    ASSUME IInv, NEW c \in Callers,
           \/ CallAlloc(c) \/ CallFree(c) \/ Acquire(c)
           \/ Scan(c) \/ ReturnAlloc(c) \/ ReturnFree(c)
    PROVE  UNCHANGED Alloc!vars
  <1>1. UNCHANGED <<bitmap, highestFrameIdx>>
    BY DEF CallAlloc, CallFree, Acquire, Scan, ReturnAlloc, ReturnFree, bootVars
  <1>2. \A d \in Callers : Owned(d)' = Owned(d)
    <2> USE DEF IInv, TypeOK, Goto, Owned, InFlight
    <2>1. CASE CallAlloc(c)
      BY <2>1 DEF CallAlloc
    <2>2. CASE CallFree(c)
      BY <2>2 DEF CallFree
    <2>3. CASE Acquire(c)
      BY <2>3 DEF Acquire
    <2>4. CASE Scan(c)
      BY <2>4 DEF Scan, AttemptReturns
    <2>5. CASE ReturnAlloc(c)
      BY <2>5 DEF ReturnAlloc, LocalsDie
    <2>6. CASE ReturnFree(c)
      BY <2>6 DEF ReturnFree, LocalsDie
    <2> QED BY <2>1, <2>2, <2>3, <2>4, <2>5, <2>6
  <1> QED BY <1>1, <1>2 DEF Alloc!vars, Frames

(***************************************************************************)
(* mm/phys.c implements FrameAlloc: to its callers, mmAllocFrame and       *)
(* mmFreeFrame look atomic, whatever the interleaving.                     *)
(***************************************************************************)
THEOREM Refinement == Spec => ImplementsFrameAlloc
  <1>1. Init /\ IInv /\ FramesKnown => Alloc!Init
    BY DEF Init, Alloc!Init, Owned, InFlight, FramesKnown
  <1>2. IInv /\ FramesKnown /\ [Next]_vars => [Alloc!Next]_(Alloc!vars)
    <2> SUFFICES ASSUME IInv, FramesKnown, [Next]_vars
                 PROVE  Alloc!Next \/ UNCHANGED Alloc!vars
      OBVIOUS
    <2>1. ASSUME NEW c \in Callers,
                 CallAlloc(c) \/ CallFree(c) \/ Acquire(c) \/ Critical(c)
          PROVE  Alloc!Next \/ UNCHANGED Alloc!vars
      BY <2>1, MarkAllocates, ClearFrees, OtherStepsStutter DEF Critical, Alloc!Next
    <2>2. CASE UNCHANGED vars
      BY <2>2 DEF vars, Alloc!vars, Owned, InFlight, Frames
    <2> QED BY <2>1, <2>2 DEF Next
  <1> QED BY <1>1, <1>2, Invariance, FramesKnownInvariant, PTL
          DEF Spec, ImplementsFrameAlloc, Alloc!Spec
------------------------------------------------------------------------------
(***************************************************************************)
(* A refusal is current.                                                   *)
(***************************************************************************)
LEMMA FailureStep ==
    ASSUME IInv, FailureIsCurrent, [Next]_vars
    PROVE  FailureIsCurrent'
  <1> SUFFICES ASSUME NEW d \in Callers, pc'[d] = "allocUnlock", req'[d].base = 0
               PROVE  \A s \in Frames' :
                          ~Fits(bitmap', highestFrameIdx', req'[d].count, s)
    BY DEF FailureIsCurrent
  <1> USE DEF IInv, Goto
  \* Another caller's step leaves d where it was.
  <1>1. ASSUME UNCHANGED <<bootVars, bitmap>>,
               pc[d] = "allocUnlock", req'[d] = req[d]
        PROVE  \A s \in Frames' : ~Fits(bitmap', highestFrameIdx', req'[d].count, s)
    BY <1>1 DEF FailureIsCurrent, bootVars, Frames
  <1>2. CASE UNCHANGED vars
    BY <1>1, <1>2 DEF vars, bootVars
  <1>3. ASSUME NEW c \in Callers, c # d,
               CallAlloc(c) \/ CallFree(c) \/ Acquire(c) \/ Scan(c)
                   \/ ReturnAlloc(c) \/ ReturnFree(c)
        PROVE  \A s \in Frames' : ~Fits(bitmap', highestFrameIdx', req'[d].count, s)
    <2>1. pc[d] = "allocUnlock" /\ req'[d] = req[d] /\ UNCHANGED <<bootVars, bitmap>>
      BY <1>3 DEF TypeOK, CallAlloc, CallFree, Acquire, Scan, AttemptReturns,
                  ReturnAlloc, ReturnFree, LocalsDie
    <2> QED BY <1>1, <2>1
  \* The lock keeps the steps that change the bitmap away from d.
  <1>4. ASSUME NEW c \in Callers, c # d, Mark(c) \/ Clear(c)
        PROVE  FALSE
    <2>1. pc[d] = "allocUnlock" /\ pc[c] \in {"mark", "clear"}
      BY <1>4 DEF TypeOK, Mark, AttemptReturns, Clear
    <2> QED BY <1>4, <2>1 DEF MutualExclusion, InCritical
  <1>5. CASE Scan(d)
    <2>1. /\ req' = [req EXCEPT ![d].base = 0]
          /\ \A s \in Frames : ~Fits(bitmap, highestFrameIdx, req[d].count, s)
      BY <1>5 DEF Scan, AttemptReturns, TypeOK
    <2>2. req'[d].count = req[d].count /\ UNCHANGED <<bootVars, bitmap>>
      BY <1>5, <2>1 DEF Scan, TypeOK
    <2> QED BY <2>1, <2>2 DEF bootVars, Frames
  \* Frame 0 is reserved: the search did not find it.
  <1>6. CASE Mark(d)
    <2>1. pc[d] = "mark" /\ req[d].base = 0
      BY <1>6 DEF Mark, AttemptReturns
    <2>2. 0 \in Frames \ bitmap
      BY <2>1 DEF FoundIsClear
    <2>3. highestFrameIdx > 0
      BY <2>2 DEF TypeOK, Frames
    <2> QED BY <2>2, <2>3 DEF ReservedMarked
  <1>7. CASE \/ CallAlloc(d) \/ CallFree(d) \/ Acquire(d) \/ Clear(d)
             \/ ReturnAlloc(d) \/ ReturnFree(d)
    BY <1>7 DEF TypeOK, CallAlloc, CallFree, Acquire, Clear, ReturnAlloc, ReturnFree
  <1>8. CASE Next
    <2>1. PICK c \in Callers : CallAlloc(c) \/ CallFree(c) \/ Acquire(c) \/ Critical(c)
      BY <1>8 DEF Next
    <2>2. CASE c = d
      BY <1>5, <1>6, <1>7, <2>1, <2>2 DEF Critical
    <2>3. CASE c # d
      BY <1>3, <1>4, <2>1, <2>3 DEF Critical
    <2> QED BY <2>2, <2>3
  <1> QED BY <1>2, <1>8

(***************************************************************************)
(* When mmAllocFrame is about to report failure, the bitmap still has no   *)
(* run that fits, whatever the other cores do.                             *)
(***************************************************************************)
THEOREM RefusalIsCurrent == Spec => []FailureIsCurrent
  <1>1. Init => FailureIsCurrent
    BY DEF Init, FailureIsCurrent
  <1>2. IInv /\ FailureIsCurrent /\ [Next]_vars => FailureIsCurrent'
    BY FailureStep
  <1> QED BY <1>1, <1>2, Invariance, PTL DEF Spec
==============================================================================
