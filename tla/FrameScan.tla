------------------------------ MODULE FrameScan ------------------------------
(***************************************************************************)
(* The bitmap search of the physical frame allocator, mmDoAllocFrames of   *)
(* src/ntos/mm/phys.c, one loop iteration per step.  The caller holds the  *)
(* allocator's lock for the whole search, so nothing else moves.           *)
(*                                                                         *)
(* The search is run on every bitmap and for every request size: it finds  *)
(* the first frame that FrameRuns calls a FirstFit and fails only when     *)
(* there is none.  PhysMem uses that closed form for the whole loop.       *)
(***************************************************************************)
EXTENDS FrameRuns

CONSTANTS
    highestFrameIdx,  \* Number of frames the bitmap describes.
    Counts            \* Request sizes.

ASSUME ScanAssumption == highestFrameIdx \in Nat /\ Counts \subseteq Nat

VARIABLES
    bitmap,   \* Frames whose bit is set.
    count,    \* The request.
    i,        \* The loop index.
    nFrames,  \* Length of the run of clear bits being followed.
    idx,      \* Its first frame, or -1.
    pc        \* "loop", "test" (line 126), "failed" (127) or "marked" (137).

vars == <<bitmap, count, i, nFrames, idx, pc>>

Frames == 0 .. (highestFrameIdx - 1)

Init ==
    /\ bitmap \in SUBSET Frames
    /\ count \in Counts
    /\ i = 0
    /\ nFrames = 0
    /\ idx = -1
    /\ pc = "loop"

------------------------------------------------------------------------------
(***************************************************************************)
(* Mutants of the search.                                                  *)
(***************************************************************************)

\* The next run starts without forgetting the frames counted before it.
UsedBitNoReset ==
    /\ pc = "loop"
    /\ i \in bitmap
    /\ idx' = -1
    /\ i' = i + 1
    /\ UNCHANGED <<bitmap, count, nFrames, pc>>

\* A used bit does not advance the loop.
UsedBitNoAdvance ==
    /\ pc = "loop"
    /\ i \in bitmap
    /\ idx' = -1
    /\ nFrames' = 0
    /\ UNCHANGED <<bitmap, count, i, pc>>

\* The last frame is never looked at.
LoopEndEarly ==
    /\ pc = "loop"
    /\ i >= highestFrameIdx - 1
    /\ pc' = "test"
    /\ UNCHANGED <<bitmap, count, i, nFrames, idx>>

------------------------------------------------------------------------------
(***************************************************************************)
(* Lines 112-124.  A clear bit starts or extends a run; the test compares  *)
(* the length before this bit with the request.                            *)
(***************************************************************************)
ClearBit ==
    /\ pc = "loop"
    /\ i < highestFrameIdx
    /\ i \notin bitmap
    /\ idx' = IF idx < 0 THEN i ELSE idx
    /\ nFrames' = nFrames + 1
    /\ \/ nFrames >= count /\ pc' = "test" /\ i' = i
       \/ nFrames < count  /\ pc' = pc     /\ i' = i + 1
    /\ UNCHANGED <<bitmap, count>>

\* A set bit ends the run.
UsedBit ==
    /\ pc = "loop"
    /\ i \in bitmap
    /\ idx' = -1
    /\ nFrames' = 0
    /\ i' = i + 1
    /\ UNCHANGED <<bitmap, count, pc>>

\* The loop condition fails.
LoopEnd ==
    /\ pc = "loop"
    /\ i >= highestFrameIdx
    /\ pc' = "test"
    /\ UNCHANGED <<bitmap, count, i, nFrames, idx>>

(***************************************************************************)
(* Lines 126-128.  nFrames is zero only when idx is negative, so the       *)
(* unsigned comparison of nFrames - 1 never sees a wrapped value.          *)
(***************************************************************************)
Refuse ==
    /\ pc = "test"
    /\ idx < 0 \/ nFrames - 1 < count
    /\ pc' = "failed"
    /\ UNCHANGED <<bitmap, count, i, nFrames, idx>>

\* Lines 130-137: take the frames.  Mmu has the memset of line 136.
Mark ==
    /\ pc = "test"
    /\ idx >= 0 /\ nFrames - 1 >= count
    /\ bitmap' = bitmap \union Run(idx, count)
    /\ pc' = "marked"
    /\ UNCHANGED <<count, i, nFrames, idx>>

Next == ClearBit \/ UsedBit \/ LoopEnd \/ Refuse \/ Mark

Spec == Init /\ [][Next]_vars /\ WF_vars(Next)

------------------------------------------------------------------------------
TypeOK ==
    /\ bitmap \subseteq Frames
    /\ count \in Counts
    /\ i \in 0 .. highestFrameIdx
    /\ nFrames \in 0 .. highestFrameIdx
    /\ idx \in -1 .. (highestFrameIdx - 1)
    /\ pc \in {"loop", "test", "failed", "marked"}

HasFit(s) == FirstFit(bitmap, highestFrameIdx, count, s)

(***************************************************************************)
(* A request is refused only when no run of count + 1 clear bits exists    *)
(* anywhere in the bitmap, whatever fragments the loop walked over before. *)
(***************************************************************************)
RefusedOnlyWithoutRun ==
    pc = "failed" =>
        \A s \in Frames : ~Fits(bitmap, highestFrameIdx, count, s)

(***************************************************************************)
(* The frames taken are the first fit of the bitmap the search was given,  *)
(* were all clear in it, and are exactly the bits that change.             *)
(***************************************************************************)
TakesExactlyFirstFit ==
    [][bitmap' # bitmap =>
          /\ HasFit(idx)
          /\ bitmap \intersect Run(idx, count) = {}
          /\ bitmap' \ bitmap = Run(idx, count)]_vars

\* The search returns: it ends in the refusal or with frames taken.
SearchEnds == <>(pc \in {"failed", "marked"})

(***************************************************************************)
(* What mm/phys.h promises: a request is refused only when there is no run *)
(* of count clear frames.  The code refuses a run of exactly count frames. *)
(***************************************************************************)
RefusedOnlyWithoutFrames ==
    pc = "failed" =>
        \A s \in Frames : Run(s, count) \intersect bitmap # {} \/
                          ~(Run(s, count) \subseteq Frames)
==============================================================================
