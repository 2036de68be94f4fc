------------------------------ MODULE FrameRuns ------------------------------
(***************************************************************************)
(* Runs of physical page frames, as the frame allocator of mm/phys.c sees  *)
(* them.  A bitmap is the set of the frame indices whose bit is set; a set *)
(* bit means "in use".                                                     *)
(***************************************************************************)
EXTENDS Integers

\* The count frames that start at frame base.
Run(base, count) == base .. (base + count - 1)

(***************************************************************************)
(* What the search of mmDoAllocFrames accepts at frame s for a request of  *)
(* count frames: the loop leaves through `nFrames++ >= count' only at the  *)
(* (count+1)-th clear bit in a row, and the test after it refuses a run    *)
(* that reached the end of the bitmap with count bits or fewer.            *)
(***************************************************************************)
Fits(bitmap, highest, count, s) ==
    Run(s, count + 1) \subseteq (0 .. (highest - 1)) \ bitmap

\* The first such frame, which is the one the search returns.
FirstFit(bitmap, highest, count, s) ==
    /\ Fits(bitmap, highest, count, s)
    /\ \A t \in 0 .. (s - 1) : ~Fits(bitmap, highest, count, t)
==============================================================================
