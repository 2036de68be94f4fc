--------------------------- MODULE FrameScanProofs ---------------------------
(***************************************************************************)
(* The search of mmDoAllocFrames is correct for every bitmap and request.  *)
(***************************************************************************)
EXTENDS FrameScan, TLAPS

\* No run that fits starts before frame n.
NoFitBefore(n) ==
    \A t \in 0 .. (n - 1) : ~Fits(bitmap, highestFrameIdx, count, t)

\* The loop follows no run, or the run of clear bits from idx up to n - 1.
FollowsRun(n) ==
    \/ idx = -1 /\ nFrames = 0 /\ NoFitBefore(n)
    \/ /\ idx \in 0 .. (n - 1)
       /\ nFrames = n - idx
       /\ \A f \in idx .. (n - 1) : f \notin bitmap
       /\ NoFitBefore(idx)

LoopInv ==
    /\ TypeOK
    /\ pc = "loop" => FollowsRun(i) /\ nFrames <= count
    /\ pc = "test" =>
          \/ i = highestFrameIdx /\ FollowsRun(i) /\ nFrames <= count
          \/ i < highestFrameIdx /\ FollowsRun(i + 1) /\ nFrames = count + 1
    /\ pc = "failed" => NoFitBefore(highestFrameIdx)

USE ScanAssumption

\* The locals of mmDoAllocFrames before the first bit.
LEMMA LoopInvInit == Init => LoopInv
  BY DEF Init, LoopInv, TypeOK, Frames, FollowsRun, NoFitBefore

\* A run of clear bits too short for the request ends at a set bit, or at the
\* end of the bitmap: nothing that starts in it fits.
LEMMA ShortRun ==
    ASSUME TypeOK, NEW n \in 0 .. highestFrameIdx,
           FollowsRun(n), nFrames <= count,
           n = highestFrameIdx \/ n \in bitmap
    PROVE  NoFitBefore(n)
  <1> SUFFICES ASSUME NEW t \in 0 .. (n - 1),
                      Fits(bitmap, highestFrameIdx, count, t)
               PROVE  FALSE
    BY DEF NoFitBefore
  <1> USE DEF TypeOK, Frames
  <1>1. idx \in 0 .. (n - 1) /\ nFrames = n - idx /\ idx <= t
    BY DEF FollowsRun, NoFitBefore
  <1>2. n \in Run(t, count + 1)
    BY <1>1 DEF Run
  <1> QED BY <1>2 DEF Fits

\* Each bit looked at, the test after the loop and the marking keep it.
LEMMA LoopInvStep == LoopInv /\ [Next]_vars => LoopInv'
  <1> SUFFICES ASSUME LoopInv, [Next]_vars PROVE LoopInv'
    OBVIOUS
  <1> USE DEF LoopInv, TypeOK, Frames
  <1>1. CASE ClearBit
    <2> PICK m \in Nat : m = i + 1
      OBVIOUS
    <2>1. m \in 1 .. highestFrameIdx /\ i \in 0 .. (m - 1)
      BY <1>1 DEF ClearBit
    <2>3. FollowsRun(m)' /\ nFrames' = nFrames + 1
      <3>1. CASE idx = -1
        BY <1>1, <2>1, <3>1 DEF ClearBit, FollowsRun, NoFitBefore
      <3>2. CASE idx # -1
        BY <1>1, <2>1, <3>2 DEF ClearBit, FollowsRun, NoFitBefore
      <3> QED BY <3>1, <3>2
    <2>4. CASE nFrames < count
      BY <1>1, <2>1, <2>3, <2>4 DEF ClearBit, FollowsRun
    <2>5. CASE nFrames >= count
      BY <1>1, <2>1, <2>3, <2>5 DEF ClearBit, FollowsRun
    <2> QED BY <2>4, <2>5
  <1>2. CASE UsedBit
    <2>1. NoFitBefore(i)
      BY <1>2, ShortRun DEF UsedBit
    <2>2. ~Fits(bitmap, highestFrameIdx, count, i)
      BY <1>2 DEF UsedBit, Fits, Run
    <2>3. NoFitBefore(i + 1)
      BY <2>1, <2>2 DEF NoFitBefore
    <2> QED BY <1>2, <2>3 DEF UsedBit, FollowsRun, NoFitBefore
  <1>3. CASE LoopEnd
    BY <1>3 DEF LoopEnd, FollowsRun, NoFitBefore
  <1>4. CASE Refuse
    <2>1. i = highestFrameIdx /\ FollowsRun(i) /\ nFrames <= count
      BY <1>4 DEF Refuse, FollowsRun
    <2>2. NoFitBefore(highestFrameIdx)
      BY <2>1, ShortRun
    <2> QED BY <1>4, <2>2 DEF Refuse, NoFitBefore
  <1>5. CASE Mark
    <2>1. Run(idx, count) \subseteq Frames
      BY <1>5 DEF Mark, FollowsRun, Run
    <2> QED BY <1>5, <2>1 DEF Mark
  <1>6. CASE UNCHANGED vars
    BY <1>6 DEF vars, FollowsRun, NoFitBefore
  <1> QED BY <1>1, <1>2, <1>3, <1>4, <1>5, <1>6 DEF Next

\* What mmDoAllocFrames knows at each bit (mm/phys.c:112): the run it follows
\* is clear and starts right after the last used bit, and no earlier one fits.
THEOREM ScanInvariant == Spec => []LoopInv
  <1>1. Init => LoopInv
    BY LoopInvInit
  <1>2. LoopInv /\ [Next]_vars => LoopInv'
    BY LoopInvStep
  <1> QED BY <1>1, <1>2, PTL DEF Spec

(***************************************************************************)
(* mmDoAllocFrames (mm/phys.c:126) refuses a request only when no run of   *)
(* count + 1 clear bits exists, for every bitmap, size and request.        *)
(***************************************************************************)
THEOREM RefusalIsSound == Spec => []RefusedOnlyWithoutRun
  <1>1. LoopInv => RefusedOnlyWithoutRun
    BY DEF LoopInv, RefusedOnlyWithoutRun, NoFitBefore, Frames
  <1> QED BY <1>1, ScanInvariant, PTL

(***************************************************************************)
(* The frames it takes (mm/phys.c:130) are the first fit, were all clear,  *)
(* and are the only bits it changes.                                       *)
(***************************************************************************)
THEOREM TakesFirstFit == Spec => TakesExactlyFirstFit
  <1>1. ASSUME LoopInv, [Next]_vars, bitmap' # bitmap
        PROVE  /\ HasFit(idx)
               /\ bitmap \intersect Run(idx, count) = {}
               /\ bitmap' \ bitmap = Run(idx, count)
    <2> USE DEF LoopInv, TypeOK, Frames
    <2>1. Mark
      BY <1>1 DEF Next, ClearBit, UsedBit, LoopEnd, Refuse, vars
    <2>2. /\ i < highestFrameIdx /\ nFrames = count + 1
          /\ idx \in 0 .. i /\ nFrames = i + 1 - idx
          /\ \A f \in idx .. i : f \notin bitmap
          /\ NoFitBefore(idx)
      BY <1>1, <2>1 DEF Mark, FollowsRun
    <2>3. HasFit(idx)
      BY <1>1, <2>2 DEF HasFit, FirstFit, Fits, Run, NoFitBefore
    <2>4. bitmap \intersect Run(idx, count) = {}
      BY <1>1, <2>2 DEF Run
    <2> QED BY <2>1, <2>3, <2>4 DEF Mark
  <1> QED BY <1>1, ScanInvariant, PTL DEF Spec, TakesExactlyFirstFit
==============================================================================
