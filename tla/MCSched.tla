------------------------------- MODULE MCSched -------------------------------
(***************************************************************************)
(* Three cores and five processes for Sched: the arbiter goes around once  *)
(* and a second process reaches the queue of core 1, which then switches   *)
(* between two.  No operator of Sched tells new processes apart, so they   *)
(* are symmetric; only invariants are checked under symmetry.              *)
(***************************************************************************)
EXTENDS Sched, TLC

CONSTANTS p1, p2, p3, p4, p5

MCProcs == {p1, p2, p3, p4, p5}

MCSymmetry == Permutations(MCProcs)
==============================================================================
