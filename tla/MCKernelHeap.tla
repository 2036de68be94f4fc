----------------------------- MODULE MCKernelHeap -----------------------------
(***************************************************************************)
(* A heap of four first-level and four second-level classes over a pool of *)
(* 18 words, that holds four blocks, and a second pool of six.             *)
(***************************************************************************)
EXTENDS KernelHeap

CONSTANTS c1, c2

MCCallers == {c1, c2}
MCSymmetry == Permutations(MCCallers)
MCRoot == [mem |-> 2, words |-> 18]
MCMore == {[mem |-> 40, words |-> 6]}
===============================================================================
