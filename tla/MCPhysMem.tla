------------------------------ MODULE MCPhysMem ------------------------------
(***************************************************************************)
(* A small memory map for PhysMem, with one-byte pages.  With highestAddr  *)
(* starting at 0 the bitmap of 8 frames takes frame 1 and frames 3 to 7    *)
(* are free; starting at 16 it needs two frames, which only the second     *)
(* usable entry has, and frames 1, 5, 6 and 7 are left.                    *)
(***************************************************************************)
EXTENDS PhysMem

CONSTANTS c1, c2

MCMemMap ==
    << [usable |-> FALSE, base |-> 0, length |-> 1],
       [usable |-> TRUE,  base |-> 1, length |-> 1],
       [usable |-> FALSE, base |-> 2, length |-> 1],
       [usable |-> TRUE,  base |-> 3, length |-> 5] >>

MCCallers == {c1, c2}
==============================================================================
