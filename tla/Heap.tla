--------------------------------- MODULE Heap ---------------------------------
(***************************************************************************)
(* What the kernel heap promises: a region it hands out lies in memory it  *)
(* was given, overlaps no other live region, and is its owner's until it   *)
(* is freed, moved or resized.  Any request may be refused.                *)
(***************************************************************************)
EXTENDS Integers

VARIABLES
    pools,  \* Memory the heap was given: records [mem, words].
    live    \* Regions handed out and not freed: records [ptr, words].

vars == <<pools, live>>

Words(r) == r.ptr .. r.ptr + r.words - 1

Within(r, pool) == Words(r) \subseteq pool.mem .. pool.mem + pool.words - 1

Init == pools = {} /\ live = {}

\* A region may be handed out in addition to those in `others'.
MayAdd(r, others) ==
    /\ \E pool \in pools : Within(r, pool)
    /\ \A s \in others : Words(r) \intersect Words(s) = {}

Allocate ==
    /\ \E r \in live' \ live : MayAdd(r, live) /\ live' = live \union {r}
    /\ UNCHANGED pools

Free ==
    /\ \E r \in live : live' = live \ {r}
    /\ UNCHANGED pools

\* A region moves, or changes its size where it is.
Reallocate ==
    /\ \E r \in live, s \in live' :
           MayAdd(s, live \ {r}) /\ live' = (live \ {r}) \union {s}
    /\ UNCHANGED pools

AddPool ==
    /\ \E pool \in pools' \ pools : pools' = pools \union {pool}
    /\ UNCHANGED live

RemovePool ==
    /\ \E pool \in pools :
           (\A r \in live : ~Within(r, pool)) /\ pools' = pools \ {pool}
    /\ UNCHANGED live

Next == Allocate \/ Free \/ Reallocate \/ AddPool \/ RemovePool

Spec == Init /\ [][Next]_vars
===============================================================================
