------------------------------ MODULE FrameAlloc ------------------------------
(***************************************************************************)
(* What the physical frame allocator promises its callers: a caller may be *)
(* given a run of frames nobody owns, keeps it until it gives it back, and *)
(* a request may be refused.  No lock, no bitmap, no search.               *)
(***************************************************************************)
EXTENDS FrameRuns

CONSTANTS
    Callers,  \* Threads of control that allocate and free.
    Frames,   \* Every physical frame.
    Counts    \* Request sizes.

VARIABLES
    free,     \* Frames nobody owns.
    owned     \* The runs each caller owns, as records [base, count].

vars == <<free, owned>>

FramesOf(r) == Run(r.base, r.count)

Init ==
    /\ free \in SUBSET Frames
    /\ owned = [c \in Callers |-> {}]

Allocate(c) ==
    \E count \in Counts, base \in Frames :
        /\ Run(base, count) \subseteq free
        /\ free' = free \ Run(base, count)
        /\ owned' = [owned EXCEPT ![c] = @ \union {[base |-> base, count |-> count]}]

Free(c) ==
    \E r \in owned[c] :
        /\ free' = free \union FramesOf(r)
        /\ owned' = [owned EXCEPT ![c] = @ \ {r}]

Next == \E c \in Callers : Allocate(c) \/ Free(c)

Spec == Init /\ [][Next]_vars
==============================================================================
