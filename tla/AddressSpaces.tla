----------------------------- MODULE AddressSpaces -----------------------------
(***************************************************************************)
(* What address spaces promise: each is a mapping of user pages of its     *)
(* own.  A new one maps nothing, and a step maps or unmaps one page in one *)
(* of them; no page of any other space moves.                              *)
(***************************************************************************)
EXTENDS Integers

VARIABLE spaces     \* Space |-> (user page |-> entry, or Unmapped).

CONSTANTS Unmapped

Create ==
    \E s \in DOMAIN spaces' \ DOMAIN spaces :
        /\ DOMAIN spaces' = DOMAIN spaces \union {s}
        /\ \A t \in DOMAIN spaces : spaces'[t] = spaces[t]
        /\ \A page \in DOMAIN spaces'[s] : spaces'[s][page] = Unmapped

\* Maps (any entry) or unmaps one page.
Change ==
    \E s \in DOMAIN spaces : \E page \in DOMAIN spaces[s] :
        spaces' = [spaces EXCEPT ![s][page] = spaces'[s][page]]

Init == \A s \in DOMAIN spaces : \A page \in DOMAIN spaces[s] :
            spaces[s][page] = Unmapped

Next == Create \/ Change

Spec == Init /\ [][Next]_spaces
===============================================================================
