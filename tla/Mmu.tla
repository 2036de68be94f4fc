---------------------------------- MODULE Mmu ----------------------------------
(***************************************************************************)
(* Page tables: src/ntos/platform/amd64/cpu/mmu.c, the part of             *)
(* src/ntos/mm/page.c that maps, and the frames both take from the         *)
(* allocator of mm/phys.c.                                                 *)
(*                                                                         *)
(* A memory is a record: free is the set of the frames whose bit is clear, *)
(* tab gives what each frame holds when it is read as a table.  A virtual  *)
(* page is a number; its base-Fan digits are the indices at each level.    *)
(***************************************************************************)
EXTENDS FrameRuns, FiniteSets

CONSTANTS
    NFrames,   \* Physical frames 0 .. NFrames - 1; frame 0 is never free.
    Top,       \* The level of the root (MAP_LEVEL_PML4).
    Fan        \* Entries of a table (512).

\* More than one level, and tables with two halves.
ASSUME MmuAssumption == NFrames \in Nat /\ Top \in Nat \ {0} /\ Fan \in Nat \ {0} /\ Fan % 2 = 0

\* The pages an entry of a table at that level stands for.
Covers[level \in 0 .. Top + 1] == IF level = 0 THEN 1 ELSE Fan * Covers[level - 1]

Frames == 0 .. NFrames - 1
Pages == 0 .. Covers[Top + 1] - 1
UserPages == {p \in Pages : p < Covers[Top + 1] \div 2}
TableFlags == {"P", "RW", "US"}

\* mmuGetTableFlags, for the protections that have a caller.
TableFlagsOf(prot) ==
    CASE prot = "PAGE_READONLY" -> {"P", "NX"}
      [] prot = "PAGE_USER_READWRITE" -> {"P", "NX", "RW", "US"}
      [] prot = "PAGE_USER_EXEC_READ" -> {"P", "US"}

Nothing == [frame |-> 0, flags |-> {}]
ClearTable == [i \in 0 .. Fan - 1 |-> Nothing]
Present(e) == "P" \in e.flags

\* mmuGetLevelIdx.
LevelIdx(page, level) == (page \div Covers[level]) % Fan

\* mmAllocFrame: the first run that fits; a base of 0 is a refusal.
FirstBase(m, count) ==
    LET starts == {s \in Frames : FirstFit(Frames \ m.free, NFrames, count, s)}
    IN  IF starts = {} THEN 0 ELSE CHOOSE s \in starts : TRUE

\* What mmDoAllocFrames does to the run it found: the bits, and the memset.
Take(m, run) == [m EXCEPT !.free = @ \ run]
Cleared(m, run) ==
    [m EXCEPT !.tab = [f \in Frames |-> IF f \in run THEN ClearTable ELSE @[f]]]

\* Mutant: the frames are handed out as they are.
AllocUncleared(m, count) ==
    LET base == FirstBase(m, count)
    IN  [base |-> base, mem |-> IF base = 0 THEN m ELSE Take(m, Run(base, count))]

AllocFrame(m, count) ==
    LET base == FirstBase(m, count)
    IN  [base |-> base,
         mem |-> IF base = 0 THEN m
                 ELSE Cleared(Take(m, Run(base, count)), Run(base, count))]

FreeFrame(m, base) == [m EXCEPT !.free = @ \union {base}]

SetEntry(m, table, i, e) == [m EXCEPT !.tab[table][i] = e]

------------------------------------------------------------------------------
(***************************************************************************)
(* mmuGetLevelPhys, one level down and then from the root to the page      *)
(* table.  A table it allocates is a cleared frame, entered with access    *)
(* for the user; the tables allocated before a refusal stay.               *)
(***************************************************************************)
Deeper(at, i, alloc) ==
    LET e == at.mem.tab[at.table][i]
        a == AllocFrame(at.mem, 1)
    IN  CASE ~at.ok -> at
          [] at.ok /\ Present(e) -> [at EXCEPT !.table = e.frame]
          [] at.ok /\ ~Present(e) /\ (~alloc \/ a.base = 0) -> [at EXCEPT !.ok = FALSE]
          [] OTHER -> [mem |-> SetEntry(a.mem, at.table, i,
                                   [frame |-> a.base, flags |-> TableFlags]),
                       table |-> a.base, ok |-> TRUE]

Descend(m, root, page, alloc) ==
    LET at[level \in 0 .. Top] ==
            IF level = Top THEN [mem |-> m, table |-> root, ok |-> TRUE]
            ELSE Deeper(at[level + 1], LevelIdx(page, level + 1), alloc)
    IN  at[0]

\* mmuMapSingle.
MapSingle(m, root, page, frame, prot) ==
    LET d == Descend(m, root, page, TRUE)
    IN  [ok |-> d.ok,
         mem |-> IF ~d.ok THEN d.mem
                 ELSE SetEntry(d.mem, d.table, LevelIdx(page, 0),
                          [frame |-> frame, flags |-> TableFlagsOf(prot)])]

\* mmuUnmapSingle.
UnmapSingle(m, root, page) ==
    LET d == Descend(m, root, page, FALSE)
    IN  IF d.ok THEN SetEntry(m, d.table, LevelIdx(page, 0), Nothing) ELSE m

\* mmuCreateVas: a root whose upper half is that of the current one.
CreateVas(m, cur) ==
    LET a == AllocFrame(m, 1)
        root == [i \in 0 .. Fan - 1 |->
                    IF i < Fan \div 2 THEN Nothing ELSE m.tab[cur][i]]
    IN  [root |-> a.base,
         mem |-> IF a.base = 0 THEN m ELSE [a.mem EXCEPT !.tab[a.base] = root]]

------------------------------------------------------------------------------
\* What the processor finds for a page: its entry, or Nothing.
Translate(m, root, page) ==
    LET d == Descend(m, root, page, FALSE)
        e == m.tab[d.table][LevelIdx(page, 0)]
    IN  IF d.ok /\ Present(e) THEN e ELSE Nothing

\* The tables the processor reaches from a root through its user half.
Tables(m, root) ==
    LET under[level \in 0 .. Top] ==
            IF level = Top THEN {root}
            ELSE {f \in Frames : \E t \in under[level + 1], i \in 0 .. Fan - 1 :
                     /\ Present(m.tab[t][i]) /\ m.tab[t][i].frame = f
                     /\ t = root => i < Fan \div 2}
    IN  UNION {under[level] : level \in 0 .. Top}
===============================================================================
