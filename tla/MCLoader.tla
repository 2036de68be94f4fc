------------------------------- MODULE MCLoader -------------------------------
(***************************************************************************)
(* Three levels of two-entry tables (eight pages, the lower four the       *)
(* user's), two processes, and programs of up to three sections, one of    *)
(* them with an empty section.  The trees hold directories, files whose    *)
(* length fills a block or not, and an empty file.                         *)
(***************************************************************************)
EXTENDS Loader

Section(pageNo, pages, raw) == [page |-> pageNo, pages |-> pages, raw |-> raw]

MCImage(file) ==
    CASE file = "csrs" ->
             [valid |-> TRUE, entry |-> 0, sections |-> <<Section(0, 2, 1), Section(2, 1, 1)>>]
      [] file = "init" ->
             [valid |-> TRUE, entry |-> 1,
              sections |-> <<Section(2, 1, 1), Section(0, 0, 0), Section(1, 1, 0)>>]
      [] OTHER -> [valid |-> FALSE, entry |-> 0, sections |-> <<>>]

Dir == Entry("dir", 1, TRUE, 0)
Dir2 == Entry("dir2", 2, TRUE, 0)
Csrs == Entry("csrs", 2, FALSE, 3)
Init1 == Entry("init", 1, FALSE, 2)
Empty == Entry("empty", 1, FALSE, 0)

MCTrees == {<<Dir, Csrs, Init1>>, <<Init1, Dir, Empty, Csrs, Dir2>>}
MCPaths == {"csrs", "init", "dir", "none"}

\* What an earlier use left in every free frame: the second entry is present
\* and points to frame 3.
Stale == {[i \in 0 .. 1 |-> IF i = 1 THEN [frame |-> 3, flags |-> TableFlags] ELSE Nothing]}
===============================================================================
