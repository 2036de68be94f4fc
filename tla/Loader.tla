-------------------------------- MODULE Loader --------------------------------
(***************************************************************************)
(* From a file in the boot archive to a process in user mode: what kMain   *)
(* (src/ntos/ke/entry.c) does with exCreateProcess, mmuWriteVas,           *)
(* keLoadFromBootPack, halProcSetIp and halProcKick, repeated for several  *)
(* processes.  The code runs on the bootstrap core; the other cores share  *)
(* the physical frames with it and may take one at any time (TakeFrame),   *)
(* so an allocation may be refused at every place that makes one.          *)
(***************************************************************************)
EXTENDS Mmu, Omar

CONSTANTS
    BootTables,    \* What free frames may hold, read as tables, at the start.
    KernelRoot,    \* The root the kernel starts with,
    KernelTable,   \* and the table its upper half points to.
    StackPage,     \* The page of STACK_TOP.
    Trees,         \* The directory trees the archive may be made from.
    Paths,         \* What keLoadFromBootPack may be asked for.
    Image(_),      \* The program in a file: [valid, entry, sections].
    MaxProcs,      \* Bound on the processes created.
    MaxTaken       \* Bound on the frames other cores take.

SectionOk(sec) ==
    /\ sec.raw <= sec.pages
    /\ Run(sec.page, sec.pages) \subseteq UserPages \ {StackPage}

\* Sections of a linked program do not overlap and leave the stack alone.
ASSUME ImageAssumption ==
    \A path \in Paths :
        LET secs == Image(path).sections
        IN  /\ secs \in Seq([page : Nat, pages : Nat, raw : Nat])
            /\ \A i \in DOMAIN secs : SectionOk(secs[i])
            /\ \A i, j \in DOMAIN secs :
                   i # j => Run(secs[i].page, secs[i].pages)
                              \intersect Run(secs[j].page, secs[j].pages) = {}

ASSUME TreeAssumption == \A t \in Trees : IsTree(t)

ASSUME FrameAssumption ==
    /\ {KernelRoot, KernelTable} \subseteq Frames \ {0} /\ KernelRoot # KernelTable
    /\ StackPage \in UserPages
    /\ BootTables \subseteq [0 .. Fan - 1 -> [frame : Frames, flags : SUBSET TableFlags]]

VARIABLES
    mem,      \* Free frames and tables (Mmu).
    data,     \* What each frame holds, read as data.
    tree,     \* The tree the archive was made from.
    cr3,      \* The root this core runs on.
    leftover, \* What pcb.vas holds in the pool block of the next process.
    procs,    \* The processes created: [stack, root, ip].
    new,      \* The process being made: [stack, root].
    pc,
    path,     \* The file being loaded.
    found,    \* What keBootPackGet returned.
    box,      \* The program's pointer box: runs of frames, [base, pages].
    page,     \* The page of the section at hand to map next.
    missed,   \* Sections that are not there although the load goes on (history).
    taken,    \* Frames taken by other cores.
    roots,    \* The roots mmuCreateVas made, and
    boxes     \* the runs any box ever held (history).

loading == <<path, found, box, page, missed>>
history == <<roots, boxes>>
vars == <<mem, data, tree, cr3, leftover, procs, new, pc, loading, taken, history>>

KernelFrames == {0, KernelRoot, KernelTable}
UpperHalf == (Fan \div 2) .. (Fan - 1)

NoProc == [stack |-> 0, root |-> 0]
NotKicked(p) == [stack |-> p.stack, root |-> p.root, ip |-> -1]
\* Content of a frame nothing has been copied to, and of a cleared one.
Untouched == <<"untouched">>
Zeroed == <<"zero">>

RootTable == [i \in 0 .. Fan - 1 |->
    IF i \in UpperHalf THEN [frame |-> KernelTable, flags |-> TableFlags] ELSE Nothing]

Goto(from, to) == pc = from /\ pc' = to

Init ==
    /\ \E t \in BootTables :
           mem = [free |-> Frames \ KernelFrames,
                  tab |-> [f \in Frames |-> IF f = KernelRoot THEN RootTable
                                            ELSE IF f \in KernelFrames THEN ClearTable ELSE t]]
    /\ data = [f \in Frames |-> Untouched]
    /\ tree \in Trees
    /\ cr3 = KernelRoot
    /\ leftover = 0
    /\ procs = <<>>
    /\ new = NoProc
    /\ pc = "main"
    /\ path = "" /\ found = NoData /\ box = <<>> /\ page = 0 /\ missed = {}
    /\ taken = {} /\ roots = {} /\ boxes = <<>>

\* An allocation by another core.
TakeFrame ==
    /\ Cardinality(taken) < MaxTaken
    /\ LET a == AllocFrame(mem, 1)
       IN  a.base # 0 /\ mem' = a.mem /\ taken' = taken \union {a.base}
    /\ UNCHANGED <<data, tree, cr3, leftover, procs, new, pc, loading, history>>

------------------------------------------------------------------------------
(***************************************************************************)
(* exCreateProcess, keInitProcess, halInitPcb.                             *)
(***************************************************************************)
\* The pool may refuse the process: nothing changes, the caller gives up.
CreateProcess ==
    /\ Len(procs) < MaxProcs
    /\ Goto("main", "stack")
    /\ new' = NoProc
    /\ UNCHANGED <<mem, data, tree, cr3, leftover, procs, loading, taken, history>>

AllocStack ==
    LET a == AllocFrame(mem, 1)
    IN  /\ Goto("stack", IF a.base = 0 THEN "main" ELSE "vas")
        /\ mem' = a.mem
        /\ new' = [new EXCEPT !.stack = a.base]
        /\ UNCHANGED <<data, tree, cr3, leftover, procs, loading, taken, history>>

\* The status of mmuCreateVas is ignored: on a refusal the root is whatever
\* the pool block held, which is the root of the last process given up.
NewVas ==
    LET c == CreateVas(mem, cr3)
    IN  /\ Goto("vas", "mapstack")
        /\ mem' = c.mem
        /\ new' = [new EXCEPT !.root = IF c.root = 0 THEN leftover ELSE c.root]
        /\ roots' = roots \union ({c.root} \ {0})
        /\ UNCHANGED <<data, tree, cr3, leftover, procs, loading, taken, boxes>>

\* Mutant: the error path forgets the stack.
MapStackLeaking ==
    LET r == MapSingle(mem, new.root, StackPage, new.stack, "PAGE_USER_READWRITE")
    IN  /\ mem' = r.mem
        /\ leftover' = IF r.ok THEN 0 ELSE new.root
        /\ procs' = IF r.ok THEN Append(procs, NotKicked(new)) ELSE procs
        /\ Goto("mapstack", IF r.ok THEN "switch" ELSE "main")
        /\ UNCHANGED <<data, tree, cr3, new, loading, taken, history>>

\* Mutant: the error path returns the root as well, though it may have none.
MapStackFreeingRoot ==
    LET r == MapSingle(mem, new.root, StackPage, new.stack, "PAGE_USER_READWRITE")
    IN  /\ mem' = IF r.ok THEN r.mem ELSE FreeFrame(FreeFrame(r.mem, new.stack), new.root)
        /\ leftover' = IF r.ok THEN 0 ELSE new.root
        /\ procs' = IF r.ok THEN Append(procs, NotKicked(new)) ELSE procs
        /\ Goto("mapstack", IF r.ok THEN "switch" ELSE "main")
        /\ UNCHANGED <<data, tree, cr3, new, loading, taken, history>>

\* On a refusal the stack goes back to the allocator and the process to the
\* pool; the root and the tables under it do not.
MapStack ==
    LET r == MapSingle(mem, new.root, StackPage, new.stack, "PAGE_USER_READWRITE")
    IN  /\ mem' = IF r.ok THEN r.mem ELSE FreeFrame(r.mem, new.stack)
        /\ leftover' = IF r.ok THEN 0 ELSE new.root
        /\ procs' = IF r.ok THEN Append(procs, NotKicked(new)) ELSE procs
        /\ Goto("mapstack", IF r.ok THEN "switch" ELSE "main")
        /\ UNCHANGED <<data, tree, cr3, new, loading, taken, history>>

\* kMain runs the loader in the new process's space.
SwitchVas ==
    /\ Goto("switch", "lookup")
    /\ cr3' = new.root
    /\ UNCHANGED <<mem, data, tree, leftover, procs, new, loading, taken, history>>

------------------------------------------------------------------------------
(***************************************************************************)
(* keLoadFromBootPack and loadPe64.                                        *)
(***************************************************************************)
\* keBootPackGet.  A missing file ends in a bug check of kMain.
Lookup ==
    /\ pc = "lookup"
    /\ path' \in Paths
    /\ found' = GetFile(Archive(tree), path')
    /\ box' = <<>> /\ page' = 0 /\ missed' = {}
    /\ pc' = IF found' = NoData THEN "main" ELSE "verify"
    /\ UNCHANGED <<mem, data, tree, cr3, leftover, procs, new, taken, history>>

\* What the pointer keBootPackGet returned points to.
FoundCell == Archive(tree)[found + 1]
Sections == Image(path).sections

\* peVerifyHeader: the magic numbers and the machine.
Verify ==
    /\ pc = "verify"
    /\ pc' = IF FoundCell = <<"data", path, 1>> /\ Image(path).valid
             THEN "section" ELSE "main"
    /\ UNCHANGED <<mem, data, tree, cr3, leftover, procs, new, loading, taken, history>>

\* The section at hand is the one after those in the box.
At == Len(box) + 1

\* Mutant: the frames of the box keep what they held.
CopiedOver(sec, base) ==
    [f \in Frames |->
        IF f \in Run(base, sec.raw) THEN <<path, At, f - base>> ELSE data[f]]

\* rtlMemcpy of the raw data to the window; the rest of the window is as the
\* allocator cleared it.
Copied(sec, base) ==
    [f \in Frames |->
        CASE f \in Run(base, sec.raw) -> <<path, At, f - base>>
          [] f \in Run(base, sec.pages) \ Run(base, sec.raw) -> Zeroed
          [] OTHER -> data[f]]

\* exBoxAllocate.  It refuses an empty section as it does without frames.
BoxAllocate ==
    LET sec == Sections[At]
        a == AllocFrame(mem, sec.pages)
    IN  /\ pc = "section" /\ At \in DOMAIN Sections
        /\ sec.pages > 0 /\ a.base # 0
        /\ mem' = a.mem
        /\ data' = Copied(sec, a.base)
        /\ box' = Append(box, [base |-> a.base, pages |-> sec.pages])
        /\ boxes' = Append(boxes, [base |-> a.base, pages |-> sec.pages])
        /\ page' = 0 /\ pc' = "map"
        /\ UNCHANGED <<tree, cr3, leftover, procs, new, path, found, missed, taken, roots>>

\* The section cannot be had (pool, frames, or size 0): loadPe64 releases the
\* box and returns an error that keLoadFromBootPack ignores.  boxFreeSingle
\* hands mmFreeFrame the virtual address of the pages: the index it makes of
\* it lies outside the address space and the core faults.
BoxRefused ==
    /\ pc = "section" /\ At \in DOMAIN Sections
    /\ pc' = IF box = <<>> THEN "kick" ELSE "fault"
    /\ missed' = missed \union {i \in DOMAIN Sections : i >= At}
    /\ UNCHANGED <<mem, data, tree, cr3, leftover, procs, new, path, found, box,
                   page, taken, history>>

\* mmMapPages, a page a step; a refusal leaves the rest of the section
\* unmapped, and the loader goes on to the next section.
MapPage ==
    LET i == Len(box)
        r == MapSingle(mem, cr3, Sections[i].page + page, box[i].base + page,
                       "PAGE_USER_EXEC_READ")
    IN  /\ pc = "map"
        /\ mem' = r.mem
        /\ page' = page + 1
        /\ missed' = IF r.ok THEN missed ELSE missed \union {i}
        /\ pc' = IF r.ok /\ page + 1 < box[i].pages THEN "map" ELSE "section"
        /\ UNCHANGED <<data, tree, cr3, leftover, procs, new, path, found, box, taken,
                       history>>

SectionsDone ==
    /\ At \notin DOMAIN Sections
    /\ Goto("section", "kick")
    /\ UNCHANGED <<mem, data, tree, cr3, leftover, procs, new, loading, taken, history>>

\* halProcSetIp and halProcKick.
Kick ==
    /\ Goto("kick", "user")
    /\ procs' = [procs EXCEPT ![Len(procs)].ip = Image(path).entry]
    /\ cr3' = procs[Len(procs)].root
    /\ UNCHANGED <<mem, data, tree, leftover, new, loading, taken, history>>

\* The kernel is entered again from user mode.
Return ==
    /\ Goto("user", "main")
    /\ UNCHANGED <<mem, data, tree, cr3, leftover, procs, new, loading, taken, history>>

\* mmuUnmapSingle has no caller yet; any page of the current space.
Unmap ==
    /\ pc = "main" /\ cr3 # KernelRoot
    /\ \E p \in UserPages :
           /\ Translate(mem, cr3, p) # Nothing
           /\ mem' = UnmapSingle(mem, cr3, p)
    /\ UNCHANGED <<data, tree, cr3, leftover, procs, new, pc, loading, taken, history>>

Next ==
    \/ TakeFrame
    \/ CreateProcess \/ AllocStack \/ NewVas \/ MapStack \/ SwitchVas
    \/ Lookup \/ Verify \/ BoxAllocate \/ BoxRefused \/ MapPage \/ SectionsDone
    \/ Kick \/ Return \/ Unmap

Spec == Init /\ [][Next]_vars

------------------------------------------------------------------------------
TypeOK ==
    /\ mem.free \subseteq Frames \ KernelFrames
    /\ \A f \in Frames, i \in 0 .. Fan - 1 :
           mem.tab[f][i] \in [frame : Frames, flags : SUBSET {"P", "RW", "US", "NX"}]
    /\ cr3 \in {KernelRoot} \union roots
    /\ new \in [stack : Frames, root : Frames]
    /\ page \in 0 .. Cardinality(UserPages)

(***************************************************************************)
(* Every frame that is not free has exactly one use: the kernel's, another *)
(* core's, the stack of one process, a table of one address space, a run   *)
(* of one box.  A process that could not be made returns its stack         *)
(* (process.c:100); the tables it leaves behind are the only loss.         *)
(***************************************************************************)
Uses ==
    {<<"kernel", 0, f>> : f \in KernelFrames} \union {<<"taken", 0, f>> : f \in taken}
    \union {<<"stack", i, procs[i].stack>> : i \in DOMAIN procs}
    \union {<<"new", 0, f>> : f \in IF pc \in {"vas", "mapstack"} THEN {new.stack} ELSE {}}
    \union (UNION {{<<"box", i, f>> : f \in Run(boxes[i].base, boxes[i].pages)} :
                      i \in DOMAIN boxes})
    \union (UNION {{<<"table", r, f>> : f \in Tables(mem, r)} : r \in roots})

FramesAccounted ==
    /\ {u[3] : u \in Uses} = Frames \ mem.free
    /\ Cardinality(Uses) = Cardinality(Frames \ mem.free)

(***************************************************************************)
(* keBootPackGet finds a file that no empty file precedes where omar put   *)
(* it, all of it, and nothing for a path the tree does not have; omar -x   *)
(* restores the same files.                                                *)
(***************************************************************************)
Intact(i) == \A j \in 1 .. i : tree[j].dir \/ tree[j].len > 0
Files == {i \in DOMAIN tree : ~tree[i].dir /\ Intact(i)}

BootPackExact ==
    /\ path # "" =>
        /\ \A i \in Files : tree[i].path = path =>
               SubSeq(Archive(tree), found + 1, found + tree[i].len) = Data(tree[i])
        /\ (\A i \in DOMAIN tree : tree[i].path # path) => found = NoData
    /\ {[path |-> tree[i].path, data |-> Data(tree[i])] : i \in Files}
           \subseteq Extract(Archive(tree))

(***************************************************************************)
(* What a process is started with (halProcKick): its own space, with the   *)
(* kernel in the upper half, its stack, and of each section that was not   *)
(* refused every page, executable, holding that part of the file, or       *)
(* zeros where the file has none; nothing else is mapped.                  *)
(***************************************************************************)
Holds(i, j) ==
    LET sec == Sections[i]
        e == Translate(mem, cr3, sec.page + j)
    IN  /\ e.flags = TableFlagsOf("PAGE_USER_EXEC_READ")
        /\ data[e.frame] = IF j < sec.raw THEN <<path, i, j>> ELSE Zeroed

SectionPages == UNION {Run(Sections[i].page, Sections[i].pages) : i \in DOMAIN Sections}

LoadedExactly ==
    pc = "user" =>
        LET p == procs[Len(procs)]
        IN  /\ cr3 = p.root /\ p.ip = Image(path).entry
            /\ \A i \in UpperHalf : mem.tab[cr3][i] = mem.tab[KernelRoot][i]
            /\ Translate(mem, cr3, StackPage) =
                   [frame |-> p.stack, flags |-> TableFlagsOf("PAGE_USER_READWRITE")]
            /\ \A i \in DOMAIN Sections \ missed :
                   \A j \in 0 .. Sections[i].pages - 1 : Holds(i, j)
            /\ \A q \in UserPages \ (SectionPages \union {StackPage}) :
                   Translate(mem, cr3, q) = Nothing

(***************************************************************************)
(* The page tables implement address spaces (AddressSpaces): a step        *)
(* changes one page of one of them, and a new one maps no user page.       *)
(***************************************************************************)
Mappings == [r \in roots |-> [p \in UserPages |-> Translate(mem, r, p)]]

SpacesOf == INSTANCE AddressSpaces WITH spaces <- Mappings, Unmapped <- Nothing

ImplementsAddressSpaces == SpacesOf!Spec
===============================================================================
