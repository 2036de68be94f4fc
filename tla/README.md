# A verification project for ALGAE

TLA+ modules that model the ALGAE kernel (`src/ntos`), TLC configurations that
check them on small instances, and TLAPS proofs of the properties that matter
most for every instance. File and line references are to the repository;
`phys.c:126` means `src/ntos/mm/phys.c`, line 126, and so on.

## 1. The system

ALGAE is a small multiprocessor kernel for amd64. One core (the bootstrap
processor) runs `kMain` (`ke/entry.c`): platform, heap, object store, timers,
scheduler, the other cores, the boot archive, modules; then it creates the
first process, loads `csrs.exe` from the archive and jumps into it. The other
cores wait in `halSchedEnter` for their timer. Kernel code runs with interrupts
masked (interrupt gates, `SFMASK`), so what interleaves are *cores*, at every
memory access, and timer ticks with user code and with the idle loop.

| component | source | state it keeps | operations | talks to |
|---|---|---|---|---|
| physical frame allocator | `mm/phys.c` | bitmap, spinlock, number of frames | `mmPhysInit`, `mmAllocFrame`, `mmFreeFrame` | Limine memory map; everything that needs memory |
| spinlocks | `ke/spinlock.c` | a flag | acquire, release | every shared structure |
| scheduler queues | `ke/sched.c` | per core: list, `nelem`, lock | `keScheduleProc`, `keDequeueProc`, `kiSchedInit` | arbiter, context switch |
| processor arbiter | `ke/parb.c`, `ke/kpcr.c` | index of the next core, lock | `keParbReset`, `keParbCycle` | scheduler, MP bring-up (`keCpuGet`) |
| context switch | `platform/amd64/ke/process.c`, `cpu/vector.S` | per core: `curProc`, live frame, page-table root, one-shot | `halProcKick`, `halSchedSwitch`, `halSchedEnter` | queues, timer, MMU |
| pages and address spaces | `mm/page.c`, `cpu/mmu.c` | page tables | map, unmap, create, switch | frame allocator |
| kernel heap | `mm/tlsf.c`, `ex/pool.c` | two-level free lists, lock | `exAllocatePool`, `exFreePool` | frame allocator |
| pointer boxes | `ex/box.c` | list of allocations | allocate, release | heap, frame allocator |
| process creation | `ex/process.c`, `ke/process.c`, `halInitPcb` | pid counter, PCB | create, initialize | heap, frames, address spaces, object tables |
| MP bring-up | `cpu/mp.c`, `boot/cpuStartup.asm` | `apList`, `nAp`, bootstrap descriptor | `kiMpInit`, `mpApEntry`, `halCpuGet` | LAPIC, heap, ACPI, arbiter |
| processor set-up | `cpu/cpuInit.c`, `gdt.c`, `idt.c`, `tss.c` | descriptor tables, KPCR | `halCpuInit` | frames, LAPIC |
| object store, object tables | `ob/obStore.c`, `ob/obTable.c` | directory tree, reference counts, handles | create, look up, add | heap |
| timers | `ke/timer.c`, `cpu/lapic.c`, `io/*` | descriptors, calibrated frequency | register, one-shot, sleep | object store, PIT, HPET, LAPIC |
| interrupt levels | `ke/irql.c`, `cpu/irql.c` | task priority | raise, lower | CPU |
| bug check | `ke/bugCheck.c` | a lock that is never released | `keBugCheck` | console |
| loader, boot archive | `ke/loader.c`, `ke/bootPack.c`, `tools/omar` | mapped sections | load, look up, pack | pointer boxes, address spaces |
| traps, system calls | `cpu/trap.*`, `frameAsm.h`, `ke/syscall.c` | trap frame on the stack | entry, dispatch, exit | everything above |
| boot order, modules | `ke/entry.c`, `ke/module.c` | module list | `kMain`, `kiModuleInit` | all |
| ACPI | `acpi/acpi.c` | tables | walk the MADT | MP bring-up |
| console, strings | `ke/trace.c`, `drv/bootvid`, `rtl/*` | cursor | output | - |

What is hard, and which properties make each correct:

- **Frame allocator.** Search and marking are separate passes over a shared
  bitmap; the lengths are compared off by one in two places; the bitmap lives
  in the memory it describes; its size starts from an uninitialized variable.
  Correct means: no frame has two owners, a set bit means "in use" exactly,
  the bitmap itself is never given away, the search ends, a refusal is real.
- **Scheduler.** A queue is filled by other cores and emptied by its own;
  `nelem` is read without the lock; a process becomes visible in the queue
  before its frame is saved. Correct means: a process is in one place at a
  time, resumes exactly where it stopped, the lock excludes, the counter never
  promises what is not there, queued processes run, cores are used evenly.
- **Heap, boxes, address spaces, process creation.** Failure in the middle of
  several allocations; release while iterating; correct means that every
  failure path gives back exactly what it took.
- **MP bring-up.** A fixed sleep instead of an acknowledgement, one descriptor
  for all cores, a lock held over everything that can fail, a count read
  without its lock.
- **Objects.** Reference counts against the tables and directories that hold
  the references, under different locks.
- **Timers, loader, archive.** Counters that wrap, statuses that are ignored,
  sizes of zero.
- **Traps, bug check, boot.** GS and the stack must match the privilege level
  whatever interrupts whatever; a bug check must not be undone; `kMain` must not
  stop for the order of the modules or the pace of the other cores.

`PROJECT.json` lists each hazard at its line with the property that covers it,
or what is missing.

## 2. Modules

| module | models | how it corresponds to the code |
|---|---|---|
| `FrameRuns` | runs of frames, first fit | the closed form of the loop `phys.c:112-128` |
| `FrameScan` | `mmDoAllocFrames` bit by bit | one action per way through the loop body: `ClearBit`, `UsedBit`, `LoopEnd`, then `Refuse` or `Mark` |
| `FrameAlloc` | abstract specification | atomic `Allocate` and `Free`, no lock, no bitmap |
| `PhysMem` | `phys.c` with concurrent callers | `Init` is `mmPhysInit`; a call is `CallAlloc`, `Acquire`, `Scan`, `Mark`, `ReturnAlloc`, or `CallFree`, `Acquire`, `Clear`, `ReturnFree` |
| `Sched` | scheduler, arbiter, context switch | `pc[c]` is the place of core `c` in `halSchedSwitch`, `keScheduleProc`, `keParbCycle`, `keDequeueProc`; one action per shared access |
| `Tlsf` | `tlsf.c` as operators | a heap is a value: blocks by address with size, flags and `prev_phys_block`, and the lists by class; `Malloc`, `Free`, `Memalign`, `Realloc`, `AddPool`, `RemovePool` and what they are made of, and the two checkers of the source |
| `KernelHeap` | `pool.c` over `Tlsf`, any number of cores | `Calls` begin a call; `Acquire`, `Locate`, `Prepare` or `MarkFree`, `MergeFree`, then `Release`: each heap operation in two halves, so that the lock matters |
| `Heap` | abstract specification | regions handed out, disjoint and inside the memory given |
| `MpBoot` | `mp.c`, `cpuStartup.asm`, `halCpuInit` on application cores, `lapicTimerInit` | `bsp` and `pc[a]` are the places of the sender and of each processor; one action per shared access or allocation |
| `Mmu` | `mmu.c` as operators | tables are the contents of frames; `Descend`, `MapSingle`, `UnmapSingle`, `CreateVas`, and the processor's walk `Translate` |
| `AddressSpaces` | abstract specification | separate mappings, changed one page at a time |
| `Omar` | the host tool and `bootPack.c` as operators | `Archive` packs a tree, `GetFile` is the kernel's reader, `Extract` the tool's |
| `Loader` | `exCreateProcess` to `halProcKick` | one action per allocation or page; `TakeFrame` is the rest of the machine |
| `Objects` | `obStore.c`, `timer.c`, `mapper.c` as operators | a store is a value: objects with reference counts, directories as sequences |
| `Traps` | stubs, system call path, tick, bug check, per core | `core[c]`: place, interrupted contexts, GS, stack, IF, NMI mask, timer |
| `Boot` | `kMain` stage by stage, over `Traps` and `Objects` | each stage goes on or stops in `keBugCheck`; traps interleave from the moment the gates are loaded |
| `MCPhysMem`, `MCSched`, `MCKernelHeap`, `MCMpBoot`, `MCLoader`, `MCBoot` | instances for TLC | section 3 |
| `FrameScanProofs`, `PhysMemProofs`, `SchedProofs`, `MpBootProofs`, `BootProofs`, `OmarProofs`, `LoaderProofs`, `KernelHeapProofs` | proofs | section 5 |

How they compose: `PhysMem` uses `FrameRuns` where the code runs the loop, and
`FrameScan` shows that the loop computes exactly that; `PhysMem` refines
`FrameAlloc`, and the other modules that need frames take them one atomic call
at a time. `KernelHeap` runs `Tlsf` and refines `Heap`; the other modules
take a pool allocation as granted or refused. `Loader` runs `Mmu` and `Omar`
and refines `AddressSpaces`. `Boot` runs `Objects` under `Traps`; `MpBoot` is
its stage `aps` in detail, `Loader` its last stages, and `Sched` what the
timer interrupt of `Traps` does.

Operators called mutants stand beside some definitions. They change them the
way a plausible bug would and are used only to see that a property notices.

### Decisions in PhysMem

- Addresses are counted in frames. Base 0, the code's "failure", is then also
  frame 0, as in the code. The boot protocol (Limine) promises that usable
  entries are disjoint and page aligned and that frame 0 is in none; this is
  `UsableAssumption`.
- `framesUsed`, `framesFree`, `nFramesFree`, `lastIdx` and `bitmapFreeStart`
  are written and never read; they are left out. The frames' contents, and so
  the `rtlMemset` of line 136, are not in this module; they are in `Mmu` and
  `Loader`.
- `highestAddr` is read uninitialized (`phys.c:84`, `:92`): `Garbage` is the
  set of values it may hold. Boots where no entry can take the bitmap are
  excluded: the code then uses a null bitmap.
- Request sizes are at least 1: every caller in the repository passes a
  positive constant or, through `exBoxAllocate`, a size that was tested.
- A caller frees exactly a run it was given, as the callers in the repository do.
- Not visible in the model: the tail of the bitmap when the number of frames is
  1 to 7 above a multiple of 32768 (`phys.c:99` rounds down first). It is
  listed as a hazard.

### Decisions in Sched

- Core 0 is the bootstrap core. `halProcKick` enters the first process without
  setting `curProc` and `kMain` starts no timer there, so core 0 never ticks;
  the arbiter still sends it its share of the processes, which wait there for
  ever. `QueuedRuns` is therefore about the other cores.
- `Spawn` is a call `keScheduleProc(NULL, p)` for a new process, the load
  balancing that `schedulerGetQueue` exists for. The repository has no caller
  of it yet besides `halSchedSwitch`; without it no application core would ever
  have a process. It is made by running user code, that is, from a system call.
- `TAILQ_INSERT_TAIL` links first and counts last (`queue.h:91-97`), and
  `nelem` is read without the lock: two actions, `Link` and `Count`.
  `TAILQ_REMOVE` is one action because only the core that removes reads
  `nelem` of its queue.
- `keDequeueProc` tests an uninitialized local (`sched.c:64`). The kernel is
  built with `-O0` (`ntos/data/sys.mk`), so the value is whatever the stack
  slot holds and both outcomes occur: `ProcessIsNull` is the set of outcomes.
  The passing runs take `{FALSE}`, to see what the rest of the scheduler
  guarantees; `sched_uninit` takes both; the proofs hold for both.
- A trap frame is the number of steps its process has run, modulo `Steps`: it
  tells a stale frame from a fresh one.
- The number of cores is fixed: `kiMpInit` has returned before any process runs.
  The KPCRs start cleared: the heap cuts them from frames that `mmAllocFrame`
  has cleared (`phys.c:136`) before anything has been freed to it.

### Decisions in Tlsf and KernelHeap

- Sizes are in words of `ALIGN_SIZE`; the rest of the block header is the
  constant overhead the code adds. With `SlIndexCountLog2 = 2` and
  `FlIndexMax = 5` there are small blocks, first-level classes and
  second-level classes, and a request is rounded up across each boundary.
- An operation of the block manager is cut where its two phases meet (locate
  and prepare; mark and merge): another core that entered would see a heap that
  is half updated. The kernel calls `tlsf_malloc` and `tlsf_free`; the other
  calls of the interface have no caller yet and are run under the same lock.
- Bad pointers, double frees and the debug printing are left out. A
  `tlsf_realloc` whose size is over the maximum adjusts to 0 and would trim the
  live block to nothing, where the comment at `tlsf.c:1229` says the buffer
  stays untouched; nothing calls it and `RequestAssumption` excludes it.
- A refused frame in `kiPoolInit` stops the kernel; that is in `Boot`.
- The code's shifts are multiples and quotients of `Pow2[n]`, a recursive
  function over the exponents a size can have, so that they can be reasoned
  about. A free list is a sequence, first block first; unlinking takes out one
  element.
- `PoolAssumption`: a pool is aligned, its size is one `tlsf_add_pool` accepts,
  and no two pools share memory (`Apart`), as is true of the frames that
  `kiPoolInit` gives to the heap.

### Decisions in MpBoot

- Nothing acknowledges a start. `TrampolineDelay = "bounded"` says that a
  processor leaves the trampoline before the bootstrap core's 20 ms wait is over
  and the descriptor is rewritten, which is what the code relies on; with
  `"any"` it may still be there (`OwnStack` then fails).
- Local APICs are in x2APIC mode. `lapicSetBase` has no caller, so in xAPIC mode
  every register access goes to an address near zero.
- `LowMemoryAssumption`: the trampoline and its descriptor are written to
  frames 1 and 2, which the allocator is not told of.
- The flags of a MADT entry are ignored, as in the code; a processor that is
  listed and does not exist never answers.
- `keBugCheck` on an application core keeps `apLock`, as the code does.
- The calibration takes any start and any elapsed count of the i8254, including
  one that wraps: the frequency may then be zero, and `OneshotArmed` excuses
  exactly that case.

### Decisions in Mmu, Omar and Loader

- `mmuGetLevelPhys` does not clear a new table (`mmu.c:122-128`), and nothing
  clears the pages of a section: `mmDoAllocFrames` clears what it hands out
  (`phys.c:136`; `Cleared` and `Zeroed`). `BootTables` is what free frames may
  hold at the start, read as tables; the run takes stale entries, so that the
  properties rest on the clear. Frame 0 reads as clear. What a frame
  holds as data and what it holds as a table are separate: both are wiped when
  the frame is allocated.
- A table has `Fan` entries and a space `Top + 1` levels; `Covers` is the number
  of pages an entry stands for, and `Deeper` is one turn of the loop of
  `mmuGetLevelPhys`. Half of the root is the users': `Fan` is even.
- `mmuCreateVas`'s status is ignored (`process.c:86`): when it is refused the
  root is what the pool block held, which is `leftover`. A process that cannot
  be made gives back its stack and leaves its tables (`process.c:99-101`).
- `mmMapPages`'s status is ignored (`loader.c:115`), and a failure on the way
  leaves a hole (`page.c:62`); `loadPe64`'s status is ignored too
  (`loader.c:155`), so a process may be started with sections missing.
  `missed` records them and `LoadedExactly` is about all the others.
- `boxFreeSingle` passes a virtual address to `mmFreeFrame` (`box.c:39`): the
  kernel faults with the frame lock held. That is the place `"fault"`.
- `loadPe64` copies the raw part of a section (`loader.c:114`) and leaves the
  rest, `bss`, to the frames it got: `LoadedExactly` says that it reads zero.
- omar writes an empty file without padding (`omar.c:222`) and both readers give
  up after it: `BootPackExact` speaks of the files that no empty one precedes.
- `TreeAssumption`: no two entries of a tree have the same path, and a header
  with its name fits a block (`IsTree`), as it does since `nameLen` has 8 bits.
  `GetFile` and `Visited` are recursive functions.
- Assumed of a linked program (`ImageAssumption`): the raw size is within the
  section, sections do not overlap, none holds the stack page.

### Decisions in Traps and Boot

- Exceptions and NMIs come through trap gates and leave IF on until the stub's
  `cli`; the timer comes through an interrupt gate. Every exception is fatal, so
  no stub returns from one. An NMI may come in any instruction once the gates
  are loaded, up to `MaxFrames` interrupted contexts.
- `Windows` are the instructions between a change of privilege and the `swapgs`
  or stack switch that goes with it. An NMI there really runs C code with the
  user's GS or on the user's stack; `KernelContext` leaves these out.
- An NMI in the idle loop may be abandoned: a tick before its `cli` goes to the
  scheduler and does not come back. `BugCheckFinal` therefore counts from the
  `cli`. `halSchedSwitch` returns without EOI and without arming the timer when
  `keGetCore` gives NULL (`platform/amd64/ke/process.c:128`), which happens only
  in a window.
- A bug check halts its own core only. A fault inside `halDumpStack`, which
  follows the interrupted `%rbp`, nests and spins on the lock its own core holds.
  Without an RSDP, `keGetBootParams` and `keBugCheck` wait for each other's lock
  in the same way (`NoRsdp`).
- `halInitSyscall` runs on the bootstrap core only: SYSCALL is an invalid opcode
  on the others and stops them. `sysret` without the 64-bit suffix returns to
  compatibility mode; what user code does after that is not modelled.
- The linker orders the modules' section, so `modules` starts in either order;
  `kMain` makes two passes over it.
- Every allocation is granted or refused; `failed` remembers whether anything
  was. What a stage has done to the core before the allocation that is refused
  stays done: the gates are loaded before the stack of the TSS is asked for
  (`cpuInit.c:146`), and GS is written before the local APIC and the system
  call stack (`cpuInit.c:154`). A bug check there can be interrupted by an NMI.
  The calibration in between may divide by zero (`lapic.c:296`), which is the
  trap of `CalibrationFaults`. Application cores start in one step here;
  `MpBoot` has their failures.

## 3. Runs

| run | instance | shows |
|---|---|---|
| `frame_scan` | every bitmap of 6 frames, requests 0 to 4 | the search ends, takes exactly the first fit, refuses only without one |
| `exact_fit` | the same | **violation**: a request is refused although enough frames are free |
| `phys_mem` | 2 cores, 8 or 16 frames, requests of 1 and 2 frames, two garbage values | lock exclusion, single ownership, exact bitmap, bitmap kept, current refusals, lock released, refinement of `FrameAlloc` |
| `sched_cores` | 3 cores, 5 new processes, symmetric | types, lock exclusion, `nelem`, one home per process, resumption, balance |
| `sched_live` | 2 cores, 4 new processes | every process queued on a core with a timer runs |
| `sched_uninit` | 2 cores, both outcomes of the test | **violation**: a tick leaves a counted process in the queue |
| `heap` | 2 cores, 3 request sizes, an alignment, a pool of 18 words and one of 6 | whenever the lock is free the source's own checkers find nothing, no block is lost, a refusal is real; refinement of `Heap` |
| `mp_boot` | bootstrap core, 3 processors that answer and 1 that does not, `AP_MAX` 3, 9 frames, 2 or 3 KPCRs | own stack, exact `apList` for readers without the lock, kernel stacks in own frames, timers that can be armed; a started processor reaches the scheduler |
| `ap_stack` | the same | **violation**: the first push of an application core leaves the frame of its stack |
| `load` | 16 frames that hold stale entries when they are free, 3 levels of 2-entry tables, 2 processes, 2 trees, 4 paths, 3 frames taken by others | frames accounted for, archive read back as packed, what is mapped is what was asked; refinement of `AddressSpaces` |
| `kernel_boot` | bootstrap core and 1 application core, NMIs on up to 3 contexts | GS and stack in C code, ticks that come back, registration, no stop without a cause, final bug check |

*Why the bounds are enough.* Six frames hold a used frame before, between and
after runs of every length up to the request, and runs cut by the end of the
bitmap. In `phys_mem` the memory map leaves, for either garbage value, a run
that a request of 2 fits in and, after some allocations, only runs it does not
fit in, so refusals, retries and reuse after a free all happen; two cores are
the most that can meet at one lock in a new way. In `sched_cores` five
processes go around the arbiter once and give core 1 a second process, so its
ticks really switch between processes while two other cores insert. In
`sched_live` core 1 gets two processes, which is what makes waiting possible.
`Steps = 2` is enough to tell a frame from the one before it.
The heap's pool of 18 words holds four blocks: a block can have a free
neighbour on either side, on both or on none, and still be too small; the
requests fall in three classes, and the second pool comes and goes.
In `mp_boot` the frames are enough for two processors and the pool for two or
three, so either an allocation or the assertion on `AP_MAX` fails first, on an
application core or on the bootstrap core, depending on the order; the MADT
has the bootstrap core and an I/O APIC in between. The timer is scaled to seven
samples with readings that are equal, ordered and wrapped.
In `load` sixteen frames are enough for two processes with all their tables, so
that every page can be mapped; other cores take up to three at any point, so
that every allocation can be refused, too. The archive holds directories, files
whose length fills a block or not, an empty file, and a path that is not there. Two levels above the
pages are what makes "a table that is new" and "one that was there" differ at
two depths. In `kernel_boot` three contexts allow an NMI in a tick in a
process, and a fault in the dump of either. Two application cores with one
context were run once by hand (3.4 million states, no error).

*Fairness.* `PhysMem` assumes weak fairness of the steps inside the critical
section only: a core that holds the lock keeps executing. It assumes nothing of
who gets the lock, because test-and-set does not order the cores that spin.
`Sched` assumes weak fairness of each core's kernel code and of its armed
timer. The queue's lock is not fair either, but other cores come for it only to
insert a new process, of which there are finitely many in an instance, so a
core that spins for its own queue gets it. `MpBoot` assumes that the bootstrap
core and each processor keep executing, and strong fairness of `Acquire`: each
processor takes `apLock` once, so it comes free at most finitely often while
another waits and the last to wait has it to itself. `FrameScan` is one
sequential loop. The other specifications state no fairness and no liveness.

*Deadlock* is checked except where the system really may stop: the search of
`FrameScan` returns; in `mp_boot` all processors end in the scheduler or in a
bug check; in `load` a fault or the bound on processes ends it; in
`kernel_boot` every core may have halted.

### Disagreements found

1. **A run of exactly the requested length is refused** (`phys.c:116`, `:126`).
   The loop leaves only at one clear bit more than asked for. `include/mm/phys.h:14`
   says the function allocates `count` frames. The last frame of every free
   region can never be allocated. Run `exact_fit`.
2. **`keDequeueProc` tests an uninitialized variable** (`sched.c:64`): it means
   `result`. If the slot holds zero a tick fails although the queue has a
   process; `halSchedSwitch` has queued the interrupted process by then, goes
   on running it, and queues it again at the next tick. Run `sched_uninit`.
3. **An application core's first stack starts at the bottom of its frame**
   (`mp.c:116`, `cpuStartup.asm:68`): what it pushes goes to the frame below,
   which may be another core's. `cpuInit.c:168` says of the stack it makes "We
   want to start at the top, grows down". Run `ap_stack`.

Also met, and not runs of their own because no line promises otherwise or
nothing calls the code: the parenthesis at `uart.c:47`; the glyph column
`BIT(8 - cx)` in `vidCore.c`; the length of the `video0` region is never set;
ACPI entry counts use 32-bit pointers for the XSDT, too; `exBoxRelease` reads
`elem->link` after it freed `elem`; and those named under the decisions above.

## 4. Properties

`PhysMem`: `MutualExclusion`, `NoDoubleAllocation`, `BitmapExact`,
`BitmapNotHandedOut`, `FailureIsCurrent` (invariants), `LockReleased`
(liveness), `ImplementsFrameAlloc` (refinement). `FrameScan`:
`RefusedOnlyWithoutRun`, `TakesExactlyFirstFit` (what one step may change),
`SearchEnds`. `Sched`: `QueueLockExcludes`, `NelemCountsQueue`, `OneHome`,
`ResumesWhereStopped`, `ArbiterBalanced`, `QueuedRuns` (liveness).
`KernelHeap`: `HeapConsistent`, `NothingLost`, `RefusedOnlyWithoutBlock`,
`ImplementsHeap` (refinement). `MpBoot`: `OwnStack`, `ApListExact`,
`KernelStacksOwn`, `OneshotArmed`, `StartedArrives` (liveness). `Loader`:
`FramesAccounted`, `BootPackExact`, `LoadedExactly`, `ImplementsAddressSpaces`
(refinement). `Boot` and `Traps`: `KernelContext`, `TimerKept`, `Registered`,
`StopsForCause`, `BugCheckFinal` (what no step may undo). Each is stated in
words where it is defined, and each has a mutated definition that breaks it.

## 5. What is proved

For every value of the constants that satisfies the assumptions named in the
modules (any number of cores, callers, processes, frames, any memory map, any
MADT, page tables of any depth and width):

- `FrameScanProofs`. `LoopInv` says what the loop knows: the run followed so far
  is clear, starts at `idx`, ends at `i`, and no frame before it fits. From it:
  `RefusalIsSound`, `TakesFirstFit`.
- `PhysMemProofs`. The inductive invariant adds to the checked properties that
  boot's reserved frames stay marked, that frame 0 is one of them (so base 0
  really means failure), that a run found by the search is still clear when it
  is marked (the lock), and that a run on its way in or out is not also held.
  None of the checked invariants is inductive without these. From it:
  `TypeCorrect`, `LockExcludes`, `FramesHaveOneOwner`, `BitmapIsExact`,
  `BitmapIsKept`, `RefusalIsCurrent`, and `Refinement`: `Mark` is the abstract
  allocation, `Clear` the abstract release, every other step stutters.
- `SchedProofs`. The invariant relates each core's place to its local variables
  (a core in `keScheduleProc` has a process; `save` has a `curProc`), each
  queue's flag to the one core at work on it, and each counter to its list.
  Steps are split into those that touch a queue and those elsewhere. From it:
  `TypeCorrect` (so `keParbCycle` never indexes past the last core and `nelem`
  never goes below zero), `QueueLocksExclude`, `NelemIsExact`. They hold for
  both outcomes of the uninitialized test.
  `ProcessesHaveOneHome` and `ResumesExactly` hold on condition that the uninitialized test passes (`ProcessIsNull = {FALSE}`; with the other
  outcome they are false). Three parts are added to the invariant. `Place`: the bootstrap core never switches; a process that its
  own tick has queued went to that core's queue and stays counted until the core
  dequeues, because only the core itself takes from its queue, so the dequeue
  after an enqueue never fails. `HomeInv`: `OneHome` place by place, so that a
  step needs to be compared only with the place it leaves and the one it enters.
  `FrameInv`: a frame in use on a core is the process's latest; when none is, the
  saved one is, and between enqueue and save the process is still in the queue
  of the core whose frame it is.
  In the middle of the arbiter's round exactly the cores before the
  semaphore are one ahead, or up to and including it between pick and advance:
  `ArbiterIsFair`.
- `OmarProofs`. `FilesReadBack`: for every tree, of any size, the kernel's
  reader finds under each file's path exactly that file's blocks, and finds
  nothing under a path that is no file's. The layout carries it: an entry of
  the archive starts where the blocks of the entries before it end, its first
  block is its header, and what lies between one start and the next is its
  contents. A reader that stands at a start therefore reads a header and goes
  to the next start (`Jumps`), never into a file's contents, which may look
  like anything. `LoaderProofs` adds the tool's own `Extract`: `PackReadBack`.
- `MpBootProofs`. `TypeCorrect`, `StacksAreOwn` (when `TrampolineDelay` is
  `"bounded"`), `ListIsExact`, `KernelStacksAreOwn`, `OneshotIsArmed`. The
  invariant says: who is between acquire and release has the lock, alone
  (`LockInv`); what is below `nAp` is filled, each processor at most once, and a
  full list means that someone stopped with the lock, so no store follows
  (`ListInv`); a processor that has started is one the walk has passed, so no
  INIT hits a running one (`WalkInv`); each frame has the use its owner put it
  to (`StackInv`); and a calibration that did not wrap gives at least
  `PerUsec`, from `Dividend >= PerUsec` (`CoreInv`). The MADT may have any
  number of entries; it lists each processor once (`MadtAssumption`).
- `BootProofs`. `BootTypes`, `KernelContextAlways`, `TimerKeptAlways`,
  `BugCheckIsFinal`, `CoresStopForCause`, `RegisteredAlways`, for any number of
  application cores, any bound on nested contexts and both orders of the
  modules. What a core is like does not depend on the others, so `CoreInv` is an
  invariant of one core's record and each action of that core is shown to keep
  it. `KernelContext` alone is not inductive: what a tick or a return finds
  depends on what lies below. `Open` says what a tick can interrupt, a process
  or an idle core under traps that still had interrupts on; only over such a
  stack is GS known when the tick comes, and a tick that found the user's GS
  returns without a switch (`InTick`). Over a window (`Windows`) nothing is
  claimed, but nothing returns there either: a trap stays fatal. `TimerInv`
  follows the timer into the places where a tick may still leave without
  arming it, which no tick over a process or an idle core does. `ScreenInv`
  relates the bug check's lock to the one core that may write. `Undisturbed` is
  `StopsForCause` frame by frame: without a failure no fault and no NMI lies
  below anything. For the object store, `Tree` gives every name its one object,
  in its parent's directory and in no other; `Counted` ties references to the
  directories and to `registered`; `Made` lists, stage by stage, which names
  exist, which is what makes `obDirectoryLookup` find nothing before a maker
  and the maker's object after it (`Complete`: as long as nothing was refused
  with a directory half made). `Passes` keeps the objects' pass of
  `kiModuleInit` before the other.
- `LoaderProofs`. `LoaderTypes`, `LoaderFrames`, `LoaderLoads` and
  `LoaderImplementsSpaces`, for page tables of any depth and (even) width, any
  number of frames, processes and files, any refusal and whatever the free
  frames hold. None of the last three is inductive: they see a space only through the processor's walk, and a walk
  from one root stays clear of another's tables only because the tables are
  trees that share nothing. `Wf` says so: from root `r` the tables at level `l`
  are `Under(m, r)[l]`; no frame is at two levels or under two roots, no two
  entries of the user half lead to the same table (`Forest`); frame 0 is clear;
  and no table is free. Of the other frames nothing is known until they are
  allocated: wiping free frames changes no tree (`SameTrees`, `WipedGrows`), so
  a new table is clear when it is entered. Entering a new table
  (`LinkWf`, `LinkMaps`), writing an entry of a page table (`SetMaps`), making a
  root (`RootWf`) and allocating (`FreeWf`) each keep `Wf` and change what they
  should. `Descent` and `DeeperCases` take these through the loop of
  `mmuGetLevelPhys`: `MapFacts`, `UnmapFacts` and `CreateVasFacts` say what each
  operation of `mmu.c` does to `Map`, the mapping of a space, and to `TablesOf`,
  its tables; `TranslateIs` shows that the processor's walk finds `Map`.
  `Exact` counts: every frame that is not free has one use, and each step adds,
  drops or exchanges uses of just the frames it takes or returns. The rest of
  the invariant goes along the loader. The root left behind by a process that
  could not be made maps nothing (`Starting`), which is why a later process may
  take it over with its pool block. A process that has no root does not find a
  frame for a table either, so its stack is never mapped through frame 0
  (`NoRoot`): the refusal of `mmuCreateVas` is ignored, the same refusal of
  `mmuMapSingle` right after it is not. This rests on `TakeFrame`: other cores
  take frames and give none back, since the only callers of `mmFreeFrame` that
  are reached run in `kMain` (`platform/amd64/ke/process.c:100`, `box.c:39`).
  A section's frames are in a box (`InBox`), and its pages up to the one at
  hand are mapped to them (`Mapped`).

  The walks over the levels are recursive functions. What holds at every level
  is a set of levels that contains the root's and, with a level, the next one
  down (`Down`, from the least element of a set of numbers): this is how these
  proofs do without an induction theorem over a predicate, which the installed
  provers cannot instantiate. In the same way a function given by recursion is
  shown to exist and to be the only one (`Iterates`, `UnderOnce`, `WalkOnce`).

- `KernelHeapProofs`. `TypeCorrect`, `Consistent`, `NoLeak`, `RefusedRightly`
  and `Implements`, for any number of cores, any pools, requests and alignments
  and any numbers of size classes. None of the checked properties is inductive:
  they speak of the heap when the lock is free, and an operation meets it only
  when it is not. `IInv` has four parts.
  One caller at most is past the lock (`OneInside`).
  The heap is `Good`: the blocks from a pool's first to its sentinel follow each
  other without a gap, each says truly whether the one before it is free and
  where that one is, and every block lies in a pool (`Tile`, `Homed`); a free
  block is in exactly the list of its size's class and in no other place, and a
  bit is set exactly if its list has a block (`Filed`); no two free blocks are
  neighbours (`NoPair`).
  Between the two halves of an operation the heap is good but for the block at
  hand: a located block is free, in no list and large enough (`Ready`); one
  marked free is in no list and may have free neighbours (`Loose`).
  And a used block is held by exactly one caller, in a region no larger than the
  block, or is about to be freed by exactly one (`Owns`, `Pending`).

  Three kinds of lemmas carry it. On headers: each operation marks a block, cuts
  one in two (`IsCut`) or makes one of two neighbours (`IsFused`), and any of
  these keeps the pools tiled (`MarkedTile`, `CutTile`, `FusedTile`,
  `EnlargedTile`, `ShrunkTile`). On lists: taking a block out and filing it keep
  the lists and bitmaps exact (`Removed`, `Inserted`). On sizes: the classes are
  consecutive intervals (`Floor`, `Width`), so a block from the class that
  `mapping_search` rounds up to is large enough, and when no class from there on
  has a block, no free block has the rounded size. On top of these, one
  lemma per operation (`PrepareGood`, `MergeGood`, `ReallocGood`,
  `MemalignGood`, `AddPoolGood`, `RemovePoolGood`). Tiling makes the regions
  held disjoint and inside the pools (`Separate`), which is what the abstract
  `Heap` promises: `Prepare` and `DoMemalign` are its allocation, `CallFree` its
  release, `DoRealloc` its reallocation, `PoolInit` and `DoPools` give and take
  pools, and every other step stutters.

Only model-checked: `LockReleased`, `SearchEnds`, `QueuedRuns` and
`StartedArrives`; liveness under fairness is beyond the prover.

## 6. Not modelled, and what is left

- **No caller, so no state to be in**: `obTable.c`, `ke/irql.c` (raise and
  lower), `exMapperMap`, `mmUnmapPages` and `mmFreePages`, the heap kind of a
  pointer box, ACPI's checksum. Modelling them would mean to invent their users.
- **Pids**: `nextPid` is incremented without a lock, but only `kMain` calls
  `exCreateProcess`.
- **Output and pure computation**: `drv/bootvid`, `rtl/string.c`,
  `rtl/itoa.c`, tracing, the UART, the boot screen, the text of a bug check,
  and the byte comparison of `acpiQueryTable`. `limine.h` and `queue.h` are
  vendored and appear only as the code uses them.
- **Contents of memory** except page tables and program sections: among them
  the tail of the bitmap (`phys.c:99`), a hazard without a property.
- **Device formats**: descriptor tables, APIC registers beyond the timer and the
  start-up messages, the HPET's and the i8254's beyond their counters.

What could still be added: an abstract scheduler (a set of ready processes per
core) that `Sched` implements; the calls of
`tlsf.c` with bad arguments; processors that appear in the arbiter's count while
processes are queued, once the kernel has a caller that does so.
