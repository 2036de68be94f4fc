-------------------------------- MODULE MpBoot --------------------------------
(***************************************************************************)
(* Bringing up the application processors: kiMpInit on the bootstrap core  *)
(* walks the MADT (src/ntos/acpi/acpi.c) and starts each processor through *)
(* the trampoline (src/ntos/platform/amd64/boot/cpuStartup.asm), which     *)
(* reads its stack from one bootstrap descriptor that serves them all and  *)
(* enters mpApEntry (src/ntos/platform/amd64/cpu/mp.c).                    *)
(*                                                                         *)
(* Nothing acknowledges a start: the bootstrap core waits a fixed time and *)
(* goes on.  TrampolineDelay says how long a processor may stay in the     *)
(* trampoline: "bounded", as the code expects, or "any".  keBugCheck stops *)
(* the core it runs on and no other.                                       *)
(*                                                                         *)
(* Local APICs are in x2APIC mode: lapicSetBase has no caller, so in xAPIC *)
(* mode every register access goes to an address near zero and the kernel  *)
(* does not get this far.  A kernel stack address is counted in words of   *)
(* PageSize to the frame.                                                  *)
(***************************************************************************)
EXTENDS Integers, Sequences, FiniteSets

CONSTANTS
    Madt,             \* The MADT: a sequence of [type, apicId].
    Present,          \* APIC ids of the processors that exist.
    BspId,            \* APIC id of the bootstrap core.
    ApMax,            \* AP_MAX.
    Frames,           \* Free physical frames when kiMpInit starts.
    PoolBlocks,       \* How many KPCRs the pool may still hold.
    PageSize,         \* Words in a page.
    TrampolineDelay,  \* "bounded" or "any".
    Samples,          \* LAPIC_TMR_SAMPLES, also the first count of the i8254.
    Dividend,         \* I8254_DIVIDEND, in the unit of PerUsec.
    PerUsec,          \* Ticks per second of a 1 MHz timer (1000000).
    Starts,           \* First readings of the i8254 in a calibration.
    Elapsed           \* Counts of the i8254 a calibration may take.

Aps == {Madt[k].apicId : k \in {j \in DOMAIN Madt : Madt[j].type = "lapic"}}
           \ {BspId}

ASSUME MadtAssumption ==
    /\ Madt \in Seq([type : {"lapic", "ioapic"}, apicId : 0 .. 255])
    /\ \A j, k \in DOMAIN Madt :
           Madt[j].type = "lapic" /\ Madt[k] = Madt[j] => j = k
    /\ Present \subseteq 0 .. 255 /\ BspId \in Present
ASSUME CountAssumption ==
    /\ ApMax \in Nat \ {0} /\ PoolBlocks \subseteq Nat /\ PageSize \in Nat \ {0, 1}
    /\ Samples \in Nat \ {0} /\ PerUsec \in Nat \ {0}
    /\ Dividend \in Nat /\ Dividend >= PerUsec
    /\ Starts \subseteq 0 .. Samples /\ Elapsed \subseteq Nat
    /\ TrampolineDelay \in {"bounded", "any"}

(***************************************************************************)
(* The trampoline and its descriptor are written to frames 1 and 2 without *)
(* asking the allocator: the memory map must not offer them.               *)
(***************************************************************************)
ASSUME LowMemoryAssumption == Frames \subseteq Nat \ {0, 1, 2}

------------------------------------------------------------------------------
(***************************************************************************)
(* lapicTimerInit: the i8254 counts down to zero and starts again at       *)
(* Samples.  Between two readings, a difference of zero divides by zero    *)
(* and a negative one is a huge unsigned number.                           *)
(***************************************************************************)
Faulty == -1

\* Mutant: the quotient the other way up.
FrequencyInverted(start, elapsed) ==
    IF elapsed = 0 THEN Faulty ELSE (elapsed \div Samples) * Dividend

Frequency(start, elapsed) ==
    LET total == start - ((start - elapsed) % (Samples + 1))
    IN  CASE total = 0 -> Faulty
          [] total > 0 -> (Samples \div total) * Dividend
          [] total < 0 -> 0

\* lapicTimerOneshotUsec: the initial count for a slice; zero stops the timer.
OneshotTicks(freq, usec) == usec * (freq \div PerUsec)

------------------------------------------------------------------------------
VARIABLES
    bsp,      \* Where the bootstrap core is.
    entry,    \* The MADT entry acpiReadMadt is at.
    desc,     \* stackBase of the bootstrap descriptor.
    pc,       \* Where each processor is.
    rsp,      \* The stack it read from the descriptor.
    core,     \* Its KPCR's stacks and timer, as far as initialized.
    slot,     \* Its index in apList, between the store and the increment.
    apLock,   \* The spinlock's flag.
    apList,   \* apList: a function from index to processor.
    nAp,      \* nAp.
    owner,    \* Who each frame was allocated for.
    pool      \* KPCRs left in the pool.

bspVars == <<bsp, entry, desc>>
apVars == <<rsp, core, slot>>
listVars == <<apLock, apList, nAp>>
memVars == <<owner, pool>>
vars == <<bspVars, pc, apVars, listVars, memVars>>

Unset == -1
NoOwner == <<"free", Unset>>
NoCore == [rsp0 |-> 0, syscallStack |-> 0, freq |-> 0, wrapped |-> FALSE]

FreeFrames == {f \in Frames : owner[f] = NoOwner}

\* mmAllocFrame(1): the lowest free frame.
AllocFrame(f, who) ==
    /\ f \in FreeFrames /\ \A g \in FreeFrames : f <= g
    /\ owner' = [owner EXCEPT ![f] = who]

Init ==
    /\ bsp = "walk" /\ entry = 1 /\ desc = 0
    /\ pc = [a \in Aps |-> "off"]
    /\ rsp = [a \in Aps |-> 0]
    /\ core = [a \in Aps |-> NoCore]
    /\ slot = [a \in Aps |-> 0]
    /\ apLock = FALSE
    /\ apList = [i \in 0 .. ApMax - 1 |-> Unset]
    /\ nAp = 0
    /\ owner = [f \in Frames |-> NoOwner]
    /\ pool \in PoolBlocks

------------------------------------------------------------------------------
(***************************************************************************)
(* kiMpInit on the bootstrap core: acpiReadMadt calls localApicLookup,     *)
(* which always answers -1, for each entry of its type.                    *)
(***************************************************************************)
This == Madt[entry].apicId

\* Entries of other types are skipped, and so is the processor's own.
IsOther == Madt[entry].type = "lapic" /\ This # BspId

BspGoto(from, to) == bsp = from /\ bsp' = to

SkipEntry ==
    /\ bsp = "walk" /\ entry <= Len(Madt) /\ ~IsOther
    /\ entry' = entry + 1
    /\ UNCHANGED <<bsp, desc, pc, apVars, listVars, memVars>>

WriteDescriptor ==
    /\ entry <= Len(Madt) /\ IsOther
    /\ \/ /\ BspGoto("walk", "init")
          /\ \E f \in Frames : AllocFrame(f, <<"stack", This>>) /\ desc' = f * PageSize
       \/ /\ BspGoto("walk", "bugcheck")
          /\ FreeFrames = {} /\ desc' = 0
          /\ UNCHANGED owner
    /\ UNCHANGED <<entry, pc, apVars, listVars, pool>>

\* An INIT makes a processor wait for a STARTUP; an id may answer nothing.
SendInit ==
    /\ BspGoto("init", "startup1")
    /\ pc' = IF This \in Present THEN [pc EXCEPT ![This] = "waitSipi"] ELSE pc
    /\ UNCHANGED <<entry, desc, apVars, listVars, memVars>>

\* A STARTUP is seen only by a processor that waits for it.
Started == IF This \in Present /\ pc[This] = "waitSipi"
           THEN [pc EXCEPT ![This] = "trampoline"] ELSE pc

\* The first of the two STARTUPs may come too early for the processor.
SendStartup ==
    /\ \/ BspGoto("startup1", "startup2") /\ pc' \in {pc, Started}
       \/ BspGoto("startup2", "settle") /\ pc' = Started
    /\ UNCHANGED <<entry, desc, apVars, listVars, memVars>>

\* Mutant: the wait after the second STARTUP is too short.
GoOn ==
    /\ BspGoto("settle", "walk")
    /\ entry' = entry + 1
    /\ UNCHANGED <<desc, pc, apVars, listVars, memVars>>

\* The last keTimerMsleep: time enough for the trampoline, or not.
Settle ==
    /\ BspGoto("settle", "walk")
    /\ TrampolineDelay = "bounded" =>
           This \notin Present \/ pc[This] # "trampoline"
    /\ entry' = entry + 1
    /\ UNCHANGED <<desc, pc, apVars, listVars, memVars>>

WalkEnds ==
    /\ BspGoto("walk", "done")
    /\ entry > Len(Madt)
    /\ UNCHANGED <<entry, desc, pc, apVars, listVars, memVars>>

Bsp == \/ SkipEntry \/ WriteDescriptor \/ SendInit \/ SendStartup \/ Settle
       \/ WalkEnds

------------------------------------------------------------------------------
(***************************************************************************)
(* An application processor: the trampoline, then mpApEntry.               *)
(***************************************************************************)
Goto(a, from, to) == pc[a] = from /\ pc' = [pc EXCEPT ![a] = to]

Trampoline(a) ==
    /\ Goto(a, "trampoline", "entry")
    /\ rsp' = [rsp EXCEPT ![a] = desc]
    /\ UNCHANGED <<bspVars, core, slot, listVars, memVars>>

\* Mutant: the flag is not looked at.
AcquireBlindly(a) ==
    /\ Goto(a, "entry", "kpcr")
    /\ apLock' = TRUE
    /\ UNCHANGED <<bspVars, apVars, apList, nAp, memVars>>

Acquire(a) ==
    /\ ~apLock
    /\ Goto(a, "entry", "kpcr")
    /\ apLock' = TRUE
    /\ UNCHANGED <<bspVars, apVars, apList, nAp, memVars>>

AllocKpcr(a) ==
    /\ \/ pool > 0 /\ pool' = pool - 1 /\ Goto(a, "kpcr", "store")
       \/ pool = 0 /\ pool' = pool /\ Goto(a, "kpcr", "bugcheck")
    /\ UNCHANGED <<bspVars, apVars, listVars, owner>>

\* Mutant: the index is incremented before it is used.
StorePastIndex(a) ==
    /\ Goto(a, "store", "count")
    /\ slot' = [slot EXCEPT ![a] = nAp]
    /\ apList' = [i \in DOMAIN apList \union {nAp + 1} |->
                     IF i = nAp + 1 THEN a ELSE apList[i]]
    /\ UNCHANGED <<bspVars, rsp, core, apLock, nAp, memVars>>

\* apList[nAp] = kpcr, then nAp++ and the assertion: after the store.
Store(a) ==
    /\ Goto(a, "store", "count")
    /\ slot' = [slot EXCEPT ![a] = nAp]
    /\ apList' = [i \in DOMAIN apList \union {nAp} |->
                     IF i = nAp THEN a ELSE apList[i]]
    /\ UNCHANGED <<bspVars, rsp, core, apLock, nAp, memVars>>

Count(a) ==
    /\ nAp' = slot[a] + 1
    /\ Goto(a, "count", IF nAp' < ApMax THEN "tss" ELSE "bugcheck")
    /\ UNCHANGED <<bspVars, apVars, apLock, apList, memVars>>

(***************************************************************************)
(* A step of halCpuInit that takes a frame: the core changes to what the   *)
(* frame makes of it, newCore[frame].                                      *)
(***************************************************************************)
TakeFrame(a, from, to, what, newCore) ==
    /\ \/ /\ Goto(a, from, to)
          /\ \E f \in Frames :
                 /\ AllocFrame(f, <<what, a>>)
                 /\ core' = [core EXCEPT ![a] = newCore[f]]
       \/ /\ Goto(a, from, "bugcheck")
          /\ FreeFrames = {}
          /\ UNCHANGED <<owner, core>>
    /\ UNCHANGED <<bspVars, rsp, slot, listVars, pool>>

\* cpuInitTss: the stack of ring 0 starts past the end of its frame.
InitTss(a) ==
    TakeFrame(a, "tss", "lapic", "rsp0",
              [f \in Frames |-> [core[a] EXCEPT !.rsp0 = f * PageSize + PageSize]])

\* kiLapicInit up to the calibration; a division by zero is a fault.
Calibrate(a) ==
    /\ \E s \in Starts, e \in Elapsed :
           /\ Goto(a, "lapic", IF Frequency(s, e) = Faulty THEN "bugcheck" ELSE "ist")
           /\ core' = [core EXCEPT ![a].freq = Frequency(s, e),
                                   ![a].wrapped = e > s]
    /\ UNCHANGED <<bspVars, rsp, slot, listVars, memVars>>

\* The interrupt stack of the timer: no gate uses it, so it has no address here.
InitTimerStack(a) ==
    TakeFrame(a, "ist", "syscall", "ist", [f \in Frames |-> core[a]])

\* Mutant: the stack is left at the bottom of its frame.
SyscallStackAtBottom(a) ==
    TakeFrame(a, "syscall", "release", "syscall",
              [f \in Frames |-> [core[a] EXCEPT !.syscallStack = f * PageSize]])

InitSyscallStack(a) ==
    TakeFrame(a, "syscall", "release", "syscall",
              [f \in Frames |-> [core[a] EXCEPT !.syscallStack = f * PageSize + PageSize - 1]])

\* Mutant: the lock is not released.
ReleaseForgotten(a) ==
    /\ Goto(a, "release", "sched")
    /\ UNCHANGED <<bspVars, apVars, listVars, memVars>>

Release(a) ==
    /\ Goto(a, "release", "sched")
    /\ apLock' = FALSE
    /\ UNCHANGED <<bspVars, apVars, apList, nAp, memVars>>

Ap(a) == \/ Trampoline(a) \/ Acquire(a) \/ AllocKpcr(a) \/ Store(a) \/ Count(a)
         \/ InitTss(a) \/ Calibrate(a) \/ InitTimerStack(a)
         \/ InitSyscallStack(a) \/ Release(a)

Next == Bsp \/ \E a \in Aps : Ap(a)

Spec == Init /\ [][Next]_vars

\* Processors run; a spinlock that keeps coming free is acquired in the end.
FairSpec == /\ Spec /\ WF_vars(Bsp)
            /\ \A a \in Aps : WF_vars(Ap(a)) /\ SF_vars(Acquire(a))

------------------------------------------------------------------------------
TypeOK ==
    /\ bsp \in {"walk", "init", "startup1", "startup2", "settle", "done", "bugcheck"}
    /\ \A a \in Aps : pc[a] \in {"off", "waitSipi", "trampoline", "entry", "kpcr",
           "store", "count", "tss", "lapic", "ist", "syscall", "release", "sched",
           "bugcheck"}
    /\ apLock \in BOOLEAN /\ nAp \in 0 .. ApMax
    /\ DOMAIN apList = 0 .. ApMax - 1
    /\ \A f \in Frames : owner[f] = NoOwner \/ owner[f][2] \in Aps

HasStack(a) == pc[a] \notin {"off", "waitSipi", "trampoline"}

(***************************************************************************)
(* Every processor runs on the stack that was allocated for it: none reads *)
(* the descriptor after it was rewritten for the next one (mp.c:113).      *)
(***************************************************************************)
OwnStack ==
    \A a \in Aps : HasStack(a) =>
        /\ rsp[a] % PageSize = 0
        /\ owner[rsp[a] \div PageSize] = <<"stack", a>>

InList(a) == {i \in 0 .. nAp - 1 : apList[i] = a}

(***************************************************************************)
(* halCpuCount and halCpuGet (mp.c:149) read nAp and apList with no lock.  *)
(* What they see is a KPCR of one processor in each of the nAp places, and *)
(* each processor that schedules is there once; one that is there and not  *)
(* initialized is inside the lock or dead.                                 *)
(***************************************************************************)
ApListExact ==
    /\ \A i \in 0 .. nAp - 1 : i \in DOMAIN apList /\ apList[i] \in Aps
    /\ \A a \in Aps :
           /\ pc[a] \in {"release", "sched"} => Cardinality(InList(a)) = 1
           /\ InList(a) # {} /\ pc[a] # "sched" => apLock

\* The frame a push to this stack writes to first.
PushFrame(sp) == (sp - 1) \div PageSize

PushesInto(sp, what, a) ==
    PushFrame(sp) \in Frames /\ owner[PushFrame(sp)] = <<what, a>>

(***************************************************************************)
(* The stacks a core enters the kernel on (TSS rsp0, system calls) grow    *)
(* down inside frames that are that core's alone (cpuInit.c:167).          *)
(***************************************************************************)
KernelStacksOwn ==
    \A a \in Aps : pc[a] = "sched" =>
        /\ PushesInto(core[a].rsp0, "rsp0", a)
        /\ PushesInto(core[a].syscallStack, "syscall", a)

(***************************************************************************)
(* A core that reaches the scheduler can arm its timer: even the shortest  *)
(* slice is a count that is not zero, unless the calibration took longer   *)
(* than the i8254 counts before it starts again.                           *)
(***************************************************************************)
OneshotArmed ==
    \A a \in Aps : pc[a] = "sched" =>
        core[a].wrapped \/ OneshotTicks(core[a].freq, 1) > 0

(***************************************************************************)
(* A started processor reaches the scheduler unless it, or a processor     *)
(* that had the lock, stopped with a bug check: that one keeps the lock.   *)
(***************************************************************************)
StartedArrives ==
    \A a \in Aps :
        pc[a] = "trampoline" ~>
            pc[a] = "sched" \/ \E b \in Aps : pc[b] = "bugcheck"

(***************************************************************************)
(* "We want to start at the top, grows down" (cpuInit.c:167), of the stack *)
(* of an application processor: what it pushes first goes to the frame     *)
(* that was allocated for its stack.                                       *)
(***************************************************************************)
StartsAtTop ==
    \A a \in Aps : HasStack(a) => PushesInto(rsp[a], "stack", a)
===============================================================================
