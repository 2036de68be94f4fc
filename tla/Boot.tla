---------------------------------- MODULE Boot ---------------------------------
(***************************************************************************)
(* kMain (ke/entry.c): the bootstrap core brings the kernel up stage by    *)
(* stage, registers timers and mappers in the object store, starts the     *)
(* application cores and enters the first process.  NMIs come meanwhile,   *)
(* and every allocation may be refused.  MpBoot has the start of the       *)
(* application cores in detail, Loader the first process.                  *)
(***************************************************************************)
EXTENDS Traps, Objects

VARIABLES
    stage,       \* Where kMain is.
    store,       \* The object store.
    lapicTimer,  \* isInit of kiLapicInitTimer.
    modules,     \* The modules in the order they were linked.
    todo,        \* The modules kiModuleInit still comes to, in its passes by type.
    registered   \* What its maker was told is registered: [path, object, data].

bootVars == <<stage, store, lapicTimer, modules, todo, registered>>
vars == <<trapVars, bootVars>>

\* MODULE_EXPORT, in any order.
Links == {<<"mapper", "bootvid">>, <<"bootvid", "mapper">>}
ModuleType(m) == IF m = "mapper" THEN "object" ELSE "generic"

Init ==
    /\ core = [c \in Cores |-> IF c = Bsp THEN [CoreOff EXCEPT !.pc = "boot"] ELSE CoreOff]
    /\ schedTimer = NoTimer /\ bugLock = FALSE /\ screen = {} /\ failed = FALSE
    /\ stage = "acpi"
    /\ store = NoStore
    /\ lapicTimer = FALSE
    /\ modules \in Links
    /\ todo = <<>>
    /\ registered = {}

--------------------------------------------------------------------------------

\* One stage: it leaves its core as q, and kMain goes on or stops in
\* keBugCheck.  `granted' says whether the stage got all that it asked for.
Stage(this, ok, granted, next, q) ==
    /\ stage = this /\ core[Bsp].pc = "boot"
    /\ Go(Bsp, IF ok THEN q ELSE [q EXCEPT !.pc = "acquire"])
    /\ stage' = IF ok THEN next ELSE "stopped"
    /\ failed' = (failed \/ ~granted)
    /\ UNCHANGED <<bugLock, screen, modules>>

Same == core[Bsp]
StoreUnchanged == UNCHANGED <<schedTimer, store, lapicTimer, todo, registered>>

\* kiPlatformInit: the RSDP, then the MADT with an I/O APIC, then SYSCALL.
AcpiInit ==
    /\ Stage("acpi", TRUE, TRUE, "irqChip", Same)
    /\ StoreUnchanged

\* Without RSDP keGetBootParams stops the core, and keBugCheck calls
\* keGetBootParams once it has the lock: the second one waits for the first.
NoRsdp ==
    /\ stage = "acpi" /\ core[Bsp].pc = "boot"
    /\ bugLock' = TRUE
    /\ Go(Bsp, [core[Bsp] EXCEPT !.pc = "acquire"])
    /\ stage' = "stopped" /\ failed' = TRUE
    /\ UNCHANGED <<screen, modules>> /\ StoreUnchanged

InitIrqChip(present) ==
    /\ Stage("irqChip", present, present, "syscall", Same)
    /\ StoreUnchanged

\* halInitSyscall looks for the feature before it enables it.
InitSyscall(present) ==
    /\ Stage("syscall", present, present, "gates", [Same EXCEPT !.sce = present])
    /\ StoreUnchanged

\* halCpuInit up to the stack of the TSS, which is a frame: the gates are
\* loaded before that is asked for.
LoadGates(mem) ==
    /\ Stage("gates", mem, mem, "gs", [Same EXCEPT !.gates = TRUE])
    /\ StoreUnchanged

\* GS, then the local APIC and the frames of the timer's and system call
\* stacks.
WriteGs(mem) ==
    /\ Stage("gs", mem, mem, "pool", [Same EXCEPT !.gs = "kpcr"])
    /\ StoreUnchanged

\* kiLapicInit divides by the ticks of the PIT that its sample took: two
\* equal readings are a divide error, with GS written and nothing refused.
CalibrationFaults ==
    /\ stage = "gs" /\ core[Bsp].pc = "boot"
    /\ Go(Bsp, Gate([Same EXCEPT !.gs = "kpcr"], "trap", Same.ifl))
    /\ stage' = "stopped" /\ failed' = TRUE
    /\ UNCHANGED <<bugLock, screen, modules>> /\ StoreUnchanged

PoolInit(mem) ==
    /\ Stage("pool", mem, mem, "objects", Same)
    /\ StoreUnchanged

\* kiObjStoreInit: the root and its list.
ObjStoreInit(mem) ==
    /\ Stage("objects", mem, mem, "clkdev", Same)
    /\ store' = IF mem THEN InitStore ELSE store
    /\ UNCHANGED <<schedTimer, lapicTimer, todo, registered>>

\* A directory of the root: obCreateObject and obAllocateDir.  Only
\* timerCreateStore gives up its reference when the second fails.
Directory(name, mem, dirMem) ==
    LET made == Create(store, <<>>, name, "directory", mem)
        dir == AllocateDir(made.store, made.object, dirMem)
        new == {[path |-> <<name>>, object |-> made.object, data |-> NoData]}
    IN  CASE made.status # "SUCCESS" -> [ok |-> FALSE, store |-> made.store, new |-> {}]
          [] made.status = "SUCCESS" /\ ~dirMem /\ name = "clkdev" ->
                 [ok |-> FALSE, store |-> FreeObject(dir.store, made.object), new |-> {}]
          [] OTHER -> [ok |-> dirMem, store |-> dir.store, new |-> new]

\* A descriptor in a directory of the root: obCreateObject, then its data.
Descriptors(parent, name, type, data, mem) ==
    LET made == Create(store, <<parent>>, name, type, mem)
    IN  IF made.status # "SUCCESS" THEN [ok |-> FALSE, store |-> made.store, new |-> {}]
        ELSE [ok |-> TRUE, store |-> SetData(made.store, made.object, data),
              new |-> {[path |-> <<parent, name>>, object |-> made.object, data |-> data]}]

Stored(r) == store' = r.store /\ registered' = registered \union r.new

\* Mutant: what obAllocateDir answers is not looked at.
TimerCreateStoreBlindly(mem, dirMem) ==
    LET r == Directory("clkdev", mem, TRUE)
    IN  /\ Stage("clkdev", r.ok, mem /\ dirMem, "pit", Same)
        /\ Stored(IF dirMem THEN r ELSE [r EXCEPT !.store.dir = store.dir])
        /\ UNCHANGED <<schedTimer, lapicTimer, todo>>

TimerCreateStore(mem, dirMem) ==
    LET r == Directory("clkdev", mem, dirMem)
    IN  /\ Stage("clkdev", r.ok, mem /\ dirMem, "pit", Same)
        /\ Stored(r)
        /\ UNCHANGED <<schedTimer, lapicTimer, todo>>

\* pitInit; halInitTimers goes on without it.
PitInit(mem) ==
    LET r == Descriptors("clkdev", "isa-aux", "timer", "i8254", mem)
    IN  /\ Stage("pit", TRUE, mem, "hpet", Same)
        /\ Stored(r)
        /\ UNCHANGED <<schedTimer, lapicTimer, todo>>

\* kiHpetInit: the board has one and its registers are valid.
HpetInit(present, mem) ==
    LET r == IF present THEN Descriptors("clkdev", "aux", "timer", "hpet", mem)
             ELSE [ok |-> FALSE, store |-> store, new |-> {}]
    IN  /\ Stage("hpet", r.ok, present /\ mem, "lapicTimer", Same)
        /\ Stored(r)
        /\ UNCHANGED <<schedTimer, lapicTimer, todo>>

\* kiLapicInitTimer, on every core; only the first call registers anything.
LapicTimer(mem) ==
    IF lapicTimer THEN [ok |-> TRUE, store |-> store, new |-> {}]
    ELSE Descriptors("clkdev", "sched", "timer", "lapic", mem)

LapicInitTimer(mem) ==
    LET r == LapicTimer(mem)
    IN  /\ Stage("lapicTimer", r.ok, mem, "sched", Same)
        /\ Stored(r)
        /\ lapicTimer' = r.ok
        /\ UNCHANGED <<schedTimer, todo>>

\* kiSchedInit.
SchedInit ==
    LET r == TimerGetDescriptor(store, <<"clkdev", "sched">>)
    IN  /\ Stage("sched", r.status = "SUCCESS", TRUE, "aux", Same)
        /\ schedTimer' = r.data
        /\ UNCHANGED <<store, lapicTimer, todo, registered>>

\* kiMpInit takes the timer it will wait with.
AuxTimer ==
    LET r == TimerGetDescriptor(store, <<"clkdev", "aux">>)
    IN  /\ Stage("aux", r.status = "SUCCESS", TRUE, "aps", Same)
        /\ StoreUnchanged

\* mpApEntry, when its allocations and its calibration succeed (MpBoot has
\* both fail), up to halSchedEnter.  SYSCALL is enabled by kiPlatformInit
\* alone, on the bootstrap core.
StartAp(c) ==
    LET r == LapicTimer(TRUE)
    IN  /\ stage = "aps" /\ core[Bsp].pc = "boot" /\ core[c].pc = "off"
        /\ Go(c, [core[c] EXCEPT !.pc = "idle", !.gs = "kpcr", !.gates = TRUE, !.ifl = TRUE,
                                 !.armed = OneshotUsec])
        /\ Stored(r)
        /\ lapicTimer' = r.ok
        /\ UNCHANGED <<schedTimer, bugLock, screen, failed, stage, modules, todo>>

MpInitDone ==
    /\ Stage("aps", TRUE, TRUE, "bootpack", Same)
    /\ StoreUnchanged

\* kiModuleInit goes over all modules, once for each type in the order of kMain.
\* Mutant: one pass, in the order of the linker.
ModulesAsLinked ==
    [i \in DOMAIN modules |-> [type |-> ModuleType(modules[i]), module |-> modules[i]]]
ModulePass(type) == [i \in DOMAIN modules |-> [type |-> type, module |-> modules[i]]]
ModuleOrder == ModulePass("object") \o ModulePass("generic")

BootPackInit(present) ==
    /\ Stage("bootpack", present, present, "modules", Same)
    /\ todo' = ModuleOrder
    /\ UNCHANGED <<schedTimer, store, lapicTimer, registered>>

SkipModule ==
    /\ todo # <<>> /\ ModuleType(Head(todo).module) # Head(todo).type
    /\ Stage("modules", TRUE, TRUE, "modules", Same)
    /\ todo' = Tail(todo)
    /\ UNCHANGED <<schedTimer, store, lapicTimer, registered>>

\* It calls the module, whose answer it does not look at.
ModuleInit(m, r, granted) ==
    /\ todo # <<>> /\ Head(todo).module = m /\ Head(todo).type = ModuleType(m)
    /\ Stage("modules", r.ok, granted, "modules", Same)
    /\ Stored(r)
    /\ todo' = Tail(todo)
    /\ UNCHANGED <<schedTimer, lapicTimer>>

MapperInit(mem, dirMem) ==
    ModuleInit("mapper", Directory("mapper", mem, dirMem), mem /\ dirMem)

BootVidInit(mem) ==
    ModuleInit("bootvid", Descriptors("mapper", "video0", "mapper", "region", mem), mem)

\* The first process and its program, see Loader.
CreateProcess(granted) ==
    /\ todo = <<>>
    /\ Stage("modules", granted, granted, "kick", Same)
    /\ StoreUnchanged

\* halProcKick: swapgs; iretq.
KickSwapgs ==
    /\ Stage("kick", TRUE, TRUE, "done", [Same EXCEPT !.pc = "kickRet", !.gs = Swap(@)])
    /\ StoreUnchanged

Kick ==
    /\ core[Bsp].pc = "kickRet"
    /\ Go(Bsp, [core[Bsp] EXCEPT !.pc = "user", !.stk = "user", !.ifl = TRUE])
    /\ UNCHANGED <<schedTimer, bugLock, screen, failed, bootVars>>

BootStep ==
    \/ \E ok \in BOOLEAN :
           \/ InitIrqChip(ok) \/ InitSyscall(ok) \/ LoadGates(ok) \/ WriteGs(ok) \/ PoolInit(ok)
           \/ ObjStoreInit(ok) \/ PitInit(ok) \/ LapicInitTimer(ok)
           \/ BootPackInit(ok) \/ BootVidInit(ok) \/ CreateProcess(ok)
           \/ \E mem \in BOOLEAN :
                  TimerCreateStore(ok, mem) \/ HpetInit(ok, mem) \/ MapperInit(ok, mem)
    \/ AcpiInit \/ NoRsdp \/ CalibrationFaults \/ SchedInit \/ AuxTimer \/ MpInitDone \/ SkipModule
    \/ KickSwapgs \/ Kick
    \/ \E c \in Aps : StartAp(c)

Next == BootStep \/ (TrapStep /\ UNCHANGED bootVars)

Spec == Init /\ [][Next]_vars

--------------------------------------------------------------------------------

Objects == DOMAIN store.ob

TypeOK ==
    /\ TrapTypeOK
    /\ schedTimer \in {NoTimer, "lapic"}
    /\ stage \in {"acpi", "irqChip", "syscall", "gates", "gs", "pool", "objects", "clkdev", "pit", "hpet",
                  "lapicTimer", "sched", "aux", "aps", "bootpack", "modules", "kick",
                  "done", "stopped"}
    /\ DOMAIN store.dir \subseteq Objects /\ store.root \in Objects \union {NoObject}
    /\ \A o \in Objects : store.ob[o].ref \in 1 .. 2
    /\ todo \in Seq([type : {"object", "generic"}, module : {"mapper", "bootvid"}])

(***************************************************************************)
(* What its maker was told is registered is what a lookup of its path      *)
(* finds, with its data: the first and only entry of its name, though      *)
(* obCreateObject ignores whether the directory took it (obStore.c:139)    *)
(* and every core calls kiLapicInitTimer (lapic.c:344).  Every object has  *)
(* one reference for each directory it is in and one for its maker; and    *)
(* the first process finds all that the kernel cannot do without.          *)
(***************************************************************************)
Registered ==
    /\ \A r \in registered :
          /\ Lookup(store, r.path) = r.object
          /\ store.ob[r.object].data = r.data
          /\ \A q \in registered : q.path = r.path => q = r
    /\ \A o \in Objects :
          store.ob[o].ref =
              Cardinality({d \in DOMAIN store.dir : o \in Range(store.dir[d])})
              + (IF o = store.root \/ \E r \in registered : r.object = o THEN 1 ELSE 0)
    /\ stage \in {"kick", "done"} =>
          /\ TimerGetDescriptor(store, <<"clkdev", "sched">>).data = schedTimer
          /\ TimerGetDescriptor(store, <<"clkdev", "aux">>).data = "hpet"
          /\ MapperGet(store, <<"mapper", "video0">>).status = "SUCCESS"

(***************************************************************************)
(* No core stops without a cause: unless something was refused, missing or *)
(* faulty, no bug check begins, in any order of the modules and at any     *)
(* pace of the application cores (entry.c:34-62, module.c:15).             *)
(***************************************************************************)
StopsForCause == ~failed => \A c \in Cores : ~Stopped(c)
===============================================================================
