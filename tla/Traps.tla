--------------------------------- MODULE Traps ---------------------------------
(***************************************************************************)
(* Entry into the kernel and exit from it on every core: the trap and      *)
(* interrupt stubs (include/platform/amd64/frameAsm.h, cpu/trap.S,         *)
(* cpu/vector.S), the system call path, the timer interrupt as one step    *)
(* (Sched has it in detail), and the bug check (ke/bugCheck.c).            *)
(*                                                                         *)
(* A core is at one place, `pc'.  `frames' are the contexts interrupted    *)
(* below it, the last one first: where each goes on, on which stack, with  *)
(* interrupts on or off.  Faults and NMIs come through trap gates, which   *)
(* leave interrupts as they are until the stub's cli; the timer comes      *)
(* through an interrupt gate.  GS holds the core's KPCR or zero, and       *)
(* swapgs exchanges the two; it is "unset" until halCpuInit has written    *)
(* it.  A trap is fatal, so no stub returns from one.                      *)
(***************************************************************************)
EXTENDS Integers, SequencesExt

CONSTANTS
    Bsp,       \* The bootstrap core,
    Aps,       \* the application cores,
    MaxFrames  \* and the bound on nested contexts at which an NMI may come.

ASSUME CoreAssumption == Bsp \notin Aps
ASSUME FrameAssumption == MaxFrames \in Nat

Cores == Aps \union {Bsp}

VARIABLES
    core,       \* The state of each core, see CoreType.
    schedTimer, \* g_schedTimer: the descriptor of the timer, or NoTimer.
    bugLock,    \* The lock of keBugCheck, which is never released.
    screen,     \* The cores that wrote to the screen of the bug check.
    failed      \* Whether anything was refused, missing or faulty (history).

trapVars == <<core, schedTimer, bugLock, screen, failed>>

NoTimer == "none"

\* Once cli has run there is no way back to what was interrupted.
Fatal == {"trapGs", "acquire", "clear", "print", "dump", "halted"}

\* The instructions between a change of privilege and the swapgs or the
\* change of stack that goes with it.
Windows == {"sysEntry", "sysSave", "sysExit", "sysret", "tick", "tickExit",
            "tickRet", "trap", "trapGs", "kickRet"}

CCode == (Fatal \ Windows) \union {"boot", "idle", "sysBody", "tickBody"}

UserFrame == [at |-> "user", stk |-> "user", ifl |-> TRUE]

Stopped(c) ==
    \/ core[c].pc \in Fatal
    \/ \E i \in DOMAIN core[c].frames : core[c].frames[i].at \in Fatal

--------------------------------------------------------------------------------

\* Core c goes on as q.
Go(c, q) == core' = [core EXCEPT ![c] = q]

Swap(gs) == IF gs = "kpcr" THEN "zero" ELSE "kpcr"

\* What the processor pushes at a gate.
Frame(q) == [at |-> q.pc, stk |-> q.stk, ifl |-> q.ifl]

\* It enters the gate: on rsp0 if it was in user mode.
Gate(q, entry, ifl) ==
    [q EXCEPT !.pc = entry, !.ifl = ifl, !.frames = <<Frame(q)>> \o @,
              !.stk = IF q.pc = "user" THEN "rsp0" ELSE @]

\* The stubs look at the code segment of the frame.
FromUser(c) == Head(core[c].frames).at = "user"

\* Mutant: the test of the stubs is the wrong way around.
SwapIfKernel(c, next) ==
    Go(c, [core[c] EXCEPT !.pc = next, !.gs = IF FromUser(c) THEN @ ELSE Swap(@)])

\* swapgs if the frame is one of user mode, on the way in and on the way out.
SwapIfUser(c, next) ==
    Go(c, [core[c] EXCEPT !.pc = next, !.gs = IF FromUser(c) THEN Swap(@) ELSE @])

\* A user program faults; on a core where SYSCALL is not enabled, the
\* instruction is a fault as well.
Fault(c) ==
    /\ core[c].pc = "user"
    /\ Go(c, Gate(core[c], "trap", core[c].ifl))
    /\ failed' = TRUE
    /\ UNCHANGED <<schedTimer, bugLock, screen>>

\* Once the gates are there.
Nmi(c) ==
    /\ core[c].gates /\ ~core[c].nmi
    /\ Len(core[c].frames) < MaxFrames
    /\ Go(c, [Gate(core[c], "trap", core[c].ifl) EXCEPT !.nmi = TRUE])
    /\ failed' = TRUE
    /\ UNCHANGED <<schedTimer, bugLock, screen>>

(***************************************************************************)
(* syscallHandler.  SFMASK has turned interrupts off.                      *)
(***************************************************************************)
Syscall(c) ==
    /\ core[c].pc = "user" /\ core[c].sce
    /\ Go(c, [core[c] EXCEPT !.pc = "sysEntry", !.ifl = FALSE])
    /\ UNCHANGED <<schedTimer, bugLock, screen, failed>>

SyscallSwapgs(c) ==
    /\ core[c].pc = "sysEntry"
    /\ Go(c, [core[c] EXCEPT !.pc = "sysSave", !.gs = Swap(@)])
    /\ UNCHANGED <<schedTimer, bugLock, screen, failed>>

SyscallStack(c) ==
    /\ core[c].pc = "sysSave"
    /\ Go(c, [core[c] EXCEPT !.pc = "sysBody", !.stk = "syscall"])
    /\ UNCHANGED <<schedTimer, bugLock, screen, failed>>

\* trap_syscall: a code past the table returns; code 0 calls a NULL handler.
SyscallRefused(c) ==
    /\ core[c].pc = "sysBody"
    /\ Go(c, [core[c] EXCEPT !.pc = "sysExit", !.stk = "user"])
    /\ UNCHANGED <<schedTimer, bugLock, screen, failed>>

SyscallNull(c) ==
    /\ core[c].pc = "sysBody"
    /\ Go(c, Gate(core[c], "trap", core[c].ifl))
    /\ failed' = TRUE
    /\ UNCHANGED <<schedTimer, bugLock, screen>>

SyscallExit(c) ==
    /\ core[c].pc = "sysExit"
    /\ Go(c, [core[c] EXCEPT !.pc = "sysret", !.gs = Swap(@)])
    /\ UNCHANGED <<schedTimer, bugLock, screen, failed>>

\* sysret takes the flags of r11.
Sysret(c) ==
    /\ core[c].pc = "sysret"
    /\ Go(c, [core[c] EXCEPT !.pc = "user", !.ifl = TRUE])
    /\ UNCHANGED <<schedTimer, bugLock, screen, failed>>

(***************************************************************************)
(* lapicTmrIsr and halSchedSwitch.                                         *)
(***************************************************************************)
Tick(c) ==
    /\ core[c].armed /\ ~core[c].inService /\ core[c].ifl
    /\ Go(c, [Gate(core[c], "tick", FALSE) EXCEPT !.armed = FALSE, !.inService = TRUE])
    /\ UNCHANGED <<schedTimer, bugLock, screen, failed>>

TickEntry(c) ==
    /\ core[c].pc = "tick"
    /\ SwapIfUser(c, "tickBody")
    /\ UNCHANGED <<schedTimer, bugLock, screen, failed>>

\* keTimerOneshotUsec: without a descriptor it does nothing, and no caller looks.
OneshotUsec == schedTimer # NoTimer

\* Mutant: a core that finds no process just returns.
SwitchOrReturn(c, found) ==
    Go(c, IF core[c].gs = "zero" \/ ~found THEN [core[c] EXCEPT !.pc = "tickExit"]
          ELSE [core[c] EXCEPT !.pc = "tickExit", !.inService = FALSE,
                               !.armed = OneshotUsec,
                               !.frames = <<UserFrame>> \o Tail(@)])

(***************************************************************************)
(* halSchedSwitch: without a KPCR it returns at once.  The frame of the    *)
(* process it finds, if any, replaces the live one; then EOI and one-shot. *)
(***************************************************************************)
Switch(c, found) ==
    Go(c, IF core[c].gs = "zero" THEN [core[c] EXCEPT !.pc = "tickExit"]
          ELSE [core[c] EXCEPT !.pc = "tickExit", !.inService = FALSE,
                               !.armed = OneshotUsec,
                               !.frames = IF found THEN <<UserFrame>> \o Tail(@) ELSE @])

TickBody(c) ==
    /\ core[c].pc = "tickBody"
    /\ \E found \in BOOLEAN : Switch(c, found)
    /\ UNCHANGED <<schedTimer, bugLock, screen, failed>>

TickExit(c) ==
    /\ core[c].pc = "tickExit"
    /\ SwapIfUser(c, "tickRet")
    /\ UNCHANGED <<schedTimer, bugLock, screen, failed>>

\* iretq; whatever was below a frame of user mode is gone.
TickReturn(c) ==
    /\ core[c].pc = "tickRet"
    /\ LET f == Head(core[c].frames)
       IN  Go(c, [core[c] EXCEPT !.pc = f.at, !.stk = f.stk, !.ifl = f.ifl, !.nmi = FALSE,
                                 !.frames = IF FromUser(c) THEN <<>> ELSE Tail(@)])
    /\ UNCHANGED <<schedTimer, bugLock, screen, failed>>

(***************************************************************************)
(* A trap: TRAP_ENTRY, trap_handler, keBugCheck.                           *)
(***************************************************************************)
\* Mutant: the stub of a trap gate without cli.
TrapOpen(c) ==
    /\ core[c].pc = "trap"
    /\ Go(c, [core[c] EXCEPT !.pc = "trapGs"])
    /\ UNCHANGED <<schedTimer, bugLock, screen, failed>>

TrapCli(c) ==
    /\ core[c].pc = "trap"
    /\ Go(c, [core[c] EXCEPT !.pc = "trapGs", !.ifl = FALSE])
    /\ UNCHANGED <<schedTimer, bugLock, screen, failed>>

TrapSwapgs(c) ==
    /\ core[c].pc = "trapGs"
    /\ SwapIfUser(c, "acquire")
    /\ UNCHANGED <<schedTimer, bugLock, screen, failed>>

Acquire(c) ==
    /\ core[c].pc = "acquire" /\ ~bugLock
    /\ bugLock' = TRUE
    /\ Go(c, [core[c] EXCEPT !.pc = "clear"])
    /\ UNCHANGED <<schedTimer, screen, failed>>

\* bootVidClear.
Clear(c) ==
    /\ core[c].pc = "clear"
    /\ screen' = screen \union {c}
    /\ Go(c, [core[c] EXCEPT !.pc = "print"])
    /\ UNCHANGED <<schedTimer, bugLock, failed>>

\* The lines of bugCheckDump.
Report(c) ==
    /\ core[c].pc = "print"
    /\ screen' = screen \union {c}
    /\ Go(c, [core[c] EXCEPT !.pc = "dump"])
    /\ UNCHANGED <<schedTimer, bugLock, failed>>

(***************************************************************************)
(* halDumpStack follows the frame pointers, which in a process lead to     *)
(* wherever its %rbp points: a fault there enters the trap stub again.     *)
(***************************************************************************)
DumpFaults(c) ==
    /\ core[c].pc = "dump"
    /\ \E i \in DOMAIN core[c].frames : core[c].frames[i].at = "user"
    /\ Go(c, Gate(core[c], "trap", core[c].ifl))
    /\ UNCHANGED <<schedTimer, bugLock, screen, failed>>

\* halCpuHalt: cli; hlt.
Halt(c) ==
    /\ core[c].pc = "dump"
    /\ Go(c, [core[c] EXCEPT !.pc = "halted", !.ifl = FALSE])
    /\ UNCHANGED <<schedTimer, bugLock, screen, failed>>

TrapStep ==
    \E c \in Cores :
        \/ Fault(c) \/ Nmi(c)
        \/ Syscall(c) \/ SyscallSwapgs(c) \/ SyscallStack(c) \/ SyscallRefused(c)
        \/ SyscallNull(c) \/ SyscallExit(c) \/ Sysret(c)
        \/ Tick(c) \/ TickEntry(c) \/ TickBody(c) \/ TickExit(c) \/ TickReturn(c)
        \/ TrapCli(c) \/ TrapSwapgs(c) \/ Acquire(c) \/ Clear(c)
        \/ Report(c) \/ DumpFaults(c) \/ Halt(c)

\* A core before it is started.
CoreOff == [pc |-> "off", frames |-> <<>>, gs |-> "unset", stk |-> "boot",
            ifl |-> FALSE, nmi |-> FALSE, armed |-> FALSE, inService |-> FALSE,
            gates |-> FALSE, sce |-> FALSE]

--------------------------------------------------------------------------------

Points == Windows \union CCode \union {"off", "user"}
Stacks == {"boot", "rsp0", "syscall", "user"}

TrapTypeOK ==
    /\ core \in [Cores ->
          [pc : Points, gs : {"kpcr", "zero", "unset"}, stk : Stacks,
           frames : Seq([at : Points, stk : Stacks, ifl : BOOLEAN]),
           ifl : BOOLEAN, nmi : BOOLEAN, armed : BOOLEAN, inService : BOOLEAN,
           gates : BOOLEAN, sce : BOOLEAN]]
    /\ bugLock \in BOOLEAN
    /\ screen \subseteq Cores
    /\ failed \in BOOLEAN

(***************************************************************************)
(* C code of the kernel has the KPCR in GS and is not on the stack of a    *)
(* process, whichever of swapgs, the frames' code segments and the stack   *)
(* switches led there, unless an NMI hit one of the instructions of        *)
(* Windows; and a process runs with neither, with interrupts on and no     *)
(* context left behind (frameAsm.h:78-124, vector.S:18-38).                *)
(***************************************************************************)
KernelContext ==
    \A c \in Cores :
        /\ /\ core[c].pc \in CCode
           /\ \A i \in DOMAIN core[c].frames : core[c].frames[i].at \notin Windows
           => core[c].gs # "zero" /\ core[c].stk # "user"
        /\ core[c].pc = "user" =>
              /\ core[c].gs = "zero" /\ core[c].stk = "user"
              /\ core[c].ifl /\ core[c].frames = <<>>

(***************************************************************************)
(* A tick comes back: an application core that runs a process or idles has *)
(* its one-shot running and no interrupt in service, though halSchedSwitch *)
(* may return without either (process.c:128, process.c:160-162) and the    *)
(* timer is the one registered in the object store at boot (sched.c:91).   *)
(***************************************************************************)
TimerKept ==
    \A c \in Aps : core[c].pc \in {"idle", "user"} => core[c].armed /\ ~core[c].inService

(***************************************************************************)
(* A bug check is final: a core that has begun one, its cli done, never    *)
(* runs a process or idles again, whatever tick or NMI comes; and no other *)
(* core writes over the first report (bugCheck.c:121 "Never release").     *)
(***************************************************************************)
BugCheckFinal ==
    [][/\ \A c \in Cores : Stopped(c) => Stopped(c)'
       /\ screen # {} => screen' = screen]_trapVars
===============================================================================
