-------------------------------- MODULE Sched --------------------------------
(***************************************************************************)
(* The process scheduler of ALGAE on several cores: keScheduleProc and     *)
(* keDequeueProc (ke/sched.c), the round-robin arbiter (ke/parb.c), the    *)
(* timer tick halSchedSwitch (platform/amd64/ke/process.c) and the state   *)
(* the boot code leaves behind (ke/entry.c, platform/amd64/cpu/mp.c).      *)
(*                                                                         *)
(* Core 0 is the bootstrap processor: halProcKick sent it to the first     *)
(* process without setting curProc and without arming its timer.  The      *)
(* other cores wait in halSchedEnter with an armed one-shot.  Kernel code  *)
(* runs with interrupts masked (interrupt gates, SFMASK), so a tick        *)
(* arrives only in user code or in the idle loop, and a core is in one     *)
(* place of the kernel at a time.                                          *)
(*                                                                         *)
(* A queue is a sequence and its counter nelem is apart, because it is     *)
(* read without the lock.  A trap frame is the number of steps, modulo     *)
(* Steps, its process has run.                                             *)
(***************************************************************************)
EXTENDS Integers, Sequences

CONSTANTS
    NCores,       \* Cores brought up by kiMpInit, the bootstrap one included.
    Procs,        \* Processes besides the first one.
    InitProc,     \* The process of kMain.
    NULL,
    Steps,        \* Bound: trap frames are counted modulo Steps.
    ProcessIsNull \* Outcomes of testing the uninitialized `process' of
                  \* keDequeueProc against NULL.

ASSUME CoresAssumption == NCores \in Nat \ {0}
ASSUME ProcsAssumption == InitProc \notin Procs /\ NULL \notin Procs \union {InitProc}
ASSUME StepsAssumption == Steps \in Nat \ {0}
ASSUME NullAssumption == ProcessIsNull \subseteq BOOLEAN

Cores == 0 .. (NCores - 1)  \* as halCpuGet numbers them
Bsp == 0
AllProcs == Procs \union {InitProc}

VARIABLES
    pc,        \* Where each core is.
    queue,     \* KPCR.queue.q of each core.
    nelem,     \* KPCR.queue.q.nelem of each core.
    qlock,     \* KPCR.queue.lock of each core.
    semaphore, \* The arbiter's next core.
    arbLock,   \* The arbiter's lock.
    curProc,   \* KPCR.curProc of each core.
    live,      \* The live trap frame of each core: [proc, at].
    cr3,       \* The process whose address space each core is in.
    armed,     \* Whether each core's one-shot timer is running.
    tf,        \* The saved trap frame of each process.
    elem,      \* `process' of the keScheduleProc a core is in.
    target,    \* `queue' of the keScheduleProc a core is in.
    next,      \* `next' of the halSchedSwitch a core is in.
    unborn,    \* Processes not created yet.
    reached,   \* How far each process has really run (history).
    assigned   \* Processes the arbiter has sent to each core (history).

coreVars == <<curProc, live, cr3, armed, next>>
queueVars == <<queue, nelem, qlock>>
arbVars == <<semaphore, arbLock, assigned>>
callVars == <<elem, target>>
frameVars == <<tf, reached>>
vars == <<pc, coreVars, queueVars, arbVars, callVars, frameVars, unborn>>

Goto(c, from, to) == pc[c] = from /\ pc' = [pc EXCEPT ![c] = to]

\* The core leaves the kernel for what its live frame describes.
Outside(c) == IF live[c].proc = NULL THEN "idle" ELSE "user"

\* halCpuInit leaves every core an empty queue and an open lock.
QueuesEmpty ==
    /\ queue = [c \in Cores |-> <<>>]
    /\ nelem = [c \in Cores |-> 0]
    /\ qlock = [c \in Cores |-> FALSE]

\* keParbReset.
ArbiterReset ==
    /\ semaphore = 0
    /\ arbLock = FALSE
    /\ assigned = [c \in Cores |-> 0]

(***************************************************************************)
(* halProcKick on the bootstrap core sets neither curProc nor a timer;     *)
(* halSchedEnter on the others arms one.                                   *)
(***************************************************************************)
CoresStarted ==
    /\ pc = [c \in Cores |-> IF c = Bsp THEN "user" ELSE "idle"]
    /\ curProc = [c \in Cores |-> NULL]
    /\ live = [c \in Cores |-> [proc |-> IF c = Bsp THEN InitProc ELSE NULL,
                                at |-> 0]]
    /\ cr3 = [c \in Cores |-> IF c = Bsp THEN InitProc ELSE NULL]
    /\ armed = [c \in Cores |-> c # Bsp]

Init ==
    /\ QueuesEmpty
    /\ ArbiterReset
    /\ CoresStarted
    /\ tf = [p \in AllProcs |-> 0]
    /\ elem = [c \in Cores |-> NULL]
    /\ target = [c \in Cores |-> Bsp]
    /\ next = [c \in Cores |-> NULL]
    /\ unborn = Procs
    /\ reached = [p \in AllProcs |-> 0]

------------------------------------------------------------------------------
(***************************************************************************)
(* Outside the kernel.                                                     *)
(***************************************************************************)

\* The running process executes an instruction.
UserStep(c) ==
    /\ pc[c] = "user"
    /\ LET at == (live[c].at + 1) % Steps
       IN  /\ live' = [live EXCEPT ![c].at = at]
           /\ reached' = [reached EXCEPT ![live[c].proc] = at]
    /\ UNCHANGED <<pc, curProc, cr3, armed, next, queueVars, arbVars, callVars, tf, unborn>>

(***************************************************************************)
(* The kernel makes a process ready with keScheduleProc(NULL, p), on       *)
(* behalf of the running process, for a new process p.                     *)
(***************************************************************************)
Spawn(c) ==
    /\ Goto(c, "user", "arbLock")
    /\ \E p \in unborn :
           /\ elem' = [elem EXCEPT ![c] = p]
           /\ unborn' = unborn \ {p}
    /\ UNCHANGED <<coreVars, queueVars, arbVars, target, frameVars>>

(***************************************************************************)
(* The one-shot fires and lapicTmrIsr calls halSchedSwitch: a core with a  *)
(* current process calls keScheduleProc on its own queue first.            *)
(***************************************************************************)
Tick(c) ==
    /\ armed[c]
    /\ armed' = [armed EXCEPT ![c] = FALSE]
    /\ pc[c] = Outside(c)
    /\ pc' = [pc EXCEPT ![c] = IF curProc[c] = NULL THEN "deqTest" ELSE "qLock"]
    /\ elem' = [elem EXCEPT ![c] = curProc[c]]
    /\ target' = [target EXCEPT ![c] = c]
    /\ UNCHANGED <<curProc, live, cr3, next, queueVars, arbVars, frameVars, unborn>>

------------------------------------------------------------------------------
\* Mutant: the arbiter's lock is not looked at before it is taken.
ArbAcquireBlindly(c) ==
    /\ Goto(c, "arbLock", "arbPick")
    /\ arbLock' = TRUE
    /\ UNCHANGED <<coreVars, queueVars, semaphore, assigned, callVars, frameVars, unborn>>

(***************************************************************************)
(* keParbCycle, called by keScheduleProc without a queue.                  *)
(***************************************************************************)
ArbAcquire(c) ==
    /\ Goto(c, "arbLock", "arbPick")
    /\ ~arbLock
    /\ arbLock' = TRUE
    /\ UNCHANGED <<coreVars, queueVars, semaphore, assigned, callVars, frameVars, unborn>>

\* keCpuGet(semaphore).
ArbPick(c) ==
    /\ Goto(c, "arbPick", "arbAdvance")
    /\ target' = [target EXCEPT ![c] = semaphore]
    /\ assigned' = [assigned EXCEPT ![semaphore] = @ + 1]
    /\ UNCHANGED <<coreVars, queueVars, semaphore, arbLock, elem, frameVars, unborn>>

\* Mutant: the wrap tests `>' for `>='.
ArbAdvanceTooFar(c) ==
    /\ Goto(c, "arbAdvance", "qLock")
    /\ semaphore' = IF semaphore + 1 > NCores THEN 0 ELSE semaphore + 1
    /\ arbLock' = FALSE
    /\ UNCHANGED <<coreVars, queueVars, assigned, callVars, frameVars, unborn>>

\* ++semaphore, with the wrap of line 35.
ArbAdvance(c) ==
    /\ Goto(c, "arbAdvance", "qLock")
    /\ semaphore' = IF semaphore + 1 >= NCores THEN 0 ELSE semaphore + 1
    /\ arbLock' = FALSE
    /\ UNCHANGED <<coreVars, queueVars, assigned, callVars, frameVars, unborn>>

------------------------------------------------------------------------------
\* Mutant: the queue's lock is not looked at before it is taken.
QueueAcquireBlindly(c) ==
    /\ Goto(c, "qLock", "link")
    /\ qlock' = [qlock EXCEPT ![target[c]] = TRUE]
    /\ UNCHANGED <<coreVars, queue, nelem, arbVars, callVars, frameVars, unborn>>

(***************************************************************************)
(* The rest of keScheduleProc.  TAILQ_INSERT_TAIL links the element first  *)
(* and counts it last.                                                     *)
(***************************************************************************)
QueueAcquire(c) ==
    /\ Goto(c, "qLock", "link")
    /\ ~qlock[target[c]]
    /\ qlock' = [qlock EXCEPT ![target[c]] = TRUE]
    /\ UNCHANGED <<coreVars, queue, nelem, arbVars, callVars, frameVars, unborn>>

Link(c) ==
    /\ Goto(c, "link", "count")
    /\ queue' = [queue EXCEPT ![target[c]] = Append(@, elem[c])]
    /\ UNCHANGED <<coreVars, nelem, qlock, arbVars, callVars, frameVars, unborn>>

Count(c) ==
    /\ Goto(c, "count", "qUnlock")
    /\ nelem' = [nelem EXCEPT ![target[c]] = @ + 1]
    /\ UNCHANGED <<coreVars, queue, qlock, arbVars, callVars, frameVars, unborn>>

\* Back in halSchedSwitch if that queued its own current process.
QueueRelease(c) ==
    /\ Goto(c, "qUnlock", IF elem[c] = curProc[c] THEN "save" ELSE "user")
    /\ qlock' = [qlock EXCEPT ![target[c]] = FALSE]
    /\ elem' = [elem EXCEPT ![c] = NULL]
    /\ UNCHANGED <<coreVars, queue, nelem, arbVars, target, frameVars, unborn>>

------------------------------------------------------------------------------
\* Mutants: no frame is saved; nelem is not decremented; curProc is not set;
\* the timer is re-armed only after a switch.
SaveNothing(c) ==
    /\ Goto(c, "save", "deqTest")
    /\ UNCHANGED <<coreVars, queueVars, arbVars, callVars, frameVars, unborn>>

RemoveUncounted(c) ==
    /\ Goto(c, "remove", "deqUnlock")
    /\ queue[c] # <<>>
    /\ next' = [next EXCEPT ![c] = Head(queue[c])]
    /\ queue' = [queue EXCEPT ![c] = Tail(@)]
    /\ UNCHANGED <<nelem, curProc, live, cr3, armed, qlock, arbVars, callVars, frameVars, unborn>>

LoadForgetsCurProc(c) ==
    /\ Goto(c, "load", "done")
    /\ live' = [live EXCEPT ![c] = [proc |-> next[c], at |-> tf[next[c]]]]
    /\ cr3' = [cr3 EXCEPT ![c] = next[c]]
    /\ next' = [next EXCEPT ![c] = NULL]
    /\ UNCHANGED <<curProc, armed, queueVars, arbVars, callVars, frameVars, unborn>>

DoneArmsAfterSwitch(c) ==
    /\ Goto(c, "done", Outside(c))
    /\ armed' = [armed EXCEPT ![c] = curProc[c] # NULL]
    /\ UNCHANGED <<curProc, live, cr3, next, queueVars, arbVars, callVars, frameVars, unborn>>

(***************************************************************************)
(* The rest of halSchedSwitch, with keDequeueProc on the core's own queue. *)
(***************************************************************************)
Save(c) ==
    /\ Goto(c, "save", "deqTest")
    /\ tf' = [tf EXCEPT ![curProc[c]] = live[c].at]
    /\ UNCHANGED <<coreVars, queueVars, arbVars, callVars, reached, unborn>>

\* Lines 64-71 of ke/sched.c: both tests read without the lock.
DequeueTest(c) ==
    /\ \E isNull \in ProcessIsNull :
           Goto(c, "deqTest", IF isNull \/ nelem[c] = 0 THEN "done" ELSE "deqLock")
    /\ UNCHANGED <<coreVars, queueVars, arbVars, callVars, frameVars, unborn>>

DequeueAcquire(c) ==
    /\ Goto(c, "deqLock", "remove")
    /\ ~qlock[c]
    /\ qlock' = [qlock EXCEPT ![c] = TRUE]
    /\ UNCHANGED <<coreVars, queue, nelem, arbVars, callVars, frameVars, unborn>>

Remove(c) ==
    /\ Goto(c, "remove", "deqUnlock")
    /\ IF queue[c] = <<>>
         THEN UNCHANGED <<queue, nelem, next>>
         ELSE /\ next' = [next EXCEPT ![c] = Head(queue[c])]
              /\ queue' = [queue EXCEPT ![c] = Tail(@)]
              /\ nelem' = [nelem EXCEPT ![c] = @ - 1]
    /\ UNCHANGED <<curProc, live, cr3, armed, qlock, arbVars, callVars, frameVars, unborn>>

DequeueRelease(c) ==
    /\ Goto(c, "deqUnlock", IF next[c] = NULL THEN "done" ELSE "load")
    /\ qlock' = [qlock EXCEPT ![c] = FALSE]
    /\ UNCHANGED <<coreVars, queue, nelem, arbVars, callVars, frameVars, unborn>>

\* The next frame, curProc and the address space.
Load(c) ==
    /\ Goto(c, "load", "done")
    /\ live' = [live EXCEPT ![c] = [proc |-> next[c], at |-> tf[next[c]]]]
    /\ curProc' = [curProc EXCEPT ![c] = next[c]]
    /\ cr3' = [cr3 EXCEPT ![c] = next[c]]
    /\ next' = [next EXCEPT ![c] = NULL]
    /\ UNCHANGED <<armed, queueVars, arbVars, callVars, frameVars, unborn>>

\* `done': end of interrupt, the next one-shot, and iretq.
Done(c) ==
    /\ Goto(c, "done", Outside(c))
    /\ armed' = [armed EXCEPT ![c] = TRUE]
    /\ UNCHANGED <<curProc, live, cr3, next, queueVars, arbVars, callVars, frameVars, unborn>>

Kernel(c) ==
    \/ ArbAcquire(c) \/ ArbPick(c) \/ ArbAdvance(c)
    \/ QueueAcquire(c) \/ Link(c) \/ Count(c) \/ QueueRelease(c)
    \/ Save(c) \/ DequeueTest(c) \/ DequeueAcquire(c) \/ Remove(c)
    \/ DequeueRelease(c) \/ Load(c) \/ Done(c)

Next == \E c \in Cores : UserStep(c) \/ Spawn(c) \/ Tick(c) \/ Kernel(c)

(***************************************************************************)
(* A core executes its kernel code, and an armed one-shot fires.  The lock *)
(* is not fair, but other cores come for a core's queue only to add a new  *)
(* process, so weak fairness is enough to get it in the end.               *)
(***************************************************************************)
Fairness == \A c \in Cores : WF_vars(Kernel(c)) /\ WF_vars(Tick(c))

Spec == Init /\ [][Next]_vars /\ Fairness

------------------------------------------------------------------------------
TypeOK ==
    /\ pc \in [Cores -> {"user", "idle", "arbLock", "arbPick", "arbAdvance",
                         "qLock", "link", "count", "qUnlock", "save", "deqTest",
                         "deqLock", "remove", "deqUnlock", "load", "done"}]
    /\ queue \in [Cores -> Seq(AllProcs)]
    /\ nelem \in [Cores -> Nat]
    /\ qlock \in [Cores -> BOOLEAN]
    /\ semaphore \in Cores
    /\ arbLock \in BOOLEAN
    /\ curProc \in [Cores -> AllProcs \union {NULL}]
    /\ live \in [Cores -> [proc : AllProcs \union {NULL}, at : 0 .. (Steps - 1)]]
    /\ cr3 \in [Cores -> AllProcs \union {NULL}]
    /\ armed \in [Cores -> BOOLEAN]
    /\ tf \in [AllProcs -> 0 .. (Steps - 1)]
    /\ elem \in [Cores -> AllProcs \union {NULL}]
    /\ target \in [Cores -> Cores]
    /\ next \in [Cores -> AllProcs \union {NULL}]
    /\ unborn \subseteq Procs
    /\ reached \in [AllProcs -> 0 .. (Steps - 1)]
    /\ assigned \in [Cores -> Nat]

\* Core c is between acquiring and releasing the lock of queue q.
HoldsQueue(c, q) ==
    \/ pc[c] \in {"link", "count", "qUnlock"} /\ target[c] = q
    \/ pc[c] \in {"remove", "deqUnlock"} /\ c = q

(***************************************************************************)
(* A queue's lock is taken exactly when one core works on the queue.       *)
(***************************************************************************)
QueueLockExcludes ==
    \A q \in Cores :
        /\ qlock[q] = (\E c \in Cores : HoldsQueue(c, q))
        /\ \A c, d \in Cores : HoldsQueue(c, q) /\ HoldsQueue(d, q) => c = d

(***************************************************************************)
(* nelem, which keDequeueProc trusts without the lock, is the length of    *)
(* the queue unless an insertion is half done, when it is one less; it     *)
(* never promises a process that is not there.                             *)
(***************************************************************************)
NelemCountsQueue ==
    \A q \in Cores :
        Len(queue[q]) = nelem[q] +
            IF \E c \in Cores : pc[c] = "count" /\ target[c] = q THEN 1 ELSE 0

\* The tick of core c has queued its process, which the core still has live.
GivenUp(c) ==
    \/ pc[c] \in {"count", "qUnlock"} /\ elem[c] = curProc[c]
    \/ pc[c] \in {"save", "deqTest", "deqLock", "remove", "deqUnlock", "load"}

\* Core c has a process in hand: created or dequeued, not yet queued or run.
InHand(c) ==
    (IF pc[c] \in {"arbLock", "arbPick", "arbAdvance", "qLock", "link"} /\ elem[c] # curProc[c]
       THEN {elem[c]} ELSE {})
    \union ({next[c]} \ {NULL})

\* The places process p is in.
Homes(p) ==
    {<<"core", c, 0>> : c \in {d \in Cores : live[d].proc = p /\ ~GivenUp(d)}}
    \union {<<"hand", c, 0>> : c \in {d \in Cores : p \in InHand(d)}}
    \union UNION {{<<"queue", c, k>> : k \in {j \in DOMAIN queue[c] : queue[c][j] = p}}
                     : c \in Cores}

(***************************************************************************)
(* A process is in one place: running on one core, in one slot of one      *)
(* queue, or in the hands of one core that moves it.  It is never lost,    *)
(* queued twice, run twice, or queued while it runs.                       *)
(***************************************************************************)
OneHome ==
    \A p \in AllProcs : IF p \in unborn THEN Homes(p) = {}
                        ELSE \E h \in Homes(p) : Homes(p) = {h}

(***************************************************************************)
(* A core outside the kernel runs a process exactly from where that        *)
(* process stopped, in its own address space, although the tick queues the *)
(* process before it saves its trap frame.                                 *)
(***************************************************************************)
ResumesWhereStopped ==
    \A c \in Cores :
        pc[c] = "user" =>
            /\ live[c].at = reached[live[c].proc]
            /\ cr3[c] = live[c].proc
            /\ c # Bsp => curProc[c] = live[c].proc

(***************************************************************************)
(* The arbiter spreads processes evenly: two cores never differ by more    *)
(* than one, however many cores call keParbCycle at the same time.         *)
(***************************************************************************)
ArbiterBalanced ==
    \A c, d \in Cores : assigned[c] - assigned[d] <= 1

(***************************************************************************)
(* Each process on a core whose timer is armed gets to run, again and      *)
(* again.  The bootstrap core has no timer: it is left out.                *)
(***************************************************************************)
QueuedRuns ==
    \A c \in Cores \ {Bsp} : \A p \in AllProcs :
        (\E k \in DOMAIN queue[c] : queue[c][k] = p)
            ~> (pc[c] = "user" /\ live[c].proc = p)

(***************************************************************************)
(* What ke/sched.h says of keDequeueProc: given a queue that has counted a *)
(* process, it dequeues one.                                               *)
(***************************************************************************)
DequeueDelivers ==
    [][\A c \in Cores : pc[c] = "deqTest" /\ nelem[c] > 0 => pc'[c] # "done"]_vars
==============================================================================
