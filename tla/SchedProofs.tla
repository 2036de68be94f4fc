----------------------------- MODULE SchedProofs -----------------------------
(***************************************************************************)
(* Safety of the scheduler for every number of cores and processes.  The   *)
(* queues' locks exclude, nelem counts the queue, and the arbiter is fair, *)
(* for both outcomes of the uninitialized test in keDequeueProc; that a    *)
(* process is in one place and resumes where it stopped needs the outcome  *)
(* its author meant.                                                       *)
(***************************************************************************)
EXTENDS Sched, TLAPS

USE CoresAssumption, ProcsAssumption, StepsAssumption DEF Bsp, Cores, AllProcs

InSchedule == {"arbLock", "arbPick", "arbAdvance", "qLock", "link", "count", "qUnlock"}

\* What a core's place in the code says of its local variables.
Locals(c) ==
    /\ curProc[c] # NULL => live[c].proc # NULL
    /\ pc[c] = "user" => live[c].proc # NULL
    /\ pc[c] \in InSchedule => elem[c] # NULL /\ live[c].proc # NULL
    /\ pc[c] = "save" => curProc[c] # NULL
    /\ pc[c] = "load" => next[c] # NULL

\* The lock's flag and the counter of one queue, given who works on it.
LockedByOne(q) ==
    /\ qlock[q] = (\E c \in Cores : HoldsQueue(c, q))
    /\ \A c, d \in Cores : HoldsQueue(c, q) /\ HoldsQueue(d, q) => c = d

Counting(c, q) == pc[c] = "count" /\ target[c] = q

CountedExactly(q) ==
    /\ (\E c \in Cores : Counting(c, q)) => Len(queue[q]) = nelem[q] + 1
    /\ (\A c \in Cores : ~Counting(c, q)) => Len(queue[q]) = nelem[q]

IInv ==
    /\ TypeOK
    /\ \A c \in Cores : Locals(c)
    /\ \A q \in Cores : LockedByOne(q)
    /\ \A q \in Cores : CountedExactly(q)

\* The boot code establishes the invariant.
LEMMA IInvInit == Init => IInv
  <1> SUFFICES ASSUME Init PROVE IInv
    OBVIOUS
  <1>1. TypeOK
    <2>1. Bsp \in Cores /\ 0 \in 0 .. (Steps - 1)
      OBVIOUS
    <2>2. <<>> \in Seq(AllProcs)
      OBVIOUS
    <2>3. live \in [Cores -> [proc : AllProcs \union {NULL}, at : 0 .. (Steps - 1)]]
      BY <2>1 DEF Init, QueuesEmpty, ArbiterReset, CoresStarted
    <2> QED BY <2>1, <2>2, <2>3 DEF Init, QueuesEmpty, ArbiterReset, CoresStarted, TypeOK
  <1>2. \A c \in Cores : Locals(c)
    BY DEF Init, QueuesEmpty, ArbiterReset, CoresStarted, Locals, InSchedule
  <1>3. \A c, q \in Cores : ~HoldsQueue(c, q) /\ ~Counting(c, q)
    BY DEF Init, QueuesEmpty, ArbiterReset, CoresStarted, HoldsQueue, Counting
  <1>4. \A q \in Cores : LockedByOne(q) /\ CountedExactly(q)
    BY <1>3 DEF Init, QueuesEmpty, ArbiterReset, CoresStarted, LockedByOne, CountedExactly
  <1> QED BY <1>1, <1>2, <1>4 DEF IInv

(***************************************************************************)
(* Steps that touch no queue, no lock of a queue and no place of the code  *)
(* where one is held.                                                      *)
(***************************************************************************)
LEMMA QueuesUntouched ==
    ASSUME IInv, UNCHANGED queueVars,
           \A c, q \in Cores : /\ HoldsQueue(c, q)' = HoldsQueue(c, q)
                               /\ Counting(c, q)' = Counting(c, q)
    PROVE  \A q \in Cores : LockedByOne(q)' /\ CountedExactly(q)'
  BY DEF IInv, queueVars, LockedByOne, CountedExactly

ElsewhereStep(c) ==
    \/ UserStep(c) \/ Spawn(c) \/ Tick(c) \/ ArbAcquire(c) \/ ArbPick(c)
    \/ ArbAdvance(c) \/ Save(c) \/ DequeueTest(c) \/ Load(c) \/ Done(c)

\* Steps outside the queues' critical sections.
LEMMA ElsewhereStepKeepsQueues ==
    ASSUME IInv, NEW c \in Cores, ElsewhereStep(c)
    PROVE  \A q \in Cores : LockedByOne(q)' /\ CountedExactly(q)'
  <1> USE DEF IInv, TypeOK, Goto, Outside, HoldsQueue, Counting
  <1>1. UNCHANGED queueVars
    BY DEF ElsewhereStep, UserStep, Spawn, Tick, ArbAcquire, ArbPick, ArbAdvance,
           Save, DequeueTest, Load, Done
  <1> DEFINE Same == \A d, q \in Cores : /\ HoldsQueue(d, q)' = HoldsQueue(d, q)
                                         /\ Counting(d, q)' = Counting(d, q)
  <1>2. ASSUME UserStep(c) PROVE Same
    BY <1>2 DEF UserStep, callVars
  <1>3. ASSUME Spawn(c) PROVE Same
    BY <1>3 DEF Spawn
  <1>4. ASSUME Tick(c) PROVE Same
    BY <1>4 DEF Tick
  <1>5. ASSUME ArbAcquire(c) \/ ArbPick(c) \/ ArbAdvance(c) PROVE Same
    BY <1>5, ZenonT(60) DEF ArbAcquire, ArbPick, ArbAdvance, callVars
  <1>6. ASSUME Save(c) \/ DequeueTest(c) PROVE Same
    BY <1>6, ZenonT(60) DEF Save, DequeueTest, callVars
  <1>7. ASSUME Load(c) \/ Done(c) PROVE Same
    BY <1>7, ZenonT(60) DEF Load, Done, callVars
  <1>8. Same
    BY <1>2, <1>3, <1>4, <1>5, <1>6, <1>7 DEF ElsewhereStep
  <1> HIDE DEF Same
  <1> QED BY ONLY IInv, <1>1, <1>8, QueuesUntouched DEF Same

------------------------------------------------------------------------------
(***************************************************************************)
(* Steps that work on a queue.                                             *)
(***************************************************************************)

\* While core c works on queue q, no other core does, and c alone may leave
\* the counter behind.
LEMMA OthersElsewhere ==
    ASSUME IInv, NEW c \in Cores, NEW q \in Cores, HoldsQueue(c, q)
    PROVE  /\ qlock[q]
           /\ \A d \in Cores : d # c => ~HoldsQueue(d, q) /\ ~Counting(d, q)
  BY ZenonT(60) DEF IInv, LockedByOne, HoldsQueue, Counting

\* A core works on one queue at a time.
LEMMA OneQueueAtATime ==
    ASSUME NEW c \in Cores, NEW p \in Cores, NEW q \in Cores,
           HoldsQueue(c, p), HoldsQueue(c, q)
    PROVE  p = q
  BY DEF HoldsQueue

\* keAcquireSpinLock of an open queue lock, by either path.
LEMMA LockTaken ==
    ASSUME IInv, NEW c \in Cores, NEW q \in Cores,
           ~qlock[q], qlock' = [qlock EXCEPT ![q] = TRUE],
           UNCHANGED <<queue, nelem>>,
           \A d, r \in Cores : HoldsQueue(d, r)' <=>
               HoldsQueue(d, r) \/ (d = c /\ r = q),
           \A d, r \in Cores : Counting(d, r)' <=> Counting(d, r)
    PROVE  \A r \in Cores : LockedByOne(r)' /\ CountedExactly(r)'
  <1> TAKE r \in Cores
  <1>1. \A d \in Cores : ~HoldsQueue(d, q)
    BY DEF IInv, LockedByOne
  <1>2. LockedByOne(r)'
    <2>1. CASE r = q
      <3>1. qlock'[r] = TRUE
        BY <2>1 DEF IInv, TypeOK
      <3>2. \A d \in Cores : HoldsQueue(d, r)' <=> d = c
        BY <1>1, <2>1
      <3> QED BY <3>1, <3>2 DEF LockedByOne
    <2>2. CASE r # q
      BY <2>2, ZenonT(60) DEF IInv, TypeOK, LockedByOne
    <2> QED BY <2>1, <2>2
  <1>3. CountedExactly(r)'
    BY DEF IInv, CountedExactly
  <1> QED BY <1>2, <1>3

\* keReleaseSpinLock by the core that works on the queue.
LEMMA LockReleased ==
    ASSUME IInv, NEW c \in Cores, NEW q \in Cores,
           HoldsQueue(c, q), qlock' = [qlock EXCEPT ![q] = FALSE],
           UNCHANGED <<queue, nelem>>,
           \A d, r \in Cores : HoldsQueue(d, r)' <=> HoldsQueue(d, r) /\ d # c,
           \A d, r \in Cores : Counting(d, r)' <=> Counting(d, r)
    PROVE  \A r \in Cores : LockedByOne(r)' /\ CountedExactly(r)'
  <1> TAKE r \in Cores
  <1>1. LockedByOne(r)'
    <2>1. CASE r = q
      <3>1. qlock'[r] = FALSE
        BY <2>1 DEF IInv, TypeOK
      <3>2. \A d \in Cores : ~HoldsQueue(d, r)'
        BY <2>1, OthersElsewhere
      <3> QED BY <3>1, <3>2 DEF LockedByOne
    <2>2. CASE r # q
      <3>1. qlock'[r] = qlock[r]
        BY <2>2 DEF IInv, TypeOK
      <3>2. \A d \in Cores : HoldsQueue(d, r)' <=> HoldsQueue(d, r)
        BY <2>2, OneQueueAtATime
      <3> QED BY <3>1, <3>2 DEF IInv, LockedByOne
    <2> QED BY <2>1, <2>2
  <1>2. CountedExactly(r)'
    BY DEF IInv, CountedExactly
  <1> QED BY <1>1, <1>2

\* Inside the lock: the other queues keep their length and their counter.
LEMMA LockKept ==
    ASSUME IInv, NEW c \in Cores, NEW q \in Cores, HoldsQueue(c, q),
           UNCHANGED qlock,
           \A d, r \in Cores : HoldsQueue(d, r)' <=> HoldsQueue(d, r),
           \A d, r \in Cores : d # c => (Counting(d, r)' <=> Counting(d, r)),
           \A r \in Cores : r # q => /\ queue'[r] = queue[r] /\ nelem'[r] = nelem[r]
                                     /\ ~Counting(c, r) /\ ~Counting(c, r)',
           Counting(c, q)' => Len(queue'[q]) = nelem'[q] + 1,
           ~Counting(c, q)' => Len(queue'[q]) = nelem'[q]
    PROVE  \A r \in Cores : LockedByOne(r)' /\ CountedExactly(r)'
  <1> TAKE r \in Cores
  <1>1. LockedByOne(r)'
    BY DEF IInv, LockedByOne
  <1>2. CASE r = q
    <2>1. \A d \in Cores : d # c => ~Counting(d, q)'
      BY OthersElsewhere
    <2> QED BY <1>1, <1>2, <2>1 DEF CountedExactly
  <1>3. CASE r # q
    <2>1. \A d \in Cores : Counting(d, r)' <=> Counting(d, r)
      BY <1>3
    <2> QED BY <1>1, <1>3, <2>1 DEF IInv, CountedExactly
  <1> QED BY <1>2, <1>3

QueueStep(c) ==
    \/ QueueAcquire(c) \/ Link(c) \/ Count(c) \/ QueueRelease(c)
    \/ DequeueAcquire(c) \/ Remove(c) \/ DequeueRelease(c)

\* The steps of keScheduleProc and keDequeueProc on a queue.
LEMMA QueueStepKeepsQueues ==
    ASSUME IInv, NEW c \in Cores, QueueStep(c)
    PROVE  \A r \in Cores : LockedByOne(r)' /\ CountedExactly(r)'
  <1> USE DEF Goto
  <1> PICK q \in Cores : q = target[c]
    BY DEF IInv, TypeOK
  <1>0. \A r \in Cores : CountedExactly(r) /\ queue[r] \in Seq(AllProcs)
                         /\ nelem[r] \in Nat
    BY DEF IInv, TypeOK
  <1>1. CASE QueueAcquire(c)
    <2>1. \A d, r \in Cores : HoldsQueue(d, r)' <=> HoldsQueue(d, r) \/ (d = c /\ r = q)
      BY <1>1 DEF QueueAcquire, IInv, TypeOK, HoldsQueue, callVars
    <2>2. \A d, r \in Cores : Counting(d, r)' <=> Counting(d, r)
      BY <1>1 DEF QueueAcquire, IInv, TypeOK, Counting, callVars
    <2>3. ~qlock[q] /\ qlock' = [qlock EXCEPT ![q] = TRUE] /\ UNCHANGED <<queue, nelem>>
      BY <1>1 DEF QueueAcquire
    <2> QED BY ONLY IInv, c \in Cores, q \in Cores, <2>1, <2>2, <2>3, LockTaken
  <1>2. CASE DequeueAcquire(c)
    <2>1. \A d, r \in Cores : HoldsQueue(d, r)' <=> HoldsQueue(d, r) \/ (d = c /\ r = c)
      BY <1>2 DEF DequeueAcquire, IInv, TypeOK, HoldsQueue, callVars
    <2>2. \A d, r \in Cores : Counting(d, r)' <=> Counting(d, r)
      BY <1>2 DEF DequeueAcquire, IInv, TypeOK, Counting, callVars
    <2>3. ~qlock[c] /\ qlock' = [qlock EXCEPT ![c] = TRUE] /\ UNCHANGED <<queue, nelem>>
      BY <1>2 DEF DequeueAcquire
    <2> QED BY ONLY IInv, c \in Cores, q \in Cores, <2>1, <2>2, <2>3, LockTaken
  <1>3. CASE QueueRelease(c)
    <2>1. \A d, r \in Cores :
            /\ HoldsQueue(d, r)' <=> HoldsQueue(d, r) /\ d # c
            /\ Counting(d, r)' <=> Counting(d, r)
      BY <1>3 DEF QueueRelease, IInv, TypeOK, HoldsQueue, Counting
    <2>2. HoldsQueue(c, q)
      BY <1>3 DEF QueueRelease, HoldsQueue
    <2> QED BY <1>0, <1>3, <2>1, <2>2, LockReleased DEF QueueRelease
  <1>4. CASE DequeueRelease(c)
    <2>1. \A d, r \in Cores :
            /\ HoldsQueue(d, r)' <=> HoldsQueue(d, r) /\ d # c
            /\ Counting(d, r)' <=> Counting(d, r)
      BY <1>4 DEF DequeueRelease, IInv, TypeOK, HoldsQueue, Counting, callVars
    <2>2. HoldsQueue(c, c)
      BY <1>4 DEF DequeueRelease, HoldsQueue
    <2> QED BY <1>4, <2>1, <2>2, LockReleased DEF DequeueRelease
  <1>5. CASE Link(c)
    <2>1. /\ HoldsQueue(c, q) /\ ~Counting(c, q) /\ Counting(c, q)'
          /\ \A d, r \in Cores : HoldsQueue(d, r)' <=> HoldsQueue(d, r)
          /\ \A d, r \in Cores : d # c => (Counting(d, r)' <=> Counting(d, r))
          /\ \A r \in Cores : r # q => ~Counting(c, r) /\ ~Counting(c, r)'
      BY <1>5 DEF Link, IInv, TypeOK, HoldsQueue, Counting, callVars
    <2>2. Len(queue[q]) = nelem[q]
      BY <1>0, <2>1, OthersElsewhere, ZenonT(60) DEF CountedExactly
    <2>3. /\ \A r \in Cores : r # q => queue'[r] = queue[r] /\ nelem'[r] = nelem[r]
          /\ queue'[q] = Append(queue[q], elem[c]) /\ nelem'[q] = nelem[q]
      BY <1>0, <1>5 DEF Link, IInv, TypeOK
    <2>4. elem[c] \in AllProcs
      BY <1>5 DEF Link, IInv, TypeOK, Locals, InSchedule
    <2>5. Len(queue'[q]) = nelem'[q] + 1
      BY <1>0, <2>2, <2>3, <2>4
    <2> QED BY <1>0, <1>5, <2>1, <2>3, <2>5, LockKept DEF Link
  <1>6. CASE Count(c)
    <2>1. /\ HoldsQueue(c, q) /\ Counting(c, q) /\ ~Counting(c, q)'
          /\ \A d, r \in Cores : HoldsQueue(d, r)' <=> HoldsQueue(d, r)
          /\ \A d, r \in Cores : d # c => (Counting(d, r)' <=> Counting(d, r))
          /\ \A r \in Cores : r # q => ~Counting(c, r) /\ ~Counting(c, r)'
      BY <1>6 DEF Count, IInv, TypeOK, HoldsQueue, Counting, callVars
    <2>2. Len(queue[q]) = nelem[q] + 1
      BY <1>0, <2>1 DEF CountedExactly
    <2>3. /\ \A r \in Cores : r # q => queue'[r] = queue[r] /\ nelem'[r] = nelem[r]
          /\ queue'[q] = queue[q] /\ nelem'[q] = nelem[q] + 1
      BY <1>0, <1>6 DEF Count, IInv, TypeOK
    <2>4. Len(queue'[q]) = nelem'[q]
      BY <1>0, <2>2, <2>3
    <2> QED BY <1>0, <1>6, <2>1, <2>3, <2>4, LockKept DEF Count
  <1>7. CASE Remove(c)
    <2>1. /\ HoldsQueue(c, c) /\ \A r \in Cores : ~Counting(c, r) /\ ~Counting(c, r)'
          /\ \A d, r \in Cores : HoldsQueue(d, r)' <=> HoldsQueue(d, r)
          /\ \A d, r \in Cores : d # c => (Counting(d, r)' <=> Counting(d, r))
      BY <1>7 DEF Remove, IInv, TypeOK, HoldsQueue, Counting, callVars
    <2>2. Len(queue[c]) = nelem[c]
      BY <1>0, <2>1, OthersElsewhere DEF CountedExactly
    <2>3. \A r \in Cores : r # c => queue'[r] = queue[r] /\ nelem'[r] = nelem[r]
      BY <1>7 DEF Remove, IInv, TypeOK
    <2>4. Len(queue'[c]) = nelem'[c]
      <3>1. CASE queue[c] = <<>>
        BY <1>0, <1>7, <2>2, <3>1 DEF Remove
      <3>2. CASE queue[c] # <<>>
        <4>1. queue'[c] = Tail(queue[c]) /\ nelem'[c] = nelem[c] - 1
          BY <1>7, <3>2 DEF Remove, IInv, TypeOK
        <4> QED BY <1>0, <2>2, <3>2, <4>1
      <3> QED BY <3>1, <3>2
    <2> QED BY <1>7, <2>1, <2>3, <2>4, LockKept DEF Remove
  <1> QED BY <1>1, <1>2, <1>3, <1>4, <1>5, <1>6, <1>7 DEF QueueStep
------------------------------------------------------------------------------
(***************************************************************************)
(* Types and local variables.                                              *)
(***************************************************************************)
LEMMA LocalsStep ==
    ASSUME IInv, NEW c \in Cores, ElsewhereStep(c) \/ QueueStep(c)
    PROVE  \A d \in Cores : Locals(d)'
  <1> USE DEF IInv, TypeOK, Goto, Outside, InSchedule, Locals
  <1>1. CASE UserStep(c)
    <2>1. \A d \in Cores : live'[d].proc = live[d].proc
      BY <1>1 DEF UserStep
    <2> QED BY <1>1, <2>1 DEF UserStep, callVars
  <1>2. CASE Spawn(c)
    BY <1>2, ZenonT(60) DEF Spawn, coreVars
  <1>3. CASE Tick(c)
    BY <1>3 DEF Tick
  <1>4. CASE ArbAcquire(c)
    BY <1>4 DEF ArbAcquire, callVars, coreVars
  <1>5. CASE ArbPick(c)
    BY <1>5 DEF ArbPick, coreVars
  <1>6. CASE ArbAdvance(c)
    BY <1>6 DEF ArbAdvance, callVars, coreVars
  <1>7. CASE QueueAcquire(c)
    BY <1>7 DEF QueueAcquire, callVars, coreVars
  <1>8. CASE Link(c)
    BY <1>8 DEF Link, callVars, coreVars
  <1>9. CASE Count(c)
    BY <1>9 DEF Count, callVars, coreVars
  <1>10. CASE QueueRelease(c)
    BY <1>10 DEF QueueRelease, coreVars
  <1>11. CASE Save(c)
    BY <1>11 DEF Save, callVars, coreVars
  <1>12. CASE DequeueTest(c)
    BY <1>12, ZenonT(60) DEF DequeueTest, callVars, coreVars
  <1>13. CASE DequeueAcquire(c)
    BY <1>13 DEF DequeueAcquire, callVars, coreVars
  <1>14. CASE Remove(c)
    BY <1>14, ZenonT(60) DEF Remove, callVars
  <1>15. CASE DequeueRelease(c)
    BY <1>15 DEF DequeueRelease, callVars, coreVars
  <1>16. CASE Load(c)
    BY <1>16 DEF Load, callVars
  <1>17. CASE Done(c)
    BY <1>17 DEF Done, callVars
  <1> QED BY <1>1, <1>2, <1>3, <1>4, <1>5, <1>6, <1>7, <1>8, <1>9,
             <1>10, <1>11, <1>12, <1>13, <1>14, <1>15, <1>16, <1>17
          DEF ElsewhereStep, QueueStep

\* A function stays in its function set when it is given one new value there.
LEMMA UpdateType ==
    ASSUME NEW S, NEW T, NEW f \in [S -> T], NEW x, NEW y \in T
    PROVE  [f EXCEPT ![x] = y] \in [S -> T]
  OBVIOUS

\* Every step keeps the types; nelem stays positive before Remove.
LEMMA TypeStep ==
    ASSUME IInv, NEW c \in Cores, ElsewhereStep(c) \/ QueueStep(c)
    PROVE  TypeOK'
  <1> USE DEF IInv, TypeOK, Goto, Outside
  <1>1. CASE UserStep(c)
    <2> DEFINE at == (live[c].at + 1) % Steps
    <2>1. at \in 0 .. (Steps - 1)
      <3>1. live[c].at \in Nat
        OBVIOUS
      <3> QED BY ONLY <3>1, StepsAssumption
    <2>2. live[c].proc \in AllProcs
      BY <1>1 DEF UserStep, Locals
    <2>3. live' = [live EXCEPT ![c] = [live[c] EXCEPT !.at = at]]
          /\ reached' = [reached EXCEPT ![live[c].proc] = at]
      BY <1>1 DEF UserStep
    <2> HIDE DEF at
    <2>4. [live[c] EXCEPT !.at = at] \in [proc : AllProcs \union {NULL}, at : 0 .. (Steps - 1)]
      <3>1. live[c] \in [proc : AllProcs \union {NULL}, at : 0 .. (Steps - 1)]
        OBVIOUS
      <3> QED BY ONLY <2>1, <3>1
    <2>5. live' \in [Cores -> [proc : AllProcs \union {NULL}, at : 0 .. (Steps - 1)]]
      BY <2>3, <2>4
    <2>6. reached' \in [AllProcs -> 0 .. (Steps - 1)]
      BY <2>1, <2>2, <2>3
    <2> QED BY <1>1, <2>5, <2>6 DEF UserStep, queueVars, arbVars, callVars
  <1>2. CASE Spawn(c)
    <2>1. elem' \in [Cores -> AllProcs \union {NULL}] /\ unborn' \subseteq Procs
      BY <1>2, ZenonT(60) DEF Spawn
    <2> QED BY <1>2, <2>1 DEF Spawn, coreVars, queueVars, arbVars, frameVars
  <1>3. CASE Tick(c)
    BY <1>3 DEF Tick, queueVars, arbVars, frameVars
  <1>4. CASE ArbAcquire(c)
    BY <1>4 DEF ArbAcquire, coreVars, queueVars, arbVars, callVars, frameVars
  <1>5. CASE ArbPick(c)
    <2>1. target' \in [Cores -> Cores]
      BY <1>5, UpdateType DEF ArbPick
    <2>2. assigned' \in [Cores -> Nat]
      <3>0. assigned \in [Cores -> Nat] /\ semaphore \in Cores
        OBVIOUS
      <3>1. assigned[semaphore] + 1 \in Nat
        BY ONLY <3>0
      <3>2. assigned' = [assigned EXCEPT ![semaphore] = assigned[semaphore] + 1]
        BY <1>5 DEF ArbPick
      <3> QED BY ONLY <3>0, <3>1, <3>2, UpdateType
    <2> QED BY <1>5, <2>1, <2>2 DEF ArbPick, coreVars, queueVars, frameVars
  <1>6. CASE ArbAdvance(c)
    <2>1. semaphore' \in Cores /\ arbLock' \in BOOLEAN
      <3>1. semaphore \in 0 .. (NCores - 1)
        OBVIOUS
      <3>2. semaphore' = IF semaphore + 1 >= NCores THEN 0 ELSE semaphore + 1
        BY <1>6 DEF ArbAdvance
      <3>3. semaphore' \in Cores
        BY ONLY <3>1, <3>2, CoresAssumption DEF Cores
      <3> QED BY <1>6, <3>3 DEF ArbAdvance
    <2> QED BY <1>6, <2>1 DEF ArbAdvance, coreVars, queueVars, callVars, frameVars
  <1>7. CASE QueueAcquire(c)
    BY <1>7 DEF QueueAcquire, coreVars, queueVars, arbVars, callVars, frameVars
  <1>8. CASE Link(c)
    <2>1. elem[c] \in AllProcs
      BY <1>8 DEF Link, Locals, InSchedule
    <2>2. queue' \in [Cores -> Seq(AllProcs)]
      <3>0. queue \in [Cores -> Seq(AllProcs)] /\ target[c] \in Cores
        OBVIOUS
      <3>1. Append(queue[target[c]], elem[c]) \in Seq(AllProcs)
        BY ONLY <2>1, <3>0
      <3>2. queue' = [queue EXCEPT ![target[c]] = Append(queue[target[c]], elem[c])]
        BY <1>8 DEF Link
      <3> QED BY ONLY <3>0, <3>1, <3>2, UpdateType
    <2> QED BY <1>8, <2>2 DEF Link, coreVars, arbVars, callVars, frameVars
  <1>9. CASE Count(c)
    <2>1. nelem' \in [Cores -> Nat]
      <3>0. nelem \in [Cores -> Nat] /\ target[c] \in Cores
        OBVIOUS
      <3>1. nelem[target[c]] + 1 \in Nat
        BY ONLY <3>0
      <3>2. nelem' = [nelem EXCEPT ![target[c]] = nelem[target[c]] + 1]
        BY <1>9 DEF Count
      <3> QED BY ONLY <3>0, <3>1, <3>2, UpdateType
    <2> QED BY <1>9, <2>1 DEF Count, coreVars, arbVars, callVars, frameVars
  <1>10. CASE QueueRelease(c)
    BY <1>10 DEF QueueRelease, coreVars, queueVars, arbVars, callVars, frameVars
  <1>11. CASE Save(c)
    BY <1>11 DEF Save, coreVars, queueVars, arbVars, callVars, frameVars
  <1>12. CASE DequeueTest(c)
    BY <1>12 DEF DequeueTest, coreVars, queueVars, arbVars, callVars, frameVars
  <1>13. CASE DequeueAcquire(c)
    BY <1>13 DEF DequeueAcquire, coreVars, queueVars, arbVars, callVars, frameVars
  <1>14. CASE Remove(c)
    <2>1. CASE queue[c] = <<>>
      BY <1>14, <2>1 DEF Remove, arbVars, callVars, frameVars
    <2>2. CASE queue[c] # <<>>
      <3>1. Len(queue[c]) = nelem[c]
        <4>1. HoldsQueue(c, c) /\ ~Counting(c, c)
          BY <1>14 DEF Remove, HoldsQueue, Counting
        <4>2. \A d \in Cores : ~Counting(d, c)
          BY <4>1, OthersElsewhere
        <4> QED BY <4>2 DEF CountedExactly
      <3>2. queue[c] \in Seq(AllProcs) /\ nelem[c] \in Nat
        OBVIOUS
      <3>3. /\ Head(queue[c]) \in AllProcs
            /\ Tail(queue[c]) \in Seq(AllProcs)
            /\ nelem[c] - 1 \in Nat
        BY ONLY <2>2, <3>1, <3>2
      <3>4. /\ queue' \in [Cores -> Seq(AllProcs)]
            /\ nelem' \in [Cores -> Nat]
            /\ next' \in [Cores -> AllProcs \union {NULL}]
        <4>1. /\ queue' = [queue EXCEPT ![c] = Tail(queue[c])]
              /\ nelem' = [nelem EXCEPT ![c] = nelem[c] - 1]
              /\ next' = [next EXCEPT ![c] = Head(queue[c])]
          BY <1>14, <2>2 DEF Remove
        <4>2. /\ queue \in [Cores -> Seq(AllProcs)]
              /\ nelem \in [Cores -> Nat]
              /\ next \in [Cores -> AllProcs \union {NULL}]
          OBVIOUS
        <4> QED BY ONLY <3>3, <4>1, <4>2, UpdateType
      <3> QED BY <1>14, <3>4 DEF Remove, arbVars, callVars, frameVars
    <2> QED BY <2>1, <2>2
  <1>15. CASE DequeueRelease(c)
    BY <1>15 DEF DequeueRelease, coreVars, queueVars, arbVars, callVars, frameVars
  <1>16. CASE Load(c)
    <2>1. next[c] \in AllProcs
      BY <1>16 DEF Load, Locals
    <2>2. [proc |-> next[c], at |-> tf[next[c]]]
              \in [proc : AllProcs \union {NULL}, at : 0 .. (Steps - 1)]
      <3>1. tf \in [AllProcs -> 0 .. (Steps - 1)]
        OBVIOUS
      <3> QED BY ONLY <2>1, <3>1
    <2>3. live' \in [Cores -> [proc : AllProcs \union {NULL}, at : 0 .. (Steps - 1)]]
      <3>1. live \in [Cores -> [proc : AllProcs \union {NULL}, at : 0 .. (Steps - 1)]]
        OBVIOUS
      <3>2. live' = [live EXCEPT ![c] = [proc |-> next[c], at |-> tf[next[c]]]]
        BY <1>16 DEF Load
      <3> QED BY ONLY <2>2, <3>1, <3>2, UpdateType
    <2> QED BY <1>16, <2>1, <2>3 DEF Load, queueVars, arbVars, callVars, frameVars
  <1>17. CASE Done(c)
    BY <1>17 DEF Done, coreVars, queueVars, arbVars, callVars, frameVars
  <1> QED BY <1>1, <1>2, <1>3, <1>4, <1>5, <1>6, <1>7, <1>8, <1>9,
             <1>10, <1>11, <1>12, <1>13, <1>14, <1>15, <1>16, <1>17
          DEF ElsewhereStep, QueueStep

\* Every step of every core keeps the invariant.
LEMMA IInvStep == IInv /\ [Next]_vars => IInv'
  <1> SUFFICES ASSUME IInv, [Next]_vars PROVE IInv'
    OBVIOUS
  <1>1. CASE UNCHANGED vars
    <2>1. TypeOK'
      BY <1>1 DEF IInv, TypeOK, vars, coreVars, queueVars, arbVars, callVars, frameVars
    <2>2. \A c \in Cores : Locals(c)'
      BY <1>1 DEF IInv, Locals, vars, coreVars, callVars
    <2>3. \A c, q \in Cores : /\ HoldsQueue(c, q)' = HoldsQueue(c, q)
                              /\ Counting(c, q)' = Counting(c, q)
      BY <1>1 DEF HoldsQueue, Counting, vars, callVars
    <2>4. UNCHANGED queueVars
      BY <1>1 DEF vars
    <2>5. \A q \in Cores : LockedByOne(q)' /\ CountedExactly(q)'
      BY ONLY IInv, <2>3, <2>4, QueuesUntouched
    <2> QED BY <2>1, <2>2, <2>5 DEF IInv
  <1>2. CASE Next
    <2>1. PICK c \in Cores : ElsewhereStep(c) \/ QueueStep(c)
      BY <1>2 DEF Next, Kernel, ElsewhereStep, QueueStep
    <2>2. TypeOK'
      BY <2>1, TypeStep
    <2>3. \A d \in Cores : Locals(d)'
      BY <2>1, LocalsStep
    <2>4. \A q \in Cores : LockedByOne(q)' /\ CountedExactly(q)'
      BY <2>1, ElsewhereStepKeepsQueues, QueueStepKeepsQueues
    <2> QED BY <2>2, <2>3, <2>4 DEF IInv
  <1> QED BY <1>1, <1>2

------------------------------------------------------------------------------
(***************************************************************************)
(* The scheduler's state, and each core's local variables in keScheduleProc *)
(* and halSchedSwitch, are what its place in the code says; the lock and    *)
(* the counter of every queue agree with who works on it.                   *)
(***************************************************************************)
THEOREM Invariant == Spec => []IInv
  BY IInvInit, IInvStep, PTL DEF Spec

(***************************************************************************)
(* The indices keParbCycle hands out are cores, a trap frame is one that   *)
(* was saved, and nelem never goes below zero in keDequeueProc.            *)
(***************************************************************************)
THEOREM TypeCorrect == Spec => []TypeOK
  <1>1. IInv => TypeOK
    BY DEF IInv
  <1> QED BY <1>1, Invariant, PTL

(***************************************************************************)
(* At most one core is between spinLockAcquire and spinLockRelease of a    *)
(* queue, in keScheduleProc or in keDequeueProc, and only while the flag   *)
(* is set.                                                                 *)
(***************************************************************************)
THEOREM QueueLocksExclude == Spec => []QueueLockExcludes
  <1>1. IInv => QueueLockExcludes
    BY DEF IInv, LockedByOne, QueueLockExcludes
  <1> QED BY <1>1, Invariant, PTL

(***************************************************************************)
(* The counter keDequeueProc reads without the lock never promises a       *)
(* process that is not in the queue, and misses one only between the link  *)
(* and the count of TAILQ_INSERT_TAIL.                                     *)
(***************************************************************************)
THEOREM NelemIsExact == Spec => []NelemCountsQueue
  <1>1. IInv => NelemCountsQueue
    <2> SUFFICES ASSUME IInv, NEW q \in Cores
                 PROVE  Len(queue[q]) = nelem[q] +
                            IF \E c \in Cores : pc[c] = "count" /\ target[c] = q
                              THEN 1 ELSE 0
      BY DEF NelemCountsQueue
    <2>1. CountedExactly(q) /\ nelem[q] \in Nat
      BY DEF IInv, TypeOK
    <2>2. CASE \E c \in Cores : Counting(c, q)
      BY <2>1, <2>2 DEF CountedExactly, Counting
    <2>3. CASE \A c \in Cores : ~Counting(c, q)
      BY <2>1, <2>3 DEF CountedExactly, Counting
    <2> QED BY <2>2, <2>3
  <1> QED BY <1>1, Invariant, PTL

--------------------------------------------------------------------------------
(***************************************************************************)
(* The arbiter of ke/parb.c is fair for every number of cores: its lock    *)
(* makes the pick and the advance one turn, and a turn taken in the middle *)
(* of a round leaves exactly the cores before the semaphore one ahead.     *)
(***************************************************************************)
HIDE DEF AllProcs

Picking(c) == pc[c] \in {"arbPick", "arbAdvance"}
Picked(c) == pc[c] = "arbAdvance"

ArbLocked ==
    /\ arbLock = (\E c \in Cores : Picking(c))
    /\ \A c, d \in Cores : Picking(c) /\ Picking(d) => c = d

\* The cores below b have had their turn in this round, the others have not.
TurnsTo(b) ==
    \A c, d \in Cores :
        /\ (c < b <=> d < b) => assigned[c] = assigned[d]
        /\ c < b /\ ~(d < b) => assigned[c] = assigned[d] + 1

AInv ==
    /\ TypeOK
    /\ ArbLocked
    /\ (\A c \in Cores : ~Picked(c)) => TurnsTo(semaphore)
    /\ (\E c \in Cores : Picked(c)) => TurnsTo(semaphore + 1)

\* keParbReset starts a round.
LEMMA AInvInit == Init => AInv
  <1> SUFFICES ASSUME Init PROVE AInv
    OBVIOUS
  <1>1. TypeOK
    BY IInvInit DEF IInv
  <1>2. \A c \in Cores : ~Picking(c) /\ ~Picked(c)
    BY DEF Init, CoresStarted, Picking, Picked
  <1>3. ArbLocked
    BY <1>2 DEF Init, ArbiterReset, ArbLocked
  <1>4. TurnsTo(semaphore)
    BY DEF Init, ArbiterReset, TurnsTo
  <1> QED BY <1>1, <1>2, <1>3, <1>4 DEF AInv

\* Steps outside keParbCycle.
LEMMA OutsideArbiter ==
    ASSUME AInv, TypeOK', UNCHANGED arbVars,
           \A c \in Cores : /\ Picking(c)' <=> Picking(c)
                            /\ Picked(c)' <=> Picked(c)
    PROVE  AInv'
  BY DEF AInv, arbVars, ArbLocked, TurnsTo

ArbiterStep(c) == ArbAcquire(c) \/ ArbPick(c) \/ ArbAdvance(c)

\* The three steps of keParbCycle; the wrap ends a round with all cores even.
LEMMA ArbiterStepKeeps ==
    ASSUME AInv, TypeOK', NEW c \in Cores, ArbiterStep(c)
    PROVE  AInv'
  <1>0. /\ pc = [d \in Cores |-> pc[d]]
        /\ semaphore \in Cores /\ assigned \in [Cores -> Nat]
    BY DEF AInv, TypeOK
  <1>1. CASE ArbAcquire(c)
    <2>1. \A d \in Cores : /\ Picking(d)' <=> d = c
                           /\ ~Picked(d)' /\ ~Picked(d)
      BY <1>0, <1>1 DEF ArbAcquire, Goto, AInv, ArbLocked, Picking, Picked
    <2>2. ArbLocked'
      BY <1>1, <2>1 DEF ArbAcquire, ArbLocked
    <2>3. TurnsTo(semaphore)'
      BY <1>1, <2>1 DEF ArbAcquire, AInv, TurnsTo
    <2> QED BY <2>1, <2>2, <2>3 DEF AInv
  <1>2. CASE ArbPick(c)
    <2>1. Picking(c) /\ ~Picked(c)
      BY <1>2 DEF ArbPick, Goto, Picking, Picked
    <2>2. \A d \in Cores : ~Picked(d)
      BY <2>1 DEF AInv, ArbLocked, Picking, Picked
    <2>3. /\ \A d \in Cores : Picking(d)' <=> Picking(d)
          /\ Picked(c)'
      BY <1>0, <1>2 DEF ArbPick, Goto, Picking, Picked
    <2>4. ArbLocked'
      BY <1>2, <2>3 DEF ArbPick, AInv, ArbLocked
    <2>5. \A d \in Cores : assigned'[d] = IF d = semaphore THEN assigned[d] + 1
                                                            ELSE assigned[d]
      BY <1>0, <1>2 DEF ArbPick
    <2>6. TurnsTo(semaphore)
      BY <2>2 DEF AInv
    <2>7. \A d \in Cores : /\ d < semaphore + 1 <=> d < semaphore \/ d = semaphore
                           /\ assigned[d] \in Nat
      BY <1>0
    <2>8. TurnsTo(semaphore + 1)'
      <3>1. semaphore' = semaphore
        BY <1>2 DEF ArbPick
      <3> SUFFICES ASSUME NEW x \in Cores, NEW y \in Cores
                   PROVE  /\ (x < semaphore + 1 <=> y < semaphore + 1)
                                => assigned'[x] = assigned'[y]
                          /\ x < semaphore + 1 /\ ~(y < semaphore + 1)
                                => assigned'[x] = assigned'[y] + 1
        BY <3>1 DEF TurnsTo
      <3>2. /\ (x < semaphore <=> y < semaphore) => assigned[x] = assigned[y]
            /\ x < semaphore /\ ~(y < semaphore) => assigned[x] = assigned[y] + 1
            /\ y < semaphore /\ ~(x < semaphore) => assigned[y] = assigned[x] + 1
        BY <2>6 DEF TurnsTo
      <3> QED BY <2>5, <2>7, <3>2, <1>0, SMTT(60)
    <2> QED BY <2>3, <2>4, <2>8 DEF AInv
  <1>3. CASE ArbAdvance(c)
    <2>1. Picking(c) /\ Picked(c)
      BY <1>3 DEF ArbAdvance, Goto, Picking, Picked
    <2>2. \A d \in Cores : ~Picking(d)' /\ ~Picked(d)'
      BY <1>0, <1>3, <2>1 DEF ArbAdvance, Goto, AInv, ArbLocked, Picking, Picked
    <2>3. ArbLocked'
      BY <1>3, <2>2 DEF ArbAdvance, ArbLocked
    <2>4. TurnsTo(semaphore + 1)
      BY <2>1 DEF AInv
    <2>5. TurnsTo(semaphore)'
      <3>1. assigned' = assigned
        BY <1>3 DEF ArbAdvance
      <3>2. CASE semaphore + 1 >= NCores
        <4>1. semaphore' = 0
          BY <1>3, <3>2 DEF ArbAdvance
        <4>2. \A d \in Cores : d < semaphore + 1 /\ ~(d < 0)
          BY <1>0, <3>2, CoresAssumption
        <4> QED BY <2>4, <3>1, <4>1, <4>2 DEF TurnsTo
      <3>3. CASE ~(semaphore + 1 >= NCores)
        BY <1>3, <2>4, <3>1, <3>3 DEF ArbAdvance, TurnsTo
      <3> QED BY <3>2, <3>3
    <2> QED BY <2>2, <2>3, <2>5 DEF AInv
  <1> QED BY <1>1, <1>2, <1>3 DEF ArbiterStep

\* Every step of every core keeps the arbiter's invariant.
LEMMA AInvStep == AInv /\ TypeOK' /\ [Next]_vars => AInv'
  <1> SUFFICES ASSUME AInv, TypeOK', [Next]_vars PROVE AInv'
    OBVIOUS
  <1> DEFINE Same == \A d \in Cores : /\ Picking(d)' <=> Picking(d)
                                      /\ Picked(d)' <=> Picked(d)
  <1>1. CASE UNCHANGED vars
    BY <1>1, OutsideArbiter DEF vars, arbVars, Picking, Picked
  <1>2. CASE Next
    <2>1. PICK c \in Cores : UserStep(c) \/ Spawn(c) \/ Tick(c) \/ Kernel(c)
      BY <1>2 DEF Next
    <2>2. CASE ArbiterStep(c)
      BY <2>2, ArbiterStepKeeps
    <2>3. CASE ~ArbiterStep(c)
      <3>1. pc = [d \in Cores |-> pc[d]]
        BY DEF AInv, TypeOK
      <3>2. UNCHANGED arbVars
        BY <2>1, <2>3 DEF ArbiterStep, Kernel, UserStep, Spawn, Tick, QueueAcquire,
           Link, Count, QueueRelease, Save, DequeueTest, DequeueAcquire, Remove,
           DequeueRelease, Load, Done
      <3>3. ASSUME UserStep(c) \/ Spawn(c) \/ Tick(c) PROVE Same
        BY <3>1, <3>3 DEF UserStep, Spawn, Tick, Goto, Outside, Picking, Picked
      <3>4. ASSUME QueueAcquire(c) \/ Link(c) \/ Count(c) \/ QueueRelease(c) PROVE Same
        BY <3>1, <3>4 DEF QueueAcquire, Link, Count, QueueRelease, Goto, Picking, Picked
      <3>5. ASSUME \/ Save(c) \/ DequeueTest(c) \/ DequeueAcquire(c) \/ Remove(c)
                   \/ DequeueRelease(c) \/ Load(c) \/ Done(c)
            PROVE  Same
        BY <3>1, <3>5 DEF Save, DequeueTest, DequeueAcquire, Remove, DequeueRelease,
           Load, Done, Goto, Outside, Picking, Picked
      <3> HIDE DEF Same
      <3>6. Same
        BY <2>1, <2>3, <3>3, <3>4, <3>5 DEF ArbiterStep, Kernel
      <3> QED BY <3>2, <3>6, OutsideArbiter DEF Same
    <2> QED BY <2>2, <2>3
  <1> QED BY <1>1, <1>2

(***************************************************************************)
(* keParbCycle never favours a core: whatever the number of cores and of   *)
(* concurrent calls, two cores' shares differ by at most one.              *)
(***************************************************************************)
THEOREM ArbiterIsFair == Spec => []ArbiterBalanced
  <1>1. AInv => ArbiterBalanced
    <2> SUFFICES ASSUME AInv, NEW c \in Cores, NEW d \in Cores
                 PROVE  assigned[c] - assigned[d] <= 1
      BY DEF ArbiterBalanced
    <2>1. assigned[c] \in Nat /\ assigned[d] \in Nat
      BY DEF AInv, TypeOK
    <2>2. PICK b : TurnsTo(b)
      BY DEF AInv
    <2>3. \/ assigned[c] = assigned[d]
          \/ assigned[c] = assigned[d] + 1
          \/ assigned[d] = assigned[c] + 1
      BY <2>2 DEF TurnsTo
    <2> QED BY <2>1, <2>3
  <1> QED BY <1>1, AInvInit, AInvStep, TypeCorrect, PTL DEF Spec

--------------------------------------------------------------------------------
(***************************************************************************)
(* Where processes are, for every number of cores and processes: each is   *)
(* in one place, and a core resumes it where it stopped.  Both need the    *)
(* test in keDequeueProc to come out as its author meant (sched.c:64),     *)
(* that is, ProcessIsNull = {FALSE}: a tick that finds its queue empty     *)
(* after it has queued its own process would run a process that is queued. *)
(***************************************************************************)
HIDE DEF Bsp, Cores

Switching == {"save", "deqTest", "deqLock", "remove", "deqUnlock", "load"}

\* The tick of core c has queued its process and has not dequeued yet.
QueuedOwn(c) ==
    /\ curProc[c] # NULL
    /\ \/ pc[c] \in {"save", "deqTest", "deqLock", "remove"}
       \/ pc[c] = "qUnlock" /\ elem[c] = curProc[c]

(***************************************************************************)
(* What a core's place says of its process and its local variables: the    *)
(* bootstrap core never switches, a process that is queued by its own tick *)
(* goes to that core's queue, and it is counted until the core dequeues.   *)
(***************************************************************************)
Place(c) ==
    /\ c = Bsp => curProc[c] = NULL /\ ~armed[c] /\ pc[c] \in {"user"} \union InSchedule
    /\ c # Bsp => curProc[c] = live[c].proc
    /\ cr3[c] = live[c].proc
    /\ pc[c] \in {"arbLock", "arbPick", "arbAdvance"} => elem[c] # curProc[c]
    /\ pc[c] \in InSchedule /\ elem[c] = curProc[c] => target[c] = c
    /\ next[c] # NULL => pc[c] \in {"deqUnlock", "load"}
    /\ QueuedOwn(c) => nelem[c] >= 1
    /\ pc[c] = "deqUnlock" /\ curProc[c] # NULL => next[c] # NULL
    /\ pc[c] = "idle" => live[c].proc = NULL

OnCore(c, p) == live[c].proc = p /\ ~GivenUp(c)
Held(c, p) == p \in InHand(c)
Queued(c, k, p) == k \in DOMAIN queue[c] /\ queue[c][k] = p

\* OneHome, place by place.
AtMostOne(p) ==
    /\ \A c, d \in Cores : OnCore(c, p) /\ OnCore(d, p) => c = d
    /\ \A c, d \in Cores : Held(c, p) /\ Held(d, p) => c = d
    /\ \A c, d \in Cores : ~(OnCore(c, p) /\ Held(d, p))
    /\ \A c, d \in Cores : \A k \in Nat : Queued(d, k, p) => ~OnCore(c, p) /\ ~Held(c, p)
    /\ \A c, d \in Cores : \A j, k \in Nat :
           Queued(c, j, p) /\ Queued(d, k, p) => c = d /\ j = k

Somewhere(p) == \E c \in Cores : \/ OnCore(c, p) \/ Held(c, p)
                                 \/ \E k \in Nat : Queued(c, k, p)

HomeInv == \A p \in AllProcs : AtMostOne(p) /\ (p \in unborn <=> ~Somewhere(p))

(***************************************************************************)
(* The frame in use on a core is ahead of the saved one until Save.        *)
(***************************************************************************)
Fresh(c) == pc[c] \notin {"deqTest", "deqLock", "remove", "deqUnlock", "load"}

InUse(c) == Fresh(c) /\ live[c].proc # NULL

\* A process that its own tick has queued is still in that queue.
OwnInQueue(c) ==
    \/ pc[c] = "count" /\ elem[c] = curProc[c]
    \/ QueuedOwn(c)

FrameInv ==
    /\ \A c \in Cores : InUse(c) => live[c].at = reached[live[c].proc]
    /\ \A p \in AllProcs :
           (\A c \in Cores : InUse(c) => live[c].proc # p) => tf[p] = reached[p]
    /\ \A c \in Cores : OwnInQueue(c) => \E k \in Nat : Queued(c, k, curProc[c])

HInv == IInv /\ (\A c \in Cores : Place(c)) /\ HomeInv /\ FrameInv

------------------------------------------------------------------------------
LEMMA NullIsNone == NULL \notin AllProcs
  BY ONLY ProcsAssumption DEF AllProcs

\* A step of one core leaves the other cores' variables alone.
LEMMA OtherCores ==
    ASSUME IInv, NEW c \in Cores, ElsewhereStep(c) \/ QueueStep(c),
           NEW d \in Cores, d # c
    PROVE  /\ pc'[d] = pc[d] /\ elem'[d] = elem[d] /\ target'[d] = target[d]
           /\ curProc'[d] = curProc[d] /\ live'[d] = live[d] /\ cr3'[d] = cr3[d]
           /\ armed'[d] = armed[d] /\ next'[d] = next[d]
  <1> USE DEF IInv, TypeOK, Goto, coreVars, callVars
  <1>1. CASE UserStep(c) \/ Spawn(c) \/ Tick(c)
    BY <1>1, SMTT(60) DEF UserStep, Spawn, Tick
  <1>2. CASE ArbAcquire(c) \/ ArbPick(c) \/ ArbAdvance(c)
    BY <1>2, SMTT(60) DEF ArbAcquire, ArbPick, ArbAdvance
  <1>3. CASE QueueAcquire(c) \/ Link(c) \/ Count(c) \/ QueueRelease(c)
    BY <1>3, SMTT(60) DEF QueueAcquire, Link, Count, QueueRelease
  <1>4. CASE Save(c) \/ DequeueTest(c) \/ DequeueAcquire(c) \/ Remove(c)
    BY <1>4 DEF Save, DequeueTest, DequeueAcquire, Remove
  <1>5. CASE DequeueRelease(c) \/ Load(c) \/ Done(c)
    BY <1>5 DEF DequeueRelease, Load, Done
  <1> QED BY <1>1, <1>2, <1>3, <1>4, <1>5 DEF ElsewhereStep, QueueStep

\* Only a core itself takes from its queue.
LEMMA OtherCounts ==
    ASSUME IInv, NEW c \in Cores, ElsewhereStep(c) \/ QueueStep(c),
           NEW d \in Cores, d # c
    PROVE  nelem'[d] >= nelem[d]
  <1> USE DEF IInv, TypeOK
  <1>1. CASE ElsewhereStep(c)
    BY <1>1, SMTT(60) DEF ElsewhereStep, UserStep, Spawn, Tick, ArbAcquire, ArbPick, ArbAdvance,
           Save, DequeueTest, Load, Done, queueVars
  <1>2. CASE Count(c)
    BY <1>2, SMTT(60) DEF Count
  <1>3. CASE Remove(c)
    BY <1>3, SMTT(60) DEF Remove
  <1>4. CASE QueueAcquire(c) \/ Link(c) \/ QueueRelease(c) \/ DequeueAcquire(c)
             \/ DequeueRelease(c)
    BY <1>4, SMTT(60) DEF QueueAcquire, Link, QueueRelease, DequeueAcquire, DequeueRelease
  <1> QED BY <1>1, <1>2, <1>3, <1>4 DEF QueueStep

\* A core's process is on it when it makes a call for a new one.
LEMMA SpawnsAnother ==
    ASSUME IInv, HomeInv, NEW c \in Cores, Place(c), Spawn(c)
    PROVE  elem'[c] # curProc[c]
  <1>1. elem'[c] \in unborn /\ pc[c] = "user"
    BY DEF Spawn, Goto, IInv, TypeOK
  <1>2. curProc[c] # NULL => OnCore(c, curProc[c])
    BY <1>1 DEF Place, IInv, Locals, OnCore, GivenUp
  <1>3. unborn \subseteq Procs
    BY DEF IInv, TypeOK
  <1>4. elem'[c] \in AllProcs /\ elem'[c] # NULL
    BY ONLY <1>1, <1>3, ProcsAssumption DEF AllProcs
  <1> QED BY <1>1, <1>2, <1>4 DEF HomeInv, Somewhere

LEMMA PlaceStep ==
    ASSUME ProcessIsNull = {FALSE}, IInv, \A d \in Cores : Place(d), HomeInv,
           NEW c \in Cores, ElsewhereStep(c) \/ QueueStep(c)
    PROVE  \A d \in Cores : Place(d)'
  <1> SUFFICES Place(c)'
    <2> SUFFICES ASSUME NEW d \in Cores, d # c PROVE Place(d)'
      OBVIOUS
    <2>1. /\ pc'[d] = pc[d] /\ elem'[d] = elem[d] /\ target'[d] = target[d]
          /\ curProc'[d] = curProc[d] /\ live'[d] = live[d] /\ cr3'[d] = cr3[d]
          /\ armed'[d] = armed[d] /\ next'[d] = next[d]
      BY OtherCores
    <2>2. nelem'[d] >= nelem[d] /\ nelem[d] \in Nat /\ nelem'[d] \in Nat
      BY OtherCounts, TypeStep DEF IInv, TypeOK
    <2>3. QueuedOwn(d)' = QueuedOwn(d)
      BY <2>1 DEF QueuedOwn
    <2> HIDE DEF Cores, AllProcs
    <2> QED BY <2>1, <2>2, <2>3 DEF Place
  <1> USE DEF IInv, TypeOK, Goto, Outside, InSchedule, Locals, Place, QueuedOwn
  <1>1. CASE UserStep(c)
    <2>1. live'[c].proc = live[c].proc
      BY <1>1 DEF UserStep
    <2> QED BY <1>1, <2>1 DEF UserStep, callVars, queueVars
  <1>2. CASE Spawn(c)
    BY <1>2, SpawnsAnother DEF Spawn, coreVars, queueVars
  <1>3. CASE Tick(c)
    BY <1>3 DEF Tick, queueVars
  <1>4. CASE ArbAcquire(c)
    BY <1>4 DEF ArbAcquire, callVars, coreVars, queueVars
  <1>5. CASE ArbPick(c)
    BY <1>5 DEF ArbPick, coreVars, queueVars
  <1>6. CASE ArbAdvance(c)
    BY <1>6 DEF ArbAdvance, callVars, coreVars, queueVars
  <1>7. CASE QueueAcquire(c)
    BY <1>7 DEF QueueAcquire, callVars, coreVars
  <1>8. CASE Link(c)
    BY <1>8 DEF Link, callVars, coreVars
  <1>9. CASE Count(c)
    <2>1. QueuedOwn(c)' => nelem'[c] >= 1
      <3>1. QueuedOwn(c)' => target[c] = c
        BY <1>9 DEF Count, callVars, coreVars
      <3>2. target[c] = c => nelem'[c] = nelem[c] + 1
        BY <1>9 DEF Count
      <3>3. nelem[c] \in Nat
        OBVIOUS
      <3> QED BY ONLY <3>1, <3>2, <3>3
    <2> QED BY <1>9, <2>1 DEF Count, callVars, coreVars
  <1>10. CASE QueueRelease(c)
    BY <1>10, ZenonT(60) DEF QueueRelease, coreVars
  <1>11. CASE Save(c)
    BY <1>11 DEF Save, callVars, coreVars, queueVars
  <1>12. CASE DequeueTest(c)
    BY <1>12, ZenonT(60) DEF DequeueTest, callVars, coreVars, queueVars
  <1>13. CASE DequeueAcquire(c)
    BY <1>13 DEF DequeueAcquire, callVars, coreVars
  <1>14. CASE Remove(c)
    <2>1. CountedExactly(c) /\ queue[c] \in Seq(AllProcs) /\ nelem[c] \in Nat
      OBVIOUS
    <2>2. nelem[c] >= 1 => queue[c] # <<>>
      <3>1. Len(queue[c]) = nelem[c] \/ Len(queue[c]) = nelem[c] + 1
        BY ONLY <2>1 DEF CountedExactly
      <3> QED BY ONLY <2>1, <3>1
    <2>3. queue[c] # <<>> => Head(queue[c]) \in AllProcs
      BY ONLY <2>1
    <2>4. /\ pc[c] = "remove" /\ pc'[c] = "deqUnlock"
          /\ UNCHANGED <<curProc, live, cr3, armed, elem, target>>
      BY <1>14 DEF Remove, callVars
    <2>5. /\ queue[c] = <<>> => next'[c] = next[c]
          /\ queue[c] # <<>> => next'[c] = Head(queue[c])
      BY <1>14, SMTT(60) DEF Remove
    <2>6. curProc[c] # NULL => queue[c] # <<>>
      BY <2>2, <2>4
    <2>7. curProc[c] # NULL => next'[c] # NULL
      <3> HIDE DEF AllProcs
      <3> QED BY ONLY <2>3, <2>5, <2>6, NullIsNone
    <2> QED BY <2>4, <2>7
  <1>15. CASE DequeueRelease(c)
    BY <1>15 DEF DequeueRelease, callVars, coreVars
  <1>16. CASE Load(c)
    BY <1>16, ZenonT(60) DEF Load, callVars, queueVars
  <1>17. CASE Done(c)
    BY <1>17 DEF Done, callVars, queueVars
  <1> QED BY <1>1, <1>2, <1>3, <1>4, <1>5, <1>6, <1>7, <1>8, <1>9,
             <1>10, <1>11, <1>12, <1>13, <1>14, <1>15, <1>16, <1>17
          DEF ElsewhereStep, QueueStep

------------------------------------------------------------------------------
(***************************************************************************)
(* One home.                                                               *)
(***************************************************************************)
SameHome(p) ==
    /\ \A d \in Cores : (OnCore(d, p)' <=> OnCore(d, p)) /\ (Held(d, p)' <=> Held(d, p))
    /\ \A d \in Cores : \A k \in Nat : (Queued(d, k, p)' <=> Queued(d, k, p))
    /\ p \in unborn' <=> p \in unborn

LEMMA AllStay ==
    ASSUME HomeInv, \A p \in AllProcs : SameHome(p)
    PROVE  HomeInv'
  BY DEF HomeInv, SameHome, AtMostOne, Somewhere

\* Only process e moves.
LEMMA OthersStay ==
    ASSUME HomeInv, NEW e \in AllProcs,
           \A p \in AllProcs : p # e => SameHome(p),
           AtMostOne(e)', Somewhere(e)', e \notin unborn'
    PROVE  HomeInv'
  BY DEF HomeInv, SameHome, AtMostOne, Somewhere

LEMMA OthersHomes ==
    ASSUME IInv, NEW c \in Cores, ElsewhereStep(c) \/ QueueStep(c),
           NEW p \in AllProcs, NEW d \in Cores, d # c
    PROVE  (OnCore(d, p)' <=> OnCore(d, p)) /\ (Held(d, p)' <=> Held(d, p))
  BY OtherCores DEF OnCore, GivenUp, Held, InHand

LEMMA QueuesStay ==
    ASSUME NEW c \in Cores, ElsewhereStep(c) \/ QueueStep(c), ~Link(c), ~Remove(c)
    PROVE  UNCHANGED queue
  BY DEF ElsewhereStep, QueueStep, UserStep, Spawn, Tick, ArbAcquire, ArbPick, ArbAdvance, Save,
         DequeueTest, Load, Done, queueVars, QueueAcquire, Count, QueueRelease,
         DequeueAcquire, DequeueRelease

LEMMA BirthsStay ==
    ASSUME NEW c \in Cores, ElsewhereStep(c) \/ QueueStep(c), ~Spawn(c)
    PROVE  UNCHANGED unborn
  BY DEF ElsewhereStep, QueueStep, UserStep, Tick, ArbAcquire, ArbPick, ArbAdvance, Save,
         DequeueTest, Load, Done, QueueAcquire, Count, QueueRelease,
         DequeueAcquire, DequeueRelease, Link, Remove

\* A core that leaves halSchedSwitch without a process had none.
LEMMA NothingGivenUp ==
    ASSUME ProcessIsNull = {FALSE}, IInv, \A d \in Cores : Place(d), NEW c \in Cores,
           DequeueTest(c) \/ DequeueRelease(c), pc'[c] = "done"
    PROVE  live[c].proc = NULL
  <1> USE DEF Place, QueuedOwn, IInv, TypeOK, Goto, InSchedule
  <1>1. CASE DequeueTest(c)
    <2>1. pc[c] = "deqTest" /\ nelem[c] = 0
      BY <1>1 DEF DequeueTest
    <2>2. curProc[c] = NULL
      BY <2>1
    <2> QED BY <2>1, <2>2
  <1>2. CASE DequeueRelease(c)
    <2>1. pc[c] = "deqUnlock" /\ next[c] = NULL
      BY <1>2 DEF DequeueRelease
    <2> QED BY <2>1
  <1> QED BY <1>1, <1>2

\* Steps that move no process.
LEMMA StillStep ==
    ASSUME ProcessIsNull = {FALSE}, IInv, \A d \in Cores : Place(d), HomeInv, NEW c \in Cores,
           ElsewhereStep(c) \/ QueueStep(c), ~Spawn(c), ~Link(c), ~Remove(c), ~Load(c)
    PROVE  HomeInv'
  <1> SUFFICES ASSUME NEW p \in AllProcs
               PROVE  (OnCore(c, p)' <=> OnCore(c, p)) /\ (Held(c, p)' <=> Held(c, p))
    BY AllStay, OthersHomes, QueuesStay, BirthsStay DEF SameHome, Queued
  <1> USE DEF OnCore, GivenUp, Held, InHand, Goto, IInv, TypeOK, Locals, Place, InSchedule, Outside
  <1>1. CASE UserStep(c)
    <2>1. live'[c].proc = live[c].proc
      BY <1>1 DEF UserStep
    <2> QED BY <1>1, <2>1 DEF UserStep, callVars
  <1>2. CASE Tick(c)
    BY <1>2, NullIsNone, SMTT(60) DEF Tick
  <1>3. CASE ArbAcquire(c) \/ ArbPick(c) \/ ArbAdvance(c)
    BY <1>3, ZenonT(60) DEF ArbAcquire, ArbPick, ArbAdvance, coreVars, callVars
  <1>4. CASE QueueAcquire(c) \/ Count(c)
    BY <1>4, ZenonT(60) DEF QueueAcquire, Count, coreVars, callVars
  <1>5. CASE QueueRelease(c)
    BY <1>5 DEF QueueRelease, coreVars
  <1>6. CASE Save(c) \/ DequeueAcquire(c)
    BY <1>6, SMTT(60) DEF Save, DequeueAcquire, coreVars, callVars
  <1>7. CASE DequeueTest(c) \/ DequeueRelease(c)
    <2>1. /\ UNCHANGED <<live, next, elem, curProc>>
          /\ pc[c] \in {"deqTest", "deqUnlock"} /\ pc'[c] \in {"done", "deqLock", "load"}
      BY <1>7 DEF DequeueTest, DequeueRelease, coreVars, callVars
    <2>2. pc'[c] = "done" => live[c].proc # p
      BY <1>7, NothingGivenUp, NullIsNone
    <2> QED BY <2>1, <2>2
  <1>8. CASE Done(c)
    BY <1>8 DEF Done, callVars
  <1> QED BY <1>1, <1>2, <1>3, <1>4, <1>5, <1>6, <1>7, <1>8 DEF ElsewhereStep, QueueStep

\* A new process goes from nowhere into the hands of the core.
LEMMA SpawnStep ==
    ASSUME IInv, \A d \in Cores : Place(d), HomeInv, NEW c \in Cores, Spawn(c)
    PROVE  HomeInv'
  <1> HIDE DEF Cores, AllProcs
  <1>1. PICK e \in unborn : elem' = [elem EXCEPT ![c] = e] /\ unborn' = unborn \ {e}
    BY DEF Spawn
  <1>2. e \in AllProcs /\ e # NULL /\ e # curProc[c]
    <2>1. unborn \subseteq AllProcs
      BY DEF IInv, TypeOK, AllProcs
    <2>2. elem'[c] = e
      BY <1>1 DEF IInv, TypeOK
    <2> QED BY <2>1, <2>2, NullIsNone, SpawnsAnother
  <1>3. /\ pc[c] = "user" /\ pc'[c] = "arbLock" /\ elem'[c] = e
        /\ UNCHANGED <<curProc, live, next, queue>> /\ next[c] = NULL
    BY <1>1, ZenonT(60) DEF Spawn, Goto, coreVars, queueVars, IInv, TypeOK, Place
  <1>4. ASSUME NEW p \in AllProcs
        PROVE  /\ OnCore(c, p)' <=> OnCore(c, p)
               /\ Held(c, p)' <=> p = e
               /\ ~Held(c, p)
    BY <1>2, <1>3 DEF OnCore, GivenUp, Held, InHand
  <1>5. ElsewhereStep(c)
    BY DEF ElsewhereStep
  <1>6. \A p \in AllProcs, d \in Cores : d # c =>
            (OnCore(d, p)' <=> OnCore(d, p)) /\ (Held(d, p)' <=> Held(d, p))
    BY <1>5, OthersHomes
  <1>7. \A p \in AllProcs, d \in Cores : \A k \in Nat : (Queued(d, k, p)' <=> Queued(d, k, p))
    BY <1>3 DEF Queued
  <1>8. \A p \in AllProcs : p # e => SameHome(p)
    BY <1>1, <1>4, <1>6, <1>7 DEF SameHome
  <1>9. ~Somewhere(e)
    BY <1>2 DEF HomeInv
  <1>10. AtMostOne(e)' /\ Somewhere(e)'
    BY <1>2, <1>4, <1>6, <1>7, <1>9 DEF AtMostOne, Somewhere
  <1> QED BY <1>1, <1>2, <1>8, <1>10, OthersStay

\* keScheduleProc links a process: its own current one, or the one in its hands.
LEMMA LinkStep ==
    ASSUME IInv, \A d \in Cores : Place(d), HomeInv, NEW c \in Cores, Link(c)
    PROVE  HomeInv'
  <1> HIDE DEF Cores, AllProcs
  <1>1. PICK e \in AllProcs, t \in Cores, n \in Nat :
            e = elem[c] /\ t = target[c] /\ n = Len(queue[t]) + 1
    <2>1. elem[c] \in AllProcs /\ target[c] \in Cores
      BY NullIsNone DEF Link, Goto, IInv, TypeOK, Locals, InSchedule
    <2>2. Len(queue[target[c]]) + 1 \in Nat
      BY <2>1 DEF IInv, TypeOK
    <2> QED BY <2>1, <2>2
  <1>2. /\ pc[c] = "link" /\ pc'[c] = "count" /\ next[c] = NULL
        /\ UNCHANGED <<curProc, live, next, elem, unborn>>
    BY DEF Link, Goto, coreVars, callVars, IInv, TypeOK, Place
  <1>3. e = curProc[c] => live[c].proc = e
    BY <1>1, NullIsNone DEF Place
  <1>4. ASSUME NEW p \in AllProcs
        PROVE  /\ Held(c, p) <=> p = e /\ e # curProc[c]
               /\ ~Held(c, p)'
               /\ OnCore(c, p) <=> live[c].proc = p
               /\ OnCore(c, p)' <=> live[c].proc = p /\ e # curProc[c]
    BY <1>1, <1>2, NullIsNone DEF OnCore, GivenUp, Held, InHand
  <1>5. QueueStep(c)
    BY DEF QueueStep
  <1>6. \A p \in AllProcs, d \in Cores : d # c =>
            (OnCore(d, p)' <=> OnCore(d, p)) /\ (Held(d, p)' <=> Held(d, p))
    BY <1>5, OthersHomes
  <1>7. ASSUME NEW p \in AllProcs, NEW d \in Cores, NEW k \in Nat
        PROVE  /\ Queued(d, k, p)' <=> Queued(d, k, p) \/ (d = t /\ k = n /\ p = e)
               /\ d = t /\ k = n => ~Queued(d, k, p)
    <2>1. queue \in [Cores -> Seq(AllProcs)] /\ queue' = [queue EXCEPT ![t] = Append(queue[t], e)]
      BY <1>1 DEF Link, IInv, TypeOK
    <2>2. CASE d = t
      <3>1. queue'[d] = Append(queue[d], e) /\ queue[d] \in Seq(AllProcs)
        BY <1>1, <2>1, <2>2
      <3>2. /\ DOMAIN queue'[d] = 1 .. Len(queue[d]) + 1
            /\ DOMAIN queue[d] = 1 .. Len(queue[d]) /\ Len(queue[d]) \in Nat
            /\ queue'[d][Len(queue[d]) + 1] = e
            /\ \A j \in 1 .. Len(queue[d]) : queue'[d][j] = queue[d][j]
        BY ONLY <1>1, <3>1
      <3> QED BY ONLY <1>1, <2>2, <3>2, k \in Nat DEF Queued
    <2>3. CASE d # t
      BY <1>1, <2>1, <2>3 DEF Queued
    <2> QED BY <2>2, <2>3
  <1>8. \A p \in AllProcs : p # e => SameHome(p)
    BY <1>2, <1>3, <1>4, <1>6, <1>7 DEF SameHome
  <1>9. AtMostOne(e) /\ (OnCore(c, e) \/ Held(c, e))
    BY <1>1, <1>3, <1>4 DEF HomeInv
  <1>10. \A d \in Cores : ~OnCore(d, e)' /\ ~Held(d, e)'
    BY <1>1, <1>3, <1>4, <1>6, <1>9 DEF AtMostOne
  <1>11. \A d \in Cores : \A k \in Nat : ~Queued(d, k, e)
    BY <1>9 DEF AtMostOne
  <1>12. AtMostOne(e)' /\ Somewhere(e)'
    BY <1>1, <1>7, <1>10, <1>11 DEF AtMostOne, Somewhere
  <1>13. e \notin unborn'
    BY <1>1, <1>2, <1>9 DEF HomeInv, Somewhere
  <1> QED BY <1>1, <1>8, <1>12, <1>13, OthersStay

\* keDequeueProc takes the first process of its queue; the others move up.
LEMMA RemoveStep ==
    ASSUME IInv, \A d \in Cores : Place(d), HomeInv, NEW c \in Cores, Remove(c)
    PROVE  HomeInv'
  <1> HIDE DEF Cores, AllProcs
  <1>1. QueueStep(c)
    BY DEF QueueStep
  <1>2. /\ pc[c] = "remove" /\ pc'[c] = "deqUnlock" /\ next[c] = NULL
        /\ UNCHANGED <<curProc, live, elem, unborn>>
    BY DEF Remove, Goto, callVars, IInv, TypeOK, Place
  <1>3. \A p \in AllProcs, d \in Cores : d # c =>
            (OnCore(d, p)' <=> OnCore(d, p)) /\ (Held(d, p)' <=> Held(d, p))
    BY <1>1, OthersHomes
  <1>4. \A p \in AllProcs : ~OnCore(c, p) /\ ~OnCore(c, p)' /\ ~Held(c, p)
    BY <1>2, NullIsNone DEF OnCore, GivenUp, Held, InHand
  <1>5. CASE queue[c] = <<>>
    <2>1. UNCHANGED <<queue, next>>
      BY <1>5 DEF Remove
    <2>2. \A p \in AllProcs : ~Held(c, p)'
      BY <1>2, <2>1, NullIsNone DEF Held, InHand
    <2>3. \A p \in AllProcs : SameHome(p)
      BY <1>2, <1>3, <1>4, <2>1, <2>2 DEF SameHome, Queued
    <2> QED BY <2>3, AllStay
  <1>6. CASE queue[c] # <<>>
    <2>1. PICK e \in AllProcs : e = Head(queue[c])
      <3>1. queue[c] \in Seq(AllProcs)
        BY DEF IInv, TypeOK
      <3> QED BY ONLY <1>6, <3>1
    <2>2. queue' = [queue EXCEPT ![c] = Tail(queue[c])] /\ next'[c] = e
      BY <1>6, <2>1 DEF Remove, IInv, TypeOK
    <2>3. \A p \in AllProcs : Held(c, p)' <=> p = e
      BY <1>2, <2>2, NullIsNone DEF Held, InHand
    <2>4. ASSUME NEW p \in AllProcs, NEW k \in Nat
          PROVE  /\ Queued(c, k, p)' <=> k # 0 /\ Queued(c, k + 1, p)
                 /\ Queued(c, 1, p) <=> p = e
                 /\ ~Queued(c, 0, p)
      <3>1. queue[c] \in Seq(AllProcs) /\ queue'[c] = Tail(queue[c])
        BY <2>2 DEF IInv, TypeOK
      <3>2. /\ DOMAIN queue[c] = 1 .. Len(queue[c]) /\ Len(queue[c]) \in Nat
            /\ Len(queue[c]) >= 1 /\ queue[c][1] = e
            /\ DOMAIN queue'[c] = 1 .. Len(queue[c]) - 1
            /\ \A j \in 1 .. Len(queue[c]) - 1 : queue'[c][j] = queue[c][j + 1]
        BY ONLY <1>6, <2>1, <3>1
      <3> QED BY ONLY <3>2, k \in Nat DEF Queued
    <2>5. \A p \in AllProcs, d \in Cores : \A k \in Nat :
              d # c => (Queued(d, k, p)' <=> Queued(d, k, p))
      BY <2>2 DEF Queued, IInv, TypeOK
    <2>6. ASSUME NEW p \in AllProcs, p # e
          PROVE  AtMostOne(p)' /\ (p \in unborn' <=> ~Somewhere(p)')
      <3>1. AtMostOne(p)'
        BY <1>3, <1>4, <2>3, <2>4, <2>5, <2>6 DEF HomeInv, AtMostOne
      <3>2. \A j \in Nat : Queued(c, j, p) => \E k \in Nat : j = k + 1 /\ k # 0
        <4>1. \A j \in Nat : Queued(c, j, p) => j # 0 /\ j # 1
          BY <2>4, <2>6
        <4> QED BY <4>1
      <3>3. Somewhere(p)' <=> Somewhere(p)
        BY <1>3, <1>4, <2>3, <2>4, <2>5, <2>6, <3>2 DEF Somewhere
      <3> QED BY <1>2, <3>1, <3>3 DEF HomeInv
    <2>7. AtMostOne(e) /\ Queued(c, 1, e)
      BY <2>4 DEF HomeInv
    <2>8. \A d \in Cores : ~OnCore(d, e)' /\ (Held(d, e)' <=> d = c)
      BY <1>3, <1>4, <2>3, <2>7 DEF AtMostOne
    <2>9. \A d \in Cores : \A k \in Nat : ~Queued(d, k, e)'
      BY <2>4, <2>5, <2>7 DEF AtMostOne
    <2>10. AtMostOne(e)' /\ Somewhere(e)'
      BY <2>8, <2>9 DEF AtMostOne, Somewhere
    <2>11. e \notin unborn'
      BY <1>2, <2>7 DEF HomeInv, Somewhere
    <2> QED BY <2>6, <2>10, <2>11 DEF HomeInv
  <1> QED BY <1>5, <1>6

\* halSchedSwitch runs the process it dequeued; the one before was given up.
LEMMA LoadStep ==
    ASSUME IInv, \A d \in Cores : Place(d), HomeInv, NEW c \in Cores, Load(c)
    PROVE  HomeInv'
  <1> HIDE DEF Cores, AllProcs
  <1>1. PICK e \in AllProcs : e = next[c]
    BY DEF Load, Goto, IInv, TypeOK, Locals
  <1>2. ElsewhereStep(c)
    BY DEF ElsewhereStep
  <1>3. /\ pc[c] = "load" /\ pc'[c] = "done" /\ next'[c] = NULL /\ live'[c].proc = e
        /\ UNCHANGED <<elem, unborn, queue>>
    BY <1>1 DEF Load, Goto, queueVars, callVars, IInv, TypeOK
  <1>4. ASSUME NEW p \in AllProcs
        PROVE  /\ ~OnCore(c, p) /\ (OnCore(c, p)' <=> p = e)
               /\ Held(c, p) <=> p = e
               /\ ~Held(c, p)'
    BY <1>1, <1>3, NullIsNone DEF OnCore, GivenUp, Held, InHand
  <1>5. \A p \in AllProcs, d \in Cores : d # c =>
            (OnCore(d, p)' <=> OnCore(d, p)) /\ (Held(d, p)' <=> Held(d, p))
    BY <1>2, OthersHomes
  <1>6. \A p \in AllProcs, d \in Cores : \A k \in Nat : (Queued(d, k, p)' <=> Queued(d, k, p))
    BY <1>3 DEF Queued
  <1>7. \A p \in AllProcs : p # e => SameHome(p)
    BY <1>3, <1>4, <1>5, <1>6 DEF SameHome
  <1>8. AtMostOne(e) /\ Held(c, e)
    BY <1>4 DEF HomeInv
  <1>9. AtMostOne(e)' /\ Somewhere(e)'
    BY <1>4, <1>5, <1>6, <1>8 DEF AtMostOne, Somewhere
  <1>10. e \notin unborn'
    BY <1>3, <1>8 DEF HomeInv, Somewhere
  <1> QED BY <1>7, <1>9, <1>10, OthersStay

LEMMA HomeStep ==
    ASSUME ProcessIsNull = {FALSE}, IInv, \A d \in Cores : Place(d), HomeInv,
           NEW c \in Cores, ElsewhereStep(c) \/ QueueStep(c)
    PROVE  HomeInv'
  BY StillStep, SpawnStep, LinkStep, RemoveStep, LoadStep

------------------------------------------------------------------------------
(***************************************************************************)
(* Frames.                                                                 *)
(***************************************************************************)

\* Between the link and the dequeue the core's process is in its queue.
LEMMA OwnQueued ==
    ASSUME IInv, \A d \in Cores : Place(d), HomeInv, FrameInv, NEW d \in Cores, OwnInQueue(d)
    PROVE  /\ curProc[d] \in AllProcs /\ live[d].proc = curProc[d]
           /\ \A c \in Cores : ~OnCore(c, curProc[d]) /\ ~Held(c, curProc[d])
  <1> HIDE DEF Cores, AllProcs
  <1>1. curProc[d] # NULL
    BY DEF OwnInQueue, QueuedOwn, IInv, Locals, InSchedule
  <1>2. curProc[d] \in AllProcs /\ live[d].proc = curProc[d]
    BY <1>1 DEF IInv, TypeOK, Place
  <1>3. \E k \in Nat : Queued(d, k, curProc[d])
    BY DEF FrameInv
  <1> QED BY <1>2, <1>3 DEF HomeInv, AtMostOne

\* A process on a core, or in its hands, has no frame in use on another.
LEMMA FreshElsewhere ==
    ASSUME IInv, \A d \in Cores : Place(d), HomeInv, FrameInv, NEW c \in Cores,
           NEW p \in AllProcs, OnCore(c, p) \/ Held(c, p),
           NEW d \in Cores, d # c, Fresh(d)
    PROVE  live[d].proc # p
  <1> HIDE DEF Cores, AllProcs
  <1> SUFFICES ASSUME live[d].proc = p PROVE FALSE
    OBVIOUS
  <1>1. CASE ~GivenUp(d)
    BY <1>1 DEF OnCore, HomeInv, AtMostOne
  <1>2. CASE GivenUp(d)
    <2>1. OwnInQueue(d)
      BY <1>2 DEF GivenUp, Fresh, OwnInQueue, QueuedOwn, IInv, Locals, InSchedule
    <2> QED BY <2>1, OwnQueued
  <1> QED BY <1>1, <1>2

\* The process the core has queued stays in its queue until the core dequeues.
LEMMA OwnStep ==
    ASSUME IInv, \A d \in Cores : Place(d), FrameInv,
           NEW c \in Cores, ElsewhereStep(c) \/ QueueStep(c)
    PROVE  \A d \in Cores : OwnInQueue(d)' => \E k \in Nat : Queued(d, k, curProc[d])'
  <1> HIDE DEF Cores, AllProcs
  <1> SUFFICES ASSUME NEW d \in Cores, OwnInQueue(d)'
               PROVE  \E k \in Nat : Queued(d, k, curProc[d])'
    OBVIOUS
  <1>1. CASE Link(c)
    <2>1. PICK t \in Cores, e \in AllProcs, n \in Nat :
              t = target[c] /\ e = elem[c] /\ n = Len(queue[t]) + 1
      <3>1. elem[c] \in AllProcs /\ target[c] \in Cores
        BY <1>1, NullIsNone DEF Link, Goto, IInv, TypeOK, Locals, InSchedule
      <3>2. Len(queue[target[c]]) + 1 \in Nat
        BY <3>1 DEF IInv, TypeOK
      <3> QED BY <3>1, <3>2
    <2>2. /\ queue \in [Cores -> Seq(AllProcs)]
          /\ queue' = [queue EXCEPT ![t] = Append(queue[t], e)]
          /\ pc[c] = "link" /\ UNCHANGED <<curProc, elem>>
          /\ \A b \in Cores : b # c => pc'[b] = pc[b]
      BY <1>1, <2>1 DEF Link, Goto, IInv, TypeOK, coreVars, callVars
    <2>3. queue[t] \in Seq(AllProcs) /\ queue'[t] = Append(queue[t], e)
      BY <2>1, <2>2
    <2>4. /\ \A k \in DOMAIN queue[t] : k \in DOMAIN queue'[t] /\ queue'[t][k] = queue[t][k]
          /\ n \in DOMAIN queue'[t] /\ queue'[t][n] = e
      BY ONLY <2>1, <2>3
    <2>5. CASE d = c
      <3>1. elem[c] = curProc[c]
        BY <1>1, <2>2, <2>5 DEF OwnInQueue, QueuedOwn, Link, Goto, IInv, TypeOK
      <3>2. t = c
        BY <1>1, <2>1, <3>1 DEF Place, Link, Goto, InSchedule
      <3> QED BY <2>1, <2>2, <2>4, <2>5, <3>1, <3>2 DEF Queued
    <2>6. CASE d # c
      <3>1. OwnInQueue(d)
        BY <2>2, <2>6 DEF OwnInQueue, QueuedOwn
      <3>2. PICK k \in Nat : Queued(d, k, curProc[d])
        BY <3>1 DEF FrameInv
      <3>3. Queued(d, k, curProc[d])'
        BY <2>1, <2>2, <2>4, <3>2 DEF Queued
      <3> QED BY <3>3
    <2> QED BY <2>5, <2>6
  <1>2. CASE Remove(c)
    <2>1. d # c /\ OwnInQueue(d) /\ curProc'[d] = curProc[d]
      BY <1>2 DEF Remove, Goto, IInv, TypeOK, OwnInQueue, QueuedOwn, callVars
    <2>2. queue'[d] = queue[d]
      BY <1>2, <2>1 DEF Remove, IInv, TypeOK
    <2>3. PICK k \in Nat : Queued(d, k, curProc[d])
      BY <2>1 DEF FrameInv
    <2> QED BY <2>1, <2>2, <2>3 DEF Queued
  <1>3. CASE ~Link(c) /\ ~Remove(c)
    <2>1. OwnInQueue(d) /\ curProc'[d] = curProc[d]
      <3>1. CASE d # c
        BY <3>1, OtherCores DEF OwnInQueue, QueuedOwn
      <3>2. CASE d = c
        <4> USE DEF OwnInQueue, QueuedOwn, Goto, IInv, TypeOK, coreVars, callVars
        <4>1. CASE UserStep(c) \/ Spawn(c) \/ Tick(c)
          BY <3>2, <4>1, SMTT(60) DEF UserStep, Spawn, Tick, Place, Outside
        <4>2. CASE ArbAcquire(c) \/ ArbPick(c) \/ ArbAdvance(c) \/ QueueAcquire(c)
          BY <3>2, <4>2, SMTT(60) DEF ArbAcquire, ArbPick, ArbAdvance, QueueAcquire
        <4>3. CASE Count(c) \/ QueueRelease(c)
          BY <3>2, <4>3, ZenonT(60) DEF Count, QueueRelease
        <4>4. CASE Save(c) \/ DequeueTest(c) \/ DequeueAcquire(c)
          BY <3>2, <4>4 DEF Save, DequeueTest, DequeueAcquire
        <4>5. CASE DequeueRelease(c) \/ Load(c) \/ Done(c)
          BY <3>2, <4>5, SMTT(60) DEF DequeueRelease, Load, Done, Outside
        <4> QED BY <1>3, <4>1, <4>2, <4>3, <4>4, <4>5 DEF ElsewhereStep, QueueStep
      <3> QED BY <3>1, <3>2
    <2>2. UNCHANGED queue
      BY <1>3, QueuesStay
    <2>3. PICK k \in Nat : Queued(d, k, curProc[d])
      BY <2>1 DEF FrameInv
    <2> QED BY <2>1, <2>2, <2>3 DEF Queued
  <1> QED BY <1>1, <1>2, <1>3

FrameFacts ==
    /\ \A c \in Cores : InUse(c) => live[c].at = reached[live[c].proc]
    /\ \A p \in AllProcs :
           (\A c \in Cores : InUse(c) => live[c].proc # p) => tf[p] = reached[p]

\* Steps that neither run, save nor load a process.
LEMMA SameFrames ==
    ASSUME ProcessIsNull = {FALSE}, IInv, \A d \in Cores : Place(d), FrameInv,
           NEW c \in Cores, ElsewhereStep(c) \/ QueueStep(c),
           ~UserStep(c), ~Save(c), ~Load(c)
    PROVE  FrameFacts'
  <1> HIDE DEF Cores, AllProcs
  <1>1. UNCHANGED <<live, frameVars>>
    BY DEF ElsewhereStep, QueueStep, Spawn, Tick, ArbAcquire, ArbPick, ArbAdvance, DequeueTest,
           Done, QueueAcquire, Link, Count, QueueRelease, DequeueAcquire, Remove,
           DequeueRelease, coreVars
  <1>2. \A d \in Cores : InUse(d)' <=> InUse(d)
    <2>1. \A d \in Cores : d # c => (InUse(d)' <=> InUse(d))
      BY OtherCores DEF InUse, Fresh
    <2>2. InUse(c)' <=> InUse(c)
      <3> USE DEF InUse, Fresh, Goto, IInv, TypeOK, coreVars
      <3>1. CASE Spawn(c) \/ ArbAcquire(c) \/ ArbPick(c) \/ ArbAdvance(c) \/ Done(c)
        BY <3>1, ZenonT(60) DEF Spawn, ArbAcquire, ArbPick, ArbAdvance, Done, Outside
      <3>2. CASE Tick(c)
        BY <3>2 DEF Tick, Place, Outside
      <3>3. CASE QueueAcquire(c) \/ Link(c) \/ Count(c) \/ QueueRelease(c)
        BY <3>3, ZenonT(60) DEF QueueAcquire, Link, Count, QueueRelease
      <3>4. CASE DequeueAcquire(c) \/ Remove(c)
        BY <3>4 DEF DequeueAcquire, Remove
      <3>5. CASE DequeueTest(c) \/ DequeueRelease(c)
        <4>1. pc[c] \in {"deqTest", "deqUnlock"} /\ pc'[c] \in {"done", "deqLock", "load"}
          BY <3>5 DEF DequeueTest, DequeueRelease
        <4>2. pc'[c] = "done" => live[c].proc = NULL
          BY <3>5, NothingGivenUp
        <4> QED BY <1>1, <4>1, <4>2
      <3> QED BY <3>1, <3>2, <3>3, <3>4, <3>5 DEF ElsewhereStep, QueueStep
    <2> QED BY <2>1, <2>2
  <1> QED BY <1>1, <1>2 DEF FrameInv, FrameFacts, frameVars

LEMMA FrameStep ==
    ASSUME ProcessIsNull = {FALSE}, IInv, \A d \in Cores : Place(d), HomeInv, FrameInv,
           NEW c \in Cores, ElsewhereStep(c) \/ QueueStep(c)
    PROVE  FrameInv'
  <1> HIDE DEF Cores, AllProcs
  <1> SUFFICES FrameFacts'
    BY OwnStep DEF FrameInv, FrameFacts
  <1>1. CASE UserStep(c)
    <2>0. PICK p \in AllProcs :
              \E at : /\ p = live[c].proc /\ pc[c] = "user"
                      /\ live' = [live EXCEPT ![c].at = at]
                      /\ reached' = [reached EXCEPT ![p] = at]
      BY <1>1, NullIsNone DEF UserStep, IInv, TypeOK, Locals
    <2>1. PICK at : /\ p = live[c].proc /\ pc[c] = "user"
                    /\ live' = [live EXCEPT ![c].at = at]
                    /\ reached' = [reached EXCEPT ![p] = at]
      BY <2>0
    <2>2. UNCHANGED <<pc, tf>> /\ OnCore(c, p)
      BY <1>1, <2>1 DEF UserStep, OnCore, GivenUp
    <2>3. \A d \in Cores : d # c /\ Fresh(d) => live[d].proc # p
      BY <2>2, FreshElsewhere
    <2>4. /\ \A d \in Cores : live'[d].proc = live[d].proc
          /\ \A d \in Cores : d # c => live'[d].at = live[d].at
          /\ live'[c].at = at /\ reached'[p] = at
          /\ \A q \in AllProcs : q # p => reached'[q] = reached[q]
      BY <2>1 DEF IInv, TypeOK
    <2>5. \A d \in Cores : InUse(d)' <=> InUse(d)
      BY <2>2, <2>4 DEF InUse, Fresh
    <2>6. InUse(c)
      BY <2>1, NullIsNone DEF InUse, Fresh
    <2>7. \A d \in Cores : InUse(d) => live[d].proc \in AllProcs /\ Fresh(d)
      BY DEF InUse, IInv, TypeOK
    <2> QED BY <2>1, <2>2, <2>3, <2>4, <2>5, <2>6, <2>7 DEF FrameInv, FrameFacts
  <1>2. CASE Save(c)
    <2>1. PICK p \in AllProcs : p = live[c].proc /\ p = curProc[c]
      BY <1>2, NullIsNone DEF Save, Goto, IInv, TypeOK, Locals, Place
    <2>2. /\ pc[c] = "save" /\ pc'[c] = "deqTest" /\ UNCHANGED <<live, reached>>
          /\ tf' = [tf EXCEPT ![p] = live[c].at]
          /\ \A d \in Cores : d # c => pc'[d] = pc[d]
      BY <1>2, <2>1 DEF Save, Goto, IInv, TypeOK, coreVars
    <2>3. InUse(c) /\ ~InUse(c)'
      BY <2>1, <2>2, NullIsNone DEF InUse, Fresh
    <2>4. \A d \in Cores : d # c => (InUse(d)' <=> InUse(d))
      BY <2>2 DEF InUse, Fresh
    <2>5. tf'[p] = reached[p] /\ \A q \in AllProcs : q # p => tf'[q] = tf[q]
      BY <2>1, <2>2, <2>3, ZenonT(60) DEF FrameInv, IInv, TypeOK
    <2> QED BY <2>1, <2>2, <2>3, <2>4, <2>5, ZenonT(60) DEF FrameInv, FrameFacts
  <1>3. CASE Load(c)
    <2>1. PICK p \in AllProcs : p = next[c]
      BY <1>3 DEF Load, Goto, IInv, TypeOK, Locals
    <2>2. /\ pc[c] = "load" /\ pc'[c] = "done" /\ UNCHANGED <<tf, reached>>
          /\ live' = [live EXCEPT ![c] = [proc |-> p, at |-> tf[p]]]
          /\ \A d \in Cores : d # c => pc'[d] = pc[d]
      BY <1>3, <2>1 DEF Load, Goto, IInv, TypeOK, frameVars
    <2>3. live'[c].proc = p /\ live'[c].at = tf[p]
          /\ \A d \in Cores : d # c => live'[d] = live[d]
      BY <2>2 DEF IInv, TypeOK
    <2>4. ~InUse(c) /\ InUse(c)'
      BY <2>2, <2>3, NullIsNone DEF InUse, Fresh
    <2>5. \A d \in Cores : d # c => (InUse(d)' <=> InUse(d))
      BY <2>2, <2>3 DEF InUse, Fresh
    <2>6. Held(c, p)
      BY <2>1, NullIsNone DEF Held, InHand
    <2>7. \A d \in Cores : InUse(d) => live[d].proc # p
      BY <2>4, <2>6, FreshElsewhere DEF InUse
    <2>8. tf[p] = reached[p]
      BY <2>7 DEF FrameInv
    <2> QED BY <2>2, <2>3, <2>4, <2>5, <2>8 DEF FrameInv, FrameFacts
  <1> QED BY <1>1, <1>2, <1>3, SameFrames

------------------------------------------------------------------------------
LEMMA HInvInit == Init => HInv
  <1> SUFFICES ASSUME Init PROVE HInv
    OBVIOUS
  <1> USE DEF Init, QueuesEmpty, ArbiterReset, CoresStarted
  <1>1. IInv
    BY IInvInit
  <1>2. Bsp \in Cores
    BY ONLY CoresAssumption DEF Bsp, Cores
  <1>3. /\ pc \in [Cores -> {"user", "idle"}] /\ pc[Bsp] = "user"
        /\ \A c \in Cores : /\ pc[c] = "idle" <=> c # Bsp
                            /\ curProc[c] = NULL /\ next[c] = NULL /\ elem[c] = NULL
                            /\ live[c].proc = IF c = Bsp THEN InitProc ELSE NULL
                            /\ live[c].at = 0 /\ cr3[c] = live[c].proc
                            /\ armed[c] = (c # Bsp) /\ queue[c] = <<>>
    BY <1>2
  <1>4. \A c \in Cores : Place(c)
    BY <1>3 DEF Place, QueuedOwn, InSchedule
  <1>5. \A c \in Cores : \A p \in AllProcs :
            /\ OnCore(c, p) <=> c = Bsp /\ p = InitProc
            /\ ~Held(c, p) /\ \A k \in Nat : ~Queued(c, k, p)
    BY <1>3, NullIsNone DEF OnCore, GivenUp, Held, InHand, Queued
  <1>6. \A p \in AllProcs : p \in unborn <=> p # InitProc
    <2>1. unborn = Procs
      OBVIOUS
    <2> QED BY ONLY <2>1, ProcsAssumption DEF AllProcs
  <1>7. HomeInv
    BY <1>2, <1>5, <1>6 DEF HomeInv, AtMostOne, Somewhere
  <1>8. FrameInv
    <2>1. \A c \in Cores : ~OwnInQueue(c)
      BY <1>3 DEF OwnInQueue, QueuedOwn
    <2>2. \A p \in AllProcs : tf[p] = 0 /\ reached[p] = 0
      OBVIOUS
    <2>3. \A c \in Cores : InUse(c) => live[c].proc = InitProc
      BY <1>3 DEF InUse
    <2>4. InitProc \in AllProcs
      BY ONLY DEF AllProcs
    <2> QED BY <1>3, <2>1, <2>2, <2>3, <2>4 DEF FrameInv
  <1> QED BY <1>1, <1>4, <1>7, <1>8 DEF HInv

LEMMA HInvStep == ProcessIsNull = {FALSE} /\ HInv /\ [Next]_vars => HInv'
  <1> SUFFICES ASSUME ProcessIsNull = {FALSE}, HInv, [Next]_vars PROVE HInv'
    OBVIOUS
  <1>1. IInv'
    BY IInvStep DEF HInv
  <1>2. CASE Next
    <2>1. PICK c \in Cores : ElsewhereStep(c) \/ QueueStep(c)
      BY <1>2 DEF Next, Kernel, ElsewhereStep, QueueStep
    <2> QED BY <1>1, <2>1, PlaceStep, HomeStep, FrameStep DEF HInv
  <1>3. CASE UNCHANGED vars
    <2>1. \A c \in Cores : Place(c)'
      BY <1>3 DEF HInv, Place, QueuedOwn, vars, coreVars, queueVars, callVars
    <2>2. \A p \in AllProcs : SameHome(p)
      BY <1>3 DEF SameHome, OnCore, GivenUp, Held, InHand, Queued, vars, coreVars, queueVars,
         callVars
    <2>3. HomeInv'
      BY <2>2, AllStay DEF HInv
    <2>4. FrameInv'
      BY <1>3 DEF HInv, FrameInv, InUse, Fresh, OwnInQueue, QueuedOwn, Queued, vars, coreVars,
         queueVars, callVars, frameVars
    <2> QED BY <1>1, <2>1, <2>3, <2>4 DEF HInv
  <1> QED BY <1>2, <1>3

LEMMA HInvAlways == ProcessIsNull = {FALSE} => (Spec => []HInv)
  <1> SUFFICES ASSUME ProcessIsNull = {FALSE} PROVE Spec => []HInv
    OBVIOUS
  <1>1. Init => HInv
    BY HInvInit
  <1>2. HInv /\ [Next]_vars => HInv'
    BY HInvStep
  <1> QED BY <1>1, <1>2, PTL DEF Spec

------------------------------------------------------------------------------
LEMMA HomesArePlaces ==
    ASSUME NEW p
    PROVE  \A h : h \in Homes(p) <=>
              \E c \in Cores : \/ h = <<"core", c, 0>> /\ OnCore(c, p)
                               \/ h = <<"hand", c, 0>> /\ Held(c, p)
                               \/ \E k : h = <<"queue", c, k>> /\ Queued(c, k, p)
  BY DEF Homes, OnCore, Held, Queued

LEMMA SlotsAreNumbers ==
    ASSUME IInv, NEW c \in Cores, NEW k, NEW p, Queued(c, k, p)
    PROVE  k \in Nat
  BY SMTT(60) DEF IInv, TypeOK, Queued

LEMMA HomeInvImpliesOneHome == HInv => OneHome
  <1> SUFFICES ASSUME HInv, NEW p \in AllProcs
               PROVE  IF p \in unborn THEN Homes(p) = {}
                      ELSE \E h \in Homes(p) : Homes(p) = {h}
    BY DEF OneHome
  <1>1. IInv /\ AtMostOne(p) /\ (p \in unborn <=> ~Somewhere(p))
    BY DEF HInv, HomeInv
  <1>2. CASE p \in unborn
    <2>1. \A c \in Cores : ~OnCore(c, p) /\ ~Held(c, p) /\ \A k : ~Queued(c, k, p)
      BY <1>1, <1>2, SlotsAreNumbers DEF Somewhere
    <2>2. \A h : h \notin Homes(p)
      BY ONLY <2>1, HomesArePlaces
    <2> QED BY <1>2, <2>2
  <1>3. CASE p \notin unborn
    <2>1. Somewhere(p)
      BY <1>1, <1>3
    <2>2. \E h : h \in Homes(p)
      BY ONLY <2>1, HomesArePlaces DEF Somewhere
    <2>3. ASSUME NEW g \in Homes(p), NEW h \in Homes(p) PROVE g = h
      <3>1. PICK c \in Cores : \/ g = <<"core", c, 0>> /\ OnCore(c, p)
                               \/ g = <<"hand", c, 0>> /\ Held(c, p)
                               \/ \E k : g = <<"queue", c, k>> /\ Queued(c, k, p)
        BY <2>3, HomesArePlaces
      <3>2. PICK d \in Cores : \/ h = <<"core", d, 0>> /\ OnCore(d, p)
                               \/ h = <<"hand", d, 0>> /\ Held(d, p)
                               \/ \E k : h = <<"queue", d, k>> /\ Queued(d, k, p)
        BY <2>3, HomesArePlaces
      <3>3. \A e \in Cores : \A k : Queued(e, k, p) => k \in Nat
        BY <1>1, SlotsAreNumbers
      <3> QED BY ONLY <1>1, <3>1, <3>2, <3>3 DEF AtMostOne
    <2>4. \E h \in Homes(p) : \A g : g \in Homes(p) <=> g = h
      BY <2>2, <2>3
    <2>5. \E h \in Homes(p) : Homes(p) = {h}
      BY <2>4
    <2> QED BY <1>3, <2>5
  <1> QED BY <1>2, <1>3

LEMMA HInvImpliesResumes == HInv => ResumesWhereStopped
  <1> SUFFICES ASSUME HInv, NEW c \in Cores, pc[c] = "user"
               PROVE  /\ live[c].at = reached[live[c].proc]
                      /\ cr3[c] = live[c].proc
                      /\ c # Bsp => curProc[c] = live[c].proc
    BY DEF ResumesWhereStopped
  <1>1. Place(c) /\ FrameInv /\ Locals(c)
    BY DEF HInv, IInv
  <1>2. InUse(c)
    BY <1>1 DEF InUse, Fresh, Locals
  <1> QED BY <1>1, <1>2 DEF Place, FrameInv

(***************************************************************************)
(* With the queue test as its author meant it, no interleaving of the      *)
(* cores' ticks (halSchedSwitch, platform/amd64/ke/process.c:120-163), of  *)
(* keScheduleProc and of keDequeueProc (sched.c:37-84) loses a process,    *)
(* queues it twice or runs it twice.                                       *)
(***************************************************************************)
THEOREM ProcessesHaveOneHome == ProcessIsNull = {FALSE} => (Spec => []OneHome)
  <1> SUFFICES ASSUME ProcessIsNull = {FALSE} PROVE Spec => []OneHome
    OBVIOUS
  <1>1. Spec => []HInv
    BY HInvAlways
  <1>2. HInv => OneHome
    BY HomeInvImpliesOneHome
  <1> QED BY <1>1, <1>2, PTL

(***************************************************************************)
(* halSchedSwitch queues the interrupted process before it saves its frame *)
(* (platform/amd64/ke/process.c:136-145).  No other core can take it from  *)
(* that queue in between, so a process resumes exactly where it was        *)
(* stopped.                                                                *)
(***************************************************************************)
THEOREM ResumesExactly == ProcessIsNull = {FALSE} => (Spec => []ResumesWhereStopped)
  <1> SUFFICES ASSUME ProcessIsNull = {FALSE} PROVE Spec => []ResumesWhereStopped
    OBVIOUS
  <1>1. Spec => []HInv
    BY HInvAlways
  <1>2. HInv => ResumesWhereStopped
    BY HInvImpliesResumes
  <1> QED BY <1>1, <1>2, PTL
===============================================================================
