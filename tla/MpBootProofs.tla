----------------------------- MODULE MpBootProofs -----------------------------
(***************************************************************************)
(* Proofs about MpBoot, for any MADT, any number of processors, places in  *)
(* apList, frames and pool blocks, and any timing of the processors.       *)
(***************************************************************************)
EXTENDS MpBoot, FiniteSetTheorems, SequenceTheorems, TLAPS

BspPlaces == {"walk", "init", "startup1", "startup2", "settle", "done", "bugcheck"}
ApPlaces == {"off", "waitSipi", "trampoline", "entry", "kpcr", "store", "count",
             "tss", "lapic", "ist", "syscall", "release", "sched", "bugcheck"}

Cores == [rsp0 : Nat, syscallStack : Nat, freq : Int, wrapped : BOOLEAN]
Owners == {NoOwner} \union ({"stack", "rsp0", "ist", "syscall"} \X Aps)

Types ==
    /\ bsp \in BspPlaces /\ entry \in Nat \ {0} /\ desc \in Nat
    /\ pc \in [Aps -> ApPlaces]
    /\ rsp \in [Aps -> Nat] /\ slot \in [Aps -> Nat]
    /\ core \in [Aps -> Cores]
    /\ apLock \in BOOLEAN /\ nAp \in 0 .. ApMax
    /\ apList \in [0 .. ApMax - 1 -> Aps \union {Unset}]
    /\ owner \in [Frames -> Owners]
    /\ pool \in Nat

\* A processor that stops with a bug check keeps the lock for ever.
InSection(a) == pc[a] \in {"kpcr", "store", "count", "tss", "lapic", "ist",
                           "syscall", "release", "bugcheck"}

LockInv ==
    /\ \A a \in Aps : InSection(a) => apLock
    /\ \A a, b \in Aps : InSection(a) /\ InSection(b) => a = b

Listed == {"tss", "lapic", "ist", "syscall", "release", "sched"}

(***************************************************************************)
(* The list up to nAp holds each processor that was counted, once.  It is  *)
(* full only when the assertion has stopped a core that has the lock: this *)
(* is why a store never goes past its end.                                 *)
(***************************************************************************)
ListInv ==
    /\ nAp = ApMax => \E a \in Aps : pc[a] = "bugcheck"
    /\ \A a \in Aps :
           pc[a] = "count" => slot[a] = nAp /\ nAp < ApMax /\ apList[nAp] = a
    /\ \A i \in 0 .. nAp - 1 :
           apList[i] \in Aps /\ pc[apList[i]] \in Listed \union {"bugcheck"}
    /\ \A i, j \in 0 .. nAp - 1 : apList[i] = apList[j] => i = j
    /\ \A a \in Aps : pc[a] \in Listed => \E i \in 0 .. nAp - 1 : apList[i] = a

------------------------------------------------------------------------------
(***************************************************************************)
(* The walk over the MADT: processors it has not come to are off, the      *)
(* descriptor is the frame of the one it is at, and only that one can be   *)
(* in the trampoline when the waits are long enough.                       *)
(***************************************************************************)
Ahead(k) == k > entry \/ (k = entry /\ bsp \in {"walk", "init"})
Starting == bsp \in {"init", "startup1", "startup2", "settle"}

WalkInv ==
    /\ \A k \in DOMAIN Madt :
           Ahead(k) /\ Madt[k].type = "lapic" /\ Madt[k].apicId # BspId
               => pc[Madt[k].apicId] = "off"
    /\ Starting => entry \in DOMAIN Madt /\ IsOther
    /\ Starting => \E f \in Frames : desc = f * PageSize /\ owner[f] = <<"stack", This>>
    /\ \A a \in Aps : pc[a] # "off" => a \in Present
    /\ TrampolineDelay = "bounded" =>
           \A a \in Aps : pc[a] = "trampoline" =>
               bsp \in {"startup2", "settle"} /\ a = This

StackInv ==
    TrampolineDelay = "bounded" =>
        \A a \in Aps : HasStack(a) =>
            \E f \in Frames : rsp[a] = f * PageSize /\ owner[f] = <<"stack", a>>

\* What halCpuInit has made of a processor by the place it is at.
CoreFacts(a) ==
    /\ pc[a] \in {"lapic", "ist", "syscall", "release", "sched"} =>
           \E f \in Frames : /\ core[a].rsp0 = f * PageSize + PageSize
                             /\ owner[f] = <<"rsp0", a>>
    /\ pc[a] \in {"ist", "syscall", "release", "sched"} =>
           core[a].wrapped \/ core[a].freq >= PerUsec
    /\ pc[a] \in {"release", "sched"} =>
           \E f \in Frames : /\ core[a].syscallStack = f * PageSize + PageSize - 1
                             /\ owner[f] = <<"syscall", a>>

CoreInv == \A a \in Aps : CoreFacts(a)

IInv == Types /\ LockInv /\ ListInv /\ WalkInv /\ StackInv /\ CoreInv

------------------------------------------------------------------------------
LEMMA ThisIsAp ==
    ASSUME entry \in DOMAIN Madt, IsOther
    PROVE  This \in Aps
BY DEF IsOther, This, Aps

LEMMA ApIds == Aps \subseteq 0 .. 255 /\ Unset \notin Aps
<1>1. DOMAIN Madt = 1 .. Len(Madt)
  BY MadtAssumption
<1>2. ASSUME NEW k \in DOMAIN Madt
      PROVE  Madt[k].apicId \in 0 .. 255
  <2>1. Madt[k] \in [type : {"lapic", "ioapic"}, apicId : 0 .. 255]
    BY <1>1, MadtAssumption, ElementOfSeq, ZenonT(60)
  <2> QED
    BY <2>1
<1> QED
  BY <1>2 DEF Aps, Unset

\* No frame is taken for two things.
LEMMA OwnersStay ==
    ASSUME Types, NEW who, NEW f \in Frames, AllocFrame(f, who)
    PROVE  \A g \in Frames : owner[g] # NoOwner => owner'[g] = owner[g]
BY DEF AllocFrame, FreeFrames, Types

LEMMA TakeFrameOwners ==
    ASSUME Types, NEW a \in Aps, NEW from, NEW to, NEW what, NEW newCore,
           TakeFrame(a, from, to, what, newCore)
    PROVE  \A g \in Frames : owner[g] # NoOwner => owner'[g] = owner[g]
BY OwnersStay DEF TakeFrame

------------------------------------------------------------------------------
(***************************************************************************)
(* Types.  Store is the step that needs more than types: its index is in   *)
(* bounds because nobody stores to a full list.                            *)
(***************************************************************************)
LEMMA StoreInBounds ==
    ASSUME Types, LockInv, ListInv, NEW a \in Aps, pc[a] = "store"
    PROVE  nAp \in 0 .. ApMax - 1
<1>1. \A b \in Aps : pc[b] # "bugcheck"
  BY DEF LockInv, InSection
<1> QED
  BY <1>1, CountAssumption DEF ListInv, Types

LEMMA BspTypes ==
    ASSUME Types, Bsp
    PROVE  Types'
<1> USE DEF Types, BspPlaces, BspGoto, apVars, listVars, memVars
<1>1. CASE SkipEntry
  BY <1>1 DEF SkipEntry
<1>2. CASE WriteDescriptor
  <2>1. entry \in DOMAIN Madt
    BY <1>2, MadtAssumption DEF WriteDescriptor
  <2>2. CASE FreeFrames = {} /\ desc' = 0 /\ UNCHANGED owner
    BY <1>2, <2>2 DEF WriteDescriptor
  <2>3. ASSUME NEW f \in Frames, AllocFrame(f, <<"stack", This>>), desc' = f * PageSize
        PROVE  desc' \in Nat /\ owner' \in [Frames -> Owners]
    <3>1. desc' \in Nat
      BY <2>3, LowMemoryAssumption, CountAssumption
    <3>2. This \in Aps
      BY <1>2, <2>1, ThisIsAp DEF WriteDescriptor
    <3> QED
      BY <2>3, <3>1, <3>2 DEF AllocFrame, Owners
  <2> QED
    BY <1>2, <2>2, <2>3 DEF WriteDescriptor
<1>3. CASE SendInit
  BY <1>3 DEF SendInit, ApPlaces
<1>4. CASE SendStartup
  BY <1>4 DEF SendStartup, Started, ApPlaces
<1>5. CASE Settle
  BY <1>5 DEF Settle
<1>6. CASE WalkEnds
  BY <1>6 DEF WalkEnds
<1> QED
  BY <1>1, <1>2, <1>3, <1>4, <1>5, <1>6 DEF Bsp

LEMMA TakeFrameTypes ==
    ASSUME Types, NEW a \in Aps, NEW from, NEW to \in ApPlaces,
           NEW what \in {"stack", "rsp0", "ist", "syscall"},
           NEW newCore \in [Frames -> Cores],
           TakeFrame(a, from, to, what, newCore)
    PROVE  Types'
<1> USE DEF TakeFrame, Types, Goto, bspVars, listVars
<1>1. "bugcheck" \in ApPlaces
  BY DEF ApPlaces
<1>2. CASE FreeFrames = {} /\ UNCHANGED <<owner, core>>
  BY <1>1, <1>2
<1>3. ASSUME NEW f \in Frames, AllocFrame(f, <<what, a>>),
             core' = [core EXCEPT ![a] = newCore[f]]
      PROVE  owner' \in [Frames -> Owners] /\ core' \in [Aps -> Cores]
  BY <1>3 DEF AllocFrame, Owners
<1> QED
  BY <1>1, <1>2, <1>3, ZenonT(60)

(***************************************************************************)
(* The calibration: between two readings of the counter that did not start *)
(* again in between, it has counted what has elapsed.                      *)
(***************************************************************************)
LEMMA FrequencyBound ==
    ASSUME NEW s \in Starts, NEW e \in Elapsed
    PROVE  /\ Frequency(s, e) \in Int
           /\ e <= s /\ Frequency(s, e) # Faulty => Frequency(s, e) >= PerUsec
<1> DEFINE total == s - ((s - e) % (Samples + 1))
<1>1. s \in 0 .. Samples /\ e \in Nat /\ Samples \in Nat \ {0} /\ total \in Int
  BY CountAssumption
<1>2. /\ total = 0 => Frequency(s, e) = Faulty
      /\ total > 0 => Frequency(s, e) = (Samples \div total) * Dividend
      /\ total < 0 => Frequency(s, e) = 0
  BY <1>1 DEF Frequency
<1>3. Frequency(s, e) \in Int
  <2>1. CASE total > 0
    <3>1. Samples \div total \in Int
      BY <1>1, <2>1
    <3> QED
      BY <1>2, <2>1, <3>1, CountAssumption
  <2> QED
    BY <1>1, <1>2, <2>1 DEF Faulty
<1>4. ASSUME e <= s, Frequency(s, e) # Faulty
      PROVE  Frequency(s, e) >= PerUsec
  <2>1. s - e \in 0 .. Samples
    BY <1>1, <1>4
  <2>2. (s - e) % (Samples + 1) = s - e
    BY <1>1, <2>1
  <2>3. total = e /\ e > 0
    BY <1>1, <1>2, <1>4, <2>2
  <2>4. Samples \div total >= 1
    BY <1>1, <1>4, <2>3
  <2> DEFINE q == Samples \div total
  <2>5. q \in Nat /\ q >= 1
    BY <1>1, <2>3, <2>4
  <2>6. q * Dividend >= Dividend
    <3> HIDE DEF q
    <3> QED
      BY <2>5, CountAssumption
  <2> QED
    BY <1>2, <2>3, <2>5, <2>6, CountAssumption
<1> QED
  BY <1>3, <1>4

LEMMA ApTypes ==
    ASSUME Types, LockInv, ListInv, NEW a \in Aps, Ap(a)
    PROVE  Types'
<1> USE DEF Goto, bspVars, apVars, listVars, memVars
<1>1. CASE Trampoline(a)
  BY <1>1 DEF Trampoline, Types, ApPlaces
<1>2. CASE Acquire(a)
  BY <1>2 DEF Acquire, Types, ApPlaces
<1>3. CASE AllocKpcr(a)
  <2>1. pool' \in Nat
    BY <1>3 DEF AllocKpcr, Types
  <2>2. pc' \in [Aps -> ApPlaces]
    BY <1>3 DEF AllocKpcr, Types, ApPlaces
  <2> QED
    BY <1>3, <2>1, <2>2 DEF AllocKpcr, Types
<1>4. CASE Store(a)
  <2>1. nAp \in 0 .. ApMax - 1
    BY <1>4, StoreInBounds DEF Store
  <2>2. apList' \in [0 .. ApMax - 1 -> Aps \union {Unset}]
    BY <1>4, <2>1 DEF Store, Types
  <2> QED
    BY <1>4, <2>1, <2>2 DEF Store, Types, ApPlaces
<1>5. CASE Count(a)
  BY <1>5, CountAssumption DEF Count, Types, ApPlaces, ListInv
<1>6. CASE InitTss(a)
  <2>1. [f \in Frames |-> [core[a] EXCEPT !.rsp0 = f * PageSize + PageSize]]
            \in [Frames -> Cores]
    <3>1. \A f \in Frames : f * PageSize + PageSize \in Nat
      BY CountAssumption, LowMemoryAssumption
    <3> QED
      BY <3>1, ZenonT(60) DEF Types, Cores
  <2> QED
    BY <1>6, <2>1, TakeFrameTypes DEF InitTss, ApPlaces
<1>7. CASE Calibrate(a)
  <2>1. PICK s \in Starts, e \in Elapsed :
            /\ pc' = [pc EXCEPT ![a] =
                          IF Frequency(s, e) = Faulty THEN "bugcheck" ELSE "ist"]
            /\ core' = [core EXCEPT ![a].freq = Frequency(s, e),
                                    ![a].wrapped = e > s]
    BY <1>7 DEF Calibrate
  <2>2. Frequency(s, e) \in Int /\ (e > s) \in BOOLEAN
    BY FrequencyBound
  <2>3. core' \in [Aps -> Cores]
    BY <2>1, <2>2, ZenonT(60) DEF Types, Cores
  <2>4. pc' \in [Aps -> ApPlaces]
    BY <2>1 DEF Types, ApPlaces
  <2> QED
    BY <1>7, <2>3, <2>4 DEF Calibrate, Types
<1>8. CASE InitTimerStack(a)
  <2>1. [f \in Frames |-> core[a]] \in [Frames -> Cores]
    BY DEF Types
  <2> QED
    BY <1>8, <2>1, TakeFrameTypes DEF InitTimerStack, ApPlaces
<1>9. CASE InitSyscallStack(a)
  <2>1. [f \in Frames |-> [core[a] EXCEPT !.syscallStack = f * PageSize + PageSize - 1]]
            \in [Frames -> Cores]
    <3>1. \A f \in Frames : f * PageSize + PageSize - 1 \in Nat
      BY CountAssumption, LowMemoryAssumption
    <3> QED
      BY <3>1, ZenonT(60) DEF Types, Cores
  <2> QED
    BY <1>9, <2>1, TakeFrameTypes DEF InitSyscallStack, ApPlaces
<1>10. CASE Release(a)
  BY <1>10 DEF Release, Types, ApPlaces
<1> QED
  BY <1>1, <1>2, <1>3, <1>4, <1>5, <1>6, <1>7, <1>8, <1>9, <1>10 DEF Ap

------------------------------------------------------------------------------
(***************************************************************************)
(* The bootstrap core only ever starts processors: one that runs is out of *)
(* its reach, because the walk does not come to an entry twice.            *)
(***************************************************************************)
LEMMA BspMoves ==
    ASSUME Types, WalkInv, Bsp
    PROVE  /\ UNCHANGED <<apVars, listVars>>
           /\ \A a \in Aps : \/ pc'[a] = pc[a]
                             \/ pc[a] = "off" /\ pc'[a] = "waitSipi"
                             \/ pc[a] = "waitSipi" /\ pc'[a] = "trampoline"
<1>1. CASE SkipEntry \/ WriteDescriptor \/ Settle \/ WalkEnds
  BY <1>1 DEF SkipEntry, WriteDescriptor, Settle, WalkEnds, memVars
<1>2. CASE SendInit
  <2>1. entry \in DOMAIN Madt /\ Madt[entry].type = "lapic" /\ This # BspId
    BY <1>2 DEF SendInit, BspGoto, WalkInv, Starting, IsOther
  <2>2. pc[This] = "off"
    BY <1>2, <2>1 DEF SendInit, BspGoto, WalkInv, Ahead, This
  <2> QED
    BY <1>2, <2>2 DEF SendInit, Types
<1>3. CASE SendStartup
  BY <1>3 DEF SendStartup, Started, Types
<1> QED
  BY <1>1, <1>2, <1>3 DEF Bsp

\* Where a step of a processor starts and ends.
Way(from, to) == \/ from = "trampoline" /\ to = "entry"
                 \/ from = "entry" /\ to = "kpcr"
                 \/ from = "kpcr" /\ to \in {"store", "bugcheck"}
                 \/ from = "store" /\ to = "count"
                 \/ from = "count" /\ to \in {"tss", "bugcheck"}
                 \/ from = "tss" /\ to \in {"lapic", "bugcheck"}
                 \/ from = "lapic" /\ to \in {"ist", "bugcheck"}
                 \/ from = "ist" /\ to \in {"syscall", "bugcheck"}
                 \/ from = "syscall" /\ to \in {"release", "bugcheck"}
                 \/ from = "release" /\ to = "sched"

LEMMA ApMoves ==
    ASSUME NEW a \in Aps, Ap(a)
    PROVE  \E to : Way(pc[a], to) /\ pc' = [pc EXCEPT ![a] = to]
<1> USE DEF Goto, Way
<1>1. CASE Trampoline(a) \/ Acquire(a) \/ AllocKpcr(a) \/ Store(a)
  BY <1>1 DEF Trampoline, Acquire, AllocKpcr, Store
<1>2. CASE Count(a)
  BY <1>2 DEF Count
<1>3. CASE Calibrate(a)
  BY <1>3 DEF Calibrate
<1>4. CASE InitTss(a) \/ InitTimerStack(a) \/ InitSyscallStack(a)
  BY <1>4 DEF InitTss, InitTimerStack, InitSyscallStack, TakeFrame
<1>5. CASE Release(a)
  BY <1>5 DEF Release
<1> QED
  BY <1>1, <1>2, <1>3, <1>4, <1>5 DEF Ap

\* The list is touched in two steps, the lock in two others.
LEMMA ApUnchanged ==
    ASSUME NEW a \in Aps, Ap(a)
    PROVE  /\ UNCHANGED bspVars
           /\ pc[a] \notin {"store", "count"} => UNCHANGED <<slot, apList, nAp>>
           /\ pc[a] \notin {"entry", "release"} => UNCHANGED apLock
           /\ pc[a] = "entry" => ~apLock /\ apLock'
           /\ pc[a] # "trampoline" => UNCHANGED rsp
<1> USE DEF Goto, bspVars, apVars, listVars, memVars
<1>1. CASE Trampoline(a) \/ Acquire(a) \/ AllocKpcr(a) \/ Store(a)
  BY <1>1 DEF Trampoline, Acquire, AllocKpcr, Store
<1>2. CASE Count(a) \/ Calibrate(a) \/ Release(a)
  BY <1>2 DEF Count, Calibrate, Release
<1>3. CASE InitTss(a) \/ InitTimerStack(a) \/ InitSyscallStack(a)
  BY <1>3 DEF InitTss, InitTimerStack, InitSyscallStack, TakeFrame
<1> QED
  BY <1>1, <1>2, <1>3 DEF Ap

------------------------------------------------------------------------------
\* The lock excludes.
LEMMA LockStep ==
    ASSUME Types, LockInv, WalkInv, Next
    PROVE  LockInv'
<1>1. CASE Bsp
  BY <1>1, BspMoves DEF LockInv, InSection, listVars
<1>2. ASSUME NEW a \in Aps, Ap(a)
      PROVE  LockInv'
  <2>1. PICK to : Way(pc[a], to) /\ pc' = [pc EXCEPT ![a] = to]
    BY <1>2, ApMoves
  <2>2. \A b \in Aps : b # a => pc'[b] = pc[b]
    BY <2>1 DEF Types
  <2>3. pc'[a] = to
    BY <2>1 DEF Types
  <2>4. CASE pc[a] = "entry"
    BY <1>2, <2>2, <2>4, ApUnchanged DEF LockInv, InSection
  <2>5. CASE pc[a] = "release"
    <3>1. to = "sched"
      BY <2>1, <2>5 DEF Way
    <3> QED
      BY <2>2, <2>3, <2>5, <3>1 DEF LockInv, InSection
  <2>6. CASE pc[a] = "trampoline"
    <3>1. to = "entry"
      BY <2>1, <2>6 DEF Way
    <3> QED
      BY <1>2, <2>2, <2>3, <2>6, <3>1, ApUnchanged DEF LockInv, InSection
  <2>7. CASE pc[a] \notin {"entry", "release", "trampoline"}
    <3>1. InSection(a)
      BY <2>1, <2>7 DEF Way, InSection
    <3> QED
      BY <1>2, <2>2, <2>7, <3>1, ApUnchanged DEF LockInv, InSection
  <2> QED
    BY <2>4, <2>5, <2>6, <2>7
<1> QED
  BY <1>1, <1>2 DEF Next

------------------------------------------------------------------------------
\* The list is exact.
LEMMA ListStep ==
    ASSUME Types, Types', LockInv, ListInv, WalkInv, Next
    PROVE  ListInv'
<1>1. CASE Bsp
  <2>1. UNCHANGED <<slot, apList, nAp>>
    BY <1>1, BspMoves DEF apVars, listVars
  <2>2. \A b \in Aps :
            pc'[b] = pc[b] \/ {pc[b], pc'[b]} \subseteq {"off", "waitSipi", "trampoline"}
    BY <1>1, BspMoves
  <2> QED
    BY <2>1, <2>2 DEF ListInv, Listed
<1>2. ASSUME NEW a \in Aps, Ap(a)
      PROVE  ListInv'
  <2>1. PICK to : Way(pc[a], to) /\ pc' = [pc EXCEPT ![a] = to]
    BY <1>2, ApMoves
  <2>2. pc'[a] = to /\ \A b \in Aps : b # a => pc'[b] = pc[b]
    BY <2>1 DEF Types
  <2>3. CASE pc[a] = "store"
    <3>1. nAp \in 0 .. ApMax - 1
      BY <2>3, StoreInBounds
    <3>2. /\ slot' = [slot EXCEPT ![a] = nAp] /\ nAp' = nAp /\ to = "count"
          /\ apList' = [i \in DOMAIN apList \union {nAp} |->
                            IF i = nAp THEN a ELSE apList[i]]
      <4>1. Store(a)
        BY <1>2, <2>3 DEF Ap, Trampoline, Acquire, AllocKpcr, Store, Count, InitTss,
             Calibrate, InitTimerStack, InitSyscallStack, Release, TakeFrame, Goto
      <4> QED
        BY <2>2, <4>1 DEF Store, Goto, Types
    <3>3. \A b \in Aps : b # a => pc[b] # "count"
      BY <2>3 DEF LockInv, InSection
    <3>4. apList'[nAp] = a /\ slot'[a] = nAp
      BY <3>1, <3>2 DEF Types
    <3>5. \A i \in 0 .. nAp - 1 : apList'[i] = apList[i] /\ apList[i] # a
      <4>1. \A i \in 0 .. nAp - 1 : apList[i] # a
        BY <2>3 DEF ListInv, Listed
      <4>2. \A i \in 0 .. nAp - 1 : i \in 0 .. ApMax - 1 /\ i # nAp
        BY <3>1, CountAssumption
      <4> QED
        BY <3>2, <4>1, <4>2 DEF Types
    <3>6. \A b \in Aps : pc'[b] = "count" =>
              slot'[b] = nAp' /\ nAp' < ApMax /\ apList'[nAp'] = b
      BY <2>2, <3>1, <3>2, <3>3, <3>4, CountAssumption
    <3>7. \A b \in Aps : pc'[b] \in Listed \union {"bugcheck"} => b # a /\ pc'[b] = pc[b]
      BY <2>2, <3>2 DEF Listed
    <3>8. nAp' # ApMax
      BY <3>1, <3>2, CountAssumption
    <3>9. \A i \in 0 .. nAp' - 1 :
              apList'[i] \in Aps /\ pc'[apList'[i]] \in Listed \union {"bugcheck"}
      BY <2>2, <3>2, <3>5, SMTT(60) DEF ListInv
    <3>10. ASSUME NEW i \in 0 .. nAp' - 1, NEW j \in 0 .. nAp' - 1, apList'[i] = apList'[j]
           PROVE  i = j
      <4>1. i \in 0 .. nAp - 1 /\ j \in 0 .. nAp - 1 /\ apList[i] = apList[j]
        BY <3>2, <3>5, <3>10
      <4> QED
        BY <4>1 DEF ListInv
    <3>11. ASSUME NEW b \in Aps, pc'[b] \in Listed
           PROVE  \E i \in 0 .. nAp' - 1 : apList'[i] = b
      <4>1. pc[b] \in Listed
        BY <3>7, <3>11
      <4>2. PICK i \in 0 .. nAp - 1 : apList[i] = b
        BY <4>1 DEF ListInv
      <4> QED
        BY <3>2, <3>5, <4>2
    <3> QED
      BY <3>6, <3>8, <3>9, <3>10, <3>11 DEF ListInv
  <2>4. CASE pc[a] = "count"
    <3>1. /\ nAp' = nAp + 1 /\ UNCHANGED <<slot, apList>>
          /\ nAp < ApMax /\ apList[nAp] = a
          /\ to = IF nAp' < ApMax THEN "tss" ELSE "bugcheck"
      <4>1. Count(a)
        BY <1>2, <2>4 DEF Ap, Trampoline, Acquire, AllocKpcr, Store, Count, InitTss,
             Calibrate, InitTimerStack, InitSyscallStack, Release, TakeFrame, Goto
      <4>2. nAp' = nAp + 1 /\ nAp < ApMax /\ apList[nAp] = a
        BY <2>4, <4>1 DEF Count, ListInv
      <4> QED
        BY <2>2, <4>1, <4>2 DEF Count, Goto, Types, apVars
    <3>2. nAp \in Nat /\ ApMax \in Nat
      BY CountAssumption DEF Types
    <3>3. \A i \in 0 .. nAp' - 1 : i \in 0 .. nAp - 1 \/ i = nAp
      BY <3>1, <3>2
    <3>4. \A i \in 0 .. nAp - 1 : apList[i] # a
      BY <2>4 DEF ListInv, Listed
    <3>5. to \in Listed \union {"bugcheck"}
      BY <3>1 DEF Listed
    <3>6. \A b \in Aps : b # a => pc[b] # "count"
      BY <2>4 DEF LockInv, InSection
    <3>7. nAp' = ApMax => to = "bugcheck"
      BY <3>1, <3>2
    <3>8. \A i \in 0 .. nAp' - 1 :
              apList'[i] \in Aps /\ pc'[apList'[i]] \in Listed \union {"bugcheck"}
      BY <2>2, <3>1, <3>3, <3>4, <3>5 DEF ListInv
    <3>9. \A i, j \in 0 .. nAp' - 1 : apList'[i] = apList'[j] => i = j
      BY <3>1, <3>3, <3>4 DEF ListInv
    <3>10. ASSUME NEW b \in Aps, pc'[b] \in Listed
           PROVE  \E i \in 0 .. nAp' - 1 : apList'[i] = b
      <4>1. CASE b = a
        BY <3>1, <3>2, <4>1
      <4>2. CASE b # a
        BY <2>2, <3>1, <3>2, <3>10, <4>2 DEF ListInv
      <4> QED
        BY <4>1, <4>2
    <3> QED
      BY <2>2, <3>5, <3>6, <3>7, <3>8, <3>9, <3>10 DEF ListInv, Listed
  <2>5. CASE pc[a] \notin {"store", "count"}
    <3>1. UNCHANGED <<slot, apList, nAp>>
      BY <1>2, <2>5, ApUnchanged
    <3>2. /\ pc[a] \in Listed => to \in Listed \union {"bugcheck"}
          /\ pc[a] \notin Listed => to \notin Listed /\ pc[a] # "bugcheck"
          /\ pc[a] # "bugcheck" /\ to # "count"
      BY <2>1, <2>5 DEF Way, Listed
    <3> QED
      BY <2>2, <3>1, <3>2 DEF ListInv
  <2> QED
    BY <2>3, <2>4, <2>5
<1> QED
  BY <1>1, <1>2 DEF Next

------------------------------------------------------------------------------
\* The walk: each processor is started from its own entry, in its turn.
LEMMA DistinctIds ==
    ASSUME NEW j \in DOMAIN Madt, NEW k \in DOMAIN Madt,
           Madt[j].type = "lapic", Madt[k].type = "lapic",
           Madt[j].apicId = Madt[k].apicId
    PROVE  j = k
<1>1. DOMAIN Madt = 1 .. Len(Madt)
  BY MadtAssumption
<1>2. /\ Madt[j] \in [type : {"lapic", "ioapic"}, apicId : 0 .. 255]
      /\ Madt[k] \in [type : {"lapic", "ioapic"}, apicId : 0 .. 255]
  BY <1>1, MadtAssumption, ElementOfSeq, ZenonT(60)
<1>3. Madt[j] = Madt[k]
  BY <1>2
<1> QED
  BY <1>3, MadtAssumption

LEMMA OwnersKept ==
    ASSUME Types, Next
    PROVE  \A g \in Frames : owner[g] # NoOwner => owner'[g] = owner[g]
<1>1. CASE Bsp
  <2>1. CASE WriteDescriptor
    BY <2>1, OwnersStay DEF WriteDescriptor
  <2>2. CASE SkipEntry \/ SendInit \/ SendStartup \/ Settle \/ WalkEnds
    BY <2>2 DEF SkipEntry, SendInit, SendStartup, Settle, WalkEnds, memVars
  <2> QED
    BY <1>1, <2>1, <2>2 DEF Bsp
<1>2. ASSUME NEW a \in Aps, Ap(a)
      PROVE  \A g \in Frames : owner[g] # NoOwner => owner'[g] = owner[g]
  <2>1. CASE InitTss(a)
    BY <2>1, TakeFrameOwners DEF InitTss
  <2>2. CASE InitTimerStack(a)
    BY <2>2, TakeFrameOwners DEF InitTimerStack
  <2>3. CASE InitSyscallStack(a)
    BY <2>3, TakeFrameOwners DEF InitSyscallStack
  <2>4. CASE Trampoline(a) \/ Acquire(a) \/ AllocKpcr(a) \/ Store(a)
    BY <2>4 DEF Trampoline, Acquire, AllocKpcr, Store, memVars
  <2>5. CASE Count(a) \/ Calibrate(a) \/ Release(a)
    BY <2>5 DEF Count, Calibrate, Release, memVars
  <2> QED
    BY <1>2, <2>1, <2>2, <2>3, <2>4, <2>5 DEF Ap
<1> QED
  BY <1>1, <1>2 DEF Next

LEMMA WalkStep ==
    ASSUME Types, WalkInv, Next
    PROVE  WalkInv'
<1>1. \A g \in Frames : owner[g] # NoOwner => owner'[g] = owner[g]
  BY OwnersKept
<1>2. \A who : <<"stack", who>> # NoOwner
  BY DEF NoOwner
<1>3. DOMAIN Madt = 1 .. Len(Madt) /\ Len(Madt) \in Nat
  BY MadtAssumption
<1>4. CASE SkipEntry
  BY <1>3, <1>4 DEF SkipEntry, WalkInv, Ahead, Starting, Types
<1>5. CASE WriteDescriptor
  <2>1. entry \in DOMAIN Madt
    BY <1>3, <1>5 DEF WriteDescriptor, Types
  <2>2. \A f \in Frames : AllocFrame(f, <<"stack", This>>) => owner'[f] = <<"stack", This>>
    BY DEF AllocFrame, Types
  <2> QED
    BY <1>5, <2>1, <2>2
       DEF WriteDescriptor, BspGoto, WalkInv, Ahead, Starting, This, IsOther, Types
<1>6. CASE SendInit
  <2>1. entry \in DOMAIN Madt /\ Madt[entry].type = "lapic"
    BY <1>6 DEF SendInit, BspGoto, WalkInv, Starting, IsOther
  <2>2. \A k \in DOMAIN Madt :
            k # entry /\ Madt[k].type = "lapic" => Madt[k].apicId # This
    BY <2>1, DistinctIds DEF This
  <2>3. UNCHANGED <<owner, desc, entry>> /\ bsp = "init" /\ bsp' = "startup1"
    BY <1>6 DEF SendInit, BspGoto, memVars
  <2>4. \A a \in Aps : \/ pc'[a] = pc[a]
                       \/ a = This /\ a \in Present /\ pc'[a] = "waitSipi"
    BY <1>6 DEF SendInit, Types
  <2> QED
    BY <2>2, <2>3, <2>4, ThisIsAp, SMTT(60) DEF WalkInv, Ahead, Starting, IsOther, This, Aps, Types
<1>7. CASE SendStartup
  <2>1. UNCHANGED <<owner, desc, entry>>
        /\ bsp \in {"startup1", "startup2"} /\ bsp' \in {"startup2", "settle"}
    BY <1>7 DEF SendStartup, BspGoto, memVars
  <2>2. \A a \in Aps : \/ pc'[a] = pc[a]
                       \/ /\ a = This /\ a \in Present
                          /\ pc[a] = "waitSipi" /\ pc'[a] = "trampoline"
    BY <1>7 DEF SendStartup, Started, Types
  <2> QED
    BY <2>1, <2>2 DEF WalkInv, Ahead, Starting, IsOther, This, Aps
<1>8. CASE Settle
  <2>1. UNCHANGED <<pc, owner, desc>> /\ entry' = entry + 1 /\ bsp = "settle" /\ bsp' = "walk"
    BY <1>8 DEF Settle, BspGoto, memVars
  <2>2. \A k \in DOMAIN Madt : k >= entry' => k > entry
    BY <1>3, <2>1 DEF Types
  <2>3. TrampolineDelay = "bounded" => \A a \in Aps : pc[a] # "trampoline"
    BY <1>8 DEF Settle, WalkInv
  <2> QED
    BY <1>3, <2>1, <2>2, <2>3 DEF WalkInv, Ahead, Starting, Types
<1>9. CASE WalkEnds
  BY <1>3, <1>9 DEF WalkEnds, BspGoto, WalkInv, Ahead, Starting, Types
<1>10. ASSUME NEW a \in Aps, Ap(a)
       PROVE  WalkInv'
  <2>1. PICK to : Way(pc[a], to) /\ pc' = [pc EXCEPT ![a] = to]
    BY <1>10, ApMoves
  <2>2. pc[a] # "off" /\ pc'[a] \notin {"off", "trampoline"}
        /\ \A b \in Aps : b # a => pc'[b] = pc[b]
    BY <2>1 DEF Way, Types
  <2>3. UNCHANGED <<bsp, entry, desc>>
    BY <1>10, ApUnchanged DEF bspVars
  <2> QED
    BY <1>1, <1>2, <2>2, <2>3, ZenonT(60) DEF WalkInv, Ahead, Starting, IsOther, This, Aps
<1> QED
  BY <1>4, <1>5, <1>6, <1>7, <1>8, <1>9, <1>10 DEF Next, Bsp

------------------------------------------------------------------------------
\* Stacks: the one of the trampoline, and those halCpuInit allocates.
LEMMA StackStep ==
    ASSUME Types, WalkInv, StackInv, Next
    PROVE  StackInv'
<1> SUFFICES ASSUME TrampolineDelay = "bounded", NEW b \in Aps, HasStack(b)'
             PROVE  \E f \in Frames : rsp'[b] = f * PageSize /\ owner'[f] = <<"stack", b>>
  BY DEF StackInv
<1>1. \A f \in Frames : owner[f] = <<"stack", b>> => owner'[f] = <<"stack", b>>
  BY OwnersKept DEF NoOwner
<1>2. CASE HasStack(b) /\ rsp'[b] = rsp[b]
  <2>1. PICK f \in Frames : rsp[b] = f * PageSize /\ owner[f] = <<"stack", b>>
    BY <1>2 DEF StackInv
  <2> QED
    BY <1>1, <1>2, <2>1
<1>3. CASE Bsp
  BY <1>2, <1>3, BspMoves DEF HasStack, apVars
<1>4. ASSUME NEW a \in Aps, Ap(a)
      PROVE  \E f \in Frames : rsp'[b] = f * PageSize /\ owner'[f] = <<"stack", b>>
  <2>1. PICK to : Way(pc[a], to) /\ pc' = [pc EXCEPT ![a] = to]
    BY <1>4, ApMoves
  <2>2. CASE b = a /\ pc[a] = "trampoline"
    <3>1. rsp'[a] = desc
      <4>1. Trampoline(a)
        BY <1>4, <2>2 DEF Ap, Trampoline, Acquire, AllocKpcr, Store, Count, InitTss,
             Calibrate, InitTimerStack, InitSyscallStack, Release, TakeFrame, Goto
      <4> QED
        BY <4>1 DEF Trampoline, Types
    <3>2. a = This /\ Starting
      BY <2>2 DEF WalkInv, Starting
    <3>3. PICK f \in Frames : desc = f * PageSize /\ owner[f] = <<"stack", This>>
      BY <3>2 DEF WalkInv
    <3> QED
      BY <1>1, <2>2, <3>1, <3>2, <3>3
  <2>3. CASE b = a /\ pc[a] # "trampoline"
    BY <1>2, <1>4, <2>1, <2>3, ApUnchanged DEF HasStack, Way
  <2>4. CASE b # a
    <3>1. HasStack(b)
      BY <2>1, <2>4 DEF HasStack, Types
    <3>2. rsp'[b] = rsp[b]
      BY <1>4, <2>4 DEF Ap, Trampoline, Acquire, AllocKpcr, Store, Count, InitTss, Calibrate,
         InitTimerStack, InitSyscallStack, Release, TakeFrame, apVars, Types
    <3> QED
      BY <1>2, <3>1, <3>2
  <2> QED
    BY <2>2, <2>3, <2>4
<1> QED
  BY <1>3, <1>4 DEF Next


LEMMA CoreStep ==
    ASSUME Types, WalkInv, CoreInv, Next
    PROVE  CoreInv'
<1> SUFFICES ASSUME NEW b \in Aps
             PROVE  CoreFacts(b)'
  BY DEF CoreInv
<1>1. \A g \in Frames : owner[g] # NoOwner => owner'[g] = owner[g]
  BY OwnersKept
<1>2. /\ \A f \in Frames : owner[f] = <<"rsp0", b>> => owner'[f] = <<"rsp0", b>>
      /\ \A f \in Frames : owner[f] = <<"syscall", b>> => owner'[f] = <<"syscall", b>>
  BY <1>1 DEF NoOwner
<1>3. CASE core'[b] = core[b] /\ (pc'[b] = pc[b] \/ pc'[b] \notin
               {"lapic", "ist", "syscall", "release", "sched"})
  BY <1>2, <1>3 DEF CoreInv, CoreFacts
<1>4. CASE Bsp
  BY <1>3, <1>4, BspMoves DEF apVars
<1>5. ASSUME NEW a \in Aps, Ap(a), b # a
      PROVE  CoreFacts(b)'
  <2>1. pc'[b] = pc[b]
    BY <1>5, ApMoves DEF Types
  <2>2. core'[b] = core[b]
    BY <1>5 DEF Ap, Trampoline, Acquire, AllocKpcr, Store, Count, InitTss, Calibrate,
       InitTimerStack, InitSyscallStack, Release, TakeFrame, apVars, Types
  <2> QED
    BY <1>3, <2>1, <2>2
<1>6. CASE Trampoline(b) \/ Acquire(b) \/ AllocKpcr(b) \/ Store(b)
  <2>1. core'[b] = core[b]
    BY <1>6 DEF Trampoline, Acquire, AllocKpcr, Store, apVars
  <2>2. pc'[b] \notin {"lapic", "ist", "syscall", "release", "sched"}
    BY <1>6 DEF Trampoline, Acquire, AllocKpcr, Store, Goto, Types
  <2> QED
    BY <1>3, <2>1, <2>2
<1>7. CASE Count(b)
  BY <1>3, <1>7 DEF Count, apVars, Goto, Types
<1>8. CASE InitTss(b)
  <2>1. CASE pc'[b] = "bugcheck"
    BY <2>1 DEF CoreFacts
  <2>2. CASE pc'[b] # "bugcheck"
    <3>1. PICK f \in Frames : /\ AllocFrame(f, <<"rsp0", b>>)
                              /\ core' = [core EXCEPT ![b] =
                                     [core[b] EXCEPT !.rsp0 = f * PageSize + PageSize]]
      BY <1>8, <2>2 DEF InitTss, TakeFrame, Goto, Types
    <3>2. pc'[b] = "lapic"
      BY <1>8, <2>2 DEF InitTss, TakeFrame, Goto, Types
    <3>3. owner'[f] = <<"rsp0", b>>
      BY <3>1 DEF AllocFrame, Types
    <3>4. core'[b].rsp0 = f * PageSize + PageSize
      BY <3>1 DEF Types, Cores
    <3> QED
      BY <3>2, <3>3, <3>4 DEF CoreFacts
  <2> QED
    BY <2>1, <2>2
<1>9. CASE Calibrate(b)
  <2>1. CASE pc'[b] = "bugcheck"
    BY <2>1 DEF CoreFacts
  <2>2. CASE pc'[b] # "bugcheck"
    <3>1. PICK s \in Starts, e \in Elapsed :
              /\ Goto(b, "lapic", IF Frequency(s, e) = Faulty THEN "bugcheck" ELSE "ist")
              /\ core' = [core EXCEPT ![b].freq = Frequency(s, e), ![b].wrapped = e > s]
      BY <1>9 DEF Calibrate
    <3>2. pc[b] = "lapic" /\ pc'[b] = "ist" /\ Frequency(s, e) # Faulty
      BY <2>2, <3>1 DEF Goto, Types
    <3>3. e > s \/ Frequency(s, e) >= PerUsec
      BY <3>2, FrequencyBound, CountAssumption
    <3>4. /\ core'[b].rsp0 = core[b].rsp0
          /\ core'[b].freq = Frequency(s, e) /\ core'[b].wrapped = (e > s)
      BY <3>1 DEF Types, Cores
    <3> QED
      BY <1>2, <3>2, <3>3, <3>4 DEF CoreInv, CoreFacts
  <2> QED
    BY <2>1, <2>2
<1>10. CASE InitTimerStack(b)
  <2>1. CASE pc'[b] = "bugcheck"
    BY <2>1 DEF CoreFacts
  <2>2. CASE pc'[b] # "bugcheck"
    <3>1. pc[b] = "ist" /\ pc'[b] = "syscall" /\ core'[b] = core[b]
      BY <1>10, <2>2 DEF InitTimerStack, TakeFrame, Goto, Types
    <3> QED
      BY <1>2, <3>1 DEF CoreInv, CoreFacts
  <2> QED
    BY <2>1, <2>2
<1>11. CASE InitSyscallStack(b)
  <2>1. CASE pc'[b] = "bugcheck"
    BY <2>1 DEF CoreFacts
  <2>2. CASE pc'[b] # "bugcheck"
    <3>1. PICK f \in Frames : /\ AllocFrame(f, <<"syscall", b>>)
                              /\ core' = [core EXCEPT ![b] =
                                     [core[b] EXCEPT !.syscallStack =
                                          f * PageSize + PageSize - 1]]
      BY <1>11, <2>2 DEF InitSyscallStack, TakeFrame, Goto, Types
    <3>2. pc[b] = "syscall" /\ pc'[b] = "release"
      BY <1>11, <2>2 DEF InitSyscallStack, TakeFrame, Goto, Types
    <3>3. owner'[f] = <<"syscall", b>>
      BY <3>1 DEF AllocFrame, Types
    <3>4. /\ core'[b].syscallStack = f * PageSize + PageSize - 1
          /\ core'[b].rsp0 = core[b].rsp0
          /\ core'[b].freq = core[b].freq /\ core'[b].wrapped = core[b].wrapped
      BY <3>1 DEF Types, Cores
    <3> QED
      BY <1>2, <3>2, <3>3, <3>4 DEF CoreInv, CoreFacts
  <2> QED
    BY <2>1, <2>2
<1>12. CASE Release(b)
  <2>1. pc[b] = "release" /\ pc'[b] = "sched" /\ core'[b] = core[b]
    BY <1>12 DEF Release, Goto, apVars, Types
  <2> QED
    BY <1>2, <2>1 DEF CoreInv, CoreFacts
<1> QED
  BY <1>4, <1>5, <1>6, <1>7, <1>8, <1>9, <1>10, <1>11, <1>12 DEF Next, Ap

------------------------------------------------------------------------------
LEMMA InitInv == Init => IInv
<1> SUFFICES ASSUME Init PROVE IInv
  OBVIOUS
<1> USE DEF Init
<1>1. Types
  <2>1. NoCore \in Cores
    BY DEF NoCore, Cores
  <2>2. pc \in [Aps -> ApPlaces] /\ core \in [Aps -> Cores] /\ owner \in [Frames -> Owners]
    BY <2>1 DEF ApPlaces, Owners
  <2>3. bsp \in BspPlaces /\ entry \in Nat \ {0} /\ desc \in Nat
    BY DEF BspPlaces
  <2>4. rsp \in [Aps -> Nat] /\ slot \in [Aps -> Nat]
    OBVIOUS
  <2>5. apLock \in BOOLEAN
    OBVIOUS
  <2>6. /\ nAp \in 0 .. ApMax /\ pool \in Nat
        /\ apList \in [0 .. ApMax - 1 -> Aps \union {Unset}]
    BY CountAssumption
  <2> QED
    BY <2>2, <2>3, <2>4, <2>5, <2>6 DEF Types
<1>2. LockInv /\ ListInv /\ StackInv
  BY CountAssumption DEF LockInv, InSection, ListInv, Listed, StackInv, HasStack
<1>3. WalkInv
  BY DEF WalkInv, Starting, Aps
<1>4. CoreInv
  BY DEF CoreInv, CoreFacts
<1> QED
  BY <1>1, <1>2, <1>3, <1>4 DEF IInv

LEMMA StepInv == IInv /\ [Next]_vars => IInv'
<1> SUFFICES ASSUME IInv, [Next]_vars PROVE IInv'
  OBVIOUS
<1> USE DEF IInv
<1>1. CASE Next
  <2>1. Types'
    BY <1>1, BspTypes, ApTypes DEF Next
  <2> QED
    BY <1>1, <2>1, LockStep, ListStep, WalkStep, StackStep, CoreStep
<1>2. CASE UNCHANGED vars
  BY <1>2, ZenonT(60) DEF vars, bspVars, apVars, listVars, memVars, Types, LockInv, InSection,
     ListInv, WalkInv, Ahead, Starting, IsOther, This, StackInv, HasStack, CoreInv, CoreFacts
<1> QED
  BY <1>1, <1>2

LEMMA Inductive == Spec => []IInv
BY InitInv, StepInv, PTL DEF Spec

\* The frame of an address, and the place in it.
LEMMA FrameOf ==
    ASSUME NEW f \in Nat, NEW size \in Nat \ {0}, NEW r \in 0 .. size - 1
    PROVE  (f * size + r) \div size = f /\ (f * size + r) % size = r
<1> DEFINE x == f * size + r
           q == x \div size
           m == x % size
<1>1. x \in Nat /\ q \in Int /\ m \in 0 .. size - 1 /\ x = size * q + m
  OBVIOUS
<1>2. f * size + r = size * q + m
  BY <1>1
<1> HIDE DEF q, m
<1>3. q <= f
  <2>1. CASE q >= f + 1
    <3>1. size * q >= size * f + size
      BY <1>1, <2>1
    <3> QED
      BY <1>1, <1>2, <3>1
  <2> QED
    BY <1>1, <2>1
<1>4. f <= q
  <2>1. CASE f >= q + 1
    <3>1. size * f >= size * q + size
      BY <1>1, <2>1
    <3> QED
      BY <1>1, <1>2, <3>1
  <2> QED
    BY <1>1, <2>1
<1>5. q = f /\ m = r
  BY <1>1, <1>2, <1>3, <1>4
<1> QED
  BY <1>5 DEF q, m

(***************************************************************************)
(* The program's state keeps its types: no store leaves apList, whatever   *)
(* the number of processors in the MADT.                                   *)
(***************************************************************************)
THEOREM TypeCorrect == Spec => []TypeOK
<1>1. IInv => TypeOK
  BY DEF IInv, Types, TypeOK, BspPlaces, ApPlaces, Owners
<1> QED
  BY <1>1, Inductive, PTL

(***************************************************************************)
(* When no processor stays in the trampoline longer than the bootstrap     *)
(* core waits, each has the stack that was allocated for it.               *)
(***************************************************************************)
THEOREM StacksAreOwn == TrampolineDelay = "bounded" => (Spec => []OwnStack)
<1> SUFFICES ASSUME TrampolineDelay = "bounded" PROVE Spec => []OwnStack
  OBVIOUS
<1>1. IInv => OwnStack
  <2> SUFFICES ASSUME IInv, NEW a \in Aps, HasStack(a)
               PROVE  rsp[a] % PageSize = 0 /\ owner[rsp[a] \div PageSize] = <<"stack", a>>
    BY DEF OwnStack
  <2>1. PICK f \in Frames : rsp[a] = f * PageSize /\ owner[f] = <<"stack", a>>
    BY DEF IInv, StackInv
  <2>2. f \in Nat /\ PageSize \in Nat \ {0} /\ 0 \in 0 .. PageSize - 1
    BY LowMemoryAssumption, CountAssumption
  <2>3. (f * PageSize + 0) \div PageSize = f /\ (f * PageSize + 0) % PageSize = 0
    BY <2>2, FrameOf
  <2>4. f * PageSize + 0 = f * PageSize
    BY <2>2
  <2> QED
    BY <2>1, <2>3, <2>4
<1> QED
  BY <1>1, Inductive, PTL

(***************************************************************************)
(* halCpuCount and halCpuGet never see a place of apList that was counted  *)
(* and not filled, nor a processor twice.                                  *)
(***************************************************************************)
THEOREM ListIsExact == Spec => []ApListExact
<1>1. IInv => ApListExact
  <2> SUFFICES ASSUME IInv PROVE ApListExact
    OBVIOUS
  <2>1. \A i \in 0 .. nAp - 1 : i \in DOMAIN apList /\ apList[i] \in Aps
    BY CountAssumption DEF IInv, Types, ListInv
  <2>2. ASSUME NEW a \in Aps, pc[a] \in {"release", "sched"}
        PROVE  Cardinality(InList(a)) = 1
    <3>1. PICK i \in 0 .. nAp - 1 : apList[i] = a
      BY <2>2 DEF IInv, ListInv, Listed
    <3>2. InList(a) = {i}
      BY <3>1 DEF IInv, ListInv, InList
    <3> QED
      BY <3>2, FS_Singleton
  <2>3. ASSUME NEW a \in Aps, InList(a) # {}, pc[a] # "sched"
        PROVE  apLock
    <3>1. pc[a] \in Listed \union {"bugcheck"}
      BY <2>3 DEF IInv, ListInv, InList
    <3>2. InSection(a)
      BY <2>3, <3>1 DEF Listed, InSection
    <3> QED
      BY <3>2 DEF IInv, LockInv
  <2> QED
    BY <2>1, <2>2, <2>3 DEF ApListExact
<1> QED
  BY <1>1, Inductive, PTL

\* The stacks a core enters the kernel on, which cpuInit.c:167 puts in the task
\* state segment and the KPCR, grow down inside its own frames.
THEOREM KernelStacksAreOwn == Spec => []KernelStacksOwn
<1>1. IInv => KernelStacksOwn
  <2> SUFFICES ASSUME IInv, NEW a \in Aps, pc[a] = "sched"
               PROVE  /\ PushesInto(core[a].rsp0, "rsp0", a)
                      /\ PushesInto(core[a].syscallStack, "syscall", a)
    BY DEF KernelStacksOwn
  <2>1. PICK f \in Frames :
            core[a].rsp0 = f * PageSize + PageSize /\ owner[f] = <<"rsp0", a>>
    BY DEF IInv, CoreInv, CoreFacts
  <2>2. PICK g \in Frames :
            core[a].syscallStack = g * PageSize + PageSize - 1 /\ owner[g] = <<"syscall", a>>
    BY DEF IInv, CoreInv, CoreFacts
  <2>3. /\ f \in Nat /\ g \in Nat /\ PageSize \in Nat \ {0}
        /\ PageSize - 1 \in 0 .. PageSize - 1 /\ PageSize - 2 \in 0 .. PageSize - 1
    BY LowMemoryAssumption, CountAssumption
  <2>4. /\ core[a].rsp0 - 1 = f * PageSize + (PageSize - 1)
        /\ core[a].syscallStack - 1 = g * PageSize + (PageSize - 2)
    BY <2>1, <2>2, <2>3
  <2>5. /\ (f * PageSize + (PageSize - 1)) \div PageSize = f
        /\ (g * PageSize + (PageSize - 2)) \div PageSize = g
    BY <2>3, FrameOf
  <2>6. PushFrame(core[a].rsp0) = f /\ PushFrame(core[a].syscallStack) = g
    BY <2>4, <2>5, Zenon DEF PushFrame
  <2> QED
    BY <2>1, <2>2, <2>6 DEF PushesInto
<1> QED
  BY <1>1, Inductive, PTL

\* A core that schedules can arm its timer for every slice: the frequency
\* lapicTimerInit computes (lapic.c:296) is zero only after a wrapped count.
THEOREM OneshotIsArmed == Spec => []OneshotArmed
<1>1. ASSUME NEW freq \in Int, freq >= PerUsec
      PROVE  OneshotTicks(freq, 1) > 0
  <2>1. freq \div PerUsec >= 1
    BY <1>1, CountAssumption
  <2> QED
    BY <1>1, <2>1, CountAssumption DEF OneshotTicks
<1>2. IInv => OneshotArmed
  <2> SUFFICES ASSUME IInv, NEW a \in Aps, pc[a] = "sched", ~core[a].wrapped
               PROVE  OneshotTicks(core[a].freq, 1) > 0
    BY DEF OneshotArmed
  <2>1. core[a].freq \in Int /\ core[a].freq >= PerUsec
    BY DEF IInv, Types, Cores, CoreInv, CoreFacts
  <2> QED
    BY <1>1, <2>1
<1> QED
  BY <1>2, Inductive, PTL
===============================================================================
