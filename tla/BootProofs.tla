------------------------------- MODULE BootProofs -------------------------------
(***************************************************************************)
(* The invariants of Boot, for any number of application cores and any     *)
(* nesting of contexts.  One core's place, GS, stack and frames make an    *)
(* invariant of their own, CoreInv, which every action of that core keeps  *)
(* whatever the others do.  It says what a frame may hold: a tick          *)
(* interrupts a process, an idle core or traps that still had interrupts   *)
(* on, and only there GS is known although an NMI or a fault may have hit  *)
(* one of Windows.  The object store's invariant gives every name its one  *)
(* object.                                                                 *)
(***************************************************************************)
EXTENDS Boot, FiniteSetTheorems, TLAPS

\* Where a core has not been interrupted.
Bottom == {"off", "boot", "idle", "user", "kickRet",
           "sysEntry", "sysSave", "sysBody", "sysExit", "sysret"}
TickPlaces == {"tick", "tickBody", "tickExit", "tickRet"}
OnUserStack == {"user", "sysEntry", "sysSave", "sysExit", "sysret"}

ContextType == [at : Points, stk : Stacks, ifl : BOOLEAN]
CoreType == [pc : Points, gs : {"kpcr", "zero", "unset"}, stk : Stacks,
             frames : Seq(ContextType),
             ifl : BOOLEAN, nmi : BOOLEAN, armed : BOOLEAN, inService : BOOLEAN,
             gates : BOOLEAN, sce : BOOLEAN]

\* Traps that still had interrupts on, one over the other, over a process or
\* an idle core: what a tick may interrupt.
Open(s) ==
    /\ s # <<>>
    /\ \A i \in DOMAIN s :
          /\ s[i].ifl
          /\ s[i].stk = "user" <=> s[i].at = "user"
          /\ IF i = Len(s) THEN s[i].at \in {"user", "idle"} ELSE s[i].at = "trap"

OverUser(s) == s[Len(s)].at = "user"

\* A tick over a process or over anything else but that, before its switch
\* or without one; or one whose frame is now that of another process.
InTick(q) ==
    /\ ~q.ifl /\ q.stk # "user" /\ q.gs # "unset"
    /\ \/ /\ Open(q.frames)
          /\ q.gs = "zero" <=> IF Head(q.frames).at = "user" THEN q.pc \in {"tick", "tickRet"}
                               ELSE OverUser(q.frames)
       \/ /\ q.pc \in {"tickExit", "tickRet"}
          /\ q.frames # <<>> /\ Head(q.frames) = UserFrame
          /\ q.gs = "zero" <=> q.pc = "tickRet"
          /\ \A i \in DOMAIN q.frames : q.frames[i].at \notin Fatal

\* GS belongs to user mode.
UserGs(q) ==
    \/ q.pc \in {"user", "sysEntry", "sysret", "kickRet"}
    \/ q.pc \in {"tick", "tickRet", "trap", "trapGs"} /\ Head(q.frames).at = "user"

Clean(q) == \A i \in DOMAIN q.frames : q.frames[i].at \notin Windows

CoreInv(q) ==
    /\ q.pc \in Bottom => q.frames = <<>>
    /\ q.pc \in {"trap", "trapGs"} => q.frames # <<>>
    /\ q.pc = "off" => q = CoreOff
    /\ q.ifl => q.pc \in {"user", "idle", "trap"}
    /\ q.pc \in {"user", "idle"} => q.ifl
    /\ q.pc \in Bottom \ {"off", "boot"} => q.gs # "unset"
    /\ q.pc = "trap" /\ q.ifl =>
          /\ Open(q.frames) /\ q.stk # "user" /\ q.gs # "unset"
          /\ q.gs = "zero" <=> OverUser(q.frames)
    /\ q.pc \in TickPlaces => InTick(q)
    /\ Clean(q) => /\ q.gs = "zero" <=> UserGs(q)
                   /\ q.stk = "user" <=> q.pc \in OnUserStack

\* The timer of an application core.
TimerInv(q) ==
    \/ q.pc \in {"idle", "user", "sysEntry", "sysSave", "sysBody", "sysExit", "sysret"}
    \/ q.pc \in {"tickExit", "tickRet"} /\ Head(q.frames).at \in {"user", "idle"}
    => q.armed /\ ~q.inService

ScreenInv ==
    /\ screen # {} => bugLock
    /\ \A c \in Cores :
          /\ core[c].pc \in {"clear", "print"} => bugLock
          /\ core[c].pc = "clear" => screen = {}
          /\ core[c].pc = "print" => screen = {c}
          /\ \A d \in Cores : {core[c].pc, core[d].pc} \subseteq {"clear", "print"} => c = d

\* Nothing but a tick interrupts anything.
Undisturbed(q) ==
    /\ q.pc \notin Fatal \union {"trap"}
    /\ \A i \in DOMAIN q.frames : q.frames[i].at \notin Fatal \union {"trap"}

--------------------------------------------------------------------------------

AtGs == {"acpi", "irqChip", "syscall", "gates", "gs"}
BeforeStore == AtGs \union {"pool", "objects"}
BeforeTimer == BeforeStore \union {"clkdev", "pit", "hpet", "lapicTimer"}
AfterSched == {"aux", "aps", "bootpack", "modules", "kick", "done"}

StageInv ==
    /\ stage \notin AtGs /\ core[Bsp].pc = "boot" => core[Bsp].gs = "kpcr"
    /\ core[Bsp].pc # "off"
    /\ stage \in AfterSched \/ (\E c \in Aps : core[c].pc # "off") => schedTimer = "lapic"
    /\ stage \in BeforeTimer => ~lapicTimer
    /\ stage \in AfterSched \union {"sched"} => lapicTimer


\* The objects of the kernel: what each one is, where it is and what it holds.
Names == {"/", "clkdev", "isa-aux", "aux", "sched", "mapper", "video0"}
TypeOf(n) == IF n \in {"/", "clkdev", "mapper"} THEN "directory"
             ELSE IF n = "video0" THEN "mapper" ELSE "timer"
ParentOf(n) == IF n \in {"clkdev", "mapper"} THEN "/"
               ELSE IF n \in {"isa-aux", "aux", "sched"} THEN "clkdev"
               ELSE IF n = "video0" THEN "mapper" ELSE "none"
DataOf(n) == IF n = "isa-aux" THEN "i8254" ELSE IF n = "aux" THEN "hpet"
             ELSE IF n = "sched" THEN "lapic" ELSE IF n = "video0" THEN "region" ELSE NoData
PathOf(n) == IF ParentOf(n) = "/" THEN <<n>> ELSE <<ParentOf(n), n>>

ObjectType == [name : Names, type : {"directory", "timer", "mapper"},
               ref : 1 .. 2, data : {NoData, "i8254", "hpet", "lapic", "region"}]

StoreShape(s) ==
    /\ s = [ob |-> s.ob, dir |-> s.dir, root |-> s.root]
    /\ s.ob \in Seq(ObjectType)
    /\ DOMAIN s.dir \subseteq DOMAIN s.ob
    /\ s.dir = [d \in DOMAIN s.dir |-> s.dir[d]]
    /\ \A d \in DOMAIN s.dir : s.dir[d] \in Seq(DOMAIN s.ob)

\* Every name is one object, of its type, with its data, in its parent and
\* in no other directory.
Tree(s) ==
    /\ s.root = 1 /\ Len(s.ob) >= 1 /\ 1 \in DOMAIN s.dir
    /\ \A o \in DOMAIN s.ob :
          /\ s.ob[o].type = TypeOf(s.ob[o].name) /\ s.ob[o].data = DataOf(s.ob[o].name)
          /\ s.ob[o].name = "/" <=> o = 1
          /\ \A p \in DOMAIN s.ob : s.ob[p].name = s.ob[o].name => p = o
          /\ o # 1 => \E d \in DOMAIN s.dir : \E i \in DOMAIN s.dir[d] : s.dir[d][i] = o
    /\ \A d \in DOMAIN s.dir : \A i \in DOMAIN s.dir[d] :
          /\ s.ob[d].name = ParentOf(s.ob[s.dir[d][i]].name)
          /\ \A j \in DOMAIN s.dir[d] : s.dir[d][j] = s.dir[d][i] => j = i

Entry(s, o) == [path |-> PathOf(s.ob[o].name), object |-> o, data |-> DataOf(s.ob[o].name)]

\* What was registered is in the tree, and references are counted.
Counted(s, reg) ==
    /\ \A r \in reg : \E o \in DOMAIN s.ob \ {1} : r = Entry(s, o)
    /\ \A o \in DOMAIN s.ob : s.ob[o].ref = IF Entry(s, o) \in reg THEN 2 ELSE 1

\* Every directory has its list, and nothing was made and not registered.
Complete(s, reg) ==
    \A o \in DOMAIN s.ob :
        /\ s.ob[o].type = "directory" => o \in DOMAIN s.dir
        /\ o # 1 => Entry(s, o) \in reg

NamesIn(s) == {s.ob[o].name : o \in DOMAIN s.ob}

\* What must have been made by each stage.
ObjectPass == [type |-> "object", module |-> "mapper"]
GenericPass == [type |-> "generic", module |-> "bootvid"]
Made ==
    CASE stage = "clkdev" -> {"/"}
      [] stage \in {"pit", "hpet"} -> {"/", "clkdev"}
      [] stage = "lapicTimer" -> {"/", "clkdev", "aux"}
      [] stage \in {"sched", "aux", "aps", "bootpack"} -> {"/", "clkdev", "aux", "sched"}
      [] stage = "modules" ->
             {"/", "clkdev", "aux", "sched"}
             \union (IF ObjectPass \in Range(todo) THEN {} ELSE {"mapper"})
             \union (IF GenericPass \in Range(todo) THEN {} ELSE {"video0"})
      [] OTHER -> {"/", "clkdev", "aux", "sched", "mapper", "video0"}

\* Every module at most once for each type, the objects' pass first.
Passes(t) ==
    \A i, j \in DOMAIN t : i < j => t[i] # t[j] /\ ~(t[i].type = "generic" /\ t[j].type = "object")

StoreInv ==
    /\ stage \in BeforeStore => store = NoStore /\ registered = {}
    /\ stage \notin BeforeStore /\ store # NoStore =>
          Tree(store) /\ Counted(store, registered)
    /\ store = NoStore => stage \in BeforeStore \union {"stopped"} /\ registered = {}
    /\ stage \notin BeforeStore \union {"stopped"} =>
          /\ \A n \in Names \ {"isa-aux"} : n \in NamesIn(store) <=> n \in Made
          /\ stage \in {"clkdev", "pit"} => "isa-aux" \notin NamesIn(store)
          /\ Complete(store, registered)
    /\ stage = "modules" => Passes(todo)

\* What a core is like, whatever the others do.
CoresInv ==
    /\ core \in [Cores -> CoreType]
    /\ \A c \in Cores : CoreInv(core[c])
    /\ \A c \in Aps : TimerInv(core[c]) /\ (core[c].pc # "off" => schedTimer = "lapic")
    /\ ~failed => \A c \in Cores : Undisturbed(core[c])

Stages == {"acpi", "irqChip", "syscall", "gates", "gs", "pool", "objects", "clkdev", "pit", "hpet",
           "lapicTimer", "sched", "aux", "aps", "bootpack", "modules", "kick", "done", "stopped"}
PassType == [type : {"object", "generic"}, module : {"mapper", "bootvid"}]

RestType ==
    /\ bugLock \in BOOLEAN /\ failed \in BOOLEAN /\ lapicTimer \in BOOLEAN
    /\ screen \subseteq Cores /\ schedTimer \in {NoTimer, "lapic"}
    /\ stage \in Stages /\ modules \in Links /\ todo \in Seq(PassType)
    /\ StoreShape(store) /\ store.root \in Objects \union {NoObject}

IInv == RestType /\ CoresInv /\ ScreenInv /\ StageInv /\ StoreInv

--------------------------------------------------------------------------------

\* A sequence with one more element in front.
LEMMA Pushed ==
    ASSUME NEW S, NEW f \in S, NEW s \in Seq(S), NEW t, t = <<f>> \o s
    PROVE  /\ t \in Seq(S) /\ t # <<>> /\ Head(t) = f /\ t[1] = f
           /\ Len(t) = Len(s) + 1
           /\ \A i \in DOMAIN s : t[i + 1] = s[i]
           /\ \A i \in DOMAIN t : i # 1 => i - 1 \in DOMAIN s /\ t[i] = s[i - 1]
  OBVIOUS

\* A sequence without its head.
LEMMA Rest ==
    ASSUME NEW S, NEW s \in Seq(S), s # <<>>
    PROVE  /\ Tail(s) \in Seq(S) /\ Len(Tail(s)) = Len(s) - 1 /\ Len(s) \in Nat \ {0}
           /\ Head(s) \in S /\ Head(s) = s[1]
           /\ \A i \in DOMAIN Tail(s) : i + 1 \in DOMAIN s /\ Tail(s)[i] = s[i + 1]
  OBVIOUS

\* What the processor does at a gate.
LEMMA GateCore ==
    ASSUME NEW q \in CoreType, NEW e \in Points, NEW b \in BOOLEAN
    PROVE  LET g == Gate(q, e, b)
           IN  /\ g \in CoreType /\ g.pc = e /\ g.ifl = b /\ g.gs = q.gs
               /\ g.armed = q.armed /\ g.inService = q.inService
               /\ g.stk = IF q.pc = "user" THEN "rsp0" ELSE q.stk
               /\ Frame(q) \in ContextType /\ g.frames = <<Frame(q)>> \o q.frames
  <1>1. Frame(q) \in ContextType /\ q.frames \in Seq(ContextType)
    BY DEF Frame, CoreType, ContextType
  <1>2. <<Frame(q)>> \o q.frames \in Seq(ContextType)  BY <1>1
  <1> QED BY <1>1, <1>2 DEF Gate, CoreType, Stacks

\* One trap more on open ones.
LEMMA OpenTrap ==
    ASSUME NEW q \in CoreType, CoreInv(q), q.pc \in {"user", "idle", "trap"}, q.ifl,
           NEW t, t = <<Frame(q)>> \o q.frames
    PROVE  /\ Open(t) /\ Head(t) = Frame(q)
           /\ OverUser(t) <=> q.gs = "zero"
           /\ q.gs # "unset"
  <1>1. Frame(q) \in ContextType /\ q.frames \in Seq(ContextType)
    BY DEF Frame, CoreType, ContextType
  <1>2. /\ t # <<>> /\ Head(t) = Frame(q) /\ t[1] = Frame(q) /\ Len(t) = Len(q.frames) + 1
        /\ t \in Seq(ContextType)
        /\ \A i \in DOMAIN t : i # 1 => i - 1 \in DOMAIN q.frames /\ t[i] = q.frames[i - 1]
    BY <1>1, Pushed
  <1>3. CASE q.pc \in {"user", "idle"}
    <2>1. q.frames = <<>>  BY <1>3 DEF CoreInv, Bottom
    <2>2. Clean(q)  BY <2>1 DEF Clean
    <2>3. /\ q.gs = "zero" <=> q.pc = "user"
          /\ q.stk = "user" <=> q.pc = "user"
          /\ q.gs # "unset"
      BY <1>3, <2>2 DEF CoreInv, UserGs, OnUserStack, Bottom
    <2>4. DOMAIN t = {1} /\ Len(t) = 1  BY <1>1, <1>2, <2>1
    <2> QED BY <1>2, <1>3, <2>3, <2>4 DEF Open, OverUser, Frame
  <1>4. CASE q.pc = "trap"
    <2>1. /\ Open(q.frames) /\ q.stk # "user" /\ q.gs # "unset"
          /\ q.gs = "zero" <=> OverUser(q.frames)
      BY <1>4 DEF CoreInv
    <2>2. q.frames # <<>> /\ Len(q.frames) \in Nat \ {0}  BY <1>1, <2>1, Rest DEF Open
    <2>3. Len(t) # 1 /\ t[Len(t)] = q.frames[Len(q.frames)]  BY <1>1, <1>2, <2>2
    <2>4. Open(t)
      <3> SUFFICES ASSUME NEW i \in DOMAIN t
                   PROVE  /\ t[i].ifl
                          /\ t[i].stk = "user" <=> t[i].at = "user"
                          /\ IF i = Len(t) THEN t[i].at \in {"user", "idle"} ELSE t[i].at = "trap"
        BY <1>2 DEF Open
      <3>1. CASE i = 1
        BY <1>2, <1>4, <2>1, <2>3, <3>1 DEF Frame
      <3>2. CASE i # 1
        <4>1. i - 1 \in DOMAIN q.frames /\ t[i] = q.frames[i - 1]  BY <1>2, <3>2
        <4>2. i = Len(t) <=> i - 1 = Len(q.frames)  BY <1>1, <1>2
        <4> QED BY <2>1, <4>1, <4>2 DEF Open
      <3> QED BY <3>1, <3>2
    <2> QED BY <1>2, <2>1, <2>3, <2>4 DEF OverUser
  <1> QED BY <1>3, <1>4

\* A trap, wherever it comes.
LEMMA EnterTrap ==
    ASSUME NEW q \in CoreType, CoreInv(q), NEW r \in CoreType,
           r.pc = "trap", r.ifl = q.ifl, r.gs = q.gs,
           r.stk = IF q.pc = "user" THEN "rsp0" ELSE q.stk,
           r.frames = <<Frame(q)>> \o q.frames
    PROVE  CoreInv(r)
  <1>1. Frame(q) \in ContextType /\ q.frames \in Seq(ContextType)
    BY DEF Frame, CoreType, ContextType
  <1>2. /\ r.frames # <<>> /\ Head(r.frames) = Frame(q) /\ r.frames[1] = Frame(q)
        /\ Len(r.frames) = Len(q.frames) + 1
        /\ \A i \in DOMAIN q.frames : r.frames[i + 1] = q.frames[i]
    BY <1>1, Pushed
  <1>3. r.ifl => /\ Open(r.frames) /\ r.stk # "user" /\ r.gs # "unset"
                 /\ r.gs = "zero" <=> OverUser(r.frames)
    <2> SUFFICES ASSUME r.ifl PROVE /\ Open(r.frames) /\ r.stk # "user" /\ r.gs # "unset"
                                    /\ r.gs = "zero" <=> OverUser(r.frames)
      OBVIOUS
    <2>1. q.pc \in {"user", "idle", "trap"}  BY DEF CoreInv
    <2>2. /\ Open(r.frames) /\ q.gs # "unset"
          /\ OverUser(r.frames) <=> q.gs = "zero"
      BY <2>1, OpenTrap
    <2>3. r.stk # "user"
      <3>1. CASE q.pc = "user"  BY <3>1
      <3>2. CASE q.pc = "trap"  BY <3>2 DEF CoreInv
      <3>3. CASE q.pc = "idle"  BY <3>3 DEF CoreInv, Clean, Bottom, OnUserStack
      <3> QED BY <2>1, <3>1, <3>2, <3>3
    <2> QED BY <2>2, <2>3
  <1>4. Clean(r) => /\ r.gs = "zero" <=> UserGs(r)
                    /\ r.stk = "user" <=> r.pc \in OnUserStack
    <2> SUFFICES ASSUME Clean(r)
                 PROVE  /\ r.gs = "zero" <=> UserGs(r)
                        /\ r.stk = "user" <=> r.pc \in OnUserStack
      OBVIOUS
    <2>1. q.pc \notin Windows
      <3>1. 1 \in DOMAIN r.frames  BY <1>1, <1>2
      <3> QED BY <1>2, <3>1 DEF Clean, Frame
    <2>2. Clean(q)
      <3>1. \A i \in DOMAIN q.frames : i + 1 \in DOMAIN r.frames  BY <1>1, <1>2
      <3> QED BY <1>2, <3>1 DEF Clean
    <2>3. /\ q.gs = "zero" <=> q.pc = "user"
          /\ q.stk = "user" <=> q.pc = "user"
      BY <2>1, <2>2 DEF CoreInv, UserGs, OnUserStack, Windows
    <2>4. UserGs(r) <=> q.pc = "user"  BY <1>2 DEF UserGs, Frame
    <2> QED BY <2>3, <2>4 DEF OnUserStack
  <1> QED BY <1>2, <1>3, <1>4 DEF CoreInv, Bottom, TickPlaces

\* A tick, where interrupts are on.
LEMMA EnterTick ==
    ASSUME NEW q \in CoreType, CoreInv(q), q.ifl, NEW r \in CoreType,
           r.pc = "tick", ~r.ifl, r.gs = q.gs,
           r.stk = IF q.pc = "user" THEN "rsp0" ELSE q.stk,
           r.frames = <<Frame(q)>> \o q.frames
    PROVE  CoreInv(r)
  <1>1. q.pc \in {"user", "idle", "trap"}  BY DEF CoreInv
  <1>2. /\ Open(r.frames) /\ q.gs # "unset"
        /\ OverUser(r.frames) <=> q.gs = "zero"
        /\ Head(r.frames) = Frame(q)
    BY <1>1, OpenTrap
  <1>3. r.stk # "user"
    <2>1. CASE q.pc = "user"  BY <2>1
    <2>2. CASE q.pc = "trap"  BY <2>2 DEF CoreInv
    <2>3. CASE q.pc = "idle"  BY <2>3 DEF CoreInv, Clean, Bottom, OnUserStack
    <2> QED BY <1>1, <2>1, <2>2, <2>3
  <1>4. q.pc = "user" => q.gs = "zero"
    BY DEF CoreInv, Clean, Bottom, UserGs
  <1>5. InTick(r)
    <2>1. Head(r.frames).at = q.pc  BY <1>2 DEF Frame
    <2>2. r.gs = "zero" <=> IF Head(r.frames).at = "user" THEN r.pc \in {"tick", "tickRet"}
                            ELSE OverUser(r.frames)
      <3>1. CASE q.pc = "user"  BY <1>4, <2>1, <3>1
      <3>2. CASE q.pc # "user"  BY <1>2, <2>1, <3>2
      <3> QED BY <3>1, <3>2
    <2> QED BY <1>2, <1>3, <2>2 DEF InTick
  <1>6. Clean(r) => /\ r.gs = "zero" <=> UserGs(r)
                    /\ r.stk = "user" <=> r.pc \in OnUserStack
    <2> SUFFICES ASSUME Clean(r) PROVE r.gs = "zero" <=> UserGs(r)
      BY <1>3 DEF OnUserStack
    <2>1. 1 \in DOMAIN r.frames /\ r.frames[1] = Frame(q)
      BY <1>2 DEF Open, CoreType
    <2>2. q.pc # "trap"  BY <2>1 DEF Clean, Windows, Frame
    <2>3. q.pc = "idle" => q.gs # "zero"
      <3> SUFFICES ASSUME q.pc = "idle" PROVE q.gs # "zero"  OBVIOUS
      <3>1. Clean(q)  BY DEF CoreInv, Bottom, Clean
      <3> QED BY <3>1 DEF CoreInv, UserGs
    <2> QED BY <1>1, <1>2, <1>4, <2>2, <2>3 DEF UserGs, Frame
  <1> QED BY <1>5, <1>6 DEF CoreInv, Bottom, TickPlaces

LEMMA OpenHead ==
    ASSUME NEW s \in Seq(ContextType), Open(s)
    PROVE  /\ 1 \in DOMAIN s /\ Head(s) = s[1] /\ Head(s).ifl
           /\ Head(s).at \in {"user", "idle", "trap"}
           /\ Head(s).stk = "user" <=> Head(s).at = "user"
           /\ Head(s).at # "trap" => Len(s) = 1 /\ (OverUser(s) <=> Head(s).at = "user")
           /\ Head(s).at = "trap" => Len(s) # 1
           /\ \A i \in DOMAIN s : s[i].at \notin Fatal
  <1>1. Len(s) \in Nat \ {0} /\ 1 \in DOMAIN s /\ Head(s) = s[1] /\ DOMAIN s = 1 .. Len(s)
    BY DEF Open
  <1>2. Len(s) # 1 => s[1].at = "trap"  BY <1>1 DEF Open
  <1>3. Len(s) = 1 => s[1].at \in {"user", "idle"} /\ (OverUser(s) <=> s[1].at = "user")
    BY <1>1 DEF Open, OverUser
  <1>4. \A i \in DOMAIN s : s[i].at \in {"user", "idle", "trap"}  BY DEF Open
  <1>5. Head(s).ifl /\ (Head(s).stk = "user" <=> Head(s).at = "user")  BY <1>1 DEF Open
  <1> QED BY <1>1, <1>2, <1>3, <1>4, <1>5 DEF Fatal

LEMMA OpenTail ==
    ASSUME NEW s \in Seq(ContextType), Open(s), Head(s).at = "trap"
    PROVE  Open(Tail(s)) /\ (OverUser(Tail(s)) <=> OverUser(s))
  <1> DEFINE t == Tail(s)
  <1>1. /\ t \in Seq(ContextType) /\ Len(t) = Len(s) - 1 /\ Len(s) \in Nat \ {0}
        /\ \A i \in DOMAIN t : i + 1 \in DOMAIN s /\ t[i] = s[i + 1]
    BY Rest DEF Open
  <1>2. Len(s) # 1  BY OpenHead
  <1> HIDE DEF t
  <1>3. t # <<>> /\ Len(t) \in DOMAIN t /\ t[Len(t)] = s[Len(s)]  BY <1>1, <1>2
  <1>4. Open(t)
    <2> SUFFICES ASSUME NEW i \in DOMAIN t
                 PROVE  /\ t[i].ifl
                        /\ t[i].stk = "user" <=> t[i].at = "user"
                        /\ IF i = Len(t) THEN t[i].at \in {"user", "idle"} ELSE t[i].at = "trap"
      BY <1>3 DEF Open
    <2>1. i + 1 \in DOMAIN s /\ t[i] = s[i + 1] /\ (i = Len(t) <=> i + 1 = Len(s))  BY <1>1
    <2> QED BY <2>1 DEF Open
  <1> QED BY <1>3, <1>4 DEF OverUser, t

\* lapicTmrIsr, before it returns.
LEMMA TickEntryCore ==
    ASSUME NEW q \in CoreType, CoreInv(q), q.pc = "tick", NEW r \in CoreType,
           r.pc = "tickBody", r.ifl = q.ifl, r.stk = q.stk, r.frames = q.frames,
           r.gs = IF Head(q.frames).at = "user" THEN Swap(q.gs) ELSE q.gs
    PROVE  CoreInv(r)
  <1>1. /\ Open(q.frames) /\ ~q.ifl /\ q.stk # "user" /\ q.gs # "unset"
        /\ q.gs = "zero" <=> IF Head(q.frames).at = "user" THEN TRUE ELSE OverUser(q.frames)
    BY DEF CoreInv, InTick, TickPlaces
  <1>2. r.gs # "unset" /\ (Head(q.frames).at = "user" => r.gs # "zero")
    BY <1>1 DEF Swap
  <1>3. InTick(r)
    <2>1. CASE Head(q.frames).at = "user"  BY <1>1, <1>2, <2>1 DEF InTick
    <2>2. CASE Head(q.frames).at # "user"  BY <1>1, <1>2, <2>2 DEF InTick
    <2> QED BY <2>1, <2>2
  <1>4. Clean(r) => r.gs # "zero"
    <2> SUFFICES ASSUME Clean(r), Head(q.frames).at # "user" PROVE r.gs # "zero"
      BY <1>2
    <2>1. /\ 1 \in DOMAIN q.frames /\ Head(q.frames) = q.frames[1]
          /\ Head(q.frames).at # "trap" => (OverUser(q.frames) <=> Head(q.frames).at = "user")
      BY <1>1, OpenHead DEF CoreType
    <2>2. Head(q.frames).at # "trap"  BY <2>1 DEF Clean, Windows
    <2> QED BY <1>1, <2>1, <2>2
  <1> QED BY <1>1, <1>3, <1>4 DEF CoreInv, Bottom, TickPlaces, UserGs, OnUserStack

LEMMA TickBodyCore ==
    ASSUME NEW q \in CoreType, CoreInv(q), q.pc = "tickBody", NEW r \in CoreType,
           r.pc = "tickExit", r.ifl = q.ifl, r.stk = q.stk, r.gs = q.gs,
           \/ r.frames = q.frames
           \/ q.gs # "zero" /\ r.frames = <<UserFrame>> \o Tail(q.frames)
    PROVE  CoreInv(r) /\ (q.gs = "zero" => Head(r.frames).at \notin {"user", "idle"})
  <1>1. /\ Open(q.frames) /\ ~q.ifl /\ q.stk # "user" /\ q.gs # "unset"
        /\ q.gs = "zero" <=> IF Head(q.frames).at = "user" THEN FALSE ELSE OverUser(q.frames)
    BY DEF CoreInv, InTick, TickPlaces
  <1>2. q.frames \in Seq(ContextType)  BY DEF CoreType
  <1>3. Clean(q) => q.gs # "zero"  BY DEF CoreInv, UserGs
  <1>4. CASE r.frames = q.frames
    <2>1. InTick(r)
      <3>1. CASE Head(q.frames).at = "user"  BY <1>1, <1>4, <3>1 DEF InTick
      <3>2. CASE Head(q.frames).at # "user"  BY <1>1, <1>4, <3>2 DEF InTick
      <3> QED BY <3>1, <3>2
    <2>2. Clean(r) <=> Clean(q)  BY <1>4 DEF Clean
    <2>3. q.gs = "zero" => Head(q.frames).at \notin {"user", "idle"}
      <3>1. Head(q.frames).at # "trap" => (OverUser(q.frames) <=> Head(q.frames).at = "user")
        BY <1>1, <1>2, OpenHead
      <3> QED BY <1>1, <3>1
    <2> QED BY <1>1, <1>3, <1>4, <2>1, <2>2, <2>3
            DEF CoreInv, Bottom, TickPlaces, UserGs, OnUserStack
  <1>5. CASE q.gs # "zero" /\ r.frames = <<UserFrame>> \o Tail(q.frames)
    <2>1. /\ Tail(q.frames) \in Seq(ContextType)
          /\ \A i \in DOMAIN Tail(q.frames) :
                i + 1 \in DOMAIN q.frames /\ Tail(q.frames)[i] = q.frames[i + 1]
      BY <1>1, <1>2, Rest DEF Open
    <2>2. UserFrame \in ContextType
      BY DEF UserFrame, ContextType, Points, Stacks
    <2>3. /\ r.frames # <<>> /\ Head(r.frames) = UserFrame /\ r.frames[1] = UserFrame
          /\ \A i \in DOMAIN r.frames : i # 1 =>
                i - 1 \in DOMAIN Tail(q.frames) /\ r.frames[i] = Tail(q.frames)[i - 1]
      BY <1>5, <2>1, <2>2, Pushed
    <2>4. \A i \in DOMAIN q.frames : q.frames[i].at \notin Fatal
      BY <1>1, <1>2, OpenHead
    <2>5. \A i \in DOMAIN r.frames : r.frames[i].at \notin Fatal
      <3> TAKE i \in DOMAIN r.frames
      <3>1. CASE i = 1  BY <2>3, <3>1 DEF UserFrame, Fatal
      <3>2. CASE i # 1
        BY <2>1, <2>3, <2>4, <3>2
      <3> QED BY <3>1, <3>2
    <2>6. InTick(r)  BY <1>1, <1>5, <2>3, <2>5 DEF InTick
    <2> QED BY <1>1, <1>5, <2>6 DEF CoreInv, Bottom, TickPlaces, UserGs, OnUserStack
  <1> QED BY <1>4, <1>5

LEMMA TickExitCore ==
    ASSUME NEW q \in CoreType, CoreInv(q), q.pc = "tickExit", NEW r \in CoreType,
           r.pc = "tickRet", r.ifl = q.ifl, r.stk = q.stk, r.frames = q.frames,
           r.gs = IF Head(q.frames).at = "user" THEN Swap(q.gs) ELSE q.gs
    PROVE  CoreInv(r)
  <1>1. /\ ~q.ifl /\ q.stk # "user" /\ q.gs # "unset"
        /\ \/ /\ Open(q.frames)
              /\ q.gs = "zero" <=> IF Head(q.frames).at = "user" THEN FALSE
                                   ELSE OverUser(q.frames)
           \/ /\ q.frames # <<>> /\ Head(q.frames) = UserFrame /\ q.gs # "zero"
              /\ \A i \in DOMAIN q.frames : q.frames[i].at \notin Fatal
    BY DEF CoreInv, InTick, TickPlaces
  <1>2. UserFrame.at = "user"  BY DEF UserFrame
  <1>3. Head(q.frames).at = "user" => r.gs = "zero"
    BY <1>1, <1>2 DEF Swap, CoreType
  <1>4. InTick(r)
    <2>1. CASE Head(q.frames).at = "user"  BY <1>1, <1>3, <2>1 DEF InTick
    <2>2. CASE Head(q.frames).at # "user"  BY <1>1, <1>2, <2>2 DEF InTick
    <2> QED BY <2>1, <2>2
  <1>5. Clean(r) => (r.gs = "zero" <=> Head(r.frames).at = "user")
    <2> SUFFICES ASSUME Clean(r), Head(q.frames).at # "user" PROVE r.gs # "zero"
      BY <1>3
    <2>1. Clean(q)  BY DEF Clean
    <2> QED BY <2>1 DEF CoreInv, UserGs
  <1> QED BY <1>1, <1>4, <1>5 DEF CoreInv, Bottom, TickPlaces, UserGs, OnUserStack

\* iretq.
LEMMA TickReturnCore ==
    ASSUME NEW q \in CoreType, CoreInv(q), q.pc = "tickRet", NEW r \in CoreType,
           r.pc = Head(q.frames).at, r.stk = Head(q.frames).stk, r.ifl = Head(q.frames).ifl,
           r.gs = q.gs,
           r.frames = IF Head(q.frames).at = "user" THEN <<>> ELSE Tail(q.frames)
    PROVE  CoreInv(r) /\ r.pc \in {"user", "idle", "trap"}
  <1>1. /\ q.gs # "unset"
        /\ \/ /\ Open(q.frames)
              /\ q.gs = "zero" <=> IF Head(q.frames).at = "user" THEN TRUE
                                   ELSE OverUser(q.frames)
           \/ Head(q.frames) = UserFrame /\ q.gs = "zero"
    BY DEF CoreInv, InTick, TickPlaces
  <1>2. q.frames \in Seq(ContextType)  BY DEF CoreType
  <1>3. CASE Head(q.frames).at = "user"
    <2>1. q.gs = "zero" /\ Head(q.frames).stk = "user" /\ Head(q.frames).ifl
      <3>1. CASE Open(q.frames)
        <4>1. q.gs = "zero"  BY <1>1, <1>3, <3>1 DEF UserFrame
        <4> QED BY <1>2, <1>3, <3>1, <4>1, OpenHead
      <3>2. CASE Head(q.frames) = UserFrame /\ q.gs = "zero"
        BY <3>2 DEF UserFrame
      <3> QED BY <1>1, <3>1, <3>2
    <2>2. r.frames = <<>>  BY <1>3
    <2> QED BY <1>3, <2>1, <2>2 DEF CoreInv, Bottom, TickPlaces, UserGs, OnUserStack
  <1>4. CASE Head(q.frames).at # "user"
    <2>1. Open(q.frames) /\ (q.gs = "zero" <=> OverUser(q.frames))
      BY <1>1, <1>4 DEF UserFrame
    <2>2. /\ Head(q.frames).ifl /\ Head(q.frames).at \in {"idle", "trap"}
          /\ Head(q.frames).stk # "user"
          /\ Head(q.frames).at # "trap" => Len(q.frames) = 1 /\ ~OverUser(q.frames)
      BY <1>2, <1>4, <2>1, OpenHead
    <2>3. CASE Head(q.frames).at = "idle"
      <3>1. r.frames = <<>>
        BY <1>2, <1>4, <2>1, <2>2, <2>3, Rest DEF Open
      <3>2. q.gs = "kpcr"  BY <1>1, <2>1, <2>2, <2>3 DEF CoreType
      <3> QED BY <2>2, <2>3, <3>1, <3>2 DEF CoreInv, Bottom, TickPlaces, UserGs, OnUserStack
    <2>4. CASE Head(q.frames).at = "trap"
      <3>1. /\ r.frames = Tail(q.frames) /\ Open(r.frames)
            /\ OverUser(r.frames) <=> q.gs = "zero"
        BY <1>2, <1>4, <2>1, <2>4, OpenTail
      <3>2. r.frames # <<>>  BY <3>1 DEF Open
      <3>3. Clean(r) => (r.gs = "zero" <=> Head(r.frames).at = "user")
        <4>1. /\ 1 \in DOMAIN r.frames /\ Head(r.frames) = r.frames[1]
              /\ Head(r.frames).at # "trap" =>
                    (OverUser(r.frames) <=> Head(r.frames).at = "user")
          BY <3>1, OpenHead DEF CoreType
        <4> QED BY <3>1, <4>1 DEF Clean, Windows
      <3> QED BY <1>1, <2>2, <2>4, <3>1, <3>2, <3>3
              DEF CoreInv, Bottom, TickPlaces, UserGs, OnUserStack
    <2> QED BY <2>2, <2>3, <2>4
  <1> QED BY <1>3, <1>4

\* The system call path, which nothing but a trap interrupts.
LEMMA SystemCallCore ==
    ASSUME NEW q \in CoreType, CoreInv(q), NEW r \in CoreType, r.frames = q.frames,
           \/ q.pc = "user" /\ r.pc = "sysEntry" /\ r.gs = q.gs /\ r.stk = q.stk /\ ~r.ifl
           \/ q.pc = "sysEntry" /\ r.pc = "sysSave" /\ r.gs = Swap(q.gs) /\ r.stk = q.stk
              /\ r.ifl = q.ifl
           \/ q.pc = "sysSave" /\ r.pc = "sysBody" /\ r.gs = q.gs /\ r.stk = "syscall"
              /\ r.ifl = q.ifl
           \/ q.pc = "sysBody" /\ r.pc = "sysExit" /\ r.gs = q.gs /\ r.stk = "user"
              /\ r.ifl = q.ifl
           \/ q.pc = "sysExit" /\ r.pc = "sysret" /\ r.gs = Swap(q.gs) /\ r.stk = q.stk
              /\ r.ifl = q.ifl
           \/ q.pc = "sysret" /\ r.pc = "user" /\ r.gs = q.gs /\ r.stk = q.stk /\ r.ifl
    PROVE  CoreInv(r)
  <1>1. q.frames = <<>>  BY DEF CoreInv, Bottom
  <1>2. Clean(q)  BY <1>1 DEF Clean
  <1>3. /\ q.gs = "zero" <=> q.pc \in {"user", "sysEntry", "sysret"}
        /\ q.stk = "user" <=> q.pc \in OnUserStack
        /\ q.ifl => q.pc \in {"user", "idle", "trap"}
    BY <1>2 DEF CoreInv, UserGs
  <1>4. q.gs \in {"kpcr", "zero"}  BY DEF CoreType, CoreInv, Bottom
  <1> QED BY <1>1, <1>3, <1>4
          DEF CoreInv, Bottom, TickPlaces, UserGs, OnUserStack, Swap

\* From cli to the halt nothing comes back.
LEMMA BugCheckCore ==
    ASSUME NEW q \in CoreType, CoreInv(q), NEW r \in CoreType, r.frames = q.frames,
           r.stk = q.stk,
           \/ q.pc = "trap" /\ r.pc = "trapGs" /\ r.gs = q.gs /\ ~r.ifl
           \/ q.pc = "trapGs" /\ r.pc = "acquire" /\ r.ifl = q.ifl
              /\ r.gs = IF Head(q.frames).at = "user" THEN Swap(q.gs) ELSE q.gs
           \/ q.pc \in Fatal \ {"trapGs"} /\ r.pc \in Fatal \ {"trapGs"} /\ r.gs = q.gs
              /\ ~r.ifl
           \/ q.pc = "boot" /\ r.pc = "acquire" /\ r.gs = q.gs /\ r.ifl = q.ifl
    PROVE  CoreInv(r)
  <1>1. Clean(r) <=> Clean(q)  BY DEF Clean
  <1>2. r.pc \in Fatal  BY DEF Fatal
  <1>3. r.pc = "trapGs" => r.frames # <<>>  BY DEF CoreInv, Fatal
  <1>4. ~r.ifl  BY DEF CoreInv, Fatal
  <1>5. Clean(q) => /\ q.gs = "zero" <=> UserGs(q)
                    /\ q.stk = "user" <=> q.pc \in OnUserStack
    BY DEF CoreInv
  <1>6. Clean(r) => /\ r.gs = "zero" <=> UserGs(r)
                    /\ r.stk = "user" <=> r.pc \in OnUserStack
    BY <1>1, <1>5 DEF UserGs, OnUserStack, Fatal, Swap
  <1> QED BY <1>2, <1>3, <1>4, <1>6 DEF CoreInv, Bottom, TickPlaces, Fatal

\* The bootstrap core in kMain and at the entry of the first process, and
\* an application core that is up.
LEMMA BootCore ==
    ASSUME NEW q \in CoreType, CoreInv(q), NEW r \in CoreType, r.frames = q.frames,
           \/ q.pc = "boot" /\ r.pc = "boot" /\ r.stk = q.stk /\ r.ifl = q.ifl
              /\ r.gs \in {q.gs, "kpcr"}
           \/ q.pc = "boot" /\ q.gs = "kpcr" /\ r.pc = "kickRet" /\ r.gs = "zero"
              /\ r.stk = q.stk /\ r.ifl = q.ifl
           \/ q.pc = "kickRet" /\ r.pc = "user" /\ r.gs = q.gs /\ r.stk = "user" /\ r.ifl
           \/ q.pc = "off" /\ r.pc = "idle" /\ r.gs = "kpcr" /\ r.stk = q.stk /\ r.ifl
    PROVE  CoreInv(r)
  <1>1. q.frames = <<>>  BY DEF CoreInv, Bottom
  <1>2. Clean(q)  BY <1>1 DEF Clean
  <1>3. /\ q.gs = "zero" <=> q.pc = "kickRet"
        /\ q.stk # "user"
        /\ ~q.ifl
    BY <1>2 DEF CoreInv, UserGs, OnUserStack
  <1> QED BY <1>1, <1>3
          DEF CoreInv, Bottom, TickPlaces, UserGs, OnUserStack

--------------------------------------------------------------------------------

StoppedAt(q) == q.pc \in Fatal \/ \E i \in DOMAIN q.frames : q.frames[i].at \in Fatal

\* Core c goes on as r, with all that is asked of r.
Successor(c, r) ==
    /\ Go(c, r) /\ r \in CoreType /\ CoreInv(r)
    /\ core[c].pc # "off" /\ r.pc \notin {"off", "boot"}
    /\ StoppedAt(core[c]) => StoppedAt(r)
    /\ c \in Aps => TimerInv(r)
    /\ ~failed' => Undisturbed(r)

\* It does not write to the screen of the bug check.
Quiet(r) == r.pc \notin {"clear", "print"} /\ UNCHANGED <<bugLock, screen>>

LEMMA GateFrames ==
    ASSUME NEW q \in CoreType, NEW r \in CoreType,
           r.frames = <<Frame(q)>> \o q.frames
    PROVE  /\ StoppedAt(q) => StoppedAt(r)
           /\ Undisturbed(q) /\ r.pc \notin Fatal \union {"trap"} => Undisturbed(r)
  <1>1. Frame(q) \in ContextType /\ q.frames \in Seq(ContextType)
    BY DEF Frame, CoreType, ContextType
  <1>2. /\ r.frames[1] = Frame(q) /\ 1 \in DOMAIN r.frames
        /\ \A i \in DOMAIN q.frames : i + 1 \in DOMAIN r.frames /\ r.frames[i + 1] = q.frames[i]
        /\ \A i \in DOMAIN r.frames : i # 1 =>
              i - 1 \in DOMAIN q.frames /\ r.frames[i] = q.frames[i - 1]
    BY <1>1, Pushed, SMTT(60)
  <1>3. ASSUME StoppedAt(q) PROVE StoppedAt(r)
    <2>1. CASE q.pc \in Fatal  BY <1>2, <2>1 DEF StoppedAt, Frame
    <2>2. CASE \E i \in DOMAIN q.frames : q.frames[i].at \in Fatal
      BY <1>2, <2>2 DEF StoppedAt
    <2> QED BY <1>3, <2>1, <2>2 DEF StoppedAt
  <1>4. ASSUME Undisturbed(q), r.pc \notin Fatal \union {"trap"} PROVE Undisturbed(r)
    <2> SUFFICES ASSUME NEW i \in DOMAIN r.frames
                 PROVE  r.frames[i].at \notin Fatal \union {"trap"}
      BY <1>4 DEF Undisturbed
    <2>1. CASE i = 1  BY <1>2, <1>4, <2>1 DEF Undisturbed, Frame
    <2>2. CASE i # 1  BY <1>2, <1>4, <2>2 DEF Undisturbed
    <2> QED BY <2>1, <2>2
  <1> QED BY <1>3, <1>4

LEMMA TrapGateStep ==
    ASSUME CoresInv, NEW c \in Cores,
           Fault(c) \/ Nmi(c) \/ SyscallNull(c) \/ DumpFaults(c)
    PROVE  \E r : Successor(c, r) /\ Quiet(r)
  <1> DEFINE q == core[c]
             g == Gate(q, "trap", q.ifl)
  <1>1. q \in CoreType /\ CoreInv(q) /\ q.ifl \in BOOLEAN  BY DEF CoresInv, CoreType
  <1>2. /\ g \in CoreType /\ g.pc = "trap" /\ g.ifl = q.ifl /\ g.gs = q.gs
        /\ g.stk = IF q.pc = "user" THEN "rsp0" ELSE q.stk
        /\ g.frames = <<Frame(q)>> \o q.frames
    BY <1>1, GateCore DEF Points, Windows
  <1>3. PICK r : Go(c, r) /\ (r = g \/ r = [g EXCEPT !.nmi = TRUE])
    BY DEF Fault, Nmi, SyscallNull, DumpFaults
  <1>4. q.pc # "off"
    BY <1>1 DEF Fault, Nmi, SyscallNull, DumpFaults, CoreInv, CoreOff
  <1>5. failed'
    BY DEF Fault, Nmi, SyscallNull, DumpFaults, CoresInv, Undisturbed, Fatal
  <1>6. UNCHANGED <<bugLock, screen>>
    BY DEF Fault, Nmi, SyscallNull, DumpFaults
  <1> HIDE DEF g
  <1>7. /\ r \in CoreType /\ r.pc = "trap" /\ r.ifl = q.ifl /\ r.gs = q.gs
        /\ r.stk = IF q.pc = "user" THEN "rsp0" ELSE q.stk
        /\ r.frames = <<Frame(q)>> \o q.frames
    BY <1>2, <1>3 DEF CoreType
  <1> HIDE DEF q
  <1>8. CoreInv(r)  BY <1>1, <1>7, EnterTrap
  <1>9. StoppedAt(q) => StoppedAt(r)  BY <1>1, <1>7, GateFrames
  <1>10. TimerInv(r)  BY <1>7 DEF TimerInv
  <1> QED BY <1>3, <1>4, <1>5, <1>6, <1>7, <1>8, <1>9, <1>10 DEF Successor, Quiet, q

LEMMA SystemCallStep ==
    ASSUME CoresInv, NEW c \in Cores,
           \/ Syscall(c) \/ SyscallSwapgs(c) \/ SyscallStack(c) \/ SyscallRefused(c)
           \/ SyscallExit(c) \/ Sysret(c)
    PROVE  \E r : Successor(c, r) /\ Quiet(r)
  <1> DEFINE q == core[c]
  <1>1. q \in CoreType /\ CoreInv(q) /\ (c \in Aps => TimerInv(q))
        /\ (~failed => Undisturbed(q))
    BY DEF CoresInv
  <1>2. failed' = failed /\ UNCHANGED <<bugLock, screen>>
    BY DEF Syscall, SyscallSwapgs, SyscallStack, SyscallRefused, SyscallExit, Sysret
  <1>3. PICK r : Go(c, r)
           /\ \/ q.pc = "user" /\ r = [q EXCEPT !.pc = "sysEntry", !.ifl = FALSE]
              \/ q.pc = "sysEntry" /\ r = [q EXCEPT !.pc = "sysSave", !.gs = Swap(@)]
              \/ q.pc = "sysSave" /\ r = [q EXCEPT !.pc = "sysBody", !.stk = "syscall"]
              \/ q.pc = "sysBody" /\ r = [q EXCEPT !.pc = "sysExit", !.stk = "user"]
              \/ q.pc = "sysExit" /\ r = [q EXCEPT !.pc = "sysret", !.gs = Swap(@)]
              \/ q.pc = "sysret" /\ r = [q EXCEPT !.pc = "user", !.ifl = TRUE]
    BY DEF Syscall, SyscallSwapgs, SyscallStack, SyscallRefused, SyscallExit, Sysret
  <1> HIDE DEF q
  <1>4. /\ r \in CoreType /\ r.frames = q.frames /\ r.armed = q.armed
        /\ r.inService = q.inService
        /\ r.pc \in {"user", "sysEntry", "sysSave", "sysBody", "sysExit", "sysret"}
        /\ q.pc \in {"user", "sysEntry", "sysSave", "sysBody", "sysExit", "sysret"}
    BY <1>1, <1>3, ZenonT(60) DEF CoreType, Points, Windows, CCode, Stacks, Swap
  <1>5. CoreInv(r)
    <2>1. \/ q.pc = "user" /\ r.pc = "sysEntry" /\ r.gs = q.gs /\ r.stk = q.stk /\ ~r.ifl
          \/ q.pc = "sysEntry" /\ r.pc = "sysSave" /\ r.gs = Swap(q.gs) /\ r.stk = q.stk
             /\ r.ifl = q.ifl
          \/ q.pc = "sysSave" /\ r.pc = "sysBody" /\ r.gs = q.gs /\ r.stk = "syscall"
             /\ r.ifl = q.ifl
          \/ q.pc = "sysBody" /\ r.pc = "sysExit" /\ r.gs = q.gs /\ r.stk = "user"
             /\ r.ifl = q.ifl
          \/ q.pc = "sysExit" /\ r.pc = "sysret" /\ r.gs = Swap(q.gs) /\ r.stk = q.stk
             /\ r.ifl = q.ifl
          \/ q.pc = "sysret" /\ r.pc = "user" /\ r.gs = q.gs /\ r.stk = q.stk /\ r.ifl
      BY <1>1, <1>3, ZenonT(60) DEF CoreType
    <2> QED BY <1>1, <1>4, <2>1, SystemCallCore
  <1>6. StoppedAt(q) => StoppedAt(r)  BY <1>4 DEF StoppedAt, Fatal
  <1>7. TimerInv(q) => TimerInv(r)  BY <1>4 DEF TimerInv
  <1>8. Undisturbed(q) => Undisturbed(r)  BY <1>4 DEF Undisturbed, Fatal
  <1> QED BY <1>1, <1>2, <1>3, <1>4, <1>5, <1>6, <1>7, <1>8 DEF Successor, Quiet, q

LEMMA TickStep ==
    ASSUME CoresInv, NEW c \in Cores, Tick(c)
    PROVE  \E r : Successor(c, r) /\ Quiet(r)
  <1> DEFINE q == core[c]
             g == Gate(q, "tick", FALSE)
             r == [g EXCEPT !.armed = FALSE, !.inService = TRUE]
  <1>1. q \in CoreType /\ CoreInv(q) /\ (~failed => Undisturbed(q))  BY DEF CoresInv
  <1>2. /\ g \in CoreType /\ g.pc = "tick" /\ ~g.ifl /\ g.gs = q.gs
        /\ g.stk = IF q.pc = "user" THEN "rsp0" ELSE q.stk
        /\ g.frames = <<Frame(q)>> \o q.frames
    <2>1. "tick" \in Points /\ FALSE \in BOOLEAN  BY DEF Points, Windows
    <2> QED BY <1>1, <2>1, GateCore
  <1>3. Go(c, r) /\ q.ifl /\ q.armed /\ failed' = failed /\ UNCHANGED <<bugLock, screen>>
    BY DEF Tick
  <1>4. q.pc # "off"  BY <1>1, <1>3 DEF CoreInv, CoreOff
  <1> HIDE DEF g, q
  <1>5. /\ r \in CoreType /\ r.pc = "tick" /\ ~r.ifl /\ r.gs = q.gs
        /\ r.stk = IF q.pc = "user" THEN "rsp0" ELSE q.stk
        /\ r.frames = <<Frame(q)>> \o q.frames
    BY <1>2 DEF CoreType
  <1> HIDE DEF r
  <1>6. CoreInv(r)  BY <1>1, <1>3, <1>5, EnterTick
  <1>7. (StoppedAt(q) => StoppedAt(r)) /\ (Undisturbed(q) => Undisturbed(r))
    BY <1>1, <1>5, GateFrames DEF Fatal
  <1>8. TimerInv(r)  BY <1>5 DEF TimerInv
  <1> QED BY <1>1, <1>3, <1>4, <1>5, <1>6, <1>7, <1>8 DEF Successor, Quiet, q

\* The two that look for a frame of user mode, and swap.
LEMMA TickSwapStep ==
    ASSUME CoresInv, NEW c \in Cores, TickEntry(c) \/ TickExit(c)
    PROVE  \E r : Successor(c, r) /\ Quiet(r)
  <1> DEFINE q == core[c]
             swapped == IF Head(q.frames).at = "user" THEN Swap(q.gs) ELSE q.gs
  <1>1. q \in CoreType /\ CoreInv(q) /\ (c \in Aps => TimerInv(q))
        /\ (~failed => Undisturbed(q))
    BY DEF CoresInv
  <1>2. failed' = failed /\ UNCHANGED <<bugLock, screen>>
    BY DEF TickEntry, TickExit
  <1>3. PICK r : Go(c, r)
           /\ \/ q.pc = "tick" /\ r = [q EXCEPT !.pc = "tickBody", !.gs = swapped]
              \/ q.pc = "tickExit" /\ r = [q EXCEPT !.pc = "tickRet", !.gs = swapped]
    BY DEF TickEntry, TickExit, SwapIfUser, FromUser
  <1>4. swapped \in {"kpcr", "zero", "unset"}  BY <1>1 DEF Swap, CoreType
  <1> HIDE DEF q, swapped
  <1>5. /\ r \in CoreType /\ r.frames = q.frames /\ r.armed = q.armed
        /\ r.inService = q.inService /\ r.stk = q.stk /\ r.ifl = q.ifl /\ r.gs = swapped
        /\ \/ q.pc = "tick" /\ r.pc = "tickBody"
           \/ q.pc = "tickExit" /\ r.pc = "tickRet"
    BY <1>1, <1>3, <1>4 DEF CoreType, Points, Windows, CCode
  <1>6. CoreInv(r)  BY <1>1, <1>5, TickEntryCore, TickExitCore DEF swapped
  <1>7. StoppedAt(q) => StoppedAt(r)  BY <1>5 DEF StoppedAt, Fatal
  <1>8. TimerInv(q) => TimerInv(r)  BY <1>5 DEF TimerInv
  <1>9. Undisturbed(q) => Undisturbed(r)  BY <1>5 DEF Undisturbed, Fatal
  <1> QED BY <1>1, <1>2, <1>3, <1>5, <1>6, <1>7, <1>8, <1>9 DEF Successor, Quiet, q

\* Open frames, of which the head is replaced, hold no bug check.
LEMMA TickBodyStep ==
    ASSUME CoresInv, NEW c \in Cores, TickBody(c)
    PROVE  \E r : Successor(c, r) /\ Quiet(r)
  <1> DEFINE q == core[c]
             switched == <<UserFrame>> \o Tail(q.frames)
  <1>1. q \in CoreType /\ CoreInv(q) /\ (~failed => Undisturbed(q)) /\ q.pc = "tickBody"
        /\ (c \in Aps => schedTimer = "lapic")
    BY DEF CoresInv, TickBody
  <1>2. failed' = failed /\ UNCHANGED <<bugLock, screen>>
    BY DEF TickBody
  <1>3. PICK r : Go(c, r)
           /\ \/ q.gs = "zero" /\ r = [q EXCEPT !.pc = "tickExit"]
              \/ q.gs # "zero" /\ r = [q EXCEPT !.pc = "tickExit", !.inService = FALSE,
                                                !.armed = OneshotUsec]
              \/ q.gs # "zero" /\ r = [q EXCEPT !.pc = "tickExit", !.inService = FALSE,
                                                !.armed = OneshotUsec, !.frames = switched]
    <2>1. PICK found \in BOOLEAN : Switch(c, found)  BY DEF TickBody
    <2>2. CASE q.gs = "zero"  BY <2>1, <2>2 DEF Switch
    <2>3. CASE q.gs # "zero" /\ found  BY <2>1, <2>3 DEF Switch
    <2>4. CASE q.gs # "zero" /\ ~found
      <3>1. Go(c, [q EXCEPT !.pc = "tickExit", !.inService = FALSE,
                            !.armed = OneshotUsec, !.frames = @])
        BY <2>1, <2>4 DEF Switch
      <3>2. [q EXCEPT !.pc = "tickExit", !.inService = FALSE,
                      !.armed = OneshotUsec, !.frames = @]
              = [q EXCEPT !.pc = "tickExit", !.inService = FALSE, !.armed = OneshotUsec]
        BY <1>1 DEF CoreType
      <3> QED BY <2>4, <3>1, <3>2
    <2> QED BY <2>2, <2>3, <2>4
  <1> HIDE DEF q
  <1>4. Open(q.frames) /\ q.frames \in Seq(ContextType)
    BY <1>1 DEF CoreInv, InTick, TickPlaces, CoreType
  <1>5. /\ UserFrame \in ContextType /\ Tail(q.frames) \in Seq(ContextType)
        /\ \A i \in DOMAIN Tail(q.frames) :
              i + 1 \in DOMAIN q.frames /\ Tail(q.frames)[i] = q.frames[i + 1]
    BY <1>4, Rest DEF Open, UserFrame, ContextType, Points, Stacks
  <1>6. /\ switched \in Seq(ContextType)
        /\ switched[1] = UserFrame
        /\ \A i \in DOMAIN switched : i # 1 =>
              i - 1 \in DOMAIN Tail(q.frames) /\ switched[i] = Tail(q.frames)[i - 1]
    <2> HIDE DEF switched
    <2>1. switched = <<UserFrame>> \o Tail(q.frames)  BY DEF switched
    <2> QED BY <1>5, <2>1, Pushed
  <1> HIDE DEF switched
  <1>7. /\ r \in CoreType /\ r.stk = q.stk /\ r.ifl = q.ifl /\ r.gs = q.gs
        /\ r.pc = "tickExit"
        /\ \/ r.frames = q.frames
           \/ q.gs # "zero" /\ r.frames = switched
        /\ q.gs # "zero" => r.armed = OneshotUsec /\ ~r.inService
    BY <1>1, <1>3, <1>6, ZenonT(60) DEF CoreType, Points, Windows, CCode, OneshotUsec
  <1>8. CoreInv(r) /\ (q.gs = "zero" => Head(r.frames).at \notin {"user", "idle"})
    BY <1>1, <1>7, TickBodyCore DEF switched
  <1>9. c \in Aps => TimerInv(r)
    BY <1>1, <1>7, <1>8 DEF TimerInv, OneshotUsec, NoTimer
  <1>10. ~StoppedAt(q)
    BY <1>1, <1>4, OpenHead DEF StoppedAt, Fatal
  <1>11. Undisturbed(q) => Undisturbed(r)
    <2> SUFFICES ASSUME Undisturbed(q), NEW i \in DOMAIN r.frames
                 PROVE  r.frames[i].at \notin Fatal \union {"trap"}
      BY <1>7 DEF Undisturbed, Fatal
    <2>1. CASE r.frames = q.frames  BY <2>1 DEF Undisturbed
    <2>2. CASE r.frames = switched /\ i = 1  BY <1>6, <2>2 DEF UserFrame, Fatal
    <2>3. CASE r.frames = switched /\ i # 1
      <3>1. PICK j \in DOMAIN Tail(q.frames) : switched[i] = Tail(q.frames)[j]
        BY <1>6, <2>3
      <3> QED BY <1>5, <2>3, <3>1 DEF Undisturbed
    <2> QED BY <1>7, <2>1, <2>2, <2>3
  <1> QED BY <1>1, <1>2, <1>3, <1>7, <1>8, <1>9, <1>10, <1>11 DEF Successor, Quiet, q

LEMMA TickReturnStep ==
    ASSUME CoresInv, NEW c \in Cores, TickReturn(c)
    PROVE  \E r : Successor(c, r) /\ Quiet(r)
  <1> DEFINE q == core[c]
             f == Head(q.frames)
             r == [q EXCEPT !.pc = f.at, !.stk = f.stk, !.ifl = f.ifl, !.nmi = FALSE,
                            !.frames = IF f.at = "user" THEN <<>> ELSE Tail(@)]
  <1>1. q \in CoreType /\ CoreInv(q) /\ (~failed => Undisturbed(q)) /\ q.pc = "tickRet"
        /\ (c \in Aps => TimerInv(q))
    BY DEF CoresInv, TickReturn
  <1>2. Go(c, r) /\ failed' = failed /\ UNCHANGED <<bugLock, screen>>
    BY DEF TickReturn, FromUser
  <1> HIDE DEF q
  <1>3. /\ q.frames # <<>> /\ q.frames \in Seq(ContextType)
        /\ \A i \in DOMAIN q.frames : q.frames[i].at \notin Fatal
    <2>1. q.frames \in Seq(ContextType)  BY <1>1 DEF CoreType
    <2>2. InTick(q)  BY <1>1 DEF CoreInv, TickPlaces
    <2> QED BY <2>1, <2>2, OpenHead DEF InTick, Open
  <1>4. /\ Tail(q.frames) \in Seq(ContextType) /\ f \in ContextType
        /\ f = q.frames[1] /\ 1 \in DOMAIN q.frames
        /\ \A i \in DOMAIN Tail(q.frames) :
              i + 1 \in DOMAIN q.frames /\ Tail(q.frames)[i] = q.frames[i + 1]
    BY <1>3, Rest
  <1> HIDE DEF f
  <1>5. /\ r \in CoreType /\ r.pc = f.at /\ r.stk = f.stk /\ r.ifl = f.ifl /\ r.gs = q.gs
        /\ r.frames = IF f.at = "user" THEN <<>> ELSE Tail(q.frames)
        /\ r.armed = q.armed /\ r.inService = q.inService
    <2> DEFINE below == IF f.at = "user" THEN <<>> ELSE Tail(q.frames)
    <2>1. below \in Seq(ContextType)  BY <1>4
    <2>2. f.at \in Points /\ f.stk \in Stacks /\ f.ifl \in BOOLEAN  BY <1>4 DEF ContextType
    <2>3. r = [q EXCEPT !.pc = f.at, !.stk = f.stk, !.ifl = f.ifl, !.nmi = FALSE,
                        !.frames = below]
      OBVIOUS
    <2> HIDE DEF below, r
    <2>4. /\ r \in CoreType /\ r.pc = f.at /\ r.stk = f.stk /\ r.ifl = f.ifl /\ r.gs = q.gs
          /\ r.frames = below /\ r.armed = q.armed /\ r.inService = q.inService
      BY <1>1, <2>1, <2>2, <2>3 DEF CoreType
    <2> QED BY <2>4 DEF below
  <1> HIDE DEF r
  <1>6. CoreInv(r) /\ r.pc \in {"user", "idle", "trap"}
    BY <1>1, <1>5, TickReturnCore DEF f
  <1>7. TimerInv(q) => TimerInv(r)
    BY <1>1, <1>5, <1>6 DEF TimerInv, f
  <1>8. ~StoppedAt(q)  BY <1>1, <1>3 DEF StoppedAt, Fatal
  <1>9. Undisturbed(q) => Undisturbed(r)
    BY <1>4, <1>5 DEF Undisturbed
  <1> QED BY <1>1, <1>2, <1>5, <1>6, <1>7, <1>8, <1>9 DEF Successor, Quiet, q

LEMMA BugCheckStep ==
    ASSUME CoresInv, NEW c \in Cores,
           \/ TrapCli(c) \/ TrapSwapgs(c) \/ Acquire(c) \/ Clear(c) \/ Report(c) \/ Halt(c)
    PROVE  \E r : /\ Successor(c, r)
                  /\ TrapCli(c) \/ TrapSwapgs(c) \/ Halt(c) => Quiet(r)
                  /\ Acquire(c) => r.pc = "clear"
                  /\ Clear(c) => r.pc = "print"
                  /\ Report(c) => r.pc = "dump"
  <1> DEFINE q == core[c]
             swapped == IF Head(q.frames).at = "user" THEN Swap(q.gs) ELSE q.gs
  <1>1. q \in CoreType /\ CoreInv(q) /\ (~failed => Undisturbed(q))  BY DEF CoresInv
  <1>2. failed' = failed
    BY DEF TrapCli, TrapSwapgs, Acquire, Clear, Report, Halt
  <1>3. TrapCli(c) \/ TrapSwapgs(c) \/ Halt(c) => UNCHANGED <<bugLock, screen>>
    BY DEF TrapCli, TrapSwapgs, Halt
  <1>4. /\ TrapCli(c) => q.pc = "trap"
        /\ TrapSwapgs(c) => q.pc = "trapGs"
        /\ Acquire(c) => q.pc = "acquire"
        /\ Clear(c) => q.pc = "clear"
        /\ Report(c) => q.pc = "print"
        /\ Halt(c) => q.pc = "dump"
    BY DEF TrapCli, TrapSwapgs, Acquire, Clear, Report, Halt
  <1>5. PICK r : Go(c, r)
           /\ \/ q.pc = "trap" /\ r = [q EXCEPT !.pc = "trapGs", !.ifl = FALSE]
              \/ q.pc = "trapGs" /\ r = [q EXCEPT !.pc = "acquire", !.gs = swapped]
              \/ q.pc = "acquire" /\ r = [q EXCEPT !.pc = "clear"]
              \/ q.pc = "clear" /\ r = [q EXCEPT !.pc = "print"]
              \/ q.pc = "print" /\ r = [q EXCEPT !.pc = "dump"]
              \/ q.pc = "dump" /\ r = [q EXCEPT !.pc = "halted", !.ifl = FALSE]
    BY DEF TrapCli, TrapSwapgs, Acquire, Clear, Report, Halt, SwapIfUser, FromUser
  <1>6. swapped \in {"kpcr", "zero", "unset"}  BY <1>1 DEF Swap, CoreType
  <1> HIDE DEF q, swapped
  <1>7. /\ r \in CoreType /\ r.frames = q.frames /\ r.stk = q.stk
        /\ \/ q.pc = "trap" /\ r.pc = "trapGs" /\ r.gs = q.gs /\ ~r.ifl
           \/ q.pc = "trapGs" /\ r.pc = "acquire" /\ r.ifl = q.ifl /\ r.gs = swapped
           \/ q.pc = "acquire" /\ r.pc = "clear" /\ r.gs = q.gs /\ r.ifl = q.ifl
           \/ q.pc = "clear" /\ r.pc = "print" /\ r.gs = q.gs /\ r.ifl = q.ifl
           \/ q.pc = "print" /\ r.pc = "dump" /\ r.gs = q.gs /\ r.ifl = q.ifl
           \/ q.pc = "dump" /\ r.pc = "halted" /\ r.gs = q.gs /\ ~r.ifl
    BY <1>1, <1>5, <1>6, ZenonT(60) DEF CoreType, Points, Windows, CCode, Fatal
  <1>8. q.pc \in Fatal => ~q.ifl  BY <1>1 DEF CoreInv, Fatal
  <1>9. CoreInv(r)
    BY <1>1, <1>7, <1>8, BugCheckCore DEF swapped, Fatal
  <1>10. StoppedAt(r)  BY <1>7 DEF StoppedAt, Fatal
  <1>11. TimerInv(r)  BY <1>7 DEF TimerInv
  <1>12. failed  BY <1>1, <1>7 DEF Undisturbed, Fatal
  <1>13. Successor(c, r)
    BY <1>2, <1>5, <1>7, <1>9, <1>10, <1>11, <1>12 DEF Successor, q
  <1> QED BY <1>3, <1>4, <1>7, <1>13 DEF Quiet

LEMMA CoresKept ==
    ASSUME CoresInv, NEW c \in Cores, NEW r, Successor(c, r),
           schedTimer' = schedTimer, failed => failed'
    PROVE  /\ CoresInv' /\ core'[c] = r
           /\ \A d \in Cores : /\ d # c => core'[d] = core[d]
                               /\ Stopped(d) => Stopped(d)'
  <1>1. /\ core' = [core EXCEPT ![c] = r] /\ r \in CoreType /\ CoreInv(r)
        /\ core[c].pc # "off" /\ (StoppedAt(core[c]) => StoppedAt(r))
        /\ (c \in Aps => TimerInv(r)) /\ (~failed' => Undisturbed(r))
    BY DEF Successor, Go
  <1>2. /\ core' \in [Cores -> CoreType] /\ core'[c] = r
        /\ \A d \in Cores : d # c => core'[d] = core[d]
    BY <1>1 DEF CoresInv
  <1>3. \A d \in Cores : CoreInv(core'[d]) /\ (~failed' => Undisturbed(core'[d]))
    BY <1>1, <1>2 DEF CoresInv
  <1>4. \A d \in Aps : TimerInv(core'[d]) /\ (core'[d].pc # "off" => schedTimer' = "lapic")
    BY <1>1, <1>2 DEF CoresInv, Cores
  <1>5. \A d \in Cores : StoppedAt(core[d]) => StoppedAt(core'[d])  BY <1>1, <1>2
  <1>6. \A d \in Cores : (Stopped(d) <=> StoppedAt(core[d])) /\ (Stopped(d)' <=> StoppedAt(core'[d]))
    BY DEF Stopped, StoppedAt
  <1> QED BY <1>2, <1>3, <1>4, <1>5, <1>6 DEF CoresInv

\* Every step of a trap, a tick or a system call.
LEMMA TrapStepKeeps ==
    ASSUME CoresInv, ScreenInv, TrapStep
    PROVE  /\ CoresInv' /\ ScreenInv'
           /\ \A c \in Cores : Stopped(c) => Stopped(c)'
           /\ screen # {} => screen' = screen
           /\ \A c \in Cores : /\ core[c].pc = "off" <=> core'[c].pc = "off"
                               /\ core'[c].pc = "boot" => core'[c] = core[c]
  <1>1. PICK c \in Cores :
           \/ Fault(c) \/ Nmi(c) \/ Syscall(c) \/ SyscallSwapgs(c) \/ SyscallStack(c)
           \/ SyscallRefused(c) \/ SyscallNull(c) \/ SyscallExit(c) \/ Sysret(c)
           \/ Tick(c) \/ TickEntry(c) \/ TickBody(c) \/ TickExit(c) \/ TickReturn(c)
           \/ TrapCli(c) \/ TrapSwapgs(c) \/ Acquire(c) \/ Clear(c)
           \/ Report(c) \/ DumpFaults(c) \/ Halt(c)
    BY DEF TrapStep
  <1>2. schedTimer' = schedTimer /\ (failed => failed')
    BY <1>1 DEF Fault, Nmi, Syscall, SyscallSwapgs, SyscallStack, SyscallRefused, SyscallNull,
                SyscallExit, Sysret, Tick, TickEntry, TickBody, TickExit, TickReturn,
                TrapCli, TrapSwapgs, Acquire, Clear, Report, DumpFaults, Halt
  <1>3. PICK r : /\ Successor(c, r)
                 /\ \/ Quiet(r)
                    \/ Acquire(c) /\ r.pc = "clear"
                    \/ Clear(c) /\ r.pc = "print"
                    \/ Report(c) /\ r.pc = "dump"
    <2>1. CASE Fault(c) \/ Nmi(c) \/ SyscallNull(c) \/ DumpFaults(c)
      BY <2>1, TrapGateStep
    <2>2. CASE \/ Syscall(c) \/ SyscallSwapgs(c) \/ SyscallStack(c) \/ SyscallRefused(c)
               \/ SyscallExit(c) \/ Sysret(c)
      BY <2>2, SystemCallStep
    <2>3. CASE Tick(c)  BY <2>3, TickStep
    <2>4. CASE TickEntry(c) \/ TickExit(c)  BY <2>4, TickSwapStep
    <2>5. CASE TickBody(c)  BY <2>5, TickBodyStep
    <2>6. CASE TickReturn(c)  BY <2>6, TickReturnStep
    <2>7. CASE TrapCli(c) \/ TrapSwapgs(c) \/ Halt(c)
      BY <2>7, BugCheckStep
    <2>8. CASE Acquire(c) \/ Clear(c) \/ Report(c)
      BY <2>8, BugCheckStep
    <2> QED BY <1>1, <2>1, <2>2, <2>3, <2>4, <2>5, <2>6, <2>7, <2>8
  <1>4. /\ CoresInv' /\ core'[c] = r
        /\ \A d \in Cores : /\ d # c => core'[d] = core[d]
                            /\ Stopped(d) => Stopped(d)'
    BY <1>2, <1>3, CoresKept
  <1>5. core[c].pc # "off" /\ r.pc \notin {"off", "boot"}  BY <1>3 DEF Successor
  <1>6. CASE Quiet(r)
    <2>1. ScreenInv'  BY <1>4, <1>6 DEF ScreenInv, Quiet
    <2> QED BY <1>4, <1>5, <1>6, <2>1 DEF Quiet
  <1>7. CASE Acquire(c) /\ r.pc = "clear"
    <2>1. ~bugLock /\ bugLock' /\ screen' = screen  BY <1>7 DEF Acquire
    <2>2. screen = {} /\ \A d \in Cores : core[d].pc \notin {"clear", "print"}
      BY <2>1 DEF ScreenInv
    <2>3. ScreenInv'  BY <1>4, <1>7, <2>1, <2>2 DEF ScreenInv
    <2> QED BY <1>4, <1>5, <2>1, <2>3
  <1>8. CASE Clear(c) /\ r.pc = "print"
    <2>1. screen = {} /\ screen' = {c} /\ bugLock /\ bugLock' /\ core[c].pc = "clear"
      BY <1>8 DEF Clear, ScreenInv
    <2>2. \A d \in Cores : d # c => core[d].pc \notin {"clear", "print"}
      BY <2>1 DEF ScreenInv
    <2>3. ScreenInv'  BY <1>4, <1>8, <2>1, <2>2 DEF ScreenInv
    <2> QED BY <1>4, <1>5, <2>1, <2>3
  <1>9. CASE Report(c) /\ r.pc = "dump"
    <2>1. screen' = screen /\ bugLock' = bugLock /\ core[c].pc = "print"
      BY <1>9 DEF Report, ScreenInv
    <2>2. ScreenInv'  BY <1>4, <1>9, <2>1 DEF ScreenInv
    <2> QED BY <1>4, <1>5, <2>1, <2>2
  <1> QED BY <1>3, <1>6, <1>7, <1>8, <1>9

--------------------------------------------------------------------------------

LEMMA LookupRoot == ASSUME NEW s PROVE Lookup(s, <<>>) = s.root
  <1> DEFINE path == <<>>
             Walk(w) == w = [i \in 0 .. Len(path) |->
                                IF i = 0 THEN s.root ELSE DirectoryLookup(s, w[i - 1], path[i])]
  <1>1. Walk([i \in 0 .. 0 |-> s.root])  OBVIOUS
  <1>2. Walk(CHOOSE w : Walk(w))  BY <1>1
  <1>3. (CHOOSE w : Walk(w))[0] = s.root  BY <1>2
  <1>4. Lookup(s, path) = (CHOOSE w : Walk(w))[Len(path)]  BY DEF Lookup
  <1> QED BY <1>3, <1>4

LEMMA LookupOne ==
    ASSUME NEW s, NEW a PROVE Lookup(s, <<a>>) = DirectoryLookup(s, s.root, a)
  <1> DEFINE path == <<a>>
             Walk(w) == w = [i \in 0 .. Len(path) |->
                                IF i = 0 THEN s.root ELSE DirectoryLookup(s, w[i - 1], path[i])]
             walk == CHOOSE w : Walk(w)
  <1>1. Len(path) = 1 /\ path[1] = a  OBVIOUS
  <1> HIDE DEF path
  <1>2. Walk([i \in 0 .. 1 |-> IF i = 0 THEN s.root ELSE DirectoryLookup(s, s.root, a)])
    BY <1>1
  <1>3. Walk(walk)  BY <1>2
  <1>4. Lookup(s, path) = walk[Len(path)]  BY DEF Lookup
  <1> HIDE DEF walk
  <1>5. walk[0] = s.root /\ walk[1] = DirectoryLookup(s, walk[0], path[1])  BY <1>1, <1>3
  <1> QED BY <1>1, <1>4, <1>5 DEF path

LEMMA LookupTwo ==
    ASSUME NEW s, NEW a, NEW b
    PROVE  Lookup(s, <<a, b>>) = DirectoryLookup(s, DirectoryLookup(s, s.root, a), b)
  <1> DEFINE path == <<a, b>>
             Walk(w) == w = [i \in 0 .. Len(path) |->
                                IF i = 0 THEN s.root ELSE DirectoryLookup(s, w[i - 1], path[i])]
             walk == CHOOSE w : Walk(w)
             first == DirectoryLookup(s, s.root, a)
  <1>1. Len(path) = 2 /\ path[1] = a /\ path[2] = b  OBVIOUS
  <1> HIDE DEF path
  <1>2. Walk([i \in 0 .. 2 |-> IF i = 0 THEN s.root ELSE IF i = 1 THEN first
                               ELSE DirectoryLookup(s, first, b)])
    BY <1>1
  <1>3. Walk(walk)  BY <1>2
  <1>4. Lookup(s, path) = walk[Len(path)]  BY DEF Lookup
  <1> HIDE DEF walk
  <1>5. /\ walk[0] = s.root /\ walk[1] = DirectoryLookup(s, walk[0], path[1])
        /\ walk[2] = DirectoryLookup(s, walk[1], path[2])
    BY <1>1, <1>3
  <1> QED BY <1>1, <1>4, <1>5 DEF path

LEMMA ShapeFacts ==
    ASSUME NEW s, StoreShape(s)
    PROVE  /\ s.ob \in Seq(ObjectType) /\ Len(s.ob) \in Nat /\ DOMAIN s.ob = 1 .. Len(s.ob)
           /\ DOMAIN s.dir \subseteq DOMAIN s.ob
           /\ \A d \in DOMAIN s.dir : s.dir[d] \in Seq(DOMAIN s.ob)
           /\ \A o \in DOMAIN s.ob :
                 /\ s.ob[o].name \in Names /\ s.ob[o].ref \in 1 .. 2 /\ s.ob[o] \in ObjectType
                 /\ s.ob[o] = [name |-> s.ob[o].name, type |-> s.ob[o].type,
                               ref |-> s.ob[o].ref, data |-> s.ob[o].data]
  <1>1. /\ s.ob \in Seq(ObjectType) /\ DOMAIN s.dir \subseteq DOMAIN s.ob
        /\ \A d \in DOMAIN s.dir : s.dir[d] \in Seq(DOMAIN s.ob)
    BY DEF StoreShape
  <1> DEFINE ob == s.ob
  <1>2. ob \in Seq(ObjectType)  BY <1>1
  <1> HIDE DEF ob
  <1>3. /\ Len(ob) \in Nat /\ DOMAIN ob = 1 .. Len(ob)
        /\ \A o \in DOMAIN ob : ob[o] \in ObjectType
    BY <1>2
  <1>4. \A x \in ObjectType :
           /\ x.name \in Names /\ x.ref \in 1 .. 2
           /\ x = [name |-> x.name, type |-> x.type, ref |-> x.ref, data |-> x.data]
    BY DEF ObjectType
  <1> QED BY <1>1, <1>3, <1>4 DEF ob

\* A directory finds its child by its name.
LEMMA LookupChild ==
    ASSUME NEW s, StoreShape(s), Tree(s), NEW d \in DOMAIN s.dir, NEW i \in DOMAIN s.dir[d]
    PROVE  DirectoryLookup(s, d, s.ob[s.dir[d][i]].name) = s.dir[d][i]
  <1> DEFINE children == s.dir[d]
             name == s.ob[children[i]].name
             hits == {j \in DOMAIN children : s.ob[children[j]].name = name}
  <1>1. \A j \in DOMAIN children : children[j] \in DOMAIN s.ob /\ j \in Int
    BY DEF StoreShape
  <1>2. \A j \in hits : children[j] = children[i]  BY <1>1 DEF Tree
  <1>3. hits = {i}  BY <1>1, <1>2 DEF Tree
  <1>4. (CHOOSE j \in hits : \A k \in hits : j <= k) = i
    <2> HIDE DEF hits
    <2> QED BY <1>1, <1>3
  <1> QED BY <1>3, <1>4, ZenonT(60) DEF DirectoryLookup

\* A lookup of the path of an object finds it.
LEMMA LookupObject ==
    ASSUME NEW s, StoreShape(s), Tree(s), NEW o \in DOMAIN s.ob \ {1}
    PROVE  Lookup(s, PathOf(s.ob[o].name)) = o
  <1> DEFINE n == s.ob[o].name
  <1>1. /\ n \in Names \ {"/"} /\ s.root = 1
        /\ \A d \in DOMAIN s.dir : d \in DOMAIN s.ob /\ s.ob[d].name \in Names
    BY ShapeFacts DEF Tree
  <1>2a. PICK d \in DOMAIN s.dir : \E i \in DOMAIN s.dir[d] : s.dir[d][i] = o  BY DEF Tree
  <1>2. PICK i \in DOMAIN s.dir[d] : s.dir[d][i] = o  BY <1>2a
  <1>3. s.ob[d].name = ParentOf(n) /\ DirectoryLookup(s, d, n) = o
    BY <1>2, LookupChild DEF Tree
  <1>4. CASE ParentOf(n) = "/"
    <2>1. d = 1  BY <1>1, <1>3, <1>4 DEF Tree
    <2> QED BY <1>1, <1>3, <1>4, <2>1, LookupOne DEF PathOf
  <1>5. CASE ParentOf(n) # "/"
    <2>1. ParentOf(n) \in {"clkdev", "mapper"}
      BY <1>1, <1>5 DEF ParentOf, Names
    <2>2. d # 1  BY <1>1, <1>3, <2>1 DEF Tree
    <2>3a. PICK e \in DOMAIN s.dir : \E j \in DOMAIN s.dir[e] : s.dir[e][j] = d
      BY <1>1, <2>2 DEF Tree
    <2>3. PICK j \in DOMAIN s.dir[e] : s.dir[e][j] = d  BY <2>3a
    <2>4. s.ob[e].name = "/" /\ DirectoryLookup(s, e, ParentOf(n)) = d
      BY <1>3, <2>1, <2>3, LookupChild, SMTT(60) DEF Tree, ParentOf
    <2>5. e = 1  BY <1>1, <2>4 DEF Tree
    <2>6. PathOf(n) = <<ParentOf(n), n>>  BY <1>5 DEF PathOf
    <2>7. Lookup(s, <<ParentOf(n), n>>) = DirectoryLookup(s, DirectoryLookup(s, 1, ParentOf(n)), n)
      BY <1>1, LookupTwo
    <2> QED BY <1>3, <2>4, <2>5, <2>6, <2>7
  <1> QED BY <1>4, <1>5

\* t is s with one more object, named n, in directory p; ref counts it.
Grows(s, t, p, n, ref) ==
    LET o == Len(s.ob) + 1
    IN  /\ StoreShape(t)
        /\ Len(t.ob) = o /\ t.root = s.root
        /\ \A x \in DOMAIN s.ob : t.ob[x] = s.ob[x]
        /\ t.ob[o] = [name |-> n, type |-> TypeOf(n), ref |-> ref, data |-> DataOf(n)]
        /\ DOMAIN t.dir \in {DOMAIN s.dir, DOMAIN s.dir \union {o}}
        /\ t.dir[p] = Append(s.dir[p], o)
        /\ \A d \in DOMAIN s.dir \ {p} : t.dir[d] = s.dir[d]
        /\ o \in DOMAIN t.dir => t.dir[o] = <<>>

LEMMA GrowsTree ==
    ASSUME NEW s, StoreShape(s), Tree(s), NEW p \in DOMAIN s.dir,
           NEW n \in Names \ {"/"}, n \notin NamesIn(s), s.ob[p].name = ParentOf(n),
           NEW t, NEW ref, Grows(s, t, p, n, ref)
    PROVE  Tree(t) /\ NamesIn(t) = NamesIn(s) \union {n}
  <1> DEFINE o == Len(s.ob) + 1
  <1>1. /\ Len(s.ob) \in Nat /\ DOMAIN s.ob = 1 .. Len(s.ob) /\ DOMAIN s.dir \subseteq DOMAIN s.ob
        /\ \A d \in DOMAIN s.dir : s.dir[d] \in Seq(DOMAIN s.ob)
        /\ 1 \in DOMAIN s.ob /\ 1 \in DOMAIN s.dir /\ s.root = 1
    BY ShapeFacts DEF Tree
  <1>2. /\ Len(t.ob) = o /\ t.root = 1 /\ DOMAIN t.ob = DOMAIN s.ob \union {o}
        /\ o \notin DOMAIN s.ob /\ o # 1
    BY <1>1, ShapeFacts, SMTT(60) DEF Grows
  <1>3. /\ \A x \in DOMAIN s.ob : t.ob[x] = s.ob[x]
        /\ t.ob[o].name = n /\ t.ob[o].type = TypeOf(n) /\ t.ob[o].data = DataOf(n)
    BY DEF Grows
  <1>4. /\ DOMAIN s.dir \subseteq DOMAIN t.dir /\ DOMAIN t.dir \subseteq DOMAIN s.dir \union {o}
        /\ \A d \in DOMAIN s.dir : d # p => t.dir[d] = s.dir[d]
        /\ o \in DOMAIN t.dir => t.dir[o] = <<>>
    BY DEF Grows
  <1>5. /\ DOMAIN t.dir[p] = DOMAIN s.dir[p] \union {Len(s.dir[p]) + 1}
        /\ Len(s.dir[p]) + 1 \notin DOMAIN s.dir[p]
        /\ t.dir[p][Len(s.dir[p]) + 1] = o
        /\ \A i \in DOMAIN s.dir[p] : t.dir[p][i] = s.dir[p][i]
    <2> DEFINE c == s.dir[p]
    <2>1. t.dir[p] = Append(c, o)  BY DEF Grows
    <2>2. c \in Seq(DOMAIN s.ob)  BY <1>1
    <2> HIDE DEF c, o
    <2> QED BY <2>1, <2>2 DEF c
  <1>6. \A d \in DOMAIN s.dir : \A i \in DOMAIN s.dir[d] :
           s.dir[d][i] \in DOMAIN s.ob /\ t.dir[d][i] = s.dir[d][i] /\ i \in DOMAIN t.dir[d]
    <2> TAKE d \in DOMAIN s.dir
    <2> TAKE i \in DOMAIN s.dir[d]
    <2>1. s.dir[d][i] \in DOMAIN s.ob
      <3> DEFINE c == s.dir[d]
      <3>1. c \in Seq(DOMAIN s.ob) /\ i \in DOMAIN c  BY <1>1
      <3> HIDE DEF c
      <3>2. c[i] \in DOMAIN s.ob  BY <3>1
      <3> QED BY <3>2 DEF c
    <2>2. CASE d = p  BY <1>5, <2>1, <2>2
    <2>3. CASE d # p  BY <1>4, <2>1, <2>3
    <2> QED BY <2>2, <2>3
  <1>7. \A x \in DOMAIN s.ob : s.ob[x].name # n  BY DEF NamesIn
  <1> HIDE DEF o
  <1>8. ASSUME NEW d \in DOMAIN t.dir, NEW i \in DOMAIN t.dir[d]
        PROVE  /\ d \in DOMAIN s.dir
               /\ \/ i \in DOMAIN s.dir[d] /\ t.dir[d][i] = s.dir[d][i]
                  \/ d = p /\ i = Len(s.dir[p]) + 1 /\ t.dir[d][i] = o
    <2>1. d # o  BY <1>4
    <2>2. d \in DOMAIN s.dir  BY <1>4, <2>1
    <2> QED BY <1>4, <1>5, <2>2
  <1>9. ASSUME NEW x \in DOMAIN t.ob
        PROVE  /\ t.ob[x].type = TypeOf(t.ob[x].name) /\ t.ob[x].data = DataOf(t.ob[x].name)
               /\ t.ob[x].name = "/" <=> x = 1
               /\ \A y \in DOMAIN t.ob : t.ob[y].name = t.ob[x].name => y = x
               /\ x # 1 => \E d \in DOMAIN t.dir : \E i \in DOMAIN t.dir[d] : t.dir[d][i] = x
    <2>1. CASE x = o
      <3>1. \E i \in DOMAIN t.dir[p] : t.dir[p][i] = x  BY <1>5, <2>1
      <3> QED BY <1>2, <1>3, <1>4, <1>7, <2>1, <3>1
    <2>2. CASE x # o
      <3>1. x \in DOMAIN s.ob  BY <1>2, <2>2
      <3>2. /\ s.ob[x].type = TypeOf(s.ob[x].name) /\ s.ob[x].data = DataOf(s.ob[x].name)
            /\ s.ob[x].name = "/" <=> x = 1
            /\ \A y \in DOMAIN s.ob : s.ob[y].name = s.ob[x].name => y = x
            /\ x # 1 => \E d \in DOMAIN s.dir : \E i \in DOMAIN s.dir[d] : s.dir[d][i] = x
        BY <3>1 DEF Tree
      <3>3. x # 1 => \E d \in DOMAIN t.dir : \E i \in DOMAIN t.dir[d] : t.dir[d][i] = x
        BY <1>4, <1>6, <3>2
      <3> QED BY <1>2, <1>3, <1>7, <3>1, <3>2, <3>3
    <2> QED BY <2>1, <2>2
  <1>10. ASSUME NEW d \in DOMAIN t.dir, NEW i \in DOMAIN t.dir[d]
         PROVE  /\ t.ob[d].name = ParentOf(t.ob[t.dir[d][i]].name)
                /\ \A j \in DOMAIN t.dir[d] : t.dir[d][j] = t.dir[d][i] => j = i
    <2>1. t.ob[d] = s.ob[d]  BY <1>1, <1>3, <1>8
    <2>2. CASE i \in DOMAIN s.dir[d] /\ t.dir[d][i] = s.dir[d][i]
      <3>1. s.ob[d].name = ParentOf(s.ob[s.dir[d][i]].name)
        BY <1>8, <2>2 DEF Tree
      <3>2. ASSUME NEW j \in DOMAIN t.dir[d], t.dir[d][j] = t.dir[d][i] PROVE j = i
        <4>1. t.dir[d][i] # o  BY <1>2, <1>6, <1>8, <2>2
        <4>2. j \in DOMAIN s.dir[d] /\ t.dir[d][j] = s.dir[d][j]  BY <1>8, <3>2, <4>1
        <4>3. \A k \in DOMAIN s.dir[d] : s.dir[d][k] = s.dir[d][i] => k = i
          BY <1>8, <2>2 DEF Tree
        <4> QED BY <2>2, <3>2, <4>2, <4>3
      <3> QED BY <1>3, <1>6, <1>8, <2>1, <2>2, <3>1, <3>2
    <2>3. CASE d = p /\ i = Len(s.dir[p]) + 1 /\ t.dir[d][i] = o
      <3>1. \A j \in DOMAIN t.dir[d] : t.dir[d][j] = o => j = i
        BY <1>2, <1>6, <1>8, <2>3
      <3> QED BY <1>3, <2>1, <2>3, <3>1
    <2> QED BY <1>8, <2>2, <2>3
  <1>11. Tree(t)
    <2>1. 1 \in DOMAIN t.dir /\ Len(t.ob) >= 1  BY <1>1, <1>2, <1>4 DEF o
    <2> QED BY <1>2, <1>9, <1>10, <2>1 DEF Tree
  <1>12. NamesIn(t) = NamesIn(s) \union {n}
    BY <1>2, <1>3 DEF NamesIn
  <1> QED BY <1>11, <1>12

LEMMA GrowsEntries ==
    ASSUME NEW s, NEW p, NEW n, NEW t, NEW ref, Grows(s, t, p, n, ref),
           NEW o, o = Len(s.ob) + 1
    PROVE  /\ Entry(t, o) = [path |-> PathOf(n), object |-> o, data |-> DataOf(n)]
           /\ \A x \in DOMAIN s.ob : Entry(t, x) = Entry(s, x)
  <1>1. /\ \A x \in DOMAIN s.ob : t.ob[x] = s.ob[x]
        /\ t.ob[o].name = n
    BY DEF Grows
  <1> QED BY <1>1 DEF Entry

\* Registered, the new object has a reference for its maker as well.
LEMMA GrowsCounted ==
    ASSUME NEW s, StoreShape(s), Len(s.ob) >= 1, NEW p, NEW n, NEW t,
           Grows(s, t, p, n, 2), NEW reg, Counted(s, reg),
           NEW o, o = Len(s.ob) + 1, NEW add, add = {Entry(t, o)}
    PROVE  Counted(t, reg \union add)
  <1>1. /\ DOMAIN t.ob = DOMAIN s.ob \union {o} /\ o \notin DOMAIN s.ob /\ o # 1
    BY ShapeFacts DEF Grows
  <1>2. /\ \A x \in DOMAIN s.ob : t.ob[x] = s.ob[x]
        /\ t.ob[o].name = n /\ t.ob[o].ref = 2
    BY DEF Grows
  <1>3. \A x \in DOMAIN s.ob : Entry(t, x) = Entry(s, x)  BY <1>2 DEF Entry
  <1>5. \A x, y : Entry(t, x) = Entry(t, y) => x = y
    BY DEF Entry
  <1>6. Entry(t, o) \notin reg
    <2>1. ASSUME Entry(t, o) \in reg PROVE FALSE
      <3>1. PICK x \in DOMAIN s.ob \ {1} : Entry(t, o) = Entry(s, x)  BY <2>1 DEF Counted
      <3> QED BY <1>1, <1>3, <1>5, <3>1
    <2> QED BY <2>1
  <1>7. \A r \in reg \union add : \E x \in DOMAIN t.ob \ {1} : r = Entry(t, x)
    BY <1>1, <1>3 DEF Counted
  <1>8. ASSUME NEW x \in DOMAIN t.ob
        PROVE  t.ob[x].ref = IF Entry(t, x) \in reg \union add THEN 2 ELSE 1
    <2>1. CASE x = o  BY <1>2, <1>6, <2>1
    <2>2. CASE x # o
      <3>1. x \in DOMAIN s.ob /\ t.ob[x] = s.ob[x] /\ Entry(t, x) = Entry(s, x)
        BY <1>1, <1>2, <1>3, <2>2
      <3>2. Entry(t, x) # Entry(t, o)  BY <1>5, <2>2
      <3>3. s.ob[x].ref = IF Entry(s, x) \in reg THEN 2 ELSE 1  BY <3>1 DEF Counted
      <3> QED BY <3>1, <3>2, <3>3
    <2> QED BY <2>1, <2>2
  <1>9. Counted(t, reg \union add)  BY <1>7, <1>8 DEF Counted
  <1> QED BY <1>9

\* Given up by its maker, it has that of its directory only.
LEMMA GrowsGivenUp ==
    ASSUME NEW s, StoreShape(s), Len(s.ob) >= 1, NEW p, NEW n, NEW t,
           Grows(s, t, p, n, 1), NEW reg, Counted(s, reg),
           NEW o, o = Len(s.ob) + 1
    PROVE  Counted(t, reg)
  <1>1. /\ DOMAIN t.ob = DOMAIN s.ob \union {o} /\ o \notin DOMAIN s.ob /\ o # 1
    BY ShapeFacts DEF Grows
  <1>2. /\ \A x \in DOMAIN s.ob : t.ob[x] = s.ob[x]
        /\ t.ob[o].name = n /\ t.ob[o].ref = 1
    BY DEF Grows
  <1>3. \A x \in DOMAIN s.ob : Entry(t, x) = Entry(s, x)  BY <1>2 DEF Entry
  <1>5. \A x, y : Entry(t, x) = Entry(t, y) => x = y
    BY DEF Entry
  <1>6. Entry(t, o) \notin reg
    <2>1. ASSUME Entry(t, o) \in reg PROVE FALSE
      <3>1. PICK x \in DOMAIN s.ob \ {1} : Entry(t, o) = Entry(s, x)  BY <2>1 DEF Counted
      <3> QED BY <1>1, <1>3, <1>5, <3>1
    <2> QED BY <2>1
  <1>7. \A r \in reg : \E x \in DOMAIN t.ob \ {1} : r = Entry(t, x)
    BY <1>1, <1>3 DEF Counted
  <1>8. ASSUME NEW x \in DOMAIN t.ob
        PROVE  t.ob[x].ref = IF Entry(t, x) \in reg THEN 2 ELSE 1
    <2>1. CASE x = o  BY <1>2, <1>6, <2>1
    <2>2. CASE x # o
      <3>1. x \in DOMAIN s.ob /\ t.ob[x] = s.ob[x] /\ Entry(t, x) = Entry(s, x)
        BY <1>1, <1>2, <1>3, <2>2
      <3>2. Entry(t, x) # Entry(t, o)  BY <1>5, <2>2
      <3>3. s.ob[x].ref = IF Entry(s, x) \in reg THEN 2 ELSE 1  BY <3>1 DEF Counted
      <3> QED BY <3>1, <3>2, <3>3
    <2> QED BY <2>1, <2>2
  <1>9. Counted(t, reg)  BY <1>7, <1>8 DEF Counted
  <1> QED BY <1>9

\* obCreateObject in a directory found by its path, refused and not.
LEMMA CreateRefused ==
    ASSUME NEW s, StoreShape(s), Tree(s), NEW path, Lookup(s, path) \in DOMAIN s.dir,
           s.ob[Lookup(s, path)].name \in {"/", "clkdev", "mapper"},
           NEW n, NEW type, NEW mem \in BOOLEAN, ~mem
    PROVE  /\ Create(s, path, n, type, mem).status # "SUCCESS"
           /\ Create(s, path, n, type, mem).store = s
  <1> DEFINE p == Lookup(s, path)
  <1>1. /\ p \in DOMAIN s.ob /\ p # NoObject /\ s.ob[p].type = "directory"
    BY ShapeFacts DEF Tree, NoObject, TypeOf
  <1> QED BY <1>1 DEF Create

\* s with an object of this name and type in directory p, for its maker too.
WithObject(s, p, n, type, o) ==
    [ob |-> Append(s.ob, [name |-> n, type |-> type, ref |-> 2, data |-> NoData]),
     dir |-> [s.dir EXCEPT ![p] = Append(@, o)],
     root |-> s.root]

LEMMA CreateMade ==
    ASSUME NEW s, StoreShape(s), Tree(s), NEW path, Lookup(s, path) \in DOMAIN s.dir,
           s.ob[Lookup(s, path)].name \in {"/", "clkdev", "mapper"},
           NEW n, NEW type, NEW mem \in BOOLEAN, mem
    PROVE  /\ Create(s, path, n, type, mem).status = "SUCCESS"
           /\ Create(s, path, n, type, mem).object = Len(s.ob) + 1
           /\ Create(s, path, n, type, mem).store =
                  WithObject(s, Lookup(s, path), n, type, Len(s.ob) + 1)
  <1> DEFINE p == Lookup(s, path)
             o == Len(s.ob) + 1
             new == [name |-> n, type |-> type, ref |-> 2, data |-> NoData]
             u == NewObject(s, n, type, 2)
             grown == DirectoryAdd(u, p, o)
             r == Create(s, path, n, type, mem)
  <1>1. /\ p \in DOMAIN s.ob /\ p # NoObject /\ s.ob[p].type = "directory"
    BY ShapeFacts DEF Tree, NoObject, TypeOf
  <1>2. s = [ob |-> s.ob, dir |-> s.dir, root |-> s.root]  BY DEF StoreShape
  <1>3. u = [ob |-> Append(s.ob, new), dir |-> s.dir, root |-> s.root]
    <2>1. u = [s EXCEPT !.ob = Append(@, new)]  BY DEF NewObject
    <2> HIDE DEF new, u
    <2> QED BY <1>2, <2>1
  <1>4. r = [status |-> "SUCCESS", object |-> o, store |-> grown]
    BY <1>1 DEF Create
  <1>5. r.status = "SUCCESS" /\ r.object = o /\ r.store = grown
    <2> HIDE DEF r, o, grown
    <2> QED BY <1>4
  <1> HIDE DEF u, new, o
  <1>6. grown = [ob |-> Append(s.ob, new),
                 dir |-> [s.dir EXCEPT ![p] = Append(@, o)], root |-> s.root]
    BY <1>3 DEF DirectoryAdd
  <1> QED BY <1>5, <1>6 DEF WithObject, new, o

\* What obCreateObject and the call after it leave behind.
LEMMA CreateGrows ==
    ASSUME NEW s, StoreShape(s), Tree(s), NEW p \in DOMAIN s.dir,
           NEW n \in Names \ {"/"}, NEW t, NEW ref \in {1, 2},
           LET o == Len(s.ob) + 1
               dir == [s.dir EXCEPT ![p] = Append(@, o)]
           IN  /\ t.ob = Append(s.ob, [name |-> n, type |-> TypeOf(n), ref |-> ref,
                                       data |-> DataOf(n)])
               /\ \/ t.dir = dir
                  \/ t.dir = [x \in DOMAIN dir \union {o} |-> IF x = o THEN <<>> ELSE dir[x]]
               /\ t = [ob |-> t.ob, dir |-> t.dir, root |-> s.root]
    PROVE  Grows(s, t, p, n, ref)
  <1> DEFINE o == Len(s.ob) + 1
             new == [name |-> n, type |-> TypeOf(n), ref |-> ref, data |-> DataOf(n)]
             dir == [s.dir EXCEPT ![p] = Append(@, o)]
  <1>1. /\ Len(s.ob) \in Nat /\ s.ob \in Seq(ObjectType) /\ DOMAIN s.ob = 1 .. Len(s.ob)
        /\ DOMAIN s.dir \subseteq DOMAIN s.ob
        /\ \A d \in DOMAIN s.dir : s.dir[d] \in Seq(DOMAIN s.ob)
    BY ShapeFacts
  <1>2. new \in ObjectType
    BY DEF ObjectType, TypeOf, DataOf, NoData
  <1>3. /\ t.ob = Append(s.ob, new) /\ t.root = s.root
        /\ t = [ob |-> t.ob, dir |-> t.dir, root |-> t.root]
        /\ t.dir = dir \/ t.dir = [x \in DOMAIN dir \union {o} |-> IF x = o THEN <<>> ELSE dir[x]]
    OBVIOUS
  <1> HIDE DEF new
  <1>4. /\ t.ob \in Seq(ObjectType) /\ Len(t.ob) = o /\ DOMAIN t.ob = DOMAIN s.ob \union {o}
        /\ \A x \in DOMAIN s.ob : t.ob[x] = s.ob[x]
        /\ t.ob[o] = new /\ o \notin DOMAIN s.ob
    BY <1>1, <1>2, <1>3
  <1> HIDE DEF o
  <1>5. /\ DOMAIN dir = DOMAIN s.dir /\ dir[p] = Append(s.dir[p], o)
        /\ \A d \in DOMAIN s.dir \ {p} : dir[d] = s.dir[d]
    OBVIOUS
  <1>6. \A d \in DOMAIN s.dir : dir[d] \in Seq(DOMAIN t.ob)
    <2> TAKE d \in DOMAIN s.dir
    <2> DEFINE c == s.dir[d]
    <2>1. c \in Seq(DOMAIN t.ob)  BY <1>1, <1>4
    <2>2. dir[d] = IF d = p THEN Append(c, o) ELSE c  BY <1>5
    <2> HIDE DEF c, dir
    <2>3. o \in DOMAIN t.ob  BY <1>4
    <2>4. Append(c, o) \in Seq(DOMAIN t.ob)  BY <2>1, <2>3
    <2> QED BY <2>1, <2>2, <2>4
  <1> HIDE DEF dir
  <1>7. /\ DOMAIN t.dir \in {DOMAIN s.dir, DOMAIN s.dir \union {o}}
        /\ t.dir = [d \in DOMAIN t.dir |-> t.dir[d]]
        /\ \A d \in DOMAIN s.dir : t.dir[d] = dir[d]
        /\ o \in DOMAIN t.dir => t.dir[o] = <<>>
    <2>1. o \notin DOMAIN s.dir  BY <1>1, <1>4
    <2>2. CASE t.dir = dir
      <3>1. dir = [d \in DOMAIN dir |-> dir[d]]  BY DEF dir
      <3> QED BY <1>5, <2>1, <2>2, <3>1
    <2>3. CASE t.dir = [x \in DOMAIN dir \union {o} |-> IF x = o THEN <<>> ELSE dir[x]]
      BY <1>5, <2>1, <2>3
    <2> QED BY <1>3, <2>2, <2>3
  <1>8. \A d \in DOMAIN t.dir : t.dir[d] \in Seq(DOMAIN t.ob)
    <2> TAKE d \in DOMAIN t.dir
    <2>1. CASE d \in DOMAIN s.dir  BY <1>6, <1>7, <2>1
    <2>2. CASE d \notin DOMAIN s.dir
      <3>1. t.dir[d] = <<>>  BY <1>7, <2>2
      <3> QED BY <3>1
    <2> QED BY <2>1, <2>2
  <1>9. StoreShape(t)
    BY <1>1, <1>3, <1>4, <1>7, <1>8 DEF StoreShape
  <1> QED BY <1>3, <1>4, <1>5, <1>7, <1>9 DEF Grows, o, new

\* Another last element.
LEMMA ReplaceLast ==
    ASSUME NEW S, NEW q \in Seq(S), NEW x \in S, NEW y \in S
    PROVE  [Append(q, x) EXCEPT ![Len(q) + 1] = y] = Append(q, y)
  <1> DEFINE a == Append(q, x)
             f == [a EXCEPT ![Len(q) + 1] = y]
             g == Append(q, y)
  <1>1. a \in Seq(S) /\ Len(a) = Len(q) + 1 /\ Len(q) \in Nat  OBVIOUS
  <1>2. a \in [1 .. Len(q) + 1 -> S] /\ Len(q) \in Nat
    <2> HIDE DEF a
    <2> QED BY <1>1
  <1>3. \A i \in 1 .. Len(q) : a[i] = q[i] /\ g[i] = q[i]  OBVIOUS
  <1>4. g[Len(q) + 1] = y /\ g \in Seq(S) /\ Len(g) = Len(q) + 1  OBVIOUS
  <1> HIDE DEF a, g
  <1>5. f \in [1 .. Len(q) + 1 -> S] /\ f[Len(q) + 1] = y /\ \A i \in 1 .. Len(q) : f[i] = a[i]
    BY <1>2
  <1> HIDE DEF f
  <1>6. f \in Seq(S) /\ Len(f) = Len(q) + 1  BY <1>2, <1>5
  <1>7. \A i \in 1 .. Len(q) + 1 : f[i] = g[i]  BY <1>2, <1>3, <1>4, <1>5
  <1>8. f = g  BY <1>4, <1>6, <1>7
  <1> QED BY <1>8 DEF f, a, g

\* The store u with other objects.
Holding(u, ob) == [ob |-> ob, dir |-> u.dir, root |-> u.root]

\* The data of a new object, and its maker's reference given up.
LEMMA SetDataOfNew ==
    ASSUME NEW s, StoreShape(s), NEW p, NEW n, NEW type, n \in Names,
           type \in {"directory", "timer", "mapper"},
           NEW d, d \in {NoData, "i8254", "hpet", "lapic", "region"},
           NEW o, o = Len(s.ob) + 1, NEW u, u = WithObject(s, p, n, type, o)
    PROVE  SetData(u, o, d) =
              Holding(u, Append(s.ob, [name |-> n, type |-> type, ref |-> 2, data |-> d]))
  <1> DEFINE x == [name |-> n, type |-> type, ref |-> 2, data |-> NoData]
             y == [name |-> n, type |-> type, ref |-> 2, data |-> d]
             q == s.ob
  <1>1. q \in Seq(ObjectType)  BY ShapeFacts
  <1>2. x \in ObjectType /\ y \in ObjectType  BY DEF ObjectType, NoData
  <1>3. u.ob = Append(q, x) /\ u = [ob |-> u.ob, dir |-> u.dir, root |-> u.root]
    BY DEF WithObject
  <1>4. [x EXCEPT !.data = d] = y  OBVIOUS
  <1>5. SetData(u, o, d) = [u EXCEPT !.ob = [@ EXCEPT ![o].data = d]]
    <2> QED BY <1>3 DEF SetData
  <1> HIDE DEF x, y, q
  <1>6. Append(q, x)[Len(q) + 1] = x  BY <1>1, <1>2
  <1>7. [Append(q, x) EXCEPT ![Len(q) + 1] = y] = Append(q, y)  BY <1>1, <1>2, ReplaceLast
  <1>8. o = Len(q) + 1  BY DEF q
  <1>9. [u.ob EXCEPT ![o].data = d] = Append(q, y)
    <2>1. [u.ob EXCEPT ![o].data = d] = [Append(q, x) EXCEPT ![o] = y]
      BY <1>3, <1>4, <1>6, <1>8
    <2> QED BY <1>7, <1>8, <2>1
  <1>10. SetData(u, o, d) = [ob |-> Append(q, y), dir |-> u.dir, root |-> u.root]
    BY <1>5, <1>9, <1>3
  <1> QED BY <1>10 DEF q, y, Holding

LEMMA FreeOfNew ==
    ASSUME NEW s, StoreShape(s), NEW p, NEW n, NEW type, n \in Names,
           type \in {"directory", "timer", "mapper"},
           NEW o, o = Len(s.ob) + 1, NEW u, u = WithObject(s, p, n, type, o)
    PROVE  FreeObject(u, o) =
              Holding(u, Append(s.ob, [name |-> n, type |-> type, ref |-> 1, data |-> NoData]))
  <1> DEFINE x == [name |-> n, type |-> type, ref |-> 2, data |-> NoData]
             y == [name |-> n, type |-> type, ref |-> 1, data |-> NoData]
             q == s.ob
  <1>1. q \in Seq(ObjectType)  BY ShapeFacts
  <1>2. x \in ObjectType /\ y \in ObjectType  BY DEF ObjectType, NoData
  <1>3. u.ob = Append(q, x) /\ u = [ob |-> u.ob, dir |-> u.dir, root |-> u.root]
    BY DEF WithObject
  <1>4. [x EXCEPT !.ref = x.ref - 1] = y  OBVIOUS
  <1>5. FreeObject(u, o) = [u EXCEPT !.ob = [u.ob EXCEPT ![o].ref = u.ob[o].ref - 1]]
    <2> QED BY <1>3 DEF FreeObject
  <1> HIDE DEF x, y, q
  <1>6. Append(q, x)[Len(q) + 1] = x  BY <1>1, <1>2
  <1>7. [Append(q, x) EXCEPT ![Len(q) + 1] = y] = Append(q, y)  BY <1>1, <1>2, ReplaceLast
  <1>8. o = Len(q) + 1  BY DEF q
  <1>9. [u.ob EXCEPT ![o].ref = u.ob[o].ref - 1] = Append(q, y)
    <2>1. [u.ob EXCEPT ![o].ref = u.ob[o].ref - 1] = [Append(q, x) EXCEPT ![o] = y]
      BY <1>3, <1>4, <1>6, <1>8
    <2> QED BY <1>7, <1>8, <2>1
  <1>10. FreeObject(u, o) = [ob |-> Append(q, y), dir |-> u.dir, root |-> u.root]
    BY <1>5, <1>9, <1>3
  <1> QED BY <1>10 DEF q, y, Holding

StoreKept ==
    StoreShape(store) /\ Tree(store) /\ Counted(store, registered) /\ Complete(store, registered)

\* t and the entries new, what the making of the object named n may leave;
\* done says that all of it succeeded.
Outcome(t, new, n, done) ==
    /\ StoreShape(t) /\ Tree(t) /\ Counted(t, registered \union new)
    /\ done => /\ Complete(t, registered \union new)
               /\ NamesIn(t) = NamesIn(store) \union {n}

LEMMA OutcomeSame ==
    ASSUME StoreKept, NEW n, NEW done \in BOOLEAN, ~done PROVE Outcome(store, {}, n, done)
  <1>1. registered \union {} = registered  OBVIOUS
  <1> QED BY <1>1 DEF StoreKept, Outcome

LEMMA OutcomeMade ==
    ASSUME StoreKept, NEW p \in DOMAIN store.dir, NEW n \in Names \ {"/"}, n \notin NamesIn(store),
           store.ob[p].name = ParentOf(n), NEW t, Grows(store, t, p, n, 2),
           NEW done \in BOOLEAN, NEW o, o = Len(store.ob) + 1,
           done /\ TypeOf(n) = "directory" => o \in DOMAIN t.dir,
           NEW new, new = {[path |-> PathOf(n), object |-> o, data |-> DataOf(n)]}
    PROVE  Outcome(t, new, n, done)
  <1>1. StoreShape(store) /\ Tree(store) /\ Counted(store, registered) /\ Complete(store, registered)
    BY DEF StoreKept
  <1>2. Tree(t) /\ NamesIn(t) = NamesIn(store) \union {n}
    <2>1. StoreShape(store) /\ Tree(store) /\ Grows(store, t, p, n, 2)  BY <1>1
    <2> QED BY <2>1, GrowsTree
  <1>3. new = {Entry(t, o)} /\ \A x \in DOMAIN store.ob : Entry(t, x) = Entry(store, x)
    <2>1. Grows(store, t, p, n, 2) /\ o = Len(store.ob) + 1  OBVIOUS
    <2> QED BY <2>1, GrowsEntries
  <1>4. Counted(t, registered \union new)
    <2>1. Len(store.ob) >= 1  BY <1>1 DEF Tree
    <2>2. Grows(store, t, p, n, 2) /\ o = Len(store.ob) + 1 /\ new = {Entry(t, o)}
      BY <1>3
    <2> QED BY <1>1, <2>1, <2>2, GrowsCounted
  <1>5. /\ StoreShape(t) /\ Len(t.ob) = o
        /\ \A x \in DOMAIN store.ob : t.ob[x] = store.ob[x]
        /\ t.ob[o].type = TypeOf(n)
        /\ DOMAIN store.dir \subseteq DOMAIN t.dir
    BY DEF Grows
  <1>6. DOMAIN t.ob = DOMAIN store.ob \union {o}
    <2>1. DOMAIN t.ob = 1 .. Len(t.ob)  BY <1>5, ShapeFacts
    <2>2. DOMAIN store.ob = 1 .. Len(store.ob) /\ Len(store.ob) \in Nat  BY <1>1, ShapeFacts
    <2> QED BY <1>5, <2>1, <2>2
  <1>7. ASSUME done PROVE Complete(t, registered \union new)
    <2> SUFFICES ASSUME NEW x \in DOMAIN t.ob
                 PROVE  /\ t.ob[x].type = "directory" => x \in DOMAIN t.dir
                        /\ x # 1 => Entry(t, x) \in registered \union new
      BY DEF Complete
    <2>1. CASE x \in DOMAIN store.ob
      BY <1>1, <1>3, <1>5, <2>1 DEF Complete
    <2>2. CASE x = o  BY <1>3, <1>5, <1>7, <2>2
    <2> QED BY <1>6, <2>1, <2>2
  <1> QED BY <1>2, <1>4, <1>5, <1>7 DEF Outcome

LEMMA OutcomeGivenUp ==
    ASSUME StoreKept, NEW p \in DOMAIN store.dir, NEW n \in Names \ {"/"}, n \notin NamesIn(store),
           store.ob[p].name = ParentOf(n), NEW t, Grows(store, t, p, n, 1),
           NEW done \in BOOLEAN, ~done
    PROVE  Outcome(t, {}, n, done)
  <1> DEFINE o == Len(store.ob) + 1
  <1>1. StoreShape(store) /\ Tree(store) /\ Counted(store, registered)
    BY DEF StoreKept
  <1>2. Tree(t)
    <2>1. StoreShape(store) /\ Tree(store) /\ Grows(store, t, p, n, 1)  BY <1>1
    <2> QED BY <2>1, GrowsTree
  <1>3. Counted(t, registered)
    <2>1. Len(store.ob) >= 1  BY <1>1 DEF Tree
    <2>2. Grows(store, t, p, n, 1) /\ o = Len(store.ob) + 1  OBVIOUS
    <2> HIDE DEF o
    <2> QED BY <1>1, <2>1, <2>2, GrowsGivenUp
  <1>4. StoreShape(t)  BY DEF Grows
  <1>5. registered \union {} = registered  OBVIOUS
  <1> QED BY <1>2, <1>3, <1>4, <1>5 DEF Outcome

\* A directory of the kernel is found by its path.
LEMMA FindDirectory ==
    ASSUME StoreKept, NEW n \in {"clkdev", "mapper"}, n \in NamesIn(store)
    PROVE  /\ Lookup(store, <<n>>) \in DOMAIN store.dir
           /\ store.ob[Lookup(store, <<n>>)].name = n
  <1>1. StoreShape(store) /\ Tree(store) /\ Complete(store, registered)
    BY DEF StoreKept
  <1>2. PICK p \in DOMAIN store.ob : store.ob[p].name = n  BY DEF NamesIn
  <1>3. p # 1 /\ store.ob[p].type = "directory"  BY <1>1, <1>2 DEF Tree, TypeOf
  <1>4. p \in DOMAIN store.dir  BY <1>1, <1>3 DEF Complete
  <1>5. PathOf(n) = <<n>>  BY DEF PathOf, ParentOf
  <1>6. Lookup(store, PathOf(store.ob[p].name)) = p  BY <1>1, <1>2, <1>3, LookupObject
  <1> QED BY <1>2, <1>4, <1>5, <1>6

LEMMA DescriptorsRefused ==
    ASSUME StoreKept, NEW n \in {"isa-aux", "aux", "sched", "video0"},
           ParentOf(n) \in NamesIn(store), NEW mem \in BOOLEAN, ~mem
    PROVE  LET r == Descriptors(ParentOf(n), n, TypeOf(n), DataOf(n), mem)
           IN  ~r.ok /\ r.ok = mem /\ r.store = store /\ r.new = {}
  <1> DEFINE path == <<ParentOf(n)>>
             made == Create(store, path, n, TypeOf(n), mem)
  <1>1. ParentOf(n) \in {"clkdev", "mapper"}  BY DEF ParentOf
  <1>2. /\ Lookup(store, path) \in DOMAIN store.dir
        /\ store.ob[Lookup(store, path)].name \in {"/", "clkdev", "mapper"}
    BY <1>1, FindDirectory
  <1>3. StoreShape(store) /\ Tree(store)  BY DEF StoreKept
  <1>4. made.status # "SUCCESS" /\ made.store = store
    <2> HIDE DEF path
    <2> QED BY <1>2, <1>3, CreateRefused
  <1> QED BY <1>4 DEF Descriptors

LEMMA DescriptorsMade ==
    ASSUME StoreKept, NEW n \in {"isa-aux", "aux", "sched", "video0"}, n \notin NamesIn(store),
           ParentOf(n) \in NamesIn(store), NEW mem \in BOOLEAN, mem
    PROVE  LET r == Descriptors(ParentOf(n), n, TypeOf(n), DataOf(n), mem)
           IN  r.ok /\ r.ok = mem /\ Outcome(r.store, r.new, n, mem)
  <1> DEFINE path == <<ParentOf(n)>>
             p == Lookup(store, path)
             o == Len(store.ob) + 1
             made == Create(store, path, n, TypeOf(n), mem)
             u == WithObject(store, p, n, TypeOf(n), o)
             filled == [name |-> n, type |-> TypeOf(n), ref |-> 2, data |-> DataOf(n)]
             t == SetData(u, o, DataOf(n))
             new == {[path |-> PathOf(n), object |-> o, data |-> DataOf(n)]}
  <1>1. /\ ParentOf(n) \in {"clkdev", "mapper"} /\ n \in Names \ {"/"}
        /\ PathOf(n) = <<ParentOf(n), n>>
        /\ TypeOf(n) \in {"timer", "mapper"}
        /\ DataOf(n) \in {NoData, "i8254", "hpet", "lapic", "region"}
    BY DEF ParentOf, Names, PathOf, TypeOf, DataOf
  <1>2. p \in DOMAIN store.dir /\ store.ob[p].name = ParentOf(n)  BY <1>1, FindDirectory
  <1>3. StoreShape(store) /\ Tree(store)  BY DEF StoreKept
  <1>4. /\ made.status = "SUCCESS" /\ made.object = o /\ made.store = u
    <2> HIDE DEF path
    <2> QED BY <1>1, <1>2, <1>3, CreateMade, ZenonT(60)
  <1>5. t = Holding(u, Append(store.ob, filled))
    <2>1. /\ n \in Names /\ TypeOf(n) \in {"directory", "timer", "mapper"}
          /\ o = Len(store.ob) + 1 /\ u = WithObject(store, p, n, TypeOf(n), o)
      BY <1>1
    <2> HIDE DEF p, u, o
    <2> QED BY <1>1, <1>3, <2>1, SetDataOfNew
  <1>6. Grows(store, t, p, n, 2)
    <2>1. /\ t.ob = Append(store.ob, filled)
          /\ t.dir = [store.dir EXCEPT ![p] = Append(@, o)]
          /\ t = [ob |-> t.ob, dir |-> t.dir, root |-> store.root]
      <3> HIDE DEF t, filled, o, p
      <3> QED BY <1>5 DEF WithObject, Holding
    <2> HIDE DEF t, p
    <2> QED BY <1>1, <1>2, <1>3, <2>1, CreateGrows
  <1>7. Outcome(t, new, n, mem)
    <2> HIDE DEF t, p, new, o
    <2>1. o = Len(store.ob) + 1 /\ new = {[path |-> PathOf(n), object |-> o, data |-> DataOf(n)]}
      BY DEF o, new
    <2> QED BY <1>1, <1>2, <1>6, <2>1, OutcomeMade
  <1>8. Descriptors(ParentOf(n), n, TypeOf(n), DataOf(n), mem) =
            [ok |-> TRUE, store |-> t, new |-> new]
    <2> HIDE DEF t, u, p
    <2> QED BY <1>1, <1>4 DEF Descriptors, t
  <1> DEFINE r == Descriptors(ParentOf(n), n, TypeOf(n), DataOf(n), mem)
  <1> HIDE DEF t, new, r
  <1>9. r = [ok |-> TRUE, store |-> t, new |-> new]  BY <1>8 DEF r
  <1>10. r.ok = TRUE /\ r.store = t /\ r.new = new  BY <1>9
  <1> QED BY <1>7, <1>10 DEF r

LEMMA DirectoryRefused ==
    ASSUME StoreKept, NEW n \in {"clkdev", "mapper"}, NEW mem \in BOOLEAN, ~mem,
           NEW dirMem \in BOOLEAN
    PROVE  LET r == Directory(n, mem, dirMem)
           IN  ~r.ok /\ r.store = store /\ r.new = {}
  <1> DEFINE path == <<>>
             made == Create(store, path, n, "directory", mem)
  <1>1. StoreShape(store) /\ Tree(store)  BY DEF StoreKept
  <1>2. Lookup(store, path) = 1 /\ 1 \in DOMAIN store.dir /\ store.ob[1].name = "/"
    BY <1>1, LookupRoot, ShapeFacts DEF Tree
  <1>3. made.status # "SUCCESS" /\ made.store = store
    <2> HIDE DEF path
    <2> QED BY <1>1, <1>2, CreateRefused
  <1> QED BY <1>3 DEF Directory

LEMMA DirectoryMade ==
    ASSUME StoreKept, NEW n \in {"clkdev", "mapper"}, n \notin NamesIn(store),
           NEW mem \in BOOLEAN, mem, NEW dirMem \in BOOLEAN
    PROVE  LET r == Directory(n, mem, dirMem)
           IN  r.ok = dirMem /\ Outcome(r.store, r.new, n, dirMem)
  <1> DEFINE path == <<>>
             type == "directory"
             o == Len(store.ob) + 1
             made == Create(store, path, n, type, mem)
             u == WithObject(store, 1, n, type, o)
             lists == [x \in DOMAIN u.dir \union {o} |-> IF x = o THEN <<>> ELSE u.dir[x]]
             v == [u EXCEPT !.dir = lists]
             f == FreeObject(u, o)
             raw == [name |-> n, type |-> type, ref |-> 2, data |-> NoData]
             freed == [name |-> n, type |-> type, ref |-> 1, data |-> NoData]
             new == {[path |-> PathOf(n), object |-> o, data |-> NoData]}
  <1>1. /\ ParentOf(n) = "/" /\ n \in Names \ {"/"} /\ PathOf(n) = <<n>>
        /\ TypeOf(n) = type /\ DataOf(n) = NoData
    BY DEF ParentOf, Names, PathOf, TypeOf, DataOf
  <1>2. StoreShape(store) /\ Tree(store)  BY DEF StoreKept
  <1>3. Lookup(store, path) = 1 /\ 1 \in DOMAIN store.dir /\ store.ob[1].name = "/"
    BY <1>2, LookupRoot, ShapeFacts DEF Tree
  <1>4. made.status = "SUCCESS" /\ made.object = o /\ made.store = u
    <2> HIDE DEF path, type
    <2> QED BY <1>2, <1>3, CreateMade, ZenonT(60)
  <1>5. u.ob = Append(store.ob, raw) /\ u.root = store.root
        /\ u.dir = [store.dir EXCEPT ![1] = Append(@, o)]
        /\ u = [ob |-> u.ob, dir |-> u.dir, root |-> store.root]
    <2> HIDE DEF raw, o
    <2> QED BY DEF WithObject, raw
  <1>6. Grows(store, u, 1, n, 2)
    <2>1. raw = [name |-> n, type |-> TypeOf(n), ref |-> 2, data |-> DataOf(n)]  BY <1>1
    <2> HIDE DEF u, raw
    <2> QED BY <1>1, <1>2, <1>3, <1>5, <2>1, CreateGrows
  <1>7. Grows(store, v, 1, n, 2) /\ o \in DOMAIN v.dir
    <2> DEFINE dir == [store.dir EXCEPT ![1] = Append(@, o)]
    <2>1. raw = [name |-> n, type |-> TypeOf(n), ref |-> 2, data |-> DataOf(n)]  BY <1>1
    <2>2. /\ v.ob = u.ob /\ v.dir = [x \in DOMAIN dir \union {o} |-> IF x = o THEN <<>> ELSE dir[x]]
          /\ v = [ob |-> v.ob, dir |-> v.dir, root |-> store.root]
      <3>1. u = [ob |-> Append(store.ob, raw), dir |-> dir, root |-> store.root]  BY <1>5
      <3>2. lists = [x \in DOMAIN dir \union {o} |-> IF x = o THEN <<>> ELSE dir[x]]
        <4>1. u.dir = dir  BY <1>5
        <4> HIDE DEF u, o, dir
        <4> QED BY <4>1
      <3> DEFINE ob == Append(store.ob, raw)
                 root == store.root
      <3>3. u = [ob |-> ob, dir |-> dir, root |-> root]  BY <3>1
      <3> HIDE DEF u, o, dir, lists, ob, root
      <3>4. v = [ob |-> ob, dir |-> lists, root |-> root]  BY <3>3
      <3> HIDE DEF v
      <3> QED BY <3>2, <3>3, <3>4 DEF root
    <2>3. v.ob = Append(store.ob, raw)  BY <1>5, <2>2
    <2> HIDE DEF u, v, raw
    <2>4. o \in DOMAIN v.dir  BY <2>2
    <2> QED BY <1>1, <1>2, <1>3, <2>1, <2>2, <2>3, <2>4, CreateGrows
  <1>8. Grows(store, f, 1, n, 1)
    <2>1. freed = [name |-> n, type |-> TypeOf(n), ref |-> 1, data |-> DataOf(n)]  BY <1>1
    <2>2. f = Holding(u, Append(store.ob, freed))
      <3>1. /\ n \in Names /\ type \in {"directory", "timer", "mapper"}
            /\ o = Len(store.ob) + 1 /\ u = WithObject(store, 1, n, type, o)
        BY <1>1
      <3> HIDE DEF type, u, o
      <3> QED BY <1>2, <3>1, FreeOfNew
    <2> HIDE DEF u, f, freed, o
    <2>3. /\ f.ob = Append(store.ob, freed) /\ f.dir = u.dir
          /\ f = [ob |-> f.ob, dir |-> f.dir, root |-> store.root]
      BY <1>5, <2>2 DEF Holding
    <2>4. f.dir = [store.dir EXCEPT ![1] = Append(@, Len(store.ob) + 1)]  BY <1>5, <2>3 DEF o
    <2> QED BY <1>1, <1>2, <1>3, <2>1, <2>3, <2>4, CreateGrows
  <1>9. ASSUME dirMem
        PROVE  /\ Directory(n, mem, dirMem) = [ok |-> dirMem, store |-> v, new |-> new]
               /\ Outcome(v, new, n, dirMem)
    <2>1. AllocateDir(u, o, dirMem).store = v
      <3> HIDE DEF v
      <3> QED BY <1>9 DEF AllocateDir, v
    <2> HIDE DEF u, v, o
    <2>2. Directory(n, mem, dirMem) = [ok |-> dirMem, store |-> v, new |-> new]
      BY <1>1, <1>4, <1>9, <2>1 DEF Directory
    <2>3. o = Len(store.ob) + 1 /\ new = {[path |-> PathOf(n), object |-> o, data |-> DataOf(n)]}
      BY <1>1 DEF o
    <2> HIDE DEF new
    <2>4. Outcome(v, new, n, dirMem)
      BY <1>1, <1>3, <1>7, <2>3, OutcomeMade
    <2> QED BY <2>2, <2>4
  <1>10. ASSUME ~dirMem, n = "mapper"
         PROVE  /\ Directory(n, mem, dirMem) = [ok |-> dirMem, store |-> u, new |-> new]
                /\ Outcome(u, new, n, dirMem)
    <2>1. AllocateDir(u, o, dirMem).store = u
      <3> HIDE DEF u
      <3> QED BY <1>10 DEF AllocateDir
    <2> HIDE DEF u, o
    <2>2. Directory(n, mem, dirMem) = [ok |-> dirMem, store |-> u, new |-> new]
      BY <1>1, <1>4, <1>10, <2>1 DEF Directory
    <2>3. o = Len(store.ob) + 1 /\ new = {[path |-> PathOf(n), object |-> o, data |-> DataOf(n)]}
      BY <1>1 DEF o
    <2> HIDE DEF new
    <2>4. Outcome(u, new, n, dirMem)
      BY <1>1, <1>3, <1>6, <1>10, <2>3, OutcomeMade
    <2> QED BY <2>2, <2>4
  <1>11. ASSUME ~dirMem, n = "clkdev"
         PROVE  /\ Directory(n, mem, dirMem) = [ok |-> dirMem, store |-> f, new |-> {}]
                /\ Outcome(f, {}, n, dirMem)
    <2>1. AllocateDir(u, o, dirMem).store = u
      <3> HIDE DEF u
      <3> QED BY <1>11 DEF AllocateDir
    <2> HIDE DEF u, o
    <2>2. Directory(n, mem, dirMem) = [ok |-> FALSE, store |-> f, new |-> {}]
      BY <1>1, <1>4, <1>11, <2>1 DEF Directory
    <2>3. dirMem = FALSE  BY <1>11
    <2> HIDE DEF f
    <2>4. Outcome(f, {}, n, dirMem)
      BY <1>1, <1>3, <1>8, <1>11, OutcomeGivenUp
    <2> QED BY <2>2, <2>3, <2>4
  <1> DEFINE r == Directory(n, mem, dirMem)
  <1> HIDE DEF u, v, f, new, r
  <1>12. CASE dirMem
    <2>1. r = [ok |-> dirMem, store |-> v, new |-> new]  BY <1>9, <1>12 DEF r
    <2>2. r.ok = dirMem /\ r.store = v /\ r.new = new  BY <2>1
    <2> QED BY <1>9, <1>12, <2>2 DEF r
  <1>13. CASE ~dirMem /\ n = "mapper"
    <2>1. r = [ok |-> dirMem, store |-> u, new |-> new]  BY <1>10, <1>13 DEF r
    <2>2. r.ok = dirMem /\ r.store = u /\ r.new = new  BY <2>1
    <2> QED BY <1>10, <1>13, <2>2 DEF r
  <1>14. CASE ~dirMem /\ n = "clkdev"
    <2>1. r = [ok |-> dirMem, store |-> f, new |-> {}]  BY <1>11, <1>14 DEF r
    <2>2. r.ok = dirMem /\ r.store = f /\ r.new = {}  BY <2>1
    <2> QED BY <1>11, <1>14, <2>2 DEF r
  <1> QED BY <1>12, <1>13, <1>14

--------------------------------------------------------------------------------

\* A step of the boot on core c, which goes on as r.
LEMMA BootKept ==
    ASSUME CoresInv, ScreenInv, NEW c \in Cores, NEW r, Go(c, r), r \in CoreType, CoreInv(r),
           r.frames = core[c].frames, core[c].pc \in {"off", "boot", "kickRet"},
           r.pc \in {"boot", "kickRet", "user", "idle"} \/ (r.pc = "acquire" /\ failed'),
           c \in Aps => TimerInv(r),
           schedTimer' = schedTimer \/ schedTimer' = "lapic",
           c \in Aps => schedTimer' = "lapic",
           failed => failed', bugLock => bugLock', screen' = screen
    PROVE  /\ CoresInv' /\ ScreenInv' /\ core'[c] = r
           /\ \A d \in Cores : /\ d # c => core'[d] = core[d]
                               /\ Stopped(d) => Stopped(d)'
  <1>1. /\ core' = [core EXCEPT ![c] = r] /\ core \in [Cores -> CoreType]
        /\ core' \in [Cores -> CoreType] /\ core'[c] = r
        /\ \A d \in Cores : d # c => core'[d] = core[d]
    BY DEF CoresInv, Go
  <1>2. core[c].frames = <<>> /\ r.frames = <<>>
    BY DEF CoresInv, CoreInv, Bottom
  <1>3. r.pc \in {"boot", "kickRet", "user", "idle"} => Undisturbed(r)
    BY <1>2 DEF Undisturbed, Fatal
  <1>4. \A d \in Cores : CoreInv(core'[d]) /\ (~failed' => Undisturbed(core'[d]))
    BY <1>1, <1>3 DEF CoresInv
  <1>5. \A d \in Aps : TimerInv(core'[d]) /\ (core'[d].pc # "off" => schedTimer' = "lapic")
    BY <1>1 DEF CoresInv, Cores
  <1>6. ScreenInv'
    <2>1. r.pc \notin {"clear", "print"}  OBVIOUS
    <2> QED BY <1>1, <2>1 DEF ScreenInv
  <1>7. ASSUME NEW d \in Cores, Stopped(d) PROVE Stopped(d)'
    <2>1. d # c  BY <1>2, <1>7 DEF Stopped, Fatal
    <2> QED BY <1>1, <1>7, <2>1 DEF Stopped
  <1> QED BY <1>1, <1>4, <1>5, <1>6, <1>7 DEF CoresInv

\* What a stage leaves of the cores.
CoresMoved(q, ok) ==
    /\ CoresInv' /\ ScreenInv'
    /\ core'[Bsp].pc # "off" /\ (core'[Bsp].pc = "boot" => ok /\ core'[Bsp].gs = q.gs /\ q.pc = "boot")
    /\ \A c \in Aps : core'[c] = core[c]
    /\ \A c \in Cores : Stopped(c) => Stopped(c)'
    /\ screen' = screen

LEMMA StageMoves ==
    ASSUME CoresInv, ScreenInv, NEW this, NEW next, NEW q, NEW ok \in BOOLEAN,
           NEW granted \in BOOLEAN, Stage(this, ok, granted, next, q), granted => ok,
           q \in CoreType, q.frames = core[Bsp].frames, q.stk = core[Bsp].stk,
           q.ifl = core[Bsp].ifl,
           \/ q.pc = "boot" /\ q.gs \in {core[Bsp].gs, "kpcr"}
           \/ ok /\ q.pc = "kickRet" /\ core[Bsp].gs = "kpcr" /\ q.gs = "zero",
           schedTimer' = schedTimer \/ schedTimer' = "lapic"
    PROVE  CoresMoved(q, ok)
  <1> DEFINE b == core[Bsp]
             a == [q EXCEPT !.pc = "acquire"]
             r == IF ok THEN q ELSE a
  <1>1. Bsp \in Cores /\ Bsp \notin Aps  BY CoreAssumption DEF Cores
  <1>2. /\ b.pc = "boot" /\ Go(Bsp, r) /\ screen' = screen /\ bugLock' = bugLock
        /\ failed' = (failed \/ ~granted)
    BY DEF Stage
  <1>3. b \in CoreType /\ CoreInv(b)  BY <1>1 DEF CoresInv
  <1>4. CoreInv(q)
    <2>1. q.frames = b.frames /\ q.stk = b.stk /\ q.ifl = b.ifl  OBVIOUS
    <2>2. \/ q.pc = "boot" /\ q.gs \in {b.gs, "kpcr"}
          \/ q.pc = "kickRet" /\ b.gs = "kpcr" /\ q.gs = "zero"
      OBVIOUS
    <2> HIDE DEF b
    <2> QED BY <1>2, <1>3, <2>1, <2>2, BootCore
  <1>5. /\ a \in CoreType /\ a.pc = "acquire" /\ a.gs = q.gs /\ a.ifl = q.ifl
        /\ a.stk = q.stk /\ a.frames = q.frames
    <2>1. "acquire" \in Points  BY DEF Points, CCode, Fatal, Windows
    <2> HIDE DEF b
    <2> QED BY <2>1 DEF CoreType
  <1>6. ~ok => CoreInv(a)
    <2>1. ~ok => q.pc = "boot"  OBVIOUS
    <2> HIDE DEF a, b
    <2> QED BY <1>4, <1>5, <2>1, BugCheckCore
  <1>7. /\ r \in CoreType /\ CoreInv(r) /\ r.frames = core[Bsp].frames
        /\ r.pc \in {"boot", "kickRet", "user", "idle"} \/ (r.pc = "acquire" /\ failed')
        /\ r.pc # "off" /\ (r.pc = "boot" => ok /\ r.gs = q.gs /\ q.pc = "boot")
    <2>1. CASE ok  BY <1>4, <2>1
    <2>2. CASE ~ok
      <3> HIDE DEF a
      <3> QED BY <1>2, <1>5, <1>6, <2>2
    <2> QED BY <2>1, <2>2
  <1>8. core[Bsp].pc \in {"off", "boot", "kickRet"}  BY <1>2
  <1> HIDE DEF r, a, b
  <1>9. failed => failed'  BY <1>2
  <1>10. /\ CoresInv' /\ ScreenInv' /\ core'[Bsp] = r
         /\ \A d \in Cores : /\ d # Bsp => core'[d] = core[d]
                             /\ Stopped(d) => Stopped(d)'
    BY <1>1, <1>2, <1>7, <1>8, <1>9, BootKept
  <1> QED BY <1>1, <1>2, <1>7, <1>10 DEF CoresMoved, Cores

\* The core of kMain as it is, and with the changes that kMain makes.
LEMMA StageCore ==
    ASSUME CoresInv, core[Bsp].pc = "boot", StageInv
    PROVE  \A q : \/ q = Same
                  \/ \E on \in BOOLEAN : q = [Same EXCEPT !.sce = on]
                  \/ q = [Same EXCEPT !.gates = TRUE]
                  \/ q = [Same EXCEPT !.gs = "kpcr"]
                  \/ stage = "kick" /\ q = [Same EXCEPT !.pc = "kickRet", !.gs = Swap(@)]
           => /\ q \in CoreType /\ q.frames = core[Bsp].frames /\ q.stk = core[Bsp].stk
              /\ q.ifl = core[Bsp].ifl
              /\ \/ q.pc = "boot" /\ q.gs \in {core[Bsp].gs, "kpcr"}
                 \/ q.pc = "kickRet" /\ core[Bsp].gs = "kpcr" /\ q.gs = "zero"
  <1> DEFINE b == core[Bsp]
  <1>1. b \in CoreType /\ b.pc = "boot"  BY CoreAssumption DEF CoresInv, Cores
  <1>2. stage = "kick" => b.gs = "kpcr"  BY DEF StageInv, AtGs
  <1>3. "kickRet" \in Points  BY DEF Points, Windows
  <1> SUFFICES ASSUME NEW q,
                      \/ q = b
                      \/ \E on \in BOOLEAN : q = [b EXCEPT !.sce = on]
                      \/ q = [b EXCEPT !.gates = TRUE]
                      \/ q = [b EXCEPT !.gs = "kpcr"]
                      \/ stage = "kick" /\ q = [b EXCEPT !.pc = "kickRet", !.gs = Swap(@)]
               PROVE  /\ q \in CoreType /\ q.frames = b.frames /\ q.stk = b.stk
                      /\ q.ifl = b.ifl
                      /\ \/ q.pc = "boot" /\ q.gs \in {b.gs, "kpcr"}
                         \/ q.pc = "kickRet" /\ b.gs = "kpcr" /\ q.gs = "zero"
    BY DEF Same
  <1> HIDE DEF b
  <1>4. CASE q = b  BY <1>1, <1>4
  <1>5. CASE q = [b EXCEPT !.gates = TRUE] \/ q = [b EXCEPT !.gs = "kpcr"]
    BY <1>1, <1>5, ZenonT(60) DEF CoreType
  <1>7. CASE \E on \in BOOLEAN : q = [b EXCEPT !.sce = on]
    BY <1>1, <1>7, ZenonT(60) DEF CoreType
  <1>6. CASE stage = "kick" /\ q = [b EXCEPT !.pc = "kickRet", !.gs = Swap(@)]
    BY <1>1, <1>2, <1>3, <1>6 DEF CoreType, Swap
  <1> QED BY <1>4, <1>5, <1>6, <1>7

--------------------------------------------------------------------------------

Kept ==
    /\ IInv' /\ (screen # {} => screen' = screen)
    /\ \A c \in Cores : Stopped(c) => Stopped(c)'

All == {"/", "clkdev", "aux", "sched", "mapper", "video0"}

LEMMA MadeBy ==
    /\ stage = "clkdev" => Made = {"/"}
    /\ stage \in {"pit", "hpet"} => Made = {"/", "clkdev"}
    /\ stage = "lapicTimer" => Made = {"/", "clkdev", "aux"}
    /\ stage \in {"sched", "aux", "aps", "bootpack"} => Made = {"/", "clkdev", "aux", "sched"}
    /\ stage = "modules" =>
          Made = {"/", "clkdev", "aux", "sched"}
                 \union (IF ObjectPass \in Range(todo) THEN {} ELSE {"mapper"})
                 \union (IF GenericPass \in Range(todo) THEN {} ELSE {"video0"})
    /\ stage \in {"kick", "done"} => Made = All
  BY DEF Made, All

LEMMA StoreSame ==
    ASSUME StoreInv, store' = store, registered' = registered,
           \/ stage \in BeforeStore /\ stage' \in BeforeStore
           \/ stage' = "stopped"
           \/ /\ stage \notin BeforeStore \union {"stopped"} /\ Made' = Made
              /\ stage' \notin BeforeStore \union {"stopped", "clkdev", "pit"}
              /\ stage' = "modules" => Passes(todo')
    PROVE  StoreInv'
  <1>1. CASE stage \in BeforeStore /\ stage' \in BeforeStore
    BY <1>1 DEF StoreInv, BeforeStore, AtGs
  <1>2. CASE stage' = "stopped"
    <2>1. stage' \notin BeforeStore  BY <1>2 DEF BeforeStore, AtGs
    <2>2. store # NoStore => Tree(store) /\ Counted(store, registered)
      BY DEF StoreInv
    <2>3. store = NoStore => registered = {}  BY DEF StoreInv
    <2> QED BY <1>2, <2>1, <2>2, <2>3 DEF StoreInv
  <1>3. CASE /\ stage \notin BeforeStore \union {"stopped"} /\ Made' = Made
             /\ stage' \notin BeforeStore \union {"stopped", "clkdev", "pit"}
             /\ stage' = "modules" => Passes(todo')
    <2>1. store # NoStore /\ Tree(store) /\ Counted(store, registered)
          /\ Complete(store, registered)
          /\ \A n \in Names \ {"isa-aux"} : n \in NamesIn(store) <=> n \in Made
      BY <1>3 DEF StoreInv
    <2> QED BY <1>3, <2>1 DEF StoreInv
  <1> QED BY <1>1, <1>2, <1>3

\* A stage that leaves the objects alone.
PlainPair(this, next, q) ==
    \/ /\ <<this, next>> \in {<<"acpi", "irqChip">>, <<"irqChip", "syscall">>,
                              <<"pool", "objects">>, <<"aps", "bootpack">>}
       /\ q = Same
    \/ this = "syscall" /\ next = "gates" /\ \E on \in BOOLEAN : q = [Same EXCEPT !.sce = on]
    \/ this = "gates" /\ next = "gs" /\ q = [Same EXCEPT !.gates = TRUE]
    \/ this = "gs" /\ next = "pool" /\ q = [Same EXCEPT !.gs = "kpcr"]
    \/ this = "modules" /\ next = "kick" /\ todo = <<>> /\ q = Same
    \/ this = "kick" /\ next = "done" /\ q = [Same EXCEPT !.pc = "kickRet", !.gs = Swap(@)]

LEMMA PlainStage ==
    ASSUME IInv, NEW this, NEW next, NEW q, NEW ok \in BOOLEAN,
           Stage(this, ok, ok, next, q), StoreUnchanged, PlainPair(this, next, q),
           this = "kick" => ok
    PROVE  Kept
  <1>1. RestType /\ CoresInv /\ ScreenInv /\ StageInv /\ StoreInv  BY DEF IInv
  <1>2. /\ stage = this /\ core[Bsp].pc = "boot"
        /\ stage' = IF ok THEN next ELSE "stopped"
        /\ failed' \in BOOLEAN /\ bugLock' = bugLock /\ screen' = screen /\ modules' = modules
        /\ schedTimer' = schedTimer /\ store' = store /\ lapicTimer' = lapicTimer
        /\ todo' = todo /\ registered' = registered
    BY DEF Stage, StoreUnchanged
  <1>3. CoresMoved(q, ok)
    <2>1. /\ q \in CoreType /\ q.frames = core[Bsp].frames /\ q.stk = core[Bsp].stk
          /\ q.ifl = core[Bsp].ifl
          /\ \/ q.pc = "boot" /\ q.gs \in {core[Bsp].gs, "kpcr"}
             \/ q.pc = "kickRet" /\ core[Bsp].gs = "kpcr" /\ q.gs = "zero"
      BY <1>1, <1>2, StageCore DEF PlainPair
    <2>2. (ok => ok) /\ (q.pc = "kickRet" => ok)
      <3>1. Same \in CoreType /\ Same.pc = "boot"
        BY <1>1, <1>2, CoreAssumption DEF CoresInv, Cores, Same
      <3>2. this # "kick" => q.pc # "kickRet"
        BY <3>1 DEF PlainPair, CoreType
      <3> QED BY <3>2
    <2> QED BY <1>1, <1>2, <2>1, <2>2, StageMoves
  <1>4. RestType'
    <2>1. stage' \in Stages  BY <1>2 DEF PlainPair, Stages
    <2>2. Objects' = Objects  BY <1>2 DEF Objects
    <2> QED BY <1>1, <1>2, <2>1, <2>2 DEF RestType
  <1>5. StageInv'
    <2>1. \A c \in Aps : core'[c] = core[c]  BY <1>3 DEF CoresMoved
    <2>2. core'[Bsp].pc # "off" /\ (core'[Bsp].pc = "boot" => ok /\ core'[Bsp].gs = q.gs)
      BY <1>3 DEF CoresMoved
    <2>3. this \notin AtGs => core[Bsp].gs = "kpcr"  BY <1>1, <1>2 DEF StageInv
    <2>4. ok /\ next \notin AtGs /\ core'[Bsp].pc = "boot" => q.gs = "kpcr"
      <3>1. CASE this = "gs" /\ q = [Same EXCEPT !.gs = "kpcr"]
        <4>1. Same \in CoreType  BY <1>1, CoreAssumption DEF CoresInv, Cores, Same
        <4> QED BY <3>1, <4>1 DEF CoreType
      <3>2. CASE this # "gs" /\ q = Same
        BY <2>3, <3>2 DEF PlainPair, AtGs, Same
      <3>3. CASE next \in AtGs  BY <3>3
      <3>4. CASE this = "kick"
        <4>1. Same \in CoreType  BY <1>1, CoreAssumption DEF CoresInv, Cores, Same
        <4>2. q.pc = "kickRet"  BY <3>4, <4>1 DEF PlainPair, CoreType
        <4> QED BY <1>3, <4>2 DEF CoresMoved
      <3> QED BY <3>1, <3>2, <3>3, <3>4 DEF PlainPair, AtGs
    <2>5. next \in AfterSched => this \in AfterSched  BY DEF PlainPair, AfterSched
    <2>6. next \in AfterSched \union {"sched"} => this \in AfterSched \union {"sched"}
      BY DEF PlainPair, AfterSched
    <2>7. next \in BeforeTimer => this \in BeforeTimer
      BY DEF PlainPair, BeforeTimer, BeforeStore, AtGs
    <2>8. "stopped" \notin AfterSched \union {"sched"} \union BeforeTimer
      BY DEF AfterSched, BeforeTimer, BeforeStore, AtGs
    <2> QED BY <1>1, <1>2, <2>1, <2>2, <2>4, <2>5, <2>6, <2>7, <2>8 DEF StageInv
  <1>6. StoreInv'
    <2>1. CASE ~ok  BY <1>1, <1>2, <2>1, StoreSame
    <2>2. CASE ok /\ this \in BeforeStore
      <3>1. next \in BeforeStore  BY <2>2 DEF PlainPair, BeforeStore, AtGs
      <3> QED BY <1>1, <1>2, <2>2, <3>1, StoreSame
    <2>3. CASE ok /\ this \notin BeforeStore
      <3>1. \/ this = "aps" /\ next = "bootpack"
            \/ this = "modules" /\ next = "kick" /\ todo = <<>>
            \/ this = "kick" /\ next = "done"
        BY <2>3 DEF PlainPair, BeforeStore, AtGs
      <3>2. next \notin BeforeStore \union {"stopped", "clkdev", "pit", "modules"}
            /\ this # "stopped"
        BY <3>1 DEF BeforeStore, AtGs
      <3>3. Made' = Made
        <4>1. CASE this = "aps" /\ next = "bootpack"
          BY <1>2, <2>3, <4>1 DEF Made
        <4>2. CASE this = "modules" /\ next = "kick" /\ todo = <<>>
          <5>1. Range(todo) = {}  BY <4>2 DEF Range
          <5>2. Made = All  BY <1>2, <4>2, <5>1, MadeBy DEF All
          <5>3. Made' = All  BY <1>2, <2>3, <4>2 DEF Made, All
          <5> QED BY <5>2, <5>3
        <4>3. CASE this = "kick" /\ next = "done"
          BY <1>2, <2>3, <4>3 DEF Made
        <4> QED BY <3>1, <4>1, <4>2, <4>3
      <3> QED BY <1>1, <1>2, <2>3, <3>2, <3>3, StoreSame
    <2> QED BY <2>1, <2>2, <2>3
  <1> QED BY <1>3, <1>4, <1>5, <1>6 DEF Kept, IInv, CoresMoved

LEMMA PlainStages ==
    ASSUME IInv, NEW ok \in BOOLEAN,
           \/ InitIrqChip(ok) \/ InitSyscall(ok) \/ LoadGates(ok) \/ WriteGs(ok)
           \/ PoolInit(ok) \/ CreateProcess(ok)
           \/ ok /\ (AcpiInit \/ MpInitDone \/ KickSwapgs)
    PROVE  Kept
  <1>1. PICK this, next, q :
           /\ Stage(this, ok, ok, next, q) /\ StoreUnchanged /\ PlainPair(this, next, q)
           /\ this = "kick" => ok
    <2>1. CASE ok /\ (AcpiInit \/ MpInitDone \/ KickSwapgs)
      <3>1. ok = TRUE  BY <2>1
      <3> QED BY <2>1, <3>1 DEF AcpiInit, MpInitDone, KickSwapgs, PlainPair
    <2>2. CASE InitIrqChip(ok)  BY <2>2 DEF InitIrqChip, PlainPair
    <2>3. CASE InitSyscall(ok)  BY <2>3 DEF InitSyscall, PlainPair
    <2>4. CASE LoadGates(ok)  BY <2>4 DEF LoadGates, PlainPair
    <2>5. CASE WriteGs(ok)  BY <2>5 DEF WriteGs, PlainPair
    <2>6. CASE PoolInit(ok)  BY <2>6 DEF PoolInit, PlainPair
    <2>7. CASE CreateProcess(ok)  BY <2>7 DEF CreateProcess, PlainPair
    <2> QED BY <2>1, <2>2, <2>3, <2>4, <2>5, <2>6, <2>7
  <1> QED BY <1>1, PlainStage

\* The passes over the modules.
LEMMA TodoTail ==
    ASSUME todo \in Seq(PassType), todo # <<>>, Passes(todo)
    PROVE  /\ Tail(todo) \in Seq(PassType) /\ Passes(Tail(todo))
           /\ Range(todo) = Range(Tail(todo)) \union {Head(todo)}
           /\ Head(todo) \notin Range(Tail(todo))
           /\ Head(todo) = GenericPass => ObjectPass \notin Range(todo)
  <1> DEFINE rest == Tail(todo)
  <1>1. /\ Len(todo) \in Nat \ {0} /\ DOMAIN todo = 1 .. Len(todo)
        /\ Head(todo) = todo[1] /\ rest \in Seq(PassType)
        /\ DOMAIN rest = 1 .. Len(todo) - 1
        /\ \A i \in DOMAIN rest : rest[i] = todo[i + 1] /\ i + 1 \in DOMAIN todo
    OBVIOUS
  <1> HIDE DEF rest
  <1>2. Passes(rest)
    <2> SUFFICES ASSUME NEW i \in DOMAIN rest, NEW j \in DOMAIN rest, i < j
                 PROVE  rest[i] # rest[j] /\ ~(rest[i].type = "generic" /\ rest[j].type = "object")
      BY DEF Passes
    <2>1. i + 1 \in DOMAIN todo /\ j + 1 \in DOMAIN todo /\ i + 1 < j + 1
          /\ rest[i] = todo[i + 1] /\ rest[j] = todo[j + 1]
      BY <1>1
    <2> QED BY <2>1 DEF Passes
  <1>3. Range(todo) = Range(rest) \union {Head(todo)}
    <2>1. ASSUME NEW i \in DOMAIN todo PROVE todo[i] \in Range(rest) \union {Head(todo)}
      <3>1. CASE i = 1  BY <1>1, <3>1
      <3>2. CASE i # 1
        <4>1. i - 1 \in DOMAIN rest /\ rest[i - 1] = todo[i]  BY <1>1, <3>2
        <4> QED BY <4>1 DEF Range
      <3> QED BY <3>1, <3>2
    <2>2. \A i \in DOMAIN rest : rest[i] \in Range(todo)  BY <1>1 DEF Range
    <2>3. Head(todo) \in Range(todo)
      <3>1. 1 \in DOMAIN todo  BY <1>1
      <3> QED BY <1>1, <3>1 DEF Range
    <2> QED BY <2>1, <2>2, <2>3 DEF Range
  <1>4. ASSUME NEW i \in DOMAIN rest
        PROVE  todo[1] # rest[i] /\ ~(todo[1].type = "generic" /\ rest[i].type = "object")
    <2>1. i + 1 \in DOMAIN todo /\ 1 \in DOMAIN todo /\ 1 < i + 1 /\ rest[i] = todo[i + 1]
      BY <1>1
    <2> QED BY <2>1 DEF Passes
  <1>5. Head(todo) \notin Range(rest)  BY <1>1, <1>4 DEF Range
  <1>6. Head(todo) = GenericPass => ObjectPass \notin Range(todo)
    <2>1. Head(todo) = GenericPass => ObjectPass \notin Range(rest)
      BY <1>1, <1>4 DEF Range, GenericPass, ObjectPass
    <2>2. GenericPass # ObjectPass  BY DEF GenericPass, ObjectPass
    <2> QED BY <1>3, <2>1, <2>2
  <1> QED BY <1>1, <1>2, <1>3, <1>5, <1>6 DEF rest

\* Which stage makes which object.
Making(this, next, n) ==
    \/ /\ <<this, next, n>> \in {<<"clkdev", "pit", "clkdev">>, <<"pit", "hpet", "isa-aux">>,
                                 <<"hpet", "lapicTimer", "aux">>, <<"lapicTimer", "sched", "sched">>}
       /\ todo' = todo
    \/ /\ this = "modules" /\ next = "modules" /\ todo # <<>> /\ todo' = Tail(todo)
       /\ \/ n = "mapper" /\ Head(todo) = ObjectPass
          \/ n = "video0" /\ Head(todo) = GenericPass

\* The objects when kMain is past their store.
LEMMA StoreAt ==
    ASSUME IInv, stage \notin BeforeStore \union {"stopped"}
    PROVE  /\ StoreKept /\ store # NoStore
           /\ \A n \in Names \ {"isa-aux"} : n \in NamesIn(store) <=> n \in Made
           /\ stage \in {"clkdev", "pit"} => "isa-aux" \notin NamesIn(store)
  <1>1. StoreInv /\ StoreShape(store)  BY DEF IInv, RestType
  <1> QED BY <1>1 DEF StoreInv, StoreKept

LEMMA MakingNames ==
    ASSUME IInv, NEW this, NEW next, NEW n, Making(this, next, n), stage = this
    PROVE  /\ StoreKept /\ this \notin BeforeStore \union {"stopped"}
           /\ next \notin BeforeStore \union {"stopped"}
           /\ n \in Names \ {"/"} /\ n \notin NamesIn(store) /\ ParentOf(n) \in NamesIn(store)
           /\ stage' = next => Made' = Made \union ({n} \ {"isa-aux"})
           /\ next = "modules" => Passes(todo')
           /\ todo' \in Seq(PassType)
  <1>1. this \notin BeforeStore \union {"stopped"} /\ next \notin BeforeStore \union {"stopped"}
    BY DEF Making, BeforeStore, AtGs
  <1>2. /\ StoreKept
        /\ \A x \in Names \ {"isa-aux"} : x \in NamesIn(store) <=> x \in Made
        /\ stage \in {"clkdev", "pit"} => "isa-aux" \notin NamesIn(store)
    BY <1>1, StoreAt
  <1>3. n \in Names \ {"/"}  BY DEF Making, Names
  <1>4. todo \in Seq(PassType)  BY DEF IInv, RestType
  <1>5. CASE this # "modules"
    <2>1. <<this, next, n>> \in {<<"clkdev", "pit", "clkdev">>, <<"pit", "hpet", "isa-aux">>,
                                 <<"hpet", "lapicTimer", "aux">>, <<"lapicTimer", "sched", "sched">>}
          /\ todo' = todo
      BY <1>5 DEF Making
    <2>2. CASE this = "clkdev"
      <3>1. Made = {"/"} /\ n = "clkdev" /\ next = "pit"  BY <2>1, <2>2, MadeBy
      <3>2. stage' = "pit" => Made' = {"/", "clkdev"}  BY DEF Made
      <3> QED BY <1>1, <1>2, <1>3, <1>4, <2>1, <2>2, <3>1, <3>2 DEF ParentOf, Names
    <2>3. CASE this = "pit"
      <3>1. Made = {"/", "clkdev"} /\ n = "isa-aux" /\ next = "hpet"  BY <2>1, <2>3, MadeBy
      <3>2. stage' = "hpet" => Made' = {"/", "clkdev"}  BY DEF Made
      <3> QED BY <1>1, <1>2, <1>3, <1>4, <2>1, <2>3, <3>1, <3>2 DEF ParentOf, Names
    <2>4. CASE this = "hpet"
      <3>1. Made = {"/", "clkdev"} /\ n = "aux" /\ next = "lapicTimer"  BY <2>1, <2>4, MadeBy
      <3>2. stage' = "lapicTimer" => Made' = {"/", "clkdev", "aux"}  BY DEF Made
      <3> QED BY <1>1, <1>2, <1>3, <1>4, <2>1, <2>4, <3>1, <3>2 DEF ParentOf, Names
    <2>5. CASE this = "lapicTimer"
      <3>1. Made = {"/", "clkdev", "aux"} /\ n = "sched" /\ next = "sched"
        BY <2>1, <2>5, MadeBy
      <3>2. stage' = "sched" => Made' = {"/", "clkdev", "aux", "sched"}  BY DEF Made
      <3> QED BY <1>1, <1>2, <1>3, <1>4, <2>1, <2>5, <3>1, <3>2 DEF ParentOf, Names
    <2> QED BY <2>1, <2>2, <2>3, <2>4, <2>5
  <1>6. CASE this = "modules"
    <2>1. /\ next = "modules" /\ todo # <<>> /\ todo' = Tail(todo)
          /\ \/ n = "mapper" /\ Head(todo) = ObjectPass
             \/ n = "video0" /\ Head(todo) = GenericPass
      BY <1>6 DEF Making
    <2>2. Passes(todo)  BY <1>6 DEF IInv, StoreInv
    <2>3. /\ Tail(todo) \in Seq(PassType) /\ Passes(Tail(todo))
          /\ Range(todo) = Range(Tail(todo)) \union {Head(todo)}
          /\ Head(todo) \notin Range(Tail(todo))
          /\ Head(todo) = GenericPass => ObjectPass \notin Range(todo)
      BY <1>4, <2>1, <2>2, TodoTail
    <2> DEFINE base == {"/", "clkdev", "aux", "sched"}
               old == Range(todo)
               new == Range(Tail(todo))
    <2>4. Made = base \union (IF ObjectPass \in old THEN {} ELSE {"mapper"})
                      \union (IF GenericPass \in old THEN {} ELSE {"video0"})
      BY <1>6, MadeBy
    <2>5. stage' = "modules" =>
             Made' = base \union (IF ObjectPass \in new THEN {} ELSE {"mapper"})
                          \union (IF GenericPass \in new THEN {} ELSE {"video0"})
      BY <2>1 DEF Made
    <2>6. ObjectPass # GenericPass  BY DEF ObjectPass, GenericPass
    <2>7. old = new \union {Head(todo)} /\ Head(todo) \notin new
          /\ (Head(todo) = GenericPass => ObjectPass \notin old)
      BY <2>3
    <2> HIDE DEF old, new
    <2>8. CASE n = "mapper" /\ Head(todo) = ObjectPass
      <3>1. n \notin Made /\ "/" \in Made  BY <2>4, <2>7, <2>8
      <3>2. stage' = next => Made' = Made \union ({n} \ {"isa-aux"})
        BY <2>1, <2>4, <2>5, <2>6, <2>7, <2>8
      <3> QED BY <1>1, <1>2, <1>3, <2>1, <2>3, <2>8, <3>1, <3>2 DEF ParentOf, Names
    <2>9. CASE n = "video0" /\ Head(todo) = GenericPass
      <3>1. n \notin Made /\ "mapper" \in Made  BY <2>4, <2>7, <2>9
      <3>2. stage' = next => Made' = Made \union ({n} \ {"isa-aux"})
        BY <2>1, <2>4, <2>5, <2>6, <2>7, <2>9
      <3> QED BY <1>1, <1>2, <1>3, <2>1, <2>3, <2>9, <3>1, <3>2 DEF ParentOf, Names
    <2> QED BY <2>1, <2>8, <2>9
  <1> QED BY <1>5, <1>6

\* A stage that makes an object.
LEMMA MakingStage ==
    ASSUME IInv, NEW this, NEW next, NEW ok \in BOOLEAN, NEW granted \in BOOLEAN,
           Stage(this, ok, granted, next, Same), granted => ok,
           NEW n, Making(this, next, n), NEW done \in BOOLEAN, NEW new,
           Outcome(store', new, n, done), registered' = registered \union new,
           ok /\ ~done => store' = store /\ new = {} /\ n = "isa-aux",
           schedTimer' = schedTimer, lapicTimer' \in BOOLEAN,
           this # "lapicTimer" => lapicTimer' = lapicTimer,
           this = "lapicTimer" => lapicTimer' = ok
    PROVE  Kept
  <1>1. RestType /\ CoresInv /\ ScreenInv /\ StageInv /\ StoreInv  BY DEF IInv
  <1>2. /\ stage = this /\ core[Bsp].pc = "boot"
        /\ stage' = IF ok THEN next ELSE "stopped"
        /\ failed' \in BOOLEAN /\ bugLock' = bugLock /\ screen' = screen /\ modules' = modules
    BY DEF Stage
  <1>3. CoresMoved(Same, ok)
    <2>1. /\ Same \in CoreType /\ Same.frames = core[Bsp].frames /\ Same.stk = core[Bsp].stk
          /\ Same.ifl = core[Bsp].ifl
      BY <1>1, <1>2, StageCore
    <2>2. Same.pc = "boot" /\ Same.gs \in {core[Bsp].gs, "kpcr"}  BY <1>2 DEF Same
    <2> QED BY <1>1, <2>1, <2>2, StageMoves
  <1>4. /\ StoreKept /\ this \notin BeforeStore \union {"stopped"}
        /\ next \notin BeforeStore \union {"stopped"}
        /\ n \in Names \ {"/"} /\ n \notin NamesIn(store)
        /\ stage' = next => Made' = Made \union ({n} \ {"isa-aux"})
        /\ next = "modules" => Passes(todo')
        /\ todo' \in Seq(PassType)
    <2>1. Making(this, next, n) /\ stage = this  BY <1>2
    <2> QED BY <2>1, MakingNames
  <1>5. StoreShape(store') /\ Tree(store') /\ Counted(store', registered')
    BY DEF Outcome
  <1>6. RestType'
    <2>1. stage' \in Stages  BY <1>2 DEF Making, Stages
    <2>2. (store.root)' \in Objects' \union {NoObject}
      <3>1. store'.root = 1 /\ Len(store'.ob) >= 1 /\ DOMAIN store'.ob = 1 .. Len(store'.ob)
        BY <1>5, ShapeFacts DEF Tree
      <3> QED BY <3>1 DEF Objects
    <2>3. StoreShape(store)'  BY <1>5
    <2> QED BY <1>1, <1>2, <1>4, <2>1, <2>2, <2>3 DEF RestType
  <1>7. StageInv'
    <2>1. \A c \in Aps : core'[c] = core[c]  BY <1>3 DEF CoresMoved
    <2>2. core'[Bsp].pc # "off" /\ (core'[Bsp].pc = "boot" => core'[Bsp].gs = core[Bsp].gs)
      BY <1>3 DEF CoresMoved, Same
    <2>3. core[Bsp].gs = "kpcr"
      BY <1>1, <1>2, <1>4 DEF StageInv, BeforeStore
    <2>4. next \in AfterSched => this = "modules"
      BY DEF Making, AfterSched
    <2>5. this = "modules" => schedTimer = "lapic" /\ lapicTimer
      BY <1>1, <1>2 DEF StageInv, AfterSched
    <2>6. next = "sched" => this = "lapicTimer"  BY DEF Making
    <2>7. next \in BeforeTimer => this \in BeforeTimer \ {"lapicTimer"}
      BY <1>4 DEF Making, BeforeTimer, BeforeStore, AtGs
    <2>8. "stopped" \notin AfterSched \union {"sched"} \union BeforeTimer
      BY DEF AfterSched, BeforeTimer, BeforeStore, AtGs
    <2>9. next \notin AtGs /\ "stopped" \notin AtGs  BY <1>4 DEF BeforeStore, AtGs
    <2>a. stage' \in AfterSched \/ (\E c \in Aps : core'[c].pc # "off") => schedTimer' = "lapic"
      BY <1>1, <1>2, <2>1, <2>4, <2>5, <2>8 DEF StageInv
    <2>b. stage' \in BeforeTimer => ~lapicTimer'
      BY <1>1, <1>2, <2>7, <2>8 DEF StageInv
    <2>c. "modules" # "lapicTimer" /\ "sched" \notin AfterSched  BY DEF AfterSched
    <2>d. stage' \in AfterSched \union {"sched"} => lapicTimer'
      BY <1>2, <2>4, <2>5, <2>6, <2>8, <2>c
    <2> QED BY <2>2, <2>3, <2>a, <2>b, <2>d DEF StageInv
  <1>8. StoreInv'
    <2>1. store' # NoStore
      <3>1. Len(store'.ob) >= 1  BY <1>5 DEF Tree
      <3>2. NoStore.ob = <<>>  BY DEF NoStore
      <3> QED BY <3>1, <3>2
    <2>2. stage' \notin BeforeStore
      BY <1>2, <1>4 DEF BeforeStore, AtGs
    <2>3. CASE ~ok
      BY <1>2, <1>5, <2>1, <2>2, <2>3 DEF StoreInv
    <2>4. CASE ok
      <3>1. /\ \A x \in Names \ {"isa-aux"} : x \in NamesIn(store) <=> x \in Made
            /\ stage \in {"clkdev", "pit"} => "isa-aux" \notin NamesIn(store)
        BY <1>2, <1>4, StoreAt
      <3>2. stage' = next  BY <1>2, <2>4
      <3>3. next \in {"clkdev", "pit"} => this = "clkdev" /\ n = "clkdev"
        BY DEF Making
      <3>4. CASE done
        <4>1. Complete(store', registered') /\ NamesIn(store') = NamesIn(store) \union {n}
          BY <3>4 DEF Outcome
        <4>2. \A x \in Names \ {"isa-aux"} : x \in NamesIn(store') <=> x \in Made'
          BY <1>4, <3>1, <3>2, <4>1
        <4>3. stage' \in {"clkdev", "pit"} => "isa-aux" \notin NamesIn(store')
          BY <1>2, <3>1, <3>2, <3>3, <4>1
        <4> QED BY <1>4, <1>5, <2>1, <2>2, <3>2, <4>1, <4>2, <4>3 DEF StoreInv
      <3>5. CASE ~done
        <4>1. store' = store /\ registered' = registered /\ n = "isa-aux"
          BY <2>4, <3>5
        <4>2. Complete(store', registered')  BY <1>4, <4>1 DEF StoreKept
        <4>3. \A x \in Names \ {"isa-aux"} : x \in NamesIn(store') <=> x \in Made'
          BY <1>4, <3>1, <3>2, <4>1
        <4>4. stage' \notin {"clkdev", "pit"}  BY <3>2, <3>3, <4>1
        <4> QED BY <1>4, <1>5, <2>1, <2>2, <3>2, <4>2, <4>3, <4>4 DEF StoreInv
      <3> QED BY <3>4, <3>5
    <2> QED BY <2>3, <2>4
  <1> QED BY <1>3, <1>6, <1>7, <1>8 DEF Kept, IInv, CoresMoved

LEMMA DirectoryResult ==
    ASSUME StoreKept, NEW n, n \in {"clkdev", "mapper"}, n \notin NamesIn(store),
           NEW mem \in BOOLEAN, NEW dirMem \in BOOLEAN
    PROVE  LET r == Directory(n, mem, dirMem)
           IN  /\ r.ok \in BOOLEAN /\ (mem /\ dirMem => r.ok)
               /\ Outcome(r.store, r.new, n, r.ok)
  <1> DEFINE r == Directory(n, mem, dirMem)
  <1>1. CASE mem
    <2>1. r.ok = dirMem /\ Outcome(r.store, r.new, n, dirMem)
      BY <1>1, DirectoryMade
    <2> HIDE DEF r
    <2>2. r.ok = dirMem /\ r.ok \in BOOLEAN /\ Outcome(r.store, r.new, n, r.ok)
      BY <2>1
    <2> QED BY <2>2 DEF r
  <1>2. CASE ~mem
    <2>1. ~r.ok /\ r.store = store /\ r.new = {}  BY <1>2, DirectoryRefused
    <2>2. r.ok \in BOOLEAN
      BY DEF Directory
    <2> HIDE DEF r
    <2>3. Outcome(store, {}, n, r.ok)  BY <2>1, <2>2, OutcomeSame
    <2> QED BY <1>2, <2>1, <2>2, <2>3 DEF r
  <1> QED BY <1>1, <1>2

LEMMA DescriptorsResult ==
    ASSUME StoreKept, NEW n, n \in {"isa-aux", "aux", "sched", "video0"}, n \notin NamesIn(store),
           ParentOf(n) \in NamesIn(store), NEW mem \in BOOLEAN
    PROVE  LET r == Descriptors(ParentOf(n), n, TypeOf(n), DataOf(n), mem)
           IN  /\ r.ok = mem /\ Outcome(r.store, r.new, n, mem)
               /\ ~mem => r.store = store /\ r.new = {}
  <1> DEFINE r == Descriptors(ParentOf(n), n, TypeOf(n), DataOf(n), mem)
  <1>1. CASE mem
    <2>1. r.ok = mem /\ Outcome(r.store, r.new, n, mem)
      BY <1>1, DescriptorsMade
    <2> HIDE DEF r
    <2> QED BY <1>1, <2>1 DEF r
  <1>2. CASE ~mem
    <2>1. r.ok = mem /\ r.store = store /\ r.new = {}  BY <1>2, DescriptorsRefused
    <2> HIDE DEF r
    <2>2. Outcome(store, {}, n, mem)  BY <1>2, OutcomeSame
    <2> QED BY <2>1, <2>2 DEF r
  <1> QED BY <1>1, <1>2

LEMMA TimerCreateStoreStep ==
    ASSUME IInv, NEW mem \in BOOLEAN, NEW dirMem \in BOOLEAN, TimerCreateStore(mem, dirMem)
    PROVE  Kept
  <1> DEFINE r == Directory("clkdev", mem, dirMem)
             n == "clkdev"
             this == "clkdev"
             next == "pit"
             granted == mem /\ dirMem
  <1>1. /\ Stage(this, r.ok, granted, next, Same) /\ store' = r.store
        /\ registered' = registered \union r.new
        /\ schedTimer' = schedTimer /\ lapicTimer' = lapicTimer /\ todo' = todo
    BY DEF TimerCreateStore, Stored
  <1>2. stage = this /\ Making(this, next, n) /\ this # "lapicTimer"
    BY <1>1 DEF Stage, Making
  <1>3. StoreKept /\ n \notin NamesIn(store)  BY <1>2, MakingNames
  <1>4. /\ r.ok \in BOOLEAN /\ (granted => r.ok)
        /\ Outcome(r.store, r.new, n, r.ok)
    BY <1>3, DirectoryResult
  <1>5. lapicTimer' \in BOOLEAN /\ granted \in BOOLEAN  BY <1>1 DEF IInv, RestType
  <1> HIDE DEF r, n, this, next, granted
  <1> DEFINE ok == r.ok
             new == r.new
  <1>6. /\ Stage(this, ok, granted, next, Same) /\ (granted => ok) /\ ok \in BOOLEAN
        /\ Outcome(store', new, n, ok) /\ registered' = registered \union new
        /\ (ok /\ ~ok => store' = store /\ new = {} /\ n = "isa-aux")
    BY <1>1, <1>4
  <1> HIDE DEF ok, new
  <1> QED BY <1>1, <1>2, <1>5, <1>6, MakingStage

\* pitInit, whose failure halInitTimers ignores.
LEMMA PitInitStep ==
    ASSUME IInv, NEW mem \in BOOLEAN, PitInit(mem)
    PROVE  Kept
  <1> DEFINE n == "isa-aux"
             r == Descriptors(ParentOf(n), n, TypeOf(n), DataOf(n), mem)
             this == "pit"
             next == "hpet"
             granted == mem
             ok == TRUE
             done == mem
  <1>1. /\ Stage(this, ok, granted, next, Same) /\ store' = r.store
        /\ registered' = registered \union r.new
        /\ schedTimer' = schedTimer
        /\ lapicTimer' = lapicTimer
        /\ todo' = todo
    BY DEF PitInit, Stored, ParentOf, TypeOf, DataOf
  <1>2. stage = this /\ Making(this, next, n)
    BY <1>1 DEF Stage, Making, ObjectPass, GenericPass, ModuleType
  <1>3. StoreKept /\ n \notin NamesIn(store) /\ ParentOf(n) \in NamesIn(store)
    BY <1>2, MakingNames
  <1>4. /\ r.ok = mem /\ Outcome(r.store, r.new, n, mem)
        /\ ~mem => r.store = store /\ r.new = {}
    BY <1>3, DescriptorsResult

  <1>5. /\ granted \in BOOLEAN /\ lapicTimer' \in BOOLEAN
        /\ (this # "lapicTimer" => lapicTimer' = lapicTimer)
        /\ (this = "lapicTimer" => lapicTimer' = ok)
    BY <1>1, <1>4 DEF IInv, RestType
  <1> DEFINE new == r.new
  <1>6. /\ (granted => ok) /\ ok \in BOOLEAN /\ done \in BOOLEAN
        /\ Outcome(store', new, n, done) /\ registered' = registered \union new
        /\ (ok /\ ~done => store' = store /\ new = {} /\ n = "isa-aux")
    BY <1>1, <1>4
  <1> HIDE DEF r, n, this, next, granted, ok, done, new
  <1> QED BY <1>1, <1>2, <1>5, <1>6, MakingStage

LEMMA LapicInitTimerStep ==
    ASSUME IInv, NEW mem \in BOOLEAN, LapicInitTimer(mem)
    PROVE  Kept
  <1> DEFINE n == "sched"
             r == Descriptors(ParentOf(n), n, TypeOf(n), DataOf(n), mem)
             this == "lapicTimer"
             next == "sched"
             granted == mem
             ok == r.ok
             done == mem
  <1>1. /\ Stage(this, ok, granted, next, Same) /\ store' = r.store
        /\ registered' = registered \union r.new
        /\ schedTimer' = schedTimer
        /\ lapicTimer' = r.ok
        /\ todo' = todo
    <2>1. stage = "lapicTimer"  BY DEF LapicInitTimer, Stage
    <2>2. ~lapicTimer  BY <2>1 DEF IInv, StageInv, BeforeTimer
    <2> QED BY <2>2 DEF LapicInitTimer, LapicTimer, Stored, ParentOf, TypeOf, DataOf
  <1>2. stage = this /\ Making(this, next, n)
    BY <1>1 DEF Stage, Making, ObjectPass, GenericPass, ModuleType
  <1>3. StoreKept /\ n \notin NamesIn(store) /\ ParentOf(n) \in NamesIn(store)
    BY <1>2, MakingNames
  <1>4. /\ r.ok = mem /\ Outcome(r.store, r.new, n, mem)
        /\ ~mem => r.store = store /\ r.new = {}
    BY <1>3, DescriptorsResult

  <1>5. /\ granted \in BOOLEAN /\ lapicTimer' \in BOOLEAN
        /\ (this # "lapicTimer" => lapicTimer' = lapicTimer)
        /\ (this = "lapicTimer" => lapicTimer' = ok)
    BY <1>1, <1>4 DEF IInv, RestType
  <1> DEFINE new == r.new
  <1>6. /\ (granted => ok) /\ ok \in BOOLEAN /\ done \in BOOLEAN
        /\ Outcome(store', new, n, done) /\ registered' = registered \union new
        /\ (ok /\ ~done => store' = store /\ new = {} /\ n = "isa-aux")
    BY <1>1, <1>4
  <1> HIDE DEF r, n, this, next, granted, ok, done, new
  <1> QED BY <1>1, <1>2, <1>5, <1>6, MakingStage

LEMMA BootVidInitStep ==
    ASSUME IInv, NEW mem \in BOOLEAN, BootVidInit(mem)
    PROVE  Kept
  <1> DEFINE n == "video0"
             r == Descriptors(ParentOf(n), n, TypeOf(n), DataOf(n), mem)
             this == "modules"
             next == "modules"
             granted == mem
             ok == r.ok
             done == mem
  <1>1. /\ Stage(this, ok, granted, next, Same) /\ store' = r.store
        /\ registered' = registered \union r.new
        /\ schedTimer' = schedTimer
        /\ lapicTimer' = lapicTimer
        /\ todo # <<>> /\ todo' = Tail(todo) /\ Head(todo) = GenericPass
    <2>1. todo # <<>> /\ Head(todo) = GenericPass
      <3>1. /\ todo # <<>> /\ Head(todo).module = "bootvid" /\ Head(todo).type = "generic"
            /\ todo \in Seq(PassType)
        BY DEF BootVidInit, ModuleInit, ModuleType, IInv, RestType
      <3>2. Head(todo) \in PassType  BY <3>1
      <3> QED BY <3>1, <3>2 DEF PassType, GenericPass
    <2> QED BY <2>1 DEF BootVidInit, ModuleInit, Stored, ParentOf, TypeOf, DataOf
  <1>2. stage = this /\ Making(this, next, n)
    BY <1>1 DEF Stage, Making, ObjectPass, GenericPass, ModuleType
  <1>3. StoreKept /\ n \notin NamesIn(store) /\ ParentOf(n) \in NamesIn(store)
    BY <1>2, MakingNames
  <1>4. /\ r.ok = mem /\ Outcome(r.store, r.new, n, mem)
        /\ ~mem => r.store = store /\ r.new = {}
    BY <1>3, DescriptorsResult

  <1>5. /\ granted \in BOOLEAN /\ lapicTimer' \in BOOLEAN
        /\ (this # "lapicTimer" => lapicTimer' = lapicTimer)
        /\ (this = "lapicTimer" => lapicTimer' = ok)
    BY <1>1, <1>4 DEF IInv, RestType
  <1> DEFINE new == r.new
  <1>6. /\ (granted => ok) /\ ok \in BOOLEAN /\ done \in BOOLEAN
        /\ Outcome(store', new, n, done) /\ registered' = registered \union new
        /\ (ok /\ ~done => store' = store /\ new = {} /\ n = "isa-aux")
    BY <1>1, <1>4
  <1> HIDE DEF r, n, this, next, granted, ok, done, new
  <1> QED BY <1>1, <1>2, <1>5, <1>6, MakingStage

LEMMA MapperInitStep ==
    ASSUME IInv, NEW mem \in BOOLEAN, NEW dirMem \in BOOLEAN, MapperInit(mem, dirMem)
    PROVE  Kept
  <1> DEFINE n == "mapper"
             r == Directory(n, mem, dirMem)
             this == "modules"
             next == "modules"
             granted == mem /\ dirMem
             ok == r.ok
             done == r.ok
  <1>1. /\ Stage(this, ok, granted, next, Same) /\ store' = r.store
        /\ registered' = registered \union r.new
        /\ schedTimer' = schedTimer
        /\ lapicTimer' = lapicTimer
        /\ todo # <<>> /\ todo' = Tail(todo) /\ Head(todo) = ObjectPass
    <2>1. todo # <<>> /\ Head(todo) = ObjectPass
      <3>1. /\ todo # <<>> /\ Head(todo).module = "mapper" /\ Head(todo).type = "object"
            /\ todo \in Seq(PassType)
        BY DEF MapperInit, ModuleInit, ModuleType, IInv, RestType
      <3>2. Head(todo) \in PassType  BY <3>1
      <3> QED BY <3>1, <3>2 DEF PassType, ObjectPass
    <2> QED BY <2>1 DEF MapperInit, ModuleInit, Stored
  <1>2. stage = this /\ Making(this, next, n)
    BY <1>1 DEF Stage, Making, ObjectPass, GenericPass, ModuleType
  <1>3. StoreKept /\ n \notin NamesIn(store) /\ ParentOf(n) \in NamesIn(store)
    BY <1>2, MakingNames
  <1>4. /\ r.ok \in BOOLEAN /\ (granted => r.ok)
        /\ Outcome(r.store, r.new, n, r.ok)
    BY <1>3, DirectoryResult

  <1>5. /\ granted \in BOOLEAN /\ lapicTimer' \in BOOLEAN
        /\ (this # "lapicTimer" => lapicTimer' = lapicTimer)
        /\ (this = "lapicTimer" => lapicTimer' = ok)
    BY <1>1, <1>4 DEF IInv, RestType
  <1> DEFINE new == r.new
  <1>6. /\ (granted => ok) /\ ok \in BOOLEAN /\ done \in BOOLEAN
        /\ Outcome(store', new, n, done) /\ registered' = registered \union new
        /\ (ok /\ ~done => store' = store /\ new = {} /\ n = "isa-aux")
    BY <1>1, <1>4
  <1> HIDE DEF r, n, this, next, granted, ok, done, new
  <1> QED BY <1>1, <1>2, <1>5, <1>6, MakingStage

LEMMA HpetInitStep ==
    ASSUME IInv, NEW present \in BOOLEAN, NEW mem \in BOOLEAN, HpetInit(present, mem)
    PROVE  Kept
  <1> DEFINE n == "aux"
             r == IF present THEN Descriptors(ParentOf(n), n, TypeOf(n), DataOf(n), mem)
                  ELSE [ok |-> FALSE, store |-> store, new |-> {}]
             this == "hpet"
             next == "lapicTimer"
             granted == present /\ mem
             ok == r.ok
             done == present /\ mem
  <1>1. /\ Stage(this, ok, granted, next, Same) /\ store' = r.store
        /\ registered' = registered \union r.new
        /\ schedTimer' = schedTimer
        /\ lapicTimer' = lapicTimer
        /\ todo' = todo
    BY DEF HpetInit, Stored, ParentOf, TypeOf, DataOf
  <1>2. stage = this /\ Making(this, next, n)
    BY <1>1 DEF Stage, Making, ObjectPass, GenericPass, ModuleType
  <1>3. StoreKept /\ n \notin NamesIn(store) /\ ParentOf(n) \in NamesIn(store)
    BY <1>2, MakingNames
  <1>4. /\ r.ok = (present /\ mem) /\ Outcome(r.store, r.new, n, present /\ mem)
        /\ ~r.ok => r.store = store /\ r.new = {}
    <2>1. CASE present
      <3> DEFINE d == Descriptors(ParentOf(n), n, TypeOf(n), DataOf(n), mem)
      <3>1. /\ d.ok = mem /\ Outcome(d.store, d.new, n, mem)
            /\ ~mem => d.store = store /\ d.new = {}
        BY <1>3, DescriptorsResult
      <3>2. r = d /\ (present /\ mem) = mem  BY <2>1
      <3> HIDE DEF d, r
      <3> QED BY <3>1, <3>2
    <2>2. CASE ~present
      <3>1. r.ok = FALSE /\ r.store = store /\ r.new = {} /\ (present /\ mem) = FALSE  BY <2>2
      <3> HIDE DEF r
      <3>2. \A b \in BOOLEAN : ~b => Outcome(store, {}, n, b)  BY <1>3, OutcomeSame
      <3>3. Outcome(store, {}, n, present /\ mem)  BY <3>1, <3>2
      <3> QED BY <3>1, <3>3
    <2> QED BY <2>1, <2>2

  <1>5. /\ granted \in BOOLEAN /\ lapicTimer' \in BOOLEAN
        /\ (this # "lapicTimer" => lapicTimer' = lapicTimer)
        /\ (this = "lapicTimer" => lapicTimer' = ok)
    BY <1>1, <1>4 DEF IInv, RestType
  <1> DEFINE new == r.new
  <1>6. /\ (granted => ok) /\ ok \in BOOLEAN /\ done \in BOOLEAN
        /\ Outcome(store', new, n, done) /\ registered' = registered \union new
        /\ (ok /\ ~done => store' = store /\ new = {} /\ n = "isa-aux")
    BY <1>1, <1>4
  <1> HIDE DEF r, n, this, next, granted, ok, done, new
  <1> QED BY <1>1, <1>2, <1>5, <1>6, MakingStage

\* A stage past the bring-up of the core, without the objects.
LEMMA LaterStage ==
    ASSUME IInv, NEW this, NEW next, NEW ok \in BOOLEAN, NEW granted \in BOOLEAN,
           Stage(this, ok, granted, next, Same), granted => ok,
           this \notin AtGs, next \in Stages \ AtGs,
           schedTimer' = schedTimer \/ schedTimer' = "lapic",
           next \in AfterSched => this \in AfterSched \/ schedTimer' = "lapic",
           lapicTimer' = lapicTimer,
           next \in BeforeTimer => this \in BeforeTimer,
           next \in AfterSched \union {"sched"} => this \in AfterSched \union {"sched"}
    PROVE  /\ CoresInv' /\ ScreenInv' /\ StageInv' /\ screen' = screen
           /\ \A c \in Cores : Stopped(c) => Stopped(c)'
           /\ stage = this /\ stage' = IF ok THEN next ELSE "stopped"
           /\ bugLock' \in BOOLEAN /\ failed' \in BOOLEAN /\ screen' \subseteq Cores
           /\ schedTimer' \in {NoTimer, "lapic"} /\ stage' \in Stages /\ modules' \in Links
           /\ lapicTimer' \in BOOLEAN
  <1>1. RestType /\ CoresInv /\ ScreenInv /\ StageInv /\ StoreInv  BY DEF IInv
  <1>2. /\ stage = this /\ core[Bsp].pc = "boot"
        /\ stage' = IF ok THEN next ELSE "stopped"
        /\ failed' \in BOOLEAN /\ bugLock' = bugLock /\ screen' = screen /\ modules' = modules
    BY DEF Stage
  <1>3. CoresMoved(Same, ok)
    <2>1. /\ Same \in CoreType /\ Same.frames = core[Bsp].frames /\ Same.stk = core[Bsp].stk
          /\ Same.ifl = core[Bsp].ifl
      BY <1>1, <1>2, StageCore
    <2>2. Same.pc = "boot" /\ Same.gs \in {core[Bsp].gs, "kpcr"}  BY <1>2 DEF Same
    <2> QED BY <1>1, <2>1, <2>2, StageMoves
  <1>4. StageInv'
    <2>1. \A c \in Aps : core'[c] = core[c]  BY <1>3 DEF CoresMoved
    <2>2. core'[Bsp].pc # "off" /\ (core'[Bsp].pc = "boot" => core'[Bsp].gs = core[Bsp].gs)
      BY <1>3 DEF CoresMoved, Same
    <2>3. core[Bsp].gs = "kpcr"  BY <1>1, <1>2 DEF StageInv
    <2>4. "stopped" \notin AfterSched \union {"sched"} \union BeforeTimer
      BY DEF AfterSched, BeforeTimer, BeforeStore, AtGs
    <2>5. stage' \in AfterSched \/ (\E c \in Aps : core'[c].pc # "off") => schedTimer' = "lapic"
      BY <1>1, <1>2, <2>1, <2>4 DEF StageInv
    <2>6. stage' \in BeforeTimer => ~lapicTimer'
      BY <1>1, <1>2, <2>4 DEF StageInv
    <2>7. stage' \in AfterSched \union {"sched"} => lapicTimer'
      BY <1>1, <1>2, <2>4 DEF StageInv
    <2> QED BY <2>2, <2>3, <2>5, <2>6, <2>7 DEF StageInv
  <1>5. stage' \in Stages  BY <1>2 DEF Stages
  <1> QED BY <1>1, <1>2, <1>3, <1>4, <1>5 DEF CoresMoved, RestType

LEMMA InitStoreKept ==
    /\ StoreShape(InitStore) /\ Tree(InitStore) /\ Counted(InitStore, {})
    /\ Complete(InitStore, {}) /\ NamesIn(InitStore) = {"/"} /\ InitStore # NoStore
    /\ InitStore.root = 1 /\ 1 \in DOMAIN InitStore.ob
  <1> DEFINE root == [name |-> "/", type |-> "directory", ref |-> 1, data |-> NoData]
             ob == <<root>>
             dir == [o \in {1} |-> <<>>]
             s == InitStore
  <1>1. s = [ob |-> ob, dir |-> dir, root |-> 1]
    <2>1. NewObject(NoStore, "/", "directory", 1) = [ob |-> ob, dir |-> NoStore.dir, root |-> NoObject]
      <3>1. Append(<<>>, root) = ob  OBVIOUS
      <3>2. NoStore = [ob |-> <<>>, dir |-> NoStore.dir, root |-> NoObject]  BY DEF NoStore
      <3> HIDE DEF root, ob
      <3> QED BY <3>1, <3>2 DEF NewObject, root
    <2> DEFINE u == NewObject(NoStore, "/", "directory", 1)
               none == NoStore.dir
    <2>2. s = [u EXCEPT !.root = 1, !.dir = dir]  BY DEF InitStore
    <2>3. u = [ob |-> ob, dir |-> none, root |-> NoObject]  BY <2>1
    <2> HIDE DEF ob, dir, s, u, none
    <2> QED BY <2>2, <2>3
  <1>2. /\ s.ob = ob /\ s.dir = dir /\ s.root = 1 /\ s = [ob |-> s.ob, dir |-> s.dir, root |-> s.root]
    <2> HIDE DEF ob, dir, s
    <2> QED BY <1>1
  <1> HIDE DEF s
  <1>3. /\ ob \in Seq(ObjectType) /\ Len(ob) = 1 /\ DOMAIN ob = {1} /\ ob[1] = root
    <2>1. root \in ObjectType  BY DEF ObjectType, Names, NoData
    <2> HIDE DEF root
    <2> QED BY <2>1
  <1>4. DOMAIN dir = {1} /\ dir[1] = <<>>  OBVIOUS
  <1>5. /\ root.name = "/" /\ root.type = "directory" /\ root.ref = 1 /\ root.data = NoData
    OBVIOUS
  <1> HIDE DEF ob, root
  <1>6. StoreShape(s)
    <2>1. dir = [d \in DOMAIN dir |-> dir[d]]  OBVIOUS
    <2>2. \A d \in DOMAIN dir : dir[d] \in Seq(DOMAIN ob)  BY <1>4
    <2> HIDE DEF dir
    <2> QED BY <1>2, <1>3, <1>4, <2>1, <2>2 DEF StoreShape
  <1> HIDE DEF dir
  <1>7. Tree(s)
    BY <1>2, <1>3, <1>4, <1>5 DEF Tree, TypeOf, DataOf
  <1>8. Counted(s, {})  BY <1>2, <1>3, <1>5 DEF Counted
  <1>9. Complete(s, {})  BY <1>2, <1>3, <1>4 DEF Complete
  <1>10. NamesIn(s) = {"/"}  BY <1>2, <1>3, <1>5 DEF NamesIn
  <1>11. s # NoStore
    <2>1. NoStore.root = 0  BY DEF NoStore, NoObject
    <2> QED BY <1>2, <2>1
  <1> QED BY <1>2, <1>3, <1>6, <1>7, <1>8, <1>9, <1>10, <1>11 DEF s

LEMMA ObjStoreInitStep ==
    ASSUME IInv, NEW mem \in BOOLEAN, ObjStoreInit(mem)
    PROVE  Kept
  <1> DEFINE this == "objects"
             next == "clkdev"
  <1>1. /\ Stage(this, mem, mem, next, Same) /\ schedTimer' = schedTimer
        /\ lapicTimer' = lapicTimer /\ todo' = todo /\ registered' = registered
        /\ store' = IF mem THEN InitStore ELSE store
    BY DEF ObjStoreInit
  <1>2. /\ this \notin AtGs /\ next \in Stages \ AtGs
        /\ next \notin AfterSched \union {"sched"} /\ this \in BeforeTimer
        /\ this \in BeforeStore /\ next \notin BeforeStore
    BY DEF AtGs, Stages, AfterSched, BeforeTimer, BeforeStore
  <1> HIDE DEF this, next
  <1>3. (mem => mem) /\ (schedTimer' = schedTimer \/ schedTimer' = "lapic")
        /\ (next \in AfterSched => this \in AfterSched \/ schedTimer' = "lapic")
        /\ (next \in BeforeTimer => this \in BeforeTimer)
        /\ (next \in AfterSched \union {"sched"} => this \in AfterSched \union {"sched"})
    BY <1>1, <1>2
  <1>4. /\ CoresInv' /\ ScreenInv' /\ StageInv' /\ screen' = screen
        /\ \A c \in Cores : Stopped(c) => Stopped(c)'
        /\ stage = this /\ stage' = IF mem THEN next ELSE "stopped"
        /\ bugLock' \in BOOLEAN /\ failed' \in BOOLEAN /\ screen' \subseteq Cores
        /\ schedTimer' \in {NoTimer, "lapic"} /\ stage' \in Stages /\ modules' \in Links
        /\ lapicTimer' \in BOOLEAN
    BY <1>1, <1>2, <1>3, LaterStage
  <1>5. StoreInv /\ RestType  BY DEF IInv
  <1>6. store = NoStore /\ registered = {}  BY <1>2, <1>4, <1>5 DEF StoreInv
  <1>7. CASE mem
    <2>1. RestType'
      BY <1>1, <1>4, <1>5, <1>7, InitStoreKept DEF RestType, Objects
    <2>2. Made' = {"/"}  BY <1>4, <1>7 DEF Made, next
    <2>3. \A n \in Names \ {"isa-aux"} : n \in NamesIn(store') <=> n \in Made'
      BY <1>1, <1>7, <2>2, InitStoreKept
    <2>4. StoreInv'
      BY <1>1, <1>2, <1>4, <1>6, <1>7, <2>3, InitStoreKept DEF StoreInv, next, Names
    <2> QED BY <1>4, <2>1, <2>4 DEF Kept, IInv
  <1>8. CASE ~mem
    <2>1. RestType'
      BY <1>1, <1>4, <1>5, <1>8 DEF RestType, Objects
    <2>2. StoreInv'  BY <1>1, <1>4, <1>5, <1>8, StoreSame
    <2> QED BY <1>4, <2>1, <2>2 DEF Kept, IInv
  <1> QED BY <1>7, <1>8

\* The descriptors that the kernel looks up.
LEMMA TimerFound ==
    ASSUME IInv, stage \notin BeforeStore \union {"stopped"}, NEW n, n \in {"sched", "aux"},
           n \in NamesIn(store)
    PROVE  /\ TimerGetDescriptor(store, <<"clkdev", n>>).status = "SUCCESS"
           /\ TimerGetDescriptor(store, <<"clkdev", n>>).data = DataOf(n)
  <1>1. StoreShape(store) /\ Tree(store)  BY StoreAt DEF StoreKept
  <1>2. PICK o \in DOMAIN store.ob : store.ob[o].name = n  BY DEF NamesIn
  <1>3. o # 1 /\ store.ob[o].type = "timer" /\ store.ob[o].data = DataOf(n)
    BY <1>1, <1>2 DEF Tree, TypeOf
  <1>4. PathOf(n) = <<"clkdev", n>>  BY DEF PathOf, ParentOf
  <1>5. Lookup(store, <<"clkdev", n>>) = o  BY <1>1, <1>2, <1>3, <1>4, LookupObject
  <1>6. o # NoObject  BY <1>1, <1>2, ShapeFacts DEF NoObject
  <1> QED BY <1>3, <1>5, <1>6 DEF TimerGetDescriptor, Found

LEMMA MapperFound ==
    ASSUME IInv, stage \notin BeforeStore \union {"stopped"}, "video0" \in NamesIn(store)
    PROVE  MapperGet(store, <<"mapper", "video0">>).status = "SUCCESS"
  <1> DEFINE n == "video0"
  <1>1. StoreShape(store) /\ Tree(store)  BY StoreAt DEF StoreKept
  <1>2. PICK o \in DOMAIN store.ob : store.ob[o].name = n  BY DEF NamesIn
  <1>3. o # 1 /\ store.ob[o].type = "mapper" /\ store.ob[o].data = "region"
    BY <1>1, <1>2 DEF Tree, TypeOf, DataOf
  <1>4. PathOf(n) = <<"mapper", n>>  BY DEF PathOf, ParentOf
  <1>5. Lookup(store, <<"mapper", n>>) = o  BY <1>1, <1>2, <1>3, <1>4, LookupObject
  <1>6. o # NoObject  BY <1>1, <1>2, ShapeFacts DEF NoObject
  <1>7. Found(store, <<"mapper", n>>, "mapper") = [status |-> "SUCCESS", data |-> "region"]
    BY <1>3, <1>5, <1>6 DEF Found
  <1> QED BY <1>7 DEF MapperGet, NoData

\* The stages between the timers and the first process.
LEMMA MiddleStage ==
    ASSUME IInv, NEW this, NEW next, NEW ok \in BOOLEAN, NEW granted \in BOOLEAN,
           Stage(this, ok, granted, next, Same), granted => ok,
           \/ this = "sched" /\ next = "aux" /\ todo' = todo
           \/ this = "aux" /\ next = "aps" /\ todo' = todo
           \/ this = "bootpack" /\ next = "modules",
           todo' \in Seq(PassType),
           next = "modules" => /\ Passes(todo')
                               /\ ObjectPass \in Range(todo') /\ GenericPass \in Range(todo'),
           schedTimer' = schedTimer \/ schedTimer' = "lapic",
           this = "sched" => schedTimer' = "lapic",
           store' = store, registered' = registered, lapicTimer' = lapicTimer
    PROVE  Kept
  <1>1. /\ this \notin AtGs /\ next \in Stages \ AtGs
        /\ (next \in AfterSched => this \in AfterSched \/ schedTimer' = "lapic")
        /\ (next \in BeforeTimer => this \in BeforeTimer)
        /\ (next \in AfterSched \union {"sched"} => this \in AfterSched \union {"sched"})
        /\ this \notin BeforeStore \union {"stopped"}
        /\ next \notin BeforeStore \union {"stopped", "clkdev", "pit"}
    BY DEF AtGs, Stages, AfterSched, BeforeTimer, BeforeStore
  <1>2. /\ CoresInv' /\ ScreenInv' /\ StageInv' /\ screen' = screen
        /\ \A c \in Cores : Stopped(c) => Stopped(c)'
        /\ stage = this /\ stage' = IF ok THEN next ELSE "stopped"
        /\ bugLock' \in BOOLEAN /\ failed' \in BOOLEAN /\ screen' \subseteq Cores
        /\ schedTimer' \in {NoTimer, "lapic"} /\ stage' \in Stages /\ modules' \in Links
        /\ lapicTimer' \in BOOLEAN
    BY <1>1, LaterStage
  <1>3. RestType'
    BY <1>2 DEF IInv, RestType, Objects
  <1>4. StoreInv  BY DEF IInv
  <1>5. StoreInv'
    <2>1. CASE ~ok  BY <1>2, <1>4, <2>1, StoreSame
    <2>2. CASE ok
      <3>1. Made = {"/", "clkdev", "aux", "sched"}  BY <1>2, MadeBy
      <3>2. stage' = next  BY <1>2, <2>2
      <3>3. CASE next # "modules"
        <4>1. Made' = {"/", "clkdev", "aux", "sched"}  BY <3>2, <3>3 DEF Made
        <4> QED BY <1>1, <1>2, <1>4, <3>1, <3>2, <3>3, <4>1, StoreSame
      <3>4. CASE next = "modules"
        <4>1. Made' = {"/", "clkdev", "aux", "sched"} \union {} \union {}
          BY <3>2, <3>4 DEF Made
        <4> QED BY <1>1, <1>2, <1>4, <3>1, <3>2, <3>4, <4>1, StoreSame
      <3> QED BY <3>3, <3>4
    <2> QED BY <2>1, <2>2
  <1> QED BY <1>2, <1>3, <1>5 DEF Kept, IInv

LEMMA LookupStages ==
    ASSUME IInv, SchedInit \/ AuxTimer
    PROVE  Kept
  <1> DEFINE s == TimerGetDescriptor(store, <<"clkdev", "sched">>)
             a == TimerGetDescriptor(store, <<"clkdev", "aux">>)
  <1>1. todo \in Seq(PassType)  BY DEF IInv, RestType
  <1>2. CASE SchedInit
    <2>1. stage = "sched"  BY <1>2 DEF SchedInit, Stage
    <2>2. stage \notin BeforeStore \union {"stopped"}  BY <2>1 DEF BeforeStore, AtGs
    <2>3. "sched" \in NamesIn(store)  BY <2>1, <2>2, StoreAt, MadeBy DEF Names
    <2>4. s.status = "SUCCESS" /\ s.data = "lapic"  BY <2>2, <2>3, TimerFound DEF DataOf
    <2>5. PICK ok \in BOOLEAN : ok = TRUE  OBVIOUS
    <2> DEFINE this == "sched"
               next == "aux"
    <2>6. /\ Stage(this, ok, ok, next, Same) /\ schedTimer' = "lapic" /\ todo' = todo
          /\ store' = store /\ registered' = registered /\ lapicTimer' = lapicTimer
      BY <1>2, <2>4, <2>5 DEF SchedInit
    <2>7. this = "sched" /\ next = "aux" /\ next # "modules" /\ (ok => ok)  OBVIOUS
    <2> HIDE DEF this, next
    <2> QED BY <1>1, <2>6, <2>7, MiddleStage
  <1>3. CASE AuxTimer
    <2>1. stage = "aux"  BY <1>3 DEF AuxTimer, Stage
    <2>2. stage \notin BeforeStore \union {"stopped"}  BY <2>1 DEF BeforeStore, AtGs
    <2>3. "aux" \in NamesIn(store)  BY <2>1, <2>2, StoreAt, MadeBy DEF Names
    <2>4. a.status = "SUCCESS"  BY <2>2, <2>3, TimerFound
    <2>5. PICK ok \in BOOLEAN : ok = TRUE  OBVIOUS
    <2> DEFINE this == "aux"
               next == "aps"
    <2>6. /\ Stage(this, ok, ok, next, Same) /\ schedTimer' = schedTimer /\ todo' = todo
          /\ store' = store /\ registered' = registered /\ lapicTimer' = lapicTimer
      BY <1>3, <2>4, <2>5 DEF AuxTimer, StoreUnchanged
    <2>7. this = "aux" /\ next = "aps" /\ next # "modules" /\ this # "sched" /\ (ok => ok)
      OBVIOUS
    <2> HIDE DEF this, next
    <2> QED BY <1>1, <2>6, <2>7, MiddleStage
  <1> QED BY <1>2, <1>3

LEMMA OrderPasses ==
    ASSUME modules \in Links, NEW t, t = ModuleOrder
    PROVE  /\ t \in Seq(PassType) /\ Passes(t)
           /\ ObjectPass \in Range(t) /\ GenericPass \in Range(t)
  <1>1. /\ modules \in Seq({"mapper", "bootvid"}) /\ Len(modules) = 2
        /\ DOMAIN modules = 1 .. 2
        /\ \/ modules[1] = "mapper" /\ modules[2] = "bootvid"
           \/ modules[1] = "bootvid" /\ modules[2] = "mapper"
    <2>1. CASE modules = <<"mapper", "bootvid">>  BY <2>1
    <2>2. CASE modules = <<"bootvid", "mapper">>  BY <2>2
    <2> QED BY <2>1, <2>2 DEF Links
  <1>2. ASSUME NEW type, type \in {"object", "generic"}
        PROVE  /\ ModulePass(type) \in Seq(PassType) /\ Len(ModulePass(type)) = 2
               /\ \A i \in 1 .. 2 : ModulePass(type)[i] = [type |-> type, module |-> modules[i]]
    <2> DEFINE s == ModulePass(type)
    <2>1. s = [i \in 1 .. 2 |-> [type |-> type, module |-> modules[i]]]
      BY <1>1 DEF ModulePass
    <2>2. \A i \in 1 .. 2 : [type |-> type, module |-> modules[i]] \in PassType
      BY <1>1, <1>2 DEF PassType
    <2>3. s \in [1 .. 2 -> PassType]  BY <2>1, <2>2
    <2>4. s \in Seq(PassType) /\ Len(s) = 2
      <3> DEFINE n == 2
      <3>1. n \in Nat /\ s \in [1 .. n -> PassType]  BY <2>3
      <3> HIDE DEF s, n
      <3>2. s \in Seq(PassType) /\ Len(s) = n  BY <3>1
      <3> QED BY <3>2 DEF n
    <2> QED BY <2>1, <2>4 DEF s
  <1> DEFINE a == ModulePass("object")
             b == ModulePass("generic")
  <1>3. /\ a \in Seq(PassType) /\ Len(a) = 2
        /\ a[1] = [type |-> "object", module |-> modules[1]]
        /\ a[2] = [type |-> "object", module |-> modules[2]]
    BY <1>2
  <1>4. /\ b \in Seq(PassType) /\ Len(b) = 2
        /\ b[1] = [type |-> "generic", module |-> modules[1]]
        /\ b[2] = [type |-> "generic", module |-> modules[2]]
    BY <1>2
  <1>5. t = a \o b  BY DEF ModuleOrder
  <1> HIDE DEF a, b
  <1>6. /\ t \in Seq(PassType) /\ Len(t) = 4 /\ DOMAIN t = 1 .. 4
        /\ t[1] = a[1] /\ t[2] = a[2] /\ t[3] = b[1] /\ t[4] = b[2]
    <2>1. a \in Seq(PassType) /\ b \in Seq(PassType)  BY <1>3, <1>4
    <2>2. /\ t \in Seq(PassType) /\ Len(t) = Len(a) + Len(b)
          /\ \A i \in 1 .. Len(a) + Len(b) :
                t[i] = IF i <= Len(a) THEN a[i] ELSE b[i - Len(a)]
      BY <1>5, <2>1
    <2>3. Len(a) = 2 /\ Len(b) = 2  BY <1>3, <1>4
    <2>4. DOMAIN t = 1 .. 4  BY <2>2, <2>3
    <2>5. /\ t[1] = a[1] /\ t[2] = a[2] /\ t[3] = b[1] /\ t[4] = b[2]  BY <2>2, <2>3
    <2> QED BY <2>2, <2>3, <2>4, <2>5
  <1>7. /\ t[1].type = "object" /\ t[2].type = "object" /\ t[3].type = "generic"
        /\ t[4].type = "generic"
        /\ t[1].module = modules[1] /\ t[2].module = modules[2]
        /\ t[3].module = modules[1] /\ t[4].module = modules[2]
    BY <1>3, <1>4, <1>6
  <1>8. Passes(t)
    <2> SUFFICES ASSUME NEW i \in 1 .. 4, NEW j \in 1 .. 4, i < j
                 PROVE  t[i] # t[j] /\ ~(t[i].type = "generic" /\ t[j].type = "object")
      BY <1>6 DEF Passes
    <2>1. \/ i = 1 /\ j \in {2, 3, 4}
          \/ i = 2 /\ j \in {3, 4}
          \/ i = 3 /\ j = 4
      OBVIOUS
    <2> QED BY <1>1, <1>7, <2>1
  <1>9. ObjectPass \in {t[1], t[2]} /\ GenericPass \in {t[3], t[4]}
    BY <1>1, <1>3, <1>4, <1>6 DEF ObjectPass, GenericPass
  <1> QED BY <1>6, <1>8, <1>9 DEF Range

LEMMA BootPackInitStep ==
    ASSUME IInv, NEW ok \in BOOLEAN, BootPackInit(ok)
    PROVE  Kept
  <1> DEFINE this == "bootpack"
             next == "modules"
  <1>1. /\ Stage(this, ok, ok, next, Same) /\ schedTimer' = schedTimer /\ todo' = ModuleOrder
        /\ store' = store /\ registered' = registered /\ lapicTimer' = lapicTimer
    BY DEF BootPackInit
  <1>2. modules \in Links  BY DEF IInv, RestType
  <1>3. /\ todo' \in Seq(PassType) /\ Passes(todo')
        /\ ObjectPass \in Range(todo') /\ GenericPass \in Range(todo')
    BY <1>1, <1>2, OrderPasses
  <1>4. (ok => ok) /\ this # "sched" /\ this = "bootpack" /\ next = "modules"  OBVIOUS
  <1> HIDE DEF this, next
  <1> QED BY <1>1, <1>3, <1>4, MiddleStage

LEMMA SkipModuleStep ==
    ASSUME IInv, SkipModule
    PROVE  Kept
  <1> DEFINE this == "modules"
             next == "modules"
  <1>1. PICK ok \in BOOLEAN : ok = TRUE  OBVIOUS
  <1>2. /\ Stage(this, ok, ok, next, Same) /\ schedTimer' = schedTimer /\ todo' = Tail(todo)
        /\ store' = store /\ registered' = registered /\ lapicTimer' = lapicTimer
        /\ todo # <<>> /\ ModuleType(Head(todo).module) # Head(todo).type
    BY <1>1 DEF SkipModule
  <1>3. /\ (ok => ok) /\ this \notin AtGs /\ next \in Stages \ AtGs
        /\ (next \in AfterSched => this \in AfterSched \/ schedTimer' = "lapic")
        /\ (next \in BeforeTimer => this \in BeforeTimer)
        /\ (next \in AfterSched \union {"sched"} => this \in AfterSched \union {"sched"})
        /\ (schedTimer' = schedTimer \/ schedTimer' = "lapic")
    BY <1>2 DEF AtGs, Stages
  <1> HIDE DEF this, next
  <1>4. /\ CoresInv' /\ ScreenInv' /\ StageInv' /\ screen' = screen
        /\ \A c \in Cores : Stopped(c) => Stopped(c)'
        /\ stage = this /\ stage' = IF ok THEN next ELSE "stopped"
        /\ bugLock' \in BOOLEAN /\ failed' \in BOOLEAN /\ screen' \subseteq Cores
        /\ schedTimer' \in {NoTimer, "lapic"} /\ stage' \in Stages /\ modules' \in Links
        /\ lapicTimer' \in BOOLEAN
    BY <1>2, <1>3, LaterStage
  <1>5. stage = "modules" /\ stage' = "modules"  BY <1>1, <1>4 DEF this, next
  <1>6. /\ StoreInv /\ todo \in Seq(PassType) /\ Passes(todo)
    BY <1>5 DEF IInv, RestType, StoreInv
  <1>7. /\ Tail(todo) \in Seq(PassType) /\ Passes(Tail(todo))
        /\ Range(todo) = Range(Tail(todo)) \union {Head(todo)}
    BY <1>2, <1>6, TodoTail
  <1>8. Head(todo) # ObjectPass /\ Head(todo) # GenericPass
    BY <1>2 DEF ObjectPass, GenericPass, ModuleType
  <1>9. RestType'
    BY <1>2, <1>4, <1>7 DEF IInv, RestType, Objects
  <1>10. Made' = Made
    <2> DEFINE old == Range(todo)
               new == Range(Tail(todo))
    <2>1. /\ Made = {"/", "clkdev", "aux", "sched"}
                    \union (IF ObjectPass \in old THEN {} ELSE {"mapper"})
                    \union (IF GenericPass \in old THEN {} ELSE {"video0"})
      BY <1>5, MadeBy
    <2>2. /\ Made' = {"/", "clkdev", "aux", "sched"}
                    \union (IF ObjectPass \in new THEN {} ELSE {"mapper"})
                    \union (IF GenericPass \in new THEN {} ELSE {"video0"})
      BY <1>2, <1>5 DEF Made
    <2>3. (ObjectPass \in old <=> ObjectPass \in new) /\ (GenericPass \in old <=> GenericPass \in new)
      BY <1>7, <1>8
    <2> HIDE DEF old, new
    <2> QED BY <2>1, <2>2, <2>3
  <1>11. StoreInv'
    <2>1. "modules" \notin BeforeStore \union {"stopped", "clkdev", "pit"}
      BY DEF BeforeStore, AtGs
    <2> QED BY <1>2, <1>5, <1>6, <1>7, <1>10, <2>1, StoreSame
  <1> QED BY <1>4, <1>9, <1>11 DEF Kept, IInv

LEMMA StartApStep ==
    ASSUME IInv, NEW c \in Aps, StartAp(c)
    PROVE  Kept
  <1>1. RestType /\ CoresInv /\ ScreenInv /\ StageInv /\ StoreInv  BY DEF IInv
  <1>2. stage = "aps" /\ core[Bsp].pc = "boot" /\ core[c].pc = "off"  BY DEF StartAp
  <1>3. schedTimer = "lapic" /\ lapicTimer  BY <1>1, <1>2 DEF StageInv, AfterSched
  <1> DEFINE q == core[c]
             r == [q EXCEPT !.pc = "idle", !.gs = "kpcr", !.gates = TRUE, !.ifl = TRUE,
                            !.armed = TRUE]
  <1>4. OneshotUsec = TRUE  BY <1>3 DEF OneshotUsec, NoTimer
  <1>5. /\ Go(c, r) /\ store' = store /\ registered' = registered /\ lapicTimer' = TRUE
        /\ schedTimer' = schedTimer /\ bugLock' = bugLock /\ screen' = screen
        /\ failed' = failed /\ stage' = stage /\ modules' = modules /\ todo' = todo
    BY <1>3, <1>4 DEF StartAp, Stored, LapicTimer
  <1>6. c \in Cores /\ c # Bsp /\ q \in CoreType /\ CoreInv(q) /\ q = CoreOff
    BY <1>1, <1>2, CoreAssumption DEF CoresInv, Cores, CoreInv
  <1>7. /\ r \in CoreType /\ r.frames = q.frames /\ r.stk = q.stk
        /\ r.pc = "idle" /\ r.gs = "kpcr" /\ r.ifl /\ r.armed /\ r.inService = q.inService
    <2>1. "idle" \in Points  BY DEF Points, CCode
    <2> HIDE DEF q
    <2> QED BY <1>6, <2>1 DEF CoreType
  <1>8. ~q.inService /\ q.pc = "off"  BY <1>6 DEF CoreOff
  <1> HIDE DEF r
  <1>9. CoreInv(r)
    <2> HIDE DEF q
    <2> QED BY <1>6, <1>7, <1>8, BootCore
  <1>10. TimerInv(r)  BY <1>7, <1>8 DEF TimerInv
  <1>11. /\ CoresInv' /\ ScreenInv' /\ core'[c] = r
         /\ \A d \in Cores : /\ d # c => core'[d] = core[d]
                             /\ Stopped(d) => Stopped(d)'
    <2>1. /\ r.frames = core[c].frames /\ core[c].pc \in {"off", "boot", "kickRet"}
          /\ r.pc \in {"boot", "kickRet", "user", "idle"}
          /\ schedTimer' = "lapic" /\ (failed => failed') /\ (bugLock => bugLock')
      BY <1>2, <1>3, <1>5, <1>7
    <2> QED BY <1>1, <1>5, <1>6, <1>7, <1>9, <1>10, <2>1, BootKept
  <1>12. core'[Bsp] = core[Bsp]  BY <1>6, <1>11 DEF Cores
  <1>13. StageInv'
    BY <1>1, <1>2, <1>3, <1>5, <1>12 DEF StageInv, AfterSched, BeforeTimer, BeforeStore, AtGs
  <1>14. RestType'  BY <1>1, <1>5 DEF RestType, Objects
  <1>15. StoreInv'
    <2>1. Made' = Made  BY <1>5 DEF Made
    <2>2. stage' \notin BeforeStore \union {"stopped", "clkdev", "pit"} /\ stage' # "modules"
      BY <1>2, <1>5 DEF BeforeStore, AtGs
    <2> QED BY <1>1, <1>5, <2>1, <2>2, StoreSame
  <1> QED BY <1>5, <1>11, <1>13, <1>14, <1>15 DEF Kept, IInv

LEMMA NoRsdpStep ==
    ASSUME IInv, NoRsdp
    PROVE  Kept
  <1> DEFINE b == core[Bsp]
             r == [b EXCEPT !.pc = "acquire"]
  <1>1. RestType /\ CoresInv /\ ScreenInv /\ StageInv /\ StoreInv  BY DEF IInv
  <1>2. /\ stage = "acpi" /\ b.pc = "boot" /\ bugLock' = TRUE /\ Go(Bsp, r)
        /\ stage' = "stopped" /\ failed' = TRUE /\ screen' = screen /\ modules' = modules
        /\ schedTimer' = schedTimer /\ store' = store /\ lapicTimer' = lapicTimer
        /\ todo' = todo /\ registered' = registered
    BY DEF NoRsdp, StoreUnchanged
  <1>3. Bsp \in Cores /\ Bsp \notin Aps /\ b \in CoreType /\ CoreInv(b)
    BY <1>1, CoreAssumption DEF CoresInv, Cores
  <1>4. /\ r \in CoreType /\ r.frames = b.frames /\ r.stk = b.stk /\ r.pc = "acquire"
        /\ r.gs = b.gs /\ r.ifl = b.ifl
    <2>1. "acquire" \in Points  BY DEF Points, CCode, Fatal, Windows
    <2> HIDE DEF b
    <2> QED BY <1>3, <2>1 DEF CoreType
  <1> HIDE DEF r
  <1>5. CoreInv(r)
    <2> HIDE DEF b
    <2> QED BY <1>2, <1>3, <1>4, BugCheckCore
  <1>6. /\ CoresInv' /\ ScreenInv' /\ core'[Bsp] = r
        /\ \A d \in Cores : /\ d # Bsp => core'[d] = core[d]
                            /\ Stopped(d) => Stopped(d)'
    <2>1. /\ r.frames = core[Bsp].frames /\ core[Bsp].pc \in {"off", "boot", "kickRet"}
          /\ r.pc = "acquire" /\ failed' /\ (failed => failed') /\ (bugLock => bugLock')
          /\ (schedTimer' = schedTimer \/ schedTimer' = "lapic")
      BY <1>2, <1>4
    <2> QED BY <1>1, <1>2, <1>3, <1>4, <1>5, <2>1, BootKept
  <1>7. RestType'  BY <1>1, <1>2 DEF RestType, Objects, Stages
  <1>8. \A d \in Aps : core'[d] = core[d]  BY <1>3, <1>6 DEF Cores
  <1>9. StageInv'
    BY <1>1, <1>2, <1>4, <1>6, <1>8 DEF StageInv, AfterSched, BeforeTimer, BeforeStore, AtGs
  <1>10. StoreInv'  BY <1>1, <1>2, StoreSame
  <1> QED BY <1>2, <1>6, <1>7, <1>9, <1>10 DEF Kept, IInv

\* The calibration's divide error: the trap comes with the gates and GS as
\* halCpuInit has left them.
LEMMA CalibrationStep ==
    ASSUME IInv, CalibrationFaults
    PROVE  Kept
  <1> DEFINE b == core[Bsp]
             q == [b EXCEPT !.gs = "kpcr"]
             r == Gate(q, "trap", b.ifl)
  <1>1. RestType /\ CoresInv /\ ScreenInv /\ StageInv /\ StoreInv  BY DEF IInv
  <1>2. /\ stage = "gs" /\ b.pc = "boot" /\ bugLock' = bugLock /\ Go(Bsp, r)
        /\ stage' = "stopped" /\ failed' = TRUE /\ screen' = screen /\ modules' = modules
        /\ schedTimer' = schedTimer /\ store' = store /\ lapicTimer' = lapicTimer
        /\ todo' = todo /\ registered' = registered
    BY DEF CalibrationFaults, StoreUnchanged, Same
  <1>3. Bsp \in Cores /\ Bsp \notin Aps /\ b \in CoreType /\ CoreInv(b)
    BY <1>1, CoreAssumption DEF CoresInv, Cores
  <1>4. /\ q \in CoreType /\ q.frames = b.frames /\ q.stk = b.stk /\ q.pc = "boot"
        /\ q.gs = "kpcr" /\ q.ifl = b.ifl
    <2> HIDE DEF b
    <2> QED BY <1>2, <1>3 DEF CoreType
  <1>5. CoreInv(q)
    <2> HIDE DEF b, q
    <2> QED BY <1>2, <1>3, <1>4, BootCore
  <1> HIDE DEF q
  <1>6. /\ r \in CoreType /\ r.pc = "trap" /\ r.ifl = q.ifl /\ r.gs = q.gs
        /\ r.stk = q.stk /\ r.frames = <<Frame(q)>> \o q.frames
    <2>1. "trap" \in Points /\ Frame(q) \in ContextType /\ q.frames \in Seq(ContextType)
      BY <1>4 DEF Points, Windows, Frame, CoreType, ContextType
    <2>2. <<Frame(q)>> \o q.frames \in Seq(ContextType)  BY <2>1
    <2> HIDE DEF b
    <2> QED BY <1>3, <1>4, <2>1, <2>2 DEF Gate, CoreType, ContextType
  <1> HIDE DEF r
  <1>7. CoreInv(r)
    <2> HIDE DEF b
    <2> QED BY <1>4, <1>5, <1>6, EnterTrap
  <1>8. /\ core' = [core EXCEPT ![Bsp] = r] /\ core \in [Cores -> CoreType]
        /\ core' \in [Cores -> CoreType] /\ core'[Bsp] = r
        /\ \A d \in Cores : d # Bsp => core'[d] = core[d]
    BY <1>1, <1>2, <1>3, <1>6 DEF CoresInv, Go
  <1>9. CoresInv'
    <2>1. \A d \in Cores : CoreInv(core'[d])  BY <1>1, <1>7, <1>8 DEF CoresInv
    <2>2. \A d \in Aps : core'[d] = core[d]  BY <1>3, <1>8 DEF Cores
    <2> QED BY <1>1, <1>2, <1>8, <2>1, <2>2 DEF CoresInv
  <1>10. ScreenInv'
    <2>1. r.pc \notin {"clear", "print"}  BY <1>6
    <2> QED BY <1>1, <1>2, <1>8, <2>1 DEF ScreenInv
  <1>11. ASSUME NEW d \in Cores, Stopped(d) PROVE Stopped(d)'
    <2>1. b.frames = <<>> /\ b.pc \notin Fatal  BY <1>2, <1>3 DEF CoreInv, Bottom, Fatal
    <2>2. d # Bsp  BY <1>11, <2>1 DEF Stopped
    <2> QED BY <1>8, <1>11, <2>2 DEF Stopped
  <1>12. RestType'  BY <1>1, <1>2 DEF RestType, Objects, Stages
  <1>13. \A d \in Aps : core'[d] = core[d]  BY <1>3, <1>8 DEF Cores
  <1>14. StageInv'
    BY <1>1, <1>2, <1>6, <1>8, <1>13 DEF StageInv, AfterSched, BeforeTimer, BeforeStore, AtGs
  <1>15. StoreInv'  BY <1>1, <1>2, StoreSame
  <1> QED BY <1>2, <1>9, <1>10, <1>11, <1>12, <1>14, <1>15 DEF Kept, IInv

LEMMA KickStep ==
    ASSUME IInv, Kick
    PROVE  Kept
  <1> DEFINE b == core[Bsp]
             r == [b EXCEPT !.pc = "user", !.stk = "user", !.ifl = TRUE]
  <1>1. RestType /\ CoresInv /\ ScreenInv /\ StageInv /\ StoreInv  BY DEF IInv
  <1>2. /\ b.pc = "kickRet" /\ Go(Bsp, r) /\ bugLock' = bugLock /\ failed' = failed
        /\ stage' = stage /\ screen' = screen /\ modules' = modules
        /\ schedTimer' = schedTimer /\ store' = store /\ lapicTimer' = lapicTimer
        /\ todo' = todo /\ registered' = registered
    BY DEF Kick, bootVars
  <1>3. Bsp \in Cores /\ Bsp \notin Aps /\ b \in CoreType /\ CoreInv(b)
    BY <1>1, CoreAssumption DEF CoresInv, Cores
  <1>4. /\ r \in CoreType /\ r.frames = b.frames /\ r.stk = "user" /\ r.pc = "user"
        /\ r.gs = b.gs /\ r.ifl
    <2>1. "user" \in Points /\ "user" \in Stacks  BY DEF Points, Stacks
    <2> HIDE DEF b
    <2> QED BY <1>3, <2>1 DEF CoreType
  <1> HIDE DEF r
  <1>5. CoreInv(r)
    <2> HIDE DEF b
    <2> QED BY <1>2, <1>3, <1>4, BootCore
  <1>6. /\ CoresInv' /\ ScreenInv' /\ core'[Bsp] = r
        /\ \A d \in Cores : /\ d # Bsp => core'[d] = core[d]
                            /\ Stopped(d) => Stopped(d)'
    <2>1. /\ r.frames = core[Bsp].frames /\ core[Bsp].pc \in {"off", "boot", "kickRet"}
          /\ r.pc \in {"boot", "kickRet", "user", "idle"}
          /\ (failed => failed') /\ (bugLock => bugLock')
          /\ (schedTimer' = schedTimer \/ schedTimer' = "lapic")
      BY <1>2, <1>4
    <2> QED BY <1>1, <1>2, <1>3, <1>4, <1>5, <2>1, BootKept
  <1>7. RestType'  BY <1>1, <1>2 DEF RestType, Objects
  <1>8. \A d \in Aps : core'[d] = core[d]  BY <1>3, <1>6 DEF Cores
  <1>9. StageInv'  BY <1>1, <1>2, <1>4, <1>6, <1>8 DEF StageInv
  <1>10. StoreInv'
    <2>1. Made' = Made  BY <1>2 DEF Made
    <2>2. Passes(todo') <=> Passes(todo)  BY <1>2
    <2> QED BY <1>1, <1>2, <2>1, <2>2 DEF StoreInv
  <1> QED BY <1>2, <1>6, <1>7, <1>9, <1>10 DEF Kept, IInv

LEMMA TrapRest ==
    ASSUME TrapStep
    PROVE  /\ schedTimer' = schedTimer
           /\ bugLock' \in {bugLock, TRUE} /\ failed' \in {failed, TRUE}
           /\ \E c \in Cores : screen' \in {screen, screen \union {c}}
  BY DEF TrapStep, Fault, Nmi, Syscall, SyscallSwapgs, SyscallStack, SyscallRefused, SyscallNull,
         SyscallExit, Sysret, Tick, TickEntry, TickBody, TickExit, TickReturn,
         TrapCli, TrapSwapgs, Acquire, Clear, Report, DumpFaults, Halt

LEMMA TrapStepKept ==
    ASSUME IInv, TrapStep, UNCHANGED bootVars
    PROVE  Kept
  <1>1. RestType /\ CoresInv /\ ScreenInv /\ StageInv /\ StoreInv  BY DEF IInv
  <1>2. /\ CoresInv' /\ ScreenInv'
        /\ \A c \in Cores : Stopped(c) => Stopped(c)'
        /\ screen # {} => screen' = screen
        /\ \A c \in Cores : /\ core[c].pc = "off" <=> core'[c].pc = "off"
                            /\ core'[c].pc = "boot" => core'[c] = core[c]
    BY <1>1, TrapStepKeeps
  <1>3. /\ stage' = stage /\ modules' = modules /\ store' = store /\ lapicTimer' = lapicTimer
        /\ todo' = todo /\ registered' = registered
    BY DEF bootVars
  <1>4. RestType'
    <2>1. /\ schedTimer' = schedTimer
          /\ bugLock' \in {bugLock, TRUE} /\ failed' \in {failed, TRUE}
          /\ \E c \in Cores : screen' \in {screen, screen \union {c}}
      BY TrapRest
    <2>2. screen' \subseteq Cores  BY <1>1, <2>1 DEF RestType
    <2> QED BY <1>1, <1>3, <2>1, <2>2 DEF RestType, Objects
  <1>5. StageInv'
    <2>1. schedTimer' = schedTimer  BY TrapRest
    <2>2. Bsp \in Cores /\ Aps \subseteq Cores  BY DEF Cores
    <2> QED BY <1>1, <1>2, <1>3, <2>1, <2>2 DEF StageInv
  <1>6. StoreInv'
    <2>1. Made' = Made  BY <1>3 DEF Made
    <2>2. Passes(todo') <=> Passes(todo)  BY <1>3
    <2> QED BY <1>1, <1>3, <2>1, <2>2 DEF StoreInv
  <1> QED BY <1>2, <1>4, <1>5, <1>6 DEF Kept, IInv

LEMMA StutterKept ==
    ASSUME IInv, UNCHANGED vars
    PROVE  Kept
  <1>1. RestType /\ CoresInv /\ ScreenInv /\ StageInv /\ StoreInv  BY DEF IInv
  <1>2. /\ core' = core /\ schedTimer' = schedTimer /\ bugLock' = bugLock /\ screen' = screen
        /\ failed' = failed /\ stage' = stage /\ modules' = modules /\ store' = store
        /\ lapicTimer' = lapicTimer /\ todo' = todo /\ registered' = registered
    BY DEF vars, trapVars, bootVars
  <1>3. RestType' /\ CoresInv' /\ ScreenInv' /\ StageInv'
    BY <1>1, <1>2 DEF RestType, Objects, CoresInv, ScreenInv, StageInv
  <1>4. StoreInv'
    <2>1. Made' = Made  BY <1>2 DEF Made
    <2>2. Passes(todo') <=> Passes(todo)  BY <1>2
    <2> QED BY <1>1, <1>2, <2>1, <2>2 DEF StoreInv
  <1>5. \A c \in Cores : Stopped(c) => Stopped(c)'  BY <1>2 DEF Stopped
  <1> QED BY <1>2, <1>3, <1>4, <1>5 DEF Kept, IInv

LEMMA NextKept ==
    ASSUME IInv, [Next]_vars
    PROVE  Kept
  <1>1. CASE UNCHANGED vars  BY <1>1, StutterKept
  <1>2. CASE TrapStep /\ UNCHANGED bootVars  BY <1>2, TrapStepKept
  <1>3. CASE BootStep
    <2>1. CASE \E c \in Aps : StartAp(c)  BY <2>1, StartApStep
    <2>2. CASE NoRsdp \/ CalibrationFaults  BY <2>2, NoRsdpStep, CalibrationStep
    <2>3. CASE Kick  BY <2>3, KickStep
    <2>4. CASE SkipModule  BY <2>4, SkipModuleStep
    <2>5. CASE SchedInit \/ AuxTimer  BY <2>5, LookupStages
    <2>6. CASE AcpiInit \/ MpInitDone \/ KickSwapgs
      <3>1. PICK ok \in BOOLEAN : ok  OBVIOUS
      <3> QED BY <2>6, <3>1, PlainStages
    <2>7. ASSUME NEW ok \in BOOLEAN,
                 \/ InitIrqChip(ok) \/ InitSyscall(ok) \/ LoadGates(ok) \/ WriteGs(ok)
                 \/ PoolInit(ok) \/ CreateProcess(ok)
          PROVE  Kept
      BY <2>7, PlainStages
    <2>8. ASSUME NEW ok \in BOOLEAN, NEW mem \in BOOLEAN,
                 \/ ObjStoreInit(ok) \/ PitInit(ok) \/ LapicInitTimer(ok) \/ BootPackInit(ok)
                 \/ BootVidInit(ok)
                 \/ TimerCreateStore(ok, mem) \/ HpetInit(ok, mem) \/ MapperInit(ok, mem)
          PROVE  Kept
      <3>1. CASE ObjStoreInit(ok)  BY <3>1, ObjStoreInitStep
      <3>2. CASE PitInit(ok)  BY <3>2, PitInitStep
      <3>3. CASE LapicInitTimer(ok)  BY <3>3, LapicInitTimerStep
      <3>4. CASE BootPackInit(ok)  BY <3>4, BootPackInitStep
      <3>5. CASE BootVidInit(ok)  BY <3>5, BootVidInitStep
      <3>6. CASE TimerCreateStore(ok, mem)  BY <3>6, TimerCreateStoreStep
      <3>7. CASE HpetInit(ok, mem)  BY <3>7, HpetInitStep
      <3>8. CASE MapperInit(ok, mem)  BY <3>8, MapperInitStep
      <3> QED BY <2>8, <3>1, <3>2, <3>3, <3>4, <3>5, <3>6, <3>7, <3>8
    <2> QED BY <1>3, <2>1, <2>2, <2>3, <2>4, <2>5, <2>6, <2>7, <2>8 DEF BootStep
  <1> QED BY <1>1, <1>2, <1>3 DEF Next

LEMMA InitIInv == Init => IInv
  <1> SUFFICES ASSUME Init PROVE IInv  OBVIOUS
  <1> DEFINE b == [CoreOff EXCEPT !.pc = "boot"]
  <1>1. /\ core = [c \in Cores |-> IF c = Bsp THEN b ELSE CoreOff]
        /\ schedTimer = NoTimer /\ bugLock = FALSE /\ screen = {} /\ failed = FALSE
        /\ stage = "acpi" /\ store = NoStore /\ lapicTimer = FALSE /\ modules \in Links
        /\ todo = <<>> /\ registered = {}
    BY DEF Init
  <1>2. /\ CoreOff \in CoreType /\ CoreOff.pc = "off" /\ CoreOff.gs = "unset"
        /\ CoreOff.frames = <<>> /\ ~CoreOff.ifl /\ CoreOff.stk = "boot"
    BY DEF CoreOff, CoreType, Points, Stacks
  <1>3. /\ b \in CoreType /\ b.pc = "boot" /\ b.gs = "unset" /\ b.frames = <<>> /\ ~b.ifl
        /\ b.stk = "boot"
    <2>1. "boot" \in Points  BY DEF Points, CCode
    <2> QED BY <1>2, <2>1 DEF CoreType
  <1> HIDE DEF b
  <1>4. CoreInv(CoreOff)
    BY <1>2 DEF CoreInv, TickPlaces, UserGs, OnUserStack, Bottom
  <1>5. CoreInv(b)
    BY <1>3 DEF CoreInv, TickPlaces, UserGs, OnUserStack, Bottom
  <1>6. /\ Bsp \in Cores /\ Bsp \notin Aps /\ Aps \subseteq Cores
        /\ core[Bsp] = b /\ \A c \in Aps : core[c] = CoreOff
        /\ \A c \in Cores : core[c] \in {b, CoreOff}
    BY <1>1, CoreAssumption DEF Cores
  <1>7. CoresInv
    <2>1. core \in [Cores -> CoreType]  BY <1>1, <1>2, <1>3
    <2>2. \A c \in Cores : CoreInv(core[c])  BY <1>4, <1>5, <1>6
    <2>3. \A c \in Aps : TimerInv(core[c]) /\ (core[c].pc # "off" => schedTimer = "lapic")
      BY <1>2, <1>6 DEF TimerInv
    <2>4. \A c \in Cores : Undisturbed(core[c])
      BY <1>2, <1>3, <1>6 DEF Undisturbed, Fatal
    <2> QED BY <2>1, <2>2, <2>3, <2>4 DEF CoresInv
  <1>8. ScreenInv  BY <1>1, <1>2, <1>3, <1>6 DEF ScreenInv
  <1>9. StageInv
    BY <1>1, <1>2, <1>3, <1>6 DEF StageInv, AfterSched, BeforeTimer, BeforeStore, AtGs
  <1>10. StoreInv
    BY <1>1 DEF StoreInv, BeforeStore, AtGs
  <1>11. RestType
    <2>1. StoreShape(NoStore) /\ NoStore.root = NoObject
      <3>1. /\ NoStore.ob = <<>> /\ NoStore.root = NoObject /\ DOMAIN NoStore.dir = {}
            /\ NoStore.dir = [o \in {} |-> <<>>]
            /\ NoStore = [ob |-> NoStore.ob, dir |-> NoStore.dir, root |-> NoStore.root]
        BY DEF NoStore
      <3>2. <<>> \in Seq(ObjectType)  OBVIOUS
      <3>3. NoStore.dir = [o \in DOMAIN NoStore.dir |-> NoStore.dir[o]]  BY <3>1
      <3> QED BY <3>1, <3>2, <3>3 DEF StoreShape
    <2>2. <<>> \in Seq(PassType)  OBVIOUS
    <2> QED BY <1>1, <2>1, <2>2 DEF RestType, Stages
  <1> QED BY <1>7, <1>8, <1>9, <1>10, <1>11 DEF IInv

--------------------------------------------------------------------------------

(***************************************************************************)
(* The invariant holds whatever the cores, the allocations, the order of   *)
(* the modules and the traps that come.                                    *)
(***************************************************************************)
THEOREM BootInvariant == Spec => []IInv
  <1>1. Init => IInv  BY InitIInv
  <1>2. IInv /\ [Next]_vars => IInv'  BY NextKept DEF Kept
  <1> QED BY <1>1, <1>2, PTL DEF Spec

\* Types, and the sizes of the store's references and lists.
THEOREM BootTypes == Spec => []TypeOK
  <1>1. IInv => TypeOK
    <2> SUFFICES ASSUME IInv PROVE TypeOK  OBVIOUS
    <2>1. TrapTypeOK
      BY DEF IInv, RestType, CoresInv, TrapTypeOK, CoreType, ContextType
    <2>2. \A o \in Objects : store.ob[o].ref \in 1 .. 2
      BY ShapeFacts DEF IInv, RestType, Objects
    <2>3. DOMAIN store.dir \subseteq Objects
      BY DEF IInv, RestType, StoreShape, Objects
    <2> QED BY <2>1, <2>2, <2>3 DEF IInv, RestType, Stages, PassType, TypeOK
  <1> QED BY <1>1, BootInvariant, PTL

(***************************************************************************)
(* C code of the kernel has the KPCR in GS and a stack of the kernel, and  *)
(* a process has neither (frameAsm.h:78-124, vector.S:18-38), for any      *)
(* number of cores and any nesting of traps, ticks and NMIs.               *)
(***************************************************************************)
THEOREM KernelContextAlways == Spec => []KernelContext
  <1>1. IInv => KernelContext
    <2> SUFFICES ASSUME IInv, NEW c \in Cores
                 PROVE  /\ /\ core[c].pc \in CCode
                           /\ \A i \in DOMAIN core[c].frames : core[c].frames[i].at \notin Windows
                           => core[c].gs # "zero" /\ core[c].stk # "user"
                        /\ core[c].pc = "user" =>
                              /\ core[c].gs = "zero" /\ core[c].stk = "user"
                              /\ core[c].ifl /\ core[c].frames = <<>>
      BY DEF KernelContext
    <2> DEFINE q == core[c]
    <2>1. CoreInv(q) /\ q \in CoreType  BY DEF IInv, CoresInv
    <2> HIDE DEF q
    <2>2. q.pc \in CCode /\ Clean(q) => q.gs # "zero" /\ q.stk # "user"
      <3>1. \A p \in CCode : p \notin OnUserStack /\ p # "trap" /\ p # "trapGs" /\ p # "tick"
                             /\ p # "tickRet" /\ p # "kickRet"
        BY DEF CCode, OnUserStack, Windows, Fatal
      <3> QED BY <2>1, <3>1 DEF CoreInv, UserGs, OnUserStack
    <2>3. q.pc = "user" => q.gs = "zero" /\ q.stk = "user" /\ q.ifl /\ q.frames = <<>>
      <3>1. q.pc = "user" => q.frames = <<>> /\ q.ifl  BY <2>1 DEF CoreInv, Bottom
      <3>2. q.frames = <<>> => Clean(q)  BY DEF Clean
      <3> QED BY <2>1, <3>1, <3>2 DEF CoreInv, UserGs, OnUserStack
    <2> QED BY <2>2, <2>3 DEF q, Clean
  <1> QED BY <1>1, BootInvariant, PTL

(***************************************************************************)
(* The tick of an application core comes back (process.c:128-162,          *)
(* sched.c:91), with any number of cores.                                  *)
(***************************************************************************)
THEOREM TimerKeptAlways == Spec => []TimerKept
  <1>1. IInv => TimerKept  BY DEF IInv, CoresInv, TimerInv, TimerKept
  <1> QED BY <1>1, BootInvariant, PTL

(***************************************************************************)
(* A bug check is final, and its first report stays on the screen          *)
(* (bugCheck.c:121).                                                       *)
(***************************************************************************)
THEOREM BugCheckIsFinal == Spec => BugCheckFinal
  <1>1. IInv /\ [Next]_vars =>
           [/\ \A c \in Cores : Stopped(c) => Stopped(c)'
            /\ screen # {} => screen' = screen]_trapVars
    BY NextKept DEF Kept
  <1> QED BY <1>1, BootInvariant, PTL DEF Spec, BugCheckFinal

(***************************************************************************)
(* No core stops without a cause (entry.c:34-62, module.c:15): whichever   *)
(* order the modules were linked in, and at any pace of the cores.         *)
(***************************************************************************)
THEOREM CoresStopForCause == Spec => []StopsForCause
  <1>1. IInv => StopsForCause
    BY DEF IInv, CoresInv, Undisturbed, StopsForCause, Stopped
  <1> QED BY <1>1, BootInvariant, PTL

\* How many directories an object is in: one, and the root in none.
LEMMA DirectoriesOf ==
    ASSUME NEW s, StoreShape(s), Tree(s), NEW o \in DOMAIN s.ob
    PROVE  Cardinality({d \in DOMAIN s.dir : o \in Range(s.dir[d])}) = IF o = 1 THEN 0 ELSE 1
  <1> DEFINE In(d) == o \in Range(s.dir[d])
             S == {d \in DOMAIN s.dir : In(d)}
  <1>1. \A d \in DOMAIN s.dir : In(d) <=> \E i \in DOMAIN s.dir[d] : s.dir[d][i] = o
    BY DEF Range
  <1>2. \A d \in S : s.ob[d].name = ParentOf(s.ob[o].name)  BY <1>1 DEF Tree
  <1>3. DOMAIN s.dir \subseteq DOMAIN s.ob  BY ShapeFacts
  <1>4. CASE o = 1
    <2>1. s.ob[o].name = "/"  BY <1>4 DEF Tree
    <2>2. \A d \in S : s.ob[d].name = "none"  BY <1>2, <2>1 DEF ParentOf
    <2>3. S = {}
      <3>1. \A d \in DOMAIN s.ob : s.ob[d].name # "none"  BY ShapeFacts DEF Names
      <3> QED BY <1>3, <2>2, <3>1
    <2> QED BY <1>4, <2>3, FS_EmptySet
  <1>5. CASE o # 1
    <2>1. PICK d \in DOMAIN s.dir : In(d)  BY <1>1, <1>5 DEF Tree
    <2>2. \A e \in S : e = d
      <3> SUFFICES ASSUME NEW e \in S PROVE e = d  OBVIOUS
      <3>1. d \in S /\ s.ob[e].name = s.ob[d].name  BY <1>2, <2>1
      <3> QED BY <1>3, <3>1 DEF Tree
    <2>3. S = {d}  BY <2>1, <2>2
    <2> HIDE DEF S
    <2>4. Cardinality(S) = 1  BY <2>3, FS_Singleton
    <2> QED BY <1>5, <2>4 DEF S
  <1> QED BY <1>4, <1>5

(***************************************************************************)
(* What was registered is found by its path, references are counted, and   *)
(* the first process finds the timers and the screen (obStore.c:139,       *)
(* lapic.c:344), whatever was refused before.                              *)
(***************************************************************************)
THEOREM RegisteredAlways == Spec => []Registered
  <1>1. IInv => Registered
    <2> SUFFICES ASSUME IInv PROVE Registered  OBVIOUS
    <2>1. StoreShape(store) /\ StoreInv  BY DEF IInv, RestType
    <2>2. CASE store = NoStore
      <3>1. registered = {} /\ stage \notin {"kick", "done"}
        BY <2>1, <2>2 DEF StoreInv, BeforeStore, AtGs
      <3>2. Objects = {}  BY <2>2 DEF Objects, NoStore
      <3> QED BY <3>1, <3>2 DEF Registered
    <2>3. CASE store # NoStore
      <3>1. stage \notin BeforeStore /\ Tree(store) /\ Counted(store, registered)
        BY <2>1, <2>3 DEF StoreInv
      <3>2. \A r \in registered : \E o \in DOMAIN store.ob \ {1} : r = Entry(store, o)
        BY <3>1 DEF Counted
      <3>3. \A r \in registered : Lookup(store, r.path) = r.object /\ store.ob[r.object].data = r.data
        <4> SUFFICES ASSUME NEW r \in registered
                     PROVE  Lookup(store, r.path) = r.object /\ store.ob[r.object].data = r.data
          OBVIOUS
        <4>1. PICK o \in DOMAIN store.ob \ {1} : r = Entry(store, o)  BY <3>2
        <4>2. r.path = PathOf(store.ob[o].name) /\ r.object = o /\ r.data = DataOf(store.ob[o].name)
          BY <4>1 DEF Entry
        <4>3. Lookup(store, PathOf(store.ob[o].name)) = o  BY <2>1, <3>1, LookupObject
        <4>4. store.ob[o].data = DataOf(store.ob[o].name)  BY <3>1 DEF Tree
        <4> QED BY <4>2, <4>3, <4>4
      <3>4. \A r, q \in registered : q.path = r.path => q = r
        <4> SUFFICES ASSUME NEW r \in registered, NEW q \in registered, q.path = r.path
                     PROVE  q = r
          OBVIOUS
        <4>1. q.object = r.object  BY <3>3
        <4>2. PICK o \in DOMAIN store.ob : r = Entry(store, o)  BY <3>2
        <4>3. PICK p \in DOMAIN store.ob : q = Entry(store, p)  BY <3>2
        <4>4. p = o  BY <4>1, <4>2, <4>3 DEF Entry
        <4> QED BY <4>2, <4>3, <4>4
      <3>5. ASSUME NEW o \in Objects
            PROVE  store.ob[o].ref =
                      Cardinality({d \in DOMAIN store.dir : o \in Range(store.dir[d])})
                      + (IF o = store.root \/ \E r \in registered : r.object = o THEN 1 ELSE 0)
        <4>1. o \in DOMAIN store.ob  BY DEF Objects
        <4>2. Cardinality({d \in DOMAIN store.dir : o \in Range(store.dir[d])})
                = IF o = 1 THEN 0 ELSE 1
          BY <2>1, <3>1, <4>1, DirectoriesOf
        <4>3. store.ob[o].ref = IF Entry(store, o) \in registered THEN 2 ELSE 1
          BY <3>1, <4>1 DEF Counted
        <4>4. (\E r \in registered : r.object = o) <=> Entry(store, o) \in registered
          <5>1. Entry(store, o).object = o  BY DEF Entry
          <5>2. \A r \in registered : r.object = o => r = Entry(store, o)
            BY <3>2 DEF Entry
          <5> QED BY <5>1, <5>2
        <4>5. store.root = 1  BY <3>1 DEF Tree
        <4>6. o = 1 => Entry(store, o) \notin registered
          BY <3>2 DEF Entry
        <4> HIDE DEF Objects
        <4> QED BY <4>2, <4>3, <4>4, <4>5, <4>6
      <3>6. ASSUME stage \in {"kick", "done"}
            PROVE  /\ TimerGetDescriptor(store, <<"clkdev", "sched">>).data = schedTimer
                   /\ TimerGetDescriptor(store, <<"clkdev", "aux">>).data = "hpet"
                   /\ MapperGet(store, <<"mapper", "video0">>).status = "SUCCESS"
        <4>1. schedTimer = "lapic"  BY <3>6 DEF IInv, StageInv, AfterSched
        <4>2. stage \notin BeforeStore \union {"stopped"}  BY <3>6 DEF BeforeStore, AtGs
        <4>3. {"sched", "aux", "video0"} \subseteq NamesIn(store)
          BY <3>6, <4>2, StoreAt, MadeBy DEF Names, All
        <4> QED BY <4>1, <4>2, <4>3, TimerFound, MapperFound DEF DataOf
      <3> QED BY <3>3, <3>4, <3>5, <3>6 DEF Registered
    <2> QED BY <2>2, <2>3
  <1> QED BY <1>1, BootInvariant, PTL

===============================================================================
