-------------------------------- MODULE Objects --------------------------------
(***************************************************************************)
(* The object store, src/ntos/ob/obStore.c: a tree of directories and      *)
(* named objects, as operators on a store, with the two kinds of           *)
(* descriptors the kernel keeps in it, timers (src/ntos/ke/timer.c) and    *)
(* mappers (src/ntos/ex/mapper.c).                                         *)
(*                                                                         *)
(* An object is a number, in the order of creation.  A path is the         *)
(* sequence of its names; every name in the kernel is short enough.  `mem' *)
(* says whether the pool has memory for the call.                          *)
(***************************************************************************)
EXTENDS Integers, SequencesExt

NoObject == 0
NoData == "none"

NoStore == [ob |-> <<>>, dir |-> [o \in {} |-> <<>>], root |-> NoObject]

NewObject(s, name, type, ref) ==
    [s EXCEPT !.ob = Append(@, [name |-> name, type |-> type,
                                ref |-> ref, data |-> NoData])]

\* A directory that obAllocateDir has not seen yet takes no children.
DirectoryAdd(s, parent, child) ==
    IF parent \notin DOMAIN s.dir THEN s
    ELSE [s EXCEPT !.dir[parent] = Append(@, child)]

\* The first child of this name.
DirectoryLookup(s, parent, name) ==
    LET children == IF parent \in DOMAIN s.dir THEN s.dir[parent] ELSE <<>>
        hits == {i \in DOMAIN children : s.ob[children[i]].name = name}
    IN  IF hits = {} THEN NoObject
        ELSE children[CHOOSE i \in hits : \A j \in hits : i <= j]

\* obLookupObject; the path of the root is empty.
Lookup(s, path) ==
    LET walk[i \in 0 .. Len(path)] ==
            IF i = 0 THEN s.root ELSE DirectoryLookup(s, walk[i - 1], path[i])
    IN  walk[Len(path)]

(***************************************************************************)
(* obCreateObject with a parent: the object has a reference for its maker  *)
(* and one for the directory, whatever obDirectoryAdd answers.             *)
(***************************************************************************)
Create(s, path, name, type, mem) ==
    LET parent == Lookup(s, path)
        o == Len(s.ob) + 1
        refuse(status) == [status |-> status, store |-> s, object |-> NoObject]
    IN  CASE parent = NoObject -> refuse("BAD_OBJNAME")
          [] parent # NoObject /\ s.ob[parent].type # "directory" ->
                 refuse("NOT_DIRECTORY")
          [] parent # NoObject /\ s.ob[parent].type = "directory" /\ ~mem ->
                 refuse("NO_MEMORY")
          [] OTHER ->
                 [status |-> "SUCCESS", object |-> o,
                  store |-> DirectoryAdd(NewObject(s, name, type, 2), parent, o)]

\* obAllocateDir.
AllocateDir(s, o, mem) ==
    IF ~mem THEN [status |-> "NO_MEMORY", store |-> s]
    ELSE [status |-> "SUCCESS",
          store |-> [s EXCEPT !.dir = [x \in DOMAIN @ \union {o} |->
                                          IF x = o THEN <<>> ELSE @[x]]]]

\* Mutant: the reference of the directory goes as well, and the link stays.
FreeObjectAndLink(s, o) == [s EXCEPT !.ob[o].ref = @ - 2]

\* obFreeObject; an object without references is memory again.
FreeObject(s, o) == [s EXCEPT !.ob[o].ref = @ - 1]

SetData(s, o, data) == [s EXCEPT !.ob[o].data = data]

\* kiObjStoreInit when both its allocations succeed.
InitStore ==
    [NewObject(NoStore, "/", "directory", 1) EXCEPT
        !.root = 1, !.dir = [o \in {1} |-> <<>>]]

Found(s, path, type) ==
    LET o == Lookup(s, path)
    IN  CASE o = NoObject -> [status |-> "OBJECT_NOTFOUND", data |-> NoData]
          [] o # NoObject /\ s.ob[o].type # type ->
                 [status |-> "BAD_OBJ_TYPE", data |-> NoData]
          [] OTHER -> [status |-> "SUCCESS", data |-> s.ob[o].data]

\* keTimerGetDescriptor: an object without data is a success.
TimerGetDescriptor(s, path) == Found(s, path, "timer")

\* exMapperGet.
MapperGet(s, path) ==
    LET r == Found(s, path, "mapper")
    IN  IF r.status = "SUCCESS" /\ r.data = NoData
        THEN [r EXCEPT !.status = "NOT_SUPPORTED"] ELSE r
===============================================================================
