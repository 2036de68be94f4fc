--------------------------------- MODULE Omar ---------------------------------
(***************************************************************************)
(* The OMAR boot archive: src/tools/omar/omar.c writes it on the build     *)
(* host (file_push, archive_create) and can unpack it (archive_extract);   *)
(* src/ntos/ke/bootPack.c looks a file up in it at boot.                   *)
(*                                                                         *)
(* An archive is a sequence of cells, a cell standing for a fixed number   *)
(* of bytes.  The content of a file is the file's path and the number of   *)
(* the cell in it; what the two readers find at an offset is a cell.       *)
(***************************************************************************)
EXTENDS Integers, SequencesExt

CONSTANTS
    HdrLen,     \* Cells of a header (sizeof(OMAR_HDR)).
    BlockLen    \* Cells of a block (BLOCK_SIZE).

ASSUME OmarAssumption == HdrLen \in Nat \ {0} /\ BlockLen \in Nat \ {0}

\* An entry of the directory tree: dir is the type, cells are what follows.
Entry(path, nameLen, dir, len) ==
    [path |-> path, nameLen |-> nameLen, dir |-> dir, len |-> len]

(***************************************************************************)
(* A directory tree: no two entries have one path, and a path, which has   *)
(* at most 255 characters, leaves room in the block of a directory.        *)
(***************************************************************************)
TreeEntry == [path : STRING, nameLen : Nat, dir : BOOLEAN, len : Nat]

IsTree(t) ==
    /\ t \in Seq(TreeEntry)
    /\ \A i \in DOMAIN t : t[i].dir => HdrLen + t[i].nameLen < BlockLen
    /\ \A i, j \in DOMAIN t : t[i].path = t[j].path => i = j

AlignUp(n) == ((n + BlockLen - 1) \div BlockLen) * BlockLen

------------------------------------------------------------------------------
(***************************************************************************)
(* The writer.                                                             *)
(***************************************************************************)
Repeat(n, cell) == [k \in 1 .. n |-> cell]

Header(e) == << <<"OMAR", e>> >> \o Repeat(HdrLen - 1 + e.nameLen, <<"rest">>)
Eof == << <<"RAMO">> >> \o Repeat(HdrLen, <<"rest">>)

Data(e) == [k \in 1 .. e.len |-> <<"data", e.path, k>>]

\* Mutant: the padding is computed from the data alone, without the header.
PaddingOfData(e) ==
    IF e.dir THEN BlockLen - ((HdrLen + e.nameLen) % BlockLen)
    ELSE (-e.len) % BlockLen

\* A directory that filled its block would be given another one; a file is not.
Padding(e) ==
    IF e.dir THEN BlockLen - ((HdrLen + e.nameLen) % BlockLen)
    ELSE (-(HdrLen + e.nameLen + e.len)) % BlockLen

\* file_push.  The read of an empty file returns 0, which is taken for an
\* error when the header is already written: nothing pads it.
Push(e) ==
    IF ~e.dir /\ e.len = 0 THEN Header(e)
    ELSE Header(e) \o (IF e.dir THEN <<>> ELSE Data(e))
                   \o Repeat(Padding(e), <<"zero">>)

\* archive_create over the entries in the order readdir gives them.
Archive(tree) == FlattenSeq([i \in DOMAIN tree |-> Push(tree[i])]) \o Eof

------------------------------------------------------------------------------
(***************************************************************************)
(* The readers.  Both step from header to header and give up at the first  *)
(* place that has no magic number.                                         *)
(***************************************************************************)
HasHeader(a, p) == p < Len(a) /\ a[p + 1][1] = "OMAR"
HeaderAt(a, p) == a[p + 1][2]

Skip(e) == IF e.dir THEN BlockLen ELSE AlignUp(HdrLen + e.nameLen + e.len)

\* Where a reader can be: no entry it skips reaches further.
Offsets(a) == 0 .. Len(a) + BlockLen

DataAt(a, p) == p + HdrLen + HeaderAt(a, p).nameLen

NoData == -1

\* bootPackGetFile: the data of the first header with this path.
GetFile(a, path) ==
    LET from[p \in Offsets(a)] ==
            CASE ~HasHeader(a, p) -> NoData
              [] HasHeader(a, p) /\ HeaderAt(a, p).path = path -> DataAt(a, p)
              [] OTHER -> from[p + Skip(HeaderAt(a, p))]
    IN  from[0]

\* The offsets of the headers that archive_extract visits.
Visited(a) ==
    LET from[p \in Offsets(a)] ==
            IF HasHeader(a, p) THEN {p} \union from[p + Skip(HeaderAt(a, p))] ELSE {}
    IN  from[0]

\* archive_extract: the files it creates and what it writes to each.
Extract(a) ==
    {[path |-> HeaderAt(a, p).path,
      data |-> SubSeq(a, DataAt(a, p) + 1, DataAt(a, p) + HeaderAt(a, p).len)] :
        p \in {q \in Visited(a) : ~HeaderAt(a, q).dir}}
===============================================================================
