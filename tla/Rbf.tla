--------------------------------- MODULE Rbf ---------------------------------
(***************************************************************************)
(* A disk image of the RBF file manager (file_rbf.c): the map of taken     *)
(* sectors, the FD sector of each file, and the paths to files.            *)
(*                                                                         *)
(* An FD holds the size of its file and the sectors of it, as segments.    *)
(* Each path works on a copy of the FD that it read when it was opened,    *)
(* and keeps the last sector it used in a buffer (rw_sct); what was        *)
(* written there goes to the disk when another sector is needed or the     *)
(* path is closed.  Sectors are allocated when a write comes to the end of *)
(* those there are, and the ones that were not needed are given back when  *)
(* the path is closed at the end of the file.                              *)
(*                                                                         *)
(* Positions and sizes are counted in sectors.  A file may be read by many *)
(* paths while one path writes it.                                         *)
(***************************************************************************)
EXTENDS Integers, Sequences, FiniteSets

CONSTANTS Path,      \* the paths that may be open
          Name,      \* the names of files
          totScts,   \* sectors of the disk
          System,    \* how many of them the ID, the map and the root directory take
          MapByte,   \* sectors in a byte of the map (8)
          sas,       \* sectors that are allocated at a time
          MaxSegs,   \* segments in an FD
          MaxLen,    \* bound: the length of a file in sectors
          Buffered   \* FALSE, bound: a sector in a buffer that need not be written is
                     \* forgotten, and read again

Sector == System .. totScts - 1

ASSUME RbfAssumption ==
    /\ totScts \in Nat /\ System \in Nat \ {0} /\ MapByte \in Nat \ {0}
    /\ sas \in Nat \ {0} /\ MaxSegs \in Nat \ {0} /\ MaxLen \in Nat
    /\ Buffered \in BOOLEAN

\* Programs read and write one or two sectors by a call; DoAccess does longer ones in
\* the same two ways, several sectors at once and the last one through the buffer.
Lens == 1 .. 2

VARIABLES disk,    \* map: the taken sectors; last_alloc: where the last allocation was, of
                   \* which only the byte of the map is used; fd: the FDs; data: what is
                   \* in the other sectors
          dir,     \* the FD sector of each name, 0: no such file
          path,    \* the open paths
          spoilt   \* (not in the code) the files a write without room has cut short

vars == <<disk, dir, path, spoilt>>

\* What sector k of file n is to hold, and what no file has written.
Text(n, k) == <<n, k>>
Junk == <<>>

NoFD == [size |-> 0, blocks |-> <<>>]
Closed == [open |-> FALSE]

Init == /\ disk = [map |-> {}, last_alloc |-> 0, fd |-> [s \in Sector |-> NoFD],
                   data |-> [s \in Sector |-> Junk]]
        /\ dir = [n \in Name |-> 0]
        /\ path = [p \in Path |-> Closed]
        /\ spoilt = {}

Smaller(m, n) == IF m < n THEN m ELSE n
Larger(m, n) == IF m < n THEN n ELSE m
Elements(s) == {s[i] : i \in 1 .. Len(s)}
First(S) == CHOOSE s \in S : \A t \in S : s <= t

-----------------------------------------------------------------------------
(* Allocation *)

\* Bits of the map are set or cleared; when one is so already (E_NES) none is written.
\* Nobody looks at what was in a sector that has been given back.
GetThem(d, S) == IF S \cap d.map = {} THEN [d EXCEPT !.map = @ \cup S] ELSE d
LetThemGo(d, S) ==
    IF S \subseteq d.map
    THEN [d EXCEPT !.map = @ \ S,
                   !.fd = [s \in Sector |-> IF s \in S THEN NoFD ELSE @[s]],
                   !.data = [s \in Sector |-> IF s \in S THEN Junk ELSE @[s]]]
    ELSE d

\* Stretches of free sectors, seen from sector f on.
FreeFrom(map, f) == {s \in Sector \ map : s >= f}
LengthAt(map, s) == First({t \in s .. totScts : t = totScts \/ t \in map}) - s
Starts(map, f) == {s \in FreeFrom(map, f) : s = f \/ s - 1 \notin FreeFrom(map, f)}

\* BlkSearch: the first stretch that is long enough, or the longest one if it is longer
\* than the one found before.
BestOf(S, map, uscs, before) ==
    LET enough == {s \in S : LengthAt(map, s) >= uscs}
        longest == {s \in S : \A t \in S : LengthAt(map, t) <= LengthAt(map, s)}
    IN IF enough # {} THEN [pos |-> First(enough), scs |-> uscs]
       ELSE IF longest # {} /\ LengthAt(map, First(longest)) > before.scs
       THEN [pos |-> First(longest), scs |-> LengthAt(map, First(longest))]
       ELSE before
BlkSearch(map, uscs, f, before) == BestOf(Starts(map, f), map, uscs, before)

\* The sector of the first bit in the byte of the map that has the bit of s.
ByteOf(s) == (s \div MapByte) * MapByte

\* AllocateBlocks looks at the preferred sector (0: none), then from the place of the last
\* allocation on, then from the beginning.  It may find less than is asked for.
Nothing == [pos |-> 0, scs |-> 0]
AtPreferred(d, uscs, prefpos) ==
    IF prefpos = 0 THEN Nothing ELSE BlkSearch(d.map, uscs, ByteOf(prefpos), Nothing)
FromBeginning(d, uscs, before) ==
    IF before.scs >= uscs THEN before ELSE BlkSearch(d.map, uscs, 0, before)
Elsewhere(d, uscs, before) ==
    FromBeginning(d, uscs, BlkSearch(d.map, uscs, d.last_alloc, before))

Found(d, uscs, prefpos) ==
    LET there == AtPreferred(d, uscs, prefpos)
    IN IF there.scs # 0 /\ there.pos = prefpos THEN there ELSE Elsewhere(d, uscs, there)

Span(a) == a.pos .. a.pos + a.scs - 1
Blocks(a) == [i \in 1 .. a.scs |-> a.pos + i - 1]

Allocated(d, a) == GetThem([d EXCEPT !.last_alloc = ByteOf(a.pos + a.scs)], Span(a))

\* The segments of an FD are the stretches of consecutive sectors (AdaptAlloc_FD combines
\* what it can).
Segments(blocks) == Cardinality({i \in 1 .. Len(blocks) : i = 1 \/ blocks[i] # blocks[i - 1] + 1})

WriteFD(d, f) == [d EXCEPT !.fd = [@ EXCEPT ![f.fd_nr] = [size |-> f.size, blocks |-> f.blocks]]]

\* All segments of the FD are used.  (mutant: one more is)
OneMoreFits(f) == Segments(f.blocks) > MaxSegs
NoMoreFit(f) == Segments(f.blocks) = MaxSegs

\* What was found for an FD without a segment left goes back, also if it could have been
\* combined.  (mutant: it does not)
NotGivenBack(d, a) == d
GivenBack(d, a) == LetThemGo(d, Span(a))

\* AllocateBlocks and AdaptAlloc_FD for a path: the copy of the FD gets the sectors and is
\* written.
ExtendBy(a, d, f) ==
    LET longer == [f EXCEPT !.blocks = @ \o Blocks(a)]
    IN IF a.scs = 0 THEN [d |-> d, f |-> f, err |-> "E_FULL"]
       ELSE IF NoMoreFit(f) THEN [d |-> GivenBack(Allocated(d, a), a), f |-> f, err |-> "E_SLF"]
       ELSE [d |-> WriteFD(Allocated(d, a), longer), f |-> longer, err |-> "none"]
Extend(d, f) ==
    ExtendBy(Found(d, sas, IF f.blocks = <<>> THEN 0 ELSE f.blocks[Len(f.blocks)] + 1), d, f)

-----------------------------------------------------------------------------
(* Reading and writing: an access x has the disk, the path, the sectors left, and its    *)
(* result so far.                                                                        *)

\* The buffered sector goes to the disk if it must.
Flush(d, f) == IF f.mustW THEN [d EXCEPT !.data = [@ EXCEPT ![f.rw_nr] = f.rw_sct]] ELSE d

\* How many sectors from the position on follow each other on the disk.
Contiguous(f, n) ==
    LET k == f.currPos
    IN CHOOSE m \in 1 .. n :
           /\ k + m <= Len(f.blocks)
           /\ \A i \in 1 .. m : f.blocks[k + i] = f.blocks[k + 1] + i - 1
           /\ m = n \/ k + m = Len(f.blocks) \/ f.blocks[k + m + 1] # f.blocks[k + m] + 1

\* The buffer has sector s with this text, and it is on the disk.
InStep(f, s, text) == [f EXCEPT !.rw_nr = IF Buffered THEN s ELSE 0,
                                !.rw_sct = IF Buffered THEN text ELSE Junk, !.mustW = FALSE]

Clamped(f) == [f EXCEPT !.lastPos = Smaller(@, Len(f.blocks))]

\* One round of DoAccess for a write: several sectors go to the disk directly, and rw_nr
\* becomes the last of them; a single one goes to the buffer.  many: the call began with
\* several.
Joined(x, e) == [x EXCEPT !.d = e.d, !.f = e.f, !.err = e.err]
WithRoom(x) ==
    IF Clamped(x.f).currPos >= Len(x.f.blocks)
    THEN Joined(x, Extend(x.d, Clamped(x.f)))
    ELSE [x EXCEPT !.f = Clamped(@)]

PutMany(x, f, sect, n) ==
    [x EXCEPT !.d = [@ EXCEPT !.data = [s \in Sector |->
                        IF s \in sect .. sect + n - 1 THEN Text(f.name, f.currPos + s - sect)
                        ELSE x.d.data[s]]],
              !.f = [InStep(f, sect + n - 1, f.rw_sct) EXCEPT !.currPos = @ + n],
              !.left = @ - n]
PutOne(x, f, sect) ==
    [x EXCEPT !.f = [f EXCEPT !.rw_nr = sect, !.rw_sct = Text(f.name, f.currPos),
                              !.mustW = TRUE, !.currPos = @ + 1],
              !.left = 0]
Put(x, f, sect, many) ==
    LET flushed == IF f.rw_nr # sect \/ many THEN [x EXCEPT !.d = Flush(@, f)] ELSE x
    IN IF x.left >= 2
       THEN PutMany(flushed, f, sect, Contiguous(f, Smaller(x.left, Len(f.blocks))))
       ELSE PutOne(flushed, f, sect)

PutIfRoom(x, many) ==
    IF x.err = "none" THEN Put(x, x.f, x.f.blocks[x.f.currPos + 1], many) ELSE x
WriteRound(x, many) == PutIfRoom(WithRoom(x), many)

\* What a path can read: up to the size in its FD, or up to where it has written.
Readable(f) == Larger(Smaller(f.size, Len(f.blocks)), Clamped(f).lastPos)

\* One round for a read: the last sector read is in the buffer afterwards.
Fetch(x, f, d, last, n) ==
    [x EXCEPT !.d = d, !.left = @ - n,
              !.f = [InStep(f, last, d.data[last]) EXCEPT !.currPos = @ + n]]
ReadAt(x, f, sect, many) ==
    LET n == IF x.left >= 2 THEN Contiguous(f, x.left) ELSE 1
    IN IF f.rw_nr # sect \/ many
       THEN Fetch(x, f, Flush(x.d, f), sect + n - 1, n)
       ELSE [x EXCEPT !.f = [f EXCEPT !.currPos = @ + 1], !.left = @ - 1]
ReadRound(x, many) ==
    ReadAt(x, Clamped(x.f), x.f.blocks[Clamped(x.f).currPos + 1], many)

Access(f, n) == [d |-> disk, f |-> f, left |-> n, err |-> "none"]

\* A call of one or two sectors has at most two rounds.  When the disk is full the
\* path is set back to where the call began, whatever was behind it.
WriteOn(x, many) == IF x.err = "none" /\ x.left > 0 THEN WriteRound(x, many) ELSE x
EndWrite(x, from) ==
    [x EXCEPT !.f = IF x.err = "E_FULL"
                    THEN [x.f EXCEPT !.currPos = from, !.lastPos = from]
                    ELSE [x.f EXCEPT !.lastPos = Larger(@, x.f.currPos)]]
Written(f, n) == EndWrite(WriteOn(WriteRound(Access(f, n), n >= 2), n >= 2), f.currPos)

ReadOn(x, many) == IF x.left > 0 THEN ReadRound(x, many) ELSE x
ReadIn(f, n) == ReadOn(ReadRound(Access(f, n), n >= 2), n >= 2)

-----------------------------------------------------------------------------
(* Operations *)

Of(n) == {p \in Path : path[p].open /\ path[p].name = n}
OthersOf(p) == Of(path[p].name) \ {p}
Writers(n) == {p \in Of(n) : path[p].wMode}

NewPath(n, fd_nr, wMode, fd) ==
    [open |-> TRUE, name |-> n, fd_nr |-> fd_nr, wMode |-> wMode, currPos |-> 0,
     lastPos |-> fd.size, size |-> fd.size, blocks |-> fd.blocks,
     rw_nr |-> 0, rw_sct |-> Junk, mustW |-> FALSE]

\* pRopen of a file that is there.
Open(p, n, wMode) ==
    /\ ~path[p].open /\ dir[n] # 0
    /\ wMode => Writers(n) = {}
    /\ path' = [path EXCEPT ![p] = NewPath(n, dir[n], wMode, disk.fd[dir[n]])]
    /\ UNCHANGED <<disk, dir, spoilt>>

\* CreateNewFile, with an initial size of no sector or one.  When there is room for the FD
\* only, the file is there but the path is not opened.
Create(p, n, init) ==
    /\ ~path[p].open /\ dir[n] = 0
    /\ \E a \in {Found(disk, init + 1, 0)} :
       \E b \in {Found(Allocated(disk, a), 1, 0)} :
          LET more == init + 1 > a.scs
              f == NewPath(n, a.pos, TRUE, [size |-> 0,
                       blocks |-> IF more THEN Blocks(b) ELSE Tail(Blocks(a))])
          IN /\ a.scs > 0
             /\ dir' = [dir EXCEPT ![n] = a.pos]
             /\ disk' = WriteFD(IF more /\ b.scs > 0 THEN Allocated(Allocated(disk, a), b)
                                ELSE Allocated(disk, a), f)
             /\ path' = IF more /\ b.scs = 0 THEN path ELSE [path EXCEPT ![p] = f]
    /\ UNCHANGED spoilt

\* pRread, pRwrite.
Read(p, n) ==
    /\ path[p].open /\ path[p].currPos < Readable(path[p])
    /\ \E x \in {ReadIn(path[p], Smaller(n, Readable(path[p]) - path[p].currPos))} :
          /\ disk' = x.d
          /\ path' = [path EXCEPT ![p] = [x.f EXCEPT !.lastPos = Larger(@, x.f.currPos)]]
    /\ UNCHANGED <<dir, spoilt>>

Write(p, n) ==
    /\ path[p].open /\ path[p].wMode /\ path[p].currPos + n <= MaxLen
    /\ \E x \in {Written(path[p], n)} :
          /\ disk' = x.d
          /\ path' = [path EXCEPT ![p] = x.f]
          /\ spoilt' = IF x.f.lastPos < path[p].lastPos THEN spoilt \cup {path[p].name}
                       ELSE spoilt
    /\ UNCHANGED dir

\* pRseek, to the beginning or the end of the file.
Seek(p, pos) ==
    /\ path[p].open /\ pos \in {0, path[p].lastPos} \ {path[p].currPos}
    /\ path' = [path EXCEPT ![p].currPos = pos]
    /\ UNCHANGED <<disk, dir, spoilt>>

\* pRsetsz, to make a file shorter that no other path has open.
SetSize(p, size) ==
    /\ path[p].open /\ path[p].wMode /\ OthersOf(p) = {} /\ size < path[p].lastPos
    /\ LET f == [path[p] EXCEPT !.lastPos = size, !.size = size,
                                !.currPos = Smaller(@, size)]
       IN /\ disk' = WriteFD(disk, f)
          /\ path' = [path EXCEPT ![p] = f]
    /\ UNCHANGED <<dir, spoilt>>

\* ReleaseBlocks: what is behind the sector after the last position.  (mutant: and that)
ReleaseOneMore(d, f) ==
    LET keep == Smaller(f.lastPos - 1, Len(f.blocks))
        rest == {f.blocks[i] : i \in keep + 1 .. Len(f.blocks)}
    IN WriteFD(LetThemGo(d, rest), [f EXCEPT !.blocks = SubSeq(@, 1, keep)])
ReleaseBlocks(d, f) ==
    LET keep == Smaller(f.lastPos + 1, Len(f.blocks))
        rest == {f.blocks[i] : i \in keep + 1 .. Len(f.blocks)}
    IN WriteFD(LetThemGo(d, rest), [f EXCEPT !.blocks = SubSeq(@, 1, keep)])

\* What pRclose does with the FD of a path that writes.  (mutant: the position where the
\* path was closed is the new size)
ClosedHere(d, f) == ReleaseBlocks(d, [f EXCEPT !.size = f.currPos, !.lastPos = f.currPos])
SizeSet(d, f) ==
    LET g == [f EXCEPT !.size = Larger(@, f.lastPos)]
    IN IF f.currPos # 0 /\ f.currPos = f.lastPos
       THEN ReleaseBlocks(WriteFD(d, g), [g EXCEPT !.size = f.currPos])
       ELSE WriteFD(d, g)

\* pRclose.
Close(p) ==
    /\ path[p].open
    /\ disk' = IF path[p].wMode THEN SizeSet(Flush(disk, path[p]), path[p]) ELSE disk
    /\ path' = [path EXCEPT ![p] = Closed]
    /\ UNCHANGED <<dir, spoilt>>

\* pRdelete with DeallocateBlocks, of a file that nobody has open: the FD sector goes with
\* the first segment if it is next to it, or alone.
DeallocateBlocks(d, fd_nr) ==
    LET blocks == d.fd[fd_nr].blocks
        starts == Elements(blocks) \cup (IF blocks # <<>> /\ blocks[1] = fd_nr + 1
                                         THEN {fd_nr} ELSE {})
    IN LetThemGo([d EXCEPT !.last_alloc = ByteOf(First({@} \cup starts))],
                 Elements(blocks) \cup {fd_nr})

Delete(n) ==
    /\ dir[n] # 0 /\ Of(n) = {}
    /\ disk' = DeallocateBlocks(disk, dir[n])
    /\ dir' = [dir EXCEPT ![n] = 0]
    /\ spoilt' = spoilt \ {n}
    /\ UNCHANGED path

Next == \/ \E p \in Path :
              \/ \E n \in Name : \/ \E wMode \in BOOLEAN : Open(p, n, wMode)
                                 \/ \E init \in 0 .. 1 : Create(p, n, init)
              \/ \E n \in Lens : Read(p, n) \/ Write(p, n)
              \/ \E pos \in 0 .. MaxLen : Seek(p, pos) \/ SetSize(p, pos)
              \/ Close(p)
        \/ \E n \in Name : Delete(n)

Spec == Init /\ [][Next]_vars

-----------------------------------------------------------------------------
(* Properties *)

OpenPaths == {p \in Path : path[p].open}
PathType == [open : {TRUE}, name : Name, fd_nr : Sector, wMode : BOOLEAN,
             currPos : 0 .. MaxLen, lastPos : 0 .. MaxLen, size : 0 .. MaxLen,
             blocks : Seq(Sector), rw_nr : {0} \cup Sector,
             rw_sct : {Junk} \cup (Name \X (0 .. MaxLen)), mustW : BOOLEAN]

\* Every variable keeps its type; no FD has more segments than it has room for; and a
\* path that writes has the sectors that the FD on the disk has, up to its last position
\* at least.
RbfTypeOK ==
    /\ disk.map \subseteq Sector /\ disk.last_alloc \in 0 .. totScts
    /\ \A s \in Sector : /\ disk.fd[s].size \in 0 .. MaxLen /\ disk.fd[s].blocks \in Seq(Sector)
                         /\ Segments(disk.fd[s].blocks) <= MaxSegs
    /\ \A s \in Sector : disk.data[s] \in {Junk} \cup (Name \X (0 .. MaxLen))
    /\ dir \in [Name -> {0} \cup Sector] /\ spoilt \subseteq Name
    /\ \A p \in OpenPaths : /\ path[p] \in PathType
                            /\ path[p].lastPos <= Len(path[p].blocks)
                            /\ path[p].wMode => path[p].blocks = disk.fd[path[p].fd_nr].blocks

\* The map and the FDs agree: every sector is free or belongs to one file, through writes,
\* closes that give back what was not needed, deletions, and writes that fail for lack of
\* room or of segments (GetThem, AdaptAlloc_FD, ReleaseBlocks, DeallocateBlocks).
Abstract == INSTANCE Space WITH
    owner <- [n \in Name |-> IF dir[n] = 0 THEN {}
                             ELSE {dir[n]} \cup Elements(disk.fd[dir[n]].blocks)],
    free <- Sector \ disk.map
SpaceImplemented == Abstract!Spec

\* Whatever a path can read is on the disk, written to this file and for this place, or
\* waits in the buffer of the path that writes the file: also while that one gives
\* sectors back and other files take them.  A file that was cut short is excepted.
InBuffer(n, s) == \E q \in Writers(n) : path[q].mustW /\ path[q].rw_nr = s
                                        /\ path[q].rw_sct[1] = n
ReadsOwn == \A p \in OpenPaths : path[p].name \notin spoilt =>
    \A k \in 0 .. Readable(path[p]) - 1 :
        LET s == path[p].blocks[k + 1]
        IN disk.data[s] = Text(path[p].name, k) \/ InBuffer(path[p].name, s)

\* The size of a file on the disk is made smaller by SS_Size only, wherever the path is
\* when it is closed (pRclose).  A file that was cut short is excepted.
SizeOf(n) == disk.fd[dir[n]].size
NeverShrinks ==
    [][\/ \A n \in Name : dir[n] # 0 /\ dir'[n] = dir[n] /\ n \notin spoilt
                             => SizeOf(n)' >= SizeOf(n)
       \/ \E p \in Path, size \in 0 .. MaxLen : SetSize(p, size)]_vars

\* rw_sct is the 'R/W sector buffer' of sector rw_nr, the 'current R/W sector nr'
\* (os9exec_nt.h 844-846): what is in it is on the disk or is yet to be written.
BufferIsSector == \A p \in OpenPaths :
    path[p].rw_nr # 0 /\ OthersOf(p) = {} =>
        path[p].mustW \/ path[p].rw_sct = disk.data[path[p].rw_nr]
=============================================================================
