------------------------------- MODULE Rbf_proofs ------------------------------
(***************************************************************************)
(* A disk image keeps its files apart, and a path reads what was written   *)
(* to its file: with disks of every size, maps of every width, any number  *)
(* of files and paths, lengths, and sizes of an allocation or of an FD.    *)
(*                                                                         *)
(* The invariant has three parts.  No sector belongs to two files (Apart). *)
(* Each path is where its file is, and the one that writes has the copy of *)
(* the FD that the disk has (AtFile).  What a file holds is on the disk or *)
(* in the buffer of its writer, for all that a path can read (FileOK).     *)
(*                                                                         *)
(* Every operation changes one file only.  Frame(n) says so, Cared(n) says *)
(* what the operation owes to that file, and FrameKeeps that the two give  *)
(* the invariant again; the rest is one lemma for each helper of DoAccess  *)
(* and of the allocation, and one for each operation.                      *)
(***************************************************************************)
EXTENDS Rbf, FiniteSetTheorems, SequenceTheorems, WellFoundedInduction, TLAPS

-----------------------------------------------------------------------------
(* The search in the map *)

\* Every set of numbers that is not empty has a least member, and First is it.
LEMMA FirstIsLeast ==
  ASSUME NEW S, S \subseteq Nat, S # {}
  PROVE  First(S) \in S /\ \A t \in S : First(S) <= t
<1> DEFINE R == OpToRel(<, Nat)
<1>1. IsWellFoundedOn(R, Nat)
  BY NatLessThanWellFounded
<1>2. \A x, y \in Nat : <<y, x>> \notin R => x <= y
  <2>1. \A x, y \in Nat : y < x => <<y, x>> \in R
    BY Zenon DEF OpToRel
  <2> HIDE DEF R
  <2> QED BY <2>1
<1> HIDE DEF R
<1>3. \E x \in S : \A y \in S : <<y, x>> \notin R
  BY <1>1, WFMin
<1>4. \E x \in S : \A y \in S : x <= y
  BY <1>2, <1>3
<1> QED BY <1>4 DEF First

\* And up to a number that is in it, such a set has a last member of an unbroken run.
LEMMA RunEnds ==
  ASSUME NEW m \in Nat \ {0}, NEW S, 1 \in S
  PROVE  \E r \in 1 .. m : /\ \A i \in 1 .. r : i \in S
                           /\ r = m \/ r + 1 \notin S
<1> DEFINE T == {t \in 2 .. m + 1 : t = m + 1 \/ t \notin S}
           t == First(T)
<1>1. T \subseteq Nat /\ m + 1 \in T
  OBVIOUS
<1>2. t \in T /\ \A u \in T : t <= u
  BY <1>1, FirstIsLeast
<1> HIDE DEF t
<1>3. t \in 2 .. m + 1 /\ (t = m + 1 \/ t \notin S)
  BY <1>2
<1>4. \A i \in 1 .. t - 1 : i \in S
  <2> TAKE i \in 1 .. t - 1
  <2>1. CASE i = 1
    BY <2>1
  <2>2. CASE i # 1
    BY <1>2, <1>3, <2>2
  <2> QED BY <2>1, <2>2
<1>5. t - 1 \in 1 .. m /\ (t - 1 = m \/ (t - 1) + 1 \notin S)
  BY <1>3
<1> QED BY <1>4, <1>5

\* The first sector of a byte of the map.
LEMMA ByteOfType ==
  ASSUME NEW s \in Nat
  PROVE  ByteOf(s) \in 0 .. s
<1> DEFINE q == s \div MapByte
<1>1. MapByte \in Nat /\ MapByte > 0
  BY RbfAssumption
<1>2. q \in Nat /\ MapByte * q <= s
  BY <1>1
<1>3. q * MapByte = MapByte * q /\ MapByte * q \in Nat
  BY <1>1, <1>2
<1> HIDE DEF q
<1> QED BY <1>2, <1>3 DEF ByteOf, q

\* What has been found is free, on the disk, and not more than was asked for.
Fits(map, a, n) ==
  /\ a \in [pos : Nat, scs : 0 .. n]
  /\ a.scs # 0 => /\ a.pos \in Sector /\ a.pos + a.scs <= totScts
                  /\ \A s \in a.pos .. a.pos + a.scs - 1 : s \in Sector /\ s \notin map

\* A stretch of free sectors reaches to the next that is taken, or to the end.
LEMMA LengthIs ==
  ASSUME NEW map, NEW s \in Sector, s \notin map
  PROVE  LET m == LengthAt(map, s)
         IN  /\ m \in Nat \ {0} /\ s + m <= totScts
             /\ \A t \in s .. s + m - 1 : t \in Sector /\ t \notin map
<1> DEFINE T == {t \in s .. totScts : t = totScts \/ t \in map}
           e == First(T)
<1>1. totScts \in Nat /\ System \in Nat /\ s \in Nat /\ s >= System /\ s < totScts
  BY RbfAssumption DEF Sector
<1>2. T \subseteq Nat /\ totScts \in T
  BY <1>1
<1>3. e \in T /\ \A u \in T : e <= u
  BY <1>2, FirstIsLeast
<1>4. LengthAt(map, s) = e - s
  BY DEF LengthAt
<1> HIDE DEF e
<1>5. e \in s .. totScts /\ e # s
  BY <1>1, <1>3
<1>6. \A t \in s .. e - 1 : t \in Sector /\ t \notin map
  BY <1>1, <1>3, <1>5 DEF Sector
<1> QED BY <1>1, <1>4, <1>5, <1>6

\* A part of a stretch of free sectors fits.
LEMMA PartFits ==
  ASSUME NEW map, NEW s \in Sector, s \notin map, NEW n \in Nat, NEW m \in 0 .. n,
         m <= LengthAt(map, s)
  PROVE  Fits(map, [pos |-> s, scs |-> m], n)
<1>1. totScts \in Nat /\ System \in Nat /\ s \in Nat
  BY RbfAssumption DEF Sector
<1>2. LET k == LengthAt(map, s)
      IN  /\ k \in Nat \ {0} /\ s + k <= totScts
          /\ \A t \in s .. s + k - 1 : t \in Sector /\ t \notin map
  BY LengthIs
<1> QED BY <1>1, <1>2 DEF Fits

\* BlkSearch finds what fits.
LEMMA BlkSearchFits ==
  ASSUME NEW map, NEW n \in Nat, NEW f \in Nat, NEW before, Fits(map, before, n)
  PROVE  Fits(map, BlkSearch(map, n, f, before), n)
<1> DEFINE S == Starts(map, f)
           enough == {s \in S : LengthAt(map, s) >= n}
           longest == {s \in S : \A t \in S : LengthAt(map, t) <= LengthAt(map, s)}
           e == First(enough)
           l == First(longest)
<1>1. S \subseteq Sector /\ (\A s \in S : s \notin map) /\ Sector \subseteq Nat
  BY RbfAssumption DEF Starts, FreeFrom, Sector
<1>2. BlkSearch(map, n, f, before) =
        IF enough # {} THEN [pos |-> e, scs |-> n]
        ELSE IF longest # {} /\ LengthAt(map, l) > before.scs
        THEN [pos |-> l, scs |-> LengthAt(map, l)]
        ELSE before
  BY Zenon DEF BlkSearch, BestOf
<1> HIDE DEF S
<1>3. enough # {} => e \in enough
  BY <1>1, FirstIsLeast
<1>4. longest # {} => l \in longest
  BY <1>1, FirstIsLeast
<1> HIDE DEF e, l
<1>5. CASE enough # {}
  <2>1. e \in Sector /\ e \notin map /\ LengthAt(map, e) >= n
    BY <1>1, <1>3, <1>5
  <2>2. Fits(map, [pos |-> e, scs |-> n], n)
    BY <2>1, LengthIs, PartFits
  <2> QED BY <1>2, <1>5, <2>2
<1>6. CASE enough = {} /\ longest # {} /\ LengthAt(map, l) > before.scs
  <2>1. l \in Sector /\ l \notin map /\ ~(LengthAt(map, l) >= n)
    BY <1>1, <1>4, <1>6
  <2>2. LengthAt(map, l) \in 0 .. n
    BY <2>1, LengthIs
  <2>3. Fits(map, [pos |-> l, scs |-> LengthAt(map, l)], n)
    BY <2>1, <2>2, PartFits
  <2> QED BY <1>2, <1>6, <2>3
<1>7. CASE enough = {} /\ ~(longest # {} /\ LengthAt(map, l) > before.scs)
  BY <1>2, <1>7
<1> QED BY <1>5, <1>6, <1>7

\* So does AllocateBlocks, from the preferred sector, the last place or the beginning.
LEMMA FoundFits ==
  ASSUME NEW d, d.last_alloc \in Nat, NEW n \in Nat, NEW prefpos \in Nat
  PROVE  Fits(d.map, Found(d, n, prefpos), n)
<1> DEFINE there == AtPreferred(d, n, prefpos)
           then == BlkSearch(d.map, n, d.last_alloc, there)
<1>1. Fits(d.map, Nothing, n)
  BY DEF Fits, Nothing
<1>2. ByteOf(prefpos) \in Nat
  BY ByteOfType
<1>3. Fits(d.map, there, n)
  BY <1>1, <1>2, BlkSearchFits DEF AtPreferred
<1> HIDE DEF there
<1>4. Fits(d.map, then, n)
  BY <1>3, BlkSearchFits
<1> HIDE DEF then
<1>5. Fits(d.map, FromBeginning(d, n, then), n)
  BY <1>4, BlkSearchFits DEF FromBeginning
<1> QED BY <1>3, <1>5 DEF Found, Elsewhere, there, then

-----------------------------------------------------------------------------
(* The types, and the segments of an FD *)

\* The sectors of a file are different, there are enough of them for its size, and they
\* are in as many segments as an FD has room for.
FileD == {r \in [size : 0 .. MaxLen, blocks : Seq(Sector)] :
            /\ r.size <= Len(r.blocks) /\ Segments(r.blocks) <= MaxSegs
            /\ \A i, j \in 1 .. Len(r.blocks) : r.blocks[i] = r.blocks[j] => i = j}

\* What may be in a sector, and the types of a disk.
Content == {Junk} \cup (Name \X (0 .. MaxLen))
Disk == [map : SUBSET Sector, last_alloc : 0 .. totScts, fd : [Sector -> FileD],
         data : [Sector -> Content]]

\* Sectors have numbers, none of them 0.
LEMMA SectorIsNat == Sector \subseteq Nat \ {0} /\ Sector \subseteq 1 .. totScts - 1
BY RbfAssumption DEF Sector

\* The segments are counted.
LEMMA SegmentsType ==
  ASSUME NEW n \in Nat, NEW S, S \subseteq 1 .. n
  PROVE  IsFiniteSet(S) /\ Cardinality(S) \in Nat
<1>1. IsFiniteSet(1 .. n)
  BY FS_Interval
<1>2. IsFiniteSet(S)
  BY <1>1, FS_Subset
<1> QED BY <1>2, FS_CardinalityType

\* Where the segments of a file begin.
Begins(b) == {i \in 1 .. Len(b) : i = 1 \/ b[i] # b[i - 1] + 1}

\* A file whose segments begin where those of another one do has no more of them.
LEMMA FewerSegments ==
  ASSUME NEW b \in Seq(Sector), NEW c \in Seq(Sector), Begins(c) \subseteq Begins(b)
  PROVE  Segments(c) <= Segments(b) /\ Segments(b) \in Nat
<1>1. Len(b) \in Nat /\ Begins(b) \subseteq 1 .. Len(b)
  BY DEF Begins
<1>2. IsFiniteSet(Begins(b)) /\ Cardinality(Begins(b)) \in Nat
  BY <1>1, SegmentsType
<1>3. Cardinality(Begins(c)) <= Cardinality(Begins(b))
  BY <1>2, FS_Subset
<1> QED BY <1>2, <1>3 DEF Segments, Begins

\* A new stretch of sectors at the end makes one segment more, at most.
LEMMA OneMoreSegment ==
  ASSUME NEW b \in Seq(Sector), NEW c \in Seq(Sector),
         \A i \in 2 .. Len(c) : c[i] = c[i - 1] + 1
  PROVE  Segments(b \o c) <= Segments(b) + 1 /\ Segments(b) \in Nat
<1> DEFINE new == Len(b) + 1
           bc == b \o c
<1>1. /\ bc \in Seq(Sector) /\ Len(bc) = Len(b) + Len(c)
      /\ \A i \in 1 .. Len(b) + Len(c) :
            bc[i] = IF i <= Len(b) THEN b[i] ELSE c[i - Len(b)]
  BY ConcatProperties
<1>2. Len(b) \in Nat /\ Len(c) \in Nat
  OBVIOUS
<1> HIDE DEF bc
<1>3. Begins(bc) \subseteq Begins(b) \cup {new}
  <2> SUFFICES ASSUME NEW i \in Begins(bc), i # new PROVE i \in Begins(b)
    OBVIOUS
  <2>1. i \in 1 .. Len(b) + Len(c) /\ (i = 1 \/ bc[i] # bc[i - 1] + 1)
    BY <1>1 DEF Begins
  <2>2. CASE i <= Len(b)
    BY <1>1, <1>2, <2>1, <2>2 DEF Begins
  <2>3. CASE i > Len(b)
    <3>1. i - Len(b) \in 2 .. Len(c) /\ i - 1 \in 1 .. Len(b) + Len(c) /\ i - 1 > Len(b)
      BY <1>2, <2>1, <2>3
    <3>2. bc[i] = c[i - Len(b)] /\ bc[i - 1] = c[(i - 1) - Len(b)]
      BY <1>1, <1>2, <2>1, <2>3, <3>1
    <3>3. (i - 1) - Len(b) = (i - Len(b)) - 1 /\ i # 1
      BY <1>2, <2>1, <3>1
    <3> QED BY <2>1, <3>1, <3>2, <3>3
  <2> QED BY <1>2, <2>1, <2>2, <2>3
<1>4. IsFiniteSet(Begins(b)) /\ Cardinality(Begins(b)) \in Nat
  BY <1>2, SegmentsType DEF Begins
<1>5. /\ IsFiniteSet(Begins(b) \cup {new})
      /\ Cardinality(Begins(b) \cup {new}) <= Cardinality(Begins(b)) + 1
  <2> HIDE DEF new
  <2>1. Cardinality(Begins(b) \cup {new}) =
          IF new \in Begins(b) THEN Cardinality(Begins(b)) ELSE Cardinality(Begins(b)) + 1
    BY <1>4, FS_AddElement
  <2> QED BY <1>4, <2>1, FS_AddElement
<1>6. Cardinality(Begins(bc)) <= Cardinality(Begins(b) \cup {new})
  BY <1>3, <1>5, FS_Subset
<1>7. Cardinality(Begins(bc)) \in Nat /\ Cardinality(Begins(b) \cup {new}) \in Nat
  BY <1>3, <1>5, FS_Subset, FS_CardinalityType
<1>8. Segments(b) = Cardinality(Begins(b)) /\ Segments(bc) = Cardinality(Begins(bc))
  BY Zenon DEF Segments, Begins
<1>9. Segments(bc) <= Segments(b) + 1 /\ Segments(b) \in Nat
  BY <1>4, <1>5, <1>6, <1>7, <1>8
<1> QED BY <1>9 DEF bc

\* One stretch of sectors is one segment.
LEMMA OneSegment ==
  ASSUME NEW b \in Seq(Sector), \A i \in 2 .. Len(b) : b[i] = b[i - 1] + 1
  PROVE  Segments(b) <= MaxSegs
<1>1. Begins(b) \subseteq {1}
  BY DEF Begins
<1>2. IsFiniteSet({1}) /\ Cardinality({1}) = 1
  BY FS_Singleton
<1>3. Cardinality(Begins(b)) <= 1 /\ Cardinality(Begins(b)) \in Nat
  BY <1>1, <1>2, FS_Subset, FS_CardinalityType
<1> QED BY <1>3, RbfAssumption DEF Segments, Begins

\* The sectors of a stretch, one after the other.
LEMMA BlocksAre ==
  ASSUME NEW map, NEW n \in Nat, NEW a, Fits(map, a, n)
  PROVE  /\ Blocks(a) \in Seq(Sector) /\ Len(Blocks(a)) = a.scs
         /\ Elements(Blocks(a)) = Span(a)
         /\ Span(a) \subseteq Sector /\ Span(a) \cap map = {}
<1>1. a.pos \in Nat /\ a.scs \in Nat
  BY DEF Fits
<1>2. Span(a) \subseteq Sector /\ Span(a) \cap map = {}
  <2>1. CASE a.scs = 0
    BY <1>1, <2>1 DEF Span
  <2>2. CASE a.scs # 0
    BY <2>2 DEF Fits, Span
  <2> QED BY <2>1, <2>2
<1>3. \A i \in 1 .. a.scs : a.pos + i - 1 \in Span(a)
  BY <1>1 DEF Span
<1>4. /\ Blocks(a) = [i \in 1 .. a.scs |-> a.pos + i - 1]
      /\ Blocks(a) \in Seq(Sector) /\ Len(Blocks(a)) = a.scs
  <2>1. Blocks(a) = [i \in 1 .. a.scs |-> a.pos + i - 1]
    BY DEF Blocks
  <2>2. \A i \in 1 .. a.scs : a.pos + i - 1 \in Sector
    BY <1>2, <1>3
  <2> QED BY <1>1, <2>1, <2>2
<1>5. \A i \in 1 .. a.scs : Blocks(a)[i] = a.pos + i - 1
  BY <1>4
<1>6. Elements(Blocks(a)) = Span(a)
  <2>1. \A t \in Span(a) : t - a.pos + 1 \in 1 .. a.scs /\ t = a.pos + (t - a.pos + 1) - 1
    BY <1>1 DEF Span
  <2>2. \A t \in Span(a) : t - a.pos + 1 \in 1 .. a.scs /\ t = Blocks(a)[t - a.pos + 1]
    BY <1>5, <2>1
  <2>3. Span(a) \subseteq Elements(Blocks(a))
    BY <1>4, <2>2 DEF Elements
  <2>4. Elements(Blocks(a)) \subseteq Span(a)
    BY <1>3, <1>4, <1>5 DEF Elements
  <2> QED BY <2>3, <2>4
<1> QED BY <1>2, <1>4, <1>6

\* Which they are, place by place.
LEMMA BlockIs ==
  ASSUME NEW a, a.scs \in Nat, a.pos \in Nat
  PROVE  /\ \A i \in 1 .. a.scs : Blocks(a)[i] = a.pos + i - 1
         /\ \A i \in 2 .. a.scs : Blocks(a)[i] = Blocks(a)[i - 1] + 1
<1>1. \A i \in 1 .. a.scs : Blocks(a)[i] = a.pos + i - 1
  BY DEF Blocks
<1> QED BY <1>1

-----------------------------------------------------------------------------
(* The map and the FDs *)

\* The parts of a disk.
LEMMA DiskParts ==
  ASSUME NEW d \in Disk
  PROVE  /\ d.map \subseteq Sector /\ d.last_alloc \in 0 .. totScts /\ d.last_alloc \in Nat
         /\ d.fd \in [Sector -> FileD] /\ d.data \in [Sector -> Content]
         /\ \A s \in Sector : d.fd[s] \in FileD /\ d.data[s] \in Content
BY RbfAssumption DEF Disk

\* An FD without sectors is one.
LEMMA NoFDType == NoFD \in FileD
<1> DEFINE b == <<>>
           r == [size |-> 0, blocks |-> b]
<1>1. b \in Seq(Sector) /\ Len(b) = 0
  BY EmptySeq
<1>2. NoFD = r
  BY DEF NoFD
<1> HIDE DEF b
<1>3. Segments(b) <= MaxSegs
  <2>1. 2 .. Len(b) = {}
    BY <1>1
  <2>2. \A i \in 2 .. Len(b) : b[i] = b[i - 1] + 1
    BY <2>1
  <2> QED BY <1>1, <2>2, OneSegment
<1>4. r \in FileD
  BY <1>1, <1>3, RbfAssumption DEF FileD
<1> QED BY <1>2, <1>4

\* Free sectors that have been found are taken, and nothing else changes.
LEMMA AllocatedIs ==
  ASSUME NEW d \in Disk, NEW n \in Nat, NEW a, Fits(d.map, a, n), a.scs # 0
  PROVE  LET e == Allocated(d, a)
         IN  /\ e \in Disk /\ e.map = d.map \cup Span(a) /\ e.fd = d.fd /\ e.data = d.data
<1> DEFINE l == ByteOf(a.pos + a.scs)
           d1 == [d EXCEPT !.last_alloc = l]
           m == d1.map \cup Span(a)
           d2 == [d1 EXCEPT !.map = m]
<1>1. Span(a) \subseteq Sector /\ Span(a) \cap d.map = {}
  BY BlocksAre
<1>2. l \in 0 .. totScts
  <2>1. a.pos + a.scs \in Nat /\ a.pos + a.scs <= totScts
    BY DEF Fits
  <2>2. l \in 0 .. a.pos + a.scs
    BY <2>1, ByteOfType
  <2> QED BY <2>1, <2>2, RbfAssumption
<1> HIDE DEF l
<1>3. d1 \in Disk /\ d1.map = d.map /\ d1.fd = d.fd /\ d1.data = d.data
  BY <1>2, Zenon DEF Disk
<1> HIDE DEF d1
<1>4. m \subseteq Sector /\ m = d.map \cup Span(a)
  BY <1>1, <1>3, DiskParts
<1>5. Allocated(d, a) = d2
  BY <1>1, <1>3 DEF Allocated, GetThem, d1, l
<1> HIDE DEF m
<1>6. d2 \in Disk /\ d2.map = m /\ d2.fd = d1.fd /\ d2.data = d1.data
  BY <1>3, <1>4, Zenon DEF Disk
<1> QED BY <1>3, <1>4, <1>5, <1>6

\* Sectors that are taken are given back.
LEMMA LetThemGoIs ==
  ASSUME NEW d \in Disk, NEW S, S \subseteq d.map
  PROVE  LET e == LetThemGo(d, S)
         IN  /\ e \in Disk /\ e.map = d.map \ S
             /\ \A s \in Sector : /\ e.fd[s] = IF s \in S THEN NoFD ELSE d.fd[s]
                                  /\ e.data[s] = IF s \in S THEN Junk ELSE d.data[s]
<1> DEFINE m == d.map \ S
           f == [s \in Sector |-> IF s \in S THEN NoFD ELSE d.fd[s]]
           g == [s \in Sector |-> IF s \in S THEN Junk ELSE d.data[s]]
           e == [d EXCEPT !.map = m, !.fd = f, !.data = g]
<1>1. LetThemGo(d, S) = e
  BY Zenon DEF LetThemGo
<1>2. m \subseteq Sector
  BY DiskParts
<1>3. f \in [Sector -> FileD]
  BY DiskParts, NoFDType
<1>4. g \in [Sector -> Content]
  BY DiskParts DEF Content
<1>5. \A s \in Sector : /\ f[s] = IF s \in S THEN NoFD ELSE d.fd[s]
                        /\ g[s] = IF s \in S THEN Junk ELSE d.data[s]
  OBVIOUS
<1> HIDE DEF m, f, g
<1>6. e \in Disk /\ e.map = m /\ e.fd = f /\ e.data = g
  BY <1>2, <1>3, <1>4, Zenon DEF Disk
<1> QED BY <1>1, <1>5, <1>6 DEF m

\* An FD is written.
LEMMA WriteFDIs ==
  ASSUME NEW d \in Disk, NEW f, f.fd_nr \in Sector,
         NEW r, r = [size |-> f.size, blocks |-> f.blocks], r \in FileD
  PROVE  LET e == WriteFD(d, f)
         IN  /\ e \in Disk /\ e.map = d.map /\ e.data = d.data /\ e.last_alloc = d.last_alloc
             /\ \A s \in Sector : e.fd[s] = IF s = f.fd_nr THEN r ELSE d.fd[s]
<1> DEFINE g == [d.fd EXCEPT ![f.fd_nr] = r]
           e == [d EXCEPT !.fd = g]
<1>1. WriteFD(d, f) = e
  BY Zenon DEF WriteFD
<1>2. g \in [Sector -> FileD] /\ \A s \in Sector : g[s] = IF s = f.fd_nr THEN r ELSE d.fd[s]
  BY DiskParts
<1> HIDE DEF g
<1>3. /\ e \in Disk /\ e.map = d.map /\ e.data = d.data /\ e.last_alloc = d.last_alloc
      /\ e.fd = g
  BY <1>2, Zenon DEF Disk
<1> QED BY <1>1, <1>2, <1>3

-----------------------------------------------------------------------------
(* A path and its file *)

\* The buffer of a path that must be written has a sector of the file, with the text for
\* its place.
Buffer(f) == f.mustW => \E k \in 1 .. Len(f.blocks) : /\ f.rw_nr = f.blocks[k]
                                                      /\ f.rw_sct = Text(f.name, k - 1)

\* The positions of a path are in its file.
PathOK(f) == /\ f \in PathType
             /\ f.currPos <= Len(f.blocks) /\ f.lastPos <= Len(f.blocks)
             /\ f.size <= Len(f.blocks)
             /\ ~f.wMode => ~f.mustW
             /\ Buffer(f)

\* The copy of the FD that a path writes with is the one on the disk.
Joint(d, f) == /\ f.fd_nr \in d.map /\ f.fd_nr \notin Elements(f.blocks)
               /\ Elements(f.blocks) \subseteq d.map
               /\ d.fd[f.fd_nr] = [size |-> f.size, blocks |-> f.blocks]

\* What a call does not change of a path; and the sectors it had stay where they were.
SameFile(f, g) == /\ g.name = f.name /\ g.fd_nr = f.fd_nr /\ g.wMode = f.wMode
                  /\ g.size = f.size
Longer(f, g) == /\ Len(f.blocks) <= Len(g.blocks)
                /\ \A k \in 1 .. Len(f.blocks) : g.blocks[k] = f.blocks[k]

\* Up to a position, the sectors of a path have the text for their places, on the disk or
\* in the buffer of the path.
Held(d, f, top) == \A k \in 1 .. top : \/ d.data[f.blocks[k]] = Text(f.name, k - 1)
                                       \/ f.mustW /\ f.rw_nr = f.blocks[k]

\* A file gets sectors that were free, and nothing happens to the others.
Grown(d, e, s) ==
  \E S \in SUBSET Sector :
     /\ S \cap d.map = {} /\ e.map = d.map \cup S
     /\ Elements(e.fd[s].blocks) = Elements(d.fd[s].blocks) \cup S
     /\ \A t \in d.map : t # s => e.fd[t] = d.fd[t]
     /\ \A t \in d.map : t \notin Elements(d.fd[s].blocks) => e.data[t] = d.data[t]

\* One such step after the other.
LEMMA GrownInTurn ==
  ASSUME NEW d, NEW e, NEW g, NEW s, Grown(d, e, s), Grown(e, g, s)
  PROVE  Grown(d, g, s)
<1>1. PICK S \in SUBSET Sector :
         /\ S \cap d.map = {} /\ e.map = d.map \cup S
         /\ Elements(e.fd[s].blocks) = Elements(d.fd[s].blocks) \cup S
         /\ \A t \in d.map : t # s => e.fd[t] = d.fd[t]
         /\ \A t \in d.map : t \notin Elements(d.fd[s].blocks) => e.data[t] = d.data[t]
  BY DEF Grown
<1>2. PICK T \in SUBSET Sector :
         /\ T \cap e.map = {} /\ g.map = e.map \cup T
         /\ Elements(g.fd[s].blocks) = Elements(e.fd[s].blocks) \cup T
         /\ \A t \in e.map : t # s => g.fd[t] = e.fd[t]
         /\ \A t \in e.map : t \notin Elements(e.fd[s].blocks) => g.data[t] = e.data[t]
  BY DEF Grown
<1>3. S \cup T \in SUBSET Sector /\ (S \cup T) \cap d.map = {} /\ g.map = d.map \cup (S \cup T)
  BY <1>1, <1>2
<1>4. Elements(g.fd[s].blocks) = Elements(d.fd[s].blocks) \cup (S \cup T)
  BY <1>1, <1>2
<1>5. \A t \in d.map : t # s => g.fd[t] = d.fd[t]
  BY <1>1, <1>2
<1>6. \A t \in d.map : t \notin Elements(d.fd[s].blocks) => g.data[t] = d.data[t]
  BY <1>1, <1>2
<1> QED BY <1>3, <1>4, <1>5, <1>6 DEF Grown

\* Nothing at all is one, and so is what is written to the file's own sectors.
LEMMA GrownByNothing ==
  ASSUME NEW d, NEW e, NEW s, e.map = d.map, e.fd = d.fd,
         \A t \in d.map : t \notin Elements(d.fd[s].blocks) => e.data[t] = d.data[t]
  PROVE  Grown(d, e, s)
<1>1. {} \in SUBSET Sector /\ {} \cap d.map = {} /\ e.map = d.map \cup {}
  OBVIOUS
<1>2. Elements(e.fd[s].blocks) = Elements(d.fd[s].blocks) \cup {}
  OBVIOUS
<1> QED BY <1>1, <1>2 DEF Grown

\* The parts of a path.
LEMMA PathParts ==
  ASSUME NEW f \in PathType
  PROVE  /\ f.open /\ f.name \in Name /\ f.fd_nr \in Sector /\ f.wMode \in BOOLEAN
         /\ f.currPos \in 0 .. MaxLen /\ f.lastPos \in 0 .. MaxLen /\ f.size \in 0 .. MaxLen
         /\ f.currPos \in Nat /\ f.lastPos \in Nat /\ f.size \in Nat
         /\ f.blocks \in Seq(Sector) /\ Len(f.blocks) \in Nat
         /\ f.rw_nr \in {0} \cup Sector /\ f.rw_sct \in Content /\ f.mustW \in BOOLEAN
         /\ \A k \in 1 .. Len(f.blocks) : /\ f.blocks[k] \in Sector
                                          /\ f.blocks[k] \in Elements(f.blocks)
<1>1. /\ f.open /\ f.name \in Name /\ f.fd_nr \in Sector /\ f.wMode \in BOOLEAN
      /\ f.currPos \in 0 .. MaxLen /\ f.lastPos \in 0 .. MaxLen /\ f.size \in 0 .. MaxLen
      /\ f.blocks \in Seq(Sector)
      /\ f.rw_nr \in {0} \cup Sector /\ f.rw_sct \in Content /\ f.mustW \in BOOLEAN
  BY DEF PathType, Content
<1>2. f.currPos \in Nat /\ f.lastPos \in Nat /\ f.size \in Nat /\ Len(f.blocks) \in Nat
  BY <1>1, RbfAssumption
<1>3. \A k \in 1 .. Len(f.blocks) : /\ f.blocks[k] \in Sector
                                    /\ f.blocks[k] \in Elements(f.blocks)
  BY <1>1 DEF Elements
<1> QED BY <1>1, <1>2, <1>3

\* The sectors of a path are set.
LEMMA SetBlocks ==
  ASSUME NEW f \in PathType, NEW b \in Seq(Sector)
  PROVE  LET g == [f EXCEPT !.blocks = b]
         IN  /\ g \in PathType /\ g.blocks = b /\ SameFile(f, g)
             /\ g.currPos = f.currPos /\ g.lastPos = f.lastPos
             /\ g.rw_nr = f.rw_nr /\ g.rw_sct = f.rw_sct /\ g.mustW = f.mustW
BY DEF PathType, SameFile

\* The elements of two sequences together.
LEMMA ElementsOfBoth ==
  ASSUME NEW b \in Seq(Sector), NEW c \in Seq(Sector)
  PROVE  Elements(b \o c) = Elements(b) \cup Elements(c)
<1> DEFINE bc == b \o c
<1>1. /\ bc \in Seq(Sector) /\ Len(bc) = Len(b) + Len(c)
      /\ \A i \in 1 .. Len(b) + Len(c) :
            bc[i] = IF i <= Len(b) THEN b[i] ELSE c[i - Len(b)]
  BY ConcatProperties
<1>2. Len(b) \in Nat /\ Len(c) \in Nat
  OBVIOUS
<1> HIDE DEF bc
<1>3. \A t \in Elements(bc) : t \in Elements(b) \/ t \in Elements(c)
  <2> SUFFICES ASSUME NEW i \in 1 .. Len(b) + Len(c)
               PROVE  bc[i] \in Elements(b) \/ bc[i] \in Elements(c)
    BY <1>1 DEF Elements
  <2>1. CASE i <= Len(b)
    BY <1>1, <1>2, <2>1 DEF Elements
  <2>2. CASE ~(i <= Len(b))
    <3>1. i - Len(b) \in 1 .. Len(c) /\ bc[i] = c[i - Len(b)]
      BY <1>1, <1>2, <2>2
    <3> QED BY <3>1 DEF Elements
  <2> QED BY <2>1, <2>2
<1>4. \A i \in 1 .. Len(b) : b[i] \in Elements(bc)
  BY <1>1, <1>2 DEF Elements
<1>5. \A i \in 1 .. Len(c) : c[i] \in Elements(bc)
  <2> TAKE i \in 1 .. Len(c)
  <2>1. i + Len(b) \in 1 .. Len(bc) /\ bc[i + Len(b)] = c[(i + Len(b)) - Len(b)]
    BY <1>1, <1>2
  <2>2. (i + Len(b)) - Len(b) = i
    BY <1>2
  <2> QED BY <2>1, <2>2 DEF Elements
<1> QED BY <1>3, <1>4, <1>5 DEF Elements, bc

\* A file with a stretch of sectors at its end.
Lengthened(b, a, size) ==
  LET c == b \o Blocks(a)
  IN  /\ [size |-> size, blocks |-> c] \in FileD /\ c \in Seq(Sector)
      /\ Len(c) = Len(b) + a.scs /\ Elements(c) = Elements(b) \cup Span(a)
      /\ \A k \in 1 .. Len(b) : c[k] = b[k]

\* It is an FD, if the sectors were free and it has a segment left.
LEMMA LongerFileD ==
  ASSUME NEW map, NEW n \in Nat, NEW a, Fits(map, a, n),
         NEW b \in Seq(Sector), NEW size \in 0 .. MaxLen,
         [size |-> size, blocks |-> b] \in FileD, Elements(b) \subseteq map,
         Segments(b) # MaxSegs
  PROVE  Lengthened(b, a, size)
<1> DEFINE s == Blocks(a)
           c == b \o s
<1>1. /\ s \in Seq(Sector) /\ Len(s) = a.scs /\ Elements(s) = Span(a)
      /\ \A i \in 1 .. a.scs : s[i] = a.pos + i - 1
      /\ Span(a) \cap map = {} /\ \A i \in 2 .. a.scs : s[i] = s[i - 1] + 1
  <2>1. a.scs \in Nat /\ a.pos \in Nat
    BY DEF Fits
  <2>2. /\ \A i \in 1 .. a.scs : s[i] = a.pos + i - 1
        /\ \A i \in 2 .. a.scs : s[i] = s[i - 1] + 1
    BY <2>1, BlockIs
  <2>3. /\ s \in Seq(Sector) /\ Len(s) = a.scs /\ Elements(s) = Span(a)
        /\ Span(a) \cap map = {}
    BY BlocksAre
  <2> QED BY <2>2, <2>3
<1> HIDE DEF s
<1>2. /\ c \in Seq(Sector) /\ Len(c) = Len(b) + Len(s)
      /\ \A i \in 1 .. Len(b) + Len(s) :
            c[i] = IF i <= Len(b) THEN b[i] ELSE s[i - Len(b)]
  BY <1>1, ConcatProperties
<1>3. Elements(c) = Elements(b) \cup Span(a)
  BY <1>1, ElementsOfBoth
<1>4. Segments(c) <= MaxSegs
  <2>1. Segments(c) <= Segments(b) + 1 /\ Segments(b) \in Nat
    BY <1>1, OneMoreSegment
  <2>2. Segments(b) <= MaxSegs
    BY DEF FileD
  <2>3. Segments(c) \in Nat
    BY <1>2, FewerSegments
  <2> QED BY <2>1, <2>2, <2>3, RbfAssumption
<1> HIDE DEF c
<1>5. Len(b) \in Nat /\ Len(s) \in Nat /\ a.pos \in Nat
  BY <1>1 DEF Fits
<1>6. ASSUME NEW i \in 1 .. Len(c), NEW j \in 1 .. Len(c), c[i] = c[j] PROVE i = j
  <2>1. CASE i <= Len(b) /\ j <= Len(b)
    <3>1. b[i] = b[j] /\ i \in 1 .. Len(b) /\ j \in 1 .. Len(b)
      BY <1>2, <1>5, <1>6, <2>1
    <3> QED BY <3>1 DEF FileD
  <2>2. CASE i > Len(b) /\ j > Len(b)
    <3>1. i - Len(b) \in 1 .. a.scs /\ j - Len(b) \in 1 .. a.scs
      BY <1>1, <1>2, <1>5, <2>2
    <3>2. a.pos + (i - Len(b)) - 1 = a.pos + (j - Len(b)) - 1
      BY <1>1, <1>2, <1>5, <1>6, <2>2, <3>1
    <3> QED BY <1>5, <3>2
  <2>3. ASSUME NEW x \in 1 .. Len(c), NEW y \in 1 .. Len(c), x <= Len(b), y > Len(b)
        PROVE  c[x] # c[y]
    <3>1. c[x] = b[x] /\ x \in 1 .. Len(b)
      BY <1>2, <1>5, <2>3
    <3>2. c[x] \in map
      BY <3>1 DEF Elements
    <3>3. y - Len(b) \in 1 .. Len(s) /\ c[y] = s[y - Len(b)]
      BY <1>2, <1>5, <2>3
    <3>4. c[y] \in Span(a)
      BY <1>1, <3>3 DEF Elements
    <3> QED BY <1>1, <3>2, <3>4
  <2> QED BY <1>2, <1>5, <1>6, <2>1, <2>2, <2>3
<1>7. size <= Len(b)
  BY DEF FileD
<1>8. [size |-> size, blocks |-> c] \in FileD
  BY <1>2, <1>4, <1>5, <1>6, <1>7 DEF FileD
<1>9. \A k \in 1 .. Len(b) : c[k] = b[k]
  BY <1>2, <1>5
<1> QED BY <1>1, <1>2, <1>3, <1>8, <1>9 DEF Lengthened, c, s

\* AllocateBlocks and AdaptAlloc_FD: the file of a path gets sectors that were free, at its
\* end, or nothing has changed.
LEMMA ExtendIs ==
  ASSUME NEW d \in Disk, NEW f, PathOK(f), f.wMode, Joint(d, f)
  PROVE  LET e == Extend(d, f)
         IN  /\ e.d \in Disk /\ PathOK(e.f) /\ Joint(e.d, e.f) /\ Grown(d, e.d, f.fd_nr)
             /\ SameFile(f, e.f) /\ Longer(f, e.f)
             /\ e.f.currPos = f.currPos /\ e.f.lastPos = f.lastPos
             /\ e.f.mustW = f.mustW /\ e.f.rw_nr = f.rw_nr
             /\ \A t \in d.map : e.d.data[t] = d.data[t]
             /\ e.err \in {"none", "E_FULL", "E_SLF"}
             /\ e.err = "none" => Len(e.f.blocks) > Len(f.blocks)
<1> DEFINE pref == IF f.blocks = <<>> THEN 0 ELSE f.blocks[Len(f.blocks)] + 1
           a == Found(d, sas, pref)
           c == f.blocks \o Blocks(a)
           g == [f EXCEPT !.blocks = c]
           d1 == Allocated(d, a)
           d2 == GivenBack(d1, a)
           d3 == WriteFD(d1, g)
<1>1. f \in PathType /\ f.blocks \in Seq(Sector) /\ f.fd_nr \in Sector
  BY PathParts DEF PathOK
<1>2. pref \in Nat
  <2>1. CASE f.blocks = <<>>
    BY <2>1
  <2>2. CASE f.blocks # <<>>
    <3>1. Len(f.blocks) \in 1 .. Len(f.blocks)
      BY <1>1, <2>2
    <3>2. f.blocks[Len(f.blocks)] \in Sector
      BY <1>1, <3>1, PathParts, Zenon
    <3>3. f.blocks[Len(f.blocks)] \in Nat
      BY <3>2, SectorIsNat
    <3> QED BY <2>2, <3>3
  <2> QED BY <2>1, <2>2
<1> HIDE DEF pref
<1>3. Fits(d.map, a, sas) /\ sas \in Nat
  BY <1>2, FoundFits, DiskParts, RbfAssumption
<1>4. Extend(d, f) = IF a.scs = 0 THEN [d |-> d, f |-> f, err |-> "E_FULL"]
                     ELSE IF NoMoreFit(f) THEN [d |-> d2, f |-> f, err |-> "E_SLF"]
                     ELSE [d |-> d3, f |-> g, err |-> "none"]
  BY Zenon DEF Extend, ExtendBy, pref
<1> HIDE DEF a
<1>5. SameFile(f, f) /\ Longer(f, f) /\ Grown(d, d, f.fd_nr)
  BY GrownByNothing DEF SameFile, Longer
<1>6. CASE a.scs = 0
  <2> DEFINE e == [d |-> d, f |-> f, err |-> "E_FULL"]
  <2>1. Extend(d, f) = e
    BY <1>4, <1>6
  <2>2. e.d = d /\ e.f = f /\ e.err = "E_FULL"
    OBVIOUS
  <2> HIDE DEF e
  <2> QED BY <1>5, <2>1, <2>2
<1>7. CASE a.scs # 0
  <2>0. Span(a) \subseteq Sector /\ Span(a) \cap d.map = {}
    BY <1>3, BlocksAre
  <2>1. /\ d1 \in Disk /\ d1.map = d.map \cup Span(a) /\ d1.fd = d.fd
        /\ d1.data = d.data
    BY <1>3, <1>7, AllocatedIs
  <2> HIDE DEF d1
  <2>2. CASE NoMoreFit(f)
    <3> DEFINE e == [d |-> d2, f |-> f, err |-> "E_SLF"]
    <3>1. Extend(d, f) = e
      BY <1>4, <1>7, <2>2
    <3>2. e.d = d2 /\ e.f = f /\ e.err = "E_SLF"
      OBVIOUS
    <3> HIDE DEF e
    <3>3. /\ d2 \in Disk /\ d2.map = d1.map \ Span(a)
          /\ \A s \in Sector : /\ d2.fd[s] = IF s \in Span(a) THEN NoFD ELSE d1.fd[s]
                               /\ d2.data[s] = IF s \in Span(a) THEN Junk ELSE d1.data[s]
      <4>1. Span(a) \subseteq d1.map
        BY <2>1
      <4> QED BY <2>1, <4>1, LetThemGoIs DEF GivenBack
    <3> HIDE DEF d2
    <3>4. d2.map = d.map
      BY <2>0, <2>1, <3>3
    <3>5. \A s \in d.map : d2.fd[s] = d.fd[s] /\ d2.data[s] = d.data[s]
      BY <2>0, <2>1, <3>3, DiskParts
    <3>6. Joint(d2, f)
      BY <3>4, <3>5 DEF Joint
    <3>7. Grown(d, d2, f.fd_nr)
      <4>1. d2.fd[f.fd_nr] = d.fd[f.fd_nr]
        BY <3>5 DEF Joint
      <4>2. {} \in SUBSET Sector /\ {} \cap d.map = {} /\ d2.map = d.map \cup {}
        BY <3>4
      <4>3. Elements(d2.fd[f.fd_nr].blocks) = Elements(d.fd[f.fd_nr].blocks) \cup {}
        BY <4>1
      <4> QED BY <3>5, <4>2, <4>3 DEF Grown
    <3> QED BY <1>5, <3>1, <3>2, <3>3, <3>5, <3>6, <3>7
  <2>3. CASE ~NoMoreFit(f)
    <3> DEFINE e == [d |-> d3, f |-> g, err |-> "none"]
               r == [size |-> f.size, blocks |-> c]
    <3>1. Extend(d, f) = e
      BY <1>4, <1>7, <2>3
    <3>2. e.d = d3 /\ e.f = g /\ e.err = "none"
      OBVIOUS
    <3> HIDE DEF e
    <3>3. /\ r \in FileD /\ c \in Seq(Sector)
          /\ Len(c) = Len(f.blocks) + a.scs /\ Elements(c) = Elements(f.blocks) \cup Span(a)
          /\ \A k \in 1 .. Len(f.blocks) : c[k] = f.blocks[k]
      <4>1. d.fd[f.fd_nr] \in FileD /\ f.size \in 0 .. MaxLen
        BY <1>1, DiskParts, PathParts
      <4>2. [size |-> f.size, blocks |-> f.blocks] \in FileD /\ Elements(f.blocks) \subseteq d.map
        BY <4>1 DEF Joint
      <4>3. Segments(f.blocks) # MaxSegs
        BY <2>3 DEF NoMoreFit
      <4>4. Lengthened(f.blocks, a, f.size)
        BY <1>1, <1>3, <4>1, <4>2, <4>3, LongerFileD
      <4> QED BY <4>4 DEF Lengthened
    <3> HIDE DEF c
    <3>4. /\ g \in PathType /\ g.blocks = c /\ SameFile(f, g)
          /\ g.currPos = f.currPos /\ g.lastPos = f.lastPos
          /\ g.rw_nr = f.rw_nr /\ g.rw_sct = f.rw_sct /\ g.mustW = f.mustW
      BY <1>1, <3>3, SetBlocks
    <3> HIDE DEF g
    <3>5. g.fd_nr = f.fd_nr /\ g.size = f.size /\ g.name = f.name /\ g.wMode
      BY <3>4 DEF SameFile
    <3>6. /\ d3 \in Disk /\ d3.map = d1.map /\ d3.data = d1.data
          /\ \A s \in Sector : d3.fd[s] = IF s = f.fd_nr THEN r ELSE d1.fd[s]
      <4>1. r = [size |-> g.size, blocks |-> g.blocks] /\ g.fd_nr \in Sector
        BY <1>1, <3>4, <3>5
      <4> HIDE DEF r
      <4> QED BY <2>1, <3>3, <3>5, <4>1, WriteFDIs
    <3> HIDE DEF d3
    <3>7. Longer(f, g) /\ Len(g.blocks) > Len(f.blocks)
      <4>1. a.scs \in Nat /\ Len(f.blocks) \in Nat
        BY <1>1, <1>3 DEF Fits
      <4> QED BY <1>7, <3>3, <3>4, <4>1 DEF Longer
    <3>8. PathOK(g)
      <4>1. f.currPos \in Nat /\ f.lastPos \in Nat /\ f.size \in Nat /\ Len(f.blocks) \in Nat
            /\ Len(c) \in Nat
        BY <1>1, <3>3, PathParts
      <4>2. /\ g.currPos <= Len(g.blocks) /\ g.lastPos <= Len(g.blocks)
            /\ g.size <= Len(g.blocks)
        BY <3>4, <3>5, <3>7, <4>1 DEF PathOK
      <4>3. Buffer(g)
        <5> SUFFICES ASSUME g.mustW
                     PROVE  \E k \in 1 .. Len(g.blocks) : /\ g.rw_nr = g.blocks[k]
                                                          /\ g.rw_sct = Text(g.name, k - 1)
          BY DEF Buffer
        <5>1. PICK k \in 1 .. Len(f.blocks) : /\ f.rw_nr = f.blocks[k]
                                              /\ f.rw_sct = Text(f.name, k - 1)
          BY <3>4 DEF PathOK, Buffer
        <5>2. k \in 1 .. Len(g.blocks) /\ g.blocks[k] = f.blocks[k]
          BY <3>4, <3>7, <4>1 DEF Longer
        <5> QED BY <3>4, <3>5, <5>1, <5>2
      <4> QED BY <3>4, <3>5, <4>2, <4>3 DEF PathOK
    <3>9. Joint(d3, g)
      <4>1. /\ f.fd_nr \in d.map /\ f.fd_nr \notin Elements(f.blocks)
            /\ Elements(f.blocks) \subseteq d.map
        BY DEF Joint
      <4>2. f.fd_nr \notin Elements(c) /\ Elements(c) \subseteq d3.map /\ f.fd_nr \in d3.map
        BY <2>0, <2>1, <3>3, <3>6, <4>1
      <4>3. d3.fd[f.fd_nr] = [size |-> g.size, blocks |-> g.blocks]
        BY <1>1, <3>4, <3>5, <3>6
      <4> QED BY <3>4, <3>5, <4>2, <4>3 DEF Joint
    <3>10. Grown(d, d3, f.fd_nr)
      <4>1. Span(a) \in SUBSET Sector /\ Span(a) \cap d.map = {} /\ d3.map = d.map \cup Span(a)
        BY <2>0, <2>1, <3>6
      <4>2. d3.fd[f.fd_nr].blocks = c /\ d.fd[f.fd_nr].blocks = f.blocks
        BY <1>1, <3>6 DEF Joint
      <4>3. Elements(d3.fd[f.fd_nr].blocks) = Elements(d.fd[f.fd_nr].blocks) \cup Span(a)
        BY <3>3, <4>2
      <4>4. \A t \in d.map : t # f.fd_nr => d3.fd[t] = d.fd[t]
        BY <2>1, <3>6, DiskParts
      <4>5. \A t \in d.map : d3.data[t] = d.data[t]
        BY <2>1, <3>6
      <4> QED BY <4>1, <4>3, <4>4, <4>5 DEF Grown
    <3>11. \A t \in d.map : d3.data[t] = d.data[t]
      BY <2>1, <3>6
    <3> QED BY <3>1, <3>2, <3>4, <3>6, <3>7, <3>8, <3>9, <3>10, <3>11
  <2> QED BY <2>2, <2>3
<1> QED BY <1>6, <1>7

-----------------------------------------------------------------------------
(* The buffer and the rounds of a call *)

\* Positions are in the file, so that none is clamped.
LEMMA ReadableIs ==
  ASSUME NEW f, PathOK(f)
  PROVE  /\ Clamped(f) = f /\ Readable(f) = Larger(f.size, f.lastPos)
         /\ Readable(f) \in 0 .. MaxLen /\ Readable(f) \in Nat /\ Readable(f) <= Len(f.blocks)
         /\ f.lastPos <= Readable(f) /\ f.size <= Readable(f)
<1>1. /\ f \in PathType /\ f.lastPos \in 0 .. MaxLen /\ f.size \in 0 .. MaxLen
      /\ f.lastPos \in Nat /\ f.size \in Nat /\ Len(f.blocks) \in Nat
      /\ f.lastPos <= Len(f.blocks) /\ f.size <= Len(f.blocks)
  BY PathParts DEF PathOK
<1>2. Smaller(f.lastPos, Len(f.blocks)) = f.lastPos /\ Smaller(f.size, Len(f.blocks)) = f.size
  BY <1>1 DEF Smaller
<1>3. Clamped(f) = f
  <2>1. Clamped(f) = [f EXCEPT !.lastPos = f.lastPos]
    BY <1>2, Zenon DEF Clamped
  <2>2. [f EXCEPT !.lastPos = f.lastPos] = f
    BY <1>1 DEF PathType
  <2> QED BY <2>1, <2>2
<1>4. Readable(f) = Larger(f.size, f.lastPos)
  BY <1>2, <1>3 DEF Readable
<1> QED BY <1>1, <1>3, <1>4 DEF Larger

\* Sectors of a file that follow each other on the disk.
LEMMA ContiguousIs ==
  ASSUME NEW f, PathOK(f), NEW n \in Nat \ {0}, f.currPos < Len(f.blocks)
  PROVE  LET m == Contiguous(f, n)
         IN  /\ m \in 1 .. n /\ f.currPos + m <= Len(f.blocks)
             /\ \A i \in 1 .. m : f.blocks[f.currPos + i] = f.blocks[f.currPos + 1] + i - 1
<1> DEFINE k == f.currPos
           len == Len(f.blocks)
           S == {i \in Nat : f.blocks[k + i] = f.blocks[k + 1] + i - 1}
           top == Smaller(n, len - k)
           Good(m) == /\ k + m <= len
                      /\ \A i \in 1 .. m : f.blocks[k + i] = f.blocks[k + 1] + i - 1
                      /\ m = n \/ k + m = len \/ f.blocks[k + m + 1] # f.blocks[k + m] + 1
<1>1. k \in Nat /\ len \in Nat /\ k < len /\ \A i \in 1 .. len : f.blocks[i] \in Nat
  BY PathParts, SectorIsNat DEF PathOK
<1>2. top \in Nat \ {0} /\ top <= n /\ k + top <= len /\ (top = n \/ k + top = len)
  BY <1>1 DEF Smaller
<1>3. k + 1 \in 1 .. len /\ f.blocks[k + 1] \in Nat
  BY <1>1
<1>4. 1 \in S
  BY <1>3
<1> HIDE DEF top
<1>5. PICK r \in 1 .. top : (\A i \in 1 .. r : i \in S) /\ (r = top \/ r + 1 \notin S)
  BY <1>2, <1>4, RunEnds
<1>6. r \in 1 .. n /\ Good(r)
  <2>1. r \in 1 .. n /\ k + r <= len
    BY <1>1, <1>2
  <2>2. \A i \in 1 .. r : f.blocks[k + i] = f.blocks[k + 1] + i - 1
    BY <1>5
  <2>3. r = n \/ k + r = len \/ f.blocks[k + r + 1] # f.blocks[k + r] + 1
    <3>1. CASE r = top
      BY <1>2, <3>1
    <3>2. CASE r + 1 \notin S
      <4>1. f.blocks[k + (r + 1)] # f.blocks[k + 1] + (r + 1) - 1
        BY <3>2
      <4>2. f.blocks[k + r] = f.blocks[k + 1] + r - 1
        BY <2>2
      <4>3. k + (r + 1) = k + r + 1
        BY <1>1
      <4> QED BY <1>3, <4>1, <4>2, <4>3
    <3> QED BY <1>5, <3>1, <3>2
  <2> QED BY <2>1, <2>2, <2>3
<1>7. Contiguous(f, n) = CHOOSE m \in 1 .. n : Good(m)
  BY Zenon DEF Contiguous
<1> HIDE DEF Good
<1>8. Contiguous(f, n) \in 1 .. n /\ Good(Contiguous(f, n))
  BY <1>6, <1>7
<1> QED BY <1>8 DEF Good

\* Up to a position, the sectors of a path have the text for their places on the disk.
OnDisk(d, f, top) == \A k \in 1 .. top : d.data[f.blocks[k]] = Text(f.name, k - 1)

\* What Flush leaves as it was.
Flushed(d, e, f) ==
  /\ e \in Disk /\ e.map = d.map /\ e.fd = d.fd
  /\ \A t \in Sector : e.data[t] = d.data[t] \/ (f.mustW /\ t = f.rw_nr)

\* No two sectors of a file that is written are the same.
LEMMA Different ==
  ASSUME NEW d \in Disk, NEW f, PathOK(f), Joint(d, f),
         NEW i \in 1 .. Len(f.blocks), NEW j \in 1 .. Len(f.blocks), f.blocks[i] = f.blocks[j]
  PROVE  i = j
<1>1. d.fd[f.fd_nr] \in FileD /\ d.fd[f.fd_nr].blocks = f.blocks
  BY DiskParts, PathParts DEF Joint, PathOK
<1> QED BY <1>1 DEF FileD

\* The buffered sector goes to the disk, at its place.
LEMMA FlushIs ==
  ASSUME NEW d \in Disk, NEW f, PathOK(f), f.wMode => Joint(d, f)
  PROVE  /\ Flushed(d, Flush(d, f), f) /\ (~f.wMode => Flush(d, f) = d)
         /\ \A t \in d.map : t \notin Elements(f.blocks) => Flush(d, f).data[t] = d.data[t]
<1>1. f \in PathType /\ f.rw_sct \in Content /\ f.rw_nr \in {0} \cup Sector
  BY PathParts DEF PathOK
<1>2. CASE ~f.mustW
  <2>1. Flush(d, f) = d
    BY <1>2, Zenon DEF Flush
  <2> QED BY <2>1 DEF Flushed
<1>3. CASE f.mustW
  <2> DEFINE g == [d.data EXCEPT ![f.rw_nr] = f.rw_sct]
             e == [d EXCEPT !.data = g]
  <2>1. Flush(d, f) = e
    BY <1>3, Zenon DEF Flush
  <2>2. f.wMode
    BY <1>1, <1>3, PathParts DEF PathOK
  <2>3. f.rw_nr \in Elements(f.blocks)
    <3>1. PICK k \in 1 .. Len(f.blocks) : f.rw_nr = f.blocks[k]
      BY <1>3 DEF PathOK, Buffer
    <3> QED BY <3>1 DEF Elements
  <2>4. f.rw_nr \in Sector
    BY <2>2, <2>3, DiskParts DEF Joint
  <2>5. g \in [Sector -> Content] /\ \A t \in Sector : g[t] = d.data[t] \/ t = f.rw_nr
    BY <1>1, <2>4, DiskParts
  <2> HIDE DEF g
  <2>6. e \in Disk /\ e.map = d.map /\ e.fd = d.fd /\ e.data = g
    BY <2>5, Zenon DEF Disk
  <2>7. \A t \in d.map : t \in Sector
    BY DiskParts
  <2> HIDE DEF e
  <2>8. Flushed(d, e, f)
    BY <1>3, <2>5, <2>6 DEF Flushed
  <2>9. \A t \in d.map : t \notin Elements(f.blocks) => e.data[t] = d.data[t]
    BY <2>3, <2>5, <2>6, <2>7
  <2> QED BY <2>1, <2>2, <2>8, <2>9
<1> QED BY <1>2, <1>3

\* What the path has in its file is on the disk then.
LEMMA FlushHolds ==
  ASSUME NEW d \in Disk, NEW f, PathOK(f), f.wMode, Joint(d, f),
         NEW top \in 0 .. Len(f.blocks), Held(d, f, top)
  PROVE  OnDisk(Flush(d, f), f, top)
<1>1. f \in PathType /\ f.rw_sct \in Content /\ Len(f.blocks) \in Nat
  BY PathParts DEF PathOK
<1>2. CASE ~f.mustW
  <2>1. Flush(d, f) = d
    BY <1>2, Zenon DEF Flush
  <2> QED BY <1>2, <2>1 DEF Held, OnDisk
<1>3. CASE f.mustW
  <2> DEFINE g == [d.data EXCEPT ![f.rw_nr] = f.rw_sct]
             e == [d EXCEPT !.data = g]
  <2>1. Flush(d, f) = e
    BY <1>3, Zenon DEF Flush
  <2>2. PICK j \in 1 .. Len(f.blocks) : f.rw_nr = f.blocks[j] /\ f.rw_sct = Text(f.name, j - 1)
    BY <1>3 DEF PathOK, Buffer
  <2>3. \A t \in Sector : g[t] = IF t = f.rw_nr THEN f.rw_sct ELSE d.data[t]
    BY DiskParts
  <2> HIDE DEF g
  <2>4. e.data = g
    BY Zenon DEF Disk
  <2> HIDE DEF e
  <2> SUFFICES ASSUME NEW k \in 1 .. top PROVE e.data[f.blocks[k]] = Text(f.name, k - 1)
    BY <2>1 DEF OnDisk
  <2>5. k \in 1 .. Len(f.blocks) /\ f.blocks[k] \in Sector
    BY <1>1, PathParts
  <2>6. CASE f.blocks[k] = f.rw_nr
    <3>1. k = j
      BY <2>2, <2>5, <2>6, Different
    <3> QED BY <2>2, <2>3, <2>4, <2>5, <2>6, <3>1
  <2>7. CASE f.blocks[k] # f.rw_nr
    <3>1. d.data[f.blocks[k]] = Text(f.name, k - 1)
      BY <2>7 DEF Held
    <3> QED BY <2>3, <2>4, <2>5, <2>7, <3>1
  <2> QED BY <2>6, <2>7
<1> QED BY <1>2, <1>3

\* The state of a call: the disk, the path, and what is left to do.
Accesses == [d : Disk, f : PathType, left : Nat, err : {"none", "E_FULL", "E_SLF"}]

CallOK(x) == /\ x \in Accesses /\ PathOK(x.f) /\ (x.f.wMode => Joint(x.d, x.f))
             /\ x.f.currPos + x.left <= MaxLen

\* What has become of it some rounds later: of a path that cannot write, nothing on the disk.
Later(x, y) == /\ SameFile(x.f, y.f) /\ Longer(x.f, y.f) /\ y.f.lastPos = x.f.lastPos
               /\ Grown(x.d, y.d, x.f.fd_nr) /\ (~x.f.wMode => y.d = x.d)

\* And what a path that writes has in its file is still there.
Whole(x) == Held(x.d, x.f, x.f.lastPos) /\ Held(x.d, x.f, x.f.currPos)
Kept(x, y) == x.f.wMode /\ Whole(x) => Whole(y)

\* What a round, or several, may do.
Round(x, y) == CallOK(y) /\ Later(x, y) /\ Kept(x, y)

\* The parts of such a state.
LEMMA AccessParts ==
  ASSUME NEW x, CallOK(x)
  PROVE  /\ x.d \in Disk /\ x.f \in PathType /\ x.left \in Nat
         /\ x.err \in {"none", "E_FULL", "E_SLF"}
BY DEF CallOK, Accesses

\* Rounds, one after the other.
LEMMA RoundsInTurn ==
  ASSUME NEW x, NEW y, NEW z, CallOK(x), Round(x, y), Round(y, z)
  PROVE  Round(x, z)
<1>1. SameFile(x.f, z.f) /\ x.f.fd_nr = y.f.fd_nr /\ x.f.wMode = y.f.wMode
  BY DEF Round, Later, SameFile
<1>2. Longer(x.f, z.f)
  <2>1. Len(x.f.blocks) \in Nat /\ Len(y.f.blocks) \in Nat /\ Len(z.f.blocks) \in Nat
    BY AccessParts, PathParts DEF Round
  <2>2. Longer(x.f, y.f) /\ Longer(y.f, z.f)
    BY DEF Round, Later
  <2> DEFINE a == x.f.blocks
             b == y.f.blocks
             c == z.f.blocks
  <2>3. /\ Len(a) \in Nat /\ Len(b) \in Nat /\ Len(c) \in Nat
        /\ Len(a) <= Len(b) /\ \A k \in 1 .. Len(a) : b[k] = a[k]
        /\ Len(b) <= Len(c) /\ \A k \in 1 .. Len(b) : c[k] = b[k]
    BY <2>1, <2>2 DEF Longer
  <2> HIDE DEF a, b, c
  <2>4. Len(a) <= Len(c) /\ \A k \in 1 .. Len(a) : c[k] = a[k]
    <3>1. \A k \in 1 .. Len(a) : k \in 1 .. Len(b)
      BY <2>3
    <3> QED BY <2>3, <3>1
  <2> QED BY <2>4 DEF Longer, a, c
<1>3. Grown(x.d, z.d, x.f.fd_nr)
  BY <1>1, GrownInTurn DEF Round, Later
<1> QED BY <1>1, <1>2, <1>3 DEF Round, Later, Kept

\* No round.
LEMMA NoRound ==
  ASSUME NEW x, CallOK(x)
  PROVE  Round(x, x)
<1>1. Grown(x.d, x.d, x.f.fd_nr)
  BY GrownByNothing
<1> QED BY <1>1 DEF Round, Later, Kept, SameFile, Longer

\* A call before its first round.
LEMMA AccessIs ==
  ASSUME NEW f, PathOK(f), disk \in Disk, f.wMode => Joint(disk, f), NEW n \in Nat,
         f.currPos + n <= MaxLen
  PROVE  LET x == Access(f, n)
         IN  CallOK(x) /\ x.d = disk /\ x.f = f /\ x.left = n /\ x.err = "none"
BY DEF Access, CallOK, Accesses, PathOK

\* Room is made at the end of the file, if there is none.
LEMMA WithRoomIs ==
  ASSUME NEW x, CallOK(x), x.f.wMode
  PROVE  LET y == WithRoom(x)
         IN  /\ Round(x, y) /\ y.left = x.left /\ y.f.currPos = x.f.currPos
             /\ y.f.wMode /\ (y.err = "none" => y.f.currPos < Len(y.f.blocks))
<1> DEFINE e == Extend(x.d, x.f)
           y1 == [x EXCEPT !.d = e.d]
           y2 == [y1 EXCEPT !.f = e.f]
           y3 == [y2 EXCEPT !.err = e.err]
           z == [x EXCEPT !.f = Clamped(@)]
<1>1. /\ x.d \in Disk /\ PathOK(x.f) /\ Joint(x.d, x.f) /\ x.f \in PathType
      /\ x.left \in Nat /\ x.f.lastPos \in Nat /\ x.f.currPos \in Nat
      /\ x.f.lastPos <= Len(x.f.blocks) /\ x.f.currPos <= Len(x.f.blocks)
  BY AccessParts, PathParts DEF CallOK, PathOK
<1>2. Clamped(x.f) = x.f
  BY <1>1, ReadableIs
<1>3. CASE x.f.currPos >= Len(x.f.blocks)
  <2>1. WithRoom(x) = y3
    <3>1. WithRoom(x) = Joined(x, e)
      BY <1>2, <1>3, Zenon DEF WithRoom
    <3> HIDE DEF e
    <3> QED BY <3>1 DEF Joined, CallOK, Accesses
  <2>2. /\ e.d \in Disk /\ PathOK(e.f) /\ Joint(e.d, e.f) /\ Grown(x.d, e.d, x.f.fd_nr)
        /\ SameFile(x.f, e.f) /\ Longer(x.f, e.f)
        /\ e.f.currPos = x.f.currPos /\ e.f.lastPos = x.f.lastPos
        /\ e.f.mustW = x.f.mustW /\ e.f.rw_nr = x.f.rw_nr
        /\ \A t \in x.d.map : e.d.data[t] = x.d.data[t]
        /\ e.err \in {"none", "E_FULL", "E_SLF"}
        /\ e.err = "none" => Len(e.f.blocks) > Len(x.f.blocks)
    BY <1>1, ExtendIs
  <2> HIDE DEF e
  <2>3. /\ y3 \in Accesses /\ y3.d = e.d /\ y3.f = e.f /\ y3.err = e.err /\ y3.left = x.left
    BY <2>2 DEF CallOK, Accesses, PathOK
  <2> HIDE DEF y3
  <2>4. e.f.wMode /\ e.f.name = x.f.name /\ e.f \in PathType
    BY <2>2 DEF SameFile, PathOK
  <2>5. CallOK(y3)
    BY <2>2, <2>3 DEF CallOK
  <2>6. Later(x, y3)
    BY <2>2, <2>3 DEF Later
  <2>7. ASSUME NEW top \in 0 .. Len(x.f.blocks), Held(x.d, x.f, top)
        PROVE  Held(y3.d, y3.f, top)
    <3> SUFFICES ASSUME NEW k \in 1 .. top
                 PROVE  \/ e.d.data[e.f.blocks[k]] = Text(e.f.name, k - 1)
                        \/ e.f.mustW /\ e.f.rw_nr = e.f.blocks[k]
      BY <2>3 DEF Held
    <3>1. k \in 1 .. Len(x.f.blocks) /\ x.f.blocks[k] \in Elements(x.f.blocks)
      BY <1>1, PathParts
    <3>2. e.f.blocks[k] = x.f.blocks[k] /\ x.f.blocks[k] \in x.d.map
      BY <1>1, <2>2, <3>1 DEF Longer, Joint
    <3>3. \/ x.d.data[x.f.blocks[k]] = Text(x.f.name, k - 1)
          \/ x.f.mustW /\ x.f.rw_nr = x.f.blocks[k]
      BY <2>7 DEF Held
    <3> QED BY <2>2, <2>4, <3>2, <3>3
  <2>8. Kept(x, y3)
    BY <1>1, <2>2, <2>3, <2>7 DEF Kept, Whole
  <2>9. y3.err = "none" => y3.f.currPos < Len(y3.f.blocks)
    <3>1. Len(e.f.blocks) \in Nat
      BY <2>4, PathParts
    <3> QED BY <1>1, <2>2, <2>3, <3>1
  <2> QED BY <2>1, <2>2, <2>3, <2>4, <2>5, <2>6, <2>8, <2>9 DEF Round
<1>4. CASE ~(x.f.currPos >= Len(x.f.blocks))
  <2>1. WithRoom(x) = [x EXCEPT !.f = x.f]
    BY <1>2, <1>4, Zenon DEF WithRoom
  <2>2. [x EXCEPT !.f = x.f] = x
    BY DEF CallOK, Accesses
  <2>3. Len(x.f.blocks) \in Nat
    BY <1>1, PathParts
  <2> QED BY <1>1, <1>4, <2>1, <2>2, <2>3, NoRound
<1> QED BY <1>3, <1>4

\* A round that leaves a path its sectors.
Same(f, g) == SameFile(f, g) /\ g.blocks = f.blocks /\ g.lastPos = f.lastPos

\* The path has moved on, and its buffer need not be written.
LEMMA MovedOn ==
  ASSUME NEW f, PathOK(f), NEW s \in Sector, NEW text \in Content,
         NEW n \in Nat, f.currPos + n <= MaxLen, f.currPos + n <= Len(f.blocks)
  PROVE  LET g == [InStep(f, s, text) EXCEPT !.currPos = @ + n]
         IN  PathOK(g) /\ Same(f, g) /\ g.currPos = f.currPos + n /\ ~g.mustW
<1> DEFINE r == IF Buffered THEN s ELSE 0
           t == IF Buffered THEN text ELSE Junk
           f1 == [f EXCEPT !.rw_nr = r]
           f2 == [f1 EXCEPT !.rw_sct = t]
           f3 == [f2 EXCEPT !.mustW = FALSE]
           p == f.currPos + n
           g == [f3 EXCEPT !.currPos = p]
<1>1. f \in PathType /\ r \in {0} \cup Sector /\ t \in Content /\ p \in 0 .. MaxLen
  BY PathParts DEF PathOK, Content
<1> HIDE DEF r, t
<1>2. f1 \in PathType /\ Same(f, f1) /\ f1.currPos = f.currPos
  BY <1>1 DEF PathType, Same, SameFile
<1>3. InStep(f, s, text) = f3
  BY <1>1 DEF InStep, PathType, r, t
<1> HIDE DEF f1
<1>4. f2 \in PathType /\ Same(f, f2) /\ f2.currPos = f.currPos
  BY <1>1, <1>2 DEF PathType, Same, SameFile, Content
<1> HIDE DEF f2
<1>5. f3 \in PathType /\ Same(f, f3) /\ f3.currPos = f.currPos /\ f3.mustW = FALSE
  BY <1>4 DEF PathType, Same, SameFile
<1> HIDE DEF f3
<1>6. [InStep(f, s, text) EXCEPT !.currPos = @ + n] = g
  BY <1>3, <1>5
<1> HIDE DEF p
<1>7. g \in PathType /\ Same(f, g) /\ g.currPos = p /\ g.mustW = FALSE
  BY <1>1, <1>5 DEF PathType, Same, SameFile
<1> HIDE DEF g
<1>8. PathOK(g)
  BY <1>7 DEF PathOK, Same, SameFile, Buffer, p
<1> QED BY <1>6, <1>7, <1>8 DEF p

\* The path has put a sector into its buffer.
LEMMA Buffering ==
  ASSUME NEW f, PathOK(f), f.wMode, f.currPos + 1 <= MaxLen, f.currPos + 1 <= Len(f.blocks)
  PROVE  LET sect == f.blocks[f.currPos + 1]
             g == [f EXCEPT !.rw_nr = sect, !.rw_sct = Text(f.name, f.currPos),
                            !.mustW = TRUE, !.currPos = @ + 1]
         IN  PathOK(g) /\ Same(f, g) /\ g.currPos = f.currPos + 1 /\ g.mustW /\ g.rw_nr = sect
<1> DEFINE s == f.blocks[f.currPos + 1]
           t == Text(f.name, f.currPos)
           f1 == [f EXCEPT !.rw_nr = s]
           f2 == [f1 EXCEPT !.rw_sct = t]
           f3 == [f2 EXCEPT !.mustW = TRUE]
           p == f.currPos + 1
           g == [f3 EXCEPT !.currPos = p]
           h == [f EXCEPT !.rw_nr = s, !.rw_sct = t, !.mustW = TRUE, !.currPos = @ + 1]
<1>1. f \in PathType /\ s \in {0} \cup Sector /\ t \in Content /\ p \in 0 .. MaxLen
  <2>1. f \in PathType /\ p \in 1 .. Len(f.blocks) /\ p \in 0 .. MaxLen
    BY PathParts DEF PathOK
  <2>2. f.currPos \in 0 .. MaxLen /\ f.name \in Name
    BY <2>1, PathParts
  <2>3. s \in Sector
    BY <2>1, PathParts, Zenon
  <2> QED BY <2>1, <2>2, <2>3 DEF Content, Text
<1>2. h = g
  BY <1>1 DEF PathType
<1>3. p \in 1 .. Len(f.blocks) /\ s = f.blocks[p] /\ t = Text(f.name, p - 1)
  BY <1>1, PathParts
<1> HIDE DEF s, t, h
<1>4. f1 \in PathType /\ Same(f, f1) /\ f1.currPos = f.currPos /\ f1.rw_nr = s
  BY <1>1 DEF PathType, Same, SameFile
<1> HIDE DEF f1
<1>5. /\ f2 \in PathType /\ Same(f, f2) /\ f2.currPos = f.currPos /\ f2.rw_nr = s
      /\ f2.rw_sct = t
  BY <1>1, <1>4 DEF PathType, Same, SameFile, Content
<1> HIDE DEF f2
<1>6. /\ f3 \in PathType /\ Same(f, f3) /\ f3.currPos = f.currPos /\ f3.mustW = TRUE
      /\ f3.rw_nr = s /\ f3.rw_sct = t
  BY <1>5 DEF PathType, Same, SameFile
<1> HIDE DEF f3
<1> HIDE DEF p
<1>7. /\ g \in PathType /\ Same(f, g) /\ g.currPos = p /\ g.mustW = TRUE
      /\ g.rw_nr = s /\ g.rw_sct = t
  BY <1>1, <1>6 DEF PathType, Same, SameFile
<1> HIDE DEF g
<1>8. Buffer(g)
  <2>1. g.blocks = f.blocks /\ g.name = f.name
    BY <1>7 DEF Same, SameFile
  <2> QED BY <1>3, <1>7, <2>1 DEF Buffer
<1>9. PathOK(g)
  <2>1. p <= Len(f.blocks)
    BY DEF p
  <2> QED BY <1>7, <1>8, <2>1 DEF PathOK, Same, SameFile
<1> QED BY <1>2, <1>7, <1>9 DEF p, h, s, t

\* Whatever a call does to the sectors of the file of a path that keeps them is a round.
LEMMA RoundHere ==
  ASSUME NEW x, CallOK(x), NEW y, y \in Accesses, PathOK(y.f), Same(x.f, y.f),
         y.f.currPos + y.left <= MaxLen, y.d.map = x.d.map, y.d.fd = x.d.fd,
         ~x.f.wMode => y.d = x.d,
         \A t \in x.d.map : t \notin Elements(x.f.blocks) => y.d.data[t] = x.d.data[t]
  PROVE  CallOK(y) /\ Later(x, y)
<1>1. CallOK(y)
  BY DEF CallOK, Joint, Same, SameFile
<1>2. Grown(x.d, y.d, x.f.fd_nr)
  <2>1. CASE ~x.f.wMode
    BY <2>1, GrownByNothing
  <2>2. CASE x.f.wMode
    <3>1. x.d.fd[x.f.fd_nr].blocks = x.f.blocks
      BY <2>2 DEF CallOK, Joint
    <3> QED BY <3>1, GrownByNothing
  <2> QED BY <2>1, <2>2
<1>3. Longer(x.f, y.f)
  <2>1. Len(x.f.blocks) \in Nat
    BY AccessParts, PathParts
  <2> QED BY <2>1 DEF Same, Longer
<1> QED BY <1>1, <1>2, <1>3 DEF Later, Same

\* Sector s is at position i of the n that follow each other from position p on.
InPlace(p, n, sect, s, i) == /\ s \in Nat /\ i \in p + 1 .. p + n /\ i - p \in 1 .. n
                             /\ sect + (i - p) - 1 = s /\ p + s - sect = i - 1

\* Each of those has a position.
LEMMA PlaceIs ==
  ASSUME NEW p \in Nat, NEW n \in Nat, NEW sect \in Nat, NEW s \in sect .. sect + n - 1
  PROVE  \E i \in p + 1 .. p + n : InPlace(p, n, sect, s, i)
<1> DEFINE i == p + (s - sect + 1)
<1>1. /\ s \in Nat /\ i \in p + 1 .. p + n /\ i - p \in 1 .. n
      /\ sect + (i - p) - 1 = s /\ p + s - sect = i - 1
  OBVIOUS
<1> HIDE DEF i
<1> QED BY <1>1 DEF InPlace

\* Sectors from sect on are written, and the file has the texts for their places then.
Texts(d, f, n, sect) ==
  [d EXCEPT !.data = [s \in Sector |-> IF s \in sect .. sect + n - 1
                                       THEN Text(f.name, f.currPos + s - sect) ELSE d.data[s]]]
TextsPut(d, e, f, n) ==
  /\ e \in Disk /\ e.map = d.map /\ e.fd = d.fd
  /\ \A t \in d.map : t \notin Elements(f.blocks) => e.data[t] = d.data[t]
  /\ \A k \in 1 .. Len(f.blocks) :
        e.data[f.blocks[k]] = IF k \in f.currPos + 1 .. f.currPos + n
                              THEN Text(f.name, k - 1) ELSE d.data[f.blocks[k]]

\* That is so when those are the sectors of the file at the position of the path.
LEMMA TextsIs ==
  ASSUME NEW d \in Disk, NEW f, PathOK(f), Joint(d, f), NEW n \in Nat \ {0},
         f.currPos + n <= Len(f.blocks), f.currPos + n <= MaxLen, NEW sect,
         \A i \in 1 .. n : f.blocks[f.currPos + i] = sect + i - 1,
         sect = f.blocks[f.currPos + 1]
  PROVE  TextsPut(d, Texts(d, f, n, sect), f, n) /\ sect + n - 1 \in Sector
<1> DEFINE p == f.currPos
           g == [s \in Sector |-> IF s \in sect .. sect + n - 1
                                  THEN Text(f.name, p + s - sect) ELSE d.data[s]]
           e == [d EXCEPT !.data = g]
<1>1. /\ f \in PathType /\ p \in Nat /\ f.name \in Name /\ Len(f.blocks) \in Nat
      /\ \A k \in 1 .. Len(f.blocks) : f.blocks[k] \in Sector /\ f.blocks[k] \in Elements(f.blocks)
  BY PathParts DEF PathOK
<1>2. sect \in Sector /\ sect \in Nat
  <2>1. p + 1 \in 1 .. Len(f.blocks)
    BY <1>1
  <2>2. f.blocks[p + 1] \in Sector
    BY <1>1, <2>1, Zenon
  <2> QED BY <2>2, SectorIsNat
<1> DEFINE There(s, i) == InPlace(p, n, sect, s, i) /\ i \in 1 .. Len(f.blocks)
                          /\ s = f.blocks[i] /\ i - 1 \in 0 .. MaxLen
<1>3. ASSUME NEW s \in sect .. sect + n - 1
      PROVE  \E i \in Nat : There(s, i)
  <2>1. n \in Nat /\ p \in Nat /\ sect \in Nat /\ Len(f.blocks) \in Nat /\ MaxLen \in Nat
    BY <1>1, <1>2, RbfAssumption
  <2>2. PICK i \in p + 1 .. p + n : InPlace(p, n, sect, s, i)
    <3> HIDE DEF p
    <3> QED BY <2>1, PlaceIs
  <2>3. p + n <= Len(f.blocks) /\ p + n <= MaxLen
    OBVIOUS
  <2>4. i \in Nat /\ i \in 1 .. Len(f.blocks) /\ i - 1 \in 0 .. MaxLen
    <3> DEFINE len == Len(f.blocks)
    <3> HIDE DEF p, len
    <3> QED BY <2>1, <2>2, <2>3 DEF len
  <2>5. f.blocks[p + (i - p)] = sect + (i - p) - 1
    BY <2>2 DEF InPlace
  <2>6. p + (i - p) = i
    BY <2>1, <2>4
  <2> QED BY <2>2, <2>4, <2>5, <2>6 DEF InPlace
<1>4. \A s \in sect .. sect + n - 1 : s \in Sector /\ s \in Elements(f.blocks)
  BY <1>1, <1>3
<1>5. \A s \in sect .. sect + n - 1 : Text(f.name, p + s - sect) \in Content
  <2> TAKE s \in sect .. sect + n - 1
  <2>1. PICK i \in Nat : There(s, i)
    BY <1>3
  <2>2. p + s - sect \in 0 .. MaxLen
    BY <2>1 DEF InPlace
  <2> QED BY <1>1, <2>2 DEF Content, Text
<1> HIDE DEF There
<1>6. g \in [Sector -> Content]
  BY <1>5, DiskParts
<1>7. \A s \in Sector : g[s] = IF s \in sect .. sect + n - 1
                               THEN Text(f.name, p + s - sect) ELSE d.data[s]
  OBVIOUS
<1> HIDE DEF g
<1>8. e \in Disk /\ e.map = d.map /\ e.fd = d.fd /\ e.data = g
  BY <1>6, Zenon DEF Disk
<1> HIDE DEF e
<1>9. \A t \in d.map : t \notin Elements(f.blocks) => e.data[t] = d.data[t]
  BY <1>4, <1>7, <1>8, DiskParts
<1>10. ASSUME NEW k \in 1 .. Len(f.blocks)
       PROVE  e.data[f.blocks[k]] = IF k \in p + 1 .. p + n
                                    THEN Text(f.name, k - 1) ELSE d.data[f.blocks[k]]
  <2> DEFINE s == f.blocks[k]
  <2>1. s \in Sector /\ k \in Nat
    BY <1>1
  <2>2. CASE s \in sect .. sect + n - 1
    <3>1. PICK i \in Nat : There(s, i)
      BY <1>3, <2>2
    <3>2. k = i
      BY <3>1, Different DEF There
    <3>3. k \in p + 1 .. p + n /\ p + s - sect = k - 1
      <4>1. InPlace(p, n, sect, s, i)
        BY <3>1 DEF There
      <4> HIDE DEF p, s
      <4> QED BY <3>2, <4>1 DEF InPlace
    <3> QED BY <1>7, <1>8, <2>1, <2>2, <3>3
  <2>3. CASE s \notin sect .. sect + n - 1
    <3>1. k \notin p + 1 .. p + n
      <4> SUFFICES ASSUME k \in p + 1 .. p + n PROVE FALSE
        OBVIOUS
      <4>1. k - p \in 1 .. n /\ p + (k - p) = k
        BY <1>1, <2>1
      <4>2. s = sect + (k - p) - 1
        BY <4>1
      <4> QED BY <1>2, <2>3, <4>1, <4>2
    <3> QED BY <1>7, <1>8, <2>1, <2>3, <3>1
  <2> QED BY <2>2, <2>3
<1>11. sect + n - 1 \in Sector
  <2>1. sect + n - 1 \in sect .. sect + n - 1
    BY <1>2
  <2> QED BY <1>4, <2>1
<1>12. Texts(d, f, n, sect) = e
  BY Zenon DEF Texts, e, g
<1>13. TextsPut(d, e, f, n)
  BY <1>8, <1>9, <1>10 DEF TextsPut
<1> QED BY <1>11, <1>12, <1>13

\* Several sectors go to the disk, after the buffered one.
LEMMA PutManyIs ==
  ASSUME NEW x, CallOK(x), x.f.wMode, x.f.currPos < Len(x.f.blocks), NEW n \in 1 .. x.left,
         x.f.currPos + n <= Len(x.f.blocks), NEW sect, sect = x.f.blocks[x.f.currPos + 1],
         \A i \in 1 .. n : x.f.blocks[x.f.currPos + i] = sect + i - 1
  PROVE  LET y == PutMany([x EXCEPT !.d = Flush(@, x.f)], x.f, sect, n)
         IN  Round(x, y) /\ y.left = x.left - n /\ y.err = x.err
<1> DEFINE d1 == Flush(x.d, x.f)
           x1 == [x EXCEPT !.d = d1]
           p == x.f.currPos
           d2 == Texts(d1, x.f, n, sect)
           g == [InStep(x.f, sect + n - 1, x.f.rw_sct) EXCEPT !.currPos = @ + n]
           x2 == [x1 EXCEPT !.d = d2]
           x3 == [x2 EXCEPT !.f = g]
           l == x.left - n
           y == [x3 EXCEPT !.left = l]
<1>1. /\ x.d \in Disk /\ PathOK(x.f) /\ Joint(x.d, x.f) /\ x.f \in PathType /\ x.left \in Nat
      /\ p \in Nat /\ Len(x.f.blocks) \in Nat /\ p + x.left <= MaxLen /\ x.f.rw_sct \in Content
      /\ x.f.lastPos \in 0 .. Len(x.f.blocks) /\ p \in 0 .. Len(x.f.blocks)
  BY AccessParts, PathParts DEF CallOK, PathOK
<1>2. /\ d1 \in Disk /\ d1.map = x.d.map /\ d1.fd = x.d.fd
      /\ \A t \in x.d.map : t \notin Elements(x.f.blocks) => d1.data[t] = x.d.data[t]
  BY <1>1, FlushIs DEF Flushed
<1>3. Joint(d1, x.f)
  BY <1>1, <1>2 DEF Joint
<1>4. n \in Nat \ {0} /\ p + n <= MaxLen
  BY <1>1, RbfAssumption
<1>5. \A top \in 0 .. Len(x.f.blocks) : Held(x.d, x.f, top) => OnDisk(d1, x.f, top)
  BY <1>1, FlushHolds
<1> HIDE DEF d1
<1>6. TextsPut(d1, d2, x.f, n) /\ sect + n - 1 \in Sector
  BY <1>1, <1>2, <1>3, <1>4, TextsIs
<1> HIDE DEF d2
<1>7. /\ d2 \in Disk /\ d2.map = d1.map /\ d2.fd = d1.fd
      /\ \A t \in d1.map : t \notin Elements(x.f.blocks) => d2.data[t] = d1.data[t]
      /\ \A k \in 1 .. Len(x.f.blocks) :
            d2.data[x.f.blocks[k]] = IF k \in p + 1 .. p + n
                                     THEN Text(x.f.name, k - 1) ELSE d1.data[x.f.blocks[k]]
  BY <1>6 DEF TextsPut
<1>8. PathOK(g) /\ Same(x.f, g) /\ g.currPos = p + n /\ ~g.mustW
  BY <1>1, <1>4, <1>6, MovedOn
<1> HIDE DEF g
<1>9. PutMany([x EXCEPT !.d = Flush(@, x.f)], x.f, sect, n) = y
  <2>1. x1 = [x EXCEPT !.d = Flush(@, x.f)]
    BY Zenon DEF d1
  <2>2. x1.d = d1 /\ x1.left = x.left
    BY DEF CallOK, Accesses
  <2> HIDE DEF x1
  <2>3. PutMany(x1, x.f, sect, n) = [x1 EXCEPT !.d = d2, !.f = g, !.left = l]
    BY <2>2, Zenon DEF PutMany, Texts, d2, g
  <2> QED BY <2>1, <2>3, Zenon
<1>10. l \in Nat /\ (p + n) + l <= MaxLen
  <2> HIDE DEF p
  <2> QED BY <1>1, RbfAssumption
<1> HIDE DEF l
<1>11. x1 \in Accesses /\ x1.f = x.f /\ x1.left = x.left /\ x1.err = x.err
  BY <1>2 DEF CallOK, Accesses
<1> HIDE DEF x1
<1>12. x2 \in Accesses /\ x2.d = d2 /\ x2.left = x.left /\ x2.err = x.err
  BY <1>7, <1>11 DEF Accesses
<1> HIDE DEF x2
<1>13. x3 \in Accesses /\ x3.d = d2 /\ x3.f = g /\ x3.left = x.left /\ x3.err = x.err
  BY <1>8, <1>12 DEF Accesses, PathOK
<1> HIDE DEF x3
<1>14. y \in Accesses /\ y.d = d2 /\ y.f = g /\ y.left = l /\ y.err = x.err
  BY <1>10, <1>13 DEF Accesses
<1> HIDE DEF y
<1>15. CallOK(y) /\ Later(x, y)
  <2>1. \A t \in x.d.map : t \notin Elements(x.f.blocks) => y.d.data[t] = x.d.data[t]
    BY <1>2, <1>7, <1>14
  <2> QED BY <1>2, <1>7, <1>8, <1>10, <1>14, <2>1, RoundHere
<1>16. ASSUME Whole(x) PROVE Whole(y)
  <2>1. OnDisk(d1, x.f, x.f.lastPos) /\ OnDisk(d1, x.f, p)
    BY <1>1, <1>5, <1>16 DEF Whole
  <2>2. y.f.name = x.f.name /\ y.f.blocks = x.f.blocks /\ y.f.lastPos = x.f.lastPos
    BY <1>8, <1>14 DEF Same, SameFile
  <2>3. ASSUME NEW k \in 1 .. Len(x.f.blocks), k <= x.f.lastPos \/ k <= p + n
        PROVE  d2.data[x.f.blocks[k]] = Text(x.f.name, k - 1)
    <3>1. CASE k \in p + 1 .. p + n
      BY <1>7, <3>1
    <3>2. CASE k \notin p + 1 .. p + n
      <4>1. k \in 1 .. x.f.lastPos \/ k \in 1 .. p
        BY <1>1, <1>4, <2>3, <3>2
      <4>2. d1.data[x.f.blocks[k]] = Text(x.f.name, k - 1)
        BY <2>1, <4>1 DEF OnDisk
      <4> QED BY <1>7, <3>2, <4>2
    <3> QED BY <3>1, <3>2
  <2>4. \A k \in 1 .. x.f.lastPos : d2.data[x.f.blocks[k]] = Text(x.f.name, k - 1)
    BY <1>1, <2>3
  <2>5. \A k \in 1 .. p + n : d2.data[x.f.blocks[k]] = Text(x.f.name, k - 1)
    BY <1>1, <1>4, <2>3
  <2> QED BY <1>8, <1>14, <2>2, <2>4, <2>5 DEF Whole, Held
<1> QED BY <1>9, <1>14, <1>15, <1>16 DEF Round, Kept, l

\* A single sector goes to the buffer; another one that was there goes to the disk.
LEMMA PutOneIs ==
  ASSUME NEW x, CallOK(x), x.f.wMode, x.f.currPos < Len(x.f.blocks), x.left = 1,
         NEW sect, sect = x.f.blocks[x.f.currPos + 1],
         NEW x1, x1 = [x EXCEPT !.d = Flush(@, x.f)] \/ (x1 = x /\ x.f.rw_nr = sect)
  PROVE  LET y == PutOne(x1, x.f, sect)
         IN  Round(x, y) /\ y.left = 0 /\ y.err = x.err
<1> DEFINE p == x.f.currPos
           g == [x.f EXCEPT !.rw_nr = sect, !.rw_sct = Text(x.f.name, p),
                            !.mustW = TRUE, !.currPos = @ + 1]
           x2 == [x1 EXCEPT !.f = g]
           y == [x2 EXCEPT !.left = 0]
<1>1. /\ x.d \in Disk /\ PathOK(x.f) /\ Joint(x.d, x.f) /\ x.f \in PathType /\ x.left \in Nat
      /\ p \in Nat /\ Len(x.f.blocks) \in Nat /\ p + 1 <= MaxLen
      /\ x.f.lastPos \in 0 .. Len(x.f.blocks) /\ p \in 0 .. Len(x.f.blocks)
      /\ p + 1 <= Len(x.f.blocks)
  BY AccessParts, PathParts DEF CallOK, PathOK
<1>2. PathOK(g) /\ Same(x.f, g) /\ g.currPos = p + 1 /\ g.mustW /\ g.rw_nr = sect
  BY <1>1, Buffering
<1>3. PutOne(x1, x.f, sect) = [x1 EXCEPT !.f = g, !.left = 0]
  BY Zenon DEF PutOne, g
<1> HIDE DEF g
<1>4. PICK d \in Disk : /\ x1 \in Accesses /\ x1.d = d /\ x1.left = x.left /\ x1.err = x.err
                        /\ d = Flush(x.d, x.f) \/ (d = x.d /\ x.f.rw_nr = sect)
  <2>1. CASE x1 = [x EXCEPT !.d = Flush(@, x.f)]
    <3> DEFINE d1 == Flush(x.d, x.f)
    <3>1. d1 \in Disk
      BY <1>1, FlushIs DEF Flushed
    <3>2. x1 = [x EXCEPT !.d = d1]
      BY <2>1, Zenon
    <3> HIDE DEF d1
    <3>3. x1 \in Accesses /\ x1.d = d1 /\ x1.left = x.left /\ x1.err = x.err
      BY <3>1, <3>2 DEF CallOK, Accesses
    <3> QED BY <3>1, <3>3 DEF d1
  <2>2. CASE x1 = x /\ x.f.rw_nr = sect
    BY <1>1, <2>2 DEF CallOK
  <2> QED BY <2>1, <2>2
<1>5. /\ d.map = x.d.map /\ d.fd = x.d.fd
      /\ \A t \in x.d.map : t \notin Elements(x.f.blocks) => d.data[t] = x.d.data[t]
  BY <1>1, <1>4, FlushIs DEF Flushed
<1>6. x2 \in Accesses /\ x2.d = d /\ x2.f = g /\ x2.err = x.err
  BY <1>2, <1>4 DEF Accesses, PathOK
<1>7. y = [x1 EXCEPT !.f = g, !.left = 0]
  BY Zenon
<1> HIDE DEF x2
<1>8. y \in Accesses /\ y.d = d /\ y.f = g /\ y.left = 0 /\ y.err = x.err
  BY <1>6 DEF Accesses
<1> HIDE DEF y
<1>9. CallOK(y) /\ Later(x, y)
  <2>1. y.f.currPos + y.left <= MaxLen
    BY <1>1, <1>2, <1>8
  <2> QED BY <1>2, <1>5, <1>8, <2>1, RoundHere
<1>10. ASSUME Whole(x) PROVE Whole(y)
  <2>1. y.f.name = x.f.name /\ y.f.blocks = x.f.blocks /\ y.f.lastPos = x.f.lastPos
    BY <1>2, <1>8 DEF Same, SameFile
  <2>2. ASSUME NEW top \in 0 .. Len(x.f.blocks), Held(x.d, x.f, top), NEW k \in 1 .. top
        PROVE  d.data[x.f.blocks[k]] = Text(x.f.name, k - 1) \/ sect = x.f.blocks[k]
    <3>1. CASE d = Flush(x.d, x.f)
      BY <1>1, <2>2, <3>1, FlushHolds DEF OnDisk
    <3>2. CASE d = x.d /\ x.f.rw_nr = sect
      BY <2>2, <3>2 DEF Held
    <3> QED BY <1>4, <3>1, <3>2
  <2>3. Held(y.d, y.f, x.f.lastPos)
    <3>1. \A k \in 1 .. x.f.lastPos :
             d.data[x.f.blocks[k]] = Text(x.f.name, k - 1) \/ sect = x.f.blocks[k]
      BY <1>1, <1>10, <2>2 DEF Whole
    <3> QED BY <1>2, <1>8, <2>1, <3>1 DEF Held
  <2>4. ASSUME NEW k \in 1 .. p + 1
        PROVE  d.data[x.f.blocks[k]] = Text(x.f.name, k - 1) \/ sect = x.f.blocks[k]
    <3>1. CASE k = p + 1
      BY <3>1
    <3>2. CASE k # p + 1
      <4>1. k \in 1 .. p
        BY <1>1, <3>2
      <4> QED BY <1>1, <1>10, <2>2, <4>1 DEF Whole
    <3> QED BY <3>1, <3>2
  <2>5. Held(y.d, y.f, p + 1)
    BY <1>2, <1>8, <2>1, <2>4 DEF Held
  <2> QED BY <1>2, <1>8, <2>1, <2>3, <2>5 DEF Whole
<1> QED BY <1>3, <1>7, <1>8, <1>9, <1>10 DEF Round, Kept

\* A round of a write, with room.
LEMMA PutIs ==
  ASSUME NEW x, CallOK(x), x.f.wMode, x.f.currPos < Len(x.f.blocks), x.left \in Nat \ {0},
         NEW many \in BOOLEAN, x.left >= 2 => many
  PROVE  LET y == Put(x, x.f, x.f.blocks[x.f.currPos + 1], many)
         IN  Round(x, y) /\ y.left < x.left /\ y.err = x.err
<1> DEFINE sect == x.f.blocks[x.f.currPos + 1]
           x1 == IF x.f.rw_nr # sect \/ many THEN [x EXCEPT !.d = Flush(@, x.f)] ELSE x
           y == Put(x, x.f, sect, many)
           n == Contiguous(x.f, Smaller(x.left, Len(x.f.blocks)))
<1>1. /\ PathOK(x.f) /\ x.f.currPos \in Nat /\ Len(x.f.blocks) \in Nat
      /\ x.f.currPos < Len(x.f.blocks)
  BY AccessParts, PathParts DEF CallOK
<1>2. CASE x.left >= 2
  <2> DEFINE m == Smaller(x.left, Len(x.f.blocks))
  <2>1. m \in 1 .. x.left /\ m \in Nat \ {0}
    BY <1>1 DEF Smaller
  <2> HIDE DEF m
  <2>2. /\ n \in 1 .. m /\ x.f.currPos + n <= Len(x.f.blocks)
        /\ \A i \in 1 .. n : x.f.blocks[x.f.currPos + i] = sect + i - 1
    BY <1>1, <2>1, ContiguousIs DEF m
  <2>3. x1 = [x EXCEPT !.d = Flush(@, x.f)]
    BY <1>2, Zenon
  <2> HIDE DEF sect
  <2>4. x1.left = x.left
    BY <2>3 DEF CallOK, Accesses
  <2>5. y = PutMany(x1, x.f, sect, n)
    BY <1>2, <2>4, Zenon DEF Put
  <2> HIDE DEF n, x1
  <2>6. n \in 1 .. x.left
    BY <2>1, <2>2
  <2>7. Round(x, y) /\ y.left = x.left - n /\ y.err = x.err
    BY <2>2, <2>3, <2>5, <2>6, PutManyIs DEF sect
  <2> QED BY <2>6, <2>7 DEF sect
<1>3. CASE ~(x.left >= 2)
  <2>1. x.left = 1
    BY <1>3
  <2>2. x1 = [x EXCEPT !.d = Flush(@, x.f)] \/ (x1 = x /\ x.f.rw_nr = sect)
    BY Zenon
  <2> HIDE DEF sect
  <2>3. y = PutOne(x1, x.f, sect)
    BY <1>3, Zenon DEF Put
  <2> HIDE DEF x1
  <2>4. Round(x, y) /\ y.left = 0 /\ y.err = x.err
    BY <2>1, <2>2, <2>3, PutOneIs DEF sect
  <2> QED BY <2>1, <2>4 DEF sect
<1> QED BY <1>2, <1>3

\* A round of a write.
LEMMA WriteRoundIs ==
  ASSUME NEW x, CallOK(x), x.f.wMode, x.left \in Nat \ {0}, NEW many \in BOOLEAN,
         x.left >= 2 => many
  PROVE  LET y == WriteRound(x, many)
         IN  /\ Round(x, y) /\ y.f.wMode
             /\ y.err = "none" => y.left < x.left
             /\ y.err # "none" => y.left = x.left
             /\ y.left = x.left \/ y.left < x.left
<1> DEFINE r == WithRoom(x)
           y == PutIfRoom(r, many)
<1>1. WriteRound(x, many) = y
  BY DEF WriteRound
<1>2. /\ Round(x, r) /\ r.left = x.left /\ r.f.wMode
      /\ r.err = "none" => r.f.currPos < Len(r.f.blocks)
  BY WithRoomIs
<1> HIDE DEF r
<1>3. CallOK(r)
  BY <1>2 DEF Round
<1>4. CASE r.err = "none"
  <2> DEFINE z == Put(r, r.f, r.f.blocks[r.f.currPos + 1], many)
  <2>1. Round(r, z) /\ z.left < r.left /\ z.err = r.err
    BY <1>2, <1>3, <1>4, PutIs
  <2>2. y = z
    BY <1>4, Zenon DEF PutIfRoom
  <2> HIDE DEF z
  <2>3. Round(x, z)
    BY <1>2, <1>3, <2>1, RoundsInTurn
  <2>4. z.f.wMode
    BY <1>2, <2>1 DEF Round, Later, SameFile
  <2>5. z.err = "none" /\ z.left < x.left
    BY <1>2, <1>4, <2>1
  <2> QED BY <1>1, <2>2, <2>3, <2>4, <2>5
<1>5. CASE r.err # "none"
  <2>1. y = r
    BY <1>5, Zenon DEF PutIfRoom
  <2> QED BY <1>1, <1>2, <1>5, <2>1
<1> QED BY <1>4, <1>5

\* A path with another position and another last one.
Placed(f, g, p, l) ==
  /\ PathOK(g) /\ SameFile(f, g) /\ g.blocks = f.blocks /\ g.currPos = p /\ g.lastPos = l
  /\ g.rw_nr = f.rw_nr /\ g.rw_sct = f.rw_sct /\ g.mustW = f.mustW

\* The positions are set.
LEMMA SetPosition ==
  ASSUME NEW f, PathOK(f), NEW p \in 0 .. Len(f.blocks), NEW l \in 0 .. Len(f.blocks),
         p <= MaxLen, l <= MaxLen
  PROVE  Placed(f, [f EXCEPT !.currPos = p, !.lastPos = l], p, l)
<1> DEFINE f1 == [f EXCEPT !.currPos = p]
           g == [f1 EXCEPT !.lastPos = l]
           h == [f EXCEPT !.currPos = p, !.lastPos = l]
<1>1. f \in PathType /\ p \in 0 .. MaxLen /\ l \in 0 .. MaxLen
  BY RbfAssumption DEF PathOK
<1>2. /\ f1 \in PathType /\ SameFile(f, f1) /\ f1.blocks = f.blocks /\ f1.currPos = p
      /\ f1.rw_nr = f.rw_nr /\ f1.rw_sct = f.rw_sct /\ f1.mustW = f.mustW
  BY <1>1 DEF PathType, SameFile
<1>3. h = g
  BY <1>1 DEF PathType
<1> HIDE DEF f1, h
<1>4. /\ g \in PathType /\ SameFile(f, g) /\ g.blocks = f.blocks
      /\ g.currPos = p /\ g.lastPos = l
      /\ g.rw_nr = f.rw_nr /\ g.rw_sct = f.rw_sct /\ g.mustW = f.mustW
  BY <1>1, <1>2 DEF PathType, SameFile
<1> HIDE DEF g
<1>5. PathOK(g)
  BY <1>4 DEF PathOK, Buffer, SameFile
<1> QED BY <1>3, <1>4, <1>5 DEF h, Placed

\* What a write leaves: the file has what it had, and what was written; the last position
\* has moved back only when there was no room.
Wrote(f, x) ==
  /\ x.d \in Disk /\ PathOK(x.f) /\ Joint(x.d, x.f) /\ x.f.wMode
  /\ SameFile(f, x.f) /\ Longer(f, x.f) /\ Grown(disk, x.d, f.fd_nr)
  /\ x.f.currPos <= x.f.lastPos
  /\ Held(disk, f, f.lastPos) /\ f.lastPos <= x.f.lastPos => Held(x.d, x.f, x.f.lastPos)

\* Up to a lower position it is the same.
LEMMA HeldBelow ==
  ASSUME NEW d, NEW f, NEW top \in Nat, NEW low \in Nat, low <= top, Held(d, f, top)
  PROVE  Held(d, f, low)
<1>1. 1 .. low \subseteq 1 .. top
  OBVIOUS
<1> QED BY <1>1 DEF Held

\* A whole write, of one round or two.
LEMMA WrittenIs ==
  ASSUME NEW f, PathOK(f), f.wMode, disk \in Disk, Joint(disk, f), NEW n \in Lens,
         f.currPos + n <= MaxLen, f.currPos <= f.lastPos
  PROVE  Wrote(f, Written(f, n))
<1> DEFINE x == Access(f, n)
           many == n >= 2
           y == WriteRound(x, many)
           z == WriteOn(y, many)
           e == EndWrite(z, f.currPos)
<1>1. n \in Nat \ {0} /\ n <= 2 /\ f.currPos \in Nat /\ f.lastPos \in Nat
  BY PathParts DEF Lens, PathOK
<1>2. Written(f, n) = e
  BY Zenon DEF Written
<1>3. CallOK(x) /\ x.d = disk /\ x.f = f /\ x.left = n /\ x.err = "none"
  BY <1>1, AccessIs
<1> HIDE DEF x
<1>4. many \in BOOLEAN /\ (x.left >= 2 => many)
  BY <1>3
<1> HIDE DEF many
<1>5. /\ Round(x, y) /\ y.f.wMode
      /\ y.left = x.left \/ y.left < x.left
  BY <1>1, <1>3, <1>4, WriteRoundIs
<1> HIDE DEF y
<1>6. Round(x, z) /\ z.f.wMode
  <2>1. CallOK(y) /\ y.left \in Nat
    BY <1>5, AccessParts DEF Round
  <2>2. y.left >= 2 => many
    BY <1>1, <1>3, <1>4, <1>5, <2>1
  <2>3. CASE y.err = "none" /\ y.left > 0
    <3> DEFINE w == WriteRound(y, many)
    <3>1. z = w
      BY <2>3 DEF WriteOn
    <3>2. Round(y, w) /\ w.f.wMode
      BY <1>4, <1>5, <2>1, <2>2, <2>3, WriteRoundIs
    <3> HIDE DEF w
    <3> QED BY <1>3, <1>5, <3>1, <3>2, RoundsInTurn
  <2>4. CASE ~(y.err = "none" /\ y.left > 0)
    <3>1. z = y
      BY <2>4, Zenon DEF WriteOn
    <3> QED BY <1>5, <3>1
  <2> QED BY <2>3, <2>4
<1> HIDE DEF z
<1>7. /\ z \in Accesses /\ PathOK(z.f) /\ Joint(z.d, z.f) /\ SameFile(f, z.f) /\ Longer(f, z.f)
      /\ Grown(disk, z.d, f.fd_nr) /\ z.f.lastPos = f.lastPos /\ z.d \in Disk
  BY <1>3, <1>6, AccessParts DEF Round, CallOK, Later
<1>8. /\ z.f.currPos \in Nat /\ z.f.currPos <= MaxLen /\ z.f.currPos <= Len(z.f.blocks)
      /\ f.lastPos <= MaxLen /\ f.lastPos <= Len(z.f.blocks) /\ Len(z.f.blocks) \in Nat
      /\ f.currPos <= MaxLen
  <2>1. z.f \in PathType /\ f \in PathType
    BY <1>7 DEF PathOK
  <2>2. z.f.currPos \in 0 .. MaxLen /\ f.lastPos \in 0 .. MaxLen /\ Len(z.f.blocks) \in Nat
    BY <2>1, PathParts
  <2> QED BY <1>1, <1>7, <2>2, RbfAssumption DEF PathOK
<1>9. Held(disk, f, f.lastPos) =>
        Held(z.d, z.f, f.lastPos) /\ Held(z.d, z.f, z.f.currPos)
  <2> SUFFICES ASSUME Held(disk, f, f.lastPos)
               PROVE  Held(z.d, z.f, f.lastPos) /\ Held(z.d, z.f, z.f.currPos)
    OBVIOUS
  <2>1. Held(disk, f, f.currPos)
    BY <1>1, HeldBelow
  <2>2. Whole(x)
    BY <1>3, <2>1 DEF Whole
  <2> QED BY <1>3, <1>6, <1>7, <2>2 DEF Round, Kept, Whole
<1>10. CASE z.err = "E_FULL"
  <2> DEFINE p == f.currPos
             g == [z.f EXCEPT !.currPos = p, !.lastPos = p]
  <2>1. e = [z EXCEPT !.f = g]
    BY <1>10, Zenon DEF EndWrite
  <2>2. p \in 0 .. Len(z.f.blocks)
    BY <1>1, <1>8
  <2>8. p <= MaxLen
    BY <1>8
  <2> HIDE DEF p
  <2>3. /\ PathOK(g) /\ SameFile(z.f, g) /\ g.blocks = z.f.blocks
        /\ g.currPos = p /\ g.lastPos = p /\ g.rw_nr = z.f.rw_nr /\ g.mustW = z.f.mustW
    <3>1. Placed(z.f, g, p, p)
      BY <1>7, <2>2, <2>8, SetPosition, Zenon
    <3> HIDE DEF g
    <3> QED BY <3>1 DEF Placed
  <2> HIDE DEF g
  <2>4. e.d = z.d /\ e.f = g
    BY <1>7, <2>1, <2>3 DEF Accesses, PathOK
  <2> HIDE DEF e
  <2>5. Joint(e.d, e.f) /\ SameFile(f, e.f) /\ Longer(f, e.f)
    BY <1>7, <2>3, <2>4 DEF Joint, SameFile, Longer
  <2>6. ASSUME Held(disk, f, f.lastPos), f.lastPos <= e.f.lastPos
        PROVE  Held(e.d, e.f, e.f.lastPos)
    <3>1. f.lastPos = p
      BY <1>1, <2>3, <2>4, <2>6 DEF p
    <3>2. Held(z.d, z.f, p)
      BY <1>9, <2>6, <3>1
    <3> QED BY <2>3, <2>4, <3>2 DEF Held, SameFile
  <2>7. p <= p
    BY <2>2
  <2> QED BY <1>2, <1>6, <1>7, <2>3, <2>4, <2>5, <2>6, <2>7 DEF Wrote, SameFile
<1>11. CASE z.err # "E_FULL"
  <2> DEFINE p == z.f.currPos
             l == Larger(f.lastPos, z.f.currPos)
             g == [z.f EXCEPT !.currPos = p, !.lastPos = l]
  <2>1. e = [z EXCEPT !.f = g]
    <3>1. e = [z EXCEPT !.f = [z.f EXCEPT !.lastPos = Larger(@, z.f.currPos)]]
      BY <1>11, Zenon DEF EndWrite
    <3>2. [z.f EXCEPT !.lastPos = Larger(@, z.f.currPos)] = [z.f EXCEPT !.lastPos = l]
      BY <1>7
    <3> HIDE DEF l
    <3>3. [z.f EXCEPT !.lastPos = l] = g
      BY <1>7 DEF PathOK, PathType
    <3> QED BY <3>1, <3>2, <3>3
  <2>2. /\ p \in 0 .. Len(z.f.blocks) /\ l \in 0 .. Len(z.f.blocks) /\ l <= MaxLen /\ p <= l
        /\ l = f.lastPos \/ l = p
    BY <1>1, <1>8 DEF Larger
  <2>3. p <= MaxLen
    BY <1>8
  <2> HIDE DEF p, l
  <2>4. /\ PathOK(g) /\ SameFile(z.f, g) /\ g.blocks = z.f.blocks
        /\ g.currPos = p /\ g.lastPos = l /\ g.rw_nr = z.f.rw_nr /\ g.mustW = z.f.mustW
    <3>1. Placed(z.f, g, p, l)
      BY <1>7, <2>2, <2>3, SetPosition, Zenon
    <3> HIDE DEF g
    <3> QED BY <3>1 DEF Placed
  <2> HIDE DEF g
  <2>5. e.d = z.d /\ e.f = g
    BY <1>7, <2>1, <2>4 DEF Accesses, PathOK
  <2> HIDE DEF e
  <2>6. Joint(e.d, e.f) /\ SameFile(f, e.f) /\ Longer(f, e.f)
    BY <1>7, <2>4, <2>5 DEF Joint, SameFile, Longer
  <2>7. ASSUME Held(disk, f, f.lastPos) PROVE Held(e.d, e.f, e.f.lastPos)
    <3>1. Held(z.d, z.f, l)
      BY <1>9, <2>2, <2>7 DEF p
    <3> QED BY <2>4, <2>5, <3>1 DEF Held, SameFile
  <2> QED BY <1>2, <1>6, <1>7, <2>2, <2>4, <2>5, <2>6, <2>7 DEF Wrote, SameFile
<1> QED BY <1>10, <1>11

\* A round of a read: the file keeps its sectors, and what is in them.
Fetched(x, y) ==
  /\ CallOK(y) /\ Later(x, y) /\ Same(x.f, y.f)
  /\ y.f.currPos + y.left = x.f.currPos + x.left
  /\ x.f.wMode /\ Held(x.d, x.f, x.f.lastPos) => Held(y.d, y.f, y.f.lastPos)

\* The buffer is emptied, and sectors are read up to the last one, which it has then.
LEMMA FetchIs ==
  ASSUME NEW x, CallOK(x), NEW n \in 1 .. x.left, x.f.currPos + n <= Len(x.f.blocks),
         NEW last \in Sector
  PROVE  LET y == Fetch(x, x.f, Flush(x.d, x.f), last, n)
         IN  Fetched(x, y) /\ y.left = x.left - n
<1> DEFINE d == Flush(x.d, x.f)
           p == x.f.currPos
           g == [InStep(x.f, last, d.data[last]) EXCEPT !.currPos = @ + n]
           l == x.left - n
           x1 == [x EXCEPT !.d = d]
           x2 == [x1 EXCEPT !.left = l]
           y == [x2 EXCEPT !.f = g]
           z == Fetch(x, x.f, d, last, n)
<1>1. /\ x \in Accesses /\ x.d \in Disk /\ PathOK(x.f) /\ x.f \in PathType /\ x.left \in Nat
      /\ p \in Nat /\ Len(x.f.blocks) \in Nat /\ p + x.left <= MaxLen /\ n \in Nat
      /\ x.f.lastPos \in 0 .. Len(x.f.blocks) /\ (x.f.wMode => Joint(x.d, x.f))
  BY AccessParts, PathParts DEF CallOK, PathOK
<1>2. /\ d \in Disk /\ d.map = x.d.map /\ d.fd = x.d.fd /\ (~x.f.wMode => d = x.d)
      /\ \A t \in x.d.map : t \notin Elements(x.f.blocks) => d.data[t] = x.d.data[t]
  BY <1>1, FlushIs DEF Flushed
<1>3. ASSUME x.f.wMode, Held(x.d, x.f, x.f.lastPos) PROVE OnDisk(d, x.f, x.f.lastPos)
  BY <1>1, <1>3, FlushHolds
<1>4. d.data[last] \in Content
  BY <1>2, DiskParts
<1>5. p + n <= MaxLen
  BY <1>1, RbfAssumption
<1>6. PathOK(g) /\ Same(x.f, g) /\ g.currPos = p + n /\ ~g.mustW
  <2> HIDE DEF d
  <2> QED BY <1>1, <1>4, <1>5, MovedOn
<1>7. z = [x EXCEPT !.d = d, !.left = l, !.f = g]
  BY Zenon DEF Fetch
<1> HIDE DEF g, d
<1>8. l \in Nat /\ (p + n) + l = p + x.left
  <2> HIDE DEF p
  <2> QED BY <1>1
<1> HIDE DEF l
<1>9. x1 \in Accesses /\ x1.d = d
  BY <1>1, <1>2 DEF Accesses
<1>10. y = [x EXCEPT !.d = d, !.left = l, !.f = g]
  BY Zenon
<1> HIDE DEF x1
<1>11. x2 \in Accesses /\ x2.d = d /\ x2.left = l
  BY <1>8, <1>9 DEF Accesses
<1> HIDE DEF x2
<1>12. y \in Accesses /\ y.d = d /\ y.left = l /\ y.f = g
  BY <1>6, <1>11 DEF Accesses, PathOK
<1> HIDE DEF y, z
<1>13. CallOK(y) /\ Later(x, y)
  <2>1. y.f.currPos + y.left <= MaxLen
    BY <1>1, <1>6, <1>8, <1>12
  <2> QED BY <1>2, <1>6, <1>12, <2>1, RoundHere
<1>14. ASSUME x.f.wMode, Held(x.d, x.f, x.f.lastPos) PROVE Held(y.d, y.f, y.f.lastPos)
  BY <1>3, <1>6, <1>12, <1>14 DEF Held, OnDisk, Same, SameFile
<1>15. Fetched(x, y)
  BY <1>6, <1>8, <1>12, <1>13, <1>14 DEF Fetched
<1> QED BY <1>7, <1>10, <1>12, <1>15 DEF z, d, l

\* The sector is in the buffer already.
LEMMA InBufferIs ==
  ASSUME NEW x, CallOK(x), x.left \in Nat \ {0}, x.f.currPos < Len(x.f.blocks)
  PROVE  LET y == [x EXCEPT !.f = [x.f EXCEPT !.currPos = @ + 1], !.left = @ - 1]
         IN  Fetched(x, y) /\ y.left = x.left - 1
<1> DEFINE p == x.f.currPos + 1
           g == [x.f EXCEPT !.currPos = p]
           l == x.left - 1
           x1 == [x EXCEPT !.f = g]
           y == [x1 EXCEPT !.left = l]
           z == [x EXCEPT !.f = [x.f EXCEPT !.currPos = @ + 1], !.left = @ - 1]
<1>1. /\ x \in Accesses /\ x.d \in Disk /\ PathOK(x.f) /\ x.f \in PathType /\ x.left \in Nat
      /\ x.f.currPos \in Nat /\ Len(x.f.blocks) \in Nat /\ x.f.currPos + x.left <= MaxLen
  BY AccessParts, PathParts DEF CallOK, PathOK
<1>2. /\ p \in 0 .. MaxLen /\ p <= Len(x.f.blocks) /\ l \in Nat
      /\ p + l = x.f.currPos + x.left
  <2> DEFINE q == x.f.currPos
             len == Len(x.f.blocks)
  <2>1. q \in Nat /\ len \in Nat /\ q < len /\ x.left \in Nat \ {0} /\ q + x.left <= MaxLen
        /\ MaxLen \in Nat
    BY <1>1, RbfAssumption
  <2> HIDE DEF q, len
  <2>2. q + 1 \in 0 .. MaxLen /\ q + 1 <= len
    BY <2>1
  <2>3. x.left - 1 \in Nat /\ (q + 1) + (x.left - 1) = q + x.left
    BY <2>1
  <2> QED BY <2>2, <2>3 DEF q, len
<1>3. z = y
  BY <1>1 DEF Accesses
<1> HIDE DEF p
<1>4. /\ g \in PathType /\ Same(x.f, g) /\ g.currPos = p
      /\ g.mustW = x.f.mustW /\ g.rw_nr = x.f.rw_nr /\ g.rw_sct = x.f.rw_sct
  BY <1>1, <1>2 DEF PathType, Same, SameFile
<1> HIDE DEF g, l, z
<1>5. PathOK(g)
  BY <1>1, <1>2, <1>4 DEF PathOK, Buffer, Same, SameFile
<1>6. x1 \in Accesses /\ x1.d = x.d /\ x1.f = g
  BY <1>1, <1>4 DEF Accesses
<1> HIDE DEF x1
<1>7. y \in Accesses /\ y.d = x.d /\ y.f = g /\ y.left = l
  BY <1>2, <1>6 DEF Accesses
<1> HIDE DEF y
<1>8. CallOK(y) /\ Later(x, y)
  <2>1. y.f.currPos + y.left <= MaxLen
    BY <1>1, <1>2, <1>4, <1>7
  <2> QED BY <1>4, <1>5, <1>7, <2>1, RoundHere
<1>9. Held(x.d, x.f, x.f.lastPos) => Held(y.d, y.f, y.f.lastPos)
  BY <1>4, <1>7 DEF Held, Same, SameFile
<1>10. Fetched(x, y)
  BY <1>2, <1>4, <1>7, <1>8, <1>9 DEF Fetched
<1> QED BY <1>3, <1>7, <1>10 DEF z, l

\* A round of a read.
LEMMA ReadRoundIs ==
  ASSUME NEW x, CallOK(x), x.left \in Nat \ {0}, x.f.currPos + x.left <= Len(x.f.blocks),
         NEW many \in BOOLEAN
  PROVE  LET y == ReadRound(x, many)
         IN  Fetched(x, y) /\ y.left < x.left
<1> DEFINE f == x.f
           sect == f.blocks[f.currPos + 1]
           n == IF x.left >= 2 THEN Contiguous(f, x.left) ELSE 1
           y == ReadRound(x, many)
<1>1. /\ PathOK(f) /\ f \in PathType /\ f.currPos \in Nat /\ Len(f.blocks) \in Nat
      /\ f.currPos < Len(f.blocks)
  BY AccessParts, PathParts DEF CallOK
<1>2. Clamped(f) = f
  BY <1>1, ReadableIs
<1>3. y = ReadAt(x, f, sect, many)
  BY <1>2, Zenon DEF ReadRound
<1>4. /\ n \in 1 .. x.left /\ f.currPos + n <= Len(f.blocks)
      /\ f.blocks[f.currPos + n] = sect + n - 1
  <2>1. CASE x.left >= 2
    <3> DEFINE m == Contiguous(f, x.left)
    <3>1. /\ m \in 1 .. x.left /\ f.currPos + m <= Len(f.blocks)
          /\ \A i \in 1 .. m : f.blocks[f.currPos + i] = sect + i - 1
      BY <1>1, ContiguousIs
    <3>2. n = m
      BY <2>1
    <3> HIDE DEF m, n, sect
    <3> QED BY <3>1, <3>2
  <2>2. CASE ~(x.left >= 2)
    <3>1. n = 1 /\ f.currPos + 1 \in 1 .. Len(f.blocks)
      BY <1>1, <2>2
    <3>2. sect \in Sector
      BY <1>1, <3>1, PathParts, Zenon
    <3>3. sect \in Nat
      BY <3>2, SectorIsNat
    <3> HIDE DEF n, sect
    <3> QED BY <1>1, <3>1, <3>3 DEF sect
  <2> QED BY <2>1, <2>2
<1>5. CASE f.rw_nr # sect \/ many
  <2>1. y = Fetch(x, f, Flush(x.d, f), sect + n - 1, n)
    BY <1>3, <1>5, Zenon DEF ReadAt
  <2> HIDE DEF n, sect, y
  <2>2. sect + n - 1 \in Sector
    <3>1. f.currPos + n \in 1 .. Len(f.blocks)
      BY <1>1, <1>4
    <3>2. f.blocks[f.currPos + n] \in Sector
      BY <1>1, <3>1, PathParts, Zenon
    <3> QED BY <1>4, <3>2
  <2>3. Fetched(x, y) /\ y.left = x.left - n
    BY <1>4, <2>1, <2>2, FetchIs
  <2> QED BY <1>4, <2>3 DEF y
<1>6. CASE ~(f.rw_nr # sect \/ many)
  <2>1. y = [x EXCEPT !.f = [f EXCEPT !.currPos = @ + 1], !.left = @ - 1]
    BY <1>3, <1>6, Zenon DEF ReadAt
  <2>2. Fetched(x, y) /\ y.left = x.left - 1
    BY <1>1, <2>1, InBufferIs, Zenon
  <2> HIDE DEF y
  <2> QED BY <2>2 DEF y
<1> QED BY <1>5, <1>6

\* What a read leaves.
WasRead(f, x) ==
  /\ x.d \in Disk /\ PathOK(x.f) /\ Same(f, x.f) /\ (f.wMode => Joint(x.d, x.f))
  /\ Grown(disk, x.d, f.fd_nr) /\ (~f.wMode => x.d = disk)
  /\ f.currPos <= x.f.currPos /\ x.f.currPos <= Readable(f)
  /\ f.wMode /\ Held(disk, f, f.lastPos) => Held(x.d, x.f, f.lastPos)

\* A whole read, of one round or two.
LEMMA ReadInIs ==
  ASSUME NEW f, PathOK(f), disk \in Disk, f.wMode => Joint(disk, f), NEW n \in Nat \ {0},
         f.currPos + n <= Readable(f), n <= 2
  PROVE  WasRead(f, ReadIn(f, n))
<1> DEFINE x == Access(f, n)
           many == n >= 2
           y == ReadRound(x, many)
           z == ReadOn(y, many)
<1>1. /\ f \in PathType /\ f.currPos \in Nat /\ Len(f.blocks) \in Nat /\ Readable(f) \in Nat
      /\ Readable(f) <= Len(f.blocks) /\ Readable(f) <= MaxLen
  BY PathParts, ReadableIs, RbfAssumption DEF PathOK
<1>2. f.currPos + n <= MaxLen /\ f.currPos + n <= Len(f.blocks)
  BY <1>1, RbfAssumption
<1>3. CallOK(x) /\ x.d = disk /\ x.f = f /\ x.left = n
  BY <1>2, AccessIs
<1>4. ReadIn(f, n) = z
  BY Zenon DEF ReadIn
<1> HIDE DEF x
<1>5. many \in BOOLEAN
  OBVIOUS
<1> HIDE DEF many
<1>6. Fetched(x, y) /\ y.left < x.left
  BY <1>2, <1>3, <1>5, ReadRoundIs
<1> HIDE DEF y
<1>7. CASE y.left > 0
  <2> DEFINE w == ReadRound(y, many)
  <2>1. z = w
    BY <1>7, Zenon DEF ReadOn
  <2>2. /\ CallOK(y) /\ y.left \in Nat \ {0} /\ y.f.currPos + y.left <= Len(y.f.blocks)
        /\ y.f.blocks = f.blocks /\ y.f.currPos + y.left = f.currPos + n
    <3>1. CallOK(y) /\ Same(f, y.f) /\ y.f.currPos + y.left = f.currPos + n
      BY <1>3, <1>6 DEF Fetched
    <3>2. y.left \in Nat
      BY <3>1, AccessParts
    <3> QED BY <1>2, <1>7, <3>1, <3>2 DEF Same
  <2>3. Fetched(y, w) /\ w.left < y.left
    BY <1>5, <2>2, ReadRoundIs
  <2> HIDE DEF w
  <2>4. CallOK(w) /\ Same(f, w.f)
    BY <1>3, <1>6, <2>3 DEF Fetched, Same, SameFile
  <2>5. Grown(disk, w.d, f.fd_nr) /\ (~f.wMode => w.d = disk)
    <3>1. y.f.fd_nr = f.fd_nr /\ y.f.wMode = f.wMode
      BY <1>3, <1>6 DEF Fetched, Same, SameFile
    <3> QED BY <1>3, <1>6, <2>3, <3>1, GrownInTurn DEF Fetched, Later
  <2>6. f.currPos <= w.f.currPos /\ w.f.currPos <= Readable(f)
    <3>1. w.f.currPos + w.left = f.currPos + n
      BY <2>2, <2>3 DEF Fetched
    <3>2. w.left \in Nat /\ w.f.currPos \in Nat
      BY <2>4, AccessParts, PathParts
    <3>3. w.left < n /\ y.left \in Nat
      BY <1>3, <1>6, <2>2, <2>3, <3>2
    <3> DEFINE q == f.currPos
    <3> HIDE DEF q
    <3>4. f.currPos = q /\ q \in Nat
      BY <1>1 DEF q
    <3> QED BY <1>1, <3>1, <3>2, <3>3, <3>4
  <2>7. f.wMode /\ Held(disk, f, f.lastPos) => Held(w.d, w.f, f.lastPos)
    <3>1. y.f.wMode = f.wMode /\ y.f.lastPos = f.lastPos /\ w.f.lastPos = f.lastPos
      BY <1>3, <1>6, <2>4 DEF Fetched, Same, SameFile
    <3> QED BY <1>3, <1>6, <2>3, <3>1 DEF Fetched
  <2>8. w.f.wMode = f.wMode
    BY <2>4 DEF Same, SameFile
  <2> QED BY <1>4, <2>1, <2>4, <2>5, <2>6, <2>7, <2>8, AccessParts DEF WasRead, CallOK
<1>8. CASE ~(y.left > 0)
  <2>1. z = y
    BY <1>8, Zenon DEF ReadOn
  <2>2. CallOK(y) /\ Same(f, y.f) /\ y.f.currPos + y.left = f.currPos + n
    BY <1>3, <1>6 DEF Fetched
  <2>3. Grown(disk, y.d, f.fd_nr) /\ (~f.wMode => y.d = disk)
    BY <1>3, <1>6 DEF Fetched, Later
  <2>4. f.currPos <= y.f.currPos /\ y.f.currPos <= Readable(f)
    <3>1. y.left \in Nat /\ y.f.currPos \in Nat
      BY <2>2, AccessParts, PathParts
    <3> DEFINE q == f.currPos
    <3>2. f.currPos = q /\ q \in Nat
      BY <1>1
    <3> HIDE DEF q
    <3> QED BY <1>1, <1>8, <2>2, <3>1, <3>2
  <2>5. f.wMode /\ Held(disk, f, f.lastPos) => Held(y.d, y.f, f.lastPos)
    <3>1. y.f.lastPos = f.lastPos
      BY <2>2 DEF Same
    <3> QED BY <1>3, <1>6, <3>1 DEF Fetched
  <2>6. y.f.wMode = f.wMode
    BY <2>2 DEF Same, SameFile
  <2> QED BY <1>4, <2>1, <2>2, <2>3, <2>4, <2>5, <2>6, AccessParts DEF WasRead, CallOK
<1> QED BY <1>7, <1>8

-----------------------------------------------------------------------------
(* The inductive invariant *)

\* The sectors of a file.
Owner(n) == IF dir[n] = 0 THEN {} ELSE {dir[n]} \cup Elements(disk.fd[dir[n]].blocks)

\* The types of the variables.
Types == /\ disk \in Disk /\ dir \in [Name -> {0} \cup Sector] /\ spoilt \subseteq Name
         /\ path \in [Path -> PathType \cup {Closed}]

\* No sector belongs to two files, and the map knows them all.
Apart == /\ \A n \in Name : Owner(n) \subseteq disk.map
         /\ \A m, n \in Name : m # n => Owner(m) \cap Owner(n) = {}
         /\ \A n \in Name : dir[n] # 0 => dir[n] \notin Elements(disk.fd[dir[n]].blocks)

\* A path and its file, as the path sees it.
AtFile(p) == /\ PathOK(path[p]) /\ path[p].fd_nr = dir[path[p].name]
             /\ path[p].wMode => Joint(disk, path[p])
             /\ path[p].currPos <= path[p].lastPos

\* All open paths are, and no two of them write the same file.
AllAtFiles == \A p \in OpenPaths : AtFile(p)
OneWriter(n) == \A p, q \in Writers(n) : p = q

\* What a file has: the path that writes it holds all up to its last position; what others
\* can read is in the size that the FD has, and in the sectors that it has.
FD(n) == disk.fd[dir[n]]
WriterHolds(n) == \A q \in Writers(n) : /\ path[q].size <= path[q].lastPos
                                        /\ Held(disk, path[q], path[q].lastPos)
ReadersSee(n) == \A p \in Of(n) \ Writers(n) :
                    /\ Readable(path[p]) <= FD(n).size
                    /\ \A k \in 1 .. Readable(path[p]) : path[p].blocks[k] = FD(n).blocks[k]
DiskHas(n) == Writers(n) = {} => \A k \in 1 .. FD(n).size :
                                    disk.data[FD(n).blocks[k]] = Text(n, k - 1)
FileOK(n) == dir[n] # 0 /\ n \notin spoilt => WriterHolds(n) /\ ReadersSee(n) /\ DiskHas(n)

\* The invariant.
RbfInv == /\ Types /\ Apart /\ AllAtFiles
          /\ \A n \in Name : OneWriter(n) /\ FileOK(n)

\* What a step may change: the file n, the paths to it, and free sectors that it takes or
\* sectors of it that it gives back.
Moves(n) == \E S \in SUBSET Sector :
  \/ S \cap disk.map = {} /\ Owner(n)' = Owner(n) \cup S /\ disk'.map = disk.map \cup S
  \/ S \subseteq Owner(n) /\ Owner(n)' = Owner(n) \ S /\ disk'.map = disk.map \ S
Spares(n) == \A t \in disk.map : t \notin Owner(n) => /\ disk'.fd[t] = disk.fd[t]
                                                      /\ disk'.data[t] = disk.data[t]
Frame(n) ==
  /\ \A m \in Name : m # n => dir'[m] = dir[m]
  /\ \A q \in Path : \/ path'[q] = path[q]
                     \/ /\ path[q].open => path[q].name = n
                        /\ path'[q].open => path'[q].name = n
  /\ \A m \in Name : m # n => (m \in spoilt' <=> m \in spoilt)
  /\ Moves(n) /\ Spares(n)

\* And what it has to see to.
Cared(n) ==
  /\ dir'[n] # 0 => dir'[n] \notin Elements(disk'.fd[dir'[n]].blocks)
  /\ \A p \in Of(n)' : AtFile(p)'
  /\ OneWriter(n)' /\ FileOK(n)'

\* The file is no shorter on the disk than it was.
NotShorter(n) == disk'.fd[dir[n]].size >= disk.fd[dir[n]].size

\* The parts of the invariant that a path needs.
LEMMA PathIs ==
  ASSUME RbfInv, NEW p \in Path, path[p].open
  PROVE  /\ PathOK(path[p]) /\ path[p] \in PathType /\ path[p].name \in Name
         /\ path[p].fd_nr = dir[path[p].name] /\ dir[path[p].name] \in Sector
         /\ dir[path[p].name] # 0
         /\ (path[p].wMode => Joint(disk, path[p]))
         /\ path[p].currPos <= path[p].lastPos
         /\ p \in Of(path[p].name) /\ disk \in Disk
<1>1. AtFile(p)
  BY DEF RbfInv, AllAtFiles, OpenPaths
<1>2. path[p] \in PathType
  BY <1>1 DEF AtFile, PathOK
<1>3. path[p].name \in Name /\ path[p].fd_nr \in Sector
  BY <1>2, PathParts
<1> QED BY <1>1, <1>2, <1>3, SectorIsNat DEF AtFile, Of, RbfInv, Types

\* The sectors of the other files stay theirs.
LEMMA OthersKeep ==
  ASSUME RbfInv, NEW n \in Name, Frame(n), NEW m \in Name, m # n
  PROVE  /\ Owner(m)' = Owner(m) /\ Owner(m) \cap Owner(n) = {}
         /\ \A t \in Owner(m) : t \in disk.map /\ t \in disk'.map /\ t \notin Owner(n)
         /\ \A t \in Owner(m) : disk'.fd[t] = disk.fd[t] /\ disk'.data[t] = disk.data[t]
         /\ dir'[m] = dir[m] /\ (dir[m] # 0 => FD(m)' = FD(m))
         /\ Of(m)' = Of(m) /\ Writers(m)' = Writers(m)
         /\ \A q \in Of(m) : path'[q] = path[q]
<1>1. Owner(m) \subseteq disk.map /\ Owner(m) \cap Owner(n) = {}
  BY DEF RbfInv, Apart
<1>2. \A t \in Owner(m) : disk'.fd[t] = disk.fd[t] /\ disk'.data[t] = disk.data[t]
  BY <1>1 DEF Frame, Spares
<1>3. dir'[m] = dir[m]
  BY DEF Frame
<1>4. dir[m] # 0 => dir[m] \in Owner(m)
  BY DEF Owner
<1>5. Owner(m)' = Owner(m) /\ (dir[m] # 0 => FD(m)' = FD(m))
  BY <1>2, <1>3, <1>4 DEF Owner, FD
<1>6. \A t \in Owner(m) : t \in disk.map /\ t \in disk'.map /\ t \notin Owner(n)
  BY <1>1 DEF Frame, Moves
<1>7. \A q \in Path : path[q].open /\ path[q].name = m <=> path'[q].open /\ path'[q].name = m
  BY DEF Frame
<1>8. \A q \in Path : path[q].open /\ path[q].name = m => path'[q] = path[q]
  BY DEF Frame
<1>9. Of(m)' = Of(m)
  BY <1>7 DEF Of
<1>10. \A q \in Of(m) : path'[q] = path[q]
  BY <1>8 DEF Of
<1>11. Writers(m)' = Writers(m)
  BY <1>9, <1>10 DEF Writers
<1> QED BY <1>1, <1>2, <1>3, <1>5, <1>6, <1>9, <1>10, <1>11

\* Nobody shares a sector with the file that moves.
LEMMA StillApart ==
  ASSUME RbfInv, NEW n \in Name, Frame(n), Cared(n), Types'
  PROVE  Apart'
<1>1. PICK S \in SUBSET Sector :
        \/ S \cap disk.map = {} /\ Owner(n)' = Owner(n) \cup S /\ disk'.map = disk.map \cup S
        \/ S \subseteq Owner(n) /\ Owner(n)' = Owner(n) \ S /\ disk'.map = disk.map \ S
  BY DEF Frame, Moves
<1>2. Owner(n) \subseteq disk.map
  BY DEF RbfInv, Apart
<1>3. Owner(n)' \subseteq disk'.map
  BY <1>1, <1>2
<1>4. ASSUME NEW m \in Name, m # n
      PROVE  Owner(m)' \subseteq disk'.map /\ Owner(m)' \cap Owner(n)' = {}
  <2>1. /\ Owner(m)' = Owner(m) /\ Owner(m) \cap Owner(n) = {}
        /\ \A t \in Owner(m) : t \in disk.map /\ t \in disk'.map
    BY <1>4, OthersKeep
  <2> QED BY <1>1, <2>1
<1>5. ASSUME NEW m \in Name, NEW k \in Name, m # n, k # n, m # k
      PROVE  Owner(m)' \cap Owner(k)' = {}
  <2>1. Owner(m)' = Owner(m) /\ Owner(k)' = Owner(k)
    BY <1>5, OthersKeep
  <2> QED BY <1>5, <2>1 DEF RbfInv, Apart
<1>6. ASSUME NEW m \in Name, dir'[m] # 0
      PROVE  dir'[m] \notin Elements(disk'.fd[dir'[m]].blocks)
  <2>1. CASE m = n
    BY <1>6, <2>1 DEF Cared
  <2>2. CASE m # n
    <3>1. dir'[m] = dir[m] /\ (dir[m] # 0 => FD(m)' = FD(m))
      BY <2>2, OthersKeep
    <3>2. disk'.fd[dir'[m]] = disk.fd[dir[m]]
      BY <1>6, <3>1 DEF FD
    <3> QED BY <1>6, <3>1, <3>2 DEF RbfInv, Apart
  <2> QED BY <2>1, <2>2
<1>7. \A m \in Name : Owner(m)' \subseteq disk'.map
  BY <1>3, <1>4
<1>8. \A m, k \in Name : m # k => Owner(m)' \cap Owner(k)' = {}
  <2> SUFFICES ASSUME NEW m \in Name, NEW k \in Name, m # k PROVE Owner(m)' \cap Owner(k)' = {}
    OBVIOUS
  <2>1. CASE m = n
    BY <1>4, <2>1
  <2>2. CASE k = n
    BY <1>4, <2>2
  <2>3. CASE m # n /\ k # n
    BY <1>5, <2>3
  <2> QED BY <2>1, <2>2, <2>3
<1> QED BY <1>6, <1>7, <1>8 DEF Apart

\* The paths to other files are where they were.
LEMMA OthersAtFiles ==
  ASSUME RbfInv, NEW n \in Name, Frame(n), NEW p \in Path, path'[p].open, path'[p].name # n
  PROVE  AtFile(p)'
<1>1. path'[p] = path[p]
  BY DEF Frame
<1>2. path[p].open /\ path[p].name # n
  BY <1>1
<1> DEFINE f == path[p]
           m == path[p].name
<1>3. /\ PathOK(f) /\ m \in Name /\ f.fd_nr = dir[m] /\ dir[m] # 0
      /\ (f.wMode => Joint(disk, f)) /\ f.currPos <= f.lastPos
  BY <1>2, PathIs
<1>4. /\ \A t \in Owner(m) : t \in disk'.map /\ disk'.fd[t] = disk.fd[t]
      /\ dir'[m] = dir[m]
  BY <1>2, <1>3, OthersKeep
<1>5. f.fd_nr \in Owner(m) /\ Elements(disk.fd[f.fd_nr].blocks) \subseteq Owner(m)
  BY <1>3 DEF Owner
<1>6. f.wMode => Joint(disk', f)
  BY <1>3, <1>4, <1>5 DEF Joint
<1> QED BY <1>1, <1>3, <1>4, <1>6 DEF AtFile

\* What the other files have is there.
LEMMA OthersOK ==
  ASSUME RbfInv, NEW n \in Name, Frame(n), NEW m \in Name, m # n
  PROVE  OneWriter(m)' /\ FileOK(m)'
<1>1. /\ dir'[m] = dir[m] /\ (dir[m] # 0 => FD(m)' = FD(m))
      /\ Of(m)' = Of(m) /\ Writers(m)' = Writers(m)
      /\ \A q \in Of(m) : path'[q] = path[q]
  BY OthersKeep
<1>2. \A t \in Owner(m) : disk'.data[t] = disk.data[t]
  BY OthersKeep
<1>3. OneWriter(m)'
  BY <1>1 DEF RbfInv, OneWriter
<1>4. Writers(m) \subseteq Of(m)
  BY DEF Writers
<1>5. ASSUME dir'[m] # 0, m \notin spoilt'
      PROVE  WriterHolds(m)' /\ ReadersSee(m)' /\ DiskHas(m)'
  <2>1. m \notin spoilt /\ dir[m] # 0
    BY <1>1, <1>5 DEF Frame
  <2>2. WriterHolds(m) /\ ReadersSee(m) /\ DiskHas(m) /\ FD(m)' = FD(m)
    BY <1>1, <2>1 DEF RbfInv, FileOK
  <2>3. \A t \in Elements(FD(m).blocks) : t \in Owner(m)
    BY <2>1 DEF Owner, FD
  <2>4. ASSUME NEW q \in Writers(m), Held(disk, path[q], path[q].lastPos)
        PROVE  Held(disk', path[q], path[q].lastPos)
    <3>1. q \in Path /\ path[q].open /\ path[q].name = m /\ path[q].wMode
      BY DEF Writers, Of
    <3>2. /\ PathOK(path[q]) /\ path[q] \in PathType /\ path[q].fd_nr = dir[m]
          /\ Joint(disk, path[q])
      BY <3>1, PathIs
    <3>3. FD(m).blocks = path[q].blocks
      BY <3>2 DEF FD, Joint
    <3>4. path[q].lastPos <= Len(path[q].blocks) /\ path[q].lastPos \in Nat
          /\ Len(path[q].blocks) \in Nat
      BY <3>2, PathParts DEF PathOK
    <3>5. ASSUME NEW k \in 1 .. path[q].lastPos
          PROVE  disk'.data[path[q].blocks[k]] = disk.data[path[q].blocks[k]]
      <4>1. path[q].blocks[k] \in Elements(path[q].blocks)
        BY <3>2, <3>4, PathParts
      <4> QED BY <1>2, <2>3, <3>3, <4>1
    <3> QED BY <2>4, <3>5 DEF Held
  <2>5. WriterHolds(m)'
    BY <1>1, <1>4, <2>2, <2>4 DEF WriterHolds
  <2>6. ReadersSee(m)'
    BY <1>1, <2>2 DEF ReadersSee
  <2>7. DiskHas(m)'
    <3> SUFFICES ASSUME Writers(m)' = {}, NEW k \in 1 .. FD(m)'.size
                 PROVE  disk'.data[FD(m)'.blocks[k]] = Text(m, k - 1)
      BY DEF DiskHas
    <3>1. disk.data[FD(m).blocks[k]] = Text(m, k - 1) /\ k \in 1 .. FD(m).size
      BY <1>1, <2>2 DEF DiskHas
    <3>2. FD(m).blocks[k] \in Elements(FD(m).blocks)
      <4>1. FD(m) \in FileD
        BY <2>1, DiskParts DEF FD, RbfInv, Types
      <4>2. FD(m).size <= Len(FD(m).blocks) /\ FD(m).size \in Nat /\ Len(FD(m).blocks) \in Nat
        BY <4>1, RbfAssumption DEF FileD
      <4> QED BY <3>1, <4>2 DEF Elements
    <3> QED BY <1>2, <2>2, <2>3, <3>1, <3>2
  <2> QED BY <2>5, <2>6, <2>7
<1> QED BY <1>3, <1>5 DEF FileOK

\* What sees to its file, and changes no other, keeps the invariant.
LEMMA FrameKeeps ==
  ASSUME RbfInv, NEW n \in Name, Frame(n), Cared(n), Types'
  PROVE  RbfInv'
<1>1. Apart'
  BY StillApart
<1>2. AllAtFiles'
  <2> SUFFICES ASSUME NEW p \in Path, path'[p].open PROVE AtFile(p)'
    BY DEF AllAtFiles, OpenPaths
  <2>1. CASE path'[p].name = n
    BY <2>1 DEF Cared, Of
  <2>2. CASE path'[p].name # n
    BY <2>2, OthersAtFiles
  <2> QED BY <2>1, <2>2
<1>3. \A m \in Name : OneWriter(m)' /\ FileOK(m)'
  BY OthersOK DEF Cared
<1> QED BY <1>1, <1>2, <1>3 DEF RbfInv

-----------------------------------------------------------------------------
(* The operations keep the invariant *)

\* A path that has just been opened.
Fresh(f, n, fd_nr, wMode, fd) ==
  /\ PathOK(f) /\ f.open /\ f.name = n /\ f.fd_nr = fd_nr /\ f.wMode = wMode
  /\ f.currPos = 0 /\ f.lastPos = fd.size /\ f.size = fd.size /\ f.blocks = fd.blocks /\ ~f.mustW

\* NewPath makes such a one.
LEMMA NewPathIs ==
  ASSUME NEW n \in Name, NEW fd_nr \in Sector, NEW wMode \in BOOLEAN, NEW fd \in FileD
  PROVE  Fresh(NewPath(n, fd_nr, wMode, fd), n, fd_nr, wMode, fd)
<1> DEFINE f == NewPath(n, fd_nr, wMode, fd)
<1>1. fd.size \in 0 .. MaxLen /\ fd.blocks \in Seq(Sector) /\ fd.size <= Len(fd.blocks)
  BY DEF FileD
<1>2. 0 \in 0 .. MaxLen
  BY RbfAssumption
<1>3. /\ f.open = TRUE /\ f.name = n /\ f.fd_nr = fd_nr /\ f.wMode = wMode
      /\ f.currPos = 0 /\ f.lastPos = fd.size /\ f.size = fd.size /\ f.blocks = fd.blocks
      /\ f.mustW = FALSE
  BY DEF NewPath
<1>4. f \in PathType
  BY <1>1, <1>2, Zenon DEF NewPath, PathType
<1> HIDE DEF f
<1>5. PathOK(f)
  BY <1>1, <1>3, <1>4 DEF PathOK, Buffer
<1>6. Fresh(f, n, fd_nr, wMode, fd)
  BY <1>3, <1>5 DEF Fresh
<1> QED BY <1>6 DEF f

\* A file that stays where it is.
LEMMA NoMove ==
  ASSUME NEW n \in Name, disk' = disk, dir'[n] = dir[n]
  PROVE  Moves(n) /\ Spares(n)
<1>1. Owner(n)' = Owner(n)
  BY DEF Owner
<1>2. {} \in SUBSET Sector /\ {} \cap disk.map = {} /\ Owner(n)' = Owner(n) \cup {}
      /\ disk'.map = disk.map \cup {}
  BY <1>1
<1> QED BY <1>2 DEF Moves, Spares

\* The path p alone changes, and it is a path to the file n.
LEMMA OnePath ==
  ASSUME Types, NEW n \in Name, NEW p \in Path, path[p].open => path[p].name = n,
         NEW g \in PathType \cup {Closed}, path' = [path EXCEPT ![p] = g],
         g.open => g.name = n, dir' = dir,
         \A m \in Name : m # n => (m \in spoilt' <=> m \in spoilt),
         Moves(n), Spares(n)
  PROVE  /\ Frame(n) /\ path' \in [Path -> PathType \cup {Closed}]
         /\ path'[p] = g /\ \A q \in Path : q # p => path'[q] = path[q]
<1>1. /\ path' \in [Path -> PathType \cup {Closed}]
      /\ path'[p] = g /\ \A q \in Path : q # p => path'[q] = path[q]
  BY DEF Types
<1> QED BY <1>1 DEF Frame

\* pRopen.
LEMMA OpenKeeps ==
  ASSUME RbfInv, NEW p \in Path, NEW n \in Name, NEW wMode \in BOOLEAN, Open(p, n, wMode)
  PROVE  Types' /\ Frame(n) /\ Cared(n)
<1> DEFINE fd == disk.fd[dir[n]]
           g == NewPath(n, dir[n], wMode, fd)
<1>1. /\ ~path[p].open /\ dir[n] # 0 /\ path' = [path EXCEPT ![p] = g]
      /\ wMode => Writers(n) = {}
      /\ disk' = disk /\ dir' = dir /\ spoilt' = spoilt
  BY DEF Open
<1>2. dir[n] \in Sector /\ disk \in Disk
  BY <1>1 DEF RbfInv, Types
<1>3. fd \in FileD
  BY <1>2, DiskParts
<1> HIDE DEF fd
<1>4. Fresh(g, n, dir[n], wMode, fd)
  BY <1>2, <1>3, NewPathIs
<1> HIDE DEF g
<1>5. /\ PathOK(g) /\ g \in PathType /\ g.open /\ g.name = n /\ g.fd_nr = dir[n]
      /\ g.wMode = wMode /\ g.currPos = 0 /\ g.lastPos = fd.size /\ g.size = fd.size
      /\ g.blocks = fd.blocks /\ ~g.mustW
  BY <1>4 DEF Fresh, PathOK
<1>6. /\ Frame(n) /\ path' \in [Path -> PathType \cup {Closed}]
      /\ path'[p] = g /\ \A q \in Path : q # p => path'[q] = path[q]
  BY <1>1, <1>5, NoMove, OnePath DEF RbfInv
<1>7. Types'
  BY <1>1, <1>6 DEF RbfInv, Types
<1>8. fd.size \in Nat /\ Len(fd.blocks) \in Nat /\ fd.size <= Len(fd.blocks)
  BY <1>3, RbfAssumption DEF FileD
<1>9. fd = [size |-> g.size, blocks |-> g.blocks]
  BY <1>3, <1>5 DEF FileD
<1>10. AtFile(p)'
  <2>1. Joint(disk, g)
    <3>1. Owner(n) = {dir[n]} \cup Elements(fd.blocks)
      BY <1>1 DEF Owner, fd
    <3>2. Owner(n) \subseteq disk.map /\ dir[n] \notin Elements(fd.blocks)
      BY <1>1 DEF RbfInv, Apart, fd
    <3> QED BY <1>5, <1>9, <3>1, <3>2 DEF Joint, fd
  <2> QED BY <1>1, <1>5, <1>6, <1>8, <2>1 DEF AtFile
<1>11. \A q \in Of(n)' : q = p \/ (q \in Of(n) /\ q # p /\ path'[q] = path[q])
  BY <1>6 DEF Of
<1>12. \A q \in Of(n)' : AtFile(q)'
  BY <1>1, <1>10, <1>11 DEF RbfInv, AllAtFiles, OpenPaths, AtFile, Of
<1>13. OneWriter(n)'
  BY <1>1, <1>5, <1>6, <1>11 DEF OneWriter, Writers, RbfInv
<1>14. FileOK(n)'
  <2> SUFFICES ASSUME n \notin spoilt PROVE WriterHolds(n)' /\ ReadersSee(n)' /\ DiskHas(n)'
    BY <1>1 DEF FileOK
  <2>1. WriterHolds(n) /\ ReadersSee(n) /\ DiskHas(n)
    BY <1>1 DEF RbfInv, FileOK
  <2>2. FD(n)' = fd /\ FD(n) = fd
    BY <1>1 DEF FD, fd
  <2>3. WriterHolds(n)'
    <3> SUFFICES ASSUME NEW q \in Writers(n)'
                 PROVE  /\ path'[q].size <= path'[q].lastPos
                        /\ Held(disk', path'[q], path'[q].lastPos)
      BY DEF WriterHolds
    <3>1. CASE q = p
      <4>1. wMode /\ Writers(n) = {}
        BY <1>1, <1>5, <1>6, <3>1 DEF Writers
      <4>2. \A k \in 1 .. fd.size : disk.data[fd.blocks[k]] = Text(n, k - 1)
        BY <2>1, <2>2, <4>1 DEF DiskHas
      <4>3. Held(disk, g, g.lastPos)
        BY <1>5, <4>2 DEF Held
      <4> QED BY <1>1, <1>5, <1>6, <1>8, <3>1, <4>3
    <3>2. CASE q # p
      <4>1. path'[q] = path[q] /\ q \in Writers(n)
        BY <1>11, <3>2 DEF Writers
      <4> QED BY <1>1, <2>1, <4>1 DEF WriterHolds
    <3> QED BY <3>1, <3>2
  <2>4. ReadersSee(n)'
    <3> SUFFICES ASSUME NEW q \in Of(n)' \ Writers(n)'
                 PROVE  /\ Readable(path'[q]) <= fd.size
                        /\ \A k \in 1 .. Readable(path'[q]) : path'[q].blocks[k] = fd.blocks[k]
      BY <2>2 DEF ReadersSee
    <3>1. CASE q = p
      <4>1. Readable(g) = fd.size
        BY <1>5, <1>8, ReadableIs DEF Larger
      <4> QED BY <1>5, <1>6, <1>8, <3>1, <4>1
    <3>2. CASE q # p
      <4>1. path'[q] = path[q] /\ q \in Of(n) \ Writers(n)
        BY <1>11, <3>2 DEF Writers
      <4> QED BY <2>1, <2>2, <4>1 DEF ReadersSee
    <3> QED BY <3>1, <3>2
  <2>5. DiskHas(n)'
    <3>1. Writers(n)' = {} => Writers(n) = {}
      <4> SUFFICES ASSUME NEW q \in Writers(n) PROVE q \in Writers(n)'
        OBVIOUS
      <4>1. q \in Path /\ path[q].open /\ q # p
        BY <1>1 DEF Writers, Of
      <4> QED BY <1>6, <4>1 DEF Writers, Of
    <3> QED BY <1>1, <2>1, <2>2, <3>1 DEF DiskHas
  <2> QED BY <2>3, <2>4, <2>5
<1>15. dir'[n] \notin Elements(disk'.fd[dir'[n]].blocks)
  BY <1>1 DEF RbfInv, Apart
<1> QED BY <1>6, <1>7, <1>12, <1>13, <1>14, <1>15 DEF Cared

\* When a path of a file changes, and no path is opened or closed, the file still has the
\* paths it had.
LEMMA SamePaths ==
  ASSUME NEW n \in Name, NEW p \in Path, path[p].open, path[p].name = n,
         NEW g, path'[p] = g, g.open, g.name = n, g.wMode = path[p].wMode,
         \A q \in Path : q # p => path'[q] = path[q]
  PROVE  /\ Of(n)' = Of(n) /\ Writers(n)' = Writers(n)
         /\ (OneWriter(n) => OneWriter(n)')
<1>1. \A q \in Path : path'[q].open /\ path'[q].name = n <=> path[q].open /\ path[q].name = n
  OBVIOUS
<1>2. Of(n)' = Of(n)
  BY <1>1 DEF Of
<1>3. \A q \in Path : path'[q].wMode = path[q].wMode
  OBVIOUS
<1>4. Of(n) \subseteq Path
  BY DEF Of
<1>5. Writers(n)' = Writers(n)
  BY <1>2, <1>3, <1>4 DEF Writers
<1> QED BY <1>2, <1>5 DEF OneWriter

\* A call that makes the file grow, or not.
LEMMA GrownMoves ==
  ASSUME RbfInv, NEW n \in Name, dir[n] # 0, dir'[n] = dir[n],
         Grown(disk, disk', dir[n])
  PROVE  Moves(n) /\ Spares(n)
<1>1. PICK S \in SUBSET Sector :
         /\ S \cap disk.map = {} /\ disk'.map = disk.map \cup S
         /\ Elements(disk'.fd[dir[n]].blocks) = Elements(disk.fd[dir[n]].blocks) \cup S
         /\ \A t \in disk.map : t # dir[n] => disk'.fd[t] = disk.fd[t]
         /\ \A t \in disk.map : t \notin Elements(disk.fd[dir[n]].blocks)
                                   => disk'.data[t] = disk.data[t]
  BY DEF Grown
<1>2. Owner(n)' = Owner(n) \cup S
  BY <1>1 DEF Owner
<1>3. \A t \in disk.map : t \notin Owner(n) => /\ disk'.fd[t] = disk.fd[t]
                                               /\ disk'.data[t] = disk.data[t]
  BY <1>1 DEF Owner
<1> QED BY <1>1, <1>2, <1>3 DEF Moves, Spares

\* What a call of a path that writes does to its file.
LEMMA WriterCares ==
  ASSUME RbfInv, NEW p \in Path, path[p].open, path[p].wMode, disk' \in Disk, dir' = dir,
         NEW g, path'[p] = g, \A q \in Path : q # p => path'[q] = path[q],
         PathOK(g), Joint(disk', g), SameFile(path[p], g), Longer(path[p], g),
         g.currPos <= g.lastPos,
         NEW n, n = path[p].name, n \in spoilt => n \in spoilt',
         n \notin spoilt' => g.size <= g.lastPos /\ Held(disk', g, g.lastPos)
  PROVE  Cared(n)
<1> DEFINE f == path[p]
<1>1. /\ PathOK(f) /\ n \in Name /\ f.fd_nr = dir[n] /\ dir[n] # 0 /\ dir[n] \in Sector
      /\ Joint(disk, f) /\ p \in Of(n) /\ p \in Writers(n)
  BY PathIs DEF Writers
<1>2. /\ g.open /\ g.name = n /\ g.wMode /\ g.fd_nr = dir[n] /\ g.size = f.size
      /\ g.blocks \in Seq(Sector)
  BY <1>1, PathParts DEF SameFile, PathOK
<1>3. Of(n)' = Of(n) /\ Writers(n)' = Writers(n) /\ OneWriter(n)'
  BY <1>1, <1>2, SamePaths DEF RbfInv
<1>4. \A q \in Writers(n) : q = p
  BY <1>1 DEF RbfInv, OneWriter
<1>5. AtFile(p)'
  BY <1>2 DEF AtFile
<1>6. ASSUME NEW q \in Of(n)' PROVE AtFile(q)'
  <2>1. CASE q = p
    BY <1>5, <2>1
  <2>2. CASE q # p
    <3>1. q \in Path /\ path[q].open /\ path'[q] = path[q] /\ path[q].name = n
      BY <1>3, <2>2 DEF Of
    <3>2. ~path[q].wMode
      BY <1>4, <2>2, <3>1 DEF Writers, Of
    <3> QED BY <3>1, <3>2 DEF AtFile, RbfInv, AllAtFiles, OpenPaths
  <2> QED BY <2>1, <2>2
<1>7. /\ FD(n)' = [size |-> g.size, blocks |-> g.blocks]
      /\ FD(n) = [size |-> f.size, blocks |-> f.blocks]
  BY <1>1, <1>2 DEF FD, Joint
<1>8. FileOK(n)'
  <2> SUFFICES ASSUME n \notin spoilt' PROVE WriterHolds(n)' /\ ReadersSee(n)' /\ DiskHas(n)'
    BY DEF FileOK
  <2>1. ReadersSee(n)
    BY <1>1 DEF RbfInv, FileOK
  <2>2. WriterHolds(n)'
    BY <1>3, <1>4 DEF WriterHolds
  <2>3. DiskHas(n)'
    BY <1>1, <1>3 DEF DiskHas
  <2>4. ReadersSee(n)'
    <3> SUFFICES ASSUME NEW q \in Of(n) \ Writers(n)
                 PROVE  /\ Readable(path'[q]) <= g.size
                        /\ \A k \in 1 .. Readable(path'[q]) : path'[q].blocks[k] = g.blocks[k]
      BY <1>3, <1>7 DEF ReadersSee
    <3>1. q # p /\ q \in Path /\ path[q].open
      BY <1>1 DEF Of
    <3>2. path'[q] = path[q] /\ PathOK(path[q])
      BY <3>1, PathIs
    <3>3. /\ Readable(path[q]) <= f.size
          /\ \A k \in 1 .. Readable(path[q]) : path[q].blocks[k] = f.blocks[k]
      BY <1>7, <2>1 DEF ReadersSee
    <3>4. Readable(path[q]) \in Nat /\ f.size \in Nat /\ Len(f.blocks) \in Nat
          /\ f.size <= Len(f.blocks)
      BY <1>1, <3>2, ReadableIs, PathParts DEF PathOK
    <3>5. \A k \in 1 .. Readable(path[q]) : k \in 1 .. Len(f.blocks)
      BY <3>3, <3>4
    <3>6. \A k \in 1 .. Len(f.blocks) : g.blocks[k] = f.blocks[k]
      BY DEF Longer
    <3> QED BY <1>2, <3>2, <3>3, <3>5, <3>6
  <2> QED BY <2>2, <2>3, <2>4
<1>9. dir'[n] \notin Elements(disk'.fd[dir'[n]].blocks)
  BY <1>2, <1>7 DEF Joint, FD
<1> QED BY <1>3, <1>6, <1>8, <1>9 DEF Cared

\* pRwrite.
LEMMA WriteKeeps ==
  ASSUME RbfInv, NEW p \in Path, NEW n \in Lens, Write(p, n),
         NEW m \in Name, m = path[p].name
  PROVE  Types' /\ Frame(m) /\ Cared(m) /\ NotShorter(m)
<1> DEFINE f == path[p]
           x == Written(f, n)
<1>1. /\ path[p].open /\ f.wMode /\ f.currPos + n <= MaxLen
      /\ disk' = x.d /\ path' = [path EXCEPT ![p] = x.f] /\ dir' = dir
      /\ spoilt' = IF x.f.lastPos < f.lastPos THEN spoilt \cup {m} ELSE spoilt
  BY DEF Write
<1>2. /\ PathOK(f) /\ m \in Name /\ f.fd_nr = dir[m] /\ dir[m] # 0
      /\ Joint(disk, f) /\ f.currPos <= f.lastPos /\ disk \in Disk
      /\ f.lastPos \in Nat /\ f.size \in Nat
  BY <1>1, PathIs, PathParts
<1>3. Wrote(f, x)
  BY <1>1, <1>2, WrittenIs
<1> HIDE DEF x
<1>4. /\ x.d \in Disk /\ PathOK(x.f) /\ Joint(x.d, x.f) /\ x.f.wMode
      /\ SameFile(f, x.f) /\ Longer(f, x.f) /\ Grown(disk, x.d, dir[m])
      /\ x.f.currPos <= x.f.lastPos
      /\ Held(disk, f, f.lastPos) /\ f.lastPos <= x.f.lastPos => Held(x.d, x.f, x.f.lastPos)
  BY <1>2, <1>3 DEF Wrote
<1>5. x.f \in PathType /\ x.f.open /\ x.f.name = m /\ x.f.size = f.size /\ x.f.lastPos \in Nat
  BY <1>4, PathParts DEF PathOK, SameFile
<1>6. Moves(m) /\ Spares(m)
  BY <1>1, <1>2, <1>4, GrownMoves
<1>7. spoilt' \subseteq Name /\ \A k \in Name : k # m => (k \in spoilt' <=> k \in spoilt)
  BY <1>1, <1>2 DEF RbfInv, Types
<1>8. /\ Frame(m) /\ path' \in [Path -> PathType \cup {Closed}]
      /\ path'[p] = x.f /\ \A q \in Path : q # p => path'[q] = path[q]
  <2> DEFINE g == x.f
  <2> HIDE DEF g
  <2>1. path[p].name = m
    OBVIOUS
  <2>2. path' = [path EXCEPT ![p] = g] /\ g \in PathType \cup {Closed} /\ g.name = m
    BY <1>1, <1>5 DEF g
  <2>3. Types
    BY DEF RbfInv
  <2>4. /\ Frame(m) /\ path' \in [Path -> PathType \cup {Closed}]
        /\ path'[p] = g /\ \A q \in Path : q # p => path'[q] = path[q]
    BY <1>1, <1>2, <1>6, <1>7, <2>1, <2>2, <2>3, OnePath
  <2> QED BY <2>4 DEF g
<1>9. Types'
  BY <1>1, <1>4, <1>7, <1>8 DEF RbfInv, Types
<1>10. m \in spoilt => m \in spoilt'
  BY <1>1
<1>11. ASSUME m \notin spoilt' PROVE x.f.size <= x.f.lastPos /\ Held(x.d, x.f, x.f.lastPos)
  <2>1. m \notin spoilt /\ f.lastPos <= x.f.lastPos
    BY <1>1, <1>2, <1>5, <1>11
  <2>2. p \in Writers(m)
    BY <1>1 DEF Writers, Of
  <2>3. f.size <= f.lastPos /\ Held(disk, f, f.lastPos)
    BY <1>2, <2>1, <2>2 DEF RbfInv, FileOK, WriterHolds
  <2> QED BY <1>2, <1>4, <1>5, <2>1, <2>3
<1>12. Cared(m)
  <2> DEFINE g == x.f
  <2>1. g = x.f
    OBVIOUS
  <2> HIDE DEF g
  <2>2. /\ disk' \in Disk /\ path'[p] = g /\ PathOK(g) /\ Joint(disk', g) /\ SameFile(f, g)
        /\ Longer(f, g) /\ g.currPos <= g.lastPos
        /\ m \notin spoilt' => g.size <= g.lastPos /\ Held(disk', g, g.lastPos)
    BY <1>1, <1>4, <1>8, <1>11, <2>1
  <2> QED BY <1>1, <1>8, <1>10, <2>2, WriterCares
<1>13. NotShorter(m)
  <2>1. disk.fd[dir[m]].size = f.size /\ x.d.fd[dir[m]].size = x.f.size
    BY <1>2, <1>4 DEF Joint, SameFile
  <2> QED BY <1>1, <1>2, <1>5, <2>1 DEF NotShorter
<1> QED BY <1>8, <1>9, <1>12, <1>13

\* What a call of a path that only reads does: nothing to the disk, and it sees no more of
\* the file than before.
LEMMA ReaderCares ==
  ASSUME RbfInv, NEW p \in Path, path[p].open, ~path[p].wMode, disk' = disk, dir' = dir,
         NEW g, path'[p] = g, \A q \in Path : q # p => path'[q] = path[q],
         PathOK(g), SameFile(path[p], g), g.blocks = path[p].blocks,
         g.currPos <= g.lastPos, Readable(g) <= Readable(path[p]),
         NEW n, n = path[p].name, spoilt' = spoilt
  PROVE  Cared(n)
<1> DEFINE f == path[p]
<1>1. /\ PathOK(f) /\ n \in Name /\ f.fd_nr = dir[n] /\ dir[n] # 0 /\ p \in Of(n)
  BY PathIs
<1>2. g.open /\ g.name = n /\ ~g.wMode /\ g.fd_nr = dir[n] /\ g.blocks = f.blocks
      /\ g.wMode = f.wMode
  BY <1>1, PathParts DEF SameFile, PathOK, Same
<1>3. Of(n)' = Of(n) /\ Writers(n)' = Writers(n) /\ OneWriter(n)'
  BY <1>1, <1>2, SamePaths DEF RbfInv
<1>4. p \notin Writers(n)
  BY DEF Writers
<1>5. AtFile(p)'
  BY <1>2 DEF AtFile
<1>6. ASSUME NEW q \in Of(n)' PROVE AtFile(q)'
  <2>1. CASE q = p
    BY <1>5, <2>1
  <2>2. CASE q # p
    BY <1>3, <2>2 DEF AtFile, RbfInv, AllAtFiles, OpenPaths, Of
  <2> QED BY <2>1, <2>2
<1>7. FD(n)' = FD(n)
  BY DEF FD
<1>8. FileOK(n)'
  <2> SUFFICES ASSUME n \notin spoilt PROVE WriterHolds(n)' /\ ReadersSee(n)' /\ DiskHas(n)'
    BY DEF FileOK
  <2>1. WriterHolds(n) /\ ReadersSee(n) /\ DiskHas(n)
    BY <1>1 DEF RbfInv, FileOK
  <2>2. WriterHolds(n)'
    <3>1. \A q \in Writers(n) : path'[q] = path[q]
      BY <1>4 DEF Writers, Of
    <3> QED BY <1>3, <2>1, <3>1 DEF WriterHolds
  <2>3. DiskHas(n)'
    BY <1>3, <1>7, <2>1 DEF DiskHas
  <2>4. ReadersSee(n)'
    <3> SUFFICES ASSUME NEW q \in Of(n) \ Writers(n)
                 PROVE  /\ Readable(path'[q]) <= FD(n).size
                        /\ \A k \in 1 .. Readable(path'[q]) : path'[q].blocks[k] = FD(n).blocks[k]
      BY <1>3, <1>7 DEF ReadersSee
    <3>1. /\ Readable(path[q]) <= FD(n).size
          /\ \A k \in 1 .. Readable(path[q]) : path[q].blocks[k] = FD(n).blocks[k]
      BY <2>1 DEF ReadersSee
    <3>2. CASE q # p
      BY <3>1, <3>2 DEF Of
    <3>3. CASE q = p
      <4>1. Readable(g) \in Nat /\ Readable(f) \in Nat /\ FD(n).size \in Nat
        <5>1. FD(n) \in FileD
          BY <1>1, DiskParts DEF FD, RbfInv, Types
        <5>2. FD(n).size \in Nat
          BY <5>1, RbfAssumption DEF FileD
        <5> QED BY <1>1, <5>2, ReadableIs
      <4>2. \A k \in 1 .. Readable(g) : k \in 1 .. Readable(f)
        BY <4>1
      <4> QED BY <1>2, <3>1, <3>3, <4>1, <4>2
    <3> QED BY <3>2, <3>3
  <2> QED BY <2>2, <2>3, <2>4
<1>9. dir'[n] \notin Elements(disk'.fd[dir'[n]].blocks)
  BY <1>1 DEF RbfInv, Apart
<1> QED BY <1>3, <1>6, <1>8, <1>9 DEF Cared

\* pRread.
LEMMA ReadKeeps ==
  ASSUME RbfInv, NEW p \in Path, NEW n \in Lens, Read(p, n),
         NEW m \in Name, m = path[p].name
  PROVE  Types' /\ Frame(m) /\ Cared(m) /\ NotShorter(m)
<1> DEFINE f == path[p]
           left == Smaller(n, Readable(f) - f.currPos)
           x == ReadIn(f, left)
           l == Larger(x.f.lastPos, x.f.currPos)
           h == [x.f EXCEPT !.lastPos = Larger(@, x.f.currPos)]
<1>1. /\ path[p].open /\ f.currPos < Readable(f)
      /\ disk' = x.d /\ path' = [path EXCEPT ![p] = h] /\ dir' = dir /\ spoilt' = spoilt
  BY DEF Read
<1>2. /\ PathOK(f) /\ m \in Name /\ f.fd_nr = dir[m] /\ dir[m] # 0
      /\ (f.wMode => Joint(disk, f)) /\ f.currPos <= f.lastPos /\ disk \in Disk
      /\ f.lastPos \in Nat /\ f.size \in Nat /\ f.currPos \in Nat
  BY <1>1, PathIs, PathParts
<1>3. Readable(f) = Larger(f.size, f.lastPos) /\ Readable(f) \in Nat
  BY <1>2, ReadableIs
<1>4. left \in Nat \ {0} /\ left <= 2 /\ f.currPos + left <= Readable(f)
  <2> DEFINE r == Readable(f)
             c == f.currPos
  <2>1. r \in Nat /\ c \in Nat /\ c < r /\ n \in 1 .. 2
    BY <1>1, <1>2, <1>3 DEF Lens
  <2> HIDE DEF r, c
  <2>2. Smaller(n, r - c) \in Nat \ {0} /\ Smaller(n, r - c) <= 2 /\ c + Smaller(n, r - c) <= r
    BY <2>1 DEF Smaller
  <2> QED BY <2>2 DEF r, c
<1>5. WasRead(f, x)
  <2> HIDE DEF left
  <2> QED BY <1>2, <1>4, ReadInIs
<1> HIDE DEF x
<1>6. /\ x.d \in Disk /\ PathOK(x.f) /\ Same(f, x.f) /\ (f.wMode => Joint(x.d, x.f))
      /\ Grown(disk, x.d, dir[m]) /\ (~f.wMode => x.d = disk)
      /\ x.f.currPos <= Readable(f)
      /\ f.wMode /\ Held(disk, f, f.lastPos) => Held(x.d, x.f, f.lastPos)
  BY <1>2, <1>5 DEF WasRead
<1>7. /\ x.f \in PathType /\ x.f.open /\ x.f.name = m
      /\ x.f.size = f.size /\ x.f.lastPos = f.lastPos
      /\ x.f.currPos \in Nat /\ x.f.blocks = f.blocks /\ x.f.wMode = f.wMode
      /\ x.f.currPos <= Len(f.blocks) /\ f.lastPos <= Len(f.blocks) /\ Len(f.blocks) \in Nat
      /\ x.f.currPos <= MaxLen /\ f.lastPos <= MaxLen
  <2>1. x.f \in PathType /\ f \in PathType /\ Same(f, x.f)
    BY <1>2, <1>6 DEF PathOK
  <2>2. x.f.currPos \in 0 .. MaxLen /\ f.lastPos \in 0 .. MaxLen
    BY <2>1, PathParts
  <2> QED BY <1>2, <1>6, <2>1, <2>2, PathParts, RbfAssumption DEF PathOK, Same, SameFile
<1>8. /\ l \in 0 .. Len(x.f.blocks) /\ l <= MaxLen /\ x.f.currPos <= l /\ l \in Nat
      /\ l <= Larger(f.size, f.lastPos) /\ f.lastPos <= l
  BY <1>2, <1>3, <1>6, <1>7 DEF Larger
<1>9. Placed(x.f, h, x.f.currPos, l)
  <2> DEFINE g == [x.f EXCEPT !.currPos = x.f.currPos, !.lastPos = l]
  <2>1. Placed(x.f, g, x.f.currPos, l)
    <3>1. x.f.currPos \in 0 .. Len(x.f.blocks)
      BY <1>7
    <3> QED BY <1>6, <1>7, <1>8, <3>1, SetPosition, Zenon
  <2>2. h = [x.f EXCEPT !.lastPos = l]
    BY <1>7
  <2> HIDE DEF l
  <2>3. [x.f EXCEPT !.lastPos = l] = g
    BY <1>7 DEF PathType
  <2> QED BY <2>1, <2>2, <2>3
<1> HIDE DEF h, l
<1>10. /\ PathOK(h) /\ SameFile(f, h) /\ h.blocks = f.blocks /\ h.currPos <= h.lastPos
       /\ h.lastPos = l /\ h.size = f.size /\ h.mustW = x.f.mustW /\ h.rw_nr = x.f.rw_nr
       /\ h.name = m
  BY <1>6, <1>7, <1>8, <1>9 DEF Placed, SameFile, Same
<1>11. h \in PathType /\ h.open
  BY <1>10, PathParts DEF PathOK
<1>12. Moves(m) /\ Spares(m)
  BY <1>1, <1>2, <1>6, GrownMoves
<1>13. /\ Frame(m) /\ path' \in [Path -> PathType \cup {Closed}]
       /\ path'[p] = h /\ \A q \in Path : q # p => path'[q] = path[q]
  <2>1. path[p].name = m /\ Types
    BY DEF RbfInv
  <2> QED BY <1>1, <1>2, <1>10, <1>11, <1>12, <2>1, OnePath
<1>14. Types'
  BY <1>1, <1>6, <1>13 DEF RbfInv, Types
<1>15. NotShorter(m)
  <2>1. CASE f.wMode
    <3>1. disk.fd[dir[m]].size = f.size /\ x.d.fd[dir[m]].size = x.f.size
      BY <1>2, <1>6, <2>1 DEF Joint, Same, SameFile
    <3> QED BY <1>1, <1>2, <1>7, <3>1 DEF NotShorter
  <2>2. CASE ~f.wMode
    <3>1. disk.fd[dir[m]] \in FileD
      BY <1>1, <1>2, PathIs, DiskParts
    <3>2. disk.fd[dir[m]].size \in Nat
      BY <3>1, RbfAssumption DEF FileD
    <3> QED BY <1>1, <1>6, <2>2, <3>2 DEF NotShorter
  <2> QED BY <2>1, <2>2
<1>16. CASE f.wMode
  <2>1. ASSUME m \notin spoilt PROVE h.size <= h.lastPos /\ Held(x.d, h, h.lastPos)
    <3>1. p \in Writers(m)
      BY <1>1, <1>16 DEF Writers, Of
    <3>2. f.size <= f.lastPos /\ Held(disk, f, f.lastPos)
      BY <1>2, <2>1, <3>1 DEF RbfInv, FileOK, WriterHolds
    <3>3. l = f.lastPos
      BY <1>2, <1>8, <3>2 DEF Larger
    <3>4. Held(x.d, x.f, l)
      BY <1>6, <1>16, <3>2, <3>3
    <3> QED BY <1>2, <1>7, <1>10, <3>2, <3>3, <3>4 DEF Held
  <2>2. Joint(x.d, h) /\ Longer(f, h)
    <3>1. h.blocks = x.f.blocks /\ h.fd_nr = x.f.fd_nr /\ h.size = x.f.size
      BY <1>6, <1>7, <1>10 DEF Same, SameFile
    <3> QED BY <1>6, <1>7, <1>10, <1>16, <3>1 DEF Joint, Longer
  <2>3. Cared(m)
    BY <1>1, <1>6, <1>10, <1>13, <1>16, <2>1, <2>2, WriterCares
  <2> QED BY <1>13, <1>14, <1>15, <2>3
<1>17. CASE ~f.wMode
  <2>1. Readable(h) <= Readable(f)
    <3>1. Readable(h) = Larger(h.size, h.lastPos)
      BY <1>10, ReadableIs
    <3> QED BY <1>2, <1>3, <1>8, <1>10, <3>1 DEF Larger
  <2>2. disk' = disk
    BY <1>1, <1>6, <1>17
  <2>3. Cared(m)
    BY <1>1, <1>10, <1>13, <1>17, <2>1, <2>2, ReaderCares
  <2> QED BY <1>13, <1>14, <1>15, <2>3
<1> QED BY <1>16, <1>17

\* pRseek.
LEMMA SeekKeeps ==
  ASSUME RbfInv, NEW p \in Path, NEW pos \in 0 .. MaxLen, Seek(p, pos),
         NEW m \in Name, m = path[p].name
  PROVE  Types' /\ Frame(m) /\ Cared(m)
<1> DEFINE f == path[p]
           h == [f EXCEPT !.currPos = pos]
<1>1. /\ path[p].open /\ pos \in {0, f.lastPos}
      /\ path' = [path EXCEPT ![p] = h] /\ disk' = disk /\ dir' = dir /\ spoilt' = spoilt
  BY DEF Seek
<1>2. /\ PathOK(f) /\ f \in PathType /\ m \in Name /\ f.fd_nr = dir[m] /\ dir[m] # 0
      /\ (f.wMode => Joint(disk, f)) /\ disk \in Disk
      /\ f.lastPos \in Nat /\ f.size \in Nat /\ Len(f.blocks) \in Nat
      /\ f.lastPos <= Len(f.blocks) /\ f.lastPos \in 0 .. MaxLen
  BY <1>1, PathIs, PathParts DEF PathOK
<1>3. Placed(f, h, pos, f.lastPos)
  <2> DEFINE g == [f EXCEPT !.currPos = pos, !.lastPos = f.lastPos]
  <2>1. pos \in 0 .. Len(f.blocks) /\ f.lastPos \in 0 .. Len(f.blocks)
        /\ pos <= MaxLen /\ f.lastPos <= MaxLen
    BY <1>1, <1>2
  <2>2. Placed(f, g, pos, f.lastPos)
    BY <1>2, <2>1, SetPosition, Zenon
  <2>3. h = g
    BY <1>2 DEF PathType
  <2> HIDE DEF h, g
  <2> QED BY <2>2, <2>3
<1> HIDE DEF h
<1>4. /\ PathOK(h) /\ SameFile(f, h) /\ h.blocks = f.blocks /\ h.currPos <= h.lastPos
      /\ h.lastPos = f.lastPos /\ h.size = f.size /\ h.mustW = f.mustW /\ h.rw_nr = f.rw_nr
      /\ h.name = m
  BY <1>1, <1>2, <1>3 DEF Placed, SameFile
<1>5. h \in PathType /\ h.open
  BY <1>4, PathParts DEF PathOK
<1>6. Moves(m) /\ Spares(m)
  BY <1>1, <1>2, NoMove
<1>7. /\ Frame(m) /\ path' \in [Path -> PathType \cup {Closed}]
      /\ path'[p] = h /\ \A q \in Path : q # p => path'[q] = path[q]
  <2>1. path[p].name = m /\ Types
    BY DEF RbfInv
  <2> QED BY <1>1, <1>2, <1>4, <1>5, <1>6, <2>1, OnePath
<1>8. Types'
  BY <1>1, <1>7 DEF RbfInv, Types
<1>9. CASE f.wMode
  <2>1. ASSUME m \notin spoilt PROVE h.size <= h.lastPos /\ Held(disk, h, h.lastPos)
    <3>1. p \in Writers(m)
      BY <1>1, <1>9 DEF Writers, Of
    <3>2. f.size <= f.lastPos /\ Held(disk, f, f.lastPos)
      BY <1>2, <2>1, <3>1 DEF RbfInv, FileOK, WriterHolds
    <3> QED BY <1>4, <3>2 DEF Held
  <2>2. Joint(disk, h) /\ Longer(f, h)
    <3>1. h.fd_nr = f.fd_nr
      BY <1>4 DEF SameFile
    <3> QED BY <1>2, <1>4, <1>9, <3>1 DEF Joint, Longer
  <2>3. Cared(m)
    BY <1>1, <1>2, <1>4, <1>7, <1>9, <2>1, <2>2, WriterCares
  <2> QED BY <1>7, <1>8, <2>3
<1>10. CASE ~f.wMode
  <2>1. Readable(h) <= Readable(f)
    <3>1. Readable(h) = Larger(h.size, h.lastPos) /\ Readable(f) = Larger(f.size, f.lastPos)
      BY <1>2, <1>4, ReadableIs
    <3>2. Readable(f) \in Nat
      BY <1>2, ReadableIs
    <3> QED BY <1>4, <3>1, <3>2
  <2>2. Cared(m)
    BY <1>1, <1>4, <1>7, <1>10, <2>1, ReaderCares
  <2> QED BY <1>7, <1>8, <2>2
<1> QED BY <1>9, <1>10

\* A path that has the file for itself makes it shorter: what is below its new last position
\* is there.
LEMMA SetSizeKeeps ==
  ASSUME RbfInv, NEW p \in Path, NEW size \in 0 .. MaxLen, SetSize(p, size),
         NEW m \in Name, m = path[p].name
  PROVE  Types' /\ Frame(m) /\ Cared(m)
<1> DEFINE f == path[p]
           c == Smaller(f.currPos, size)
           f1 == [f EXCEPT !.lastPos = size]
           f2 == [f1 EXCEPT !.size = size]
           h == [f2 EXCEPT !.currPos = c]
           r == [size |-> h.size, blocks |-> h.blocks]
<1>1. /\ path[p].open /\ f.wMode /\ OthersOf(p) = {} /\ size < f.lastPos
      /\ dir' = dir /\ spoilt' = spoilt
  BY DEF SetSize
<1>2. /\ PathOK(f) /\ f \in PathType /\ m \in Name /\ f.fd_nr = dir[m] /\ dir[m] # 0
      /\ Joint(disk, f) /\ disk \in Disk /\ p \in Of(m) /\ dir[m] \in Sector
      /\ f.lastPos \in Nat /\ f.size \in Nat /\ Len(f.blocks) \in Nat /\ f.currPos \in Nat
      /\ f.lastPos <= Len(f.blocks) /\ f.lastPos \in 0 .. MaxLen
  BY <1>1, PathIs, PathParts DEF PathOK
<1>3. disk' = WriteFD(disk, h) /\ path' = [path EXCEPT ![p] = h]
  <2> DEFINE g == [f EXCEPT !.lastPos = size, !.size = size, !.currPos = Smaller(@, size)]
  <2>1. g = h
    BY <1>2 DEF PathType
  <2>2. disk' = WriteFD(disk, g) /\ path' = [path EXCEPT ![p] = g]
    BY Zenon DEF SetSize
  <2> HIDE DEF g, h
  <2> QED BY <2>1, <2>2
<1>4. c \in 0 .. MaxLen /\ c <= size /\ c \in Nat /\ size \in Nat /\ size < Len(f.blocks)
  <2> DEFINE q == f.currPos
             len == Len(f.blocks)
             l == f.lastPos
  <2>1. q \in Nat /\ len \in Nat /\ l \in Nat /\ l <= len /\ size < l
    BY <1>1, <1>2
  <2> HIDE DEF q, len, l
  <2>2. size \in Nat /\ size <= MaxLen /\ MaxLen \in Nat /\ size < len
    BY <2>1, RbfAssumption
  <2>3. Smaller(q, size) \in Nat /\ Smaller(q, size) <= size
    BY <2>1, <2>2 DEF Smaller
  <2>4. Smaller(q, size) \in 0 .. MaxLen
    BY <2>2, <2>3
  <2> QED BY <2>2, <2>3, <2>4 DEF q, len
<1> HIDE DEF c
<1>5. /\ f1 \in PathType /\ f1.lastPos = size /\ f1.name = f.name /\ f1.fd_nr = f.fd_nr
      /\ f1.wMode = f.wMode /\ f1.blocks = f.blocks /\ f1.rw_nr = f.rw_nr
      /\ f1.rw_sct = f.rw_sct /\ f1.mustW = f.mustW
  BY <1>2 DEF PathType
<1> HIDE DEF f1
<1>6. /\ f2 \in PathType /\ f2.lastPos = size /\ f2.name = f.name /\ f2.fd_nr = f.fd_nr
      /\ f2.wMode = f.wMode /\ f2.blocks = f.blocks /\ f2.rw_nr = f.rw_nr
      /\ f2.rw_sct = f.rw_sct /\ f2.mustW = f.mustW /\ f2.size = size
  BY <1>5 DEF PathType
<1> HIDE DEF f2
<1>7. /\ h \in PathType /\ h.lastPos = size /\ h.name = f.name /\ h.fd_nr = f.fd_nr
      /\ h.wMode = f.wMode /\ h.blocks = f.blocks /\ h.rw_nr = f.rw_nr
      /\ h.rw_sct = f.rw_sct /\ h.mustW = f.mustW /\ h.size = size /\ h.currPos = c
  BY <1>4, <1>6 DEF PathType
<1> HIDE DEF h
<1>8. PathOK(h) /\ h.open
  <2>1. Buffer(h)
    BY <1>2, <1>7 DEF PathOK, Buffer
  <2>2. c <= Len(f.blocks) /\ size <= Len(f.blocks)
    BY <1>2, <1>4
  <2> QED BY <1>2, <1>7, <2>1, <2>2, PathParts DEF PathOK
<1>9. r.size = size /\ r.blocks = f.blocks
  BY <1>7
<1>10. r \in FileD
  <2>1. disk.fd[dir[m]] \in FileD /\ disk.fd[dir[m]].blocks = f.blocks
    BY <1>2, DiskParts DEF Joint
  <2>2. size <= Len(f.blocks)
    BY <1>2, <1>4
  <2> QED BY <1>7, <2>1, <2>2 DEF FileD
<1>11. r = [size |-> h.size, blocks |-> h.blocks] /\ h.fd_nr \in Sector
  BY <1>2, <1>7
<1> HIDE DEF r
<1>12. /\ disk' \in Disk /\ disk'.map = disk.map /\ disk'.data = disk.data
       /\ \A s \in Sector : disk'.fd[s] = IF s = dir[m] THEN r ELSE disk.fd[s]
  BY <1>2, <1>3, <1>7, <1>10, <1>11, WriteFDIs
<1>13. Grown(disk, disk', dir[m])
  <2>1. Elements(disk'.fd[dir[m]].blocks) = Elements(disk.fd[dir[m]].blocks) \cup {}
    BY <1>2, <1>9, <1>12 DEF Joint
  <2>2. {} \in SUBSET Sector /\ {} \cap disk.map = {} /\ disk'.map = disk.map \cup {}
    BY <1>12
  <2>3. \A t \in disk.map : t # dir[m] => disk'.fd[t] = disk.fd[t]
    BY <1>2, <1>12, DiskParts
  <2> QED BY <1>12, <2>1, <2>2, <2>3 DEF Grown
<1>14. Moves(m) /\ Spares(m)
  BY <1>1, <1>2, <1>13, GrownMoves
<1>15. /\ Frame(m) /\ path' \in [Path -> PathType \cup {Closed}]
       /\ path'[p] = h /\ \A q \in Path : q # p => path'[q] = path[q]
  <2>1. h.name = m
    BY <1>7
  <2>2. path[p].name = m /\ Types
    BY DEF RbfInv
  <2> QED BY <1>1, <1>2, <1>3, <1>7, <1>14, <2>1, <2>2, OnePath
<1>16. Types'
  BY <1>1, <1>12, <1>15 DEF RbfInv, Types
<1>17. Joint(disk', h)
  BY <1>2, <1>7, <1>11, <1>12 DEF Joint
<1>18. \A q \in Of(m) : q = p
  BY <1>1 DEF OthersOf
<1>19. Of(m)' = Of(m) /\ Writers(m)' = Writers(m) /\ OneWriter(m)' /\ p \in Writers(m)
  <2>1. h.name = m /\ h.wMode = path[p].wMode /\ path[p].name = m /\ OneWriter(m)
    BY <1>2, <1>7 DEF RbfInv
  <2>2. p \in Writers(m)
    BY <1>1, <1>2 DEF Writers
  <2>3. /\ path[p].open /\ path'[p] = h /\ h.open /\ h.name = m
        /\ \A q \in Path : q # p => path'[q] = path[q]
    BY <1>1, <1>8, <1>15, <2>1
  <2> QED BY <2>1, <2>2, <2>3, SamePaths
<1>20. FileOK(m)'
  <2> SUFFICES ASSUME m \notin spoilt PROVE WriterHolds(m)' /\ ReadersSee(m)' /\ DiskHas(m)'
    BY <1>1 DEF FileOK
  <2>1. Held(disk, f, f.lastPos)
    BY <1>2, <1>19 DEF RbfInv, FileOK, WriterHolds
  <2>2. Held(disk, f, size)
    BY <1>1, <1>2, <1>4, <2>1, HeldBelow
  <2>3. Held(disk', h, size)
    BY <1>7, <1>12, <2>2 DEF Held
  <2>4. WriterHolds(m)'
    BY <1>4, <1>7, <1>15, <1>18, <1>19, <2>3 DEF WriterHolds, Writers
  <2>5. ReadersSee(m)'
    BY <1>18, <1>19 DEF ReadersSee
  <2>6. DiskHas(m)'
    BY <1>19 DEF DiskHas
  <2> QED BY <2>4, <2>5, <2>6
<1>21. \A q \in Of(m)' : AtFile(q)'
  <2>1. AtFile(p)'
    BY <1>1, <1>2, <1>4, <1>7, <1>8, <1>15, <1>17 DEF AtFile
  <2> QED BY <1>18, <1>19, <2>1
<1>22. dir'[m] \notin Elements(disk'.fd[dir'[m]].blocks)
  BY <1>1, <1>2, <1>9, <1>12 DEF Joint
<1> QED BY <1>15, <1>16, <1>19, <1>20, <1>21, <1>22 DEF Cared
\* The sectors of a file from a place on.
Rest(b, keep) == {b[i] : i \in keep + 1 .. Len(b)}

\* What is left of a file without them: the sectors before that place, in the segments
\* they were in.
LEMMA KeptIs ==
  ASSUME NEW b \in Seq(Sector), NEW keep \in 0 .. Len(b),
         \A i, j \in 1 .. Len(b) : b[i] = b[j] => i = j
  PROVE  /\ SubSeq(b, 1, keep) \in Seq(Sector) /\ Len(SubSeq(b, 1, keep)) = keep
         /\ \A i \in 1 .. keep : SubSeq(b, 1, keep)[i] = b[i] /\ b[i] \notin Rest(b, keep)
         /\ Elements(SubSeq(b, 1, keep)) = Elements(b) \ Rest(b, keep)
         /\ Segments(SubSeq(b, 1, keep)) <= Segments(b) /\ Segments(b) \in Nat
<1> DEFINE c == SubSeq(b, 1, keep)
           n == Len(b)
<1>1. n \in Nat /\ keep \in Nat /\ keep <= n
  OBVIOUS
<1>2. c \in Seq(Sector) /\ Len(c) = keep /\ \A i \in 1 .. keep : c[i] = b[i]
  BY <1>1
<1> HIDE DEF c, n
<1>3. \A i \in 1 .. keep : i \in 1 .. n
  BY <1>1
<1>4. \A i \in keep + 1 .. n : i \in 1 .. n
  BY <1>1
<1>5. \A i \in 1 .. keep : b[i] \notin Rest(b, keep)
  <2> SUFFICES ASSUME NEW i \in 1 .. keep, NEW j \in keep + 1 .. n, b[i] = b[j] PROVE FALSE
    BY DEF Rest, n
  <2>1. i = j
    BY <1>3, <1>4 DEF n
  <2> QED BY <1>1, <2>1
<1>6. Elements(c) = Elements(b) \ Rest(b, keep)
  <2>1. Elements(c) \subseteq Elements(b) \ Rest(b, keep)
    BY <1>2, <1>3, <1>5 DEF Elements, n
  <2>2. ASSUME NEW i \in 1 .. n, b[i] \notin Rest(b, keep) PROVE b[i] \in Elements(c)
    <3>1. i \notin keep + 1 .. n
      BY <2>2 DEF Rest, n
    <3>2. i \in 1 .. keep
      BY <1>1, <3>1
    <3> QED BY <1>2, <3>2 DEF Elements
  <2> QED BY <2>1, <2>2 DEF Elements, n
<1>7. Begins(c) \subseteq Begins(b)
  <2> SUFFICES ASSUME NEW i \in 1 .. keep, i = 1 \/ c[i] # c[i - 1] + 1 PROVE i \in Begins(b)
    BY <1>2 DEF Begins
  <2>1. CASE i = 1
    BY <1>3, <2>1 DEF Begins, n
  <2>2. CASE i # 1
    <3>1. i - 1 \in 1 .. keep
      BY <1>1, <2>2
    <3>2. c[i] = b[i] /\ c[i - 1] = b[i - 1]
      BY <1>2, <3>1
    <3> QED BY <1>3, <2>2, <3>2 DEF Begins, n
  <2> QED BY <2>1, <2>2
<1>8. Segments(c) <= Segments(b) /\ Segments(b) \in Nat
  BY <1>2, <1>7, FewerSegments
<1> QED BY <1>2, <1>5, <1>6, <1>8 DEF c

\* The file of FD s has got a size, and given back what it does not need for it.
Shut(d, e, s, b, size, keep) ==
  /\ e \in Disk /\ keep \in 0 .. Len(b) /\ size \in 0 .. keep
  /\ e.map = d.map \ Rest(b, keep)
  /\ e.fd[s].size = size /\ e.fd[s].blocks = SubSeq(b, 1, keep)
  /\ \A t \in Sector : t \notin Rest(b, keep) => /\ t # s => e.fd[t] = d.fd[t]
                                                 /\ e.data[t] = d.data[t]

\* The size of a path is set.
LEMMA SetSizeOf ==
  ASSUME NEW f \in PathType, NEW n \in 0 .. MaxLen
  PROVE  LET g == [f EXCEPT !.size = n]
         IN  /\ g \in PathType /\ g.size = n /\ g.fd_nr = f.fd_nr /\ g.blocks = f.blocks
             /\ g.currPos = f.currPos /\ g.lastPos = f.lastPos
BY DEF PathType

\* An FD is written with another size, or with fewer sectors.
LEMMA KeptFileD ==
  ASSUME NEW r \in FileD, NEW keep \in 0 .. Len(r.blocks), NEW size \in 0 .. keep,
         size <= MaxLen
  PROVE  [size |-> size, blocks |-> SubSeq(r.blocks, 1, keep)] \in FileD
<1> DEFINE b == r.blocks
           c == SubSeq(b, 1, keep)
<1>1. /\ b \in Seq(Sector) /\ Segments(b) <= MaxSegs
      /\ \A i, j \in 1 .. Len(b) : b[i] = b[j] => i = j
  BY DEF FileD
<1> HIDE DEF b
<1>2. /\ c \in Seq(Sector) /\ Len(c) = keep /\ \A i \in 1 .. keep : c[i] = b[i]
      /\ Segments(c) <= Segments(b) /\ Segments(b) \in Nat
  <2>1. keep \in 0 .. Len(b)
    BY DEF b
  <2> QED BY <1>1, <2>1, KeptIs
<1>3. Segments(c) <= MaxSegs
  <2>1. Begins(c) \subseteq 1 .. keep /\ keep \in Nat
    BY <1>2 DEF Begins
  <2>2. Segments(c) \in Nat
    BY <2>1, SegmentsType DEF Segments, Begins
  <2> QED BY <1>1, <1>2, <2>2, RbfAssumption
<1>4. \A i, j \in 1 .. keep : c[i] = c[j] => i = j
  <2>1. keep \in 0 .. Len(b) /\ Len(b) \in Nat
    BY <1>1 DEF b
  <2>2. \A i \in 1 .. keep : i \in 1 .. Len(b)
    BY <2>1
  <2> QED BY <1>1, <1>2, <2>2
<1>5. size \in 0 .. MaxLen /\ size <= keep
  BY RbfAssumption
<1> HIDE DEF c
<1>6. [size |-> size, blocks |-> c] \in FileD
  BY <1>2, <1>3, <1>4, <1>5 DEF FileD
<1> QED BY <1>6 DEF b, c

\* ReleaseBlocks: the sectors behind the one after the last position go back.
LEMMA ReleaseIs ==
  ASSUME NEW d \in Disk, NEW f \in PathType, f.lastPos <= Len(f.blocks), f.size = f.lastPos,
         f.fd_nr \notin Elements(f.blocks), Elements(f.blocks) \subseteq d.map,
         d.fd[f.fd_nr].blocks = f.blocks
  PROVE  \E keep \in 0 .. Len(f.blocks) :
            Shut(d, ReleaseBlocks(d, f), f.fd_nr, f.blocks, f.size, keep)
<1> DEFINE b == f.blocks
           l == f.lastPos
           keep == Smaller(l + 1, Len(b))
           c == SubSeq(b, 1, keep)
           g == [f EXCEPT !.blocks = c]
           d1 == LetThemGo(d, Rest(b, keep))
           e == WriteFD(d1, g)
           r == [size |-> g.size, blocks |-> g.blocks]
<1>1. ReleaseBlocks(d, f) = e
  BY Zenon DEF ReleaseBlocks, Rest
<1>2. /\ b \in Seq(Sector) /\ Len(b) \in Nat /\ f.fd_nr \in Sector /\ l \in Nat /\ l <= Len(b)
      /\ l \in 0 .. MaxLen /\ l <= MaxLen /\ f.size = l
  BY PathParts
<1>3. d.fd[f.fd_nr] \in FileD /\ d.fd[f.fd_nr].blocks = b
  BY <1>2, DiskParts
<1>4. \A i, j \in 1 .. Len(b) : b[i] = b[j] => i = j
  BY <1>3 DEF FileD
<1>5. Rest(b, keep) \subseteq Elements(b) /\ keep \in 0 .. Len(b) /\ l \in 0 .. keep
  <2> DEFINE n == Len(b)
  <2>1. n \in Nat /\ l <= n
    BY <1>2
  <2> HIDE DEF n, l
  <2>2. Smaller(l + 1, n) \in 0 .. n /\ l \in 0 .. Smaller(l + 1, n)
    BY <1>2, <2>1 DEF Smaller
  <2>3. \A i \in Smaller(l + 1, n) + 1 .. n : i \in 1 .. n
    BY <2>1, <2>2
  <2> QED BY <2>2, <2>3 DEF Rest, Elements, n
<1> HIDE DEF keep
<1>6. /\ c \in Seq(Sector) /\ Len(c) = keep
      /\ Elements(c) = Elements(b) \ Rest(b, keep)
  BY <1>2, <1>4, <1>5, KeptIs
<1>7. /\ d1 \in Disk /\ d1.map = d.map \ Rest(b, keep)
      /\ \A s \in Sector : s \notin Rest(b, keep) => /\ d1.fd[s] = d.fd[s]
                                                     /\ d1.data[s] = d.data[s]
  BY <1>5, LetThemGoIs
<1> HIDE DEF d1
<1>8. g \in PathType /\ g.blocks = c /\ g.fd_nr = f.fd_nr /\ g.size = f.size
  <2> HIDE DEF c
  <2> QED BY <1>6, SetBlocks DEF SameFile
<1>9. r \in FileD
  <2> HIDE DEF g, c
  <2>1. r = [size |-> l, blocks |-> c]
    BY <1>2, <1>8
  <2> HIDE DEF r, l
  <2>2. [size |-> l, blocks |-> SubSeq(d.fd[f.fd_nr].blocks, 1, keep)] \in FileD
    BY <1>2, <1>3, <1>5, KeptFileD
  <2> QED BY <1>3, <2>1, <2>2 DEF c
<1> HIDE DEF g
<1>10. /\ e \in Disk /\ e.map = d1.map /\ e.data = d1.data
       /\ \A s \in Sector : e.fd[s] = IF s = g.fd_nr THEN r ELSE d1.fd[s]
  <2>1. r = [size |-> g.size, blocks |-> g.blocks] /\ g.fd_nr \in Sector
    BY <1>2, <1>8
  <2> HIDE DEF r
  <2> QED BY <1>7, <1>9, <2>1, WriteFDIs
<1>11. r.size = l /\ r.blocks = c
  BY <1>2, <1>8
<1> HIDE DEF e, r, c
<1>12. Shut(d, e, f.fd_nr, b, l, keep)
  BY <1>2, <1>5, <1>7, <1>8, <1>10, <1>11 DEF Shut, c
<1> QED BY <1>1, <1>2, <1>5, <1>12

\* What pRclose does with the FD: the size is what was written, and no less than it was
\* unless the path is at its last position.
LEMMA SizeSetIs ==
  ASSUME NEW d \in Disk, NEW f, PathOK(f), f.wMode, Joint(d, f)
  PROVE  \E keep \in 0 .. Len(f.blocks), size \in {f.lastPos, Larger(f.size, f.lastPos)} :
            /\ Shut(d, SizeSet(d, f), f.fd_nr, f.blocks, size, keep) /\ f.lastPos <= keep
<1> DEFINE n == Larger(f.size, f.lastPos)
           g == [f EXCEPT !.size = n]
           h == [g EXCEPT !.size = f.currPos]
           d1 == WriteFD(d, g)
           r == [size |-> g.size, blocks |-> g.blocks]
<1>1. /\ f \in PathType /\ f.fd_nr \in Sector /\ f.blocks \in Seq(Sector)
      /\ f.lastPos \in 0 .. MaxLen /\ f.currPos \in 0 .. MaxLen /\ f.size \in 0 .. MaxLen
      /\ f.lastPos <= Len(f.blocks) /\ f.size <= Len(f.blocks) /\ Len(f.blocks) \in Nat
      /\ f.size \in Nat /\ f.lastPos \in Nat
  BY PathParts DEF PathOK
<1>2. n \in 0 .. MaxLen /\ n \in 0 .. Len(f.blocks) /\ f.lastPos <= n /\ n \in Nat
  BY <1>1 DEF Larger
<1>3. /\ d.fd[f.fd_nr] \in FileD /\ d.fd[f.fd_nr].blocks = f.blocks
      /\ f.fd_nr \notin Elements(f.blocks) /\ Elements(f.blocks) \subseteq d.map
  BY <1>1, DiskParts DEF Joint
<1>4. SizeSet(d, f) = IF f.currPos # 0 /\ f.currPos = f.lastPos THEN ReleaseBlocks(d1, h) ELSE d1
  <2>1. g = [f EXCEPT !.size = Larger(@, f.lastPos)]
    BY <1>1
  <2> HIDE DEF n
  <2>2. g.fd_nr = f.fd_nr
    BY <1>1, <1>2, SetSizeOf
  <2> QED BY <2>1, Zenon DEF SizeSet
<1> HIDE DEF n
<1>5. /\ g \in PathType /\ g.size = n /\ g.fd_nr = f.fd_nr /\ g.blocks = f.blocks
      /\ g.currPos = f.currPos /\ g.lastPos = f.lastPos
  BY <1>1, <1>2, SetSizeOf
<1> HIDE DEF g
<1>6. /\ h \in PathType /\ h.size = f.currPos /\ h.fd_nr = f.fd_nr /\ h.blocks = f.blocks
      /\ h.lastPos = f.lastPos
  BY <1>1, <1>5, SetSizeOf
<1> HIDE DEF h
<1>7. /\ f.blocks = SubSeq(f.blocks, 1, Len(f.blocks))
      /\ Rest(f.blocks, Len(f.blocks)) = {} /\ Len(f.blocks) \in 0 .. Len(f.blocks)
  <2>1. Len(f.blocks) + 1 .. Len(f.blocks) = {}
    BY <1>1
  <2>2. f.blocks = SubSeq(f.blocks, 1, Len(f.blocks))
    BY <1>1
  <2> QED BY <1>1, <2>1, <2>2 DEF Rest
<1>8. r \in FileD /\ r.size = n /\ r.blocks = f.blocks
  <2> DEFINE b == f.blocks
             len == Len(b)
             fd == d.fd[f.fd_nr]
  <2>1. fd \in FileD /\ len \in 0 .. Len(fd.blocks) /\ n \in 0 .. len /\ n <= MaxLen
    BY <1>1, <1>2, <1>3, <1>7
  <2> HIDE DEF len, fd
  <2>2. [size |-> n, blocks |-> SubSeq(fd.blocks, 1, len)] \in FileD
    BY <2>1, KeptFileD
  <2>3. r = [size |-> n, blocks |-> b]
    BY <1>5
  <2> HIDE DEF r
  <2>4. r \in FileD
    BY <1>3, <1>7, <2>2, <2>3 DEF len, fd
  <2> QED BY <2>3, <2>4
<1>9. /\ d1 \in Disk /\ d1.map = d.map /\ d1.data = d.data
      /\ \A s \in Sector : d1.fd[s] = IF s = f.fd_nr THEN r ELSE d.fd[s]
  BY <1>1, <1>5, <1>8, WriteFDIs
<1> HIDE DEF r, d1
<1>10. CASE f.currPos # 0 /\ f.currPos = f.lastPos
  <2>1. d1.fd[h.fd_nr].blocks = h.blocks /\ h.lastPos <= Len(h.blocks) /\ h.size = h.lastPos
        /\ h.fd_nr \notin Elements(h.blocks) /\ Elements(h.blocks) \subseteq d1.map
    BY <1>1, <1>3, <1>6, <1>8, <1>9, <1>10
  <2>2. PICK keep \in 0 .. Len(h.blocks) :
           Shut(d1, ReleaseBlocks(d1, h), h.fd_nr, h.blocks, h.size, keep)
    BY <1>6, <1>9, <2>1, ReleaseIs
  <2>3. Shut(d1, SizeSet(d, f), f.fd_nr, f.blocks, f.lastPos, keep)
    BY <1>4, <1>6, <1>10, <2>2
  <2>4. Shut(d, SizeSet(d, f), f.fd_nr, f.blocks, f.lastPos, keep)
    BY <1>9, <2>3 DEF Shut
  <2>5. f.lastPos <= keep
    BY <2>3 DEF Shut
  <2> QED BY <1>6, <2>2, <2>4, <2>5
<1>11. CASE ~(f.currPos # 0 /\ f.currPos = f.lastPos)
  <2>1. SizeSet(d, f) = d1
    BY <1>4, <1>11
  <2>2. Shut(d, d1, f.fd_nr, f.blocks, n, Len(f.blocks))
    BY <1>1, <1>2, <1>7, <1>8, <1>9 DEF Shut
  <2> QED BY <1>1, <1>7, <2>1, <2>2 DEF n
<1> QED BY <1>10, <1>11

\* When a path is closed, the other paths of its file are those there were.
LEMMA OtherPaths ==
  ASSUME NEW n \in Name, NEW p \in Path, ~path'[p].open,
         \A q \in Path : q # p => path'[q] = path[q]
  PROVE  /\ Of(n)' = Of(n) \ {p} /\ Writers(n)' = Writers(n) \ {p}
         /\ (OneWriter(n) => OneWriter(n)')
<1>1. Of(n)' = Of(n) \ {p}
  BY DEF Of
<1>2. \A q \in Of(n) \ {p} : path'[q] = path[q]
  BY DEF Of
<1>3. Writers(n)' = Writers(n) \ {p}
  BY <1>1, <1>2 DEF Writers
<1> QED BY <1>1, <1>3 DEF OneWriter

\* The path that wrote a file has been closed.
LEMMA WriterCloses ==
  ASSUME RbfInv, NEW p \in Path, path[p].open, path[p].wMode, dir' = dir, spoilt' = spoilt,
         disk' = SizeSet(Flush(disk, path[p]), path[p]), ~path'[p].open,
         \A q \in Path : q # p => path'[q] = path[q],
         NEW m \in Name, m = path[p].name
  PROVE  /\ disk' \in Disk /\ Moves(m) /\ Spares(m) /\ Cared(m)
         /\ (m \notin spoilt => NotShorter(m))
<1> DEFINE f == path[p]
           b == f.blocks
           d == Flush(disk, f)
           s == dir[m]
<1>1. /\ PathOK(f) /\ f.fd_nr = s /\ s # 0 /\ s \in Sector /\ Joint(disk, f) /\ p \in Of(m)
      /\ disk \in Disk /\ b \in Seq(Sector) /\ f.size \in Nat /\ f.lastPos \in Nat
      /\ f.lastPos <= Len(b) /\ Len(b) \in Nat /\ f.size <= Len(b)
  BY PathIs, PathParts DEF PathOK
<1>2. p \in Writers(m) /\ OneWriter(m)
  BY <1>1 DEF Writers, RbfInv
<1>3. /\ d \in Disk /\ d.map = disk.map /\ d.fd = disk.fd
      /\ \A t \in disk.map : t \notin Elements(b) => d.data[t] = disk.data[t]
  BY <1>1, FlushIs DEF Flushed
<1>4. Joint(d, f)
  BY <1>1, <1>3 DEF Joint
<1>5. PICK keep \in 0 .. Len(b), size \in {f.lastPos, Larger(f.size, f.lastPos)} :
         Shut(d, disk', s, b, size, keep) /\ f.lastPos <= keep
  BY <1>1, <1>3, <1>4, SizeSetIs
<1>6. /\ disk' \in Disk /\ disk'.map = disk.map \ Rest(b, keep)
      /\ disk'.fd[s].size = size /\ disk'.fd[s].blocks = SubSeq(b, 1, keep)
      /\ \A t \in Sector : t \notin Rest(b, keep) => /\ t # s => disk'.fd[t] = disk.fd[t]
                                                     /\ disk'.data[t] = d.data[t]
  BY <1>3, <1>5 DEF Shut
<1>7. \A i, j \in 1 .. Len(b) : b[i] = b[j] => i = j
  BY <1>1, Different
<1>8. /\ \A i \in 1 .. keep : SubSeq(b, 1, keep)[i] = b[i] /\ b[i] \notin Rest(b, keep)
      /\ Elements(SubSeq(b, 1, keep)) = Elements(b) \ Rest(b, keep)
  BY <1>1, <1>7, KeptIs
<1>9. Rest(b, keep) \subseteq Elements(b)
  BY <1>1 DEF Rest, Elements
<1>10. /\ Owner(m) = {s} \cup Elements(b) /\ s \notin Elements(b) /\ Elements(b) \subseteq disk.map
       /\ s \in disk.map
  BY <1>1 DEF Owner, Joint
<1>11. Owner(m)' = Owner(m) \ Rest(b, keep)
  BY <1>1, <1>6, <1>8, <1>9, <1>10 DEF Owner
<1>12. Moves(m)
  <2>1. Rest(b, keep) \in SUBSET Sector /\ Rest(b, keep) \subseteq Owner(m)
    BY <1>1, <1>9, <1>10, DiskParts
  <2> QED BY <1>6, <1>11, <2>1 DEF Moves
<1>13. Spares(m)
  BY <1>1, <1>3, <1>6, <1>9, <1>10, DiskParts DEF Spares
<1>14. Of(m)' = Of(m) \ {p} /\ Writers(m)' = {} /\ OneWriter(m)'
  BY <1>2, OtherPaths DEF OneWriter
<1>15. \A q \in Of(m)' : /\ q \in Path /\ q # p /\ path[q].open /\ path'[q] = path[q]
                         /\ path[q].name = m /\ ~path[q].wMode
  BY <1>2, <1>14 DEF Of, OneWriter, Writers
<1>16. \A q \in Of(m)' : AtFile(q)'
  <2> SUFFICES ASSUME NEW q \in Of(m)' PROVE AtFile(q)'
    OBVIOUS
  <2>1. AtFile(q)
    BY <1>15 DEF RbfInv, AllAtFiles, OpenPaths
  <2> QED BY <1>15, <2>1 DEF AtFile
<1>17. dir'[m] \notin Elements(disk'.fd[dir'[m]].blocks)
  BY <1>6, <1>8, <1>10
<1>18. FileOK(m)'
  <2> SUFFICES ASSUME m \notin spoilt PROVE WriterHolds(m)' /\ ReadersSee(m)' /\ DiskHas(m)'
    BY DEF FileOK
  <2>1. WriterHolds(m) /\ ReadersSee(m)
    BY <1>1 DEF RbfInv, FileOK
  <2>2. f.size <= f.lastPos /\ Held(disk, f, f.lastPos)
    BY <1>2, <2>1 DEF WriterHolds
  <2>3. size = f.lastPos
    BY <1>1, <1>5, <2>2 DEF Larger
  <2>4. OnDisk(d, f, f.lastPos)
    BY <1>1, <2>2, FlushHolds
  <2> DEFINE r == disk'.fd[s]
  <2>5. FD(m)' = r /\ r.size = size /\ r.blocks = SubSeq(b, 1, keep)
    BY <1>6 DEF FD
  <2> HIDE DEF r
  <2>6. DiskHas(m)'
    <3> SUFFICES ASSUME NEW k \in 1 .. size
                 PROVE  disk'.data[r.blocks[k]] = Text(m, k - 1)
      BY <2>5 DEF DiskHas
    <3>1. k \in 1 .. f.lastPos /\ k \in 1 .. keep /\ k \in 1 .. Len(b)
      BY <1>1, <1>5, <2>3
    <3>2. r.blocks[k] = b[k] /\ b[k] \notin Rest(b, keep) /\ b[k] \in Sector
      BY <1>1, <1>8, <2>5, <3>1
    <3> QED BY <1>6, <2>4, <3>1, <3>2 DEF OnDisk
  <2>7. ReadersSee(m)'
    <3> SUFFICES ASSUME NEW q \in Of(m)'
                 PROVE  /\ Readable(path'[q]) <= r.size
                        /\ \A k \in 1 .. Readable(path'[q]) : path'[q].blocks[k] = r.blocks[k]
      BY <2>5 DEF ReadersSee
    <3>1. q \in Of(m) \ Writers(m) /\ path'[q] = path[q] /\ path[q].open /\ q \in Path
      BY <1>14, <1>15 DEF Writers
    <3>2. FD(m).size = f.size /\ FD(m).blocks = b
      BY <1>1 DEF FD, Joint
    <3>3. /\ Readable(path[q]) <= f.size
          /\ \A k \in 1 .. Readable(path[q]) : path[q].blocks[k] = b[k]
      BY <2>1, <3>1, <3>2 DEF ReadersSee
    <3>4. Readable(path[q]) \in Nat
      BY <3>1, PathIs, ReadableIs
    <3>5. Readable(path[q]) <= size /\ \A k \in 1 .. Readable(path[q]) : k \in 1 .. keep
      BY <1>1, <1>5, <2>2, <2>3, <3>3, <3>4
    <3> QED BY <1>8, <2>5, <3>1, <3>3, <3>5
  <2>8. WriterHolds(m)'
    BY <1>14 DEF WriterHolds
  <2> QED BY <2>6, <2>7, <2>8
<1>19. ASSUME m \notin spoilt PROVE NotShorter(m)
  <2>1. f.size <= f.lastPos
    BY <1>1, <1>2, <1>19 DEF RbfInv, FileOK, WriterHolds
  <2>2. size >= f.size
    BY <1>1, <1>5, <2>1 DEF Larger
  <2>3. disk.fd[s].size = f.size
    BY <1>1 DEF Joint
  <2> QED BY <1>6, <2>2, <2>3 DEF NotShorter
<1> QED BY <1>6, <1>12, <1>13, <1>14, <1>16, <1>17, <1>18, <1>19 DEF Cared

\* pRclose.
LEMMA CloseKeeps ==
  ASSUME RbfInv, NEW p \in Path, Close(p), NEW m \in Name, m = path[p].name
  PROVE  Types' /\ Frame(m) /\ Cared(m) /\ (m \notin spoilt => NotShorter(m))
<1> DEFINE c == Closed
<1>1. /\ path[p].open /\ path' = [path EXCEPT ![p] = c] /\ dir' = dir /\ spoilt' = spoilt
      /\ disk' = IF path[p].wMode THEN SizeSet(Flush(disk, path[p]), path[p]) ELSE disk
  BY DEF Close
<1>2. c \in PathType \cup {Closed} /\ ~c.open
  BY DEF Closed
<1> HIDE DEF c
<1>3. /\ path' \in [Path -> PathType \cup {Closed}]
      /\ path'[p] = c /\ \A q \in Path : q # p => path'[q] = path[q]
  BY <1>1, <1>2 DEF RbfInv, Types
<1>4. disk' \in Disk /\ Moves(m) /\ Spares(m) /\ Cared(m) /\ (m \notin spoilt => NotShorter(m))
  <2>1. CASE path[p].wMode
    BY <1>1, <1>2, <1>3, <2>1, WriterCloses
  <2>2. CASE ~path[p].wMode
    <3>1. disk' = disk
      BY <1>1, <2>2
    <3>2. Of(m)' = Of(m) \ {p} /\ Writers(m)' = Writers(m) /\ OneWriter(m)'
      <4>1. p \notin Writers(m)
        BY <2>2 DEF Writers
      <4> QED BY <1>2, <1>3, <4>1, OtherPaths DEF RbfInv
    <3>3. \A q \in Of(m)' : q \in Of(m) /\ q # p /\ q \in Path /\ path'[q] = path[q] /\ path[q].open
      BY <1>3, <3>2 DEF Of
    <3>4. \A q \in Of(m)' : AtFile(q)'
      <4> SUFFICES ASSUME NEW q \in Of(m)' PROVE AtFile(q)'
        OBVIOUS
      <4>1. AtFile(q)
        BY <3>3 DEF RbfInv, AllAtFiles, OpenPaths
      <4> QED BY <1>1, <3>1, <3>3, <4>1 DEF AtFile
    <3>5. FileOK(m)'
      <4> SUFFICES ASSUME dir[m] # 0, m \notin spoilt
                   PROVE  WriterHolds(m)' /\ ReadersSee(m)' /\ DiskHas(m)'
        BY <1>1 DEF FileOK
      <4>1. WriterHolds(m) /\ ReadersSee(m) /\ DiskHas(m)
        BY DEF RbfInv, FileOK
      <4>2. FD(m)' = FD(m)
        BY <1>1, <3>1 DEF FD
      <4>3. \A q \in Writers(m)' : q \in Writers(m) /\ path'[q] = path[q]
        BY <3>2, <3>3 DEF Writers
      <4>4. WriterHolds(m)'
        BY <3>1, <4>1, <4>3 DEF WriterHolds
      <4>5. ReadersSee(m)'
        <5> SUFFICES ASSUME NEW q \in Of(m)' \ Writers(m)'
                     PROVE  /\ Readable(path'[q]) <= FD(m).size
                            /\ \A k \in 1 .. Readable(path'[q]) :
                                  path'[q].blocks[k] = FD(m).blocks[k]
          BY <4>2 DEF ReadersSee
        <5>1. q \in Of(m) \ Writers(m) /\ path'[q] = path[q]
          BY <3>2, <3>3
        <5> QED BY <4>1, <5>1 DEF ReadersSee
      <4>6. DiskHas(m)'
        BY <3>1, <3>2, <4>1, <4>2 DEF DiskHas
      <4> QED BY <4>4, <4>5, <4>6
    <3>6. dir'[m] # 0 => dir'[m] \notin Elements(disk'.fd[dir'[m]].blocks)
      BY <1>1, <3>1 DEF RbfInv, Apart
    <3>7. Cared(m)
      BY <3>2, <3>4, <3>5, <3>6 DEF Cared
    <3>8. Moves(m) /\ Spares(m)
      BY <1>1, <3>1, NoMove
    <3>9. NotShorter(m)
      <4>1. disk.fd[dir[m]] \in FileD
        BY <1>1, PathIs, DiskParts
      <4>2. disk.fd[dir[m]].size \in Nat
        BY <4>1, RbfAssumption DEF FileD
      <4> QED BY <3>1, <4>2 DEF NotShorter
    <3> QED BY <3>1, <3>7, <3>8, <3>9 DEF RbfInv, Types
  <2> QED BY <2>1, <2>2
<1>5. Frame(m)
  BY <1>1, <1>2, <1>3, <1>4, OnePath DEF RbfInv
<1> QED BY <1>1, <1>3, <1>4, <1>5 DEF RbfInv, Types

\* Sectors have been given back.
Given(d, e, S) ==
  /\ e \in Disk /\ e.map = d.map \ S
  /\ \A t \in Sector : t \notin S => e.fd[t] = d.fd[t] /\ e.data[t] = d.data[t]

\* DeallocateBlocks: the sectors of the file and its FD go back.
LEMMA DeallocateIs ==
  ASSUME NEW d \in Disk, NEW s \in Sector,
         NEW S, S = Elements(d.fd[s].blocks) \cup {s}, S \subseteq d.map
  PROVE  Given(d, DeallocateBlocks(d, s), S)
<1> DEFINE b == d.fd[s].blocks
           starts == Elements(b) \cup (IF b # <<>> /\ b[1] = s + 1 THEN {s} ELSE {})
           l == ByteOf(First({d.last_alloc} \cup starts))
           d1 == [d EXCEPT !.last_alloc = l]
           e == LetThemGo(d1, Elements(b) \cup {s})
<1>1. DeallocateBlocks(d, s) = e
  BY Zenon DEF DeallocateBlocks
<1>2. l \in 0 .. totScts
  <2> DEFINE A == {d.last_alloc} \cup starts
             a == First(A)
  <2>1. starts \subseteq Nat
    <3>1. starts \subseteq S
      OBVIOUS
    <3>2. S \subseteq Sector
      BY DiskParts
    <3> QED BY <3>1, <3>2, SectorIsNat
  <2> HIDE DEF starts
  <2>2. A \subseteq Nat /\ A # {} /\ d.last_alloc \in A /\ d.last_alloc \in 0 .. totScts
    BY <2>1, DiskParts
  <2> HIDE DEF A
  <2>3. a \in A /\ a <= d.last_alloc
    BY <2>2, FirstIsLeast
  <2> HIDE DEF a
  <2>4. a \in Nat /\ a <= totScts
    BY <2>2, <2>3, RbfAssumption
  <2>5. ByteOf(a) \in 0 .. a
    BY <2>4, ByteOfType
  <2>6. ByteOf(a) \in 0 .. totScts
    BY <2>4, <2>5, RbfAssumption
  <2> QED BY <2>6 DEF a, A
<1> HIDE DEF l
<1>3. d1 \in Disk /\ d1.map = d.map /\ d1.fd = d.fd /\ d1.data = d.data
  BY <1>2, Zenon DEF Disk
<1> HIDE DEF d1
<1>4. e = LetThemGo(d1, S) /\ S \subseteq d1.map
  BY <1>3
<1> HIDE DEF e
<1>5. /\ e \in Disk /\ e.map = d1.map \ S
      /\ \A t \in Sector : /\ e.fd[t] = IF t \in S THEN NoFD ELSE d1.fd[t]
                           /\ e.data[t] = IF t \in S THEN Junk ELSE d1.data[t]
  BY <1>3, <1>4, LetThemGoIs
<1> QED BY <1>1, <1>3, <1>5 DEF Given

\* pRdelete.
LEMMA DeleteKeeps ==
  ASSUME RbfInv, NEW n \in Name, Delete(n)
  PROVE  Types' /\ Frame(n) /\ Cared(n)
<1> DEFINE s == dir[n]
           S == Owner(n)
<1>1. /\ s # 0 /\ Of(n) = {} /\ disk' = DeallocateBlocks(disk, s)
      /\ dir' = [dir EXCEPT ![n] = 0] /\ spoilt' = spoilt \ {n} /\ path' = path
  BY DEF Delete
<1>2. /\ disk \in Disk /\ s \in Sector /\ dir \in [Name -> {0} \cup Sector]
      /\ S = Elements(disk.fd[s].blocks) \cup {s} /\ S \subseteq disk.map
  BY <1>1 DEF RbfInv, Types, Apart, Owner
<1>3. /\ dir' \in [Name -> {0} \cup Sector] /\ dir'[n] = 0
      /\ \A m \in Name : m # n => dir'[m] = dir[m]
  BY <1>1, <1>2
<1> HIDE DEF S
<1>4. /\ disk' \in Disk /\ disk'.map = disk.map \ S
      /\ \A t \in Sector : t \notin S => disk'.fd[t] = disk.fd[t] /\ disk'.data[t] = disk.data[t]
  <2>1. Given(disk, DeallocateBlocks(disk, s), S)
    BY <1>2, DeallocateIs
  <2> QED BY <1>1, <2>1 DEF Given
<1>5. Types'
  BY <1>1, <1>3, <1>4 DEF RbfInv, Types
<1>6. Moves(n)
  <2>1. S \in SUBSET Sector
    BY <1>2, DiskParts
  <2>2. S = Owner(n) /\ Owner(n)' = {}
    BY <1>3 DEF S, Owner
  <2> QED BY <1>4, <2>1, <2>2 DEF Moves
<1>7. Spares(n)
  BY <1>2, <1>4, DiskParts DEF Spares, S
<1>8. Frame(n)
  BY <1>1, <1>3, <1>6, <1>7 DEF Frame
<1>9. Of(n)' = {}
  BY <1>1 DEF Of
<1>10. OneWriter(n)' /\ FileOK(n)'
  BY <1>3, <1>9 DEF OneWriter, Writers, FileOK
<1> QED BY <1>3, <1>5, <1>8, <1>9, <1>10 DEF Cared

\* The FD of a new file, with one stretch of sectors.
NewFD(c) == [size |-> 0, blocks |-> c]

\* It is one.
LEMMA StretchFileD ==
  ASSUME NEW c \in Seq(Sector), NEW x \in Int, \A i \in 1 .. Len(c) : c[i] = x + i
  PROVE  NewFD(c) \in FileD
<1>1. Len(c) \in Nat
  OBVIOUS
<1>2. \A i \in 2 .. Len(c) : c[i] = c[i - 1] + 1
  <2> SUFFICES ASSUME NEW i \in 2 .. Len(c) PROVE c[i] = c[i - 1] + 1
    OBVIOUS
  <2>1. i \in 1 .. Len(c) /\ i - 1 \in 1 .. Len(c)
    BY <1>1
  <2>2. c[i] = x + i /\ c[i - 1] = x + (i - 1)
    BY <2>1
  <2> QED BY <2>1, <2>2
<1>3. Segments(c) <= MaxSegs
  BY <1>2, OneSegment
<1>4. \A i, j \in 1 .. Len(c) : c[i] = c[j] => i = j
  <2> SUFFICES ASSUME NEW i \in 1 .. Len(c), NEW j \in 1 .. Len(c), c[i] = c[j] PROVE i = j
    OBVIOUS
  <2>1. x + i = x + j /\ i \in Int /\ j \in Int
    BY <1>1
  <2> QED BY <2>1
<1>5. 0 \in 0 .. MaxLen /\ 0 <= Len(c)
  BY <1>1, RbfAssumption
<1> QED BY <1>3, <1>4, <1>5 DEF FileD, NewFD

\* A new file has an FD sector and a stretch of others that were free.
Created(d, e, s, c) ==
  /\ e \in Disk /\ e.fd = d.fd /\ e.data = d.data
  /\ s \in Sector /\ s \notin d.map /\ c \in Seq(Sector) /\ s \notin Elements(c)
  /\ Elements(c) \cap d.map = {} /\ e.map = d.map \cup ({s} \cup Elements(c))
  /\ NewFD(c) \in FileD

\* The sectors come from one search for all of them.
LEMMA TogetherIs ==
  ASSUME NEW d \in Disk, NEW n \in Nat, NEW a, Fits(d.map, a, n), a.scs # 0
  PROVE  Created(d, Allocated(d, a), a.pos, Tail(Blocks(a)))
<1> DEFINE b == Blocks(a)
           c == Tail(b)
           e == Allocated(d, a)
<1>1. /\ b \in Seq(Sector) /\ Len(b) = a.scs /\ Elements(b) = Span(a)
      /\ Span(a) \subseteq Sector /\ Span(a) \cap d.map = {}
  BY BlocksAre
<1>2. e \in Disk /\ e.map = d.map \cup Span(a) /\ e.fd = d.fd /\ e.data = d.data
  BY AllocatedIs
<1>3. a.pos \in Nat /\ a.scs \in Nat \ {0}
  BY DEF Fits
<1>4. \A i \in 1 .. a.scs : b[i] = a.pos + i - 1
  BY <1>3, BlockIs
<1> HIDE DEF e, b
<1>5. b # <<>>
  BY <1>1, <1>3
<1>6. c \in Seq(Sector) /\ Len(c) = a.scs - 1 /\ \A i \in 1 .. a.scs - 1 : c[i] = b[i + 1]
  BY <1>1, <1>3, <1>5, HeadTailProperties
<1> HIDE DEF c
<1>7. \A i \in 1 .. a.scs - 1 : c[i] = a.pos + i
  <2> TAKE i \in 1 .. a.scs - 1
  <2>1. i + 1 \in 1 .. a.scs
    BY <1>3
  <2>2. c[i] = a.pos + (i + 1) - 1
    BY <1>4, <1>6, <2>1
  <2> QED BY <1>3, <2>2
<1>8. Span(a) = {a.pos} \cup Elements(c) /\ a.pos \notin Elements(c)
  <2>1. \A t \in Elements(c) : t \in Span(a) /\ t # a.pos
    BY <1>3, <1>6, <1>7 DEF Elements, Span
  <2>2. a.pos \in Span(a)
    BY <1>3 DEF Span
  <2>3. ASSUME NEW t \in Span(a), t # a.pos PROVE t \in Elements(c)
    <3>1. t - a.pos \in 1 .. a.scs - 1 /\ t = a.pos + (t - a.pos)
      BY <1>3, <2>3 DEF Span
    <3>2. t = c[t - a.pos]
      BY <1>7, <3>1
    <3> QED BY <1>6, <3>1, <3>2 DEF Elements
  <2> QED BY <2>1, <2>2, <2>3
<1>9. NewFD(c) \in FileD
  <2>1. a.pos \in Int /\ \A i \in 1 .. Len(c) : c[i] = a.pos + i
    BY <1>3, <1>6, <1>7
  <2> QED BY <1>6, <2>1, StretchFileD
<1>10. a.pos \in Sector /\ a.pos \notin d.map /\ Elements(c) \cap d.map = {}
  BY <1>1, <1>8
<1> QED BY <1>2, <1>6, <1>8, <1>9, <1>10 DEF Created, b, c, e

\* They come from two searches, one for the FD sector.
LEMMA ApartIs ==
  ASSUME NEW d \in Disk, NEW n \in Nat, NEW a, Fits(d.map, a, n), a.scs = 1,
         NEW b, Fits(Allocated(d, a).map, b, 1)
  PROVE  Created(d, IF b.scs > 0 THEN Allocated(Allocated(d, a), b) ELSE Allocated(d, a),
                 a.pos, Blocks(b))
<1> DEFINE c == Blocks(b)
           d1 == Allocated(d, a)
           e == IF b.scs > 0 THEN Allocated(d1, b) ELSE d1
<1>1. Span(a) \subseteq Sector /\ Span(a) \cap d.map = {}
  BY BlocksAre
<1>2. Span(a) = {a.pos}
  BY DEF Span, Fits
<1>3. d1 \in Disk /\ d1.map = d.map \cup {a.pos} /\ d1.fd = d.fd /\ d1.data = d.data
  BY <1>2, AllocatedIs
<1> HIDE DEF d1
<1>4. b.pos \in Nat /\ b.scs \in Nat
  BY DEF Fits, d1
<1>5. /\ c \in Seq(Sector) /\ Len(c) = b.scs /\ Elements(c) = Span(b)
      /\ Span(b) \subseteq Sector /\ Span(b) \cap d1.map = {}
  BY BlocksAre DEF d1
<1>6. \A i \in 1 .. b.scs : c[i] = (b.pos - 1) + i
  <2>1. \A i \in 1 .. b.scs : c[i] = b.pos + i - 1
    BY <1>4, BlockIs
  <2> HIDE DEF c
  <2> QED BY <1>4, <2>1
<1> HIDE DEF c
<1>7. NewFD(c) \in FileD
  <2>1. b.pos - 1 \in Int /\ \A i \in 1 .. Len(c) : c[i] = (b.pos - 1) + i
    BY <1>4, <1>5, <1>6
  <2> QED BY <1>5, <2>1, StretchFileD
<1>8. e \in Disk /\ e.map = d1.map \cup Elements(c) /\ e.fd = d1.fd /\ e.data = d1.data
  <2>1. CASE b.scs = 0
    BY <1>3, <1>4, <1>5, <2>1 DEF Span
  <2>2. CASE b.scs # 0
    <3>1. b.scs > 0
      BY <1>4, <2>2
    <3>2. Fits(d1.map, b, 1)
      BY DEF d1
    <3>3. LET g == Allocated(d1, b)
          IN  g \in Disk /\ g.map = d1.map \cup Span(b) /\ g.fd = d1.fd /\ g.data = d1.data
      BY <1>3, <2>2, <3>2, AllocatedIs
    <3> QED BY <1>5, <3>1, <3>3
  <2> QED BY <2>1, <2>2
<1>9. a.pos \in Sector /\ a.pos \notin d.map /\ a.pos \notin Elements(c)
  BY <1>1, <1>2, <1>3, <1>5
<1> HIDE DEF e
<1>10. Created(d, e, a.pos, c)
  BY <1>3, <1>5, <1>7, <1>8, <1>9 DEF Created
<1> QED BY <1>10 DEF c, e, d1

\* CreateNewFile: what it takes from the map, and the FD it writes there.
LEMMA CreateIs ==
  ASSUME Types, NEW p \in Path, NEW n \in Name, NEW init \in 0 .. 1, Create(p, n, init)
  PROVE  \E s \in Sector, c \in Seq(Sector), e \in Disk :
            /\ Created(disk, e, s, c) /\ dir' = [dir EXCEPT ![n] = s]
            /\ disk' = WriteFD(e, NewPath(n, s, TRUE, NewFD(c)))
            /\ \/ path' = path
               \/ path' = [path EXCEPT ![p] = NewPath(n, s, TRUE, NewFD(c))]
<1> DEFINE a == Found(disk, init + 1, 0)
           b == Found(Allocated(disk, a), 1, 0)
           more == init + 1 > a.scs
           c == IF more THEN Blocks(b) ELSE Tail(Blocks(a))
           f == NewPath(n, a.pos, TRUE, NewFD(c))
           e == IF more /\ b.scs > 0 THEN Allocated(Allocated(disk, a), b) ELSE Allocated(disk, a)
<1>1. a.scs > 0 /\ dir' = [dir EXCEPT ![n] = a.pos] /\ disk' = WriteFD(e, f)
      /\ path' = IF more /\ b.scs = 0 THEN path ELSE [path EXCEPT ![p] = f]
  <2> HIDE DEF a, b
  <2>1. \E a1 \in {a} : \E b1 \in {Found(Allocated(disk, a1), 1, 0)} :
           LET more1 == init + 1 > a1.scs
               f1 == NewPath(n, a1.pos, TRUE, [size |-> 0,
                        blocks |-> IF more1 THEN Blocks(b1) ELSE Tail(Blocks(a1))])
           IN /\ a1.scs > 0
              /\ dir' = [dir EXCEPT ![n] = a1.pos]
              /\ disk' = WriteFD(IF more1 /\ b1.scs > 0 THEN Allocated(Allocated(disk, a1), b1)
                                 ELSE Allocated(disk, a1), f1)
              /\ path' = IF more1 /\ b1.scs = 0 THEN path ELSE [path EXCEPT ![p] = f1]
    BY Zenon DEF Create, a
  <2>2. \E b1 \in {b} :
           LET f1 == NewPath(n, a.pos, TRUE, [size |-> 0,
                        blocks |-> IF more THEN Blocks(b1) ELSE Tail(Blocks(a))])
           IN /\ a.scs > 0
              /\ dir' = [dir EXCEPT ![n] = a.pos]
              /\ disk' = WriteFD(IF more /\ b1.scs > 0 THEN Allocated(Allocated(disk, a), b1)
                                 ELSE Allocated(disk, a), f1)
              /\ path' = IF more /\ b1.scs = 0 THEN path ELSE [path EXCEPT ![p] = f1]
    BY <2>1, Zenon DEF b
  <2> QED BY <2>2, Zenon DEF NewFD
<1>2. disk \in Disk /\ init + 1 \in Nat /\ 0 \in Nat /\ 1 \in Nat
  BY DEF Types
<1>3. Fits(disk.map, a, init + 1)
  BY <1>2, DiskParts, FoundFits
<1> HIDE DEF a
<1>4. a.scs \in 0 .. init + 1 /\ a.scs # 0
  BY <1>1, <1>3 DEF Fits
<1>5. Allocated(disk, a) \in Disk
  BY <1>2, <1>3, <1>4, AllocatedIs
<1>6. Fits(Allocated(disk, a).map, b, 1)
  BY <1>2, <1>5, DiskParts, FoundFits
<1> HIDE DEF b
<1>7. Created(disk, e, a.pos, c)
  <2>1. CASE more
    <3>1. a.scs = 1
      BY <1>4, <2>1
    <3>2. Created(disk, IF b.scs > 0 THEN Allocated(Allocated(disk, a), b)
                        ELSE Allocated(disk, a), a.pos, Blocks(b))
      BY <1>2, <1>3, <1>6, <3>1, ApartIs
    <3> QED BY <2>1, <3>2
  <2>2. CASE ~more
    <3>1. Created(disk, Allocated(disk, a), a.pos, Tail(Blocks(a)))
      BY <1>2, <1>3, <1>4, TogetherIs
    <3> QED BY <2>2, <3>1
  <2> QED BY <2>1, <2>2
<1> HIDE DEF c, e
<1>8. a.pos \in Sector /\ c \in Seq(Sector) /\ e \in Disk
  BY <1>7 DEF Created
<1> QED BY <1>1, <1>7, <1>8

\* pRopen and CreateNewFile.
LEMMA CreateKeeps ==
  ASSUME RbfInv, NEW p \in Path, NEW n \in Name, NEW init \in 0 .. 1, Create(p, n, init)
  PROVE  Types' /\ Frame(n) /\ Cared(n)
<1>1. ~path[p].open /\ dir[n] = 0 /\ spoilt' = spoilt
  BY DEF Create
<1>2. PICK s \in Sector, c \in Seq(Sector), e \in Disk :
            /\ Created(disk, e, s, c) /\ dir' = [dir EXCEPT ![n] = s]
            /\ disk' = WriteFD(e, NewPath(n, s, TRUE, NewFD(c)))
            /\ \/ path' = path
               \/ path' = [path EXCEPT ![p] = NewPath(n, s, TRUE, NewFD(c))]
  BY CreateIs DEF RbfInv
<1> DEFINE r == NewFD(c)
           f == NewPath(n, s, TRUE, r)
<1>3. /\ e \in Disk /\ e.fd = disk.fd /\ e.data = disk.data
      /\ s \notin disk.map /\ s \notin Elements(c)
      /\ Elements(c) \cap disk.map = {} /\ e.map = disk.map \cup ({s} \cup Elements(c))
      /\ r \in FileD /\ r.size = 0 /\ r.blocks = c /\ r = [size |-> 0, blocks |-> c]
  BY <1>2 DEF Created, NewFD
<1>4. /\ path' = path \/ path' = [path EXCEPT ![p] = f]
      /\ disk' = WriteFD(e, f)
  BY <1>2
<1> HIDE DEF r
<1>5. Fresh(f, n, s, TRUE, r)
  BY <1>3, NewPathIs
<1> HIDE DEF f
<1>6. /\ PathOK(f) /\ f \in PathType /\ f.open /\ f.name = n /\ f.fd_nr = s /\ f.wMode
      /\ f.currPos = 0 /\ f.lastPos = 0 /\ f.size = 0 /\ f.blocks = c
  BY <1>3, <1>5 DEF Fresh, PathOK
<1>7. r = [size |-> f.size, blocks |-> f.blocks]
  BY <1>3, <1>6
<1>8. /\ disk' \in Disk /\ disk'.map = e.map /\ disk'.data = disk.data
      /\ \A t \in Sector : disk'.fd[t] = IF t = s THEN r ELSE disk.fd[t]
  BY <1>3, <1>4, <1>6, <1>7, WriteFDIs
<1>9. /\ dir' \in [Name -> {0} \cup Sector] /\ dir'[n] = s /\ s # 0
      /\ \A m \in Name : m # n => dir'[m] = dir[m]
  BY <1>2, SectorIsNat DEF RbfInv, Types
<1>10. /\ path' \in [Path -> PathType \cup {Closed}]
       /\ \A q \in Path : q # p => path'[q] = path[q]
       /\ path'[p] = path[p] \/ path'[p] = f
  BY <1>4, <1>6 DEF RbfInv, Types
<1>11. Types'
  BY <1>1, <1>8, <1>9, <1>10 DEF RbfInv, Types
<1>12. Moves(n)
  <2>1. Elements(c) \subseteq Sector
    BY DEF Elements
  <2>2. Owner(n) = {} /\ Owner(n)' = {s} \cup Elements(c)
    BY <1>1, <1>3, <1>8, <1>9 DEF Owner
  <2>3. {s} \cup Elements(c) \in SUBSET Sector /\ ({s} \cup Elements(c)) \cap disk.map = {}
        /\ Owner(n)' = Owner(n) \cup ({s} \cup Elements(c))
        /\ disk'.map = disk.map \cup ({s} \cup Elements(c))
    BY <1>3, <1>8, <2>1, <2>2
  <2> QED BY <2>3 DEF Moves
<1>13. Spares(n)
  <2>1. \A t \in disk.map : t \in Sector /\ t # s
    BY <1>3, DiskParts DEF RbfInv, Types
  <2> QED BY <1>8, <2>1 DEF Spares
<1>14. Frame(n)
  BY <1>1, <1>6, <1>9, <1>10, <1>12, <1>13 DEF Frame
<1>15. Of(n) = {}
  BY <1>1, PathIs DEF Of
<1>16. \A q \in Of(n)' : q = p /\ path'[q] = f
  BY <1>1, <1>10, <1>15 DEF Of
<1>17. Joint(disk', f)
  BY <1>3, <1>6, <1>7, <1>8 DEF Joint
<1>18. \A q \in Of(n)' : AtFile(q)'
  BY <1>6, <1>9, <1>16, <1>17 DEF AtFile
<1>19. OneWriter(n)'
  BY <1>16 DEF OneWriter, Writers
<1>20. FileOK(n)'
  <2>1. FD(n)' = r
    BY <1>8, <1>9 DEF FD
  <2>2. WriterHolds(n)'
    BY <1>6, <1>16 DEF WriterHolds, Writers, Held
  <2>3. ReadersSee(n)'
    BY <1>6, <1>16 DEF ReadersSee, Writers
  <2>4. DiskHas(n)'
    BY <1>3, <2>1 DEF DiskHas
  <2> QED BY <2>2, <2>3, <2>4 DEF FileOK
<1>21. dir'[n] \notin Elements(disk'.fd[dir'[n]].blocks)
  BY <1>3, <1>8, <1>9
<1> QED BY <1>11, <1>14, <1>18, <1>19, <1>20, <1>21 DEF Cared

-----------------------------------------------------------------------------
(* The theorems *)

\* The invariant holds at the beginning, when there is no file.
LEMMA InitInv == Init => RbfInv
<1> SUFFICES ASSUME Init PROVE RbfInv
  OBVIOUS
<1> DEFINE fd == [s \in Sector |-> NoFD]
           data == [s \in Sector |-> Junk]
           d == [map |-> {}, last_alloc |-> 0, fd |-> fd, data |-> data]
<1>1. /\ disk = d /\ dir = [n \in Name |-> 0] /\ path = [p \in Path |-> Closed] /\ spoilt = {}
  BY DEF Init
<1>2. Types
  <2>1. fd \in [Sector -> FileD] /\ data \in [Sector -> Content]
    BY NoFDType DEF Content
  <2>2. 0 \in 0 .. totScts
    BY RbfAssumption
  <2> HIDE DEF fd, data
  <2>3. d \in Disk
    BY <2>1, <2>2 DEF Disk
  <2> QED BY <1>1, <2>3 DEF Types
<1>3. \A p \in Path : ~path[p].open
  BY <1>1 DEF Closed
<1>4. \A n \in Name : dir[n] = 0 /\ Owner(n) = {} /\ Of(n) = {}
  BY <1>1, <1>3 DEF Owner, Of
<1>5. Apart
  BY <1>4 DEF Apart
<1>6. AllAtFiles
  BY <1>3 DEF AllAtFiles, OpenPaths
<1>7. \A n \in Name : OneWriter(n) /\ FileOK(n)
  BY <1>4 DEF OneWriter, Writers, FileOK
<1> QED BY <1>2, <1>5, <1>6, <1>7 DEF RbfInv

\* Every step keeps it, and what is changed is one file.
LEMMA NextIs ==
  ASSUME RbfInv, Next
  PROVE  \E n \in Name : Types' /\ Frame(n) /\ Cared(n)
<1>1. ASSUME NEW p \in Path, NEW n \in Name, NEW wMode \in BOOLEAN, Open(p, n, wMode)
      PROVE  Types' /\ Frame(n) /\ Cared(n)
  BY <1>1, OpenKeeps
<1>2. ASSUME NEW p \in Path, NEW n \in Name, NEW init \in 0 .. 1, Create(p, n, init)
      PROVE  Types' /\ Frame(n) /\ Cared(n)
  BY <1>2, CreateKeeps
<1>3. ASSUME NEW p \in Path, path[p].open
      PROVE  \E m \in Name : m = path[p].name
  BY <1>3, PathIs
<1>4. ASSUME NEW p \in Path, NEW n \in Lens, Read(p, n)
      PROVE  \E m \in Name : Types' /\ Frame(m) /\ Cared(m)
  <2>1. PICK m \in Name : m = path[p].name
    BY <1>3, <1>4 DEF Read
  <2> QED BY <1>4, <2>1, ReadKeeps
<1>5. ASSUME NEW p \in Path, NEW n \in Lens, Write(p, n)
      PROVE  \E m \in Name : Types' /\ Frame(m) /\ Cared(m)
  <2>1. PICK m \in Name : m = path[p].name
    BY <1>3, <1>5 DEF Write
  <2> QED BY <1>5, <2>1, WriteKeeps
<1>6. ASSUME NEW p \in Path, NEW pos \in 0 .. MaxLen, Seek(p, pos)
      PROVE  \E m \in Name : Types' /\ Frame(m) /\ Cared(m)
  <2>1. PICK m \in Name : m = path[p].name
    BY <1>3, <1>6 DEF Seek
  <2> QED BY <1>6, <2>1, SeekKeeps
<1>7. ASSUME NEW p \in Path, NEW size \in 0 .. MaxLen, SetSize(p, size)
      PROVE  \E m \in Name : Types' /\ Frame(m) /\ Cared(m)
  <2>1. PICK m \in Name : m = path[p].name
    BY <1>3, <1>7 DEF SetSize
  <2> QED BY <1>7, <2>1, SetSizeKeeps
<1>8. ASSUME NEW p \in Path, Close(p)
      PROVE  \E m \in Name : Types' /\ Frame(m) /\ Cared(m)
  <2>1. PICK m \in Name : m = path[p].name
    BY <1>3, <1>8 DEF Close
  <2> QED BY <1>8, <2>1, CloseKeeps
<1>9. ASSUME NEW n \in Name, Delete(n)
      PROVE  Types' /\ Frame(n) /\ Cared(n)
  BY <1>9, DeleteKeeps
<1> QED BY <1>1, <1>2, <1>4, <1>5, <1>6, <1>7, <1>8, <1>9 DEF Next

\* The invariant is inductive.
LEMMA NextKeeps == RbfInv /\ [Next]_vars => RbfInv'
<1>1. ASSUME RbfInv, Next PROVE RbfInv'
  <2>1. PICK n \in Name : Types' /\ Frame(n) /\ Cared(n)
    BY <1>1, NextIs
  <2> QED BY <1>1, <2>1, FrameKeeps
<1>2. ASSUME RbfInv, UNCHANGED vars PROVE RbfInv'
  <2>1. disk' = disk /\ dir' = dir /\ path' = path /\ spoilt' = spoilt
    BY <1>2 DEF vars
  <2>2. Types'
    BY <1>2, <2>1 DEF RbfInv, Types
  <2>3. \A n \in Name : Owner(n)' = Owner(n) /\ FD(n)' = FD(n) /\ Of(n)' = Of(n)
    BY <2>1 DEF Owner, FD, Of
  <2>4. Apart'
    BY <1>2, <2>1, <2>3 DEF RbfInv, Apart
  <2>5. AllAtFiles'
    BY <1>2, <2>1 DEF RbfInv, AllAtFiles, OpenPaths, AtFile
  <2>6. ASSUME NEW n \in Name PROVE OneWriter(n)' /\ FileOK(n)'
    <3>1. Writers(n)' = Writers(n)
      BY <2>1, <2>3 DEF Writers
    <3>2. OneWriter(n)'
      BY <1>2, <3>1 DEF RbfInv, OneWriter
    <3>3. WriterHolds(n) => WriterHolds(n)'
      BY <2>1, <3>1 DEF WriterHolds
    <3>4. ReadersSee(n) => ReadersSee(n)'
      BY <2>1, <2>3, <3>1 DEF ReadersSee
    <3>5. DiskHas(n) => DiskHas(n)'
      BY <2>1, <2>3, <3>1 DEF DiskHas
    <3> QED BY <1>2, <2>1, <3>2, <3>3, <3>4, <3>5 DEF RbfInv, FileOK
  <2> QED BY <2>2, <2>4, <2>5, <2>6 DEF RbfInv
<1> QED BY <1>1, <1>2

\* The disk, the files and the paths are as the invariant says, in every state.
THEOREM RbfInvariant == Spec => []RbfInv
BY InitInv, NextKeeps, PTL DEF Spec

\* Every variable has its type, no FD has more segments than there is room for, and a path
\* that writes has the sectors of the FD on the disk (RbfTypeOK), in every state.
THEOREM RbfTypeCorrect == Spec => []RbfTypeOK
<1>1. RbfInv => RbfTypeOK
  <2> SUFFICES ASSUME RbfInv PROVE RbfTypeOK
    OBVIOUS
  <2>1. disk \in Disk /\ dir \in [Name -> {0} \cup Sector] /\ spoilt \subseteq Name
    BY DEF RbfInv, Types
  <2>2. disk.map \subseteq Sector /\ disk.last_alloc \in 0 .. totScts
    BY <2>1, DiskParts
  <2>3. \A s \in Sector : /\ disk.fd[s].size \in 0 .. MaxLen /\ disk.fd[s].blocks \in Seq(Sector)
                          /\ Segments(disk.fd[s].blocks) <= MaxSegs
    BY <2>1, DiskParts DEF FileD
  <2>4. \A s \in Sector : disk.data[s] \in {Junk} \cup (Name \X (0 .. MaxLen))
    BY <2>1, DiskParts DEF Content
  <2>5. \A p \in OpenPaths : /\ path[p] \in PathType
                             /\ path[p].lastPos <= Len(path[p].blocks)
                             /\ path[p].wMode => path[p].blocks = disk.fd[path[p].fd_nr].blocks
    <3> SUFFICES ASSUME NEW p \in Path, path[p].open
                 PROVE  /\ path[p] \in PathType
                        /\ path[p].lastPos <= Len(path[p].blocks)
                        /\ path[p].wMode => path[p].blocks = disk.fd[path[p].fd_nr].blocks
      BY DEF OpenPaths
    <3>1. PathOK(path[p]) /\ (path[p].wMode => Joint(disk, path[p]))
      BY PathIs
    <3> QED BY <3>1 DEF PathOK, Joint
  <2> QED BY <2>1, <2>2, <2>3, <2>4, <2>5 DEF RbfTypeOK
<1> QED BY <1>1, RbfInvariant, PTL

\* What the writer of a file holds is on the disk or in its buffer.
LEMMA HeldIsThere ==
  ASSUME RbfInv, NEW n \in Name, NEW q \in Writers(n), WriterHolds(n),
         NEW k \in Nat, k < path[q].lastPos
  PROVE  \/ disk.data[path[q].blocks[k + 1]] = Text(n, k)
         \/ InBuffer(n, path[q].blocks[k + 1])
<1> DEFINE g == path[q]
           l == g.lastPos
           s == g.blocks[k + 1]
<1>1. q \in Path /\ g.open /\ g.name = n /\ g.wMode
  BY DEF Writers, Of
<1>2. PathOK(g) /\ Held(disk, g, l) /\ l \in Nat
  BY <1>1, PathIs, PathParts DEF WriterHolds
<1> HIDE DEF l
<1>3. k + 1 \in 1 .. l /\ (k + 1) - 1 = k
  BY <1>2 DEF l
<1>4. disk.data[s] = Text(n, k) \/ (g.mustW /\ g.rw_nr = s)
  BY <1>1, <1>2, <1>3 DEF Held
<1>5. g.mustW => g.rw_sct[1] = n
  BY <1>1, <1>2 DEF PathOK, Buffer, Text
<1> QED BY <1>4, <1>5 DEF InBuffer

\* Whatever a path can read is on the disk, written to its file and for its place, or waits
\* in the buffer of the path that writes the file (ReadsOwn), in every state: for disks of
\* every size, and however many paths and files there are.
THEOREM ReadsOwnFile == Spec => []ReadsOwn
<1>1. RbfInv => ReadsOwn
  <2> SUFFICES ASSUME RbfInv, NEW p \in Path, path[p].open, path[p].name \notin spoilt,
                      NEW k \in 0 .. Readable(path[p]) - 1
               PROVE  \/ disk.data[path[p].blocks[k + 1]] = Text(path[p].name, k)
                      \/ InBuffer(path[p].name, path[p].blocks[k + 1])
    BY Zenon DEF ReadsOwn, OpenPaths
  <2>1. PICK n \in Name : n = path[p].name
    BY PathIs
  <2>2. /\ PathOK(path[p]) /\ dir[n] # 0 /\ p \in Of(n) /\ dir[n] \in Sector
    BY <2>1, PathIs
  <2>3. WriterHolds(n) /\ ReadersSee(n) /\ DiskHas(n)
    BY <2>1, <2>2 DEF RbfInv, FileOK
  <2>4. Readable(path[p]) \in Nat /\ Readable(path[p]) = Larger(path[p].size, path[p].lastPos)
        /\ path[p].size \in Nat /\ path[p].lastPos \in Nat
    BY <2>2, ReadableIs, PathParts DEF PathOK
  <2>5. k \in Nat /\ k < Readable(path[p])
    BY <2>4
  <2>6. CASE p \in Writers(n)
    <3>1. path[p].size <= path[p].lastPos
      BY <2>3, <2>6 DEF WriterHolds
    <3>2. k < path[p].lastPos
      BY <2>4, <2>5, <3>1 DEF Larger
    <3> QED BY <2>1, <2>3, <2>5, <2>6, <3>2, HeldIsThere
  <2>7. CASE p \notin Writers(n)
    <3>1. /\ Readable(path[p]) <= FD(n).size
          /\ \A i \in 1 .. Readable(path[p]) : path[p].blocks[i] = FD(n).blocks[i]
      BY <2>2, <2>3, <2>7 DEF ReadersSee
    <3>2. k + 1 \in 1 .. Readable(path[p]) /\ (k + 1) - 1 = k
      BY <2>4, <2>5
    <3>3. path[p].blocks[k + 1] = FD(n).blocks[k + 1]
      BY <3>1, <3>2
    <3>4. FD(n).size \in Nat
      <4>1. FD(n) \in FileD
        BY <2>2, DiskParts DEF FD, RbfInv, Types
      <4> QED BY <4>1, RbfAssumption DEF FileD
    <3>5. k + 1 \in 1 .. FD(n).size /\ k < FD(n).size
      BY <2>4, <2>5, <3>1, <3>2, <3>4
    <3>6. CASE Writers(n) = {}
      <4>1. disk.data[FD(n).blocks[k + 1]] = Text(n, (k + 1) - 1)
        BY <2>3, <3>5, <3>6 DEF DiskHas
      <4> QED BY <2>1, <3>2, <3>3, <4>1
    <3>7. CASE Writers(n) # {}
      <4>1. PICK q \in Writers(n) : TRUE
        BY <3>7
      <4>2. q \in Path /\ path[q].open /\ path[q].name = n /\ path[q].wMode
        BY DEF Writers, Of
      <4>3. Joint(disk, path[q]) /\ path[q].fd_nr = dir[n] /\ PathOK(path[q])
        BY <4>2, PathIs
      <4>4. FD(n).size = path[q].size /\ FD(n).blocks = path[q].blocks
        BY <4>3 DEF Joint, FD
      <4>5. path[q].size <= path[q].lastPos /\ path[q].lastPos \in Nat /\ path[q].size \in Nat
        BY <2>3, <4>3, PathParts DEF WriterHolds, PathOK
      <4>6. k < path[q].lastPos
        BY <2>5, <3>5, <4>4, <4>5
      <4>7. \/ disk.data[path[q].blocks[k + 1]] = Text(n, k)
            \/ InBuffer(n, path[q].blocks[k + 1])
        BY <2>3, <2>5, <4>6, HeldIsThere
      <4> QED BY <2>1, <3>3, <4>4, <4>7
    <3> QED BY <3>6, <3>7
  <2> QED BY <2>6, <2>7
<1> QED BY <1>1, RbfInvariant, PTL

\* A step that changes one file is one of the allocation, or changes nothing there.
LEMMA MovesInSpace ==
  ASSUME RbfInv, NEW n \in Name, Frame(n), Types'
  PROVE  [Abstract!Next]_(Abstract!vars)
<1> DEFINE O == [m \in Name |-> Owner(m)]
           F == Sector \ disk.map
           O1 == [m \in Name |-> Owner(m)']
           F1 == Sector \ disk'.map
<1>1. /\ O = [m \in Name |-> IF dir[m] = 0 THEN {}
                             ELSE {dir[m]} \cup Elements(disk.fd[dir[m]].blocks)]
      /\ O1 = [m \in Name |-> IF dir'[m] = 0 THEN {}
                              ELSE {dir'[m]} \cup Elements(disk'.fd[dir'[m]].blocks)]
  BY DEF Owner
<1>2. \A m \in Name : m # n => Owner(m)' = Owner(m)
  BY OthersKeep
<1>3. Owner(n) \subseteq disk.map /\ disk.map \subseteq Sector
  BY DiskParts DEF RbfInv, Types, Apart
<1>4. \/ O1 = O /\ F1 = F
      \/ F1 # F /\ F \ F1 \subseteq F /\ F \ F1 # {}
         /\ O1 = [O EXCEPT ![n] = O[n] \cup (F \ F1)] /\ F1 = F \ (F \ F1)
      \/ F1 # F /\ F1 \ F \subseteq O[n] /\ F1 \ F # {}
         /\ O1 = [O EXCEPT ![n] = O[n] \ (F1 \ F)] /\ F1 = F \cup (F1 \ F)
  <2>1. PICK S \in SUBSET Sector :
           \/ S \cap disk.map = {} /\ Owner(n)' = Owner(n) \cup S /\ disk'.map = disk.map \cup S
           \/ S \subseteq Owner(n) /\ Owner(n)' = Owner(n) \ S /\ disk'.map = disk.map \ S
    BY DEF Frame, Moves
  <2>2. O[n] = Owner(n)
    OBVIOUS
  <2>3. CASE S = {}
    <3>1. Owner(n)' = Owner(n) /\ disk'.map = disk.map
      BY <2>1, <2>3
    <3>2. \A m \in Name : Owner(m)' = Owner(m)
      BY <1>2, <3>1
    <3> QED BY <3>1, <3>2
  <2>4. CASE /\ S # {} /\ S \cap disk.map = {} /\ Owner(n)' = Owner(n) \cup S
             /\ disk'.map = disk.map \cup S
    <3>1. F \ F1 = S /\ F1 # F /\ S \subseteq F /\ F1 = F \ S
      BY <1>3, <2>4
    <3>2. \A m \in Name : Owner(m)' = IF m = n THEN Owner(n) \cup S ELSE Owner(m)
      BY <1>2, <2>4
    <3>3. O1 = [O EXCEPT ![n] = O[n] \cup S]
      BY <2>2, <3>2
    <3> QED BY <2>4, <3>1, <3>3
  <2>5. CASE /\ S # {} /\ S \subseteq Owner(n) /\ Owner(n)' = Owner(n) \ S
             /\ disk'.map = disk.map \ S
    <3>1. F1 \ F = S /\ F1 # F /\ F1 = F \cup S
      BY <1>3, <2>5
    <3>2. \A m \in Name : Owner(m)' = IF m = n THEN Owner(n) \ S ELSE Owner(m)
      BY <1>2, <2>5
    <3>3. O1 = [O EXCEPT ![n] = O[n] \ S]
      BY <2>2, <3>2
    <3> QED BY <2>2, <2>5, <3>1, <3>3
  <2> QED BY <2>1, <2>3, <2>4, <2>5
<1> HIDE DEF O, O1, F, F1
<1>5. CASE O1 = O /\ F1 = F
  BY <1>1, <1>5 DEF Abstract!vars, F, F1
<1>6. CASE /\ F1 # F /\ F \ F1 \subseteq F /\ F \ F1 # {}
           /\ O1 = [O EXCEPT ![n] = O[n] \cup (F \ F1)] /\ F1 = F \ (F \ F1)
  <2>1. Abstract!Take(n, F \ F1)
    BY <1>1, <1>6 DEF Abstract!Take, F, F1
  <2> QED BY <1>6, <2>1 DEF Abstract!Next, F, F1
<1>7. CASE /\ F1 # F /\ F1 \ F \subseteq O[n] /\ F1 \ F # {}
           /\ O1 = [O EXCEPT ![n] = O[n] \ (F1 \ F)] /\ F1 = F \cup (F1 \ F)
  <2>1. Abstract!GiveBack(n, F1 \ F)
    BY <1>1, <1>7 DEF Abstract!GiveBack, F, F1
  <2> QED BY <1>7, <2>1 DEF Abstract!Next, F, F1
<1> QED BY <1>4, <1>5, <1>6, <1>7

\* The map and the FDs share the sectors among the files and the free ones, as the
\* allocation promises (SpaceImplemented): on disks of every size, with any number of files.
THEOREM SpaceIsShared == Spec => SpaceImplemented
<1>1. Init => Abstract!Init
  <2> SUFFICES ASSUME Init PROVE Abstract!Init
    OBVIOUS
  <2>1. disk.map = {} /\ \A n \in Name : dir[n] = 0
    BY DEF Init
  <2> QED BY <2>1 DEF Abstract!Init
<1>2. RbfInv /\ [Next]_vars => [Abstract!Next]_(Abstract!vars)
  <2>1. ASSUME RbfInv, Next PROVE [Abstract!Next]_(Abstract!vars)
    BY <2>1, NextIs, MovesInSpace
  <2>2. ASSUME UNCHANGED vars PROVE [Abstract!Next]_(Abstract!vars)
    BY <2>2 DEF vars, Abstract!vars
  <2> QED BY <2>1, <2>2
<1> QED BY <1>1, <1>2, RbfInvariant, PTL DEF Spec, SpaceImplemented, Abstract!Spec

\* What an action leaves of the size of every file.
LEMMA SizesStay ==
  ASSUME RbfInv, NEW m \in Name, Frame(m),
         dir[m] # 0 /\ dir'[m] = dir[m] => NotShorter(m) \/ m \in spoilt,
         NEW n \in Name, dir[n] # 0, dir'[n] = dir[n], n \notin spoilt
  PROVE  SizeOf(n)' >= SizeOf(n)
<1>1. dir[n] \in Sector /\ disk \in Disk
  BY DEF RbfInv, Types
<1>2. disk.fd[dir[n]].size \in Nat
  <2>1. disk.fd[dir[n]] \in FileD
    BY <1>1, DiskParts
  <2> QED BY <2>1, RbfAssumption DEF FileD
<1>3. CASE n = m
  BY <1>3 DEF NotShorter, SizeOf
<1>4. CASE n # m
  <2>1. FD(n)' = FD(n)
    BY <1>4, OthersKeep
  <2> QED BY <1>2, <2>1 DEF FD, SizeOf
<1> QED BY <1>3, <1>4

\* The size of a file on the disk is made smaller by SS_Size only (NeverShrinks), wherever
\* its paths are when they are closed.
THEOREM OnlySetSizeShrinks == Spec => NeverShrinks
<1> DEFINE Sizes == \A n \in Name : dir[n] # 0 /\ dir'[n] = dir[n] /\ n \notin spoilt
                                      => SizeOf(n)' >= SizeOf(n)
           Shrinks == \E p \in Path, size \in 0 .. MaxLen : SetSize(p, size)
<1>1. ASSUME RbfInv, NEW m \in Name, Frame(m),
             dir[m] # 0 /\ dir'[m] = dir[m] => NotShorter(m) \/ m \in spoilt
      PROVE  Sizes
  BY <1>1, SizesStay
<1>2. ASSUME RbfInv, NEW m \in Name, dir[m] # 0, disk' = disk PROVE NotShorter(m)
  <2>1. disk.fd[dir[m]] \in FileD
    BY <1>2, DiskParts DEF RbfInv, Types
  <2>2. disk.fd[dir[m]].size \in Nat
    BY <2>1, RbfAssumption DEF FileD
  <2> QED BY <1>2, <2>2 DEF NotShorter
<1> HIDE DEF Sizes, Shrinks
<1>3. ASSUME RbfInv, NEW p \in Path, path[p].open PROVE \E m \in Name : m = path[p].name
  BY <1>3, PathIs
<1>4. ASSUME RbfInv, Next PROVE Sizes \/ Shrinks
  <2>1. ASSUME NEW p \in Path, NEW n \in Name, NEW wMode \in BOOLEAN, Open(p, n, wMode)
        PROVE  Sizes
    <3>1. Frame(n)
      BY <1>4, <2>1, OpenKeeps
    <3>2. disk' = disk
      BY <2>1 DEF Open
    <3> QED BY <1>1, <1>2, <1>4, <3>1, <3>2
  <2>2. ASSUME NEW p \in Path, NEW n \in Name, NEW init \in 0 .. 1, Create(p, n, init)
        PROVE  Sizes
    <3>1. Frame(n)
      BY <1>4, <2>2, CreateKeeps
    <3>2. dir[n] = 0
      BY <2>2 DEF Create
    <3> QED BY <1>1, <1>4, <3>1, <3>2
  <2>3. ASSUME NEW p \in Path, NEW n \in Lens, Read(p, n) PROVE Sizes
    <3>1. PICK m \in Name : m = path[p].name
      BY <1>3, <1>4, <2>3 DEF Read
    <3>2. Frame(m) /\ NotShorter(m)
      BY <1>4, <2>3, <3>1, ReadKeeps
    <3> QED BY <1>1, <1>4, <3>2
  <2>4. ASSUME NEW p \in Path, NEW n \in Lens, Write(p, n) PROVE Sizes
    <3>1. PICK m \in Name : m = path[p].name
      BY <1>3, <1>4, <2>4 DEF Write
    <3>2. Frame(m) /\ NotShorter(m)
      BY <1>4, <2>4, <3>1, WriteKeeps
    <3> QED BY <1>1, <1>4, <3>2
  <2>5. ASSUME NEW p \in Path, NEW pos \in 0 .. MaxLen, Seek(p, pos) PROVE Sizes
    <3>1. PICK m \in Name : m = path[p].name
      BY <1>3, <1>4, <2>5 DEF Seek
    <3>2. Frame(m)
      BY <1>4, <2>5, <3>1, SeekKeeps
    <3>3. disk' = disk
      BY <2>5 DEF Seek
    <3> QED BY <1>1, <1>2, <1>4, <3>2, <3>3
  <2>6. ASSUME NEW p \in Path, NEW size \in 0 .. MaxLen, SetSize(p, size) PROVE Shrinks
    BY <2>6 DEF Shrinks
  <2>7. ASSUME NEW p \in Path, Close(p) PROVE Sizes
    <3>1. PICK m \in Name : m = path[p].name
      BY <1>3, <1>4, <2>7 DEF Close
    <3>2. Frame(m) /\ (m \notin spoilt => NotShorter(m))
      BY <1>4, <2>7, <3>1, CloseKeeps
    <3> QED BY <1>1, <1>4, <3>2
  <2>8. ASSUME NEW n \in Name, Delete(n) PROVE Sizes
    <3>1. Frame(n)
      BY <1>4, <2>8, DeleteKeeps
    <3>2. dir[n] # 0 /\ dir'[n] = 0
      BY <1>4, <2>8 DEF Delete, RbfInv, Types
    <3> QED BY <1>1, <1>4, <3>1, <3>2
  <2> QED BY <1>4, <2>1, <2>2, <2>3, <2>4, <2>5, <2>6, <2>7, <2>8 DEF Next
<1>5. RbfInv /\ [Next]_vars => [Sizes \/ Shrinks]_vars
  BY <1>4
<1> QED BY <1>5, RbfInvariant, PTL DEF Spec, NeverShrinks, Sizes, Shrinks
=============================================================================
