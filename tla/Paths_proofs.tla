----------------------------- MODULE Paths_proofs -----------------------------
(***************************************************************************)
(* The link count of a system path is the number of path numbers that name *)
(* it, for any processes and sizes of the tables, as long as files can be  *)
(* closed without an error of the host.                                    *)
(***************************************************************************)
EXTENDS Paths, FiniteSetTheorems, WellFoundedInduction, TLAPS

-----------------------------------------------------------------------------
(* Least members                                                           *)

\* Every set of numbers that is not empty has a least member.
LEMMA LeastNumber ==
  ASSUME NEW S, S \subseteq Nat, S # {}
  PROVE  \E x \in S : \A y \in S : x <= y
<1> DEFINE R == OpToRel(<, Nat)
<1>1. IsWellFoundedOn(R, Nat)
  BY NatLessThanWellFounded
<1>2. \A x, y \in Nat : <<y, x>> \notin R => x <= y
  <2>1. \A x, y \in Nat : y < x => <<y, x>> \in R
    BY Zenon DEF OpToRel
  <2> HIDE DEF R
  <2> QED BY <2>1
<1> HIDE DEF R
<1>3. \E x \in S : \A y \in S : <<y, x>> \notin R
  BY <1>1, WFMin
<1> QED BY <1>2, <1>3

LEMMA LowestFits ==
  ASSUME NEW S, S \subseteq Nat, S # {}
  PROVE  Lowest(S) \in S
BY LeastNumber DEF Lowest

-----------------------------------------------------------------------------
(* The invariant                                                           *)

\* One link is of no path number: the RBF driver's, and the one that NIL and VMod have for
\* ever.
Kept(sp) == IF sp \in sp_img \cup sysShared THEN 1 ELSE 0

PathOK(sp) ==
    /\ type[sp] # "fNone" /\ sp # sysStdin =>
           /\ linkcount[sp] = Cardinality(Names(sp)) + Kept(sp)
           /\ linkcount[sp] = 0 => type[sp] = "fPipe"
    /\ type[sp] = "fNone" => Names(sp) = {}
    /\ filled[sp] => type[sp] = "fPipe"
    /\ sp \in sp_img => type[sp] = "fFile" /\ Names(sp) = {} /\ sp \notin Standard

PathsInv == PathsTypeOK /\ \A sp \in SysPath : PathOK(sp)

LEMMA NamesFinite ==
  ASSUME alive \subseteq Proc, NEW sp
  PROVE  IsFiniteSet(Names(sp)) /\ Cardinality(Names(sp)) \in Nat
<1>1. IsFiniteSet(alive)
  BY PathsAssumption, FS_Subset
<1>2. IsFiniteSet(UsrPath)
  BY PathsAssumption, FS_Interval DEF UsrPath
<1>3. IsFiniteSet(alive \X UsrPath)
  BY <1>1, <1>2, FS_Product
<1>4. Names(sp) \in SUBSET (alive \X UsrPath)
  BY DEF Names
<1> QED BY <1>3, <1>4, FS_Subset, FS_CardinalityType

\* The numbers of a process that name a path.
Numbers(p, S, sp) == {k \in S : usrpaths[p][k] = sp}

LEMMA NumbersFinite ==
  ASSUME NEW p, NEW S \in SUBSET UsrPath, NEW sp
  PROVE  /\ IsFiniteSet(Numbers(p, S, sp)) /\ Count(p, S, sp) \in Nat
         /\ Count(p, S, sp) = Cardinality(Numbers(p, S, sp))
         /\ \A q : /\ IsFiniteSet({q} \X Numbers(p, S, sp))
                   /\ Cardinality({q} \X Numbers(p, S, sp)) = Count(p, S, sp)
<1>1. IsFiniteSet(UsrPath)
  BY PathsAssumption, FS_Interval DEF UsrPath
<1>2. Numbers(p, S, sp) \in SUBSET UsrPath
  BY DEF Numbers
<1>3. IsFiniteSet(Numbers(p, S, sp))
  BY <1>1, <1>2, FS_Subset
<1>4. Count(p, S, sp) = Cardinality(Numbers(p, S, sp))
  BY DEF Count, Numbers
<1>5. Count(p, S, sp) \in Nat
  BY <1>3, <1>4, FS_CardinalityType
<1>6. ASSUME NEW q
      PROVE  /\ IsFiniteSet({q} \X Numbers(p, S, sp))
             /\ Cardinality({q} \X Numbers(p, S, sp)) = Count(p, S, sp)
  <2>1. IsFiniteSet({q}) /\ Cardinality({q}) = 1
    BY FS_Singleton
  <2>2. /\ IsFiniteSet({q} \X Numbers(p, S, sp))
        /\ Cardinality({q} \X Numbers(p, S, sp)) = 1 * Cardinality(Numbers(p, S, sp))
    BY <1>3, <2>1, FS_Product
  <2> QED BY <1>4, <1>5, <2>2
<1> QED BY <1>3, <1>4, <1>5, <1>6

\* The numbers of a process that runs are names.
LEMMA NumbersNamed ==
  ASSUME NEW p \in alive, NEW S \in SUBSET UsrPath, NEW sp
  PROVE  /\ ({p} \X Numbers(p, S, sp)) \subseteq Names(sp)
         /\ Names(sp) = {} => Numbers(p, S, sp) = {}
<1>1. ASSUME NEW j \in Numbers(p, S, sp) PROVE <<p, j>> \in Names(sp)
  BY DEF Numbers, Names
<1>2. ({p} \X Numbers(p, S, sp)) \subseteq Names(sp)
  BY <1>1
<1>3. Names(sp) = {} => Numbers(p, S, sp) = {}
  BY <1>1
<1> QED BY <1>2, <1>3

\* At the start the first process has the console under three numbers.
LEMMA InitInv == Init => PathsInv
<1> SUFFICES ASSUME Init PROVE PathsInv
  OBVIOUS
<1>1. PathsTypeOK
  BY PathsAssumption DEF Init, PathsTypeOK, Types, UsrPath, SysPath, Standard
<1>2. ASSUME NEW sp \in SysPath PROVE PathOK(sp)
  <2>1. \A k \in UsrPath : usrpaths[first][k] \in {0, sysStdin}
    BY PathsAssumption DEF Init
  <2>2. ASSUME sp # sysStdin, NEW pk \in alive \X UsrPath, usrpaths[pk[1]][pk[2]] = sp
        PROVE  FALSE
    <3>1. pk[1] = first /\ pk[2] \in UsrPath
      BY <2>2 DEF Init
    <3> QED BY <2>1, <2>2, <3>1, PathsAssumption DEF SysPath
  <2>3. sp # sysStdin => Names(sp) = {}
    BY <2>2 DEF Names
  <2>4. Cardinality({}) = 0
    BY FS_EmptySet
  <2>5. /\ sp = sysStdin => type[sp] = "fCons"
        /\ sp \in sysShared => type[sp] = "fNIL" /\ linkcount[sp] = 1
        /\ sp \notin Standard => type[sp] = "fNone"
    BY PathsAssumption DEF Init, Standard
  <2>6. ~filled[sp] /\ sp_img = {}
    BY DEF Init
  <2>7. Kept(sp) = IF sp \in sysShared THEN 1 ELSE 0
    BY <2>6 DEF Kept
  <2>8. CASE sp = sysStdin
    BY <2>5, <2>6, <2>8 DEF PathOK
  <2>9. CASE sp \in sysShared /\ sp # sysStdin
    BY <2>3, <2>4, <2>5, <2>6, <2>7, <2>9 DEF PathOK
  <2>10. CASE sp \notin Standard
    BY <2>3, <2>5, <2>6, <2>10 DEF PathOK, Standard
  <2> QED BY <2>8, <2>9, <2>10 DEF Standard
<1> QED BY <1>1, <1>2 DEF PathsInv

-----------------------------------------------------------------------------
(* Numbers                                                                 *)

\* A number for a path.
LEMMA NumberSet ==
  ASSUME PathsTypeOK, NEW p \in alive, NEW k \in FreeNumbers(p), NEW s \in SysPath,
         SetNumber(p, k, s), alive' = alive
  PROVE  /\ usrpaths' \in [Proc -> [UsrPath -> 0 .. MAXSYSPATHS - 1]]
         /\ \A sp \in SysPath : sp # s => Names(sp)' = Names(sp)
         /\ Cardinality(Names(s)') = Cardinality(Names(s)) + 1
<1>1. k \in UsrPath /\ usrpaths[p][k] = 0 /\ s # 0 /\ p \in Proc
  BY PathsAssumption DEF FreeNumbers, SysPath, PathsTypeOK
<1>2. /\ usrpaths \in [Proc -> [UsrPath -> 0 .. MAXSYSPATHS - 1]]
      /\ s \in 0 .. MAXSYSPATHS - 1
  BY PathsAssumption DEF PathsTypeOK, SysPath
<1>3. usrpaths' = [usrpaths EXCEPT ![p] = [usrpaths[p] EXCEPT ![k] = s]]
  BY DEF SetNumber
<1>4. usrpaths' \in [Proc -> [UsrPath -> 0 .. MAXSYSPATHS - 1]]
  BY <1>1, <1>2, <1>3
<1>5. \A q \in Proc, j \in UsrPath :
          usrpaths'[q][j] = IF q = p /\ j = k THEN s ELSE usrpaths[q][j]
  BY <1>1, <1>2, <1>3
<1>a. \A pk \in alive \X UsrPath : /\ pk = <<pk[1], pk[2]>> /\ pk[1] \in Proc /\ pk[2] \in UsrPath
                                   /\ (pk[1] = p /\ pk[2] = k) <=> pk = <<p, k>>
  BY DEF PathsTypeOK
<1>b. \A sp \in SysPath : sp # 0
  BY DEF SysPath
<1>6. \A sp \in SysPath : sp # s => Names(sp)' = Names(sp)
  BY <1>1, <1>5, <1>a, <1>b DEF Names
<1>7. Names(s)' = Names(s) \cup {<<p, k>>} /\ <<p, k>> \notin Names(s)
  BY <1>1, <1>5, <1>a, <1>b DEF Names
<1>8. IsFiniteSet(Names(s))
  BY NamesFinite DEF PathsTypeOK
<1>9. Cardinality(Names(s)') = Cardinality(Names(s)) + 1
  BY <1>7, <1>8, FS_AddElement
<1> QED BY <1>4, <1>6, <1>9

\* A path that is not free has a type, and what numbers name is not free.
LEMMA NamedOpen ==
  ASSUME PathsInv, NEW p \in alive, NEW k \in UsrPath, usrpaths[p][k] # 0
  PROVE  usrpaths[p][k] \in SysPath /\ type[usrpaths[p][k]] # "fNone"
<1>1. usrpaths[p][k] \in SysPath
  BY PathsAssumption DEF PathsInv, PathsTypeOK, SysPath
<1>2. <<p, k>> \in Names(usrpaths[p][k])
  BY DEF Names
<1> QED BY <1>1, <1>2 DEF PathsInv, PathOK

LEMMA FreeNumberThere ==
  ASSUME NEW p, FreeNumbers(p) # {}
  PROVE  Lowest(FreeNumbers(p)) \in FreeNumbers(p)
<1>1. FreeNumbers(p) \subseteq Nat
  BY PathsAssumption DEF FreeNumbers, UsrPath
<1> QED BY <1>1, LowestFits

LEMMA FreePathThere ==
  ASSUME FreePaths # {}
  PROVE  Lowest(FreePaths) \in SysPath /\ type[Lowest(FreePaths)] = "fNone"
<1>1. FreePaths \subseteq Nat
  BY PathsAssumption DEF FreePaths, SysPath
<1>2. Lowest(FreePaths) \in FreePaths
  BY <1>1, LowestFits
<1> QED BY <1>2 DEF FreePaths

\* A free path is opened.
LEMMA SyspathNewTypes ==
  ASSUME PathsTypeOK, NEW s \in SysPath, type[s] = "fNone", NEW t \in {"fFile", "fPipe"},
         SyspathNew(s, t), opens < MaxOpens
  PROVE  /\ type' \in [SysPath -> Types] /\ linkcount' \in [SysPath -> Nat]
         /\ filled' \in [SysPath -> BOOLEAN]
         /\ id' \in [SysPath -> Nat] /\ opens' \in 0 .. MaxOpens
         /\ type'[sysStdin] = "fCons" /\ \A sp \in sysShared : type'[sp] = "fNIL"
         /\ type'[s] = t /\ linkcount'[s] = 1 /\ ~filled'[s] /\ s \notin Standard
         /\ \A sp \in SysPath \ {s} : /\ type'[sp] = type[sp] /\ linkcount'[sp] = linkcount[sp]
                                      /\ filled'[sp] = filled[sp]
BY PathsAssumption DEF SyspathNew, PathsTypeOK, Types, Standard

\* An operation that gives links to s and numbers to them, and leaves the others alone.
LEMMA OthersKept ==
  ASSUME PathsInv, PathsTypeOK', NEW s \in SysPath, PathOK(s)',
         \A sp \in SysPath \ {s} :
             /\ type'[sp] = type[sp] /\ linkcount'[sp] = linkcount[sp]
             /\ filled'[sp] => filled[sp]
             /\ Names(sp)' = Names(sp) /\ (sp \in sp_img' <=> sp \in sp_img)
  PROVE  PathsInv'
<1>1. ASSUME NEW sp \in SysPath \ {s} PROVE PathOK(sp)'
  <2>1. PathOK(sp) /\ Kept(sp)' = Kept(sp)
    BY DEF PathsInv, Kept
  <2>2. Cardinality(Names(sp))' = Cardinality(Names(sp))
    OBVIOUS
  <2> QED BY <2>1, <2>2 DEF PathOK
<1> QED BY <1>1 DEF PathsInv

\* I$Open of a new path.
LEMMA OpenInv ==
  ASSUME PathsInv, NEW p \in Proc, NEW t \in {"fFile", "fPipe"}, Open(p, t)
  PROVE  PathsInv'
<1>a. Lowest(FreePaths) \in SysPath /\ type[Lowest(FreePaths)] = "fNone"
  BY FreePathThere DEF Open
<1>b. Lowest(FreeNumbers(p)) \in FreeNumbers(p)
  BY FreeNumberThere DEF Open
<1>c. PICK s \in SysPath : s = Lowest(FreePaths)
  BY <1>a
<1>d. PICK k \in FreeNumbers(p) : k = Lowest(FreeNumbers(p))
  BY <1>b
<1>1. p \in alive /\ s \in SysPath /\ type[s] = "fNone" /\ k \in FreeNumbers(p)
  BY <1>a, <1>b, <1>c, <1>d DEF Open
<1>2. /\ SyspathNew(s, t) /\ SetNumber(p, k, s)
      /\ alive' = alive /\ sp_img' = sp_img /\ opens < MaxOpens
  BY <1>c, <1>d DEF Open
<1>3. PathsTypeOK /\ PathOK(s)
  BY <1>1 DEF PathsInv
<1>4. /\ usrpaths' \in [Proc -> [UsrPath -> 0 .. MAXSYSPATHS - 1]]
      /\ \A sp \in SysPath : sp # s => Names(sp)' = Names(sp)
      /\ Cardinality(Names(s)') = Cardinality(Names(s)) + 1
  BY <1>1, <1>2, <1>3, NumberSet
<1>5. /\ type' \in [SysPath -> Types] /\ linkcount' \in [SysPath -> Nat]
      /\ filled' \in [SysPath -> BOOLEAN]
      /\ id' \in [SysPath -> Nat] /\ opens' \in 0 .. MaxOpens
      /\ type'[sysStdin] = "fCons" /\ \A sp \in sysShared : type'[sp] = "fNIL"
      /\ type'[s] = t /\ linkcount'[s] = 1 /\ ~filled'[s] /\ s \notin Standard
      /\ \A sp \in SysPath \ {s} : /\ type'[sp] = type[sp] /\ linkcount'[sp] = linkcount[sp]
                                   /\ filled'[sp] = filled[sp]
  BY <1>1, <1>2, <1>3, SyspathNewTypes
<1>6. PathsTypeOK'
  BY <1>2, <1>3, <1>4, <1>5 DEF PathsTypeOK
<1>7. Names(s) = {} /\ s \notin sp_img
  BY <1>1, <1>3 DEF PathOK
<1>8. Cardinality(Names(s)') = 1
  BY <1>4, <1>7, FS_EmptySet
<1>9. Kept(s)' = 0
  BY <1>2, <1>5, <1>7 DEF Kept, Standard
<1>10. PathOK(s)'
  BY <1>2, <1>5, <1>7, <1>8, <1>9 DEF PathOK
<1> QED BY <1>1, <1>2, <1>4, <1>5, <1>6, <1>10, OthersKept DEF PathsInv

\* One more link and number for a path that is open.
LEMMA LinkedInv ==
  ASSUME PathsInv, NEW p \in alive, NEW k \in FreeNumbers(p), NEW s \in SysPath,
         type[s] # "fNone", s \notin sp_img, Link(s), SetNumber(p, k, s),
         UNCHANGED <<alive, type, filled, sp_img, id, opens>>
  PROVE  PathsInv'
<1>1. PathsTypeOK /\ PathOK(s)
  BY DEF PathsInv
<1>2. /\ usrpaths' \in [Proc -> [UsrPath -> 0 .. MAXSYSPATHS - 1]]
      /\ \A sp \in SysPath : sp # s => Names(sp)' = Names(sp)
      /\ Cardinality(Names(s)') = Cardinality(Names(s)) + 1
  BY <1>1, NumberSet
<1>3. /\ linkcount' \in [SysPath -> Nat] /\ linkcount'[s] = linkcount[s] + 1
      /\ \A sp \in SysPath \ {s} : linkcount'[sp] = linkcount[sp]
  BY <1>1 DEF Link, PathsTypeOK
<1>4. PathsTypeOK'
  BY <1>1, <1>2, <1>3 DEF PathsTypeOK
<1>5. Kept(s)' = Kept(s) /\ Kept(s) \in {0, 1}
  BY DEF Kept
<1>6. Cardinality(Names(s)) \in Nat /\ linkcount[s] \in Nat
  BY <1>1, NamesFinite DEF PathsTypeOK
<1>7. PathOK(s)'
  BY <1>1, <1>2, <1>3, <1>5, <1>6 DEF PathOK
<1> QED BY <1>2, <1>3, <1>4, <1>7, OthersKept

LEMMA OpenSharedInv ==
  ASSUME PathsInv, NEW p \in Proc, NEW sp \in SysPath, OpenShared(p, sp)
  PROVE  PathsInv'
<1>1. Lowest(FreeNumbers(p)) \in FreeNumbers(p) /\ p \in alive
  BY FreeNumberThere DEF OpenShared
<1>2. PathOK(sp) /\ PathsTypeOK
  BY DEF PathsInv
<1>3. type[sp] \in {"fNIL", "fPipe"}
  BY <1>2 DEF OpenShared, Pipes, PathsTypeOK
<1>4. sp \notin sp_img
  BY <1>2, <1>3 DEF PathOK
<1> QED BY <1>1, <1>3, <1>4, LinkedInv DEF OpenShared

\* I$Dup.
LEMMA DupInv ==
  ASSUME PathsInv, NEW p \in Proc, NEW k \in UsrPath, Dup(p, k)
  PROVE  PathsInv'
<1>1. Lowest(FreeNumbers(p)) \in FreeNumbers(p) /\ p \in alive
  BY FreeNumberThere DEF Dup
<1>a. usrpaths[p][k] \in SysPath /\ type[usrpaths[p][k]] # "fNone"
  BY <1>1, NamedOpen DEF Dup
<1>b. PICK s \in SysPath : s = usrpaths[p][k]
  BY <1>a
<1>2. s \in SysPath /\ type[s] # "fNone"
  BY <1>a, <1>b
<1>3. PathOK(s)
  BY <1>2 DEF PathsInv
<1>4. <<p, k>> \in Names(s)
  BY <1>1, <1>b DEF Names
<1>5. s \notin sp_img
  BY <1>3, <1>4 DEF PathOK
<1>6. Link(s) /\ SetNumber(p, Lowest(FreeNumbers(p)), s)
      /\ UNCHANGED <<alive, type, filled, sp_img, id, opens>>
  BY <1>2, <1>b DEF Dup
<1> QED BY <1>1, <1>2, <1>5, <1>6, LinkedInv

\* A path that was free is opened, under one number.
LEMMA OpenedOK ==
  ASSUME PathsInv, NEW s \in SysPath, type[s] = "fNone", sp_img' = sp_img,
         type'[s] \in {"fFile", "fPipe"}, linkcount'[s] = 1, ~filled'[s],
         NEW pk, Names(s)' = {pk}
  PROVE  PathOK(s)'
<1>1. Cardinality(Names(s)') = 1
  BY FS_Singleton
<1>2. PathOK(s) /\ s \notin Standard
  BY PathsAssumption DEF PathsInv, PathsTypeOK, Standard
<1>3. s \notin sp_img /\ Kept(s)' = 0
  BY <1>2 DEF PathOK, Kept, Standard
<1> QED BY <1>1, <1>3 DEF PathOK

\* Both ends of a pseudo terminal.
LEMMA LockInv ==
  ASSUME PathsInv, NEW p \in Proc, Lock(p)
  PROVE  PathsInv'
<1> DEFINE Both == FreePaths \ {Lowest(FreePaths)} # {}
                   /\ FreeNumbers(p) \ {Lowest(FreeNumbers(p))} # {}
<1>0. PathsTypeOK /\ p \in alive /\ alive' = alive /\ sp_img' = sp_img
  BY DEF Lock, PathsInv
<1>a. FreePaths \subseteq SysPath /\ FreePaths \subseteq Nat
  BY PathsAssumption DEF FreePaths, SysPath
<1>b. FreeNumbers(p) \subseteq UsrPath /\ FreeNumbers(p) \subseteq Nat
  BY PathsAssumption DEF FreeNumbers, UsrPath
<1>c. Lowest(FreePaths) \in FreePaths /\ Lowest(FreeNumbers(p)) \in FreeNumbers(p)
  BY <1>a, <1>b, LowestFits DEF Lock
<1>1. CASE Both
  <2> DEFINE A == FreePaths \ {Lowest(FreePaths)}
             B == FreeNumbers(p) \ {Lowest(FreeNumbers(p))}
  <2>a. Lowest(A) \in A /\ Lowest(B) \in B
    BY <1>1, <1>a, <1>b, LowestFits
  <2>b. PICK s1 \in SysPath, s2 \in SysPath :
            s1 = Lowest(FreePaths) /\ s2 = Lowest(A)
    BY <2>a, <1>a, <1>c
  <2>c. PICK k1 \in UsrPath, k2 \in UsrPath :
            k1 = Lowest(FreeNumbers(p)) /\ k2 = Lowest(B)
    BY <2>a, <1>b, <1>c
  <2>1. /\ s1 # s2 /\ type[s1] = "fNone" /\ type[s2] = "fNone"
        /\ k1 # k2 /\ usrpaths[p][k1] = 0 /\ usrpaths[p][k2] = 0
    BY <1>c, <2>a, <2>b, <2>c DEF FreePaths, FreeNumbers
  <2>2. /\ type' = [s \in SysPath |-> IF s \in {s1, s2} THEN "fFile" ELSE type[s]]
        /\ linkcount' = [s \in SysPath |-> IF s \in {s1, s2} THEN 1 ELSE linkcount[s]]
        /\ filled' = [s \in SysPath |-> s \notin {s1, s2} /\ filled[s]]
        /\ id' = [s \in SysPath |-> IF s = s1 THEN MAXSYSPATHS + opens
                                    ELSE IF s = s2 THEN MAXSYSPATHS + opens + 1 ELSE id[s]]
        /\ opens' = opens + 2 /\ opens + 1 < MaxOpens
        /\ usrpaths' = [usrpaths EXCEPT ![p] = [n \in UsrPath |->
                           IF n = k1 THEN s1 ELSE IF n = k2 THEN s2 ELSE usrpaths[p][n]]]
    BY <1>1, <2>b, <2>c DEF Lock
  <2> HIDE DEF A, B, Both
  <2>3. /\ s1 \in 0 .. MAXSYSPATHS - 1 /\ s2 \in 0 .. MAXSYSPATHS - 1 /\ p \in Proc
        /\ s1 # 0 /\ s2 # 0
        /\ usrpaths \in [Proc -> [UsrPath -> 0 .. MAXSYSPATHS - 1]]
    BY <1>0, PathsAssumption DEF SysPath, PathsTypeOK
  <2>4. usrpaths' \in [Proc -> [UsrPath -> 0 .. MAXSYSPATHS - 1]]
    BY <2>2, <2>3
  <2>5. \A q \in Proc, j \in UsrPath : usrpaths'[q][j] =
            IF q = p /\ j = k1 THEN s1 ELSE IF q = p /\ j = k2 THEN s2 ELSE usrpaths[q][j]
    BY <2>1, <2>2, <2>3
  <2>6. s1 \notin Standard /\ s2 \notin Standard
    BY <1>0, <2>1 DEF PathsTypeOK, Standard
  <2>7. PathsTypeOK'
    <3>1. /\ type' \in [SysPath -> Types] /\ linkcount' \in [SysPath -> Nat]
          /\ filled' \in [SysPath -> BOOLEAN]
      BY <1>0, <2>2 DEF PathsTypeOK, Types
    <3>2. id' \in [SysPath -> Nat] /\ opens' \in 0 .. MaxOpens
      BY <1>0, <2>2, PathsAssumption DEF PathsTypeOK
    <3>3. type'[sysStdin] = "fCons" /\ \A sp \in sysShared : type'[sp] = "fNIL"
      BY <1>0, <2>2, <2>6, PathsAssumption DEF PathsTypeOK, Standard
    <3> QED BY <1>0, <2>4, <3>1, <3>2, <3>3 DEF PathsTypeOK
  <2>8. \A pk \in alive \X UsrPath : pk = <<pk[1], pk[2]>> /\ pk[1] \in Proc /\ pk[2] \in UsrPath
    BY <1>0 DEF PathsTypeOK
  <2>9. /\ \A sp \in SysPath \ {s1, s2} : Names(sp)' = Names(sp)
        /\ Names(s1)' = Names(s1) \cup {<<p, k1>>} /\ Names(s2)' = Names(s2) \cup {<<p, k2>>}
    <3>1. \A sp \in SysPath : sp # 0
      BY DEF SysPath
    <3>2. ASSUME NEW sp \in SysPath \ {s1, s2} PROVE Names(sp)' = Names(sp)
      BY <1>0, <2>1, <2>5, <2>8, <3>1 DEF Names
    <3>3. Names(s1)' = Names(s1) \cup {<<p, k1>>}
      BY <1>0, <2>1, <2>3, <2>5, <2>8 DEF Names
    <3>4. Names(s2)' = Names(s2) \cup {<<p, k2>>}
      BY <1>0, <2>1, <2>3, <2>5, <2>8 DEF Names
    <3> QED BY <3>2, <3>3, <3>4
  <2>10. Names(s1) = {} /\ Names(s2) = {}
    BY <2>1 DEF PathsInv, PathOK
  <2>11. PathOK(s1)' /\ PathOK(s2)'
    <3>1. /\ Names(s1)' = {<<p, k1>>} /\ Names(s2)' = {<<p, k2>>}
      BY <2>9, <2>10
    <3>2. /\ type'[s1] = "fFile" /\ linkcount'[s1] = 1 /\ ~filled'[s1]
          /\ type'[s2] = "fFile" /\ linkcount'[s2] = 1 /\ ~filled'[s2]
      BY <2>2
    <3> QED BY <1>0, <2>1, <3>1, <3>2, OpenedOK
  <2>12. ASSUME NEW sp \in SysPath \ {s1, s2} PROVE PathOK(sp)'
    <3>1. /\ PathOK(sp) /\ Kept(sp)' = Kept(sp) /\ type'[sp] = type[sp]
          /\ linkcount'[sp] = linkcount[sp] /\ filled'[sp] = filled[sp]
      BY <1>0, <2>2 DEF PathsInv, Kept, PathsTypeOK
    <3>2. Names(sp)' = Names(sp) /\ Cardinality(Names(sp))' = Cardinality(Names(sp))
      BY <2>9
    <3> QED BY <1>0, <3>1, <3>2 DEF PathOK
  <2> QED BY <2>7, <2>11, <2>12 DEF PathsInv
<1>2. CASE ~Both
  <2>a. FreePaths # {} /\ FreeNumbers(p) # {} /\ opens + 1 < MaxOpens /\ opens \in Nat
    BY <1>0 DEF Lock, PathsTypeOK
  <2>1. Open(p, "fFile")
    <3>1. SyspathNew(Lowest(FreePaths), "fFile")
          /\ SetNumber(p, Lowest(FreeNumbers(p)), Lowest(FreePaths))
      BY <1>2 DEF Lock
    <3>2. opens < MaxOpens
      BY <2>a, PathsAssumption
    <3> QED BY <1>0, <2>a, <3>1, <3>2 DEF Open
  <2> QED BY <2>1, OpenInv
<1> QED BY <1>1, <1>2

-----------------------------------------------------------------------------
(* A child                                                                 *)

LEMMA ForkInv ==
  ASSUME PathsInv, NEW p \in Proc, NEW child \in Proc, NEW n \in 0 .. MAXUSRPATHS,
         Fork(p, child, n)
  PROVE  PathsInv'
<1> DEFINE S == 0 .. n - 1
<1>1. /\ p \in alive /\ child \notin alive /\ alive' = alive \cup {child}
      /\ type' = type /\ filled' = filled /\ sp_img' = sp_img /\ id' = id /\ opens' = opens
      /\ usrpaths' = [usrpaths EXCEPT ![child] = Inherited(p, n)]
      /\ linkcount' = [sp \in SysPath |-> IF type[sp] = "fNone" THEN linkcount[sp]
                                          ELSE linkcount[sp] + Count(p, S, sp)]
  BY DEF Fork
<1>2. PathsTypeOK /\ S \in SUBSET UsrPath
  BY PathsAssumption DEF PathsInv, UsrPath
<1> HIDE DEF S
<1>3. \A k \in UsrPath : k < n <=> k \in S
  BY PathsAssumption DEF UsrPath, S
<1>4. \A k \in UsrPath : usrpaths[p][k] # 0 => /\ usrpaths[p][k] \in SysPath
                                             /\ type[usrpaths[p][k]] # "fNone"
  BY <1>1, NamedOpen
<1>5. Inherited(p, n) = [k \in UsrPath |-> IF k \in S THEN usrpaths[p][k] ELSE 0]
  BY <1>3, <1>4 DEF Inherited
<1>6. usrpaths \in [Proc -> [UsrPath -> 0 .. MAXSYSPATHS - 1]] /\ 0 \in 0 .. MAXSYSPATHS - 1
  BY <1>2, PathsAssumption DEF PathsTypeOK, SysPath, Standard
<1>7. usrpaths' \in [Proc -> [UsrPath -> 0 .. MAXSYSPATHS - 1]]
  <2>1. [k \in UsrPath |-> IF k \in S THEN usrpaths[p][k] ELSE 0]
            \in [UsrPath -> 0 .. MAXSYSPATHS - 1]
    BY <1>2, <1>6
  <2> QED BY <1>1, <1>5, <1>6, <2>1
<1>8. \A q \in Proc, j \in UsrPath : usrpaths'[q][j] =
          IF q = child THEN (IF j \in S THEN usrpaths[p][j] ELSE 0) ELSE usrpaths[q][j]
  BY <1>1, <1>5, <1>6
<1>9. ASSUME NEW sp \in SysPath
      PROVE  /\ Names(sp)' = Names(sp) \cup ({child} \X Numbers(p, S, sp))
             /\ Names(sp) \cap ({child} \X Numbers(p, S, sp)) = {}
  <2>1. alive \subseteq Proc /\ sp # 0
    BY <1>2 DEF PathsTypeOK, SysPath
  <2>2. ASSUME NEW pk \in Names(sp)' PROVE pk \in Names(sp) \cup ({child} \X Numbers(p, S, sp))
    <3>1. /\ pk[1] \in Proc /\ pk[2] \in UsrPath /\ pk = <<pk[1], pk[2]>>
          /\ pk[1] \in alive \cup {child} /\ usrpaths'[pk[1]][pk[2]] = sp
      BY <1>1, <2>1 DEF Names
    <3>2. CASE pk[1] = child
      BY <1>8, <2>1, <3>1, <3>2 DEF Numbers
    <3>3. CASE pk[1] # child
      <4>1. usrpaths[pk[1]][pk[2]] = sp /\ pk[1] \in alive
        BY <1>8, <3>1, <3>3
      <4> QED BY <3>1, <4>1 DEF Names
    <3> QED BY <3>2, <3>3
  <2>3. ASSUME NEW pk \in Names(sp) PROVE pk \in Names(sp)' /\ pk \notin {child} \X Numbers(p, S, sp)
    <3>1. /\ pk[1] \in Proc /\ pk[2] \in UsrPath /\ pk = <<pk[1], pk[2]>>
          /\ pk[1] \in alive /\ usrpaths[pk[1]][pk[2]] = sp
      BY <2>1 DEF Names
    <3>2. pk[1] # child /\ usrpaths'[pk[1]][pk[2]] = sp
      BY <1>1, <1>8, <3>1
    <3> QED BY <1>1, <3>1, <3>2 DEF Names
  <2>4. ASSUME NEW j \in Numbers(p, S, sp) PROVE <<child, j>> \in Names(sp)'
    BY <1>1, <1>2, <1>8 DEF Numbers, Names
  <2> QED BY <2>2, <2>3, <2>4
<1>10. ASSUME NEW sp \in SysPath
       PROVE  /\ Cardinality(Names(sp)') = Cardinality(Names(sp)) + Count(p, S, sp)
              /\ Count(p, S, sp) \in Nat /\ (Names(sp) = {} => Count(p, S, sp) = 0)
  <2>1. /\ IsFiniteSet({child} \X Numbers(p, S, sp))
        /\ Cardinality({child} \X Numbers(p, S, sp)) = Count(p, S, sp)
        /\ Count(p, S, sp) = Cardinality(Numbers(p, S, sp)) /\ Count(p, S, sp) \in Nat
    BY <1>2, NumbersFinite
  <2>2. IsFiniteSet(Names(sp)) /\ Cardinality(Names(sp)) \in Nat
    BY <1>2, NamesFinite DEF PathsTypeOK
  <2>3. Cardinality(Names(sp)') = Cardinality(Names(sp)) + Count(p, S, sp)
                                  - Cardinality(Names(sp) \cap ({child} \X Numbers(p, S, sp)))
    BY <1>9, <2>1, <2>2, FS_Union
  <2>4. Cardinality({}) = 0
    BY FS_EmptySet
  <2>5. Names(sp) = {} => Numbers(p, S, sp) = {}
    BY <1>1, <1>2, NumbersNamed
  <2>6. Names(sp) \cap ({child} \X Numbers(p, S, sp)) = {}
    BY <1>9
  <2>7. Cardinality(Names(sp) \cap ({child} \X Numbers(p, S, sp))) = 0
    BY <2>4, <2>6
  <2>8. Names(sp) = {} => Count(p, S, sp) = 0
    BY <2>1, <2>4, <2>5
  <2> QED BY <2>1, <2>2, <2>3, <2>7, <2>8
<1>11. PathsTypeOK'
  <2>1. linkcount' \in [SysPath -> Nat]
    BY <1>1, <1>2, <1>10 DEF PathsTypeOK
  <2> QED BY <1>1, <1>2, <1>7, <2>1 DEF PathsTypeOK
<1>12. ASSUME NEW sp \in SysPath PROVE PathOK(sp)'
  <2>1. PathOK(sp) /\ Kept(sp)' = Kept(sp) /\ Kept(sp) \in {0, 1} /\ linkcount[sp] \in Nat
    BY <1>1, <1>2 DEF PathsInv, Kept, PathsTypeOK
  <2>2. Cardinality(Names(sp)) \in Nat
    BY <1>2, NamesFinite DEF PathsTypeOK
  <2>3. linkcount'[sp] = IF type[sp] = "fNone" THEN linkcount[sp]
                         ELSE linkcount[sp] + Count(p, S, sp)
    BY <1>1
  <2>4. Names(sp) = {} => Names(sp)' = {}
    <3>1. Names(sp) = {} => Numbers(p, S, sp) = {}
      BY <1>1, <1>2, NumbersNamed
    <3>2. {child} \X {} = {}
      OBVIOUS
    <3> QED BY <1>9, <3>1, <3>2
  <2> QED BY <1>1, <1>10, <2>1, <2>2, <2>3, <2>4 DEF PathOK
<1> QED BY <1>11, <1>12 DEF PathsInv

-----------------------------------------------------------------------------
(* Closing                                                                 *)

\* The numbers that syspath_close takes from a path are some of its names.
LEMMA CloseCounts ==
  ASSUME PathsInv, NEW p \in alive, NEW S \in SUBSET UsrPath, NEW sp \in SysPath
  PROVE  /\ Count(p, S, sp) \in Nat /\ Cardinality(Names(sp)) \in Nat
         /\ Count(p, S, sp) <= Cardinality(Names(sp))
         /\ Cardinality(Names(sp) \ ({p} \X Numbers(p, S, sp)))
               = Cardinality(Names(sp)) - Count(p, S, sp)
         /\ Count(p, S, sp) = Cardinality(Names(sp))
               => Names(sp) \ ({p} \X Numbers(p, S, sp)) = {}
<1>1. IsFiniteSet(Names(sp)) /\ Cardinality(Names(sp)) \in Nat
  BY NamesFinite DEF PathsInv, PathsTypeOK
<1>2. /\ IsFiniteSet({p} \X Numbers(p, S, sp)) /\ Count(p, S, sp) \in Nat
      /\ Cardinality({p} \X Numbers(p, S, sp)) = Count(p, S, sp)
  BY NumbersFinite
<1>3. ({p} \X Numbers(p, S, sp)) \subseteq Names(sp)
  BY NumbersNamed
<1>4. Count(p, S, sp) <= Cardinality(Names(sp))
  BY <1>1, <1>2, <1>3, FS_Subset
<1> DEFINE Named == {p} \X Numbers(p, S, sp)
<1>a. Cardinality(Named) = Count(p, S, sp)
  BY <1>2
<1> HIDE DEF Named
<1>5. Names(sp) \cap Named = Named
  BY <1>3 DEF Named
<1>6. /\ IsFiniteSet(Names(sp) \ Named)
      /\ Cardinality(Names(sp) \ Named) = Cardinality(Names(sp)) - Count(p, S, sp)
  <2>1. Cardinality(Names(sp) \ Named) = Cardinality(Names(sp)) - Cardinality(Names(sp) \cap Named)
        /\ IsFiniteSet(Names(sp) \ Named)
    BY <1>1, FS_Difference
  <2> QED BY <1>a, <1>5, <2>1
<1>7. Count(p, S, sp) = Cardinality(Names(sp)) => Names(sp) \ Named = {}
  BY <1>1, <1>2, <1>6, FS_EmptySet
<1> QED BY <1>1, <1>2, <1>4, <1>6, <1>7 DEF Named

\* syspath_close for the numbers S of a process, when no file fails to close: I$Close,
\* F$Chain, and the end of the process.
LEMMA CloseInv ==
  ASSUME PathsInv, NEW p \in alive, NEW S \in SUBSET UsrPath, Close(p, S, {}),
         alive' = alive \/ (alive' = alive \ {p} /\ S = UsrPath)
  PROVE  PathsInv'
<1> DEFINE left(sp) == linkcount[sp] - Count(p, S, sp)
           last(sp) == type[sp] # "fNone" /\ Count(p, S, sp) > 0 /\ left(sp) <= 0
           keeps(k) == /\ usrpaths[p][k] # 0
                       /\ \/ type[usrpaths[p][k]] = "fNone"
                          \/ /\ last(usrpaths[p][k])
                             /\ usrpaths[p][k] = sysStdin \/ usrpaths[p][k] \in {}
                             /\ Cardinality({j \in S : j > k /\ usrpaths[p][j] = usrpaths[p][k]})
                                   <= -left(usrpaths[p][k])
           Gone == {sp \in SysPath : last(sp) /\ ~Stays(sp)}
<1>1. /\ linkcount' = [sp \in SysPath |-> IF type[sp] = "fNone" THEN linkcount[sp]
                                          ELSE IF left(sp) < 0 THEN 0 ELSE left(sp)]
      /\ Free(Gone)
      /\ usrpaths' = [usrpaths EXCEPT ![p] =
              [k \in UsrPath |-> IF k \in S /\ ~keeps(k) THEN 0 ELSE usrpaths[p][k]]]
      /\ sp_img' = sp_img /\ opens' = opens
  BY DEF Close
<1>2. PathsTypeOK /\ p \in Proc /\ alive' \subseteq Proc
  BY DEF PathsInv, PathsTypeOK
<1>3. \A k \in S : usrpaths[p][k] # 0 => type[usrpaths[p][k]] # "fNone"
  BY NamedOpen
<1>4. \A k \in S : keeps(k) => usrpaths[p][k] = sysStdin
  BY <1>3
<1> HIDE DEF keeps
<1>5. usrpaths \in [Proc -> [UsrPath -> 0 .. MAXSYSPATHS - 1]] /\ 0 \in 0 .. MAXSYSPATHS - 1
  BY <1>2, PathsAssumption DEF PathsTypeOK, SysPath, Standard
<1>6. usrpaths' \in [Proc -> [UsrPath -> 0 .. MAXSYSPATHS - 1]]
  <2>1. [k \in UsrPath |-> IF k \in S /\ ~keeps(k) THEN 0 ELSE usrpaths[p][k]]
            \in [UsrPath -> 0 .. MAXSYSPATHS - 1]
    BY <1>2, <1>5
  <2> QED BY <1>1, <1>5, <2>1
<1>7. \A q \in Proc, j \in UsrPath : usrpaths'[q][j] =
          IF q = p /\ j \in S /\ ~keeps(j) THEN 0 ELSE usrpaths[q][j]
  BY <1>1, <1>2, <1>5
<1>8. ASSUME NEW sp \in SysPath, sp # sysStdin
      PROVE  Names(sp)' = Names(sp) \ ({p} \X Numbers(p, S, sp))
  <2>1. alive \subseteq Proc /\ sp # 0
    BY <1>2 DEF PathsTypeOK, SysPath
  <2>2. ASSUME NEW pk \in Names(sp)' PROVE pk \in Names(sp) \ ({p} \X Numbers(p, S, sp))
    <3>1. /\ pk[1] \in Proc /\ pk[2] \in UsrPath /\ pk = <<pk[1], pk[2]>>
          /\ pk[1] \in alive' /\ usrpaths'[pk[1]][pk[2]] = sp
      BY <1>2 DEF Names
    <3>2. usrpaths[pk[1]][pk[2]] = sp /\ pk[1] \in alive
      BY <1>7, <2>1, <3>1
    <3>3. ~(pk[1] = p /\ pk[2] \in S)
      BY <1>4, <1>7, <1>8, <2>1, <3>1, <3>2
    <3> QED BY <3>1, <3>2, <3>3 DEF Names, Numbers
  <2>3. ASSUME NEW pk \in Names(sp), pk \notin {p} \X Numbers(p, S, sp)
        PROVE  pk \in Names(sp)'
    <3>1. /\ pk[1] \in Proc /\ pk[2] \in UsrPath /\ pk = <<pk[1], pk[2]>>
          /\ pk[1] \in alive /\ usrpaths[pk[1]][pk[2]] = sp
      BY <2>1 DEF Names
    <3>2. ~(pk[1] = p /\ pk[2] \in S)
      BY <2>3, <3>1 DEF Numbers
    <3>3. usrpaths'[pk[1]][pk[2]] = sp /\ pk[1] \in alive'
      BY <1>7, <3>1, <3>2
    <3> QED BY <3>1, <3>3 DEF Names
  <2> QED BY <2>2, <2>3
<1>9. ASSUME NEW sp \in SysPath
      PROVE  /\ Count(p, S, sp) \in Nat /\ Cardinality(Names(sp)) \in Nat
             /\ Count(p, S, sp) <= Cardinality(Names(sp))
             /\ sp # sysStdin => Cardinality(Names(sp)') = Cardinality(Names(sp)) - Count(p, S, sp)
             /\ sp # sysStdin /\ Count(p, S, sp) = Cardinality(Names(sp)) => Names(sp)' = {}
  BY <1>8, CloseCounts
<1>10. \A sp \in SysPath : linkcount[sp] \in Nat
  BY <1>2 DEF PathsTypeOK
<1>11. ASSUME NEW sp \in SysPath
       PROVE  /\ linkcount'[sp] = IF type[sp] = "fNone" THEN linkcount[sp]
                                 ELSE IF linkcount[sp] < Count(p, S, sp) THEN 0
                                 ELSE linkcount[sp] - Count(p, S, sp)
              /\ linkcount'[sp] \in Nat
  BY <1>1, <1>9, <1>10
<1>12. ASSUME NEW sp \in SysPath
       PROVE  sp \in Gone <=> /\ type[sp] # "fNone" /\ Count(p, S, sp) > 0
                              /\ linkcount[sp] <= Count(p, S, sp)
                              /\ sp # sysStdin /\ ~filled[sp]
  BY <1>9, <1>10 DEF Stays
<1> HIDE DEF Gone
<1>13. /\ type' = [sp \in SysPath |-> IF sp \in Gone THEN "fNone" ELSE type[sp]]
       /\ filled' = [sp \in SysPath |-> sp \notin Gone /\ filled[sp]]
       /\ id' = [sp \in SysPath |-> IF sp \in Gone THEN 0 ELSE id[sp]]
  BY <1>1 DEF Free
<1>14. \A sp \in SysPath : PathOK(sp) /\ Kept(sp)' = Kept(sp) /\ Kept(sp) \in {0, 1}
                                     /\ (sp \in sysShared => Kept(sp) = 1)
  BY <1>1 DEF PathsInv, Kept
<1>15. \A sp \in sysShared : sp \notin Gone
  BY <1>2, <1>9, <1>10, <1>12, <1>14, PathsAssumption DEF PathOK, Standard
<1>16. PathsTypeOK'
  <2>1. /\ type' \in [SysPath -> Types] /\ linkcount' \in [SysPath -> Nat]
        /\ filled' \in [SysPath -> BOOLEAN] /\ id' \in [SysPath -> Nat]
    BY <1>1, <1>2, <1>11, <1>13 DEF PathsTypeOK, Types
  <2>2. type'[sysStdin] = "fCons" /\ \A sp \in sysShared : type'[sp] = "fNIL"
    BY <1>2, <1>12, <1>13, <1>15, PathsAssumption DEF PathsTypeOK, Standard
  <2> QED BY <1>1, <1>2, <1>6, <2>1, <2>2 DEF PathsTypeOK
<1>17. ASSUME NEW sp \in SysPath PROVE PathOK(sp)'
  <2>1. /\ type'[sp] = (IF sp \in Gone THEN "fNone" ELSE type[sp])
        /\ filled'[sp] = (sp \notin Gone /\ filled[sp])
    BY <1>13
  <2>2. CASE sp = sysStdin
    <3>1. type[sp] = "fCons" /\ type'[sp] = "fCons"
      BY <1>2, <1>16, <2>2 DEF PathsTypeOK
    <3> QED BY <1>1, <1>14, <2>1, <2>2, <3>1 DEF PathOK
  <2>3. CASE sp # sysStdin /\ sp \in Gone
    <3>1. /\ type[sp] # "fNone" /\ Count(p, S, sp) > 0 /\ linkcount[sp] <= Count(p, S, sp)
          /\ linkcount[sp] = Cardinality(Names(sp)) + Kept(sp)
      BY <1>12, <1>14, <2>3 DEF PathOK
    <3>2. Count(p, S, sp) = Cardinality(Names(sp))
      BY <1>9, <1>14, <3>1
    <3>3. Names(sp) # {}
      BY <1>9, <3>1, <3>2, FS_EmptySet
    <3>4. Names(sp)' = {} /\ sp \notin sp_img
      BY <1>9, <1>14, <2>3, <3>2, <3>3 DEF PathOK
    <3> QED BY <1>1, <2>1, <2>3, <3>4 DEF PathOK
  <2>4. CASE sp # sysStdin /\ sp \notin Gone /\ type[sp] = "fNone"
    <3>1. Names(sp)' = {}
      BY <1>8, <1>14, <2>4 DEF PathOK
    <3> QED BY <1>1, <1>14, <2>1, <2>4, <3>1 DEF PathOK
  <2>5. CASE sp # sysStdin /\ sp \notin Gone /\ type[sp] # "fNone"
    <3>1. linkcount[sp] = Cardinality(Names(sp)) + Kept(sp)
      BY <1>14, <2>5 DEF PathOK
    <3>2. linkcount'[sp] = Cardinality(Names(sp)') + Kept(sp)
      BY <1>9, <1>10, <1>11, <1>14, <2>5, <3>1
    <3>3. linkcount'[sp] = 0 => type[sp] = "fPipe"
      <4>1. CASE Count(p, S, sp) = 0
        BY <1>10, <1>11, <1>14, <2>5, <4>1 DEF PathOK
      <4>2. CASE Count(p, S, sp) > 0
        BY <1>9, <1>10, <1>11, <1>12, <1>14, <2>5, <4>2 DEF PathOK
      <4> QED BY <1>9, <4>1, <4>2
    <3>4. sp \in sp_img => Names(sp)' = {}
      BY <1>8, <1>14, <2>5 DEF PathOK
    <3>5. Kept(sp)' = Kept(sp) /\ type'[sp] = type[sp] /\ filled'[sp] = filled[sp]
      BY <1>14, <2>1, <2>5, <1>2 DEF PathsTypeOK
    <3> QED BY <1>1, <1>14, <2>5, <3>2, <3>3, <3>4, <3>5 DEF PathOK
  <2> QED BY <2>2, <2>3, <2>4, <2>5
<1> QED BY <1>16, <1>17 DEF PathsInv

-----------------------------------------------------------------------------
(* The other operations                                                    *)

\* Bytes are put into a pipe and taken from it.
LEMMA MoveInv ==
  ASSUME PathsInv, NEW p \in Proc, NEW k \in UsrPath, Move(p, k)
  PROVE  PathsInv'
<1>1. p \in alive /\ usrpaths[p][k] # 0 /\ type[usrpaths[p][k]] = "fPipe"
  BY DEF Move
<1>2. PICK s \in SysPath : s = usrpaths[p][k]
  BY <1>1, NamedOpen
<1>3. /\ filled' = [filled EXCEPT ![s] = ~filled[s]]
      /\ UNCHANGED <<alive, usrpaths, type, linkcount, sp_img, id, opens>>
  BY <1>2 DEF Move
<1>4. PathsTypeOK /\ \A sp \in SysPath : PathOK(sp)
  BY DEF PathsInv
<1>5. filled' \in [SysPath -> BOOLEAN] /\ \A sp \in SysPath \ {s} : filled'[sp] = filled[sp]
  BY <1>3, <1>4 DEF PathsTypeOK
<1>6. PathsTypeOK'
  BY <1>3, <1>4, <1>5 DEF PathsTypeOK
<1>7. ASSUME NEW sp \in SysPath PROVE PathOK(sp)'
  <2>1. filled'[sp] => type[sp] = "fPipe"
    BY <1>1, <1>2, <1>4, <1>5 DEF PathOK
  <2>2. PathOK(sp) /\ Kept(sp)' = Kept(sp) /\ Names(sp)' = Names(sp)
    BY <1>3, <1>4 DEF Kept, Names
  <2>3. Cardinality(Names(sp))' = Cardinality(Names(sp))
    BY <2>2
  <2> QED BY <1>3, <2>1, <2>2, <2>3 DEF PathOK
<1> QED BY <1>6, <1>7 DEF PathsInv

\* A path without names becomes free: a pipe that is deleted, the image of a disk.
LEMMA FreedInv ==
  ASSUME PathsInv, NEW s \in SysPath, s \notin Standard, Names(s) = {}, Free({s}),
         UNCHANGED <<alive, usrpaths, opens>>, sp_img' = sp_img \ {s},
         linkcount' \in [SysPath -> Nat],
         \A sp \in SysPath \ {s} : linkcount'[sp] = linkcount[sp]
  PROVE  PathsInv'
<1>1. PathsTypeOK /\ \A sp \in SysPath : PathOK(sp)
  BY DEF PathsInv
<1>2. /\ type' \in [SysPath -> Types] /\ filled' \in [SysPath -> BOOLEAN]
      /\ id' \in [SysPath -> Nat] /\ type'[s] = "fNone" /\ ~filled'[s]
      /\ \A sp \in SysPath \ {s} : type'[sp] = type[sp] /\ filled'[sp] = filled[sp]
  BY <1>1 DEF Free, PathsTypeOK, Types
<1>3. \A sp \in SysPath : Names(sp)' = Names(sp)
  BY DEF Names
<1>4. PathsTypeOK'
  BY <1>1, <1>2, PathsAssumption DEF PathsTypeOK, Standard
<1>5. PathOK(s)'
  BY <1>2, <1>3 DEF PathOK
<1> QED BY <1>2, <1>3, <1>4, <1>5, OthersKept

LEMMA DeleteInv ==
  ASSUME PathsInv, NEW sp \in SysPath, Delete(sp)
  PROVE  PathsInv'
<1>1. PathsTypeOK /\ PathOK(sp)
  BY DEF PathsInv
<1>2. type[sp] = "fPipe" /\ linkcount[sp] = 0
  BY DEF Delete, Pipes
<1>3. sp \notin Standard /\ sp \notin sp_img
  BY <1>1, <1>2 DEF PathsTypeOK, PathOK, Standard
<1>4. IsFiniteSet(Names(sp)) /\ Cardinality(Names(sp)) \in Nat
  BY <1>1, NamesFinite DEF PathsTypeOK
<1>5. Cardinality(Names(sp)) = 0
  BY <1>1, <1>2, <1>3, <1>4 DEF PathOK, Kept, Standard
<1>6. Names(sp) = {}
  BY <1>4, <1>5, FS_EmptySet
<1>7. sp_img' = sp_img \ {sp} /\ linkcount' \in [SysPath -> Nat]
      /\ \A s \in SysPath \ {sp} : linkcount'[s] = linkcount[s]
  BY <1>1, <1>3 DEF Delete, PathsTypeOK
<1> QED BY <1>3, <1>6, <1>7, FreedInv DEF Delete

LEMMA CloseImageInv ==
  ASSUME PathsInv, NEW sp \in SysPath, CloseImage(sp)
  PROVE  PathsInv'
<1>1. PathsTypeOK /\ PathOK(sp) /\ sp \in sp_img
  BY DEF PathsInv, CloseImage
<1>2. sp \notin Standard /\ Names(sp) = {}
  BY <1>1 DEF PathOK
<1>3. linkcount' \in [SysPath -> Nat] /\ \A s \in SysPath \ {sp} : linkcount'[s] = linkcount[s]
  BY <1>1 DEF CloseImage, PathsTypeOK
<1> QED BY <1>2, <1>3, FreedInv DEF CloseImage

LEMMA OpenImageInv ==
  ASSUME PathsInv, OpenImage
  PROVE  PathsInv'
<1>a. Lowest(FreePaths) \in SysPath /\ type[Lowest(FreePaths)] = "fNone"
  BY FreePathThere DEF OpenImage
<1>b. PICK s \in SysPath : s = Lowest(FreePaths)
  BY <1>a
<1>1. /\ type[s] = "fNone" /\ SyspathNew(s, "fFile") /\ opens < MaxOpens
      /\ sp_img' = sp_img \cup {s} /\ UNCHANGED <<alive, usrpaths>>
  BY <1>a, <1>b DEF OpenImage
<1>2. PathsTypeOK /\ PathOK(s)
  BY DEF PathsInv
<1>3. /\ type' \in [SysPath -> Types] /\ linkcount' \in [SysPath -> Nat]
      /\ filled' \in [SysPath -> BOOLEAN]
      /\ id' \in [SysPath -> Nat] /\ opens' \in 0 .. MaxOpens
      /\ type'[sysStdin] = "fCons" /\ \A sp \in sysShared : type'[sp] = "fNIL"
      /\ type'[s] = "fFile" /\ linkcount'[s] = 1 /\ ~filled'[s] /\ s \notin Standard
      /\ \A sp \in SysPath \ {s} : /\ type'[sp] = type[sp] /\ linkcount'[sp] = linkcount[sp]
                                   /\ filled'[sp] = filled[sp]
  BY <1>1, <1>2, SyspathNewTypes
<1>4. \A sp \in SysPath : Names(sp)' = Names(sp)
  BY <1>1 DEF Names
<1>5. PathsTypeOK'
  BY <1>1, <1>2, <1>3 DEF PathsTypeOK
<1>6. Names(s)' = {} /\ Cardinality(Names(s)') = 0
  BY <1>1, <1>2, <1>4, FS_EmptySet DEF PathOK
<1>7. Kept(s)' = 1
  BY <1>1 DEF Kept
<1>8. PathOK(s)'
  BY <1>1, <1>3, <1>6, <1>7 DEF PathOK
<1> QED BY <1>1, <1>3, <1>4, <1>5, <1>8, OthersKept

-----------------------------------------------------------------------------
(* The theorems                                                            *)

LEMMA StepInv ==
  ASSUME ~CloseErrors, PathsInv, [Next]_vars
  PROVE  PathsInv'
<1>1. ASSUME UNCHANGED vars PROVE PathsInv'
  <2>1. \A sp : Names(sp)' = Names(sp) /\ Kept(sp)' = Kept(sp)
    BY <1>1 DEF vars, table, Names, Kept
  <2>2. \A sp \in SysPath : PathOK(sp)'
    BY <1>1, <2>1 DEF PathsInv, PathOK, vars, table
  <2>3. PathsTypeOK'
    BY <1>1 DEF PathsInv, PathsTypeOK, vars, table
  <2> QED BY <2>2, <2>3 DEF PathsInv
<1>2. ASSUME NEW p \in Proc, NEW t \in {"fFile", "fPipe"}, Open(p, t) PROVE PathsInv'
  BY <1>2, OpenInv
<1>3. ASSUME NEW p \in Proc, NEW sp \in SysPath, OpenShared(p, sp) PROVE PathsInv'
  BY <1>3, OpenSharedInv
<1>4. ASSUME NEW p \in Proc, Lock(p) PROVE PathsInv'
  BY <1>4, LockInv
<1>5. ASSUME NEW p \in Proc, NEW k \in UsrPath, Dup(p, k) \/ Move(p, k) PROVE PathsInv'
  BY <1>5, DupInv, MoveInv
<1>6. ASSUME NEW p \in Proc, NEW child \in Proc, NEW n \in 0 .. MAXUSRPATHS, Fork(p, child, n)
      PROVE  PathsInv'
  BY <1>6, ForkInv
<1>7. ASSUME NEW p \in Proc, NEW bad \in Errors, NEW k \in UsrPath, CloseNumber(p, k, bad)
      PROVE  PathsInv'
  <2>1. bad = {} /\ {k} \in SUBSET UsrPath
    BY DEF Errors
  <2> QED BY <1>7, <2>1, CloseInv DEF CloseNumber
<1>8. ASSUME NEW p \in Proc, NEW bad \in Errors, NEW n \in UsrPath, Chain(p, n, bad)
      PROVE  PathsInv'
  <2>1. bad = {} /\ n .. MAXUSRPATHS - 1 \in SUBSET UsrPath
    BY PathsAssumption DEF Errors, UsrPath
  <2> QED BY <1>8, <2>1, CloseInv DEF Chain
<1>9. ASSUME NEW p \in Proc, NEW bad \in Errors, Exit(p, bad) PROVE PathsInv'
  <2>1. bad = {}
    BY DEF Errors
  <2> QED BY <1>9, <2>1, CloseInv DEF Exit
<1>10. ASSUME NEW sp \in SysPath, Delete(sp) \/ CloseImage(sp) PROVE PathsInv'
  BY <1>10, DeleteInv, CloseImageInv
<1>11. ASSUME OpenImage PROVE PathsInv'
  BY <1>11, OpenImageInv
<1> QED BY <1>1, <1>2, <1>3, <1>4, <1>5, <1>6, <1>7, <1>8, <1>9, <1>10, <1>11 DEF Next

\* What is always so of the paths, as long as files can be closed without an error.
THEOREM PathsInvariant == ASSUME ~CloseErrors PROVE Spec => []PathsInv
<1>1. Init => PathsInv
  BY InitInv
<1>2. PathsInv /\ [Next]_vars => PathsInv'
  BY StepInv
<1> QED BY <1>1, <1>2, PTL DEF Spec

\* The variables keep their types, and the console, NIL and VMod are never closed, however
\* often their numbers are (syspath_close).
THEOREM PathsTypeCorrect == ASSUME ~CloseErrors PROVE Spec => []PathsTypeOK
<1>1. PathsInv => PathsTypeOK
  BY DEF PathsInv
<1> QED BY <1>1, PathsInvariant, PTL

\* The link count of an open path is the number of path numbers of all processes that name
\* it and the RBF driver's hold: what syspath_close takes off is what usrpath_open,
\* usrpath_link and new_process have put on, however processes inherit, duplicate, close
\* and end.
THEOREM LinksCounted == ASSUME ~CloseErrors PROVE Spec => []LinkCounts
<1>1. PathsInv => LinkCounts
  <2> SUFFICES ASSUME PathsInv PROVE LinkCounts
    OBVIOUS
  <2>1. PathsTypeOK /\ \A sp \in SysPath : PathOK(sp)
    BY DEF PathsInv
  <2>2. ASSUME NEW sp \in SysPath \ Standard, type[sp] # "fNone"
        PROVE  /\ linkcount[sp] = Cardinality(Names(sp)) + Held(sp)
               /\ linkcount[sp] = 0 => sp \in Pipes
    <3>1. Kept(sp) = Held(sp) /\ sp # sysStdin
      BY DEF Kept, Held, Standard
    <3> QED BY <2>1, <2>2, <3>1 DEF PathOK, Pipes
  <2>3. ASSUME NEW sp \in sysShared PROVE linkcount[sp] = Cardinality(Names(sp)) + 1
    <3>1. sp \in SysPath /\ sp # sysStdin /\ Kept(sp) = 1
      BY PathsAssumption DEF Kept, Standard
    <3>2. type[sp] = "fNIL"
      BY <2>1 DEF PathsTypeOK
    <3> QED BY <2>1, <3>1, <3>2 DEF PathOK
  <2> QED BY <2>2, <2>3 DEF LinkCounts
<1> QED BY <1>1, PathsInvariant, PTL

-----------------------------------------------------------------------------
(* What was opened                                                         *)

\* What the numbers name is open.
AllNamed == \A p \in alive, k \in UsrPath : usrpaths[p][k] # 0 =>
                usrpaths[p][k] \in SysPath /\ type[usrpaths[p][k]] # "fNone"

LEMMA NamedAll == PathsInv => AllNamed
BY NamedOpen DEF AllNamed

\* No two open paths are of one opening.
IdsOK == \A s \in SysPath : type[s] # "fNone" =>
             /\ id[s] \in Used
             /\ \A t \in SysPath : type[t] # "fNone" /\ t # s => id[t] # id[s]

LEMMA InitIds == Init => IdsOK
<1> SUFFICES ASSUME Init PROVE IdsOK
  OBVIOUS
<1>1. \A sp \in SysPath : type[sp] # "fNone" => sp \in Standard /\ id[sp] = sp
  BY DEF Init, Standard
<1> QED BY <1>1 DEF IdsOK, Used

\* What is opened next has not been there.
LEMMA NextId ==
  ASSUME PathsTypeOK
  PROVE  /\ MAXSYSPATHS + opens \notin Used /\ MAXSYSPATHS + opens + 1 \notin Used
         /\ MAXSYSPATHS + opens # 0 /\ MAXSYSPATHS + opens + 1 # 0 /\ 0 \notin Used
         /\ opens' = opens + 1 => Used' = Used \cup {MAXSYSPATHS + opens}
         /\ opens' = opens + 2 => Used' = Used \cup {MAXSYSPATHS + opens, MAXSYSPATHS + opens + 1}
         /\ opens < MaxOpens => MAXSYSPATHS + opens \in Object
         /\ opens + 1 < MaxOpens => MAXSYSPATHS + opens + 1 \in Object
<1>1. opens \in Nat /\ MAXSYSPATHS \in Nat /\ MaxOpens \in Nat /\ MAXSYSPATHS > 1
  BY PathsAssumption DEF PathsTypeOK, Standard, SysPath
<1>2. \A s \in Standard : s \in Nat /\ s # 0 /\ s < MAXSYSPATHS
  BY PathsAssumption, <1>1 DEF SysPath
<1>3. opens' = opens + 1 => MAXSYSPATHS .. MAXSYSPATHS + opens' - 1
                              = (MAXSYSPATHS .. MAXSYSPATHS + opens - 1) \cup {MAXSYSPATHS + opens}
  BY <1>1
<1>4. opens' = opens + 2 => MAXSYSPATHS .. MAXSYSPATHS + opens' - 1
                              = (MAXSYSPATHS .. MAXSYSPATHS + opens - 1)
                                \cup {MAXSYSPATHS + opens, MAXSYSPATHS + opens + 1}
  BY <1>1
<1>5. /\ MAXSYSPATHS + opens \notin Used /\ MAXSYSPATHS + opens + 1 \notin Used
      /\ MAXSYSPATHS + opens # 0 /\ MAXSYSPATHS + opens + 1 # 0 /\ 0 \notin Used
  BY <1>1, <1>2 DEF Used
<1>6. /\ opens < MaxOpens => MAXSYSPATHS + opens \in Object
      /\ opens + 1 < MaxOpens => MAXSYSPATHS + opens + 1 \in Object
  BY <1>1 DEF Object
<1>7. opens' = opens + 1 => Used' = Used \cup {MAXSYSPATHS + opens}
  BY <1>3 DEF Used
<1>8. opens' = opens + 2 => Used' = Used \cup {MAXSYSPATHS + opens, MAXSYSPATHS + opens + 1}
  BY <1>4 DEF Used
<1> QED BY <1>5, <1>6, <1>7, <1>8

LEMMA IdsSame ==
  ASSUME IdsOK, type' = type, id' = id, opens' = opens
  PROVE  IdsOK' /\ Live' = Live /\ Used' = Used
BY DEF IdsOK, Live, Used

\* One path is opened.
LEMMA IdsNew ==
  ASSUME PathsTypeOK, IdsOK, NEW s \in SysPath, type[s] = "fNone", NEW t \in {"fFile", "fPipe"},
         SyspathNew(s, t)
  PROVE  /\ IdsOK' /\ id'[s] = MAXSYSPATHS + opens
         /\ \A u \in SysPath \ {s} : id'[u] = id[u] /\ type'[u] = type[u]
         /\ Live' = Live \cup {MAXSYSPATHS + opens} /\ Used' = Used \cup {MAXSYSPATHS + opens}
<1>1. /\ id'[s] = MAXSYSPATHS + opens /\ type'[s] # "fNone" /\ opens' = opens + 1
      /\ \A u \in SysPath \ {s} : id'[u] = id[u] /\ type'[u] = type[u]
  BY DEF SyspathNew, PathsTypeOK
<1>2. Used' = Used \cup {MAXSYSPATHS + opens} /\ MAXSYSPATHS + opens \notin Used
  BY <1>1, NextId
<1>3. Live' = Live \cup {MAXSYSPATHS + opens}
  BY <1>1 DEF Live
<1>4. IdsOK'
  BY <1>1, <1>2 DEF IdsOK
<1> QED BY <1>1, <1>2, <1>3, <1>4

\* Paths become free.
LEMMA IdsFree ==
  ASSUME IdsOK, NEW S, Free(S), opens' = opens
  PROVE  /\ IdsOK' /\ Live' \subseteq Live /\ Used' = Used
         /\ \A u \in SysPath : type'[u] # "fNone" =>
                /\ type[u] # "fNone" /\ id'[u] = id[u] /\ id[u] \in Live'
<1>1. \A u \in SysPath : type'[u] # "fNone" => type[u] # "fNone" /\ id'[u] = id[u]
  BY DEF Free
<1>2. Used' = Used
  BY DEF Used
<1>3. Live' \subseteq Live /\ \A u \in SysPath : type'[u] # "fNone" => id[u] \in Live'
  BY <1>1 DEF Live
<1>4. IdsOK'
  BY <1>1, <1>2 DEF IdsOK
<1> QED BY <1>1, <1>2, <1>3, <1>4

\* Both ends of a pseudo terminal are opened, or one.
LEMMA IdsLock ==
  ASSUME PathsTypeOK, IdsOK, NEW s1 \in SysPath, NEW s2 \in SysPath, s1 # s2,
         type[s1] = "fNone", type[s2] = "fNone",
         type' = [s \in SysPath |-> IF s \in {s1, s2} THEN "fFile" ELSE type[s]],
         id' = [s \in SysPath |-> IF s = s1 THEN MAXSYSPATHS + opens
                                 ELSE IF s = s2 THEN MAXSYSPATHS + opens + 1 ELSE id[s]],
         opens' = opens + 2
  PROVE  /\ IdsOK'
         /\ Live' = Live \cup {MAXSYSPATHS + opens, MAXSYSPATHS + opens + 1}
         /\ Used' = Used \cup {MAXSYSPATHS + opens, MAXSYSPATHS + opens + 1}
<1>1. /\ id'[s1] = MAXSYSPATHS + opens /\ type'[s1] # "fNone"
      /\ id'[s2] = MAXSYSPATHS + opens + 1 /\ type'[s2] # "fNone"
      /\ \A u \in SysPath \ {s1, s2} : id'[u] = id[u] /\ type'[u] = type[u]
  OBVIOUS
<1>2. /\ Used' = Used \cup {MAXSYSPATHS + opens, MAXSYSPATHS + opens + 1}
      /\ MAXSYSPATHS + opens \notin Used /\ MAXSYSPATHS + opens + 1 \notin Used
  BY NextId
<1>3. Live' = Live \cup {MAXSYSPATHS + opens, MAXSYSPATHS + opens + 1}
  BY <1>1 DEF Live
<1>4. MAXSYSPATHS + opens # MAXSYSPATHS + opens + 1
  BY PathsAssumption DEF PathsTypeOK
<1>5. IdsOK'
  BY <1>1, <1>2, <1>4 DEF IdsOK
<1> QED BY <1>2, <1>3, <1>5

-----------------------------------------------------------------------------
(* The numbers are those of module Files                                   *)

\* The numbers of a process name what they have named.
LEMMA FdSame ==
  ASSUME AllNamed, AllNamed', NEW q \in Proc, q \in alive' <=> q \in alive,
         usrpaths'[q] = usrpaths[q],
         \A s \in SysPath : type[s] # "fNone" /\ type'[s] # "fNone" => id'[s] = id[s]
  PROVE  Fd'[q] = Fd[q]
<1>1. ASSUME NEW k \in UsrPath, q \in alive, usrpaths[q][k] # 0
      PROVE  id'[usrpaths'[q][k]] = id[usrpaths[q][k]]
  <2>1. usrpaths[q][k] \in SysPath /\ type[usrpaths[q][k]] # "fNone"
    BY <1>1 DEF AllNamed
  <2>2. type'[usrpaths'[q][k]] # "fNone"
    BY <1>1 DEF AllNamed
  <2> QED BY <2>1, <2>2
<1> QED BY <1>1 DEF Fd

LEMMA FdOne ==
  ASSUME NEW p \in Proc, \A q \in Proc \ {p} : Fd'[q] = Fd[q]
  PROVE  Fd' = [Fd EXCEPT ![p] = Fd'[p]]
<1>1. Fd = [q \in Proc |-> Fd[q]] /\ Fd' = [q \in Proc |-> Fd'[q]]
  BY DEF Fd
<1> QED BY <1>1

\* A process has a new number for a path.
LEMMA NumberFd ==
  ASSUME PathsTypeOK, AllNamed, AllNamed', NEW p \in alive, NEW k \in FreeNumbers(p),
         NEW s \in SysPath, SetNumber(p, k, s), alive' = alive,
         \A u \in SysPath : type[u] # "fNone" /\ type'[u] # "fNone" => id'[u] = id[u]
  PROVE  /\ p \in Proc /\ k \in UsrPath /\ Fd[p][k] = 0
         /\ \A q \in Proc \ {p} : Fd'[q] = Fd[q]
         /\ \A j \in UsrPath : Fd'[p][j] = IF j = k THEN id'[s] ELSE Fd[p][j]
         /\ Fd' = [Fd EXCEPT ![p] = [@ EXCEPT ![k] = id'[s]]]
<1>1. p \in Proc /\ k \in UsrPath /\ usrpaths[p][k] = 0 /\ s # 0
  BY DEF PathsTypeOK, FreeNumbers, SysPath
<1>2. /\ \A q \in Proc \ {p} : usrpaths'[q] = usrpaths[q]
      /\ \A j \in UsrPath : usrpaths'[p][j] = IF j = k THEN s ELSE usrpaths[p][j]
  BY <1>1 DEF SetNumber, PathsTypeOK
<1>3. \A q \in Proc \ {p} : Fd'[q] = Fd[q]
  BY <1>2, FdSame
<1>4. Fd[p][k] = 0
  BY <1>1 DEF Fd
<1>5. ASSUME NEW j \in UsrPath PROVE Fd'[p][j] = IF j = k THEN id'[s] ELSE Fd[p][j]
  <2>1. /\ Fd[p][j] = IF usrpaths[p][j] # 0 THEN id[usrpaths[p][j]] ELSE 0
        /\ Fd'[p][j] = IF usrpaths'[p][j] # 0 THEN id'[usrpaths'[p][j]] ELSE 0
    BY <1>1 DEF Fd
  <2>2. usrpaths[p][j] # 0 => /\ usrpaths[p][j] \in SysPath
                             /\ type[usrpaths[p][j]] # "fNone"
    BY DEF AllNamed
  <2>3. usrpaths'[p][j] # 0 => type'[usrpaths'[p][j]] # "fNone"
    BY DEF AllNamed
  <2> QED BY <1>1, <1>2, <2>1, <2>2, <2>3
<1>6. /\ Fd = [q \in Proc |-> Fd[q]] /\ Fd[p] = [j \in UsrPath |-> Fd[p][j]]
      /\ Fd' = [q \in Proc |-> Fd'[q]] /\ Fd'[p] = [j \in UsrPath |-> Fd'[p][j]]
  BY <1>1 DEF Fd
<1>7. Fd'[p] = [Fd[p] EXCEPT ![k] = id'[s]]
  BY <1>5, <1>6
<1>8. Fd' = [Fd EXCEPT ![p] = [Fd[p] EXCEPT ![k] = id'[s]]]
  BY <1>3, <1>6, <1>7
<1> QED BY <1>1, <1>3, <1>4, <1>5, <1>8

\* A path is opened under a new number.
LEMMA OpenRefines ==
  ASSUME PathsTypeOK, IdsOK, AllNamed, AllNamed', NEW p \in Proc, NEW t \in {"fFile", "fPipe"},
         Open(p, t)
  PROVE  IdsOK' /\ Abstract!Next
<1>a. Lowest(FreePaths) \in SysPath /\ type[Lowest(FreePaths)] = "fNone"
  BY FreePathThere DEF Open
<1>b. Lowest(FreeNumbers(p)) \in FreeNumbers(p)
  BY FreeNumberThere DEF Open
<1>c. PICK s \in SysPath : s = Lowest(FreePaths)
  BY <1>a
<1>d. PICK k \in FreeNumbers(p) : k = Lowest(FreeNumbers(p))
  BY <1>b
<1>1. /\ p \in alive /\ type[s] = "fNone" /\ SyspathNew(s, t) /\ SetNumber(p, k, s)
      /\ alive' = alive /\ opens < MaxOpens
  BY <1>a, <1>c, <1>d DEF Open
<1>e. PICK o \in Object : o = MAXSYSPATHS + opens
  BY <1>1, NextId
<1>2. /\ IdsOK' /\ id'[s] = o /\ Live' = Live \cup {o} /\ Used' = Used \cup {o}
      /\ \A u \in SysPath \ {s} : id'[u] = id[u] /\ type'[u] = type[u]
  BY <1>1, <1>e, IdsNew
<1>3. o \notin Used /\ o # 0
  BY <1>e, NextId
<1>4. /\ k \in UsrPath /\ Fd[p][k] = 0 /\ \A q \in Proc \ {p} : Fd'[q] = Fd[q]
      /\ \A j \in UsrPath : Fd'[p][j] = IF j = k THEN o ELSE Fd[p][j]
  BY <1>1, <1>2, NumberFd
<1>5. {j \in UsrPath : Fd'[p][j] # Fd[p][j]} = {k}
  BY <1>3, <1>4
<1>6. Fd' = [Fd EXCEPT ![p] = Fd'[p]]
  BY <1>4, FdOne
<1>7. {Fd'[p][j] : j \in {k}} = {o}
  BY <1>4
<1>8. Abstract!Open(p)
  BY <1>2, <1>3, <1>4, <1>5, <1>6, <1>7 DEF Abstract!Open
<1>9. Used' = Used \cup Live'
  BY <1>2 DEF IdsOK, Live
<1> QED BY <1>2, <1>8, <1>9 DEF Abstract!Next

\* What is there is given one more number.
LEMMA ShareRefines ==
  ASSUME PathsTypeOK, IdsOK, AllNamed, AllNamed', NEW p \in alive, NEW k \in FreeNumbers(p),
         NEW s \in SysPath, type[s] # "fNone", SetNumber(p, k, s),
         UNCHANGED <<alive, type, id, opens>>
  PROVE  IdsOK' /\ Abstract!Next
<1>1. /\ p \in Proc /\ k \in UsrPath /\ Fd[p][k] = 0
      /\ Fd' = [Fd EXCEPT ![p] = [@ EXCEPT ![k] = id[s]]]
  BY NumberFd
<1>2. IdsOK' /\ Live' = Live /\ Used' = Used
  BY IdsSame
<1>3. id[s] \in Live
  BY DEF Live
<1>4. Abstract!Share(p)
  BY <1>1, <1>2, <1>3 DEF Abstract!Share
<1>5. Used' = Used \cup Live'
  BY <1>2 DEF IdsOK, Live
<1> QED BY <1>1, <1>2, <1>4, <1>5 DEF Abstract!Next

\* Both ends of a pseudo terminal are two new objects, or one when there is no room.
LEMMA LockRefines ==
  ASSUME PathsTypeOK, IdsOK, AllNamed, AllNamed', NEW p \in Proc, Lock(p)
  PROVE  IdsOK' /\ Abstract!Next
<1> DEFINE Both == FreePaths \ {Lowest(FreePaths)} # {}
                   /\ FreeNumbers(p) \ {Lowest(FreeNumbers(p))} # {}
<1>0. p \in alive /\ alive' = alive /\ sp_img' = sp_img
  BY DEF Lock
<1>a. FreePaths \subseteq SysPath /\ FreePaths \subseteq Nat
  BY PathsAssumption DEF FreePaths, SysPath
<1>b. FreeNumbers(p) \subseteq UsrPath /\ FreeNumbers(p) \subseteq Nat
  BY PathsAssumption DEF FreeNumbers, UsrPath
<1>c. Lowest(FreePaths) \in FreePaths /\ Lowest(FreeNumbers(p)) \in FreeNumbers(p)
  BY <1>a, <1>b, LowestFits DEF Lock
<1>1. CASE Both
  <2> DEFINE A == FreePaths \ {Lowest(FreePaths)}
             B == FreeNumbers(p) \ {Lowest(FreeNumbers(p))}
  <2>a. Lowest(A) \in A /\ Lowest(B) \in B
    BY <1>1, <1>a, <1>b, LowestFits
  <2>b. PICK s1 \in SysPath, s2 \in SysPath :
            s1 = Lowest(FreePaths) /\ s2 = Lowest(A)
    BY <2>a, <1>a, <1>c
  <2>c. PICK k1 \in UsrPath, k2 \in UsrPath :
            k1 = Lowest(FreeNumbers(p)) /\ k2 = Lowest(B)
    BY <2>a, <1>b, <1>c
  <2>1. /\ s1 # s2 /\ type[s1] = "fNone" /\ type[s2] = "fNone"
        /\ k1 # k2 /\ usrpaths[p][k1] = 0 /\ usrpaths[p][k2] = 0
    BY <1>c, <2>a, <2>b, <2>c DEF FreePaths, FreeNumbers
  <2>2. /\ type' = [s \in SysPath |-> IF s \in {s1, s2} THEN "fFile" ELSE type[s]]
        /\ id' = [s \in SysPath |-> IF s = s1 THEN MAXSYSPATHS + opens
                                    ELSE IF s = s2 THEN MAXSYSPATHS + opens + 1 ELSE id[s]]
        /\ opens' = opens + 2 /\ opens + 1 < MaxOpens
        /\ usrpaths' = [usrpaths EXCEPT ![p] = [n \in UsrPath |->
                           IF n = k1 THEN s1 ELSE IF n = k2 THEN s2 ELSE usrpaths[p][n]]]
    BY <1>1, <2>b, <2>c DEF Lock
  <2> HIDE DEF A, B, Both
  <2>d. opens < MaxOpens /\ MAXSYSPATHS + opens # MAXSYSPATHS + opens + 1
    BY <2>2, PathsAssumption DEF PathsTypeOK
  <2>e. PICK o1 \in Object, o2 \in Object : o1 = MAXSYSPATHS + opens /\ o2 = MAXSYSPATHS + opens + 1
    BY <2>2, <2>d, NextId
  <2>3. IdsOK' /\ Live' = Live \cup {o1, o2} /\ Used' = Used \cup {o1, o2}
    BY <2>1, <2>2, <2>e, IdsLock
  <2>4. o1 \notin Used /\ o2 \notin Used /\ o1 # 0 /\ o2 # 0 /\ o1 # o2
    BY <2>d, <2>e, NextId
  <2>5. /\ s1 # 0 /\ s2 # 0 /\ p \in Proc /\ id'[s1] = o1 /\ id'[s2] = o2
        /\ \A u \in SysPath : type[u] # "fNone" => id'[u] = id[u]
    BY <1>0, <2>1, <2>2, <2>e DEF SysPath
  <2>6. /\ \A q \in Proc \ {p} : usrpaths'[q] = usrpaths[q]
        /\ \A j \in UsrPath : usrpaths'[p][j] =
               IF j = k1 THEN s1 ELSE IF j = k2 THEN s2 ELSE usrpaths[p][j]
    BY <2>2 DEF PathsTypeOK
  <2>7. \A q \in Proc \ {p} : Fd'[q] = Fd[q]
    BY <1>0, <2>5, <2>6, FdSame
  <2>8. Fd' = [Fd EXCEPT ![p] = Fd'[p]]
    BY <2>7, FdOne
  <2>9. Fd[p][k1] = 0 /\ Fd[p][k2] = 0
    BY <2>1 DEF Fd
  <2>10. ASSUME NEW j \in UsrPath
         PROVE  Fd'[p][j] = IF j = k1 THEN o1 ELSE IF j = k2 THEN o2 ELSE Fd[p][j]
    <3>1. /\ Fd[p][j] = IF usrpaths[p][j] # 0 THEN id[usrpaths[p][j]] ELSE 0
          /\ Fd'[p][j] = IF usrpaths'[p][j] # 0 THEN id'[usrpaths'[p][j]] ELSE 0
      BY <1>0 DEF Fd
    <3>2. usrpaths[p][j] # 0 => /\ usrpaths[p][j] \in SysPath
                               /\ type[usrpaths[p][j]] # "fNone"
      BY <1>0 DEF AllNamed
    <3> QED BY <2>5, <2>6, <3>1, <3>2
  <2>11. {j \in UsrPath : Fd'[p][j] # Fd[p][j]} = {k1, k2}
    BY <2>4, <2>9, <2>10
  <2>12. {Fd'[p][j] : j \in {k1, k2}} = {o1, o2}
    BY <2>1, <2>10
  <2>13. \A j \in {k1, k2} : Fd[p][j] = 0 /\ Fd'[p][j] \in Object \ Used
    BY <2>1, <2>4, <2>9, <2>10
  <2>14. \A i, j \in {k1, k2} : Fd'[p][i] = Fd'[p][j] => i = j
    BY <2>1, <2>4, <2>10
  <2>15. Abstract!Open(p)
    BY <2>3, <2>8, <2>11, <2>12, <2>13, <2>14 DEF Abstract!Open
  <2>16. Used' = Used \cup Live'
    BY <2>3 DEF IdsOK, Live
  <2> QED BY <2>3, <2>5, <2>15, <2>16 DEF Abstract!Next
<1>2. CASE ~Both
  <2>a. FreePaths # {} /\ FreeNumbers(p) # {} /\ opens + 1 < MaxOpens /\ opens \in Nat
    BY <1>0 DEF Lock, PathsTypeOK
  <2>1. Open(p, "fFile")
    <3>1. SyspathNew(Lowest(FreePaths), "fFile")
          /\ SetNumber(p, Lowest(FreeNumbers(p)), Lowest(FreePaths))
      BY <1>2 DEF Lock
    <3>2. opens < MaxOpens
      BY <2>a, PathsAssumption
    <3> QED BY <1>0, <2>a, <3>1, <3>2 DEF Open
  <2> QED BY <2>1, OpenRefines
<1> QED BY <1>1, <1>2

\* A child names what its parent names.
LEMMA ForkRefines ==
  ASSUME PathsTypeOK, IdsOK, AllNamed, AllNamed', NEW p \in Proc, NEW child \in Proc,
         NEW n \in 0 .. MAXUSRPATHS, Fork(p, child, n)
  PROVE  IdsOK' /\ Abstract!Next
<1>1. /\ p \in alive /\ child \notin alive /\ alive' = alive \cup {child}
      /\ type' = type /\ id' = id /\ opens' = opens
      /\ usrpaths' = [usrpaths EXCEPT ![child] = Inherited(p, n)]
  BY DEF Fork
<1>2. IdsOK' /\ Live' = Live /\ Used' = Used
  BY <1>1, IdsSame
<1>3. /\ \A q \in Proc \ {child} : usrpaths'[q] = usrpaths[q]
      /\ \A k \in UsrPath : usrpaths'[child][k] \in {0, usrpaths[p][k]}
  BY <1>1 DEF PathsTypeOK, Inherited
<1>4. \A q \in Proc \ {child} : Fd'[q] = Fd[q]
  BY <1>1, <1>3, FdSame
<1>5. Fd' = [Fd EXCEPT ![child] = Fd'[child]]
  BY <1>4, FdOne
<1>6. ASSUME NEW k \in UsrPath PROVE Fd[child][k] = 0 /\ Fd'[child][k] \in {0, Fd[p][k]}
  <2>1. /\ Fd[child][k] = 0
        /\ Fd[p][k] = IF usrpaths[p][k] # 0 THEN id[usrpaths[p][k]] ELSE 0
        /\ Fd'[child][k] = IF usrpaths'[child][k] # 0 THEN id'[usrpaths'[child][k]] ELSE 0
    BY <1>1 DEF Fd
  <2> QED BY <1>1, <1>3, <2>1
<1>7. Abstract!Inherit(p, child)
  BY <1>2, <1>5, <1>6 DEF Abstract!Inherit
<1>8. Used' = Used \cup Live'
  BY <1>2 DEF IdsOK, Live
<1> QED BY <1>2, <1>7, <1>8 DEF Abstract!Next

\* What is named is there.
LEMMA NamedLive ==
  ASSUME AllNamed
  PROVE  Abstract!Named \subseteq Live
<1>1. ASSUME NEW p \in Proc, NEW k \in UsrPath, Fd[p][k] # 0 PROVE Fd[p][k] \in Live
  <2>1. p \in alive /\ usrpaths[p][k] # 0 /\ Fd[p][k] = id[usrpaths[p][k]]
    BY <1>1 DEF Fd
  <2>2. usrpaths[p][k] \in SysPath /\ type[usrpaths[p][k]] # "fNone"
    BY <2>1 DEF AllNamed
  <2> QED BY <2>1, <2>2 DEF Live
<1> QED BY <1>1 DEF Abstract!Named

NamedAreLive == Abstract!Named \subseteq Live

LEMMA NamedLiveNext == AllNamed' => NamedAreLive'
<1>1. AllNamed => NamedAreLive
  BY NamedLive DEF NamedAreLive
<1> QED BY <1>1, PTL

\* Numbers are given up.
LEMMA CloseRefines ==
  ASSUME PathsTypeOK, IdsOK, AllNamed, AllNamed', NEW p \in alive, NEW S, Close(p, S, {}),
         alive' = alive \/ alive' = alive \ {p}
  PROVE  IdsOK' /\ Abstract!Next
<1>1. PICK Gone : Free(Gone)
  BY DEF Close
<1>2. /\ opens' = opens /\ p \in Proc
      /\ \A q \in Proc \ {p} : usrpaths'[q] = usrpaths[q]
      /\ \A k \in UsrPath : usrpaths'[p][k] \in {0, usrpaths[p][k]}
  BY DEF Close, PathsTypeOK
<1>3. /\ IdsOK' /\ Live' \subseteq Live /\ Used' = Used
      /\ \A u \in SysPath : type'[u] # "fNone" => id'[u] = id[u]
  BY <1>1, <1>2, IdsFree
<1>4. \A q \in Proc \ {p} : Fd'[q] = Fd[q]
  BY <1>2, <1>3, FdSame
<1>5. Fd' = [Fd EXCEPT ![p] = Fd'[p]]
  BY <1>2, <1>4, FdOne
<1>6. ASSUME NEW k \in UsrPath PROVE Fd'[p][k] \in {0, Fd[p][k]}
  <2>1. CASE p \notin alive' \/ usrpaths'[p][k] = 0
    BY <1>2, <2>1 DEF Fd
  <2>2. CASE p \in alive' /\ usrpaths'[p][k] # 0
    <3>1. usrpaths'[p][k] = usrpaths[p][k] /\ type'[usrpaths'[p][k]] # "fNone"
          /\ usrpaths[p][k] \in SysPath
      BY <1>2, <2>2 DEF AllNamed
    <3> QED BY <1>2, <1>3, <2>2, <3>1 DEF Fd
  <2> QED BY <2>1, <2>2
<1>7. Abstract!Named' \subseteq Live'
  BY NamedLiveNext DEF NamedAreLive
<1>8. Abstract!Close(p)
  BY <1>3, <1>5, <1>6, <1>7 DEF Abstract!Close
<1>9. Used' = Used \cup Live'
  BY <1>3 DEF IdsOK, Live
<1> QED BY <1>2, <1>3, <1>8, <1>9 DEF Abstract!Next

\* What has no number comes and goes.
LEMMA FreedRefines ==
  ASSUME PathsTypeOK, IdsOK, AllNamed, AllNamed', NEW S, Free(S),
         UNCHANGED <<alive, usrpaths, opens>>
  PROVE  IdsOK' /\ Abstract!Next
<1>1. /\ IdsOK' /\ Live' \subseteq Live /\ Used' = Used
      /\ \A u \in SysPath : type'[u] # "fNone" => id'[u] = id[u]
  BY IdsFree
<1>2. \A q \in Proc : Fd'[q] = Fd[q]
  BY <1>1, FdSame
<1>3. Fd' = Fd
  <2>1. Fd = [q \in Proc |-> Fd[q]] /\ Fd' = [q \in Proc |-> Fd'[q]]
    BY DEF Fd
  <2> QED BY <1>2, <2>1
<1>4. Abstract!Named' \subseteq Live' /\ Abstract!Named' = Abstract!Named
  BY <1>3, NamedLiveNext DEF Abstract!Named, NamedAreLive
<1>5. Abstract!Else
  BY <1>1, <1>3, <1>4 DEF Abstract!Else
<1>6. Used' = Used \cup Live'
  BY <1>1 DEF IdsOK, Live
<1> QED BY <1>1, <1>5, <1>6 DEF Abstract!Next

LEMMA OpenImageRefines ==
  ASSUME PathsTypeOK, IdsOK, AllNamed, AllNamed', OpenImage
  PROVE  IdsOK' /\ Abstract!Next
<1>a. Lowest(FreePaths) \in SysPath /\ type[Lowest(FreePaths)] = "fNone"
  BY FreePathThere DEF OpenImage
<1>b. PICK s \in SysPath : s = Lowest(FreePaths)
  BY <1>a
<1>1. /\ type[s] = "fNone" /\ SyspathNew(s, "fFile") /\ UNCHANGED <<alive, usrpaths>>
  BY <1>a, <1>b DEF OpenImage
<1>2. /\ IdsOK' /\ \A u \in SysPath \ {s} : id'[u] = id[u] /\ type'[u] = type[u]
      /\ Live' = Live \cup {MAXSYSPATHS + opens} /\ Used' = Used \cup {MAXSYSPATHS + opens}
  BY <1>1, IdsNew
<1>3. MAXSYSPATHS + opens \notin Used
  BY NextId
<1>4. \A q \in Proc : Fd'[q] = Fd[q]
  BY <1>1, <1>2, FdSame
<1>5. Fd' = Fd
  <2>1. Fd = [q \in Proc |-> Fd[q]] /\ Fd' = [q \in Proc |-> Fd'[q]]
    BY DEF Fd
  <2> QED BY <1>4, <2>1
<1>6. Abstract!Named \subseteq Live
  BY NamedLive
<1>7. Abstract!Else
  BY <1>2, <1>3, <1>5, <1>6 DEF Abstract!Else
<1>8. Used' = Used \cup Live'
  BY <1>2 DEF IdsOK, Live
<1> QED BY <1>2, <1>7, <1>8 DEF Abstract!Next

\* Steps that are not seen.
LEMMA UnseenRefines ==
  ASSUME IdsOK, UNCHANGED <<alive, usrpaths, type, id, opens>>
  PROVE  IdsOK' /\ UNCHANGED Abstract!vars
<1>1. IdsOK' /\ Live' = Live /\ Used' = Used
  BY IdsSame
<1>2. Fd' = Fd
  BY DEF Fd
<1> QED BY <1>1, <1>2 DEF Abstract!vars

LEMMA StepRefines ==
  ASSUME ~CloseErrors, PathsInv, IdsOK, AllNamed', [Next]_vars
  PROVE  IdsOK' /\ (Abstract!Next \/ UNCHANGED Abstract!vars)
<1> DEFINE Goal == IdsOK' /\ (Abstract!Next \/ UNCHANGED Abstract!vars)
<1>0. PathsTypeOK /\ AllNamed
  BY NamedAll DEF PathsInv
<1>1. ASSUME UNCHANGED vars PROVE Goal
  BY <1>1, UnseenRefines DEF vars, table
<1>2. ASSUME NEW p \in Proc, NEW t \in {"fFile", "fPipe"}, Open(p, t) PROVE Goal
  BY <1>0, <1>2, OpenRefines
<1>3. ASSUME NEW p \in Proc, NEW sp \in SysPath, OpenShared(p, sp) PROVE Goal
  <2>1. Lowest(FreeNumbers(p)) \in FreeNumbers(p) /\ p \in alive
    BY <1>3, FreeNumberThere DEF OpenShared
  <2>2. type[sp] # "fNone"
    BY <1>0, <1>3 DEF OpenShared, Pipes, PathsTypeOK
  <2>3. PICK k \in FreeNumbers(p) : k = Lowest(FreeNumbers(p))
    BY <2>1
  <2>4. SetNumber(p, k, sp) /\ UNCHANGED <<alive, type, id, opens>>
    BY <1>3, <2>3 DEF OpenShared
  <2> QED BY <1>0, <2>1, <2>2, <2>4, ShareRefines
<1>4. ASSUME NEW p \in Proc, Lock(p) PROVE Goal
  BY <1>0, <1>4, LockRefines
<1>5. ASSUME NEW p \in Proc, NEW k \in UsrPath, Dup(p, k) PROVE Goal
  <2>1. Lowest(FreeNumbers(p)) \in FreeNumbers(p) /\ p \in alive
    BY <1>5, FreeNumberThere DEF Dup
  <2>2. usrpaths[p][k] \in SysPath /\ type[usrpaths[p][k]] # "fNone"
    BY <1>0, <1>5, <2>1 DEF Dup, AllNamed
  <2>3. PICK j \in FreeNumbers(p) : j = Lowest(FreeNumbers(p))
    BY <2>1
  <2>4. PICK s \in SysPath : s = usrpaths[p][k]
    BY <2>2
  <2>5. SetNumber(p, j, s) /\ UNCHANGED <<alive, type, id, opens>>
    BY <1>5, <2>3, <2>4 DEF Dup
  <2> QED BY <1>0, <2>1, <2>2, <2>4, <2>5, ShareRefines
<1>6. ASSUME NEW p \in Proc, NEW k \in UsrPath, Move(p, k) PROVE Goal
  BY <1>6, UnseenRefines DEF Move
<1>7. ASSUME NEW p \in Proc, NEW child \in Proc, NEW n \in 0 .. MAXUSRPATHS, Fork(p, child, n)
      PROVE  Goal
  BY <1>0, <1>7, ForkRefines
<1>8. ASSUME NEW p \in Proc, NEW bad \in Errors, NEW k \in UsrPath,
             CloseNumber(p, k, bad) \/ Chain(p, k, bad) \/ Exit(p, bad)
      PROVE  Goal
  <2>1. bad = {}
    BY DEF Errors
  <2>2. CASE CloseNumber(p, k, bad)
    BY <1>0, <2>1, <2>2, CloseRefines DEF CloseNumber
  <2>3. CASE Chain(p, k, bad)
    BY <1>0, <2>1, <2>3, CloseRefines DEF Chain
  <2>4. CASE Exit(p, bad)
    BY <1>0, <2>1, <2>4, CloseRefines DEF Exit
  <2> QED BY <1>8, <2>2, <2>3, <2>4
<1>9. ASSUME NEW sp \in SysPath, Delete(sp) \/ CloseImage(sp) PROVE Goal
  BY <1>0, <1>9, FreedRefines DEF Delete, CloseImage
<1>10. ASSUME OpenImage PROVE Goal
  BY <1>0, <1>10, OpenImageRefines
<1>11. 0 \in UsrPath
  BY PathsAssumption DEF UsrPath
<1> HIDE DEF Goal
<1>12. Goal
  BY <1>1, <1>2, <1>3, <1>4, <1>5, <1>6, <1>7, <1>8, <1>9, <1>10, <1>11 DEF Next
<1> QED BY <1>12 DEF Goal

\* The two tables of paths implement the path numbers of module Files: whatever other
\* processes open, inherit and close, a number names what it was given for until its own
\* process closes it (syspath_new and syspath_close).
THEOREM PathsAreFiles == ASSUME ~CloseErrors PROVE Spec => FilesImplemented
<1>1. Init => Abstract!Init
  <2>1. Init => AllNamed
    BY InitInv, NamedAll
  <2>2. ASSUME Init PROVE Used = Live
    <3>1. \A sp \in SysPath : (type[sp] # "fNone" <=> sp \in Standard)
                             /\ (sp \in Standard => id[sp] = sp)
      BY <2>2 DEF Init, Standard
    <3>2. Live = Standard
      BY <3>1, PathsAssumption DEF Live
    <3>3. opens = 0 /\ MAXSYSPATHS .. MAXSYSPATHS + 0 - 1 = {}
      BY <2>2, PathsAssumption DEF Init
    <3> QED BY <3>2, <3>3 DEF Used
  <2> QED BY <2>1, <2>2, NamedLive DEF Abstract!Init
<1>2. PathsInv /\ IdsOK /\ AllNamed' /\ [Next]_vars => IdsOK' /\ [Abstract!Next]_(Abstract!vars)
  BY StepRefines
<1>3. PathsInv => AllNamed
  BY NamedAll
<1> QED BY <1>1, <1>2, <1>3, InitIds, InitInv, StepInv, PTL DEF Spec, FilesImplemented, Abstract!Spec
=============================================================================
