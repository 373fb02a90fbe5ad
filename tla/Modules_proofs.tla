---------------------------- MODULE Modules_proofs ----------------------------
(***************************************************************************)
(* No block of memory is given to two owners or released while it is       *)
(* owned, no module goes while a process runs it, nor, until a F$Chain     *)
(* fails, while a process has linked it: for any processes, names, files   *)
(* and sizes of the directory and the memory, as long as no file holds a   *)
(* group of modules.                                                       *)
(***************************************************************************)
EXTENDS Modules, FiniteSetTheorems, WellFoundedInduction, TLAPS

-----------------------------------------------------------------------------
(* Least members                                                           *)

\* Every set of numbers that is not empty has a least member.
LEMMA LeastNumber ==
  ASSUME NEW S, S \subseteq Nat, S # {}
  PROVE  \E x \in S : \A y \in S : x <= y
<1> DEFINE R == OpToRel(<, Nat)
<1>1. IsWellFoundedOn(R, Nat)
  BY NatLessThanWellFounded
<1>2. \A x, y \in Nat : <<y, x>> \notin R => x <= y
  <2>1. \A x, y \in Nat : y < x => <<y, x>> \in R
    BY Zenon DEF OpToRel
  <2> HIDE DEF R
  <2> QED BY <2>1
<1> HIDE DEF R
<1>3. \E x \in S : \A y \in S : <<y, x>> \notin R
  BY <1>1, WFMin
<1> QED BY <1>2, <1>3

\* The search finds an entry or a block that fits if there is one.
LEMMA LowestFits ==
  ASSUME NEW S, S \subseteq Nat, S # {}
  PROVE  Lowest(S) \in S
BY LeastNumber DEF Lowest

-----------------------------------------------------------------------------
(* The directory and the memory                                            *)

DirType == [base : [Mid -> 0 .. MaxBlocks], linkcount : [Mid -> Nat],
            heap : [Block -> Name \cup {Free, Data}]]

\* A directory in which every module has memory of its own.
Good(dir) ==
    /\ dir \in DirType
    /\ \A m \in Mid : dir.linkcount[m] = 0 <=> dir.base[m] = 0
    /\ \A m \in Mid : dir.base[m] # 0 => dir.heap[dir.base[m]] \in Name
    /\ \A m, n \in Mid : m # n /\ dir.base[m] # 0 => dir.base[m] # dir.base[n]

\* From the directory old to the directory new the data in the blocks B and the modules M
\* stay.
KeepsData(old, new, B) == \A b \in B : old.heap[b] = Data => new.heap[b] = Data
KeepsModules(old, new, M) ==
    \A m \in M : old.base[m] # 0 => /\ new.base[m] = old.base[m]
                                    /\ new.heap[new.base[m]] = old.heap[old.base[m]]

LEMMA GotGood ==
  ASSUME NEW dir, Good(dir), FreeBlocks(dir) # {}, NEW content \in Name \cup {Data}
  PROVE  LET b == Lowest(FreeBlocks(dir)) IN
         /\ Good(Got(dir, content))
         /\ KeepsData(dir, Got(dir, content), Block)
         /\ KeepsModules(dir, Got(dir, content), Mid)
         /\ b \in Block /\ dir.heap[b] = Free /\ Got(dir, content).heap[b] = content
         /\ Got(dir, content).base = dir.base
         /\ Got(dir, content).linkcount = dir.linkcount
<1> DEFINE b == Lowest(FreeBlocks(dir))
<1>1. FreeBlocks(dir) \subseteq Nat
  BY ModulesAssumption DEF FreeBlocks, Block
<1>2. b \in FreeBlocks(dir)
  BY <1>1, LowestFits
<1>3. b \in Block /\ dir.heap[b] = Free
  BY <1>2 DEF FreeBlocks
<1> HIDE DEF b
<1>4. Got(dir, content) = [dir EXCEPT !.heap[b] = content]
  BY DEF Got, b
<1>5. \A m \in Mid : dir.base[m] # b /\ (dir.base[m] # 0 => dir.base[m] \in Block)
  BY <1>3, ModulesAssumption DEF Good, DirType, Block, Free
<1>6. Got(dir, content) \in DirType
  BY <1>3, <1>4 DEF Good, DirType, Data
<1>7. /\ Got(dir, content).base = dir.base
      /\ Got(dir, content).linkcount = dir.linkcount
      /\ Got(dir, content).heap[b] = content
      /\ \A c \in Block \ {b} : Got(dir, content).heap[c] = dir.heap[c]
  BY <1>3, <1>4 DEF Good, DirType
<1>8. Good(Got(dir, content))
  BY <1>5, <1>6, <1>7 DEF Good
<1>9. KeepsData(dir, Got(dir, content), Block) /\ KeepsModules(dir, Got(dir, content), Mid)
  BY <1>3, <1>5, <1>7 DEF KeepsData, KeepsModules, Free, Data
<1> QED BY <1>3, <1>7, <1>8, <1>9 DEF b

LEMMA ReleasedGood ==
  ASSUME NEW dir, Good(dir), NEW B, \A b \in B \cap Block : dir.heap[b] = Data
  PROVE  /\ Good(Released(dir, B))
         /\ KeepsData(dir, Released(dir, B), Block \ B)
         /\ KeepsModules(dir, Released(dir, B), Mid)
<1>1. /\ Released(dir, B) \in DirType
      /\ Released(dir, B).base = dir.base
      /\ Released(dir, B).linkcount = dir.linkcount
      /\ \A b \in Block : Released(dir, B).heap[b] = IF b \in B THEN Free ELSE dir.heap[b]
  BY DEF Released, Good, DirType
<1>2. \A m \in Mid : dir.base[m] # 0 => dir.base[m] \in Block \ B
  BY ModulesAssumption DEF Good, DirType, Block, Data
<1> HIDE DEF Released
<1> QED BY <1>1, <1>2 DEF Good, KeepsData, KeepsModules

LEMMA LinkedGood ==
  ASSUME NEW dir, Good(dir), NEW m \in Mid, dir.base[m] # 0
  PROVE  /\ Good(Linked(dir, m))
         /\ KeepsData(dir, Linked(dir, m), Block)
         /\ KeepsModules(dir, Linked(dir, m), Mid)
<1>1. /\ Linked(dir, m) \in DirType
      /\ Linked(dir, m).heap = dir.heap
      /\ Linked(dir, m).base = dir.base
      /\ Linked(dir, m).linkcount = [dir.linkcount EXCEPT ![m] = @ + 1]
  BY DEF Linked, Good, DirType
<1>2. dir.linkcount \in [Mid -> Nat]
  BY DEF Good, DirType
<1>3. \A n \in Mid : Linked(dir, m).linkcount[n] = 0 <=> dir.base[n] = 0
  BY <1>1, <1>2 DEF Good
<1> QED BY <1>1, <1>3 DEF Good, KeepsData, KeepsModules

LEMMA ModuleReleasedGood ==
  ASSUME NEW dir, Good(dir), NEW m \in Mid, dir.base[m] # 0
  PROVE  /\ Good(ModuleReleased(dir, m))
         /\ KeepsData(dir, ModuleReleased(dir, m), Block)
         /\ KeepsModules(dir, ModuleReleased(dir, m), Mid \ {m})
<1> DEFINE new == ModuleReleased(dir, m)
<1>1. /\ new.base = [dir.base EXCEPT ![m] = 0]
      /\ new.linkcount = [dir.linkcount EXCEPT ![m] = 0]
      /\ new.heap = [dir.heap EXCEPT ![dir.base[m]] = Free]
  BY DEF ModuleReleased
<1>2. new = [base |-> new.base, linkcount |-> new.linkcount, heap |-> new.heap]
  BY DEF ModuleReleased
<1> HIDE DEF new
<1>3. /\ dir.base \in [Mid -> 0 .. MaxBlocks] /\ dir.linkcount \in [Mid -> Nat]
      /\ dir.heap \in [Block -> Name \cup {Free, Data}]
  BY DEF Good, DirType
<1>4. new.base \in [Mid -> 0 .. MaxBlocks] /\ new.linkcount \in [Mid -> Nat]
  BY <1>1, <1>3, ModulesAssumption
<1>5. dir.base[m] \in Block /\ new.heap \in [Block -> Name \cup {Free, Data}]
  BY <1>1, <1>3, ModulesAssumption DEF Block
<1>6. new \in DirType
  BY <1>2, <1>4, <1>5 DEF DirType
<1>7. \A n \in Mid \ {m} : /\ new.base[n] = dir.base[n] /\ new.linkcount[n] = dir.linkcount[n]
                           /\ new.base[n] # dir.base[m]
                           /\ new.base[n] # 0 => /\ new.base[n] \in Block
                                                 /\ new.heap[new.base[n]] = dir.heap[dir.base[n]]
  BY <1>1, <1>3, <1>5, ModulesAssumption DEF Good, Block
<1>8. new.base[m] = 0 /\ new.linkcount[m] = 0
  BY <1>1, <1>3
<1>9. Good(new)
  BY <1>6, <1>7, <1>8 DEF Good
<1>10. KeepsData(dir, new, Block)
  BY <1>1, <1>3, <1>5, ModulesAssumption DEF KeepsData, Good, Data
<1>11. KeepsModules(dir, new, Mid \ {m})
  BY <1>7 DEF KeepsModules
<1> QED BY <1>9, <1>10, <1>11 DEF new

\* unlink_module takes no module that is in use.
LEMMA UnlinkedGood ==
  ASSUME NEW dir, Good(dir), NEW m \in Mid \cup {NoMid}, NEW used
  PROVE  /\ Good(Unlinked(dir, m, used))
         /\ KeepsData(dir, Unlinked(dir, m, used), Block)
         /\ KeepsModules(dir, Unlinked(dir, m, used), (Mid \ {m}) \cup (Mid \cap used))
<1>0. KeepsData(dir, dir, Block) /\ KeepsModules(dir, dir, Mid)
  BY DEF KeepsData, KeepsModules
<1>1. CASE m = NoMid \/ dir.base[m] = 0
  BY <1>0, <1>1 DEF Unlinked, KeepsModules
<1>2. CASE /\ m # NoMid /\ dir.base[m] # 0
           /\ dir.linkcount[m] > 1
  <2> DEFINE new == [dir EXCEPT !.linkcount[m] = @ - 1]
  <2>1. m \in Mid /\ Unlinked(dir, m, used) = new
    BY <1>2 DEF Unlinked
  <2>2. /\ new \in DirType
        /\ new.heap = dir.heap
        /\ new.base = dir.base
        /\ new.linkcount = [dir.linkcount EXCEPT ![m] = @ - 1]
    BY <1>2, <2>1 DEF Good, DirType
  <2> HIDE DEF new
  <2>3. dir.linkcount \in [Mid -> Nat]
    BY DEF Good, DirType
  <2>4. \A n \in Mid : new.linkcount[n] = 0 <=> dir.base[n] = 0
    BY <1>2, <2>1, <2>2, <2>3 DEF Good
  <2> QED BY <2>1, <2>2, <2>4 DEF Good, KeepsData, KeepsModules
<1>3. CASE /\ m # NoMid /\ dir.base[m] # 0
           /\ ~(dir.linkcount[m] > 1) /\ m \in used
  BY <1>0, <1>3 DEF Unlinked, KeepsModules
<1>4. CASE /\ m # NoMid /\ dir.base[m] # 0
           /\ ~(dir.linkcount[m] > 1) /\ m \notin used
  <2>1. m \in Mid /\ Unlinked(dir, m, used) = ModuleReleased(dir, m)
    BY <1>4 DEF Unlinked
  <2>2. (Mid \ {m}) \cup (Mid \cap used) = Mid \ {m}
    BY <1>4
  <2> QED BY <1>4, <2>1, <2>2, ModuleReleasedGood
<1> QED BY <1>1, <1>2, <1>3, <1>4

LEMMA EnteredGood ==
  ASSUME NEW dir, Good(dir), NEW m \in Mid, dir.base[m] = 0,
         NEW b \in Block, dir.heap[b] \in Name, \A n \in Mid : dir.base[n] # b
  PROVE  /\ Good(Entered(dir, m, b))
         /\ KeepsData(dir, Entered(dir, m, b), Block)
         /\ KeepsModules(dir, Entered(dir, m, b), Mid)
         /\ Entered(dir, m, b).base[m] = b
         /\ Entered(dir, m, b).heap = dir.heap
<1> DEFINE new == Entered(dir, m, b)
<1>1. /\ new.base = [dir.base EXCEPT ![m] = b]
      /\ new.linkcount = [dir.linkcount EXCEPT ![m] = 1]
      /\ new.heap = dir.heap
  BY DEF Entered
<1>2. new = [base |-> new.base, linkcount |-> new.linkcount, heap |-> new.heap]
  BY DEF Entered
<1> HIDE DEF new
<1>3. /\ dir.base \in [Mid -> 0 .. MaxBlocks] /\ dir.linkcount \in [Mid -> Nat]
      /\ dir.heap \in [Block -> Name \cup {Free, Data}]
      /\ b \in 0 .. MaxBlocks /\ b # 0
  BY ModulesAssumption DEF Good, DirType, Block
<1>4. new \in DirType
  BY <1>1, <1>2, <1>3 DEF DirType
<1>5. new.base[m] = b /\ new.linkcount[m] = 1
  BY <1>1, <1>3
<1>6. \A n \in Mid \ {m} : new.base[n] = dir.base[n] /\ new.linkcount[n] = dir.linkcount[n]
  BY <1>1, <1>3
<1>7. Good(new)
  BY <1>1, <1>3, <1>4, <1>5, <1>6 DEF Good
<1>8. KeepsData(dir, new, Block) /\ KeepsModules(dir, new, Mid)
  BY <1>1, <1>6 DEF KeepsData, KeepsModules
<1> QED BY <1>1, <1>5, <1>7, <1>8 DEF new
-----------------------------------------------------------------------------
(* Several steps                                                           *)

LEMMA KeepsOn ==
  ASSUME NEW a, NEW b, NEW c, NEW B, NEW C, NEW M, NEW N
  PROVE  /\ KeepsData(a, b, B) /\ KeepsData(b, c, C) => KeepsData(a, c, B \cap C)
         /\ KeepsModules(a, b, M) /\ KeepsModules(b, c, N) => KeepsModules(a, c, M \cap N)
         /\ KeepsData(a, b, B) /\ C \subseteq B => KeepsData(a, b, C)
         /\ KeepsModules(a, b, M) /\ N \subseteq M => KeepsModules(a, b, N)
BY DEF KeepsData, KeepsModules

\* What is found is there.
LEMMA FoundThere ==
  ASSUME NEW dir, NEW n, Found(dir, n) # {}
  PROVE  LET m == Lowest(Found(dir, n)) IN
         m \in Mid /\ dir.base[m] # 0 /\ dir.heap[dir.base[m]] = n
<1>1. Found(dir, n) \subseteq Nat
  BY ModulesAssumption DEF Found, Mid
<1>2. Lowest(Found(dir, n)) \in Found(dir, n)
  BY <1>1, LowestFits
<1> QED BY <1>2 DEF Found

\* The result r of a search that starts with dir has the module n, or none.
Loads(dir, r, n) ==
    /\ Good(r.dir) /\ KeepsData(dir, r.dir, Block) /\ KeepsModules(dir, r.dir, Mid)
    /\ r.mid \in Mid \cup {NoMid}
    /\ r.mid # NoMid => r.dir.base[r.mid] # 0 /\ r.dir.heap[r.dir.base[r.mid]] = n

LEMMA FoundLoads ==
  ASSUME NEW dir, Good(dir), NEW n, Found(dir, n) # {}
  PROVE  LET m == Lowest(Found(dir, n))
         IN Loads(dir, [dir |-> Linked(dir, m), mid |-> m], n)
<1> DEFINE m == Lowest(Found(dir, n))
<1>1. m \in Mid /\ dir.base[m] # 0 /\ dir.heap[dir.base[m]] = n
  BY FoundThere
<1> HIDE DEF m
<1>2. /\ Good(Linked(dir, m)) /\ KeepsData(dir, Linked(dir, m), Block)
      /\ KeepsModules(dir, Linked(dir, m), Mid)
  BY <1>1, LinkedGood
<1> QED BY <1>1, <1>2 DEF Loads, KeepsModules, m

LEMMA LoadedLoads ==
  ASSUME Followed = {}, NEW dir, Good(dir), NEW n \in Name
  PROVE  Loads(dir, Loaded(dir, n), n)
<1>1. CASE n \notin Disk \/ FreeMids(dir) = {} \/ FreeBlocks(dir) = {}
  <2>1. Loaded(dir, n) = [dir |-> dir, mid |-> NoMid]
    BY <1>1 DEF Loaded
  <2> QED BY <2>1 DEF Loads, KeepsData, KeepsModules
<1>2. CASE /\ ~(n \notin Disk \/ FreeMids(dir) = {} \/ FreeBlocks(dir) = {})
           /\ Found(dir, n) # {}
  BY <1>2, FoundLoads DEF Loaded
<1>3. CASE /\ ~(n \notin Disk \/ FreeMids(dir) = {} \/ FreeBlocks(dir) = {})
           /\ Found(dir, n) = {}
  <2> DEFINE m == Lowest(FreeMids(dir))
             b == Lowest(FreeBlocks(dir))
             got == Got(dir, n)
             new == Entered(got, m, b)
  <2>1. Loaded(dir, n) = [dir |-> new, mid |-> m]
    BY <1>3 DEF Loaded
  <2>2. FreeMids(dir) \subseteq Nat
    BY ModulesAssumption DEF FreeMids, Mid
  <2>3. m \in FreeMids(dir)
    BY <1>3, <2>2, LowestFits
  <2>4. m \in Mid /\ dir.base[m] = 0
    BY <2>3 DEF FreeMids
  <2>5. /\ Good(got) /\ KeepsData(dir, got, Block) /\ KeepsModules(dir, got, Mid)
        /\ b \in Block /\ dir.heap[b] = Free /\ got.heap[b] = n /\ got.base = dir.base
    BY <1>3, GotGood
  <2> HIDE DEF m, b, got
  <2>6. \A k \in Mid : got.base[k] # b
    BY <2>5, ModulesAssumption DEF Good, Block, Free
  <2>7. /\ Good(new) /\ KeepsData(got, new, Block) /\ KeepsModules(got, new, Mid)
        /\ new.base[m] = b /\ new.heap = got.heap
    BY <2>4, <2>5, <2>6, EnteredGood
  <2> HIDE DEF new
  <2>8. KeepsData(dir, new, Block) /\ KeepsModules(dir, new, Mid)
    BY <2>5, <2>7 DEF KeepsData, KeepsModules
  <2>9. b # 0 /\ m # NoMid
    BY <2>4, <2>5, ModulesAssumption DEF Block, Mid, NoMid
  <2> QED BY <2>1, <2>4, <2>5, <2>7, <2>8, <2>9 DEF Loads
<1> QED BY <1>1, <1>2, <1>3

LEMMA LinkLoads ==
  ASSUME Followed = {}, NEW dir, Good(dir), NEW n \in Name
  PROVE  Loads(dir, LinkLoad(dir, n), n)
BY FoundLoads, LoadedLoads DEF LinkLoad

\* A block of memory for a process.
LEMMA DataAfterLoad ==
  ASSUME NEW dir, NEW r, NEW n, Loads(dir, r, n), DataGot(r)
  PROVE  LET b == Lowest(FreeBlocks(r.dir))
             new == Got(r.dir, Data)
         IN /\ Loads(dir, [dir |-> new, mid |-> r.mid], n)
            /\ b \in Block /\ r.dir.heap[b] = Free /\ new.heap[b] = Data
            /\ dir.heap[b] # Data
<1> DEFINE b == Lowest(FreeBlocks(r.dir))
           new == Got(r.dir, Data)
<1>1. /\ Good(new) /\ KeepsData(r.dir, new, Block) /\ KeepsModules(r.dir, new, Mid)
      /\ b \in Block /\ r.dir.heap[b] = Free /\ new.heap[b] = Data
      /\ new.base = r.dir.base
  BY GotGood DEF Loads, DataGot
<1> HIDE DEF b, new
<1>2. KeepsData(dir, new, Block) /\ KeepsModules(dir, new, Mid)
  BY <1>1 DEF Loads, KeepsData, KeepsModules
<1>3. dir.heap[b] # Data
  BY <1>1 DEF Loads, KeepsData, Free, Data
<1>4. r.mid # NoMid => new.base[r.mid] # 0 /\ new.heap[new.base[r.mid]] = n
  BY <1>1 DEF Loads, KeepsModules
<1>5. Loads(dir, [dir |-> new, mid |-> r.mid], n)
  BY <1>1, <1>2, <1>4 DEF Loads
<1> QED BY <1>1, <1>3, <1>5 DEF b, new

-----------------------------------------------------------------------------
(* The invariant                                                           *)

\* What a process has is there: its data, and if it runs its program and trap handler.
ProcOK(q) ==
    /\ \A b \in pmem[q] : d.heap[b] = Data
    /\ trap[q].mem \in pmem[q] \cup {0}
    /\ q \in alive => /\ mid[q] \in Mid /\ d.base[mid[q]] # 0
                      /\ d.heap[d.base[mid[q]]] = runs[q]
                      /\ trap[q].mid # NoMid => d.base[trap[q].mid] # 0

ProcTypes ==
    /\ alive \subseteq Proc /\ mid \in [Proc -> Mid \cup {NoMid}]
    /\ trap \in [Proc -> [mid : Mid \cup {NoMid}, mem : Block \cup {0}]]
    /\ pmem \in [Proc -> SUBSET Block] /\ runs \in [Proc -> Name]

Apart == \A p, q \in Proc : p # q => pmem[p] \cap pmem[q] = {}

ModulesInv == Good(d) /\ ProcTypes /\ Apart /\ \A q \in Proc : ProcOK(q)

SameFor(q) == /\ mid'[q] = mid[q] /\ trap'[q] = trap[q] /\ pmem'[q] = pmem[q]
              /\ runs'[q] = runs[q] /\ (q \in alive' => q \in alive)

\* A process keeps what it has when its data and modules are kept.
LEMMA OthersKeep ==
  ASSUME ModulesInv, NEW q \in Proc, SameFor(q), KeepsData(d, d', pmem[q]),
         q \in alive => KeepsModules(d, d', Used({q}))
  PROVE  ProcOK(q)'
<1>1. ProcOK(q)
  BY DEF ModulesInv
<1>2. \A b \in pmem'[q] : d'.heap[b] = Data
  BY <1>1 DEF SameFor, ProcOK, KeepsData
<1>3. ASSUME q \in alive'
      PROVE  /\ mid'[q] \in Mid /\ d'.base[mid'[q]] # 0
             /\ d'.heap[d'.base[mid'[q]]] = runs'[q]
             /\ trap'[q].mid # NoMid => d'.base[trap'[q].mid] # 0
  <2>1. mid[q] \in Used({q}) /\ (trap[q].mid # NoMid => trap[q].mid \in Used({q}))
    BY <1>1, <1>3, ModulesAssumption DEF SameFor, ProcOK, Used, NoMid, Mid
  <2> QED BY <1>1, <1>3, <2>1 DEF SameFor, ProcOK, KeepsModules
<1> QED BY <1>1, <1>2, <1>3 DEF ProcOK, SameFor

\* A step by which what the processes have does not change.
LEMMA NobodyChanges ==
  ASSUME ModulesInv, UNCHANGED <<alive, mid, trap, pmem, runs>>, Good(d'),
         KeepsData(d, d', Block), KeepsModules(d, d', Used(alive))
  PROVE  ModulesInv'
<1>1. ASSUME NEW q \in Proc PROVE ProcOK(q)'
  <2>1. SameFor(q) /\ pmem[q] \subseteq Block
    BY DEF SameFor, ModulesInv, ProcTypes
  <2>2. q \in alive => Used({q}) \subseteq Used(alive)
    BY DEF Used
  <2> QED BY <2>1, <2>2, KeepsOn, OthersKeep
<1>2. Good(d)' /\ ProcTypes' /\ Apart'
  BY DEF ModulesInv, ProcTypes, Apart
<1> QED BY <1>1, <1>2 DEF ModulesInv

\* A step that changes what process p has.
LEMMA OneChanges ==
  ASSUME ModulesInv, NEW p \in Proc, Good(d'), ProcTypes',
         \A q \in Proc \ {p} : SameFor(q),
         KeepsData(d, d', Block \ pmem[p]),
         KeepsModules(d, d', Used(alive \ {p})),
         \A b \in pmem'[p] : b \in pmem[p] \/ d.heap[b] # Data,
         ProcOK(p)'
  PROVE  ModulesInv'
<1>1. ASSUME NEW q \in Proc \ {p} PROVE ProcOK(q)'
  <2>1. pmem[q] \subseteq Block \ pmem[p]
    BY DEF ModulesInv, ProcTypes, Apart
  <2>2. q \in alive => Used({q}) \subseteq Used(alive \ {p})
    BY DEF Used
  <2> QED BY <2>1, <2>2, KeepsOn, OthersKeep
<1>2. \A q \in Proc \ {p} : pmem'[q] = pmem[q] /\ \A b \in pmem[q] : d.heap[b] = Data
  BY DEF ModulesInv, ProcOK, SameFor
<1>3. Apart'
  BY <1>2 DEF Apart, ModulesInv
<1> QED BY <1>1, <1>3 DEF ModulesInv
-----------------------------------------------------------------------------
(* The system calls                                                        *)

LEMMA InitInv == Init => ModulesInv
<1> SUFFICES ASSUME Init PROVE ModulesInv
  OBVIOUS
<1>1. PICK n \in Programs :
          /\ d = [base |-> [m \in Mid |-> IF m = 1 THEN 1 ELSE 0],
                  linkcount |-> [m \in Mid |-> IF m = 1 THEN 1 ELSE 0],
                  heap |-> [b \in Block |-> IF b = 1 THEN n ELSE IF b = 2 THEN Data ELSE Free]]
          /\ runs = [p \in Proc |-> n]
  BY DEF Init
<1>2. 1 \in Mid /\ 1 \in Block /\ 2 \in Block /\ n \in Name
  BY ModulesAssumption DEF Mid, Block
<1>3. /\ d.base = [m \in Mid |-> IF m = 1 THEN 1 ELSE 0]
      /\ d.linkcount = [m \in Mid |-> IF m = 1 THEN 1 ELSE 0]
      /\ d.heap = [b \in Block |-> IF b = 1 THEN n ELSE IF b = 2 THEN Data ELSE Free]
  BY <1>1
<1>4. d \in DirType
  BY <1>1, <1>2, ModulesAssumption DEF DirType, Block
<1>5. Good(d)
  BY <1>2, <1>3, <1>4 DEF Good
<1>6. ProcTypes
  BY <1>1, <1>2, ModulesAssumption DEF Init, ProcTypes, NoTrap, NoMid
<1>7. Apart
  BY DEF Apart, Init
<1>8. \A q \in Proc : ProcOK(q)
  BY <1>1, <1>2, <1>3 DEF ProcOK, Init, NoTrap, NoMid
<1> QED BY <1>5, <1>6, <1>7, <1>8 DEF ModulesInv

LEMMA UsedTypes ==
  ASSUME ProcTypes, NEW P, P \subseteq Proc
  PROVE  Used(P) \subseteq Mid
BY DEF ProcTypes, Used, NoMid

LEMMA LinkInv ==
  ASSUME ModulesInv, NEW n \in Name, Found(d, n) # {},
         d' = Linked(d, Lowest(Found(d, n))),
         UNCHANGED <<alive, mid, trap, pmem, runs>>
  PROVE  ModulesInv'
<1>1. Used(alive) \subseteq Mid
  BY UsedTypes DEF ModulesInv, ProcTypes
<1>2. /\ Good(d') /\ KeepsData(d, d', Block) /\ KeepsModules(d, d', Mid)
  BY FoundThere, LinkedGood DEF ModulesInv
<1> QED BY <1>1, <1>2, KeepsOn, NobodyChanges

LEMMA LoadInv ==
  ASSUME Followed = {}, ModulesInv, NEW p \in Proc, NEW n \in Name, Load(p, n)
  PROVE  ModulesInv'
<1>1. Used(alive) \subseteq Mid
  BY UsedTypes DEF ModulesInv, ProcTypes
<1>2. Loads(d, Loaded(d, n), n)
  BY LoadedLoads DEF ModulesInv
<1>3. d' = Loaded(d, n).dir /\ UNCHANGED <<alive, mid, trap, pmem, runs>>
  BY DEF Load
<1>4. Good(d') /\ KeepsData(d, d', Block) /\ KeepsModules(d, d', Mid)
  BY <1>2, <1>3 DEF Loads
<1> QED BY <1>1, <1>3, <1>4, KeepsOn, NobodyChanges

LEMMA UnLinkInv ==
  ASSUME ModulesInv, NEW p \in Proc, NEW bn \in linked[p], UnLink(p, bn)
  PROVE  ModulesInv'
<1> DEFINE here == {m \in Mid : d.base[m] = bn[1]}
<1>1. Used(alive) \subseteq Mid
  BY UsedTypes DEF ModulesInv, ProcTypes
<1>2. UNCHANGED <<alive, mid, trap, pmem, runs>>
  BY DEF UnLink
<1>3. CASE here = {}
  BY <1>2, <1>3 DEF UnLink, ModulesInv, ProcTypes, Apart, ProcOK
<1>4. CASE here # {}
  <2>1. d' = Unlinked(d, Lowest(here), Used(alive))
    BY <1>4 DEF UnLink
  <2>2. here \subseteq Nat
    BY ModulesAssumption DEF Mid
  <2>3. Lowest(here) \in here
    BY <1>4, <2>2, LowestFits
  <2>4. Lowest(here) \in Mid
    BY <2>3
  <2> HIDE DEF here
  <2>5. /\ Good(d') /\ KeepsData(d, d', Block)
        /\ KeepsModules(d, d', (Mid \ {Lowest(here)}) \cup (Mid \cap Used(alive)))
    BY <2>1, <2>4, UnlinkedGood DEF ModulesInv
  <2>6. Used(alive) \subseteq (Mid \ {Lowest(here)}) \cup (Mid \cap Used(alive))
    BY <1>1
  <2> QED BY <1>2, <2>5, <2>6, KeepsOn, NobodyChanges
<1> QED BY <1>3, <1>4

\* A new program in p, whose memory is a block that nobody else has.
LEMMA NewProgram ==
  ASSUME ModulesInv, NEW p \in Proc, NEW r, NEW n \in Programs, NEW dir,
         KeepsData(d, dir, Block \ pmem[p]), KeepsModules(d, dir, Used(alive \ {p})),
         Loads(dir, r, n), r.mid # NoMid, DataGot(r),
         d' = Got(r.dir, Data),
         alive' = alive \cup {p},
         mid' = [mid EXCEPT ![p] = r.mid],
         trap' = [trap EXCEPT ![p] = NoTrap],
         pmem' = [pmem EXCEPT ![p] = {Lowest(FreeBlocks(r.dir))}],
         runs' = [runs EXCEPT ![p] = n]
  PROVE  ModulesInv'
<1> DEFINE b == Lowest(FreeBlocks(r.dir))
           r2 == [dir |-> d', mid |-> r.mid]
<1>1. Loads(dir, r2, n) /\ b \in Block /\ d'.heap[b] = Data /\ dir.heap[b] # Data
  BY DataAfterLoad
<1> HIDE DEF b
<1>2. /\ Good(d') /\ KeepsData(dir, d', Block) /\ KeepsModules(dir, d', Mid)
      /\ r.mid \in Mid /\ d'.base[r.mid] # 0 /\ d'.heap[d'.base[r.mid]] = n
  BY <1>1 DEF Loads
<1>3. Used(alive \ {p}) \subseteq Mid /\ n \in Name
  BY UsedTypes, ModulesAssumption DEF ModulesInv, ProcTypes
<1>4. /\ KeepsData(d, d', Block \ pmem[p])
      /\ KeepsModules(d, d', Used(alive \ {p}))
  BY <1>2, <1>3 DEF KeepsData, KeepsModules
<1>5. /\ mid'[p] = r.mid /\ trap'[p] = NoTrap /\ pmem'[p] = {b} /\ runs'[p] = n
      /\ \A q \in Proc \ {p} : SameFor(q)
  BY DEF ModulesInv, ProcTypes, SameFor, b
<1>6. NoTrap \in [mid : Mid \cup {NoMid}, mem : Block \cup {0}]
  BY DEF NoTrap
<1>7. ProcTypes'
  BY <1>1, <1>2, <1>3, <1>6 DEF ModulesInv, ProcTypes, b
<1>8. ProcOK(p)'
  BY <1>1, <1>2, <1>5 DEF ProcOK, NoTrap
<1>9. \A c \in pmem'[p] : c \in pmem[p] \/ d.heap[c] # Data
  BY <1>1, <1>5 DEF KeepsData
<1> QED BY <1>2, <1>4, <1>5, <1>7, <1>8, <1>9, OneChanges

LEMMA ForkInv ==
  ASSUME Followed = {}, ModulesInv, NEW p \in Proc, NEW child \in Proc, NEW n \in Name,
         Fork(p, child, n)
  PROVE  ModulesInv'
<1> DEFINE r == LinkLoad(d, n)
<1>1. Loads(d, r, n)
  BY LinkLoads DEF ModulesInv
<1>2. KeepsData(d, d, Block \ pmem[child]) /\ KeepsModules(d, d, Used(alive \ {child}))
  BY DEF KeepsData, KeepsModules
<1>3. /\ r.mid # NoMid /\ DataGot(r) /\ n \in Programs
      /\ d' = Got(r.dir, Data)
      /\ alive' = alive \cup {child}
      /\ mid' = [mid EXCEPT ![child] = r.mid]
      /\ trap' = [trap EXCEPT ![child] = NoTrap]
      /\ pmem' = [pmem EXCEPT ![child] = {Lowest(FreeBlocks(r.dir))}]
      /\ runs' = [runs EXCEPT ![child] = n]
  BY DEF Fork
<1> HIDE DEF r
<1> QED BY <1>1, <1>2, <1>3, NewProgram

LEMMA ForkFailsInv ==
  ASSUME Followed = {}, ModulesInv, NEW p \in Proc, NEW child \in Proc, NEW n \in Name,
         ForkFails(p, child, n)
  PROVE  ModulesInv'
<1> DEFINE r == LinkLoad(d, n)
<1>1. Loads(d, r, n)
  BY LinkLoads DEF ModulesInv
<1>2. Used(alive) \subseteq Mid
  BY UsedTypes DEF ModulesInv, ProcTypes
<1>3. /\ \/ d' = r.dir
         \/ r.mid # NoMid /\ DataGot(r) /\ d' = Unlinked(Got(r.dir, Data), r.mid, {r.mid})
      /\ UNCHANGED <<alive, mid, trap, pmem, runs>>
  BY DEF ForkFails, procs
<1> HIDE DEF r
<1>4. CASE d' = r.dir
  <2>1. Good(d') /\ KeepsData(d, d', Block) /\ KeepsModules(d, d', Mid)
    BY <1>1, <1>4 DEF Loads
  <2> QED BY <1>2, <1>3, <2>1, KeepsOn, NobodyChanges
<1>5. CASE r.mid # NoMid /\ DataGot(r) /\ d' = Unlinked(Got(r.dir, Data), r.mid, {r.mid})
  <2> DEFINE got == Got(r.dir, Data)
  <2>1. Loads(d, [dir |-> got, mid |-> r.mid], n)
    BY <1>1, <1>5, DataAfterLoad
  <2> HIDE DEF got
  <2>2. Good(got) /\ KeepsData(d, got, Block) /\ KeepsModules(d, got, Mid) /\ r.mid \in Mid
    BY <1>5, <2>1 DEF Loads
  <2>3. d' = Unlinked(got, r.mid, {r.mid})
    BY <1>5 DEF got
  <2>4. (Mid \ {r.mid}) \cup (Mid \cap {r.mid}) = Mid
    BY <2>2
  <2>5. Good(d') /\ KeepsData(got, d', Block) /\ KeepsModules(got, d', Mid)
    BY <2>2, <2>3, <2>4, UnlinkedGood
  <2>6. KeepsData(d, d', Block) /\ KeepsModules(d, d', Mid)
    BY <2>2, <2>5 DEF KeepsData, KeepsModules
  <2> QED BY <1>2, <1>3, <2>5, <2>6, KeepsOn, NobodyChanges
<1> QED BY <1>3, <1>4, <1>5

\* What a process gives up takes nothing from the others.
LEMMA TrapReleasedGood ==
  ASSUME ModulesInv, NEW p \in Proc
  PROVE  /\ Good(TrapReleased(d, p))
         /\ KeepsData(d, TrapReleased(d, p), Block \ {trap[p].mem})
         /\ KeepsModules(d, TrapReleased(d, p), Used(alive))
<1>1. CASE trap[p].mid = NoMid
  BY <1>1 DEF TrapReleased, ModulesInv, KeepsData, KeepsModules
<1>2. CASE trap[p].mid # NoMid
  <2> DEFINE m == trap[p].mid
             rel == Released(d, {trap[p].mem})
  <2>1. TrapReleased(d, p) = Unlinked(rel, m, Used(alive))
    BY <1>2 DEF TrapReleased
  <2>2. \A b \in {trap[p].mem} \cap Block : d.heap[b] = Data
    BY ModulesAssumption DEF ModulesInv, ProcOK, Block
  <2>3. /\ Good(rel) /\ KeepsData(d, rel, Block \ {trap[p].mem}) /\ KeepsModules(d, rel, Mid)
    BY <2>2, ReleasedGood DEF ModulesInv
  <2>4. m \in Mid \cup {NoMid}
    BY DEF ModulesInv, ProcTypes
  <2>5. Used(alive) \subseteq Mid
    BY UsedTypes DEF ModulesInv, ProcTypes
  <2> HIDE DEF m, rel
  <2>6. /\ Good(Unlinked(rel, m, Used(alive)))
        /\ KeepsData(rel, Unlinked(rel, m, Used(alive)), Block)
        /\ KeepsModules(rel, Unlinked(rel, m, Used(alive)),
                        (Mid \ {m}) \cup (Mid \cap Used(alive)))
    BY <2>3, <2>4, UnlinkedGood
  <2> DEFINE new == Unlinked(rel, m, Used(alive))
  <2> HIDE DEF new
  <2>7. KeepsData(d, new, Block \ {trap[p].mem}) /\ KeepsModules(d, new, Used(alive))
    BY <2>3, <2>5, <2>6 DEF KeepsData, KeepsModules, new
  <2> QED BY <2>1, <2>6, <2>7 DEF new
<1> QED BY <1>1, <1>2

\* Trap handler, module and memory, when the modules in used are asked for.
LEMMA GivenUpGood ==
  ASSUME ModulesInv, NEW p \in Proc, NEW used, Used(alive \ {p}) \subseteq used
  PROVE  LET new == Released(Unlinked(TrapReleased(d, p), mid[p], used),
                             pmem[p] \ {trap[p].mem})
         IN /\ Good(new)
            /\ KeepsData(d, new, Block \ pmem[p])
            /\ KeepsModules(d, new, Used(alive \ {p}))
<1> DEFINE a == TrapReleased(d, p)
           b == Unlinked(a, mid[p], used)
           c == Released(b, pmem[p] \ {trap[p].mem})
<1>1. Good(a) /\ KeepsData(d, a, Block \ {trap[p].mem}) /\ KeepsModules(d, a, Used(alive))
  BY TrapReleasedGood
<1>2. mid[p] \in Mid \cup {NoMid} /\ pmem[p] \subseteq Block /\ trap[p].mem \in pmem[p] \cup {0}
  BY DEF ModulesInv, ProcTypes, ProcOK
<1>3. Used(alive \ {p}) \subseteq Mid /\ Used(alive \ {p}) \subseteq Used(alive)
  <2>1. Used(alive \ {p}) \subseteq Mid
    BY UsedTypes DEF ModulesInv, ProcTypes
  <2>2. Used(alive \ {p}) \subseteq Used(alive)
    BY DEF Used
  <2> QED BY <2>1, <2>2
<1> HIDE DEF a
<1>4. /\ Good(b) /\ KeepsData(a, b, Block)
      /\ KeepsModules(a, b, (Mid \ {mid[p]}) \cup (Mid \cap used))
  BY <1>1, <1>2, UnlinkedGood
<1> HIDE DEF b
<1>5. \A x \in pmem[p] : d.heap[x] = Data
  BY DEF ModulesInv, ProcOK
<1>6. \A x \in (pmem[p] \ {trap[p].mem}) \cap Block : b.heap[x] = Data
  BY <1>1, <1>4, <1>5 DEF KeepsData
<1>7. /\ Good(c) /\ KeepsData(b, c, Block \ (pmem[p] \ {trap[p].mem}))
      /\ KeepsModules(b, c, Mid)
  BY <1>4, <1>6, ReleasedGood
<1> HIDE DEF c
<1>8. KeepsData(d, c, Block \ pmem[p])
  <2>1. \A x \in Block \ pmem[p] : x # trap[p].mem
    BY <1>2, ModulesAssumption DEF Block
  <2> QED BY <1>1, <1>4, <1>7, <2>1 DEF KeepsData
<1>9. KeepsModules(d, c, Used(alive \ {p}))
  BY <1>1, <1>3, <1>4, <1>7 DEF KeepsModules
<1> QED BY <1>7, <1>8, <1>9 DEF a, b, c

LEMMA ChainInv ==
  ASSUME Followed = {}, ModulesInv, NEW p \in Proc, NEW n \in Name, Chain(p, n)
  PROVE  ModulesInv'
<1> DEFINE up == GivenUp(p)
           r == LinkLoad(up, n)
<1>1. Used(alive \ {p}) \subseteq Used(alive)
  BY DEF Used
<1>2. Good(up) /\ KeepsData(d, up, Block \ pmem[p]) /\ KeepsModules(d, up, Used(alive \ {p}))
  BY <1>1, GivenUpGood DEF GivenUp
<1>3. /\ p \in alive /\ r.mid # NoMid /\ DataGot(r) /\ n \in Programs
      /\ d' = Got(r.dir, Data)
      /\ mid' = [mid EXCEPT ![p] = r.mid]
      /\ trap' = [trap EXCEPT ![p] = NoTrap]
      /\ pmem' = [pmem EXCEPT ![p] = {Lowest(FreeBlocks(r.dir))}]
      /\ runs' = [runs EXCEPT ![p] = n]
      /\ alive' = alive
  BY DEF Chain
<1> HIDE DEF up
<1>4. Loads(up, r, n)
  BY <1>2, LinkLoads
<1>5. alive' = alive \cup {p}
  BY <1>3
<1> HIDE DEF r
<1> QED BY <1>2, <1>3, <1>4, <1>5, NewProgram

\* The end of p, after which dir is left.
LEMMA DeadInv ==
  ASSUME ModulesInv, NEW p \in Proc, Good(d'), Dead(p),
         KeepsData(d, d', Block \ pmem[p]), KeepsModules(d, d', Used(alive \ {p}))
  PROVE  ModulesInv'
<1>1. /\ p \notin alive' /\ mid'[p] = NoMid /\ trap'[p] = NoTrap /\ pmem'[p] = {}
      /\ \A q \in Proc \ {p} : SameFor(q)
  BY DEF Dead, ModulesInv, ProcTypes, SameFor
<1>2. NoTrap \in [mid : Mid \cup {NoMid}, mem : Block \cup {0}]
  BY DEF NoTrap
<1>3. ProcTypes'
  BY <1>2 DEF Dead, ModulesInv, ProcTypes
<1>4. ProcOK(p)'
  BY <1>1 DEF ProcOK, NoTrap
<1> QED BY <1>1, <1>3, <1>4, OneChanges

LEMMA ExitInv ==
  ASSUME ModulesInv, NEW p \in Proc, Exit(p)
  PROVE  ModulesInv'
<1>1. /\ d' = Released(Unlinked(TrapReleased(d, p), mid[p], Used(alive \ {p})),
                       pmem[p] \ {trap[p].mem})
      /\ Dead(p)
  BY DEF Exit
<1>2. /\ Good(d') /\ KeepsData(d, d', Block \ pmem[p])
      /\ KeepsModules(d, d', Used(alive \ {p}))
  BY <1>1, GivenUpGood
<1> QED BY <1>1, <1>2, DeadInv

LEMMA ChainFailsInv ==
  ASSUME Followed = {}, ModulesInv, NEW p \in Proc, NEW n \in Name, ChainFails(p, n)
  PROVE  ModulesInv'
<1> DEFINE up == GivenUp(p)
           r == LinkLoad(up, n)
           m == IF r.mid = NoMid THEN mid[p] ELSE r.mid
           prepared == IF r.mid # NoMid /\ DataGot(r) /\ n \notin Programs
                       THEN Unlinked(r.dir, r.mid, Used(alive) \cup {r.mid}) ELSE r.dir
           used == Used(alive \ {p})
<1>1. used \subseteq Used(alive) /\ used \subseteq Mid
  <2>1. used \subseteq Mid
    BY UsedTypes DEF ModulesInv, ProcTypes
  <2>2. used \subseteq Used(alive)
    BY DEF Used
  <2> QED BY <2>1, <2>2
<1>2. Good(up) /\ KeepsData(d, up, Block \ pmem[p]) /\ KeepsModules(d, up, used)
  BY <1>1, GivenUpGood DEF GivenUp
<1>3. d' = Unlinked(prepared, m, used) /\ Dead(p)
  BY DEF ChainFails
<1> HIDE DEF up, used
<1>4. Loads(up, r, n)
  BY <1>2, LinkLoads
<1> HIDE DEF r
<1>5. /\ Good(r.dir) /\ KeepsData(up, r.dir, Block) /\ KeepsModules(up, r.dir, Mid)
      /\ r.mid \in Mid \cup {NoMid}
  BY <1>4 DEF Loads
<1>6. m \in Mid \cup {NoMid}
  BY <1>5 DEF ModulesInv, ProcTypes
<1>7. Good(prepared) /\ KeepsData(up, prepared, Block) /\ KeepsModules(up, prepared, used)
  <2> DEFINE all == Used(alive) \cup {r.mid}
             unlinked == Unlinked(r.dir, r.mid, all)
  <2>1. /\ Good(unlinked) /\ KeepsData(r.dir, unlinked, Block)
        /\ KeepsModules(r.dir, unlinked, (Mid \ {r.mid}) \cup (Mid \cap all))
    <3> HIDE DEF all
    <3> QED BY <1>5, UnlinkedGood
  <2>2. used \subseteq (Mid \ {r.mid}) \cup (Mid \cap all)
    BY <1>1
  <2>3. prepared = unlinked \/ prepared = r.dir
    OBVIOUS
  <2> HIDE DEF all, unlinked, prepared
  <2>4. KeepsData(up, unlinked, Block) /\ KeepsModules(up, unlinked, used)
    BY <1>1, <1>5, <2>1, <2>2 DEF KeepsData, KeepsModules
  <2>5. KeepsModules(up, r.dir, used)
    BY <1>1, <1>5, KeepsOn
  <2> QED BY <1>5, <2>1, <2>3, <2>4, <2>5
<1> HIDE DEF m, prepared
<1>8. /\ Good(d') /\ KeepsData(prepared, d', Block)
      /\ KeepsModules(prepared, d', (Mid \ {m}) \cup (Mid \cap used))
  BY <1>3, <1>6, <1>7, UnlinkedGood
<1>9. KeepsData(d, d', Block \ pmem[p]) /\ KeepsModules(d, d', used)
  BY <1>1, <1>2, <1>7, <1>8 DEF KeepsData, KeepsModules
<1> QED BY <1>3, <1>8, <1>9, DeadInv DEF used

LEMMA TLinkInv ==
  ASSUME Followed = {}, ModulesInv, NEW p \in Proc, NEW n \in Name, TLink(p, n)
  PROVE  ModulesInv'
<1> DEFINE r == LinkLoad(d, n)
           b == Lowest(FreeBlocks(r.dir))
<1>1. Loads(d, r, n)
  BY LinkLoads DEF ModulesInv
<1>2. Used(alive) \subseteq Mid /\ Used(alive \ {p}) \subseteq Mid
  BY UsedTypes DEF ModulesInv, ProcTypes
<1>3. p \in alive /\ trap[p].mid = NoMid /\ UNCHANGED <<alive, mid, runs>>
  BY DEF TLink
<1>4. ProcOK(p) /\ mid[p] \in Used(alive)
  BY <1>3, ModulesAssumption DEF ModulesInv, ProcOK, Used, Mid, NoMid
<1>5. CASE r.mid # NoMid /\ DataGot(r)
  <2>1. /\ d' = Got(r.dir, Data)
        /\ trap' = [trap EXCEPT ![p] = [mid |-> r.mid, mem |-> b]]
        /\ pmem' = [pmem EXCEPT ![p] = @ \cup {b}]
    BY <1>5 DEF TLink
  <2>2. /\ Loads(d, [dir |-> d', mid |-> r.mid], n)
        /\ b \in Block /\ d'.heap[b] = Data /\ d.heap[b] # Data
    BY <1>1, <1>5, <2>1, DataAfterLoad
  <2> HIDE DEF r, b
  <2>3. /\ Good(d') /\ KeepsData(d, d', Block) /\ KeepsModules(d, d', Mid)
        /\ r.mid \in Mid /\ d'.base[r.mid] # 0
    BY <1>5, <2>2 DEF Loads
  <2>4. ProcTypes'
    BY <1>3, <2>1, <2>2, <2>3 DEF ModulesInv, ProcTypes
  <2>5. /\ trap'[p] = [mid |-> r.mid, mem |-> b] /\ pmem'[p] = pmem[p] \cup {b}
        /\ \A q \in Proc \ {p} : SameFor(q)
    BY <1>3, <2>1 DEF ModulesInv, ProcTypes, SameFor
  <2>6. pmem[p] \subseteq Block
    BY DEF ModulesInv, ProcTypes
  <2>7. ProcOK(p)'
    BY <1>2, <1>3, <1>4, <2>2, <2>3, <2>5, <2>6 DEF ProcOK, KeepsData, KeepsModules
  <2>8. /\ KeepsData(d, d', Block \ pmem[p]) /\ KeepsModules(d, d', Used(alive \ {p}))
        /\ \A c \in pmem'[p] : c \in pmem[p] \/ d.heap[c] # Data
    BY <1>2, <2>2, <2>3, <2>5 DEF KeepsData, KeepsModules
  <2> QED BY <2>3, <2>4, <2>5, <2>7, <2>8, OneChanges
<1>6. CASE ~(r.mid # NoMid /\ DataGot(r))
  <2>1. d' = r.dir /\ trap' = [trap EXCEPT ![p].mid = r.mid] /\ pmem' = pmem
    BY <1>6 DEF TLink
  <2> HIDE DEF r
  <2>2. /\ Good(d') /\ KeepsData(d, d', Block) /\ KeepsModules(d, d', Mid)
        /\ r.mid \in Mid \cup {NoMid} /\ (r.mid # NoMid => d'.base[r.mid] # 0)
    BY <1>1, <2>1 DEF Loads
  <2>3. ProcTypes'
    BY <1>3, <2>1, <2>2 DEF ModulesInv, ProcTypes
  <2>4. /\ trap'[p].mid = r.mid /\ trap'[p].mem = trap[p].mem
        /\ \A q \in Proc \ {p} : SameFor(q)
    BY <1>3, <2>1 DEF ModulesInv, ProcTypes, SameFor
  <2>5. pmem[p] \subseteq Block
    BY DEF ModulesInv, ProcTypes
  <2>6. ProcOK(p)'
    BY <1>2, <1>3, <1>4, <2>1, <2>2, <2>4, <2>5 DEF ProcOK, KeepsData, KeepsModules
  <2>7. KeepsData(d, d', Block \ pmem[p]) /\ KeepsModules(d, d', Used(alive \ {p}))
    BY <1>2, <2>2 DEF KeepsData, KeepsModules
  <2> QED BY <2>1, <2>2, <2>3, <2>4, <2>6, <2>7, OneChanges
<1> QED BY <1>5, <1>6

LEMMA TUnlinkInv ==
  ASSUME ModulesInv, NEW p \in Proc, TUnlink(p)
  PROVE  ModulesInv'
<1>1. /\ d' = TrapReleased(d, p)
      /\ trap' = [trap EXCEPT ![p] = NoTrap]
      /\ pmem' = [pmem EXCEPT ![p] = @ \ {trap[p].mem}]
      /\ p \in alive /\ UNCHANGED <<alive, mid, runs>>
  BY DEF TUnlink
<1>2. /\ Good(d') /\ KeepsData(d, d', Block \ {trap[p].mem})
      /\ KeepsModules(d, d', Used(alive))
  BY <1>1, TrapReleasedGood
<1>3. /\ trap'[p] = NoTrap /\ pmem'[p] = pmem[p] \ {trap[p].mem}
      /\ \A q \in Proc \ {p} : SameFor(q)
  BY <1>1 DEF ModulesInv, ProcTypes, SameFor
<1>4. NoTrap \in [mid : Mid \cup {NoMid}, mem : Block \cup {0}]
  BY DEF NoTrap
<1>5. ProcTypes'
  BY <1>1, <1>4 DEF ModulesInv, ProcTypes
<1>6. /\ ProcOK(p) /\ mid[p] \in Used(alive) /\ Used(alive \ {p}) \subseteq Used(alive)
      /\ pmem[p] \subseteq Block
  BY <1>1, ModulesAssumption DEF ModulesInv, ProcTypes, ProcOK, Used, Mid, NoMid
<1>7. ProcOK(p)'
  BY <1>1, <1>2, <1>3, <1>6 DEF ProcOK, KeepsData, KeepsModules, NoTrap
<1>8. KeepsData(d, d', Block \ pmem[p]) /\ KeepsModules(d, d', Used(alive \ {p}))
  <2>1. \A x \in Block \ pmem[p] : x # trap[p].mem
    BY <1>6, ModulesAssumption DEF ProcOK, Block
  <2> QED BY <1>2, <1>6, <2>1 DEF KeepsData, KeepsModules
<1> QED BY <1>2, <1>3, <1>5, <1>7, <1>8, OneChanges

LEMMA SRqMemInv ==
  ASSUME ModulesInv, NEW p \in Proc, SRqMem(p)
  PROVE  ModulesInv'
<1> DEFINE b == Lowest(FreeBlocks(d))
<1>1. /\ d' = Got(d, Data) /\ FreeBlocks(d) # {}
      /\ pmem' = [pmem EXCEPT ![p] = @ \cup {b}]
      /\ p \in alive /\ UNCHANGED <<alive, mid, trap, runs>>
  BY DEF SRqMem
<1>2. /\ Good(d') /\ KeepsData(d, d', Block) /\ KeepsModules(d, d', Mid)
      /\ b \in Block /\ d.heap[b] # Data /\ d'.heap[b] = Data
  BY <1>1, GotGood DEF ModulesInv, Free, Data
<1> HIDE DEF b
<1>3. /\ pmem'[p] = pmem[p] \cup {b} /\ \A q \in Proc \ {p} : SameFor(q)
  BY <1>1 DEF ModulesInv, ProcTypes, SameFor
<1>4. ProcTypes'
  BY <1>1, <1>2 DEF ModulesInv, ProcTypes
<1>5. /\ ProcOK(p) /\ pmem[p] \subseteq Block /\ trap[p].mid \in Mid \cup {NoMid}
  BY DEF ModulesInv, ProcTypes
<1>6. ProcOK(p)'
  BY <1>1, <1>2, <1>3, <1>5 DEF ProcOK, KeepsData, KeepsModules
<1>7. Used(alive \ {p}) \subseteq Mid
  BY UsedTypes DEF ModulesInv, ProcTypes
<1>8. /\ KeepsData(d, d', Block \ pmem[p]) /\ KeepsModules(d, d', Used(alive \ {p}))
      /\ \A c \in pmem'[p] : c \in pmem[p] \/ d.heap[c] # Data
  BY <1>2, <1>3, <1>7 DEF KeepsData, KeepsModules
<1> QED BY <1>2, <1>3, <1>4, <1>6, <1>8, OneChanges

LEMMA SRtMemInv ==
  ASSUME ModulesInv, NEW p \in Proc, NEW b \in Block, SRtMem(p, b)
  PROVE  ModulesInv'
<1>1. /\ d' = Released(d, {b}) /\ b \in pmem[p] /\ b # trap[p].mem
      /\ pmem' = [pmem EXCEPT ![p] = @ \ {b}]
      /\ p \in alive /\ UNCHANGED <<alive, mid, trap, runs>>
  BY DEF SRtMem
<1>2. ProcOK(p) /\ pmem[p] \subseteq Block /\ trap[p].mid \in Mid \cup {NoMid}
  BY DEF ModulesInv, ProcTypes
<1>3. /\ Good(d') /\ KeepsData(d, d', Block \ {b}) /\ KeepsModules(d, d', Mid)
  <2>1. \A x \in {b} \cap Block : d.heap[x] = Data
    BY <1>1, <1>2 DEF ProcOK
  <2> QED BY <1>1, <2>1, ReleasedGood DEF ModulesInv
<1>4. /\ pmem'[p] = pmem[p] \ {b} /\ \A q \in Proc \ {p} : SameFor(q)
  BY <1>1 DEF ModulesInv, ProcTypes, SameFor
<1>5. ProcTypes'
  BY <1>1 DEF ModulesInv, ProcTypes
<1>6. ProcOK(p)'
  BY <1>1, <1>2, <1>3, <1>4 DEF ProcOK, KeepsData, KeepsModules
<1>7. Used(alive \ {p}) \subseteq Mid
  BY UsedTypes DEF ModulesInv, ProcTypes
<1>8. /\ KeepsData(d, d', Block \ pmem[p]) /\ KeepsModules(d, d', Used(alive \ {p}))
      /\ \A c \in pmem'[p] : c \in pmem[p] \/ d.heap[c] # Data
  BY <1>1, <1>3, <1>4, <1>7 DEF KeepsData, KeepsModules
<1> QED BY <1>3, <1>4, <1>5, <1>6, <1>8, OneChanges

-----------------------------------------------------------------------------
(* The theorems                                                            *)

LEMMA NextInv ==
  ASSUME Followed = {}
  PROVE  ModulesInv /\ [Next]_vars => ModulesInv'
<1> SUFFICES ASSUME ModulesInv, [Next]_vars PROVE ModulesInv'
  OBVIOUS
<1>1. ASSUME NEW p \in Proc, NEW n \in Name, Link(p, n) \/ LinkMismatch(p, n) PROVE ModulesInv'
  <2>1. /\ Found(d, n) # {} /\ d' = Linked(d, Lowest(Found(d, n)))
        /\ UNCHANGED <<alive, mid, trap, pmem, runs>>
    BY <1>1 DEF Link, LinkMismatch, procs
  <2> QED BY <2>1, LinkInv
<1>2. ASSUME UNCHANGED vars PROVE ModulesInv'
  BY <1>2 DEF vars, procs, ModulesInv, ProcTypes, Apart, ProcOK
<1> QED BY <1>1, <1>2, LoadInv, UnLinkInv, ForkInv, ForkFailsInv, ChainInv, ChainFailsInv,
           ExitInv, TLinkInv, TUnlinkInv, SRqMemInv, SRtMemInv DEF Next, Call

LEMMA AlwaysInv ==
  ASSUME Followed = {}
  PROVE  Spec => []ModulesInv
<1>1. ModulesInv /\ [Next]_vars => ModulesInv'
  BY NextInv
<1> QED BY <1>1, InitInv, PTL DEF Spec

\* Every variable keeps its type in all behaviours; an entry of the directory has a link
\* as long as it has a module.
THEOREM ModulesTypeCorrect ==
  ASSUME Followed = {}
  PROVE  Spec => []ModulesTypeOK
<1>1. ModulesInv => ModulesTypeOK
  BY DEF ModulesInv, Good, DirType, ProcTypes, ModulesTypeOK
<1> QED BY <1>1, AlwaysInv, PTL

\* No block of memory has two owners or is released while it has one.
THEOREM OwnersAlone ==
  ASSUME Followed = {}
  PROVE  Spec => []OwnedOnce
<1>1. ModulesInv => OwnedOnce
  BY DEF ModulesInv, Good, Apart, ProcOK, OwnedOnce
<1> QED BY <1>1, AlwaysInv, PTL

\* A module that a process runs or has as trap handler stays.
THEOREM ProgramsStay ==
  ASSUME Followed = {}
  PROVE  Spec => []InUseStays
<1>1. ModulesInv => InUseStays
  BY DEF ModulesInv, ProcTypes, ProcOK, InUseStays
<1> QED BY <1>1, AlwaysInv, PTL

-----------------------------------------------------------------------------
(* Links.  A link that somebody has to give back is a pair of its owner and *)
(* the module; the link count is enough when it counts all of these.        *)

Of(C, m) == {c \in C : c[2] = m}
Enough(dir, C) ==
    /\ IsFiniteSet(C)
    /\ \A c \in C : c[2] \in Mid
    /\ \A m \in Mid : Cardinality(Of(C, m)) <= dir.linkcount[m]

\* The modules that somebody has a link of.
Held(C) == {c[2] : c \in C}

LEMMA OfFinite ==
  ASSUME NEW C, IsFiniteSet(C), NEW m
  PROVE  IsFiniteSet(Of(C, m)) /\ Cardinality(Of(C, m)) \in Nat
<1>1. Of(C, m) \in SUBSET C
  BY DEF Of
<1> QED BY <1>1, FS_Subset, FS_CardinalityType

\* Of what somebody has a link there is a module.
LEMMA HeldThere ==
  ASSUME NEW dir, Good(dir), NEW C, Enough(dir, C), NEW m \in Held(C)
  PROVE  m \in Mid /\ dir.base[m] # 0
<1>1. m \in Mid /\ Of(C, m) # {}
  BY DEF Held, Enough, Of
<1>2. Cardinality(Of(C, m)) \in Nat /\ Cardinality(Of(C, m)) # 0
  BY <1>1, OfFinite, FS_EmptySet DEF Enough
<1>3. dir.linkcount[m] \in Nat /\ Cardinality(Of(C, m)) <= dir.linkcount[m]
  BY <1>1 DEF Enough, Good, DirType
<1> QED BY <1>1, <1>2, <1>3 DEF Good

LEMMA EnoughSame ==
  ASSUME NEW dir, NEW new, NEW C, Enough(dir, C), new.linkcount = dir.linkcount
  PROVE  Enough(new, C)
BY DEF Enough

\* One more link.
LEMMA LinkedEnough ==
  ASSUME NEW dir, Good(dir), NEW new, NEW C, Enough(dir, C), NEW m \in Mid, NEW o,
         new.linkcount = [dir.linkcount EXCEPT ![m] = dir.linkcount[m] + 1]
  PROVE  Enough(new, C) /\ Enough(new, C \cup {<<o, m>>})
<1>1. dir.linkcount \in [Mid -> Nat]
  BY DEF Good, DirType
<1>2. IsFiniteSet(C \cup {<<o, m>>})
  BY FS_AddElement DEF Enough
<1>3. ASSUME NEW k \in Mid
      PROVE  /\ Cardinality(Of(C, k)) <= new.linkcount[k]
             /\ Cardinality(Of(C \cup {<<o, m>>}, k)) <= new.linkcount[k]
  <2>1. IsFiniteSet(Of(C, k)) /\ Cardinality(Of(C, k)) \in Nat
        /\ Cardinality(Of(C, k)) <= dir.linkcount[k]
    BY OfFinite DEF Enough
  <2>2. CASE k = m
    <3>1. Of(C \cup {<<o, m>>}, k) = Of(C, k) \cup {<<o, m>>}
      BY <2>2 DEF Of
    <3>2. \/ Cardinality(Of(C, k) \cup {<<o, m>>}) = Cardinality(Of(C, k))
          \/ Cardinality(Of(C, k) \cup {<<o, m>>}) = Cardinality(Of(C, k)) + 1
      BY <2>1, FS_AddElement
    <3>4. \/ Cardinality(Of(C \cup {<<o, m>>}, k)) = Cardinality(Of(C, k))
          \/ Cardinality(Of(C \cup {<<o, m>>}, k)) = Cardinality(Of(C, k)) + 1
      BY <3>1, <3>2
    <3>3. new.linkcount[k] = dir.linkcount[k] + 1 /\ dir.linkcount[k] \in Nat
      BY <1>1, <2>2
    <3> QED BY <2>1, <3>3, <3>4
  <2>3. CASE k # m
    <3>1. Of(C \cup {<<o, m>>}, k) = Of(C, k)
      BY <2>3 DEF Of
    <3> QED BY <1>1, <2>1, <2>3, <3>1
  <2> QED BY <2>2, <2>3
<1> QED BY <1>2, <1>3 DEF Enough

\* One link is given back.
LEMMA UnlinkedEnough ==
  ASSUME NEW dir, Good(dir), NEW C, Enough(dir, C), NEW o, NEW m \in Mid, <<o, m>> \in C, NEW used
  PROVE  LET new == Unlinked(dir, m, used) IN
         /\ Enough(new, C \ {<<o, m>>})
         /\ KeepsModules(dir, new, Held(C \ {<<o, m>>}))
<1> DEFINE new == Unlinked(dir, m, used)
           D == C \ {<<o, m>>}
<1>1. IsFiniteSet(C) /\ IsFiniteSet(D) /\ \A c \in D : c[2] \in Mid
  BY FS_RemoveElement DEF Enough
<1>2. dir.base[m] # 0 /\ m # NoMid
  <2>1. m \in Held(C)
    BY DEF Held
  <2> QED BY <2>1, HeldThere, ModulesAssumption DEF Mid, NoMid
<1>3. /\ dir.linkcount \in [Mid -> Nat]
      /\ \A k \in Mid : Cardinality(Of(C, k)) <= dir.linkcount[k]
  BY DEF Good, DirType, Enough
<1>4. \A k \in Mid \ {m} : Of(D, k) = Of(C, k)
  BY DEF Of
<1>5. /\ Of(D, m) = Of(C, m) \ {<<o, m>>} /\ <<o, m>> \in Of(C, m)
  BY DEF Of
<1>6. \A k \in Mid : Cardinality(Of(C, k)) \in Nat /\ Cardinality(Of(D, k)) \in Nat
  BY <1>1, OfFinite
<1>7. Cardinality(Of(D, m)) = Cardinality(Of(C, m)) - 1
  <2>1. IsFiniteSet(Of(C, m))
    BY <1>1, OfFinite
  <2> QED BY <1>5, <2>1, FS_RemoveElement
<1> HIDE DEF D
<1>8. CASE dir.linkcount[m] > 1
  <2>1. new = [dir EXCEPT !.linkcount[m] = @ - 1]
    BY <1>2, <1>8 DEF Unlinked
  <2> HIDE DEF new
  <2>2. /\ new.heap = dir.heap /\ new.base = dir.base
        /\ new.linkcount = [dir.linkcount EXCEPT ![m] = @ - 1]
    BY <2>1 DEF Good, DirType
  <2>3. \A k \in Mid : Cardinality(Of(D, k)) <= new.linkcount[k]
    BY <1>3, <1>4, <1>6, <1>7, <2>2
  <2>4. Enough(new, D)
    BY <1>1, <2>3 DEF Enough
  <2>5. KeepsModules(dir, new, Held(D))
    BY <2>2 DEF KeepsModules
  <2> QED BY <2>4, <2>5 DEF new, D
<1>9. CASE ~(dir.linkcount[m] > 1) /\ m \in used
  <2>1. new = dir
    BY <1>2, <1>9 DEF Unlinked
  <2> HIDE DEF new
  <2>2. \A k \in Mid : Cardinality(Of(D, k)) <= dir.linkcount[k]
    BY <1>3, <1>4, <1>6, <1>7
  <2>3. Enough(new, D) /\ KeepsModules(dir, new, Held(D))
    BY <1>1, <2>1, <2>2 DEF Enough, KeepsModules
  <2> QED BY <2>3 DEF new, D
<1>10. CASE ~(dir.linkcount[m] > 1) /\ m \notin used
  <2>1. new = ModuleReleased(dir, m)
    BY <1>2, <1>10 DEF Unlinked
  <2>2. new.linkcount = [dir.linkcount EXCEPT ![m] = 0]
    BY <2>1 DEF ModuleReleased
  <2>3. KeepsModules(dir, new, Mid \ {m})
    BY <1>2, <2>1, ModuleReleasedGood
  <2> HIDE DEF new
  <2>4. Cardinality(Of(D, m)) = 0
    BY <1>3, <1>6, <1>7, <1>10
  <2>5. Of(D, m) = {}
    BY <1>1, <2>4, OfFinite, FS_EmptySet
  <2>6. \A k \in Mid : Cardinality(Of(D, k)) <= new.linkcount[k]
    BY <1>3, <1>4, <1>6, <2>2, <2>4
  <2>7. Enough(new, D)
    BY <1>1, <2>6 DEF Enough
  <2>8. Held(D) \subseteq Mid \ {m}
    BY <1>1, <2>5 DEF Held, Of
  <2>9. KeepsModules(dir, new, Held(D))
    BY <2>3, <2>8 DEF KeepsModules
  <2> QED BY <2>7, <2>9 DEF new, D
<1> QED BY <1>8, <1>9, <1>10

\* A search links the module that it finds.
LEMMA LinkLoadEnough ==
  ASSUME Followed = {}, NEW dir, Good(dir), NEW C, Enough(dir, C), NEW o, NEW n \in Name,
         NEW r, r = LinkLoad(dir, n) \/ r = Loaded(dir, n)
  PROVE  /\ Enough(r.dir, C)
         /\ r.mid # NoMid => Enough(r.dir, C \cup {<<o, r.mid>>})
<1>1. CASE r = [dir |-> dir, mid |-> NoMid]
  BY <1>1
<1>2. CASE /\ Found(dir, n) # {}
           /\ r = [dir |-> Linked(dir, Lowest(Found(dir, n))), mid |-> Lowest(Found(dir, n))]
  <2>1. PICK m \in Mid : m = Lowest(Found(dir, n))
    BY <1>2, FoundThere
  <2>2. r.dir = Linked(dir, m) /\ r.mid = m
    BY <1>2, <2>1
  <2>3. Linked(dir, m).linkcount = [dir.linkcount EXCEPT ![m] = dir.linkcount[m] + 1]
    BY DEF Linked, Good, DirType
  <2>4. Enough(Linked(dir, m), C) /\ Enough(Linked(dir, m), C \cup {<<o, m>>})
    BY <2>3, LinkedEnough
  <2> QED BY <2>2, <2>4
<1>3. CASE /\ ~(n \notin Disk \/ FreeMids(dir) = {} \/ FreeBlocks(dir) = {})
           /\ Found(dir, n) = {}
           /\ r = Loaded(dir, n)
  <2> DEFINE m == Lowest(FreeMids(dir))
             b == Lowest(FreeBlocks(dir))
             got == Got(dir, n)
             new == Entered(got, m, b)
  <2>1. r.dir = new /\ r.mid = m
    BY <1>3 DEF Loaded
  <2>2. FreeMids(dir) \subseteq Nat
    BY ModulesAssumption DEF FreeMids, Mid
  <2>3. m \in FreeMids(dir)
    BY <1>3, <2>2, LowestFits
  <2>4. m \in Mid /\ dir.base[m] = 0 /\ dir.linkcount[m] = 0
    BY <2>3 DEF FreeMids, Good
  <2>5. got.linkcount = dir.linkcount
    BY <1>3, GotGood
  <2> HIDE DEF m, b, got
  <2>6. new.linkcount = [dir.linkcount EXCEPT ![m] = dir.linkcount[m] + 1]
    BY <2>4, <2>5 DEF Entered
  <2> HIDE DEF new
  <2>7. Enough(new, C) /\ Enough(new, C \cup {<<o, m>>})
    BY <2>4, <2>6, LinkedEnough
  <2> QED BY <2>1, <2>7
<1>4. r = LinkLoad(dir, n) => r = Loaded(dir, n) \/ Found(dir, n) # {}
  BY DEF LinkLoad
<1>5. CASE r = Loaded(dir, n)
  BY <1>1, <1>2, <1>3, <1>5 DEF Loaded
<1> QED BY <1>2, <1>4, <1>5 DEF LinkLoad

-----------------------------------------------------------------------------
(* As long as no F$Chain has failed the link counts are enough for the links *)
(* that processes have to give back: of their program, of their trap handler *)
(* and of the modules they have linked.                                      *)

RunsCovered(q, C) ==
    q \in alive => /\ <<<<q, 1>>, mid[q]>> \in C
                   /\ trap[q].mid # NoMid => <<<<q, 2>>, trap[q].mid>> \in C
LinksCovered(q, C) ==
    \A bn \in linked[q] : \E m \in Mid : bn = Named(d, m) /\ <<<<q, 3>>, m>> \in C

Covers(C) == Enough(d, C) /\ \A q \in Proc : RunsCovered(q, C) /\ LinksCovered(q, C)

LinkedType == linked \in [Proc -> SUBSET ((0 .. MaxBlocks) \X (Name \cup {Free, Data}))]

LinksInv == LinkedType /\ (failed \/ \E C : Covers(C))

LEMMA NamedType ==
  ASSUME NEW dir, Good(dir), NEW m \in Mid, dir.base[m] # 0
  PROVE  Named(dir, m) \in (0 .. MaxBlocks) \X (Name \cup {Free, Data})
BY DEF Good, DirType, Named

\* A process keeps the links it has.
LEMMA RunsStill ==
  ASSUME NEW q \in Proc, NEW C, RunsCovered(q, C), NEW D,
         \A i \in {1, 2}, m \in Mid \cup {NoMid} : <<<<q, i>>, m>> \in C => <<<<q, i>>, m>> \in D,
         ProcTypes, mid'[q] = mid[q], trap'[q] = trap[q], q \in alive' => q \in alive
  PROVE  RunsCovered(q, D)'
BY DEF RunsCovered, ProcTypes

LEMMA LinksStill ==
  ASSUME Good(d), NEW q \in Proc, NEW C, Enough(d, C), LinksCovered(q, C), NEW D,
         \A m \in Mid : <<<<q, 3>>, m>> \in C => <<<<q, 3>>, m>> \in D,
         linked'[q] \subseteq linked[q], KeepsModules(d, d', Held(D))
  PROVE  LinksCovered(q, D)'
<1>1. ASSUME NEW bn \in linked'[q]
      PROVE  \E m \in Mid : bn = Named(d', m) /\ <<<<q, 3>>, m>> \in D
  <2>1. PICK m \in Mid : bn = Named(d, m) /\ <<<<q, 3>>, m>> \in C
    BY <1>1 DEF LinksCovered
  <2>2. <<<<q, 3>>, m>> \in D /\ m \in Held(D) /\ m \in Held(C)
    BY <2>1 DEF Held
  <2>3. d.base[m] # 0
    BY <2>2, HeldThere
  <2>4. Named(d', m) = Named(d, m)
    BY <2>2, <2>3 DEF KeepsModules, Named
  <2> QED BY <2>1, <2>2, <2>4
<1> QED BY <1>1 DEF LinksCovered

\* Only what p has is changed.
LEMMA OthersCovered ==
  ASSUME ModulesInv, NEW p \in Proc, NEW C, Covers(C), NEW D,
         \A q \in Proc \ {p}, i \in {1, 2, 3}, m \in Mid \cup {NoMid} :
             <<<<q, i>>, m>> \in C => <<<<q, i>>, m>> \in D,
         \A q \in Proc \ {p} : /\ mid'[q] = mid[q] /\ trap'[q] = trap[q]
                               /\ linked'[q] \subseteq linked[q] /\ (q \in alive' => q \in alive),
         KeepsModules(d, d', Held(D)), Enough(d', D),
         RunsCovered(p, D)', LinksCovered(p, D)'
  PROVE  Covers(D)'
<1>1. ASSUME NEW q \in Proc \ {p} PROVE RunsCovered(q, D)' /\ LinksCovered(q, D)'
  <2>1. RunsCovered(q, C) /\ LinksCovered(q, C) /\ Enough(d, C) /\ Good(d) /\ ProcTypes
    BY DEF Covers, ModulesInv
  <2>2. RunsCovered(q, D)'
    BY <2>1, RunsStill
  <2>3. LinksCovered(q, D)'
    BY <2>1, LinksStill
  <2> QED BY <2>2, <2>3
<1> QED BY <1>1 DEF Covers

\* A step by which no link is given back and no process changes.
LEMMA AllCovered ==
  ASSUME ModulesInv, NEW C, Covers(C), NEW D, C \subseteq D, Enough(d', D),
         KeepsModules(d, d', Mid),
         \A q \in Proc : /\ mid'[q] = mid[q] /\ trap'[q].mid = trap[q].mid
                         /\ linked'[q] = linked[q] /\ (q \in alive' => q \in alive)
  PROVE  Covers(D)'
<1>1. KeepsModules(d, d', Held(D))
  BY DEF Enough, Held, KeepsModules
<1>2. ASSUME NEW q \in Proc PROVE RunsCovered(q, D)' /\ LinksCovered(q, D)'
  <2>1. RunsCovered(q, C) /\ LinksCovered(q, C) /\ Enough(d, C) /\ Good(d)
    BY DEF Covers, ModulesInv
  <2>2. RunsCovered(q, D)'
    BY <2>1 DEF RunsCovered
  <2>3. LinksCovered(q, D)'
    BY <1>1, <2>1, LinksStill
  <2> QED BY <2>2, <2>3
<1> QED BY <1>2 DEF Covers

LEMMA InitLinks == Init => LinksInv
<1> SUFFICES ASSUME Init PROVE LinksInv
  OBVIOUS
<1> DEFINE c == <<<<first, 1>>, 1>>
           C == {c}
<1>1. Good(d) /\ 1 \in Mid
  BY InitInv, ModulesAssumption DEF ModulesInv, Mid
<1>2. d.linkcount \in [Mid -> Nat] /\ d.linkcount[1] = 1
  BY <1>1 DEF Init, Good, DirType
<1>3. IsFiniteSet(C) /\ Cardinality(C) = 1
  BY FS_Singleton
<1>4. ASSUME NEW m \in Mid PROVE Cardinality(Of(C, m)) <= d.linkcount[m]
  <2>1. CASE m = 1
    <3>1. Of(C, m) = C
      BY <2>1 DEF Of
    <3> QED BY <1>2, <1>3, <2>1, <3>1
  <2>2. CASE m # 1
    <3>1. Of(C, m) = {} /\ Cardinality({}) = 0
      BY <2>2, FS_EmptySet DEF Of
    <3>2. Cardinality(Of(C, m)) = 0
      BY <3>1
    <3> QED BY <1>2, <3>2
  <2> QED BY <2>1, <2>2
<1>5. Enough(d, C)
  BY <1>1, <1>3, <1>4 DEF Enough
<1>6. ASSUME NEW q \in Proc PROVE RunsCovered(q, C) /\ LinksCovered(q, C)
  BY DEF Init, RunsCovered, LinksCovered, NoTrap
<1>7. LinkedType
  BY DEF Init, LinkedType
<1> QED BY <1>5, <1>6, <1>7 DEF LinksInv, Covers

\* F$Link and F$Load: a link for p, when there is a module.
LEMMA LinkLinks ==
  ASSUME ModulesInv, LinkedType, NEW C, Covers(C), NEW p \in Proc, NEW m \in Mid,
         Good(d'), d'.base[m] # 0, KeepsModules(d, d', Mid), Enough(d', C \cup {<<<<p, 3>>, m>>}),
         linked' = [linked EXCEPT ![p] = linked[p] \cup {Named(d', m)}],
         UNCHANGED <<alive, mid, trap>>
  PROVE  LinkedType' /\ \E D : Covers(D)'
<1> DEFINE D == C \cup {<<<<p, 3>>, m>>}
<1>1. Named(d', m) \in (0 .. MaxBlocks) \X (Name \cup {Free, Data})
  BY NamedType
<1>2. LinkedType'
  BY <1>1 DEF LinkedType
<1>3. linked'[p] = linked[p] \cup {Named(d', m)} /\ \A q \in Proc \ {p} : linked'[q] = linked[q]
  BY DEF LinkedType
<1>4. Good(d) /\ Enough(d, C) /\ RunsCovered(p, C) /\ LinksCovered(p, C) /\ ProcTypes
  BY DEF Covers, ModulesInv
<1>5. KeepsModules(d, d', Held(D)) /\ <<<<p, 3>>, m>> \in D /\ C \subseteq D
  BY DEF Enough, Held, KeepsModules
<1> HIDE DEF D
<1>6. RunsCovered(p, D)'
  BY <1>4, <1>5 DEF RunsCovered
<1>7. LinksCovered(p, D)'
  <2>1. ASSUME NEW bn \in linked[p]
        PROVE  \E k \in Mid : bn = Named(d', k) /\ <<<<p, 3>>, k>> \in D
    <3>1. PICK k \in Mid : bn = Named(d, k) /\ <<<<p, 3>>, k>> \in C
      BY <1>4, <2>1 DEF LinksCovered
    <3>2. k \in Held(C)
      BY <3>1 DEF Held
    <3>3. d.base[k] # 0
      BY <1>4, <3>2, HeldThere
    <3>4. Named(d', k) = Named(d, k)
      BY <3>3 DEF KeepsModules, Named
    <3> QED BY <1>5, <3>1, <3>4
  <2> QED BY <1>3, <1>5, <2>1 DEF LinksCovered
<1>8. Enough(d', D)
  BY DEF D
<1>9. Covers(D)'
  BY <1>3, <1>5, <1>6, <1>7, <1>8, OthersCovered
<1> QED BY <1>2, <1>9

\* F$Link.
LEMMA LinkStepLinks ==
  ASSUME ModulesInv, LinkedType, NEW C, Covers(C), NEW p \in Proc, NEW n \in Name, Link(p, n)
  PROVE  LinkedType' /\ \E D : Covers(D)'
<1>1. PICK m \in Mid : m = Lowest(Found(d, n)) /\ d.base[m] # 0
  BY FoundThere DEF Link
<1>2. /\ d' = Linked(d, m) /\ UNCHANGED <<alive, mid, trap>>
      /\ linked' = [linked EXCEPT ![p] = linked[p] \cup {Named(d, m)}]
  BY <1>1 DEF Link
<1>3. Good(d') /\ KeepsModules(d, d', Mid)
  BY <1>1, <1>2, LinkedGood DEF ModulesInv
<1>4. Named(d', m) = Named(d, m) /\ d'.base[m] # 0
  BY <1>1, <1>3 DEF KeepsModules, Named
<1>5. d'.linkcount = [d.linkcount EXCEPT ![m] = d.linkcount[m] + 1]
  BY <1>2 DEF Linked, ModulesInv, Good, DirType
<1>6. Enough(d', C \cup {<<<<p, 3>>, m>>})
  BY <1>5, LinkedEnough DEF Covers, ModulesInv
<1> QED BY <1>2, <1>3, <1>4, <1>6, LinkLinks

\* F$Link of a module of another type leaves a link that nobody will give back.
LEMMA MismatchLinks ==
  ASSUME ModulesInv, NEW C, Covers(C), NEW p \in Proc, NEW n \in Name, LinkMismatch(p, n)
  PROVE  \E D : Covers(D)'
<1>1. PICK m \in Mid : m = Lowest(Found(d, n)) /\ d.base[m] # 0
  BY FoundThere DEF LinkMismatch
<1>2. d' = Linked(d, m) /\ UNCHANGED procs
  BY <1>1 DEF LinkMismatch
<1>3. KeepsModules(d, d', Mid)
  BY <1>1, <1>2, LinkedGood DEF ModulesInv
<1>4. d'.linkcount = [d.linkcount EXCEPT ![m] = d.linkcount[m] + 1]
  BY <1>2 DEF Linked, ModulesInv, Good, DirType
<1>5. Enough(d', C)
  BY <1>4, LinkedEnough DEF Covers, ModulesInv
<1> QED BY <1>2, <1>3, <1>5, AllCovered DEF procs

\* F$Load.
LEMMA LoadLinks ==
  ASSUME Followed = {}, ModulesInv, LinkedType, NEW C, Covers(C), NEW p \in Proc,
         NEW n \in Name, Load(p, n)
  PROVE  LinkedType' /\ \E D : Covers(D)'
<1> DEFINE r == Loaded(d, n)
<1>1. Loads(d, r, n)
  BY LoadedLoads DEF ModulesInv
<1>2. Enough(r.dir, C) /\ (r.mid # NoMid => Enough(r.dir, C \cup {<<<<p, 3>>, r.mid>>}))
  BY LinkLoadEnough DEF ModulesInv, Covers
<1>3. /\ d' = r.dir /\ UNCHANGED <<alive, mid, trap>>
      /\ linked' = [linked EXCEPT ![p] = IF r.mid = NoMid THEN linked[p]
                                         ELSE linked[p] \cup {Named(r.dir, r.mid)}]
  BY DEF Load
<1> HIDE DEF r
<1>4. Good(d') /\ KeepsModules(d, d', Mid)
  BY <1>1, <1>3 DEF Loads
<1>5. CASE r.mid = NoMid
  <2>1. linked' = linked
    BY <1>3, <1>5 DEF LinkedType
  <2> QED BY <1>2, <1>3, <1>4, <2>1, AllCovered DEF LinkedType
<1>6. CASE r.mid # NoMid
  <2>1. PICK m \in Mid : m = r.mid
    BY <1>1, <1>6 DEF Loads
  <2>2. /\ d'.base[m] # 0 /\ Enough(d', C \cup {<<<<p, 3>>, m>>})
        /\ linked' = [linked EXCEPT ![p] = linked[p] \cup {Named(d', m)}]
    BY <1>1, <1>2, <1>3, <1>6, <2>1 DEF Loads
  <2> QED BY <1>3, <1>4, <2>2, LinkLinks
<1> QED BY <1>5, <1>6

\* F$UnLink and F$UnLoad give back the link of the module that is named.
LEMMA UnLinkLinks ==
  ASSUME ModulesInv, LinkedType, NEW C, Covers(C), NEW p \in Proc, NEW bn \in linked[p],
         UnLink(p, bn)
  PROVE  LinkedType' /\ \E D : Covers(D)'
<1>0. Good(d) /\ Enough(d, C) /\ RunsCovered(p, C) /\ LinksCovered(p, C) /\ ProcTypes
  BY DEF Covers, ModulesInv
<1>1. PICK m \in Mid : bn = Named(d, m) /\ <<<<p, 3>>, m>> \in C
  BY <1>0 DEF LinksCovered
<1>2. d.base[m] # 0
  <2>1. m \in Held(C)
    BY <1>1 DEF Held
  <2> QED BY <1>0, <2>1, HeldThere
<1>3. bn[1] = d.base[m]
  BY <1>1 DEF Named
<1> DEFINE here == {k \in Mid : d.base[k] = bn[1]}
<1>4. here = {m}
  BY <1>0, <1>2, <1>3 DEF Good
<1>5. Lowest({m}) = m
  BY ModulesAssumption, LowestFits DEF Mid
<1>6. /\ d' = Unlinked(d, m, Used(alive)) /\ UNCHANGED <<alive, mid, trap>>
      /\ linked' = [linked EXCEPT ![p] = linked[p] \ {bn}]
  BY <1>4, <1>5 DEF UnLink
<1> HIDE DEF here
<1> DEFINE D == C \ {<<<<p, 3>>, m>>}
<1>7. Enough(d', D) /\ KeepsModules(d, d', Held(D))
  BY <1>0, <1>1, <1>6, UnlinkedEnough
<1>8. /\ LinkedType' /\ linked'[p] = linked[p] \ {bn}
      /\ \A q \in Proc \ {p} : linked'[q] = linked[q]
  BY <1>6 DEF LinkedType
<1>9. \A q \in Proc, i \in {1, 2, 3}, k \in Mid \cup {NoMid} :
          <<<<q, i>>, k>> \in C /\ ~(q = p /\ i = 3 /\ k = m) => <<<<q, i>>, k>> \in D
  OBVIOUS
<1> HIDE DEF D
<1>10. RunsCovered(p, D)'
  BY <1>0, <1>6, <1>9 DEF RunsCovered, ProcTypes
<1>11. LinksCovered(p, D)'
  <2>1. ASSUME NEW b2 \in linked'[p]
        PROVE  \E k \in Mid : b2 = Named(d', k) /\ <<<<p, 3>>, k>> \in D
    <3>1. b2 \in linked[p] /\ b2 # bn
      BY <1>8, <2>1
    <3>2. PICK k \in Mid : b2 = Named(d, k) /\ <<<<p, 3>>, k>> \in C
      BY <1>0, <3>1 DEF LinksCovered
    <3>3. k # m
      BY <1>1, <3>1, <3>2
    <3>4. <<<<p, 3>>, k>> \in D /\ k \in Held(D) /\ k \in Held(C)
      <4>1. <<<<p, 3>>, k>> \in D
        BY <1>9, <3>2, <3>3
      <4> QED BY <3>2, <4>1 DEF Held
    <3>5. d.base[k] # 0
      BY <1>0, <3>4, HeldThere
    <3>6. Named(d', k) = Named(d, k)
      BY <1>7, <3>4, <3>5 DEF KeepsModules, Named
    <3> QED BY <3>2, <3>4, <3>6
  <2> QED BY <2>1 DEF LinksCovered
<1>12. Covers(D)'
  BY <1>6, <1>7, <1>8, <1>9, <1>10, <1>11, OthersCovered
<1> QED BY <1>8, <1>12

\* A step after which p runs another module: its new link is counted.
LEMMA ProgramLinks ==
  ASSUME ModulesInv, LinkedType, NEW C, Covers(C), NEW p \in Proc, NEW dir, NEW D,
         D \subseteq C,
         \A q \in Proc, i \in {1, 2, 3}, k \in Mid \cup {NoMid} :
             <<<<q, i>>, k>> \in C /\ ~(q = p /\ i \in {1, 2}) => <<<<q, i>>, k>> \in D,
         Enough(dir, D), Good(dir), KeepsModules(d, dir, Held(D)),
         NEW r, NEW n, Loads(dir, r, n), r.mid # NoMid, DataGot(r),
         Enough(r.dir, D \cup {<<<<p, 1>>, r.mid>>}),
         d' = Got(r.dir, Data),
         \A q \in Proc \ {p} : /\ mid'[q] = mid[q] /\ trap'[q] = trap[q]
                               /\ (q \in alive' => q \in alive),
         mid'[p] = r.mid, trap'[p] = NoTrap, linked' = linked
  PROVE  LinkedType' /\ \E E : Covers(E)'
<1> DEFINE E == D \cup {<<<<p, 1>>, r.mid>>}
<1>1. /\ Good(r.dir) /\ KeepsModules(dir, r.dir, Mid) /\ FreeBlocks(r.dir) # {}
      /\ r.mid \in Mid
  BY DEF Loads, DataGot
<1>2. KeepsModules(r.dir, d', Mid) /\ d'.linkcount = r.dir.linkcount
  BY <1>1, GotGood
<1>3. Enough(d', E)
  BY <1>2, EnoughSame
<1>5. KeepsModules(d, d', Held(D))
  <2>1. \A m \in Held(D) : m \in Mid /\ dir.base[m] # 0
    BY HeldThere
  <2> QED BY <1>1, <1>2, <2>1 DEF KeepsModules
<1>6. D \subseteq E /\ <<<<p, 1>>, r.mid>> \in E
  OBVIOUS
<1> HIDE DEF E
<1>7. RunsCovered(p, E)'
  BY <1>6 DEF RunsCovered, NoTrap
<1>8. ASSUME NEW q \in Proc PROVE LinksCovered(q, E)'
  <2>1. LinksCovered(q, C) /\ Good(d) /\ Enough(d, C)
    BY DEF Covers, ModulesInv
  <2>2. LinksCovered(q, D)'
    BY <1>5, <2>1, LinksStill
  <2> QED BY <1>6, <2>2 DEF LinksCovered
<1>9. ASSUME NEW q \in Proc \ {p} PROVE RunsCovered(q, E)'
  <2>1. RunsCovered(q, C) /\ ProcTypes
    BY DEF Covers, ModulesInv
  <2>2. \A i \in {1, 2}, k \in Mid \cup {NoMid} : <<<<q, i>>, k>> \in C => <<<<q, i>>, k>> \in E
    BY <1>6
  <2> QED BY <2>1, <2>2, RunsStill
<1>10. Covers(E)'
  BY <1>3, <1>7, <1>8, <1>9 DEF Covers
<1> QED BY <1>10 DEF LinkedType

\* F$Fork.
LEMMA ForkLinks ==
  ASSUME Followed = {}, ModulesInv, LinkedType, NEW C, Covers(C), NEW p \in Proc,
         NEW child \in Proc, NEW n \in Name, Fork(p, child, n)
  PROVE  LinkedType' /\ \E D : Covers(D)'
<1> DEFINE r == LinkLoad(d, n)
<1>1. Loads(d, r, n) /\ Good(d) /\ Enough(d, C)
  BY LinkLoads DEF ModulesInv, Covers
<1>2. /\ r.mid # NoMid /\ DataGot(r) /\ d' = Got(r.dir, Data)
      /\ alive' = alive \cup {child} /\ mid' = [mid EXCEPT ![child] = r.mid]
      /\ trap' = [trap EXCEPT ![child] = NoTrap] /\ linked' = linked
  BY DEF Fork
<1>3. Enough(r.dir, C \cup {<<<<child, 1>>, r.mid>>})
  BY <1>1, <1>2, LinkLoadEnough
<1> HIDE DEF r
<1>4. /\ mid'[child] = r.mid /\ trap'[child] = NoTrap
      /\ \A q \in Proc \ {child} : /\ mid'[q] = mid[q] /\ trap'[q] = trap[q]
                                   /\ (q \in alive' => q \in alive)
  BY <1>2 DEF ModulesInv, ProcTypes
<1>5. KeepsModules(d, d, Held(C))
  BY DEF KeepsModules
<1> QED BY <1>1, <1>2, <1>3, <1>4, <1>5, ProgramLinks

\* When it fails, either the link stays or it is given back.
LEMMA ForkFailsLinks ==
  ASSUME Followed = {}, ModulesInv, LinkedType, NEW C, Covers(C), NEW p \in Proc,
         NEW child \in Proc, NEW n \in Name, ForkFails(p, child, n)
  PROVE  LinkedType' /\ \E D : Covers(D)'
<1> DEFINE r == LinkLoad(d, n)
           c == <<<<child, 1>>, r.mid>>
<1>1. Loads(d, r, n) /\ Good(d) /\ Enough(d, C)
  BY LinkLoads DEF ModulesInv, Covers
<1>2. Enough(r.dir, C) /\ (r.mid # NoMid => Enough(r.dir, C \cup {c}))
  BY <1>1, LinkLoadEnough
<1>3. /\ child \notin alive /\ UNCHANGED <<alive, mid, trap, linked>>
      /\ \/ d' = r.dir
         \/ r.mid # NoMid /\ DataGot(r) /\ d' = Unlinked(Got(r.dir, Data), r.mid, {r.mid})
  BY DEF ForkFails, procs
<1> HIDE DEF r
<1>4. CASE d' = r.dir
  <2>1. KeepsModules(d, d', Mid) /\ Enough(d', C)
    BY <1>1, <1>2, <1>4 DEF Loads
  <2> QED BY <1>3, <2>1, AllCovered DEF LinkedType
<1>5. CASE r.mid # NoMid /\ DataGot(r) /\ d' = Unlinked(Got(r.dir, Data), r.mid, {r.mid})
  <2> DEFINE got == Got(r.dir, Data)
             E == C \cup {c}
  <2>0. PICK D : D = E \ {c}
    OBVIOUS
  <2>1. /\ Good(got) /\ KeepsModules(r.dir, got, Mid)
        /\ got.linkcount = r.dir.linkcount
    BY <1>1, <1>5, GotGood DEF Loads, DataGot
  <2>2. r.mid \in Mid /\ KeepsModules(d, r.dir, Mid)
    BY <1>1, <1>5 DEF Loads
  <2>3. d' = Unlinked(got, r.mid, {r.mid})
    BY <1>5
  <2> HIDE DEF got
  <2>4. Enough(got, E)
    BY <1>2, <1>5, <2>1, EnoughSame
  <2>5. Enough(d', D) /\ KeepsModules(got, d', Held(D))
    BY <2>0, <2>1, <2>2, <2>3, <2>4, UnlinkedEnough
  <2>6. KeepsModules(d, d', Held(D))
    <3>1. Held(D) \subseteq Mid
      BY <2>5 DEF Enough, Held
    <3> QED BY <2>1, <2>2, <2>5, <3>1 DEF KeepsModules
  <2>7. \A q \in Proc, i \in {1, 2, 3}, m \in Mid \cup {NoMid} :
            <<<<q, i>>, m>> \in C /\ ~(q = child /\ i = 1) => <<<<q, i>>, m>> \in D
    BY <2>0
  <2> HIDE DEF E, c
  <2>8. RunsCovered(child, D)'
    BY <1>3 DEF RunsCovered
  <2>9. LinksCovered(child, D)'
    <3>1. LinksCovered(child, C)
      BY DEF Covers
    <3>2. \A m \in Mid : <<<<child, 3>>, m>> \in C => <<<<child, 3>>, m>> \in D
      BY <2>7
    <3> QED BY <1>1, <1>3, <2>6, <3>1, <3>2, LinksStill
  <2>10. Covers(D)'
    BY <1>3, <2>5, <2>6, <2>7, <2>8, <2>9, OthersCovered
  <2> QED BY <1>3, <2>10 DEF LinkedType
<1> QED BY <1>3, <1>4, <1>5

\* The links that are left when the trap handler, and then the program, is given up.
NoTrapLink(C, p) == C \ {<<<<p, 2>>, trap[p].mid>>}
NoRunLink(C, p) == NoTrapLink(C, p) \ {<<<<p, 1>>, mid[p]>>}

LEMMA TrapReleasedEnough ==
  ASSUME ModulesInv, NEW C, Covers(C), NEW p \in Proc, p \in alive
  PROVE  /\ Enough(TrapReleased(d, p), NoTrapLink(C, p))
         /\ KeepsModules(d, TrapReleased(d, p), Held(NoTrapLink(C, p)))
<1>1. Good(d) /\ Enough(d, C) /\ RunsCovered(p, C) /\ trap[p].mid \in Mid \cup {NoMid}
  BY DEF ModulesInv, ProcTypes, Covers
<1>2. CASE trap[p].mid = NoMid
  <2>1. <<<<p, 2>>, NoMid>> \notin C
    BY <1>1, ModulesAssumption DEF Enough, Mid, NoMid
  <2>2. NoTrapLink(C, p) = C /\ TrapReleased(d, p) = d
    BY <1>2, <2>1 DEF NoTrapLink, TrapReleased
  <2> QED BY <1>1, <2>2 DEF KeepsModules
<1>3. CASE trap[p].mid # NoMid
  <2> DEFINE m == trap[p].mid
             rel == Released(d, {trap[p].mem})
  <2>1. TrapReleased(d, p) = Unlinked(rel, m, Used(alive))
    BY <1>3 DEF TrapReleased
  <2>2. \A b \in {trap[p].mem} \cap Block : d.heap[b] = Data
    BY ModulesAssumption DEF ModulesInv, ProcOK, Block
  <2>3. Good(rel) /\ KeepsModules(d, rel, Mid)
    BY <1>1, <2>2, ReleasedGood
  <2>4. rel.linkcount = d.linkcount
    BY <1>1 DEF Released, Good, DirType
  <2>5. m \in Mid /\ <<<<p, 2>>, m>> \in C
    BY <1>1, <1>3 DEF RunsCovered
  <2> HIDE DEF rel
  <2>6. Enough(rel, C)
    BY <1>1, <2>4, EnoughSame
  <2>7. NoTrapLink(C, p) = C \ {<<<<p, 2>>, m>>}
    BY DEF NoTrapLink
  <2> HIDE DEF m
  <2>8. /\ Enough(Unlinked(rel, m, Used(alive)), C \ {<<<<p, 2>>, m>>})
        /\ KeepsModules(rel, Unlinked(rel, m, Used(alive)), Held(C \ {<<<<p, 2>>, m>>}))
    BY <2>3, <2>5, <2>6, UnlinkedEnough
  <2>9. /\ Enough(TrapReleased(d, p), NoTrapLink(C, p))
        /\ KeepsModules(rel, TrapReleased(d, p), Held(NoTrapLink(C, p)))
    BY <2>1, <2>7, <2>8
  <2>10. Held(NoTrapLink(C, p)) \subseteq Mid
    BY <2>9 DEF Enough, Held
  <2> QED BY <2>3, <2>9, <2>10 DEF KeepsModules
<1> QED BY <1>2, <1>3

LEMMA GivenUpEnough ==
  ASSUME ModulesInv, NEW C, Covers(C), NEW p \in Proc, p \in alive, NEW used
  PROVE  LET new == Released(Unlinked(TrapReleased(d, p), mid[p], used),
                             pmem[p] \ {trap[p].mem})
         IN /\ Enough(new, NoRunLink(C, p))
            /\ KeepsModules(d, new, Held(NoRunLink(C, p)))
<1> DEFINE a == TrapReleased(d, p)
           b == Unlinked(a, mid[p], used)
           c == Released(b, pmem[p] \ {trap[p].mem})
           T == NoTrapLink(C, p)
           G == NoRunLink(C, p)
<1>1. Enough(a, T) /\ KeepsModules(d, a, Held(T))
  BY TrapReleasedEnough
<1>2. Good(a) /\ KeepsData(d, a, Block \ {trap[p].mem})
  BY TrapReleasedGood
<1>3. mid[p] \in Mid /\ <<<<p, 1>>, mid[p]>> \in C
  BY DEF ModulesInv, ProcOK, Covers, RunsCovered
<1>4. <<<<p, 1>>, mid[p]>> \in T /\ G = T \ {<<<<p, 1>>, mid[p]>>}
  BY <1>3 DEF NoTrapLink, NoRunLink
<1>5. \A x \in pmem[p] : x \in Block /\ d.heap[x] = Data
  BY DEF ModulesInv, ProcTypes, ProcOK
<1> HIDE DEF a, T, G
<1>6. Enough(b, G) /\ KeepsModules(a, b, Held(G))
  BY <1>1, <1>2, <1>3, <1>4, UnlinkedEnough
<1>7. Good(b) /\ KeepsData(a, b, Block)
  BY <1>2, <1>3, UnlinkedGood
<1> HIDE DEF b
<1>8. \A x \in (pmem[p] \ {trap[p].mem}) \cap Block : b.heap[x] = Data
  BY <1>2, <1>5, <1>7 DEF KeepsData
<1>9. KeepsModules(b, c, Mid)
  BY <1>7, <1>8, ReleasedGood
<1>10. c.linkcount = b.linkcount
  BY <1>7 DEF Released, Good, DirType
<1> HIDE DEF c
<1>11. Enough(c, G)
  BY <1>6, <1>10, EnoughSame
<1>12. Held(G) \subseteq Held(T) /\ Held(G) \subseteq Mid
  BY <1>4, <1>6 DEF Held, Enough
<1>13. KeepsModules(d, c, Held(G))
  BY <1>1, <1>6, <1>9, <1>12 DEF KeepsModules
<1> QED BY <1>11, <1>13 DEF a, b, c, G

\* F$Chain, when it succeeds.
LEMMA ChainLinks ==
  ASSUME Followed = {}, ModulesInv, LinkedType, NEW C, Covers(C), NEW p \in Proc,
         NEW n \in Name, Chain(p, n)
  PROVE  LinkedType' /\ \E D : Covers(D)'
<1> DEFINE up == GivenUp(p)
           r == LinkLoad(up, n)
           G == NoRunLink(C, p)
<1>1. Used(alive \ {p}) \subseteq Used(alive)
  BY DEF Used
<1>2. Good(up)
  BY <1>1, GivenUpGood DEF GivenUp
<1>3. p \in alive
  BY DEF Chain
<1>4. Enough(up, G) /\ KeepsModules(d, up, Held(G))
  BY <1>3, GivenUpEnough DEF GivenUp
<1>5. /\ r.mid # NoMid /\ DataGot(r) /\ d' = Got(r.dir, Data)
      /\ mid' = [mid EXCEPT ![p] = r.mid] /\ trap' = [trap EXCEPT ![p] = NoTrap]
      /\ alive' = alive /\ linked' = linked
  BY DEF Chain
<1>6. /\ G \subseteq C
      /\ \A q \in Proc, i \in {1, 2, 3}, k \in Mid \cup {NoMid} :
             <<<<q, i>>, k>> \in C /\ ~(q = p /\ i \in {1, 2}) => <<<<q, i>>, k>> \in G
  BY DEF NoRunLink, NoTrapLink
<1> HIDE DEF up, G
<1>7. Loads(up, r, n)
  BY <1>2, LinkLoads
<1>8. Enough(r.dir, G \cup {<<<<p, 1>>, r.mid>>})
  BY <1>2, <1>4, <1>5, LinkLoadEnough
<1> HIDE DEF r
<1>9. /\ mid'[p] = r.mid /\ trap'[p] = NoTrap
      /\ \A q \in Proc \ {p} : /\ mid'[q] = mid[q] /\ trap'[q] = trap[q]
                               /\ (q \in alive' => q \in alive)
  BY <1>5 DEF ModulesInv, ProcTypes
<1> QED BY <1>2, <1>4, <1>5, <1>6, <1>7, <1>8, <1>9, ProgramLinks

\* F$Exit.
LEMMA ExitLinks ==
  ASSUME ModulesInv, LinkedType, NEW C, Covers(C), NEW p \in Proc, Exit(p)
  PROVE  LinkedType' /\ \E D : Covers(D)'
<1>0. PICK G : G = NoRunLink(C, p)
  OBVIOUS
<1>1. /\ d' = Released(Unlinked(TrapReleased(d, p), mid[p], Used(alive \ {p})),
                       pmem[p] \ {trap[p].mem})
      /\ p \in alive /\ Dead(p)
  BY DEF Exit
<1>2. Enough(d', G) /\ KeepsModules(d, d', Held(G))
  BY <1>0, <1>1, GivenUpEnough
<1>3. \A q \in Proc \ {p}, i \in {1, 2, 3}, k \in Mid \cup {NoMid} :
          <<<<q, i>>, k>> \in C => <<<<q, i>>, k>> \in G
  BY <1>0 DEF NoRunLink, NoTrapLink
<1>4. /\ p \notin alive' /\ linked'[p] = {}
      /\ \A q \in Proc \ {p} : /\ mid'[q] = mid[q] /\ trap'[q] = trap[q]
                               /\ linked'[q] \subseteq linked[q] /\ (q \in alive' => q \in alive)
  BY <1>1 DEF Dead, ModulesInv, ProcTypes, LinkedType
<1>5. RunsCovered(p, G)' /\ LinksCovered(p, G)'
  BY <1>4 DEF RunsCovered, LinksCovered
<1>6. Covers(G)'
  BY <1>2, <1>3, <1>4, <1>5, OthersCovered
<1>7. LinkedType'
  BY <1>1 DEF Dead, LinkedType
<1> QED BY <1>6, <1>7

\* F$TLink: a link for the trap handler.
LEMMA TLinkLinks ==
  ASSUME Followed = {}, ModulesInv, LinkedType, NEW C, Covers(C), NEW p \in Proc,
         NEW n \in Name, TLink(p, n)
  PROVE  LinkedType' /\ \E D : Covers(D)'
<1> DEFINE r == LinkLoad(d, n)
<1>0. PICK E : E = IF r.mid = NoMid THEN C ELSE C \cup {<<<<p, 2>>, r.mid>>}
  OBVIOUS
<1>1. Loads(d, r, n) /\ Good(d) /\ Enough(d, C) /\ RunsCovered(p, C) /\ LinksCovered(p, C)
  BY LinkLoads DEF ModulesInv, Covers
<1>2. Enough(r.dir, E)
  BY <1>0, <1>1, LinkLoadEnough
<1>3. C \subseteq E /\ (r.mid # NoMid => <<<<p, 2>>, r.mid>> \in E)
  BY <1>0
<1>4. /\ p \in alive /\ UNCHANGED <<alive, mid, linked>>
      /\ \/ d' = r.dir /\ trap' = [trap EXCEPT ![p].mid = r.mid]
         \/ /\ DataGot(r) /\ d' = Got(r.dir, Data)
            /\ trap' = [trap EXCEPT ![p] = [mid |-> r.mid, mem |-> Lowest(FreeBlocks(r.dir))]]
  BY DEF TLink
<1> HIDE DEF r
<1>5. trap'[p].mid = r.mid /\ \A q \in Proc \ {p} : trap'[q] = trap[q]
  <2>1. trap \in [Proc -> [mid : Mid \cup {NoMid}, mem : Block \cup {0}]]
    BY DEF ModulesInv, ProcTypes
  <2> QED BY <1>4, <2>1
<1>6. Enough(d', E) /\ KeepsModules(d, d', Mid)
  <2>1. CASE d' = r.dir
    BY <1>1, <1>2, <2>1 DEF Loads
  <2>2. CASE DataGot(r) /\ d' = Got(r.dir, Data)
    <3>1. KeepsModules(r.dir, d', Mid) /\ d'.linkcount = r.dir.linkcount
      BY <1>1, <2>2, GotGood DEF Loads, DataGot
    <3>2. KeepsModules(d, d', Mid)
      BY <1>1, <3>1 DEF Loads, KeepsModules
    <3> QED BY <1>2, <3>1, <3>2, EnoughSame
  <2> QED BY <1>4, <2>1, <2>2
<1>7. KeepsModules(d, d', Held(E))
  BY <1>6 DEF Enough, Held, KeepsModules
<1>8. RunsCovered(p, E)'
  BY <1>1, <1>3, <1>4, <1>5 DEF RunsCovered
<1>9. LinksCovered(p, E)'
  BY <1>1, <1>3, <1>4, <1>7, LinksStill
<1>10. Covers(E)'
  BY <1>3, <1>4, <1>5, <1>6, <1>7, <1>8, <1>9, OthersCovered
<1> QED BY <1>4, <1>10 DEF LinkedType

\* F$TLink with an empty name gives it back.
LEMMA TUnlinkLinks ==
  ASSUME ModulesInv, LinkedType, NEW C, Covers(C), NEW p \in Proc, TUnlink(p)
  PROVE  LinkedType' /\ \E D : Covers(D)'
<1>0. PICK T : T = NoTrapLink(C, p)
  OBVIOUS
<1>1. /\ d' = TrapReleased(d, p) /\ trap' = [trap EXCEPT ![p] = NoTrap]
      /\ p \in alive /\ UNCHANGED <<alive, mid, linked>>
  BY DEF TUnlink
<1>2. Enough(d', T) /\ KeepsModules(d, d', Held(T))
  BY <1>0, <1>1, TrapReleasedEnough
<1>3. \A q \in Proc, i \in {1, 2, 3}, k \in Mid \cup {NoMid} :
          <<<<q, i>>, k>> \in C /\ ~(q = p /\ i = 2) => <<<<q, i>>, k>> \in T
  BY <1>0 DEF NoTrapLink
<1>4. Good(d) /\ Enough(d, C) /\ RunsCovered(p, C) /\ LinksCovered(p, C)
  BY DEF ModulesInv, Covers
<1>5. /\ trap'[p] = NoTrap /\ mid[p] \in Mid \cup {NoMid}
      /\ \A q \in Proc \ {p} : trap'[q] = trap[q]
  BY <1>1 DEF ModulesInv, ProcTypes
<1>6. RunsCovered(p, T)'
  BY <1>1, <1>3, <1>4, <1>5 DEF RunsCovered, NoTrap
<1>7. LinksCovered(p, T)'
  BY <1>1, <1>2, <1>3, <1>4, LinksStill
<1>8. Covers(T)'
  BY <1>1, <1>2, <1>3, <1>5, <1>6, <1>7, OthersCovered
<1> QED BY <1>1, <1>8 DEF LinkedType

\* F$SRqMem and F$SRtMem.
LEMMA MemLinks ==
  ASSUME ModulesInv, LinkedType, NEW C, Covers(C), NEW p \in Proc,
         SRqMem(p) \/ \E b \in Block : SRtMem(p, b)
  PROVE  LinkedType' /\ \E D : Covers(D)'
<1>1. UNCHANGED <<alive, mid, trap, linked>>
  BY DEF SRqMem, SRtMem
<1>2. d'.linkcount = d.linkcount /\ KeepsModules(d, d', Mid)
  <2>1. CASE SRqMem(p)
    BY <2>1, GotGood DEF SRqMem, ModulesInv
  <2>2. ASSUME NEW b \in Block, SRtMem(p, b)
        PROVE  d'.linkcount = d.linkcount /\ KeepsModules(d, d', Mid)
    <3>1. d' = Released(d, {b}) /\ d.heap[b] = Data /\ Good(d)
      BY <2>2 DEF SRtMem, ModulesInv, ProcOK
    <3>2. KeepsModules(d, d', Mid)
      BY <3>1, ReleasedGood
    <3>3. d'.linkcount = d.linkcount
      BY <3>1 DEF Released, Good, DirType
    <3> QED BY <3>2, <3>3
  <2> QED BY <2>1, <2>2
<1>3. Enough(d', C)
  BY <1>2, EnoughSame DEF Covers
<1> QED BY <1>1, <1>2, <1>3, AllCovered DEF LinkedType

LEMMA NextLinks ==
  ASSUME Followed = {}
  PROVE  ModulesInv /\ LinksInv /\ [Next]_vars => LinksInv'
<1> SUFFICES ASSUME ModulesInv, LinksInv, [Next]_vars PROVE LinksInv'
  OBVIOUS
<1>0. LinkedType
  BY DEF LinksInv
<1>1. ASSUME UNCHANGED vars PROVE LinksInv'
  BY <1>1 DEF vars, procs, LinksInv, LinkedType, Covers, RunsCovered, LinksCovered
<1>2. ASSUME NEW p \in Proc, NEW n \in Name, ChainFails(p, n) PROVE LinksInv'
  BY <1>0, <1>2 DEF ChainFails, Dead, LinksInv, LinkedType
<1>3. ASSUME NEW p \in Proc, Call(p), UNCHANGED failed PROVE LinksInv'
  <2>1. CASE failed
    <3>1. LinkedType'
      <4>1. ASSUME NEW n \in Name, Link(p, n) PROVE LinkedType'
        <5>1. PICK m \in Mid : m = Lowest(Found(d, n)) /\ d.base[m] # 0
          BY <4>1, FoundThere DEF Link
        <5>2. linked' = [linked EXCEPT ![p] = linked[p] \cup {Named(d, m)}]
          BY <4>1, <5>1 DEF Link
        <5>3. Named(d, m) \in (0 .. MaxBlocks) \X (Name \cup {Free, Data})
          BY <5>1, NamedType DEF ModulesInv
        <5> QED BY <1>0, <5>2, <5>3 DEF LinkedType
      <4>2. ASSUME NEW n \in Name, Load(p, n) PROVE LinkedType'
        <5> DEFINE r == Loaded(d, n)
        <5>1. Loads(d, r, n)
          BY LoadedLoads DEF ModulesInv
        <5>2. linked' = [linked EXCEPT ![p] = IF r.mid = NoMid THEN linked[p]
                                              ELSE linked[p] \cup {Named(r.dir, r.mid)}]
          BY <4>2 DEF Load
        <5> HIDE DEF r
        <5>3. r.mid # NoMid =>
                  Named(r.dir, r.mid) \in (0 .. MaxBlocks) \X (Name \cup {Free, Data})
          BY <5>1, NamedType DEF Loads
        <5> QED BY <1>0, <5>2, <5>3 DEF LinkedType
      <4>3. ASSUME linked' = linked PROVE LinkedType'
        BY <1>0, <4>3 DEF LinkedType
      <4>4. ASSUME NEW bn \in linked[p], UnLink(p, bn) PROVE LinkedType'
        BY <1>0, <4>4 DEF UnLink, LinkedType
      <4>5. ASSUME Exit(p) PROVE LinkedType'
        BY <1>0, <4>5 DEF Exit, Dead, LinkedType
      <4> QED BY <1>3, <4>1, <4>2, <4>3, <4>4, <4>5
              DEF Call, LinkMismatch, Chain, TLink, Fork, ForkFails, TUnlink, SRqMem, SRtMem, procs
    <3> QED BY <1>3, <2>1, <3>1 DEF LinksInv
  <2>2. CASE ~failed
    <3>1. PICK C : Covers(C)
      BY <2>2 DEF LinksInv
    <3>2. ASSUME NEW n \in Name, LinkMismatch(p, n) PROVE LinkedType' /\ \E D : Covers(D)'
      BY <1>0, <3>1, <3>2, MismatchLinks DEF LinkMismatch, procs, LinkedType
    <3>3. LinkedType' /\ \E D : Covers(D)'
      BY <1>0, <1>3, <3>1, <3>2, LinkStepLinks, LoadLinks, UnLinkLinks, ForkLinks, ForkFailsLinks,
         ChainLinks, ExitLinks, TLinkLinks, TUnlinkLinks, MemLinks DEF Call
    <3> QED BY <3>3 DEF LinksInv
  <2> QED BY <2>1, <2>2
<1> QED BY <1>1, <1>2, <1>3 DEF Next

\* A module that a process has linked stays where it is until the process unlinks it,
\* whatever the other processes do, until a F$Chain fails (unlink_module, release_module).
THEOREM LinksKept ==
  ASSUME Followed = {}
  PROVE  Spec => []LinkedStays
<1>1. ModulesInv /\ LinksInv => LinkedStays
  <2> SUFFICES ASSUME ModulesInv, LinksInv, ~failed PROVE StillUsed
    BY DEF LinkedStays
  <2>1. PICK C : Covers(C)
    BY DEF LinksInv
  <2>2. ASSUME NEW p \in Proc, NEW bn \in linked[p]
        PROVE  d.heap[bn[1]] = bn[2] /\ \E m \in Mid : d.base[m] = bn[1]
    <3>1. PICK m \in Mid : bn = Named(d, m)
      BY <2>1 DEF Covers, LinksCovered
    <3> QED BY <3>1 DEF Named
  <2> QED BY <2>2 DEF StillUsed
<1>2. Init => LinksInv
  BY InitLinks
<1>3. ModulesInv /\ LinksInv /\ [Next]_vars => LinksInv'
  BY NextLinks
<1> QED BY <1>1, <1>2, <1>3, AlwaysInv, PTL DEF Spec
=============================================================================
