------------------------------- MODULE Modules -------------------------------
(***************************************************************************)
(* The module directory (modstuff.c) and the blocks of memory that modules *)
(* and processes have (memstuff.c): loading, linking and unlinking of      *)
(* modules, and what F$Fork, F$Chain, F$Exit and F$TLink do with them.     *)
(*                                                                         *)
(* A module is found by the name that is written in its memory.  Its link  *)
(* count counts the processes that run it, have it as trap handler or have *)
(* linked it; when it would come to 0 the module's memory is released,     *)
(* unless a process still runs it.  The modules built into the emulator,   *)
(* which have no memory of their own, and internal commands are left out.  *)
(***************************************************************************)
EXTENDS Integers, FiniteSets

CONSTANTS Proc,        \* the processes
          first,       \* the one that runs at the beginning
          Name,        \* names of modules
          Programs,    \* those that are programs; the others are data
          Disk,        \* those that are found in a file
          Followed,    \* the files that hold a group: after their module comes
          Follower,    \* this one
          MAXMODULES,  \* entries of the directory
          MaxBlocks,   \* blocks of memory there are
          MaxLinks     \* bound on link counts

Mid == 1 .. MAXMODULES
NoMid == 0
Block == 1 .. MaxBlocks

ASSUME ModulesAssumption ==
    /\ MAXMODULES \in Nat \ {0} /\ MaxBlocks \in Nat \ {0, 1} /\ MaxLinks \in Nat
    /\ Programs \subseteq Name /\ Disk \subseteq Name
    /\ Followed \subseteq Disk /\ (Followed # {} => Follower \in Name)
    /\ first \in Proc /\ IsFiniteSet(Proc)
    /\ 0 \notin Name /\ 1 \notin Name

Free == 0   \* what is in a block of memory: nothing, data, or the module with a name
Data == 1

VARIABLES d,       \* the directory (base, linkcount) and the memory (heap)
          alive,   \* the processes that run
          mid,     \* the program module of each
          trap,    \* its trap handler: module, and block for its data
          pmem,    \* its list of memory blocks
          \* not in the code, for the properties:
          linked,  \* the modules it has linked or loaded itself, by block and name
          runs,    \* the name of its program
          failed   \* a F$Chain has failed

procs == <<alive, mid, trap, pmem, linked, runs>>
vars == <<d, procs, failed>>

NoTrap == [mid |-> NoMid, mem |-> 0]

Init == /\ \E n \in Programs :
              /\ d = [base |-> [m \in Mid |-> IF m = 1 THEN 1 ELSE 0],
                      linkcount |-> [m \in Mid |-> IF m = 1 THEN 1 ELSE 0],
                      heap |-> [b \in Block |-> IF b = 1 THEN n ELSE IF b = 2 THEN Data ELSE Free]]
              /\ runs = [p \in Proc |-> n]
        /\ alive = {first}
        /\ mid = [p \in Proc |-> IF p = first THEN 1 ELSE NoMid]
        /\ trap = [p \in Proc |-> NoTrap]
        /\ pmem = [p \in Proc |-> IF p = first THEN {2} ELSE {}]
        /\ linked = [p \in Proc |-> {}]
        /\ failed = FALSE

-----------------------------------------------------------------------------
(* The directory and the memory.  These operators take the directory and give *)
(* it back changed.                                                           *)

Lowest(S) == CHOOSE n \in S : \A m \in S : n <= m

FreeBlocks(dir) == {b \in Block : dir.heap[b] = Free}

\* get_mem and release_mem of one block.
Got(dir, content) == [dir EXCEPT !.heap[Lowest(FreeBlocks(dir))] = content]
Released(dir, B) == [dir EXCEPT !.heap = [b \in Block |-> IF b \in B THEN Free ELSE @[b]]]

\* find_mod_id: the modules with a name, and NextFreeModuleId.
Found(dir, n) == {m \in Mid : dir.base[m] # 0 /\ dir.heap[dir.base[m]] = n}
FreeMids(dir) == {m \in Mid : dir.base[m] = 0}

\* link_mod_id.
Linked(dir, m) == [dir EXCEPT !.linkcount[m] = @ + 1]

\* release_module.  (mutant: the link count is not reset)
ReleasedStillLinked(dir, m) ==
    [base |-> [dir.base EXCEPT ![m] = 0],
     linkcount |-> dir.linkcount,
     heap |-> [dir.heap EXCEPT ![dir.base[m]] = Free]]
ModuleReleased(dir, m) ==
    [base |-> [dir.base EXCEPT ![m] = 0],
     linkcount |-> [dir.linkcount EXCEPT ![m] = 0],
     heap |-> [dir.heap EXCEPT ![dir.base[m]] = Free]]

\* unlink_module, where the processes use the modules in used.  (mutant: the processes
\* are not asked)
UnlinkedAnyway(dir, m, used) ==
    IF m = NoMid \/ dir.base[m] = 0 THEN dir
    ELSE IF dir.linkcount[m] > 1 THEN [dir EXCEPT !.linkcount[m] = @ - 1]
    ELSE ModuleReleased(dir, m)
Unlinked(dir, m, used) ==
    IF m = NoMid \/ dir.base[m] = 0 THEN dir
    ELSE IF dir.linkcount[m] > 1 THEN [dir EXCEPT !.linkcount[m] = @ - 1]
    ELSE IF m \in used THEN dir
    ELSE ModuleReleased(dir, m)

\* A module enters the directory.
Entered(dir, m, b) == [base |-> [dir.base EXCEPT ![m] = b],
                       linkcount |-> [dir.linkcount EXCEPT ![m] = 1],
                       heap |-> dir.heap]

\* The second module of a group.  Its entry gets the memory of the first one (theModulePP
\* is not set anew), and that memory is released when its name is there already.
SecondLoaded(dir, m, b) ==
    IF FreeMids(dir) = {} THEN [dir |-> dir, mid |-> NoMid]
    ELSE IF FreeBlocks(dir) = {} THEN [dir |-> dir, mid |-> NoMid]
    ELSE LET copied == Got(dir, Follower) IN
         IF Found(dir, Follower) # {}
         THEN [dir |-> Released(Linked(copied, Lowest(Found(dir, Follower))), {b}),
               mid |-> Lowest(Found(dir, Follower))]
         ELSE [dir |-> Entered(copied, Lowest(FreeMids(dir)), b), mid |-> m]

\* load_module: the file is read into a block; when a module with this name is there
\* already the block is released and that one is linked.
Loaded(dir, n) ==
    IF n \notin Disk \/ FreeMids(dir) = {} \/ FreeBlocks(dir) = {}
    THEN [dir |-> dir, mid |-> NoMid]
    ELSE LET m == Lowest(FreeMids(dir))
             b == Lowest(FreeBlocks(dir))
             entered == Entered(Got(dir, n), m, b)
         IN IF Found(dir, n) # {}
            THEN [dir |-> Linked(dir, Lowest(Found(dir, n))), mid |-> Lowest(Found(dir, n))]
            ELSE IF n \in Followed THEN SecondLoaded(entered, m, b)
            ELSE [dir |-> entered, mid |-> m]

\* link_load.
LinkLoad(dir, n) ==
    IF Found(dir, n) # {}
    THEN [dir |-> Linked(dir, Lowest(Found(dir, n))), mid |-> Lowest(Found(dir, n))]
    ELSE Loaded(dir, n)

\* The modules that the processes in P run or have as trap handlers.
Used(P) == ({mid[p] : p \in P} \cup {trap[p].mid : p \in P}) \ {NoMid}

\* release_traphandler: the handler of p is unlinked while it is still entered.
TrapReleased(dir, p) ==
    IF trap[p].mid = NoMid THEN dir
    ELSE Unlinked(Released(dir, {trap[p].mem}), trap[p].mid, Used(alive))

Named(dir, m) == <<dir.base[m], dir.heap[dir.base[m]]>>

InBounds == \A m \in Mid : d'.linkcount[m] <= MaxLinks

-----------------------------------------------------------------------------
(* System calls *)

\* F$Link.  (mutant: the link is not counted)
LinkUncounted(p, n) ==
    /\ p \in alive /\ Found(d, n) # {}
    /\ d' = d
    /\ Named(d, Lowest(Found(d, n))) \notin linked[p]
    /\ linked' = [linked EXCEPT ![p] = @ \cup {Named(d, Lowest(Found(d, n)))}]
    /\ UNCHANGED <<alive, mid, trap, pmem, runs>>
Link(p, n) ==
    /\ p \in alive /\ Found(d, n) # {}
    /\ d' = Linked(d, Lowest(Found(d, n)))
    /\ Named(d, Lowest(Found(d, n))) \notin linked[p]
    /\ linked' = [linked EXCEPT ![p] = @ \cup {Named(d, Lowest(Found(d, n)))}]
    /\ UNCHANGED <<alive, mid, trap, pmem, runs>>

\* F$Link of a module of another type: an error, but the link stays.
LinkMismatch(p, n) ==
    /\ p \in alive /\ Found(d, n) # {}
    /\ d' = Linked(d, Lowest(Found(d, n)))
    /\ UNCHANGED procs

\* F$Load.
Load(p, n) ==
    LET r == Loaded(d, n) IN
    /\ p \in alive
    /\ d' = r.dir
    /\ r.mid # NoMid => Named(r.dir, r.mid) \notin linked[p]
    /\ linked' = [linked EXCEPT ![p] =
           IF r.mid = NoMid THEN @ ELSE @ \cup {Named(r.dir, r.mid)}]
    /\ UNCHANGED <<alive, mid, trap, pmem, runs>>

\* F$UnLink and F$UnLoad of a module the process has linked.
UnLink(p, bn) ==
    /\ p \in alive /\ bn \in linked[p]
    /\ LET here == {m \in Mid : d.base[m] = bn[1]}
       IN d' = IF here = {} THEN d ELSE Unlinked(d, Lowest(here), Used(alive))
    /\ linked' = [linked EXCEPT ![p] = @ \ {bn}]
    /\ UNCHANGED <<alive, mid, trap, pmem, runs>>

\* prepFork gives the process its data, or finds that the module is no program.
DataGot(r) == FreeBlocks(r.dir) # {}

\* F$Fork.
Fork(p, child, n) ==
    LET r == LinkLoad(d, n) IN
    /\ p \in alive /\ child \notin alive /\ r.mid # NoMid /\ DataGot(r) /\ n \in Programs
    /\ d' = Got(r.dir, Data)
    /\ alive' = alive \cup {child}
    /\ mid' = [mid EXCEPT ![child] = r.mid]
    /\ trap' = [trap EXCEPT ![child] = NoTrap]
    /\ pmem' = [pmem EXCEPT ![child] = {Lowest(FreeBlocks(r.dir))}]
    /\ runs' = [runs EXCEPT ![child] = n]
    /\ UNCHANGED linked

\* It fails: no module; no memory for the data, the link stays; or no program, the link
\* is given back while the process still has the module, and the memory is forgotten.
ForkFails(p, child, n) ==
    LET r == LinkLoad(d, n) IN
    /\ p \in alive /\ child \notin alive
    /\ \/ r.mid = NoMid /\ d' = r.dir
       \/ r.mid # NoMid /\ ~DataGot(r) /\ d' = r.dir
       \/ /\ r.mid # NoMid /\ DataGot(r) /\ n \notin Programs
          /\ d' = Unlinked(Got(r.dir, Data), r.mid, {r.mid})
    /\ UNCHANGED procs

\* What is left when p is dead.
Dead(p) == /\ alive' = alive \ {p}
           /\ mid' = [mid EXCEPT ![p] = NoMid]
           /\ trap' = [trap EXCEPT ![p] = NoTrap]
           /\ pmem' = [pmem EXCEPT ![p] = {}]
           /\ linked' = [linked EXCEPT ![p] = {}]
           /\ UNCHANGED runs

\* F$Chain gives up trap handler, module and memory of the old program.  Its module is
\* still entered when it is unlinked.
GivenUp(p) == Released(Unlinked(TrapReleased(d, p), mid[p], Used(alive)),
                       pmem[p] \ {trap[p].mem})

Chain(p, n) ==
    LET r == LinkLoad(GivenUp(p), n) IN
    /\ p \in alive /\ r.mid # NoMid /\ DataGot(r) /\ n \in Programs
    /\ d' = Got(r.dir, Data)
    /\ mid' = [mid EXCEPT ![p] = r.mid]
    /\ trap' = [trap EXCEPT ![p] = NoTrap]
    /\ pmem' = [pmem EXCEPT ![p] = {Lowest(FreeBlocks(r.dir))}]
    /\ runs' = [runs EXCEPT ![p] = n]
    /\ UNCHANGED <<alive, linked>>

\* It fails and the process is killed.  kill_process unlinks cp->mid: the module of the
\* old program when none was found for the new one, else the new one.
ChainFails(p, n) ==
    LET r == LinkLoad(GivenUp(p), n)
        m == IF r.mid = NoMid THEN mid[p] ELSE r.mid
        prepared == IF r.mid # NoMid /\ DataGot(r) /\ n \notin Programs
                    THEN Unlinked(r.dir, r.mid, Used(alive) \cup {r.mid}) ELSE r.dir
    IN /\ p \in alive /\ alive # {p} /\ ~(r.mid # NoMid /\ DataGot(r) /\ n \in Programs)
       /\ d' = Unlinked(prepared, m, Used(alive \ {p}))
       /\ Dead(p)
       /\ failed' = TRUE

\* F$Exit: kill_process.
Exit(p) ==
    /\ p \in alive /\ alive # {p}
    /\ d' = Released(Unlinked(TrapReleased(d, p), mid[p], Used(alive \ {p})),
                     pmem[p] \ {trap[p].mem})
    /\ Dead(p)

\* F$TLink.  A handler that gets no memory is an error and stays installed.
TLink(p, n) ==
    LET r == LinkLoad(d, n) IN
    /\ p \in alive /\ trap[p].mid = NoMid
    /\ IF r.mid # NoMid /\ DataGot(r)
       THEN /\ d' = Got(r.dir, Data)
            /\ trap' = [trap EXCEPT ![p] =
                   [mid |-> r.mid, mem |-> Lowest(FreeBlocks(r.dir))]]
            /\ pmem' = [pmem EXCEPT ![p] = @ \cup {Lowest(FreeBlocks(r.dir))}]
       ELSE /\ d' = r.dir
            /\ trap' = [trap EXCEPT ![p].mid = r.mid]
            /\ UNCHANGED pmem
    /\ UNCHANGED <<alive, mid, linked, runs>>

\* F$TLink with an empty name.  (mutant: the block stays in the list of the process)
TUnlinkKeeps(p) ==
    /\ p \in alive /\ trap[p].mid # NoMid
    /\ d' = TrapReleased(d, p)
    /\ trap' = [trap EXCEPT ![p] = NoTrap]
    /\ UNCHANGED <<alive, mid, pmem, linked, runs>>
TUnlink(p) ==
    /\ p \in alive /\ trap[p].mid # NoMid
    /\ d' = TrapReleased(d, p)
    /\ trap' = [trap EXCEPT ![p] = NoTrap]
    /\ pmem' = [pmem EXCEPT ![p] = @ \ {trap[p].mem}]
    /\ UNCHANGED <<alive, mid, linked, runs>>

\* F$SRqMem and F$SRtMem of a whole block.
SRqMem(p) ==
    /\ p \in alive /\ FreeBlocks(d) # {}
    /\ d' = Got(d, Data)
    /\ pmem' = [pmem EXCEPT ![p] = @ \cup {Lowest(FreeBlocks(d))}]
    /\ UNCHANGED <<alive, mid, trap, linked, runs>>

SRtMem(p, b) ==
    /\ p \in alive /\ b \in pmem[p] /\ b # trap[p].mem
    /\ d' = Released(d, {b})
    /\ pmem' = [pmem EXCEPT ![p] = @ \ {b}]
    /\ UNCHANGED <<alive, mid, trap, linked, runs>>

Call(p) == \/ \E n \in Name : \/ Link(p, n) \/ LinkMismatch(p, n) \/ Load(p, n)
                              \/ Chain(p, n) \/ TLink(p, n)
                              \/ \E child \in Proc : Fork(p, child, n) \/ ForkFails(p, child, n)
           \/ \E bn \in linked[p] : UnLink(p, bn)
           \/ Exit(p) \/ TUnlink(p) \/ SRqMem(p)
           \/ \E b \in Block : SRtMem(p, b)

Next == /\ \E p \in Proc : \/ Call(p) /\ UNCHANGED failed
                           \/ \E n \in Name : ChainFails(p, n)
        /\ InBounds

Spec == Init /\ [][Next]_vars

-----------------------------------------------------------------------------
(* Properties *)

\* Every variable keeps its type; an entry of the directory has a link as long as it has
\* a module, and no longer.
ModulesTypeOK ==
    /\ d \in [base : [Mid -> 0 .. MaxBlocks], linkcount : [Mid -> Nat],
              heap : [Block -> Name \cup {Free, Data}]]
    /\ alive \subseteq Proc /\ mid \in [Proc -> Mid \cup {NoMid}]
    /\ trap \in [Proc -> [mid : Mid \cup {NoMid}, mem : Block \cup {0}]]
    /\ pmem \in [Proc -> SUBSET Block] /\ runs \in [Proc -> Name]
    /\ \A m \in Mid : d.linkcount[m] = 0 <=> d.base[m] = 0

\* Every block of memory that a module or a process has is allocated and nobody else's:
\* nothing is released twice or while somebody still has it (release_mem, release_module,
\* free_mem, os9free).
OwnedOnce ==
    /\ \A m \in Mid : d.base[m] # 0 => d.heap[d.base[m]] \in Name
    /\ \A m, n \in Mid : m # n /\ d.base[m] # 0 => d.base[m] # d.base[n]
    /\ \A p \in Proc : \A b \in pmem[p] : d.heap[b] = Data
    /\ \A p, q \in Proc : p # q => pmem[p] \cap pmem[q] = {}

\* No module is released while a process runs it or has it as trap handler, however often
\* it was unlinked: its entry has its memory and its name (release_module looks for such
\* processes).
InUseStays ==
    \A p \in alive : /\ d.base[mid[p]] # 0 /\ d.heap[d.base[mid[p]]] = runs[p]
                     /\ trap[p].mid # NoMid => d.base[trap[p].mid] # 0

\* A module that a process has linked is where it was linked: it is not released while it
\* is "still used by other processes" (modstuff.c 1485).
StillUsed ==
    \A p \in Proc : \A bn \in linked[p] :
        d.heap[bn[1]] = bn[2] /\ \E m \in Mid : d.base[m] = bn[1]

\* A module that a process has linked stays where it is until the process has unlinked
\* it, whatever other processes link, unlink, fork, chain and whenever they end
\* (unlink_module counts their links down, release_module comes with the last one); until
\* a F$Chain fails, which may take a link that is not its own.
LinkedStays == failed \/ StillUsed
==============================================================================
