-------------------------------- MODULE Paths --------------------------------
(***************************************************************************)
(* The two tables of paths (filestuff.c): the path numbers of the          *)
(* processes (usrpaths) name system paths, and a system path counts in     *)
(* linkcount the numbers that name it.  A system path is closed when its   *)
(* count comes to 0, except the console that all programs begin with.      *)
(*                                                                         *)
(* Numbers come from I$Open and I$Create, I$Dup, and the parent when a     *)
(* process is forked; they go with I$Close, F$Chain and F$Exit.  The       *)
(* drivers for network and pseudo terminals make paths, too, and the RBF   *)
(* driver holds system paths without numbers for the images of its disks.  *)
(***************************************************************************)
EXTENDS Integers, FiniteSets

CONSTANTS Proc,         \* the processes
          first,        \* the one that is launched first
          MAXUSRPATHS,  \* path numbers of a process
          MAXSYSPATHS,  \* system paths, with number 0 that is not used
          sysStdin,     \* the console,
          sysShared,    \* and the others that are always there: NIL and VMod
          CloseErrors,  \* closing a file may fail in the host
          MaxOpens      \* bound: system paths that are opened in all

UsrPath == 0 .. MAXUSRPATHS - 1
SysPath == 1 .. MAXSYSPATHS - 1
Standard == {sysStdin} \cup sysShared

ASSUME PathsAssumption ==
    /\ MAXUSRPATHS \in Nat /\ MAXUSRPATHS > 2 /\ MAXSYSPATHS \in Nat
    /\ Standard \subseteq SysPath /\ sysStdin \notin sysShared
    /\ CloseErrors \in BOOLEAN /\ MaxOpens \in Nat
    /\ first \in Proc /\ IsFiniteSet(Proc)

VARIABLES alive,      \* the processes that run
          usrpaths,   \* the system path of each of their numbers, or 0
          type,       \* the type of each system path, fNone: free
          linkcount,
          filled,     \* it is a pipe with bytes in it
          sp_img,     \* the system paths that the RBF driver holds
          id,         \* what each system path was opened for, counted
          opens       \* in opens (not in the code: for FilesImplemented)

table == <<type, linkcount, filled>>
vars == <<alive, usrpaths, table, sp_img, id, opens>>

\* What is always there, pipes with a name, and all else (a pipe without a name is closed
\* like a file).
Types == {"fNone", "fCons", "fNIL", "fFile", "fPipe"}

Init == /\ alive = {first}
        /\ usrpaths = [p \in Proc |-> [k \in UsrPath |->
                          IF p = first /\ k < 3 THEN sysStdin ELSE 0]]
        /\ type = [sp \in SysPath |-> CASE sp = sysStdin -> "fCons"
                                        [] sp \in sysShared -> "fNIL"
                                        [] OTHER -> "fNone"]
        /\ linkcount = [sp \in SysPath |-> IF sp = sysStdin THEN 3
                                           ELSE IF sp \in Standard THEN 1 ELSE 0]
        /\ filled = [sp \in SysPath |-> FALSE]
        /\ sp_img = {} /\ id = [sp \in SysPath |-> IF sp \in Standard THEN sp ELSE 0]
        /\ opens = 0

-----------------------------------------------------------------------------
(* Looking for a free entry *)

\* The loops take the lowest one.
Lowest(S) == CHOOSE n \in S : \A m \in S : n <= m

FreeNumbers(p) == {k \in UsrPath : usrpaths[p][k] = 0}

\* Free system paths.  (mutant: those without links, too)
FreePathsUnlinked == {sp \in SysPath : type[sp] = "fNone" \/ linkcount[sp] = 0}
FreePaths == {sp \in SysPath : type[sp] = "fNone"}

\* syspath_new: a system path with one link.
SyspathNew(sp, t) ==
    /\ type' = [type EXCEPT ![sp] = t]
    /\ linkcount' = [linkcount EXCEPT ![sp] = 1]
    /\ filled' = [filled EXCEPT ![sp] = FALSE]
    /\ id' = [id EXCEPT ![sp] = MAXSYSPATHS + opens]
    /\ opens' = opens + 1

\* System paths become free, and what they had is gone.
Free(S) == /\ type' = [sp \in SysPath |-> IF sp \in S THEN "fNone" ELSE type[sp]]
           /\ filled' = [sp \in SysPath |-> sp \notin S /\ filled[sp]]
           /\ id' = [sp \in SysPath |-> IF sp \in S THEN 0 ELSE id[sp]]

\* The system paths with the name of the pipe.
Pipes == {sp \in SysPath : type[sp] = "fPipe"}

\* One more link.
Link(sp) == linkcount' = [linkcount EXCEPT ![sp] = @ + 1]

SetNumber(p, k, sp) == usrpaths' = [usrpaths EXCEPT ![p] = [@ EXCEPT ![k] = sp]]

-----------------------------------------------------------------------------
(* Operations *)

\* usrpath_open and syspath_open of a new path; the network's accept.
Open(p, t) ==
    /\ p \in alive /\ FreeNumbers(p) # {} /\ FreePaths # {} /\ opens < MaxOpens
    /\ t = "fPipe" => Pipes = {}
    /\ SyspathNew(Lowest(FreePaths), t)
    /\ SetNumber(p, Lowest(FreeNumbers(p)), Lowest(FreePaths))
    /\ UNCHANGED <<alive, sp_img>>

\* The same for the paths that are there: NIL, VMod, and a pipe with a name, which is
\* looked for after a new path was found (E_PLINK).
OpenShared(p, sp) ==
    /\ p \in alive /\ FreeNumbers(p) # {}
    /\ sp \in sysShared \/ (sp \in Pipes /\ FreePaths # {})
    /\ Link(sp)
    /\ SetNumber(p, Lowest(FreeNumbers(p)), sp)
    /\ UNCHANGED <<alive, type, filled, sp_img, id, opens>>

\* pKlock: both ends of a pseudo terminal.  The first stays when there is no path or
\* number for the second.
Lock(p) ==
    LET sp == Lowest(FreePaths)
        sp2 == Lowest(FreePaths \ {sp})
        k == Lowest(FreeNumbers(p))
        k2 == Lowest(FreeNumbers(p) \ {k})
        both == FreePaths \ {sp} # {} /\ FreeNumbers(p) \ {k} # {}
    IN /\ p \in alive /\ FreeNumbers(p) # {} /\ FreePaths # {} /\ opens + 1 < MaxOpens
       /\ \/ /\ both
             /\ type' = [s \in SysPath |-> IF s \in {sp, sp2} THEN "fFile" ELSE type[s]]
             /\ linkcount' = [s \in SysPath |-> IF s \in {sp, sp2} THEN 1 ELSE linkcount[s]]
             /\ filled' = [s \in SysPath |-> s \notin {sp, sp2} /\ filled[s]]
             /\ id' = [s \in SysPath |-> IF s = sp THEN MAXSYSPATHS + opens
                                       ELSE IF s = sp2 THEN MAXSYSPATHS + opens + 1 ELSE id[s]]
             /\ opens' = opens + 2
             /\ usrpaths' = [usrpaths EXCEPT ![p] = [n \in UsrPath |->
                                IF n = k THEN sp ELSE IF n = k2 THEN sp2 ELSE @[n]]]
          \/ /\ ~both
             /\ SyspathNew(sp, "fFile")
             /\ SetNumber(p, k, sp)
       /\ UNCHANGED <<alive, sp_img>>

\* I$Dup.  What usrpath_link reports is not looked at.
Dup(p, k) ==
    /\ p \in alive /\ usrpaths[p][k] # 0 /\ FreeNumbers(p) # {}
    /\ SetNumber(p, Lowest(FreeNumbers(p)), usrpaths[p][k])
    /\ IF type[usrpaths[p][k]] # "fNone" THEN Link(usrpaths[p][k]) ELSE UNCHANGED linkcount
    /\ UNCHANGED <<alive, type, filled, sp_img, id, opens>>

\* How many of the numbers in S of process p name sp.
Count(p, S, sp) == Cardinality({k \in S : usrpaths[p][k] = sp})

\* What new_process gives to a child for its first numbers.  (mutant: all numbers)
InheritedAll(p, n) == usrpaths[p]
Inherited(p, n) == [k \in UsrPath |-> IF k < n /\ usrpaths[p][k] # 0
                                         /\ type[usrpaths[p][k]] # "fNone"
                                      THEN usrpaths[p][k] ELSE 0]

\* F$Fork.  When the module cannot be started close_usrpaths takes all back.
Fork(p, child, n) ==
    /\ p \in alive /\ child \notin alive
    /\ alive' = alive \cup {child}
    /\ usrpaths' = [usrpaths EXCEPT ![child] = Inherited(p, n)]
    /\ linkcount' = [sp \in SysPath |->
           IF type[sp] = "fNone" THEN linkcount[sp]
           ELSE linkcount[sp] + Count(p, 0 .. n - 1, sp)]
    /\ UNCHANGED <<type, filled, sp_img, id, opens>>

\* What the close function of the file manager says: a pipe with a name and bytes in it
\* is to be left open.  (mutant: the console is closed as well)
StaysFilled(sp) == filled[sp]
Stays(sp) == sp = sysStdin \/ filled[sp]

\* syspath_close for each of the numbers in S that process p has.  The console is not
\* closed, and the number that would close it stays.  A file that is closed with an
\* error is free like the others, but the number that closed it stays, too.
Close(p, S, bad) ==
    LET left(sp) == linkcount[sp] - Count(p, S, sp)
        last(sp) == type[sp] # "fNone" /\ Count(p, S, sp) > 0 /\ left(sp) <= 0
        keeps(k) == LET sp == usrpaths[p][k] IN
                    /\ sp # 0
                    /\ \/ type[sp] = "fNone"
                       \/ /\ last(sp) /\ (sp = sysStdin \/ sp \in bad)
                          /\ Cardinality({j \in S : j > k /\ usrpaths[p][j] = sp}) <= -left(sp)
    IN /\ \A sp \in bad : last(sp)
       /\ linkcount' = [sp \in SysPath |-> IF type[sp] = "fNone" THEN linkcount[sp]
                                           ELSE IF left(sp) < 0 THEN 0 ELSE left(sp)]
       /\ Free({sp \in SysPath : last(sp) /\ ~Stays(sp)})
       /\ usrpaths' = [usrpaths EXCEPT ![p] =
              [k \in UsrPath |-> IF k \in S /\ ~keeps(k) THEN 0 ELSE @[k]]]
       /\ UNCHANGED <<sp_img, opens>>

\* The files that cannot be closed without an error.
Errors == IF CloseErrors THEN SUBSET {sp \in SysPath : type[sp] = "fFile"} ELSE {{}}

\* I$Close.
CloseNumber(p, k, bad) == /\ p \in alive /\ Close(p, {k}, bad)
                          /\ UNCHANGED alive

\* F$Chain: the numbers from n on are closed.
Chain(p, n, bad) == /\ p \in alive /\ Close(p, n .. MAXUSRPATHS - 1, bad)
                    /\ UNCHANGED alive

\* kill_process: all are closed; close_usrpaths leaves those alone that stay.
Exit(p, bad) == /\ p \in alive /\ Close(p, UsrPath, bad)
                /\ alive' = alive \ {p}

\* Bytes are put into a pipe and taken from it.
Move(p, k) ==
    /\ p \in alive /\ usrpaths[p][k] # 0 /\ type[usrpaths[p][k]] = "fPipe"
    /\ filled' = [filled EXCEPT ![usrpaths[p][k]] = ~@]
    /\ UNCHANGED <<alive, usrpaths, type, linkcount, sp_img, id, opens>>

\* I$Delete of a pipe's name.
Delete(sp) ==
    /\ sp \in Pipes /\ linkcount[sp] = 0
    /\ Free({sp})
    /\ UNCHANGED <<alive, usrpaths, linkcount, sp_img, opens>>

\* The RBF driver opens the image of a disk and closes it (DeviceInit, ReleaseIt).
OpenImage == /\ FreePaths # {} /\ opens < MaxOpens
             /\ SyspathNew(Lowest(FreePaths), "fFile")
             /\ sp_img' = sp_img \cup {Lowest(FreePaths)}
             /\ UNCHANGED <<alive, usrpaths>>

CloseImage(sp) == /\ sp \in sp_img
                  /\ linkcount' = [linkcount EXCEPT ![sp] = 0]
                  /\ Free({sp})
                  /\ sp_img' = sp_img \ {sp}
                  /\ UNCHANGED <<alive, usrpaths, opens>>

Next == \/ \E p \in Proc : \/ \E t \in {"fFile", "fPipe"} : Open(p, t)
                           \/ \E sp \in SysPath : OpenShared(p, sp)
                           \/ Lock(p)
                           \/ \E k \in UsrPath : Dup(p, k) \/ Move(p, k)
                           \/ \E child \in Proc, n \in 0 .. MAXUSRPATHS : Fork(p, child, n)
                           \/ \E bad \in Errors :
                                  \/ \E k \in UsrPath : CloseNumber(p, k, bad)
                                  \/ \E n \in UsrPath : Chain(p, n, bad)
                                  \/ Exit(p, bad)
        \/ \E sp \in SysPath : Delete(sp) \/ CloseImage(sp)
        \/ OpenImage

Spec == Init /\ [][Next]_vars

-----------------------------------------------------------------------------
(* Properties *)

\* Every variable keeps its type, and the paths that are always there stay what they are.
PathsTypeOK ==
    /\ alive \subseteq Proc
    /\ usrpaths \in [Proc -> [UsrPath -> 0 .. MAXSYSPATHS - 1]]
    /\ type \in [SysPath -> Types] /\ linkcount \in [SysPath -> Nat]
    /\ filled \in [SysPath -> BOOLEAN]
    /\ sp_img \subseteq SysPath /\ id \in [SysPath -> Nat] /\ opens \in 0 .. MaxOpens
    /\ type[sysStdin] = "fCons" /\ \A sp \in sysShared : type[sp] = "fNIL"

\* The link count of an open path is the number of the path numbers that name it, of all
\* processes, and the RBF driver's hold (syspath_close counts what usrpath_open,
\* usrpath_link and new_process have counted); one that nobody names is a pipe that waits
\* for a reader.
Names(sp) == {pk \in alive \X UsrPath : usrpaths[pk[1]][pk[2]] = sp}
Held(sp) == IF sp \in sp_img THEN 1 ELSE 0
LinkCounts ==
    /\ \A sp \in SysPath \ Standard : type[sp] # "fNone" =>
           /\ linkcount[sp] = Cardinality(Names(sp)) + Held(sp)
           /\ linkcount[sp] = 0 => sp \in Pipes
    /\ \A sp \in sysShared : linkcount[sp] = Cardinality(Names(sp)) + 1

\* The paths as objects: what each was opened for.
Object == SysPath \cup (MAXSYSPATHS .. MAXSYSPATHS + MaxOpens)
Fd == [p \in Proc |-> [k \in UsrPath |->
          IF p \in alive /\ usrpaths[p][k] # 0 THEN id[usrpaths[p][k]] ELSE 0]]
Live == {id[sp] : sp \in {s \in SysPath : type[s] # "fNone"}}
Used == Standard \cup (MAXSYSPATHS .. MAXSYSPATHS + opens - 1)
Abstract == INSTANCE Files WITH Proc <- Proc, Number <- UsrPath, Object <- Object,
                None <- 0, fd <- Fd, live <- Live, used <- Used

\* Path numbers are what programs take them for: a number never comes to name something
\* else because another process closed the path and a third one opened a new path in its
\* place (syspath_new takes the first free path).
FilesImplemented == Abstract!Spec
==============================================================================
