-------------------------------- MODULE Files --------------------------------
(***************************************************************************)
(* What path numbers promise to programs: a number names the object it was *)
(* opened for (a file, a pipe, a device) until the process itself closes   *)
(* it or ends, whatever other processes open and close; duplicated and     *)
(* inherited numbers name the same object; and an object is there as long  *)
(* as somebody has a number for it.                                        *)
(***************************************************************************)
CONSTANTS Proc, Number, Object, None

VARIABLES fd,    \* the object that each number of each process names, or None
          live,  \* the objects there are
          used   \* the objects there have ever been

vars == <<fd, live, used>>

Named == {fd[p][k] : p \in Proc, k \in Number} \ {None}

\* New numbers for new objects.
Open(p) == LET new == {k \in Number : fd'[p][k] # fd[p][k]} IN
           /\ fd' = [fd EXCEPT ![p] = fd'[p]]
           /\ \A k \in new : fd[p][k] = None /\ fd'[p][k] \in Object \ used
           /\ \A j, k \in new : fd'[p][j] = fd'[p][k] => j = k
           /\ live' = live \cup {fd'[p][k] : k \in new}

\* A new number for an object that is there.
Share(p) == \E k \in Number, o \in live :
                /\ fd[p][k] = None
                /\ fd' = [fd EXCEPT ![p] = [@ EXCEPT ![k] = o]]
                /\ live' = live

\* A new process begins with some of its parent's numbers.
Inherit(p, q) == /\ \A k \in Number : fd[q][k] = None
                 /\ \A k \in Number : fd'[q][k] \in {None, fd[p][k]}
                 /\ fd' = [fd EXCEPT ![q] = fd'[q]]
                 /\ live' = live

\* Numbers are given up, and with the last number its object may go.
Close(p) == /\ \A k \in Number : fd'[p][k] \in {None, fd[p][k]}
            /\ fd' = [fd EXCEPT ![p] = fd'[p]]
            /\ Named' \subseteq live' /\ live' \subseteq live

\* Objects without a number come and go (the kernel's own, pipes with a name).
Else == /\ fd' = fd
        /\ Named \subseteq live'
        /\ live' \cap (used \ live) = {}

Next == /\ \/ \E p \in Proc : Open(p) \/ Share(p) \/ Close(p) \/ \E q \in Proc : Inherit(p, q)
           \/ Else
        /\ used' = used \cup live'

Init == /\ Named \subseteq live /\ used = live

Spec == Init /\ [][Next]_vars
=============================================================================
