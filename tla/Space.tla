-------------------------------- MODULE Space --------------------------------
(***************************************************************************)
(* What the allocation of a disk promises: every sector belongs to one     *)
(* file or is free.  A file takes sectors that are free and gives back its *)
(* own; none is lost and none is given to two files.                       *)
(***************************************************************************)
EXTENDS Naturals, FiniteSets

CONSTANTS Name, Sector

VARIABLES owner,  \* the sectors of each file
          free

vars == <<owner, free>>

Init == owner = [n \in Name |-> {}] /\ free = Sector

Take(n, S) == /\ S \subseteq free /\ S # {}
              /\ owner' = [owner EXCEPT ![n] = @ \cup S]
              /\ free' = free \ S

GiveBack(n, S) == /\ S \subseteq owner[n] /\ S # {}
                  /\ owner' = [owner EXCEPT ![n] = @ \ S]
                  /\ free' = free \cup S

Next == /\ free' # free
        /\ \E n \in Name : Take(n, free \ free') \/ GiveBack(n, free' \ free)

Spec == Init /\ [][Next]_vars
=============================================================================
