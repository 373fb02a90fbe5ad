-------------------------------- MODULE Locks --------------------------------
(***************************************************************************)
(* What the programs use an event with the increments -1 and 1 for: a      *)
(* lock.  Every lock has an id of its own that no lock had before, and is  *)
(* taken by one process at a time.  A lock can be done away with at any    *)
(* time; whoever has taken it then keeps what the lock stood for until he  *)
(* gives it back.                                                          *)
(***************************************************************************)
CONSTANTS Proc, Id

VARIABLES locks,    \* the locks there are
          gone,     \* the ids of locks that were done away with
          taken     \* the processes that have taken the lock with an id

vars == <<locks, gone, taken>>

Init == locks = {} /\ gone = {} /\ taken = [i \in Id |-> {}]

Make(i) == /\ i \notin locks \cup gone
           /\ locks' = locks \cup {i}
           /\ UNCHANGED <<gone, taken>>

DoAway(i) == /\ i \in locks
             /\ locks' = locks \ {i}
             /\ gone' = gone \cup {i}
             /\ UNCHANGED taken

Take(p, i) == /\ i \in locks /\ taken[i] = {}
              /\ taken' = [taken EXCEPT ![i] = {p}]
              /\ UNCHANGED <<locks, gone>>

GiveBack(p, i) == /\ p \in taken[i]
                  /\ taken' = [taken EXCEPT ![i] = @ \ {p}]
                  /\ UNCHANGED <<locks, gone>>

Next == \E i \in Id : \/ Make(i) \/ DoAway(i)
                      \/ \E p \in Proc : Take(p, i) \/ GiveBack(p, i)

Spec == Init /\ [][Next]_vars
==============================================================================
