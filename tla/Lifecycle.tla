------------------------------ MODULE Lifecycle ------------------------------
(***************************************************************************)
(* What the process table promises the programs, without signals, states   *)
(* or scheduling: a process is made by a living parent, ends once, and its *)
(* end is reported to its parent exactly once - unless there is no parent  *)
(* left that could ask for it.                                             *)
(***************************************************************************)
EXTENDS Naturals

CONSTANT Process       \* the process ids

Process0 == Process \cup {0}   \* with 0 for "no process"

VARIABLES status,      \* what has become of each id
          parent       \* and whom its end will be reported to

lvars == <<status, parent>>

Status == {"free", "alive", "zombie"}

LifecycleTypeOK == /\ status \in [Process0 -> Status]
                   /\ parent \in [Process0 -> Process0]

\* The processes that live from the start have no parent.
LifecycleInit == /\ status \in [Process0 -> {"free", "alive"}]
                 /\ status[0] = "free"
                 /\ parent = [p \in Process0 |-> 0]

Fork(p, q) ==
  /\ status[p] = "alive" /\ status[q] = "free" /\ q # 0
  /\ status' = [status EXCEPT ![q] = "alive"]
  /\ parent' = [parent EXCEPT ![q] = p]

\* The processes in S end together.  Their children have no parent any more.
OnlyOrphans(S) == {q \in Process0 : parent[q] = 0}   \* mutant: nobody is orphaned
Fatherless(S) == {q \in Process0 : parent[q] = 0 \/ parent[q] \in S}

End(S) ==
  /\ S # {} /\ \A p \in S : status[p] = "alive"
  /\ status' = [q \in Process0 |->
                  IF q \in Fatherless(S) /\ (q \in S \/ status[q] = "zombie")
                  THEN "free"
                  ELSE IF q \in S THEN "zombie" ELSE status[q]]
  /\ parent' = [q \in Process0 |->
                  IF q \in Fatherless(S) THEN 0 ELSE parent[q]]

Reported(q) ==
  /\ status[q] = "zombie"
  /\ status' = [status EXCEPT ![q] = "free"]
  /\ parent' = [parent EXCEPT ![q] = 0]

LifecycleNext == \/ \E p, q \in Process0 : Fork(p, q)
                 \/ \E S \in SUBSET Process0 : End(S)
                 \/ \E q \in Process0 : Reported(q)

LifecycleSpec == LifecycleInit /\ [][LifecycleNext]_lvars

-----------------------------------------------------------------------------
\* Nobody's parent is gone, and no zombie waits for a parent that is gone.
NoLostParent ==
  \A q \in Process0 :
     /\ parent[q] # 0 => status[parent[q]] = "alive"
     /\ status[q] = "zombie" => parent[q] # 0
     /\ status[q] = "free" => parent[q] = 0
=============================================================================
