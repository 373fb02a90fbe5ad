--------------------------- MODULE Lifecycle_proofs ---------------------------
(***************************************************************************)
(* What Lifecycle promises the programs holds for any number of processes. *)
(***************************************************************************)
EXTENDS Lifecycle, TLAPS

Promised == LifecycleTypeOK /\ NoLostParent

\* "No process" is in the range of parent.
LEMMA NobodyIsNobody == 0 \in Process0
BY DEF Process0

\* At the start nobody has a parent and nobody is dead.
LEMMA InitPromised == LifecycleInit => Promised
BY NobodyIsNobody DEF LifecycleInit, Promised, LifecycleTypeOK, NoLostParent, Status

\* A child gets a parent that lives.
LEMMA ForkPromised ==
  ASSUME Promised, NEW p \in Process0, NEW q \in Process0, Fork(p, q)
  PROVE  Promised'
<1>1. LifecycleTypeOK'
  BY DEF Promised, LifecycleTypeOK, Fork, Status
<1>2. \A x \in Process0 : /\ status'[x] = IF x = q THEN "alive" ELSE status[x]
                          /\ parent'[x] = IF x = q THEN p ELSE parent[x]
  BY DEF Promised, LifecycleTypeOK, Fork
<1>3. NoLostParent'
  BY <1>2 DEF Promised, LifecycleTypeOK, NoLostParent, Fork
<1> QED BY <1>1, <1>3 DEF Promised

\* Whoever ends takes itself out of the parents of all others.
LEMMA EndPromised ==
  ASSUME Promised, NEW S \in SUBSET Process0, End(S)
  PROVE  Promised'
<1>1. \A x \in Process0 :
        /\ status'[x] = IF x \in Fatherless(S) /\ (x \in S \/ status[x] = "zombie")
                        THEN "free" ELSE IF x \in S THEN "zombie" ELSE status[x]
        /\ parent'[x] = IF x \in Fatherless(S) THEN 0 ELSE parent[x]
  BY DEF End
<1>2. \A x \in Process0 : x \in Fatherless(S) <=> (parent[x] = 0 \/ parent[x] \in S)
  BY DEF Fatherless
<1>3. \A x \in Process0 : status[x] \in Status /\ parent[x] \in Process0
  BY DEF Promised, LifecycleTypeOK
<1>4. LifecycleTypeOK'
  <2>1. \A x \in Process0 : status'[x] \in Status /\ parent'[x] \in Process0
    BY <1>1, <1>3, NobodyIsNobody DEF Status
  <2> QED BY <2>1 DEF End, LifecycleTypeOK
<1>5. ASSUME NEW x \in Process0, parent'[x] # 0
      PROVE  status'[parent'[x]] = "alive"
  <2>1. parent'[x] = parent[x] /\ parent[x] \notin S /\ status[parent[x]] = "alive"
    BY <1>1, <1>2, <1>5 DEF Promised, NoLostParent
  <2> QED BY <1>1, <1>3, <2>1
<1>6. \A x \in Process0 : /\ status'[x] = "zombie" => parent'[x] # 0
                          /\ status'[x] = "free" => parent'[x] = 0
  BY <1>1, <1>2, <1>3 DEF Promised, NoLostParent, End
<1> QED BY <1>4, <1>5, <1>6 DEF Promised, NoLostParent

\* Nobody names a dead process as its parent.
LEMMA ReportedPromised ==
  ASSUME Promised, NEW q \in Process0, Reported(q)
  PROVE  Promised'
<1>1. LifecycleTypeOK'
  BY NobodyIsNobody DEF Promised, LifecycleTypeOK, Reported, Status
<1>2. \A x \in Process0 : /\ status'[x] = IF x = q THEN "free" ELSE status[x]
                          /\ parent'[x] = IF x = q THEN 0 ELSE parent[x]
  BY DEF Promised, LifecycleTypeOK, Reported
<1>3. NoLostParent'
  BY <1>2 DEF Promised, LifecycleTypeOK, NoLostParent, Reported
<1> QED BY <1>1, <1>3 DEF Promised

\* Nobody's parent is gone and every zombie has a parent that can ask for it:
\* what fork, end and report promise the programs, for any set of process ids.
THEOREM PromiseKept == LifecycleSpec => []NoLostParent
<1>1. Promised /\ [LifecycleNext]_lvars => Promised'
  <2> SUFFICES ASSUME Promised, [LifecycleNext]_lvars PROVE Promised'
    OBVIOUS
  <2>1. CASE LifecycleNext
    BY <2>1, ForkPromised, EndPromised, ReportedPromised DEF LifecycleNext
  <2>2. CASE UNCHANGED lvars
    BY <2>2 DEF lvars, Promised, LifecycleTypeOK, NoLostParent
  <2> QED BY <2>1, <2>2
<1>2. Promised => NoLostParent
  BY DEF Promised
<1> QED BY <1>1, <1>2, InitPromised, PTL DEF LifecycleSpec

=============================================================================
