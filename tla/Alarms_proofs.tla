----------------------------- MODULE Alarms_proofs -----------------------------
(***************************************************************************)
(* The three tables of the alarms agree and the queue is sorted, for any   *)
(* sizes and whatever A_Kill skips; and an alarm for a date never goes off *)
(* before that date, for every width of the tick counter and every length  *)
(* of a day.                                                               *)
(***************************************************************************)
EXTENDS Alarms, SequenceTheorems, FiniteSetTheorems, WellFoundedInduction, TLAPS

-----------------------------------------------------------------------------
(* Numbers, and the loop of A_Kill                                         *)

\* Every set of numbers that is not empty has a least member.
LEMMA LeastNumber ==
  ASSUME NEW S, S \subseteq Nat, S # {}
  PROVE  Min(S) \in S /\ \A k \in S : Min(S) <= k
<1> DEFINE R == OpToRel(<, Nat)
<1>0. IsWellFoundedOn(R, Nat)
  BY NatLessThanWellFounded
<1>1. \A x, y \in Nat : <<y, x>> \notin R => x <= y
  <2>1. \A x, y \in Nat : y < x => <<y, x>> \in R
    BY Zenon DEF OpToRel
  <2> HIDE DEF R
  <2> QED BY <2>1
<1> HIDE DEF R
<1>2. \E x \in S : \A y \in S : <<y, x>> \notin R
  BY <1>0, WFMin
<1>3. \E x \in S : \A y \in S : x <= y
  BY <1>1, <1>2
<1> QED BY <1>3 DEF Min

IsWalk(w, a, p, n) == w = [k \in 0 .. n |-> IF k = 0 THEN a ELSE KillAt(w[k - 1], k, p)]

\* The loop of A_Kill ends: there is a function that holds what each round leaves behind.
LEMMA WalkEnds ==
  ASSUME NEW a, NEW p, NEW n \in Nat
  PROVE  \E w : IsWalk(w, a, p, n)
<1> DEFINE Step(w, k) == IF k = 0 THEN a ELSE KillAt(w[k - 1], k, p)
           Ends(m) == \E w : w = [k \in 0 .. m |-> Step(w, k)]
           Bad == {m \in Nat : ~Ends(m)}
<1>1. Ends(0)
  <2> DEFINE w == [k \in 0 .. 0 |-> a]
  <2>1. w = [k \in 0 .. 0 |-> Step(w, k)]
    OBVIOUS
  <2> QED BY <2>1
<1>2. ASSUME NEW m \in Nat, Ends(m) PROVE Ends(m + 1)
  <2>1. PICK w : w = [k \in 0 .. m |-> Step(w, k)]
    BY <1>2
  <2> DEFINE x == KillAt(w[m], m + 1, p)
             v == [k \in 0 .. m + 1 |-> IF k = m + 1 THEN x ELSE w[k]]
  <2>2. \A k \in 0 .. m + 1 : v[k] = Step(v, k)
    <3> SUFFICES ASSUME NEW k \in 0 .. m + 1 PROVE v[k] = Step(v, k)
      OBVIOUS
    <3>1. CASE k = m + 1
      <4>1. v[k] = x /\ k # 0 /\ k - 1 = m /\ v[k - 1] = w[m]
        BY <3>1
      <4> QED BY <3>1, <4>1
    <3>2. CASE k # m + 1
      <4>1. k \in 0 .. m /\ v[k] = w[k]
        BY <3>2
      <4>2. w[k] = Step(w, k)
        BY <2>1, <4>1
      <4>3. k # 0 => v[k - 1] = w[k - 1]
        BY <4>1
      <4> QED BY <4>1, <4>2, <4>3
    <3> QED BY <3>1, <3>2
  <2>3. v = [k \in 0 .. m + 1 |-> Step(v, k)]
    <3> HIDE DEF Step, x
    <3> QED BY <2>2
  <2> QED BY <2>3
<1> HIDE DEF Ends
<1>3. Bad = {}
  <2> SUFFICES ASSUME Bad # {} PROVE FALSE
    OBVIOUS
  <2>1. PICK m \in Bad : \A k \in Bad : m <= k
    BY LeastNumber
  <2>2. m # 0 /\ m - 1 \in Nat
    BY <1>1, <2>1
  <2>3. Ends(m - 1)
    BY <2>1, <2>2
  <2>4. Ends(m - 1 + 1) /\ m - 1 + 1 = m
    BY <1>2, <2>2, <2>3
  <2> QED BY <2>4
<1> QED BY <1>3 DEF Ends, IsWalk

\* The end of a process does nothing but remove alarms, one after the other: what A_Remove
\* does not lead out of, A_Kill does not.
LEMMA KillStays ==
  ASSUME NEW S, NEW a \in S, NEW p, Len(a.queue) \in Nat,
         \A b \in S, s \in Entries : A_Remove(b, s) \in S,
         \A b \in S : b.queue \in Seq(Entries)
  PROVE  A_Kill(a, p) \in S
<1> DEFINE n == Len(a.queue)
           walk[k \in 0 .. n] == IF k = 0 THEN a ELSE KillAt(walk[k - 1], k, p)
<1>1. A_Kill(a, p) = walk[n]
  BY DEF A_Kill
<1>2. walk = [k \in 0 .. n |-> IF k = 0 THEN a ELSE KillAt(walk[k - 1], k, p)]
  <2>1. n \in Nat
    OBVIOUS
  <2> HIDE DEF n
  <2>2. \E w : IsWalk(w, a, p, n)
    BY <2>1, WalkEnds
  <2> QED BY <2>2, Zenon DEF walk, IsWalk
<1>0. n \in Nat
  OBVIOUS
<1> HIDE DEF walk, n
<1>3. ASSUME NEW b \in S, NEW k \in Nat \ {0} PROVE KillAt(b, k, p) \in S
  <2>1. k <= Len(b.queue) => b.queue[k] \in Entries
    BY <1>3
  <2> QED BY <1>3, <2>1 DEF KillAt
<1>4. {k \in 0 .. n : walk[k] \notin S} = {}
  <2> DEFINE Bad == {k \in 0 .. n : walk[k] \notin S}
  <2> SUFFICES ASSUME Bad # {} PROVE FALSE
    OBVIOUS
  <2>1. PICK k \in Bad : \A j \in Bad : k <= j
    <3>1. Bad \subseteq Nat
      OBVIOUS
    <3> QED BY <3>1, LeastNumber
  <2>2. k \in 0 .. n /\ walk[k] \notin S
    OBVIOUS
  <2>3. k # 0
    BY <1>2, <2>2
  <2>4. k - 1 \in 0 .. n /\ ~(k <= k - 1)
    BY <1>0, <2>2, <2>3
  <2>5. walk[k - 1] \in S
    BY <2>1, <2>4
  <2>6. walk[k] = KillAt(walk[k - 1], k, p)
    BY <1>2, <2>2, <2>3
  <2> QED BY <1>3, <2>2, <2>3, <2>5, <2>6
<1> QED BY <1>0, <1>1, <1>4

-----------------------------------------------------------------------------
(* Putting into a sequence and taking out of it                            *)

\* The largest of the numbers up to n.
LEMMA GreatestNumber ==
  ASSUME NEW n \in Nat, NEW S, S \subseteq 0 .. n, S # {}
  PROVE  Max(S) \in S /\ \A k \in S : k <= Max(S)
<1> DEFINE U == {u \in 0 .. n : \A k \in S : k <= u}
           u == Min(U)
<1>1. n \in U /\ U \subseteq Nat
  OBVIOUS
<1>2. u \in U /\ \A k \in U : u <= k
  BY <1>1, LeastNumber
<1> HIDE DEF u
<1>3. u \in S
  <2> SUFFICES ASSUME u \notin S PROVE FALSE
    OBVIOUS
  <2>1. \A k \in S : k \in 0 .. n /\ k <= u /\ k # u
    BY <1>2
  <2>2. PICK k \in S : TRUE
    OBVIOUS
  <2>3. u \in 0 .. n
    BY <1>2
  <2>4. u - 1 \in 0 .. n /\ \A j \in S : j <= u - 1
    BY <2>1, <2>2, <2>3
  <2>5. u - 1 \in U
    BY <2>4
  <2> QED BY <1>2, <2>3, <2>5
<1>4. \A k \in S : k <= u
  BY <1>2
<1>5. \A k \in S : k \in 0 .. n
  OBVIOUS
<1>6. \E x \in S : \A y \in S : x >= y
  BY <1>3, <1>4, <1>5
<1>7. Max(S) \in S /\ \A y \in S : Max(S) >= y
  BY <1>6 DEF Max
<1> QED BY <1>5, <1>7

\* What comes before a place stays where it is, what is behind moves up.
LEMMA InsertIs ==
  ASSUME NEW T, NEW q \in Seq(T), NEW s \in T, NEW m \in 0 .. Len(q)
  PROVE  LET u == InsertAt(q, m + 1, s)
         IN  /\ u \in Seq(T) /\ Len(u) = Len(q) + 1
             /\ \A k \in 1 .. Len(q) + 1 :
                  u[k] = IF k <= m THEN q[k] ELSE IF k = m + 1 THEN s ELSE q[k - 1]
<1> DEFINE l == SubSeq(q, 1, m)
           r == SubSeq(q, m + 1, Len(q))
           e == <<s>>
<1>0. Len(q) \in Nat /\ m \in Nat /\ m <= Len(q) /\ \A k \in 1 .. Len(q) : q[k] \in T
  OBVIOUS
<1>1. l \in Seq(T) /\ Len(l) = m /\ \A k \in 1 .. m : l[k] = q[k]
  BY <1>0, SubSeqProperties
<1>2. r \in Seq(T) /\ Len(r) = Len(q) - m /\ \A k \in 1 .. Len(q) - m : r[k] = q[m + k]
  <2>1. Len(q) - (m + 1) + 1 = Len(q) - m
    BY <1>0
  <2>2. m + 1 \in Nat /\ m + 1 <= Len(q) + 1
    BY <1>0
  <2>3. \A k \in 1 .. Len(q) - m : m + 1 + k - 1 = m + k
    BY <1>0
  <2>4. /\ r \in Seq(T)
        /\ Len(r) = IF m + 1 <= Len(q) THEN Len(q) - (m + 1) + 1 ELSE 0
        /\ \A k \in 1 .. Len(q) - (m + 1) + 1 : r[k] = q[m + 1 + k - 1]
    BY <1>0, <2>2, SubSeqProperties
  <2> HIDE DEF r
  <2>5. Len(r) = Len(q) - m
    <3>1. CASE m + 1 <= Len(q)
      BY <2>1, <2>4, <3>1
    <3>2. CASE ~(m + 1 <= Len(q))
      <4>1. 0 = Len(q) - m
        BY <1>0, <3>2
      <4> QED BY <2>4, <3>2, <4>1
    <3> QED BY <3>1, <3>2
  <2>6. ASSUME NEW k \in 1 .. Len(q) - m PROVE r[k] = q[m + k]
    <3>1. r[k] = q[m + 1 + k - 1] /\ m + 1 + k - 1 = m + k
      BY <2>1, <2>3, <2>4
    <3> QED BY <3>1
  <2> QED BY <2>4, <2>5, <2>6
<1>3. e \in Seq(T) /\ Len(e) = 1 /\ e[1] = s
  OBVIOUS
<1> HIDE DEF l, r, e
<1>4. /\ l \o e \in Seq(T) /\ Len(l \o e) = m + 1
      /\ \A k \in 1 .. m + 1 : (l \o e)[k] = IF k <= m THEN q[k] ELSE s
  <2>1. /\ l \o e \in Seq(T) /\ Len(l \o e) = Len(l) + Len(e)
        /\ \A k \in 1 .. Len(l) + Len(e) : (l \o e)[k] = IF k <= Len(l) THEN l[k] ELSE e[k - Len(l)]
    BY <1>1, <1>3, ConcatProperties
  <2>2. \A k \in 1 .. m + 1 : ~(k <= m) => k - m = 1
    BY <1>0
  <2> QED BY <1>0, <1>1, <1>3, <2>1, <2>2
<1> DEFINE b == l \o e
<1>5. b \in Seq(T) /\ Len(b) = m + 1 /\ \A k \in 1 .. m + 1 : b[k] = IF k <= m THEN q[k] ELSE s
  BY <1>4
<1>6. InsertAt(q, m + 1, s) = b \o r
  <2>1. (m + 1) - 1 = m
    BY <1>0
  <2>2. SubSeq(q, 1, (m + 1) - 1) = l
    BY <2>1 DEF l
  <2> DEFINE g == SubSeq(q, 1, (m + 1) - 1)
  <2>3. InsertAt(q, m + 1, s) = g \o e \o r
    BY DEF InsertAt, e, r
  <2> HIDE DEF g
  <2> QED BY <2>2, <2>3 DEF b, g
<1> HIDE DEF b
<1>7. /\ b \o r \in Seq(T) /\ Len(b \o r) = Len(b) + Len(r)
      /\ \A k \in 1 .. Len(b) + Len(r) : (b \o r)[k] = IF k <= Len(b) THEN b[k] ELSE r[k - Len(b)]
  BY <1>2, <1>5, ConcatProperties
<1>8. Len(b) + Len(r) = Len(q) + 1
  BY <1>0, <1>2, <1>5
<1>9. ASSUME NEW k \in 1 .. Len(q) + 1
      PROVE  (b \o r)[k] = IF k <= m THEN q[k] ELSE IF k = m + 1 THEN s ELSE q[k - 1]
  <2>1. CASE k <= m + 1
    BY <1>0, <1>5, <1>7, <1>8, <2>1
  <2>2. CASE ~(k <= m + 1)
    <3>1. k - (m + 1) \in 1 .. Len(q) - m /\ m + (k - (m + 1)) = k - 1
      BY <1>0, <2>2
    <3>2. (b \o r)[k] = r[k - (m + 1)]
      BY <1>5, <1>7, <1>8, <2>2
    <3> QED BY <1>0, <1>2, <2>2, <3>1, <3>2
  <2> QED BY <2>1, <2>2
<1> QED BY <1>6, <1>7, <1>8, <1>9

\* What comes before a place stays where it is, what is behind moves down.
LEMMA RemoveIs ==
  ASSUME NEW T, NEW q \in Seq(T), NEW m \in 1 .. Len(q)
  PROVE  LET u == RemoveAt(q, m)
         IN  /\ u \in Seq(T) /\ Len(u) = Len(q) - 1
             /\ \A k \in 1 .. Len(q) - 1 : u[k] = IF k < m THEN q[k] ELSE q[k + 1]
<1> DEFINE l == SubSeq(q, 1, m - 1)
           r == SubSeq(q, m + 1, Len(q))
<1>0. Len(q) \in Nat /\ m \in Nat /\ m >= 1 /\ m <= Len(q) /\ \A k \in 1 .. Len(q) : q[k] \in T
  OBVIOUS
<1>1. l \in Seq(T) /\ Len(l) = m - 1 /\ \A k \in 1 .. m - 1 : l[k] = q[k]
  <2>1. m - 1 \in Nat /\ \A k \in 1 .. m - 1 : k \in 1 .. Len(q)
    BY <1>0
  <2> QED BY <1>0, <2>1, SubSeqProperties
<1>2. r \in Seq(T) /\ Len(r) = Len(q) - m /\ \A k \in 1 .. Len(q) - m : r[k] = q[m + k]
  <2>1. Len(q) - (m + 1) + 1 = Len(q) - m
    BY <1>0
  <2>2. m + 1 \in Nat /\ m + 1 <= Len(q) + 1
    BY <1>0
  <2>3. \A k \in 1 .. Len(q) - m : m + 1 + k - 1 = m + k
    BY <1>0
  <2>4. /\ r \in Seq(T)
        /\ Len(r) = IF m + 1 <= Len(q) THEN Len(q) - (m + 1) + 1 ELSE 0
        /\ \A k \in 1 .. Len(q) - (m + 1) + 1 : r[k] = q[m + 1 + k - 1]
    BY <1>0, <2>2, SubSeqProperties
  <2> HIDE DEF r
  <2>5. Len(r) = Len(q) - m
    <3>1. CASE m + 1 <= Len(q)
      BY <2>1, <2>4, <3>1
    <3>2. CASE ~(m + 1 <= Len(q))
      <4>1. 0 = Len(q) - m
        BY <1>0, <3>2
      <4> QED BY <2>4, <3>2, <4>1
    <3> QED BY <3>1, <3>2
  <2>6. ASSUME NEW k \in 1 .. Len(q) - m PROVE r[k] = q[m + k]
    <3>1. r[k] = q[m + 1 + k - 1] /\ m + 1 + k - 1 = m + k
      BY <2>1, <2>3, <2>4
    <3> QED BY <3>1
  <2> QED BY <2>4, <2>5, <2>6
<1>3. RemoveAt(q, m) = l \o r
  BY DEF RemoveAt
<1> HIDE DEF l, r
<1>4. /\ l \o r \in Seq(T) /\ Len(l \o r) = Len(l) + Len(r)
      /\ \A k \in 1 .. Len(l) + Len(r) : (l \o r)[k] = IF k <= Len(l) THEN l[k] ELSE r[k - Len(l)]
  BY <1>1, <1>2, ConcatProperties
<1>5. Len(l) + Len(r) = Len(q) - 1
  BY <1>0, <1>1, <1>2
<1>6. ASSUME NEW k \in 1 .. Len(q) - 1
      PROVE  (l \o r)[k] = IF k < m THEN q[k] ELSE q[k + 1]
  <2>1. CASE k < m
    BY <1>0, <1>1, <1>4, <1>5, <2>1
  <2>2. CASE ~(k < m)
    <3>1. k - (m - 1) \in 1 .. Len(q) - m /\ m + (k - (m - 1)) = k + 1 /\ ~(k <= m - 1)
      BY <1>0, <2>2
    <3>2. (l \o r)[k] = r[k - (m - 1)]
      BY <1>1, <1>4, <1>5, <3>1
    <3> QED BY <1>0, <1>2, <2>2, <3>1, <3>2
  <2> QED BY <2>1, <2>2
<1> QED BY <1>3, <1>4, <1>5, <1>6

-----------------------------------------------------------------------------
(* The three tables                                                        *)

Types(f, q, d) ==
  /\ f \in [Entries -> AlarmRecord] /\ q \in Seq(Entries) /\ d \in Seq(Entries \cup {NoAlarm})
  /\ Len(d) <= alarms_capacity

\* An entry is in the queue and has an id if and only if it is in use, and once.
Agree(f, q, d) ==
  /\ \A k \in 1 .. Len(q) : f[q[k]].pid # 0
  /\ \A i \in 1 .. Len(d) : d[i] # NoAlarm => f[d[i]].pid # 0
  /\ \A s \in Entries : f[s].pid # 0 => /\ \E k \in 1 .. Len(q) : q[k] = s
                                        /\ \E i \in 1 .. Len(d) : d[i] = s
  /\ \A j, k \in 1 .. Len(q) : q[j] = q[k] => j = k
  /\ \A i, h \in 1 .. Len(d) : d[i] # NoAlarm /\ d[i] = d[h] => i = h

\* The queue is sorted by dates, and alarms for the same moment by ids.
Sorted(f, q, d) ==
  \A j, k \in 1 .. Len(q) :
    j < k => \/ f[q[j]].due < f[q[k]].due
             \/ /\ f[q[j]].due = f[q[k]].due
                /\ \A i, h \in 1 .. Len(d) : d[i] = q[j] /\ d[h] = q[k] => i < h

TablesOK(f, q, d) == Types(f, q, d) /\ Agree(f, q, d) /\ Sorted(f, q, d)

AllOK == {a \in AlarmState : TablesOK(a.alarms, a.queue, a.ids)}

\* Where places and entries are.
LEMMA TypesAre ==
  ASSUME NEW f, NEW q, NEW d, Types(f, q, d)
  PROVE  /\ Len(q) \in Nat /\ Len(d) \in Nat
         /\ \A k \in 1 .. Len(q) : q[k] \in Entries
         /\ \A i \in 1 .. Len(d) : d[i] \in Entries \cup {NoAlarm}
         /\ \A s \in Entries : f[s] \in AlarmRecord /\ f[s].due \in Nat
         /\ NoAlarm \notin Entries
<1>1. \A r \in AlarmRecord : r.due \in Nat
  BY AlarmsAssumption DEF AlarmRecord
<1>2. NoAlarm \notin Entries
  BY AlarmsAssumption DEF NoAlarm, Entries
<1> QED BY <1>1, <1>2 DEF Types

\* A free entry that is put at its place in the queue and gets the next id.
LEMMA PutOK ==
  ASSUME NEW f, NEW q, NEW d, TablesOK(f, q, d), NEW s \in Entries, f[s].pid = 0,
         NEW r \in AlarmRecord, r.pid # 0, NEW m \in 0 .. Len(q),
         \A k \in 1 .. Len(q) : IF k <= m THEN f[q[k]].due <= r.due ELSE r.due < f[q[k]].due,
         Len(d) < alarms_capacity
  PROVE  TablesOK([f EXCEPT ![s] = r], InsertAt(q, m + 1, s), Append(d, s))
<1> DEFINE g == [f EXCEPT ![s] = r]
           u == InsertAt(q, m + 1, s)
           e == Append(d, s)
<1>0. Types(f, q, d) /\ Agree(f, q, d) /\ Sorted(f, q, d)
  BY DEF TablesOK
<1>1. /\ Len(q) \in Nat /\ Len(d) \in Nat
      /\ \A k \in 1 .. Len(q) : q[k] \in Entries
      /\ \A i \in 1 .. Len(d) : d[i] \in Entries \cup {NoAlarm}
      /\ \A t \in Entries : f[t] \in AlarmRecord /\ f[t].due \in Nat
      /\ NoAlarm \notin Entries
  BY <1>0, TypesAre
<1>2. r.due \in Nat
  BY AlarmsAssumption DEF AlarmRecord
<1>3. /\ g \in [Entries -> AlarmRecord]
      /\ \A t \in Entries : g[t] = IF t = s THEN r ELSE f[t]
  BY <1>0 DEF Types
<1>4. /\ u \in Seq(Entries) /\ Len(u) = Len(q) + 1
      /\ \A k \in 1 .. Len(q) + 1 :
           u[k] = IF k <= m THEN q[k] ELSE IF k = m + 1 THEN s ELSE q[k - 1]
  BY <1>0, InsertIs DEF Types
<1>5. /\ e \in Seq(Entries \cup {NoAlarm}) /\ Len(e) = Len(d) + 1
      /\ \A i \in 1 .. Len(d) + 1 : e[i] = IF i = Len(d) + 1 THEN s ELSE d[i]
  <2>1. d \in Seq(Entries \cup {NoAlarm}) /\ s \in Entries \cup {NoAlarm}
    BY <1>0 DEF Types
  <2> QED BY <2>1, AppendProperties
<1> HIDE DEF g, u, e
<1> DEFINE Old(k) == IF k <= m THEN k ELSE k - 1
<1>6. \A k \in 1 .. Len(q) + 1 : IF k = m + 1 THEN u[k] = s
                                  ELSE Old(k) \in 1 .. Len(q) /\ u[k] = q[Old(k)]
  BY <1>1, <1>4
<1>7. /\ \A k \in 1 .. Len(q) : q[k] # s
      /\ \A i \in 1 .. Len(d) : d[i] # s
  BY <1>0, <1>1 DEF Agree
<1>8. \A j, k \in 1 .. Len(q) + 1 :
         j < k /\ j # m + 1 /\ k # m + 1 => Old(j) < Old(k)
  BY <1>1
<1>9. Types(g, u, e)
  <2>1. Len(e) <= alarms_capacity
    BY <1>1, <1>5, AlarmsAssumption
  <2> QED BY <1>3, <1>4, <1>5, <2>1 DEF Types
<1>10. \A j, k \in 1 .. Len(u) : u[j] = u[k] => j = k
  <2>1. ASSUME NEW j \in 1 .. Len(q) + 1, NEW k \in 1 .. Len(q) + 1, j < k PROVE u[j] # u[k]
    <3>1. CASE j # m + 1 /\ k # m + 1
      <4>1. Old(j) < Old(k) /\ Old(j) \in 1 .. Len(q) /\ Old(k) \in 1 .. Len(q)
            /\ u[j] = q[Old(j)] /\ u[k] = q[Old(k)]
        BY <1>6, <1>8, <2>1, <3>1
      <4>2. Old(j) # Old(k)
        BY <1>1, <4>1
      <4> HIDE DEF Old
      <4> QED BY <1>0, <4>1, <4>2 DEF Agree
    <3>2. CASE j = m + 1 \/ k = m + 1
      <4> HIDE DEF Old
      <4> QED BY <1>6, <1>7, <2>1, <3>2
    <3> QED BY <3>1, <3>2
  <2>2. \A j, k \in 1 .. Len(q) + 1 : j < k \/ k < j \/ j = k
    BY <1>1
  <2> QED BY <1>4, <2>1, <2>2
<1>11. \A i, h \in 1 .. Len(e) : e[i] # NoAlarm /\ e[i] = e[h] => i = h
  <2>1. \A i \in 1 .. Len(d) + 1 : i = Len(d) + 1 \/ i \in 1 .. Len(d)
    BY <1>1
  <2> QED BY <1>0, <1>5, <1>7, <2>1 DEF Agree
<1>12. /\ \A k \in 1 .. Len(u) : g[u[k]].pid # 0
       /\ \A i \in 1 .. Len(e) : e[i] # NoAlarm => g[e[i]].pid # 0
  <2>1. \A k \in 1 .. Len(u) : g[u[k]].pid # 0
    <3> SUFFICES ASSUME NEW k \in 1 .. Len(q) + 1 PROVE g[u[k]].pid # 0
      BY <1>4
    <3>1. CASE k = m + 1
      BY <1>3, <1>6, <3>1
    <3>2. CASE k # m + 1
      <4>1. Old(k) \in 1 .. Len(q) /\ u[k] = q[Old(k)]
        BY <1>6, <3>2
      <4> HIDE DEF Old
      <4>2. f[q[Old(k)]].pid # 0
        BY <1>0, <4>1 DEF Agree
      <4>3. g[u[k]] = f[q[Old(k)]]
        BY <1>1, <1>3, <1>7, <4>1
      <4> QED BY <4>2, <4>3
    <3> QED BY <3>1, <3>2
  <2>2. \A i \in 1 .. Len(d) + 1 : i = Len(d) + 1 \/ i \in 1 .. Len(d)
    BY <1>1
  <2>3. \A i \in 1 .. Len(e) : e[i] # NoAlarm => g[e[i]].pid # 0
    BY <1>0, <1>1, <1>3, <1>5, <2>2 DEF Agree
  <2> QED BY <2>1, <2>3
<1>13. ASSUME NEW t \in Entries, g[t].pid # 0
       PROVE  (\E k \in 1 .. Len(u) : u[k] = t) /\ (\E i \in 1 .. Len(e) : e[i] = t)
  <2>1. CASE t = s
    <3>1. m + 1 \in 1 .. Len(u) /\ Len(d) + 1 \in 1 .. Len(e)
      BY <1>1, <1>4, <1>5
    <3> HIDE DEF Old
    <3> QED BY <1>4, <1>5, <1>6, <2>1, <3>1
  <2>2. CASE t # s
    <3>1. f[t].pid # 0
      BY <1>3, <1>13, <2>2
    <3>2. PICK k \in 1 .. Len(q) : q[k] = t
      BY <1>0, <3>1 DEF Agree
    <3>3. PICK i \in 1 .. Len(d) : d[i] = t
      BY <1>0, <3>1 DEF Agree
    <3>4. i \in 1 .. Len(e) /\ i # Len(d) + 1
      BY <1>1, <1>5
    <3>5. e[i] = t
      BY <1>5, <3>3, <3>4
    <3> DEFINE n == IF k <= m THEN k ELSE k + 1
    <3>6. n \in 1 .. Len(u) /\ n # m + 1 /\ Old(n) = k
      BY <1>1, <1>4
    <3>7. u[n] = t
      BY <1>4, <1>6, <3>2, <3>6
    <3> QED BY <3>4, <3>5, <3>6, <3>7
  <2> QED BY <2>1, <2>2
<1>14. Agree(g, u, e)
  BY <1>10, <1>11, <1>12, <1>13 DEF Agree
<1>15. ASSUME NEW j \in 1 .. Len(u), NEW k \in 1 .. Len(u), j < k
       PROVE  \/ g[u[j]].due < g[u[k]].due
              \/ /\ g[u[j]].due = g[u[k]].due
                 /\ \A i, h \in 1 .. Len(e) : e[i] = u[j] /\ e[h] = u[k] => i < h
  <2>0. /\ j \in 1 .. Len(q) + 1 /\ k \in 1 .. Len(q) + 1
        /\ \A i \in 1 .. Len(e) : i = Len(d) + 1 \/ i \in 1 .. Len(d)
    BY <1>1, <1>4, <1>5
  <2>1. CASE j # m + 1 /\ k # m + 1
    <3> DEFINE x == Old(j)
               y == Old(k)
    <3>1. x < y /\ x \in 1 .. Len(q) /\ y \in 1 .. Len(q) /\ u[j] = q[x] /\ u[k] = q[y]
      BY <1>6, <1>8, <1>15, <2>0, <2>1
    <3> HIDE DEF Old, x, y
    <3>2. g[u[j]] = f[q[x]] /\ g[u[k]] = f[q[y]]
      BY <1>1, <1>3, <1>7, <3>1
    <3>3. \A i, h \in 1 .. Len(e) : e[i] = u[j] /\ e[h] = u[k] =>
             /\ i \in 1 .. Len(d) /\ h \in 1 .. Len(d) /\ d[i] = q[x] /\ d[h] = q[y]
      BY <1>1, <1>5, <1>7, <2>0, <3>1
    <3>4. \/ f[q[x]].due < f[q[y]].due
          \/ /\ f[q[x]].due = f[q[y]].due
             /\ \A i, h \in 1 .. Len(d) : d[i] = q[x] /\ d[h] = q[y] => i < h
      BY <1>0, <3>1 DEF Sorted
    <3> QED BY <3>2, <3>3, <3>4
  <2>2. CASE j = m + 1
    <3> DEFINE y == Old(k)
    <3>1. y \in 1 .. Len(q) /\ ~(y <= m) /\ u[k] = q[y] /\ u[j] = s
      BY <1>1, <1>4, <1>6, <1>15, <2>0, <2>2
    <3> HIDE DEF Old, y
    <3>2. g[u[j]] = r /\ g[u[k]] = f[q[y]]
      BY <1>1, <1>3, <1>7, <3>1
    <3> QED BY <3>1, <3>2
  <2>3. CASE k = m + 1
    <3> DEFINE x == Old(j)
    <3>1. x \in 1 .. Len(q) /\ x <= m /\ u[j] = q[x] /\ u[k] = s
      BY <1>1, <1>4, <1>6, <1>15, <2>0, <2>3
    <3> HIDE DEF Old, x
    <3>2. g[u[j]] = f[q[x]] /\ g[u[k]] = r
      BY <1>1, <1>3, <1>7, <3>1
    <3>3. f[q[x]].due <= r.due /\ f[q[x]].due \in Nat
      BY <1>1, <3>1
    <3>4. \A i, h \in 1 .. Len(e) : e[i] = u[j] /\ e[h] = u[k] => i < h
      <4> SUFFICES ASSUME NEW i \in 1 .. Len(e), NEW h \in 1 .. Len(e), e[i] = q[x], e[h] = s
                   PROVE  i < h
        BY <3>1
      <4>1. q[x] # s
        BY <1>7, <3>1
      <4>2. h = Len(d) + 1
        BY <1>5, <1>7, <2>0
      <4>3. i # Len(d) + 1
        BY <1>5, <4>1
      <4>4. i \in 1 .. Len(d)
        BY <2>0, <4>3
      <4> QED BY <1>1, <4>2, <4>4
    <3>5. f[q[x]].due < r.due \/ f[q[x]].due = r.due
      BY <1>2, <3>3
    <3> QED BY <3>2, <3>4, <3>5
  <2> QED BY <2>1, <2>2, <2>3
<1>16. Sorted(g, u, e)
  BY <1>15 DEF Sorted
<1> QED BY <1>9, <1>14, <1>16 DEF TablesOK, g, u, e

\* An alarm that is taken out of the queue; its entry is free then and its id is gone.
LEMMA TakeOK ==
  ASSUME NEW f, NEW q, NEW d, TablesOK(f, q, d), NEW m \in 1 .. Len(q)
  PROVE  TablesOK([f EXCEPT ![q[m]] = FreeAlarm], RemoveAt(q, m),
                  [i \in DOMAIN d |-> IF d[i] = q[m] THEN NoAlarm ELSE d[i]])
<1> DEFINE s == q[m]
           g == [f EXCEPT ![s] = FreeAlarm]
           u == RemoveAt(q, m)
           e == [i \in DOMAIN d |-> IF d[i] = s THEN NoAlarm ELSE d[i]]
           From(k) == IF k < m THEN k ELSE k + 1
<1>0. Types(f, q, d) /\ Agree(f, q, d) /\ Sorted(f, q, d)
  BY DEF TablesOK
<1>1. /\ Len(q) \in Nat /\ Len(d) \in Nat
      /\ \A k \in 1 .. Len(q) : q[k] \in Entries
      /\ \A i \in 1 .. Len(d) : d[i] \in Entries \cup {NoAlarm}
      /\ \A t \in Entries : f[t] \in AlarmRecord /\ f[t].due \in Nat
      /\ NoAlarm \notin Entries
  BY <1>0, TypesAre
<1>2. FreeAlarm \in AlarmRecord /\ FreeAlarm.pid = 0
  BY AlarmsAssumption DEF FreeAlarm, AlarmRecord
<1>3. /\ g \in [Entries -> AlarmRecord] /\ s \in Entries
      /\ \A t \in Entries : g[t] = IF t = s THEN FreeAlarm ELSE f[t]
  BY <1>0, <1>1, <1>2 DEF Types
<1>4. /\ u \in Seq(Entries) /\ Len(u) = Len(q) - 1
      /\ \A k \in 1 .. Len(q) - 1 : u[k] = q[From(k)]
  BY <1>0, RemoveIs DEF Types
<1>5. /\ e \in Seq(Entries \cup {NoAlarm}) /\ Len(e) = Len(d)
      /\ \A i \in 1 .. Len(d) : e[i] = IF d[i] = s THEN NoAlarm ELSE d[i]
  <2>1. DOMAIN d = 1 .. Len(d)
    BY <1>0 DEF Types
  <2>2. e \in [1 .. Len(d) -> Entries \cup {NoAlarm}]
    <3> HIDE DEF s
    <3> QED BY <1>1, <2>1
  <2>3. e \in Seq(Entries \cup {NoAlarm}) /\ Len(e) = Len(d)
    <3> HIDE DEF e
    <3> QED BY <1>1, <2>2
  <2> QED BY <2>1, <2>3
<1>6. \A k \in 1 .. Len(q) - 1 : From(k) \in 1 .. Len(q) /\ From(k) # m
  BY <1>1
<1>7. \A j, k \in 1 .. Len(q) - 1 : j < k => From(j) < From(k)
  BY <1>1
<1>8. \A k \in 1 .. Len(q) : k # m => q[k] # s
  BY <1>0 DEF Agree
<1> HIDE DEF g, u, e, From, s
<1>9. Types(g, u, e)
  BY <1>0, <1>3, <1>4, <1>5 DEF Types
<1>10. \A k \in 1 .. Len(u) : /\ From(k) \in 1 .. Len(q) /\ u[k] = q[From(k)] /\ u[k] # s
                              /\ u[k] \in Entries /\ g[u[k]] = f[q[From(k)]]
  BY <1>1, <1>3, <1>4, <1>6, <1>8
<1>11. \A j, k \in 1 .. Len(u) : u[j] = u[k] => j = k
  <2>1. ASSUME NEW j \in 1 .. Len(u), NEW k \in 1 .. Len(u), u[j] = u[k] PROVE j = k
    <3>1. From(j) = From(k)
      BY <1>0, <1>10, <2>1 DEF Agree
    <3> QED BY <1>1, <1>4, <3>1 DEF From
  <2> QED BY <2>1
<1>12. \A i, h \in 1 .. Len(e) : e[i] # NoAlarm /\ e[i] = e[h] => i = h
  BY <1>0, <1>5 DEF Agree
<1>13. /\ \A k \in 1 .. Len(u) : g[u[k]].pid # 0
       /\ \A i \in 1 .. Len(e) : e[i] # NoAlarm => g[e[i]].pid # 0
  <2>1. \A k \in 1 .. Len(u) : g[u[k]].pid # 0
    BY <1>0, <1>10 DEF Agree
  <2>2. \A i \in 1 .. Len(e) : e[i] # NoAlarm => g[e[i]].pid # 0
    BY <1>0, <1>1, <1>3, <1>5 DEF Agree
  <2> QED BY <2>1, <2>2
<1>14. ASSUME NEW t \in Entries, g[t].pid # 0
       PROVE  (\E k \in 1 .. Len(u) : u[k] = t) /\ (\E i \in 1 .. Len(e) : e[i] = t)
  <2>1. t # s /\ f[t].pid # 0
    BY <1>2, <1>3, <1>14
  <2>2. PICK k \in 1 .. Len(q) : q[k] = t
    BY <1>0, <2>1 DEF Agree
  <2>3. PICK i \in 1 .. Len(d) : d[i] = t
    BY <1>0, <2>1 DEF Agree
  <2>4. i \in 1 .. Len(e) /\ e[i] = t
    BY <1>5, <2>1, <2>3
  <2>5. k # m
    BY <2>1, <2>2 DEF s
  <2> DEFINE n == IF k < m THEN k ELSE k - 1
  <2>6. n \in 1 .. Len(u) /\ From(n) = k
    BY <1>1, <1>4, <2>5 DEF From
  <2>7. u[n] = t
    BY <1>10, <2>2, <2>6
  <2> QED BY <2>4, <2>6, <2>7
<1>15. Agree(g, u, e)
  BY <1>11, <1>12, <1>13, <1>14 DEF Agree
<1>16. ASSUME NEW j \in 1 .. Len(u), NEW k \in 1 .. Len(u), j < k
       PROVE  \/ g[u[j]].due < g[u[k]].due
              \/ /\ g[u[j]].due = g[u[k]].due
                 /\ \A i, h \in 1 .. Len(e) : e[i] = u[j] /\ e[h] = u[k] => i < h
  <2> DEFINE x == From(j)
             y == From(k)
  <2>1. x < y /\ x \in 1 .. Len(q) /\ y \in 1 .. Len(q)
    BY <1>4, <1>7, <1>10, <1>16
  <2>2. /\ u[j] = q[x] /\ u[k] = q[y] /\ u[j] # s /\ u[k] # s /\ u[j] \in Entries /\ u[k] \in Entries
        /\ g[u[j]] = f[q[x]] /\ g[u[k]] = f[q[y]]
    BY <1>10
  <2> HIDE DEF x, y
  <2>3. \A i, h \in 1 .. Len(e) : e[i] = u[j] /\ e[h] = u[k] =>
           i \in 1 .. Len(d) /\ h \in 1 .. Len(d) /\ d[i] = q[x] /\ d[h] = q[y]
    BY <1>1, <1>5, <2>2
  <2>4. \/ f[q[x]].due < f[q[y]].due
        \/ /\ f[q[x]].due = f[q[y]].due
           /\ \A i, h \in 1 .. Len(d) : d[i] = q[x] /\ d[h] = q[y] => i < h
    BY <1>0, <2>1 DEF Sorted
  <2> QED BY <2>2, <2>3, <2>4
<1>17. Sorted(g, u, e)
  BY <1>16 DEF Sorted
<1> QED BY <1>9, <1>15, <1>17 DEF TablesOK, g, u, e, s

-----------------------------------------------------------------------------
(* The operators                                                           *)

\* The fields of an alarm state.
LEMMA StateIs ==
  ASSUME NEW f \in [Entries -> AlarmRecord], NEW q \in Seq(Entries),
         NEW d \in Seq(Entries \cup {NoAlarm})
  PROVE  LET a == [alarms |-> f, queue |-> q, ids |-> d]
         IN  a \in AlarmState /\ a.alarms = f /\ a.queue = q /\ a.ids = d
BY DEF AlarmState

LEMMA StateFields ==
  ASSUME NEW a \in AlarmState
  PROVE  /\ a.alarms \in [Entries -> AlarmRecord] /\ a.queue \in Seq(Entries)
         /\ a.ids \in Seq(Entries \cup {NoAlarm})
         /\ a = [alarms |-> a.alarms, queue |-> a.queue, ids |-> a.ids]
BY DEF AlarmState

\* Three tables that agree make a state that is all right.
LEMMA TablesMake ==
  ASSUME NEW f, NEW q, NEW d, TablesOK(f, q, d)
  PROVE  [alarms |-> f, queue |-> q, ids |-> d] \in AllOK
<1>1. /\ f \in [Entries -> AlarmRecord] /\ q \in Seq(Entries)
      /\ d \in Seq(Entries \cup {NoAlarm})
  BY DEF TablesOK, Types
<1> QED BY <1>1, StateIs DEF AllOK

\* A_Remove.
LEMMA RemoveStays ==
  ASSUME NEW a \in AllOK, NEW s
  PROVE  A_Remove(a, s) \in AllOK
<1>1. CASE Places(a, s) = {}
  BY <1>1 DEF A_Remove
<1>2. CASE Places(a, s) # {}
  <2> DEFINE f == a.alarms
             q == a.queue
             d == a.ids
             m == Min(Places(a, s))
  <2>1. TablesOK(f, q, d) /\ DOMAIN q = 1 .. Len(q) /\ Len(q) \in Nat
    BY StateFields DEF AllOK
  <2>2. m \in Places(a, s)
    <3>1. Places(a, s) \subseteq Nat
      BY <2>1 DEF Places
    <3> QED BY <1>2, <3>1, LeastNumber
  <2>3. m \in 1 .. Len(q) /\ q[m] = s
    BY <2>1, <2>2 DEF Places
  <2>4. A_Remove(a, s) = [alarms |-> [f EXCEPT ![s] = FreeAlarm], queue |-> RemoveAt(q, m),
                          ids |-> [i \in DOMAIN d |-> IF d[i] = s THEN NoAlarm ELSE d[i]]]
    BY <1>2 DEF A_Remove
  <2> HIDE DEF f, q, d, m
  <2>5. TablesOK([f EXCEPT ![s] = FreeAlarm], RemoveAt(q, m),
                 [i \in DOMAIN d |-> IF d[i] = s THEN NoAlarm ELSE d[i]])
    BY <2>1, <2>3, TakeOK
  <2> QED BY <2>4, <2>5, TablesMake
<1> QED BY <1>1, <1>2

\* A_Make: the place A_Insert finds is the right one.
LEMMA MakeStays ==
  ASSUME NEW a \in AllOK, CanMake(a), NEW p \in Processes, NEW code \in Codes,
         NEW ticks \in 0 .. WIDTH - 1, NEW c \in BOOLEAN, NEW w \in Nat, clock \in 0 .. MaxClock
  PROVE  A_Make(a, p, code, ticks, c, w) \in AllOK
<1> DEFINE f == a.alarms
           q == a.queue
           d == a.ids
           s == Min(Entries \ InUse(a))
           due == DueAfter(ticks)
           r == [pid |-> p, signal |-> code, ticks |-> ticks, due |-> due, cyclic |-> c,
                 promised |-> w]
           g == [f EXCEPT ![s] = r]
           before == {k \in DOMAIN q : g[q[k]].due <= g[s].due}
           m == Max(before \cup {0})
<1>1. /\ TablesOK(f, q, d) /\ f \in [Entries -> AlarmRecord] /\ q \in Seq(Entries)
      /\ DOMAIN q = 1 .. Len(q) /\ Len(q) \in Nat
      /\ a = [alarms |-> f, queue |-> q, ids |-> d]
  BY StateFields DEF AllOK
<1>2. s \in Entries /\ f[s].pid = 0
  <2>1. Entries \ InUse(a) # {} /\ Entries \ InUse(a) \subseteq Nat
    BY DEF CanMake, InUse, Entries
  <2>2. s \in Entries \ InUse(a)
    BY <2>1, LeastNumber
  <2> HIDE DEF s
  <2> QED BY <2>2 DEF InUse
<1>3. due \in 0 .. WIDTH - 1
  <2> DEFINE x == ticks + clock
  <2>1. x \in Nat /\ WIDTH \in Nat /\ WIDTH > 0
    BY AlarmsAssumption
  <2> HIDE DEF x
  <2>2. x % WIDTH \in 0 .. WIDTH - 1
    BY <2>1
  <2> QED BY <2>2 DEF x, DueAfter
<1> HIDE DEF due, s
<1>4. r \in AlarmRecord /\ r.pid # 0 /\ r.due = due
  <2>1. r \in AlarmRecord
    BY <1>3, Zenon DEF AlarmRecord
  <2> QED BY <2>1, AlarmsAssumption
<1> HIDE DEF f, q, d, r
<1>5. \A t \in Entries : g[t] = IF t = s THEN r ELSE f[t]
  BY <1>1
<1>6. /\ \A k \in 1 .. Len(q) : q[k] \in Entries /\ f[q[k]].due \in Nat /\ q[k] # s
      /\ r.due \in Nat
  <2>1. \A k \in 1 .. Len(q) : q[k] \in Entries /\ f[q[k]].due \in Nat
    BY <1>1, TypesAre DEF TablesOK
  <2>2. \A k \in 1 .. Len(q) : q[k] # s
    BY <1>1, <1>2 DEF TablesOK, Agree
  <2> QED BY <1>3, <1>4, <2>1, <2>2
<1>7. \A k \in 1 .. Len(q) : k \in before <=> f[q[k]].due <= r.due
  BY <1>1, <1>2, <1>5, <1>6
<1>8. m \in before \cup {0} /\ \A k \in before : k <= m
  <2>1. before \cup {0} \subseteq 0 .. Len(q)
    BY <1>1
  <2> HIDE DEF before
  <2> QED BY <1>1, <2>1, GreatestNumber
<1>9. before \subseteq 1 .. Len(q)
  BY <1>1
<1> HIDE DEF before, m
<1>10. m \in 0 .. Len(q)
  BY <1>1, <1>8, <1>9
<1>11. ASSUME NEW k \in 1 .. Len(q)
       PROVE  IF k <= m THEN f[q[k]].due <= r.due ELSE r.due < f[q[k]].due
  <2>1. CASE k <= m
    <3>1. m \in before /\ m \in 1 .. Len(q)
      BY <1>8, <1>9, <1>10, <2>1
    <3>2. f[q[m]].due <= r.due
      BY <1>7, <3>1
    <3>3. k = m \/ (k < m)
      BY <1>10, <2>1
    <3>4. f[q[k]].due <= f[q[m]].due
      BY <1>1, <1>6, <3>1, <3>3 DEF TablesOK, Sorted
    <3> QED BY <1>6, <2>1, <3>1, <3>2, <3>4
  <2>2. CASE ~(k <= m)
    <3>1. k \notin before
      BY <1>8, <2>2
    <3> QED BY <1>6, <1>7, <2>2, <3>1
  <2> QED BY <2>1, <2>2
<1>12. Len(d) < alarms_capacity
  BY DEF CanMake, d
<1>13. TablesOK(g, InsertAt(q, m + 1, s), Append(d, s))
  BY <1>1, <1>2, <1>4, <1>10, <1>11, <1>12, PutOK
<1>14. A_Make(a, p, code, ticks, c, w)
        = [alarms |-> g, queue |-> InsertAt(q, m + 1, s), ids |-> Append(d, s)]
  <2> DEFINE b == [a EXCEPT !.alarms[s] = r]
             u == InsertAt(q, m + 1, s)
             e == Append(d, s)
  <2>1. b = [alarms |-> g, queue |-> q, ids |-> d]
    BY <1>1
  <2>2. A_Insert(b, s) = [alarms |-> g, queue |-> u, ids |-> d]
    <3>1. b.alarms = g /\ b.queue = q
      BY <2>1
    <3>2. m = Max({k \in DOMAIN b.queue : b.alarms[b.queue[k]].due <= b.alarms[s].due} \cup {0})
      BY <3>1 DEF m, before
    <3>3. A_Insert(b, s) = [b EXCEPT !.queue = InsertAt(b.queue, m + 1, s)]
      <4> HIDE DEF b
      <4> QED BY <3>2 DEF A_Insert
    <3>4. A_Insert(b, s) = [b EXCEPT !.queue = u]
      <4> HIDE DEF b
      <4> QED BY <3>1, <3>3
    <3> HIDE DEF u, b, g
    <3> QED BY <2>1, <3>4
  <2>3. A_Make(a, p, code, ticks, c, w)
         = [A_Insert(b, s) EXCEPT !.ids = Append(A_Insert(b, s).ids, s)]
    BY DEF A_Make, s, r, due
  <2> HIDE DEF b, u, g
  <2>4. [A_Insert(b, s) EXCEPT !.ids = Append(A_Insert(b, s).ids, s)]
         = [A_Insert(b, s) EXCEPT !.ids = e]
    BY <2>2
  <2> HIDE DEF e
  <2> QED BY <2>2, <2>3, <2>4 DEF u, e
<1> QED BY <1>13, <1>14, TablesMake

\* A_Kill.
LEMMA KillsStay ==
  ASSUME NEW a \in AllOK, NEW p
  PROVE  A_Kill(a, p) \in AllOK
<1>1. \A b \in AllOK : b.queue \in Seq(Entries)
  BY StateFields DEF AllOK
<1> QED BY <1>1, RemoveStays, KillStays

\* There are n numbers from 1 to n.
LEMMA CountUp ==
  ASSUME NEW n \in Nat
  PROVE  IsFiniteSet(1 .. n) /\ Cardinality(1 .. n) = n
<1>1. \A x, y \in Int : /\ IsFiniteSet(x .. y)
                        /\ Cardinality(x .. y) = IF x > y THEN 0 ELSE y - x + 1
  BY FS_Interval
<1> QED BY <1>1

\* There are fewer alarms than entries: every one has an id of its own.
LEMMA QueueNeverFull ==
  ASSUME NEW a \in AllOK
  PROVE  Len(a.queue) < MAXALARMS
<1> DEFINE q == a.queue
           d == a.ids
<1>1. Types(a.alarms, q, d) /\ Agree(a.alarms, q, d)
  BY DEF AllOK, TablesOK
<1>2. Len(q) \in Nat /\ Len(d) \in Nat /\ NoAlarm \notin Entries /\ \A k \in 1 .. Len(q) : q[k] \in Entries
  BY <1>1, TypesAre
<1>3. \A k \in 1 .. Len(q) : \E i \in 1 .. Len(d) : d[i] = q[k]
  BY <1>1, <1>2 DEF Agree
<1> DEFINE g == [k \in 1 .. Len(q) |-> CHOOSE i \in 1 .. Len(d) : d[i] = q[k]]
<1>4. g \in [1 .. Len(q) -> 1 .. Len(d)] /\ \A k \in 1 .. Len(q) : d[g[k]] = q[k]
  BY <1>3
<1> HIDE DEF g
<1>5. g \in Injection(1 .. Len(q), 1 .. Len(d))
  <2>1. \A j, k \in 1 .. Len(q) : g[j] = g[k] => j = k
    BY <1>1, <1>4 DEF Agree
  <2> QED BY <1>4, <2>1 DEF Injection, IsInjective
<1>6. IsFiniteSet(1 .. Len(d)) /\ Cardinality(1 .. Len(q)) = Len(q) /\ Cardinality(1 .. Len(d)) = Len(d)
  BY <1>2, CountUp
<1>7. Cardinality(1 .. Len(q)) <= Cardinality(1 .. Len(d))
  BY <1>5, <1>6, FS_Injection
<1>8. Len(q) <= Len(d)
  BY <1>6, <1>7
<1>9. Len(d) <= alarms_capacity
  BY <1>1 DEF Types
<1> QED BY <1>2, <1>8, <1>9, AlarmsAssumption

-----------------------------------------------------------------------------
(* The invariant                                                           *)

AlarmsInv == /\ al \in AllOK /\ clock \in 0 .. MaxClock
             /\ live \subseteq Processes /\ pc \in {"call", "alarms"}

\* A$Set, A$Cycle and the dates.
LEMMA MakeOrFailStays ==
  ASSUME AlarmsInv, NEW p \in Processes, NEW code \in Codes, NEW ticks \in 0 .. WIDTH - 1,
         NEW c \in BOOLEAN, NEW w \in Nat, MakeOrFail(p, code, ticks, c, w)
  PROVE  al' \in AllOK
BY MakeStays DEF MakeOrFail, AlarmsInv

\* The clock in days and seconds, and what is computed of it.
LEMMA DatesAreNumbers ==
  ASSUME clock \in 0 .. MaxClock, NEW date \in Nat, NEW time \in Nat
  PROVE  /\ iDate \in Int /\ iTime \in Int
         /\ (((date - iDate) * SecsPerDay + time - iTime) * TICKS_PER_SEC) % WIDTH \in 0 .. WIDTH - 1
         /\ (date * SecsPerDay + time) * TICKS_PER_SEC \in Nat
<1>1. /\ SecsPerDay \in Nat \ {0} /\ TICKS_PER_SEC \in Nat \ {0} /\ Now \in Nat
      /\ WIDTH \in Nat \ {0}
  BY AlarmsAssumption DEF Now
<1>2. Now \div TICKS_PER_SEC \in Int
  BY <1>1
<1>3. iDate \in Int /\ iTime \in Int
  <2> DEFINE n == Now \div TICKS_PER_SEC
  <2> HIDE DEF n
  <2>1. n \div SecsPerDay \in Int /\ n % SecsPerDay \in Int
    BY <1>1, <1>2 DEF n
  <2> QED BY <2>1 DEF n, iDate, iTime
<1> DEFINE d == date - iDate
           e == d * SecsPerDay + time - iTime
           x == e * TICKS_PER_SEC
<1>4. d \in Int
  BY <1>3
<1>5. e \in Int
  <2>1. d * SecsPerDay \in Int
    <3> HIDE DEF d
    <3> QED BY <1>1, <1>4
  <2> DEFINE y == d * SecsPerDay
  <2>2. y \in Int
    BY <2>1
  <2> HIDE DEF y
  <2>3. y + time - iTime \in Int
    BY <1>3, <2>2
  <2> QED BY <2>3 DEF y
<1>6. x \in Int
  <2> HIDE DEF e
  <2> QED BY <1>1, <1>5
<1>7. x % WIDTH \in 0 .. WIDTH - 1
  <2> HIDE DEF x
  <2> QED BY <1>1, <1>6
<1>8. (date * SecsPerDay + time) * TICKS_PER_SEC \in Nat
  <2> DEFINE y == date * SecsPerDay
             z == y + time
  <2>1. y \in Nat
    BY <1>1
  <2> HIDE DEF y
  <2>2. z \in Nat
    BY <2>1
  <2> HIDE DEF z
  <2>3. z * TICKS_PER_SEC \in Nat
    BY <1>1, <2>2
  <2> QED BY <2>3 DEF y, z
<1> QED BY <1>3, <1>7, <1>8

\* The first alarm of the queue is one of a process.
LEMMA HeadIs ==
  ASSUME AlarmsInv, al.queue # <<>>
  PROVE  LET s == Head(al.queue)
         IN  s \in Entries /\ al.alarms[s] \in AlarmRecord /\ al.alarms[s].pid \in Processes
<1> DEFINE q == al.queue
           s == Head(q)
<1>1. Types(al.alarms, q, al.ids) /\ Agree(al.alarms, q, al.ids)
  BY DEF AlarmsInv, AllOK, TablesOK
<1>2. Len(q) \in Nat /\ Len(q) > 0 /\ s = q[1]
  <2>1. q \in Seq(Entries)
    BY <1>1 DEF Types
  <2> QED BY <2>1
<1>3. 1 \in 1 .. Len(q)
  BY <1>2
<1>4. s \in Entries /\ al.alarms[s] \in AlarmRecord /\ al.alarms[s].pid # 0
  <2> HIDE DEF q
  <2> QED BY <1>1, <1>2, <1>3, TypesAre DEF Agree
<1> HIDE DEF s
<1>5. al.alarms[s].pid \in Processes
  BY <1>4 DEF AlarmRecord
<1> QED BY <1>4, <1>5 DEF s

\* The renewal of a cyclic alarm.
LEMMA RenewStays ==
  ASSUME AlarmsInv, al.queue # <<>>
  PROVE  Renew(al, al.alarms[Head(al.queue)]) \in AllOK
<1> DEFINE r == al.alarms[Head(al.queue)]
<1>1. r \in AlarmRecord /\ r.pid \in Processes
  BY HeadIs
<1> HIDE DEF r
<1>2. r.signal \in Codes /\ r.ticks \in 0 .. WIDTH - 1
  BY <1>1 DEF AlarmRecord
<1>3. Renew(al, r) \in AllOK
  BY <1>1, <1>2, MakeStays DEF Renew, AlarmsInv
<1> QED BY <1>3 DEF r

\* What the main loop does with an alarm that is due.
LEMMA FireStays ==
  ASSUME AlarmsInv, Fire
  PROVE  AlarmsInv'
<1> DEFINE s == Head(al.queue)
           r == al.alarms[s]
           a == Renew(al, r)
           killed == r.signal = S_Kill /\ r.pid \in live
           b == IF killed THEN A_Kill(a, r.pid) ELSE a
<1>1. a \in AllOK
  BY RenewStays DEF Fire, Due
<1>2. b \in AllOK
  <2> HIDE DEF a, r
  <2> QED BY <1>1, KillsStay
<1>3. /\ al' = A_Remove(b, s) /\ clock' = clock /\ pc' = "call"
      /\ live' = live \/ live' = live \ {r.pid}
  BY DEF Fire, Finish
<1> HIDE DEF b, s, r, killed
<1>4. al' \in AllOK
  BY <1>2, <1>3, RemoveStays
<1> QED BY <1>3, <1>4 DEF AlarmsInv

\* Every step keeps the invariant.
LEMMA AlarmsStep == AlarmsInv /\ [Next]_vars => AlarmsInv'
<1> SUFFICES ASSUME AlarmsInv, [Next]_vars PROVE AlarmsInv'
  OBVIOUS
<1>1. CASE UNCHANGED vars
  BY <1>1 DEF vars, AlarmsInv
<1>2. ASSUME NEW p \in Processes, Call(p), al' \in AllOK PROVE AlarmsInv'
  BY <1>2 DEF Call, AlarmsInv
<1>3. ASSUME NEW p \in Processes, NEW code \in Codes, NEW ticks \in Ticks, NEW c \in BOOLEAN,
             Alarm_Set(p, code, ticks, c)
      PROVE  AlarmsInv'
  <2>1. ticks \in 0 .. WIDTH - 1 /\ 0 \in Nat
    BY AlarmsAssumption
  <2> QED BY <1>2, <1>3, <2>1, MakeOrFailStays DEF Alarm_Set
<1>4. ASSUME NEW p \in Processes, NEW code \in Codes, NEW date \in Dates, NEW time \in Times,
             Alarm_AtDate(p, code, date, time)
      PROVE  AlarmsInv'
  <2> DEFINE ticks == (((date - iDate) * SecsPerDay + time - iTime) * TICKS_PER_SEC) % WIDTH
             w == (date * SecsPerDay + time) * TICKS_PER_SEC
  <2>1. date \in Nat /\ time \in Nat /\ clock \in 0 .. MaxClock
    BY AlarmsAssumption DEF AlarmsInv
  <2>2. ticks \in 0 .. WIDTH - 1 /\ w \in Nat
    BY <2>1, DatesAreNumbers
  <2>3. Call(p) /\ (al' = al \/ MakeOrFail(p, code, ticks, FALSE, w))
    BY <1>4 DEF Alarm_AtDate
  <2> HIDE DEF ticks, w
  <2>4. al' \in AllOK
    BY <2>2, <2>3, MakeOrFailStays DEF AlarmsInv
  <2> QED BY <1>2, <2>3, <2>4
<1>5. ASSUME NEW p \in Processes, NEW id \in 0 .. alarms_capacity, Alarm_Delete(p, id)
      PROVE  AlarmsInv'
  <2>1. Call(p) /\ (al' = al \/ al' = A_Remove(al, al.ids[id + 1]))
    BY <1>5 DEF Alarm_Delete
  <2>2. al' \in AllOK
    BY <2>1, RemoveStays DEF AlarmsInv
  <2> QED BY <1>2, <2>1, <2>2
<1>6. ASSUME NEW p \in Processes, OtherCall(p) \/ Kill(p) \/ NewProcess(p) PROVE AlarmsInv'
  <2>1. CASE OtherCall(p)
    BY <1>2, <2>1 DEF OtherCall, AlarmsInv
  <2>2. CASE Kill(p)
    BY <2>2, KillsStay DEF Kill, AlarmsInv
  <2>3. CASE NewProcess(p)
    BY <2>3 DEF NewProcess, AlarmsInv
  <2> QED BY <1>6, <2>1, <2>2, <2>3
<1>7. CASE NothingDue
  BY <1>7 DEF NothingDue, AlarmsInv
<1>8. CASE Tick
  BY <1>8, AlarmsAssumption DEF Tick, AlarmsInv
<1> QED BY <1>1, <1>3, <1>4, <1>5, <1>6, <1>7, <1>8, FireStays DEF Next, SystemCall

\* The invariant at the start.
LEMMA AlarmsStart == Init => AlarmsInv
<1> SUFFICES ASSUME Init PROVE AlarmsInv
  OBVIOUS
<1> DEFINE f == [s \in Entries |-> FreeAlarm]
<1>1. FreeAlarm \in AlarmRecord /\ FreeAlarm.pid = 0
  BY AlarmsAssumption DEF FreeAlarm, AlarmRecord
<1>2. f \in [Entries -> AlarmRecord] /\ \A s \in Entries : f[s].pid = 0
  BY <1>1
<1> HIDE DEF f
<1>3. Types(f, <<>>, <<>>)
  <2>1. <<>> \in Seq(Entries) /\ <<>> \in Seq(Entries \cup {NoAlarm}) /\ Len(<<>>) = 0
    BY EmptySeq
  <2> QED BY <1>2, <2>1, AlarmsAssumption DEF Types
<1>4. \A k \in 1 .. Len(<<>>) : FALSE
  OBVIOUS
<1>5. Agree(f, <<>>, <<>>) /\ Sorted(f, <<>>, <<>>)
  BY <1>2, <1>4 DEF Agree, Sorted
<1>6. al \in AllOK
  <2>1. al = [alarms |-> f, queue |-> <<>>, ids |-> <<>>]
    BY DEF Init, f
  <2> QED BY <1>3, <1>5, <2>1, TablesMake DEF TablesOK
<1> QED BY <1>6, AlarmsAssumption DEF Init, AlarmsInv

\* The invariant always holds.
LEMMA AlarmsAlways == Spec => []AlarmsInv
BY AlarmsStart, AlarmsStep, PTL DEF Spec

\* Whatever is made, renewed, deleted and killed, entries and ids stay in their arrays
\* (A_GetNew, A_Make), and the queue is never full.
THEOREM AlarmsTypeCorrect == Spec => []AlarmsTypeOK
<1>1. AlarmsInv => AlarmsTypeOK
  BY QueueNeverFull DEF AlarmsInv, AllOK, TablesOK, Types, AlarmsTypeOK
<1> QED BY <1>1, AlarmsAlways, PTL

\* The first alarm of the queue is the first one due (A_Insert, A_Remove).
THEOREM QueueSorted == Spec => []QueueOrder
<1>1. AlarmsInv => QueueOrder
  <2> SUFFICES ASSUME AlarmsInv PROVE QueueOrder
    OBVIOUS
  <2>1. /\ Sorted(al.alarms, al.queue, al.ids)
        /\ DOMAIN al.queue = 1 .. Len(al.queue) /\ DOMAIN al.ids = 1 .. Len(al.ids)
    BY StateFields DEF AlarmsInv, AllOK, TablesOK
  <2> QED BY <2>1 DEF Sorted, QueueOrder, IdsOf
<1> QED BY <1>1, AlarmsAlways, PTL

\* alarms[], alarm_queue[] and alarms_all[] agree: no id leads to somebody else's alarm.
THEOREM OneEach == Spec => []OneRecordEach
<1>1. AlarmsInv => OneRecordEach
  <2> SUFFICES ASSUME AlarmsInv, NEW s \in Entries
               PROVE  LET places == {k \in DOMAIN al.queue : al.queue[k] = s}
                          n == IF s \in InUse(al) THEN 1 ELSE 0
                      IN  Cardinality(places) = n /\ Cardinality(IdsOf(al, s)) = n
    BY DEF OneRecordEach
  <2> DEFINE places == {k \in DOMAIN al.queue : al.queue[k] = s}
  <2>1. /\ Agree(al.alarms, al.queue, al.ids) /\ NoAlarm \notin Entries
        /\ DOMAIN al.queue = 1 .. Len(al.queue) /\ DOMAIN al.ids = 1 .. Len(al.ids)
    BY StateFields, TypesAre DEF AlarmsInv, AllOK, TablesOK
  <2>2. CASE s \in InUse(al)
    <3>1. al.alarms[s].pid # 0
      BY <2>2 DEF InUse
    <3>2. PICK k \in 1 .. Len(al.queue) : al.queue[k] = s
      BY <2>1, <3>1 DEF Agree
    <3>3. PICK i \in 1 .. Len(al.ids) : al.ids[i] = s
      BY <2>1, <3>1 DEF Agree
    <3>4. places = {k}
      BY <2>1, <3>2 DEF Agree
    <3>5. IdsOf(al, s) = {i}
      BY <2>1, <3>3 DEF Agree, IdsOf
    <3> HIDE DEF places
    <3>6. Cardinality(places) = 1
      BY <3>4, FS_Singleton
    <3>7. Cardinality(IdsOf(al, s)) = 1
      BY <3>5, FS_Singleton
    <3> QED BY <2>2, <3>6, <3>7 DEF places
  <2>3. CASE s \notin InUse(al)
    <3>1. al.alarms[s].pid = 0
      BY <2>3 DEF InUse
    <3>2. places = {} /\ IdsOf(al, s) = {}
      BY <2>1, <3>1 DEF Agree, IdsOf
    <3>3. Cardinality(places) = 0
      <4> HIDE DEF places
      <4> QED BY <3>2, FS_EmptySet
    <3>4. Cardinality(IdsOf(al, s)) = 0
      BY <3>2, FS_EmptySet
    <3> QED BY <2>3, <3>3, <3>4
  <2> QED BY <2>2, <2>3
<1> QED BY <1>1, AlarmsAlways, PTL

-----------------------------------------------------------------------------
(* Dates                                                                   *)

(* The invariant looks at the entries only; the queue and the ids need no  *)
(* more than to be there.                                                  *)
Shape(a) == a = [alarms |-> a.alarms, queue |-> a.queue, ids |-> a.ids]

Kept(r) == r.promised # 0 =>
             r.promised \in Nat /\ r.due \in Nat /\ BootTime + r.due >= r.promised

AllKept(a) == a.alarms = [s \in Entries |-> a.alarms[s]] /\ \A s \in Entries : Kept(a.alarms[s])

Good(a) == Shape(a) /\ AllKept(a)

EarlyInv == Good(al) /\ clock \in 0 .. MaxClock

-----------------------------------------------------------------------------
(* An alarm state with other fields is what one expects.                   *)
LEMMA WithQueue ==
  ASSUME NEW a, Shape(a), NEW q
  PROVE  [a EXCEPT !.queue = q] = [alarms |-> a.alarms, queue |-> q, ids |-> a.ids]
BY DEF Shape

LEMMA WithIds ==
  ASSUME NEW a, Shape(a), NEW i
  PROVE  [a EXCEPT !.ids = i] = [alarms |-> a.alarms, queue |-> a.queue, ids |-> i]
BY DEF Shape

(* Whatever becomes of the queue and the ids, the promises are the same.   *)
LEMMA OnlyEntriesCount ==
  ASSUME NEW f, f = [s \in Entries |-> f[s]], \A s \in Entries : Kept(f[s]),
         NEW q, NEW i
  PROVE  Good([alarms |-> f, queue |-> q, ids |-> i])
BY DEF Good, Shape, AllKept

(* Removing an alarm keeps every promise.                                  *)
LEMMA RemoveGood ==
  ASSUME NEW a, Good(a), NEW s PROVE Good(A_Remove(a, s))
<1>1. CASE Places(a, s) = {}
  BY <1>1 DEF A_Remove
<1>2. CASE Places(a, s) # {}
  <2> DEFINE q == RemoveAt(a.queue, Min(Places(a, s)))
             f == [a.alarms EXCEPT ![s] = FreeAlarm]
             i == [k \in DOMAIN a.ids |-> IF a.ids[k] = s THEN NoAlarm ELSE a.ids[k]]
  <2>1. A_Remove(a, s) = [alarms |-> f, queue |-> q, ids |-> i]
    BY <1>2 DEF A_Remove
  <2>2. Kept(FreeAlarm)
    BY DEF Kept, FreeAlarm
  <2>3. f = [t \in Entries |-> f[t]] /\ \A t \in Entries : Kept(f[t])
    <3> HIDE DEF q, i
    <3> QED BY <2>2 DEF Good, AllKept
  <2>4. Good([alarms |-> f, queue |-> q, ids |-> i])
    <3> HIDE DEF q, f, i
    <3> QED BY <2>3, OnlyEntriesCount
  <2> QED BY <2>1, <2>4
<1> QED BY <1>1, <1>2

(* So does the end of a process, whatever it skips.                        *)
LEMMA KillGood ==
  ASSUME NEW a \in AllOK, Good(a), NEW p PROVE Good(A_Kill(a, p))
<1> DEFINE S == {b \in AllOK : Good(b)}
<1>1. \A b \in S : b.queue \in Seq(Entries)
  BY StateFields DEF AllOK
<1>2. \A b \in S, s \in Entries : A_Remove(b, s) \in S
  BY RemoveStays, RemoveGood
<1>3. a \in S /\ Len(a.queue) \in Nat
  BY <1>1
<1> HIDE DEF S
<1>4. A_Kill(a, p) \in S
  BY <1>1, <1>2, <1>3, KillStays
<1> QED BY <1>4 DEF S

(* Making an alarm whose own promise can be kept disturbs no other.        *)
LEMMA MakeGood ==
  ASSUME NEW a, Good(a), NEW p, NEW code, NEW ticks, NEW c, NEW w,
         w # 0 => w \in Nat /\ DueAfter(ticks) \in Nat /\ BootTime + DueAfter(ticks) >= w
  PROVE  Good(A_Make(a, p, code, ticks, c, w))
<1> DEFINE s == Min(Entries \ InUse(a))
           r == [pid |-> p, signal |-> code, ticks |-> ticks,
                 due |-> DueAfter(ticks), cyclic |-> c, promised |-> w]
           b == [a EXCEPT !.alarms[s] = r]
           d == A_Insert(b, s)
<1>1. Kept(r)
  BY DEF Kept
<1>2. Good(b)
  <2> HIDE DEF r, s
  <2> QED BY <1>1 DEF Good, Shape, AllKept
<1>3. Good(d)
  <2>1. PICK x : d = [b EXCEPT !.queue = x]
    <3> HIDE DEF b, s
    <3> QED BY DEF A_Insert
  <2> HIDE DEF b, s, d
  <2>2. d = [alarms |-> b.alarms, queue |-> x, ids |-> b.ids]
    BY <1>2, <2>1, WithQueue DEF Good
  <2>3. Good([alarms |-> b.alarms, queue |-> x, ids |-> b.ids])
    BY <1>2, OnlyEntriesCount DEF Good, AllKept
  <2> QED BY <2>2, <2>3
<1>4. Good([d EXCEPT !.ids = Append(@, s)])
  <2> DEFINE x == Append(d.ids, s)
  <2>1. [d EXCEPT !.ids = Append(@, s)] = [d EXCEPT !.ids = x]
    <3> HIDE DEF d, s
    <3> QED OBVIOUS
  <2> HIDE DEF d, s, x
  <2>2. [d EXCEPT !.ids = x] = [alarms |-> d.alarms, queue |-> d.queue, ids |-> x]
    BY <1>3, WithIds DEF Good
  <2>3. Good([alarms |-> d.alarms, queue |-> d.queue, ids |-> x])
    BY <1>3, OnlyEntriesCount DEF Good, AllKept
  <2> QED BY <2>1, <2>2, <2>3
<1> QED BY <1>4 DEF A_Make

-----------------------------------------------------------------------------
(* What the limit mx is for: the days up to the date, and the day itself,  *)
(* are fewer ticks than the counter has left.                              *)
LEMMA RoomForDays ==
  ASSUME NEW C \in Nat, NEW day \in Nat \ {0}, NEW tps \in Nat \ {0}, NEW d \in Nat,
         d < (C \div day) \div tps
  PROVE  ((d + 1) * day) * tps <= C
<1> DEFINE q == C \div day
           m == q \div tps
<1>1. q \in Nat /\ q * day <= C
  BY SMT
<1>2. m \in Nat /\ m * tps <= q
  <2> HIDE DEF q
  <2> QED BY <1>1, SMT
<1> HIDE DEF q, m
<1>3. d + 1 <= m
  BY <1>2 DEF m, q
<1>4. (d + 1) * tps <= m * tps
  BY <1>2, <1>3, SMT
<1>5. (d + 1) * tps \in Nat /\ m * tps \in Nat
  BY <1>2, SMT
<1>6. (d + 1) * tps <= q
  BY <1>1, <1>2, <1>4, <1>5
<1>7. ((d + 1) * tps) * day <= q * day
  BY <1>1, <1>5, <1>6, SMT
<1>8. ((d + 1) * tps) * day = ((d + 1) * day) * tps
  BY SMT
<1> QED BY <1>1, <1>7, <1>8, SMT

(* A product with a larger factor is larger.                               *)
LEMMA TimesMonotone ==
  ASSUME NEW x \in Nat, NEW y \in Nat, NEW z \in Nat, x <= y PROVE x * z <= y * z
BY SMT

(* Alarm_AtDate and Alarm_AtJul: for a date that is neither in the past    *)
(* nor out of range the ticks do not wrap around, and they reach up to it. *)
LEMMA DateIsReached ==
  ASSUME clock \in 0 .. MaxClock, NEW date \in Nat, NEW time \in 0 .. SecsPerDay - 1,
         ~InThePast(date, time), InRange(date)
  PROVE  LET ticks == (((date - iDate) * SecsPerDay + time - iTime) * TICKS_PER_SEC) % WIDTH
         IN  /\ DueAfter(ticks) \in Nat
             /\ BootTime + DueAfter(ticks) >= (date * SecsPerDay + time) * TICKS_PER_SEC
<1> DEFINE S == SecsPerDay
           T == TICKS_PER_SEC
           n == Now \div T
           C == WIDTH - 1 - clock
           d == date - iDate
           e == d * S + time - iTime
<1>1. S \in Nat \ {0} /\ T \in Nat \ {0} /\ C \in Nat /\ Now \in Nat /\ clock \in Nat
      /\ BootTime \in Nat /\ WIDTH \in Nat /\ Now = BootTime + clock
  BY AlarmsAssumption, SMT DEF Now
<1>2. n \in Nat /\ n * T <= Now
  <2> HIDE DEF T
  <2> QED BY <1>1, SMT
<1>3. iDate = n \div S /\ iTime = n % S
  BY DEF iDate, iTime
<1>4. iDate \in Nat /\ iTime \in 0 .. S - 1 /\ n = iDate * S + iTime
  <2> HIDE DEF n, S
  <2> QED BY <1>1, <1>2, <1>3, SMT
<1>5. d \in Nat /\ (d = 0 => time >= iTime)
  <2> HIDE DEF S, n
  <2> QED BY <1>1, <1>4, SMT DEF InThePast
<1>6. d < (C \div S) \div T
  BY DEF InRange
<1>7. ((d + 1) * S) * T <= C
  <2> HIDE DEF d, C, S, T
  <2> QED BY <1>1, <1>5, <1>6, RoomForDays
<1>8. e \in Nat /\ e <= (d + 1) * S
  <2>1. time \in 0 .. S - 1
    OBVIOUS
  <2>2. d # 0 => d * S >= S
    <3> HIDE DEF d, S
    <3> QED BY <1>1, <1>5, SMT
  <2>3. d * S \in Nat /\ (d + 1) * S = d * S + S
    <3> HIDE DEF d, S
    <3> QED BY <1>1, <1>5, SMT
  <2> DEFINE x == d * S
  <2>4. d = 0 => x = 0
    <3> HIDE DEF d, S
    <3> QED BY <1>1, <1>5, SMT
  <2>5. e = x + time - iTime
    OBVIOUS
  <2> HIDE DEF x, d, S, e
  <2> QED BY <1>1, <1>4, <1>5, <2>1, <2>2, <2>3, <2>4, <2>5, SMT DEF x
<1>9. e * T \in Nat /\ e * T <= C
  <2> DEFINE y == (d + 1) * S
  <2>1. y \in Nat /\ e <= y /\ y * T <= C
    <3> HIDE DEF d, S, T, C, e
    <3> QED BY <1>1, <1>5, <1>7, <1>8, SMT
  <2> HIDE DEF y, e, T, C
  <2>2. e * T \in Nat /\ y * T \in Nat
    BY <1>1, <1>8, <2>1, SMT
  <2>3. e * T <= y * T
    BY <1>1, <1>8, <2>1, TimesMonotone
  <2> QED BY <1>1, <2>1, <2>2, <2>3, SMT
<1> DEFINE w == e * T
<1>10. w % WIDTH = w /\ DueAfter(w) = w + clock
  <2>1. C = WIDTH - 1 - clock /\ w \in Nat /\ w <= C
    BY <1>9
  <2> HIDE DEF w, C
  <2> QED BY <1>1, <2>1, SMT DEF DueAfter
<1>11. n * T + w = (date * S + time) * T
  <2> HIDE DEF S, T, n
  <2>1. n + e = date * S + time
    BY <1>1, <1>4, <1>5, SMT
  <2> HIDE DEF e
  <2>2. n * T + e * T = (n + e) * T
    BY <1>1, <1>2, <1>8, SMT
  <2> QED BY <2>1, <2>2
<1>12. DueAfter(w % WIDTH) = w + clock
  BY <1>10
<1>13. w + clock \in Nat /\ BootTime + (w + clock) >= n * T + w
  <2>1. n * T \in Nat /\ w \in Nat
    <3> HIDE DEF n, T, e
    <3> QED BY <1>1, <1>2, <1>9, SMT
  <2> DEFINE z == n * T
  <2>2. z \in Nat /\ z <= Now
    BY <1>2, <2>1
  <2> HIDE DEF w, z, n, T
  <2>3. w + clock \in Nat /\ BootTime + (w + clock) >= z + w
    BY <1>1, <2>1, <2>2, SMT
  <2> QED BY <2>3 DEF z
<1> QED
  <2>1. w % WIDTH = (((date - iDate) * SecsPerDay + time - iTime) * TICKS_PER_SEC) % WIDTH
    OBVIOUS
  <2> QED BY <1>11, <1>12, <1>13, <2>1

-----------------------------------------------------------------------------
(* A$Set, A$Cycle and the renewal ask for no date.                         *)
LEMMA MakeOrFailGood ==
  ASSUME Good(al), NEW p, NEW code, NEW ticks, NEW c, NEW w, MakeOrFail(p, code, ticks, c, w),
         w # 0 => w \in Nat /\ DueAfter(ticks) \in Nat /\ BootTime + DueAfter(ticks) >= w
  PROVE  Good(al')
<1>1. CASE CanMake(al)
  BY <1>1, MakeGood DEF MakeOrFail
<1>2. CASE ~CanMake(al)
  BY <1>2 DEF MakeOrFail
<1> QED BY <1>1, <1>2

(* A$AtDate and A$AtJul keep the promises.                                 *)
LEMMA AtDateGood ==
  ASSUME EarlyInv, NEW p, NEW code, NEW date \in Dates, NEW time \in Times,
         Alarm_AtDate(p, code, date, time)
  PROVE  Good(al')
<1> DEFINE ticks == (((date - iDate) * SecsPerDay + time - iTime) * TICKS_PER_SEC) % WIDTH
           w == (date * SecsPerDay + time) * TICKS_PER_SEC
<1>1. date \in Nat /\ time \in 0 .. SecsPerDay - 1
  BY AlarmsAssumption
<1>2. CASE InThePast(date, time) \/ ~InRange(date)
  BY <1>2 DEF Alarm_AtDate, EarlyInv
<1>3. CASE ~(InThePast(date, time) \/ ~InRange(date))
  <2>1. MakeOrFail(p, code, ticks, FALSE, w)
    BY <1>3 DEF Alarm_AtDate
  <2>2. DueAfter(ticks) \in Nat /\ BootTime + DueAfter(ticks) >= w
    BY <1>1, <1>3, DateIsReached DEF EarlyInv
  <2>3. w \in Nat
    <3>1. date * SecsPerDay \in Nat
      BY <1>1, AlarmsAssumption, SMT
    <3> DEFINE v == date * SecsPerDay + time
    <3>2. v \in Nat
      BY <1>1, <3>1, AlarmsAssumption, SMT
    <3> HIDE DEF v
    <3>3. v * TICKS_PER_SEC \in Nat
      BY <3>2, AlarmsAssumption, SMT
    <3> QED BY <3>3 DEF v
  <2> HIDE DEF ticks, w
  <2> QED BY <2>1, <2>2, <2>3, MakeOrFailGood DEF EarlyInv
<1> QED BY <1>2, <1>3

(* The alarm handling of the main loop keeps them.                         *)
LEMMA FireGood ==
  ASSUME AlarmsInv, EarlyInv, Fire PROVE Good(al')
<1> DEFINE s == Head(al.queue)
           r == al.alarms[s]
           killed == r.signal = S_Kill /\ r.pid \in live
           a == Renew(al, r)
           b == IF killed THEN A_Kill(a, r.pid) ELSE a
<1>1. Good(a)
  <2> HIDE DEF s, r
  <2> QED BY MakeGood DEF Renew, EarlyInv
<1>2. Good(b)
  <2>1. a \in AllOK
    BY RenewStays DEF Fire, Due
  <2> HIDE DEF a, s, r
  <2> QED BY <1>1, <2>1, KillGood
<1>3. al' = A_Remove(b, s)
  BY DEF Fire, Finish
<1> HIDE DEF b, s
<1> QED BY <1>2, <1>3, RemoveGood

(* Every step keeps them.                                                  *)
LEMMA NextGood ==
  ASSUME AlarmsInv, EarlyInv, Next PROVE EarlyInv'
<1> USE DEF EarlyInv
<1>1. ASSUME NEW p \in Processes, NEW code \in Codes, NEW ticks \in Ticks, NEW c \in BOOLEAN,
             Alarm_Set(p, code, ticks, c)
      PROVE  Good(al') /\ UNCHANGED clock
  BY <1>1, MakeOrFailGood DEF Alarm_Set, Call
<1>2. ASSUME NEW p \in Processes, NEW code \in Codes, NEW date \in Dates, NEW time \in Times,
             Alarm_AtDate(p, code, date, time)
      PROVE  Good(al') /\ UNCHANGED clock
  BY <1>2, AtDateGood DEF Alarm_AtDate, Call
<1>3. ASSUME NEW p \in Processes, NEW id \in 0 .. alarms_capacity, Alarm_Delete(p, id)
      PROVE  Good(al') /\ UNCHANGED clock
  BY <1>3, RemoveGood DEF Alarm_Delete, Call
<1>4. ASSUME NEW p \in Processes, OtherCall(p) \/ NewProcess(p)
      PROVE  Good(al') /\ UNCHANGED clock
  BY <1>4 DEF OtherCall, Call, NewProcess
<1>5. ASSUME NEW p \in Processes, Kill(p)
      PROVE  Good(al') /\ UNCHANGED clock
  BY <1>5, KillGood DEF Kill, AlarmsInv
<1>6. CASE Fire
  BY <1>6, FireGood DEF Fire
<1>7. CASE NothingDue
  BY <1>7 DEF NothingDue
<1>8. CASE Tick
  BY <1>8, AlarmsAssumption DEF Tick
<1> QED BY <1>1, <1>2, <1>3, <1>4, <1>5, <1>6, <1>7, <1>8 DEF Next, SystemCall

\* An alarm for a date (A$AtDate, A$AtJul) is never due before that date: what
\* the comment "alarms in the past are not allowed" and the limit mx are for.
THEOREM PromisedDates == Spec => []NeverEarly
<1>1. Init => EarlyInv
  <2>1. Kept(FreeAlarm)
    BY DEF Kept, FreeAlarm
  <2> QED BY <2>1, AlarmsAssumption, OnlyEntriesCount DEF Init, EarlyInv, Good, Shape, AllKept
<1>2. AlarmsInv /\ EarlyInv /\ [Next]_vars => EarlyInv'
  <2>1. CASE UNCHANGED vars
    BY <2>1 DEF vars, EarlyInv
  <2> QED BY <2>1, NextGood
<1>3. EarlyInv => NeverEarly
  BY AlarmsAssumption DEF EarlyInv, Good, AllKept, Kept, NeverEarly, InUse, Now
<1> QED BY <1>1, <1>2, <1>3, AlarmsAlways, PTL DEF Spec
=============================================================================
