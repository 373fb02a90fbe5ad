----------------------------- MODULE Kernel_proofs -----------------------------
(***************************************************************************)
(* Kernel keeps its types.  TypeOK alone is not inductive: currentpid may  *)
(* be MAXPROCESSES, no index of procs[], when do_arbitrate finds no process *)
(* and the loop ends.  TypeInv adds that this is so only on the way out.   *)
(*                                                                         *)
(* First come lemmas about ProcTable: the functions of procstuff.c leave a *)
(* well-formed kernel state behind.  Running is such a state with a current *)
(* process, which they all have.                                           *)
(*                                                                         *)
(* The second part is about masked signals.  Outside of the async area     *)
(* send_signal and sig_mask hand nobody a signal (Hushed): what is taken    *)
(* from the queue is put there again.  In it they hand none to those that   *)
(* mask signals (Unheard), if sig_mask works for a process that does not    *)
(* mask them itself, which the loop and do_arbitrate make sure of.         *)
(*                                                                         *)
(* The third part is about parents and children: the table keeps the       *)
(* promises of Lifecycle.                                                  *)
(*                                                                         *)
(* The inductive invariant FamilyInv says of the table that parents live   *)
(* and the dead have parents (Kin), of each process that what F$RTE and a  *)
(* blocked read set back is a state in which it runs or reads (Sound), of  *)
(* the queue that S_Kill is never in it (NoKillQueued): so a signal that   *)
(* sig_mask takes outside of the async area is only queued again, and the  *)
(* call that unmasked goes on with a caller that lives.  Of the system's   *)
(* own process it says that while it sleeps nobody knows it (HostAlone).   *)
(*                                                                         *)
(* For each function From says that it leads from such a kernel state to   *)
(* such a kernel state, in which some processes have ended together        *)
(* (EndedIn) and nobody has fallen asleep or begun to wait (Calm).  What   *)
(* is left for the actions is to say which of them fork, report a dead     *)
(* child or begin to wait (Lives).                                         *)
(*                                                                         *)
(* Listed says of each parent that some sequence of processes (ChainOf)    *)
(* leads from its cid along the sids through all its children and no one   *)
(* else.  The list that ChildList walks is that sequence                   *)
(* (ChainIsChildList), and fork and reap lengthen and shorten it.          *)
(*                                                                         *)
(* It holds when no program sleeps for a limited time.  Otherwise a signal *)
(* taken while do_arbitrate looks at a sleeper can kill it, and the end of *)
(* the same step makes it active again, as an orphan or with its parent    *)
(* about to be told that it is dead.                                       *)
(*                                                                         *)
(* The fourth part is about blocked reads.  Breaks says that a process     *)
(* whose reads signals may break has such a signal in the queue, BreaksBut *)
(* that it is there or has just been taken from it.  A signal that is      *)
(* taken is handed over, which closes the reads again, or queued once more. *)
(***************************************************************************)
EXTENDS Kernel, SequenceTheorems, FiniteSetTheorems, WellFoundedInduction, TLAPS

\* Every set of numbers that is not empty has a least member, and Least is
\* it.
LEMMA LeastIsMember ==
  ASSUME NEW S, S \subseteq Nat, S # {}
  PROVE  Least(S) \in S /\ \A y \in S : Least(S) <= y
<1> DEFINE R == OpToRel(<, Nat)
<1>0. IsWellFoundedOn(R, Nat)
  BY NatLessThanWellFounded
<1>4. \A x, y \in Nat : <<y, x>> \notin R => x <= y
  <2>1. \A x, y \in Nat : y < x => <<y, x>> \in R
    BY Zenon DEF OpToRel
  <2> HIDE DEF R
  <2> QED BY <2>1
<1> HIDE DEF R
<1>1. \E x \in S : \A y \in S : <<y, x>> \notin R
  BY <1>0, WFMin
<1>2. \E x \in S : \A y \in S : x <= y
  BY <1>1, <1>4
<1> QED BY <1>2 DEF Least

Running == {k \in KernelState : k.currentpid \in Slot}

\* Replacing a whole process descriptor keeps the kernel state well-formed.
LEMMA SetProcess ==
  ASSUME NEW k \in Running, NEW p \in Slot, NEW r \in Process
  PROVE  [k EXCEPT !.proc[p] = r] \in Running
BY DEF KernelState, Running

\* The table holds a descriptor at every index.
LEMMA ProcessOf ==
  ASSUME NEW k \in Running, NEW p \in Slot
  PROVE  k.proc[p] \in Process
BY DEF KernelState, Running

\* The indices of the table are numbers, the process ids are indices.
LEMMA SlotIsNat == Slot \subseteq Nat /\ Pid \subseteq Slot
BY ProcTableAssumption DEF Slot, Pid

\* The type of every field of a descriptor.
LEMMA ProcessFields ==
  ASSUME NEW r \in Process
  PROVE  /\ r.state \in PState
         /\ r.code \in BOOLEAN
         /\ r.parent \in Slot
         /\ r.sid \in Slot
         /\ r.cid \in Slot
         /\ r.signal \in Nat
         /\ r.sigvec \in BOOLEAN
         /\ r.masklevel \in Nat
         /\ r.pwr_brk \in BOOLEAN
         /\ r.way_to_icpt \in BOOLEAN
         /\ r.icpt_pid \in Slot
         /\ r.icpt_signal \in Nat
         /\ r.rtestate \in PState
         /\ r.saved_state \in PState
         /\ r.wakeUpTick \in WakeUpTick
         /\ r.pW_age \in 0 .. NewAge
BY DEF Process

\* Assigning one field of a descriptor a value of its type gives a
\* descriptor.
LEMMA UpdateProcess ==
  ASSUME NEW r \in Process
  PROVE  /\ \A x \in PState : [r EXCEPT !.state = x] \in Process
         /\ \A x \in BOOLEAN : [r EXCEPT !.code = x] \in Process
         /\ \A x \in Slot : [r EXCEPT !.parent = x] \in Process
         /\ \A x \in Slot : [r EXCEPT !.sid = x] \in Process
         /\ \A x \in Slot : [r EXCEPT !.cid = x] \in Process
         /\ \A x \in Nat : [r EXCEPT !.signal = x] \in Process
         /\ \A x \in BOOLEAN : [r EXCEPT !.sigvec = x] \in Process
         /\ \A x \in Nat : [r EXCEPT !.masklevel = x] \in Process
         /\ \A x \in BOOLEAN : [r EXCEPT !.pwr_brk = x] \in Process
         /\ \A x \in BOOLEAN : [r EXCEPT !.way_to_icpt = x] \in Process
         /\ \A x \in Slot : [r EXCEPT !.icpt_pid = x] \in Process
         /\ \A x \in Nat : [r EXCEPT !.icpt_signal = x] \in Process
         /\ \A x \in PState : [r EXCEPT !.rtestate = x] \in Process
         /\ \A x \in PState : [r EXCEPT !.saved_state = x] \in Process
         /\ \A x \in WakeUpTick : [r EXCEPT !.wakeUpTick = x] \in Process
         /\ \A x \in 0 .. NewAge : [r EXCEPT !.pW_age = x] \in Process
BY Zenon DEF Process

\* The same for a descriptor inside of a kernel state.
LEMMA UpdateKernel ==
  ASSUME NEW k \in Running, NEW p \in Slot
  PROVE  /\ \A x \in PState : [k EXCEPT !.proc[p].state = x] \in Running
         /\ \A x \in BOOLEAN : [k EXCEPT !.proc[p].code = x] \in Running
         /\ \A x \in Slot : [k EXCEPT !.proc[p].parent = x] \in Running
         /\ \A x \in Slot : [k EXCEPT !.proc[p].sid = x] \in Running
         /\ \A x \in Slot : [k EXCEPT !.proc[p].cid = x] \in Running
         /\ \A x \in Nat : [k EXCEPT !.proc[p].signal = x] \in Running
         /\ \A x \in BOOLEAN : [k EXCEPT !.proc[p].sigvec = x] \in Running
         /\ \A x \in Nat : [k EXCEPT !.proc[p].masklevel = x] \in Running
         /\ \A x \in BOOLEAN : [k EXCEPT !.proc[p].pwr_brk = x] \in Running
         /\ \A x \in BOOLEAN : [k EXCEPT !.proc[p].way_to_icpt = x] \in Running
         /\ \A x \in Slot : [k EXCEPT !.proc[p].icpt_pid = x] \in Running
         /\ \A x \in Nat : [k EXCEPT !.proc[p].icpt_signal = x] \in Running
         /\ \A x \in PState : [k EXCEPT !.proc[p].rtestate = x] \in Running
         /\ \A x \in PState : [k EXCEPT !.proc[p].saved_state = x] \in Running
         /\ \A x \in WakeUpTick : [k EXCEPT !.proc[p].wakeUpTick = x] \in Running
         /\ \A x \in 0 .. NewAge : [k EXCEPT !.proc[p].pW_age = x] \in Running
<1>1. k.proc[p] \in Process
  BY ProcessOf
<1> QED BY <1>1, UpdateProcess, SetProcess

\* 0, the number for "no process", is an index.
LEMMA Zero == 0 \in Slot
BY ProcTableAssumption DEF Slot

\* new_process leaves a well-formed kernel state.
LEMMA NewProcessType ==
  ASSUME NEW k \in Running, NEW q \in Slot, NEW p \in Slot
  PROVE  NewProcess(k, q, p) \in Running
<1> DEFINE r == [k.proc[q] EXCEPT !.state = "pStart", !.code = TRUE, !.parent = p,
                                  !.sid = 0, !.cid = 0]
           s == [r EXCEPT !.signal = 0, !.sigvec = FALSE, !.masklevel = 0,
                          !.pwr_brk = FALSE, !.wakeUpTick = "due", !.pW_age = 0]
<1>1. r \in Process
  <2>1. k.proc[q] \in Process
    BY ProcessOf
  <2> QED BY <2>1, Zero, Zenon DEF Process, PState
<1>2. s \in Process
  <2>1. 0 \in 0 .. NewAge /\ 0 \in Nat
    BY ProcTableAssumption
  <2> HIDE DEF r
  <2> QED BY <1>1, <2>1, Zenon DEF Process, WakeUpTick
<1>3. [k EXCEPT !.proc[q] = s] \in Running
  <2> HIDE DEF s
  <2> QED BY <1>2, SetProcess
<1> QED BY <1>3 DEF NewProcess

\* An orphan is still a descriptor.
LEMMA OrphanType ==
  ASSUME NEW r \in Process
  PROVE  Orphan(r) \in Process
BY Zero DEF Orphan, Process, PState

\* The table with orphans is a table.
LEMMA OrphanedType ==
  ASSUME NEW k \in Running, NEW p \in Slot
  PROVE  Orphaned(k, p) \in [Slot -> Process]
BY ProcessOf, OrphanType DEF Orphaned

\* kill_process leaves a well-formed kernel state, with a current process.
LEMMA KillProcessType ==
  ASSUME NEW k \in Running, NEW p \in Slot
  PROVE  KillProcess(k, p) \in Running
<1> DEFINE m == [k EXCEPT !.proc[p].masklevel = 0]
           f == [Orphaned(m, p) EXCEPT ![p].state = AfterDeath(k.proc[p].parent)]
<1>1. m \in Running
  BY ProcessOf, SetProcess DEF Process
<1>2. Orphaned(m, p) \in [Slot -> Process] BY <1>1, OrphanedType
<1>3. f \in [Slot -> Process]
  BY <1>2 DEF Process, AfterDeath, PState
<1>4. k.proc[p].parent \in Slot BY ProcessOf DEF Process
<1> HIDE DEF m, f
<1>5. [m EXCEPT !.proc = Orphaned(m, p)] \in Running
  BY <1>1, <1>2 DEF Running, KernelState
<1>6. ASSUME NEW c \in Slot, NEW b \in BOOLEAN
      PROVE  [m EXCEPT !.proc = f, !.currentpid = c, !.arbitrate = b] \in Running
  <2>1. c \in 0 .. MAXPROCESSES
    BY ProcTableAssumption DEF Slot
  <2> QED BY <1>1, <1>3, <2>1, Zenon DEF Running, KernelState
<1>7. (IF p = k.currentpid THEN k.proc[p].parent ELSE k.currentpid) \in Slot
  BY <1>1, <1>4 DEF Running, KernelState
<1>8. (IF p = k.currentpid THEN k.proc[p].parent = 0 ELSE k.arbitrate) \in BOOLEAN
  BY <1>1 DEF Running, KernelState
<1> QED BY <1>1, <1>5, <1>6, <1>7, <1>8 DEF KillProcess, m, f

\* AssignNewChild leaves a well-formed kernel state.
LEMMA AssignNewChildType ==
  ASSUME NEW k \in Running, NEW p \in Slot, NEW q \in Slot
  PROVE  AssignNewChild(k, p, q) \in Running
<1> DEFINE before == {b \in Slot : b \in ChildList(k, p) /\ k.proc[b].sid = q}
<1>1. k.proc[q].sid \in Slot
  BY ProcessOf, ProcessFields
<1>2. [k EXCEPT !.proc[p].cid = k.proc[q].sid] \in Running
  BY <1>1, UpdateKernel
<1>3. ASSUME before # {}
      PROVE  [k EXCEPT !.proc[Least(before)].sid = k.proc[q].sid] \in Running
  <2>1. before \subseteq Slot
    OBVIOUS
  <2> HIDE DEF before
  <2>2. Least(before) \in Slot
    BY <2>1, <1>3, LeastIsMember, SlotIsNat
  <2> QED BY <1>1, <2>2, UpdateKernel
<1> QED BY <1>2, <1>3, Zenon DEF AssignNewChild

\* So does reporting a dead child.
LEMMA ReapType ==
  ASSUME NEW k \in Running, NEW p \in Slot, NEW q \in Slot
  PROVE  Reap(k, p, q) \in Running
BY AssignNewChildType, UpdateKernel DEF Reap, PState

Entry(S) == [pid : Slot, signal : S]

\* The types of the other globals.
LEMMA QueueOf ==
  ASSUME NEW k \in Running
  PROVE  /\ k.queue \in Seq(Entry(Nat)) /\ k.pending \in BOOLEAN
         /\ k.currentpid \in Slot /\ k.arbitrate \in BOOLEAN
BY DEF Running, KernelState, Entry

\* sig_queue and async_pending may be replaced together.
LEMMA SetQueue ==
  ASSUME NEW k \in Running, NEW q \in Seq(Entry(Nat)), NEW b \in BOOLEAN
  PROVE  [k EXCEPT !.queue = q, !.pending = b] \in Running
BY Zenon DEF Running, KernelState, Entry

\* So may currentpid and arbitrate.
LEMMA SetCurrent ==
  ASSUME NEW k \in Running, NEW c \in Slot, NEW b \in BOOLEAN
  PROVE  [k EXCEPT !.currentpid = c, !.arbitrate = b] \in Running
<1>1. c \in 0 .. MAXPROCESSES
  BY ProcTableAssumption DEF Slot
<1> QED BY <1>1, Zenon DEF Running, KernelState

\* A full queue stays one, whatever send_signal stores: the pid that overruns
\* it is a number like the signal it overwrites.
LEMMA StoreType ==
  ASSUME NEW S, NEW q \in Seq(Entry(S)), NEW t \in Slot, t \in S, NEW sig \in S
  PROVE  Store(q, t, sig) \in Seq(Entry(S))
<1>1. [pid |-> t, signal |-> sig] \in Entry(S)
  BY DEF Entry
<1>2. Append(q, [pid |-> t, signal |-> sig]) \in Seq(Entry(S))
  BY <1>1, AppendProperties
<1>3. CASE Len(q) < MAXSIGNALS
  BY <1>2, <1>3 DEF Store
<1>4. CASE ~ (Len(q) < MAXSIGNALS)
  <2>1. Len(q) \in Nat
    BY LenProperties
  <2>2. 1 \in 1 .. Len(q)
    BY <1>4, <2>1, ProcTableAssumption
  <2>3. q[1] \in Entry(S)
    BY <2>2, ElementOfSeq
  <2>4. [q[1] EXCEPT !.signal = t] \in Entry(S)
    BY <2>3, Zenon DEF Entry
  <2>5. [q EXCEPT ![1] = [q[1] EXCEPT !.signal = t]] \in Seq(Entry(S))
    BY <2>2, <2>4, ExceptSeq
  <2> QED BY <1>4, <2>5 DEF Store
<1> QED BY <1>3, <1>4

\* Queueing a signal leaves a well-formed kernel state.
LEMMA EnqueueType ==
  ASSUME NEW k \in Running, NEW t \in Slot, NEW sig \in Nat, NEW async \in BOOLEAN
  PROVE  Enqueue(k, t, sig, async) \in Running
<1> DEFINE b == k.proc[t].pwr_brk \/ (ReadBlocked(k.proc[t]) /\ sig <= Pwr_Signal)
           m == [k EXCEPT !.proc[t].pwr_brk = b]
           q == Store(k.queue, t, sig)
           d == k.pending \/ ~async
<1>1. q \in Seq(Entry(Nat)) /\ d \in BOOLEAN /\ b \in BOOLEAN
  <2>1. b \in BOOLEAN
    BY ProcessOf, ProcessFields DEF ReadBlocked
  <2>2. q \in Seq(Entry(Nat))
    BY StoreType, QueueOf, SlotIsNat
  <2> QED BY <2>1, <2>2
<1> HIDE DEF b, q, d
<1>2. m \in Running
  BY <1>1, UpdateKernel
<1> HIDE DEF m
<1>3. [m EXCEPT !.queue = q, !.pending = d] \in Running
  BY <1>1, <1>2, SetQueue
<1>4. [k EXCEPT !.proc[t].pwr_brk = b, !.queue = q, !.pending = d] \in Running
  BY <1>3 DEF m
<1> QED BY <1>4, Zenon DEF Enqueue, b, q, d

\* The process whose way_to_icpt holds a delivery up is in the table.
LEMMA SenderType ==
  ASSUME NEW k \in Running, NEW t \in Slot
  PROVE  Sender(k, t) \in Slot
BY QueueOf DEF Sender

\* The first part of a delivery leaves a well-formed kernel state.
LEMMA WakeupType ==
  ASSUME NEW k \in Running, NEW t \in Slot, NEW sig \in Nat
  PROVE  Wakeup(k, t, sig) \in Running
<1> DEFINE c == Sender(k, t)
           b == PwrBrkAfter(k.proc[t], sig)
           n1 == [k EXCEPT !.proc[t].pwr_brk = b]
           n2 == [n1 EXCEPT !.proc[c].icpt_pid = t]
           n3 == [n2 EXCEPT !.proc[c].icpt_signal = sig]
           n4 == [n3 EXCEPT !.proc[t].state = "pActive"]
           n5 == [n4 EXCEPT !.proc[t].way_to_icpt = TRUE]
           n6 == [n5 EXCEPT !.proc[c].way_to_icpt = TRUE]
           first == k.currentpid = 0 /\ sig = S_Wake
           n7 == [n6 EXCEPT !.currentpid = IF first THEN t ELSE k.currentpid,
                            !.arbitrate = first]
<1>1. c \in Slot /\ b \in BOOLEAN /\ first \in BOOLEAN
  BY SenderType, ProcessOf, ProcessFields DEF PwrBrkAfter
<1> HIDE DEF c, b, first
<1>2. n1 \in Running
  BY <1>1, UpdateKernel
<1> HIDE DEF n1
<1>3. n2 \in Running
  BY <1>1, <1>2, UpdateKernel
<1> HIDE DEF n2
<1>4. n3 \in Running
  BY <1>1, <1>3, UpdateKernel
<1> HIDE DEF n3
<1>5. n4 \in Running
  BY <1>4, UpdateKernel DEF PState
<1> HIDE DEF n4
<1>6. n5 \in Running
  BY <1>5, UpdateKernel
<1> HIDE DEF n5
<1>7. n6 \in Running
  BY <1>1, <1>6, UpdateKernel
<1> HIDE DEF n6
<1>8. n7 \in Running
  BY <1>1, <1>7, SetCurrent, QueueOf
<1> HIDE DEF n7
<1> QED BY <1>4, <1>8, Zenon DEF Wakeup, n7, n6, n5, n4, n3, n2, n1, b, c, first

\* So does the way to the intercept routine.
LEMMA InterceptType ==
  ASSUME NEW k \in Running, NEW t \in Slot, NEW sig \in Nat, NEW c \in Slot
  PROVE  Intercept(k, t, sig, c) \in Running
<1> DEFINE back == ReturnState(k.proc[t])
           first == k.currentpid = 0
           n1 == [k EXCEPT !.proc[c].way_to_icpt = TRUE]
           r1 == [n1.proc[t] EXCEPT !.way_to_icpt = TRUE]
           r2 == [r1 EXCEPT !.signal = sig]
           r3 == [r2 EXCEPT !.icpt_signal = sig]
           r4 == [r3 EXCEPT !.rtestate = back]
           r5 == [r4 EXCEPT !.state = "pActive"]
           n2 == [n1 EXCEPT !.proc[t] = r5]
           n3 == [n2 EXCEPT !.currentpid = IF first THEN t ELSE k.currentpid,
                            !.arbitrate = first]
<1>1. back \in PState /\ first \in BOOLEAN /\ "pActive" \in PState
  BY DEF ReturnState, PState
<1> HIDE DEF back, first
<1>2. n1 \in Running
  BY UpdateKernel
<1> HIDE DEF n1
<1>3. r1 \in Process
  BY <1>2, ProcessOf, UpdateProcess
<1> HIDE DEF r1
<1>4. r2 \in Process
  BY <1>3, UpdateProcess
<1> HIDE DEF r2
<1>5. r3 \in Process
  BY <1>4, UpdateProcess
<1> HIDE DEF r3
<1>6. r4 \in Process
  BY <1>1, <1>5, UpdateProcess
<1> HIDE DEF r4
<1>7. r5 \in Process
  BY <1>1, <1>6, UpdateProcess
<1> HIDE DEF r5
<1>8. n2 \in Running
  BY <1>2, <1>7, SetProcess
<1> HIDE DEF n2
<1>9. n3 \in Running
  BY <1>1, <1>8, SetCurrent, QueueOf
<1> HIDE DEF n3
<1> QED BY <1>9, Zenon DEF Intercept, n3, n2, r5, r4, r3, r2, r1, n1, back, first

\* So does the death of a process without one.
LEMMA AbortType ==
  ASSUME NEW k \in Running, NEW t \in Slot, NEW sig \in Nat, NEW c \in Slot
  PROVE  Abort(k, t, sig, c) \in Running
<1> DEFINE n1 == [k EXCEPT !.proc[t].signal = sig]
           n2 == [n1 EXCEPT !.arbitrate = FALSE]
           dead == KillProcess(n2, t)
           n3 == [dead EXCEPT !.proc[t].way_to_icpt = FALSE]
           n4 == [n3 EXCEPT !.proc[c].way_to_icpt = FALSE]
<1>1. n1 \in Running
  BY UpdateKernel
<1> HIDE DEF n1
<1>2. n2 \in Running
  BY <1>1, Zenon DEF Running, KernelState
<1> HIDE DEF n2
<1>3. dead \in Running
  BY <1>2, KillProcessType
<1> HIDE DEF dead
<1>4. n3 \in Running
  BY <1>3, UpdateKernel
<1> HIDE DEF n3
<1>5. n4 \in Running
  BY <1>4, UpdateKernel
<1> HIDE DEF n4
<1> QED BY <1>5, Zenon DEF Abort, n4, n3, dead, n2, n1

\* So does a whole delivery.
LEMMA DeliverType ==
  ASSUME NEW k \in Running, NEW t \in Slot, NEW sig \in Nat
  PROVE  Deliver(k, t, sig) \in Running
BY WakeupType, InterceptType, AbortType, SenderType, Zenon DEF Deliver

\* send_signal leaves a well-formed kernel state.
LEMMA SendSignalType ==
  ASSUME NEW k \in Running, NEW t \in Slot, NEW sig \in Nat, NEW async \in BOOLEAN
  PROVE  SendSignal(k, t, sig, async) \in Running
BY DeliverType, EnqueueType, KillProcessType, Zenon DEF SendSignal

\* The queue entry sig_mask takes is in the queue and belongs to a process.
LEMMA ReadyEntry ==
  ASSUME NEW k \in Running, ReadyEntries(k) # {}
  PROVE  LET i == Least(ReadyEntries(k))
         IN  /\ i \in ReadyEntries(k) /\ i \in 1 .. Len(k.queue)
             /\ k.queue[i].pid \in Slot /\ k.queue[i].signal \in Nat
<1> DEFINE i == Least(ReadyEntries(k))
<1>1. Len(k.queue) \in Nat
  BY QueueOf, LenProperties
<1>2. i \in ReadyEntries(k) /\ i \in 1 .. Len(k.queue)
  <2>1. ReadyEntries(k) \subseteq 1 .. Len(k.queue)
    BY DEF ReadyEntries
  <2>2. ReadyEntries(k) \subseteq Nat
    BY <1>1, <2>1
  <2> QED BY <2>1, <2>2, LeastIsMember
<1> HIDE DEF i
<1>3. k.queue[i] \in Entry(Nat)
  BY <1>2, QueueOf, ElementOfSeq
<1>4. k.queue[i].pid \in Slot /\ k.queue[i].signal \in Nat
  BY <1>3 DEF Entry
<1> QED BY <1>2, <1>4 DEF i

\* The queue with an entry taken out of it is a queue.
LEMMA WithoutType ==
  ASSUME NEW S, NEW q \in Seq(S), NEW i \in 1 .. Len(q)
  PROVE  Without(q, i) \in Seq(S)
<1>1. Len(q) \in Nat
  BY LenProperties
<1>2. \A j \in 1 .. Len(q) : q[j] \in S
  BY ElementOfSeq
<1>3. SubSeq(q, 1, i - 1) \in Seq(S)
  BY <1>1, <1>2, SubSeqProperties
<1>4. SubSeq(q, i + 1, Len(q)) \in Seq(S)
  BY <1>1, <1>2, SubSeqProperties
<1> QED BY <1>3, <1>4, ConcatProperties DEF Without

\* Taking a signal out of the queue leaves a well-formed kernel state.
LEMMA TakeSignalType ==
  ASSUME NEW k \in Running, NEW async \in BOOLEAN
  PROVE  TakeSignal(k, async) \in Running
<1> DEFINE i == Least(ReadyEntries(k))
           rest == Without(k.queue, i)
           b == k.pending /\ rest # << >>
           taken == [k EXCEPT !.queue = rest, !.pending = b]
<1>1. CASE ReadyEntries(k) = {}
  BY <1>1 DEF TakeSignal
<1>2. CASE ReadyEntries(k) # {}
  <2>1. i \in 1 .. Len(k.queue) /\ k.queue[i].pid \in Slot /\ k.queue[i].signal \in Nat
    BY <1>2, ReadyEntry
  <2> HIDE DEF i
  <2>2. rest \in Seq(Entry(Nat)) /\ b \in BOOLEAN
    BY <2>1, WithoutType, QueueOf
  <2> HIDE DEF rest, b
  <2>3. taken \in Running
    BY <2>2, SetQueue
  <2> HIDE DEF taken
  <2>4. SendSignal(taken, k.queue[i].pid, k.queue[i].signal, async) \in Running
    BY <2>1, <2>3, SendSignalType
  <2> QED BY <1>2, <2>4, Zenon DEF TakeSignal, taken, b, rest, i
<1> QED BY <1>1, <1>2

\* sig_mask leaves a well-formed kernel state.
LEMMA MaskType ==
  ASSUME NEW k \in Running, NEW p \in Slot, NEW async \in BOOLEAN
  PROVE  /\ MaskOff(k, p, async) \in Running
         /\ MaskUp(k, p, async) \in Running
         /\ MaskDown(k, p, async) \in Running
<1>1. k.proc[p].masklevel \in Nat
  BY ProcessOf, ProcessFields
<1>2. k.proc[p].masklevel + 1 \in Nat /\ OneLess(k.proc[p].masklevel) \in Nat
  BY <1>1 DEF OneLess
<1>3. \A x \in Nat : [k EXCEPT !.proc[p].masklevel = x] \in Running
  BY UpdateKernel
<1> QED BY <1>2, <1>3, TakeSignalType DEF MaskOff, MaskUp, MaskDown

-----------------------------------------------------------------------------
(* The state machine                                                       *)

TypeInv == /\ TypeOK
           /\ phase \notin {"switch", "ended"} => os.currentpid \in Slot

\* The invariant holds when the emulator starts.
LEMMA InitTypeInv == Init => TypeInv
<1> SUFFICES ASSUME Init PROVE TypeInv
  OBVIOUS
<1>1. UnusedProcess \in Process
  BY Zero, ProcTableAssumption, SMTT(30) DEF UnusedProcess, Process, PState, WakeUpTick
<1>2. [UnusedProcess EXCEPT !.state = "pSleeping"] \in Process
  BY <1>1, UpdateProcess DEF PState
<1>3. [UnusedProcess EXCEPT !.state = "pActive", !.code = TRUE] \in Process
  <2>1. [UnusedProcess EXCEPT !.state = "pActive"] \in Process
    BY <1>1, UpdateProcess DEF PState
  <2> QED BY <2>1, UpdateProcess
<1>4. os.proc \in [Slot -> Process]
  BY <1>1, <1>2, <1>3, Zenon DEF Init
<1>5. 2 \in Slot /\ 2 \in 0 .. MAXPROCESSES /\ << >> \in Seq([pid : Slot, signal : Nat])
  BY ProcTableAssumption, EmptySeq DEF Slot
<1>6. os \in KernelState /\ os.currentpid \in Slot
  BY <1>4, <1>5, Zenon DEF Init, KernelState
<1>7. next \in 1 .. MAXPROCESSES /\ bsig \in Nat /\ MAXPROCESSES \in 0 .. MAXPROCESSES
  BY ProcTableAssumption DEF Init
<1> QED BY <1>6, <1>7, Zero, Zenon DEF Init, TypeInv, TypeOK, Phases, NoScan

\* While nobody has given up the search, there is a current process.
LEMMA OsRunning ==
  ASSUME TypeInv, phase \notin {"switch", "ended"}
  PROVE  os \in Running /\ Me \in Slot /\ My \in Process
BY ProcessOf DEF TypeInv, TypeOK, Running, Me, My

\* A system call that leaves a well-formed kernel state keeps the invariant.
LEMMA ReturnType ==
  ASSUME TypeInv, phase = "call", NEW k \in Running, Return(k)
  PROVE  TypeInv'
<1>1. Me \in Slot /\ My.way_to_icpt \in BOOLEAN
  BY OsRunning, ProcessFields
<1>2. k \in KernelState /\ k.currentpid \in Slot
  BY DEF Running
<1> QED BY <1>1, <1>2, Zenon DEF Return, TypeInv, TypeOK, Phases, bcast

\* So does the end of an iteration, whether it arbitrates or not.
LEMMA ArbitrateType ==
  ASSUME TypeInv, NEW k \in Running, NEW on_way \in BOOLEAN,
         cpid' \in Slot, cwti_svd' \in BOOLEAN, UNCHANGED bcast,
         Arbitrate(k, on_way)
  PROVE  TypeInv'
<1> DEFINE p == k.currentpid
           b == k.arbitrate \/ k.proc[p].state \in {"pSysTask", "pUnused", "pWaitRead"}
           sc == [NoScan EXCEPT !.cpid = p, !.spid = p,
                                !.atLeast1 = k.proc[p].state = "pSleeping"]
<1>1. k \in KernelState /\ p \in Slot /\ b \in BOOLEAN
  BY QueueOf DEF Running
<1>2. NoScan \in [cpid : Slot, spid : Slot, atLeast1 : BOOLEAN,
                  chkAll : BOOLEAN, done : BOOLEAN, sleeping : 0 .. MAXPROCESSES]
  BY ProcTableAssumption, Zero DEF NoScan
<1>3. sc \in [cpid : Slot, spid : Slot, atLeast1 : BOOLEAN,
              chkAll : BOOLEAN, done : BOOLEAN, sleeping : 0 .. MAXPROCESSES]
  BY <1>1, <1>2
<1>4. [k EXCEPT !.arbitrate = b] \in KernelState /\ [k EXCEPT !.arbitrate = b].currentpid \in Slot
  BY <1>1, Zenon DEF KernelState
<1>5. scan' \in [cpid : Slot, spid : Slot, atLeast1 : BOOLEAN,
                 chkAll : BOOLEAN, done : BOOLEAN, sleeping : 0 .. MAXPROCESSES]
  BY <1>2, <1>3, Zenon DEF Arbitrate
<1>6. os' \in KernelState /\ os'.currentpid \in Slot
  BY <1>1, <1>4, Zenon DEF Arbitrate
<1>7. phase' \in Phases /\ cwti' \in BOOLEAN
  BY DEF Arbitrate, Phases
<1> QED BY <1>5, <1>6, <1>7 DEF TypeInv, TypeOK, bcast

\* A system call begins in a well-formed kernel state.
LEMMA TrappedType ==
  ASSUME TypeInv, phase = "call"
  PROVE  Trapped \in Running
<1> DEFINE m == IF My.way_to_icpt THEN 1 ELSE os.proc[Me].masklevel
           n1 == [os EXCEPT !.proc[Me].masklevel = m]
           n2 == [n1 EXCEPT !.proc[Me].way_to_icpt = FALSE]
<1>1. os \in Running /\ Me \in Slot /\ m \in Nat
  BY OsRunning, ProcessOf, ProcessFields
<1> HIDE DEF m
<1>2. n1 \in Running
  BY <1>1, UpdateKernel
<1> HIDE DEF n1
<1>3. n2 \in Running
  BY <1>1, <1>2, UpdateKernel
<1> HIDE DEF n2
<1>4. [n2 EXCEPT !.arbitrate = FALSE] \in Running
  BY <1>3, Zenon DEF Running, KernelState
<1> QED BY <1>4, Zenon DEF Trapped, n2, n1, m
-----------------------------------------------------------------------------
(* The system calls. *)

\* The slot new_process takes is in the table.
LEMMA FreeSlotType ==
  ASSUME NEW k \in Running, FreeSlots(k) # {}
  PROVE  Least(FreeSlots(k)) \in Slot /\ Least(FreeSlots(k)) \in FreeSlots(k)
<1>1. FreeSlots(k) \subseteq Pid
  BY DEF FreeSlots
<1> QED BY <1>1, LeastIsMember, SlotIsNat

\* The child that goes first is hung into a well-formed table.
LEMMA StartChildType ==
  ASSUME NEW k \in Running, NEW p \in Slot, NEW q \in Slot
  PROVE  StartChild(k, p, q) \in Running
<1> DEFINE head == k.proc[p].cid
           sib == IF head # q THEN head ELSE k.proc[q].sid
           n1 == [k EXCEPT !.proc[q].state = "pActive"]
           n2 == [n1 EXCEPT !.proc[q].sid = sib]
           n3 == [n2 EXCEPT !.proc[p].cid = q]
           n4 == [n3 EXCEPT !.currentpid = q, !.arbitrate = TRUE]
<1>1. head \in Slot /\ sib \in Slot
  BY ProcessOf, ProcessFields
<1> HIDE DEF head, sib
<1>2. n1 \in Running
  BY UpdateKernel DEF PState
<1> HIDE DEF n1
<1>3. n2 \in Running
  BY <1>1, <1>2, UpdateKernel
<1> HIDE DEF n2
<1>4. n3 \in Running
  BY <1>3, UpdateKernel
<1> HIDE DEF n3
<1>5. n4 \in Running
  BY <1>4, SetCurrent
<1> QED BY <1>5, Zenon DEF StartChild, n4, n3, n2, n1, sib, head

\* F$Fork keeps the type invariant.
LEMMA ForkType ==
  ASSUME TypeInv, NEW ok \in BOOLEAN, F_Fork(ok)
  PROVE  TypeInv'
<1> DEFINE k == Trapped
           q == Least(FreeSlots(k))
           new == NewProcess(k, q, Me)
<1>1. phase = "call" /\ k \in Running /\ Me \in Slot
  BY TrappedType, OsRunning DEF F_Fork, Runs, Executes
<1> HIDE DEF k
<1>2. ASSUME FreeSlots(k) # {}
      PROVE  /\ StartChild(new, Me, q) \in Running
             /\ [new EXCEPT !.proc[q].state = "pUnused"] \in Running
  <2>1. q \in Slot
    BY <1>1, <1>2, FreeSlotType
  <2> HIDE DEF q
  <2>2. new \in Running
    BY <1>1, <2>1, NewProcessType
  <2> HIDE DEF new
  <2> QED BY <1>1, <2>1, <2>2, StartChildType, UpdateKernel DEF PState
<1>3. PICK kk \in Running : Return(kk)
  <2>1. CASE FreeSlots(k) = {}
    BY <2>1, <1>1, Zenon DEF F_Fork, k
  <2>2. CASE FreeSlots(k) # {} /\ ok
    BY <2>2, <1>1, <1>2, Zenon DEF F_Fork, k, q, new
  <2>3. CASE FreeSlots(k) # {} /\ ~ok
    BY <2>3, <1>1, <1>2, Zenon DEF F_Fork, k, q, new
  <2> QED BY <2>1, <2>2, <2>3
<1> QED BY <1>1, <1>3, ReturnType

\* F$Exit keeps the type invariant.
LEMMA ExitType == ASSUME TypeInv, F_Exit PROVE TypeInv'
<1> DEFINE k == [Trapped EXCEPT !.arbitrate = TRUE]
<1>1. phase = "call" /\ Trapped \in Running /\ Me \in Slot
  BY TrappedType, OsRunning DEF F_Exit, Runs, Executes
<1>2. k \in Running
  BY <1>1, Zenon DEF Running, KernelState
<1> HIDE DEF k
<1>3. KillProcess(MaskOff(k, Me, FALSE), Me) \in Running
  BY <1>1, <1>2, MaskType, KillProcessType
<1>4. Return(KillProcess(MaskOff(k, Me, FALSE), Me))
  BY DEF F_Exit, k
<1> QED BY <1>1, <1>3, <1>4, ReturnType

\* F$Chain keeps the type invariant.
LEMMA ChainType == ASSUME TypeInv, NEW ok \in BOOLEAN, F_Chain(ok) PROVE TypeInv'
<1> DEFINE k == [Trapped EXCEPT !.proc[Me].sigvec = FALSE]
<1>1. phase = "call" /\ Trapped \in Running /\ Me \in Slot
  BY TrappedType, OsRunning DEF F_Chain, Runs, Executes
<1>2. k \in Running
  BY <1>1, UpdateKernel
<1> HIDE DEF k
<1>3. (IF ok THEN k ELSE KillProcess(k, Me)) \in Running
  BY <1>1, <1>2, KillProcessType
<1>4. Return(IF ok THEN k ELSE KillProcess(k, Me))
  BY DEF F_Chain, k
<1> QED BY <1>1, <1>3, <1>4, ReturnType

\* The child F$Wait and do_arbitrate choose is in the table.
LEMMA ChildType ==
  ASSUME NEW k \in Running, NEW p \in Slot
  PROVE  /\ DeadChildren(k, p) # {} => Least(DeadChildren(k, p)) \in DeadChildren(k, p)
         /\ DeadChildren(k, p) \subseteq Slot
         /\ LET dead == DeadChildren(k, p) \cap UserPid
                live == LiveChildren(k, p) \cap UserPid
            IN  /\ dead # {} => Least(dead) \in dead /\ Least(dead) \in Slot
                /\ live # {} => Least(live) \in live /\ Least(live) \in Slot
<1>1. DeadChildren(k, p) \subseteq Pid /\ LiveChildren(k, p) \subseteq Pid
  BY DEF DeadChildren, LiveChildren
<1> HIDE DEF DeadChildren
<1>2. DeadChildren(k, p) \subseteq Nat /\ DeadChildren(k, p) \cap UserPid \subseteq Nat
      /\ LiveChildren(k, p) \cap UserPid \subseteq Nat
  BY <1>1, SlotIsNat
<1> QED BY <1>1, <1>2, SlotIsNat, LeastIsMember

\* F$Wait keeps the type invariant.
LEMMA WaitType == ASSUME TypeInv, F_Wait PROVE TypeInv'
<1> DEFINE k == MaskOff(Trapped, Me, FALSE)
           dead == DeadChildren(k, Me) \cap UserPid
           live == LiveChildren(k, Me) \cap UserPid
           n1 == [k EXCEPT !.proc[Me].state = "pWaiting"]
           n2 == [n1 EXCEPT !.currentpid = Least(live), !.arbitrate = TRUE]
<1>1. phase = "call" /\ Me \in Slot
  BY OsRunning DEF F_Wait, Runs, Executes
<1>2. k \in Running
  BY <1>1, TrappedType, MaskType
<1> HIDE DEF k
<1>3. ASSUME dead # {} PROVE Reap(k, Me, Least(dead)) \in Running
  BY <1>1, <1>2, <1>3, ChildType, ReapType
<1>4. ASSUME live # {} PROVE n2 \in Running
  <2>1. Least(live) \in Slot
    BY <1>1, <1>2, <1>4, ChildType
  <2>2. n1 \in Running
    BY <1>1, <1>2, UpdateKernel DEF PState
  <2> HIDE DEF n1, live
  <2> QED BY <2>1, <2>2, SetCurrent
<1> HIDE DEF dead, live
<1>5. PICK kk \in Running : Return(kk)
  <2>1. CASE dead # {}
    BY <2>1, <1>3, Zenon DEF F_Wait, k, dead
  <2>2. CASE dead = {} /\ live # {}
    BY <2>2, <1>4, Zenon DEF F_Wait, k, dead, live, n2, n1
  <2>3. CASE dead = {} /\ live = {}
    BY <2>3, <1>2, Zenon DEF F_Wait, k, dead, live
  <2> QED BY <2>1, <2>2, <2>3
<1> QED BY <1>1, <1>5, ReturnType

\* F$Sleep keeps the type invariant.
LEMMA SleepType == ASSUME TypeInv, NEW wake \in SleepTimes, F_Sleep(wake) PROVE TypeInv'
<1> DEFINE k == MaskOff(Trapped, Me, FALSE)
           n1 == [k EXCEPT !.arbitrate = TRUE]
           n2 == [n1 EXCEPT !.proc[Me].wakeUpTick = wake]
           n3 == [n2 EXCEPT !.proc[Me].state = "pSleeping"]
<1>1. phase = "call" /\ Me \in Slot
  BY OsRunning DEF F_Sleep, Runs, Executes
<1>2. k \in Running
  BY <1>1, TrappedType, MaskType
<1> HIDE DEF k
<1>3. n1 \in Running
  BY <1>2, Zenon DEF Running, KernelState
<1> HIDE DEF n1
<1>4. n2 \in Running
  <2>1. wake \in WakeUpTick
    BY KernelAssumption DEF WakeUpTick
  <2> QED BY <1>1, <1>3, <2>1, UpdateKernel
<1> HIDE DEF n2
<1>5. n3 \in Running
  BY <1>1, <1>4, UpdateKernel DEF PState
<1> HIDE DEF n3
<1>6. PICK kk \in Running : Return(kk)
  BY <1>2, <1>5, Zenon DEF F_Sleep, k, n3, n2, n1
<1> QED BY <1>1, <1>6, ReturnType

\* A sleep of one tick keeps the type invariant.
LEMMA YieldType == ASSUME TypeInv, F_Yield PROVE TypeInv'
<1> DEFINE k == MaskOff(Trapped, Me, FALSE)
           b == k.arbitrate \/ ~k.proc[Me].way_to_icpt
<1>1. phase = "call" /\ Me \in Slot
  BY OsRunning DEF F_Yield, Runs, Executes
<1>2. k \in Running
  BY <1>1, TrappedType, MaskType
<1> HIDE DEF k
<1>3. b \in BOOLEAN
  BY <1>1, <1>2, QueueOf
<1> HIDE DEF b
<1>4. [k EXCEPT !.arbitrate = b] \in Running
  BY <1>2, <1>3, Zenon DEF Running, KernelState
<1>5. Return([k EXCEPT !.arbitrate = b])
  BY Zenon DEF F_Yield, k, b
<1> QED BY <1>1, <1>4, <1>5, ReturnType

\* F$Send keeps the type invariant.
LEMMA SendType ==
  ASSUME TypeInv, NEW t \in Targets, NEW sig \in Signals, F_Send(t, sig)
  PROVE  TypeInv'
<1>1. phase = "call" /\ t \in Slot /\ sig \in Nat
  BY KernelAssumption, SlotIsNat DEF F_Send, Runs, Executes
<1>2. SendSignal(Trapped, t, sig, FALSE) \in Running
  BY <1>1, TrappedType, SendSignalType
<1>3. Return(SendSignal(Trapped, t, sig, FALSE))
  BY DEF F_Send
<1> QED BY <1>1, <1>2, <1>3, ReturnType

\* F$Icpt keeps the type invariant.
LEMMA IcptType == ASSUME TypeInv, NEW set \in BOOLEAN, F_Icpt(set) PROVE TypeInv'
<1>1. phase = "call" /\ Me \in Slot /\ Trapped \in Running
  BY OsRunning, TrappedType DEF F_Icpt, Runs, Executes
<1>2. [Trapped EXCEPT !.proc[Me].sigvec = set] \in Running
  BY <1>1, UpdateKernel
<1>3. Return([Trapped EXCEPT !.proc[Me].sigvec = set])
  BY DEF F_Icpt
<1> QED BY <1>1, <1>2, <1>3, ReturnType

\* F$RTE keeps the type invariant.
LEMMA RTEType == ASSUME TypeInv, F_RTE PROVE TypeInv'
<1> DEFINE broken == My.signal \in 1 .. Pwr_Signal
           blocked == My.rtestate = "pWaitRead"
           b == blocked /\ ~broken
           st == IF blocked /\ broken THEN "pActive" ELSE My.rtestate
           n1 == [Trapped EXCEPT !.proc[Me].signal = 0]
           n2 == [n1 EXCEPT !.arbitrate = b]
           n3 == [n2 EXCEPT !.proc[Me].state = st]
<1>1. phase = "call" /\ Me \in Slot /\ Trapped \in Running /\ My \in Process
  BY OsRunning, TrappedType DEF F_RTE, Runs, Executes
<1>2. st \in PState /\ b \in BOOLEAN
  BY <1>1, ProcessFields DEF PState
<1> HIDE DEF st, b
<1>3. n1 \in Running
  BY <1>1, UpdateKernel
<1> HIDE DEF n1
<1>4. n2 \in Running
  BY <1>2, <1>3, Zenon DEF Running, KernelState
<1> HIDE DEF n2
<1>5. n3 \in Running
  BY <1>1, <1>2, <1>4, UpdateKernel
<1> HIDE DEF n3
<1>6. MaskOff(n3, Me, FALSE) \in Running
  BY <1>1, <1>5, MaskType
<1>7. Return(MaskOff(n3, Me, FALSE))
  BY Zenon DEF F_RTE, n3, n2, n1, st, b
<1> QED BY <1>1, <1>6, <1>7, ReturnType

\* F$RTE outside of an intercept routine keeps the type invariant.
LEMMA AstrayType == ASSUME TypeInv, F_RTE_Astray PROVE TypeInv'
<1>1. phase = "call" /\ Me \in Slot /\ Trapped \in Running
  BY OsRunning, TrappedType DEF F_RTE_Astray, Runs, Executes
<1>2. MaskOff(KillProcess(Trapped, Me), Me, FALSE) \in Running
  BY <1>1, KillProcessType, MaskType
<1>3. Return(MaskOff(KillProcess(Trapped, Me), Me, FALSE))
  BY DEF F_RTE_Astray
<1> QED BY <1>1, <1>2, <1>3, ReturnType

\* F$SigMask keeps the type invariant.
LEMMA SigmaskType ==
  ASSUME TypeInv, NEW level \in {"off", "up", "down"}, F_Sigmask(level)
  PROVE  TypeInv'
<1>1. phase = "call" /\ Me \in Slot /\ Trapped \in Running
  BY OsRunning, TrappedType DEF F_Sigmask, Runs, Executes
<1>2. /\ MaskOff(Trapped, Me, FALSE) \in Running
      /\ MaskUp(Trapped, Me, FALSE) \in Running
      /\ MaskDown(Trapped, Me, FALSE) \in Running
  BY <1>1, MaskType
<1>3. PICK kk \in Running : Return(kk)
  <2>1. CASE level = "off"
    BY <2>1, <1>2 DEF F_Sigmask
  <2>2. CASE level = "up"
    BY <2>2, <1>2 DEF F_Sigmask
  <2>3. CASE level = "down"
    BY <2>3, <1>2 DEF F_Sigmask
  <2> QED BY <2>1, <2>2, <2>3
<1> QED BY <1>1, <1>3, ReturnType

\* A read keeps the type invariant.
LEMMA ReadType == ASSUME TypeInv, NEW ready \in BOOLEAN, Read(ready) PROVE TypeInv'
<1> DEFINE k == IF Runs THEN Trapped ELSE [os EXCEPT !.arbitrate = FALSE]
           r == k.proc[Me]
           st == IF r.state = "pWaitRead" THEN r.saved_state ELSE r.state
           n1 == [k EXCEPT !.proc[Me].state = st]
           n2 == [k EXCEPT !.proc[Me].saved_state = st]
           n3 == [n2 EXCEPT !.proc[Me].state = "pWaitRead"]
           n4 == [n3 EXCEPT !.arbitrate = TRUE]
<1>1. phase = "call" /\ Me \in Slot /\ Trapped \in Running /\ os \in Running
  BY OsRunning, TrappedType DEF Read, Runs, Executes
<1>2. [os EXCEPT !.arbitrate = FALSE] \in Running
  BY <1>1, Zenon DEF Running, KernelState
<1>3. k \in Running
  BY <1>1, <1>2
<1> HIDE DEF k
<1>4. st \in PState
  BY <1>1, <1>3, ProcessOf, ProcessFields
<1> HIDE DEF st
<1>5. n1 \in Running /\ n2 \in Running
  BY <1>1, <1>3, <1>4, UpdateKernel
<1> HIDE DEF n1, n2
<1>6. n3 \in Running
  BY <1>1, <1>5, UpdateKernel DEF PState
<1> HIDE DEF n3
<1>7. n4 \in Running
  BY <1>6, Zenon DEF Running, KernelState
<1>8. PICK kk \in Running : Return(kk)
  BY <1>5, <1>7, Zenon DEF Read, n4, n3, n2, n1, st, k
<1> QED BY <1>1, <1>8, ReturnType

\* A pipe transfer keeps the type invariant.
LEMMA PipeType == ASSUME TypeInv, Pipe PROVE TypeInv'
<1>1. phase = "call" /\ Me \in Slot /\ Trapped \in Running
  BY OsRunning, TrappedType DEF Pipe, Runs, Executes
<1>2. [Trapped EXCEPT !.proc[Me].state = "pSysTask"] \in Running
  BY <1>1, UpdateKernel DEF PState
<1>3. Return([Trapped EXCEPT !.proc[Me].state = "pSysTask"])
  BY DEF Pipe
<1> QED BY <1>1, <1>2, <1>3, ReturnType

\* Any other call keeps the type invariant.
LEMMA OtherType == ASSUME TypeInv, Other PROVE TypeInv'
<1>1. phase = "call" /\ Trapped \in Running
  BY OsRunning, TrappedType DEF Other, Runs, Executes
<1> QED BY <1>1, ReturnType DEF Other

\* F$Send to all keeps the type invariant.
LEMMA SendAllType == ASSUME TypeInv, NEW sig \in Signals, F_SendAll(sig) PROVE TypeInv'
<1>1. phase = "call"
  BY DEF F_SendAll, Runs, Executes
<1>2. Trapped \in Running /\ Me \in Slot /\ My.way_to_icpt \in BOOLEAN
  BY <1>1, OsRunning, TrappedType, ProcessFields
<1>3. sig \in Nat /\ 1 \in 1 .. MAXPROCESSES
  BY KernelAssumption, ProcTableAssumption
<1>4. os' \in KernelState /\ os'.currentpid \in Slot
  BY <1>2 DEF F_SendAll, Running
<1> QED BY <1>2, <1>3, <1>4, Zenon DEF F_SendAll, TypeInv, TypeOK, Phases

-----------------------------------------------------------------------------
(* The other steps of the main loop. *)

\* Each signal of a broadcast keeps the type invariant.
LEMMA BroadcastType == ASSUME TypeInv, Broadcast PROVE TypeInv'
<1>1. os \in Running
  BY OsRunning DEF Broadcast
<1>2. next \in 1 .. MAXPROCESSES /\ bsig \in Nat
  BY DEF TypeInv, TypeOK
<1>3. CASE next = MAXPROCESSES
  <2>1. os' = os /\ phase' = "signals" /\ next' = 1 /\ bsig' = 0
    BY <1>3 DEF Broadcast
  <2>2. 1 \in 1 .. MAXPROCESSES /\ 0 \in Nat
    BY ProcTableAssumption
  <2>3. os' \in KernelState /\ os'.currentpid \in Slot
    BY <1>1, <2>1 DEF Running
  <2> QED BY <2>1, <2>2, <2>3, Zenon DEF Broadcast, TypeInv, TypeOK, loop, Phases
<1>4. CASE next # MAXPROCESSES
  <2>1. next \in Slot /\ next + 1 \in 1 .. MAXPROCESSES
    BY <1>2, <1>4, ProcTableAssumption DEF Slot
  <2>2. SendSignal(os, next, bsig, FALSE) \in Running
    BY <1>1, <1>2, <2>1, SendSignalType
  <2>3. os' \in KernelState /\ os'.currentpid \in Slot
    BY <1>1, <1>4, <2>2 DEF Broadcast, Running
  <2>4. next' \in 1 .. MAXPROCESSES
    BY <1>4, <2>1 DEF Broadcast
  <2> QED BY <1>4, <2>3, <2>4, Zenon DEF Broadcast, TypeInv, TypeOK, loop, Phases
<1> QED BY <1>3, <1>4

\* A system task keeps the type invariant.
LEMMA SysTaskType == ASSUME TypeInv, NEW done \in BOOLEAN, SysTask(done) PROVE TypeInv'
<1> DEFINE m == IF My.way_to_icpt THEN 1 ELSE os.proc[Me].masklevel
           st == IF done THEN "pActive" ELSE os.proc[Me].state
           n1 == [os EXCEPT !.arbitrate = TRUE]
           n2 == [n1 EXCEPT !.proc[Me].masklevel = m]
           n3 == [n2 EXCEPT !.proc[Me].state = st]
<1>1. phase = "call" /\ os \in Running /\ Me \in Slot /\ My.way_to_icpt \in BOOLEAN
  BY OsRunning, ProcessFields DEF SysTask
<1>2. m \in Nat /\ st \in PState
  BY <1>1, ProcessOf, ProcessFields DEF PState
<1> HIDE DEF m, st
<1>3. n1 \in Running
  BY <1>1, Zenon DEF Running, KernelState
<1> HIDE DEF n1
<1>4. n2 \in Running
  BY <1>1, <1>2, <1>3, UpdateKernel
<1> HIDE DEF n2
<1>5. n3 \in Running
  BY <1>1, <1>2, <1>4, UpdateKernel
<1> HIDE DEF n3
<1>6. Arbitrate(n3, My.way_to_icpt)
  BY Zenon DEF SysTask, n3, n2, n1, m, st
<1>7. cpid' \in Slot /\ cwti_svd' \in BOOLEAN /\ UNCHANGED bcast
  BY <1>1 DEF SysTask
<1> QED BY <1>1, <1>5, <1>6, <1>7, ArbitrateType

\* An iteration without a running process keeps the type invariant.
LEMMA IdleType == ASSUME TypeInv, Idle PROVE TypeInv'
<1> DEFINE m == IF My.way_to_icpt THEN 1 ELSE os.proc[Me].masklevel
           n == [os EXCEPT !.proc[Me].masklevel = m]
<1>1. phase = "call" /\ os \in Running /\ Me \in Slot /\ My.way_to_icpt \in BOOLEAN
  BY OsRunning, ProcessFields DEF Idle
<1>2. m \in Nat
  BY <1>1, ProcessOf, ProcessFields
<1> HIDE DEF m
<1>3. n \in Running
  BY <1>1, <1>2, UpdateKernel
<1> HIDE DEF n
<1>4. Arbitrate(n, My.way_to_icpt)
  BY Zenon DEF Idle, n, m
<1>5. cpid' \in Slot /\ cwti_svd' \in BOOLEAN /\ UNCHANGED bcast
  BY <1>1 DEF Idle
<1> QED BY <1>1, <1>3, <1>4, <1>5, ArbitrateType

\* A fatal trap keeps the type invariant.
LEMMA TrapType == ASSUME TypeInv, Trap PROVE TypeInv'
<1> DEFINE k == [Trapped EXCEPT !.arbitrate = os.arbitrate]
<1>1. phase = "call" /\ os \in Running /\ Me \in Slot /\ My.way_to_icpt \in BOOLEAN
  BY OsRunning, ProcessFields DEF Trap, Executes
<1>2. Trapped \in Running /\ os.arbitrate \in BOOLEAN
  BY <1>1, TrappedType, QueueOf
<1>3. k \in Running
  BY <1>2, Zenon DEF Running, KernelState
<1> HIDE DEF k
<1>4. KillProcess(k, Me) \in Running
  BY <1>1, <1>3, KillProcessType
<1>5. Arbitrate(KillProcess(k, Me), My.way_to_icpt)
  BY DEF Trap, k
<1>6. cpid' \in Slot /\ cwti_svd' \in BOOLEAN /\ UNCHANGED bcast
  BY <1>1 DEF Trap
<1> QED BY <1>1, <1>4, <1>5, <1>6, ArbitrateType

\* A trap with a handler keeps the type invariant.
LEMMA TrapHandledType ==
  ASSUME TypeInv, NEW entry \in BOOLEAN, TrapHandled(entry)
  PROVE  TypeInv'
<1> DEFINE k == [Trapped EXCEPT !.arbitrate = os.arbitrate]
<1>1. phase = "call" /\ os \in Running /\ Me \in Slot /\ My.way_to_icpt \in BOOLEAN
  BY OsRunning, ProcessFields DEF TrapHandled, Runs, Executes
<1>2. Trapped \in Running /\ os.arbitrate \in BOOLEAN
  BY <1>1, TrappedType, QueueOf
<1>3. k \in Running
  BY <1>2, Zenon DEF Running, KernelState
<1> HIDE DEF k
<1>4. CASE entry
  <2>1. Arbitrate(k, My.way_to_icpt)
    BY <1>4 DEF TrapHandled, k
  <2>2. cpid' \in Slot /\ cwti_svd' \in BOOLEAN /\ UNCHANGED bcast
    BY <1>1, <1>4 DEF TrapHandled
  <2> QED BY <1>1, <1>3, <2>1, <2>2, ArbitrateType
<1>5. CASE ~entry
  <2>1. os' \in KernelState /\ os'.currentpid \in Slot
    BY <1>3, <1>5 DEF TrapHandled, Running, k
  <2> QED BY <1>5, <2>1, Zenon DEF TrapHandled, TypeInv, TypeOK, loop, bcast
<1> QED BY <1>4, <1>5

\* The loop continues as the process that is to execute its intercept
\* routine: a process of the table.
LEMMA InterceptedType ==
  ASSUME NEW k \in Running, NEW c \in Slot
  PROVE  Intercepted(k, c) \in Running
<1> DEFINE t == k.proc[c].icpt_pid
           r == k.proc[t]
           masked == k.proc[c].icpt_signal # S_Wake /\ r.state # "pDead"
           resumed == /\ masked /\ r.sigvec
                      /\ (t = c /\ r.state = "pWaitRead") \/ r.state = "pWaiting"
           b == (t = k.currentpid)
           g1 == [k EXCEPT !.proc[c].way_to_icpt = b]
           g2 == [g1 EXCEPT !.currentpid = t]
           m == IF masked THEN 1 ELSE r.masklevel
           rt == IF ~resumed THEN r.rtestate
                 ELSE IF r.state = "pWaitRead" THEN "pWaitRead" ELSE "pActive"
           st == IF resumed THEN "pActive" ELSE r.state
           r1 == [g2.proc[t] EXCEPT !.masklevel = m]
           r2 == [r1 EXCEPT !.rtestate = rt]
           r3 == [r2 EXCEPT !.state = st]
<1>1. t \in Slot /\ b \in BOOLEAN
  BY ProcessOf, ProcessFields
<1> HIDE DEF t, b
<1>0. r \in Process
  BY <1>1, ProcessOf
<1>2. g1 \in Running
  BY <1>1, UpdateKernel
<1> HIDE DEF g1
<1>3. g2 \in Running
  <2>1. t \in 0 .. MAXPROCESSES
    BY <1>1, ProcTableAssumption DEF Slot
  <2> QED BY <1>1, <1>2, <2>1, Zenon DEF Running, KernelState
<1> HIDE DEF g2
<1>4. g2.proc[t] \in Process
  BY <1>1, <1>3, ProcessOf
<1> HIDE DEF masked, resumed
<1>5. m \in Nat /\ rt \in PState /\ st \in PState
  BY <1>0, ProcessFields DEF PState
<1> HIDE DEF m, rt, st, r
<1>6. r1 \in Process
  BY <1>4, <1>5, UpdateProcess
<1> HIDE DEF r1
<1>7. r2 \in Process
  BY <1>5, <1>6, UpdateProcess
<1> HIDE DEF r2
<1>8. r3 \in Process
  BY <1>5, <1>7, UpdateProcess
<1> HIDE DEF r3
<1>9. [g2 EXCEPT !.proc[t] = r3] \in Running
  BY <1>1, <1>3, <1>8, SetProcess
<1> QED BY <1>9, Zenon DEF Intercepted, r3, r2, r1, st, rt, m, g2, g1, b, resumed, masked, r, t

\* Taking signals after a call keeps the type invariant.
LEMMA TakeSignalsType ==
  ASSUME TypeInv, NEW alarm \in {NoAlarm} \cup AlarmSignals, TakeSignals(alarm)
  PROVE  TypeInv'
<1> DEFINE a == IF alarm = NoAlarm THEN os
                ELSE SendSignal(os, alarm.pid, alarm.signal, FALSE)
           k == IF a.pending /\ a.proc[cpid].masklevel = 0
                THEN MaskOff(a, cpid, TRUE) ELSE a
           on_way == k.proc[cpid].way_to_icpt
           kk == IF on_way THEN Intercepted(k, cpid) ELSE k
<1>1. phase = "signals" /\ os \in Running
  BY OsRunning DEF TakeSignals
<1>2. cpid \in Slot /\ cwti_svd \in BOOLEAN
  BY DEF TypeInv, TypeOK
<1>3. a \in Running
  <2>1. CASE alarm = NoAlarm
    BY <2>1, <1>1
  <2>2. CASE alarm # NoAlarm
    <3>1. alarm \in [pid : UserPid, signal : HostSignals]
      BY <2>2 DEF AlarmSignals
    <3>2. alarm.pid \in UserPid /\ alarm.signal \in HostSignals
      BY <3>1
    <3>3. alarm.pid \in Slot /\ alarm.signal \in Nat
      <4>1. UserPid \subseteq Slot
        BY ProcTableAssumption DEF UserPid, Slot
      <4> QED BY <3>2, <4>1, KernelAssumption, Zenon
    <3> QED BY <2>2, <1>1, <3>3, SendSignalType
  <2> QED BY <2>1, <2>2
<1> HIDE DEF a
<1>4. k \in Running
  BY <1>2, <1>3, MaskType
<1> HIDE DEF k
<1>5. on_way \in BOOLEAN
  BY <1>2, <1>4, ProcessOf, ProcessFields
<1>6. kk \in Running
  BY <1>2, <1>4, InterceptedType
<1> HIDE DEF kk, on_way
<1>7. Arbitrate(kk, on_way)
  BY Zenon DEF TakeSignals, kk, on_way, k, a
<1>8. cpid' \in Slot /\ cwti_svd' \in BOOLEAN /\ UNCHANGED bcast
  BY <1>2 DEF TakeSignals
<1> QED BY <1>5, <1>6, <1>7, <1>8, ArbitrateType

-----------------------------------------------------------------------------
(* do_arbitrate. *)
Scan == [cpid : Slot, spid : Slot, atLeast1 : BOOLEAN,
         chkAll : BOOLEAN, done : BOOLEAN, sleeping : 0 .. MAXPROCESSES]

\* The end of the search keeps the invariant, also when it ends without any
\* process.
LEMMA ChooseType ==
  ASSUME TypeInv, NEW k \in Running, NEW n \in 0 .. MAXPROCESSES,
         Choose(k, n), UNCHANGED <<loop, bcast>>
  PROVE  TypeInv'
<1> DEFINE p == IF n = MAXPROCESSES THEN scan.sleeping ELSE n
           chosen == [k EXCEPT !.currentpid = p]
           dead == IF p = MAXPROCESSES THEN {} ELSE DeadChildren(k, p)
<1>1. scan \in Scan
  BY DEF TypeInv, TypeOK, Scan
<1>2. p \in 0 .. MAXPROCESSES
  BY <1>1 DEF Scan
<1>3. chosen \in KernelState
  <2> HIDE DEF p
  <2> QED BY <1>2, Zenon DEF Running, KernelState
<1>5. ASSUME n # MAXPROCESSES, dead # {}
      PROVE  Unwait(chosen, p, Least(dead)) \in KernelState
  <2>1. p \in Slot
    BY <1>2, <1>5, ProcTableAssumption DEF Slot
  <2>2. dead = DeadChildren(k, p)
    BY <2>1, <1>5
  <2>3. Least(dead) \in Slot
    BY <1>5, <2>1, <2>2, ChildType
  <2>4. chosen \in Running
    <3> HIDE DEF p
    <3> QED BY <1>3, <2>1, Zenon DEF Running, KernelState
  <2> HIDE DEF p, chosen, dead
  <2>5. Reap(chosen, p, Least(dead)) \in Running
    BY <2>1, <2>3, <2>4, ReapType
  <2>6. Unwait(chosen, p, Least(dead)) \in Running
    BY <2>1, <2>5, UpdateKernel DEF Unwait, PState
  <2> QED BY <2>6 DEF Running
<1>6. os' \in KernelState
  <2>1. CASE n = MAXPROCESSES \/ k.proc[n].state # "pWaiting" \/ dead = {}
    BY <2>1, <1>3, Zenon DEF Choose
  <2>2. CASE ~(n = MAXPROCESSES \/ k.proc[n].state # "pWaiting" \/ dead = {})
    BY <2>2, <1>5, Zenon DEF Choose
  <2> QED BY <2>1, <2>2
<1>7. phase' = "switch" /\ scan' \in Scan
  BY ProcTableAssumption, Zero DEF Choose, NoScan, Scan
<1> QED BY <1>6, <1>7, Zenon DEF TypeInv, TypeOK, Phases, Scan, loop, bcast

\* So does a candidate that cannot run.
LEMMA PassType ==
  ASSUME TypeInv, phase = "arbitrate", NEW k \in Running, NEW sc \in Scan, Pass(k, sc),
         UNCHANGED <<loop, bcast>>
  PROVE  TypeInv'
<1>1. CASE k.proc[sc.spid].way_to_icpt
  <2>1. sc.spid \in 0 .. MAXPROCESSES
    BY ProcTableAssumption DEF Scan, Slot
  <2> QED BY <1>1, <2>1, ChooseType DEF Pass
<1> DEFINE kk == [k EXCEPT !.arbitrate = TRUE]
<1>2. kk \in Running
  BY Zenon DEF Running, KernelState
<1> HIDE DEF kk
<1>3. CASE ~k.proc[sc.spid].way_to_icpt /\ sc.done
  <2>1. MAXPROCESSES \in 0 .. MAXPROCESSES
    BY ProcTableAssumption
  <2>2. Choose(kk, MAXPROCESSES)
    BY <1>3 DEF Pass, kk
  <2> QED BY <1>2, <2>1, <2>2, ChooseType
<1>4. CASE ~k.proc[sc.spid].way_to_icpt /\ ~sc.done
  <2>1. os' = kk /\ scan' = sc /\ UNCHANGED phase
    BY <1>4 DEF Pass, kk
  <2>2. os' \in KernelState /\ os'.currentpid \in Slot
    BY <1>2, <2>1 DEF Running
  <2> QED BY <2>1, <2>2, Zenon DEF TypeInv, TypeOK, Scan, loop, bcast
<1> QED BY <1>1, <1>3, <1>4

\* do_arbitrate looks at a process of the table.
LEMMA CandidateType ==
  ASSUME TypeInv, phase = "arbitrate"
  PROVE  Candidate \in Slot /\ Looked \in Scan /\ scan \in Scan
<1>1. scan \in Scan
  BY DEF TypeInv, TypeOK, Scan
<1>2. scan.spid \in Nat /\ scan.spid \in Slot
  BY <1>1, SlotIsNat DEF Scan
<1>3. Above \subseteq Slot
  BY <1>2 DEF Above, Slot
<1>4. Above # {} => Least(Above) \in Slot
  BY <1>3, LeastIsMember, SlotIsNat
<1>5. Candidate \in Slot
  BY <1>2, <1>4, Zero DEF Candidate
<1>6. Looked \in Scan
  <2> DEFINE round == os.arbitrate /\ Candidate = scan.cpid
             again == round /\ ~scan.chkAll /\ scan.atLeast1
             ends == round /\ ~again /\
                     ~(scan.chkAll /\ os.proc[Candidate].state = "pSleeping")
             b == scan.chkAll \/ again
             d == scan.done \/ ends
  <2>1. os.arbitrate \in BOOLEAN /\ b \in BOOLEAN /\ d \in BOOLEAN
    BY <1>1, OsRunning, QueueOf DEF Scan
  <2> HIDE DEF b, d
  <2>2. [scan EXCEPT !.spid = Candidate, !.chkAll = b, !.done = d] \in Scan
    BY <1>1, <1>5, <2>1, Zenon DEF Scan
  <2> QED BY <2>2, Zenon DEF Looked, b, d
<1> QED BY <1>1, <1>5, <1>6

\* Wrapping round at the end of the table keeps the type invariant.
LEMMA ArbWrapType == ASSUME TypeInv, ArbWrap PROVE TypeInv'
<1>1. scan' \in Scan
  BY Zero DEF ArbWrap, TypeInv, TypeOK, Scan
<1> QED BY <1>1, Zenon DEF ArbWrap, TypeInv, TypeOK, Scan, loop, bcast

\* Choosing a process that can run keeps the type invariant.
LEMMA ArbRunnableType == ASSUME TypeInv, ArbRunnable PROVE TypeInv'
<1>1. phase = "arbitrate"
  BY DEF ArbRunnable, Searching
<1>2. os \in Running /\ Candidate \in Slot
  BY <1>1, OsRunning, CandidateType
<1>3. Candidate \in 0 .. MAXPROCESSES
  BY <1>2, ProcTableAssumption DEF Slot
<1> QED BY <1>2, <1>3, ChooseType DEF ArbRunnable

\* Passing a blocked reader keeps the type invariant.
LEMMA ArbWaitReadType == ASSUME TypeInv, ArbWaitRead PROVE TypeInv'
<1> DEFINE x == NextAge(os.proc[Candidate].pW_age)
           k == [os EXCEPT !.proc[Candidate].pW_age = x]
           sc == [Looked EXCEPT !.done = FALSE]
<1>1. phase = "arbitrate"
  BY DEF ArbWaitRead, Searching
<1>2. os \in Running /\ Candidate \in Slot /\ Looked \in Scan
  BY <1>1, OsRunning, CandidateType
<1>3. x \in 0 .. NewAge
  <2>1. os.proc[Candidate].pW_age \in 0 .. NewAge
    BY <1>2, ProcessOf, ProcessFields
  <2> QED BY <2>1, ProcTableAssumption DEF NextAge
<1> HIDE DEF x
<1>4. k \in Running
  BY <1>2, <1>3, UpdateKernel
<1> HIDE DEF k
<1>5. sc \in Scan
  BY <1>2, Zenon DEF Scan
<1> HIDE DEF sc
<1>6. Candidate \in 0 .. MAXPROCESSES
  BY <1>2, ProcTableAssumption DEF Slot
<1>7. UNCHANGED <<loop, bcast>>
  BY DEF ArbWaitRead
<1>8. CASE Aged
  BY <1>8, <1>4, <1>6, <1>7, ChooseType DEF ArbWaitRead, k, x
<1>9. CASE ~Aged
  <2>1. Pass(k, sc)
    BY <1>9, Zenon DEF ArbWaitRead, k, x, sc
  <2> QED BY <1>1, <1>4, <1>5, <1>7, <2>1, PassType
<1> QED BY <1>8, <1>9

\* What happens at a sleeper (queued signals, the network) leaves a well-
\* formed kernel state.
LEMMA PolledType ==
  ASSUME TypeInv, phase = "arbitrate", NEW net \in HostSignals \cup {NoSignal}
  PROVE  Polled(net) \in Running
<1> DEFINE n == Candidate
           aged == [os EXCEPT !.proc[n].pW_age = NewAge]
           k == IF aged.pending /\ aged.proc[n].masklevel = 0
                THEN MaskOff(aged, n, TRUE) ELSE aged
           k0 == [k EXCEPT !.currentpid = 0]
           sent == SendSignal(k0, n, net, TRUE)
<1>1. os \in Running /\ n \in Slot
  BY OsRunning, CandidateType
<1>2. aged \in Running
  <2>1. NewAge \in 0 .. NewAge
    BY ProcTableAssumption
  <2> QED BY <1>1, <2>1, UpdateKernel
<1> HIDE DEF n, aged
<1>3. k \in Running
  BY <1>1, <1>2, MaskType
<1> HIDE DEF k
<1>4. ASSUME NEW kk \in Running, NEW c \in Slot
      PROVE  [kk EXCEPT !.currentpid = c] \in Running
  <2>1. c \in 0 .. MAXPROCESSES
    BY ProcTableAssumption DEF Slot
  <2> QED BY <2>1, Zenon DEF Running, KernelState
<1>5. k0 \in Running
  BY <1>3, <1>4, Zero
<1> HIDE DEF k0
<1>6. sent \in Running
  <2>1. net \in Nat
    BY KernelAssumption DEF NoSignal
  <2> QED BY <1>1, <1>5, <2>1, SendSignalType
<1> HIDE DEF sent
<1>7. [sent EXCEPT !.currentpid = k.currentpid] \in Running
  BY <1>3, <1>4, <1>6, QueueOf
<1> QED BY <1>3, <1>7, Zenon DEF Polled, sent, k0, k, aged, n

\* Looking at a sleeper keeps the type invariant.
LEMMA ArbSleepingType ==
  ASSUME TypeInv, NEW net \in HostSignals \cup {NoSignal}, ArbSleeping(net)
  PROVE  TypeInv'
<1> DEFINE n == Candidate
           sc == [Looked EXCEPT !.atLeast1 = TRUE]
           k == Polled(net)
           x == os.proc[n].pW_age - 1
           k1 == [os EXCEPT !.proc[n].pW_age = x]
           sc2 == [sc EXCEPT !.sleeping = n]
<1>1. phase = "arbitrate" /\ UNCHANGED <<loop, bcast>>
  BY DEF ArbSleeping, Searching
<1>2. os \in Running /\ n \in Slot /\ Looked \in Scan /\ k \in Running
  BY <1>1, OsRunning, CandidateType, PolledType
<1>3. n \in 0 .. MAXPROCESSES
  BY <1>2, ProcTableAssumption DEF Slot
<1>4. sc \in Scan
  BY <1>2, Zenon DEF Scan
<1>5. CASE ~Aged /\ ~sc.chkAll
  <2>1. os.proc[n].pW_age \in 0 .. NewAge /\ os.proc[n].pW_age # 0
    BY <1>2, <1>5, ProcessOf, ProcessFields DEF Aged
  <2>2. x \in 0 .. NewAge
    BY <2>1, ProcTableAssumption
  <2> HIDE DEF x
  <2>3. k1 \in Running
    BY <1>2, <2>2, UpdateKernel
  <2>4. Pass(k1, sc)
    BY <1>5, Zenon DEF ArbSleeping, x
  <2> HIDE DEF k1, sc
  <2> QED BY <1>1, <1>4, <2>3, <2>4, PassType
<1>6. CASE ~(~Aged /\ ~sc.chkAll) /\ k.proc[n].wakeUpTick = "due"
  <2>1. Choose(Awake(k, n), n)
    BY <1>6, Zenon DEF ArbSleeping
  <2>2. Awake(k, n) \in Running
    BY <1>2, UpdateKernel DEF Awake, PState
  <2> QED BY <1>1, <1>3, <2>1, <2>2, ChooseType
<1>7. CASE ~(~Aged /\ ~sc.chkAll) /\ k.proc[n].wakeUpTick # "due"
  <2>1. Pass(k, sc2)
    BY <1>7, Zenon DEF ArbSleeping
  <2> HIDE DEF n, sc
  <2>2. sc2 \in Scan
    BY <1>3, <1>4, Zenon DEF Scan
  <2> HIDE DEF sc2
  <2> QED BY <1>1, <1>2, <2>1, <2>2, PassType
<1> QED BY <1>5, <1>6, <1>7

\* Passing a process that cannot run keeps the type invariant.
LEMMA ArbNotRunnableType == ASSUME TypeInv, ArbNotRunnable PROVE TypeInv'
<1>1. phase = "arbitrate" /\ UNCHANGED <<loop, bcast>> /\ Pass(os, Looked)
  BY DEF ArbNotRunnable, Searching
<1> QED BY <1>1, OsRunning, CandidateType, PassType

\* Going over to the chosen process keeps the type invariant.
LEMMA SwitchType == ASSUME TypeInv, Switch PROVE TypeInv'
<1>1. os \in KernelState /\ Me \in 0 .. MAXPROCESSES
  BY DEF TypeInv, TypeOK, KernelState, Me
<1>2. Me # MAXPROCESSES => Me \in Slot /\ os \in Running
  BY <1>1, ProcTableAssumption DEF Slot, Running, Me
<1> DEFINE gives == Me # MAXPROCESSES /\ ~cwti /\ My.way_to_icpt /\ My.icpt_pid # Me
           n1 == [os EXCEPT !.proc[Me].way_to_icpt = FALSE]
           n2 == [n1 EXCEPT !.currentpid = My.icpt_pid]
<1>3. ASSUME gives PROVE n2 \in Running
  <2>1. Me \in Slot /\ os \in Running
    BY <1>2, <1>3
  <2>2. My.icpt_pid \in Slot
    BY <2>1, ProcessOf, ProcessFields DEF My
  <2>3. My.icpt_pid \in 0 .. MAXPROCESSES
    BY <2>2, ProcTableAssumption DEF Slot
  <2>4. n1 \in Running
    BY <2>1, UpdateKernel
  <2> HIDE DEF n1
  <2> QED BY <2>2, <2>3, <2>4, Zenon DEF Running, KernelState
<1>4. os' \in KernelState
  <2>1. CASE gives
    BY <1>3, <2>1, Zenon DEF Switch, Running
  <2>2. CASE ~gives
    BY <1>1, <2>2, Zenon DEF Switch
  <2> QED BY <2>1, <2>2
<1>5. phase' \notin {"switch", "ended"} => os'.currentpid \in Slot
  <2> SUFFICES ASSUME phase' \notin {"switch", "ended"} PROVE os'.currentpid \in Slot
    OBVIOUS
  <2>1. Me # MAXPROCESSES
    BY DEF Switch
  <2>2. CASE gives
    BY <1>3, <2>2, Zenon DEF Switch, Running
  <2>3. CASE ~gives
    BY <1>2, <2>1, <2>3, Zenon DEF Switch, Running
  <2> QED BY <2>2, <2>3
<1>6. phase' \in Phases
  BY DEF Switch, Phases
<1> QED BY <1>4, <1>5, <1>6, Zero, Zenon DEF Switch, TypeInv, TypeOK, bcast

\* Time that passes keeps the type invariant.
LEMMA TickType == ASSUME TypeInv, NEW p \in Pid, Tick(p) PROVE TypeInv'
<1> DEFINE k == [os EXCEPT !.proc[p].wakeUpTick = "due"]
<1>1. os \in KernelState /\ p \in Slot
  BY SlotIsNat DEF TypeInv, TypeOK
<1>2. os.proc[p] \in Process
  BY <1>1 DEF KernelState
<1>3. [os.proc[p] EXCEPT !.wakeUpTick = "due"] \in Process
  BY <1>2, UpdateProcess DEF WakeUpTick
<1>4. k \in KernelState /\ k.currentpid = os.currentpid
  BY <1>1, <1>3, Zenon DEF KernelState
<1>5. os' = k
  BY DEF Tick
<1> QED BY <1>4, <1>5, Zenon DEF Tick, TypeInv, TypeOK, loop, bcast

\* A key that sends a signal keeps the type invariant.
LEMMA KeyToBufferType ==
  ASSUME TypeInv, NEW p \in UserPid, NEW sig \in HostSignals, KeyToBuffer(p, sig)
  PROVE  TypeInv'
<1>1. p \in Slot /\ sig \in Nat
  BY KernelAssumption, ProcTableAssumption DEF UserPid, Slot
<1>2. os \in Running
  BY OsRunning DEF KeyToBuffer
<1>3. SendSignal(os, p, sig, FALSE) \in Running
  BY <1>1, <1>2, SendSignalType
<1>4. os' \in KernelState /\ os'.currentpid \in Slot
  BY <1>3 DEF KeyToBuffer, Running
<1> QED BY <1>4, Zenon DEF KeyToBuffer, TypeInv, TypeOK, loop, bcast

-----------------------------------------------------------------------------
\* Every step keeps the invariant.
LEMMA NextTypeInv == TypeInv /\ [Next]_vars => TypeInv'
<1> SUFFICES ASSUME TypeInv, [Next]_vars PROVE TypeInv'
  OBVIOUS
<1>1. CASE SystemCall
  BY <1>1, ForkType, ExitType, ChainType, WaitType, SleepType, YieldType, SendType,
     SendAllType, IcptType, RTEType, AstrayType, SigmaskType, ReadType,
     TrapHandledType, PipeType, OtherType, TrapType DEF SystemCall
<1>2. CASE Loop
  BY <1>2, BroadcastType, IdleType, SwitchType, SysTaskType, TakeSignalsType,
     ArbWrapType, ArbRunnableType, ArbWaitReadType, ArbNotRunnableType,
     ArbSleepingType DEF Loop
<1>3. CASE Host
  BY <1>3, TickType, KeyToBufferType DEF Host
<1>4. CASE UNCHANGED vars
  BY <1>4, Zenon DEF vars, TypeInv, TypeOK
<1>5. CASE Ended
  BY <1>4, <1>5 DEF Ended
<1> QED BY <1>1, <1>2, <1>3, <1>4, <1>5 DEF Next

\* Every variable keeps its type: os9exec_loop and do_arbitrate use
\* currentpid, icpt_pid, the children and the queue entries as indices of
\* procs[] and never leave the table, except for the marker MAXPROCESSES that
\* ends the loop.
THEOREM TypeCorrect == Spec => []TypeOK
<1>1. TypeInv => TypeOK
  BY DEF TypeInv
<1> QED BY <1>1, InitTypeInv, NextTypeInv, PTL DEF Spec


-----------------------------------------------------------------------------
(* Signals and masks: whom a function of procstuff.c hands a signal.       *)

\* Who is gone or masks signals is handed none, and stays gone or masked.
Unheard(f, g) ==
  \A q \in Slot : Gone(f[q]) \/ f[q].masklevel > 0 =>
    /\ g[q].signal = f[q].signal
    /\ Gone(g[q]) \/ (~Gone(f[q]) /\ g[q].masklevel > 0)

\* Nobody is handed a signal.
Hushed(f, g) == \A q \in Slot : g[q].signal = f[q].signal

\* Nothing of this has changed.
Untouched(k, m) ==
  /\ m \in Running
  /\ \A q \in Slot : /\ m.proc[q].signal = k.proc[q].signal
                     /\ m.proc[q].masklevel = k.proc[q].masklevel
                     /\ m.proc[q].state = k.proc[q].state

\* One function after the other.
LEMMA UnheardInTurn ==
  ASSUME NEW f, NEW g, NEW h, Unheard(f, g), Unheard(g, h)
  PROVE  Unheard(f, h)
BY Zenon DEF Unheard

\* What leaves signals, masks and states alone.
LEMMA UntouchedUnheard ==
  ASSUME NEW k, NEW m, Untouched(k, m)
  PROVE  Unheard(k.proc, m.proc) /\ Hushed(k.proc, m.proc)
BY DEF Unheard, Hushed, Untouched, Gone

\* Most of the fields of a descriptor have nothing to do with it.
LEMMA UpdateUntouched ==
  ASSUME NEW k \in Running, NEW p \in Slot
  PROVE  /\ \A x \in Slot : Untouched(k, [k EXCEPT !.proc[p].sid = x])
         /\ \A x \in Slot : Untouched(k, [k EXCEPT !.proc[p].cid = x])
         /\ \A x \in BOOLEAN : Untouched(k, [k EXCEPT !.proc[p].sigvec = x])
         /\ \A x \in BOOLEAN : Untouched(k, [k EXCEPT !.proc[p].pwr_brk = x])
         /\ \A x \in BOOLEAN : Untouched(k, [k EXCEPT !.proc[p].way_to_icpt = x])
         /\ \A x \in Slot : Untouched(k, [k EXCEPT !.proc[p].icpt_pid = x])
         /\ \A x \in Nat : Untouched(k, [k EXCEPT !.proc[p].icpt_signal = x])
         /\ \A x \in PState : Untouched(k, [k EXCEPT !.proc[p].rtestate = x])
         /\ \A x \in PState : Untouched(k, [k EXCEPT !.proc[p].saved_state = x])
         /\ \A x \in WakeUpTick : Untouched(k, [k EXCEPT !.proc[p].wakeUpTick = x])
         /\ \A x \in 0 .. NewAge : Untouched(k, [k EXCEPT !.proc[p].pW_age = x])
<1>1. ASSUME NEW x, NEW q \in Slot
      PROVE  /\ [k EXCEPT !.proc[p].sid = x].proc[q].state = k.proc[q].state
             /\ [k EXCEPT !.proc[p].cid = x].proc[q].state = k.proc[q].state
             /\ [k EXCEPT !.proc[p].sigvec = x].proc[q].state = k.proc[q].state
             /\ [k EXCEPT !.proc[p].pwr_brk = x].proc[q].state = k.proc[q].state
             /\ [k EXCEPT !.proc[p].way_to_icpt = x].proc[q].state = k.proc[q].state
             /\ [k EXCEPT !.proc[p].icpt_pid = x].proc[q].state = k.proc[q].state
             /\ [k EXCEPT !.proc[p].icpt_signal = x].proc[q].state = k.proc[q].state
             /\ [k EXCEPT !.proc[p].rtestate = x].proc[q].state = k.proc[q].state
             /\ [k EXCEPT !.proc[p].saved_state = x].proc[q].state = k.proc[q].state
             /\ [k EXCEPT !.proc[p].wakeUpTick = x].proc[q].state = k.proc[q].state
             /\ [k EXCEPT !.proc[p].pW_age = x].proc[q].state = k.proc[q].state
  BY DEF Running, KernelState, Process
<1>2. ASSUME NEW x, NEW q \in Slot
      PROVE  /\ [k EXCEPT !.proc[p].sid = x].proc[q].signal = k.proc[q].signal
             /\ [k EXCEPT !.proc[p].cid = x].proc[q].signal = k.proc[q].signal
             /\ [k EXCEPT !.proc[p].sigvec = x].proc[q].signal = k.proc[q].signal
             /\ [k EXCEPT !.proc[p].pwr_brk = x].proc[q].signal = k.proc[q].signal
             /\ [k EXCEPT !.proc[p].way_to_icpt = x].proc[q].signal = k.proc[q].signal
             /\ [k EXCEPT !.proc[p].icpt_pid = x].proc[q].signal = k.proc[q].signal
             /\ [k EXCEPT !.proc[p].icpt_signal = x].proc[q].signal = k.proc[q].signal
             /\ [k EXCEPT !.proc[p].rtestate = x].proc[q].signal = k.proc[q].signal
             /\ [k EXCEPT !.proc[p].saved_state = x].proc[q].signal = k.proc[q].signal
             /\ [k EXCEPT !.proc[p].wakeUpTick = x].proc[q].signal = k.proc[q].signal
             /\ [k EXCEPT !.proc[p].pW_age = x].proc[q].signal = k.proc[q].signal
  BY DEF Running, KernelState, Process
<1>3. ASSUME NEW x, NEW q \in Slot
      PROVE  /\ [k EXCEPT !.proc[p].sid = x].proc[q].masklevel = k.proc[q].masklevel
             /\ [k EXCEPT !.proc[p].cid = x].proc[q].masklevel = k.proc[q].masklevel
             /\ [k EXCEPT !.proc[p].sigvec = x].proc[q].masklevel = k.proc[q].masklevel
             /\ [k EXCEPT !.proc[p].pwr_brk = x].proc[q].masklevel = k.proc[q].masklevel
             /\ [k EXCEPT !.proc[p].way_to_icpt = x].proc[q].masklevel = k.proc[q].masklevel
             /\ [k EXCEPT !.proc[p].icpt_pid = x].proc[q].masklevel = k.proc[q].masklevel
             /\ [k EXCEPT !.proc[p].icpt_signal = x].proc[q].masklevel = k.proc[q].masklevel
             /\ [k EXCEPT !.proc[p].rtestate = x].proc[q].masklevel = k.proc[q].masklevel
             /\ [k EXCEPT !.proc[p].saved_state = x].proc[q].masklevel = k.proc[q].masklevel
             /\ [k EXCEPT !.proc[p].wakeUpTick = x].proc[q].masklevel = k.proc[q].masklevel
             /\ [k EXCEPT !.proc[p].pW_age = x].proc[q].masklevel = k.proc[q].masklevel
  BY DEF Running, KernelState, Process
<1>4. ASSUME NEW x \in Slot PROVE Untouched(k, [k EXCEPT !.proc[p].sid = x])
  <2> DEFINE m == [k EXCEPT !.proc[p].sid = x]
  <2>1. m \in Running
    BY UpdateKernel
  <2>2. \A q \in Slot : /\ m.proc[q].signal = k.proc[q].signal
                        /\ m.proc[q].masklevel = k.proc[q].masklevel
                        /\ m.proc[q].state = k.proc[q].state
    BY <1>1, <1>2, <1>3
  <2> HIDE DEF m
  <2>3. Untouched(k, m)
    BY <2>1, <2>2 DEF Untouched
  <2> QED BY <2>3 DEF m
<1>5. ASSUME NEW x \in Slot PROVE Untouched(k, [k EXCEPT !.proc[p].cid = x])
  <2> DEFINE m == [k EXCEPT !.proc[p].cid = x]
  <2>1. m \in Running
    BY UpdateKernel
  <2>2. \A q \in Slot : /\ m.proc[q].signal = k.proc[q].signal
                        /\ m.proc[q].masklevel = k.proc[q].masklevel
                        /\ m.proc[q].state = k.proc[q].state
    BY <1>1, <1>2, <1>3
  <2> HIDE DEF m
  <2>3. Untouched(k, m)
    BY <2>1, <2>2 DEF Untouched
  <2> QED BY <2>3 DEF m
<1>6. ASSUME NEW x \in BOOLEAN PROVE Untouched(k, [k EXCEPT !.proc[p].sigvec = x])
  <2> DEFINE m == [k EXCEPT !.proc[p].sigvec = x]
  <2>1. m \in Running
    BY UpdateKernel
  <2>2. \A q \in Slot : /\ m.proc[q].signal = k.proc[q].signal
                        /\ m.proc[q].masklevel = k.proc[q].masklevel
                        /\ m.proc[q].state = k.proc[q].state
    BY <1>1, <1>2, <1>3
  <2> HIDE DEF m
  <2>3. Untouched(k, m)
    BY <2>1, <2>2 DEF Untouched
  <2> QED BY <2>3 DEF m
<1>7. ASSUME NEW x \in BOOLEAN PROVE Untouched(k, [k EXCEPT !.proc[p].pwr_brk = x])
  <2> DEFINE m == [k EXCEPT !.proc[p].pwr_brk = x]
  <2>1. m \in Running
    BY UpdateKernel
  <2>2. \A q \in Slot : /\ m.proc[q].signal = k.proc[q].signal
                        /\ m.proc[q].masklevel = k.proc[q].masklevel
                        /\ m.proc[q].state = k.proc[q].state
    BY <1>1, <1>2, <1>3
  <2> HIDE DEF m
  <2>3. Untouched(k, m)
    BY <2>1, <2>2 DEF Untouched
  <2> QED BY <2>3 DEF m
<1>8. ASSUME NEW x \in BOOLEAN PROVE Untouched(k, [k EXCEPT !.proc[p].way_to_icpt = x])
  <2> DEFINE m == [k EXCEPT !.proc[p].way_to_icpt = x]
  <2>1. m \in Running
    BY UpdateKernel
  <2>2. \A q \in Slot : /\ m.proc[q].signal = k.proc[q].signal
                        /\ m.proc[q].masklevel = k.proc[q].masklevel
                        /\ m.proc[q].state = k.proc[q].state
    BY <1>1, <1>2, <1>3
  <2> HIDE DEF m
  <2>3. Untouched(k, m)
    BY <2>1, <2>2 DEF Untouched
  <2> QED BY <2>3 DEF m
<1>9. ASSUME NEW x \in Slot PROVE Untouched(k, [k EXCEPT !.proc[p].icpt_pid = x])
  <2> DEFINE m == [k EXCEPT !.proc[p].icpt_pid = x]
  <2>1. m \in Running
    BY UpdateKernel
  <2>2. \A q \in Slot : /\ m.proc[q].signal = k.proc[q].signal
                        /\ m.proc[q].masklevel = k.proc[q].masklevel
                        /\ m.proc[q].state = k.proc[q].state
    BY <1>1, <1>2, <1>3
  <2> HIDE DEF m
  <2>3. Untouched(k, m)
    BY <2>1, <2>2 DEF Untouched
  <2> QED BY <2>3 DEF m
<1>10. ASSUME NEW x \in Nat PROVE Untouched(k, [k EXCEPT !.proc[p].icpt_signal = x])
  <2> DEFINE m == [k EXCEPT !.proc[p].icpt_signal = x]
  <2>1. m \in Running
    BY UpdateKernel
  <2>2. \A q \in Slot : /\ m.proc[q].signal = k.proc[q].signal
                        /\ m.proc[q].masklevel = k.proc[q].masklevel
                        /\ m.proc[q].state = k.proc[q].state
    BY <1>1, <1>2, <1>3
  <2> HIDE DEF m
  <2>3. Untouched(k, m)
    BY <2>1, <2>2 DEF Untouched
  <2> QED BY <2>3 DEF m
<1>11. ASSUME NEW x \in PState PROVE Untouched(k, [k EXCEPT !.proc[p].rtestate = x])
  <2> DEFINE m == [k EXCEPT !.proc[p].rtestate = x]
  <2>1. m \in Running
    BY UpdateKernel
  <2>2. \A q \in Slot : /\ m.proc[q].signal = k.proc[q].signal
                        /\ m.proc[q].masklevel = k.proc[q].masklevel
                        /\ m.proc[q].state = k.proc[q].state
    BY <1>1, <1>2, <1>3
  <2> HIDE DEF m
  <2>3. Untouched(k, m)
    BY <2>1, <2>2 DEF Untouched
  <2> QED BY <2>3 DEF m
<1>12. ASSUME NEW x \in PState PROVE Untouched(k, [k EXCEPT !.proc[p].saved_state = x])
  <2> DEFINE m == [k EXCEPT !.proc[p].saved_state = x]
  <2>1. m \in Running
    BY UpdateKernel
  <2>2. \A q \in Slot : /\ m.proc[q].signal = k.proc[q].signal
                        /\ m.proc[q].masklevel = k.proc[q].masklevel
                        /\ m.proc[q].state = k.proc[q].state
    BY <1>1, <1>2, <1>3
  <2> HIDE DEF m
  <2>3. Untouched(k, m)
    BY <2>1, <2>2 DEF Untouched
  <2> QED BY <2>3 DEF m
<1>13. ASSUME NEW x \in WakeUpTick PROVE Untouched(k, [k EXCEPT !.proc[p].wakeUpTick = x])
  <2> DEFINE m == [k EXCEPT !.proc[p].wakeUpTick = x]
  <2>1. m \in Running
    BY UpdateKernel
  <2>2. \A q \in Slot : /\ m.proc[q].signal = k.proc[q].signal
                        /\ m.proc[q].masklevel = k.proc[q].masklevel
                        /\ m.proc[q].state = k.proc[q].state
    BY <1>1, <1>2, <1>3
  <2> HIDE DEF m
  <2>3. Untouched(k, m)
    BY <2>1, <2>2 DEF Untouched
  <2> QED BY <2>3 DEF m
<1>14. ASSUME NEW x \in 0 .. NewAge PROVE Untouched(k, [k EXCEPT !.proc[p].pW_age = x])
  <2> DEFINE m == [k EXCEPT !.proc[p].pW_age = x]
  <2>1. m \in Running
    BY UpdateKernel
  <2>2. \A q \in Slot : /\ m.proc[q].signal = k.proc[q].signal
                        /\ m.proc[q].masklevel = k.proc[q].masklevel
                        /\ m.proc[q].state = k.proc[q].state
    BY <1>1, <1>2, <1>3
  <2> HIDE DEF m
  <2>3. Untouched(k, m)
    BY <2>1, <2>2 DEF Untouched
  <2> QED BY <2>3 DEF m
<1> QED BY <1>4, <1>5, <1>6, <1>7, <1>8, <1>9, <1>10, <1>11, <1>12, <1>13, <1>14

\* Nor have the other globals.
LEMMA GlobalsUntouched ==
  ASSUME NEW k \in Running, NEW m \in Running, m.proc = k.proc
  PROVE  Untouched(k, m)
BY Zenon DEF Untouched

\* One such step after the other.
LEMMA UntouchedInTurn ==
  ASSUME NEW k, NEW m, NEW n, Untouched(k, m), Untouched(m, n)
  PROVE  Untouched(k, n)
BY DEF Untouched

\* The fields of the table when a signal, a mask or a state is set.
LEMMA SetSignalFields ==
  ASSUME NEW k \in Running, NEW p \in Slot, NEW x \in Nat, NEW st \in PState, NEW q \in Slot
  PROVE  /\ LET m == [k EXCEPT !.proc[p].signal = x]
            IN  /\ m.proc[q].signal = IF q = p THEN x ELSE k.proc[q].signal
                /\ m.proc[q].masklevel = k.proc[q].masklevel
                /\ m.proc[q].state = k.proc[q].state
         /\ LET m == [k EXCEPT !.proc[p].masklevel = x]
            IN  /\ m.proc[q].signal = k.proc[q].signal
                /\ m.proc[q].masklevel = IF q = p THEN x ELSE k.proc[q].masklevel
                /\ m.proc[q].state = k.proc[q].state
         /\ LET m == [k EXCEPT !.proc[p].state = st]
            IN  /\ m.proc[q].signal = k.proc[q].signal
                /\ m.proc[q].masklevel = k.proc[q].masklevel
                /\ m.proc[q].state = IF q = p THEN st ELSE k.proc[q].state
BY DEF Running, KernelState, Process

\* An orphan keeps its signal, its mask, and its life if it has one.
LEMMA OrphanHeard ==
  ASSUME NEW r \in Process
  PROVE  /\ Orphan(r).signal = r.signal /\ Orphan(r).masklevel = r.masklevel
         /\ Gone(Orphan(r)) <=> Gone(r)
BY DEF Orphan, Process, Gone

\* kill_process hands nobody a signal and ends at most the one process.
LEMMA KillHeard ==
  ASSUME NEW k \in Running, NEW p \in Slot
  PROVE  LET m == KillProcess(k, p)
         IN  /\ \A q \in Slot : /\ m.proc[q].signal = k.proc[q].signal
                                /\ q # p => m.proc[q].masklevel = k.proc[q].masklevel
                                /\ q # p => (Gone(m.proc[q]) <=> Gone(k.proc[q]))
             /\ Gone(m.proc[p])
<1> DEFINE m == [k EXCEPT !.proc[p].masklevel = 0]
           f == [Orphaned(m, p) EXCEPT ![p].state = AfterDeath(k.proc[p].parent)]
           m2 == [m EXCEPT !.proc = Orphaned(m, p)]
<1>1. m \in Running
  BY UpdateKernel
<1>2. \A q \in Slot : /\ m.proc[q].signal = k.proc[q].signal
                      /\ m.proc[q].masklevel = IF q = p THEN 0 ELSE k.proc[q].masklevel
                      /\ m.proc[q].state = k.proc[q].state
  <2>1. 0 \in Nat /\ "pDead" \in PState
    BY DEF PState
  <2> QED BY <2>1, SetSignalFields
<1> HIDE DEF m
<1>3. Orphaned(m, p) \in [Slot -> Process]
  BY <1>1, OrphanedType
<1>4. ASSUME NEW q \in Slot
      PROVE  /\ Orphaned(m, p)[q].signal = k.proc[q].signal
             /\ q # p => Orphaned(m, p)[q].masklevel = k.proc[q].masklevel
             /\ Gone(Orphaned(m, p)[q]) <=> Gone(k.proc[q])
  <2>1. m.proc[q] \in Process
    BY <1>1, ProcessOf
  <2>2. Orphaned(m, p)[q] \in {m.proc[q], Orphan(m.proc[q])}
    BY DEF Orphaned
  <2>3. Gone(m.proc[q]) <=> Gone(k.proc[q])
    BY <1>2 DEF Gone
  <2> QED BY <1>2, <2>1, <2>2, <2>3, OrphanHeard
<1>5. /\ \A q \in Slot : /\ f[q].signal = k.proc[q].signal
                         /\ q # p => f[q].masklevel = k.proc[q].masklevel
                         /\ q # p => (Gone(f[q]) <=> Gone(k.proc[q]))
      /\ Gone(f[p])
  <2>1. \A q \in Slot : q # p => f[q] = Orphaned(m, p)[q]
    BY <1>3
  <2>2. f[p].signal = Orphaned(m, p)[p].signal
    BY <1>3 DEF Process
  <2>3. Gone(f[p])
    BY <1>3 DEF Process, AfterDeath, Gone
  <2> HIDE DEF f
  <2> QED BY <1>4, <2>1, <2>2, <2>3
<1> HIDE DEF f
<1>6. CASE k.proc[p].state = "pUnused"
  <2>1. KillProcess(k, p) = m
    BY <1>6 DEF KillProcess, m
  <2> QED BY <1>2, <1>6, <2>1 DEF Gone
<1>7. CASE k.proc[p].state = "pDead"
  <2>1. KillProcess(k, p) = m2
    BY <1>7 DEF KillProcess, m, m2
  <2>2. m2.proc = Orphaned(m, p)
    BY <1>1 DEF Running, KernelState
  <2>3. Gone(k.proc[p])
    BY <1>7 DEF Gone
  <2> HIDE DEF m2
  <2> QED BY <1>4, <2>1, <2>2, <2>3
<1>8. CASE k.proc[p].state \notin {"pUnused", "pDead"}
  <2>1. KillProcess(k, p).proc = f
    <3> DEFINE c == IF p = k.currentpid THEN k.proc[p].parent ELSE k.currentpid
               b == IF p = k.currentpid THEN k.proc[p].parent = 0 ELSE k.arbitrate
    <3>1. KillProcess(k, p) = [m EXCEPT !.proc = f, !.currentpid = c, !.arbitrate = b]
      BY <1>8 DEF KillProcess, m, f
    <3> HIDE DEF c, b
    <3>2. [m EXCEPT !.proc = f, !.currentpid = c, !.arbitrate = b].proc = f
      BY <1>1, Zenon DEF Running, KernelState
    <3> QED BY <3>1, <3>2
  <2> QED BY <1>5, <2>1
<1> QED BY <1>6, <1>7, <1>8

\* Storing a signal hands it to nobody yet.
LEMMA EnqueueUntouched ==
  ASSUME NEW k \in Running, NEW t \in Slot, NEW sig \in Nat, NEW async \in BOOLEAN
  PROVE  Untouched(k, Enqueue(k, t, sig, async))
<1> DEFINE b == k.proc[t].pwr_brk \/ (ReadBlocked(k.proc[t]) /\ sig <= Pwr_Signal)
           m == [k EXCEPT !.proc[t].pwr_brk = b]
           q == Store(k.queue, t, sig)
           d == k.pending \/ ~async
           n == [m EXCEPT !.queue = q, !.pending = d]
<1>0. Enqueue(k, t, sig, async) \in Running
  BY EnqueueType
<1>1. b \in BOOLEAN
  BY ProcessOf, ProcessFields DEF ReadBlocked
<1> HIDE DEF b, q, d
<1>2. Untouched(k, m)
  BY <1>1, UpdateUntouched
<1> HIDE DEF m
<1>3. m \in Running /\ n.proc = m.proc
  BY <1>2, Zenon DEF Untouched, Running, KernelState
<1>4. Enqueue(k, t, sig, async) = n \/ Enqueue(k, t, sig, async) = k
  BY Zenon DEF Enqueue, n, m, q, d, b
<1> HIDE DEF n
<1>5. CASE Enqueue(k, t, sig, async) = n
  BY <1>0, <1>2, <1>3, <1>5, GlobalsUntouched, UntouchedInTurn
<1>6. CASE Enqueue(k, t, sig, async) = k
  BY <1>6, <1>0, GlobalsUntouched
<1> QED BY <1>4, <1>5, <1>6

\* The receiver of a signal wakes up; this alone hands it nothing.
LEMMA WakeupHeard ==
  ASSUME NEW k \in Running, NEW t \in Slot, ~Gone(k.proc[t]), NEW sig \in Nat
  PROVE  LET m == Wakeup(k, t, sig)
         IN  \A q \in Slot : /\ m.proc[q].signal = k.proc[q].signal
                             /\ m.proc[q].masklevel = k.proc[q].masklevel
                             /\ Gone(m.proc[q]) <=> Gone(k.proc[q])
<1> DEFINE c == Sender(k, t)
           b == PwrBrkAfter(k.proc[t], sig)
           n1 == [k EXCEPT !.proc[t].pwr_brk = b]
           n2 == [n1 EXCEPT !.proc[c].icpt_pid = t]
           n3 == [n2 EXCEPT !.proc[c].icpt_signal = sig]
           n4 == [n3 EXCEPT !.proc[t].state = "pActive"]
           n5 == [n4 EXCEPT !.proc[t].way_to_icpt = TRUE]
           n6 == [n5 EXCEPT !.proc[c].way_to_icpt = TRUE]
           first == k.currentpid = 0 /\ sig = S_Wake
           n7 == [n6 EXCEPT !.currentpid = IF first THEN t ELSE k.currentpid,
                            !.arbitrate = first]
<1>1. c \in Slot /\ b \in BOOLEAN /\ first \in BOOLEAN
  BY SenderType, ProcessOf, ProcessFields DEF PwrBrkAfter
<1> HIDE DEF c, b, first
<1>2. Untouched(k, n1)
  BY <1>1, UpdateUntouched
<1> HIDE DEF n1
<1>3. Untouched(n1, n2)
  BY <1>1, <1>2, UpdateUntouched DEF Untouched
<1> HIDE DEF n2
<1>4. Untouched(n2, n3)
  BY <1>1, <1>3, UpdateUntouched DEF Untouched
<1> HIDE DEF n3
<1>5. Untouched(k, n3) /\ n3 \in Running
  BY <1>2, <1>3, <1>4, UntouchedInTurn DEF Untouched
<1>6. /\ n4 \in Running
      /\ \A q \in Slot : /\ n4.proc[q].signal = k.proc[q].signal
                         /\ n4.proc[q].masklevel = k.proc[q].masklevel
                         /\ n4.proc[q].state = IF q = t THEN "pActive" ELSE k.proc[q].state
  <2>1. "pActive" \in PState /\ 0 \in Nat
    BY DEF PState
  <2>2. n4 \in Running
    BY <1>5, <2>1, UpdateKernel
  <2>3. \A q \in Slot : /\ n4.proc[q].signal = n3.proc[q].signal
                        /\ n4.proc[q].masklevel = n3.proc[q].masklevel
                        /\ n4.proc[q].state = IF q = t THEN "pActive" ELSE n3.proc[q].state
    BY <1>5, <2>1, SetSignalFields
  <2> HIDE DEF n4
  <2> QED BY <1>5, <2>2, <2>3 DEF Untouched
<1> HIDE DEF n4
<1>7. Untouched(n4, n5) /\ n5 \in Running
  <2>1. Untouched(n4, n5)
    BY <1>6, UpdateUntouched
  <2> QED BY <2>1 DEF Untouched
<1> HIDE DEF n5
<1>8. Untouched(n5, n6)
  BY <1>1, <1>7, UpdateUntouched
<1> HIDE DEF n6
<1>9. Untouched(n6, n7)
  <2>1. n6 \in Running /\ n7.proc = n6.proc
    BY <1>8, Zenon DEF Untouched, Running, KernelState
  <2>2. n7 \in Running
    BY <1>1, <2>1, SetCurrent, QueueOf
  <2> QED BY <2>1, <2>2, GlobalsUntouched
<1> HIDE DEF n7
<1>10. Untouched(n4, n7)
  BY <1>7, <1>8, <1>9, UntouchedInTurn
<1>11. CASE k.proc[t].state # "pSleeping"
  <2>1. Wakeup(k, t, sig) = n3
    BY <1>11, Zenon DEF Wakeup, n3, n2, n1, b, c
  <2> QED BY <1>5, <2>1 DEF Untouched, Gone
<1>12. CASE k.proc[t].state = "pSleeping"
  <2>1. Wakeup(k, t, sig) = n7
    BY <1>12, Zenon DEF Wakeup, n7, n6, n5, n4, n3, n2, n1, b, c, first
  <2> QED BY <1>6, <1>10, <1>12, <2>1 DEF Untouched, Gone
<1> QED BY <1>11, <1>12

\* A delivery changes the signal and the state of its receiver only.
LEMMA InterceptHeard ==
  ASSUME NEW k \in Running, NEW t \in Slot, NEW sig \in Nat, NEW c \in Slot
  PROVE  LET m == Intercept(k, t, sig, c)
         IN  \A q \in Slot : q # t => /\ m.proc[q].signal = k.proc[q].signal
                                      /\ m.proc[q].masklevel = k.proc[q].masklevel
                                      /\ Gone(m.proc[q]) <=> Gone(k.proc[q])
<1> DEFINE first == k.currentpid = 0
           n1 == [k EXCEPT !.proc[c].way_to_icpt = TRUE]
           r == [n1.proc[t] EXCEPT !.way_to_icpt = TRUE, !.signal = sig,
                                   !.icpt_signal = sig,
                                   !.rtestate = ReturnState(k.proc[t]),
                                   !.state = "pActive"]
           n2 == [n1 EXCEPT !.proc[t] = r]
           n3 == [n2 EXCEPT !.currentpid = IF first THEN t ELSE k.currentpid,
                            !.arbitrate = first]
<1>1. Untouched(k, n1)
  BY UpdateUntouched
<1> HIDE DEF n1
<1>2. \A q \in Slot : q # t => n2.proc[q] = n1.proc[q]
  BY <1>1 DEF Untouched, Running, KernelState
<1> HIDE DEF r
<1>3. n3.proc = n2.proc
  BY <1>1, Zenon DEF Untouched, Running, KernelState
<1>4. Intercept(k, t, sig, c) = n3
  BY Zenon DEF Intercept, n3, n2, r, n1, first
<1> HIDE DEF n2, n3
<1> QED BY <1>1, <1>2, <1>3, <1>4 DEF Untouched, Gone

\* So does the death of one without an intercept routine.
LEMMA AbortHeard ==
  ASSUME NEW k \in Running, NEW t \in Slot, NEW sig \in Nat, NEW c \in Slot
  PROVE  LET m == Abort(k, t, sig, c)
         IN  \A q \in Slot : q # t => /\ m.proc[q].signal = k.proc[q].signal
                                      /\ m.proc[q].masklevel = k.proc[q].masklevel
                                      /\ Gone(m.proc[q]) <=> Gone(k.proc[q])
<1> DEFINE n1 == [k EXCEPT !.proc[t].signal = sig]
           n2 == [n1 EXCEPT !.arbitrate = FALSE]
           dead == KillProcess(n2, t)
           n3 == [dead EXCEPT !.proc[t].way_to_icpt = FALSE]
           n4 == [n3 EXCEPT !.proc[c].way_to_icpt = FALSE]
<1>1. /\ n1 \in Running
      /\ \A q \in Slot : q # t => n1.proc[q] = k.proc[q]
  <2>1. n1 \in Running
    BY UpdateKernel
  <2>2. \A q \in Slot : q # t => n1.proc[q] = k.proc[q]
    BY DEF Running, KernelState
  <2> QED BY <2>1, <2>2
<1> HIDE DEF n1
<1>2. n2 \in Running /\ n2.proc = n1.proc
  BY <1>1, Zenon DEF Running, KernelState
<1> HIDE DEF n2
<1>3. /\ dead \in Running
      /\ \A q \in Slot : q # t => /\ dead.proc[q].signal = k.proc[q].signal
                                  /\ dead.proc[q].masklevel = k.proc[q].masklevel
                                  /\ Gone(dead.proc[q]) <=> Gone(k.proc[q])
  <2>1. dead \in Running
    BY <1>2, KillProcessType
  <2>2. \A q \in Slot : /\ dead.proc[q].signal = n2.proc[q].signal
                        /\ q # t => dead.proc[q].masklevel = n2.proc[q].masklevel
                        /\ q # t => (Gone(dead.proc[q]) <=> Gone(n2.proc[q]))
    BY <1>2, KillHeard
  <2> HIDE DEF dead
  <2> QED BY <1>1, <1>2, <2>1, <2>2
<1> HIDE DEF dead
<1>4. Untouched(dead, n3)
  BY <1>3, UpdateUntouched
<1> HIDE DEF n3
<1>5. Untouched(n3, n4)
  <2>1. n3 \in Running
    BY <1>4 DEF Untouched
  <2> QED BY <2>1, UpdateUntouched
<1> HIDE DEF n4
<1>6. Abort(k, t, sig, c) = n4
  BY Zenon DEF Abort, n4, n3, dead, n2, n1
<1> QED BY <1>3, <1>4, <1>5, <1>6 DEF Untouched, Gone

\* send_signal hands nothing to whom masks signals, and nothing to anybody when it is not
\* in the async area.
LEMMA SendSignalHeard ==
  ASSUME NEW k \in Running, NEW t \in Slot, NEW sig \in Nat, NEW async \in BOOLEAN
  PROVE  /\ Unheard(k.proc, SendSignal(k, t, sig, async).proc)
         /\ ~async => Hushed(k.proc, SendSignal(k, t, sig, async).proc)
<1>0. Unheard(k.proc, k.proc) /\ Hushed(k.proc, k.proc)
  BY DEF Unheard, Hushed
<1>1. CASE Gone(k.proc[t]) \/ (sig = S_Wake /\ t = k.currentpid)
  BY <1>0, <1>1 DEF SendSignal
<1>2. CASE ~(Gone(k.proc[t]) \/ (sig = S_Wake /\ t = k.currentpid)) /\ sig = S_Kill
  <2>1. SendSignal(k, t, sig, async) = KillProcess(k, t)
    BY <1>2 DEF SendSignal
  <2> QED BY <2>1, KillHeard DEF Unheard, Hushed
<1>3. CASE /\ ~(Gone(k.proc[t]) \/ (sig = S_Wake /\ t = k.currentpid)) /\ sig # S_Kill
           /\ MustQueue(k, t, async)
  <2>1. SendSignal(k, t, sig, async) = Enqueue(k, t, sig, async)
    BY <1>3, Zenon DEF SendSignal
  <2> QED BY <2>1, EnqueueUntouched, UntouchedUnheard
<1>4. CASE /\ ~(Gone(k.proc[t]) \/ (sig = S_Wake /\ t = k.currentpid)) /\ sig # S_Kill
           /\ ~MustQueue(k, t, async)
  <2> DEFINE c == Sender(k, t)
             w == Wakeup(k, t, sig)
             m == SendSignal(k, t, sig, async)
  <2>1. m = Deliver(k, t, sig) /\ async
    BY <1>4, Zenon DEF SendSignal, MustQueue
  <2>2. ~(k.proc[t].masklevel > 0) /\ ~Gone(k.proc[t])
    BY <1>4 DEF MustQueue
  <2>3. w \in Running /\ c \in Slot
    BY WakeupType, SenderType
  <2>4. m \in {w, Intercept(w, t, sig, c), Abort(w, t, sig, c)}
    BY <2>1, Zenon DEF Deliver
  <2>5. \A q \in Slot : /\ w.proc[q].signal = k.proc[q].signal
                        /\ w.proc[q].masklevel = k.proc[q].masklevel
                        /\ Gone(w.proc[q]) <=> Gone(k.proc[q])
    BY <2>2, WakeupHeard
  <2> HIDE DEF w, c, m
  <2>6. \A q \in Slot : q # t => /\ m.proc[q].signal = k.proc[q].signal
                                 /\ m.proc[q].masklevel = k.proc[q].masklevel
                                 /\ Gone(m.proc[q]) <=> Gone(k.proc[q])
    BY <2>3, <2>4, <2>5, InterceptHeard, AbortHeard
  <2>7. Unheard(k.proc, m.proc)
    BY <2>2, <2>6 DEF Unheard
  <2> QED BY <2>1, <2>7 DEF m
<1> QED BY <1>1, <1>2, <1>3, <1>4

\* Nor does taking a signal out of the queue.
LEMMA TakeSignalHeard ==
  ASSUME NEW k \in Running, NEW async \in BOOLEAN
  PROVE  /\ Unheard(k.proc, TakeSignal(k, async).proc)
         /\ ~async => Hushed(k.proc, TakeSignal(k, async).proc)
<1> DEFINE i == Least(ReadyEntries(k))
           rest == Without(k.queue, i)
           b == k.pending /\ rest # << >>
           taken == [k EXCEPT !.queue = rest, !.pending = b]
<1>1. CASE ReadyEntries(k) = {}
  BY <1>1 DEF TakeSignal, Unheard, Hushed
<1>2. CASE ReadyEntries(k) # {}
  <2>1. i \in 1 .. Len(k.queue) /\ k.queue[i].pid \in Slot /\ k.queue[i].signal \in Nat
    BY <1>2, ReadyEntry
  <2> HIDE DEF i
  <2>2. rest \in Seq(Entry(Nat)) /\ b \in BOOLEAN
    BY <2>1, WithoutType, QueueOf
  <2> HIDE DEF rest, b
  <2>3. taken \in Running /\ taken.proc = k.proc
    <3>1. taken \in Running
      BY <2>2, SetQueue
    <3>2. taken.proc = k.proc
      BY Zenon DEF Running, KernelState
    <3> QED BY <3>1, <3>2
  <2>4. TakeSignal(k, async) = SendSignal(taken, k.queue[i].pid, k.queue[i].signal, async)
    BY <1>2, Zenon DEF TakeSignal, taken, b, rest, i
  <2> HIDE DEF taken
  <2> QED BY <2>1, <2>3, <2>4, SendSignalHeard
<1> QED BY <1>1, <1>2

\* sig_mask hands nobody a signal outside of the async area, and none to those that mask
\* signals in it, if the process it is called for does not.
LEMMA MaskHeard ==
  ASSUME NEW k \in Running, NEW p \in Slot
  PROVE  /\ Hushed(k.proc, MaskOff(k, p, FALSE).proc)
         /\ Hushed(k.proc, MaskUp(k, p, FALSE).proc)
         /\ Hushed(k.proc, MaskDown(k, p, FALSE).proc)
         /\ k.proc[p].masklevel = 0 => Unheard(k.proc, MaskOff(k, p, TRUE).proc)
<1>1. k.proc[p].masklevel + 1 \in Nat /\ OneLess(k.proc[p].masklevel) \in Nat
  BY ProcessOf, ProcessFields DEF OneLess
<1>2. ASSUME NEW x \in Nat
      PROVE  LET m == [k EXCEPT !.proc[p].masklevel = x]
             IN  m \in Running /\ Hushed(k.proc, m.proc)
                   /\ (k.proc[p].masklevel = x => Unheard(k.proc, m.proc))
  <2> DEFINE m == [k EXCEPT !.proc[p].masklevel = x]
  <2>1. "pDead" \in PState
    BY DEF PState
  <2>2. m \in Running
    BY UpdateKernel
  <2>3. \A q \in Slot : /\ m.proc[q].signal = k.proc[q].signal
                        /\ m.proc[q].masklevel = IF q = p THEN x ELSE k.proc[q].masklevel
                        /\ m.proc[q].state = k.proc[q].state
    BY <2>1, SetSignalFields
  <2> HIDE DEF m
  <2>4. Hushed(k.proc, m.proc)
    BY <2>3 DEF Hushed
  <2>5. k.proc[p].masklevel = x => Unheard(k.proc, m.proc)
    BY <2>3 DEF Unheard, Gone
  <2> QED BY <2>2, <2>4, <2>5 DEF m
<1>3. ASSUME NEW x \in Nat
      PROVE  Hushed(k.proc, TakeSignal([k EXCEPT !.proc[p].masklevel = x], FALSE).proc)
  <2> DEFINE m == [k EXCEPT !.proc[p].masklevel = x]
  <2>1. m \in Running /\ Hushed(k.proc, m.proc)
    BY <1>2
  <2> HIDE DEF m
  <2>2. Hushed(m.proc, TakeSignal(m, FALSE).proc)
    BY <2>1, TakeSignalHeard
  <2>3. Hushed(k.proc, TakeSignal(m, FALSE).proc)
    BY <2>1, <2>2 DEF Hushed
  <2> QED BY <2>3 DEF m
<1>4. ASSUME k.proc[p].masklevel = 0 PROVE Unheard(k.proc, MaskOff(k, p, TRUE).proc)
  <2> DEFINE m == [k EXCEPT !.proc[p].masklevel = 0]
  <2>1. m \in Running /\ Unheard(k.proc, m.proc)
    BY <1>2, <1>4
  <2>2. MaskOff(k, p, TRUE) = TakeSignal(m, TRUE)
    BY DEF MaskOff
  <2> HIDE DEF m
  <2>3. Unheard(m.proc, TakeSignal(m, TRUE).proc)
    BY <2>1, TakeSignalHeard
  <2> QED BY <2>1, <2>2, <2>3, UnheardInTurn
<1> QED BY <1>1, <1>3, <1>4 DEF MaskOff, MaskUp, MaskDown

\* The states in which nobody has been handed a signal since k0.
Still(k0) == {k \in Running : \A q \in Slot : k.proc[q].signal \in {0, k0.proc[q].signal}}

\* Whatever hands nobody a signal leads from such a state to such a state.
LEMMA HushedStill ==
  ASSUME NEW k0, NEW k \in Still(k0), NEW m \in Running, Hushed(k.proc, m.proc)
  PROVE  m \in Still(k0)
BY DEF Still, Hushed

\* So do the updates that do not set a signal, and the end of a signal.
LEMMA UpdateStill ==
  ASSUME NEW k0, NEW k \in Still(k0), NEW p \in Slot
  PROVE  /\ k \in Running
         /\ \A x \in PState : [k EXCEPT !.proc[p].state = x] \in Still(k0)
         /\ \A x \in Slot : [k EXCEPT !.proc[p].sid = x] \in Still(k0)
         /\ \A x \in Slot : [k EXCEPT !.proc[p].cid = x] \in Still(k0)
         /\ \A x \in BOOLEAN : [k EXCEPT !.proc[p].sigvec = x] \in Still(k0)
         /\ \A x \in BOOLEAN : [k EXCEPT !.proc[p].way_to_icpt = x] \in Still(k0)
         /\ \A x \in PState : [k EXCEPT !.proc[p].saved_state = x] \in Still(k0)
         /\ \A x \in WakeUpTick : [k EXCEPT !.proc[p].wakeUpTick = x] \in Still(k0)
         /\ \A x \in 0 .. NewAge : [k EXCEPT !.proc[p].pW_age = x] \in Still(k0)
         /\ \A x \in Nat : [k EXCEPT !.proc[p].masklevel = x] \in Still(k0)
         /\ [k EXCEPT !.proc[p].signal = 0] \in Still(k0)
<1>1. k \in Running
  BY DEF Still
<1>2. ASSUME NEW m, Untouched(k, m) PROVE m \in Still(k0)
  BY <1>1, <1>2, UntouchedUnheard, HushedStill DEF Untouched
<1>3. /\ \A x \in Slot : [k EXCEPT !.proc[p].sid = x] \in Still(k0)
      /\ \A x \in Slot : [k EXCEPT !.proc[p].cid = x] \in Still(k0)
      /\ \A x \in BOOLEAN : [k EXCEPT !.proc[p].sigvec = x] \in Still(k0)
      /\ \A x \in BOOLEAN : [k EXCEPT !.proc[p].way_to_icpt = x] \in Still(k0)
      /\ \A x \in PState : [k EXCEPT !.proc[p].saved_state = x] \in Still(k0)
      /\ \A x \in WakeUpTick : [k EXCEPT !.proc[p].wakeUpTick = x] \in Still(k0)
      /\ \A x \in 0 .. NewAge : [k EXCEPT !.proc[p].pW_age = x] \in Still(k0)
  BY <1>1, <1>2, UpdateUntouched
<1>4. ASSUME NEW x \in PState PROVE [k EXCEPT !.proc[p].state = x] \in Still(k0)
  <2> DEFINE m == [k EXCEPT !.proc[p].state = x]
  <2>1. m \in Running
    BY <1>1, UpdateKernel
  <2>2. \A q \in Slot : m.proc[q].signal = k.proc[q].signal
    <3>1. 0 \in Nat
      OBVIOUS
    <3> QED BY <1>1, <3>1, SetSignalFields
  <2> HIDE DEF m
  <2>3. m \in Still(k0)
    BY <2>1, <2>2, HushedStill DEF Hushed
  <2> QED BY <2>3 DEF m
<1>5. ASSUME NEW x \in Nat PROVE [k EXCEPT !.proc[p].masklevel = x] \in Still(k0)
  <2> DEFINE m == [k EXCEPT !.proc[p].masklevel = x]
  <2>1. m \in Running
    BY <1>1, UpdateKernel
  <2>2. \A q \in Slot : m.proc[q].signal = k.proc[q].signal
    <3>1. "pDead" \in PState
      BY DEF PState
    <3> QED BY <1>1, <3>1, SetSignalFields
  <2> HIDE DEF m
  <2>3. m \in Still(k0)
    BY <2>1, <2>2, HushedStill DEF Hushed
  <2> QED BY <2>3 DEF m
<1>6. [k EXCEPT !.proc[p].signal = 0] \in Still(k0)
  <2> DEFINE m == [k EXCEPT !.proc[p].signal = 0]
  <2>1. m \in Running
    BY <1>1, UpdateKernel
  <2>2. \A q \in Slot : m.proc[q].signal = IF q = p THEN 0 ELSE k.proc[q].signal
    <3>1. 0 \in Nat /\ "pDead" \in PState
      BY DEF PState
    <3> QED BY <1>1, <3>1, SetSignalFields
  <2> HIDE DEF m
  <2>3. m \in Still(k0)
    BY <2>1, <2>2 DEF Still
  <2> QED BY <2>3 DEF m
<1> QED BY <1>1, <1>3, <1>4, <1>5, <1>6

\* So does what changes the other globals.
LEMMA GlobalsStill ==
  ASSUME NEW k0, NEW k \in Still(k0)
  PROVE  /\ \A b \in BOOLEAN : [k EXCEPT !.arbitrate = b] \in Still(k0)
         /\ \A c \in Slot : [k EXCEPT !.currentpid = c] \in Still(k0)
         /\ \A c \in Slot, b \in BOOLEAN :
              [k EXCEPT !.currentpid = c, !.arbitrate = b] \in Still(k0)
<1>1. k \in Running
  BY DEF Still
<1>2. ASSUME NEW m \in Running, m.proc = k.proc PROVE m \in Still(k0)
  BY <1>2, HushedStill DEF Hushed
<1>3. ASSUME NEW b \in BOOLEAN PROVE [k EXCEPT !.arbitrate = b] \in Still(k0)
  <2>1. [k EXCEPT !.arbitrate = b] \in Running
    BY <1>1, Zenon DEF Running, KernelState
  <2>2. [k EXCEPT !.arbitrate = b].proc = k.proc
    BY <1>1, Zenon DEF Running, KernelState
  <2> QED BY <1>2, <2>1, <2>2
<1>4. ASSUME NEW c \in Slot PROVE [k EXCEPT !.currentpid = c] \in Still(k0)
  <2>0. c \in 0 .. MAXPROCESSES
    BY ProcTableAssumption DEF Slot
  <2>1. [k EXCEPT !.currentpid = c] \in Running
    BY <1>1, <2>0, Zenon DEF Running, KernelState
  <2>2. [k EXCEPT !.currentpid = c].proc = k.proc
    BY <1>1, Zenon DEF Running, KernelState
  <2> QED BY <1>2, <2>1, <2>2
<1>5. ASSUME NEW c \in Slot, NEW b \in BOOLEAN
      PROVE  [k EXCEPT !.currentpid = c, !.arbitrate = b] \in Still(k0)
  <2>1. [k EXCEPT !.currentpid = c, !.arbitrate = b] \in Running
    BY <1>1, SetCurrent
  <2>2. [k EXCEPT !.currentpid = c, !.arbitrate = b].proc = k.proc
    BY <1>1, Zenon DEF Running, KernelState
  <2> QED BY <1>2, <2>1, <2>2
<1> QED BY <1>3, <1>4, <1>5

\* So do the functions of procstuff.c outside of the async area.
LEMMA FunctionsStill ==
  ASSUME NEW k0, NEW k \in Still(k0), NEW p \in Slot
  PROVE  /\ KillProcess(k, p) \in Still(k0)
         /\ MaskOff(k, p, FALSE) \in Still(k0)
         /\ MaskUp(k, p, FALSE) \in Still(k0)
         /\ MaskDown(k, p, FALSE) \in Still(k0)
         /\ \A sig \in Nat : SendSignal(k, p, sig, FALSE) \in Still(k0)
<1>1. k \in Running
  BY DEF Still
<1>2. KillProcess(k, p) \in Still(k0)
  <2>1. Hushed(k.proc, KillProcess(k, p).proc)
    BY <1>1, KillHeard DEF Hushed
  <2> QED BY <1>1, <2>1, KillProcessType, HushedStill
<1>3. /\ MaskOff(k, p, FALSE) \in Still(k0)
      /\ MaskUp(k, p, FALSE) \in Still(k0)
      /\ MaskDown(k, p, FALSE) \in Still(k0)
  BY <1>1, MaskHeard, MaskType, HushedStill
<1>4. \A sig \in Nat : SendSignal(k, p, sig, FALSE) \in Still(k0)
  BY <1>1, SendSignalHeard, SendSignalType, HushedStill
<1> QED BY <1>2, <1>3, <1>4

\* So does reporting a dead child,
LEMMA ReapStill ==
  ASSUME NEW k0, NEW k \in Still(k0), NEW p \in Slot, NEW q \in Slot
  PROVE  Reap(k, p, q) \in Still(k0)
<1> DEFINE before == {b \in Slot : b \in ChildList(k, p) /\ k.proc[b].sid = q}
<1>0. k \in Running /\ k.proc[q].sid \in Slot
  <2>1. k \in Running
    BY DEF Still
  <2> QED BY <2>1, ProcessOf, ProcessFields
<1>1. AssignNewChild(k, p, q) \in Still(k0)
  <2>1. [k EXCEPT !.proc[p].cid = k.proc[q].sid] \in Still(k0)
    BY <1>0, UpdateStill
  <2>2. ASSUME before # {}
        PROVE  [k EXCEPT !.proc[Least(before)].sid = k.proc[q].sid] \in Still(k0)
    <3>1. before \subseteq Slot
      OBVIOUS
    <3> HIDE DEF before
    <3>2. Least(before) \in Slot
      BY <2>2, <3>1, LeastIsMember, SlotIsNat
    <3> QED BY <1>0, <3>2, UpdateStill
  <2> QED BY <2>1, <2>2, Zenon DEF AssignNewChild
<1> QED BY <1>1, UpdateStill DEF Reap, PState

\* and making a new process.
LEMMA NewProcessStill ==
  ASSUME NEW k0, NEW k \in Still(k0), NEW q \in Slot, NEW p \in Slot
  PROVE  NewProcess(k, q, p) \in Still(k0)
<1> DEFINE f == k.proc
           r == [f[q] EXCEPT
                  !.state = "pStart", !.code = TRUE, !.parent = p, !.sid = 0,
                  !.cid = 0, !.signal = 0, !.sigvec = FALSE, !.masklevel = 0,
                  !.pwr_brk = FALSE, !.wakeUpTick = "due", !.pW_age = 0]
           m == NewProcess(k, q, p)
<1>1. k \in Running /\ m \in Running
  BY NewProcessType DEF Still
<1>2. m = [k EXCEPT !.proc[q] = r]
  BY Zenon DEF NewProcess
<1>3. r.signal = 0
  <2>1. f[q] \in Process
    BY <1>1, ProcessOf
  <2> HIDE DEF f
  <2> QED BY <2>1, Zenon DEF Process
<1> HIDE DEF r, m
<1>4. \A x \in Slot : m.proc[x] = IF x = q THEN r ELSE k.proc[x]
  BY <1>1, <1>2 DEF Running, KernelState
<1>5. m \in Still(k0)
  BY <1>1, <1>3, <1>4 DEF Still
<1> QED BY <1>5 DEF m

-----------------------------------------------------------------------------
(* What each step hands to whom. *)

\* Who lives and masks signals is handed none by this step.
Heard == \A q \in Slot : ~Gone(os.proc[q]) /\ os.proc[q].masklevel > 0 =>
                           os'.proc[q].signal \in {0, os.proc[q].signal}

\* A call that hands nobody a signal.
LEMMA ReturnHeard == ASSUME NEW k \in Still(os), Return(k) PROVE Heard
BY DEF Return, Still, Heard

\* The end of an iteration hands nobody a signal.
LEMMA ArbitrateHeard ==
  ASSUME NEW k \in Running, NEW on_way, Arbitrate(k, on_way),
         \A q \in Slot : ~Gone(os.proc[q]) /\ os.proc[q].masklevel > 0 =>
                           k.proc[q].signal \in {0, os.proc[q].signal}
  PROVE  Heard
<1> DEFINE b == k.arbitrate \/ k.proc[k.currentpid].state \in {"pSysTask", "pUnused", "pWaitRead"}
           m == [k EXCEPT !.arbitrate = b]
<1>1. m.proc = k.proc
  <2> HIDE DEF b
  <2> QED BY Zenon DEF Running, KernelState
<1>2. os' = m \/ os' = k
  BY Zenon DEF Arbitrate, m, b
<1> HIDE DEF m
<1>3. os'.proc = k.proc
  BY <1>1, <1>2
<1> QED BY <1>3 DEF Heard

\* The state a call begins in.
LEMMA TrappedStill ==
  ASSUME TypeInv, phase = "call"
  PROVE  /\ Trapped \in Still(os) /\ os \in Still(os) /\ os \in Running /\ Me \in Slot
         /\ My \in Process
<1> DEFINE x == IF My.way_to_icpt THEN 1 ELSE os.proc[Me].masklevel
           n1 == [os EXCEPT !.proc[Me].masklevel = x]
           n2 == [n1 EXCEPT !.proc[Me].way_to_icpt = FALSE]
           n3 == [n2 EXCEPT !.arbitrate = FALSE]
<1>1. os \in Running /\ Me \in Slot /\ x \in Nat /\ My \in Process
  BY OsRunning, ProcessOf, ProcessFields
<1>2. os \in Still(os)
  BY <1>1 DEF Still
<1> HIDE DEF x
<1>3. n1 \in Still(os)
  BY <1>1, <1>2, UpdateStill
<1> HIDE DEF n1
<1>4. n2 \in Still(os)
  BY <1>1, <1>3, UpdateStill
<1> HIDE DEF n2
<1>5. n3 \in Still(os)
  BY <1>4, GlobalsStill
<1>6. Trapped = n3
  BY Zenon DEF Trapped, n3, n2, n1, x
<1> QED BY <1>1, <1>2, <1>5, <1>6

\* The calls that go on to Return with nothing but such functions.
LEMMA CallsHeard ==
  ASSUME TypeInv,
         \/ F_Exit \/ F_RTE_Astray \/ Pipe \/ Other
         \/ \E ok \in BOOLEAN : F_Chain(ok)
         \/ \E t \in Targets, sig \in Signals : F_Send(t, sig)
         \/ \E set \in BOOLEAN : F_Icpt(set)
         \/ \E level \in {"off", "up", "down"} : F_Sigmask(level)
         \/ \E sig \in Signals : F_SendAll(sig)
  PROVE  Heard
<1>1. phase = "call"
  BY DEF F_Exit, F_RTE_Astray, Pipe, Other, F_Chain, F_Send, F_Icpt, F_Sigmask, F_SendAll,
         Runs, Executes
<1>2. Trapped \in Still(os) /\ Me \in Slot
  BY <1>1, TrappedStill
<1>3. ASSUME F_Exit PROVE Heard
  <2>1. [Trapped EXCEPT !.arbitrate = TRUE] \in Still(os)
    BY <1>2, GlobalsStill
  <2>2. KillProcess(MaskOff([Trapped EXCEPT !.arbitrate = TRUE], Me, FALSE), Me) \in Still(os)
    BY <1>2, <2>1, FunctionsStill
  <2> QED BY <1>3, <2>2, ReturnHeard DEF F_Exit
<1>4. ASSUME F_RTE_Astray PROVE Heard
  <2>1. MaskOff(KillProcess(Trapped, Me), Me, FALSE) \in Still(os)
    BY <1>2, FunctionsStill
  <2> QED BY <1>4, <2>1, ReturnHeard DEF F_RTE_Astray
<1>5. ASSUME Pipe PROVE Heard
  <2>1. [Trapped EXCEPT !.proc[Me].state = "pSysTask"] \in Still(os)
    BY <1>2, UpdateStill DEF PState
  <2> QED BY <1>5, <2>1, ReturnHeard DEF Pipe
<1>6. ASSUME Other PROVE Heard
  BY <1>2, <1>6, ReturnHeard DEF Other
<1>7. ASSUME NEW ok \in BOOLEAN, F_Chain(ok) PROVE Heard
  <2> DEFINE k == [Trapped EXCEPT !.proc[Me].sigvec = FALSE]
  <2>1. k \in Still(os)
    BY <1>2, UpdateStill
  <2>2. Return(IF ok THEN k ELSE KillProcess(k, Me))
    BY <1>7 DEF F_Chain
  <2> HIDE DEF k
  <2>3. (IF ok THEN k ELSE KillProcess(k, Me)) \in Still(os)
    BY <1>2, <2>1, FunctionsStill
  <2> QED BY <2>2, <2>3, ReturnHeard
<1>8. ASSUME NEW t \in Targets, NEW sig \in Signals, F_Send(t, sig) PROVE Heard
  <2>1. t \in Slot /\ sig \in Nat
    BY KernelAssumption, SlotIsNat
  <2>2. SendSignal(Trapped, t, sig, FALSE) \in Still(os)
    BY <1>2, <2>1, FunctionsStill
  <2> QED BY <1>8, <2>2, ReturnHeard DEF F_Send
<1>9. ASSUME NEW set \in BOOLEAN, F_Icpt(set) PROVE Heard
  <2>1. [Trapped EXCEPT !.proc[Me].sigvec = set] \in Still(os)
    BY <1>2, UpdateStill
  <2> QED BY <1>9, <2>1, ReturnHeard DEF F_Icpt
<1>10. ASSUME NEW level \in {"off", "up", "down"}, F_Sigmask(level) PROVE Heard
  <2>1. /\ MaskOff(Trapped, Me, FALSE) \in Still(os)
        /\ MaskUp(Trapped, Me, FALSE) \in Still(os)
        /\ MaskDown(Trapped, Me, FALSE) \in Still(os)
    BY <1>2, FunctionsStill
  <2>2. \E k \in Still(os) : Return(k)
    BY <1>10, <2>1 DEF F_Sigmask
  <2> QED BY <2>2, ReturnHeard
<1>11. ASSUME NEW sig \in Signals, F_SendAll(sig) PROVE Heard
  BY <1>2, <1>11 DEF F_SendAll, Still, Heard
<1> QED BY <1>3, <1>4, <1>5, <1>6, <1>7, <1>8, <1>9, <1>10, <1>11

\* F$Fork hands nobody a signal.
LEMMA ForkHeard == ASSUME TypeInv, NEW ok \in BOOLEAN, F_Fork(ok) PROVE Heard
<1> DEFINE k == Trapped
           q == Least(FreeSlots(k))
           new == NewProcess(k, q, Me)
           failed == [new EXCEPT !.proc[q].state = "pUnused"]
<1>1. phase = "call"
  BY DEF F_Fork, Runs, Executes
<1>2. k \in Still(os) /\ k \in Running /\ Me \in Slot
  BY <1>1, TrappedStill, TrappedType
<1> HIDE DEF k
<1>3. ASSUME FreeSlots(k) # {}
      PROVE  StartChild(new, Me, q) \in Still(os) /\ failed \in Still(os)
  <2>1. q \in Slot
    BY <1>2, <1>3, FreeSlotType
  <2> HIDE DEF q
  <2>2. new \in Still(os)
    BY <1>2, <2>1, NewProcessStill
  <2> HIDE DEF new
  <2>3. failed \in Still(os)
    BY <2>1, <2>2, UpdateStill DEF PState
  <2>4. StartChild(new, Me, q) \in Still(os)
    <3> DEFINE head == new.proc[Me].cid
               sib == IF head # q THEN head ELSE new.proc[q].sid
               n1 == [new EXCEPT !.proc[q].state = "pActive"]
               n2 == [n1 EXCEPT !.proc[q].sid = sib]
               n3 == [n2 EXCEPT !.proc[Me].cid = q]
               n4 == [n3 EXCEPT !.currentpid = q, !.arbitrate = TRUE]
    <3>1. sib \in Slot
      <4>1. new \in Running
        BY <2>2 DEF Still
      <4> QED BY <4>1, <1>2, <2>1, ProcessOf, ProcessFields
    <3> HIDE DEF sib
    <3>2. n1 \in Still(os)
      BY <2>1, <2>2, UpdateStill DEF PState
    <3> HIDE DEF n1
    <3>3. n2 \in Still(os)
      BY <2>1, <3>1, <3>2, UpdateStill
    <3> HIDE DEF n2
    <3>4. n3 \in Still(os)
      BY <1>2, <2>1, <3>3, UpdateStill
    <3> HIDE DEF n3
    <3>5. n4 \in Still(os)
      BY <2>1, <3>4, GlobalsStill
    <3> QED BY <3>5, Zenon DEF StartChild, n4, n3, n2, n1, sib
  <2> QED BY <2>3, <2>4
<1>4. CASE FreeSlots(k) = {}
  BY <1>2, <1>4, ReturnHeard, Zenon DEF F_Fork, k
<1>5. CASE FreeSlots(k) # {} /\ ok
  <2>1. Return(StartChild(new, Me, q))
    BY <1>5, Zenon DEF F_Fork, k
  <2> QED BY <1>3, <1>5, <2>1, ReturnHeard
<1>6. CASE FreeSlots(k) # {} /\ ~ok
  <2>1. Return(failed)
    BY <1>6, Zenon DEF F_Fork, k
  <2> QED BY <1>3, <1>6, <2>1, ReturnHeard
<1> QED BY <1>4, <1>5, <1>6

\* Nor does F$Wait.
LEMMA WaitHeard == ASSUME TypeInv, F_Wait PROVE Heard
<1> DEFINE k == MaskOff(Trapped, Me, FALSE)
           dead == DeadChildren(k, Me) \cap UserPid
           live == LiveChildren(k, Me) \cap UserPid
           n1 == [k EXCEPT !.proc[Me].state = "pWaiting"]
           n2 == [n1 EXCEPT !.currentpid = Least(live), !.arbitrate = TRUE]
<1>1. phase = "call"
  BY DEF F_Wait, Runs, Executes
<1>2. Me \in Slot /\ k \in Still(os) /\ k \in Running
  <2>1. Trapped \in Still(os) /\ Me \in Slot
    BY <1>1, TrappedStill
  <2> QED BY <2>1, FunctionsStill DEF Still
<1> HIDE DEF k
<1>3. CASE dead # {}
  <2>1. Return(Reap(k, Me, Least(dead)))
    BY <1>3, Zenon DEF F_Wait, k
  <2>2. Least(dead) \in Slot
    BY <1>2, <1>3, ChildType
  <2> HIDE DEF dead
  <2> QED BY <1>2, <2>1, <2>2, ReapStill, ReturnHeard
<1>4. CASE dead = {} /\ live # {}
  <2>1. Return(n2)
    BY <1>4, Zenon DEF F_Wait, k
  <2>2. Least(live) \in Slot
    BY <1>2, <1>4, ChildType
  <2> HIDE DEF live
  <2>3. n1 \in Still(os)
    BY <1>2, UpdateStill DEF PState
  <2> HIDE DEF n1
  <2>4. n2 \in Still(os)
    BY <2>2, <2>3, GlobalsStill
  <2> HIDE DEF n2
  <2> QED BY <2>1, <2>4, ReturnHeard
<1>5. CASE dead = {} /\ live = {}
  <2>1. Return(k)
    BY <1>5, Zenon DEF F_Wait, k
  <2> QED BY <1>2, <2>1, ReturnHeard
<1> QED BY <1>3, <1>4, <1>5

\* Nor F$Sleep,
LEMMA SleepHeard == ASSUME TypeInv, NEW wake \in SleepTimes, F_Sleep(wake) PROVE Heard
<1> DEFINE k == MaskOff(Trapped, Me, FALSE)
           n1 == [k EXCEPT !.arbitrate = TRUE]
           n2 == [n1 EXCEPT !.proc[Me].wakeUpTick = wake]
           n3 == [n2 EXCEPT !.proc[Me].state = "pSleeping"]
<1>1. phase = "call"
  BY DEF F_Sleep, Runs, Executes
<1>2. Me \in Slot /\ k \in Still(os) /\ wake \in WakeUpTick
  <2>1. Trapped \in Still(os) /\ Me \in Slot
    BY <1>1, TrappedStill
  <2>2. wake \in WakeUpTick
    BY KernelAssumption DEF WakeUpTick
  <2> QED BY <2>1, <2>2, FunctionsStill
<1> HIDE DEF k
<1>3. n1 \in Still(os)
  BY <1>2, GlobalsStill
<1> HIDE DEF n1
<1>4. n2 \in Still(os)
  BY <1>2, <1>3, UpdateStill
<1> HIDE DEF n2
<1>5. n3 \in Still(os)
  BY <1>2, <1>4, UpdateStill DEF PState
<1> HIDE DEF n3
<1>6. Return(k) \/ Return(n3)
  BY Zenon DEF F_Sleep, n3, n2, n1, k
<1> QED BY <1>2, <1>5, <1>6, ReturnHeard

\* nor yielding,
LEMMA YieldHeard == ASSUME TypeInv, F_Yield PROVE Heard
<1> DEFINE k == MaskOff(Trapped, Me, FALSE)
           b == k.arbitrate \/ ~k.proc[Me].way_to_icpt
           n == [k EXCEPT !.arbitrate = b]
<1>1. phase = "call"
  BY DEF F_Yield, Runs, Executes
<1>2. k \in Still(os) /\ k \in Running /\ Me \in Slot
  <2>1. Trapped \in Still(os) /\ Me \in Slot
    BY <1>1, TrappedStill
  <2> QED BY <2>1, FunctionsStill DEF Still
<1> HIDE DEF k
<1>3. b \in BOOLEAN
  BY <1>2, QueueOf
<1> HIDE DEF b
<1>4. n \in Still(os)
  BY <1>2, <1>3, GlobalsStill
<1>5. Return(n)
  BY Zenon DEF F_Yield, n, b, k
<1> QED BY <1>4, <1>5, ReturnHeard

\* nor the end of an intercept routine,
LEMMA RTEHeard == ASSUME TypeInv, F_RTE PROVE Heard
<1> DEFINE broken == My.signal \in 1 .. Pwr_Signal
           blocked == My.rtestate = "pWaitRead"
           b == blocked /\ ~broken
           st == IF blocked /\ broken THEN "pActive" ELSE My.rtestate
           n1 == [Trapped EXCEPT !.proc[Me].signal = 0]
           n2 == [n1 EXCEPT !.arbitrate = b]
           n3 == [n2 EXCEPT !.proc[Me].state = st]
<1>1. phase = "call"
  BY DEF F_RTE, Runs, Executes
<1>2. Me \in Slot /\ Trapped \in Still(os) /\ My \in Process
  BY <1>1, TrappedStill
<1>3. st \in PState /\ b \in BOOLEAN
  BY <1>2, ProcessFields DEF PState
<1> HIDE DEF st, b
<1>4. n1 \in Still(os)
  BY <1>2, UpdateStill
<1> HIDE DEF n1
<1>5. n2 \in Still(os)
  BY <1>3, <1>4, GlobalsStill
<1> HIDE DEF n2
<1>6. n3 \in Still(os)
  BY <1>2, <1>3, <1>5, UpdateStill
<1> HIDE DEF n3
<1>7. MaskOff(n3, Me, FALSE) \in Still(os)
  BY <1>2, <1>6, FunctionsStill
<1>8. Return(MaskOff(n3, Me, FALSE))
  BY Zenon DEF F_RTE, n3, n2, n1, st, b
<1> QED BY <1>7, <1>8, ReturnHeard

\* nor a read.
LEMMA ReadHeard == ASSUME TypeInv, NEW ready \in BOOLEAN, Read(ready) PROVE Heard
<1> DEFINE k == IF Runs THEN Trapped ELSE [os EXCEPT !.arbitrate = FALSE]
           r == k.proc[Me]
           st == IF r.state = "pWaitRead" THEN r.saved_state ELSE r.state
           n1 == [k EXCEPT !.proc[Me].state = st]
           n2 == [k EXCEPT !.proc[Me].saved_state = st]
           n3 == [n2 EXCEPT !.proc[Me].state = "pWaitRead"]
           n4 == [n3 EXCEPT !.arbitrate = TRUE]
<1>1. phase = "call"
  BY DEF Read, Runs, Executes
<1>2. Me \in Slot /\ k \in Still(os) /\ k \in Running
  <2>1. Trapped \in Still(os) /\ os \in Still(os) /\ Me \in Slot
    BY <1>1, TrappedStill
  <2>2. [os EXCEPT !.arbitrate = FALSE] \in Still(os)
    BY <2>1, GlobalsStill
  <2> QED BY <2>1, <2>2 DEF Still
<1> HIDE DEF k
<1>3. st \in PState
  BY <1>2, ProcessOf, ProcessFields
<1> HIDE DEF st
<1>4. n1 \in Still(os) /\ n2 \in Still(os)
  BY <1>2, <1>3, UpdateStill
<1> HIDE DEF n1, n2
<1>5. n3 \in Still(os)
  BY <1>2, <1>4, UpdateStill DEF PState
<1> HIDE DEF n3
<1>6. n4 \in Still(os)
  BY <1>5, GlobalsStill
<1>7. Return(n1) \/ Return(n4)
  BY Zenon DEF Read, n4, n3, n2, n1, st, k
<1> HIDE DEF n4
<1> QED BY <1>4, <1>6, <1>7, ReturnHeard

\* Nor does a trap, whether it is handled or fatal.
LEMMA TrapHeard ==
  ASSUME TypeInv, Trap \/ \E entry \in BOOLEAN : TrapHandled(entry)
  PROVE  Heard
<1> DEFINE k == [Trapped EXCEPT !.arbitrate = os.arbitrate]
<1>1. phase = "call"
  BY DEF Trap, TrapHandled, Runs, Executes
<1>2. Me \in Slot /\ k \in Still(os)
  <2>1. Trapped \in Still(os) /\ Me \in Slot /\ os.arbitrate \in BOOLEAN
    BY <1>1, TrappedStill, QueueOf
  <2> QED BY <2>1, GlobalsStill
<1>3. ASSUME NEW m \in Still(os), NEW on_way, Arbitrate(m, on_way) PROVE Heard
  BY <1>3, ArbitrateHeard DEF Still
<1>4. CASE Trap
  <2>1. Arbitrate(KillProcess(k, Me), My.way_to_icpt)
    BY <1>4 DEF Trap
  <2> HIDE DEF k
  <2> QED BY <1>2, <1>3, <2>1, FunctionsStill
<1>5. ASSUME NEW entry \in BOOLEAN, TrapHandled(entry) PROVE Heard
  <2>1. CASE entry
    <3>1. Arbitrate(k, My.way_to_icpt)
      BY <1>5, <2>1 DEF TrapHandled
    <3> HIDE DEF k
    <3> QED BY <1>2, <1>3, <3>1
  <2>2. CASE ~entry
    <3>1. os' = k
      BY <1>5, <2>2 DEF TrapHandled
    <3> HIDE DEF k
    <3> QED BY <1>2, <3>1 DEF Still, Heard
  <2> QED BY <2>1, <2>2
<1> QED BY <1>4, <1>5

\* Nor a system task or an iteration in which nothing runs.
LEMMA IdleHeard ==
  ASSUME TypeInv, Idle \/ \E done \in BOOLEAN : SysTask(done)
  PROVE  Heard
<1> DEFINE x == IF My.way_to_icpt THEN 1 ELSE os.proc[Me].masklevel
<1>1. phase = "call"
  BY DEF Idle, SysTask
<1>2. Me \in Slot /\ os \in Still(os) /\ os \in Running /\ My \in Process
  BY <1>1, TrappedStill
<1>3. x \in Nat
  BY <1>2, ProcessOf, ProcessFields
<1>4. ASSUME NEW m \in Still(os), NEW on_way, Arbitrate(m, on_way) PROVE Heard
  BY <1>4, ArbitrateHeard DEF Still
<1>5. CASE Idle
  <2> DEFINE n == [os EXCEPT !.proc[Me].masklevel = x]
  <2>1. Arbitrate(n, My.way_to_icpt)
    BY <1>5, Zenon DEF Idle
  <2> HIDE DEF x
  <2>2. n \in Still(os)
    BY <1>2, <1>3, UpdateStill
  <2> HIDE DEF n
  <2> QED BY <1>4, <2>1, <2>2
<1>6. ASSUME NEW done \in BOOLEAN, SysTask(done) PROVE Heard
  <2> DEFINE st == IF done THEN "pActive" ELSE os.proc[Me].state
             n1 == [os EXCEPT !.arbitrate = TRUE]
             n2 == [n1 EXCEPT !.proc[Me].masklevel = x]
             n3 == [n2 EXCEPT !.proc[Me].state = st]
  <2>1. Arbitrate(n3, My.way_to_icpt)
    BY <1>6, Zenon DEF SysTask
  <2>2. st \in PState
    BY <1>2, ProcessOf, ProcessFields DEF PState
  <2> HIDE DEF x, st
  <2>3. n1 \in Still(os)
    BY <1>2, GlobalsStill
  <2> HIDE DEF n1
  <2>4. n2 \in Still(os)
    BY <1>2, <1>3, <2>3, UpdateStill
  <2> HIDE DEF n2
  <2>5. n3 \in Still(os)
    BY <1>2, <2>2, <2>4, UpdateStill
  <2> HIDE DEF n3
  <2> QED BY <1>4, <2>1, <2>5
<1> QED BY <1>5, <1>6

\* The signals of a broadcast, of the keyboard and of the network are queued.
LEMMA HostHeard ==
  ASSUME TypeInv,
         \/ Broadcast
         \/ \E p \in UserPid, sig \in HostSignals : KeyToBuffer(p, sig)
  PROVE  Heard
<1>1. os \in Running /\ os \in Still(os)
  <2>1. os \in Running
    BY OsRunning DEF Broadcast, KeyToBuffer
  <2> QED BY <2>1 DEF Still
<1>2. CASE Broadcast
  <2>1. next \in 1 .. MAXPROCESSES /\ bsig \in Nat
    BY DEF TypeInv, TypeOK
  <2>2. CASE next = MAXPROCESSES
    <3>1. os' = os
      BY <1>2, <2>2 DEF Broadcast
    <3> QED BY <3>1 DEF Heard
  <2>3. CASE next # MAXPROCESSES
    <3>1. next \in Slot
      BY <2>1, <2>3, ProcTableAssumption DEF Slot
    <3>2. SendSignal(os, next, bsig, FALSE) \in Still(os)
      BY <1>1, <2>1, <3>1, FunctionsStill
    <3>3. os' = os \/ os' = SendSignal(os, next, bsig, FALSE)
      BY <1>2, <2>3 DEF Broadcast
    <3> QED BY <1>1, <3>2, <3>3 DEF Still, Heard
  <2> QED BY <2>2, <2>3
<1>3. ASSUME NEW p \in UserPid, NEW sig \in HostSignals, KeyToBuffer(p, sig) PROVE Heard
  <2>1. p \in Slot /\ sig \in Nat
    BY KernelAssumption, ProcTableAssumption DEF UserPid, Slot
  <2>2. SendSignal(os, p, sig, FALSE) \in Still(os)
    BY <1>1, <2>1, FunctionsStill
  <2>3. os' = SendSignal(os, p, sig, FALSE)
    BY <1>3 DEF KeyToBuffer
  <2> QED BY <2>2, <2>3 DEF Still, Heard
<1> QED BY <1>2, <1>3

\* On its way to an intercept routine, a process keeps its signal.
LEMMA InterceptedHushed ==
  ASSUME NEW k \in Running, NEW c \in Slot
  PROVE  Hushed(k.proc, Intercepted(k, c).proc)
<1> DEFINE t == k.proc[c].icpt_pid
           r == k.proc[t]
           masked == k.proc[c].icpt_signal # S_Wake /\ r.state # "pDead"
           resumed == /\ masked /\ r.sigvec
                      /\ (t = c /\ r.state = "pWaitRead") \/ r.state = "pWaiting"
           b == (t = k.currentpid)
           g1 == [k EXCEPT !.proc[c].way_to_icpt = b]
           g2 == [g1 EXCEPT !.currentpid = t]
           m == IF masked THEN 1 ELSE r.masklevel
           rt == IF ~resumed THEN r.rtestate
                 ELSE IF r.state = "pWaitRead" THEN "pWaitRead" ELSE "pActive"
           st == IF resumed THEN "pActive" ELSE r.state
           s == [g2.proc[t] EXCEPT !.masklevel = m, !.rtestate = rt, !.state = st]
           g3 == [g2 EXCEPT !.proc[t] = s]
<1>1. t \in Slot /\ b \in BOOLEAN
  BY ProcessOf, ProcessFields
<1>2. Intercepted(k, c) = g3
  BY Zenon DEF Intercepted
<1> HIDE DEF t, b
<1>3. Untouched(k, g1) /\ g1 \in Running
  <2>1. Untouched(k, g1)
    BY <1>1, UpdateUntouched
  <2> QED BY <2>1 DEF Untouched
<1> HIDE DEF g1, m, rt, st
<1>4. g2 \in Running /\ g2.proc = g1.proc
  <2>1. t \in 0 .. MAXPROCESSES
    BY <1>1, ProcTableAssumption DEF Slot
  <2> QED BY <1>1, <1>3, <2>1, Zenon DEF Running, KernelState
<1> HIDE DEF g2
<1>5. s.signal = g2.proc[t].signal
  <2>1. g2.proc[t] \in Process
    BY <1>1, <1>4, ProcessOf
  <2> QED BY <2>1, Zenon DEF Process
<1> HIDE DEF s
<1>6. \A q \in Slot : g3.proc[q] = IF q = t THEN s ELSE g2.proc[q]
  BY <1>1, <1>4 DEF Running, KernelState
<1> HIDE DEF g3
<1>7. \A q \in Slot : g3.proc[q].signal = k.proc[q].signal
  BY <1>3, <1>4, <1>5, <1>6 DEF Untouched
<1> QED BY <1>2, <1>7 DEF Hushed

\* After a call signals are handed out, but not to those that mask them: the queue is
\* looked at only if the caller does not.
LEMMA TakeSignalsHeard ==
  ASSUME TypeInv, NEW alarm \in {NoAlarm} \cup AlarmSignals, TakeSignals(alarm)
  PROVE  Heard
<1> DEFINE a == IF alarm = NoAlarm THEN os
                ELSE SendSignal(os, alarm.pid, alarm.signal, FALSE)
           k == IF a.pending /\ a.proc[cpid].masklevel = 0
                THEN MaskOff(a, cpid, TRUE) ELSE a
           on_way == k.proc[cpid].way_to_icpt
           kk == IF on_way THEN Intercepted(k, cpid) ELSE k
<1>1. phase = "signals" /\ os \in Running
  BY OsRunning DEF TakeSignals
<1>2. cpid \in Slot
  BY DEF TypeInv, TypeOK
<1>3. a \in Running /\ Unheard(os.proc, a.proc)
  <2>1. CASE alarm = NoAlarm
    BY <2>1, <1>1 DEF Unheard
  <2>2. CASE alarm # NoAlarm
    <3>1. alarm \in [pid : UserPid, signal : HostSignals]
      BY <2>2 DEF AlarmSignals
    <3>2. alarm.pid \in UserPid /\ alarm.signal \in HostSignals
      BY <3>1
    <3>3. alarm.pid \in Slot /\ alarm.signal \in Nat
      <4>1. UserPid \subseteq Slot
        BY ProcTableAssumption DEF UserPid, Slot
      <4> QED BY <3>2, <4>1, KernelAssumption, Zenon
    <3> QED BY <2>2, <1>1, <3>3, SendSignalType, SendSignalHeard
  <2> QED BY <2>1, <2>2
<1> HIDE DEF a
<1>4. k \in Running /\ Unheard(os.proc, k.proc)
  <2>1. CASE a.pending /\ a.proc[cpid].masklevel = 0
    <3>1. k = MaskOff(a, cpid, TRUE)
      BY <2>1
    <3>2. k \in Running
      BY <1>2, <1>3, <3>1, MaskType
    <3>3. Unheard(a.proc, k.proc)
      BY <1>2, <1>3, <2>1, <3>1, MaskHeard
    <3> QED BY <1>3, <3>2, <3>3, UnheardInTurn
  <2>2. CASE ~(a.pending /\ a.proc[cpid].masklevel = 0)
    BY <1>3, <2>2
  <2> QED BY <2>1, <2>2
<1> HIDE DEF k
<1>5. kk \in Running /\ Hushed(k.proc, kk.proc)
  <2>1. Hushed(k.proc, k.proc)
    BY DEF Hushed
  <2> QED BY <2>1, <1>2, <1>4, InterceptedType, InterceptedHushed
<1> HIDE DEF kk, on_way
<1>6. Arbitrate(kk, on_way)
  BY Zenon DEF TakeSignals, kk, on_way, k, a
<1>7. ASSUME NEW q \in Slot, ~Gone(os.proc[q]) /\ os.proc[q].masklevel > 0
      PROVE  kk.proc[q].signal \in {0, os.proc[q].signal}
  BY <1>4, <1>5, <1>7 DEF Unheard, Hushed
<1> QED BY <1>5, <1>6, <1>7, ArbitrateHeard

-----------------------------------------------------------------------------
(* do_arbitrate: only the signals it takes from the queue are handed out.  *)

\* Who lives and masks signals has been handed none so far.
Quiet(k) == \A q \in Slot : ~Gone(os.proc[q]) /\ os.proc[q].masklevel > 0 =>
                              k.proc[q].signal \in {0, os.proc[q].signal}

\* The choice of a process hands nobody a signal,
LEMMA ChooseHeard ==
  ASSUME TypeInv, NEW k \in Running, NEW n \in 0 .. MAXPROCESSES, Choose(k, n), Quiet(k)
  PROVE  Heard
<1> DEFINE p == IF n = MAXPROCESSES THEN scan.sleeping ELSE n
           chosen == [k EXCEPT !.currentpid = p]
           dead == IF p = MAXPROCESSES THEN {} ELSE DeadChildren(k, p)
<1>1. scan.sleeping \in 0 .. MAXPROCESSES
  BY DEF TypeInv, TypeOK, Scan
<1>2. p \in 0 .. MAXPROCESSES
  BY <1>1
<1>3. chosen.proc = k.proc
  <2> HIDE DEF p
  <2> QED BY Zenon DEF Running, KernelState
<1>4. CASE n = MAXPROCESSES \/ k.proc[n].state # "pWaiting" \/ dead = {}
  <2>1. os' = chosen
    BY <1>4, Zenon DEF Choose
  <2> HIDE DEF chosen
  <2> QED BY <1>3, <2>1 DEF Quiet, Heard
<1>5. CASE ~(n = MAXPROCESSES \/ k.proc[n].state # "pWaiting" \/ dead = {})
  <2> DEFINE d == Least(dead)
  <2>1. os' = Unwait(chosen, p, d)
    BY <1>5, Zenon DEF Choose
  <2>2. p \in Slot
    BY <1>2, <1>5, ProcTableAssumption DEF Slot
  <2>3. dead = DeadChildren(k, p)
    BY <2>2, <1>5
  <2>4. d \in Slot
    BY <1>5, <2>2, <2>3, ChildType
  <2>5. chosen \in Running
    <3> HIDE DEF p
    <3> QED BY <1>2, <2>2, Zenon DEF Running, KernelState
  <2> HIDE DEF d, p, dead, chosen
  <2>6. chosen \in Still(chosen)
    BY <2>5 DEF Still
  <2>7. Reap(chosen, p, d) \in Still(chosen)
    BY <2>2, <2>4, <2>6, ReapStill
  <2>8. os' \in Still(chosen)
    BY <2>1, <2>2, <2>7, UpdateStill DEF Unwait, PState
  <2> QED BY <1>3, <2>8 DEF Still, Quiet, Heard
<1> QED BY <1>4, <1>5

\* nor does passing over one.
LEMMA PassHeard ==
  ASSUME TypeInv, NEW k \in Running, NEW sc \in Scan, Pass(k, sc), Quiet(k)
  PROVE  Heard
<1> DEFINE kk == [k EXCEPT !.arbitrate = TRUE]
<1>1. kk \in Running /\ kk.proc = k.proc
  BY Zenon DEF Running, KernelState
<1>2. Quiet(kk)
  BY <1>1 DEF Quiet
<1>3. MAXPROCESSES \in 0 .. MAXPROCESSES /\ sc.spid \in 0 .. MAXPROCESSES
  BY ProcTableAssumption DEF Scan, Slot
<1>4. \/ Choose(k, sc.spid)
      \/ Choose(kk, MAXPROCESSES)
      \/ os' = kk
  BY Zenon DEF Pass
<1> HIDE DEF kk
<1> QED BY <1>1, <1>2, <1>3, <1>4, ChooseHeard DEF Quiet, Heard

\* What happens at a sleeper hands a signal at most to those that do not mask them.
LEMMA PolledHeard ==
  ASSUME TypeInv, phase = "arbitrate", NEW net \in HostSignals \cup {NoSignal}
  PROVE  Quiet(Polled(net))
<1> DEFINE n == Candidate
           aged == [os EXCEPT !.proc[n].pW_age = NewAge]
           k == IF aged.pending /\ aged.proc[n].masklevel = 0
                THEN MaskOff(aged, n, TRUE) ELSE aged
           k0 == [k EXCEPT !.currentpid = 0]
           sent == SendSignal(k0, n, net, TRUE)
           back == [sent EXCEPT !.currentpid = k.currentpid]
<1>1. os \in Running /\ n \in Slot /\ NewAge \in 0 .. NewAge
  BY OsRunning, CandidateType, ProcTableAssumption
<1> HIDE DEF n
<1>2. Untouched(os, aged)
  BY <1>1, UpdateUntouched
<1>3. aged \in Running /\ Unheard(os.proc, aged.proc)
  BY <1>2, UntouchedUnheard DEF Untouched
<1> HIDE DEF aged
<1>4. k \in Running /\ Unheard(os.proc, k.proc)
  <2>1. CASE aged.pending /\ aged.proc[n].masklevel = 0
    <3>1. k = MaskOff(aged, n, TRUE)
      BY <2>1
    <3>2. k \in Running
      BY <1>1, <1>3, <3>1, MaskType
    <3>3. Unheard(aged.proc, k.proc)
      BY <1>1, <1>3, <2>1, <3>1, MaskHeard
    <3> QED BY <1>3, <3>2, <3>3, UnheardInTurn
  <2>2. CASE ~(aged.pending /\ aged.proc[n].masklevel = 0)
    BY <1>3, <2>2
  <2> QED BY <2>1, <2>2
<1> HIDE DEF k
<1>5. k0 \in Running /\ k0.proc = k.proc
  <2>1. 0 \in 0 .. MAXPROCESSES
    BY ProcTableAssumption
  <2> QED BY <1>4, <2>1, Zero, Zenon DEF Running, KernelState
<1> HIDE DEF k0
<1>6. sent \in Running /\ Unheard(k.proc, sent.proc)
  <2>1. net \in Nat
    BY KernelAssumption DEF NoSignal
  <2>2. sent \in Running
    BY <1>1, <1>5, <2>1, SendSignalType
  <2>3. Unheard(k0.proc, sent.proc)
    BY <1>1, <1>5, <2>1, SendSignalHeard
  <2> QED BY <1>5, <2>2, <2>3
<1> HIDE DEF sent
<1>7. back.proc = sent.proc
  BY <1>6, Zenon DEF Running, KernelState
<1> HIDE DEF back
<1>8. Unheard(os.proc, k.proc) /\ Unheard(os.proc, back.proc)
  <2>1. Unheard(os.proc, sent.proc)
    BY <1>4, <1>6, UnheardInTurn
  <2> QED BY <1>4, <1>7, <2>1
<1>9. Polled(net) = k \/ Polled(net) = back
  BY Zenon DEF Polled, back, sent, k0, k, aged, n
<1> QED BY <1>8, <1>9 DEF Unheard, Quiet

\* Looking at a sleeper,
LEMMA ArbSleepingHeard ==
  ASSUME TypeInv, NEW net \in HostSignals \cup {NoSignal}, ArbSleeping(net)
  PROVE  Heard
<1> DEFINE n == Candidate
           sc == [Looked EXCEPT !.atLeast1 = TRUE]
           k == Polled(net)
           x == os.proc[n].pW_age - 1
           k1 == [os EXCEPT !.proc[n].pW_age = x]
           sc2 == [sc EXCEPT !.sleeping = n]
<1>1. phase = "arbitrate"
  BY DEF ArbSleeping, Searching
<1>2. os \in Running /\ n \in Slot /\ Looked \in Scan /\ k \in Running /\ Quiet(k)
  BY <1>1, OsRunning, CandidateType, PolledType, PolledHeard
<1>3. n \in 0 .. MAXPROCESSES
  BY <1>2, ProcTableAssumption DEF Slot
<1>4. sc \in Scan
  BY <1>2, Zenon DEF Scan
<1>5. CASE ~Aged /\ ~sc.chkAll
  <2>1. os.proc[n].pW_age \in 0 .. NewAge /\ os.proc[n].pW_age # 0
    BY <1>2, <1>5, ProcessOf, ProcessFields DEF Aged
  <2>2. x \in 0 .. NewAge
    BY <2>1, ProcTableAssumption
  <2>3. Pass(k1, sc)
    BY <1>5, Zenon DEF ArbSleeping, x
  <2> HIDE DEF x
  <2>4. Untouched(os, k1)
    BY <1>2, <2>2, UpdateUntouched
  <2> HIDE DEF k1, sc
  <2>5. k1 \in Running /\ Quiet(k1)
    BY <2>4 DEF Untouched, Quiet
  <2> QED BY <1>4, <2>3, <2>5, PassHeard
<1>6. CASE ~(~Aged /\ ~sc.chkAll) /\ k.proc[n].wakeUpTick = "due"
  <2>1. Choose(Awake(k, n), n)
    BY <1>6, Zenon DEF ArbSleeping
  <2>2. k \in Still(k)
    BY <1>2 DEF Still
  <2>3. Awake(k, n) \in Still(k)
    BY <1>2, <2>2, UpdateStill DEF Awake, PState
  <2>4. Awake(k, n) \in Running /\ Quiet(Awake(k, n))
    BY <1>2, <2>3 DEF Still, Quiet
  <2> QED BY <1>3, <2>1, <2>4, ChooseHeard
<1>7. CASE ~(~Aged /\ ~sc.chkAll) /\ k.proc[n].wakeUpTick # "due"
  <2>1. Pass(k, sc2)
    BY <1>7, Zenon DEF ArbSleeping
  <2> HIDE DEF n, sc
  <2>2. sc2 \in Scan
    BY <1>3, <1>4, Zenon DEF Scan
  <2> HIDE DEF sc2, k
  <2> QED BY <1>2, <2>1, <2>2, PassHeard
<1> QED BY <1>5, <1>6, <1>7

\* at a process that can run, that reads, or that cannot run hands nobody one.
LEMMA ArbitrationHeard ==
  ASSUME TypeInv, ArbWrap \/ ArbRunnable \/ ArbWaitRead \/ ArbNotRunnable
  PROVE  Heard
<1>1. phase = "arbitrate"
  BY DEF ArbWrap, ArbRunnable, ArbWaitRead, ArbNotRunnable, Searching
<1>2. os \in Running /\ Candidate \in Slot /\ Looked \in Scan /\ Quiet(os)
  BY <1>1, OsRunning, CandidateType DEF Quiet
<1>3. Candidate \in 0 .. MAXPROCESSES
  BY <1>2, ProcTableAssumption DEF Slot
<1>4. CASE ArbWrap
  BY <1>4 DEF ArbWrap, Heard
<1>5. CASE ArbRunnable
  BY <1>2, <1>3, <1>5, ChooseHeard DEF ArbRunnable
<1>6. CASE ArbWaitRead
  <2> DEFINE x == NextAge(os.proc[Candidate].pW_age)
             k == [os EXCEPT !.proc[Candidate].pW_age = x]
             sc == [Looked EXCEPT !.done = FALSE]
  <2>1. x \in 0 .. NewAge
    <3>1. os.proc[Candidate].pW_age \in 0 .. NewAge
      BY <1>2, ProcessOf, ProcessFields
    <3> QED BY <3>1, ProcTableAssumption DEF NextAge
  <2>2. Choose(k, Candidate) \/ Pass(k, sc)
    BY <1>6, Zenon DEF ArbWaitRead
  <2> HIDE DEF x
  <2>3. Untouched(os, k)
    BY <1>2, <2>1, UpdateUntouched
  <2> HIDE DEF k
  <2>4. k \in Running /\ Quiet(k)
    BY <2>3 DEF Untouched, Quiet
  <2>5. sc \in Scan
    BY <1>2, Zenon DEF Scan
  <2> HIDE DEF sc
  <2> QED BY <1>3, <2>2, <2>4, <2>5, ChooseHeard, PassHeard
<1>7. CASE ArbNotRunnable
  BY <1>2, <1>7, PassHeard DEF ArbNotRunnable
<1> QED BY <1>4, <1>5, <1>6, <1>7

\* Going over to the chosen process and time that passes hand nobody a signal.
LEMMA SwitchHeard ==
  ASSUME TypeInv, Switch \/ \E p \in Pid : Tick(p)
  PROVE  Heard
<1>1. os \in KernelState /\ Me \in 0 .. MAXPROCESSES
  BY DEF TypeInv, TypeOK, KernelState, Me
<1>2. ASSUME os'.proc = os.proc PROVE Heard
  BY <1>2 DEF Heard
<1>3. CASE Switch
  <2> DEFINE gives == Me # MAXPROCESSES /\ ~cwti /\ My.way_to_icpt /\ My.icpt_pid # Me
             n1 == [os EXCEPT !.proc[Me].way_to_icpt = FALSE]
             n2 == [n1 EXCEPT !.currentpid = My.icpt_pid]
  <2>1. CASE gives
    <3>1. os' = n2
      BY <1>3, <2>1, Zenon DEF Switch
    <3>2. Me \in Slot /\ os \in Running
      BY <1>1, <2>1, ProcTableAssumption DEF Slot, Running, Me
    <3>3. Untouched(os, n1)
      BY <3>2, UpdateUntouched
    <3>4. n1 \in Running
      BY <3>3 DEF Untouched
    <3> HIDE DEF n1
    <3>5. n2.proc = n1.proc
      BY <3>4, Zenon DEF Running, KernelState
    <3> HIDE DEF n2
    <3> QED BY <3>1, <3>3, <3>5 DEF Untouched, Heard
  <2>2. CASE ~gives
    <3>1. os' = os
      BY <1>3, <2>2, Zenon DEF Switch
    <3> QED BY <1>2, <3>1
  <2> QED BY <2>1, <2>2
<1>4. ASSUME NEW p \in Pid, Tick(p) PROVE Heard
  <2> DEFINE r == [os.proc[p] EXCEPT !.wakeUpTick = "due"]
             k == [os EXCEPT !.proc[p] = r]
  <2>1. os' = k
    BY <1>4, Zenon DEF Tick
  <2>2. p \in Slot /\ os.proc[p] \in Process
    BY <1>1, SlotIsNat DEF KernelState
  <2>3. r.signal = os.proc[p].signal
    BY <2>2, Zenon DEF Process
  <2> HIDE DEF r
  <2>4. \A q \in Slot : k.proc[q] = IF q = p THEN r ELSE os.proc[q]
    BY <1>1, <2>2 DEF KernelState
  <2> HIDE DEF k
  <2> QED BY <2>1, <2>3, <2>4 DEF Heard
<1> QED BY <1>3, <1>4

\* No step hands a signal to a process that lives and masks signals.
LEMMA NextHeard == TypeInv /\ [Next]_vars => Heard
<1> SUFFICES ASSUME TypeInv, [Next]_vars PROVE Heard
  OBVIOUS
<1>1. CASE SystemCall
  BY <1>1, CallsHeard, ForkHeard, WaitHeard, SleepHeard, YieldHeard, RTEHeard, ReadHeard,
     TrapHeard DEF SystemCall
<1>2. CASE Loop
  BY <1>2, HostHeard, IdleHeard, SwitchHeard, TakeSignalsHeard, ArbitrationHeard,
     ArbSleepingHeard DEF Loop
<1>3. CASE Host
  BY <1>3, HostHeard, SwitchHeard DEF Host
<1>4. CASE Ended \/ UNCHANGED vars
  BY <1>4 DEF Ended, vars, Heard
<1> QED BY <1>1, <1>2, <1>3, <1>4 DEF Next

-----------------------------------------------------------------------------
\* MaskHonoured for any number of processes, any signals and any calls: a process that
\* masks signals (F$SigMask, or an intercept routine that runs) is handed none.
THEOREM MasksHonoured == Spec => MaskHonoured
<1>1. UserPid \subseteq Slot
  BY ProcTableAssumption DEF UserPid, Slot
<1>2. TypeInv /\ [Next]_vars =>
        [\A p \in UserPid :
           LET r == os.proc[p]
               s == os'.proc[p]
           IN  /\ ~Gone(r) /\ r.masklevel > 0
               /\ ~Gone(s) /\ s.masklevel > 0
               => s.signal \in {0, r.signal}]_vars
  BY <1>1, NextHeard DEF Heard
<1> QED BY <1>2, InitTypeInv, NextTypeInv, PTL DEF Spec, MaskHonoured

-----------------------------------------------------------------------------
(* Parents and children                                                    *)


Kin(f) ==
  /\ f[0].state = "pUnused"
  /\ \A q \in Slot : ~f[q].code => f[q].parent = 0
  /\ \A q \in Slot : f[q].state # "pUnused" /\ f[q].parent # 0 =>
                        f[q].parent # q /\ ~Gone(f[f[q].parent])
  /\ \A q \in Slot : f[q].state = "pDead" => f[q].parent # 0

Sound(r) ==
  /\ r.code /\ ~Gone(r) /\ r.signal # 0 => r.rtestate \in {"pActive", "pWaitRead"}
  /\ r.state = "pWaitRead" => r.saved_state = "pActive"
  /\ r.code /\ ~Gone(r) /\ r.signal # 0 /\ r.rtestate = "pWaitRead" =>
       r.saved_state = "pActive"
  /\ r.code /\ r.state = "pSleeping" => r.wakeUpTick = "never"

NoKillQueued(k) == k.queue \in Seq(Entry(Nat \ {S_Kill}))

\* The system's own process has no program.  It sleeps until a signal wakes it.
HostAsleep(k) == ~k.proc[KernelPid].code /\ k.proc[KernelPid].state = "pSleeping"

HostAlone(k) ==
  /\ \A q \in Slot : ~k.proc[q].code /\ q # KernelPid => k.proc[q].state = "pUnused"
  /\ HostAsleep(k) => /\ k.currentpid # KernelPid
                      /\ \A q \in Slot : /\ k.proc[q].icpt_pid # KernelPid
                                         /\ k.proc[q].parent # KernelPid

FamilyInv(k) == /\ Kin(k.proc)
                /\ \A q \in Slot : Sound(k.proc[q])
                /\ NoKillQueued(k)
                /\ HostAlone(k)

\* The processes in S have ended together, as Lifecycle allows.
EndedBy(S, f, g) ==
  /\ \A p \in S : StatusOf(f[p]) = "alive"
  /\ \A q \in Slot :
       LET left == ParentOf(f[q]) = 0 \/ ParentOf(f[q]) \in S
       IN  /\ StatusOf(g[q]) = IF left /\ (q \in S \/ StatusOf(f[q]) = "zombie") THEN "free"
                               ELSE IF q \in S THEN "zombie" ELSE StatusOf(f[q])
           /\ ParentOf(g[q]) = IF left THEN 0 ELSE ParentOf(f[q])

EndedIn(f, g) == \E S \in SUBSET Slot : EndedBy(S, f, g)

Calm(f, g) ==
  \A q \in Slot : g[q].state \in {"pWaiting", "pSleeping"} => f[q].state = g[q].state

Kept(k0, k) == /\ \A q \in Slot : /\ k.proc[q].code = k0.proc[q].code
                                  /\ k.proc[q].wakeUpTick = k0.proc[q].wakeUpTick
                                  /\ k.proc[q].sid = k0.proc[q].sid
                                  /\ k.proc[q].cid = k0.proc[q].cid
               /\ Calm(k0.proc, k.proc)
               /\ EndedIn(k0.proc, k.proc)

\* The kernel states in which FamilyInv holds, and those of them that the
\* functions of procstuff.c make of k0.
Family == {k \in Running : FamilyInv(k)}
From(k0) == {k \in Family : Kept(k0, k)}

\* If nobody ends, parents and states are what they were.
LEMMA NobodyEnds ==
  ASSUME NEW f, NEW g, Kin(f),
         \A q \in Slot : StatusOf(g[q]) = StatusOf(f[q]) /\ ParentOf(g[q]) = ParentOf(f[q])
  PROVE  EndedIn(f, g)
<1>1. \A q \in Slot : StatusOf(f[q]) = "zombie" => ParentOf(f[q]) # 0
  BY DEF Kin, StatusOf, ParentOf
<1>2. EndedBy({}, f, g)
  BY <1>1 DEF EndedBy
<1>3. {} \in SUBSET Slot
  OBVIOUS
<1> QED BY <1>2, <1>3 DEF EndedIn

\* Processes that end in turn end together.
LEMMA EndedInTurn ==
  ASSUME NEW f, NEW g, NEW h, EndedIn(f, g), EndedIn(g, h)
  PROVE  EndedIn(f, h)
<1>1. PICK S \in SUBSET Slot : EndedBy(S, f, g)
  BY DEF EndedIn
<1>2. PICK T \in SUBSET Slot : EndedBy(T, g, h)
  BY DEF EndedIn
<1> DEFINE U == S \cup T
<1>3. ASSUME NEW p \in U PROVE StatusOf(f[p]) = "alive"
  <2>1. CASE p \in S
    BY <2>1, <1>1 DEF EndedBy
  <2>2. CASE p \in T
    <3>1. StatusOf(g[p]) = "alive" /\ p \in Slot
      BY <2>2, <1>2 DEF EndedBy
    <3> QED BY <3>1, <1>1 DEF EndedBy
  <2> QED BY <2>1, <2>2
<1>4. ASSUME NEW q \in Slot
      PROVE  LET left == ParentOf(f[q]) = 0 \/ ParentOf(f[q]) \in U
             IN  /\ StatusOf(h[q]) = IF left /\ (q \in U \/ StatusOf(f[q]) = "zombie")
                                     THEN "free"
                                     ELSE IF q \in U THEN "zombie" ELSE StatusOf(f[q])
                 /\ ParentOf(h[q]) = IF left THEN 0 ELSE ParentOf(f[q])
  <2>1. /\ q \in S => StatusOf(f[q]) = "alive"
        /\ q \in T => StatusOf(g[q]) = "alive"
    BY <1>1, <1>2 DEF EndedBy
  <2> DEFINE l1 == ParentOf(f[q]) = 0 \/ ParentOf(f[q]) \in S
             l2 == ParentOf(g[q]) = 0 \/ ParentOf(g[q]) \in T
  <2>2. /\ StatusOf(g[q]) = IF l1 /\ (q \in S \/ StatusOf(f[q]) = "zombie") THEN "free"
                            ELSE IF q \in S THEN "zombie" ELSE StatusOf(f[q])
        /\ ParentOf(g[q]) = IF l1 THEN 0 ELSE ParentOf(f[q])
    BY <1>1 DEF EndedBy
  <2>3. /\ StatusOf(h[q]) = IF l2 /\ (q \in T \/ StatusOf(g[q]) = "zombie") THEN "free"
                            ELSE IF q \in T THEN "zombie" ELSE StatusOf(g[q])
        /\ ParentOf(h[q]) = IF l2 THEN 0 ELSE ParentOf(g[q])
    BY <1>2 DEF EndedBy
  <2>4. l2 <=> (ParentOf(f[q]) = 0 \/ ParentOf(f[q]) \in U)
    BY <2>2
  <2>5. ParentOf(h[q]) = IF ParentOf(f[q]) = 0 \/ ParentOf(f[q]) \in U THEN 0 ELSE ParentOf(f[q])
    BY <2>2, <2>3, <2>4
  <2>6. q \in U <=> (q \in S \/ q \in T)
    OBVIOUS
  <2>7. l1 => l2
    BY <2>4
  <2> HIDE DEF l1, l2, U
  <2>8. StatusOf(h[q]) = IF l2 /\ (q \in U \/ StatusOf(f[q]) = "zombie") THEN "free"
                         ELSE IF q \in U THEN "zombie" ELSE StatusOf(f[q])
    BY <2>1, <2>2, <2>3, <2>6, <2>7
  <2> QED BY <2>4, <2>5, <2>8
<1>5. EndedBy(U, f, h)
  BY <1>3, <1>4, Zenon DEF EndedBy
<1>6. U \in SUBSET Slot
  OBVIOUS
<1> QED BY <1>5, <1>6 DEF EndedIn

\* The functions of procstuff.c may follow one another.
LEMMA KeptInTurn ==
  ASSUME NEW k0, NEW k, NEW m, Kept(k0, k), Kept(k, m)
  PROVE  Kept(k0, m)
<1>1. EndedIn(k0.proc, m.proc)
  BY EndedInTurn DEF Kept
<1> QED BY <1>1 DEF Kept, Calm

\* What does not change the states, programs, parents and links changes
\* nothing here.
LEMMA KeptAlike ==
  ASSUME NEW k, NEW m, Kin(k.proc),
         \A q \in Slot : /\ m.proc[q].code = k.proc[q].code
                         /\ m.proc[q].wakeUpTick = k.proc[q].wakeUpTick
                         /\ m.proc[q].parent = k.proc[q].parent
                         /\ m.proc[q].sid = k.proc[q].sid
                         /\ m.proc[q].cid = k.proc[q].cid
                         /\ \/ m.proc[q].state = k.proc[q].state
                            \/ /\ ~Gone(k.proc[q]) /\ ~Gone(m.proc[q])
                               /\ m.proc[q].state \notin {"pWaiting", "pSleeping"}
  PROVE  Kept(k, m)
<1>1. \A q \in Slot : /\ StatusOf(m.proc[q]) = StatusOf(k.proc[q])
                      /\ ParentOf(m.proc[q]) = ParentOf(k.proc[q])
  BY DEF StatusOf, ParentOf, Gone
<1>2. EndedIn(k.proc, m.proc)
  BY <1>1, NobodyEnds
<1> QED BY <1>2 DEF Kept, Calm

\* Every kernel state comes from itself.
LEMMA FromSelf == \A k \in Family : k \in From(k)
BY KeptAlike DEF From, Family, FamilyInv

\* What comes from what comes from k0 comes from k0.
LEMMA FromInTurn ==
  ASSUME NEW k0, NEW k \in From(k0), NEW m \in From(k)
  PROVE  m \in From(k0)
BY KeptInTurn DEF From

\* What is known of such a kernel state.
LEMMA FromFacts ==
  ASSUME NEW k0, NEW k \in From(k0)
  PROVE  /\ k \in Family /\ k \in Running
         /\ Kin(k.proc) /\ NoKillQueued(k) /\ HostAlone(k)
         /\ \A q \in Slot : Sound(k.proc[q]) /\ k.proc[q] \in Process
BY ProcessOf DEF From, Family, FamilyInv

\* The system's own process is one.
LEMMA HostSlot == KernelPid \in Slot /\ KernelPid # 0
BY ProcTableAssumption DEF KernelPid, Slot

\* An update of one process that changes nothing of this keeps it.
LEMMA SameProcess ==
  ASSUME NEW k0, NEW k \in From(k0), NEW p \in Slot, NEW r \in Process, Sound(r),
         r.code = k.proc[p].code, r.parent = k.proc[p].parent,
         r.sid = k.proc[p].sid, r.cid = k.proc[p].cid,
         r.wakeUpTick = k.proc[p].wakeUpTick,
         \/ r.icpt_pid = k.proc[p].icpt_pid
         \/ r.icpt_pid # KernelPid
         \/ ~HostAsleep(k),
         \/ r.state = k.proc[p].state
         \/ /\ ~Gone(k.proc[p]) /\ ~Gone(r)
            /\ r.state \notin {"pWaiting", "pSleeping"}
  PROVE  [k EXCEPT !.proc[p] = r] \in From(k0)
<1> DEFINE m == [k EXCEPT !.proc[p] = r]
           f == k.proc
           g == [f EXCEPT ![p] = r]
<1>1. k \in Running /\ Kin(f) /\ NoKillQueued(k) /\ HostAlone(k) /\ \A q \in Slot : Sound(f[q])
  BY FromFacts
<1>2. m \in Running
  BY <1>1, SetProcess
<1>3. /\ m.proc = g /\ m.queue = k.queue /\ m.currentpid = k.currentpid
      /\ f \in [Slot -> Process]
  BY <1>1 DEF Running, KernelState
<1> HIDE DEF m
<1>4. /\ \A q \in Slot : g[q].code = f[q].code /\ g[q].parent = f[q].parent
      /\ \A q \in Slot : g[q].wakeUpTick = f[q].wakeUpTick
      /\ \A q \in Slot : g[q].sid = f[q].sid /\ g[q].cid = f[q].cid
      /\ \A q \in Slot : \/ g[q].state = f[q].state
                         \/ /\ ~Gone(f[q]) /\ ~Gone(g[q])
                            /\ g[q].state \notin {"pWaiting", "pSleeping"}
      /\ \A q \in Slot : Sound(g[q])
      /\ \A q \in Slot : \/ g[q].icpt_pid = f[q].icpt_pid
                         \/ g[q].icpt_pid # KernelPid
                         \/ ~HostAsleep(k)
  BY <1>1, <1>3
<1>5. Kept(k, m)
  BY <1>1, <1>3, <1>4, KeptAlike
<1> HIDE DEF g
<1>6. HostAsleep(m) => HostAsleep(k)
  BY <1>3, <1>4, HostSlot DEF HostAsleep
<1>7. HostAlone(m)
  <2>1. \A q \in Slot : ~g[q].code /\ q # KernelPid => g[q].state = "pUnused"
    BY <1>1, <1>4 DEF HostAlone, Gone
  <2>2. HostAsleep(m) => /\ m.currentpid # KernelPid
                         /\ \A q \in Slot : /\ g[q].icpt_pid # KernelPid
                                            /\ g[q].parent # KernelPid
    BY <1>1, <1>3, <1>4, <1>6 DEF HostAlone
  <2> QED BY <1>3, <2>1, <2>2 DEF HostAlone
<1>8. \A q \in Slot : f[q].parent \in Slot
  BY <1>1, ProcessOf, ProcessFields
<1> HIDE DEF f
<1>9. \A q \in Slot : Gone(g[q]) <=> Gone(f[q])
  BY <1>4 DEF Gone
<1>10. Kin(g)
  BY <1>1, <1>4, <1>8, <1>9, Zero DEF Kin, Gone
<1>11. FamilyInv(m)
  BY <1>1, <1>3, <1>4, <1>7, <1>10 DEF FamilyInv, NoKillQueued
<1>12. m \in From(k)
  BY <1>2, <1>5, <1>11 DEF From, Family
<1> QED BY <1>12, FromInTurn DEF m

Alike(r, s) == /\ s \in Process
               /\ s.code = r.code /\ s.parent = r.parent /\ s.state = r.state
               /\ s.sid = r.sid /\ s.cid = r.cid
               /\ s.wakeUpTick = r.wakeUpTick /\ s.signal = r.signal
               /\ s.rtestate = r.rtestate /\ s.saved_state = r.saved_state

\* The fields that Kin, Sound and Kept do not read.
LEMMA UpdateAlike ==
  ASSUME NEW r \in Process
  PROVE  /\ \A x \in BOOLEAN : LET s == [r EXCEPT !.sigvec = x]
                               IN  Alike(r, s) /\ s.icpt_pid = r.icpt_pid
         /\ \A x \in Nat : LET s == [r EXCEPT !.masklevel = x]
                           IN  Alike(r, s) /\ s.icpt_pid = r.icpt_pid
         /\ \A x \in BOOLEAN : LET s == [r EXCEPT !.pwr_brk = x]
                               IN  Alike(r, s) /\ s.icpt_pid = r.icpt_pid
         /\ \A x \in BOOLEAN : LET s == [r EXCEPT !.way_to_icpt = x]
                               IN  Alike(r, s) /\ s.icpt_pid = r.icpt_pid
         /\ \A x \in Slot : LET s == [r EXCEPT !.icpt_pid = x] IN Alike(r, s) /\ s.icpt_pid = x
         /\ \A x \in Nat : LET s == [r EXCEPT !.icpt_signal = x]
                           IN  Alike(r, s) /\ s.icpt_pid = r.icpt_pid
         /\ \A x \in 0 .. NewAge : LET s == [r EXCEPT !.pW_age = x]
                                   IN  Alike(r, s) /\ s.icpt_pid = r.icpt_pid
BY Zenon DEF Process, Alike

\* They may be assigned at any time, but nobody notes a sleeping host.
LEMMA UpdateFrom ==
  ASSUME NEW k0, NEW k \in From(k0), NEW p \in Slot
  PROVE  /\ \A x \in BOOLEAN : [k EXCEPT !.proc[p].sigvec = x] \in From(k0)
         /\ \A x \in Nat : [k EXCEPT !.proc[p].masklevel = x] \in From(k0)
         /\ \A x \in BOOLEAN : [k EXCEPT !.proc[p].pwr_brk = x] \in From(k0)
         /\ \A x \in BOOLEAN : [k EXCEPT !.proc[p].way_to_icpt = x] \in From(k0)
         /\ \A x \in Slot : x # KernelPid \/ ~HostAsleep(k) =>
                              [k EXCEPT !.proc[p].icpt_pid = x] \in From(k0)
         /\ \A x \in Nat : [k EXCEPT !.proc[p].icpt_signal = x] \in From(k0)
         /\ \A x \in 0 .. NewAge : [k EXCEPT !.proc[p].pW_age = x] \in From(k0)
<1> DEFINE r == k.proc[p]
<1>1. r \in Process /\ Sound(r)
  BY FromFacts
<1>2. ASSUME NEW s, Alike(r, s),
             s.icpt_pid = r.icpt_pid \/ s.icpt_pid # KernelPid \/ ~HostAsleep(k)
      PROVE  [k EXCEPT !.proc[p] = s] \in From(k0)
  <2>1. Sound(s)
    BY <1>1, <1>2 DEF Sound, Gone, Alike
  <2> QED BY <1>2, <2>1, SameProcess DEF Alike
<1> HIDE DEF r
<1>3. \A s : Alike(r, s) /\ s.icpt_pid = r.icpt_pid => [k EXCEPT !.proc[p] = s] \in From(k0)
  BY <1>2
<1>4. \A s : Alike(r, s) /\ (s.icpt_pid # KernelPid \/ ~HostAsleep(k)) =>
               [k EXCEPT !.proc[p] = s] \in From(k0)
  BY <1>2
<1>5. \A x \in Slot : x # KernelPid \/ ~HostAsleep(k) =>
                        [k EXCEPT !.proc[p].icpt_pid = x] \in From(k0)
  BY <1>1, <1>4, UpdateAlike DEF r
<1> QED BY <1>1, <1>3, <1>5, UpdateAlike DEF r

\* They say nothing about the state of a process.
LEMMA UpdateStates ==
  ASSUME NEW k \in Running, NEW p \in Slot, NEW x, NEW q \in Slot
  PROVE  /\ [k EXCEPT !.proc[p].masklevel = x].proc[q].state = k.proc[q].state
         /\ [k EXCEPT !.proc[p].pwr_brk = x].proc[q].state = k.proc[q].state
         /\ [k EXCEPT !.proc[p].way_to_icpt = x].proc[q].state = k.proc[q].state
         /\ [k EXCEPT !.proc[p].icpt_pid = x].proc[q].state = k.proc[q].state
         /\ [k EXCEPT !.proc[p].icpt_signal = x].proc[q].state = k.proc[q].state
BY DEF Running, KernelState, Process

\* A live process may be made active.
LEMMA WakeFrom ==
  ASSUME NEW k0, NEW k \in From(k0), NEW p \in Slot, ~Gone(k.proc[p])
  PROVE  [k EXCEPT !.proc[p].state = "pActive"] \in From(k0)
<1> DEFINE r == k.proc[p]
           s == [r EXCEPT !.state = "pActive"]
<1>1. r \in Process /\ Sound(r) /\ ~Gone(r)
  BY FromFacts
<1> HIDE DEF r
<1>2. s \in Process
  BY <1>1, UpdateProcess DEF PState
<1>3. /\ s.code = r.code /\ s.parent = r.parent /\ s.state = "pActive"
      /\ s.sid = r.sid /\ s.cid = r.cid
      /\ s.wakeUpTick = r.wakeUpTick /\ s.signal = r.signal
      /\ s.rtestate = r.rtestate /\ s.saved_state = r.saved_state
      /\ s.icpt_pid = r.icpt_pid
  BY <1>1, Zenon DEF Process
<1> HIDE DEF s
<1>4. Sound(s) /\ ~Gone(s)
  BY <1>1, <1>3 DEF Sound, Gone
<1>5. [k EXCEPT !.proc[p] = s] \in From(k0)
  BY <1>1, <1>2, <1>3, <1>4, SameProcess DEF r
<1> QED BY <1>5 DEF s, r

\* currentpid is free, unless the system's own process is asleep, and so is
\* everything but the processes and the queue.
LEMMA SameProcesses ==
  ASSUME NEW k0, NEW k \in From(k0), NEW m \in Running,
         m.proc = k.proc, m.queue = k.queue,
         \/ m.currentpid = k.currentpid
         \/ m.currentpid # KernelPid
         \/ ~HostAsleep(k)
  PROVE  m \in From(k0)
<1>1. HostAsleep(m) <=> HostAsleep(k)
  BY DEF HostAsleep
<1>2. HostAlone(k)
  BY FromFacts
<1>3. HostAlone(m)
  BY <1>1, <1>2 DEF HostAlone
<1> QED BY <1>3 DEF From, Kept, Family, FamilyInv, NoKillQueued

\* currentpid and arbitrate may be assigned.
LEMMA SetCurrentFrom ==
  ASSUME NEW k0, NEW k \in From(k0), NEW c \in Slot, NEW b \in BOOLEAN
  PROVE  /\ [k EXCEPT !.arbitrate = b] \in From(k0)
         /\ c # KernelPid \/ ~HostAsleep(k) =>
              /\ [k EXCEPT !.currentpid = c, !.arbitrate = b] \in From(k0)
              /\ [k EXCEPT !.currentpid = c] \in From(k0)
<1>1. k \in Running
  BY FromFacts
<1>2. c \in 0 .. MAXPROCESSES
  BY ProcTableAssumption DEF Slot
<1> DEFINE m1 == [k EXCEPT !.currentpid = c, !.arbitrate = b]
           m2 == [k EXCEPT !.currentpid = c]
           m3 == [k EXCEPT !.arbitrate = b]
<1>3. m1 \in Running /\ m2 \in Running /\ m3 \in Running
  BY <1>1, <1>2, Zenon DEF Running, KernelState
<1>4. /\ m1.proc = k.proc /\ m1.queue = k.queue /\ m1.currentpid = c
      /\ m2.proc = k.proc /\ m2.queue = k.queue /\ m2.currentpid = c
      /\ m3.proc = k.proc /\ m3.queue = k.queue /\ m3.currentpid = k.currentpid
  BY <1>1, Zenon DEF Running, KernelState
<1> HIDE DEF m1, m2, m3
<1>5. m3 \in From(k0) /\ (c # KernelPid \/ ~HostAsleep(k) => m1 \in From(k0) /\ m2 \in From(k0))
  BY <1>3, <1>4, SameProcesses
<1> QED BY <1>5 DEF m1, m2, m3

\* The queue may change as long as no S_Kill is in it.
LEMMA SetQueueFrom ==
  ASSUME NEW k0, NEW k \in From(k0), NEW q \in Seq(Entry(Nat \ {S_Kill})), NEW b \in BOOLEAN
  PROVE  [k EXCEPT !.queue = q, !.pending = b] \in From(k0)
<1> DEFINE m == [k EXCEPT !.queue = q, !.pending = b]
<1>1. k \in Running /\ HostAlone(k)
  BY FromFacts
<1>2. q \in Seq(Entry(Nat))
  <2>1. Entry(Nat \ {S_Kill}) \subseteq Entry(Nat)
    BY Zenon DEF Entry
  <2> HIDE DEF Entry
  <2> QED BY <2>1, SeqMonotonic
<1>3. m \in Running
  BY <1>1, <1>2, SetQueue
<1>4. m.proc = k.proc /\ m.queue = q /\ m.currentpid = k.currentpid
  BY <1>1, Zenon DEF Running, KernelState
<1> HIDE DEF m
<1>5. HostAlone(m)
  BY <1>1, <1>4 DEF HostAlone, HostAsleep
<1>6. m \in From(k0)
  BY <1>3, <1>4, <1>5 DEF From, Kept, Family, FamilyInv, NoKillQueued
<1> QED BY <1>6 DEF m

AlikeExcept(r, s) == /\ s.code = r.code /\ s.wakeUpTick = r.wakeUpTick
                     /\ s.sid = r.sid /\ s.cid = r.cid
                     /\ s.signal = r.signal /\ s.rtestate = r.rtestate
                     /\ s.saved_state = r.saved_state /\ s.icpt_pid = r.icpt_pid

\* An orphan differs in its parent, and in its state if it was dead.
LEMMA OrphanFields ==
  ASSUME NEW r \in Process
  PROVE  /\ AlikeExcept(r, Orphan(r)) /\ Orphan(r).parent = 0
         /\ Orphan(r).state = IF r.state = "pDead" THEN "pUnused" ELSE r.state
<1> DEFINE st == IF r.state = "pDead" THEN "pUnused" ELSE r.state
           s == [r EXCEPT !.parent = 0]
<1>1. Orphan(r) = [s EXCEPT !.state = st]
  BY DEF Orphan, Process
<1> HIDE DEF st
<1>2. /\ AlikeExcept(r, [s EXCEPT !.state = st]) /\ [s EXCEPT !.state = st].parent = 0
      /\ [s EXCEPT !.state = st].state = st
  BY Zenon DEF Process, AlikeExcept
<1> QED BY <1>1, <1>2 DEF st

\* The mask level is none of the fields that matter.
LEMMA MaskFields ==
  ASSUME NEW k \in Running, NEW p \in Slot
  PROVE  LET m == [k EXCEPT !.proc[p].masklevel = 0]
         IN  /\ m \in Running /\ m.queue = k.queue /\ m.currentpid = k.currentpid
             /\ \A q \in Slot : /\ AlikeExcept(k.proc[q], m.proc[q])
                                /\ m.proc[q].state = k.proc[q].state
                                /\ m.proc[q].parent = k.proc[q].parent
<1> DEFINE m == [k EXCEPT !.proc[p].masklevel = 0]
           s == [k.proc[p] EXCEPT !.masklevel = 0]
<1>1. /\ m \in Running /\ m.queue = k.queue /\ m.currentpid = k.currentpid
      /\ m.proc = [k.proc EXCEPT ![p] = s]
  BY UpdateKernel DEF Running, KernelState
<1>2. k.proc[p] \in Process
  BY ProcessOf
<1>3. AlikeExcept(k.proc[p], s) /\ s.state = k.proc[p].state /\ s.parent = k.proc[p].parent
  BY <1>2, Zenon DEF AlikeExcept, Process
<1>4. k.proc \in [Slot -> Process]
  BY DEF Running, KernelState
<1> HIDE DEF m, s
<1>5. \A q \in Slot : m.proc[q] = IF q = p THEN s ELSE k.proc[q]
  BY <1>1, <1>4
<1>6. \A q \in Slot : AlikeExcept(k.proc[q], k.proc[q])
  BY DEF AlikeExcept
<1>7. \A q \in Slot : /\ AlikeExcept(k.proc[q], m.proc[q])
                      /\ m.proc[q].state = k.proc[q].state
                      /\ m.proc[q].parent = k.proc[q].parent
  BY <1>3, <1>5, <1>6
<1> QED BY <1>1, <1>7 DEF m

\* What becomes of each process when the parent p dies.
LEMMA OrphanedFields ==
  ASSUME NEW k \in Running, NEW p \in Slot, NEW q \in Slot
  PROVE  LET r == k.proc[q]
             s == Orphaned(k, p)[q]
             left == r.state # "pUnused" /\ r.parent = p
         IN  /\ AlikeExcept(r, s)
             /\ s.parent = IF left THEN 0 ELSE r.parent
             /\ s.state = IF left /\ r.state = "pDead" THEN "pUnused" ELSE r.state
<1> DEFINE r == k.proc[q]
           s == Orphaned(k, p)[q]
<1>1. r \in Process
  BY ProcessOf
<1>2. s = IF r.state # "pUnused" /\ r.parent = p THEN Orphan(r) ELSE r
  BY DEF Orphaned
<1>3. AlikeExcept(r, r)
  BY DEF AlikeExcept
<1> HIDE DEF r, s
<1>4. /\ AlikeExcept(r, s)
      /\ s.parent = IF r.state # "pUnused" /\ r.parent = p THEN 0 ELSE r.parent
      /\ s.state = IF r.state # "pUnused" /\ r.parent = p /\ r.state = "pDead"
                   THEN "pUnused" ELSE r.state
  BY <1>1, <1>2, <1>3, OrphanFields
<1> QED BY <1>4 DEF r, s

\* What becomes of each process when kill_process ends p.
LEMMA KillFields ==
  ASSUME NEW k \in Running, NEW p \in Slot, k.proc[p].parent # p, ~Gone(k.proc[p])
  PROVE  LET m == KillProcess(k, p)
         IN  /\ m.queue = k.queue /\ m.currentpid \in {k.currentpid, k.proc[p].parent}
             /\ \A q \in Slot :
                  LET r == k.proc[q]
                      s == m.proc[q]
                      left == r.state # "pUnused" /\ r.parent = p
                  IN  /\ AlikeExcept(r, s)
                      /\ s.parent = IF left THEN 0 ELSE r.parent
                      /\ s.state = IF q = p
                                   THEN IF r.parent = 0 THEN "pUnused" ELSE "pDead"
                                   ELSE IF left /\ r.state = "pDead" THEN "pUnused"
                                   ELSE r.state
<1> DEFINE m0 == [k EXCEPT !.proc[p].masklevel = 0]
           o == Orphaned(m0, p)
           x == AfterDeath(k.proc[p].parent)
           f == [o EXCEPT ![p].state = x]
           c == IF p = k.currentpid THEN k.proc[p].parent ELSE k.currentpid
           b == IF p = k.currentpid THEN k.proc[p].parent = 0 ELSE k.arbitrate
           m == [m0 EXCEPT !.proc = f, !.currentpid = c, !.arbitrate = b]
<1>1. /\ m0 \in Running /\ m0.queue = k.queue
      /\ \A q \in Slot : /\ AlikeExcept(k.proc[q], m0.proc[q])
                         /\ m0.proc[q].state = k.proc[q].state
                         /\ m0.proc[q].parent = k.proc[q].parent
  BY MaskFields
<1>2. KillProcess(k, p) = m
  BY Zenon DEF KillProcess, Gone
<1> HIDE DEF m0
<1>3. m.proc = f /\ m.queue = k.queue /\ m.currentpid \in {k.currentpid, k.proc[p].parent}
  <2>1. m.proc = f /\ m.queue = k.queue /\ m.currentpid = c
    BY <1>1, Zenon DEF Running, KernelState
  <2> QED BY <2>1
<1> HIDE DEF m
<1>4. \A q \in Slot :
         LET r == m0.proc[q]
             left == r.state # "pUnused" /\ r.parent = p
         IN  /\ AlikeExcept(r, o[q])
             /\ o[q].parent = IF left THEN 0 ELSE r.parent
             /\ o[q].state = IF left /\ r.state = "pDead" THEN "pUnused" ELSE r.state
  BY <1>1, OrphanedFields
<1>5. o \in [Slot -> Process]
  BY <1>1, OrphanedType
<1> HIDE DEF o, x
<1>6. \A q \in Slot : q # p => f[q] = o[q]
  BY <1>5
<1>7. AlikeExcept(o[p], f[p]) /\ f[p].parent = o[p].parent /\ f[p].state = x
  <2>1. f[p] = [o[p] EXCEPT !.state = x] /\ o[p] \in Process
    BY <1>5
  <2>2. \A r \in Process : /\ AlikeExcept(r, [r EXCEPT !.state = x])
                           /\ [r EXCEPT !.state = x].parent = r.parent
                           /\ [r EXCEPT !.state = x].state = x
    BY Zenon DEF Process, AlikeExcept
  <2> HIDE DEF f
  <2> QED BY <2>1, <2>2
<1> HIDE DEF f
<1>8. ASSUME NEW q \in Slot
      PROVE  LET r == k.proc[q]
                 s == f[q]
                 left == r.state # "pUnused" /\ r.parent = p
             IN  /\ AlikeExcept(r, s)
                 /\ s.parent = IF left THEN 0 ELSE r.parent
                 /\ s.state = IF q = p THEN x
                              ELSE IF left /\ r.state = "pDead" THEN "pUnused"
                              ELSE r.state
  BY <1>1, <1>4, <1>6, <1>7 DEF AlikeExcept
<1> QED BY <1>2, <1>3, <1>8, SMT DEF x, AfterDeath

\* What Lifecycle sees of a descriptor.
LEMMA StatusIs ==
  \A r : /\ StatusOf(r) = "free" <=> r.state = "pUnused"
         /\ StatusOf(r) = "zombie" <=> r.state = "pDead"
         /\ StatusOf(r) = "alive" <=> ~Gone(r)
         /\ ParentOf(r) = IF r.state = "pUnused" THEN 0 ELSE r.parent
BY DEF StatusOf, ParentOf, Gone

\* What kill_process does to the table is an end of one process.
LEMMA KillIsEnd ==
  ASSUME NEW f, NEW g, NEW p \in Slot, Kin(f), ~Gone(f[p]), f[p].parent # p,
         \A q \in Slot :
           LET left == f[q].state # "pUnused" /\ f[q].parent = p
           IN  /\ AlikeExcept(f[q], g[q])
               /\ g[q].parent = IF left THEN 0 ELSE f[q].parent
               /\ g[q].state = IF q = p THEN IF f[q].parent = 0 THEN "pUnused" ELSE "pDead"
                               ELSE IF left /\ f[q].state = "pDead" THEN "pUnused"
                               ELSE f[q].state
  PROVE  EndedIn(f, g) /\ Calm(f, g)
<1>1. p # 0
  BY DEF Kin, Gone
<1>2. ASSUME NEW q \in Slot
      PROVE  LET left == ParentOf(f[q]) = 0 \/ ParentOf(f[q]) \in {p}
             IN  /\ StatusOf(g[q]) = IF left /\ (q \in {p} \/ StatusOf(f[q]) = "zombie") THEN "free"
                                     ELSE IF q \in {p} THEN "zombie" ELSE StatusOf(f[q])
                 /\ ParentOf(g[q]) = IF left THEN 0 ELSE ParentOf(f[q])
  <2>1. f[q].state = "pDead" => f[q].parent # 0
    BY DEF Kin
  <2>2. CASE q = p
    BY <1>1, <2>2, StatusIs DEF Gone
  <2>3. CASE q # p
    <3>1. ParentOf(f[q]) = p <=> (f[q].state # "pUnused" /\ f[q].parent = p)
      BY <1>1, StatusIs
    <3>2. ParentOf(f[q]) = 0 <=> (f[q].state = "pUnused" \/ f[q].parent = 0)
      BY StatusIs
    <3>3. ParentOf(g[q]) = IF ParentOf(f[q]) \in {0, p} THEN 0 ELSE ParentOf(f[q])
      BY <2>1, <2>3, <3>1, <3>2, StatusIs
    <3>4. CASE g[q].state = f[q].state
      <4>1. StatusOf(g[q]) = StatusOf(f[q])
        BY <3>4 DEF StatusOf
      <4>2. ParentOf(f[q]) = 0 \/ ParentOf(f[q]) = p => StatusOf(f[q]) # "zombie"
        BY <2>1, <2>3, <3>1, <3>2, <3>4, StatusIs
      <4> QED BY <2>3, <3>3, <4>1, <4>2
    <3>5. CASE g[q].state # f[q].state
      <4>1. f[q].state = "pDead" /\ f[q].parent = p /\ g[q].state = "pUnused"
        BY <2>3, <3>5
      <4> QED BY <2>3, <3>1, <3>3, <4>1, StatusIs
    <3> QED BY <3>4, <3>5
  <2> QED BY <2>2, <2>3
<1>3. EndedBy({p}, f, g)
  BY <1>2, StatusIs DEF EndedBy
<1>4. {p} \in SUBSET Slot
  OBVIOUS
<1>5. Calm(f, g)
  BY DEF Calm
<1> QED BY <1>3, <1>4, <1>5 DEF EndedIn

\* kill_process keeps the families together, also when the victim is not
\* sound: send_signal has stored the fatal signal before it kills.
LEMMA KillFrom ==
  ASSUME NEW k0, NEW k \in Running, NEW p \in Slot,
         Kin(k.proc), NoKillQueued(k), HostAlone(k), Kept(k0, k),
         \A q \in Slot : (q # p \/ Gone(k.proc[p])) => Sound(k.proc[q])
  PROVE  KillProcess(k, p) \in From(k0)
<1> DEFINE m == KillProcess(k, p)
           f == k.proc
           g == m.proc
<1>1. m \in Running /\ \A q \in Slot : f[q] \in Process /\ f[q].parent \in Slot
  BY KillProcessType, ProcessOf, ProcessFields
<1>2. CASE Gone(k.proc[p])
  <2> DEFINE m0 == [k EXCEPT !.proc[p].masklevel = 0]
  <2>1. /\ m0 \in Running /\ m0.queue = k.queue /\ m0.currentpid = k.currentpid
        /\ \A q \in Slot : /\ AlikeExcept(k.proc[q], m0.proc[q])
                           /\ m0.proc[q].state = k.proc[q].state
                           /\ m0.proc[q].parent = k.proc[q].parent
    BY MaskFields
  <2>2. m = m0 \/ (f[p].state = "pDead" /\ m = [m0 EXCEPT !.proc = Orphaned(m0, p)])
    BY <1>2, Zenon DEF KillProcess, Gone
  <2> HIDE DEF m0, m
  <2>3. f[p].state = "pDead" =>
          \A q \in Slot : ~(f[q].state # "pUnused" /\ f[q].parent = p)
    BY <1>1, <1>2, Zero DEF Kin, Gone
  <2>4. f[p].state = "pDead" => \A q \in Slot : Orphaned(m0, p)[q] = m0.proc[q]
    BY <2>1, <2>3 DEF Orphaned
  <2>5. \A q \in Slot : g[q] = m0.proc[q]
    BY <2>1, <2>2, <2>4 DEF Running, KernelState
  <2>6. m.queue = k.queue /\ m.currentpid = k.currentpid
    BY <2>1, <2>2 DEF Running, KernelState
  <2>7. \A q \in Slot : /\ AlikeExcept(f[q], g[q]) /\ g[q].state = f[q].state
                        /\ g[q].parent = f[q].parent
    BY <2>1, <2>5
  <2> HIDE DEF f, g
  <2>8. Kin(g)
    BY <1>1, <2>7, Zero DEF Kin, Gone, AlikeExcept, f
  <2>9. \A q \in Slot : Sound(g[q])
    BY <1>2, <2>7 DEF Sound, Gone, AlikeExcept, f
  <2>10. HostAlone(m)
    BY <2>6, <2>7, HostSlot DEF HostAlone, HostAsleep, AlikeExcept, f, g
  <2>11. Kept(k, m)
    BY <2>7, KeptAlike DEF AlikeExcept, f, g
  <2>12. Kept(k0, m)
    BY <2>11, KeptInTurn
  <2> QED BY <1>1, <2>6, <2>8, <2>9, <2>10, <2>12 DEF From, Family, FamilyInv, NoKillQueued, m, g
<1>3. CASE ~Gone(k.proc[p])
  <2>1. k.proc[p].parent # p
    BY <1>1, <1>3, Zero DEF Kin, Gone
  <2>2. m.queue = k.queue /\ m.currentpid \in {k.currentpid, k.proc[p].parent} /\
        \A q \in Slot : LET left == f[q].state # "pUnused" /\ f[q].parent = p
                        IN  /\ AlikeExcept(f[q], g[q])
                            /\ g[q].parent = IF left THEN 0 ELSE f[q].parent
                            /\ g[q].state = IF q = p
                                            THEN IF f[q].parent = 0 THEN "pUnused" ELSE "pDead"
                                            ELSE IF left /\ f[q].state = "pDead" THEN "pUnused"
                                            ELSE f[q].state
    BY <1>3, <2>1, KillFields
  <2> HIDE DEF m, g
  <2>3. \A q \in Slot : q # p => (Gone(g[q]) <=> Gone(f[q]))
    BY <2>2 DEF Gone
  <2>4. Kin(g)
    <3>1. g[0].state = "pUnused"
      BY <2>2, <1>3, Zero DEF Kin, Gone
    <3>2. \A q \in Slot : ~g[q].code => g[q].parent = 0
      BY <2>2 DEF Kin, AlikeExcept
    <3>3. ASSUME NEW q \in Slot, g[q].state # "pUnused", g[q].parent # 0
          PROVE  g[q].parent # q /\ ~Gone(g[g[q].parent])
      <4>1. g[q].parent = f[q].parent /\ f[q].state # "pUnused" /\ f[q].parent # p
        BY <1>3, <2>1, <2>2, <3>3 DEF Gone
      <4>2. f[q].parent # q /\ ~Gone(f[f[q].parent])
        BY <3>3, <4>1 DEF Kin
      <4> QED BY <1>1, <2>3, <4>1, <4>2
    <3>4. ASSUME NEW q \in Slot, g[q].state = "pDead" PROVE g[q].parent # 0
      BY <2>1, <2>2, <3>4 DEF Kin
    <3> QED BY <3>1, <3>2, <3>3, <3>4 DEF Kin
  <2>5. \A q \in Slot : Sound(g[q])
    BY <2>2, <2>3 DEF Sound, Gone, AlikeExcept
  <2>6. HostAlone(m)
    <3>1. \A q \in Slot : ~g[q].code /\ q # KernelPid => g[q].state = "pUnused"
      BY <1>3, <2>2 DEF HostAlone, AlikeExcept, Gone
    <3>2. ASSUME HostAsleep(m)
          PROVE  /\ m.currentpid # KernelPid
                 /\ \A q \in Slot : g[q].icpt_pid # KernelPid /\ g[q].parent # KernelPid
      <4>1. HostAsleep(k)
        BY <2>2, <3>2, HostSlot DEF HostAsleep, AlikeExcept, g
      <4> QED BY <2>2, <4>1, HostSlot DEF HostAlone, AlikeExcept
    <3> QED BY <3>1, <3>2 DEF HostAlone, g
  <2>7. Kept(k, m)
    <3>1. EndedIn(f, g) /\ Calm(f, g)
      BY <1>3, <2>1, <2>2, KillIsEnd
    <3> QED BY <2>2, <3>1 DEF Kept, AlikeExcept, g
  <2>8. Kept(k0, m)
    BY <2>7, KeptInTurn
  <2> QED BY <1>1, <2>2, <2>4, <2>5, <2>6, <2>8 DEF From, Family, FamilyInv, NoKillQueued, g, m
<1> QED BY <1>2, <1>3

\* A child whose end is reported, and a child that is made, as Lifecycle
\* allows it.
ReportedIn(q, f, g) ==
  /\ StatusOf(f[q]) = "zombie"
  /\ \A x \in Slot : /\ StatusOf(g[x]) = IF x = q THEN "free" ELSE StatusOf(f[x])
                     /\ ParentOf(g[x]) = IF x = q THEN 0 ELSE ParentOf(f[x])

ForkedIn(p, q, f, g) ==
  /\ StatusOf(f[p]) = "alive" /\ StatusOf(f[q]) = "free" /\ q # 0
  /\ \A x \in Slot : /\ StatusOf(g[x]) = IF x = q THEN "alive" ELSE StatusOf(f[x])
                     /\ ParentOf(g[x]) = IF x = q THEN p ELSE ParentOf(f[x])

Life(f, g) == \/ EndedIn(f, g)
              \/ \E q \in Slot : ReportedIn(q, f, g)
              \/ \E p, q \in Slot : ForkedIn(p, q, f, g)

-----------------------------------------------------------------------------
(* The list of children. *)

\* The list of the children of p: it begins at cid, goes on along sid and ends
\* with 0, passes each process once and only children of p, and misses none.
ChainOf(f, p, n, c) ==
  /\ n \in Nat /\ c \in [0 .. n -> Slot]
  /\ c[0] = f[p].cid /\ c[n] = 0
  /\ \A i \in 0 .. n - 1 : c[i] \in Pid /\ f[c[i]].sid = c[i + 1] /\ ParentOf(f[c[i]]) = p
  /\ \A i, j \in 0 .. n - 1 : c[i] = c[j] => i = j
  /\ \A q \in Pid : ParentOf(f[q]) = p => \E i \in 0 .. n - 1 : q = c[i]

HasChain(f, p) == \E n, c : ChainOf(f, p, n, c)

\* Every live process has such a list.
Listed(f) == f[0].sid = 0 /\ \A p \in Pid : ~Gone(f[p]) => HasChain(f, p)

\* A list is shorter than the table.
LEMMA ChainFits ==
  ASSUME NEW f, NEW p, NEW n, NEW c, ChainOf(f, p, n, c)
  PROVE  n <= MAXPROCESSES - 1
<1> DEFINE S == 0 .. n - 1
           h == [i \in S |-> c[i]]
<1>1. n \in Nat /\ \A i \in S : c[i] \in Pid
  BY DEF ChainOf
<1>2. /\ IsFiniteSet(S) /\ Cardinality(S) = n
      /\ IsFiniteSet(Pid) /\ Cardinality(Pid) = MAXPROCESSES - 1
  <2>1. 0 \in Int /\ n - 1 \in Int /\ 1 \in Int /\ MAXPROCESSES - 1 \in Int
    BY <1>1, ProcTableAssumption
  <2>2. /\ IsFiniteSet(0 .. n - 1) /\ Cardinality(0 .. n - 1) = n
    <3> DEFINE x == Cardinality(0 .. n - 1)
    <3>1. x = IF 0 > n - 1 THEN 0 ELSE (n - 1) - 0 + 1
      BY <2>1, FS_Interval
    <3> HIDE DEF x
    <3>2. x = n
      BY <1>1, <3>1
    <3> QED BY <2>1, <3>2, FS_Interval DEF x
  <2>3. /\ IsFiniteSet(1 .. MAXPROCESSES - 1)
        /\ Cardinality(1 .. MAXPROCESSES - 1) = MAXPROCESSES - 1
    <3> DEFINE x == Cardinality(1 .. MAXPROCESSES - 1)
    <3>1. x = IF 1 > MAXPROCESSES - 1 THEN 0 ELSE (MAXPROCESSES - 1) - 1 + 1
      BY <2>1, FS_Interval
    <3> HIDE DEF x
    <3>2. x = MAXPROCESSES - 1
      BY <3>1, ProcTableAssumption
    <3> QED BY <2>1, <3>2, FS_Interval DEF x
  <2> QED BY <2>2, <2>3, Zenon DEF Pid, S
<1>3. h \in [S -> Pid]
  BY <1>1
<1>4. \A i, j \in S : h[i] = h[j] => i = j
  BY DEF ChainOf
<1> HIDE DEF S, h
<1>5. h \in Injection(S, Pid)
  BY <1>3, <1>4 DEF Injection, IsInjective
<1> QED BY <1>2, <1>5, FS_Injection

\* ChildList walks along it.
LEMMA ChainIsChildList ==
  ASSUME NEW k, NEW p \in Slot, NEW n, NEW c, ChainOf(k.proc, p, n, c), k.proc[0].sid = 0
  PROVE  ChildList(k, p) = {c[i] : i \in 0 .. n - 1}
<1> DEFINE h == [i \in Slot |-> IF i <= n THEN c[i] ELSE 0]
           P(g) == g = [i \in Slot |->
                          IF i = 0 THEN k.proc[p].cid ELSE k.proc[g[i - 1]].sid]
           walk == CHOOSE g : P(g)
<1>1. /\ n \in Nat /\ n <= MAXPROCESSES - 1 /\ c[0] = k.proc[p].cid /\ c[n] = 0
      /\ \A i \in 0 .. n - 1 : c[i] \in Pid /\ k.proc[c[i]].sid = c[i + 1]
  <2>1. n <= MAXPROCESSES - 1
    BY ChainFits
  <2> QED BY <2>1 DEF ChainOf
<1>2. \A i \in Slot : i # 0 => i - 1 \in Slot
  BY ProcTableAssumption DEF Slot
<1>3. ASSUME NEW i \in Slot, i # 0 PROVE h[i] = k.proc[h[i - 1]].sid
  <2>1. i \in Nat /\ i - 1 \in Slot /\ i - 1 \in Nat
    BY <1>2, <1>3, SlotIsNat
  <2>2. CASE i <= n
    <3>1. i - 1 \in 0 .. n - 1 /\ i - 1 <= n /\ (i - 1) + 1 = i
      BY <1>1, <1>3, <2>1, <2>2
    <3> QED BY <1>1, <2>1, <2>2, <3>1
  <2>3. CASE ~(i <= n)
    <3>1. h[i] = 0 /\ h[i - 1] = 0
      <4>1. CASE i - 1 <= n
        <5>1. i - 1 = n
          BY <1>1, <2>1, <2>3, <4>1
        <5> QED BY <1>1, <2>1, <2>3, <5>1
      <4>2. CASE ~(i - 1 <= n)
        BY <2>1, <2>3, <4>2
      <4> QED BY <4>1, <4>2
    <3> QED BY <3>1
  <2> QED BY <2>2, <2>3
<1>4. h[0] = k.proc[p].cid
  BY <1>1, Zero
<1>5. P(h)
  BY <1>3, <1>4
<1>6. P(walk)
  BY <1>5
<1>7. ASSUME NEW i \in Slot PROVE walk[i] = IF i = 0 THEN k.proc[p].cid
                                            ELSE k.proc[walk[i - 1]].sid
  <2> HIDE DEF walk
  <2> QED BY <1>6
<1> HIDE DEF walk, h, P
<1>8. ASSUME NEW i0 \in Slot, walk[i0] # h[i0] PROVE FALSE
  <2> DEFINE D == {i \in Slot : walk[i] # h[i]}
             i == Least(D)
  <2>1. i \in D /\ \A j \in D : i <= j
    <3>1. D \subseteq Nat /\ D # {}
      BY <1>8, SlotIsNat
    <3> HIDE DEF D
    <3> QED BY <3>1, LeastIsMember
  <2>2. i \in Slot /\ walk[i] # h[i] /\ i \in Nat
    BY <2>1, SlotIsNat
  <2> HIDE DEF i
  <2>3. i # 0
    BY <1>4, <1>7, <2>2
  <2>4. i - 1 \in Slot /\ ~(i <= i - 1)
    BY <1>2, <2>2, <2>3
  <2>5. walk[i - 1] = h[i - 1]
    BY <2>1, <2>4
  <2> QED BY <1>3, <1>7, <2>2, <2>3, <2>5
<1>9. ChildList(k, p) = {walk[i] : i \in Slot} \ {0}
  BY Zenon DEF ChildList, walk, P
<1>10. {walk[i] : i \in Slot} \ {0} = {h[i] : i \in Slot} \ {0}
  BY <1>8
<1>11. {h[i] : i \in Slot} \ {0} = {c[i] : i \in 0 .. n - 1}
  <2>1. ASSUME NEW i \in Slot, h[i] # 0 PROVE \E j \in 0 .. n - 1 : h[i] = c[j]
    <3>1. i \in Nat /\ i <= n /\ h[i] = c[i]
      BY <2>1, SlotIsNat DEF h
    <3>2. i # n
      BY <1>1, <2>1, <3>1
    <3>3. i \in 0 .. n - 1
      BY <1>1, <3>1, <3>2
    <3> QED BY <3>1, <3>3
  <2>2. ASSUME NEW j \in 0 .. n - 1 PROVE c[j] # 0 /\ j \in Slot /\ h[j] = c[j]
    <3>1. j \in Slot /\ j <= n
      BY <1>1, ProcTableAssumption DEF Slot
    <3>2. c[j] # 0
      BY <1>1 DEF Pid
    <3> QED BY <3>1, <3>2 DEF h
  <2> QED BY <2>1, <2>2
<1> QED BY <1>9, <1>10, <1>11

\* The list stays as long as its children and their links do.
LEMMA ChainKept ==
  ASSUME NEW f, NEW g, NEW p \in Pid, HasChain(f, p), g[p].cid = f[p].cid,
         \A q \in Pid : /\ ParentOf(g[q]) = p => ParentOf(f[q]) = p
                        /\ ParentOf(f[q]) = p => ParentOf(g[q]) = p /\ g[q].sid = f[q].sid
  PROVE  HasChain(g, p)
<1>1. PICK n, c : ChainOf(f, p, n, c)
  BY DEF HasChain
<1>2. ChainOf(g, p, n, c)
  BY <1>1 DEF ChainOf
<1> QED BY <1>2 DEF HasChain

\* A new child goes to its head.
LEMMA ChainGrows ==
  ASSUME NEW f, NEW g, NEW p \in Pid, NEW q \in Pid, HasChain(f, p),
         f[p].cid \in Slot, ParentOf(f[q]) # p, ParentOf(g[q]) = p,
         g[p].cid = q, g[q].sid = f[p].cid,
         \A x \in Pid : x # q =>
            /\ ParentOf(g[x]) = p <=> ParentOf(f[x]) = p
            /\ ParentOf(f[x]) = p => g[x].sid = f[x].sid
  PROVE  HasChain(g, p)
<1>1. PICK n, c : ChainOf(f, p, n, c)
  BY DEF HasChain
<1>2. /\ n \in Nat /\ c \in [0 .. n -> Slot] /\ c[0] = f[p].cid /\ c[n] = 0
      /\ \A i \in 0 .. n - 1 : c[i] \in Pid /\ f[c[i]].sid = c[i + 1] /\ ParentOf(f[c[i]]) = p
      /\ \A i, j \in 0 .. n - 1 : c[i] = c[j] => i = j
      /\ \A x \in Pid : ParentOf(f[x]) = p => \E i \in 0 .. n - 1 : x = c[i]
  BY <1>1 DEF ChainOf
<1> DEFINE m == n + 1
           d == [i \in 0 .. m |-> IF i = 0 THEN q ELSE c[i - 1]]
<1>3. m \in Nat /\ m - 1 = n /\ m # 0
  BY <1>2
<1>4. \A i \in 0 .. m : i # 0 => i - 1 \in 0 .. n /\ d[i] = c[i - 1]
  BY <1>2
<1>5. d[0] = q
  BY <1>2
<1>6. d \in [0 .. m -> Slot]
  BY <1>2, <1>4, <1>5, SlotIsNat
<1>7. d[m] = 0
  BY <1>2, <1>3
<1> HIDE DEF d
<1>8. ASSUME NEW i \in 0 .. m - 1
      PROVE  d[i] \in Pid /\ g[d[i]].sid = d[i + 1] /\ ParentOf(g[d[i]]) = p
  <2>1. i \in 0 .. m /\ i + 1 \in 0 .. m /\ i + 1 # 0 /\ (i + 1) - 1 = i
    BY <1>2, <1>3
  <2>2. d[i + 1] = c[i]
    BY <1>4, <2>1
  <2>3. CASE i = 0
    BY <1>2, <1>5, <2>2, <2>3
  <2>4. CASE i # 0
    <3>1. d[i] = c[i - 1] /\ i - 1 \in 0 .. n - 1 /\ (i - 1) + 1 = i
      BY <1>2, <1>3, <1>4, <2>1, <2>4
    <3>2. c[i - 1] \in Pid /\ f[c[i - 1]].sid = c[i] /\ ParentOf(f[c[i - 1]]) = p
      BY <1>2, <3>1
    <3> QED BY <2>2, <3>1, <3>2
  <2> QED BY <2>3, <2>4
<1>9. ASSUME NEW i \in 0 .. m - 1, NEW j \in 0 .. m - 1, d[i] = d[j] PROVE i = j
  <2>1. \A l \in 0 .. m - 1 : l # 0 => /\ d[l] = c[l - 1] /\ l - 1 \in 0 .. n - 1
                                       /\ d[l] # q
    <3>1. \A l \in 0 .. m - 1 : l # 0 => d[l] = c[l - 1] /\ l - 1 \in 0 .. n - 1
      BY <1>2, <1>3, <1>4
    <3> QED BY <1>2, <3>1
  <2>2. (i = 0) <=> (j = 0)
    BY <1>5, <1>9, <2>1
  <2>3. CASE i # 0
    <3>1. i - 1 = j - 1
      BY <1>2, <1>9, <2>1, <2>2, <2>3
    <3> QED BY <1>3, <3>1
  <2> QED BY <2>2, <2>3
<1>10. ASSUME NEW x \in Pid, ParentOf(g[x]) = p PROVE \E i \in 0 .. m - 1 : x = d[i]
  <2>1. CASE x = q
    BY <1>2, <1>3, <1>5, <2>1
  <2>2. CASE x # q
    <3>1. PICK i \in 0 .. n - 1 : x = c[i]
      BY <1>2, <1>10, <2>2
    <3>2. i + 1 \in 0 .. m - 1 /\ d[i + 1] = c[i]
      <4>1. i + 1 \in 0 .. m /\ i + 1 # 0 /\ (i + 1) - 1 = i /\ i + 1 \in 0 .. m - 1
        BY <1>2, <1>3
      <4> QED BY <1>4, <4>1
    <3> QED BY <3>1, <3>2
  <2> QED BY <2>1, <2>2
<1>11. ChainOf(g, p, m, d)
  BY <1>3, <1>5, <1>6, <1>7, <1>8, <1>9, <1>10 DEF ChainOf
<1> QED BY <1>11 DEF HasChain

\* The child at c[j] is no longer one, and the one before it, or the parent,
\* has got its link.
UnlinkedAt(f, g, p, c, j) ==
  /\ ParentOf(g[c[j]]) # p
  /\ g[p].cid = IF j = 0 THEN c[1] ELSE f[p].cid
  /\ \A x \in Pid : x # c[j] =>
        /\ ParentOf(g[x]) = p <=> ParentOf(f[x]) = p
        /\ ParentOf(f[x]) = p =>
             g[x].sid = IF j > 0 /\ x = c[j - 1] THEN c[j + 1] ELSE f[x].sid

\* So a child is taken out of the list at any place.
LEMMA ChainShrinks ==
  ASSUME NEW f, NEW g, NEW p \in Pid, NEW n, NEW c, ChainOf(f, p, n, c),
         NEW j \in 0 .. n - 1, UnlinkedAt(f, g, p, c, j)
  PROVE  HasChain(g, p)
<1>2. /\ n \in Nat /\ c \in [0 .. n -> Slot] /\ c[0] = f[p].cid /\ c[n] = 0
      /\ \A i \in 0 .. n - 1 : c[i] \in Pid /\ f[c[i]].sid = c[i + 1] /\ ParentOf(f[c[i]]) = p
      /\ \A i, l \in 0 .. n - 1 : c[i] = c[l] => i = l
      /\ \A x \in Pid : ParentOf(f[x]) = p => \E i \in 0 .. n - 1 : x = c[i]
  BY DEF ChainOf
<1>1. /\ ParentOf(g[c[j]]) # p
      /\ g[p].cid = IF j = 0 THEN c[1] ELSE f[p].cid
      /\ \A x \in Pid : x # c[j] =>
           /\ ParentOf(g[x]) = p <=> ParentOf(f[x]) = p
           /\ ParentOf(f[x]) = p =>
                g[x].sid = IF j > 0 /\ x = c[j - 1] THEN c[j + 1] ELSE f[x].sid
  BY DEF UnlinkedAt
<1> DEFINE m == n - 1
           d == [i \in 0 .. m |-> IF i < j THEN c[i] ELSE c[i + 1]]
<1>3. m \in Nat /\ n = m + 1 /\ j \in 0 .. m
  BY <1>2
<1>4. \A i \in 0 .. m : /\ i \in 0 .. n /\ i + 1 \in 0 .. n
                        /\ i < j => d[i] = c[i]
                        /\ ~(i < j) => d[i] = c[i + 1]
  BY <1>3
<1>5. d \in [0 .. m -> Slot]
  BY <1>2, <1>4
<1>6. d[m] = 0
  BY <1>2, <1>3, <1>4
<1>7. d[0] = g[p].cid
  BY <1>1, <1>2, <1>3, <1>4
<1> HIDE DEF d
<1>8. ASSUME NEW i \in 0 .. m - 1
      PROVE  d[i] \in Pid /\ g[d[i]].sid = d[i + 1] /\ ParentOf(g[d[i]]) = p
  <2>1. i \in 0 .. m /\ i + 1 \in 0 .. m /\ i \in 0 .. n - 1 /\ i + 1 \in 0 .. n - 1
    BY <1>3
  <2>2. CASE i < j
    <3>1. d[i] = c[i] /\ c[i] # c[j] /\ c[i] \in Pid /\ f[c[i]].sid = c[i + 1]
          /\ ParentOf(f[c[i]]) = p
      BY <1>2, <1>4, <2>1, <2>2
    <3>2. CASE i + 1 = j
      <4>1. j > 0 /\ j - 1 = i /\ d[i + 1] = c[j + 1]
        BY <1>3, <1>4, <2>1, <3>2
      <4> QED BY <1>1, <3>1, <4>1
    <3>3. CASE i + 1 # j
      <4>1. i + 1 < j /\ j - 1 \in 0 .. n - 1 /\ j - 1 # i
        BY <1>3, <2>2, <3>3
      <4>2. c[i] # c[j - 1] /\ d[i + 1] = c[i + 1]
        BY <1>2, <1>4, <2>1, <4>1
      <4> QED BY <1>1, <3>1, <4>2
    <3> QED BY <3>2, <3>3
  <2>3. CASE ~(i < j)
    <3>1. d[i] = c[i + 1] /\ d[i + 1] = c[(i + 1) + 1]
      BY <1>3, <1>4, <2>1, <2>3
    <3>2. /\ c[i + 1] # c[j] /\ c[i + 1] \in Pid /\ f[c[i + 1]].sid = c[(i + 1) + 1]
          /\ ParentOf(f[c[i + 1]]) = p
      BY <1>2, <1>3, <2>1, <2>3
    <3>3. j > 0 => c[i + 1] # c[j - 1]
      <4>1. j > 0 => j - 1 \in 0 .. n - 1 /\ j - 1 # i + 1
        BY <1>3, <2>3
      <4> QED BY <1>2, <2>1, <4>1
    <3> QED BY <1>1, <3>1, <3>2, <3>3
  <2> QED BY <2>2, <2>3
<1>9. ASSUME NEW i \in 0 .. m - 1, NEW l \in 0 .. m - 1, d[i] = d[l] PROVE i = l
  <2> DEFINE at(x) == IF x < j THEN x ELSE x + 1
  <2>1. \A x \in 0 .. m - 1 : at(x) \in 0 .. n - 1 /\ d[x] = c[at(x)]
    BY <1>3, <1>4
  <2>2. at(i) = at(l)
    BY <1>2, <1>9, <2>1
  <2> QED BY <1>3, <2>2
<1>10. ASSUME NEW x \in Pid, ParentOf(g[x]) = p PROVE \E i \in 0 .. m - 1 : x = d[i]
  <2>1. x # c[j]
    BY <1>1, <1>10
  <2>2. PICK i \in 0 .. n - 1 : x = c[i]
    BY <1>1, <1>2, <1>10, <2>1
  <2>3. i # j
    BY <2>1, <2>2
  <2>4. CASE i < j
    <3>1. i \in 0 .. m /\ i \in 0 .. m - 1
      BY <1>3, <2>4
    <3> QED BY <1>4, <2>2, <2>4, <3>1
  <2>5. CASE ~(i < j)
    <3>1. i - 1 \in 0 .. m /\ i - 1 \in 0 .. m - 1 /\ ~(i - 1 < j) /\ (i - 1) + 1 = i
      BY <1>3, <2>3, <2>5
    <3> QED BY <1>4, <2>2, <3>1
  <2> QED BY <2>4, <2>5
<1>11. ChainOf(g, p, m, d)
  BY <1>3, <1>5, <1>6, <1>7, <1>8, <1>9, <1>10 DEF ChainOf
<1> QED BY <1>11 DEF HasChain

\* While processes end, and orphans forget their parent, no list of a live
\* process changes.
LEMMA ListedKept ==
  ASSUME NEW f, NEW g, EndedIn(f, g), Listed(f), g[0].sid = f[0].sid,
         \A x \in Pid : g[x].state # "pUnused" =>
                          g[x].sid = f[x].sid /\ g[x].cid = f[x].cid
  PROVE  Listed(g)
<1>1. PICK S \in SUBSET Slot : EndedBy(S, f, g)
  BY DEF EndedIn
<1>2. ASSUME NEW p \in Pid, ~Gone(g[p]) PROVE HasChain(g, p)
  <2>1. p \in Slot /\ p # 0 /\ Pid \subseteq Slot
    BY SlotIsNat DEF Pid
  <2>2. StatusOf(g[p]) = "alive"
    BY <1>2 DEF StatusOf, Gone
  <2>3. p \notin S /\ StatusOf(f[p]) = "alive"
    BY <1>1, <2>1, <2>2 DEF EndedBy
  <2>4. HasChain(f, p) /\ g[p].cid = f[p].cid
    BY <1>2, <2>3 DEF Listed, StatusOf, Gone
  <2>5. ASSUME NEW q \in Pid
        PROVE  /\ ParentOf(g[q]) = p => ParentOf(f[q]) = p
               /\ ParentOf(f[q]) = p => ParentOf(g[q]) = p /\ g[q].sid = f[q].sid
    <3>1. ParentOf(g[q]) = p <=> ParentOf(f[q]) = p
      BY <1>1, <2>1, <2>3 DEF EndedBy
    <3>2. ParentOf(g[q]) = p => g[q].state # "pUnused"
      BY <2>1 DEF ParentOf
    <3> QED BY <3>1, <3>2
  <2> QED BY <2>4, <2>5, ChainKept
<1> QED BY <1>2 DEF Listed

\* A new process goes to the head of its parent's list and has none itself.
LEMMA ListedForked ==
  ASSUME NEW f, NEW g, NEW p \in Pid, NEW q \in Pid, p # q, Listed(f), Kin(f),
         ~Gone(f[p]), f[q].state = "pUnused", f[p].cid \in Slot,
         \A x \in Slot : x # q => /\ ParentOf(g[x]) = ParentOf(f[x])
                                  /\ g[x].sid = f[x].sid
                                  /\ x # p => g[x].cid = f[x].cid,
         ParentOf(g[q]) = p, g[p].cid = q, g[q].cid = 0,
         g[q].sid = IF f[p].cid # q THEN f[p].cid ELSE 0,
         \A x \in Slot : x # q => (Gone(g[x]) <=> Gone(f[x]))
  PROVE  Listed(g)
<1>1. Pid \subseteq Slot /\ 0 \in Slot /\ p # 0 /\ q # 0
  BY SlotIsNat, Zero DEF Pid
<1>2. \A x \in Slot : ParentOf(f[x]) # q
  BY <1>1 DEF Kin, Gone, ParentOf
<1>3. HasChain(f, p)
  BY DEF Listed
<1>4. ParentOf(f[q]) # p
  BY <1>1 DEF ParentOf
<1>5. f[p].cid # q
  <2>1. PICK n, c : ChainOf(f, p, n, c)
    BY <1>3 DEF HasChain
  <2>2. /\ n \in Nat /\ c[0] = f[p].cid /\ c[n] = 0
        /\ \A i \in 0 .. n - 1 : ParentOf(f[c[i]]) = p
    BY <2>1 DEF ChainOf
  <2>3. n # 0 => ParentOf(f[c[0]]) = p
    BY <2>2
  <2> QED BY <1>1, <1>4, <2>2, <2>3
<1>6. HasChain(g, p)
  BY <1>1, <1>3, <1>4, <1>5, ChainGrows
<1>7. HasChain(g, q)
  <2> DEFINE c == [i \in 0 .. 0 |-> 0]
  <2>1. c \in [0 .. 0 -> Slot] /\ c[0] = 0
    BY <1>1
  <2>2. \A x \in Pid : ParentOf(g[x]) # q
    BY <1>1, <1>2
  <2> HIDE DEF c
  <2>3. ChainOf(g, q, 0, c)
    BY <2>1, <2>2 DEF ChainOf
  <2> QED BY <2>3 DEF HasChain
<1>8. ASSUME NEW x \in Pid, x # p, x # q, ~Gone(g[x]) PROVE HasChain(g, x)
  <2>1. HasChain(f, x) /\ g[x].cid = f[x].cid
    BY <1>1, <1>8 DEF Listed
  <2>2. \A y \in Pid : ParentOf(f[y]) = x => y # q
    BY <1>1, <1>8 DEF ParentOf, Pid
  <2> QED BY <1>1, <1>8, <2>1, <2>2, ChainKept
<1>9. g[0].sid = 0
  BY <1>1 DEF Listed
<1> QED BY <1>6, <1>7, <1>8, <1>9 DEF Listed

\* AssignNewChild changes one link: that which leads to the child.
LEMMA AssignedLinks ==
  ASSUME NEW k \in Running, NEW p \in Pid, NEW n, NEW c, ChainOf(k.proc, p, n, c),
         k.proc[0].sid = 0, NEW j \in 0 .. n - 1
  PROVE  LET m == AssignNewChild(k, p, c[j])
         IN  /\ m.proc[p].cid = IF j = 0 THEN c[1] ELSE k.proc[p].cid
             /\ \A x \in Slot : x # p => m.proc[x].cid = k.proc[x].cid
             /\ \A x \in Slot : m.proc[x].sid = IF j > 0 /\ x = c[j - 1] THEN c[j + 1]
                                                ELSE k.proc[x].sid
<1> DEFINE f == k.proc
           q == c[j]
           before == {b \in Slot : b \in ChildList(k, p) /\ f[b].sid = q}
           m == AssignNewChild(k, p, q)
<1>1. /\ n \in Nat /\ c \in [0 .. n -> Slot] /\ c[0] = f[p].cid /\ c[n] = 0
      /\ \A i \in 0 .. n - 1 : c[i] \in Pid /\ f[c[i]].sid = c[i + 1]
      /\ \A i, l \in 0 .. n - 1 : c[i] = c[l] => i = l
  BY DEF ChainOf
<1>2. Pid \subseteq Slot /\ \A x \in Slot : f[x] \in Process
  BY SlotIsNat, ProcessOf
<1>3. ChildList(k, p) = {c[i] : i \in 0 .. n - 1}
  BY <1>2, ChainIsChildList
<1>4. j \in Nat /\ j + 1 \in Nat /\ q \in Pid /\ q # 0 /\ f[q].sid = c[j + 1]
  BY <1>1 DEF Pid
<1> DEFINE Links == /\ m.proc[p].cid = IF j = 0 THEN c[1] ELSE f[p].cid
                    /\ \A x \in Slot : x # p => m.proc[x].cid = f[x].cid
                    /\ \A x \in Slot : m.proc[x].sid = IF j > 0 /\ x = c[j - 1] THEN c[j + 1]
                                                       ELSE f[x].sid
<1>5. ASSUME j = 0 PROVE Links
  <2>1. m = [k EXCEPT !.proc[p].cid = f[q].sid]
    BY <1>1, <1>5, Zenon DEF AssignNewChild
  <2>2. f[q].sid = c[1]
    BY <1>4, <1>5
  <2>3. m = [k EXCEPT !.proc[p].cid = c[1]]
    BY <2>1, <2>2
  <2> HIDE DEF m
  <2> QED BY <1>2, <1>5, <2>3 DEF Running, KernelState, Process
<1>6. ASSUME j # 0 PROVE Links
  <2>1. f[p].cid # q /\ j > 0
    BY <1>1, <1>4, <1>6
  <2>2. j - 1 \in 0 .. n - 1 /\ (j - 1) + 1 = j
    BY <1>1, <1>4, <1>6
  <2> DEFINE b == c[j - 1]
  <2>3. b \in Slot /\ b \in ChildList(k, p) /\ f[b].sid = q
    BY <1>1, <1>2, <1>3, <2>2
  <2>4. ASSUME NEW x \in before PROVE x = b
    <3>1. PICK i \in 0 .. n - 1 : x = c[i]
      BY <1>3
    <3>2. c[i + 1] = q /\ i + 1 \in 0 .. n
      BY <1>1, <3>1, <2>4
    <3>3. i + 1 # n
      BY <1>1, <1>4, <3>2
    <3>4. i + 1 \in 0 .. n - 1
      BY <1>1, <3>2, <3>3
    <3>5. i + 1 = j
      BY <1>1, <3>2, <3>4
    <3>6. i = j - 1
      BY <1>1, <3>5
    <3> QED BY <3>1, <3>6
  <2>5. before = {b} /\ before # {}
    BY <2>3, <2>4
  <2>6. Least(before) = b
    <3>1. b \in Nat
      BY <2>3, SlotIsNat
    <3> HIDE DEF b, before
    <3>2. before \subseteq Nat /\ before # {}
      BY <2>5, <3>1
    <3> QED BY <2>5, <3>2, LeastIsMember
  <2>7. q \in ChildList(k, p)
    BY <1>3
  <2>8. m = [k EXCEPT !.proc[b].sid = c[j + 1]]
    <3> HIDE DEF b
    <3>1. m = [k EXCEPT !.proc[Least(before)].sid = f[q].sid]
      BY <2>1, <2>5, <2>7, Zenon DEF AssignNewChild, m, before, f, q
    <3> QED BY <1>4, <2>6, <3>1
  <2> HIDE DEF m
  <2> QED BY <1>2, <1>6, <2>1, <2>3, <2>8 DEF Running, KernelState, Process
<1> QED BY <1>5, <1>6

\* A reported child leaves the list of its parent, and the rest of it stays.
LEMMA ListedReaped ==
  ASSUME NEW k \in Running, NEW p \in Pid, NEW q \in Pid, NEW g, Listed(k.proc),
         ~Gone(k.proc[p]), k.proc[q].state = "pDead", k.proc[q].parent = p,
         \A x \in Slot :
           /\ g[x].sid = AssignNewChild(k, p, q).proc[x].sid
           /\ g[x].cid = AssignNewChild(k, p, q).proc[x].cid
           /\ g[x].parent = k.proc[x].parent
           /\ g[x].state = IF x = q THEN "pUnused" ELSE k.proc[x].state
  PROVE  Listed(g)
<1> DEFINE f == k.proc
           a == AssignNewChild(k, p, q)
<1>1. Pid \subseteq Slot /\ 0 \in Slot /\ p # 0 /\ q # 0 /\ 0 \notin Pid
  BY SlotIsNat, Zero DEF Pid
<1>2. PICK n, c : ChainOf(f, p, n, c)
  BY DEF Listed, HasChain
<1>3. ParentOf(f[q]) = p
  BY DEF ParentOf
<1>4. PICK j \in 0 .. n - 1 : q = c[j]
  BY <1>2, <1>3 DEF ChainOf
<1>5. f[0].sid = 0
  BY DEF Listed
<1>6. /\ a.proc[p].cid = IF j = 0 THEN c[1] ELSE f[p].cid
      /\ \A x \in Slot : x # p => a.proc[x].cid = f[x].cid
      /\ \A x \in Slot : a.proc[x].sid = IF j > 0 /\ x = c[j - 1] THEN c[j + 1]
                                         ELSE f[x].sid
  BY <1>2, <1>4, <1>5, AssignedLinks
<1> HIDE DEF a
<1>7. j > 0 => ParentOf(f[c[j - 1]]) = p /\ c[j - 1] \in Pid
  <2>1. n \in Nat /\ (j > 0 => j - 1 \in 0 .. n - 1)
    BY <1>2 DEF ChainOf
  <2> QED BY <1>2, <2>1 DEF ChainOf
<1>8. /\ \A x \in Slot : g[x].sid = a.proc[x].sid /\ g[x].cid = a.proc[x].cid
      /\ \A x \in Slot : x # q => ParentOf(g[x]) = ParentOf(f[x]) /\ (Gone(g[x]) <=> Gone(f[x]))
      /\ ParentOf(g[q]) = 0 /\ Gone(g[q])
  BY <1>1 DEF ParentOf, Gone, a
<1> HIDE DEF f
<1>9. HasChain(g, p)
  <2>1. g[p].cid = IF j = 0 THEN c[1] ELSE f[p].cid
    BY <1>1, <1>6, <1>8
  <2>2. ParentOf(g[c[j]]) # p
    BY <1>1, <1>4, <1>8
  <2>3. ASSUME NEW x \in Pid, x # c[j]
        PROVE  /\ ParentOf(g[x]) = p <=> ParentOf(f[x]) = p
               /\ ParentOf(f[x]) = p =>
                    g[x].sid = IF j > 0 /\ x = c[j - 1] THEN c[j + 1] ELSE f[x].sid
    BY <1>1, <1>4, <1>6, <1>8, <2>3
  <2>4. UnlinkedAt(f, g, p, c, j)
    BY <2>1, <2>2, <2>3 DEF UnlinkedAt
  <2> QED BY <1>2, <2>4, ChainShrinks
<1>10. ASSUME NEW x \in Pid, x # p, ~Gone(g[x]) PROVE HasChain(g, x)
  <2>1. x \in Slot /\ x # q /\ ~Gone(f[x]) /\ x # 0
    BY <1>1, <1>8, <1>10
  <2>2. HasChain(f, x) /\ g[x].cid = f[x].cid
    BY <1>6, <1>8, <1>10, <2>1 DEF Listed, f
  <2>3. ASSUME NEW y \in Pid
        PROVE  /\ ParentOf(g[y]) = x => ParentOf(f[y]) = x
               /\ ParentOf(f[y]) = x => ParentOf(g[y]) = x /\ g[y].sid = f[y].sid
    <3>1. CASE y = q
      BY <1>3, <1>8, <1>10, <2>1, <3>1 DEF f
    <3>2. CASE y # q
      <4>1. ParentOf(f[y]) = x => ~(j > 0 /\ y = c[j - 1])
        BY <1>7, <1>10
      <4> QED BY <1>1, <1>6, <1>8, <3>2, <4>1
    <3> QED BY <3>1, <3>2
  <2> QED BY <2>2, <2>3, ChainKept
<1>11. g[0].sid = 0
  BY <1>1, <1>5, <1>6, <1>7, <1>8 DEF f
<1> QED BY <1>9, <1>10, <1>11 DEF Listed

-----------------------------------------------------------------------------
\* Whoever waits has a child.
Waiters(f) == \A p \in Pid : f[p].state = "pWaiting" => \E q \in Pid : ParentOf(f[q]) = p

\* The kernel states that a step of the main loop may make of k0.
Lives(k0) == {k \in Family : /\ Life(k0.proc, k.proc)
                             /\ Waiters(k0.proc) => Waiters(k.proc)
                             /\ Listed(k0.proc) => Listed(k.proc)
                             /\ HostAsleep(k) => HostAsleep(k0)}

\* As long as nobody begins to wait no waiting process is left alone: its
\* children end, but their ends are not reported.
LEMMA WaitersKept ==
  ASSUME NEW f, NEW g, EndedIn(f, g), Calm(f, g), Waiters(f)
  PROVE  Waiters(g)
<1>1. PICK S \in SUBSET Slot : EndedBy(S, f, g)
  BY DEF EndedIn
<1>2. ASSUME NEW p \in Pid, g[p].state = "pWaiting"
      PROVE  \E q \in Pid : ParentOf(g[q]) = p
  <2>1. p \in Slot /\ p # 0 /\ Pid \subseteq Slot
    BY SlotIsNat DEF Pid
  <2>2. f[p].state = "pWaiting"
    BY <1>2, <2>1 DEF Calm
  <2>3. PICK q \in Pid : ParentOf(f[q]) = p
    BY <2>2 DEF Waiters
  <2>4. StatusOf(g[p]) = "alive"
    BY <1>2 DEF StatusOf
  <2>5. p \notin S
    BY <1>1, <2>1, <2>4 DEF EndedBy
  <2> QED BY <1>1, <2>1, <2>3, <2>5 DEF EndedBy
<1> QED BY <1>2 DEF Waiters

\* What the functions of procstuff.c do a step may do.
LEMMA FromLives ==
  ASSUME NEW k0, NEW k \in From(k0)
  PROVE  k \in Lives(k0)
<1>1. k \in Family /\ EndedIn(k0.proc, k.proc) /\ Calm(k0.proc, k.proc)
  BY DEF From, Kept
<1>2. HostAsleep(k) => HostAsleep(k0)
  BY <1>1, HostSlot DEF HostAsleep, From, Kept, Calm
<1>3. Listed(k0.proc) => Listed(k.proc)
  <2>1. \A x \in Slot : k.proc[x].sid = k0.proc[x].sid /\ k.proc[x].cid = k0.proc[x].cid
    BY DEF From, Kept
  <2> QED BY <1>1, <2>1, SlotIsNat, Zero, ListedKept
<1> QED BY <1>1, <1>2, <1>3, WaitersKept DEF Lives, Life

\* A descriptor that is nobody's parent may be freed.
LEMMA FreeFamily ==
  ASSUME NEW k \in Family, NEW q \in Slot,
         \A x \in Slot : k.proc[x].state # "pUnused" => k.proc[x].parent # q
  PROVE  LET m == [k EXCEPT !.proc[q].state = "pUnused"]
         IN  /\ m \in Family
             /\ \A x \in Slot : /\ AlikeExcept(k.proc[x], m.proc[x])
                                /\ m.proc[x].parent = k.proc[x].parent
                                /\ m.proc[x].state = IF x = q THEN "pUnused" ELSE k.proc[x].state
<1> DEFINE f == k.proc
           s == [f[q] EXCEPT !.state = "pUnused"]
           m == [k EXCEPT !.proc[q] = s]
           g == m.proc
<1>1. /\ k \in Running /\ Kin(f) /\ NoKillQueued(k) /\ HostAlone(k)
      /\ \A x \in Slot : Sound(f[x]) /\ f[x] \in Process
  BY FromSelf, FromFacts
<1>2. s \in Process
  BY <1>1, UpdateProcess DEF PState
<1>3. AlikeExcept(f[q], s) /\ s.parent = f[q].parent /\ s.state = "pUnused"
  <2>1. f[q] \in Process
    BY <1>1
  <2> HIDE DEF f
  <2> QED BY <2>1, Zenon DEF Process, AlikeExcept
<1> HIDE DEF s
<1>4. m \in Running /\ m.queue = k.queue /\ m.currentpid = k.currentpid
  BY <1>1, <1>2, SetProcess DEF Running, KernelState
<1>5. \A x \in Slot : g[x] = IF x = q THEN s ELSE f[x]
  BY <1>1 DEF Running, KernelState
<1>6. \A x \in Slot : f[x].parent \in Slot
  BY <1>1, ProcessFields
<1> HIDE DEF m, f, g
<1>7. Kin(g)
  BY <1>1, <1>3, <1>5, <1>6, Zero DEF Kin, Gone, AlikeExcept, f
<1>8. \A x \in Slot : Sound(g[x])
  BY <1>1, <1>3, <1>5 DEF Sound, Gone
<1>9. \A x \in Slot : AlikeExcept(f[x], f[x])
  BY DEF AlikeExcept
<1>10. \A x \in Slot : /\ AlikeExcept(f[x], g[x]) /\ g[x].parent = f[x].parent
                       /\ g[x].state = IF x = q THEN "pUnused" ELSE f[x].state
  BY <1>3, <1>5, <1>9
<1>11. HostAlone(m)
  BY <1>1, <1>4, <1>10, HostSlot DEF HostAlone, HostAsleep, AlikeExcept, f, g
<1>12. m \in Family
  BY <1>1, <1>4, <1>7, <1>8, <1>11 DEF Family, FamilyInv, NoKillQueued, g
<1> QED BY <1>10, <1>12 DEF m, s, f, g

\* A change of links.
LinkedIn(k, m) ==
  /\ m.queue = k.queue /\ m.currentpid = k.currentpid
  /\ \A x \in Slot : /\ m.proc[x].state = k.proc[x].state
                     /\ m.proc[x].parent = k.proc[x].parent
                     /\ m.proc[x].code = k.proc[x].code
                     /\ m.proc[x].wakeUpTick = k.proc[x].wakeUpTick
                     /\ m.proc[x].signal = k.proc[x].signal
                     /\ m.proc[x].rtestate = k.proc[x].rtestate
                     /\ m.proc[x].saved_state = k.proc[x].saved_state
                     /\ m.proc[x].icpt_pid = k.proc[x].icpt_pid

\* The links between siblings are read by nothing else.
LEMMA LinkFields ==
  ASSUME NEW k \in Running, NEW p \in Slot, NEW y
  PROVE  /\ LET m == [k EXCEPT !.proc[p].sid = y]
            IN  /\ LinkedIn(k, m)
                /\ \A x \in Slot : /\ m.proc[x].sid = IF x = p THEN y ELSE k.proc[x].sid
                                   /\ m.proc[x].cid = k.proc[x].cid
         /\ LET m == [k EXCEPT !.proc[p].cid = y]
            IN  /\ LinkedIn(k, m)
                /\ \A x \in Slot : /\ m.proc[x].cid = IF x = p THEN y ELSE k.proc[x].cid
                                   /\ m.proc[x].sid = k.proc[x].sid
BY DEF Running, KernelState, Process, LinkedIn

LEMMA LinkedFamily ==
  ASSUME NEW k \in Family, NEW m \in Running, LinkedIn(k, m)
  PROVE  m \in Family
<1>1. FamilyInv(k) /\ \A x \in Slot : k.proc[x].parent \in Slot
  BY ProcessOf, ProcessFields DEF Family
<1>2. Kin(m.proc)
  BY <1>1, Zero DEF FamilyInv, Kin, Gone, LinkedIn
<1>3. \A x \in Slot : Sound(m.proc[x])
  BY <1>1 DEF FamilyInv, Sound, Gone, LinkedIn
<1>4. HostAlone(m)
  BY <1>1, HostSlot DEF FamilyInv, HostAlone, HostAsleep, LinkedIn
<1> QED BY <1>1, <1>2, <1>3, <1>4 DEF Family, FamilyInv, NoKillQueued, LinkedIn

\* Taking a child out of the list changes links only.
LEMMA AssignNewChildFamily ==
  ASSUME NEW k \in Family, NEW p \in Slot, NEW q \in Slot
  PROVE  AssignNewChild(k, p, q) \in Family /\ LinkedIn(k, AssignNewChild(k, p, q))
<1> DEFINE before == {b \in Slot : b \in ChildList(k, p) /\ k.proc[b].sid = q}
           sib == k.proc[q].sid
           m1 == [k EXCEPT !.proc[p].cid = sib]
           m2 == [k EXCEPT !.proc[Least(before)].sid = sib]
<1>1. k \in Running /\ sib \in Slot
  BY ProcessOf, ProcessFields DEF Family
<1>2. before # {} => Least(before) \in Slot
  <2>1. before \subseteq Slot
    OBVIOUS
  <2> HIDE DEF before
  <2> QED BY <2>1, LeastIsMember, SlotIsNat
<1>3. AssignNewChild(k, p, q) = k \/ AssignNewChild(k, p, q) = m1
      \/ (before # {} /\ AssignNewChild(k, p, q) = m2)
  BY Zenon DEF AssignNewChild
<1> HIDE DEF before, sib
<1>4. m1 \in Running /\ LinkedIn(k, m1)
  BY <1>1, UpdateKernel, LinkFields
<1>5. before # {} => m2 \in Running /\ LinkedIn(k, m2)
  BY <1>1, <1>2, UpdateKernel, LinkFields
<1> HIDE DEF m1, m2
<1>6. LinkedIn(k, k)
  BY DEF LinkedIn
<1> QED BY <1>3, <1>4, <1>5, <1>6, LinkedFamily

\* A dead child is nobody's parent, so that reporting it is safe; it leaves the
\* list of its parent.
LEMMA ReapFamily ==
  ASSUME NEW k \in Family, NEW p \in Slot, NEW q \in Slot, k.proc[q].state = "pDead"
  PROVE  LET m == Reap(k, p, q)
         IN  /\ m \in Family
             /\ \A x \in Slot : /\ m.proc[x].code = k.proc[x].code
                                /\ m.proc[x].parent = k.proc[x].parent
                                /\ m.proc[x].state = IF x = q THEN "pUnused" ELSE k.proc[x].state
             /\ k.proc[q].parent = p => (Listed(k.proc) => Listed(m.proc))
<1> DEFINE a == AssignNewChild(k, p, q)
           m == [a EXCEPT !.proc[q].state = "pUnused"]
<1>1. a \in Family /\ LinkedIn(k, a) /\ Kin(k.proc) /\ k \in Running
  BY AssignNewChildFamily DEF Family, FamilyInv
<1> HIDE DEF a
<1>2. /\ Kin(a.proc)
      /\ \A x \in Slot : /\ a.proc[x].state = k.proc[x].state
                         /\ a.proc[x].parent = k.proc[x].parent
                         /\ a.proc[x].code = k.proc[x].code
  BY <1>1 DEF Family, FamilyInv, LinkedIn
<1>3. a.proc[q].state = "pDead"
  BY <1>2
<1>4. \A x \in Slot : a.proc[x].state # "pUnused" => a.proc[x].parent # q
  BY <1>2, <1>3, Zero DEF Kin, Gone
<1>5. /\ m \in Family
      /\ \A x \in Slot : /\ AlikeExcept(a.proc[x], m.proc[x])
                         /\ m.proc[x].parent = a.proc[x].parent
                         /\ m.proc[x].state = IF x = q THEN "pUnused" ELSE a.proc[x].state
  BY <1>1, <1>4, FreeFamily
<1> HIDE DEF m
<1>6. Reap(k, p, q) = m
  BY Zenon DEF Reap, m, a
<1>7. \A x \in Slot : /\ m.proc[x].code = k.proc[x].code
                      /\ m.proc[x].parent = k.proc[x].parent
                      /\ m.proc[x].state = IF x = q THEN "pUnused" ELSE k.proc[x].state
                      /\ m.proc[x].sid = a.proc[x].sid
                      /\ m.proc[x].cid = a.proc[x].cid
  BY <1>2, <1>5 DEF AlikeExcept
<1>8. ASSUME k.proc[q].parent = p, Listed(k.proc) PROVE Listed(m.proc)
  <2>1. p # 0 /\ q # 0 /\ ~Gone(k.proc[p])
    BY <1>1, <1>8, Zero DEF Kin
  <2>2. p \in Pid /\ q \in Pid
    BY <2>1 DEF Pid, Slot
  <2> QED BY <1>1, <1>7, <1>8, <2>1, <2>2, ListedReaped DEF a
<1> QED BY <1>5, <1>6, <1>7, <1>8

\* Queueing a signal leaves the states alone.
LEMMA EnqueueFrom ==
  ASSUME NEW k0, NEW k \in From(k0), NEW t \in Slot, ~Gone(k.proc[t]),
         NEW sig \in Nat \ {S_Kill}, NEW async \in BOOLEAN
  PROVE  /\ Enqueue(k, t, sig, async) \in From(k0)
         /\ \A x \in Slot : Enqueue(k, t, sig, async).proc[x].state = k.proc[x].state
<1> DEFINE b == k.proc[t].pwr_brk \/ (ReadBlocked(k.proc[t]) /\ sig <= Pwr_Signal)
           m == [k EXCEPT !.proc[t].pwr_brk = b]
           q == Store(k.queue, t, sig)
           d == k.pending \/ ~async
           n == [m EXCEPT !.queue = q, !.pending = d]
<1>1. k \in Running /\ NoKillQueued(k) /\ Kin(k.proc)
  BY FromFacts
<1>2. t \in Nat \ {S_Kill}
  BY <1>1, SlotIsNat DEF Kin, Gone, S_Kill
<1>3. q \in Seq(Entry(Nat \ {S_Kill}))
  BY <1>1, <1>2, StoreType DEF NoKillQueued
<1>4. b \in BOOLEAN /\ d \in BOOLEAN
  BY <1>1, ProcessOf, ProcessFields, QueueOf DEF ReadBlocked
<1> HIDE DEF b, q, d
<1>5. m \in From(k0)
  BY <1>4, UpdateFrom
<1>6. \A x \in Slot : m.proc[x].state = k.proc[x].state
  BY <1>1 DEF Running, KernelState, Process
<1> HIDE DEF m
<1>7. n \in From(k0)
  BY <1>3, <1>4, <1>5, SetQueueFrom
<1>8. n.proc = m.proc
  <2>1. m \in Running
    BY <1>5, FromFacts
  <2> QED BY <2>1, Zenon DEF Running, KernelState
<1>9. Enqueue(k, t, sig, async) = k \/ Enqueue(k, t, sig, async) = n
  BY Zenon DEF Enqueue, n, m, b, q, d
<1> HIDE DEF n
<1> QED BY <1>6, <1>7, <1>8, <1>9

\* Assignments to different fields of a descriptor may change places.
LEMMA CommuteFields ==
  ASSUME NEW r \in Process, NEW x, NEW y, NEW z
  PROVE  [[[r EXCEPT !.icpt_pid = x] EXCEPT !.icpt_signal = z] EXCEPT !.state = y]
       = [[[r EXCEPT !.state = y] EXCEPT !.icpt_pid = x] EXCEPT !.icpt_signal = z]
BY Zenon DEF Process

\* A kernel state is its processes and four more fields.
LEMMA SameState ==
  ASSUME NEW k \in Running, NEW m \in Running, \A q \in Slot : k.proc[q] = m.proc[q],
         k.currentpid = m.currentpid, k.arbitrate = m.arbitrate,
         k.pending = m.pending, k.queue = m.queue
  PROVE  k = m
<1>1. k.proc = m.proc
  BY DEF Running, KernelState
<1> QED BY <1>1 DEF Running, KernelState

Noted(k, c, t, sig) ==
  [[k EXCEPT !.proc[c].icpt_pid = t] EXCEPT !.proc[c].icpt_signal = sig]
MadeActive(k, t) == [k EXCEPT !.proc[t].state = "pActive"]

\* send_signal notes the target before it wakes it; it might as well do that
\* afterwards.
LEMMA NotedLater ==
  ASSUME NEW k \in Running, NEW c \in Slot, NEW t \in Slot, NEW x \in Slot, NEW z \in Nat
  PROVE  MadeActive(Noted(k, c, x, z), t) = Noted(MadeActive(k, t), c, x, z)
<1> DEFINE y == "pActive"
           a1 == [k EXCEPT !.proc[c].icpt_pid = x]
           a2 == [a1 EXCEPT !.proc[c].icpt_signal = z]
           a3 == [a2 EXCEPT !.proc[t].state = y]
           b1 == [k EXCEPT !.proc[t].state = y]
           b2 == [b1 EXCEPT !.proc[c].icpt_pid = x]
           b3 == [b2 EXCEPT !.proc[c].icpt_signal = z]
<1>0. y \in PState
  BY DEF PState
<1> HIDE DEF y
<1>1. a1 \in Running /\ b1 \in Running
  BY <1>0, UpdateKernel
<1>2. /\ \A q \in Slot : a1.proc[q] = IF q = c THEN [k.proc[c] EXCEPT !.icpt_pid = x] ELSE k.proc[q]
      /\ \A q \in Slot : b1.proc[q] = IF q = t THEN [k.proc[t] EXCEPT !.state = y] ELSE k.proc[q]
      /\ a1.currentpid = k.currentpid /\ a1.arbitrate = k.arbitrate
      /\ a1.pending = k.pending /\ a1.queue = k.queue
      /\ b1.currentpid = k.currentpid /\ b1.arbitrate = k.arbitrate
      /\ b1.pending = k.pending /\ b1.queue = k.queue
  BY DEF Running, KernelState
<1> HIDE DEF a1, b1
<1>3. a2 \in Running /\ b2 \in Running
  BY <1>0, <1>1, UpdateKernel
<1>4. /\ \A q \in Slot : a2.proc[q] =
             IF q = c THEN [a1.proc[c] EXCEPT !.icpt_signal = z] ELSE a1.proc[q]
      /\ \A q \in Slot : b2.proc[q] =
             IF q = c THEN [b1.proc[c] EXCEPT !.icpt_pid = x] ELSE b1.proc[q]
      /\ a2.currentpid = a1.currentpid /\ a2.arbitrate = a1.arbitrate
      /\ a2.pending = a1.pending /\ a2.queue = a1.queue
      /\ b2.currentpid = b1.currentpid /\ b2.arbitrate = b1.arbitrate
      /\ b2.pending = b1.pending /\ b2.queue = b1.queue
  BY <1>1 DEF Running, KernelState
<1> HIDE DEF a2, b2
<1>5. a3 \in Running /\ b3 \in Running
  BY <1>0, <1>3, UpdateKernel
<1>6. /\ \A q \in Slot : a3.proc[q] = IF q = t THEN [a2.proc[t] EXCEPT !.state = y] ELSE a2.proc[q]
      /\ \A q \in Slot : b3.proc[q] =
             IF q = c THEN [b2.proc[c] EXCEPT !.icpt_signal = z] ELSE b2.proc[q]
      /\ a3.currentpid = a2.currentpid /\ a3.arbitrate = a2.arbitrate
      /\ a3.pending = a2.pending /\ a3.queue = a2.queue
      /\ b3.currentpid = b2.currentpid /\ b3.arbitrate = b2.arbitrate
      /\ b3.pending = b2.pending /\ b3.queue = b2.queue
  BY <1>3 DEF Running, KernelState
<1> HIDE DEF a3, b3
<1>7. ASSUME NEW q \in Slot PROVE a3.proc[q] = b3.proc[q]
  <2>1. CASE c = t
    <3>1. /\ a1.proc[t] = [k.proc[t] EXCEPT !.icpt_pid = x]
          /\ a2.proc[t] = [a1.proc[t] EXCEPT !.icpt_signal = z]
          /\ a3.proc[t] = [a2.proc[t] EXCEPT !.state = y]
      BY <2>1, <1>2, <1>4, <1>6, Zenon
    <3>2. /\ b1.proc[t] = [k.proc[t] EXCEPT !.state = y]
          /\ b2.proc[t] = [b1.proc[t] EXCEPT !.icpt_pid = x]
          /\ b3.proc[t] = [b2.proc[t] EXCEPT !.icpt_signal = z]
      BY <2>1, <1>2, <1>4, <1>6, Zenon
    <3> DEFINE r == k.proc[t]
    <3>4. /\ a3.proc[t] = [[[r EXCEPT !.icpt_pid = x] EXCEPT !.icpt_signal = z] EXCEPT !.state = y]
          /\ b3.proc[t] = [[[r EXCEPT !.state = y] EXCEPT !.icpt_pid = x] EXCEPT !.icpt_signal = z]
          /\ r \in Process
      BY <3>1, <3>2, ProcessOf, Zenon
    <3> HIDE DEF r
    <3>5. [[[r EXCEPT !.icpt_pid = x] EXCEPT !.icpt_signal = z] EXCEPT !.state = y]
        = [[[r EXCEPT !.state = y] EXCEPT !.icpt_pid = x] EXCEPT !.icpt_signal = z]
      BY <3>4, CommuteFields
    <3>3. a3.proc[t] = b3.proc[t]
      BY <3>4, <3>5, Zenon
    <3> QED BY <2>1, <3>3, <1>2, <1>4, <1>6
  <2>2. CASE c # t
    BY <2>2, <1>2, <1>4, <1>6
  <2> QED BY <2>1, <2>2
<1>8. a3 = b3
  BY <1>2, <1>4, <1>5, <1>6, <1>7, SameState
<1> QED BY <1>8, Zenon DEF a3, a2, a1, b3, b2, b1, y, Noted, MadeActive

\* The first part of a delivery keeps the target alive.
LEMMA WakeupFrom ==
  ASSUME NEW k0, NEW k \in From(k0), NEW t \in Slot, ~Gone(k.proc[t]), NEW sig \in Nat
  PROVE  Wakeup(k, t, sig) \in From(k0) /\ ~Gone(Wakeup(k, t, sig).proc[t])
<1> DEFINE c == Sender(k, t)
           b == PwrBrkAfter(k.proc[t], sig)
           n1 == [k EXCEPT !.proc[t].pwr_brk = b]
           n2 == [n1 EXCEPT !.proc[c].icpt_pid = t]
           n3 == [n2 EXCEPT !.proc[c].icpt_signal = sig]
           n4 == [n3 EXCEPT !.proc[t].state = "pActive"]
           n5 == [n4 EXCEPT !.proc[t].way_to_icpt = TRUE]
           n6 == [n5 EXCEPT !.proc[c].way_to_icpt = TRUE]
           first == k.currentpid = 0 /\ sig = S_Wake
           n7 == [n6 EXCEPT !.currentpid = IF first THEN t ELSE k.currentpid,
                            !.arbitrate = first]
<1>1. c \in Slot /\ b \in BOOLEAN /\ first \in BOOLEAN /\ k \in Running
  BY FromFacts, SenderType, ProcessFields DEF PwrBrkAfter
<1> HIDE DEF c, b, first
<1>2. n1 \in From(k0) /\ n1.proc[t].state = k.proc[t].state
  BY <1>1, UpdateFrom, UpdateStates
<1> HIDE DEF n1
<1>3. ASSUME k.proc[t].state # "pSleeping" PROVE n3 \in From(k0) /\ ~Gone(n3.proc[t])
  <2>1. t # KernelPid \/ ~HostAsleep(n1)
    BY <1>2, <1>3 DEF HostAsleep
  <2>2. n2 \in From(k0) /\ n2.proc[t].state = n1.proc[t].state
    BY <1>1, <1>2, <2>1, FromFacts, UpdateFrom, UpdateStates
  <2> HIDE DEF n2
  <2>3. n3 \in From(k0) /\ n3.proc[t].state = n2.proc[t].state
    BY <1>1, <2>2, FromFacts, UpdateFrom, UpdateStates
  <2> QED BY <1>2, <2>2, <2>3 DEF Gone
<1> DEFINE a2 == [n1 EXCEPT !.proc[t].state = "pActive"]
           a3 == [a2 EXCEPT !.proc[c].icpt_pid = t]
           a4 == [a3 EXCEPT !.proc[c].icpt_signal = sig]
<1>4. n4 = a4
  <2>1. MadeActive(Noted(n1, c, t, sig), t) = Noted(MadeActive(n1, t), c, t, sig)
    BY <1>1, <1>2, FromFacts, NotedLater
  <2> QED BY <2>1, Zenon DEF MadeActive, Noted
<1>5. a2 \in From(k0) /\ a2.proc[t].state = "pActive"
  <2>1. n1 \in Running /\ ~Gone(n1.proc[t])
    BY <1>2, FromFacts DEF Gone
  <2>2. a2.proc[t].state = "pActive"
    BY <2>1 DEF Running, KernelState, Process
  <2> QED BY <1>2, <2>1, <2>2, WakeFrom
<1> HIDE DEF a2
<1>6. n4 \in From(k0) /\ n4.proc[t].state = "pActive"
  <2>1. t # KernelPid \/ ~HostAsleep(a2)
    BY <1>5 DEF HostAsleep
  <2>2. a3 \in From(k0) /\ a3.proc[t].state = a2.proc[t].state
    BY <1>1, <1>5, <2>1, FromFacts, UpdateFrom, UpdateStates
  <2> HIDE DEF a3
  <2>3. a4 \in From(k0) /\ a4.proc[t].state = a3.proc[t].state
    BY <1>1, <2>2, FromFacts, UpdateFrom, UpdateStates
  <2> HIDE DEF a4, n4
  <2> QED BY <1>4, <1>5, <2>2, <2>3
<1> HIDE DEF n4
<1>7. n5 \in From(k0) /\ n5.proc[t].state = n4.proc[t].state
  <2>1. n4 \in Running
    BY <1>6, FromFacts
  <2>2. n5.proc[t].state = n4.proc[t].state
    BY <2>1 DEF Running, KernelState, Process
  <2> QED BY <1>6, <2>2, UpdateFrom
<1> HIDE DEF n5
<1>8. n6 \in From(k0) /\ n6.proc[t].state = n5.proc[t].state /\ n6.currentpid = k.currentpid
  <2>1. n5 \in Running
    BY <1>7, FromFacts
  <2>2. n6.proc[t].state = n5.proc[t].state
    BY <1>1, <2>1 DEF Running, KernelState, Process
  <2>3. n6.currentpid = k.currentpid
    BY DEF n6, n5, n4, n3, n2, n1
  <2> QED BY <1>1, <1>7, <2>2, <2>3, UpdateFrom
<1> HIDE DEF n6
<1>9. n7 \in From(k0) /\ n7.proc = n6.proc
  <2> DEFINE cur == IF first THEN t ELSE k.currentpid
  <2>1. cur \in Slot
    BY <1>1, QueueOf
  <2> HIDE DEF cur
  <2>2. n6 \in Running
    BY <1>8, FromFacts
  <2>3. [n6 EXCEPT !.currentpid = cur, !.arbitrate = first] \in From(k0)
    <3>1. cur # KernelPid \/ ~HostAsleep(n6)
      <4>1. HostAlone(n6) /\ n6.proc[t].state = "pActive"
        BY <1>6, <1>7, <1>8, FromFacts
      <4> QED BY <1>8, <4>1 DEF cur, HostAlone, HostAsleep
    <3> QED BY <1>1, <1>8, <2>1, <3>1, SetCurrentFrom
  <2>4. [n6 EXCEPT !.currentpid = cur, !.arbitrate = first].proc = n6.proc
    BY <2>2, Zenon DEF Running, KernelState
  <2> QED BY <2>3, <2>4 DEF cur
<1> HIDE DEF n7
<1>10. ~Gone(n7.proc[t])
  BY <1>6, <1>7, <1>8, <1>9 DEF Gone
<1>11. \/ k.proc[t].state # "pSleeping" /\ Wakeup(k, t, sig) = n3
       \/ Wakeup(k, t, sig) = n7
  BY Zenon DEF Wakeup, n7, n6, n5, n4, n3, n2, n1, b, c, first
<1> QED BY <1>3, <1>9, <1>10, <1>11

\* On the way to the intercept routine the state to come back to is one in
\* which the process runs or reads.
LEMMA InterceptFrom ==
  ASSUME NEW k0, NEW k \in From(k0), NEW t \in Slot, ~Gone(k.proc[t]),
         NEW sig \in Nat, NEW c \in Slot
  PROVE  Intercept(k, t, sig, c) \in From(k0)
<1> DEFINE back == ReturnState(k.proc[t])
           first == k.currentpid = 0
           n1 == [k EXCEPT !.proc[c].way_to_icpt = TRUE]
           r0 == n1.proc[t]
           r == [r0 EXCEPT !.way_to_icpt = TRUE, !.signal = sig,
                           !.icpt_signal = sig, !.rtestate = back, !.state = "pActive"]
           n2 == [n1 EXCEPT !.proc[t] = r]
           cur == IF first THEN t ELSE k.currentpid
           n3 == [n2 EXCEPT !.currentpid = cur, !.arbitrate = first]
<1>1. first \in BOOLEAN /\ k \in Running
  BY FromFacts
<1> HIDE DEF first
<1>2. /\ n1 \in From(k0) /\ r0.state = k.proc[t].state
      /\ r0 \in Process /\ Sound(r0) /\ n1.currentpid = k.currentpid
  <2>1. n1 \in From(k0)
    BY UpdateFrom
  <2>2. n1.proc[t].state = k.proc[t].state /\ n1.currentpid = k.currentpid
    BY <1>1 DEF Running, KernelState, Process
  <2> HIDE DEF n1
  <2> QED BY <2>1, <2>2, FromFacts
<1>3. back \in {"pActive", "pWaitRead"} /\ (back = "pWaitRead" => r0.state = "pWaitRead")
  BY <1>2 DEF ReturnState
<1> HIDE DEF back, r0
<1>4. /\ r.state = "pActive" /\ r.rtestate = back /\ r.signal = sig
      /\ r.code = r0.code /\ r.parent = r0.parent /\ r.wakeUpTick = r0.wakeUpTick
      /\ r.sid = r0.sid /\ r.cid = r0.cid
      /\ r.saved_state = r0.saved_state /\ r.icpt_pid = r0.icpt_pid
  BY <1>2, Zenon DEF Process
<1>5. r \in Process
  <2>1. back \in PState /\ "pActive" \in PState
    BY <1>3 DEF PState
  <2> QED BY <1>2, <2>1, Zenon DEF Process
<1> HIDE DEF r
<1>6. Sound(r) /\ ~Gone(r)
  BY <1>2, <1>3, <1>4 DEF Sound, Gone
<1>7. n2 \in From(k0)
  BY <1>2, <1>4, <1>5, <1>6, SameProcess, Zenon DEF r0, Gone
<1>8. n2.proc[t].state = "pActive" /\ n2.currentpid = k.currentpid
  BY <1>2, <1>4, FromFacts DEF Running, KernelState
<1> HIDE DEF n2
<1>9. cur \in Slot /\ (cur # KernelPid \/ ~HostAsleep(n2))
  <2>1. HostAlone(n2)
    BY <1>7, FromFacts
  <2> QED BY <1>1, <1>8, <2>1, QueueOf DEF HostAlone, HostAsleep
<1> HIDE DEF cur
<1>10. n3 \in From(k0)
  BY <1>1, <1>7, <1>9, SetCurrentFrom
<1> HIDE DEF n3
<1> QED BY <1>10, Zenon DEF Intercept, n3, n2, r, r0, n1, back, first, cur

\* A process without an intercept routine dies of the signal.
LEMMA AbortFrom ==
  ASSUME NEW k0, NEW k \in From(k0), NEW t \in Slot, ~Gone(k.proc[t]),
         NEW sig \in Nat, NEW c \in Slot
  PROVE  Abort(k, t, sig, c) \in From(k0)
<1> DEFINE s == [k.proc[t] EXCEPT !.signal = sig]
           n1 == [k EXCEPT !.proc[t] = s]
           n2 == [n1 EXCEPT !.arbitrate = FALSE]
           dead == KillProcess(n2, t)
           n3 == [dead EXCEPT !.proc[t].way_to_icpt = FALSE]
           n4 == [n3 EXCEPT !.proc[c].way_to_icpt = FALSE]
<1>1. /\ k \in Running /\ Kin(k.proc) /\ NoKillQueued(k) /\ HostAlone(k)
      /\ \A q \in Slot : Sound(k.proc[q])
  BY FromFacts
<1>2. /\ s \in Process /\ s.code = k.proc[t].code /\ s.parent = k.proc[t].parent
      /\ s.sid = k.proc[t].sid /\ s.cid = k.proc[t].cid
      /\ s.wakeUpTick = k.proc[t].wakeUpTick /\ s.state = k.proc[t].state
      /\ s.icpt_pid = k.proc[t].icpt_pid
  BY <1>1, ProcessOf, UpdateProcess DEF Process
<1> HIDE DEF s
<1>3. n1 \in Running /\ n1.queue = k.queue /\ n1.currentpid = k.currentpid
      /\ \A q \in Slot : n1.proc[q] = IF q = t THEN s ELSE k.proc[q]
  BY <1>1, <1>2, SetProcess DEF Running, KernelState
<1> HIDE DEF n1
<1>4. /\ n2.queue = k.queue /\ n2.proc = n1.proc /\ n2.currentpid = k.currentpid
      /\ n2 \in Running
  BY <1>3, Zenon DEF Running, KernelState
<1> HIDE DEF n2
<1>5. Kin(n2.proc)
  <2>1. \A q \in Slot : k.proc[q].parent \in Slot
    BY <1>1, ProcessOf, ProcessFields
  <2> QED BY <1>1, <1>2, <1>3, <1>4, <2>1, Zero DEF Kin, Gone
<1>6. ~Gone(n2.proc[t]) /\ NoKillQueued(n2)
  BY <1>1, <1>2, <1>3, <1>4 DEF Gone, NoKillQueued
<1>7. /\ \A q \in Slot : q # t => Sound(n2.proc[q])
      /\ \A q \in Slot : /\ n2.proc[q].code = k.proc[q].code
                         /\ n2.proc[q].wakeUpTick = k.proc[q].wakeUpTick
                         /\ n2.proc[q].sid = k.proc[q].sid
                         /\ n2.proc[q].cid = k.proc[q].cid
                         /\ n2.proc[q].parent = k.proc[q].parent
                         /\ n2.proc[q].state = k.proc[q].state
                         /\ n2.proc[q].icpt_pid = k.proc[q].icpt_pid
  BY <1>1, <1>2, <1>3, <1>4
<1>8. dead \in From(k0)
  <2>1. Kept(k, n2)
    BY <1>1, <1>7, KeptAlike
  <2>2. Kept(k0, n2)
    BY <2>1, KeptInTurn DEF From
  <2>3. HostAlone(n2)
    BY <1>1, <1>4, <1>7, HostSlot DEF HostAlone, HostAsleep
  <2> HIDE DEF dead
  <2>4. KillProcess(n2, t) \in From(k0)
    BY <1>4, <1>5, <1>6, <1>7, <2>2, <2>3, KillFrom
  <2> QED BY <2>4 DEF dead
<1> HIDE DEF dead
<1>9. n3 \in From(k0)
  BY <1>8, UpdateFrom
<1> HIDE DEF n3
<1>10. n4 \in From(k0)
  BY <1>9, UpdateFrom
<1> HIDE DEF n4
<1> QED BY <1>10, Zenon DEF Abort, n4, n3, dead, n2, n1, s

\* A whole delivery keeps the families together.
LEMMA DeliverFrom ==
  ASSUME NEW k0, NEW k \in From(k0), NEW t \in Slot, ~Gone(k.proc[t]), NEW sig \in Nat
  PROVE  Deliver(k, t, sig) \in From(k0)
<1>1. k \in Running
  BY FromFacts
<1> QED BY <1>1, WakeupFrom, InterceptFrom, AbortFrom, SenderType, Zenon DEF Deliver

\* So does send_signal, at any time.
LEMMA SendSignalFrom ==
  ASSUME NEW k0, NEW k \in From(k0), NEW t \in Slot, NEW sig \in Nat, NEW async \in BOOLEAN
  PROVE  SendSignal(k, t, sig, async) \in From(k0)
<1>1. CASE Gone(k.proc[t]) \/ (sig = S_Wake /\ t = k.currentpid)
  BY <1>1 DEF SendSignal
<1>2. CASE ~Gone(k.proc[t]) /\ ~(sig = S_Wake /\ t = k.currentpid) /\ sig = S_Kill
  <2>1. KillProcess(k, t) \in From(k0)
    BY FromFacts, KillFrom DEF From
  <2> QED BY <1>2, <2>1, Zenon DEF SendSignal
<1>3. CASE ~Gone(k.proc[t]) /\ ~(sig = S_Wake /\ t = k.currentpid) /\ sig # S_Kill
  <2>1. Enqueue(k, t, sig, async) \in From(k0) /\ Deliver(k, t, sig) \in From(k0)
    BY <1>3, EnqueueFrom, DeliverFrom
  <2> QED BY <1>3, <2>1, Zenon DEF SendSignal
<1> QED BY <1>1, <1>2, <1>3

\* Outside of the async area a signal that does not kill only waits.
LEMMA SyncSignal ==
  ASSUME NEW k0, NEW k \in From(k0), NEW t \in Slot, NEW sig \in Nat \ {S_Kill}
  PROVE  \A x \in Slot : SendSignal(k, t, sig, FALSE).proc[x].state = k.proc[x].state
<1>1. ~Gone(k.proc[t]) =>
        \A x \in Slot : Enqueue(k, t, sig, FALSE).proc[x].state = k.proc[x].state
  BY EnqueueFrom
<1>2. SendSignal(k, t, sig, FALSE) = k
      \/ (~Gone(k.proc[t]) /\ SendSignal(k, t, sig, FALSE) = Enqueue(k, t, sig, FALSE))
  BY Zenon DEF SendSignal, MustQueue
<1> QED BY <1>1, <1>2

\* So does taking a signal out of the queue.
LEMMA TakeSignalFrom ==
  ASSUME NEW k0, NEW k \in From(k0), NEW async \in BOOLEAN
  PROVE  /\ TakeSignal(k, async) \in From(k0)
         /\ \A x \in Slot : TakeSignal(k, FALSE).proc[x].state = k.proc[x].state
<1> DEFINE i == Least(ReadyEntries(k))
           rest == Without(k.queue, i)
           b == k.pending /\ rest # << >>
           taken == [k EXCEPT !.queue = rest, !.pending = b]
           sent(a) == SendSignal(taken, k.queue[i].pid, k.queue[i].signal, a)
<1>1. CASE ReadyEntries(k) = {}
  BY <1>1 DEF TakeSignal
<1>2. CASE ReadyEntries(k) # {}
  <2>1. k \in Running /\ k.queue \in Seq(Entry(Nat \ {S_Kill}))
    BY FromFacts DEF NoKillQueued
  <2>2. i \in 1 .. Len(k.queue)
    BY <1>2, <2>1, ReadyEntry
  <2> HIDE DEF i
  <2>3. k.queue[i] \in Entry(Nat \ {S_Kill})
    BY <2>1, <2>2, ElementOfSeq
  <2>4. k.queue[i].pid \in Slot /\ k.queue[i].signal \in Nat \ {S_Kill}
    BY <2>3, Zenon DEF Entry
  <2>5. rest \in Seq(Entry(Nat \ {S_Kill})) /\ b \in BOOLEAN
    BY <2>1, <2>2, WithoutType, QueueOf
  <2> HIDE DEF rest, b
  <2>6. taken \in From(k0)
    BY <2>5, SetQueueFrom
  <2>7. taken.proc = k.proc
    BY <2>1, Zenon DEF Running, KernelState
  <2> HIDE DEF taken
  <2>8. sent(async) \in From(k0)
    BY <2>4, <2>6, SendSignalFrom
  <2>9. \A x \in Slot : sent(FALSE).proc[x].state = k.proc[x].state
    <3> DEFINE t == k.queue[i].pid
               sig == k.queue[i].signal
    <3>1. t \in Slot /\ sig \in Nat \ {S_Kill}
      BY <2>4
    <3> HIDE DEF t, sig
    <3>2. \A x \in Slot : SendSignal(taken, t, sig, FALSE).proc[x].state = taken.proc[x].state
      BY <3>1, <2>6, SyncSignal
    <3> QED BY <2>7, <3>2, Zenon DEF sent, t, sig
  <2> HIDE DEF sent
  <2>10. TakeSignal(k, async) = sent(async) /\ TakeSignal(k, FALSE) = sent(FALSE)
    BY <1>2, Zenon DEF TakeSignal, sent, taken, b, rest, i
  <2> QED BY <2>8, <2>9, <2>10
<1> QED BY <1>1, <1>2

\* So does sig_mask; outside of the async area it changes no state.
LEMMA MaskFrom ==
  ASSUME NEW k0, NEW k \in From(k0), NEW p \in Slot, NEW async \in BOOLEAN
  PROVE  /\ MaskOff(k, p, async) \in From(k0)
         /\ MaskUp(k, p, async) \in From(k0)
         /\ MaskDown(k, p, async) \in From(k0)
         /\ \A x \in Slot : MaskOff(k, p, FALSE).proc[x].state = k.proc[x].state
<1>1. k \in Running /\ k.proc[p].masklevel \in Nat
  BY FromFacts, ProcessFields
<1>2. k.proc[p].masklevel + 1 \in Nat /\ OneLess(k.proc[p].masklevel) \in Nat
  BY <1>1 DEF OneLess
<1>3. \A x \in Nat : [k EXCEPT !.proc[p].masklevel = x] \in From(k0)
  BY UpdateFrom
<1>4. \A x \in Slot : [k EXCEPT !.proc[p].masklevel = 0].proc[x].state = k.proc[x].state
  BY <1>1 DEF Running, KernelState, Process
<1> DEFINE lowered == [k EXCEPT !.proc[p].masklevel = 0]
<1>5. lowered \in From(k0)
  BY <1>3
<1>6. \A x \in Slot : TakeSignal(lowered, FALSE).proc[x].state = k.proc[x].state
  <2> HIDE DEF lowered
  <2>1. \A x \in Slot : TakeSignal(lowered, FALSE).proc[x].state = lowered.proc[x].state
    BY <1>5, TakeSignalFrom
  <2> QED BY <1>4, <2>1 DEF lowered
<1>7. \A m \in From(k0) : TakeSignal(m, async) \in From(k0)
  BY TakeSignalFrom
<1> QED BY <1>2, <1>3, <1>6, <1>7, Zenon DEF MaskOff, MaskUp, MaskDown

-----------------------------------------------------------------------------
(* Steps. *)

\* do_arbitrate never looks at the system's own process while that sleeps: the
\* search begins elsewhere and leaves slot 1 out.
ScanInv ==
  phase = "arbitrate" /\ HostAsleep(os) =>
    scan.spid # KernelPid /\ scan.sleeping # KernelPid

FamilyState == TypeInv /\ FamilyInv(os) /\ ScanInv

\* What is to be shown of every step.
Stepped ==
  /\ FamilyInv(os')
  /\ phase' = "arbitrate" /\ HostAsleep(os') =>
       scan'.spid # KernelPid /\ scan'.sleeping # KernelPid
  /\ Life(os.proc, os'.proc)
  /\ Waiters(os.proc) => Waiters(os'.proc)
  /\ Listed(os.proc) => Listed(os'.proc)

\* Nobody was made, ended or was reported.
Like(f, g) == \A x \in Slot : /\ StatusOf(g[x]) = StatusOf(f[x])
                              /\ ParentOf(g[x]) = ParentOf(f[x])

\* Then the lists of children are what they were, if the links are.
LEMMA ListedLike ==
  ASSUME NEW f, NEW g, Kin(f), Like(f, g), Listed(f),
         \A x \in Slot : g[x].sid = f[x].sid /\ g[x].cid = f[x].cid
  PROVE  Listed(g)
<1>1. EndedIn(f, g)
  BY NobodyEnds DEF Like
<1> QED BY <1>1, ListedKept, SlotIsNat, Zero

\* The first program has no parent and no signal.
LEMMA InitFamily == Init => FamilyState
<1> SUFFICES ASSUME Init PROVE FamilyState
  OBVIOUS
<1>1. os.queue = << >> /\ 1 # 0 /\ 2 # 0 /\ 2 # 1 /\ 2 \in Slot
  BY ProcTableAssumption DEF Init, Slot
<1>2. NoKillQueued(os)
  BY <1>1, EmptySeq DEF NoKillQueued
<1>3. \A p \in Slot :
        /\ p # 2 => ~os.proc[p].code
        /\ p = 2 => os.proc[p].code
        /\ os.proc[p].parent = 0 /\ os.proc[p].signal = 0 /\ os.proc[p].icpt_pid = 0
        /\ os.proc[p].state = IF p = 1 THEN "pSleeping"
                              ELSE IF p = 2 THEN "pActive" ELSE "pUnused"
  BY DEF Init, UnusedProcess, KernelPid
<1>4. Kin(os.proc)
  BY <1>3, Zero DEF Kin
<1>5. \A p \in Slot : Sound(os.proc[p])
  BY <1>3 DEF Sound
<1>6. os.currentpid = 2 /\ phase = "call"
  BY DEF Init
<1>7. HostAlone(os)
  BY <1>1, <1>3, <1>6 DEF HostAlone, KernelPid
<1> QED BY <1>2, <1>4, <1>5, <1>6, <1>7, InitTypeInv DEF FamilyState, FamilyInv, ScanInv

\* While nobody has given up the search the kernel state is in Family.
LEMMA OsFamily ==
  ASSUME FamilyState, phase \notin {"switch", "ended"}
  PROVE  /\ os \in From(os) /\ os \in Family /\ os \in Running
         /\ Me \in Slot /\ My \in Process /\ Sound(My) /\ Kin(os.proc)
<1>1. os \in Running /\ Me \in Slot /\ My \in Process
  BY OsRunning DEF FamilyState
<1>2. os \in Family
  BY <1>1 DEF FamilyState, Family
<1> QED BY <1>1, <1>2, FromSelf, FromFacts DEF My

\* If no state changed, nobody has ended.
LEMMA SameStates ==
  ASSUME NEW k0, NEW k \in From(k0),
         \A x \in Slot : k.proc[x].state = k0.proc[x].state
  PROVE  Like(k0.proc, k.proc)
<1>1. PICK S \in SUBSET Slot : EndedBy(S, k0.proc, k.proc)
  BY DEF From, Kept, EndedIn
<1>2. \A x \in Slot : StatusOf(k.proc[x]) = StatusOf(k0.proc[x])
  BY DEF StatusOf
<1>3. S = {}
  <2>1. ASSUME NEW x \in S PROVE FALSE
    BY <1>1, <1>2, <2>1 DEF EndedBy
  <2> QED BY <2>1
<1> QED BY <1>1, <1>2, <1>3 DEF EndedBy, Like

\* A step that goes on from a kernel state that is like the old one.
LEMMA LikeLives ==
  ASSUME NEW k0, NEW k \in From(k0), Like(k0.proc, k.proc), NEW m \in Family,
         Life(k.proc, m.proc), Waiters(k.proc) => Waiters(m.proc),
         Listed(k.proc) => Listed(m.proc),
         HostAsleep(m) => HostAsleep(k)
  PROVE  m \in Lives(k0)
<1>1. k \in Lives(k0)
  BY FromLives
<1>2. Life(k0.proc, m.proc)
  <2>1. CASE EndedIn(k.proc, m.proc)
    BY <2>1, EndedInTurn DEF From, Kept, Life
  <2>2. ASSUME NEW q \in Slot, ReportedIn(q, k.proc, m.proc)
        PROVE  ReportedIn(q, k0.proc, m.proc)
    BY <2>2 DEF ReportedIn, Like
  <2>3. ASSUME NEW p \in Slot, NEW q \in Slot, ForkedIn(p, q, k.proc, m.proc)
        PROVE  ForkedIn(p, q, k0.proc, m.proc)
    BY <2>3 DEF ForkedIn, Like
  <2> QED BY <2>1, <2>2, <2>3 DEF Life
<1> QED BY <1>1, <1>2 DEF Lives

\* Only the end of a wait and the arbitration depend on the phase.
LEMMA StepTo ==
  ASSUME FamilyState, FamilyInv(os'), Life(os.proc, os'.proc),
         Waiters(os.proc) => Waiters(os'.proc), Listed(os.proc) => Listed(os'.proc),
         HostAsleep(os') => HostAsleep(os),
         phase' # "arbitrate" \/ (phase' = phase /\ scan' = scan)
  PROVE  Stepped
BY DEF Stepped, FamilyState, ScanInv

\* The same for what procstuff.c leaves behind.
LEMMA LivesTo ==
  ASSUME FamilyState, os' \in Lives(os),
         phase' # "arbitrate" \/ (phase' = phase /\ scan' = scan)
  PROVE  Stepped
BY StepTo DEF Lives, Family

\* A system call that ends in such a state is such a step.
LEMMA ReturnFamily ==
  ASSUME FamilyState, NEW k \in Lives(os), Return(k)
  PROVE  Stepped
<1>1. os' \in Lives(os) /\ phase' # "arbitrate"
  BY DEF Return
<1> QED BY <1>1, LivesTo

\* So is the end of an iteration.
LEMMA ArbitrateFamily ==
  ASSUME FamilyState, NEW k \in Lives(os), NEW on_way, Arbitrate(k, on_way)
  PROVE  Stepped
<1> DEFINE p == k.currentpid
           b == k.arbitrate \/ k.proc[p].state \in {"pSysTask", "pUnused", "pWaitRead"}
           n == [k EXCEPT !.arbitrate = b]
<1>1. k \in Family /\ k \in From(k) /\ k \in Running /\ b \in BOOLEAN /\ p \in Slot
  BY FromSelf, QueueOf DEF Lives, Family
<1> HIDE DEF b
<1>2. n \in Family /\ n.proc = k.proc
  <2>1. n.proc = k.proc
    BY <1>1, Zenon DEF Running, KernelState
  <2>2. n \in From(k)
    BY <1>1, SetCurrentFrom
  <2> QED BY <2>1, <2>2 DEF From
<1>3. n \in Lives(os)
  BY <1>2 DEF Lives, HostAsleep
<1> HIDE DEF n
<1>4. \/ /\ os' = n /\ phase' = "arbitrate"
         /\ scan' = [NoScan EXCEPT !.cpid = p, !.spid = p,
                                   !.atLeast1 = k.proc[p].state = "pSleeping"]
      \/ os' = k /\ phase' = "switch"
  BY Zenon DEF Arbitrate, n, p, b
<1>5. CASE os' = k /\ phase' = "switch"
  BY <1>5, LivesTo
<1>6. CASE /\ os' = n /\ phase' = "arbitrate"
           /\ scan' = [NoScan EXCEPT !.cpid = p, !.spid = p,
                                     !.atLeast1 = k.proc[p].state = "pSleeping"]
  <2>1. scan'.spid = p /\ scan'.sleeping = MAXPROCESSES
    BY <1>6 DEF NoScan
  <2>2. MAXPROCESSES # KernelPid
    BY ProcTableAssumption DEF KernelPid
  <2>3. HostAsleep(n) => p # KernelPid
    BY <1>1, <1>2 DEF Family, FamilyInv, HostAlone, HostAsleep
  <2> QED BY <1>3, <1>6, <2>1, <2>2, <2>3 DEF Lives, Family, Stepped
<1> QED BY <1>4, <1>5, <1>6

\* The call begins with all processes as they were.
LEMMA TrappedFamily ==
  ASSUME FamilyState, phase = "call"
  PROVE  /\ Trapped \in From(os)
         /\ \A x \in Slot : Trapped.proc[x].state = os.proc[x].state
<1> DEFINE m == IF My.way_to_icpt THEN 1 ELSE os.proc[Me].masklevel
           n1 == [os EXCEPT !.proc[Me].masklevel = m]
           n2 == [n1 EXCEPT !.proc[Me].way_to_icpt = FALSE]
           n3 == [n2 EXCEPT !.arbitrate = FALSE]
<1>1. os \in From(os) /\ os \in Running /\ Me \in Slot /\ m \in Nat
  BY OsFamily, ProcessOf, ProcessFields
<1> HIDE DEF m
<1>2. n1 \in From(os) /\ \A x \in Slot : n1.proc[x].state = os.proc[x].state
  BY <1>1, UpdateFrom, UpdateStates
<1> HIDE DEF n1
<1>3. n1 \in Running
  BY <1>2, FromFacts
<1>4. n2 \in From(os) /\ \A x \in Slot : n2.proc[x].state = n1.proc[x].state
  <2>1. n2 \in From(os)
    BY <1>1, <1>2, UpdateFrom
  <2>2. \A x \in Slot : n2.proc[x].state = n1.proc[x].state
    BY <1>1, <1>3, UpdateStates
  <2> QED BY <2>1, <2>2
<1> HIDE DEF n2
<1>5. n3 \in From(os) /\ n3.proc = n2.proc
  <2>1. n2 \in Running
    BY <1>4, FromFacts
  <2> QED BY <1>1, <1>4, <2>1, SetCurrentFrom DEF Running, KernelState
<1> HIDE DEF n3
<1>6. Trapped = n3
  BY Zenon DEF Trapped, n3, n2, n1, m
<1> QED BY <1>2, <1>4, <1>5, <1>6

\* The caller of a system call is a live program.
LEMMA RunsFacts ==
  ASSUME FamilyState, Runs
  PROVE  /\ phase = "call" /\ Trapped \in From(os) /\ Trapped \in Family
         /\ Trapped \in Running /\ Me \in Slot /\ Me # 0
         /\ My.code /\ ~Gone(My) /\ ~Gone(Trapped.proc[Me])
         /\ Trapped.proc[Me].state = My.state
         /\ \A x \in Slot : Trapped.proc[x].state = os.proc[x].state
<1>1. phase = "call" /\ My.code /\ My.state \in {"pActive", "pWaitRead"}
  BY DEF Runs, Executes
<1>2. /\ Trapped \in From(os) /\ Me \in Slot /\ Kin(os.proc)
      /\ \A x \in Slot : Trapped.proc[x].state = os.proc[x].state
  BY <1>1, TrappedFamily, OsFamily
<1> QED BY <1>1, <1>2, FromFacts DEF Gone, Kin, My

\* What one more state changes of the table.
LEMMA StateFields ==
  ASSUME NEW k \in Running, NEW p \in Slot, NEW st, NEW x \in Slot
  PROVE  LET m == [k EXCEPT !.proc[p].state = st]
         IN  /\ m.proc[x].state = IF x = p THEN st ELSE k.proc[x].state
             /\ m.proc[x].parent = k.proc[x].parent
             /\ m.proc[x].code = k.proc[x].code
BY DEF Running, KernelState, Process

-----------------------------------------------------------------------------
\* No process names the free slot as its parent, so that the new process has
\* no children of a stranger.
LEMMA NewProcessFamily ==
  ASSUME NEW k \in Family, NEW q \in FreeSlots(k), NEW p \in Slot, ~Gone(k.proc[p]),
         p # KernelPid \/ ~HostAsleep(k)
  PROVE  LET m == NewProcess(k, q, p)
         IN  /\ m \in Family
             /\ \A x \in Slot : m.proc[x].state # "pUnused" => m.proc[x].parent # q
             /\ m.proc[q].state = "pStart" /\ m.proc[q].parent = p /\ m.proc[q].code
             /\ m.proc[q].sid = 0 /\ m.proc[q].cid = 0
             /\ \A x \in Slot : x # q => m.proc[x] = k.proc[x]
<1> DEFINE f == k.proc
           r == [f[q] EXCEPT
                  !.state = "pStart", !.code = TRUE, !.parent = p, !.sid = 0,
                  !.cid = 0, !.signal = 0, !.sigvec = FALSE, !.masklevel = 0,
                  !.pwr_brk = FALSE, !.wakeUpTick = "due", !.pW_age = 0]
           m == NewProcess(k, q, p)
           g == m.proc
<1>1. /\ k \in Running /\ Kin(f) /\ NoKillQueued(k) /\ HostAlone(k)
      /\ \A x \in Slot : Sound(f[x]) /\ f[x] \in Process /\ f[x].parent \in Slot
  BY ProcessOf, ProcessFields DEF Family, FamilyInv
<1>2. q \in Slot /\ q # 0 /\ f[q].state = "pUnused" /\ q # p /\ p # 0
  BY <1>1, SlotIsNat DEF FreeSlots, Pid, Gone, Kin
<1>3. m \in Running
  BY <1>1, <1>2, NewProcessType
<1>4. m = [k EXCEPT !.proc[q] = r]
  BY Zenon DEF NewProcess
<1>5. /\ r.state = "pStart" /\ r.code /\ r.parent = p /\ r.signal = 0
      /\ r.sid = 0 /\ r.cid = 0 /\ r.icpt_pid = f[q].icpt_pid
  <2>1. f[q] \in Process
    BY <1>1, <1>2
  <2> HIDE DEF f
  <2> QED BY <2>1, Zenon DEF Process
<1> HIDE DEF r, m
<1>6. /\ m.queue = k.queue /\ m.currentpid = k.currentpid
      /\ \A x \in Slot : g[x] = IF x = q THEN r ELSE f[x]
  BY <1>1, <1>2, <1>4 DEF Running, KernelState
<1> HIDE DEF f, g
<1>7. \A x \in Slot : f[x].state # "pUnused" => f[x].parent # q
  BY <1>1, <1>2 DEF Kin, Gone
<1>8. \A x \in Slot : g[x].state # "pUnused" => g[x].parent # q
  BY <1>2, <1>5, <1>6, <1>7
<1>9. Kin(g)
  <2>1. g[0].state = "pUnused"
    BY <1>1, <1>2, <1>6, Zero DEF Kin
  <2>2. \A x \in Slot : ~g[x].code => g[x].parent = 0
    BY <1>1, <1>5, <1>6 DEF Kin
  <2>3. ASSUME NEW x \in Slot, g[x].state # "pUnused", g[x].parent # 0
        PROVE  g[x].parent # x /\ ~Gone(g[g[x].parent])
    <3>1. CASE x = q
      BY <3>1, <1>2, <1>5, <1>6 DEF f, Gone
    <3>2. CASE x # q
      BY <3>2, <2>3, <1>1, <1>2, <1>6, <1>7 DEF Kin
    <3> QED BY <3>1, <3>2
  <2>4. \A x \in Slot : g[x].state = "pDead" => g[x].parent # 0
    BY <1>1, <1>5, <1>6 DEF Kin
  <2> QED BY <2>1, <2>2, <2>3, <2>4 DEF Kin
<1>10. \A x \in Slot : Sound(g[x])
  BY <1>1, <1>5, <1>6 DEF Sound
<1>11. HostAlone(m)
  <2>1. HostAsleep(m) => q # KernelPid /\ HostAsleep(k)
    BY <1>5, <1>6, HostSlot DEF HostAsleep, f, g
  <2>2. \A x \in Slot : ~g[x].code /\ x # KernelPid => g[x].state = "pUnused"
    BY <1>1, <1>5, <1>6 DEF HostAlone, f
  <2>3. HostAsleep(k) =>
          \A x \in Slot : g[x].icpt_pid # KernelPid /\ g[x].parent # KernelPid
    BY <1>1, <1>2, <1>5, <1>6 DEF HostAlone, f
  <2> QED BY <1>1, <1>6, <2>1, <2>2, <2>3 DEF HostAlone, g
<1>12. m \in Family
  BY <1>1, <1>3, <1>6, <1>9, <1>10, <1>11 DEF Family, FamilyInv, NoKillQueued, g
<1> QED BY <1>2, <1>5, <1>6, <1>8, <1>12 DEF m, g, f

\* The child that goes first is hung into the list.
LEMMA StartChildFamily ==
  ASSUME NEW k \in Family, NEW p \in Slot, NEW q \in Slot, ~Gone(k.proc[q]), k.proc[q].code
  PROVE  LET m == StartChild(k, p, q)
         IN  /\ m \in Family
             /\ \A x \in Slot :
                  /\ m.proc[x].state = IF x = q THEN "pActive" ELSE k.proc[x].state
                  /\ m.proc[x].parent = k.proc[x].parent
                  /\ m.proc[x].code = k.proc[x].code
                  /\ m.proc[x].cid = IF x = p THEN q ELSE k.proc[x].cid
                  /\ x # q => m.proc[x].sid = k.proc[x].sid
             /\ m.proc[q].sid = IF k.proc[p].cid # q THEN k.proc[p].cid ELSE k.proc[q].sid
<1> DEFINE head == k.proc[p].cid
           sib == IF head # q THEN head ELSE k.proc[q].sid
           n1 == [k EXCEPT !.proc[q].state = "pActive"]
           n2 == [n1 EXCEPT !.proc[q].sid = sib]
           n3 == [n2 EXCEPT !.proc[p].cid = q]
           n4 == [n3 EXCEPT !.currentpid = q, !.arbitrate = TRUE]
<1>1. k \in From(k) /\ sib \in Slot /\ k \in Running
  BY FromSelf, ProcessOf, ProcessFields DEF Family
<1> HIDE DEF head, sib
<1>2. /\ n1 \in Family /\ n1 \in Running
      /\ \A x \in Slot : /\ n1.proc[x].state = IF x = q THEN "pActive" ELSE k.proc[x].state
                         /\ n1.proc[x].parent = k.proc[x].parent
                         /\ n1.proc[x].code = k.proc[x].code
                         /\ n1.proc[x].sid = k.proc[x].sid
                         /\ n1.proc[x].cid = k.proc[x].cid
  <2>1. n1 \in From(k)
    BY <1>1, WakeFrom
  <2>2. \A x \in Slot : n1.proc[x].sid = k.proc[x].sid /\ n1.proc[x].cid = k.proc[x].cid
    BY <2>1 DEF From, Kept
  <2>3. \A x \in Slot : /\ n1.proc[x].state = IF x = q THEN "pActive" ELSE k.proc[x].state
                        /\ n1.proc[x].parent = k.proc[x].parent
                        /\ n1.proc[x].code = k.proc[x].code
    BY <1>1, StateFields
  <2>4. n1 \in Family /\ n1 \in Running
    BY <2>1 DEF From, Family
  <2> HIDE DEF n1
  <2> QED BY <2>2, <2>3, <2>4
<1> HIDE DEF n1
<1>3. /\ n2 \in Family /\ n2 \in Running /\ LinkedIn(n1, n2)
      /\ \A x \in Slot : /\ n2.proc[x].sid = IF x = q THEN sib ELSE n1.proc[x].sid
                         /\ n2.proc[x].cid = n1.proc[x].cid
  <2>1. n2 \in Running
    BY <1>1, <1>2, UpdateKernel
  <2>2. /\ LinkedIn(n1, n2)
        /\ \A x \in Slot : /\ n2.proc[x].sid = IF x = q THEN sib ELSE n1.proc[x].sid
                           /\ n2.proc[x].cid = n1.proc[x].cid
    <3>1. n1 \in Running
      BY <1>2
    <3> QED BY <3>1 DEF Running, KernelState, Process, LinkedIn
  <2> HIDE DEF n2
  <2> QED BY <1>2, <2>1, <2>2, LinkedFamily
<1> HIDE DEF n2
<1>4. /\ n3 \in Family /\ n3 \in Running /\ LinkedIn(n2, n3)
      /\ \A x \in Slot : /\ n3.proc[x].cid = IF x = p THEN q ELSE n2.proc[x].cid
                         /\ n3.proc[x].sid = n2.proc[x].sid
  <2>1. n3 \in Running
    BY <1>3, UpdateKernel
  <2>2. /\ LinkedIn(n2, n3)
        /\ \A x \in Slot : /\ n3.proc[x].cid = IF x = p THEN q ELSE n2.proc[x].cid
                           /\ n3.proc[x].sid = n2.proc[x].sid
    <3>1. n2 \in Running
      BY <1>3
    <3> QED BY <3>1 DEF Running, KernelState, Process, LinkedIn
  <2> HIDE DEF n3
  <2> QED BY <1>3, <2>1, <2>2, LinkedFamily
<1> HIDE DEF n3
<1>5. n4 \in Family /\ n4.proc = n3.proc
  <2>1. n3.proc[q].code
    BY <1>2, <1>3, <1>4 DEF LinkedIn
  <2>2. q # KernelPid \/ ~HostAsleep(n3)
    BY <2>1 DEF HostAsleep
  <2>3. n4 \in From(n3)
    BY <1>4, <2>2, FromSelf, SetCurrentFrom
  <2>4. n4.proc = n3.proc
    BY <1>4, Zenon DEF Running, KernelState
  <2> QED BY <2>3, <2>4 DEF From
<1> HIDE DEF n4
<1>6. StartChild(k, p, q) = n4
  BY Zenon DEF StartChild, n4, n3, n2, n1, sib, head
<1>7. \A x \in Slot :
        /\ n4.proc[x].state = IF x = q THEN "pActive" ELSE k.proc[x].state
        /\ n4.proc[x].parent = k.proc[x].parent
        /\ n4.proc[x].code = k.proc[x].code
        /\ n4.proc[x].cid = IF x = p THEN q ELSE k.proc[x].cid
        /\ n4.proc[x].sid = IF x = q THEN sib ELSE k.proc[x].sid
  BY <1>2, <1>3, <1>4, <1>5 DEF LinkedIn
<1> QED BY <1>5, <1>6, <1>7 DEF sib, head

\* F$Fork makes a child, or nothing.
LEMMA ForkFamily ==
  ASSUME FamilyState, NEW ok \in BOOLEAN, F_Fork(ok)
  PROVE  Stepped
<1> DEFINE k == Trapped
           q == Least(FreeSlots(k))
           new == NewProcess(k, q, Me)
           failed == [new EXCEPT !.proc[q].state = "pUnused"]
           started == StartChild(new, Me, q)
<1>1. /\ k \in Family /\ k \in From(os) /\ k \in Running /\ Me \in Slot /\ ~Gone(k.proc[Me])
      /\ k \in Lives(os) /\ Like(os.proc, k.proc) /\ Me # 0
      /\ Me # KernelPid \/ ~HostAsleep(k)
  <2>1. k \in From(os) /\ My.code /\ Me \in Slot
    BY RunsFacts DEF F_Fork
  <2>2. k.proc[Me].code
    BY <2>1 DEF From, Kept, My
  <2> QED BY <2>1, <2>2, RunsFacts, SameStates, FromLives DEF F_Fork, HostAsleep
<1> HIDE DEF k
<1>2. ASSUME FreeSlots(k) # {} PROVE started \in Lives(os) /\ failed \in Lives(os)
  <2>1. q \in Slot /\ q \in FreeSlots(k)
    BY <1>1, <1>2, FreeSlotType
  <2>2. q # 0 /\ k.proc[q].state = "pUnused"
    BY <2>1, SlotIsNat DEF FreeSlots, Pid
  <2> HIDE DEF q
  <2>3. /\ new \in Family /\ new \in Running
        /\ \A x \in Slot : new.proc[x].state # "pUnused" => new.proc[x].parent # q
        /\ new.proc[q].state = "pStart" /\ new.proc[q].parent = Me /\ new.proc[q].code
        /\ new.proc[q].sid = 0 /\ new.proc[q].cid = 0
        /\ \A x \in Slot : x # q => new.proc[x] = k.proc[x]
    BY <1>1, <2>1, NewProcessFamily DEF Family
  <2> HIDE DEF new
  <2>4. failed \in Lives(os)
    <3>1. /\ failed \in Family
          /\ \A x \in Slot : /\ AlikeExcept(new.proc[x], failed.proc[x])
                             /\ failed.proc[x].parent = new.proc[x].parent
                             /\ failed.proc[x].state =
                                  IF x = q THEN "pUnused" ELSE new.proc[x].state
      BY <2>1, <2>3, FreeFamily
    <3>2. \A x \in Slot : failed.proc[x].code = new.proc[x].code
      BY <2>1, <2>3, StateFields
    <3> HIDE DEF failed
    <3>3. \A x \in Slot : /\ failed.proc[x].state = k.proc[x].state
                          /\ x # q => failed.proc[x].parent = k.proc[x].parent
      BY <2>1, <2>2, <2>3, <3>1
    <3>4. \A x \in Slot : /\ StatusOf(failed.proc[x]) = StatusOf(k.proc[x])
                          /\ ParentOf(failed.proc[x]) = ParentOf(k.proc[x])
      BY <2>2, <3>3, StatusIs DEF StatusOf
    <3>5. EndedIn(k.proc, failed.proc)
      BY <1>1, <3>4, NobodyEnds, FromFacts
    <3>6. Waiters(k.proc) => Waiters(failed.proc)
      BY <3>3, <3>4, SlotIsNat DEF Waiters
    <3>7. HostAsleep(failed) => HostAsleep(k)
      BY <2>2, <2>3, <3>1, <3>2, HostSlot DEF HostAsleep
    <3>8. Listed(k.proc) => Listed(failed.proc)
      <4>1. \A x \in Slot : x # q => /\ failed.proc[x].sid = k.proc[x].sid
                                     /\ failed.proc[x].cid = k.proc[x].cid
        BY <2>3, <3>1 DEF AlikeExcept
      <4>2. failed.proc[q].state = "pUnused"
        BY <2>1, <3>1
      <4> QED BY <2>2, <3>5, <4>1, <4>2, SlotIsNat, Zero, ListedKept
    <3> QED BY <1>1, <3>1, <3>5, <3>6, <3>7, <3>8, LikeLives DEF Life
  <2>5. started \in Lives(os)
    <3>1. /\ started \in Family
          /\ \A x \in Slot :
               /\ started.proc[x].state = IF x = q THEN "pActive" ELSE new.proc[x].state
               /\ started.proc[x].parent = new.proc[x].parent
               /\ started.proc[x].code = new.proc[x].code
               /\ started.proc[x].cid = IF x = Me THEN q ELSE new.proc[x].cid
               /\ x # q => started.proc[x].sid = new.proc[x].sid
          /\ started.proc[q].sid = IF new.proc[Me].cid # q THEN new.proc[Me].cid
                                   ELSE new.proc[q].sid
      BY <1>1, <2>1, <2>3, StartChildFamily DEF Gone
    <3> HIDE DEF started
    <3>2. ForkedIn(Me, q, k.proc, started.proc)
      <4>1. StatusOf(k.proc[Me]) = "alive" /\ StatusOf(k.proc[q]) = "free"
        BY <1>1, <2>2, StatusIs
      <4>2. ASSUME NEW x \in Slot, x # q
            PROVE  /\ StatusOf(started.proc[x]) = StatusOf(k.proc[x])
                   /\ ParentOf(started.proc[x]) = ParentOf(k.proc[x])
        <5>1. /\ started.proc[x].state = k.proc[x].state
              /\ started.proc[x].parent = k.proc[x].parent
          BY <2>3, <3>1, <4>2
        <5> QED BY <5>1 DEF StatusOf, ParentOf
      <4>3. started.proc[q].state = "pActive" /\ started.proc[q].parent = Me
        BY <2>1, <2>3, <3>1
      <4>4. StatusOf(started.proc[q]) = "alive" /\ ParentOf(started.proc[q]) = Me
        BY <4>3 DEF StatusOf, ParentOf
      <4> QED BY <2>2, <4>1, <4>2, <4>4 DEF ForkedIn
    <3>3. Waiters(k.proc) => Waiters(started.proc)
      <4>1. ASSUME Waiters(k.proc), NEW p \in Pid, started.proc[p].state = "pWaiting"
            PROVE  \E c \in Pid : ParentOf(started.proc[c]) = p
        <5>1. k.proc[p].state = "pWaiting" /\ p \in Slot /\ p # 0
          BY <2>3, <3>1, <4>1, SlotIsNat DEF Pid
        <5>2. PICK c \in Pid : ParentOf(k.proc[c]) = p
          BY <4>1, <5>1 DEF Waiters
        <5>3. c # q /\ c \in Slot
          BY <2>2, <5>1, <5>2, SlotIsNat DEF ParentOf
        <5>4. ParentOf(started.proc[c]) = p
          BY <3>2, <5>2, <5>3 DEF ForkedIn
        <5> QED BY <5>4
      <4> QED BY <4>1 DEF Waiters
    <3>4. HostAsleep(started) => HostAsleep(k)
      BY <2>3, <3>1, HostSlot DEF HostAsleep
    <3>5. Life(k.proc, started.proc)
      BY <1>1, <2>1, <3>2 DEF Life
    <3>6. Listed(k.proc) => Listed(started.proc)
      <4>1. Me # q /\ Me \in Pid /\ q \in Pid /\ k.proc[Me].cid \in Slot /\ Kin(k.proc)
        <5>1. Me # q
          BY <1>1, <2>2 DEF Gone
        <5>2. Me \in Pid /\ q \in Pid
          BY <1>1, <2>1, <2>2 DEF Pid, Slot
        <5> QED BY <1>1, <5>1, <5>2, FromFacts, ProcessFields
      <4>2. ASSUME NEW x \in Slot, x # q
            PROVE  /\ ParentOf(started.proc[x]) = ParentOf(k.proc[x])
                   /\ Gone(started.proc[x]) <=> Gone(k.proc[x])
                   /\ started.proc[x].sid = k.proc[x].sid
                   /\ x # Me => started.proc[x].cid = k.proc[x].cid
        BY <2>3, <3>1, <4>2 DEF ParentOf, Gone
      <4>3. /\ ParentOf(started.proc[q]) = Me /\ started.proc[Me].cid = q
            /\ started.proc[q].cid = 0
            /\ started.proc[q].sid = IF k.proc[Me].cid # q THEN k.proc[Me].cid ELSE 0
        BY <1>1, <2>1, <2>3, <3>1, <4>1 DEF ParentOf
      <4> QED BY <1>1, <2>2, <4>1, <4>2, <4>3, ListedForked
    <3> QED BY <1>1, <3>1, <3>3, <3>4, <3>5, <3>6, LikeLives
  <2> QED BY <2>4, <2>5
<1>3. PICK kk \in Lives(os) : Return(kk)
  <2>1. CASE FreeSlots(k) = {}
    BY <2>1, <1>1, Zenon DEF F_Fork, k
  <2>2. CASE FreeSlots(k) # {} /\ ok
    BY <2>2, <1>1, <1>2, Zenon DEF F_Fork, k, q, new, started
  <2>3. CASE FreeSlots(k) # {} /\ ~ok
    BY <2>3, <1>1, <1>2, Zenon DEF F_Fork, k, q, new, failed
  <2> QED BY <2>1, <2>2, <2>3
<1> QED BY <1>3, ReturnFamily

\* All that the other system calls are made of.
LEMMA KeepFamily ==
  ASSUME NEW k0, NEW k \in From(k0), NEW p \in Slot
  PROVE  /\ KillProcess(k, p) \in From(k0)
         /\ MaskOff(k, p, FALSE) \in From(k0) /\ MaskOff(k, p, TRUE) \in From(k0)
         /\ MaskUp(k, p, FALSE) \in From(k0) /\ MaskDown(k, p, FALSE) \in From(k0)
         /\ \A x \in Slot : MaskOff(k, p, FALSE).proc[x].state = k.proc[x].state
         /\ \A sig \in Nat : SendSignal(k, p, sig, FALSE) \in From(k0)
         /\ \A b \in BOOLEAN : [k EXCEPT !.arbitrate = b] \in From(k0)
         /\ \A x \in BOOLEAN : [k EXCEPT !.proc[p].sigvec = x] \in From(k0)
         /\ \A x \in BOOLEAN : [k EXCEPT !.proc[p].way_to_icpt = x] \in From(k0)
         /\ \A x \in Nat : [k EXCEPT !.proc[p].masklevel = x] \in From(k0)
         /\ \A x \in 0 .. NewAge : [k EXCEPT !.proc[p].pW_age = x] \in From(k0)
<1>1. KillProcess(k, p) \in From(k0)
  BY FromFacts, KillFrom DEF From
<1>2. /\ MaskOff(k, p, FALSE) \in From(k0) /\ MaskOff(k, p, TRUE) \in From(k0)
      /\ MaskUp(k, p, FALSE) \in From(k0) /\ MaskDown(k, p, FALSE) \in From(k0)
      /\ \A x \in Slot : MaskOff(k, p, FALSE).proc[x].state = k.proc[x].state
  BY MaskFrom
<1>3. \A sig \in Nat : SendSignal(k, p, sig, FALSE) \in From(k0)
  BY SendSignalFrom
<1>4. \A b \in BOOLEAN : [k EXCEPT !.arbitrate = b] \in From(k0)
  BY Zero, SetCurrentFrom
<1>5. /\ \A x \in BOOLEAN : [k EXCEPT !.proc[p].sigvec = x] \in From(k0)
      /\ \A x \in BOOLEAN : [k EXCEPT !.proc[p].way_to_icpt = x] \in From(k0)
      /\ \A x \in Nat : [k EXCEPT !.proc[p].masklevel = x] \in From(k0)
      /\ \A x \in 0 .. NewAge : [k EXCEPT !.proc[p].pW_age = x] \in From(k0)
  BY UpdateFrom
<1> QED BY <1>1, <1>2, <1>3, <1>4, <1>5, Zenon

\* F$Exit ends the caller.
LEMMA ExitFamily == ASSUME FamilyState, F_Exit PROVE Stepped
<1> DEFINE k == [Trapped EXCEPT !.arbitrate = TRUE]
<1>1. Trapped \in From(os) /\ Me \in Slot
  BY RunsFacts DEF F_Exit
<1>2. k \in From(os)
  BY <1>1, KeepFamily
<1> HIDE DEF k
<1>3. KillProcess(MaskOff(k, Me, FALSE), Me) \in Lives(os)
  BY <1>1, <1>2, KeepFamily, FromLives
<1>4. Return(KillProcess(MaskOff(k, Me, FALSE), Me))
  BY DEF F_Exit, k
<1> QED BY <1>3, <1>4, ReturnFamily

\* F$Chain ends the caller, or nobody.
LEMMA ChainFamily ==
  ASSUME FamilyState, NEW ok \in BOOLEAN, F_Chain(ok)
  PROVE  Stepped
<1> DEFINE k == [Trapped EXCEPT !.proc[Me].sigvec = FALSE]
<1>1. Trapped \in From(os) /\ Me \in Slot
  BY RunsFacts DEF F_Chain
<1>2. k \in From(os)
  BY <1>1, KeepFamily
<1> HIDE DEF k
<1>3. (IF ok THEN k ELSE KillProcess(k, Me)) \in Lives(os)
  BY <1>1, <1>2, KeepFamily, FromLives
<1>4. Return(IF ok THEN k ELSE KillProcess(k, Me))
  BY DEF F_Chain, k
<1> QED BY <1>3, <1>4, ReturnFamily

\* The caller of a system call that unmasks its signals.
LEMMA UnmaskedFamily ==
  ASSUME FamilyState, Runs
  PROVE  LET k == MaskOff(Trapped, Me, FALSE)
         IN  /\ k \in From(os) /\ k \in Lives(os) /\ k \in Family /\ k \in Running
             /\ ~Gone(k.proc[Me]) /\ k.proc[Me].code
             /\ Like(os.proc, k.proc)
             /\ k.proc[Me].state \notin {"pWaiting", "pSleeping"}
<1> DEFINE k == MaskOff(Trapped, Me, FALSE)
<1>1. /\ Trapped \in From(os) /\ Me \in Slot /\ My.code /\ ~Gone(My)
      /\ \A x \in Slot : Trapped.proc[x].state = os.proc[x].state
      /\ My.state \notin {"pWaiting", "pSleeping"}
  BY RunsFacts DEF Runs, Executes
<1>2. k \in From(os) /\ \A x \in Slot : k.proc[x].state = Trapped.proc[x].state
  BY <1>1, KeepFamily
<1> HIDE DEF k
<1>3. Like(os.proc, k.proc)
  BY <1>1, <1>2, SameStates
<1>4. k.proc[Me].state = My.state /\ k.proc[Me].code
  BY <1>1, <1>2 DEF My, From, Kept
<1> QED BY <1>1, <1>2, <1>3, <1>4, FromLives, FromFacts DEF k, Gone

\* A live process may change to another state in which it lives, neither
\* reads nor sleeps.
LEMMA SetStateFamily ==
  ASSUME NEW k0, NEW k \in From(k0), NEW p \in Slot, ~Gone(k.proc[p]),
         NEW st \in {"pActive", "pSysTask"}
  PROVE  [k EXCEPT !.proc[p].state = st] \in From(k0)
<1> DEFINE r == k.proc[p]
           s == [r EXCEPT !.state = st]
<1>1. r \in Process /\ Sound(r) /\ ~Gone(r)
  BY FromFacts
<1> HIDE DEF r
<1>2. s \in Process
  BY <1>1, UpdateProcess DEF PState
<1>3. /\ s.code = r.code /\ s.parent = r.parent /\ s.state = st
      /\ s.sid = r.sid /\ s.cid = r.cid
      /\ s.wakeUpTick = r.wakeUpTick /\ s.signal = r.signal
      /\ s.rtestate = r.rtestate /\ s.saved_state = r.saved_state
      /\ s.icpt_pid = r.icpt_pid
  BY <1>1, Zenon DEF Process
<1> HIDE DEF s
<1>4. Sound(s) /\ ~Gone(s)
  BY <1>1, <1>3 DEF Sound, Gone
<1>5. [k EXCEPT !.proc[p] = s] \in From(k0)
  BY <1>1, <1>2, <1>3, <1>4, SameProcess DEF r
<1> QED BY <1>5 DEF s, r

\* A program that begins to wait or to sleep (for ever) stays in its family.
LEMMA BlockedFamily ==
  ASSUME NEW k \in Family, NEW p \in Slot, ~Gone(k.proc[p]), k.proc[p].code,
         NEW s \in Process, s.code = k.proc[p].code, s.parent = k.proc[p].parent,
         s.signal = k.proc[p].signal, s.rtestate = k.proc[p].rtestate,
         s.saved_state = k.proc[p].saved_state, s.icpt_pid = k.proc[p].icpt_pid,
         s.sid = k.proc[p].sid, s.cid = k.proc[p].cid,
         \/ s.state = "pWaiting"
         \/ s.state = "pSleeping" /\ s.wakeUpTick = "never"
  PROVE  LET m == [k EXCEPT !.proc[p] = s]
         IN  /\ m \in Family
             /\ Like(k.proc, m.proc)
             /\ HostAsleep(m) => HostAsleep(k)
             /\ \A x \in Slot : m.proc[x] = IF x = p THEN s ELSE k.proc[x]
             /\ Listed(k.proc) => Listed(m.proc)
<1> DEFINE f == k.proc
           r == f[p]
           m == [k EXCEPT !.proc[p] = s]
           g == m.proc
<1>1. /\ k \in Running /\ Kin(f) /\ NoKillQueued(k) /\ HostAlone(k)
      /\ \A q \in Slot : Sound(f[q]) /\ f[q] \in Process /\ f[q].parent \in Slot
  BY FromSelf, FromFacts, ProcessFields
<1>2. /\ m \in Running /\ m.queue = k.queue /\ m.currentpid = k.currentpid
      /\ \A q \in Slot : g[q] = IF q = p THEN s ELSE f[q]
  BY <1>1, SetProcess DEF Running, KernelState
<1> HIDE DEF m, f, g
<1>3. Sound(s) /\ ~Gone(s)
  BY <1>1, <1>2 DEF Sound, Gone, f
<1>4. /\ \A q \in Slot : g[q].parent = f[q].parent /\ g[q].code = f[q].code
      /\ \A q \in Slot : Gone(g[q]) <=> Gone(f[q])
      /\ \A q \in Slot : g[q].icpt_pid = f[q].icpt_pid
      /\ \A q \in Slot : q # p => g[q].state = f[q].state
      /\ \A q \in Slot : Gone(f[q]) => g[q].state = f[q].state
      /\ \A q \in Slot : Sound(g[q])
  BY <1>1, <1>2, <1>3 DEF f
<1>5. Kin(g)
  BY <1>1, <1>4, Zero DEF Kin, Gone
<1>6. HostAsleep(m) => HostAsleep(k)
  BY <1>2, HostSlot DEF HostAsleep, f, g
<1>7. HostAlone(m)
  <2>1. \A q \in Slot : ~g[q].code /\ q # KernelPid => g[q].state = "pUnused"
    BY <1>1, <1>4 DEF HostAlone, f, Gone
  <2>2. HostAsleep(m) => /\ m.currentpid # KernelPid
                         /\ \A q \in Slot : g[q].icpt_pid # KernelPid /\ g[q].parent # KernelPid
    BY <1>1, <1>2, <1>4, <1>6 DEF HostAlone, f
  <2> QED BY <2>1, <2>2 DEF HostAlone, g
<1>8. Like(f, g)
  BY <1>2, <1>3, StatusIs DEF Like, f, Gone
<1>9. m \in Family
  BY <1>1, <1>2, <1>4, <1>5, <1>7 DEF Family, FamilyInv, NoKillQueued, g
<1>10. Listed(f) => Listed(g)
  <2>1. \A x \in Slot : g[x].sid = f[x].sid /\ g[x].cid = f[x].cid
    BY <1>2 DEF f
  <2> QED BY <1>1, <1>8, <2>1, ListedLike
<1> QED BY <1>2, <1>6, <1>8, <1>9, <1>10 DEF m, f, g

\* F$Wait reports a dead child, or waits for one of the live ones.
LEMMA WaitFamily == ASSUME FamilyState, F_Wait PROVE Stepped
<1> DEFINE k == MaskOff(Trapped, Me, FALSE)
           dead == DeadChildren(k, Me) \cap UserPid
           live == LiveChildren(k, Me) \cap UserPid
           q == Least(dead)
           reaped == Reap(k, Me, q)
           s == [k.proc[Me] EXCEPT !.state = "pWaiting"]
           n1 == [k EXCEPT !.proc[Me] = s]
           c == Least(live)
           n2 == [n1 EXCEPT !.currentpid = c, !.arbitrate = TRUE]
<1>1. /\ k \in From(os) /\ k \in Lives(os) /\ k \in Family /\ k \in Running
      /\ ~Gone(k.proc[Me]) /\ k.proc[Me].code /\ Like(os.proc, k.proc) /\ Me \in Slot
      /\ k.proc[Me].state \notin {"pWaiting", "pSleeping"}
      /\ Kin(k.proc) /\ Me # 0
  BY UnmaskedFamily, RunsFacts, FromFacts DEF F_Wait
<1> HIDE DEF k
<1>2. ASSUME dead # {} PROVE reaped \in Lives(os)
  <2>1. q \in Slot /\ q \in dead
    BY <1>1, <1>2, ChildType
  <2>2. k.proc[q].state = "pDead" /\ k.proc[q].parent = Me
    BY <2>1 DEF DeadChildren
  <2> HIDE DEF dead, q
  <2>3. /\ reaped \in Family
        /\ \A x \in Slot :
             /\ reaped.proc[x].code = k.proc[x].code
             /\ reaped.proc[x].parent = k.proc[x].parent
             /\ reaped.proc[x].state = IF x = q THEN "pUnused" ELSE k.proc[x].state
        /\ Listed(k.proc) => Listed(reaped.proc)
    BY <1>1, <2>1, <2>2, ReapFamily
  <2> HIDE DEF reaped
  <2>4. ReportedIn(q, k.proc, reaped.proc)
    BY <2>2, <2>3, StatusIs DEF ReportedIn, StatusOf, ParentOf
  <2>5. Waiters(k.proc) => Waiters(reaped.proc)
    <3>1. ASSUME Waiters(k.proc), NEW p \in Pid, reaped.proc[p].state = "pWaiting"
          PROVE  \E x \in Pid : ParentOf(reaped.proc[x]) = p
      <4>1. k.proc[p].state = "pWaiting" /\ p \in Slot
        BY <2>3, <3>1, SlotIsNat
      <4>2. PICK x \in Pid : ParentOf(k.proc[x]) = p
        BY <3>1, <4>1 DEF Waiters
      <4>3. x # q /\ x \in Slot
        BY <1>1, <2>2, <4>1, <4>2, SlotIsNat DEF ParentOf
      <4> QED BY <2>4, <4>2, <4>3 DEF ReportedIn
    <3> QED BY <3>1 DEF Waiters
  <2>6. HostAsleep(reaped) => HostAsleep(k)
    BY <2>3, HostSlot DEF HostAsleep
  <2>7. Life(k.proc, reaped.proc)
    BY <2>1, <2>4 DEF Life
  <2> QED BY <1>1, <2>3, <2>5, <2>6, <2>7, LikeLives
<1>3. ASSUME live # {} PROVE n2 \in Lives(os)
  <2>1. c \in Slot /\ c \in live
    BY <1>1, <1>3, ChildType
  <2>2. c \in UserPid /\ c \in Pid /\ k.proc[c].parent = Me /\ ~Gone(k.proc[c])
    BY <2>1 DEF LiveChildren
  <2>3. c # KernelPid
    BY <2>2 DEF UserPid, KernelPid
  <2> HIDE DEF c, live
  <2>4. k.proc[Me] \in Process
    BY <1>1, ProcessOf
  <2>5. /\ s \in Process /\ s.code = k.proc[Me].code /\ s.parent = k.proc[Me].parent
        /\ s.signal = k.proc[Me].signal /\ s.rtestate = k.proc[Me].rtestate
        /\ s.saved_state = k.proc[Me].saved_state /\ s.icpt_pid = k.proc[Me].icpt_pid
        /\ s.sid = k.proc[Me].sid /\ s.cid = k.proc[Me].cid
        /\ s.state = "pWaiting"
    <3>1. "pWaiting" \in PState
      BY DEF PState
    <3> QED BY <2>4, <3>1, Zenon DEF Process
  <2> HIDE DEF s
  <2>6. /\ n1 \in Family /\ Like(k.proc, n1.proc)
        /\ HostAsleep(n1) => HostAsleep(k)
        /\ \A x \in Slot : n1.proc[x] = IF x = Me THEN s ELSE k.proc[x]
        /\ Listed(k.proc) => Listed(n1.proc)
    BY <1>1, <2>5, BlockedFamily
  <2> HIDE DEF n1
  <2>7. n2 \in From(n1) /\ n2.proc = n1.proc
    <3>1. n1 \in Running
      BY <2>6 DEF Family
    <3>2. n2 \in From(n1)
      BY <2>1, <2>3, <2>6, SetCurrentFrom, FromSelf
    <3>3. n2.proc = n1.proc
      BY <3>1, Zenon DEF Running, KernelState
    <3> QED BY <3>2, <3>3
  <2> HIDE DEF n2
  <2>8. Waiters(k.proc) => Waiters(n2.proc)
    <3>1. ASSUME Waiters(k.proc), NEW p \in Pid, n2.proc[p].state = "pWaiting"
          PROVE  \E x \in Pid : ParentOf(n2.proc[x]) = p
      <4>1. PICK x \in Pid : ParentOf(k.proc[x]) = p
        <5>1. CASE p = Me
          BY <2>2, <5>1 DEF ParentOf, Gone
        <5>2. CASE p # Me
          <6>1. k.proc[p].state = "pWaiting"
            BY <2>6, <2>7, <3>1, <5>2, SlotIsNat
          <6> QED BY <3>1, <6>1 DEF Waiters
        <5> QED BY <5>1, <5>2
      <4> QED BY <2>6, <2>7, <4>1, SlotIsNat DEF Like
    <3> QED BY <3>1 DEF Waiters
  <2>9. Life(k.proc, n2.proc)
    BY <1>1, <2>6, <2>7, NobodyEnds DEF Life, Like
  <2>10. n2 \in Family /\ (HostAsleep(n2) => HostAsleep(k))
    BY <2>6, <2>7 DEF From, HostAsleep
  <2> QED BY <1>1, <2>6, <2>7, <2>8, <2>9, <2>10, LikeLives
<1> HIDE DEF dead, live
<1>4. PICK kk \in Lives(os) : Return(kk)
  <2>1. CASE dead # {}
    BY <2>1, <1>2, Zenon DEF F_Wait, k, dead, q, reaped
  <2>2. CASE dead = {} /\ live # {}
    BY <2>2, <1>3, Zenon DEF F_Wait, k, dead, live, n2, n1, s, c
  <2>3. CASE dead = {} /\ live = {}
    BY <2>3, <1>1, Zenon DEF F_Wait, k, dead, live
  <2> QED BY <2>1, <2>2, <2>3
<1> QED BY <1>4, ReturnFamily

\* F$Sleep changes nobody's family.
LEMMA SleepFamily ==
  ASSUME SleepTimes \subseteq {"never"}, FamilyState,
         NEW wake \in SleepTimes, F_Sleep(wake)
  PROVE  Stepped
<1> DEFINE k == MaskOff(Trapped, Me, FALSE)
           n1 == [k EXCEPT !.arbitrate = TRUE]
           r == n1.proc[Me]
           s == [r EXCEPT !.wakeUpTick = wake, !.state = "pSleeping"]
           n2 == [n1 EXCEPT !.proc[Me] = s]
<1>1. /\ k \in From(os) /\ k \in Lives(os) /\ k \in Family /\ k \in Running
      /\ ~Gone(k.proc[Me]) /\ k.proc[Me].code /\ Like(os.proc, k.proc) /\ Me \in Slot
  BY UnmaskedFamily, RunsFacts DEF F_Sleep
<1> HIDE DEF k
<1>2. n1 \in From(os) /\ n1.proc = k.proc
  BY <1>1, KeepFamily DEF Running, KernelState
<1> HIDE DEF n1
<1>3. /\ n1 \in Family /\ r \in Process /\ ~Gone(r) /\ r.code /\ Like(os.proc, n1.proc)
      /\ Kin(n1.proc)
  BY <1>1, <1>2, FromFacts
<1>4. /\ s \in Process /\ s.code = r.code /\ s.parent = r.parent
      /\ s.state = "pSleeping" /\ s.wakeUpTick = "never" /\ s.icpt_pid = r.icpt_pid
      /\ s.signal = r.signal /\ s.rtestate = r.rtestate /\ s.saved_state = r.saved_state
      /\ s.sid = r.sid /\ s.cid = r.cid
  <2>1. wake = "never" /\ wake \in WakeUpTick /\ "pSleeping" \in PState
    BY DEF WakeUpTick, PState
  <2> HIDE DEF r
  <2> QED BY <1>3, <2>1, Zenon DEF Process
<1> HIDE DEF s
<1>5. /\ n2 \in Family /\ Like(n1.proc, n2.proc)
      /\ HostAsleep(n2) => HostAsleep(n1)
      /\ \A x \in Slot : n2.proc[x] = IF x = Me THEN s ELSE n1.proc[x]
      /\ Listed(n1.proc) => Listed(n2.proc)
  BY <1>1, <1>3, <1>4, BlockedFamily
<1> HIDE DEF n2
<1>6. Waiters(n1.proc) => Waiters(n2.proc)
  <2>1. \A p \in Pid : n2.proc[p].state = "pWaiting" => n1.proc[p].state = "pWaiting"
    BY <1>4, <1>5, SlotIsNat
  <2> QED BY <1>5, <2>1, SlotIsNat DEF Waiters, Like
<1>7. Life(n1.proc, n2.proc)
  BY <1>3, <1>5, NobodyEnds DEF Life, Like
<1>8. n2 \in Lives(os)
  BY <1>2, <1>3, <1>5, <1>6, <1>7, LikeLives
<1>9. PICK kk \in Lives(os) : Return(kk)
  BY <1>1, <1>8, Zenon DEF F_Sleep, k, n2, s, r, n1
<1> QED BY <1>9, ReturnFamily

\* A sleep of one tick changes nobody's family.
LEMMA YieldFamily == ASSUME FamilyState, F_Yield PROVE Stepped
<1> DEFINE k == MaskOff(Trapped, Me, FALSE)
           b == k.arbitrate \/ ~k.proc[Me].way_to_icpt
<1>1. k \in From(os) /\ Me \in Slot /\ k \in Running
  BY UnmaskedFamily, RunsFacts DEF F_Yield
<1> HIDE DEF k
<1>2. b \in BOOLEAN
  BY <1>1, QueueOf
<1> HIDE DEF b
<1>3. [k EXCEPT !.arbitrate = b] \in Lives(os)
  BY <1>1, <1>2, KeepFamily, FromLives
<1>4. Return([k EXCEPT !.arbitrate = b])
  BY Zenon DEF F_Yield, k, b
<1> QED BY <1>3, <1>4, ReturnFamily

\* F$Send ends the receiver, or nobody.
LEMMA SendFamily ==
  ASSUME FamilyState, NEW t \in Targets, NEW sig \in Signals, F_Send(t, sig)
  PROVE  Stepped
<1>1. Trapped \in From(os) /\ t \in Slot /\ sig \in Nat
  BY RunsFacts, KernelAssumption, SlotIsNat DEF F_Send
<1>2. SendSignal(Trapped, t, sig, FALSE) \in Lives(os)
  BY <1>1, KeepFamily, FromLives
<1>3. Return(SendSignal(Trapped, t, sig, FALSE))
  BY DEF F_Send
<1> QED BY <1>2, <1>3, ReturnFamily

\* F$Icpt ends nobody.
LEMMA IcptFamily ==
  ASSUME FamilyState, NEW set \in BOOLEAN, F_Icpt(set)
  PROVE  Stepped
<1>1. Trapped \in From(os) /\ Me \in Slot
  BY RunsFacts DEF F_Icpt
<1>2. [Trapped EXCEPT !.proc[Me].sigvec = set] \in Lives(os)
  BY <1>1, KeepFamily, FromLives
<1>3. Return([Trapped EXCEPT !.proc[Me].sigvec = set])
  BY DEF F_Icpt
<1> QED BY <1>2, <1>3, ReturnFamily

\* The interrupted state is one in which the process runs on or reads.
LEMMA RTEFamily == ASSUME FamilyState, F_RTE PROVE Stepped
<1> DEFINE broken == My.signal \in 1 .. Pwr_Signal
           blocked == My.rtestate = "pWaitRead"
           b == blocked /\ ~broken
           st == IF blocked /\ broken THEN "pActive" ELSE My.rtestate
           r == Trapped.proc[Me]
           s == [r EXCEPT !.signal = 0, !.state = st]
           n1 == [Trapped EXCEPT !.proc[Me] = s]
           n2 == [n1 EXCEPT !.arbitrate = b]
<1>1. /\ Trapped \in Family /\ Trapped \in Running /\ Trapped \in From(os)
      /\ Me \in Slot /\ My.code /\ ~Gone(My) /\ My.signal # 0 /\ ~Gone(r)
  BY RunsFacts DEF F_RTE
<1>2. /\ My.rtestate \in {"pActive", "pWaitRead"}
      /\ My.rtestate = "pWaitRead" => My.saved_state = "pActive"
  BY <1>1, OsFamily DEF Sound, F_RTE, Runs, Executes
<1>3. st \in {"pActive", "pWaitRead"} /\ (st = "pWaitRead" => My.rtestate = "pWaitRead")
      /\ b \in BOOLEAN
  BY <1>2
<1> HIDE DEF st, b
<1>4. r \in Process /\ r.saved_state = My.saved_state
  <2>1. os \in Running
    BY <1>1, OsFamily DEF F_RTE, Runs, Executes
  <2>2. Trapped.proc[Me].saved_state = os.proc[Me].saved_state
    BY <1>1, <2>1 DEF Trapped, Running, KernelState, Process
  <2> QED BY <1>1, <2>2, ProcessOf DEF My
<1> HIDE DEF r
<1>5. /\ s \in Process /\ s.code = r.code /\ s.parent = r.parent /\ s.state = st
      /\ s.sid = r.sid /\ s.cid = r.cid
      /\ s.wakeUpTick = r.wakeUpTick /\ s.signal = 0 /\ s.saved_state = r.saved_state
      /\ s.icpt_pid = r.icpt_pid
  <2>1. 0 \in Nat /\ st \in PState
    BY <1>3 DEF PState
  <2> QED BY <1>4, <2>1, Zenon DEF Process
<1> HIDE DEF s
<1>6. Sound(s) /\ ~Gone(s) /\ s.state \notin {"pWaiting", "pSleeping"}
  BY <1>2, <1>3, <1>4, <1>5 DEF Sound, Gone
<1>7. n1 \in From(os)
  BY <1>1, <1>5, <1>6, SameProcess DEF r
<1> HIDE DEF n1
<1>8. n2 \in From(os)
  BY <1>1, <1>3, <1>7, KeepFamily
<1> HIDE DEF n2
<1>9. MaskOff(n2, Me, FALSE) \in Lives(os)
  BY <1>1, <1>8, KeepFamily, FromLives
<1>10. [Trapped EXCEPT !.proc[Me].signal = 0, !.arbitrate = b, !.proc[Me].state = st] = n2
  BY <1>1 DEF n2, n1, s, r, Running, KernelState
<1>11. Return(MaskOff(n2, Me, FALSE))
  BY <1>10, Zenon DEF F_RTE, st, b
<1> QED BY <1>9, <1>11, ReturnFamily

\* F$RTE outside of an intercept routine ends the caller.
LEMMA AstrayFamily == ASSUME FamilyState, F_RTE_Astray PROVE Stepped
<1>1. Trapped \in From(os) /\ Me \in Slot
  BY RunsFacts DEF F_RTE_Astray
<1>2. MaskOff(KillProcess(Trapped, Me), Me, FALSE) \in Lives(os)
  BY <1>1, KeepFamily, FromLives
<1>3. Return(MaskOff(KillProcess(Trapped, Me), Me, FALSE))
  BY DEF F_RTE_Astray
<1> QED BY <1>2, <1>3, ReturnFamily

\* F$SigMask ends nobody but whom a signal kills.
LEMMA SigmaskFamily ==
  ASSUME FamilyState, NEW level \in {"off", "up", "down"}, F_Sigmask(level)
  PROVE  Stepped
<1>1. Trapped \in From(os) /\ Me \in Slot
  BY RunsFacts DEF F_Sigmask
<1>2. /\ MaskOff(Trapped, Me, FALSE) \in Lives(os)
      /\ MaskUp(Trapped, Me, FALSE) \in Lives(os)
      /\ MaskDown(Trapped, Me, FALSE) \in Lives(os)
  BY <1>1, KeepFamily, FromLives
<1>3. PICK kk \in Lives(os) : Return(kk)
  <2>1. CASE level = "off"
    BY <2>1, <1>2 DEF F_Sigmask
  <2>2. CASE level = "up"
    BY <2>2, <1>2 DEF F_Sigmask
  <2>3. CASE level = "down"
    BY <2>3, <1>2 DEF F_Sigmask
  <2> QED BY <2>1, <2>2, <2>3
<1> QED BY <1>3, ReturnFamily

\* What a read puts back after it blocked is the state of a running process.
LEMMA ReadFamily ==
  ASSUME FamilyState, NEW ready \in BOOLEAN, Read(ready)
  PROVE  Stepped
<1> DEFINE k == IF Runs THEN Trapped ELSE [os EXCEPT !.arbitrate = FALSE]
           r == k.proc[Me]
           st == IF r.state = "pWaitRead" THEN r.saved_state ELSE r.state
           n1 == [k EXCEPT !.proc[Me].state = st]
           s == [r EXCEPT !.saved_state = st, !.state = "pWaitRead"]
           n2 == [k EXCEPT !.proc[Me] = s]
           n3 == [n2 EXCEPT !.arbitrate = TRUE]
<1>1. phase = "call" /\ Me \in Slot /\ os \in From(os) /\ os \in Running
  BY OsFamily DEF Read, Runs, Executes
<1>2. k \in From(os) /\ r.state \in {"pActive", "pWaitRead"}
  <2>1. CASE Runs
    BY <2>1, RunsFacts DEF Runs, Executes
  <2>2. CASE ~Runs
    <3>1. My.state = "pWaitRead"
      BY <2>2 DEF Read
    <3>2. [os EXCEPT !.arbitrate = FALSE] \in From(os)
      BY <1>1, KeepFamily
    <3>3. [os EXCEPT !.arbitrate = FALSE].proc = os.proc
      BY <1>1, Zenon DEF Running, KernelState
    <3> QED BY <2>2, <3>1, <3>2, <3>3 DEF My
  <2> QED BY <2>1, <2>2
<1> HIDE DEF k
<1>3. k \in Running /\ r \in Process /\ Sound(r) /\ ~Gone(r)
  BY <1>1, <1>2, FromFacts DEF Gone
<1>4. st = "pActive"
  BY <1>2, <1>3 DEF Sound
<1> HIDE DEF st
<1>5. n1 \in Lives(os)
  BY <1>1, <1>2, <1>3, <1>4, SetStateFamily, FromLives
<1>6. /\ s \in Process /\ s.code = r.code /\ s.parent = r.parent /\ s.state = "pWaitRead"
      /\ s.sid = r.sid /\ s.cid = r.cid
      /\ s.wakeUpTick = r.wakeUpTick /\ s.signal = r.signal
      /\ s.rtestate = r.rtestate /\ s.saved_state = "pActive" /\ s.icpt_pid = r.icpt_pid
  <2>1. st \in PState /\ "pWaitRead" \in PState
    BY <1>4 DEF PState
  <2> HIDE DEF r
  <2> QED BY <1>3, <1>4, <2>1, Zenon DEF Process
<1> HIDE DEF r, s
<1>7. Sound(s) /\ ~Gone(s) /\ s.state \notin {"pWaiting", "pSleeping"}
  BY <1>3, <1>6 DEF Sound, Gone
<1>8. n2 \in From(os)
  BY <1>1, <1>2, <1>3, <1>6, <1>7, SameProcess DEF r
<1> HIDE DEF n2
<1>9. n3 \in Lives(os)
  BY <1>1, <1>8, KeepFamily, FromLives
<1> HIDE DEF n3, n1
<1>10. [k EXCEPT !.proc[Me].saved_state = st, !.proc[Me].state = "pWaitRead",
                 !.arbitrate = TRUE] = n3
  BY <1>1, <1>3 DEF n3, n2, s, r, Running, KernelState
<1>11. PICK kk \in Lives(os) : Return(kk)
  BY <1>5, <1>9, <1>10, Zenon DEF Read, n1, st, r, k
<1> QED BY <1>11, ReturnFamily

\* A pipe transfer changes nobody's family.
LEMMA PipeFamily == ASSUME FamilyState, Pipe PROVE Stepped
<1>1. Trapped \in From(os) /\ Me \in Slot /\ ~Gone(Trapped.proc[Me])
  BY RunsFacts DEF Pipe
<1>2. [Trapped EXCEPT !.proc[Me].state = "pSysTask"] \in Lives(os)
  BY <1>1, SetStateFamily, FromLives
<1>3. Return([Trapped EXCEPT !.proc[Me].state = "pSysTask"])
  BY DEF Pipe
<1> QED BY <1>2, <1>3, ReturnFamily

\* Nor does any other call.
LEMMA OtherFamily == ASSUME FamilyState, Other PROVE Stepped
<1>1. Trapped \in Lives(os) /\ Return(Trapped)
  BY RunsFacts, FromLives DEF Other
<1> QED BY <1>1, ReturnFamily

\* Nor does F$Send to all, before the first signal.
LEMMA SendAllFamily ==
  ASSUME FamilyState, NEW sig \in Signals, F_SendAll(sig)
  PROVE  Stepped
<1>1. os' \in Lives(os) /\ phase' = "broadcast"
  BY RunsFacts, FromLives DEF F_SendAll
<1> QED BY <1>1, LivesTo

-----------------------------------------------------------------------------
(* The other steps of the main loop. *)

\* Each signal of a broadcast ends its receiver, or nobody.
LEMMA BroadcastFamily == ASSUME FamilyState, Broadcast PROVE Stepped
<1>1. os \in From(os) /\ os \in Lives(os)
  BY OsFamily, FromLives DEF Broadcast
<1>2. phase' \in {"signals", "broadcast"}
  BY DEF Broadcast
<1>3. os' \in Lives(os)
  <2>1. CASE next = MAXPROCESSES
    BY <1>1, <2>1 DEF Broadcast
  <2>2. CASE next # MAXPROCESSES
    <3>1. next \in Slot /\ bsig \in Nat
      BY <2>2, ProcTableAssumption DEF FamilyState, TypeInv, TypeOK, Slot
    <3>2. SendSignal(os, next, bsig, FALSE) \in Lives(os)
      BY <1>1, <3>1, KeepFamily, FromLives
    <3>3. os' \in {os, SendSignal(os, next, bsig, FALSE)}
      BY <2>2 DEF Broadcast
    <3> QED BY <1>1, <3>2, <3>3
  <2> QED BY <2>1, <2>2
<1> QED BY <1>2, <1>3, LivesTo

\* A system task changes nobody's family.
LEMMA SysTaskFamily ==
  ASSUME FamilyState, NEW done \in BOOLEAN, SysTask(done)
  PROVE  Stepped
<1> DEFINE m == IF My.way_to_icpt THEN 1 ELSE os.proc[Me].masklevel
           n1 == [os EXCEPT !.arbitrate = TRUE]
           n2 == [n1 EXCEPT !.proc[Me].masklevel = m]
           st == IF done THEN "pActive" ELSE os.proc[Me].state
           n3 == [n2 EXCEPT !.proc[Me].state = st]
<1>1. /\ os \in From(os) /\ os \in Running /\ Me \in Slot /\ m \in Nat
      /\ os.proc[Me].state = "pSysTask"
  BY OsFamily, ProcessOf, ProcessFields DEF SysTask, My
<1>2. st \in {"pActive", "pSysTask"}
  BY <1>1
<1> HIDE DEF m, st
<1>3. n1 \in From(os) /\ n1.proc = os.proc
  <2>1. n1.proc = os.proc
    BY <1>1, Zenon DEF Running, KernelState
  <2> QED BY <1>1, <2>1, KeepFamily
<1> HIDE DEF n1
<1>4. n2 \in From(os) /\ n2.proc[Me].state = n1.proc[Me].state
  <2>1. n1 \in Running
    BY <1>3, FromFacts
  <2>2. n2 \in From(os)
    BY <1>1, <1>3, KeepFamily
  <2>3. n2.proc[Me].state = n1.proc[Me].state
    BY <1>1, <2>1, UpdateStates
  <2> QED BY <2>2, <2>3
<1> HIDE DEF n2
<1>5. n3 \in Lives(os)
  BY <1>1, <1>2, <1>3, <1>4, SetStateFamily, FromLives DEF Gone
<1> HIDE DEF n3
<1>6. Arbitrate(n3, My.way_to_icpt)
  BY Zenon DEF SysTask, n3, n2, n1, m, st
<1> QED BY <1>5, <1>6, ArbitrateFamily

\* Nor does an iteration without a running process.
LEMMA IdleFamily == ASSUME FamilyState, Idle PROVE Stepped
<1> DEFINE m == IF My.way_to_icpt THEN 1 ELSE os.proc[Me].masklevel
           n == [os EXCEPT !.proc[Me].masklevel = m]
<1>1. os \in From(os) /\ Me \in Slot /\ m \in Nat
  BY OsFamily, ProcessOf, ProcessFields DEF Idle
<1> HIDE DEF m
<1>2. n \in Lives(os)
  BY <1>1, KeepFamily, FromLives
<1> HIDE DEF n
<1>3. Arbitrate(n, My.way_to_icpt)
  BY Zenon DEF Idle, n, m
<1> QED BY <1>2, <1>3, ArbitrateFamily

\* A fatal trap ends the process that ran into it.
LEMMA TrapFamily == ASSUME FamilyState, Trap PROVE Stepped
<1> DEFINE k == [Trapped EXCEPT !.arbitrate = os.arbitrate]
<1>1. Trapped \in From(os) /\ Me \in Slot /\ os.arbitrate \in BOOLEAN
  BY TrappedFamily, OsFamily, QueueOf DEF Trap, Executes
<1>2. k \in From(os)
  BY <1>1, KeepFamily
<1> HIDE DEF k
<1>3. KillProcess(k, Me) \in Lives(os)
  BY <1>1, <1>2, KeepFamily, FromLives
<1>4. Arbitrate(KillProcess(k, Me), My.way_to_icpt)
  BY DEF Trap, k
<1> QED BY <1>3, <1>4, ArbitrateFamily

\* A trap with a handler changes nobody's family.
LEMMA TrapHandledFamily ==
  ASSUME FamilyState, NEW entry \in BOOLEAN, TrapHandled(entry)
  PROVE  Stepped
<1> DEFINE k == [Trapped EXCEPT !.arbitrate = os.arbitrate]
<1>1. Trapped \in From(os) /\ Me \in Slot /\ os.arbitrate \in BOOLEAN
  BY RunsFacts, OsFamily, QueueOf DEF TrapHandled
<1>2. k \in Lives(os)
  BY <1>1, KeepFamily, FromLives
<1> HIDE DEF k
<1>3. (os' = k /\ phase' = phase /\ scan' = scan) \/ Arbitrate(k, My.way_to_icpt)
  BY DEF TrapHandled, k
<1> QED BY <1>2, <1>3, ArbitrateFamily, LivesTo

\* Going to the intercept routine: a wait or a read that it interrupts is the
\* state to come back to.  The process that goes there was noted, and so is
\* not the sleeping host.
LEMMA InterceptedFamily ==
  ASSUME NEW k0, NEW k \in From(k0), NEW c \in Slot
  PROVE  Intercepted(k, c) \in From(k0)
<1> DEFINE t == k.proc[c].icpt_pid
           r == k.proc[t]
           masked == k.proc[c].icpt_signal # S_Wake /\ r.state # "pDead"
           resumed == /\ masked /\ r.sigvec
                      /\ (t = c /\ r.state = "pWaitRead") \/ r.state = "pWaiting"
           b == (t = k.currentpid)
           g1 == [k EXCEPT !.proc[c].way_to_icpt = b]
           g2 == [g1 EXCEPT !.currentpid = t]
           m == IF masked THEN 1 ELSE r.masklevel
           rt == IF ~resumed THEN r.rtestate
                 ELSE IF r.state = "pWaitRead" THEN "pWaitRead" ELSE "pActive"
           st == IF resumed THEN "pActive" ELSE r.state
           r0 == g2.proc[t]
           s == [r0 EXCEPT !.masklevel = m, !.rtestate = rt, !.state = st]
<1>1. t \in Slot /\ b \in BOOLEAN /\ k \in Running /\ (t # KernelPid \/ ~HostAsleep(k))
  BY FromFacts, ProcessFields DEF HostAlone
<1> HIDE DEF t, b
<1>2. r \in Process /\ Sound(r)
  BY <1>1, FromFacts
<1>3. g1 \in From(k0) /\ g1 \in From(k)
  <2>1. k \in From(k)
    BY FromSelf DEF From
  <2> QED BY <1>1, <2>1, KeepFamily
<1>4. /\ g1.proc[t].state = k.proc[t].state
      /\ g1.proc[t].rtestate = k.proc[t].rtestate
      /\ g1.proc[t].saved_state = k.proc[t].saved_state
  BY <1>1 DEF Running, KernelState, Process
<1> HIDE DEF g1
<1>5. g2 \in From(k0)
  <2>1. t # KernelPid \/ ~HostAsleep(g1)
    BY <1>1, <1>3, FromLives DEF Lives
  <2> QED BY <1>1, <1>3, <2>1, SetCurrentFrom
<1>6. g2.proc = g1.proc
  <2>1. g1 \in Running
    BY <1>3, FromFacts
  <2> QED BY <2>1, Zenon DEF Running, KernelState
<1> HIDE DEF g2
<1>7. /\ r0 \in Process /\ Sound(r0) /\ r0.state = r.state
      /\ r0.rtestate = r.rtestate /\ r0.saved_state = r.saved_state
  <2>1. r0 \in Process /\ Sound(r0)
    BY <1>1, <1>5, FromFacts
  <2> QED BY <1>4, <1>6, <2>1
<1>8. \/ st = r.state /\ rt = r.rtestate
      \/ /\ st = "pActive" /\ r.state \in {"pWaitRead", "pWaiting"}
         /\ rt = "pActive" \/ (rt = "pWaitRead" /\ r.state = "pWaitRead")
  BY DEF resumed
<1> HIDE DEF masked, resumed
<1>9. m \in Nat
  BY <1>2, ProcessFields
<1> HIDE DEF m, rt, st, r, r0
<1>10. rt \in PState /\ st \in PState
  BY <1>2, <1>8, ProcessFields DEF PState
<1>11. /\ s \in Process /\ s.code = r0.code /\ s.parent = r0.parent /\ s.state = st
       /\ s.sid = r0.sid /\ s.cid = r0.cid
       /\ s.rtestate = rt /\ s.wakeUpTick = r0.wakeUpTick /\ s.signal = r0.signal
       /\ s.saved_state = r0.saved_state /\ s.icpt_pid = r0.icpt_pid
  BY <1>7, <1>9, <1>10, Zenon DEF Process
<1> HIDE DEF s
<1>12. Sound(s)
  BY <1>7, <1>8, <1>11 DEF Sound, Gone
<1>13. \/ s.state = r0.state
       \/ ~Gone(r0) /\ ~Gone(s) /\ s.state \notin {"pWaiting", "pSleeping"}
  BY <1>7, <1>8, <1>11 DEF Gone
<1>14. [g2 EXCEPT !.proc[t] = s] \in From(k0)
  BY <1>1, <1>5, <1>11, <1>12, <1>13, SameProcess DEF r0
<1> QED BY <1>14, Zenon DEF Intercepted, s, r0, st, rt, m, g2, g1, b, resumed, masked, r, t

\* Taking signals after a call ends their receivers, or nobody.
LEMMA TakeSignalsFamily ==
  ASSUME FamilyState, NEW alarm \in {NoAlarm} \cup AlarmSignals, TakeSignals(alarm)
  PROVE  Stepped
<1> DEFINE a == IF alarm = NoAlarm THEN os
                ELSE SendSignal(os, alarm.pid, alarm.signal, FALSE)
           k == IF a.pending /\ a.proc[cpid].masklevel = 0
                THEN MaskOff(a, cpid, TRUE) ELSE a
           on_way == k.proc[cpid].way_to_icpt
           kk == IF on_way THEN Intercepted(k, cpid) ELSE k
<1>1. os \in From(os) /\ cpid \in Slot
  BY OsFamily DEF TakeSignals, FamilyState, TypeInv, TypeOK
<1>2. a \in From(os)
  <2>1. CASE alarm = NoAlarm
    BY <2>1, <1>1
  <2>2. CASE alarm # NoAlarm
    <3>1. alarm \in [pid : UserPid, signal : HostSignals]
      BY <2>2 DEF AlarmSignals
    <3>2. alarm.pid \in UserPid /\ alarm.signal \in HostSignals
      BY <3>1
    <3>3. alarm.pid \in Slot /\ alarm.signal \in Nat
      <4>1. UserPid \subseteq Slot
        BY ProcTableAssumption DEF UserPid, Slot
      <4> QED BY <3>2, <4>1, KernelAssumption, Zenon
    <3> QED BY <2>2, <1>1, <3>3, KeepFamily
  <2> QED BY <2>1, <2>2
<1> HIDE DEF a
<1>3. k \in From(os)
  BY <1>1, <1>2, KeepFamily
<1> HIDE DEF k
<1>4. kk \in Lives(os)
  BY <1>1, <1>3, InterceptedFamily, FromLives
<1> HIDE DEF kk, on_way
<1>5. Arbitrate(kk, on_way)
  BY Zenon DEF TakeSignals, kk, on_way, k, a
<1> QED BY <1>4, <1>5, ArbitrateFamily

-----------------------------------------------------------------------------
(* do_arbitrate. *)

\* It leaves the sleeping host out.
LEMMA CandidateAlone ==
  ASSUME FamilyState, phase = "arbitrate", HostAsleep(os)
  PROVE  Candidate # KernelPid
<1>1. scan.spid # KernelPid /\ scan \in Scan
  BY CandidateType DEF FamilyState, ScanInv
<1>2. Above \subseteq Nat
  <2>1. scan.spid \in Nat
    BY <1>1, SlotIsNat DEF Scan
  <2> QED BY <2>1 DEF Above
<1>3. Above # {} => Least(Above) \in Above
  BY <1>2, LeastIsMember
<1>4. Above # {} => Least(Above) # KernelPid
  <2>1. \A q \in Above : q # KernelPid
    BY DEF Above
  <2> QED BY <1>3, <2>1
<1> QED BY <1>1, <1>4, HostSlot DEF Candidate

\* The end of the search reports a dead child, or nobody's.
LEMMA ChooseFamily ==
  ASSUME FamilyState, phase = "arbitrate", NEW k \in From(os),
         NEW n \in 0 .. MAXPROCESSES, HostAsleep(k) => n # KernelPid,
         \/ n = MAXPROCESSES
         \/ Like(os.proc, k.proc)
         \/ k.proc[n].state # "pWaiting",
         Choose(k, n)
  PROVE  Stepped
<1> DEFINE p == IF n = MAXPROCESSES THEN scan.sleeping ELSE n
           dead == IF p = MAXPROCESSES THEN {} ELSE DeadChildren(k, p)
           chosen == [k EXCEPT !.currentpid = p]
           q == Least(dead)
           reaped == Reap(chosen, p, q)
           m == [reaped EXCEPT !.proc[p].state = "pActive"]
<1>1. k \in Running /\ k \in Lives(os) /\ k \in Family
  BY FromFacts, FromLives
<1>2. HostAsleep(k) => p # KernelPid
  BY <1>1 DEF FamilyState, ScanInv, Lives
<1>3. chosen.proc = k.proc /\ chosen.queue = k.queue /\ chosen.currentpid = p
  <2> HIDE DEF p
  <2> QED BY <1>1, Zenon DEF Running, KernelState
<1>4. CASE n = MAXPROCESSES \/ k.proc[n].state # "pWaiting" \/ dead = {}
  <2>1. os' = chosen /\ phase' = "switch"
    BY <1>4, Zenon DEF Choose
  <2> HIDE DEF chosen, p
  <2>2. HostAsleep(chosen) <=> HostAsleep(k)
    BY <1>3 DEF HostAsleep
  <2>3. HostAlone(chosen)
    BY <1>1, <1>2, <1>3, <2>2 DEF HostAlone, Family, FamilyInv
  <2>4. FamilyInv(chosen)
    BY <1>1, <1>3, <2>3 DEF Family, FamilyInv, NoKillQueued
  <2> QED BY <1>1, <1>3, <2>1, <2>2, <2>4, StepTo DEF Lives
<1>5. CASE ~(n = MAXPROCESSES \/ k.proc[n].state # "pWaiting" \/ dead = {})
  <2>1. os' = m /\ phase' = "switch"
    BY <1>5, Zenon DEF Choose, Unwait
  <2>2. p = n /\ p \in Slot /\ dead = DeadChildren(k, p) /\ k.proc[p].state = "pWaiting"
    BY <1>5, ProcTableAssumption DEF Slot
  <2>3. q \in Slot /\ q \in dead
    BY <1>1, <1>5, <2>2, ChildType
  <2>4. k.proc[q].state = "pDead" /\ k.proc[q].parent = p /\ p # q
    BY <2>2, <2>3 DEF DeadChildren
  <2>5. Like(os.proc, k.proc)
    BY <1>5, <2>2
  <2> HIDE DEF p, q, dead
  <2>6. chosen \in From(k)
    BY <1>1, <1>2, <2>2, SetCurrentFrom, FromSelf
  <2>7. chosen \in Family
    BY <2>6 DEF From
  <2> HIDE DEF chosen
  <2>8. /\ reaped \in Family
        /\ \A x \in Slot :
             /\ reaped.proc[x].code = k.proc[x].code
             /\ reaped.proc[x].parent = k.proc[x].parent
             /\ reaped.proc[x].state = IF x = q THEN "pUnused" ELSE k.proc[x].state
        /\ Listed(k.proc) => Listed(reaped.proc)
    <3>1. chosen.proc[q].state = "pDead" /\ chosen.proc[q].parent = p
      BY <1>3, <2>4
    <3>2. /\ reaped \in Family
          /\ \A x \in Slot :
               /\ reaped.proc[x].code = chosen.proc[x].code
               /\ reaped.proc[x].parent = chosen.proc[x].parent
               /\ reaped.proc[x].state = IF x = q THEN "pUnused" ELSE chosen.proc[x].state
          /\ Listed(chosen.proc) => Listed(reaped.proc)
      BY <2>2, <2>3, <2>7, <3>1, ReapFamily
    <3> QED BY <1>3, <3>2
  <2> HIDE DEF reaped
  <2>9. m \in Family /\ (Listed(reaped.proc) => Listed(m.proc))
    <3>1. ~Gone(reaped.proc[p]) /\ reaped \in From(reaped)
      BY <2>2, <2>4, <2>8, FromSelf DEF Gone
    <3>2. m \in From(reaped)
      BY <2>2, <3>1, WakeFrom
    <3> HIDE DEF m
    <3>3. m \in Lives(reaped)
      BY <3>2, FromLives
    <3> QED BY <3>3 DEF Lives
  <2>10. \A x \in Slot :
           /\ m.proc[x].code = k.proc[x].code /\ m.proc[x].parent = k.proc[x].parent
           /\ m.proc[x].state = IF x = p THEN "pActive"
                                ELSE IF x = q THEN "pUnused" ELSE k.proc[x].state
    <3>1. /\ reaped \in Running
          /\ \A x \in Slot :
               /\ reaped.proc[x].code = k.proc[x].code
               /\ reaped.proc[x].parent = k.proc[x].parent
               /\ reaped.proc[x].state = IF x = q THEN "pUnused" ELSE k.proc[x].state
      BY <2>8 DEF Family
    <3>2. \A x \in Slot :
            /\ m.proc[x].code = reaped.proc[x].code /\ m.proc[x].parent = reaped.proc[x].parent
            /\ m.proc[x].state = IF x = p THEN "pActive" ELSE reaped.proc[x].state
      <4>1. p \in Slot /\ reaped \in Running
        BY <2>2, <3>1
      <4> QED BY <4>1, StateFields
    <3> HIDE DEF m
    <3> QED BY <3>1, <3>2
  <2> HIDE DEF m
  <2>11. ReportedIn(q, k.proc, m.proc)
    <3>1. StatusOf(k.proc[q]) = "zombie" /\ m.proc[q].state = "pUnused"
      BY <2>3, <2>4, <2>10 DEF StatusOf
    <3>2. StatusOf(k.proc[p]) = StatusOf(m.proc[p]) /\ ParentOf(k.proc[p]) = ParentOf(m.proc[p])
      BY <2>2, <2>10 DEF StatusOf, ParentOf
    <3>3. \A x \in Slot : x # p /\ x # q =>
            StatusOf(k.proc[x]) = StatusOf(m.proc[x]) /\ ParentOf(k.proc[x]) = ParentOf(m.proc[x])
      BY <2>10 DEF StatusOf, ParentOf
    <3>4. StatusOf(m.proc[q]) = "free" /\ ParentOf(m.proc[q]) = 0
      BY <3>1 DEF StatusOf, ParentOf
    <3> QED BY <2>4, <3>1, <3>2, <3>3, <3>4 DEF ReportedIn
  <2>12. Waiters(k.proc) => Waiters(m.proc)
    <3>1. ASSUME Waiters(k.proc), NEW w \in Pid, m.proc[w].state = "pWaiting"
          PROVE  \E x \in Pid : ParentOf(m.proc[x]) = w
      <4>1. k.proc[w].state = "pWaiting" /\ w \in Slot /\ w # p
        BY <2>2, <2>10, <3>1, SlotIsNat
      <4>2. PICK x \in Pid : ParentOf(k.proc[x]) = w
        BY <3>1, <4>1 DEF Waiters
      <4>3. x # q /\ x \in Slot
        BY <2>4, <4>1, <4>2, SlotIsNat DEF ParentOf
      <4> QED BY <2>11, <4>2, <4>3 DEF ReportedIn
    <3> QED BY <3>1 DEF Waiters
  <2>13. HostAsleep(m) => HostAsleep(k)
    BY <2>10, HostSlot DEF HostAsleep
  <2>14. m \in Lives(os)
    <3>1. Life(k.proc, m.proc)
      BY <2>3, <2>11 DEF Life
    <3> QED BY <2>5, <2>8, <2>9, <2>12, <2>13, <3>1, LikeLives
  <2> QED BY <2>1, <2>14, LivesTo
<1> QED BY <1>4, <1>5

\* A candidate that cannot run is passed.
LEMMA PassFamily ==
  ASSUME FamilyState, phase = "arbitrate", NEW k \in From(os),
         NEW sc \in Scan, HostAsleep(k) => sc.spid # KernelPid /\ sc.sleeping # KernelPid,
         Like(os.proc, k.proc) \/ k.proc[sc.spid].state # "pWaiting",
         Pass(k, sc)
  PROVE  Stepped
<1> DEFINE kk == [k EXCEPT !.arbitrate = TRUE]
<1>1. sc.spid \in 0 .. MAXPROCESSES /\ MAXPROCESSES \in 0 .. MAXPROCESSES
      /\ MAXPROCESSES # KernelPid
  BY ProcTableAssumption DEF Scan, Slot, KernelPid
<1>2. kk \in From(os) /\ kk.proc = k.proc
  <2>1. k \in Running
    BY FromFacts
  <2>2. kk.proc = k.proc
    BY <2>1, Zenon DEF Running, KernelState
  <2> QED BY <2>2, Zero, KeepFamily
<1> HIDE DEF kk
<1>3. Choose(k, sc.spid) \/ Choose(kk, MAXPROCESSES)
      \/ (os' = kk /\ phase' = phase /\ scan' = sc)
  BY Zenon DEF Pass, kk
<1>4. CASE Choose(k, sc.spid)
  BY <1>1, <1>4, ChooseFamily
<1>5. CASE Choose(kk, MAXPROCESSES)
  BY <1>1, <1>2, <1>5, ChooseFamily
<1>6. CASE os' = kk /\ phase' = phase /\ scan' = sc
  <2>1. kk \in Lives(os) /\ (HostAsleep(kk) => HostAsleep(k))
    BY <1>2, FromLives DEF HostAsleep
  <2> QED BY <1>6, <2>1 DEF Stepped, Lives, Family
<1> QED BY <1>3, <1>4, <1>5, <1>6

\* Where the search goes on.
LEMMA LookedFields ==
  ASSUME FamilyState, phase = "arbitrate"
  PROVE  /\ Looked \in Scan /\ Looked.spid = Candidate /\ Looked.sleeping = scan.sleeping
         /\ HostAsleep(os) => Candidate # KernelPid /\ scan.sleeping # KernelPid
<1>1. Looked \in Scan /\ scan \in Scan
  BY CandidateType DEF FamilyState
<1>2. Looked.spid = Candidate /\ Looked.sleeping = scan.sleeping
  BY <1>1, Zenon DEF Looked, Scan
<1> QED BY <1>1, <1>2, CandidateAlone DEF FamilyState, ScanInv

\* The search goes back to the beginning of the table.
LEMMA ArbWrapFamily == ASSUME FamilyState, ArbWrap PROVE Stepped
<1>1. os \in Lives(os) /\ os' = os /\ phase' = phase /\ phase = "arbitrate"
      /\ scan' = [scan EXCEPT !.spid = 0] /\ scan \in Scan
  BY OsFamily, FromLives, CandidateType DEF ArbWrap, FamilyState
<1>2. scan'.spid = 0 /\ scan'.sleeping = scan.sleeping
  BY <1>1 DEF Scan
<1> QED BY <1>1, <1>2, HostSlot DEF Stepped, Lives, Family, FamilyState, ScanInv

\* A process that can run is chosen.
LEMMA ArbRunnableFamily == ASSUME FamilyState, ArbRunnable PROVE Stepped
<1>1. phase = "arbitrate" /\ TypeInv /\ Choose(os, Candidate)
  BY DEF ArbRunnable, Searching, FamilyState
<1>2. /\ os \in From(os) /\ Candidate \in Slot /\ Like(os.proc, os.proc)
      /\ HostAsleep(os) => Candidate # KernelPid
  BY <1>1, OsFamily, CandidateType, CandidateAlone DEF Like
<1>3. Candidate \in 0 .. MAXPROCESSES
  BY <1>2, ProcTableAssumption DEF Slot
<1> QED BY <1>1, <1>2, <1>3, ChooseFamily

\* A blocked reader is chosen or passed.
LEMMA ArbWaitReadFamily == ASSUME FamilyState, ArbWaitRead PROVE Stepped
<1> DEFINE x == NextAge(os.proc[Candidate].pW_age)
           k == [os EXCEPT !.proc[Candidate].pW_age = x]
           sc == [Looked EXCEPT !.done = FALSE]
<1>1. phase = "arbitrate" /\ TypeInv /\ os.proc[Candidate].state = "pWaitRead"
  BY DEF ArbWaitRead, Searching, FamilyState, CState
<1>2. os \in From(os) /\ os \in Running /\ Candidate \in Slot
  BY <1>1, OsFamily, CandidateType
<1>3. x \in 0 .. NewAge
  <2>1. os.proc[Candidate].pW_age \in 0 .. NewAge
    BY <1>2, ProcessOf, ProcessFields
  <2> QED BY <2>1, ProcTableAssumption DEF NextAge
<1> HIDE DEF x
<1>4. /\ k \in From(os)
      /\ HostAsleep(k) => HostAsleep(os)
      /\ k.proc[Candidate].state # "pWaiting"
  <2>1. k \in From(os)
    BY <1>2, <1>3, KeepFamily
  <2>2. k.proc[Candidate].state = "pWaitRead"
    BY <1>1, <1>2 DEF Running, KernelState, Process
  <2> HIDE DEF k
  <2> QED BY <2>1, <2>2, FromLives DEF Lives
<1> HIDE DEF k
<1>5. /\ sc \in Scan /\ sc.spid = Candidate /\ sc.sleeping = scan.sleeping
      /\ HostAsleep(os) => Candidate # KernelPid /\ scan.sleeping # KernelPid
  BY <1>1, LookedFields, Zenon DEF Scan
<1> HIDE DEF sc
<1>6. Candidate \in 0 .. MAXPROCESSES
  BY <1>2, ProcTableAssumption DEF Slot
<1>7. Choose(k, Candidate) \/ Pass(k, sc)
  BY Zenon DEF ArbWaitRead, k, x, sc
<1>8. CASE Choose(k, Candidate)
  BY <1>1, <1>4, <1>5, <1>6, <1>8, ChooseFamily
<1>9. CASE Pass(k, sc)
  BY <1>1, <1>4, <1>5, <1>9, PassFamily
<1> QED BY <1>7, <1>8, <1>9

\* What happens at a sleeper ends the receivers of signals, or nobody.
LEMMA PolledFamily ==
  ASSUME FamilyState, phase = "arbitrate", NEW net \in HostSignals \cup {NoSignal}
  PROVE  Polled(net) \in From(os)
<1> DEFINE n == Candidate
           aged == [os EXCEPT !.proc[n].pW_age = NewAge]
           k == IF aged.pending /\ aged.proc[n].masklevel = 0
                THEN MaskOff(aged, n, TRUE) ELSE aged
           k1 == [k EXCEPT !.currentpid = 0]
           sent == SendSignal(k1, n, net, TRUE)
<1>1. os \in From(os) /\ n \in Slot
  BY OsFamily, CandidateType DEF FamilyState
<1>2. aged \in From(os)
  <2>1. NewAge \in 0 .. NewAge
    BY ProcTableAssumption
  <2> QED BY <1>1, <2>1, KeepFamily
<1> HIDE DEF n, aged
<1>3. k \in From(os)
  BY <1>1, <1>2, KeepFamily
<1> HIDE DEF k
<1>4. k1 \in From(os) /\ k1.proc = k.proc
  <2>1. k \in Running
    BY <1>3, FromFacts
  <2>2. k1 \in From(os)
    BY <1>3, Zero, HostSlot, SetCurrentFrom
  <2>3. k1.proc = k.proc
    BY <2>1, Zenon DEF Running, KernelState
  <2> QED BY <2>2, <2>3
<1> HIDE DEF k1
<1>5. sent \in From(os) /\ (HostAsleep(sent) => HostAsleep(k))
  <2>1. net \in Nat
    BY KernelAssumption DEF NoSignal
  <2>2. k1 \in From(k1)
    BY <1>4, FromSelf DEF From
  <2>3. sent \in From(os) /\ sent \in From(k1)
    BY <1>1, <1>4, <2>1, <2>2, SendSignalFrom
  <2> HIDE DEF sent
  <2> QED BY <1>4, <2>3, FromLives DEF Lives, HostAsleep
<1> HIDE DEF sent
<1>6. k.currentpid \in Slot /\ (HostAsleep(k) => k.currentpid # KernelPid)
  BY <1>3, FromFacts, QueueOf DEF HostAlone
<1>7. [sent EXCEPT !.currentpid = k.currentpid] \in From(os)
  BY <1>5, <1>6, SetCurrentFrom
<1> QED BY <1>3, <1>7, Zenon DEF Polled, sent, k1, k, aged, n

\* No time to wake up comes: a program sleeps for ever, and the sleeping host is left out.
LEMMA NobodyIsDue ==
  ASSUME FamilyState, NEW net \in HostSignals \cup {NoSignal}, ArbSleeping(net)
  PROVE  Polled(net).proc[Candidate].wakeUpTick # "due"
<1> DEFINE n == Candidate
           k == Polled(net)
<1>1. phase = "arbitrate" /\ TypeInv /\ os.proc[n].state = "pSleeping"
  BY DEF ArbSleeping, Searching, FamilyState, CState
<1>2. os \in From(os) /\ n \in Slot /\ k \in From(os)
  BY <1>1, OsFamily, CandidateType, PolledFamily
<1>3. SUFFICES ASSUME k.proc[n].wakeUpTick = "due" PROVE FALSE
  OBVIOUS
<1>4. os.proc[n].wakeUpTick = "due"
  BY <1>2, <1>3 DEF From, Kept
<1>5. ~os.proc[n].code
  BY <1>1, <1>2, <1>4, FromFacts DEF Sound
<1>6. n = KernelPid
  BY <1>1, <1>2, <1>5, FromFacts DEF HostAlone
<1>7. HostAsleep(os) => n # KernelPid
  BY <1>1, LookedFields
<1> QED BY <1>1, <1>5, <1>6, <1>7 DEF HostAsleep

\* A sleeper is passed: it sleeps for ever, until a signal wakes it.
LEMMA ArbSleepingFamily ==
  ASSUME FamilyState, NEW net \in HostSignals \cup {NoSignal}, ArbSleeping(net)
  PROVE  Stepped
<1> DEFINE n == Candidate
           sc == [Looked EXCEPT !.atLeast1 = TRUE]
           k == Polled(net)
           x == os.proc[n].pW_age - 1
           k1 == [os EXCEPT !.proc[n].pW_age = x]
           sc2 == [sc EXCEPT !.sleeping = n]
<1>1. phase = "arbitrate" /\ TypeInv /\ os.proc[n].state = "pSleeping"
  BY DEF ArbSleeping, Searching, FamilyState, CState
<1>2. /\ os \in From(os) /\ os \in Running /\ n \in Slot /\ k \in From(os)
  BY <1>1, OsFamily, CandidateType, PolledFamily
<1>3. n \in 0 .. MAXPROCESSES
  BY <1>2, ProcTableAssumption DEF Slot
<1>4. /\ sc \in Scan /\ sc.spid = n /\ sc.sleeping = scan.sleeping
      /\ HostAsleep(os) => n # KernelPid /\ scan.sleeping # KernelPid
  BY <1>1, LookedFields, Zenon DEF Scan
<1>5. CASE ~Aged /\ ~sc.chkAll
  <2>1. os.proc[n].pW_age \in 0 .. NewAge /\ os.proc[n].pW_age # 0
    BY <1>2, <1>5, ProcessOf, ProcessFields DEF Aged
  <2>2. x \in 0 .. NewAge
    BY <2>1, ProcTableAssumption
  <2> HIDE DEF x
  <2>3. k1 \in From(os)
    BY <1>2, <2>2, KeepFamily
  <2>4. k1.proc[n].state = "pSleeping"
    BY <1>1, <1>2 DEF Running, KernelState, Process
  <2>5. Pass(k1, sc)
    BY <1>5, Zenon DEF ArbSleeping, x
  <2> HIDE DEF k1, sc, n
  <2>6. HostAsleep(k1) => HostAsleep(os)
    BY <2>3, FromLives DEF Lives
  <2> QED BY <1>1, <1>4, <2>3, <2>4, <2>5, <2>6, PassFamily
<1>6. k.proc[n].wakeUpTick # "due"
  BY NobodyIsDue
<1>7. CASE ~(~Aged /\ ~sc.chkAll) /\ k.proc[n].wakeUpTick # "due"
  <2>1. Pass(k, sc2)
    BY <1>7, Zenon DEF ArbSleeping
  <2> HIDE DEF n, sc
  <2>2. sc2 \in Scan /\ sc2.spid = n /\ sc2.sleeping = n
    BY <1>3, <1>4, Zenon DEF Scan
  <2>3. k.proc[n].state # "pWaiting"
    BY <1>1, <1>2 DEF From, Kept, Calm
  <2> HIDE DEF sc2, k
  <2>4. HostAsleep(k) => HostAsleep(os)
    BY <1>2, FromLives DEF Lives
  <2> QED BY <1>1, <1>2, <1>4, <2>1, <2>2, <2>3, <2>4, PassFamily
<1> QED BY <1>5, <1>6, <1>7

\* A process that cannot run is passed.
LEMMA ArbNotRunnableFamily == ASSUME FamilyState, ArbNotRunnable PROVE Stepped
<1>1. phase = "arbitrate" /\ TypeInv /\ Pass(os, Looked)
  BY DEF ArbNotRunnable, Searching, FamilyState
<1>2. os \in From(os) /\ Like(os.proc, os.proc)
  BY <1>1, OsFamily DEF Like
<1> QED BY <1>1, <1>2, LookedFields, PassFamily

\* Going over to the chosen process changes nobody's family.
LEMMA SwitchFamily == ASSUME FamilyState, Switch PROVE Stepped
<1> DEFINE gives == Me # MAXPROCESSES /\ ~cwti /\ My.way_to_icpt /\ My.icpt_pid # Me
           n1 == [os EXCEPT !.proc[Me].way_to_icpt = FALSE]
           n2 == [n1 EXCEPT !.currentpid = My.icpt_pid]
<1>1. os \in KernelState /\ Me \in 0 .. MAXPROCESSES /\ FamilyInv(os) /\ Kin(os.proc)
  BY DEF FamilyState, TypeInv, TypeOK, KernelState, Me, FamilyInv
<1>2. phase' # "arbitrate"
  BY DEF Switch
<1>3. ASSUME gives PROVE n2 \in Lives(os)
  <2>1. Me \in Slot /\ os \in Family
    BY <1>1, <1>3, ProcTableAssumption DEF Slot, Running, Me, Family
  <2>2. My.icpt_pid \in Slot /\ (HostAsleep(os) => My.icpt_pid # KernelPid)
    BY <2>1, ProcessOf, ProcessFields DEF My, Family, FamilyInv, HostAlone
  <2>3. n1 \in From(os)
    BY <2>1, FromSelf, KeepFamily
  <2> HIDE DEF n1
  <2>4. HostAsleep(n1) => HostAsleep(os)
    BY <2>3, FromLives DEF Lives
  <2>5. n2 \in From(os)
    BY <2>2, <2>3, <2>4, SetCurrentFrom
  <2> QED BY <2>5, FromLives
<1>4. CASE gives
  <2>1. os' \in Lives(os)
    BY <1>3, <1>4, Zenon DEF Switch
  <2> QED BY <1>2, <2>1, LivesTo
<1>5. CASE ~gives
  <2>1. os' = os
    BY <1>5, Zenon DEF Switch
  <2>2. EndedIn(os.proc, os.proc)
    BY <1>1, NobodyEnds
  <2> QED BY <1>1, <1>2, <2>1, <2>2, StepTo DEF Life
<1> QED BY <1>4, <1>5

\* Time ends no sleep of a program: they all sleep for ever.
LEMMA TickFamily ==
  ASSUME FamilyState, NEW p \in Pid, Tick(p)
  PROVE  Stepped
<1> DEFINE r == os.proc[p]
           s == [r EXCEPT !.wakeUpTick = "due"]
           m == [os EXCEPT !.proc[p] = s]
<1>1. os \in KernelState /\ p \in Slot /\ FamilyInv(os) /\ os' = m
      /\ r.wakeUpTick = "later" /\ phase' = phase /\ scan' = scan
  BY SlotIsNat DEF FamilyState, TypeInv, TypeOK, Tick
<1>2. r \in Process /\ Sound(r) /\ \A q \in Slot : os.proc[q].parent \in Slot
  BY <1>1, ProcessFields DEF KernelState, FamilyInv
<1>3. /\ s.code = r.code /\ s.parent = r.parent /\ s.state = r.state
      /\ s.signal = r.signal /\ s.rtestate = r.rtestate
      /\ s.saved_state = r.saved_state /\ s.icpt_pid = r.icpt_pid
      /\ s.sid = r.sid /\ s.cid = r.cid
  <2> HIDE DEF r
  <2> QED BY <1>2, Zenon DEF Process
<1>4. /\ m.queue = os.queue /\ m.currentpid = os.currentpid
      /\ \A q \in Slot : m.proc[q] = IF q = p THEN s ELSE os.proc[q]
  BY <1>1 DEF KernelState
<1> HIDE DEF m, s, r
<1>5. Sound(s)
  BY <1>1, <1>2, <1>3 DEF Sound, Gone
<1>6. \A q \in Slot : /\ m.proc[q].state = os.proc[q].state
                      /\ m.proc[q].parent = os.proc[q].parent
                      /\ m.proc[q].code = os.proc[q].code
                      /\ m.proc[q].icpt_pid = os.proc[q].icpt_pid
                      /\ m.proc[q].sid = os.proc[q].sid
                      /\ m.proc[q].cid = os.proc[q].cid
  BY <1>3, <1>4 DEF r
<1>7. Kin(os.proc) /\ Kin(m.proc)
  BY <1>1, <1>2, <1>6, Zero DEF FamilyInv, Kin, Gone
<1>8. HostAsleep(m) <=> HostAsleep(os)
  BY <1>6, HostSlot DEF HostAsleep
<1>9. HostAlone(m)
  BY <1>1, <1>4, <1>6, <1>8 DEF FamilyInv, HostAlone
<1>10. FamilyInv(m)
  BY <1>1, <1>4, <1>5, <1>7, <1>9 DEF FamilyInv, NoKillQueued
<1>11. Like(os.proc, m.proc)
  BY <1>6 DEF Like, StatusOf, ParentOf
<1>12. Life(os.proc, m.proc)
  BY <1>7, <1>11, NobodyEnds DEF Life, Like
<1>13. Waiters(os.proc) => Waiters(m.proc)
  BY <1>6, <1>11, SlotIsNat DEF Waiters, Like
<1>14. Listed(os.proc) => Listed(m.proc)
  BY <1>6, <1>7, <1>11, ListedLike
<1> QED BY <1>1, <1>8, <1>10, <1>12, <1>13, <1>14, StepTo

\* A key that sends a signal ends its receiver, or nobody.
LEMMA KeyToBufferFamily ==
  ASSUME FamilyState, NEW p \in UserPid, NEW sig \in HostSignals, KeyToBuffer(p, sig)
  PROVE  Stepped
<1>1. p \in Slot /\ sig \in Nat
  BY KernelAssumption, ProcTableAssumption DEF UserPid, Slot
<1>2. os \in From(os)
  BY OsFamily DEF KeyToBuffer
<1>3. SendSignal(os, p, sig, FALSE) \in Lives(os)
  BY <1>1, <1>2, KeepFamily, FromLives
<1> QED BY <1>3, LivesTo DEF KeyToBuffer

-----------------------------------------------------------------------------
(* A program that sleeps sleeps for ever, in these theorems: a timed sleep  *)
(* can end after the death of its process (run Resurrect).                 *)
LEMMA NextFamily ==
  ASSUME SleepTimes \subseteq {"never"}, FamilyState, [Next]_vars
  PROVE  Stepped
<1>1. CASE SystemCall
  BY <1>1, ForkFamily, ExitFamily, ChainFamily, WaitFamily, SleepFamily, YieldFamily,
     SendFamily, SendAllFamily, IcptFamily, RTEFamily, AstrayFamily, SigmaskFamily,
     ReadFamily, TrapHandledFamily, PipeFamily, OtherFamily, TrapFamily DEF SystemCall
<1>2. CASE Loop
  BY <1>2, ArbWrapFamily, BroadcastFamily, IdleFamily, SwitchFamily, SysTaskFamily,
     TakeSignalsFamily, ArbRunnableFamily, ArbWaitReadFamily,
     ArbNotRunnableFamily, ArbSleepingFamily DEF Loop
<1>3. CASE Host
  BY <1>3, TickFamily, KeyToBufferFamily DEF Host
<1>4. CASE UNCHANGED vars
  <2>1. os' = os /\ phase' = phase /\ scan' = scan
    BY <1>4 DEF vars
  <2>2. EndedIn(os.proc, os.proc) /\ FamilyInv(os)
    BY NobodyEnds DEF FamilyState, FamilyInv
  <2> QED BY <2>1, <2>2, StepTo DEF Life
<1> QED BY <1>1, <1>2, <1>3, <1>4 DEF Next, Ended

\* Such a step keeps the invariant.
LEMMA StepFamily ==
  ASSUME SleepTimes \subseteq {"never"}
  PROVE  FamilyState /\ [Next]_vars => FamilyState'
<1> SUFFICES ASSUME FamilyState, [Next]_vars PROVE FamilyState'
  OBVIOUS
<1>1. Stepped /\ TypeInv'
  BY NextFamily, NextTypeInv DEF FamilyState
<1> QED BY <1>1 DEF Stepped, FamilyState, ScanInv, HostAsleep

\* Parents are alive, the dead have parents: as long as no program sleeps for
\* a limited time.
THEOREM FamilySafe ==
  ASSUME SleepTimes \subseteq {"never"}
  PROVE  Spec => []FamilyOK
<1>1. FamilyState => FamilyOK
  <2>1. Pid \subseteq Slot
    BY SlotIsNat
  <2> QED BY <2>1 DEF FamilyState, FamilyInv, Kin, FamilyOK
<1>2. FamilyState /\ [Next]_vars => FamilyState'
  BY StepFamily
<1> QED BY <1>1, <1>2, InitFamily, PTL DEF Spec

\* F$RTE sets back a state in which the process runs on or reads, under the
\* same condition.
THEOREM ReturnSafe ==
  ASSUME SleepTimes \subseteq {"never"}
  PROVE  Spec => []InterceptReturns
<1>1. FamilyState => InterceptReturns
  <2>1. Pid \subseteq Slot
    BY SlotIsNat
  <2> QED BY <2>1 DEF FamilyState, FamilyInv, Sound, InterceptReturns
<1>2. FamilyState /\ [Next]_vars => FamilyState'
  BY StepFamily
<1> QED BY <1>1, <1>2, InitFamily, PTL DEF Spec

Waited == Waiters(os.proc)

\* Nobody waits in vain, under the same condition: when a process waits it has
\* a child, and the child that is reported to it ends its wait.
THEOREM WaitersHaveChildren ==
  ASSUME SleepTimes \subseteq {"never"}
  PROVE  Spec => []WaitingHasChild
<1>1. Waited => WaitingHasChild
  <2>1. ASSUME Waited, NEW p \in Pid, os.proc[p].state = "pWaiting"
        PROVE  LiveChildren(os, p) \cup DeadChildren(os, p) # {}
    <3>1. p # 0
      BY DEF Pid
    <3>2. PICK q \in Pid : ParentOf(os.proc[q]) = p
      BY <2>1 DEF Waited, Waiters
    <3>3. os.proc[q].state # "pUnused" /\ os.proc[q].parent = p
      BY <3>1, <3>2 DEF ParentOf
    <3>4. q \in LiveChildren(os, p) \/ q \in DeadChildren(os, p)
      BY <3>3 DEF LiveChildren, DeadChildren, Gone
    <3> QED BY <3>4
  <2> QED BY <2>1 DEF WaitingHasChild
<1>2. Init => Waited
  <2> SUFFICES ASSUME Init PROVE Waited
    OBVIOUS
  <2>1. \A p \in Slot : os.proc[p].state # "pWaiting"
    BY DEF Init, UnusedProcess
  <2> QED BY <2>1, SlotIsNat DEF Waited, Waiters
<1>3. FamilyState /\ [Next]_vars => FamilyState'
  BY StepFamily
<1>4. FamilyState /\ Waited /\ [Next]_vars => Waited'
  <2> SUFFICES ASSUME FamilyState, Waited, [Next]_vars PROVE Waited'
    OBVIOUS
  <2>1. Waiters(os'.proc)
    BY NextFamily DEF Stepped, Waited
  <2> QED BY <2>1 DEF Waited, Waiters, ParentOf
<1> QED BY <1>1, <1>2, <1>3, <1>4, InitFamily, PTL DEF Spec

Enlisted == Listed(os.proc)

\* The lists of children in _cid and _sid hold exactly the processes that name
\* the parent, under the same condition: F$Fork hangs a child in at the head,
\* F$Wait and do_arbitrate take it out wherever it hangs.
THEOREM ChildrenListed ==
  ASSUME SleepTimes \subseteq {"never"}
  PROVE  Spec => []ChildListOK
<1>1. Enlisted => ChildListOK
  <2>1. ASSUME Enlisted, NEW p \in Pid, ~Gone(os.proc[p])
        PROVE  ChildList(os, p) = LiveChildren(os, p) \cup DeadChildren(os, p)
    <3>1. PICK n, c : ChainOf(os.proc, p, n, c)
      BY <2>1 DEF Enlisted, Listed, HasChain
    <3>2. p \in Slot /\ p # 0 /\ os.proc[0].sid = 0
      BY <2>1, SlotIsNat DEF Enlisted, Listed, Pid
    <3>3. ChildList(os, p) = {c[i] : i \in 0 .. n - 1}
      BY <3>1, <3>2, ChainIsChildList
    <3>4. {c[i] : i \in 0 .. n - 1} = {q \in Pid : ParentOf(os.proc[q]) = p}
      BY <3>1 DEF ChainOf
    <3>5. \A q \in Pid : ParentOf(os.proc[q]) = p <=>
                            q \in LiveChildren(os, p) \cup DeadChildren(os, p)
      BY <3>2 DEF ParentOf, LiveChildren, DeadChildren, Gone
    <3>6. LiveChildren(os, p) \cup DeadChildren(os, p) \subseteq Pid
      BY DEF LiveChildren, DeadChildren
    <3> QED BY <3>3, <3>4, <3>5, <3>6
  <2> QED BY <2>1 DEF ChildListOK
<1>2. Init => Enlisted
  <2> SUFFICES ASSUME Init PROVE Enlisted
    OBVIOUS
  <2>1. \A p \in Slot : os.proc[p].parent = 0 /\ os.proc[p].sid = 0 /\ os.proc[p].cid = 0
    BY DEF Init, UnusedProcess
  <2>2. ASSUME NEW p \in Pid PROVE HasChain(os.proc, p)
    <3> DEFINE c == [i \in 0 .. 0 |-> 0]
    <3>1. c \in [0 .. 0 -> Slot] /\ c[0] = 0
      BY Zero
    <3>2. \A q \in Pid : ParentOf(os.proc[q]) # p
      BY <2>1, SlotIsNat DEF ParentOf, Pid
    <3>3. os.proc[p].cid = 0
      BY <2>1, SlotIsNat
    <3> HIDE DEF c
    <3>4. ChainOf(os.proc, p, 0, c)
      BY <3>1, <3>2, <3>3 DEF ChainOf
    <3> QED BY <3>4 DEF HasChain
  <2> QED BY <2>1, <2>2, Zero DEF Enlisted, Listed
<1>3. FamilyState /\ [Next]_vars => FamilyState'
  BY StepFamily
<1>4. FamilyState /\ Enlisted /\ [Next]_vars => Enlisted'
  <2> SUFFICES ASSUME FamilyState, Enlisted, [Next]_vars PROVE Enlisted'
    OBVIOUS
  <2>1. Listed(os'.proc)
    BY NextFamily DEF Stepped, Enlisted
  <2> QED BY <2>1 DEF Enlisted, Listed, HasChain, ChainOf, ParentOf, Gone
<1> QED BY <1>1, <1>2, <1>3, <1>4, InitFamily, PTL DEF Spec

-----------------------------------------------------------------------------
(* The refinement. *)

\* The processes of Lifecycle are the slots of the table, and what it sees of
\* them is their state and parent.
LEMMA PromiseSlots == Promise!Process0 = Slot
BY Zero DEF Promise!Process0

\* Each of the steps that Life allows is one of Lifecycle, or none.
LEMMA LifeIsPromised ==
  ASSUME Kin(os.proc), Life(os.proc, os'.proc)
  PROVE  [Promise!LifecycleNext]_(Promise!lvars)
<1> DEFINE f == os.proc
           g == os'.proc
           st == [p \in Slot |-> StatusOf(f[p])]
           pa == [p \in Slot |-> ParentOf(f[p])]
           st1 == [p \in Slot |-> StatusOf(g[p])]
           pa1 == [p \in Slot |-> ParentOf(g[p])]
<1> HIDE DEF f, g
<1>1. ASSUME NEW S \in SUBSET Slot, EndedBy(S, f, g), S # {}
      PROVE  /\ \A p \in S : st[p] = "alive"
             /\ LET left == {q \in Slot : pa[q] = 0 \/ pa[q] \in S}
                IN  /\ st1 = [q \in Slot |->
                                IF q \in left /\ (q \in S \/ st[q] = "zombie") THEN "free"
                                ELSE IF q \in S THEN "zombie" ELSE st[q]]
                    /\ pa1 = [q \in Slot |-> IF q \in left THEN 0 ELSE pa[q]]
  BY <1>1 DEF EndedBy
<1>2. ASSUME EndedBy({}, f, g) PROVE st1 = st /\ pa1 = pa
  <2>1. \A q \in Slot : StatusOf(f[q]) = "zombie" => ParentOf(f[q]) # 0
    BY StatusIs DEF Kin, f
  <2> QED BY <1>2, <2>1 DEF EndedBy
<1>3. ASSUME NEW q \in Slot, ReportedIn(q, f, g)
      PROVE  /\ st[q] = "zombie"
             /\ st1 = [st EXCEPT ![q] = "free"] /\ pa1 = [pa EXCEPT ![q] = 0]
  BY <1>3 DEF ReportedIn
<1>4. ASSUME NEW p \in Slot, NEW q \in Slot, ForkedIn(p, q, f, g)
      PROVE  /\ st[p] = "alive" /\ st[q] = "free" /\ q # 0
             /\ st1 = [st EXCEPT ![q] = "alive"] /\ pa1 = [pa EXCEPT ![q] = p]
  BY <1>4 DEF ForkedIn
<1>5. ASSUME NEW S \in SUBSET Slot, EndedBy(S, f, g), S # {}
      PROVE  Promise!End(S)
  BY <1>1, <1>5, PromiseSlots DEF Promise!End, Promise!Fatherless, f, g, StatusOf, ParentOf
<1>6. ASSUME EndedBy({}, f, g) PROVE UNCHANGED Promise!lvars
  BY <1>2, <1>6 DEF Promise!lvars, f, g, StatusOf, ParentOf
<1>7. ASSUME NEW q \in Slot, ReportedIn(q, f, g) PROVE Promise!Reported(q)
  BY <1>3, <1>7 DEF Promise!Reported, f, g, StatusOf, ParentOf
<1>8. ASSUME NEW p \in Slot, NEW q \in Slot, ForkedIn(p, q, f, g)
      PROVE  Promise!Fork(p, q)
  BY <1>4, <1>8 DEF Promise!Fork, f, g, StatusOf, ParentOf
<1>9. CASE EndedIn(f, g)
  <2>1. PICK S \in SUBSET Slot : EndedBy(S, f, g)
    BY <1>9 DEF EndedIn
  <2> QED BY <1>5, <1>6, <2>1, PromiseSlots DEF Promise!LifecycleNext
<1>10. CASE \E q \in Slot : ReportedIn(q, f, g)
  BY <1>7, <1>10, PromiseSlots DEF Promise!LifecycleNext
<1>11. CASE \E p, q \in Slot : ForkedIn(p, q, f, g)
  BY <1>8, <1>11, PromiseSlots DEF Promise!LifecycleNext
<1>12. Life(f, g)
  BY DEF f, g
<1> QED BY <1>9, <1>10, <1>11, <1>12 DEF Life

\* The process table keeps the promises of Lifecycle, under the same
\* condition: every end is reported once, to a parent that lives, or the
\* descriptor is free at once.
THEOREM LifecycleImplemented ==
  ASSUME SleepTimes \subseteq {"never"}
  PROVE  Spec => Implements
<1>1. Init => Promise!LifecycleInit
  <2> SUFFICES ASSUME Init PROVE Promise!LifecycleInit
    OBVIOUS
  <2>1. \A p \in Slot : /\ os.proc[p].parent = 0 /\ os.proc[p].state # "pDead"
                        /\ p = 0 => os.proc[p].state = "pUnused"
    BY DEF Init, UnusedProcess, KernelPid
  <2>2. \A p \in Slot : /\ StatusOf(os.proc[p]) \in {"free", "alive"}
                        /\ p = 0 => StatusOf(os.proc[p]) = "free"
                        /\ ParentOf(os.proc[p]) = 0
    BY <2>1 DEF StatusOf, ParentOf
  <2> QED BY <2>2, PromiseSlots, Zero DEF Promise!LifecycleInit
<1>2. FamilyState /\ [Next]_vars => [Promise!LifecycleNext]_(Promise!lvars)
  <2> SUFFICES ASSUME FamilyState, [Next]_vars
               PROVE  [Promise!LifecycleNext]_(Promise!lvars)
    OBVIOUS
  <2>1. Kin(os.proc) /\ Life(os.proc, os'.proc)
    BY NextFamily DEF Stepped, FamilyState, FamilyInv
  <2> QED BY <2>1, LifeIsPromised
<1>3. FamilyState /\ [Next]_vars => FamilyState'
  BY StepFamily
<1> QED BY <1>1, <1>2, <1>3, InitFamily, PTL DEF Spec, Implements, Promise!LifecycleSpec

-----------------------------------------------------------------------------
(* Reads that a signal may break.                                          *)

\* A signal that breaks reads is queued for q.
Awaited(k, q) ==
  \E i \in 1 .. Len(k.queue) : k.queue[i].pid = q /\ k.queue[i].signal <= Pwr_Signal

\* A process whose next read is open to signals.
Broken(r) == ~Gone(r) /\ r.pwr_brk

\* No more than n signals are queued, none of them is S_Wake, and whose reads
\* are open awaits one.
Breaks(k, n) ==
  /\ Len(k.queue) <= n
  /\ \A i \in 1 .. Len(k.queue) : k.queue[i].signal # S_Wake
  /\ \A q \in Slot : Broken(k.proc[q]) => Awaited(k, q)

BreaksOK(n) == {k \in Running : Breaks(k, n)}

\* The queue is as it was, and nobody's reads have been opened.
NoNewBreak(k, m) ==
  /\ m \in Running /\ m.queue = k.queue
  /\ \A q \in Slot : Broken(m.proc[q]) => Broken(k.proc[q])

\* Whatever opens nobody's reads leads from such a state to such a state.
LEMMA BreaksKept ==
  ASSUME NEW n, NEW k \in BreaksOK(n), NEW m, NoNewBreak(k, m)
  PROVE  m \in BreaksOK(n)
BY DEF BreaksOK, Breaks, NoNewBreak, Awaited

\* One function after the other.
LEMMA NoNewBreakInTurn ==
  ASSUME NEW k, NEW m, NEW n, NoNewBreak(k, m), NoNewBreak(m, n)
  PROVE  NoNewBreak(k, n)
BY DEF NoNewBreak

\* A descriptor may be replaced by one that opens no reads.
LEMMA SetProcessBreaks ==
  ASSUME NEW k \in Running, NEW p \in Slot, NEW r \in Process,
         Broken(r) => Broken(k.proc[p])
  PROVE  NoNewBreak(k, [k EXCEPT !.proc[p] = r])
<1> DEFINE m == [k EXCEPT !.proc[p] = r]
<1>1. m \in Running
  BY SetProcess
<1>2. m.queue = k.queue /\ \A q \in Slot : m.proc[q] = IF q = p THEN r ELSE k.proc[q]
  BY DEF Running, KernelState
<1> HIDE DEF m
<1>3. NoNewBreak(k, m)
  BY <1>1, <1>2 DEF NoNewBreak
<1> QED BY <1>3 DEF m

\* Only pwr_brk and the state of a process say whether its reads are open.
LEMMA UpdateBreaks ==
  ASSUME NEW k \in Running, NEW p \in Slot
  PROVE  /\ \A x \in Slot : NoNewBreak(k, [k EXCEPT !.proc[p].sid = x])
         /\ \A x \in Slot : NoNewBreak(k, [k EXCEPT !.proc[p].cid = x])
         /\ \A x \in Nat : NoNewBreak(k, [k EXCEPT !.proc[p].signal = x])
         /\ \A x \in BOOLEAN : NoNewBreak(k, [k EXCEPT !.proc[p].sigvec = x])
         /\ \A x \in Nat : NoNewBreak(k, [k EXCEPT !.proc[p].masklevel = x])
         /\ \A x \in BOOLEAN : NoNewBreak(k, [k EXCEPT !.proc[p].way_to_icpt = x])
         /\ \A x \in PState : NoNewBreak(k, [k EXCEPT !.proc[p].saved_state = x])
         /\ \A x \in WakeUpTick : NoNewBreak(k, [k EXCEPT !.proc[p].wakeUpTick = x])
         /\ \A x \in 0 .. NewAge : NoNewBreak(k, [k EXCEPT !.proc[p].pW_age = x])
         /\ \A x \in PState : ~Gone(k.proc[p]) \/ x \in {"pUnused", "pDead"} =>
                                NoNewBreak(k, [k EXCEPT !.proc[p].state = x])
<1> DEFINE r == k.proc[p]
<1>1. r \in Process
  BY ProcessOf
<1>2. \A s : /\ s \in Process /\ s.pwr_brk = r.pwr_brk
             /\ s.state = r.state \/ ~Gone(r) \/ Gone(s)
             => NoNewBreak(k, [k EXCEPT !.proc[p] = s])
  <2>1. ASSUME NEW s, s \in Process, s.pwr_brk = r.pwr_brk,
               s.state = r.state \/ ~Gone(r) \/ Gone(s)
        PROVE  NoNewBreak(k, [k EXCEPT !.proc[p] = s])
    <3>1. Broken(s) => Broken(r)
      BY <2>1 DEF Broken, Gone
    <3> QED BY <2>1, <3>1, SetProcessBreaks
  <2> QED BY <2>1
<1> HIDE DEF r
<1>3. \A s : s \in Process /\ s.pwr_brk = r.pwr_brk /\ s.state = r.state =>
               NoNewBreak(k, [k EXCEPT !.proc[p] = s])
  BY <1>2
<1>4. /\ \A x \in Slot : NoNewBreak(k, [k EXCEPT !.proc[p] = [r EXCEPT !.sid = x]])
      /\ \A x \in Slot : NoNewBreak(k, [k EXCEPT !.proc[p] = [r EXCEPT !.cid = x]])
      /\ \A x \in Nat : NoNewBreak(k, [k EXCEPT !.proc[p] = [r EXCEPT !.signal = x]])
      /\ \A x \in BOOLEAN : NoNewBreak(k, [k EXCEPT !.proc[p] = [r EXCEPT !.sigvec = x]])
      /\ \A x \in Nat : NoNewBreak(k, [k EXCEPT !.proc[p] = [r EXCEPT !.masklevel = x]])
      /\ \A x \in BOOLEAN : NoNewBreak(k, [k EXCEPT !.proc[p] = [r EXCEPT !.way_to_icpt = x]])
      /\ \A x \in PState : NoNewBreak(k, [k EXCEPT !.proc[p] = [r EXCEPT !.saved_state = x]])
      /\ \A x \in WakeUpTick : NoNewBreak(k, [k EXCEPT !.proc[p] = [r EXCEPT !.wakeUpTick = x]])
      /\ \A x \in 0 .. NewAge : NoNewBreak(k, [k EXCEPT !.proc[p] = [r EXCEPT !.pW_age = x]])
  <2>1. /\ \A x \in Slot : LET s == [r EXCEPT !.sid = x]
                           IN  s \in Process /\ s.pwr_brk = r.pwr_brk /\ s.state = r.state
        /\ \A x \in Slot : LET s == [r EXCEPT !.cid = x]
                           IN  s \in Process /\ s.pwr_brk = r.pwr_brk /\ s.state = r.state
        /\ \A x \in Nat : LET s == [r EXCEPT !.signal = x]
                          IN  s \in Process /\ s.pwr_brk = r.pwr_brk /\ s.state = r.state
        /\ \A x \in BOOLEAN : LET s == [r EXCEPT !.sigvec = x]
                              IN  s \in Process /\ s.pwr_brk = r.pwr_brk /\ s.state = r.state
        /\ \A x \in Nat : LET s == [r EXCEPT !.masklevel = x]
                          IN  s \in Process /\ s.pwr_brk = r.pwr_brk /\ s.state = r.state
        /\ \A x \in BOOLEAN : LET s == [r EXCEPT !.way_to_icpt = x]
                              IN  s \in Process /\ s.pwr_brk = r.pwr_brk /\ s.state = r.state
        /\ \A x \in PState : LET s == [r EXCEPT !.saved_state = x]
                             IN  s \in Process /\ s.pwr_brk = r.pwr_brk /\ s.state = r.state
        /\ \A x \in WakeUpTick : LET s == [r EXCEPT !.wakeUpTick = x]
                                 IN  s \in Process /\ s.pwr_brk = r.pwr_brk /\ s.state = r.state
        /\ \A x \in 0 .. NewAge : LET s == [r EXCEPT !.pW_age = x]
                                  IN  s \in Process /\ s.pwr_brk = r.pwr_brk /\ s.state = r.state
    BY <1>1, Zenon DEF Process
  <2> QED BY <1>3, <2>1
<1>5. ASSUME NEW x \in PState, ~Gone(r) \/ x \in {"pUnused", "pDead"}
      PROVE  NoNewBreak(k, [k EXCEPT !.proc[p] = [r EXCEPT !.state = x]])
  <2>1. LET s == [r EXCEPT !.state = x]
        IN  s \in Process /\ s.pwr_brk = r.pwr_brk /\ s.state = x
    BY <1>1, Zenon DEF Process
  <2> QED BY <1>2, <1>5, <2>1 DEF Gone
<1> QED BY <1>4, <1>5 DEF r

\* Nor do the other globals.
LEMMA GlobalsBreaks ==
  ASSUME NEW k \in Running
  PROVE  /\ \A b \in BOOLEAN : NoNewBreak(k, [k EXCEPT !.arbitrate = b])
         /\ \A c \in Slot : NoNewBreak(k, [k EXCEPT !.currentpid = c])
         /\ \A c \in Slot, b \in BOOLEAN :
              NoNewBreak(k, [k EXCEPT !.currentpid = c, !.arbitrate = b])
<1>1. \A m : m \in Running /\ m.proc = k.proc /\ m.queue = k.queue => NoNewBreak(k, m)
  BY DEF NoNewBreak
<1>2. Slot \subseteq 0 .. MAXPROCESSES
  BY ProcTableAssumption DEF Slot
<1>3. ASSUME NEW b \in BOOLEAN
      PROVE  LET m == [k EXCEPT !.arbitrate = b]
             IN  m \in Running /\ m.proc = k.proc /\ m.queue = k.queue
  BY Zenon DEF Running, KernelState
<1>4. ASSUME NEW c \in Slot
      PROVE  LET m == [k EXCEPT !.currentpid = c]
             IN  m \in Running /\ m.proc = k.proc /\ m.queue = k.queue
  BY <1>2, Zenon DEF Running, KernelState
<1>5. ASSUME NEW c \in Slot, NEW b \in BOOLEAN
      PROVE  LET m == [k EXCEPT !.currentpid = c, !.arbitrate = b]
             IN  m \in Running /\ m.proc = k.proc /\ m.queue = k.queue
  BY <1>2, Zenon DEF Running, KernelState
<1> QED BY <1>1, <1>3, <1>4, <1>5, Zenon

\* An orphan's reads are as open as before.
LEMMA OrphanBreaks ==
  ASSUME NEW r \in Process
  PROVE  Broken(Orphan(r)) <=> Broken(r)
<1>1. Orphan(r).pwr_brk = r.pwr_brk
  BY Zenon DEF Orphan, Process
<1> QED BY <1>1, OrphanHeard DEF Broken

\* The dead do not read.
LEMMA KillBreaks ==
  ASSUME NEW k \in Running, NEW p \in Slot
  PROVE  NoNewBreak(k, KillProcess(k, p)) /\ Gone(KillProcess(k, p).proc[p])
<1> DEFINE m == [k EXCEPT !.proc[p].masklevel = 0]
           f == [Orphaned(m, p) EXCEPT ![p].state = AfterDeath(k.proc[p].parent)]
           m2 == [m EXCEPT !.proc = Orphaned(m, p)]
<1>1. m \in Running /\ NoNewBreak(k, m)
  BY UpdateKernel, UpdateBreaks
<1>2. KillProcess(k, p) \in Running /\ Gone(KillProcess(k, p).proc[p])
  BY KillProcessType, KillHeard
<1>3. m.queue = k.queue
  BY <1>1 DEF NoNewBreak
<1> HIDE DEF m
<1>4. Orphaned(m, p) \in [Slot -> Process]
  BY <1>1, OrphanedType
<1>5. ASSUME NEW q \in Slot
      PROVE  Broken(Orphaned(m, p)[q]) => Broken(k.proc[q])
  <2>1. m.proc[q] \in Process
    BY <1>1, ProcessOf
  <2>2. Orphaned(m, p)[q] \in {m.proc[q], Orphan(m.proc[q])}
    BY DEF Orphaned
  <2>3. Broken(m.proc[q]) => Broken(k.proc[q])
    BY <1>1 DEF NoNewBreak
  <2> QED BY <2>1, <2>2, <2>3, OrphanBreaks
<1>6. \A q \in Slot : Broken(f[q]) => Broken(k.proc[q])
  <2>1. \A q \in Slot : q # p => f[q] = Orphaned(m, p)[q]
    BY <1>4
  <2>2. ~Broken(f[p])
    BY <1>4 DEF Process, AfterDeath, Gone, Broken
  <2> HIDE DEF f
  <2> QED BY <1>5, <2>1, <2>2
<1> HIDE DEF f
<1>7. CASE k.proc[p].state = "pUnused"
  <2>1. KillProcess(k, p) = m
    BY <1>7 DEF KillProcess, m
  <2> QED BY <1>1, <1>2, <2>1
<1>8. CASE k.proc[p].state = "pDead"
  <2>1. KillProcess(k, p) = m2
    BY <1>8 DEF KillProcess, m, m2
  <2>2. m2.proc = Orphaned(m, p) /\ m2.queue = m.queue
    BY <1>1 DEF Running, KernelState
  <2> HIDE DEF m2
  <2> QED BY <1>2, <1>3, <1>5, <2>1, <2>2 DEF NoNewBreak
<1>9. CASE k.proc[p].state \notin {"pUnused", "pDead"}
  <2> DEFINE c == IF p = k.currentpid THEN k.proc[p].parent ELSE k.currentpid
             b == IF p = k.currentpid THEN k.proc[p].parent = 0 ELSE k.arbitrate
             n == [m EXCEPT !.proc = f, !.currentpid = c, !.arbitrate = b]
  <2>1. KillProcess(k, p) = n
    BY <1>9 DEF KillProcess, m, f
  <2> HIDE DEF c, b
  <2>2. n.proc = f /\ n.queue = m.queue
    BY <1>1, Zenon DEF Running, KernelState
  <2> HIDE DEF n
  <2> QED BY <1>2, <1>3, <1>6, <2>1, <2>2 DEF NoNewBreak
<1> QED BY <1>7, <1>8, <1>9

\* Reporting a dead child opens nobody's reads,
LEMMA ReapBreaks ==
  ASSUME NEW k \in Running, NEW p \in Slot, NEW q \in Slot
  PROVE  NoNewBreak(k, Reap(k, p, q))
<1> DEFINE a == AssignNewChild(k, p, q)
           before == {b \in Slot : b \in ChildList(k, p) /\ k.proc[b].sid = q}
<1>1. k.proc[q].sid \in Slot /\ a \in Running
  BY ProcessOf, ProcessFields, AssignNewChildType
<1>2. NoNewBreak(k, k)
  BY DEF NoNewBreak
<1>3. NoNewBreak(k, a)
  <2>1. NoNewBreak(k, [k EXCEPT !.proc[p].cid = k.proc[q].sid])
    BY <1>1, UpdateBreaks
  <2>2. ASSUME before # {}
        PROVE  NoNewBreak(k, [k EXCEPT !.proc[Least(before)].sid = k.proc[q].sid])
    <3>1. before \subseteq Slot
      OBVIOUS
    <3> HIDE DEF before
    <3>2. Least(before) \in Slot
      BY <2>2, <3>1, LeastIsMember, SlotIsNat
    <3> QED BY <1>1, <3>2, UpdateBreaks
  <2> QED BY <1>2, <2>1, <2>2, Zenon DEF AssignNewChild
<1> HIDE DEF a
<1>4. NoNewBreak(a, [a EXCEPT !.proc[q].state = "pUnused"])
  BY <1>1, UpdateBreaks DEF PState
<1>5. NoNewBreak(k, [a EXCEPT !.proc[q].state = "pUnused"])
  BY <1>3, <1>4, NoNewBreakInTurn
<1> QED BY <1>5 DEF Reap, a

\* and a new process has not begun to read.
LEMMA NewProcessBreaks ==
  ASSUME NEW k \in Running, NEW q \in Slot, NEW p \in Slot
  PROVE  LET m == NewProcess(k, q, p)
         IN  NoNewBreak(k, m) /\ ~m.proc[q].pwr_brk
<1> DEFINE f == k.proc
           r == [f[q] EXCEPT
                  !.state = "pStart", !.code = TRUE, !.parent = p, !.sid = 0,
                  !.cid = 0, !.signal = 0, !.sigvec = FALSE, !.masklevel = 0,
                  !.pwr_brk = FALSE, !.wakeUpTick = "due", !.pW_age = 0]
           m == NewProcess(k, q, p)
<1>1. m \in Running
  BY NewProcessType
<1>2. m = [k EXCEPT !.proc[q] = r]
  BY Zenon DEF NewProcess
<1>3. r.pwr_brk = FALSE
  <2>1. f[q] \in Process
    BY ProcessOf
  <2> HIDE DEF f
  <2> QED BY <2>1, Zenon DEF Process
<1> HIDE DEF r, m
<1>4. m.queue = k.queue /\ \A x \in Slot : m.proc[x] = IF x = q THEN r ELSE k.proc[x]
  BY <1>1, <1>2 DEF Running, KernelState
<1>5. NoNewBreak(k, m) /\ ~m.proc[q].pwr_brk
  BY <1>1, <1>3, <1>4 DEF NoNewBreak, Broken
<1> QED BY <1>5 DEF m


\* Noting a delivery opens nobody's reads.
LEMMA NotedBreaks ==
  ASSUME NEW k \in Running, NEW p \in Slot
  PROVE  /\ \A x \in Slot : NoNewBreak(k, [k EXCEPT !.proc[p].icpt_pid = x])
         /\ \A x \in Nat : NoNewBreak(k, [k EXCEPT !.proc[p].icpt_signal = x])
         /\ \A b \in BOOLEAN :
              LET m == [k EXCEPT !.proc[p].pwr_brk = b]
              IN  /\ b => k.proc[p].pwr_brk
                  => NoNewBreak(k, m) /\ (Broken(m.proc[p]) => b)
<1> DEFINE r == k.proc[p]
<1>1. r \in Process
  BY ProcessOf
<1>2. \A s : s \in Process /\ s.state = r.state /\ (s.pwr_brk => r.pwr_brk)
             => NoNewBreak(k, [k EXCEPT !.proc[p] = s])
  <2>1. ASSUME NEW s, s \in Process, s.state = r.state, s.pwr_brk => r.pwr_brk
        PROVE  NoNewBreak(k, [k EXCEPT !.proc[p] = s])
    <3>1. Broken(s) => Broken(r)
      BY <2>1 DEF Broken, Gone
    <3> QED BY <2>1, <3>1, SetProcessBreaks
  <2> QED BY <2>1
<1> HIDE DEF r
<1>3. /\ \A x \in Slot : NoNewBreak(k, [k EXCEPT !.proc[p] = [r EXCEPT !.icpt_pid = x]])
      /\ \A x \in Nat : NoNewBreak(k, [k EXCEPT !.proc[p] = [r EXCEPT !.icpt_signal = x]])
  <2>1. /\ \A x \in Slot : LET s == [r EXCEPT !.icpt_pid = x]
                           IN  s \in Process /\ s.pwr_brk = r.pwr_brk /\ s.state = r.state
        /\ \A x \in Nat : LET s == [r EXCEPT !.icpt_signal = x]
                          IN  s \in Process /\ s.pwr_brk = r.pwr_brk /\ s.state = r.state
    BY <1>1, Zenon DEF Process
  <2> QED BY <1>2, <2>1
<1>4. ASSUME NEW b \in BOOLEAN, b => r.pwr_brk
      PROVE  LET m == [k EXCEPT !.proc[p] = [r EXCEPT !.pwr_brk = b]]
             IN  NoNewBreak(k, m) /\ (Broken(m.proc[p]) => b)
  <2> DEFINE s == [r EXCEPT !.pwr_brk = b]
             m == [k EXCEPT !.proc[p] = s]
  <2>1. s \in Process /\ s.pwr_brk = b /\ s.state = r.state
    BY <1>1, Zenon DEF Process
  <2> HIDE DEF s
  <2>2. NoNewBreak(k, m)
    BY <1>2, <1>4, <2>1
  <2>3. m.proc[p] = s
    BY DEF Running, KernelState
  <2> HIDE DEF m
  <2>4. NoNewBreak(k, m) /\ (Broken(m.proc[p]) => b)
    BY <2>1, <2>2, <2>3 DEF Broken
  <2> QED BY <2>4 DEF m, s
<1> QED BY <1>3, <1>4 DEF r

\* A signal that breaks reads ends the break when it is delivered.
LEMMA WakeupBreaks ==
  ASSUME NEW k \in Running, NEW t \in Slot, ~Gone(k.proc[t]), NEW sig \in Nat
  PROVE  LET m == Wakeup(k, t, sig)
         IN  NoNewBreak(k, m) /\ (Broken(m.proc[t]) => sig > Pwr_Signal)
<1> DEFINE c == Sender(k, t)
           b == PwrBrkAfter(k.proc[t], sig)
           n1 == [k EXCEPT !.proc[t].pwr_brk = b]
           n2 == [n1 EXCEPT !.proc[c].icpt_pid = t]
           n3 == [n2 EXCEPT !.proc[c].icpt_signal = sig]
           n4 == [n3 EXCEPT !.proc[t].state = "pActive"]
           n5 == [n4 EXCEPT !.proc[t].way_to_icpt = TRUE]
           n6 == [n5 EXCEPT !.proc[c].way_to_icpt = TRUE]
           first == k.currentpid = 0 /\ sig = S_Wake
           n7 == [n6 EXCEPT !.currentpid = IF first THEN t ELSE k.currentpid,
                            !.arbitrate = first]
<1>1. c \in Slot /\ b \in BOOLEAN /\ first \in BOOLEAN
  BY SenderType, ProcessOf, ProcessFields DEF PwrBrkAfter
<1>2. b => k.proc[t].pwr_brk /\ sig > Pwr_Signal
  BY DEF PwrBrkAfter
<1> HIDE DEF c, b, first
<1>3. /\ NoNewBreak(k, n1) /\ Untouched(k, n1) /\ n1 \in Running
      /\ Broken(n1.proc[t]) => sig > Pwr_Signal
  <2>1. Untouched(k, n1)
    BY <1>1, UpdateUntouched
  <2>2. NoNewBreak(k, n1) /\ (Broken(n1.proc[t]) => b)
    BY <1>1, <1>2, NotedBreaks
  <2> QED BY <1>2, <2>1, <2>2 DEF Untouched
<1> HIDE DEF n1
<1>4. NoNewBreak(n1, n2) /\ Untouched(n1, n2) /\ n2 \in Running
  <2>1. Untouched(n1, n2)
    BY <1>1, <1>3, UpdateUntouched
  <2>2. NoNewBreak(n1, n2)
    BY <1>1, <1>3, NotedBreaks
  <2> QED BY <2>1, <2>2 DEF Untouched
<1> HIDE DEF n2
<1>5. NoNewBreak(n2, n3) /\ Untouched(n2, n3) /\ n3 \in Running
  <2>1. Untouched(n2, n3)
    BY <1>1, <1>4, UpdateUntouched
  <2>2. NoNewBreak(n2, n3)
    BY <1>1, <1>4, NotedBreaks
  <2> QED BY <2>1, <2>2 DEF Untouched
<1> HIDE DEF n3
<1>6. NoNewBreak(n1, n3) /\ ~Gone(n3.proc[t])
  BY <1>3, <1>4, <1>5, NoNewBreakInTurn DEF Untouched, Gone
<1>7. NoNewBreak(n3, n4) /\ n4 \in Running
  <2>1. "pActive" \in PState
    BY DEF PState
  <2> QED BY <1>5, <1>6, <2>1, UpdateBreaks, UpdateKernel
<1> HIDE DEF n4
<1>8. NoNewBreak(n4, n5) /\ n5 \in Running
  BY <1>7, UpdateBreaks, UpdateKernel
<1> HIDE DEF n5
<1>9. NoNewBreak(n5, n6) /\ n6 \in Running
  BY <1>1, <1>8, UpdateBreaks, UpdateKernel
<1> HIDE DEF n6
<1>10. NoNewBreak(n6, n7)
  <2> DEFINE x == IF first THEN t ELSE k.currentpid
  <2>1. x \in Slot
    BY QueueOf
  <2> HIDE DEF x
  <2>2. NoNewBreak(n6, [n6 EXCEPT !.currentpid = x, !.arbitrate = first])
    BY <1>1, <1>9, <2>1, GlobalsBreaks, Zenon
  <2> QED BY <2>2 DEF x
<1> HIDE DEF n7
<1>11. NoNewBreak(n1, n7)
  <2>1. NoNewBreak(n1, n4)
    BY <1>6, <1>7, NoNewBreakInTurn
  <2>2. NoNewBreak(n4, n6)
    BY <1>8, <1>9, NoNewBreakInTurn
  <2>3. NoNewBreak(n1, n6)
    BY <2>1, <2>2, NoNewBreakInTurn
  <2> QED BY <1>10, <2>3, NoNewBreakInTurn
<1>12. \A m : NoNewBreak(n1, m) => NoNewBreak(k, m) /\ (Broken(m.proc[t]) => sig > Pwr_Signal)
  <2>1. ASSUME NEW m, NoNewBreak(n1, m)
        PROVE  NoNewBreak(k, m) /\ (Broken(m.proc[t]) => sig > Pwr_Signal)
    <3>1. NoNewBreak(k, m)
      BY <1>3, <2>1, NoNewBreakInTurn
    <3> QED BY <1>3, <2>1, <3>1 DEF NoNewBreak
  <2> QED BY <2>1
<1>13. CASE k.proc[t].state # "pSleeping"
  <2>1. Wakeup(k, t, sig) = n3
    BY <1>13, Zenon DEF Wakeup, n3, n2, n1, b, c
  <2> QED BY <1>6, <1>12, <2>1
<1>14. CASE k.proc[t].state = "pSleeping"
  <2>1. Wakeup(k, t, sig) = n7
    BY <1>14, Zenon DEF Wakeup, n7, n6, n5, n4, n3, n2, n1, b, c, first
  <2> QED BY <1>11, <1>12, <2>1
<1> QED BY <1>13, <1>14

\* Going to its intercept routine opens no reads of the process,
LEMMA InterceptBreaks ==
  ASSUME NEW k \in Running, NEW t \in Slot, ~Gone(k.proc[t]), NEW sig \in Nat, NEW c \in Slot
  PROVE  NoNewBreak(k, Intercept(k, t, sig, c))
<1> DEFINE first == k.currentpid = 0
           n1 == [k EXCEPT !.proc[c].way_to_icpt = TRUE]
           r == [n1.proc[t] EXCEPT !.way_to_icpt = TRUE, !.signal = sig,
                                   !.icpt_signal = sig,
                                   !.rtestate = ReturnState(k.proc[t]),
                                   !.state = "pActive"]
           n2 == [n1 EXCEPT !.proc[t] = r]
           x == IF first THEN t ELSE k.currentpid
           n3 == [n2 EXCEPT !.currentpid = x, !.arbitrate = first]
<1>1. NoNewBreak(k, n1) /\ n1 \in Running /\ Untouched(k, n1)
  <2>1. Untouched(k, n1)
    BY UpdateUntouched
  <2> QED BY <2>1, UpdateBreaks DEF Untouched
<1> HIDE DEF n1
<1>2. n1.proc[t] \in Process /\ ~Gone(n1.proc[t])
  BY <1>1, ProcessOf DEF Untouched, Gone
<1>3. r \in Process /\ r.pwr_brk = n1.proc[t].pwr_brk
  <2> DEFINE o == n1.proc[t]
             rt == ReturnState(k.proc[t])
             r1 == [o EXCEPT !.way_to_icpt = TRUE]
             r2 == [r1 EXCEPT !.signal = sig]
             r3 == [r2 EXCEPT !.icpt_signal = sig]
             r4 == [r3 EXCEPT !.rtestate = rt]
             r5 == [r4 EXCEPT !.state = "pActive"]
  <2>1. rt \in PState /\ "pActive" \in PState
    BY DEF ReturnState, PState
  <2>2. o \in Process
    BY <1>2
  <2> HIDE DEF rt, o
  <2>3. r1 \in Process /\ r1.pwr_brk = o.pwr_brk
    BY <2>2, Zenon DEF Process
  <2> HIDE DEF r1
  <2>4. r2 \in Process /\ r2.pwr_brk = o.pwr_brk
    BY <2>3, Zenon DEF Process
  <2> HIDE DEF r2
  <2>5. r3 \in Process /\ r3.pwr_brk = o.pwr_brk
    BY <2>4, Zenon DEF Process
  <2> HIDE DEF r3
  <2>6. r4 \in Process /\ r4.pwr_brk = o.pwr_brk
    BY <2>1, <2>5, Zenon DEF Process
  <2> HIDE DEF r4
  <2>7. r5 \in Process /\ r5.pwr_brk = o.pwr_brk
    BY <2>1, <2>6, Zenon DEF Process
  <2> HIDE DEF r5
  <2>8. r = r5
    BY Zenon DEF r5, r4, r3, r2, r1, rt, o
  <2> HIDE DEF r
  <2> QED BY <2>7, <2>8 DEF o
<1> HIDE DEF r
<1>4. NoNewBreak(n1, n2) /\ n2 \in Running
  <2>1. Broken(r) => Broken(n1.proc[t])
    BY <1>2, <1>3 DEF Broken
  <2> QED BY <1>1, <1>3, <2>1, SetProcessBreaks, SetProcess
<1> HIDE DEF n2
<1>5. x \in Slot /\ first \in BOOLEAN
  BY QueueOf
<1>6. Intercept(k, t, sig, c) = n3
  BY Zenon DEF Intercept, n3, n2, r, n1, x, first
<1> HIDE DEF x, first
<1>7. NoNewBreak(n2, n3)
  BY <1>4, <1>5, GlobalsBreaks, Zenon
<1> HIDE DEF n3
<1> QED BY <1>1, <1>4, <1>6, <1>7, NoNewBreakInTurn

\* and its death closes them.
LEMMA AbortBreaks ==
  ASSUME NEW k \in Running, NEW t \in Slot, NEW sig \in Nat, NEW c \in Slot
  PROVE  NoNewBreak(k, Abort(k, t, sig, c))
<1> DEFINE n1 == [k EXCEPT !.proc[t].signal = sig]
           n2 == [n1 EXCEPT !.arbitrate = FALSE]
           dead == KillProcess(n2, t)
           n3 == [dead EXCEPT !.proc[t].way_to_icpt = FALSE]
           n4 == [n3 EXCEPT !.proc[c].way_to_icpt = FALSE]
<1>1. NoNewBreak(k, n1) /\ n1 \in Running
  BY UpdateBreaks, UpdateKernel
<1> HIDE DEF n1
<1>2. NoNewBreak(n1, n2) /\ n2 \in Running
  <2>1. NoNewBreak(n1, n2)
    BY <1>1, GlobalsBreaks, Zenon
  <2> QED BY <2>1 DEF NoNewBreak
<1> HIDE DEF n2
<1>3. NoNewBreak(n2, dead) /\ dead \in Running
  BY <1>2, KillBreaks, KillProcessType
<1> HIDE DEF dead
<1>4. NoNewBreak(dead, n3) /\ n3 \in Running
  BY <1>3, UpdateBreaks, UpdateKernel
<1> HIDE DEF n3
<1>5. NoNewBreak(n3, n4)
  BY <1>4, UpdateBreaks
<1> HIDE DEF n4
<1>6. Abort(k, t, sig, c) = n4
  BY Zenon DEF Abort, n4, n3, dead, n2, n1
<1>7. NoNewBreak(k, n2)
  BY <1>1, <1>2, NoNewBreakInTurn
<1>8. NoNewBreak(n2, n3)
  BY <1>3, <1>4, NoNewBreakInTurn
<1>9. NoNewBreak(k, n3)
  BY <1>7, <1>8, NoNewBreakInTurn
<1> QED BY <1>5, <1>6, <1>9, NoNewBreakInTurn

\* So a delivered signal leaves no break behind.
LEMMA DeliverBreaks ==
  ASSUME NEW k \in Running, NEW t \in Slot, ~Gone(k.proc[t]), NEW sig \in Nat
  PROVE  LET m == Deliver(k, t, sig)
         IN  NoNewBreak(k, m) /\ (Broken(m.proc[t]) => sig > Pwr_Signal)
<1> DEFINE c == Sender(k, t)
           w == Wakeup(k, t, sig)
           m == Deliver(k, t, sig)
<1>1. w \in Running /\ c \in Slot
  BY WakeupType, SenderType
<1>2. /\ NoNewBreak(k, w) /\ (Broken(w.proc[t]) => sig > Pwr_Signal)
      /\ ~Gone(w.proc[t])
  BY WakeupBreaks, WakeupHeard
<1>3. m \in {w, Intercept(w, t, sig, c), Abort(w, t, sig, c)}
  BY Zenon DEF Deliver
<1> HIDE DEF w, c, m
<1>4. NoNewBreak(w, m)
  <2>1. NoNewBreak(w, w)
    BY <1>1 DEF NoNewBreak
  <2> QED BY <1>1, <1>2, <1>3, <2>1, InterceptBreaks, AbortBreaks
<1>5. NoNewBreak(k, m) /\ (Broken(m.proc[t]) => sig > Pwr_Signal)
  <2>1. NoNewBreak(k, m)
    BY <1>2, <1>4, NoNewBreakInTurn
  <2> QED BY <1>2, <1>4, <2>1 DEF NoNewBreak
<1> QED BY <1>5 DEF m

\* Whose reads are open awaits a signal, or is t, for whom sig is on its way.
BreaksBut(n, t, sig) ==
  {k \in Running :
     /\ Len(k.queue) <= n
     /\ \A i \in 1 .. Len(k.queue) : k.queue[i].signal # S_Wake
     /\ \A q \in Slot : Broken(k.proc[q]) => Awaited(k, q) \/ (q = t /\ sig <= Pwr_Signal)}

\* A queued signal is awaited by its receiver.
LEMMA EnqueueBreaks ==
  ASSUME NEW n \in Nat, n < MAXSIGNALS, NEW t \in Slot, NEW sig \in Nat, sig # S_Wake,
         NEW k \in BreaksBut(n, t, sig), NEW async \in BOOLEAN
  PROVE  Enqueue(k, t, sig, async) \in BreaksOK(n + 1)
<1> DEFINE b == k.proc[t].pwr_brk \/ (ReadBlocked(k.proc[t]) /\ sig <= Pwr_Signal)
           m == [k EXCEPT !.proc[t].pwr_brk = b]
           q == Store(k.queue, t, sig)
           d == k.pending \/ ~async
           e == [m EXCEPT !.queue = q, !.pending = d]
<1>1. k \in Running
  BY DEF BreaksBut
<1>2. Enqueue(k, t, sig, async) = e
  BY Zenon DEF Enqueue, e, m, b, q, d
<1>3. e \in Running
  BY <1>1, <1>2, EnqueueType
<1>4. /\ k.queue \in Seq(Entry(Nat)) /\ Len(k.queue) \in Nat /\ Len(k.queue) <= n
      /\ MAXSIGNALS \in Nat
  BY <1>1, QueueOf, LenProperties, ProcTableAssumption DEF BreaksBut
<1>5. q = Append(k.queue, [pid |-> t, signal |-> sig])
  BY <1>4 DEF Store
<1>6. /\ Len(q) = Len(k.queue) + 1
      /\ \A i \in 1 .. Len(k.queue) : q[i] = k.queue[i]
      /\ q[Len(k.queue) + 1] = [pid |-> t, signal |-> sig]
  <2>1. [pid |-> t, signal |-> sig] \in Entry(Nat)
    BY DEF Entry
  <2> QED BY <1>4, <1>5, <2>1, AppendProperties
<1>7. /\ b \in BOOLEAN
      /\ b => k.proc[t].pwr_brk \/ sig <= Pwr_Signal
  BY <1>1, ProcessOf, ProcessFields DEF ReadBlocked
<1> HIDE DEF b, q, d
<1>8. m \in Running /\ m.queue = k.queue
  <2>1. m \in Running
    BY <1>1, <1>7, UpdateKernel
  <2>2. m.queue = k.queue
    BY <1>1, Zenon DEF Running, KernelState
  <2> QED BY <2>1, <2>2
<1>9. \A x \in Slot : /\ m.proc[x].state = k.proc[x].state
                      /\ m.proc[x].pwr_brk = IF x = t THEN b ELSE k.proc[x].pwr_brk
  <2> DEFINE r == [k.proc[t] EXCEPT !.pwr_brk = b]
  <2>1. r.state = k.proc[t].state /\ r.pwr_brk = b
    <3>1. k.proc[t] \in Process
      BY <1>1, ProcessOf
    <3> QED BY <1>7, <3>1, Zenon DEF Process
  <2> HIDE DEF r
  <2>2. m = [k EXCEPT !.proc[t] = r]
    BY Zenon DEF m, r
  <2> HIDE DEF m
  <2>3. \A x \in Slot : m.proc[x] = IF x = t THEN r ELSE k.proc[x]
    BY <1>1, <2>2 DEF Running, KernelState
  <2> QED BY <2>1, <2>3
<1> HIDE DEF m
<1>10. e.proc = m.proc /\ e.queue = q
  BY <1>8, Zenon DEF Running, KernelState
<1> HIDE DEF e
<1>11. Len(e.queue) <= n + 1
  BY <1>4, <1>6, <1>10
<1>12. \A i \in 1 .. Len(e.queue) : e.queue[i].signal # S_Wake
  <2>1. \A i \in 1 .. Len(k.queue) : k.queue[i].signal # S_Wake
    BY DEF BreaksBut
  <2>2. \A i \in 1 .. Len(e.queue) : i \in 1 .. Len(k.queue) \/ i = Len(k.queue) + 1
    BY <1>4, <1>6, <1>10
  <2> QED BY <1>6, <1>10, <2>1, <2>2
<1>13. ASSUME NEW x \in Slot, Broken(e.proc[x]) PROVE Awaited(e, x)
  <2>1. CASE x = t /\ sig <= Pwr_Signal
    <3>1. Len(k.queue) + 1 \in 1 .. Len(e.queue)
      BY <1>4, <1>6, <1>10
    <3>2. e.queue[Len(k.queue) + 1] = [pid |-> t, signal |-> sig]
      BY <1>6, <1>10
    <3> QED BY <2>1, <3>1, <3>2 DEF Awaited
  <2>2. CASE ~(x = t /\ sig <= Pwr_Signal)
    <3>1. Broken(k.proc[x])
      BY <1>7, <1>9, <1>10, <1>13, <2>2 DEF Broken, Gone
    <3>2. Awaited(k, x)
      BY <2>2, <3>1 DEF BreaksBut
    <3>3. PICK i \in 1 .. Len(k.queue) : k.queue[i].pid = x /\ k.queue[i].signal <= Pwr_Signal
      BY <3>2 DEF Awaited
    <3>4. i \in 1 .. Len(e.queue) /\ e.queue[i] = k.queue[i]
      BY <1>4, <1>6, <1>10
    <3> QED BY <3>3, <3>4 DEF Awaited
  <2> QED BY <2>1, <2>2
<1> QED BY <1>2, <1>3, <1>11, <1>12, <1>13 DEF BreaksOK, Breaks

\* A signal that is sent is delivered or awaited.
LEMMA SendBreaks ==
  ASSUME NEW n \in Nat, n < MAXSIGNALS, NEW t \in Slot, NEW sig \in Nat, sig # S_Wake,
         NEW k \in BreaksBut(n, t, sig), NEW async \in BOOLEAN
  PROVE  SendSignal(k, t, sig, async) \in BreaksOK(n + 1)
<1>1. k \in Running /\ Len(k.queue) \in Nat
  BY QueueOf, LenProperties DEF BreaksBut
<1>2. ASSUME NEW m, NoNewBreak(k, m), Broken(m.proc[t]) => sig > Pwr_Signal
      PROVE  m \in BreaksOK(n + 1)
  <2>1. m \in Running /\ m.queue = k.queue
    BY <1>2 DEF NoNewBreak
  <2>2. Len(m.queue) <= n + 1
    BY <1>1, <2>1 DEF BreaksBut
  <2>3. ASSUME NEW q \in Slot, Broken(m.proc[q]) PROVE Awaited(m, q)
    <3>1. Broken(k.proc[q])
      BY <1>2, <2>3 DEF NoNewBreak
    <3>2. ~(q = t /\ sig <= Pwr_Signal)
      BY <1>2, <2>3 DEF Pwr_Signal
    <3>3. Awaited(k, q)
      BY <3>1, <3>2 DEF BreaksBut
    <3> QED BY <2>1, <3>3 DEF Awaited
  <2> QED BY <2>1, <2>2, <2>3 DEF BreaksOK, Breaks, BreaksBut
<1>3. CASE Gone(k.proc[t])
  <2>1. SendSignal(k, t, sig, async) = k
    BY <1>3 DEF SendSignal
  <2>2. NoNewBreak(k, k) /\ ~Broken(k.proc[t])
    BY <1>1, <1>3 DEF NoNewBreak, Broken
  <2> QED BY <1>2, <2>1, <2>2
<1>4. CASE ~Gone(k.proc[t]) /\ sig = S_Kill
  <2> DEFINE m == KillProcess(k, t)
  <2>1. SendSignal(k, t, sig, async) = m
    BY <1>4 DEF SendSignal
  <2>2. NoNewBreak(k, m) /\ ~Broken(m.proc[t])
    BY <1>1, KillBreaks DEF Broken
  <2> HIDE DEF m
  <2> QED BY <1>2, <2>1, <2>2
<1>5. CASE ~Gone(k.proc[t]) /\ sig # S_Kill /\ MustQueue(k, t, async)
  <2>1. SendSignal(k, t, sig, async) = Enqueue(k, t, sig, async)
    BY <1>5, Zenon DEF SendSignal
  <2> QED BY <2>1, EnqueueBreaks
<1>6. CASE ~Gone(k.proc[t]) /\ sig # S_Kill /\ ~MustQueue(k, t, async)
  <2> DEFINE m == Deliver(k, t, sig)
  <2>1. SendSignal(k, t, sig, async) = m
    BY <1>6, Zenon DEF SendSignal
  <2>2. NoNewBreak(k, m) /\ (Broken(m.proc[t]) => sig > Pwr_Signal)
    BY <1>1, <1>6, DeliverBreaks
  <2> HIDE DEF m
  <2> QED BY <1>2, <2>1, <2>2
<1> QED BY <1>3, <1>4, <1>5, <1>6

\* What is left of a queue without one entry.
LEMMA WithoutFields ==
  ASSUME NEW S, NEW q \in Seq(S), NEW i \in 1 .. Len(q)
  PROVE  /\ Len(Without(q, i)) = Len(q) - 1
         /\ \A j \in 1 .. Len(q) - 1 : Without(q, i)[j] = IF j < i THEN q[j] ELSE q[j + 1]
<1> DEFINE a == SubSeq(q, 1, i - 1)
           b == SubSeq(q, i + 1, Len(q))
<1>1. Len(q) \in Nat /\ i \in Nat
  BY LenProperties
<1>2. \A j \in 1 .. Len(q) : q[j] \in S
  BY ElementOfSeq
<1>3. a \in Seq(S) /\ Len(a) = i - 1 /\ \A j \in 1 .. i - 1 : a[j] = q[j]
  BY <1>1, <1>2, SubSeqProperties
<1>4. b \in Seq(S) /\ Len(b) = Len(q) - i /\ \A j \in 1 .. Len(q) - i : b[j] = q[i + j]
  BY <1>1, <1>2, SubSeqProperties
<1>5. Without(q, i) = a \o b
  BY DEF Without
<1> HIDE DEF a, b
<1>6. /\ Len(a \o b) = Len(q) - 1
      /\ \A j \in 1 .. Len(q) - 1 : (a \o b)[j] = IF j < i THEN a[j] ELSE b[j - (i - 1)]
  <2>1. /\ Len(a \o b) = Len(a) + Len(b)
        /\ \A j \in 1 .. Len(a) + Len(b) :
             (a \o b)[j] = IF j <= Len(a) THEN a[j] ELSE b[j - Len(a)]
    BY <1>3, <1>4, ConcatProperties
  <2>2. Len(a) + Len(b) = Len(q) - 1 /\ \A j \in 1 .. Len(q) - 1 : j <= i - 1 <=> j < i
    BY <1>1, <1>3, <1>4
  <2>3. /\ Len(a \o b) = Len(q) - 1
        /\ \A j \in 1 .. Len(q) - 1 :
             (a \o b)[j] = IF j <= i - 1 THEN a[j] ELSE b[j - (i - 1)]
    BY <1>3, <2>1, <2>2, Zenon
  <2> QED BY <2>2, <2>3, Zenon
<1>7. ASSUME NEW j \in 1 .. Len(q) - 1
      PROVE  (a \o b)[j] = IF j < i THEN q[j] ELSE q[j + 1]
  <2>1. CASE j < i
    BY <1>1, <1>3, <1>6, <2>1
  <2>2. CASE ~(j < i)
    <3>1. j - (i - 1) \in 1 .. Len(q) - i /\ i + (j - (i - 1)) = j + 1
      BY <1>1, <2>2
    <3> QED BY <1>4, <1>6, <2>2, <3>1
  <2> QED BY <2>1, <2>2
<1> QED BY <1>5, <1>6, <1>7

\* A signal that is taken out of the queue is sent again at once.
LEMMA TakeBreaks ==
  ASSUME NEW n \in Nat, n <= MAXSIGNALS, NEW k \in BreaksOK(n), NEW async \in BOOLEAN
  PROVE  TakeSignal(k, async) \in BreaksOK(n)
<1> DEFINE i == Least(ReadyEntries(k))
           rest == Without(k.queue, i)
           b == k.pending /\ rest # << >>
           taken == [k EXCEPT !.queue = rest, !.pending = b]
           t == k.queue[i].pid
           sig == k.queue[i].signal
<1>1. /\ k \in Running /\ k.queue \in Seq(Entry(Nat)) /\ Len(k.queue) \in Nat
      /\ Len(k.queue) <= n /\ MAXSIGNALS \in Nat
  BY QueueOf, LenProperties, ProcTableAssumption DEF BreaksOK, Breaks
<1>2. CASE ReadyEntries(k) = {}
  BY <1>2 DEF TakeSignal
<1>3. CASE ReadyEntries(k) # {}
  <2>1. i \in 1 .. Len(k.queue) /\ t \in Slot /\ sig \in Nat /\ sig # S_Wake
    BY <1>1, <1>3, ReadyEntry DEF BreaksOK, Breaks
  <2>2. TakeSignal(k, async) = SendSignal(taken, t, sig, async)
    BY <1>3, Zenon DEF TakeSignal, taken, b, rest, i, t, sig
  <2>3. t = k.queue[i].pid /\ sig = k.queue[i].signal
    OBVIOUS
  <2> HIDE DEF i, t, sig
  <2>4. rest \in Seq(Entry(Nat)) /\ b \in BOOLEAN
    BY <1>1, <2>1, WithoutType
  <2>5. /\ Len(rest) = Len(k.queue) - 1
        /\ \A j \in 1 .. Len(k.queue) - 1 :
             rest[j] = IF j < i THEN k.queue[j] ELSE k.queue[j + 1]
    BY <1>1, <2>1, WithoutFields
  <2> HIDE DEF rest, b
  <2>6. taken \in Running /\ taken.proc = k.proc /\ taken.queue = rest
    <3>1. taken \in Running
      BY <1>1, <2>4, SetQueue, Zenon
    <3>2. taken.proc = k.proc /\ taken.queue = rest
      BY <1>1, Zenon DEF Running, KernelState
    <3> QED BY <3>1, <3>2
  <2> HIDE DEF taken
  <2>7. n - 1 \in Nat /\ n - 1 < MAXSIGNALS /\ (n - 1) + 1 = n
    BY <1>1, <2>1
  <2>8. Len(taken.queue) <= n - 1
    BY <1>1, <2>5, <2>6
  <2>9. \A j \in 1 .. Len(taken.queue) : taken.queue[j].signal # S_Wake
    <3>1. \A j \in 1 .. Len(k.queue) : k.queue[j].signal # S_Wake
      BY DEF BreaksOK, Breaks
    <3>2. ASSUME NEW j \in 1 .. Len(taken.queue) PROVE taken.queue[j].signal # S_Wake
      <4>1. j \in 1 .. Len(k.queue) /\ j + 1 \in 1 .. Len(k.queue)
        BY <1>1, <2>5, <2>6
      <4> QED BY <2>5, <2>6, <3>1, <4>1
    <3> QED BY <3>2
  <2>10. ASSUME NEW q \in Slot, Broken(taken.proc[q])
         PROVE  Awaited(taken, q) \/ (q = t /\ sig <= Pwr_Signal)
    <3>1. PICK j \in 1 .. Len(k.queue) : k.queue[j].pid = q /\ k.queue[j].signal <= Pwr_Signal
      BY <2>6, <2>10 DEF BreaksOK, Breaks, Awaited
    <3>2. CASE j = i
      BY <2>3, <3>1, <3>2
    <3>3. CASE j < i
      <4>1. j \in 1 .. Len(taken.queue) /\ taken.queue[j] = k.queue[j]
        BY <1>1, <2>1, <2>5, <2>6, <3>3
      <4> QED BY <3>1, <4>1 DEF Awaited
    <3>4. CASE j > i
      <4>1. /\ j - 1 \in 1 .. Len(taken.queue) /\ ~(j - 1 < i)
            /\ j - 1 \in 1 .. Len(k.queue) - 1 /\ (j - 1) + 1 = j
        BY <1>1, <2>1, <2>5, <2>6, <3>4
      <4>2. taken.queue[j - 1] = k.queue[j]
        BY <2>5, <2>6, <4>1
      <4> QED BY <3>1, <4>1, <4>2 DEF Awaited
    <3> QED BY <1>1, <2>1, <3>2, <3>3, <3>4
  <2>11. taken \in BreaksBut(n - 1, t, sig)
    BY <2>6, <2>8, <2>9, <2>10 DEF BreaksBut
  <2>12. SendSignal(taken, t, sig, async) \in BreaksOK((n - 1) + 1)
    BY <2>1, <2>7, <2>11, SendBreaks
  <2> QED BY <2>2, <2>7, <2>12
<1> QED BY <1>2, <1>3

\* The functions of procstuff.c keep such states; a signal may be queued.
LEMMA FunctionsBreaks ==
  ASSUME NEW n \in Nat, n <= MAXSIGNALS, NEW k \in BreaksOK(n), NEW p \in Slot
  PROVE  /\ KillProcess(k, p) \in BreaksOK(n)
         /\ \A async \in BOOLEAN : MaskOff(k, p, async) \in BreaksOK(n)
         /\ MaskUp(k, p, FALSE) \in BreaksOK(n)
         /\ MaskDown(k, p, FALSE) \in BreaksOK(n)
         /\ \A q \in Slot : Reap(k, p, q) \in BreaksOK(n)
         /\ n < MAXSIGNALS =>
              \A sig \in Nat, async \in BOOLEAN :
                sig # S_Wake => SendSignal(k, p, sig, async) \in BreaksOK(n + 1)
<1>1. k \in Running
  BY DEF BreaksOK
<1>2. KillProcess(k, p) \in BreaksOK(n)
  BY <1>1, KillBreaks, BreaksKept
<1>3. \A q \in Slot : Reap(k, p, q) \in BreaksOK(n)
  BY <1>1, ReapBreaks, BreaksKept
<1>4. k.proc[p].masklevel + 1 \in Nat /\ OneLess(k.proc[p].masklevel) \in Nat
  BY <1>1, ProcessOf, ProcessFields DEF OneLess
<1>5. ASSUME NEW x \in Nat, NEW async \in BOOLEAN
      PROVE  TakeSignal([k EXCEPT !.proc[p].masklevel = x], async) \in BreaksOK(n)
  <2> DEFINE m == [k EXCEPT !.proc[p].masklevel = x]
  <2>1. NoNewBreak(k, m)
    BY <1>1, UpdateBreaks
  <2> HIDE DEF m
  <2>2. m \in BreaksOK(n)
    BY <2>1, BreaksKept
  <2>3. TakeSignal(m, async) \in BreaksOK(n)
    BY <2>2, TakeBreaks
  <2> QED BY <2>3 DEF m
<1>6. /\ \A async \in BOOLEAN : MaskOff(k, p, async) \in BreaksOK(n)
      /\ MaskUp(k, p, FALSE) \in BreaksOK(n)
      /\ MaskDown(k, p, FALSE) \in BreaksOK(n)
  BY <1>4, <1>5 DEF MaskOff, MaskUp, MaskDown
<1>7. ASSUME n < MAXSIGNALS, NEW sig \in Nat, NEW async \in BOOLEAN, sig # S_Wake
      PROVE  SendSignal(k, p, sig, async) \in BreaksOK(n + 1)
  <2>1. k \in BreaksBut(n, p, sig)
    BY DEF BreaksOK, Breaks, BreaksBut
  <2> QED BY <1>7, <2>1, SendBreaks
<1> QED BY <1>2, <1>3, <1>6, <1>7

\* The same for states: the updates of the calls keep them,
LEMMA UpdateBreaking ==
  ASSUME NEW n, NEW k \in BreaksOK(n), NEW p \in Slot
  PROVE  /\ k \in Running
         /\ \A x \in Slot : [k EXCEPT !.proc[p].sid = x] \in BreaksOK(n)
         /\ \A x \in Slot : [k EXCEPT !.proc[p].cid = x] \in BreaksOK(n)
         /\ \A x \in Nat : [k EXCEPT !.proc[p].signal = x] \in BreaksOK(n)
         /\ \A x \in BOOLEAN : [k EXCEPT !.proc[p].sigvec = x] \in BreaksOK(n)
         /\ \A x \in Nat : [k EXCEPT !.proc[p].masklevel = x] \in BreaksOK(n)
         /\ \A x \in BOOLEAN : [k EXCEPT !.proc[p].way_to_icpt = x] \in BreaksOK(n)
         /\ \A x \in PState : [k EXCEPT !.proc[p].saved_state = x] \in BreaksOK(n)
         /\ \A x \in WakeUpTick : [k EXCEPT !.proc[p].wakeUpTick = x] \in BreaksOK(n)
         /\ \A x \in 0 .. NewAge : [k EXCEPT !.proc[p].pW_age = x] \in BreaksOK(n)
         /\ \A x \in PState : ~Gone(k.proc[p]) \/ x = "pUnused" =>
                                [k EXCEPT !.proc[p].state = x] \in BreaksOK(n)
<1>1. k \in Running
  BY DEF BreaksOK
<1>2. \A m : NoNewBreak(k, m) => m \in BreaksOK(n)
  BY BreaksKept
<1> QED BY <1>1, <1>2, UpdateBreaks

\* and so do those of the other globals.
LEMMA GlobalsBreaking ==
  ASSUME NEW n, NEW k \in BreaksOK(n)
  PROVE  /\ \A b \in BOOLEAN : [k EXCEPT !.arbitrate = b] \in BreaksOK(n)
         /\ \A c \in Slot : [k EXCEPT !.currentpid = c] \in BreaksOK(n)
         /\ \A c \in Slot, b \in BOOLEAN :
              [k EXCEPT !.currentpid = c, !.arbitrate = b] \in BreaksOK(n)
<1>1. k \in Running
  BY DEF BreaksOK
<1>2. \A m : NoNewBreak(k, m) => m \in BreaksOK(n)
  BY BreaksKept
<1>3. /\ \A b \in BOOLEAN : NoNewBreak(k, [k EXCEPT !.arbitrate = b])
      /\ \A c \in Slot : NoNewBreak(k, [k EXCEPT !.currentpid = c])
      /\ \A c \in Slot, b \in BOOLEAN :
           NoNewBreak(k, [k EXCEPT !.currentpid = c, !.arbitrate = b])
  BY <1>1, GlobalsBreaks, Zenon
<1> QED BY <1>2, <1>3, Zenon

\* There may be more room in the queue than is needed.
LEMMA MoreRoom ==
  ASSUME NEW n \in Nat, NEW k \in BreaksOK(n)
  PROVE  k \in BreaksOK(n + 1)
<1>1. Len(k.queue) \in Nat
  BY QueueOf, LenProperties DEF BreaksOK
<1> QED BY <1>1 DEF BreaksOK, Breaks

\* The state in which a step begins.
LEMMA OsBreaks ==
  ASSUME FamilyState, phase \notin {"switch", "ended"}, NEW n, Breaks(os, n)
  PROVE  os \in BreaksOK(n) /\ os \in Running /\ Me \in Slot
BY OsFamily DEF BreaksOK

\* A call that keeps such a state, or queues one signal.
LEMMA ReturnBreaks ==
  ASSUME NEW n \in Nat, NEW k, k \in BreaksOK(n) \/ k \in BreaksOK(n + 1), Return(k)
  PROVE  Breaks(os', n + 1)
<1>1. k \in BreaksOK(n + 1)
  BY MoreRoom
<1> QED BY <1>1 DEF Return, BreaksOK, Breaks, Awaited, Broken

\* The end of an iteration opens nobody's reads.
LEMMA ArbitrateBreaks ==
  ASSUME NEW n \in Nat, NEW k, k \in BreaksOK(n) \/ k \in BreaksOK(n + 1),
         NEW on_way, Arbitrate(k, on_way)
  PROVE  Breaks(os', n + 1)
<1> DEFINE b == k.arbitrate \/ k.proc[k.currentpid].state \in {"pSysTask", "pUnused", "pWaitRead"}
           m == [k EXCEPT !.arbitrate = b]
<1>1. k \in BreaksOK(n + 1)
  BY MoreRoom
<1>2. b \in BOOLEAN
  BY <1>1, QueueOf DEF BreaksOK
<1>3. os' = m \/ os' = k
  BY Zenon DEF Arbitrate, m, b
<1> HIDE DEF b
<1>4. m \in BreaksOK(n + 1)
  BY <1>1, <1>2, GlobalsBreaking, Zenon
<1> HIDE DEF m
<1>5. os' \in BreaksOK(n + 1)
  BY <1>1, <1>3, <1>4
<1> QED BY <1>5 DEF BreaksOK, Breaks, Awaited, Broken

\* The state a call begins in.
LEMMA TrappedBreaks ==
  ASSUME FamilyState, phase = "call", NEW n, Breaks(os, n)
  PROVE  Trapped \in BreaksOK(n)
<1> DEFINE x == IF My.way_to_icpt THEN 1 ELSE os.proc[Me].masklevel
           n1 == [os EXCEPT !.proc[Me].masklevel = x]
           n2 == [n1 EXCEPT !.proc[Me].way_to_icpt = FALSE]
           n3 == [n2 EXCEPT !.arbitrate = FALSE]
<1>1. os \in Running /\ Me \in Slot /\ x \in Nat /\ os \in BreaksOK(n)
  BY OsBreaks, ProcessOf, ProcessFields
<1> HIDE DEF x
<1>2. n1 \in BreaksOK(n)
  BY <1>1, UpdateBreaking
<1> HIDE DEF n1
<1>3. n2 \in BreaksOK(n)
  BY <1>1, <1>2, UpdateBreaking
<1> HIDE DEF n2
<1>4. n3 \in BreaksOK(n)
  BY <1>3, GlobalsBreaking, Zenon
<1>5. Trapped = n3
  BY Zenon DEF Trapped, n3, n2, n1, x
<1> QED BY <1>4, <1>5

\* The calls that go on to Return with nothing but such functions.
LEMMA CallsBreaks ==
  ASSUME FamilyState, NEW n \in Nat, n < MAXSIGNALS, Breaks(os, n),
         S_Wake \notin Signals,
         \/ F_Exit \/ F_RTE_Astray \/ Pipe \/ Other
         \/ \E ok \in BOOLEAN : F_Chain(ok)
         \/ \E t \in Targets, sig \in Signals : F_Send(t, sig)
         \/ \E set \in BOOLEAN : F_Icpt(set)
         \/ \E level \in {"off", "up", "down"} : F_Sigmask(level)
         \/ \E sig \in Signals : F_SendAll(sig)
  PROVE  Breaks(os', n + 1)
<1>1. Runs
  BY DEF F_Exit, F_RTE_Astray, Pipe, Other, F_Chain, F_Send, F_Icpt, F_Sigmask, F_SendAll
<1>2. Trapped \in BreaksOK(n) /\ Me \in Slot /\ ~Gone(Trapped.proc[Me]) /\ n <= MAXSIGNALS
  <2>1. n <= MAXSIGNALS
    BY ProcTableAssumption
  <2> QED BY <1>1, <2>1, RunsFacts, TrappedBreaks
<1>3. ASSUME F_Exit PROVE Breaks(os', n + 1)
  <2> DEFINE k == [Trapped EXCEPT !.arbitrate = TRUE]
  <2>1. k \in BreaksOK(n)
    BY <1>2, GlobalsBreaking, Zenon
  <2>2. Return(KillProcess(MaskOff(k, Me, FALSE), Me))
    BY <1>3 DEF F_Exit
  <2> HIDE DEF k
  <2>3. MaskOff(k, Me, FALSE) \in BreaksOK(n)
    BY <1>2, <2>1, FunctionsBreaks
  <2>4. KillProcess(MaskOff(k, Me, FALSE), Me) \in BreaksOK(n)
    BY <1>2, <2>3, FunctionsBreaks
  <2> QED BY <2>2, <2>4, ReturnBreaks
<1>4. ASSUME F_RTE_Astray PROVE Breaks(os', n + 1)
  <2>1. KillProcess(Trapped, Me) \in BreaksOK(n)
    BY <1>2, FunctionsBreaks
  <2>2. MaskOff(KillProcess(Trapped, Me), Me, FALSE) \in BreaksOK(n)
    BY <1>2, <2>1, FunctionsBreaks
  <2> QED BY <1>4, <2>2, ReturnBreaks DEF F_RTE_Astray
<1>5. ASSUME Pipe PROVE Breaks(os', n + 1)
  <2>1. [Trapped EXCEPT !.proc[Me].state = "pSysTask"] \in BreaksOK(n)
    BY <1>2, UpdateBreaking DEF PState
  <2> QED BY <1>5, <2>1, ReturnBreaks DEF Pipe
<1>6. ASSUME Other PROVE Breaks(os', n + 1)
  BY <1>2, <1>6, ReturnBreaks DEF Other
<1>7. ASSUME NEW ok \in BOOLEAN, F_Chain(ok) PROVE Breaks(os', n + 1)
  <2> DEFINE k == [Trapped EXCEPT !.proc[Me].sigvec = FALSE]
  <2>1. k \in BreaksOK(n)
    BY <1>2, UpdateBreaking
  <2>2. Return(IF ok THEN k ELSE KillProcess(k, Me))
    BY <1>7 DEF F_Chain
  <2> HIDE DEF k
  <2>3. (IF ok THEN k ELSE KillProcess(k, Me)) \in BreaksOK(n)
    BY <1>2, <2>1, FunctionsBreaks
  <2> QED BY <2>2, <2>3, ReturnBreaks
<1>8. ASSUME NEW t \in Targets, NEW sig \in Signals, F_Send(t, sig) PROVE Breaks(os', n + 1)
  <2>1. t \in Slot /\ sig \in Nat /\ sig # S_Wake
    BY KernelAssumption, SlotIsNat
  <2>2. SendSignal(Trapped, t, sig, FALSE) \in BreaksOK(n + 1)
    BY <1>2, <2>1, FunctionsBreaks
  <2> QED BY <1>8, <2>2, ReturnBreaks DEF F_Send
<1>9. ASSUME NEW set \in BOOLEAN, F_Icpt(set) PROVE Breaks(os', n + 1)
  <2>1. [Trapped EXCEPT !.proc[Me].sigvec = set] \in BreaksOK(n)
    BY <1>2, UpdateBreaking
  <2> QED BY <1>9, <2>1, ReturnBreaks DEF F_Icpt
<1>10. ASSUME NEW level \in {"off", "up", "down"}, F_Sigmask(level) PROVE Breaks(os', n + 1)
  <2>1. /\ MaskOff(Trapped, Me, FALSE) \in BreaksOK(n)
        /\ MaskUp(Trapped, Me, FALSE) \in BreaksOK(n)
        /\ MaskDown(Trapped, Me, FALSE) \in BreaksOK(n)
    BY <1>2, FunctionsBreaks
  <2>2. \E k \in BreaksOK(n) : Return(k)
    BY <1>10, <2>1 DEF F_Sigmask
  <2> QED BY <2>2, ReturnBreaks
<1>11. ASSUME NEW sig \in Signals, F_SendAll(sig) PROVE Breaks(os', n + 1)
  <2>1. os' \in BreaksOK(n + 1)
    BY <1>2, <1>11, MoreRoom DEF F_SendAll
  <2> QED BY <2>1 DEF BreaksOK, Breaks, Awaited, Broken
<1> QED BY <1>3, <1>4, <1>5, <1>6, <1>7, <1>8, <1>9, <1>10, <1>11

\* A new process has not begun to read.
LEMMA ForkBreaks ==
  ASSUME FamilyState, NEW n \in Nat, Breaks(os, n), NEW ok \in BOOLEAN, F_Fork(ok)
  PROVE  Breaks(os', n + 1)
<1> DEFINE k == Trapped
           q == Least(FreeSlots(k))
           new == NewProcess(k, q, Me)
           failed == [new EXCEPT !.proc[q].state = "pUnused"]
<1>1. k \in BreaksOK(n) /\ k \in Running /\ Me \in Slot
  <2>1. Runs
    BY DEF F_Fork
  <2> QED BY <2>1, RunsFacts, TrappedBreaks
<1> HIDE DEF k
<1>2. ASSUME FreeSlots(k) # {}
      PROVE  StartChild(new, Me, q) \in BreaksOK(n) /\ failed \in BreaksOK(n)
  <2>1. q \in Slot
    BY <1>1, <1>2, FreeSlotType
  <2> HIDE DEF q
  <2>2. NoNewBreak(k, new) /\ ~new.proc[q].pwr_brk
    BY <1>1, <2>1, NewProcessBreaks
  <2> HIDE DEF new
  <2>3. new \in BreaksOK(n) /\ new \in Running
    <3>1. new \in BreaksOK(n)
      BY <1>1, <2>2, BreaksKept
    <3> QED BY <2>2, <3>1 DEF NoNewBreak
  <2>4. failed \in BreaksOK(n)
    BY <2>1, <2>3, UpdateBreaking DEF PState
  <2>5. StartChild(new, Me, q) \in BreaksOK(n)
    <3> DEFINE head == new.proc[Me].cid
               sib == IF head # q THEN head ELSE new.proc[q].sid
               r == [new.proc[q] EXCEPT !.state = "pActive"]
               n1 == [new EXCEPT !.proc[q].state = "pActive"]
               n2 == [n1 EXCEPT !.proc[q].sid = sib]
               n3 == [n2 EXCEPT !.proc[Me].cid = q]
               n4 == [n3 EXCEPT !.currentpid = q, !.arbitrate = TRUE]
    <3>1. sib \in Slot
      BY <2>3, <1>1, <2>1, ProcessOf, ProcessFields
    <3> HIDE DEF sib
    <3>2. n1 \in BreaksOK(n)
      <4>1. r \in Process /\ r.pwr_brk = new.proc[q].pwr_brk
        <5>1. new.proc[q] \in Process /\ "pActive" \in PState
          BY <2>1, <2>3, ProcessOf DEF PState
        <5> QED BY <5>1, Zenon DEF Process
      <4>2. ~Broken(r)
        BY <2>2, <4>1 DEF Broken
      <4>3. n1 = [new EXCEPT !.proc[q] = r]
        BY Zenon DEF n1, r
      <4> HIDE DEF r, n1
      <4>4. NoNewBreak(new, n1)
        BY <2>1, <2>3, <4>1, <4>2, <4>3, SetProcessBreaks
      <4> QED BY <2>3, <4>4, BreaksKept
    <3> HIDE DEF n1
    <3>3. n2 \in BreaksOK(n)
      BY <2>1, <3>1, <3>2, UpdateBreaking
    <3> HIDE DEF n2
    <3>4. n3 \in BreaksOK(n)
      BY <1>1, <2>1, <3>3, UpdateBreaking
    <3> HIDE DEF n3
    <3>5. n4 \in BreaksOK(n)
      BY <2>1, <3>4, GlobalsBreaking, Zenon
    <3> QED BY <3>5, Zenon DEF StartChild, n4, n3, n2, n1, sib
  <2> QED BY <2>4, <2>5
<1>3. CASE FreeSlots(k) = {}
  <2>1. Return(k)
    BY <1>3, Zenon DEF F_Fork, k
  <2> QED BY <1>1, <2>1, ReturnBreaks
<1>4. CASE FreeSlots(k) # {} /\ ok
  <2>1. Return(StartChild(new, Me, q))
    BY <1>4, Zenon DEF F_Fork, k
  <2> HIDE DEF q, new
  <2> QED BY <1>2, <1>4, <2>1, ReturnBreaks
<1>5. CASE FreeSlots(k) # {} /\ ~ok
  <2>1. Return(failed)
    BY <1>5, Zenon DEF F_Fork, k
  <2> HIDE DEF failed
  <2> QED BY <1>2, <1>5, <2>1, ReturnBreaks
<1> QED BY <1>3, <1>4, <1>5

\* Who waits does not read, and a dead child is no reader.
LEMMA WaitBreaks ==
  ASSUME FamilyState, NEW n \in Nat, n < MAXSIGNALS, Breaks(os, n), F_Wait
  PROVE  Breaks(os', n + 1)
<1> DEFINE k == MaskOff(Trapped, Me, FALSE)
           dead == DeadChildren(k, Me) \cap UserPid
           live == LiveChildren(k, Me) \cap UserPid
           n1 == [k EXCEPT !.proc[Me].state = "pWaiting"]
           n2 == [n1 EXCEPT !.currentpid = Least(live), !.arbitrate = TRUE]
<1>1. Runs
  BY DEF F_Wait
<1>2. /\ Me \in Slot /\ k \in BreaksOK(n) /\ k \in Running /\ ~Gone(k.proc[Me])
      /\ n <= MAXSIGNALS
  <2>1. Trapped \in BreaksOK(n) /\ Me \in Slot /\ n <= MAXSIGNALS
    BY <1>1, RunsFacts, TrappedBreaks, ProcTableAssumption
  <2>2. k \in BreaksOK(n)
    BY <2>1, FunctionsBreaks
  <2>3. k \in Running /\ ~Gone(k.proc[Me])
    BY <1>1, UnmaskedFamily
  <2> QED BY <2>1, <2>2, <2>3
<1> HIDE DEF k
<1>3. CASE dead # {}
  <2>1. Return(Reap(k, Me, Least(dead)))
    BY <1>3, Zenon DEF F_Wait, k
  <2>2. Least(dead) \in Slot
    BY <1>2, <1>3, ChildType
  <2> HIDE DEF dead
  <2>3. Reap(k, Me, Least(dead)) \in BreaksOK(n)
    BY <1>2, <2>2, FunctionsBreaks
  <2> QED BY <2>1, <2>3, ReturnBreaks
<1>4. CASE dead = {} /\ live # {}
  <2>1. Return(n2)
    BY <1>4, Zenon DEF F_Wait, k
  <2>2. Least(live) \in Slot
    BY <1>2, <1>4, ChildType
  <2> HIDE DEF live
  <2>3. n1 \in BreaksOK(n)
    BY <1>2, UpdateBreaking DEF PState
  <2> HIDE DEF n1
  <2>4. n2 \in BreaksOK(n)
    BY <2>2, <2>3, GlobalsBreaking, Zenon
  <2> HIDE DEF n2
  <2> QED BY <2>1, <2>4, ReturnBreaks
<1>5. CASE dead = {} /\ live = {}
  <2>1. Return(k)
    BY <1>5, Zenon DEF F_Wait, k
  <2> QED BY <1>2, <2>1, ReturnBreaks
<1> QED BY <1>3, <1>4, <1>5

\* Nor does F$Sleep open reads,
LEMMA SleepBreaks ==
  ASSUME FamilyState, NEW n \in Nat, n < MAXSIGNALS, Breaks(os, n),
         NEW wake \in SleepTimes, F_Sleep(wake)
  PROVE  Breaks(os', n + 1)
<1> DEFINE k == MaskOff(Trapped, Me, FALSE)
           n1 == [k EXCEPT !.arbitrate = TRUE]
           n2 == [n1 EXCEPT !.proc[Me].wakeUpTick = wake]
           n3 == [n2 EXCEPT !.proc[Me].state = "pSleeping"]
<1>1. Runs
  BY DEF F_Sleep
<1>2. /\ Me \in Slot /\ k \in BreaksOK(n) /\ k \in Running /\ ~Gone(k.proc[Me])
      /\ wake \in WakeUpTick
  <2>1. Trapped \in BreaksOK(n) /\ Me \in Slot /\ n <= MAXSIGNALS
    BY <1>1, RunsFacts, TrappedBreaks, ProcTableAssumption
  <2>2. k \in BreaksOK(n)
    BY <2>1, FunctionsBreaks
  <2>3. k \in Running /\ ~Gone(k.proc[Me])
    BY <1>1, UnmaskedFamily
  <2>4. wake \in WakeUpTick
    BY KernelAssumption DEF WakeUpTick
  <2> QED BY <2>1, <2>2, <2>3, <2>4
<1> HIDE DEF k
<1>3. n1 \in BreaksOK(n) /\ n1 \in Running /\ n1.proc = k.proc
  <2>1. n1 \in BreaksOK(n)
    BY <1>2, GlobalsBreaking, Zenon
  <2>2. n1.proc = k.proc
    BY <1>2, Zenon DEF Running, KernelState
  <2> QED BY <2>1, <2>2 DEF BreaksOK
<1> HIDE DEF n1
<1>4. n2 \in BreaksOK(n) /\ ~Gone(n2.proc[Me])
  <2>1. Untouched(n1, n2)
    BY <1>2, <1>3, UpdateUntouched
  <2>2. n2 \in BreaksOK(n)
    BY <1>2, <1>3, UpdateBreaking
  <2> QED BY <1>2, <1>3, <2>1, <2>2 DEF Untouched, Gone
<1> HIDE DEF n2
<1>5. n3 \in BreaksOK(n)
  BY <1>2, <1>4, UpdateBreaking DEF PState
<1> HIDE DEF n3
<1>6. Return(k) \/ Return(n3)
  BY Zenon DEF F_Sleep, n3, n2, n1, k
<1> QED BY <1>2, <1>5, <1>6, ReturnBreaks

\* nor yielding,
LEMMA YieldBreaks ==
  ASSUME FamilyState, NEW n \in Nat, n < MAXSIGNALS, Breaks(os, n), F_Yield
  PROVE  Breaks(os', n + 1)
<1> DEFINE k == MaskOff(Trapped, Me, FALSE)
           b == k.arbitrate \/ ~k.proc[Me].way_to_icpt
           m == [k EXCEPT !.arbitrate = b]
<1>1. Runs
  BY DEF F_Yield
<1>2. k \in BreaksOK(n) /\ k \in Running
  <2>1. Trapped \in BreaksOK(n) /\ Me \in Slot /\ n <= MAXSIGNALS
    BY <1>1, RunsFacts, TrappedBreaks, ProcTableAssumption
  <2>2. k \in BreaksOK(n)
    BY <2>1, FunctionsBreaks
  <2> QED BY <2>2 DEF BreaksOK
<1> HIDE DEF k
<1>3. b \in BOOLEAN
  BY <1>2, QueueOf
<1> HIDE DEF b
<1>4. m \in BreaksOK(n)
  BY <1>2, <1>3, GlobalsBreaking, Zenon
<1>5. Return(m)
  BY Zenon DEF F_Yield, m, b, k
<1> HIDE DEF m
<1> QED BY <1>4, <1>5, ReturnBreaks

\* nor the end of an intercept routine,
LEMMA RTEBreaks ==
  ASSUME FamilyState, NEW n \in Nat, n < MAXSIGNALS, Breaks(os, n), F_RTE
  PROVE  Breaks(os', n + 1)
<1> DEFINE broken == My.signal \in 1 .. Pwr_Signal
           blocked == My.rtestate = "pWaitRead"
           b == blocked /\ ~broken
           st == IF blocked /\ broken THEN "pActive" ELSE My.rtestate
           n1 == [Trapped EXCEPT !.proc[Me].signal = 0]
           n2 == [n1 EXCEPT !.arbitrate = b]
           n3 == [n2 EXCEPT !.proc[Me].state = st]
<1>1. Runs
  BY DEF F_RTE
<1>2. /\ Me \in Slot /\ Trapped \in BreaksOK(n) /\ Trapped \in Running
      /\ ~Gone(Trapped.proc[Me]) /\ n <= MAXSIGNALS
  BY <1>1, RunsFacts, TrappedBreaks, ProcTableAssumption
<1>3. st \in PState /\ b \in BOOLEAN
  <2>1. phase = "call" /\ phase \notin {"switch", "ended"}
    BY <1>1, RunsFacts
  <2> QED BY <2>1, OsFamily, ProcessFields DEF PState
<1> HIDE DEF st, b
<1>4. n1 \in BreaksOK(n) /\ n1 \in Running /\ n1.proc[Me].state = Trapped.proc[Me].state
  <2>1. n1 \in BreaksOK(n)
    BY <1>2, UpdateBreaking
  <2>2. n1.proc[Me].state = Trapped.proc[Me].state
    <3>1. 0 \in Nat /\ "pDead" \in PState
      BY DEF PState
    <3> QED BY <1>2, <3>1, SetSignalFields
  <2> QED BY <2>1, <2>2 DEF BreaksOK
<1> HIDE DEF n1
<1>5. n2 \in BreaksOK(n) /\ n2.proc = n1.proc
  <2>1. n2 \in BreaksOK(n)
    BY <1>3, <1>4, GlobalsBreaking, Zenon
  <2>2. n2.proc = n1.proc
    BY <1>4, Zenon DEF Running, KernelState
  <2> QED BY <2>1, <2>2
<1> HIDE DEF n2
<1>6. n3 \in BreaksOK(n)
  <2>1. ~Gone(n2.proc[Me])
    BY <1>2, <1>4, <1>5 DEF Gone
  <2> QED BY <1>2, <1>3, <1>5, <2>1, UpdateBreaking
<1> HIDE DEF n3
<1>7. MaskOff(n3, Me, FALSE) \in BreaksOK(n)
  BY <1>2, <1>6, FunctionsBreaks
<1>8. Return(MaskOff(n3, Me, FALSE))
  BY Zenon DEF F_RTE, n3, n2, n1, st, b
<1> QED BY <1>7, <1>8, ReturnBreaks

\* nor a read that begins or ends.
LEMMA ReadBreaks ==
  ASSUME FamilyState, NEW n \in Nat, n < MAXSIGNALS, Breaks(os, n),
         NEW ready \in BOOLEAN, Read(ready)
  PROVE  Breaks(os', n + 1)
<1> DEFINE k == IF Runs THEN Trapped ELSE [os EXCEPT !.arbitrate = FALSE]
           r == k.proc[Me]
           st == IF r.state = "pWaitRead" THEN r.saved_state ELSE r.state
           n1 == [k EXCEPT !.proc[Me].state = st]
           n2 == [k EXCEPT !.proc[Me].saved_state = st]
           n3 == [n2 EXCEPT !.proc[Me].state = "pWaitRead"]
           n4 == [n3 EXCEPT !.arbitrate = TRUE]
<1>1. phase = "call"
  BY DEF Read, Runs, Executes
<1>2. Me \in Slot /\ k \in BreaksOK(n) /\ k \in Running /\ ~Gone(k.proc[Me])
  <2>1. CASE Runs
    BY <2>1, RunsFacts, TrappedBreaks
  <2>2. CASE ~Runs
    <3> DEFINE m == [os EXCEPT !.arbitrate = FALSE]
    <3>1. os \in BreaksOK(n) /\ os \in Running /\ Me \in Slot
      BY <1>1, OsBreaks
    <3>2. m \in BreaksOK(n)
      BY <3>1, GlobalsBreaking, Zenon
    <3>3. m.proc = os.proc
      BY <3>1, Zenon DEF Running, KernelState
    <3>4. os.proc[Me].state = "pWaitRead"
      BY <2>2 DEF Read, My
    <3>5. k = m
      BY <2>2
    <3> HIDE DEF m, k
    <3> QED BY <3>1, <3>2, <3>3, <3>4, <3>5 DEF BreaksOK, Gone
  <2> QED BY <2>1, <2>2
<1> HIDE DEF k
<1>3. st \in PState
  BY <1>2, ProcessOf, ProcessFields
<1> HIDE DEF st
<1>4. n1 \in BreaksOK(n) /\ n2 \in BreaksOK(n)
  BY <1>2, <1>3, UpdateBreaking
<1>5. ~Gone(n2.proc[Me])
  <2>1. Untouched(k, n2)
    BY <1>2, <1>3, UpdateUntouched
  <2> HIDE DEF n2
  <2> QED BY <1>2, <2>1 DEF Untouched, Gone
<1> HIDE DEF n1, n2
<1>6. n3 \in BreaksOK(n)
  BY <1>2, <1>4, <1>5, UpdateBreaking DEF PState
<1> HIDE DEF n3
<1>7. n4 \in BreaksOK(n)
  BY <1>6, GlobalsBreaking, Zenon
<1>8. Return(n1) \/ Return(n4)
  BY Zenon DEF Read, n4, n3, n2, n1, st, k
<1> HIDE DEF n4
<1> QED BY <1>4, <1>7, <1>8, ReturnBreaks

\* Nor does a trap, whether it is handled or fatal.
LEMMA TrapBreaks ==
  ASSUME FamilyState, NEW n \in Nat, n < MAXSIGNALS, Breaks(os, n),
         Trap \/ \E entry \in BOOLEAN : TrapHandled(entry)
  PROVE  Breaks(os', n + 1)
<1> DEFINE k == [Trapped EXCEPT !.arbitrate = os.arbitrate]
<1>1. phase = "call"
  BY DEF Trap, TrapHandled, Runs, Executes
<1>2. Me \in Slot /\ k \in BreaksOK(n) /\ n <= MAXSIGNALS
  <2>1. Trapped \in BreaksOK(n) /\ Me \in Slot /\ os.arbitrate \in BOOLEAN
    BY <1>1, TrappedBreaks, OsBreaks, QueueOf
  <2>2. k \in BreaksOK(n)
    BY <2>1, GlobalsBreaking, Zenon
  <2> QED BY <2>1, <2>2, ProcTableAssumption
<1>3. CASE Trap
  <2>1. Arbitrate(KillProcess(k, Me), My.way_to_icpt)
    BY <1>3 DEF Trap
  <2> HIDE DEF k
  <2>2. KillProcess(k, Me) \in BreaksOK(n)
    BY <1>2, FunctionsBreaks
  <2> QED BY <2>1, <2>2, ArbitrateBreaks
<1>4. ASSUME NEW entry \in BOOLEAN, TrapHandled(entry) PROVE Breaks(os', n + 1)
  <2>1. CASE entry
    <3>1. Arbitrate(k, My.way_to_icpt)
      BY <1>4, <2>1 DEF TrapHandled
    <3> HIDE DEF k
    <3> QED BY <1>2, <3>1, ArbitrateBreaks
  <2>2. CASE ~entry
    <3>1. os' = k
      BY <1>4, <2>2 DEF TrapHandled
    <3> HIDE DEF k
    <3>2. k \in BreaksOK(n + 1)
      BY <1>2, MoreRoom
    <3>3. os' \in BreaksOK(n + 1)
      BY <3>1, <3>2
    <3> QED BY <3>3 DEF BreaksOK, Breaks, Awaited, Broken
  <2> QED BY <2>1, <2>2
<1> QED BY <1>3, <1>4

\* Nor does a system task or an iteration in which nothing runs.
LEMMA IdleBreaks ==
  ASSUME FamilyState, NEW n \in Nat, n < MAXSIGNALS, Breaks(os, n),
         Idle \/ \E done \in BOOLEAN : SysTask(done)
  PROVE  Breaks(os', n + 1)
<1> DEFINE x == IF My.way_to_icpt THEN 1 ELSE os.proc[Me].masklevel
<1>1. phase = "call"
  BY Zenon DEF Idle, SysTask
<1>2. Me \in Slot /\ os \in BreaksOK(n) /\ os \in Running /\ x \in Nat
  BY <1>1, OsBreaks, ProcessOf, ProcessFields
<1>3. CASE Idle
  <2> DEFINE m == [os EXCEPT !.proc[Me].masklevel = x]
  <2>1. Arbitrate(m, My.way_to_icpt)
    BY <1>3, Zenon DEF Idle
  <2> HIDE DEF x
  <2>2. m \in BreaksOK(n)
    BY <1>2, UpdateBreaking
  <2> HIDE DEF m
  <2> QED BY <2>1, <2>2, ArbitrateBreaks
<1>4. ASSUME NEW done \in BOOLEAN, SysTask(done) PROVE Breaks(os', n + 1)
  <2> DEFINE st == IF done THEN "pActive" ELSE os.proc[Me].state
             n1 == [os EXCEPT !.arbitrate = TRUE]
             n2 == [n1 EXCEPT !.proc[Me].masklevel = x]
             n3 == [n2 EXCEPT !.proc[Me].state = st]
  <2>1. Arbitrate(n3, My.way_to_icpt)
    BY <1>4, Zenon DEF SysTask
  <2>2. st \in PState /\ os.proc[Me].state = "pSysTask"
    <3>1. os.proc[Me].state = "pSysTask"
      BY <1>4, Zenon DEF SysTask, My
    <3> QED BY <3>1 DEF PState
  <2> HIDE DEF x, st
  <2>3. n1 \in BreaksOK(n) /\ n1 \in Running /\ n1.proc = os.proc
    <3>1. n1 \in BreaksOK(n)
      BY <1>2, GlobalsBreaking, Zenon
    <3>2. n1.proc = os.proc
      BY <1>2, Zenon DEF Running, KernelState
    <3> QED BY <3>1, <3>2 DEF BreaksOK
  <2> HIDE DEF n1
  <2>4. n2 \in BreaksOK(n) /\ n2.proc[Me].state = "pSysTask"
    <3>1. n2 \in BreaksOK(n)
      BY <1>2, <2>3, UpdateBreaking
    <3>2. n2.proc[Me].state = n1.proc[Me].state
      <4>1. "pDead" \in PState
        BY DEF PState
      <4> QED BY <1>2, <2>3, <4>1, SetSignalFields
    <3> QED BY <2>2, <2>3, <3>1, <3>2
  <2> HIDE DEF n2
  <2>5. n3 \in BreaksOK(n)
    BY <1>2, <2>2, <2>4, UpdateBreaking DEF Gone
  <2> HIDE DEF n3
  <2> QED BY <2>1, <2>5, ArbitrateBreaks
<1> QED BY <1>3, <1>4

\* A broadcast and the keyboard queue one signal at a time.
LEMMA HostBreaks ==
  ASSUME FamilyState, NEW n \in Nat, n < MAXSIGNALS, Breaks(os, n),
         S_Wake \notin HostSignals, bsig # S_Wake,
         \/ Broadcast
         \/ \E p \in UserPid, sig \in HostSignals : KeyToBuffer(p, sig)
  PROVE  Breaks(os', n + 1)
<1>1. os \in BreaksOK(n) /\ os \in BreaksOK(n + 1) /\ n <= MAXSIGNALS
  <2>1. os \in BreaksOK(n)
    BY OsBreaks DEF Broadcast, KeyToBuffer
  <2> QED BY <2>1, MoreRoom, ProcTableAssumption
<1>2. \A k \in BreaksOK(n + 1) : os' = k => Breaks(os', n + 1)
  BY DEF BreaksOK, Breaks, Awaited, Broken
<1>3. CASE Broadcast
  <2>1. next \in 1 .. MAXPROCESSES /\ bsig \in Nat
    BY DEF FamilyState, TypeInv, TypeOK
  <2>2. CASE next = MAXPROCESSES
    <3>1. os' = os
      BY <1>3, <2>2 DEF Broadcast
    <3> QED BY <1>1, <1>2, <3>1
  <2>3. CASE next # MAXPROCESSES
    <3>1. next \in Slot
      BY <2>1, <2>3, ProcTableAssumption DEF Slot
    <3>2. SendSignal(os, next, bsig, FALSE) \in BreaksOK(n + 1)
      BY <1>1, <2>1, <3>1, FunctionsBreaks
    <3>3. os' = os \/ os' = SendSignal(os, next, bsig, FALSE)
      BY <1>3, <2>3 DEF Broadcast
    <3> QED BY <1>1, <1>2, <3>2, <3>3
  <2> QED BY <2>2, <2>3
<1>4. ASSUME NEW p \in UserPid, NEW sig \in HostSignals, KeyToBuffer(p, sig)
      PROVE  Breaks(os', n + 1)
  <2>1. p \in Slot /\ sig \in Nat /\ sig # S_Wake
    BY KernelAssumption, ProcTableAssumption DEF UserPid, Slot
  <2>2. SendSignal(os, p, sig, FALSE) \in BreaksOK(n + 1)
    BY <1>1, <2>1, FunctionsBreaks
  <2>3. os' = SendSignal(os, p, sig, FALSE)
    BY <1>4 DEF KeyToBuffer
  <2> QED BY <1>2, <2>2, <2>3
<1> QED BY <1>3, <1>4

\* On the way to an intercept routine nobody's reads are opened.
LEMMA InterceptedBreaks ==
  ASSUME NEW n, NEW k \in BreaksOK(n), NEW c \in Slot
  PROVE  Intercepted(k, c) \in BreaksOK(n)
<1> DEFINE t == k.proc[c].icpt_pid
           r == k.proc[t]
           masked == k.proc[c].icpt_signal # S_Wake /\ r.state # "pDead"
           resumed == /\ masked /\ r.sigvec
                      /\ (t = c /\ r.state = "pWaitRead") \/ r.state = "pWaiting"
           b == (t = k.currentpid)
           g1 == [k EXCEPT !.proc[c].way_to_icpt = b]
           g2 == [g1 EXCEPT !.currentpid = t]
           m == IF masked THEN 1 ELSE r.masklevel
           rt == IF ~resumed THEN r.rtestate
                 ELSE IF r.state = "pWaitRead" THEN "pWaitRead" ELSE "pActive"
           st == IF resumed THEN "pActive" ELSE r.state
           s == [g2.proc[t] EXCEPT !.masklevel = m, !.rtestate = rt, !.state = st]
           g3 == [g2 EXCEPT !.proc[t] = s]
<1>0. k \in Running
  BY DEF BreaksOK
<1>1. t \in Slot /\ b \in BOOLEAN
  BY <1>0, ProcessOf, ProcessFields
<1>2. Intercepted(k, c) = g3
  BY Zenon DEF Intercepted
<1> HIDE DEF t, b
<1>3. g1 \in BreaksOK(n) /\ g1 \in Running /\ g1.proc[t].state = r.state
  <2>1. Untouched(k, g1)
    BY <1>0, <1>1, UpdateUntouched
  <2>2. g1 \in BreaksOK(n)
    BY <1>1, UpdateBreaking
  <2> QED BY <1>1, <2>1, <2>2 DEF Untouched
<1> HIDE DEF g1
<1>4. g2 \in BreaksOK(n) /\ g2 \in Running /\ g2.proc = g1.proc
  <2>1. g2 \in BreaksOK(n)
    BY <1>1, <1>3, GlobalsBreaking, Zenon
  <2>2. g2.proc = g1.proc
    BY <1>3, Zenon DEF Running, KernelState
  <2> QED BY <2>1, <2>2 DEF BreaksOK
<1> HIDE DEF g2
<1>5. r \in Process
  BY <1>0, <1>1, ProcessOf
<1>6. rt \in PState /\ m \in Nat /\ (st = r.state \/ (st = "pActive" /\ ~Gone(r)))
  BY <1>5, ProcessFields DEF PState, Gone
<1>7. st \in PState
  BY <1>5, <1>6, ProcessFields DEF PState
<1> HIDE DEF masked, resumed, m, rt, st, r
<1>8. s \in Process /\ s.pwr_brk = g2.proc[t].pwr_brk /\ s.state = st
  <2>1. g2.proc[t] \in Process
    BY <1>1, <1>4, ProcessOf
  <2> QED BY <1>6, <1>7, <2>1, Zenon DEF Process
<1> HIDE DEF s
<1>9. Broken(s) => Broken(g2.proc[t])
  BY <1>3, <1>4, <1>6, <1>8 DEF Broken, Gone
<1>10. NoNewBreak(g2, g3)
  BY <1>1, <1>4, <1>8, <1>9, SetProcessBreaks
<1> HIDE DEF g3
<1>11. g3 \in BreaksOK(n)
  BY <1>4, <1>10, BreaksKept
<1> QED BY <1>2, <1>11

\* After a call one signal of an alarm may be queued and one queued signal be taken.
LEMMA TakeSignalsBreaks ==
  ASSUME FamilyState, NEW n \in Nat, n < MAXSIGNALS, Breaks(os, n),
         S_Wake \notin HostSignals,
         NEW alarm \in {NoAlarm} \cup AlarmSignals, TakeSignals(alarm)
  PROVE  Breaks(os', n + 1)
<1> DEFINE a == IF alarm = NoAlarm THEN os
                ELSE SendSignal(os, alarm.pid, alarm.signal, FALSE)
           k == IF a.pending /\ a.proc[cpid].masklevel = 0
                THEN MaskOff(a, cpid, TRUE) ELSE a
           on_way == k.proc[cpid].way_to_icpt
           kk == IF on_way THEN Intercepted(k, cpid) ELSE k
<1>1. os \in BreaksOK(n) /\ cpid \in Slot /\ n + 1 \in Nat /\ n + 1 <= MAXSIGNALS
      /\ n <= MAXSIGNALS
  <2>1. os \in BreaksOK(n)
    BY OsBreaks DEF TakeSignals
  <2> QED BY <2>1, ProcTableAssumption DEF FamilyState, TypeInv, TypeOK
<1>2. a \in BreaksOK(n + 1)
  <2>1. CASE alarm = NoAlarm
    BY <2>1, <1>1, MoreRoom
  <2>2. CASE alarm # NoAlarm
    <3>1. alarm \in [pid : UserPid, signal : HostSignals]
      BY <2>2 DEF AlarmSignals
    <3>2. alarm.pid \in UserPid /\ alarm.signal \in HostSignals
      BY <3>1
    <3>3. alarm.pid \in Slot /\ alarm.signal \in Nat /\ alarm.signal # S_Wake
      <4>1. UserPid \subseteq Slot
        BY ProcTableAssumption DEF UserPid, Slot
      <4> QED BY <3>2, <4>1, KernelAssumption, Zenon
    <3> QED BY <2>2, <1>1, <3>3, FunctionsBreaks
  <2> QED BY <2>1, <2>2
<1> HIDE DEF a
<1>3. k \in BreaksOK(n + 1)
  BY <1>1, <1>2, FunctionsBreaks
<1> HIDE DEF k
<1>4. kk \in BreaksOK(n + 1)
  BY <1>1, <1>3, InterceptedBreaks
<1> HIDE DEF kk, on_way
<1>5. Arbitrate(kk, on_way)
  BY Zenon DEF TakeSignals, kk, on_way, k, a
<1> QED BY <1>4, <1>5, ArbitrateBreaks

-----------------------------------------------------------------------------
(* do_arbitrate opens no reads, and the network queues one signal at most. *)

\* A report changes no other state.
LEMMA ReapStates ==
  ASSUME NEW k \in Running, NEW p \in Slot, NEW q \in Slot, NEW x \in Slot, x # q
  PROVE  Reap(k, p, q).proc[x].state = k.proc[x].state
<1> DEFINE a == AssignNewChild(k, p, q)
           before == {b \in Slot : b \in ChildList(k, p) /\ k.proc[b].sid = q}
<1>1. k.proc[q].sid \in Slot /\ a \in Running
  BY ProcessOf, ProcessFields, AssignNewChildType
<1>2. a.proc[x].state = k.proc[x].state
  <2>1. Untouched(k, [k EXCEPT !.proc[p].cid = k.proc[q].sid])
    BY <1>1, UpdateUntouched
  <2>2. ASSUME before # {}
        PROVE  Untouched(k, [k EXCEPT !.proc[Least(before)].sid = k.proc[q].sid])
    <3>1. before \subseteq Slot
      OBVIOUS
    <3> HIDE DEF before
    <3>2. Least(before) \in Slot
      BY <2>2, <3>1, LeastIsMember, SlotIsNat
    <3> QED BY <1>1, <3>2, UpdateUntouched
  <2>3. a = k \/ Untouched(k, a)
    BY <2>1, <2>2, Zenon DEF AssignNewChild
  <2> HIDE DEF a
  <2> QED BY <2>3 DEF Untouched
<1> HIDE DEF a
<1> QED BY <1>1, <1>2, StateFields DEF Reap, a

\* The choice of a process opens nobody's reads,
LEMMA ChooseBreaks ==
  ASSUME FamilyState, NEW n \in Nat, n <= MAXSIGNALS, NEW k \in BreaksOK(n),
         NEW c \in 0 .. MAXPROCESSES, Choose(k, c)
  PROVE  Breaks(os', n)
<1> DEFINE p == IF c = MAXPROCESSES THEN scan.sleeping ELSE c
           chosen == [k EXCEPT !.currentpid = p]
           dead == IF p = MAXPROCESSES THEN {} ELSE DeadChildren(k, p)
<1>1. k \in Running /\ Breaks(k, n)
  BY DEF BreaksOK
<1>2. chosen.proc = k.proc /\ chosen.queue = k.queue
  <2> HIDE DEF p
  <2> QED BY <1>1, Zenon DEF Running, KernelState
<1>3. CASE c = MAXPROCESSES \/ k.proc[c].state # "pWaiting" \/ dead = {}
  <2>1. os' = chosen
    BY <1>3, Zenon DEF Choose
  <2> HIDE DEF chosen
  <2> QED BY <1>1, <1>2, <2>1 DEF Breaks, Awaited
<1>4. CASE ~(c = MAXPROCESSES \/ k.proc[c].state # "pWaiting" \/ dead = {})
  <2> DEFINE d == Least(dead)
             m == Reap(chosen, p, d)
  <2>1. os' = [m EXCEPT !.proc[p].state = "pActive"]
    BY <1>4, Zenon DEF Choose, Unwait
  <2>2. p = c /\ p \in Slot /\ k.proc[p].state = "pWaiting" /\ dead = DeadChildren(k, p)
    BY <1>4, ProcTableAssumption DEF Slot
  <2>3. d \in dead /\ d \in Slot
    BY <1>1, <1>4, <2>2, ChildType
  <2>4. d # p
    BY <2>2, <2>3 DEF DeadChildren
  <2>5. chosen \in BreaksOK(n)
    <3> HIDE DEF p
    <3> QED BY <2>2, GlobalsBreaking, Zenon
  <2> HIDE DEF d, p, dead, chosen
  <2>6. m \in BreaksOK(n)
    BY <2>2, <2>3, <2>5, FunctionsBreaks
  <2>7. m.proc[p].state = "pWaiting"
    BY <1>2, <2>2, <2>3, <2>4, <2>5, ReapStates DEF BreaksOK
  <2> HIDE DEF m
  <2>8. os' \in BreaksOK(n)
    BY <2>1, <2>2, <2>6, <2>7, UpdateBreaking DEF PState, Gone
  <2> QED BY <2>8 DEF BreaksOK, Breaks, Awaited, Broken
<1> QED BY <1>3, <1>4

\* nor does passing over one.
LEMMA PassBreaks ==
  ASSUME FamilyState, NEW n \in Nat, n <= MAXSIGNALS, NEW k \in BreaksOK(n),
         NEW sc \in Scan, Pass(k, sc)
  PROVE  Breaks(os', n)
<1> DEFINE kk == [k EXCEPT !.arbitrate = TRUE]
<1>1. kk \in BreaksOK(n)
  BY GlobalsBreaking, Zenon
<1>2. MAXPROCESSES \in 0 .. MAXPROCESSES /\ sc.spid \in 0 .. MAXPROCESSES
  BY ProcTableAssumption DEF Scan, Slot
<1>3. \/ Choose(k, sc.spid)
      \/ Choose(kk, MAXPROCESSES)
      \/ os' = kk
  BY Zenon DEF Pass
<1> HIDE DEF kk
<1>4. os' = kk => Breaks(os', n)
  BY <1>1 DEF BreaksOK, Breaks, Awaited, Broken
<1> QED BY <1>1, <1>2, <1>3, <1>4, ChooseBreaks

\* At a sleeper one queued signal is taken, and one of the network may be queued.
LEMMA PolledBreaks ==
  ASSUME FamilyState, phase = "arbitrate", NEW n \in Nat, n < MAXSIGNALS, Breaks(os, n),
         S_Wake \notin HostSignals, NEW net \in HostSignals \cup {NoSignal}
  PROVE  Polled(net) \in BreaksOK(n + 1)
<1> DEFINE c == Candidate
           aged == [os EXCEPT !.proc[c].pW_age = NewAge]
           k == IF aged.pending /\ aged.proc[c].masklevel = 0
                THEN MaskOff(aged, c, TRUE) ELSE aged
           k0 == [k EXCEPT !.currentpid = 0]
           sent == SendSignal(k0, c, net, TRUE)
           back == [sent EXCEPT !.currentpid = k.currentpid]
<1>1. os \in BreaksOK(n) /\ c \in Slot /\ NewAge \in 0 .. NewAge /\ n <= MAXSIGNALS
  BY OsBreaks, CandidateType, ProcTableAssumption DEF FamilyState
<1>2. Polled(net) = IF net = NoSignal THEN k ELSE back
  BY Zenon DEF Polled
<1> HIDE DEF c
<1>3. aged \in BreaksOK(n)
  BY <1>1, UpdateBreaking
<1> HIDE DEF aged
<1>4. k \in BreaksOK(n) /\ k.currentpid \in Slot
  <2>1. k \in BreaksOK(n)
    BY <1>1, <1>3, FunctionsBreaks
  <2> HIDE DEF k
  <2> QED BY <2>1, QueueOf DEF BreaksOK
<1> HIDE DEF k
<1>5. CASE net = NoSignal
  BY <1>2, <1>4, <1>5, MoreRoom
<1>6. CASE net # NoSignal
  <2>1. net \in Nat /\ net # S_Wake
    BY <1>6, KernelAssumption
  <2>2. k0 \in BreaksOK(n)
    BY <1>4, Zero, GlobalsBreaking, Zenon
  <2> HIDE DEF k0
  <2>3. sent \in BreaksOK(n + 1)
    BY <1>1, <2>1, <2>2, FunctionsBreaks
  <2> HIDE DEF sent
  <2>4. back \in BreaksOK(n + 1)
    BY <1>4, <2>3, GlobalsBreaking, Zenon
  <2> QED BY <1>2, <1>6, <2>4
<1> QED BY <1>5, <1>6

\* Looking at a sleeper,
LEMMA ArbSleepingBreaks ==
  ASSUME FamilyState, NEW n \in Nat, n < MAXSIGNALS, Breaks(os, n),
         S_Wake \notin HostSignals,
         NEW net \in HostSignals \cup {NoSignal}, ArbSleeping(net)
  PROVE  Breaks(os', n + 1)
<1> DEFINE c == Candidate
           sc == [Looked EXCEPT !.atLeast1 = TRUE]
           k == Polled(net)
           x == os.proc[c].pW_age - 1
           k1 == [os EXCEPT !.proc[c].pW_age = x]
           sc2 == [sc EXCEPT !.sleeping = c]
<1>1. phase = "arbitrate"
  BY DEF ArbSleeping, Searching
<1>2. /\ os \in BreaksOK(n) /\ os \in Running /\ c \in Slot /\ Looked \in Scan
      /\ k \in BreaksOK(n + 1) /\ n + 1 \in Nat /\ n + 1 <= MAXSIGNALS
  BY <1>1, OsBreaks, CandidateType, PolledBreaks, ProcTableAssumption DEF FamilyState
<1>3. c \in 0 .. MAXPROCESSES
  BY <1>2, ProcTableAssumption DEF Slot
<1>4. sc \in Scan
  BY <1>2, Zenon DEF Scan
<1>5. CASE ~Aged /\ ~sc.chkAll
  <2>1. os.proc[c].pW_age \in 0 .. NewAge /\ os.proc[c].pW_age # 0
    BY <1>2, <1>5, ProcessOf, ProcessFields DEF Aged
  <2>2. x \in 0 .. NewAge
    BY <2>1, ProcTableAssumption
  <2>3. Pass(k1, sc)
    BY <1>5, Zenon DEF ArbSleeping, x
  <2> HIDE DEF x
  <2>4. k1 \in BreaksOK(n)
    BY <1>2, <2>2, UpdateBreaking
  <2> HIDE DEF k1, sc
  <2>5. k1 \in BreaksOK(n + 1)
    BY <2>4, MoreRoom
  <2> QED BY <1>2, <1>4, <2>3, <2>5, PassBreaks
<1>6. CASE ~(~Aged /\ ~sc.chkAll)
  <2>1. k.proc[c].wakeUpTick # "due"
    BY NobodyIsDue
  <2>2. Pass(k, sc2)
    BY <1>6, <2>1, Zenon DEF ArbSleeping
  <2> HIDE DEF c, sc
  <2>3. sc2 \in Scan
    BY <1>3, <1>4, Zenon DEF Scan
  <2> HIDE DEF sc2, k
  <2> QED BY <1>2, <2>2, <2>3, PassBreaks
<1> QED BY <1>5, <1>6

\* at a process that can run, that reads, or that cannot run opens nobody's reads.
LEMMA ArbitrationBreaks ==
  ASSUME FamilyState, NEW n \in Nat, n < MAXSIGNALS, Breaks(os, n),
         ArbWrap \/ ArbRunnable \/ ArbWaitRead \/ ArbNotRunnable
  PROVE  Breaks(os', n + 1)
<1>1. phase = "arbitrate"
  BY DEF ArbWrap, ArbRunnable, ArbWaitRead, ArbNotRunnable, Searching
<1>2. /\ os \in BreaksOK(n + 1) /\ os \in Running /\ Candidate \in Slot /\ Looked \in Scan
      /\ n + 1 \in Nat /\ n + 1 <= MAXSIGNALS
  BY <1>1, OsBreaks, MoreRoom, CandidateType, ProcTableAssumption DEF FamilyState
<1>3. Candidate \in 0 .. MAXPROCESSES
  BY <1>2, ProcTableAssumption DEF Slot
<1>4. CASE ArbWrap
  BY <1>2, <1>4 DEF ArbWrap, BreaksOK, Breaks, Awaited, Broken
<1>5. CASE ArbRunnable
  BY <1>2, <1>3, <1>5, ChooseBreaks DEF ArbRunnable
<1>6. CASE ArbWaitRead
  <2> DEFINE x == NextAge(os.proc[Candidate].pW_age)
             k == [os EXCEPT !.proc[Candidate].pW_age = x]
             sc == [Looked EXCEPT !.done = FALSE]
  <2>1. x \in 0 .. NewAge
    <3>1. os.proc[Candidate].pW_age \in 0 .. NewAge
      BY <1>2, ProcessOf, ProcessFields
    <3> QED BY <3>1, ProcTableAssumption DEF NextAge
  <2>2. Choose(k, Candidate) \/ Pass(k, sc)
    BY <1>6, Zenon DEF ArbWaitRead
  <2> HIDE DEF x
  <2>3. k \in BreaksOK(n + 1)
    BY <1>2, <2>1, UpdateBreaking
  <2> HIDE DEF k
  <2>4. sc \in Scan
    BY <1>2, Zenon DEF Scan
  <2> HIDE DEF sc
  <2> QED BY <1>2, <1>3, <2>2, <2>3, <2>4, ChooseBreaks, PassBreaks
<1>7. CASE ArbNotRunnable
  BY <1>2, <1>7, PassBreaks DEF ArbNotRunnable
<1> QED BY <1>4, <1>5, <1>6, <1>7

\* Going over to the chosen process and time that passes change nothing about reads.
LEMMA SwitchBreaks ==
  ASSUME FamilyState, NEW n \in Nat, Breaks(os, n),
         Switch \/ Ended \/ UNCHANGED vars \/ \E p \in Pid : Tick(p)
  PROVE  Breaks(os', n + 1)
<1>1. /\ os \in KernelState /\ Me \in 0 .. MAXPROCESSES /\ Len(os.queue) \in Nat
      /\ os.queue \in Seq(Entry(Nat))
  <2>1. os \in KernelState
    BY DEF FamilyState, TypeInv, TypeOK
  <2> QED BY <2>1, LenProperties DEF KernelState, Me, Entry
<1>2. ASSUME os'.queue = os.queue,
             \A q \in Slot : Broken(os'.proc[q]) => Broken(os.proc[q])
      PROVE  Breaks(os', n + 1)
  BY <1>1, <1>2 DEF Breaks, Awaited
<1>3. ASSUME os' = os PROVE Breaks(os', n + 1)
  BY <1>2, <1>3
<1>4. CASE Switch
  <2> DEFINE gives == Me # MAXPROCESSES /\ ~cwti /\ My.way_to_icpt /\ My.icpt_pid # Me
             n1 == [os EXCEPT !.proc[Me].way_to_icpt = FALSE]
             n2 == [n1 EXCEPT !.currentpid = My.icpt_pid]
  <2>1. CASE gives
    <3>1. os' = n2
      BY <1>4, <2>1, Zenon DEF Switch
    <3>2. Me \in Slot /\ os \in Running
      BY <1>1, <2>1, ProcTableAssumption DEF Slot, Running, Me
    <3>3. My.icpt_pid \in Slot
      BY <3>2, ProcessOf, ProcessFields DEF My
    <3>4. NoNewBreak(os, n1) /\ n1 \in Running
      BY <3>2, UpdateBreaks, UpdateKernel
    <3> HIDE DEF n1
    <3>5. NoNewBreak(n1, n2)
      BY <3>3, <3>4, GlobalsBreaks, Zenon
    <3> HIDE DEF n2
    <3>6. NoNewBreak(os, os')
      BY <3>1, <3>4, <3>5, NoNewBreakInTurn
    <3> QED BY <1>2, <3>6 DEF NoNewBreak
  <2>2. CASE ~gives
    BY <1>3, <1>4, <2>2, Zenon DEF Switch
  <2> QED BY <2>1, <2>2
<1>5. ASSUME NEW p \in Pid, Tick(p) PROVE Breaks(os', n + 1)
  <2> DEFINE r == [os.proc[p] EXCEPT !.wakeUpTick = "due"]
             k == [os EXCEPT !.proc[p] = r]
  <2>1. os' = k
    BY <1>5, Zenon DEF Tick
  <2>2. p \in Slot /\ os.proc[p] \in Process
    BY <1>1, SlotIsNat DEF KernelState
  <2>3. r.state = os.proc[p].state /\ r.pwr_brk = os.proc[p].pwr_brk
    BY <2>2, Zenon DEF Process
  <2> HIDE DEF r
  <2>4. k.queue = os.queue /\ \A q \in Slot : k.proc[q] = IF q = p THEN r ELSE os.proc[q]
    BY <1>1, <2>2 DEF KernelState
  <2> HIDE DEF k
  <2>5. \A q \in Slot : Broken(os'.proc[q]) => Broken(os.proc[q])
    BY <2>1, <2>3, <2>4 DEF Broken, Gone
  <2> QED BY <1>2, <2>1, <2>4, <2>5
<1> QED BY <1>3, <1>4, <1>5 DEF Ended, vars

\* No step leaves a break behind; it queues one signal at most.
LEMMA NextBreaks ==
  ASSUME FamilyState, NEW n \in Nat, n < MAXSIGNALS, Breaks(os, n), bsig # S_Wake,
         S_Wake \notin Signals, S_Wake \notin HostSignals, [Next]_vars
  PROVE  Breaks(os', n + 1)
<1>1. CASE SystemCall
  BY <1>1, CallsBreaks, ForkBreaks, WaitBreaks, SleepBreaks, YieldBreaks, RTEBreaks,
     ReadBreaks, TrapBreaks DEF SystemCall
<1>2. CASE Loop
  BY <1>2, HostBreaks, IdleBreaks, SwitchBreaks, TakeSignalsBreaks, ArbitrationBreaks,
     ArbSleepingBreaks DEF Loop
<1>3. CASE Host
  BY <1>3, HostBreaks, SwitchBreaks DEF Host
<1>4. CASE Ended \/ UNCHANGED vars
  BY <1>4, SwitchBreaks
<1> QED BY <1>1, <1>2, <1>3, <1>4 DEF Next

\* What a broadcast sends is what F$Send was called with.
LEMMA BroadcastSignal ==
  ASSUME S_Wake \notin Signals, bsig # S_Wake, [Next]_vars
  PROVE  bsig' # S_Wake
<1>1. CASE SystemCall
  <2>1. (\E sig \in Signals : F_SendAll(sig)) => bsig' # S_Wake
    BY DEF F_SendAll
  <2>2. bsig' = bsig \/ \E sig \in Signals : F_SendAll(sig)
    BY <1>1, Zenon DEF SystemCall, F_Fork, F_Exit, F_Chain, F_Wait, F_Sleep, F_Yield, F_Send,
       F_Icpt, F_RTE, F_RTE_Astray, F_Sigmask, Read, Pipe, Other, Trap, TrapHandled,
       Return, bcast
  <2> QED BY <2>1, <2>2
<1>2. CASE Loop
  <2>1. Broadcast => bsig' \in {0, bsig}
    BY Zenon DEF Broadcast
  <2>2. bsig' = bsig \/ Broadcast
    BY <1>2, Zenon DEF Loop, Idle, Switch, SysTask, TakeSignals, ArbWrap, ArbRunnable,
       ArbWaitRead, ArbNotRunnable, ArbSleeping, bcast
  <2> QED BY <2>1, <2>2 DEF S_Wake
<1>3. CASE Host
  BY <1>3, Zenon DEF Host, Tick, KeyToBuffer, bcast
<1>4. CASE Ended \/ UNCHANGED vars
  BY <1>4 DEF Ended, vars
<1> QED BY <1>1, <1>2, <1>3, <1>4 DEF Next

\* The queue has room for one more signal.
Room == Len(os.queue) < MAXSIGNALS

\* What PwrBrkOK needs to be inductive.
BreakInv == Breaks(os, Len(os.queue)) /\ bsig # S_Wake

\* PwrBrkOK for any number of processes, as long as the queue does not fill up (a full
\* queue overwrites its first signal), nobody sends the wake-up signal (which is dropped
\* when its receiver is the current process) and no program sleeps for a limited time
\* (which may resurrect a dead reader): a read is open to signals only while a signal
\* that breaks it is queued.
THEOREM BreaksBacked ==
  ASSUME SleepTimes \subseteq {"never"}, S_Wake \notin Signals, S_Wake \notin HostSignals
  PROVE  Spec /\ []Room => []PwrBrkOK
<1>1. FamilyState /\ BreakInv => PwrBrkOK
  <2> SUFFICES ASSUME BreakInv, NEW p \in Pid, ~Gone(os.proc[p]), os.proc[p].pwr_brk
               PROVE  \E i \in 1 .. Len(os.queue) : /\ os.queue[i].pid = p
                                                    /\ os.queue[i].signal <= Pwr_Signal
    BY DEF PwrBrkOK
  <2> QED BY SlotIsNat DEF BreakInv, Breaks, Broken, Awaited
<1>2. Init => BreakInv
  <2> SUFFICES ASSUME Init PROVE BreakInv
    OBVIOUS
  <2>1. os.queue = << >> /\ bsig = 0 /\ \A p \in Slot : ~os.proc[p].pwr_brk
    BY DEF Init, UnusedProcess
  <2> QED BY <2>1 DEF BreakInv, Breaks, Broken, S_Wake
<1>3. FamilyState /\ [Next]_vars => FamilyState'
  BY StepFamily
<1>4. FamilyState /\ BreakInv /\ Room /\ [Next]_vars => BreakInv'
  <2> SUFFICES ASSUME FamilyState, BreakInv, Room, [Next]_vars PROVE BreakInv'
    OBVIOUS
  <2> DEFINE n == Len(os.queue)
  <2>1. n \in Nat /\ n < MAXSIGNALS /\ Breaks(os, n) /\ bsig # S_Wake
    <3>1. os.queue \in Seq(Entry(Nat))
      BY DEF FamilyState, TypeInv, TypeOK, KernelState, Entry
    <3> QED BY <3>1, LenProperties DEF BreakInv, Room
  <2> HIDE DEF n
  <2>2. Breaks(os', n + 1)
    BY <2>1, NextBreaks
  <2>3. bsig' # S_Wake
    BY <2>1, BroadcastSignal
  <2>4. Len(os'.queue) <= Len(os'.queue)
    <3>1. FamilyState'
      BY <1>3
    <3>2. os'.queue \in Seq(Entry(Nat))
      BY <3>1 DEF FamilyState, TypeInv, TypeOK, KernelState, Entry
    <3>3. Len(os'.queue) \in Nat
      BY <3>2, LenProperties
    <3> QED BY <3>3
  <2> QED BY <2>2, <2>3, <2>4 DEF BreakInv, Breaks, Broken, Awaited, Gone
<1> QED BY <1>1, <1>2, <1>3, <1>4, InitFamily, PTL DEF Spec
=============================================================================
