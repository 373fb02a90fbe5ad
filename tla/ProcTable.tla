------------------------------ MODULE ProcTable ------------------------------
(***************************************************************************)
(* The process table of OS9exec and the functions of procstuff.c that      *)
(* change it: new_process, AssignNewChild, kill_process, send_signal and   *)
(* sig_mask.  They call each other, so each one is written as an operator  *)
(* from a kernel state k to the kernel state it leaves behind; the module  *)
(* Kernel makes actions of them.                                           *)
(*                                                                         *)
(* A kernel state is a record of the C globals these functions share:      *)
(*   proc       procs[0 .. MAXPROCESSES-1]; entry 0 is never allocated     *)
(*   currentpid the process the main loop executes                         *)
(*   arbitrate  TRUE when do_arbitrate must look for another process       *)
(*   queue      sig_queue, a sequence of [pid, signal]                     *)
(*   pending    async_pending                                              *)
(* The registers of a process, its paths, modules, memory and alarms are   *)
(* other components; a process is here the fields its scheduling and its   *)
(* signals depend on, under the names of process_typ.                      *)
(***************************************************************************)
EXTENDS Naturals, Sequences

CONSTANTS MAXPROCESSES,   \* size of procs[]; 129 in os9exec_nt.h
          MAXSIGNALS,     \* size of sig_queue; 200 in os9exec_nt.h
          NewAge          \* rounds of do_arbitrate between two looks at a sleeper

ASSUME ProcTableAssumption == /\ MAXPROCESSES \in Nat /\ MAXPROCESSES > 2
                              /\ MAXSIGNALS \in Nat /\ MAXSIGNALS > 0
                              /\ NewAge \in Nat

S_Kill == 0
S_Wake == 1
Pwr_Signal == 32          \* the last signal that breaks a blocked read

PState == {"pUnused", "pStart", "pActive", "pDead", "pSleeping",
           "pWaiting", "pSysTask", "pWaitRead"}

Slot == 0 .. MAXPROCESSES - 1          \* indices of procs[]
Pid == 1 .. MAXPROCESSES - 1           \* the slots new_process hands out
KernelPid == 1                         \* allocated first, by os9exec_nt
UserPid == 2 .. MAXPROCESSES - 1       \* where F$Wait and do_arbitrate look

\* wakeUpTick compared with GetSystemTick(): already due, due later, MAX_SLEEP
WakeUpTick == {"due", "later", "never"}

Process == [state : PState, code : BOOLEAN, parent : Slot, sid : Slot, cid : Slot,
            signal : Nat, sigvec : BOOLEAN, masklevel : Nat, pwr_brk : BOOLEAN,
            way_to_icpt : BOOLEAN, icpt_pid : Slot, icpt_signal : Nat,
            rtestate : PState, saved_state : PState,
            wakeUpTick : WakeUpTick, pW_age : 0 .. NewAge]

KernelState == [proc : [Slot -> Process], currentpid : 0 .. MAXPROCESSES,
                arbitrate : BOOLEAN, pending : BOOLEAN,
                queue : Seq([pid : Slot, signal : Nat])]

\* init_processes: memset of the whole table
UnusedProcess ==
  [state |-> "pUnused", code |-> FALSE, parent |-> 0, sid |-> 0, cid |-> 0,
   signal |-> 0, sigvec |-> FALSE, masklevel |-> 0, pwr_brk |-> FALSE,
   way_to_icpt |-> FALSE, icpt_pid |-> 0, icpt_signal |-> 0,
   rtestate |-> "pUnused", saved_state |-> "pUnused",
   wakeUpTick |-> "due", pW_age |-> 0]

Gone(r) == r.state \in {"pUnused", "pDead"}
DeadChildren(k, p) ==
  {q \in Pid : k.proc[q].state = "pDead" /\ k.proc[q].parent = p}
LiveChildren(k, p) ==
  {q \in Pid : ~Gone(k.proc[q]) /\ k.proc[q].parent = p}
Least(S) == CHOOSE x \in S : \A y \in S : x <= y

-----------------------------------------------------------------------------
(* new_process takes the first free slot.  The fields of the previous      *)
(* owner that it leaves alone (way_to_icpt, icpt_pid, icpt_signal,         *)
(* rtestate, saved_state) stay as they were.                               *)
FreeSlots(k) == {q \in Pid : k.proc[q].state = "pUnused"}

NewProcess(k, q, parentid) ==
  [k EXCEPT !.proc[q] =
     [@ EXCEPT !.state = "pStart", !.code = TRUE, !.parent = parentid, !.sid = 0, !.cid = 0,
               !.signal = 0, !.sigvec = FALSE, !.masklevel = 0,
               !.pwr_brk = FALSE, !.wakeUpTick = "due", !.pW_age = 0]]

(* The children of p hang in a list: cid is the first, sid the next one.   *)
(* AssignNewChild takes q out of it, wherever it hangs.                    *)
ChildList(k, p) ==
  LET next[i \in Slot] ==
        IF i = 0 THEN k.proc[p].cid ELSE k.proc[next[i - 1]].sid
  IN  {next[i] : i \in Slot} \ {0}

UnlinkFirstOnly(k, p, q) ==                     \* mutant: no walk through the list
  IF k.proc[p].cid = q THEN [k EXCEPT !.proc[p].cid = k.proc[q].sid] ELSE k

AssignNewChild(k, p, q) ==
  LET before == {b \in Slot : b \in ChildList(k, p) /\ k.proc[b].sid = q}
  IN  IF k.proc[p].cid = q
      THEN [k EXCEPT !.proc[p].cid = k.proc[q].sid]
      ELSE IF q \in ChildList(k, p) /\ before # {}
      THEN [k EXCEPT !.proc[Least(before)].sid = k.proc[q].sid]
      ELSE k

\* A dead child q is reported to p and its descriptor is free again.
Reap(k, p, q) ==
  LET a == AssignNewChild(k, p, q)
  IN  [a EXCEPT !.proc[q].state = "pUnused"]

-----------------------------------------------------------------------------
(* kill_process: the children become orphans (those already dead vanish),  *)
(* the process stays as pDead until its parent asks for it, or vanishes at *)
(* once when it has no parent.  If it was the current one its parent is    *)
(* made current, whatever the parent's state.                              *)
OrphanKeepsZombie(r) == [r EXCEPT !.parent = 0]   \* mutant: nobody frees it

Orphan(r) ==
  [r EXCEPT !.parent = 0, !.state = IF @ = "pDead" THEN "pUnused" ELSE @]

Orphaned(k, p) ==
  [q \in Slot |->
     LET r == k.proc[q]
     IN  IF r.state # "pUnused" /\ r.parent = p THEN Orphan(r) ELSE r]

AlwaysDead(parentid) == "pDead"                   \* mutant: as if all had parents
AfterDeath(parentid) == IF parentid = 0 THEN "pUnused" ELSE "pDead"

KillProcess(k, p) ==
  LET m == [k EXCEPT !.proc[p].masklevel = 0]
      parentid == k.proc[p].parent
  IN  CASE k.proc[p].state = "pUnused" -> m
        [] k.proc[p].state = "pDead"   -> [m EXCEPT !.proc = Orphaned(m, p)]
        [] OTHER ->
             [m EXCEPT !.proc = [Orphaned(m, p) EXCEPT ![p].state = AfterDeath(parentid)],
                       !.currentpid = IF p = k.currentpid THEN parentid ELSE k.currentpid,
                       !.arbitrate =
                          IF p = k.currentpid THEN parentid = 0 ELSE k.arbitrate]

-----------------------------------------------------------------------------
(* send_signal.  async is async_area: only the main loop, after a call, and *)
(* do_arbitrate, at a sleeper, open that window; everywhere else a signal   *)
(* is queued and async_pending tells the loop to look.  S_Kill never waits. *)
ReadBlocked(r) == r.state = "pWaitRead" /\ ~r.pwr_brk

\* The process whose way_to_icpt holds the delivery up: the current one.
Sender(k, t) == IF k.currentpid = 0 THEN t ELSE k.currentpid

MustQueueForRead(k, t, async) ==                  \* mutant: as if only reads blocked
  k.proc[Sender(k, t)].way_to_icpt \/ ReadBlocked(k.proc[t])

MustQueue(k, t, async) ==
  \/ k.proc[Sender(k, t)].way_to_icpt
  \/ k.proc[t].masklevel > 0
  \/ ReadBlocked(k.proc[t])
  \/ ~async

\* A full queue keeps its length, but pid[MAXSIGNALS] is also signal[0].
Store(q, t, sig) ==
  IF Len(q) < MAXSIGNALS THEN Append(q, [pid |-> t, signal |-> sig])
                         ELSE [q EXCEPT ![1].signal = t]

Enqueue(k, t, sig, async) ==
  IF sig = S_Wake /\ k.proc[t].masklevel > 0
  THEN k
  ELSE [k EXCEPT !.proc[t].pwr_brk =
                    @ \/ (ReadBlocked(k.proc[t]) /\ sig <= Pwr_Signal),
                 !.queue = Store(@, t, sig),
                 !.pending = @ \/ ~async]

\* The first part of a delivery: remember the target, wake it if it sleeps.
StillBroken(r, sig) == r.pwr_brk                  \* mutant: never switched off
PwrBrkAfter(r, sig) == r.pwr_brk /\ sig > Pwr_Signal

Wakeup(k, t, sig) ==
  LET c == Sender(k, t)
      noted == [k EXCEPT
                  !.proc[t].pwr_brk = PwrBrkAfter(k.proc[t], sig),
                  !.proc[c].icpt_pid = t, !.proc[c].icpt_signal = sig]
      first == k.currentpid = 0 /\ sig = S_Wake
  IN  IF k.proc[t].state # "pSleeping"
      THEN noted
      ELSE [noted EXCEPT !.proc[t].state = "pActive",
                         !.proc[t].way_to_icpt = TRUE,
                         !.proc[c].way_to_icpt = TRUE,
                         !.currentpid = IF first THEN t ELSE k.currentpid,
                         !.arbitrate = first]

\* The target has an intercept routine: it runs next, as process t.
SavedAsIs(r) == r.state                           \* mutant: saved before the wakeup
ReturnState(r) == IF r.state = "pWaitRead" THEN "pWaitRead" ELSE "pActive"

Intercept(k, t, sig, c) ==
  LET first == k.currentpid = 0
  IN  [k EXCEPT !.proc[c].way_to_icpt = TRUE,
                !.proc[t] = [@ EXCEPT !.way_to_icpt = TRUE, !.signal = sig,
                                      !.icpt_signal = sig,
                                      !.rtestate = ReturnState(k.proc[t]),
                                      !.state = "pActive"],
                !.currentpid = IF first THEN t ELSE k.currentpid,
                !.arbitrate = first]

\* It has none: the signal kills it.
Abort(k, t, sig, c) ==
  LET noted == [k EXCEPT !.proc[t].signal = sig, !.arbitrate = FALSE]
      dead == KillProcess(noted, t)
  IN  [dead EXCEPT !.proc[t].way_to_icpt = FALSE,
                   !.proc[c].way_to_icpt = FALSE]

Deliver(k, t, sig) ==
  LET c == Sender(k, t)
      w == Wakeup(k, t, sig)
  IN  IF sig = S_Wake \/ k.proc[t].signal # 0
      THEN w
      ELSE IF k.proc[t].sigvec THEN Intercept(w, t, sig, c)
                               ELSE Abort(w, t, sig, c)

SendSignal(k, t, sig, async) ==
  IF Gone(k.proc[t]) \/ (sig = S_Wake /\ t = k.currentpid)
  THEN k
  ELSE IF sig = S_Kill THEN KillProcess(k, t)
  ELSE IF MustQueue(k, t, async) THEN Enqueue(k, t, sig, async)
  ELSE Deliver(k, t, sig)

-----------------------------------------------------------------------------
(* sig_mask sets the mask level of p and then takes one signal out of the  *)
(* queue, the oldest one whose target can take it, and sends it again.     *)
Ready(k, i) ==
  LET r == k.proc[k.queue[i].pid]
  IN  r.masklevel = 0 /\ (r.state # "pWaitRead" \/ r.pwr_brk)

ReadyEntries(k) == {i \in 1 .. Len(k.queue) : Ready(k, i)}

Without(q, i) == SubSeq(q, 1, i - 1) \o SubSeq(q, i + 1, Len(q))

TakeSignal(k, async) ==
  IF ReadyEntries(k) = {}
  THEN k
  ELSE LET i == Least(ReadyEntries(k))
           rest == Without(k.queue, i)
           taken == [k EXCEPT !.queue = rest, !.pending = @ /\ rest # << >>]
       IN  SendSignal(taken, k.queue[i].pid, k.queue[i].signal, async)

MaskOff(k, p, async) ==      \* sig_mask(p, 0)
  TakeSignal([k EXCEPT !.proc[p].masklevel = 0], async)
MaskUp(k, p, async) ==       \* sig_mask(p, 1)
  TakeSignal([k EXCEPT !.proc[p].masklevel = @ + 1], async)
BelowZero(level) == level - 1                     \* mutant: no floor
OneLess(level) == IF level = 0 THEN 0 ELSE level - 1
MaskDown(k, p, async) ==     \* sig_mask(p, -1)
  TakeSignal([k EXCEPT !.proc[p].masklevel = OneLess(@)], async)

=============================================================================
